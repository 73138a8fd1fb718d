SPECIFICATION FairSpec
CONSTANT Setups <- MCSetups
INVARIANTS
    ChannelSafe
PROPERTIES
    WordsKept TransfersEnd
