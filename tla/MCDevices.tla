----------------------------- MODULE MCDevices -----------------------------
(* Small devices for TLC. *)
EXTENDS Devices, TLC

MCUsed == AllDevices

(* 669: a reel with a tape mark; one with a block to write over, one that is padded.           *)
TapeCell(k, n) == [kind |-> k, v |-> n]
TapeCells(block, padded) ==
    LET n == <<TapeCell("length", Len(block))>>
    IN  IF block = <<>> THEN n
        ELSE n \o [i \in DOMAIN block |-> TapeCell("word", block[i])]
               \o (IF padded THEN <<TapeCell("pad", 0)>> ELSE <<>>) \o n
RECURSIVE AllCells(_, _)
AllCells(blocks, padded) ==
    IF blocks = <<>> THEN <<>>
    ELSE TapeCells(Head(blocks), padded) \o AllCells(Tail(blocks), padded)
Reel(blocks, ring, padded) ==
    [blocks |-> blocks, ring |-> ring, padded |-> padded, cells |-> AllCells(blocks, padded),
     ends |-> [i \in DOMAIN blocks |-> Len(AllCells(SubSeq(blocks, 1, i), padded))]]
OneMounted == 0 :> Reel(<<<<>>>>, FALSE, FALSE)
MCTapePlans ==
    {[mounted |-> {}, writes |-> 2, loads |-> 1, all |-> TRUE],
     [mounted |-> {0}, writes |-> 1, loads |-> 1, all |-> FALSE],
     [mounted |-> {}, writes |-> 0, loads |-> 2, all |-> FALSE]}
SomeImages == {Reel(<<<<1>>>>, TRUE, FALSE), Reel(<<<<2, 3>>>>, TRUE, TRUE)}

(* Disks: drive 1 is an 885.  Seeks to the ends of a track and of a cylinder, and past the last *)
(* cylinder; two or three transfers after each other with full and half tracking.              *)
Place(c, t, s) == [c |-> c, t |-> t, s |-> s]
OneDrive == [mounted |-> {0}, loads |-> {0}, steps |-> {1, 2}, transfers |-> 2,
             seeks |-> {Place(0, 1, 2), Place(0, 1, 3), Place(2, 0, 0)}]
MCDiskPlans ==
    {OneDrive,
     [OneDrive EXCEPT !.loads = {}, !.transfers = 3, !.steps = {1},
                      !.seeks = {Place(1, 0, 2), Place(1, 1, 3)}],
     [OneDrive EXCEPT !.loads = {}, !.transfers = 3, !.steps = {2}, !.seeks = {Place(0, 1, 2)}],
     [OneDrive EXCEPT !.mounted = {0, 1}, !.loads = {}, !.steps = {2}, !.seeks = {Place(0, 1, 2)}]}

(* Decks with and without an end of information card. *)
Card(kindOf, of, n) == [kind |-> kindOf, deck |-> of, n |-> n]
WithRecord == <<Card("text", 1, 1), Card("eor", 1, 2)>>
WithEnd == <<Card("text", 2, 1), Card("eoi", 2, 2)>>
Single == <<Card("text", 3, 1)>>
TwoDecks == [parts |-> {"cr"}, decks |-> <<WithRecord, WithEnd>>, words |-> 4, separate |-> FALSE,
             overread |-> FALSE, interrupts |-> {}]
MCCardPlans ==
    {TwoDecks,
     [TwoDecks EXCEPT !.decks = <<WithRecord, Single>>, !.words = 3, !.overread = TRUE],
     [TwoDecks EXCEPT !.decks = <<Single, WithEnd>>, !.words = 2, !.interrupts = {"eoiInt"}],
     [TwoDecks EXCEPT !.parts = {"cp"}, !.decks = <<>>, !.words = 5],
     [TwoDecks EXCEPT !.parts = {"cr", "cp"}, !.decks = <<>>, !.words = 1, !.interrupts = {"eoiInt"}],
     [TwoDecks EXCEPT !.parts = {"lp"}, !.decks = <<>>, !.words = 3],
     [TwoDecks EXCEPT !.parts = {"lp"}, !.decks = <<>>, !.words = 4, !.separate = TRUE],
     [TwoDecks EXCEPT !.parts = {"cr", "lp"}, !.decks = <<Single>>, !.words = 1,
                      !.interrupts = {"readyInt"}]}

(* 607: a tape with a tape mark between records, and another tape.  405: one deck is empty. *)
MCReels == 0 :> <<<<1, 2>>, <<>>, <<3, 4>>>> @@ 1 :> <<<<5, 6, 7>>>>
MCDecks == <<<<1, 2>>, <<3>>, <<>>, <<4>>>>

MCKinds == {"mux6676", "tpmux"}
=============================================================================
