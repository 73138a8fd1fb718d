----------------------------- MODULE MCFetLife ------------------------------
(***************************************************************************)
(* FetLife for the servers of the emulator: niu.c and operator.c, console.c *)
(* and pni.c, and the sockets of ext.c, which it accepts or connects.      *)
(***************************************************************************)
EXTENDS FetLife

MCUses ==
    {<<"accept", "poll">>, <<"accept", "callback">>, <<"accept", "ext">>,
     <<"connect", "ext">>}

\* A server that closes from its data callback.
MCCallback == {<<"accept", "callback">>}
=============================================================================
