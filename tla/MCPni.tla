------------------------------- MODULE MCPni -------------------------------
(* PNI for TLC. *)
EXTENDS Pni

Stroke(s, key) == [bytes |-> s, key |-> key]
SomeStrokes ==
    {Stroke(<<"letter">>, "norm"), Stroke(<<"stop">>, "stop"),
     Stroke(<<"esc", "letter", "letter">>, "key3"),
     Stroke(<<"esc", "touch", "letter", "letter", "letter", "letter">>, "none")}

Setting(u, k, x, m, l, kinds, cases) ==
    [users |-> u, strokes |-> k, stops |-> x, messages |-> m, loads |-> l, kinds |-> kinds,
     cases |-> cases]

\* Users who type; keys of all kinds; output and its flow; PLATO loaded twice; a key and a
\* message at once.
SomeSettings ==
    {Setting(2, 2, 0, 0, 1, {"norm"}, {}),
     Setting(2, 1, 0, 0, 1, {"norm", "stop", "key3", "none"}, {"abt"}),
     Setting(1, 0, 1, 3, 1, {}, {}),
     Setting(2, 0, 0, 1, 2, {}, {"early", "late"}),
     Setting(1, 1, 1, 1, 1, {"norm"}, {"flow"})}
=============================================================================
