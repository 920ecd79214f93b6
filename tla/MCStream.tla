------------------------------ MODULE MCStream ------------------------------
(* Instances of Stream. *)
EXTENDS Stream

Mode(comp, enc, n, m) == [comp |-> comp, enc |-> enc, losses |-> n, flight |-> m]

MCFrames == {<< 0, 0 >>, << 1, 1 >>}
MCModes == { Mode("pred1", "none", 2, 2), Mode("deflate", "none", 1, 3), Mode("none", "dese", 3, 2),
             Mode("pred1", "dese-bis", 1, 2), Mode("mppc", "dese", 1, 2),
             \* for the sizes only
             Mode("none", "dese-bis", 0, 1), Mode("pred1", "dese", 0, 1),
             Mode("mppc", "dese-bis", 0, 1), Mode("deflate", "dese-bis", 0, 1) }
MCMrus == 1480 .. 1503
=============================================================================
