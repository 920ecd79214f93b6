------------------------------- MODULE MCLink -------------------------------
(* A link that never redials, one that redials without limit, one with a limit. *)
EXTENDS Link
MCMaxRedials == {-1, 0, 1}
=============================================================================
