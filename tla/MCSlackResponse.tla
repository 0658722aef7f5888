--------------------------- MODULE MCSlackResponse ---------------------------
(* A small instance of the answers for TLC. *)
EXTENDS SlackResponse

(* Names are interchangeable, and so are values. *)
CookieSymmetry == Permutations(Names) \cup Permutations(Values)
=============================================================================
