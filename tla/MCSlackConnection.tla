-------------------------- MODULE MCSlackConnection --------------------------
(* Small instances of the request pool for TLC. *)
EXTENDS SlackConnectionInvariant, TLC

(* The requests of one method are interchangeable. *)
SslSymmetry == Permutations(Ssl)
PlainSymmetry == Permutations(Requests \ Ssl)
=============================================================================
