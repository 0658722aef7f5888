--------------------------- MODULE MCSlackSession ---------------------------
(* Small instances of the account session for TLC. *)
EXTENDS SlackSession, TLC

(* The channels are interchangeable. *)
ChannelSymmetry == Permutations(Channels)
=============================================================================
