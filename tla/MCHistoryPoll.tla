---------------------------- MODULE MCHistoryPoll ----------------------------
(* A small instance of the history poll for TLC. *)
EXTENDS HistoryPoll, TLC

(* The channels are interchangeable, and so are the names of the polls. *)
Symmetry == Permutations(Channels) \cup Permutations(Polls)
=============================================================================
