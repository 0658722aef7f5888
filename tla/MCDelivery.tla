----------------------------- MODULE MCDelivery -----------------------------
(* A small instance of the pool and the server for TLC. *)
EXTENDS Delivery, TLC

(* The requests are interchangeable. *)
SslSymmetry == Permutations(Ssl)
=============================================================================
