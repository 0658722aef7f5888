-------------------------- MODULE RequestLifecycle ---------------------------
(***************************************************************************)
(* What the request pool promises each caller, without saying how: no      *)
(* queue, no timers, no sockets.  A request is submitted, is attempted a   *)
(* bounded number of times with a bounded number of others, gets at most   *)
(* one verdict, and ends.  A verdict is final: nothing is attempted for a  *)
(* request that has one.                                                   *)
(***************************************************************************)
EXTENDS Naturals, FiniteSets

CONSTANTS Requests, MaxConnections, MaxTries

Verdicts == {"answered", "empty", "unparsable", "fatal", "cancelled"}

VARIABLES
  stage,    \* "new", "queued", "active" or "ended"
  tries,    \* attempts begun
  verdict,  \* "none" until something became of the request
  open      \* the service still takes requests

vars == <<stage, tries, verdict, open>>

TypeOK ==
  /\ stage \in [Requests -> {"new", "queued", "active", "ended"}]
  /\ tries \in [Requests -> 0 .. MaxTries]
  /\ verdict \in [Requests -> {"none"} \cup Verdicts]
  /\ open \in BOOLEAN

Active == {r \in Requests : stage[r] = "active"}

Init ==
  /\ stage = [r \in Requests |-> "new"]
  /\ tries = [r \in Requests |-> 0]
  /\ verdict = [r \in Requests |-> "none"]
  /\ open = TRUE

Stays(r) ==
  /\ stage'[r] = stage[r]
  /\ tries'[r] = tries[r]
  /\ verdict'[r] = verdict[r]

(* Taken in, and attempted at once if there is room. *)
Submit(r) ==
  /\ open /\ open'
  /\ stage[r] = "new"
  /\ \/ stage'[r] = "queued" /\ tries'[r] = 0
     \/ stage'[r] = "active" /\ tries'[r] = 1
  /\ verdict'[r] = "none"

(* A first attempt, or another one after a failure. *)
Attempt(r) ==
  /\ open /\ open'
  /\ stage[r] \in {"queued", "active"}
  /\ verdict[r] = "none"
  /\ tries[r] < MaxTries
  /\ stage'[r] = "active"
  /\ tries'[r] = tries[r] + 1
  /\ verdict'[r] = "none"

(* A failed attempt with tries to spare goes back to wait. *)
BackOff(r) ==
  /\ stage[r] = "active"
  /\ verdict[r] = "none"
  /\ tries[r] < MaxTries
  /\ stage'[r] = "queued"
  /\ tries'[r] = tries[r]
  /\ verdict'[r] = "none"

(* The caller is being told; its slot is still taken. *)
Answer(r) ==
  /\ stage[r] = "active"
  /\ verdict[r] = "none"
  /\ stage'[r] = "active"
  /\ tries'[r] = tries[r]
  /\ verdict'[r] = "answered"

(* Only an active request ends, except when the service closes. *)
End(r) ==
  /\ stage[r] = "active" \/ (stage[r] = "queued" /\ ~open')
  /\ stage'[r] = "ended"
  /\ tries'[r] = tries[r]
  /\ IF verdict[r] = "none"
     THEN /\ verdict'[r] \in Verdicts \ {"answered"}
          /\ verdict'[r] = "cancelled" <=> ~open'
     ELSE verdict'[r] = verdict[r]

(* One step may end a request and start another, or end them all. *)
Next ==
  /\ TypeOK'
  /\ ~open => ~open'
  /\ ~open' => \A r \in Requests : stage'[r] \in {"new", "ended"}
  /\ \A r \in Requests :
       Stays(r) \/ Submit(r) \/ Attempt(r) \/ BackOff(r) \/ Answer(r) \/ End(r)
  /\ Cardinality(Active') <= MaxConnections

Spec == Init /\ [][Next]_vars
=============================================================================
