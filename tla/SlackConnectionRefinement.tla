----------------------- MODULE SlackConnectionRefinement -----------------------
(***************************************************************************)
(* The request pool implements RequestLifecycle: each handler, for each    *)
(* request, is a step the lifecycle allows.  A handler concerns one        *)
(* request, and slack_next_connection may start another in the same step.  *)
(***************************************************************************)
EXTENDS SlackConnectionProofs

Verdict(r) == IF fate[r] \in Settled THEN fate[r] ELSE "none"

(* Some way the lifecycle lets request r go. *)
Allowed(r) ==
  \/ Lifecycle!Stays(r) \/ Lifecycle!Submit(r) \/ Lifecycle!Attempt(r)
  \/ Lifecycle!BackOff(r) \/ Lifecycle!Answer(r) \/ Lifecycle!End(r)

(* What the lifecycle sees of one request. *)
LEMMA Seen ==
  ASSUME NEW r \in Requests
  PROVE  /\ Lifecycle!Stays(r) <=>
              Stage(r)' = Stage(r) /\ timeout_watcher'[r] = timeout_watcher[r]
                /\ Verdict(r)' = Verdict(r)
         /\ Lifecycle!Submit(r) <=>
              /\ gc # "closed" /\ gc' # "closed"
              /\ Stage(r) = "new"
              /\ \/ Stage(r)' = "queued" /\ timeout_watcher'[r] = 0
                 \/ Stage(r)' = "active" /\ timeout_watcher'[r] = 1
              /\ Verdict(r)' = "none"
         /\ Lifecycle!Attempt(r) <=>
              /\ gc # "closed" /\ gc' # "closed"
              /\ Stage(r) \in {"queued", "active"}
              /\ Verdict(r) = "none"
              /\ timeout_watcher[r] < MaxTries
              /\ Stage(r)' = "active"
              /\ timeout_watcher'[r] = timeout_watcher[r] + 1
              /\ Verdict(r)' = "none"
         /\ Lifecycle!BackOff(r) <=>
              /\ Stage(r) = "active"
              /\ Verdict(r) = "none"
              /\ timeout_watcher[r] < MaxTries
              /\ Stage(r)' = "queued"
              /\ timeout_watcher'[r] = timeout_watcher[r]
              /\ Verdict(r)' = "none"
         /\ Lifecycle!Answer(r) <=>
              /\ Stage(r) = "active"
              /\ Verdict(r) = "none"
              /\ Stage(r)' = "active"
              /\ timeout_watcher'[r] = timeout_watcher[r]
              /\ Verdict(r)' = "answered"
         /\ Lifecycle!End(r) <=>
              /\ Stage(r) = "active" \/ (Stage(r) = "queued" /\ gc' = "closed")
              /\ Stage(r)' = "ended"
              /\ timeout_watcher'[r] = timeout_watcher[r]
              /\ IF Verdict(r) = "none"
                 THEN /\ Verdict(r)' \in Lifecycle!Verdicts \ {"answered"}
                      /\ Verdict(r)' = "cancelled" <=> gc' = "closed"
                 ELSE Verdict(r)' = Verdict(r)
BY DEF Lifecycle!Stays, Lifecycle!Submit, Lifecycle!Attempt, Lifecycle!BackOff,
       Lifecycle!Answer, Lifecycle!End, Verdict

-----------------------------------------------------------------------------
(* Single requests. *)

(* slack_next_connection begins an attempt for the connection it pops, and *)
(* leaves every other where the handler had it.                            *)
LEMMA Promoted ==
  ASSUME TypeOK,
         NEW q \in Seq(Requests), NEW cs \in SUBSET Requests, NEW h, NEW s,
         slack_next_connection(q, cs, h, s)
  PROVE  \A c \in Requests :
           \/ c \in Elements(q) /\ c \in conns' /\ timeout_watcher'[c] = timeout_watcher[c] + 1
           \/ (c \in conns' <=> c \in cs) /\ timeout_watcher'[c] = timeout_watcher[c]
<1>1. CASE q # <<>> /\ \E linked \in BOOLEAN : slack_attempt_connection(Head(q), cs, h, s, linked)
  <2>1. Head(q) \in Elements(q) /\ Head(q) \in Requests
    BY <1>1, PopElements
  <2>2. /\ conns' = cs \cup {Head(q)}
        /\ timeout_watcher' = [timeout_watcher EXCEPT ![Head(q)] = @ + 1]
    BY <1>1 DEF slack_attempt_connection
  <2> QED
    BY <2>1, <2>2 DEF TypeOK
<1>2. CASE conns' = cs /\ UNCHANGED timeout_watcher
  BY <1>2
<1> QED
  BY <1>1, <1>2 DEF slack_next_connection

(* A request the handler does not concern stays as it is or, if it waited, *)
(* is attempted.                                                           *)
LEMMA OthersAllowed ==
  ASSUME PoolInv, NEW c \in Requests,
         gc # "closed", gc' # "closed",
         alloc'[c] = alloc[c], fate'[c] = fate[c],
         \/ c \in Elements(waiting) /\ c \in conns'
              /\ timeout_watcher'[c] = timeout_watcher[c] + 1
         \/ (c \in conns' <=> c \in conns) /\ timeout_watcher'[c] = timeout_watcher[c]
  PROVE  Allowed(c)
<1>1. CASE (c \in conns' <=> c \in conns) /\ timeout_watcher'[c] = timeout_watcher[c]
  <2>1. Lifecycle!Stays(c)
    BY <1>1, Seen DEF Stage, Verdict
  <2> QED
    BY <2>1 DEF Allowed
<1>2. CASE c \in Elements(waiting) /\ c \in conns'
             /\ timeout_watcher'[c] = timeout_watcher[c] + 1
  <2>1. alloc[c] = "live" /\ c \notin conns
    BY <1>2 DEF PoolInv, Live, Apart
  <2>2. fate[c] = "pending"
    BY <2>1, PoolAssumption DEF PoolInv, Running
  <2>3. timeout_watcher[c] < MaxTries
    BY <1>2 DEF PoolInv, Counted
  <2>4. Lifecycle!Attempt(c)
    BY <1>2, <2>1, <2>2, <2>3, Seen DEF Stage, Verdict, Settled
  <2> QED
    BY <2>4 DEF Allowed
<1> QED
  BY <1>1, <1>2

(* A request that no variable says anything new of stays as it is.         *)
LEMMA Untouched ==
  ASSUME NEW c \in Requests,
         alloc'[c] = alloc[c], fate'[c] = fate[c], c \in conns' <=> c \in conns,
         timeout_watcher'[c] = timeout_watcher[c]
  PROVE  Allowed(c)
BY Seen DEF Allowed, Stage, Verdict

(* A connection error ends its request, and concerns no other.             *)
LEMMA FatalAllowed ==
  ASSUME PoolInv, NEW r \in conns, running = None, NEW h, NEW s,
         slack_fatal_connection_cb(r, h, s), NEW c \in Requests
  PROVE  Allowed(c)
<1>1. /\ r \in Requests /\ alloc[r] = "live"
      /\ gc # "closed" /\ fate[r] = "pending"
      /\ alloc \in [Requests -> {"none", "live", "freed"}]
      /\ fate \in [Requests -> {"unposted", "pending"} \cup Settled]
  BY PoolAssumption DEF PoolInv, TypeOK, Live, Closed, Running
<1>2. /\ conns' = conns \ {r}
      /\ alloc' = [alloc EXCEPT ![r] = "freed"]
      /\ gc' = "error"
      /\ fate' = [fate EXCEPT ![r] = "fatal"]
      /\ UNCHANGED timeout_watcher
  BY DEF slack_fatal_connection_cb
<1>3. CASE c = r
  <2>1. Lifecycle!End(r)
    BY <1>1, <1>2, Seen DEF Stage, Verdict, Settled, Lifecycle!Verdicts
  <2> QED
    BY <1>3, <2>1 DEF Allowed
<1>4. CASE c # r
  BY <1>1, <1>2, <1>4, Untouched
<1> QED
  BY <1>3, <1>4

(* A retry backs off, or is attempted again at once if nothing else waits. *)
LEMMA ResendAllowed ==
  ASSUME PoolInv, NEW r \in conns, running = None,
         NEW h, NEW s, ResendOrGiveUp(r, h, s), NEW c \in Requests
  PROVE  Allowed(c)
<1>1. /\ TypeOK /\ r \in Requests /\ alloc[r] = "live"
      /\ gc # "closed" /\ fate[r] = "pending"
      /\ timeout_watcher[r] = retry_count[r] + 1
      /\ waiting \in Seq(Requests) /\ conns \in SUBSET Requests
  BY PoolAssumption DEF PoolInv, TypeOK, Live, Closed, Running, Counted
<1>2. CASE retry_count[r] + 1 < MaxTries /\ Requeue(r, h, s)
  <2> DEFINE q == Append(waiting, r)
  <2>1. q \in Seq(Requests) /\ Elements(q) = Elements(waiting) \cup {r}
    BY <1>1, PushElements
  <2>2. /\ slack_next_connection(q, conns \ {r}, [h EXCEPT ![r] = "none"],
                                 s \ Cancelled(r, h, s))
        /\ UNCHANGED <<alloc, fate, gc>>
    BY <1>2 DEF Requeue, life
  <2> HIDE DEF q
  <2>3. \/ c \in Elements(q) /\ c \in conns' /\ timeout_watcher'[c] = timeout_watcher[c] + 1
        \/ (c \in conns' <=> c \in conns \ {r}) /\ timeout_watcher'[c] = timeout_watcher[c]
    BY <1>1, <2>1, <2>2, Promoted
  <2>4. CASE c = r
    <3>1. Lifecycle!Attempt(r) \/ Lifecycle!BackOff(r)
      BY <1>1, <1>2, <2>2, <2>3, <2>4, Seen DEF Stage, Verdict, Settled
    <3> QED
      BY <2>4, <3>1 DEF Allowed
  <2>5. CASE c # r
    BY <1>1, <2>1, <2>2, <2>3, <2>5, OthersAllowed
  <2> QED
    BY <2>4, <2>5
<1>3. CASE slack_fatal_connection_cb(r, h, s)
  BY <1>3, FatalAllowed
<1> QED
  BY <1>2, <1>3 DEF ResendOrGiveUp

(* An answered, empty or unparsable request ends, and another may start.   *)
LEMMA FinishAllowed ==
  ASSUME PoolInv, NEW r \in conns, NEW s, FinishAndNext(r, s),
         gc' = gc,
         \/ fate[r] = "answered" /\ fate'[r] = "answered"
         \/ fate[r] = "pending" /\ fate'[r] \in {"empty", "unparsable"},
         \A other \in Requests \ {r} : fate'[other] = fate[other],
         NEW c \in Requests
  PROVE  Allowed(c)
<1>1. /\ TypeOK /\ r \in Requests /\ alloc[r] = "live" /\ gc # "closed"
      /\ r \notin Elements(waiting)
      /\ waiting \in Seq(Requests) /\ conns \in SUBSET Requests
      /\ alloc \in [Requests -> {"none", "live", "freed"}]
  BY DEF PoolInv, TypeOK, Live, Closed, Apart
<1>2. /\ alloc' = [alloc EXCEPT ![r] = "freed"]
      /\ slack_next_connection(waiting, conns \ {r}, [handle EXCEPT ![r] = "none"],
                               s \ Cancelled(r, handle, s))
  BY DEF FinishAndNext
<1>3. \/ c \in Elements(waiting) /\ c \in conns'
           /\ timeout_watcher'[c] = timeout_watcher[c] + 1
      \/ (c \in conns' <=> c \in conns \ {r}) /\ timeout_watcher'[c] = timeout_watcher[c]
  BY <1>1, <1>2, Promoted
<1>4. CASE c = r
  <2>1. Lifecycle!End(r)
    BY <1>1, <1>2, <1>3, <1>4, Seen DEF Stage, Verdict, Settled, Lifecycle!Verdicts
  <2> QED
    BY <1>4, <2>1 DEF Allowed
<1>5. CASE c # r
  BY <1>1, <1>2, <1>3, <1>5, OthersAllowed
<1> QED
  BY <1>4, <1>5

-----------------------------------------------------------------------------
(* The whole pool. *)

(* A fresh pool is a fresh lifecycle. *)
LEMMA LifecycleInit == Init => Lifecycle!Init
BY DEF Init, Lifecycle!Init, Stage, Settled

(* The lifecycle counts as the pool does. *)
LEMMA SameCardinality == \A S : Lifecycle!Cardinality(S) = Cardinality(S)
BY Zenon DEF Lifecycle!Cardinality, Cardinality

(* What the lifecycle's Next says of a state. *)
Bounds ==
  /\ Lifecycle!TypeOK
  /\ Cardinality(Lifecycle!Active) <= MaxConnections
  /\ gc = "closed" => \A r \in Requests : Stage(r) \in {"new", "ended"}

(* The pool's invariant gives the lifecycle its types and its limit.       *)
LEMMA LifecycleBounds == PoolInv => Bounds
<1> SUFFICES ASSUME PoolInv PROVE Bounds
  OBVIOUS
<1>1. \A r \in Requests : Stage(r) \in {"new", "queued", "active", "ended"}
  BY DEF PoolInv, TypeOK, Stage
<1>2. \A r \in Requests : timeout_watcher[r] \in 0 .. MaxTries
  BY PoolAssumption DEF PoolInv, TypeOK, Counted
<1>3. Lifecycle!TypeOK
  <2>1. timeout_watcher \in [Requests -> 0 .. MaxTries]
    BY <1>2 DEF PoolInv, TypeOK
  <2> QED
    BY <1>1, <2>1 DEF Lifecycle!TypeOK, Lifecycle!Verdicts, Settled
<1>4. Lifecycle!Active = conns
  BY <1>1 DEF Lifecycle!Active, Stage, PoolInv, TypeOK, Live
<1>5. Cardinality(Lifecycle!Active) <= MaxConnections
  BY <1>4 DEF PoolInv, PoolBounded
<1>6. ASSUME gc = "closed", NEW r \in Requests PROVE Stage(r) \in {"new", "ended"}
  <2>1. Elements(waiting) = {} /\ conns = {}
    BY <1>6, EmptySeq DEF PoolInv, Closed, Elements
  <2> QED
    BY <2>1 DEF PoolInv, Live, Stage, TypeOK
<1> QED
  BY <1>3, <1>5, <1>6 DEF Bounds

(* If every request goes an allowed way, so does the whole.                *)
LEMMA TogetherAllowed ==
  ASSUME PoolInv', gc = "closed" => gc' = "closed", \A r \in Requests : Allowed(r)
  PROVE  Lifecycle!Next
<1>1. Bounds'
  BY LifecycleBounds, PTL
<1>2. Lifecycle!Cardinality(Lifecycle!Active') = Cardinality(Lifecycle!Active')
  BY SameCardinality
<1> QED
  BY <1>1, <1>2 DEF Bounds, Lifecycle!Next, Allowed

(* Each handler is a step of the lifecycle, or one it does not see.        *)
LEMMA LifecycleStep == PoolInv /\ PoolInv' /\ [Next]_vars => [Lifecycle!Next]_(Lifecycle!vars)
<1>a. ASSUME UNCHANGED vars PROVE UNCHANGED Lifecycle!vars
  <2>1. \A r \in Requests : Stage(r)' = Stage(r)
    BY <1>a DEF vars, Stage
  <2> QED
    BY <1>a, <2>1 DEF vars, Lifecycle!vars
<1> SUFFICES ASSUME PoolInv, PoolInv', Next PROVE [Lifecycle!Next]_(Lifecycle!vars)
  BY <1>a
<1>0. /\ TypeOK /\ conns \in SUBSET Requests /\ waiting \in Seq(Requests)
      /\ alloc \in [Requests -> {"none", "live", "freed"}]
      /\ fate \in [Requests -> {"unposted", "pending"} \cup Settled]
  BY DEF PoolInv, TypeOK
<1>1. ASSUME NEW r \in Requests, get_or_post_request(r), NEW c \in Requests
      PROVE  Allowed(c)
  <2> DEFINE q == Append(waiting, r)
  <2>1. q \in Seq(Requests) /\ Elements(q) = Elements(waiting) \cup {r}
    BY <1>0, PushElements
  <2>2. /\ gc # "closed" /\ gc' = gc /\ alloc[r] = "none"
        /\ alloc' = [alloc EXCEPT ![r] = "live"]
        /\ fate' = [fate EXCEPT ![r] = "pending"]
        /\ slack_next_connection(q, conns, handle, sources)
    BY <1>1 DEF get_or_post_request
  <2> HIDE DEF q
  <2>3. \/ c \in Elements(q) /\ c \in conns' /\ timeout_watcher'[c] = timeout_watcher[c] + 1
        \/ (c \in conns' <=> c \in conns) /\ timeout_watcher'[c] = timeout_watcher[c]
    BY <1>0, <2>1, <2>2, Promoted
  <2>4. CASE c = r
    <3>1. timeout_watcher[r] = 0 /\ r \notin conns
      BY <2>2 DEF PoolInv, Unused, Live
    <3>2. Lifecycle!Submit(r)
      BY <1>0, <2>2, <2>3, <2>4, <3>1, Seen DEF Stage, Verdict, Settled
    <3> QED
      BY <2>4, <3>2 DEF Allowed
  <2>5. CASE c # r
    BY <1>0, <2>1, <2>2, <2>3, <2>5, OthersAllowed
  <2> QED
    BY <2>4, <2>5
<1>2. ASSUME NEW r \in Requests, NEW n \in 1 .. timeout_watcher[r], NEW c \in Requests,
             Connected(r, n) \/ ReadSome(r, n)
      PROVE  Allowed(c)
  BY <1>2, Untouched DEF Connected, ReadSome, life
<1>3. ASSUME NEW r \in Requests, NEW n \in 1 .. timeout_watcher[r], NEW c \in Requests,
             ConnectFailed(r, n)
      PROVE  Allowed(c)
  <2>1. r \in conns
    BY <1>3, CalledBack DEF ConnectFailed
  <2> QED
    BY <1>3, <2>1, FatalAllowed DEF ConnectFailed
<1>4. ASSUME NEW r \in Requests, NEW n \in 1 .. timeout_watcher[r], NEW c \in Requests,
             \/ slack_ssl_connection_error(r, n)
             \/ ReadFailed(r, n)
             \/ slack_connection_timedout(r, n)
      PROVE  Allowed(c)
  <2>1. r \in conns
    BY <1>4, CalledBack DEF slack_ssl_connection_error, ReadFailed, slack_connection_timedout
  <2> QED
    BY <1>4, <2>1, ResendAllowed
    DEF slack_ssl_connection_error, ReadFailed, slack_connection_timedout
<1>5. ASSUME NEW r \in Requests, NEW n \in 1 .. timeout_watcher[r], NEW c \in Requests,
             NEW answer \in {"answered", "empty", "unparsable"}, ReadEnd(r, n, answer)
      PROVE  Allowed(c)
  <2>1. /\ running = None /\ r \in conns
        /\ fate' = [fate EXCEPT ![r] = answer] /\ gc' = gc
    BY <1>5, CalledBack DEF ReadEnd
  <2>2. alloc[r] = "live" /\ fate[r] = "pending"
    BY <2>1, PoolAssumption DEF PoolInv, Live, Running
  <2>3. CASE answer = "answered"
    <3>1. UNCHANGED <<conns, timeout_watcher, alloc>>
      BY <1>5, <2>3 DEF ReadEnd
    <3>2. CASE c = r
      <4>1. Lifecycle!Answer(r)
        BY <1>0, <2>1, <2>2, <2>3, <3>1, Seen DEF Stage, Verdict, Settled
      <4> QED
        BY <3>2, <4>1 DEF Allowed
    <3>3. CASE c # r
      BY <1>0, <2>1, <3>1, <3>3, Untouched
    <3> QED
      BY <3>2, <3>3
  <2>4. CASE answer # "answered"
    <3>1. PICK s : FinishAndNext(r, s)
      BY <1>5, <2>4 DEF ReadEnd
    <3> QED
      BY <1>0, <2>1, <2>2, <2>4, <3>1, FinishAllowed
  <2> QED
    BY <2>3, <2>4
<1>6. ASSUME NEW r \in Requests, CallbackReturns(r), NEW c \in Requests
      PROVE  Allowed(c)
  <2>1. /\ FinishAndNext(r, sources) /\ gc' = gc /\ fate' = fate
        /\ r \in conns /\ fate[r] = "answered"
    BY <1>6, PoolAssumption DEF CallbackReturns, PoolInv, Running, Live
  <2> QED
    BY <2>1, FinishAllowed
<1>7. ASSUME NEW r \in Requests, NEW n \in 1 .. timeout_watcher[r], NEW c \in Requests,
             NEW found \in BOOLEAN, slack_host_lookup_cb(r, n, found) \/ slack_ans_timeout(r, n)
      PROVE  Allowed(c)
  BY <1>7, Untouched DEF slack_host_lookup_cb, slack_ans_timeout, life
<1>8. ASSUME slack_chat_close, NEW c \in Requests
      PROVE  Allowed(c)
  <2>1. /\ running = None /\ gc' = "closed" /\ conns' = {} /\ UNCHANGED timeout_watcher
        /\ alloc'[c] = IF c \in Live THEN "freed" ELSE alloc[c]
        /\ fate'[c] = IF c \in Live THEN "cancelled" ELSE fate[c]
    BY <1>8 DEF slack_chat_close, PoolInv, Queued, Elements
  <2>2. CASE c \in Live
    <3>1. fate[c] = "pending" /\ alloc[c] = "live"
      BY <2>1, <2>2, PoolAssumption DEF Live, PoolInv, Running
    <3>2. Lifecycle!End(c)
      BY <2>1, <2>2, <3>1, Seen DEF Stage, Verdict, Settled, Lifecycle!Verdicts
    <3> QED
      BY <3>2 DEF Allowed
  <2>3. CASE c \notin Live
    <3>1. c \notin conns
      BY <2>3 DEF PoolInv
    <3> QED
      BY <2>1, <2>3, <3>1, Untouched
  <2> QED
    BY <2>2, <2>3
<1>9. \A c \in Requests : Allowed(c)
  BY <1>1, <1>2, <1>3, <1>4, <1>5, <1>6, <1>7, <1>8 DEF Next, Callback
<1>10. gc = "closed" => gc' = "closed"
  <2> SUFFICES ASSUME gc = "closed" PROVE gc' = "closed"
    OBVIOUS
  <2>1. conns = {}
    BY DEF PoolInv, Closed
  <2>2. \A r \in Requests : \A n :
          /\ <<"connect", r, n>> \notin sources
          /\ <<"read", r, n>> \notin sources
          /\ <<"timer", r, n>> \notin sources
    BY <2>1, CalledBack
  <2>3. ASSUME NEW r \in Requests, Callback(r) PROVE gc' = gc
    <3>1. PICK n \in 1 .. timeout_watcher[r], found \in BOOLEAN :
            slack_host_lookup_cb(r, n, found) \/ slack_ans_timeout(r, n)
      BY <2>2, <2>3
      DEF Callback, Connected, ConnectFailed, slack_ssl_connection_error, ReadSome, ReadFailed,
          ReadEnd, slack_connection_timedout
    <3> QED
      BY <3>1 DEF slack_host_lookup_cb, slack_ans_timeout, life
  <2>4. ASSUME NEW r \in Requests, get_or_post_request(r) \/ CallbackReturns(r) PROVE gc' = gc
    BY <2>4 DEF get_or_post_request, CallbackReturns
  <2> QED
    BY <2>3, <2>4 DEF Next, slack_chat_close
<1> QED
  BY <1>9, <1>10, TogetherAllowed

(* The pool implements the lifecycle it promises its callers: a request is *)
(* attempted a bounded number of times, gets one final verdict, is not     *)
(* attempted after it, and leaves the queue only to be attempted or when   *)
(* the account is closed.                                                  *)
THEOREM Implements == Spec => ImplementsLifecycle
<1>1. Init => Lifecycle!Init
  BY LifecycleInit
<1>2. PoolInv /\ PoolInv' /\ [Next]_vars => [Lifecycle!Next]_(Lifecycle!vars)
  BY LifecycleStep
<1> QED
  BY <1>1, <1>2, PoolInvariant, PTL DEF Spec, ImplementsLifecycle, Lifecycle!Spec
=============================================================================
