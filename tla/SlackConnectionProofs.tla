------------------------ MODULE SlackConnectionProofs ------------------------
(***************************************************************************)
(* Theorems about the request pool, for any number of requests, slots and  *)
(* tries.  The argument: every handler ends in slack_next_connection, in   *)
(* slack_fatal_connection_cb or in slack_chat_close, so there is a lemma   *)
(* for each about the part of the invariant it establishes from what the   *)
(* handler had made of the state so far.                                   *)
(***************************************************************************)
EXTENDS SlackConnectionInvariant, FiniteSetTheorems, SequenceTheorems, TLAPS

-----------------------------------------------------------------------------
(* Type correctness. *)

(* What slack_next_connection leaves is well typed. *)
LEMMA NextConnectionTyped ==
  ASSUME TypeOK,
         NEW q \in Seq(Requests), NEW cs \in SUBSET Requests,
         NEW h \in [Requests -> Handles], NEW s \in SUBSET Sources,
         slack_next_connection(q, cs, h, s)
  PROVE  /\ waiting' \in Seq(Requests)
         /\ conns' \in SUBSET Requests
         /\ handle' \in [Requests -> Handles]
         /\ timeout_watcher' \in [Requests -> Nat]
         /\ sources' \in SUBSET Sources
         /\ hostname' \in [Requests -> {"name", "address"}]
         /\ hostname_ip_cache' \in BOOLEAN
         /\ dns_queries' \in SUBSET (Requests \X Nat)
<1>1. CASE /\ q # <<>>
           /\ waiting' = Tail(q)
           /\ \E linked \in BOOLEAN : slack_attempt_connection(Head(q), cs, h, s, linked)
  <2>1. Head(q) \in Requests /\ Tail(q) \in Seq(Requests)
    BY <1>1, HeadTailProperties
  <2>2. PICK linked \in BOOLEAN : slack_attempt_connection(Head(q), cs, h, s, linked)
    BY <1>1
  <2>3. timeout_watcher[Head(q)] + 1 \in Nat
    BY <2>1 DEF TypeOK
  <2> QED
    BY <1>1, <2>1, <2>2, <2>3, SMTT(60) DEF slack_attempt_connection, TypeOK, Handles, Sources
<1>2. CASE /\ waiting' = q
           /\ conns' = cs
           /\ handle' = h
           /\ sources' = s
           /\ UNCHANGED <<timeout_watcher, dns>>
  BY <1>2 DEF TypeOK, dns
<1> QED
  BY <1>1, <1>2 DEF slack_next_connection

(* What a connection error leaves is well typed. *)
LEMMA FatalTyped ==
  ASSUME TypeOK, NEW r \in Requests,
         NEW h \in [Requests -> Handles], NEW s \in SUBSET Sources,
         slack_fatal_connection_cb(r, h, s),
         retry_count' \in [Requests -> Nat]
  PROVE  TypeOK'
BY DEF TypeOK, slack_fatal_connection_cb, Cancelled, Settled, Handles, dns

(* What a retry, or giving up, leaves is well typed. *)
LEMMA ResendTyped ==
  ASSUME TypeOK, NEW r \in Requests,
         NEW h \in [Requests -> Handles], NEW s \in SUBSET Sources,
         ResendOrGiveUp(r, h, s)
  PROVE  TypeOK'
<1>1. retry_count' \in [Requests -> Nat]
  BY DEF ResendOrGiveUp, TypeOK
<1>2. CASE Requeue(r, h, s)
  <2>1. Append(waiting, r) \in Seq(Requests)
    BY AppendProperties DEF TypeOK
  <2>2. /\ conns \ {r} \in SUBSET Requests
        /\ [h EXCEPT ![r] = "none"] \in [Requests -> Handles]
        /\ s \ Cancelled(r, h, s) \in SUBSET Sources
    BY DEF TypeOK, Handles
  <2> QED
    BY <1>1, <1>2, <2>1, <2>2, NextConnectionTyped DEF Requeue, TypeOK, life
<1> QED
  BY <1>1, <1>2, FatalTyped DEF ResendOrGiveUp

(* What the end of a request leaves is well typed. *)
LEMMA FinishTyped ==
  ASSUME TypeOK, NEW r \in Requests, NEW s \in SUBSET Sources,
         FinishAndNext(r, s),
         running' \in Requests \cup {None, Crashed},
         fate' \in [Requests -> {"unposted", "pending"} \cup Settled],
         UNCHANGED <<retry_count, gc, posted>>
  PROVE  TypeOK'
<1>1. /\ conns \ {r} \in SUBSET Requests
      /\ [handle EXCEPT ![r] = "none"] \in [Requests -> Handles]
      /\ s \ Cancelled(r, handle, s) \in SUBSET Sources
      /\ waiting \in Seq(Requests)
  BY DEF TypeOK, Handles
<1> QED
  BY <1>1, NextConnectionTyped DEF FinishAndNext, TypeOK

(* Each action keeps the types. *)
LEMMA TypeStep == TypeOK /\ [Next]_vars => TypeOK'
<1> SUFFICES ASSUME TypeOK, [Next]_vars PROVE TypeOK'
  OBVIOUS
<1>1. ASSUME NEW r \in Requests, get_or_post_request(r) PROVE TypeOK'
  <2>1. Append(waiting, r) \in Seq(Requests) /\ Append(posted, r) \in Seq(Requests)
    BY AppendProperties DEF TypeOK
  <2> QED
    BY <1>1, <2>1, NextConnectionTyped DEF get_or_post_request, TypeOK, Settled
<1>2. ASSUME NEW r \in Requests, NEW n \in 1 .. timeout_watcher[r], Connected(r, n)
      PROVE  TypeOK'
  BY <1>2 DEF Connected, TypeOK, Handles, Sources, dns, life
<1>3. ASSUME NEW r \in Requests, NEW n \in 1 .. timeout_watcher[r], ConnectFailed(r, n)
      PROVE  TypeOK'
  BY <1>3, FatalTyped DEF ConnectFailed, TypeOK
<1>4. ASSUME NEW r \in Requests, NEW n \in 1 .. timeout_watcher[r],
             slack_ssl_connection_error(r, n)
      PROVE  TypeOK'
  <2>1. /\ [handle EXCEPT ![r] = "none"] \in [Requests -> Handles]
        /\ sources \ {<<"connect", r, n>>} \in SUBSET Sources
    BY DEF TypeOK, Handles
  <2> QED
    BY <1>4, <2>1, ResendTyped DEF slack_ssl_connection_error
<1>5. ASSUME NEW r \in Requests, NEW n \in 1 .. timeout_watcher[r], ReadSome(r, n)
      PROVE  TypeOK'
  BY <1>5 DEF ReadSome, TypeOK, dns, life
<1>6. ASSUME NEW r \in Requests, NEW n \in 1 .. timeout_watcher[r], ReadFailed(r, n)
      PROVE  TypeOK'
  BY <1>6, ResendTyped DEF ReadFailed, TypeOK
<1>7. ASSUME NEW r \in Requests, NEW n \in 1 .. timeout_watcher[r],
             NEW answer \in {"answered", "empty", "unparsable"}, ReadEnd(r, n, answer)
      PROVE  TypeOK'
  <2> DEFINE s == sources \cup {x \in {<<"rtm", r, n>>} : r \in Rtm}
  <2>1. n \in Nat
    BY DEF TypeOK
  <2>2. s \in SUBSET Sources
    BY <2>1 DEF TypeOK, Sources
  <2>3. fate' \in [Requests -> {"unposted", "pending"} \cup Settled]
    BY <1>7 DEF ReadEnd, TypeOK, Settled
  <2>4. CASE answer = "answered"
    BY <1>7, <2>2, <2>3, <2>4 DEF ReadEnd, TypeOK, dns
  <2>5. CASE answer # "answered"
    <3>1. /\ FinishAndNext(r, s)
          /\ UNCHANGED <<running, retry_count, gc, posted>>
      BY <1>7, <2>5 DEF ReadEnd
    <3>2. running' \in Requests \cup {None, Crashed}
      BY <3>1 DEF TypeOK
    <3> HIDE DEF s
    <3> QED
      BY <2>2, <2>3, <3>1, <3>2, FinishTyped
  <2> QED
    BY <2>4, <2>5
<1>8. ASSUME NEW r \in Requests, CallbackReturns(r) PROVE TypeOK'
  <2>1. /\ FinishAndNext(r, sources)
        /\ running' = None
        /\ UNCHANGED <<retry_count, fate, gc, posted>>
    BY <1>8 DEF CallbackReturns
  <2>2. sources \in SUBSET Sources /\ fate' \in [Requests -> {"unposted", "pending"} \cup Settled]
    BY <2>1 DEF TypeOK
  <2> QED
    BY <2>1, <2>2, FinishTyped
<1>9. ASSUME NEW r \in Requests, NEW n \in 1 .. timeout_watcher[r],
             slack_connection_timedout(r, n)
      PROVE  TypeOK'
  <2>1. sources \ {<<"timer", r, n>>} \in SUBSET Sources
    BY DEF TypeOK
  <2> QED
    BY <1>9, <2>1, ResendTyped DEF slack_connection_timedout, TypeOK
<1>10. ASSUME NEW r \in Requests, NEW n \in 1 .. timeout_watcher[r],
              NEW found \in BOOLEAN, slack_host_lookup_cb(r, n, found)
       PROVE  TypeOK'
  BY <1>10 DEF slack_host_lookup_cb, TypeOK, life
<1>11. ASSUME slack_chat_close PROVE TypeOK'
  BY <1>11, EmptySeq DEF slack_chat_close, TypeOK, Handles, Settled
<1>12. ASSUME NEW r \in Requests, NEW n \in 1 .. timeout_watcher[r], slack_ans_timeout(r, n)
       PROVE  TypeOK'
  BY <1>12 DEF slack_ans_timeout, TypeOK, dns, life
<1>13. CASE UNCHANGED vars
  BY <1>13 DEF vars, TypeOK
<1> QED
  BY <1>1, <1>2, <1>3, <1>4, <1>5, <1>6, <1>7, <1>8, <1>9, <1>10, <1>11, <1>12, <1>13
  DEF Next, Callback

(* The initial state is well typed. *)
LEMMA TypeInit == Init => TypeOK
<1>1. <<>> \in Seq(Requests)
  BY EmptySeq
<1>2. Init => rx \in [Requests -> BOOLEAN] /\ hostname_ip_cache \in BOOLEAN
  BY ZenonT(60) DEF Init
<1> QED
  BY <1>1, <1>2 DEF Init, TypeOK, Handles

(* Every variable keeps its type. *)
THEOREM TypeCorrect == Spec => []TypeOK
<1> QED
  BY TypeInit, TypeStep, PTL DEF Spec

-----------------------------------------------------------------------------
(* The two lists. *)

(* g_queue_push_head adds one connection and disturbs no other. *)
LEMMA PushElements ==
  ASSUME NEW S, NEW q \in Seq(S), NEW r \in S
  PROVE  /\ Append(q, r) \in Seq(S)
         /\ Append(q, r) # <<>>
         /\ Elements(Append(q, r)) = Elements(q) \cup {r}
         /\ q = <<>> => Tail(Append(q, r)) = <<>>
         /\ \A i \in DOMAIN Append(q, r) :
              \/ i \in DOMAIN q /\ Append(q, r)[i] = q[i]
              \/ i = Len(q) + 1 /\ Append(q, r)[i] = r
<1>1. /\ Append(q, r) \in Seq(S)
      /\ Len(Append(q, r)) = Len(q) + 1
      /\ \A i \in 1 .. Len(q) : Append(q, r)[i] = q[i]
      /\ Append(q, r)[Len(q) + 1] = r
  BY AppendProperties
<1>2. /\ DOMAIN q = 1 .. Len(q)
      /\ DOMAIN Append(q, r) = 1 .. Len(q) + 1
      /\ Len(q) \in Nat
  BY <1>1, LenProperties
<1>3. Elements(Append(q, r)) = Elements(q) \cup {r}
  BY <1>1, <1>2 DEF Elements
<1>4. Append(q, r) # <<>>
  BY <1>2, EmptySeq
<1>5. q = <<>> => Tail(Append(q, r)) = <<>>
  BY <1>1, <1>2, <1>4, EmptySeq, HeadTailProperties
<1> QED
  BY <1>1, <1>2, <1>3, <1>4, <1>5

(* g_queue_pop_tail takes one connection and disturbs no other. *)
LEMMA PopElements ==
  ASSUME NEW S, NEW q \in Seq(S), q # <<>>
  PROVE  /\ Head(q) \in S
         /\ Tail(q) \in Seq(S)
         /\ Elements(q) = Elements(Tail(q)) \cup {Head(q)}
         /\ 1 \in DOMAIN q /\ Head(q) = q[1]
         /\ \A i \in DOMAIN Tail(q) : i + 1 \in DOMAIN q /\ i + 1 > 1 /\ Tail(q)[i] = q[i + 1]
<1>1. /\ Head(q) \in S /\ Tail(q) \in Seq(S)
      /\ Len(Tail(q)) = Len(q) - 1
      /\ \A i \in 1 .. Len(Tail(q)) : Tail(q)[i] = q[i + 1]
  BY HeadTailProperties
<1>2. /\ DOMAIN q = 1 .. Len(q)
      /\ DOMAIN Tail(q) = 1 .. Len(q) - 1
      /\ Len(q) \in Nat \ {0}
  BY <1>1, LenProperties, EmptySeq
<1>3. Head(q) = q[1]
  OBVIOUS
<1>4. Elements(q) \subseteq Elements(Tail(q)) \cup {Head(q)}
  <2> SUFFICES ASSUME NEW i \in DOMAIN q PROVE q[i] \in Elements(Tail(q)) \cup {Head(q)}
    BY DEF Elements
  <2>1. CASE i = 1
    BY <1>3, <2>1
  <2>2. CASE i # 1
    <3>1. i - 1 \in DOMAIN Tail(q) /\ Tail(q)[i - 1] = q[i]
      BY <1>1, <1>2, <2>2
    <3> QED
      BY <3>1 DEF Elements
  <2> QED
    BY <2>1, <2>2
<1>5. Elements(Tail(q)) \cup {Head(q)} \subseteq Elements(q)
  BY <1>1, <1>2, <1>3 DEF Elements
<1> QED
  BY <1>1, <1>2, <1>3, <1>4, <1>5

-----------------------------------------------------------------------------
(* slack_next_connection. *)

(* From a consistent middle of a handler, slack_next_connection reaches a  *)
(* consistent pool, and fills the slot if one is free and one is waiting.  *)
LEMMA NextConnectionPool ==
  ASSUME TypeOK,
         NEW q \in Seq(Requests), NEW cs \in SUBSET Requests,
         NEW h \in [Requests -> Handles], NEW s \in SUBSET Sources,
         NEW tries \in [Requests -> Nat],
         IsFiniteSet(cs), Cardinality(cs) <= MaxConnections,
         Apart(q, cs),
         Attached(cs, h, s), Current(s, timeout_watcher), DnsListed(s, dns_queries),
         Watched(cs, s, timeout_watcher), Counted(q, cs, timeout_watcher, tries),
         slack_next_connection(q, cs, h, s)
  PROVE  /\ IsFiniteSet(conns') /\ PoolBounded'
         /\ conns' \cup Elements(waiting') = cs \cup Elements(q)
         /\ cs \subseteq conns'
         /\ Apart(waiting', conns')
         /\ Attached(conns', handle', sources')
         /\ Current(sources', timeout_watcher')
         /\ DnsListed(sources', dns_queries')
         /\ Watched(conns', sources', timeout_watcher')
         /\ Counted(waiting', conns', timeout_watcher', tries)
         /\ \A r \in Requests \ Elements(q) : timeout_watcher'[r] = timeout_watcher[r]
         /\ (q # <<>> => Tail(q) = <<>> \/ Cardinality(cs) + 1 >= MaxConnections)
              => (waiting' # <<>> => Cardinality(conns') = MaxConnections)
<1> USE PoolAssumption
<1>0. Cardinality(cs) \in Nat
  BY FS_CardinalityType
<1>1. ASSUME q # <<>>, Cardinality(cs) < MaxConnections,
             waiting' = Tail(q), NEW linked \in BOOLEAN,
             slack_attempt_connection(Head(q), cs, h, s, linked)
      PROVE  /\ IsFiniteSet(conns') /\ PoolBounded'
             /\ conns' \cup Elements(waiting') = cs \cup Elements(q)
             /\ cs \subseteq conns'
             /\ Apart(waiting', conns')
             /\ Attached(conns', handle', sources')
             /\ Current(sources', timeout_watcher')
             /\ DnsListed(sources', dns_queries')
             /\ Watched(conns', sources', timeout_watcher')
             /\ Counted(waiting', conns', timeout_watcher', tries)
             /\ \A r \in Requests \ Elements(q) : timeout_watcher'[r] = timeout_watcher[r]
             /\ (q # <<>> => Tail(q) = <<>> \/ Cardinality(cs) + 1 >= MaxConnections)
                  => (waiting' # <<>> => Cardinality(conns') = MaxConnections)
  <2> DEFINE c == Head(q)
             n == timeout_watcher[c] + 1
  <2>1. /\ c \in Requests /\ Tail(q) \in Seq(Requests)
        /\ Elements(q) = Elements(Tail(q)) \cup {c}
        /\ 1 \in DOMAIN q /\ c = q[1]
        /\ \A i \in DOMAIN Tail(q) : i + 1 \in DOMAIN q /\ i + 1 > 1 /\ Tail(q)[i] = q[i + 1]
    BY <1>1, PopElements
  <2>2. /\ c \notin cs
        /\ c \notin Elements(Tail(q))
        /\ \A i, j \in DOMAIN Tail(q) : Tail(q)[i] = Tail(q)[j] => i = j
    <3>1. DOMAIN Tail(q) \subseteq Nat
      BY <2>1, LenProperties
    <3> QED
      BY <2>1, <3>1 DEF Apart, Elements
  <2>3. /\ conns' = cs \cup {c}
        /\ timeout_watcher' = [timeout_watcher EXCEPT ![c] = n]
        /\ linked => handle' = [h EXCEPT ![c] = IF c \in Ssl THEN "ssl" ELSE "proxy"]
        /\ ~linked => handle' = h
        /\ \E lookup \in BOOLEAN :
             /\ sources' = s \cup {<<"timer", c, n>>}
                             \cup {x \in {<<"connect", c, n>>} : linked}
                             \cup {x \in {<<"dns", c, n>>} : lookup}
             /\ dns_queries' = dns_queries \cup {x \in {<<c, n>>} : lookup}
    BY <1>1 DEF slack_attempt_connection, NeedsLookup
  <2>4. n \in Nat /\ timeout_watcher[c] \in Nat
    BY <2>1 DEF TypeOK
  <2> HIDE DEF c, n
  <2>5. IsFiniteSet(conns') /\ Cardinality(conns') = Cardinality(cs) + 1
    BY <2>2, <2>3, FS_AddElement
  <2>6. PoolBounded'
    BY <1>0, <1>1, <2>5 DEF PoolBounded
  <2>7. Apart(waiting', conns')
    BY <1>1, <2>1, <2>2, <2>3 DEF Apart
  <2>8. PICK lookup \in BOOLEAN :
             /\ sources' = s \cup {<<"timer", c, n>>}
                             \cup {x \in {<<"connect", c, n>>} : linked}
                             \cup {x \in {<<"dns", c, n>>} : lookup}
             /\ dns_queries' = dns_queries \cup {x \in {<<c, n>>} : lookup}
    BY <2>3
  <2>9. \A x \in sources' : \/ x \in s
                            \/ x = <<"timer", c, n>>
                            \/ x = <<"connect", c, n>> /\ linked
                            \/ x = <<"dns", c, n>> /\ <<c, n>> \in dns_queries'
    BY <2>8
  <2>10. \A x \in s : x[1] \in {"connect", "read", "timer"} => x[2] # c
    BY <2>2 DEF Attached
  <2>11. Attached(conns', handle', sources')
    <3> SUFFICES ASSUME NEW x \in sources'
                 PROVE  /\ x[1] \in {"connect", "read", "timer"} => x[2] \in conns'
                        /\ x[1] = "connect" => handle'[x[2]] \in {"proxy", "ssl"}
                        /\ x[1] = "read" => /\ handle'[x[2]] \in {"socket", "ssl"}
                                            /\ <<"connect", x[2], x[3]>> \notin sources'
                        /\ x[1] = "rtm" => x[2] \in Rtm
      BY DEF Attached
    <3>1. CASE x \in s
      <4>1. x[2] \in Requests
        BY <3>1 DEF Sources
      <4>2. x[1] \in {"connect", "read", "timer"} => handle'[x[2]] = h[x[2]]
        BY <2>1, <2>3, <2>10, <3>1, <4>1
      <4>3. x[1] = "read" => <<"connect", x[2], x[3]>> \notin sources'
        <5>1. x[1] = "read" => <<"connect", x[2], x[3]>> \notin s
          BY <3>1 DEF Attached
        <5> QED
          BY <2>9, <2>10, <3>1, <5>1
      <4> QED
        BY <2>3, <3>1, <4>2, <4>3 DEF Attached
    <3>2. CASE x \notin s
      BY <2>1, <2>3, <2>9, <3>2
    <3> QED
      BY <3>1, <3>2
  <2>12. Current(sources', timeout_watcher')
    <3> SUFFICES ASSUME NEW x \in sources', x[1] \in {"connect", "read", "timer"}
                 PROVE  x[3] = timeout_watcher'[x[2]]
      BY DEF Current
    <3>1. CASE x \in s
      <4>1. x[2] \in Requests
        BY <3>1 DEF Sources
      <4> QED
        BY <2>3, <2>10, <3>1, <4>1 DEF Current, TypeOK
    <3>2. CASE x \notin s
      BY <2>1, <2>3, <2>9, <3>2 DEF TypeOK
    <3> QED
      BY <3>1, <3>2
  <2>13. DnsListed(sources', dns_queries')
    BY <2>8, <2>9 DEF DnsListed
  <2>14. Watched(conns', sources', timeout_watcher')
    BY <2>1, <2>2, <2>3, <2>8 DEF Watched, TypeOK
  <2>15. Counted(waiting', conns', timeout_watcher', tries)
    <3>1. timeout_watcher[c] = tries[c] /\ tries[c] < MaxTries
      BY <2>1 DEF Counted
    <3>2. n <= MaxTries /\ n = tries[c] + 1
      BY <2>1, <2>4, <3>1 DEF n
    <3>3. \A r \in Requests : timeout_watcher'[r] = IF r = c THEN n ELSE timeout_watcher[r]
      BY <2>1, <2>3 DEF TypeOK
    <3>4. Elements(waiting') \subseteq Elements(q) \ {c} /\ Elements(q) \subseteq Requests
      <4>1. Elements(q) \subseteq Requests
        BY LenProperties, ElementOfSeq DEF Elements
      <4> QED
        BY <1>1, <2>1, <2>2, <4>1
    <3>5. \A r \in Requests : timeout_watcher'[r] <= MaxTries
      BY <3>2, <3>3 DEF Counted
    <3>6. \A r \in conns' : timeout_watcher'[r] = tries[r] + 1
      BY <2>1, <2>2, <2>3, <3>2, <3>3 DEF Counted
    <3>7. \A r \in Elements(waiting') : timeout_watcher'[r] = tries[r] /\ tries[r] < MaxTries
      BY <3>3, <3>4 DEF Counted
    <3> QED
      BY <3>5, <3>6, <3>7 DEF Counted
  <2>16. \A r \in Requests \ Elements(q) : timeout_watcher'[r] = timeout_watcher[r]
    BY <2>1, <2>3 DEF TypeOK
  <2>17. conns' \cup Elements(waiting') = cs \cup Elements(q) /\ cs \subseteq conns'
    BY <1>1, <2>1, <2>3
  <2>18. (q # <<>> => Tail(q) = <<>> \/ Cardinality(cs) + 1 >= MaxConnections)
           => (waiting' # <<>> => Cardinality(conns') = MaxConnections)
    BY <1>0, <1>1, <2>5, SMTT(60)
  <2> QED
    BY <2>5, <2>6, <2>7, <2>11, <2>12, <2>13, <2>14, <2>15, <2>16, <2>17, <2>18
<1>2. CASE /\ q = <<>> \/ Cardinality(cs) >= MaxConnections
           /\ waiting' = q
           /\ conns' = cs
           /\ handle' = h
           /\ sources' = s
           /\ UNCHANGED <<timeout_watcher, dns>>
  BY <1>0, <1>2 DEF dns, PoolBounded
<1> QED
  BY <1>1, <1>2 DEF slack_next_connection

-----------------------------------------------------------------------------
(* slack_connection_close. *)

(* What a handler of r may have made of handle and sources before it       *)
(* closes r: only r's own part has changed, and what would still connect   *)
(* or read for r is owned by the struct.                                   *)
Held(r, h, s) ==
  /\ \A x \in s : \/ x \in sources
                  \/ x[1] = "rtm" /\ x[2] \in Rtm
  /\ \A x \in sources : x[2] # r => x \in s
  /\ \A x \in s : x[2] = r /\ x[1] \in {"connect", "read"} => x[1] \in OwnedKinds(h[r])
  /\ \A other \in Requests \ {r} : h[other] = handle[other]

(* Once r is closed nothing but an RTM timer or a DNS answer can still be  *)
(* called back about it, and the other connections are as they were.       *)
LEMMA Closing ==
  ASSUME PoolInv, NEW r \in Requests,
         NEW h \in [Requests -> Handles], NEW s \in SUBSET Sources, Held(r, h, s)
  PROVE  /\ conns \ {r} \in SUBSET Requests
         /\ [h EXCEPT ![r] = "none"] \in [Requests -> Handles]
         /\ s \ Cancelled(r, h, s) \in SUBSET Sources
         /\ IsFiniteSet(conns \ {r})
         /\ Cardinality(conns \ {r}) <= MaxConnections
         /\ r \in conns => Cardinality(conns \ {r}) + 1 = Cardinality(conns)
         /\ Attached(conns \ {r}, [h EXCEPT ![r] = "none"], s \ Cancelled(r, h, s))
         /\ Current(s \ Cancelled(r, h, s), timeout_watcher)
         /\ DnsListed(s \ Cancelled(r, h, s), dns_queries)
         /\ Watched(conns \ {r}, s \ Cancelled(r, h, s), timeout_watcher)
<1> USE PoolAssumption
<1> DEFINE h2 == [h EXCEPT ![r] = "none"]
           s2 == s \ Cancelled(r, h, s)
<1>1. /\ conns \ {r} \in SUBSET Requests
      /\ h2 \in [Requests -> Handles]
      /\ s2 \in SUBSET Sources
  BY DEF PoolInv, TypeOK, Handles
<1>2. /\ IsFiniteSet(conns \ {r})
      /\ Cardinality(conns \ {r}) <= MaxConnections
      /\ r \in conns => Cardinality(conns \ {r}) + 1 = Cardinality(conns)
  <2>1. IsFiniteSet(conns) /\ Cardinality(conns) <= MaxConnections
    BY DEF PoolInv, PoolBounded
  <2>2. Cardinality(conns) \in Nat
    BY <2>1, FS_CardinalityType
  <2>3. /\ IsFiniteSet(conns \ {r})
        /\ Cardinality(conns \ {r}) = IF r \in conns THEN Cardinality(conns) - 1
                                       ELSE Cardinality(conns)
    BY <2>1, FS_RemoveElement
  <2> QED
    BY <2>1, <2>2, <2>3
<1>3. \A x \in s2 : x[1] \in {"connect", "read", "timer"} => x \in sources /\ x[2] # r
  <2> SUFFICES ASSUME NEW x \in s2, x[1] \in {"connect", "read", "timer"}
               PROVE  x \in sources /\ x[2] # r
    OBVIOUS
  <2>1. x \in sources
    BY DEF Held
  <2>2. x[1] = "timer" /\ x[2] = r => x[3] = timeout_watcher[r]
    BY <2>1 DEF PoolInv, Current
  <2>3. x[1] \in {"connect", "read"} /\ x[2] = r => x[1] \in OwnedKinds(h[r])
    BY DEF Held
  <2> QED
    BY <2>1, <2>2, <2>3 DEF Cancelled
<1>4. \A x \in s2 : x[2] \in Requests
  BY <1>1 DEF Sources
<1>5. \A other \in Requests \ {r} : h2[other] = handle[other]
  BY DEF Held
<1> HIDE DEF h2
<1>6. Attached(conns \ {r}, h2, s2)
  <2> SUFFICES ASSUME NEW x \in s2
               PROVE  /\ x[1] \in {"connect", "read", "timer"} => x[2] \in conns \ {r}
                      /\ x[1] = "connect" => h2[x[2]] \in {"proxy", "ssl"}
                      /\ x[1] = "read" => /\ h2[x[2]] \in {"socket", "ssl"}
                                          /\ <<"connect", x[2], x[3]>> \notin s2
                      /\ x[1] = "rtm" => x[2] \in Rtm
    BY DEF Attached
  <2>1. x[1] = "rtm" => x[2] \in Rtm
    BY DEF Held, PoolInv, Attached
  <2>2. ASSUME x[1] \in {"connect", "read", "timer"}
        PROVE  x \in sources /\ x[2] # r /\ h2[x[2]] = handle[x[2]]
    BY <1>3, <1>4, <1>5, <2>2
  <2>3. x[1] = "read" => <<"connect", x[2], x[3]>> \notin s2
    <3>1. x[1] = "read" => <<"connect", x[2], x[3]>> \notin sources
      BY <2>2 DEF PoolInv, Attached
    <3>2. <<"connect", x[2], x[3]>> \in s2 => <<"connect", x[2], x[3]>> \in sources
      BY <1>3
    <3> QED
      BY <3>1, <3>2
  <2> QED
    BY <2>1, <2>2, <2>3 DEF PoolInv, Attached
<1>7. Current(s2, timeout_watcher)
  BY <1>3 DEF PoolInv, Current
<1>8. DnsListed(s2, dns_queries)
  BY DEF PoolInv, DnsListed, Held
<1>9. Watched(conns \ {r}, s2, timeout_watcher)
  <2> SUFFICES ASSUME NEW other \in conns \ {r}
               PROVE  <<"timer", other, timeout_watcher[other]>> \in s2
    BY DEF Watched
  <2>1. <<"timer", other, timeout_watcher[other]>> \in s
    BY DEF PoolInv, Watched, Held
  <2> QED
    BY <2>1 DEF Cancelled
<1> QED
  BY <1>1, <1>2, <1>6, <1>7, <1>8, <1>9 DEF h2

(* A connection error keeps the invariant. *)
LEMMA FatalPool ==
  ASSUME PoolInv, NEW r \in conns, running = None,
         NEW h \in [Requests -> Handles], NEW s \in SUBSET Sources, Held(r, h, s),
         slack_fatal_connection_cb(r, h, s),
         retry_count' \in [Requests -> Nat],
         \A other \in Requests \ {r} : retry_count'[other] = retry_count[other]
  PROVE  PoolInv'
<1> USE PoolAssumption
<1>1. TypeOK /\ r \in Requests /\ alloc[r] = "live" /\ r \notin Elements(waiting)
  BY DEF PoolInv, TypeOK, Apart, Live
<1>2. TypeOK'
  BY <1>1, FatalTyped
<1>3. /\ conns' = conns \ {r}
      /\ alloc' = [alloc EXCEPT ![r] = "freed"]
      /\ handle' = [h EXCEPT ![r] = "none"]
      /\ sources' = s \ Cancelled(r, h, s)
      /\ gc' = "error"
      /\ fate' = [fate EXCEPT ![r] = "fatal"]
      /\ UNCHANGED <<waiting, timeout_watcher, dns_queries, running>>
  BY DEF slack_fatal_connection_cb, dns
<1>4. /\ IsFiniteSet(conns') /\ PoolBounded'
      /\ Attached(conns', handle', sources')
      /\ Current(sources', timeout_watcher')
      /\ DnsListed(sources', dns_queries')
      /\ Watched(conns', sources', timeout_watcher')
  BY <1>1, <1>3, Closing DEF PoolBounded
<1>5. Apart(waiting', conns')
  BY <1>3 DEF PoolInv, Apart
<1>6. Live' = conns' \cup Elements(waiting')
  BY <1>1, <1>3 DEF Live, PoolInv, TypeOK
<1>7. Counted(waiting', conns', timeout_watcher', retry_count')
  <2>1. Elements(waiting) \subseteq Requests \ {r}
    BY <1>1, LenProperties, ElementOfSeq DEF Elements, TypeOK
  <2> QED
    BY <1>1, <1>3, <2>1 DEF PoolInv, Counted, TypeOK
<1>8. Unused'
  BY <1>1, <1>3 DEF PoolInv, Unused, TypeOK
<1>9. Running'
  BY <1>1, <1>3 DEF PoolInv, Running, TypeOK, Settled
<1>10. Closed' /\ WorkConserving'
  BY <1>3 DEF Closed, WorkConserving
<1> QED
  BY <1>2, <1>4, <1>5, <1>6, <1>7, <1>8, <1>9, <1>10 DEF PoolInv

(* A retry, or giving up, keeps the invariant. *)
LEMMA ResendPool ==
  ASSUME PoolInv, NEW r \in conns, running = None,
         NEW h \in [Requests -> Handles], NEW s \in SUBSET Sources, Held(r, h, s),
         ResendOrGiveUp(r, h, s)
  PROVE  PoolInv'
<1> USE PoolAssumption
<1>1. TypeOK /\ r \in Requests /\ alloc[r] = "live" /\ r \notin Elements(waiting)
  BY DEF PoolInv, TypeOK, Apart, Live
<1>2. TypeOK'
  BY <1>1, ResendTyped
<1>3. /\ retry_count' = [retry_count EXCEPT ![r] = @ + 1]
      /\ retry_count' \in [Requests -> Nat]
      /\ timeout_watcher[r] = retry_count[r] + 1
  BY <1>1, <1>2 DEF ResendOrGiveUp, TypeOK, PoolInv, Counted
<1>4. CASE retry_count[r] + 1 < MaxTries /\ Requeue(r, h, s)
  <2> DEFINE q == Append(waiting, r)
  <2>1. /\ q \in Seq(Requests) /\ q # <<>>
        /\ Elements(q) = Elements(waiting) \cup {r}
        /\ waiting = <<>> => Tail(q) = <<>>
        /\ \A i \in DOMAIN q : \/ i \in DOMAIN waiting /\ q[i] = waiting[i]
                               \/ i = Len(waiting) + 1 /\ q[i] = r
    <3>1. waiting \in Seq(Requests) /\ r \in Requests
      BY <1>1 DEF TypeOK
    <3> QED
      BY <3>1, PushElements
  <2> HIDE DEF q
  <2>2. Apart(q, conns \ {r})
    <3>1. \A i \in DOMAIN waiting : waiting[i] # r
      BY <1>1 DEF Elements
    <3> QED
      BY <2>1, <3>1 DEF PoolInv, Apart
  <2>3. Counted(q, conns \ {r}, timeout_watcher, retry_count')
    <3>1. \A other \in Requests \ {r} : retry_count'[other] = retry_count[other]
      BY <1>1, <1>3 DEF TypeOK
    <3>2. retry_count'[r] = retry_count[r] + 1
      BY <1>1, <1>3 DEF TypeOK
    <3>3. Elements(waiting) \subseteq Requests
      BY <1>1, LenProperties, ElementOfSeq DEF Elements, TypeOK
    <3>4. \A other \in conns \ {r} : timeout_watcher[other] = retry_count'[other] + 1
      BY <1>1, <3>1 DEF PoolInv, Counted, TypeOK
    <3>5. \A other \in Elements(q) :
            timeout_watcher[other] = retry_count'[other] /\ retry_count'[other] < MaxTries
      BY <1>1, <1>3, <1>4, <2>1, <3>1, <3>2, <3>3 DEF PoolInv, Counted
    <3> QED
      BY <3>4, <3>5 DEF PoolInv, Counted
  <2>4. slack_next_connection(q, conns \ {r}, [h EXCEPT ![r] = "none"], s \ Cancelled(r, h, s))
        /\ UNCHANGED <<alloc, fate, gc, posted, running>>
    BY <1>4 DEF Requeue, life, q
  <2>5. /\ conns \ {r} \in SUBSET Requests
        /\ [h EXCEPT ![r] = "none"] \in [Requests -> Handles]
        /\ s \ Cancelled(r, h, s) \in SUBSET Sources
        /\ IsFiniteSet(conns \ {r})
        /\ Cardinality(conns \ {r}) <= MaxConnections
        /\ Cardinality(conns \ {r}) + 1 = Cardinality(conns)
        /\ Attached(conns \ {r}, [h EXCEPT ![r] = "none"], s \ Cancelled(r, h, s))
        /\ Current(s \ Cancelled(r, h, s), timeout_watcher)
        /\ DnsListed(s \ Cancelled(r, h, s), dns_queries)
        /\ Watched(conns \ {r}, s \ Cancelled(r, h, s), timeout_watcher)
    BY <1>1, Closing
  <2>6. /\ IsFiniteSet(conns') /\ PoolBounded'
        /\ conns' \cup Elements(waiting') = (conns \ {r}) \cup Elements(q)
        /\ Apart(waiting', conns')
        /\ Attached(conns', handle', sources')
        /\ Current(sources', timeout_watcher')
        /\ DnsListed(sources', dns_queries')
        /\ Watched(conns', sources', timeout_watcher')
        /\ Counted(waiting', conns', timeout_watcher', retry_count')
        /\ \A other \in Requests \ Elements(q) : timeout_watcher'[other] = timeout_watcher[other]
        /\ (q # <<>> => Tail(q) = <<>> \/ Cardinality(conns \ {r}) + 1 >= MaxConnections)
             => (waiting' # <<>> => Cardinality(conns') = MaxConnections)
    BY <1>1, <1>3, <2>1, <2>2, <2>3, <2>4, <2>5, NextConnectionPool
  <2>7. Live' = conns' \cup Elements(waiting')
    BY <1>1, <2>1, <2>4, <2>6 DEF Live, PoolInv
  <2>8. Unused'
    <3>1. \A other \in Requests : alloc'[other] = "none" => other # r /\ other \notin Elements(q)
      BY <1>1, <2>1, <2>4 DEF PoolInv, Live
    <3> QED
      BY <1>1, <1>3, <2>4, <2>6, <3>1 DEF PoolInv, Unused, TypeOK
  <2>9. Running'
    BY <2>4 DEF PoolInv, Running
  <2>10. Closed'
    BY <2>4 DEF PoolInv, Closed
  <2>11. WorkConserving'
    BY <2>1, <2>4, <2>5, <2>6 DEF PoolInv, WorkConserving
  <2> QED
    BY <1>2, <2>6, <2>7, <2>8, <2>9, <2>10, <2>11 DEF PoolInv
<1>5. CASE slack_fatal_connection_cb(r, h, s)
  BY <1>1, <1>3, <1>5, FatalPool DEF TypeOK
<1> QED
  BY <1>4, <1>5 DEF ResendOrGiveUp

(* The end of a request keeps the invariant. *)
LEMMA FinishPool ==
  ASSUME PoolInv, NEW r \in conns, running \in {None, r},
         NEW s \in SUBSET Sources, Held(r, handle, s),
         FinishAndNext(r, s),
         running' = None,
         fate' \in [Requests -> {"unposted", "pending"} \cup Settled],
         fate'[r] \in Settled,
         \A other \in Requests \ {r} : fate'[other] = fate[other],
         UNCHANGED <<retry_count, gc, posted>>
  PROVE  PoolInv'
<1> USE PoolAssumption
<1>1. /\ TypeOK /\ r \in Requests /\ alloc[r] = "live" /\ r \notin Elements(waiting)
      /\ waiting \in Seq(Requests) /\ handle \in [Requests -> Handles]
      /\ retry_count \in [Requests -> Nat]
  BY DEF PoolInv, TypeOK, Apart, Live
<1>2. TypeOK'
  BY <1>1, FinishTyped
<1>3. /\ alloc' = [alloc EXCEPT ![r] = "freed"]
      /\ slack_next_connection(waiting, conns \ {r}, [handle EXCEPT ![r] = "none"],
                               s \ Cancelled(r, handle, s))
  BY DEF FinishAndNext
<1>4. /\ conns \ {r} \in SUBSET Requests
      /\ [handle EXCEPT ![r] = "none"] \in [Requests -> Handles]
      /\ s \ Cancelled(r, handle, s) \in SUBSET Sources
      /\ IsFiniteSet(conns \ {r})
      /\ Cardinality(conns \ {r}) <= MaxConnections
      /\ Cardinality(conns \ {r}) + 1 = Cardinality(conns)
      /\ Attached(conns \ {r}, [handle EXCEPT ![r] = "none"], s \ Cancelled(r, handle, s))
      /\ Current(s \ Cancelled(r, handle, s), timeout_watcher)
      /\ DnsListed(s \ Cancelled(r, handle, s), dns_queries)
      /\ Watched(conns \ {r}, s \ Cancelled(r, handle, s), timeout_watcher)
  BY <1>1, Closing
<1>5. Apart(waiting, conns \ {r})
  BY DEF PoolInv, Apart
<1>6. Counted(waiting, conns \ {r}, timeout_watcher, retry_count)
  BY DEF PoolInv, Counted
<1>7. /\ IsFiniteSet(conns') /\ PoolBounded'
      /\ conns' \cup Elements(waiting') = (conns \ {r}) \cup Elements(waiting)
      /\ Apart(waiting', conns')
      /\ Attached(conns', handle', sources')
      /\ Current(sources', timeout_watcher')
      /\ DnsListed(sources', dns_queries')
      /\ Watched(conns', sources', timeout_watcher')
      /\ Counted(waiting', conns', timeout_watcher', retry_count)
      /\ \A other \in Requests \ Elements(waiting) :
           timeout_watcher'[other] = timeout_watcher[other]
      /\ (waiting # <<>> => Tail(waiting) = <<>> \/ Cardinality(conns \ {r}) + 1 >= MaxConnections)
           => (waiting' # <<>> => Cardinality(conns') = MaxConnections)
  BY <1>1, <1>3, <1>4, <1>5, <1>6, NextConnectionPool
<1>8. Counted(waiting', conns', timeout_watcher', retry_count')
  BY <1>7
<1>9. Live' = conns' \cup Elements(waiting')
  BY <1>1, <1>3, <1>7 DEF Live, PoolInv, TypeOK
<1>10. Unused'
  BY <1>1, <1>3, <1>7 DEF PoolInv, Unused, TypeOK, Live
<1>11. Running'
  BY <1>1, <1>3 DEF PoolInv, Running, TypeOK
<1>12. Closed'
  BY DEF PoolInv, Closed
<1>13. WorkConserving'
  BY <1>4, <1>7, FS_CardinalityType DEF PoolInv, WorkConserving
<1> QED
  BY <1>2, <1>7, <1>8, <1>9, <1>10, <1>11, <1>12, <1>13 DEF PoolInv

-----------------------------------------------------------------------------
(* The pool invariant. *)

(* A fresh SlackAccount has a consistent pool. *)
LEMMA PoolInit == Init => PoolInv
<1> SUFFICES ASSUME Init PROVE PoolInv
  OBVIOUS
<1> USE PoolAssumption
<1>1. TypeOK
  BY TypeInit
<1>2. IsFiniteSet(conns) /\ PoolBounded
  BY FS_EmptySet DEF Init, PoolBounded
<1>3. Elements(waiting) = {} /\ conns = {} /\ DOMAIN waiting = {}
  BY EmptySeq DEF Init, Elements
<1>4. Live = {}
  BY DEF Init, Live
<1> QED
  BY <1>1, <1>2, <1>3, <1>4
  DEF Init, PoolInv, Apart, Attached, Current, DnsListed, Watched, Counted, Unused, Running,
      Closed, WorkConserving

(* A callback that the main loop makes finds its connection in sa->conns. *)
LEMMA CalledBack ==
  ASSUME PoolInv, NEW r \in Requests, NEW n,
         NEW kind \in {"connect", "read", "timer"}, <<kind, r, n>> \in sources
  PROVE  r \in conns /\ n = timeout_watcher[r] /\ n \in Nat
<1> DEFINE x == <<kind, r, n>>
<1>1. x[1] = kind /\ x[2] = r /\ x[3] = n
  OBVIOUS
<1>2. x \in sources
  OBVIOUS
<1> HIDE DEF x
<1>3. r \in conns
  BY <1>1, <1>2 DEF PoolInv, Attached
<1>4. n = timeout_watcher[r]
  BY <1>1, <1>2 DEF PoolInv, Current
<1> QED
  BY <1>3, <1>4 DEF PoolInv, TypeOK

(* A handler that has only cancelled sources of r, or armed the RTM timer, *)
(* leaves the struct owning what remains.                                  *)
LEMMA StillHeld ==
  ASSUME PoolInv, NEW r \in Requests, NEW s,
         \A x \in s : x \in sources \/ (x[1] = "rtm" /\ x[2] \in Rtm),
         \A x \in sources : x[2] # r => x \in s
  PROVE  Held(r, handle, s)
<1>1. \A x \in s : x[2] = r /\ x[1] \in {"connect", "read"} => x[1] \in OwnedKinds(handle[r])
  BY DEF PoolInv, Attached, OwnedKinds
<1> QED
  BY <1>1 DEF Held

(* Each handler, run to its end, keeps the invariant. *)
LEMMA PoolStep == PoolInv /\ [Next]_vars => PoolInv'
<1> SUFFICES ASSUME PoolInv, [Next]_vars PROVE PoolInv'
  OBVIOUS
<1> USE PoolAssumption
<1>0. TypeOK /\ TypeOK'
  BY TypeStep DEF PoolInv
<1>1. ASSUME NEW r \in Requests, get_or_post_request(r) PROVE PoolInv'
  <2> DEFINE q == Append(waiting, r)
  <2>1. /\ waiting \in Seq(Requests)
        /\ q \in Seq(Requests) /\ q # <<>>
        /\ Elements(q) = Elements(waiting) \cup {r}
        /\ waiting = <<>> => Tail(q) = <<>>
        /\ \A i \in DOMAIN q : \/ i \in DOMAIN waiting /\ q[i] = waiting[i]
                               \/ i = Len(waiting) + 1 /\ q[i] = r
    <3>1. waiting \in Seq(Requests)
      BY <1>0 DEF TypeOK
    <3> QED
      BY <3>1, PushElements
  <2> HIDE DEF q
  <2>2. /\ gc # "closed" /\ alloc[r] = "none"
        /\ alloc' = [alloc EXCEPT ![r] = "live"]
        /\ fate' = [fate EXCEPT ![r] = "pending"]
        /\ slack_next_connection(q, conns, handle, sources)
        /\ UNCHANGED <<retry_count, running, gc>>
    BY <1>1 DEF get_or_post_request, q
  <2>3. r \notin conns /\ r \notin Elements(waiting)
    BY <2>2 DEF PoolInv, Live
  <2>4. Apart(q, conns)
    <3>1. \A i \in DOMAIN waiting : waiting[i] # r
      BY <2>3 DEF Elements
    <3> QED
      BY <2>1, <2>3, <3>1 DEF PoolInv, Apart
  <2>5. Counted(q, conns, timeout_watcher, retry_count)
    <3>1. timeout_watcher[r] = 0 /\ retry_count[r] = 0
      BY <2>2 DEF PoolInv, Unused
    <3> QED
      BY <2>1, <3>1 DEF PoolInv, Counted
  <2>6. /\ IsFiniteSet(conns') /\ PoolBounded'
        /\ conns' \cup Elements(waiting') = conns \cup Elements(q)
        /\ conns \subseteq conns'
        /\ Apart(waiting', conns')
        /\ Attached(conns', handle', sources')
        /\ Current(sources', timeout_watcher')
        /\ DnsListed(sources', dns_queries')
        /\ Watched(conns', sources', timeout_watcher')
        /\ Counted(waiting', conns', timeout_watcher', retry_count)
        /\ \A other \in Requests \ Elements(q) : timeout_watcher'[other] = timeout_watcher[other]
        /\ (q # <<>> => Tail(q) = <<>> \/ Cardinality(conns) + 1 >= MaxConnections)
             => (waiting' # <<>> => Cardinality(conns') = MaxConnections)
    <3>1. /\ conns \in SUBSET Requests /\ handle \in [Requests -> Handles]
          /\ sources \in SUBSET Sources /\ retry_count \in [Requests -> Nat]
          /\ Cardinality(conns) <= MaxConnections
      BY <1>0 DEF TypeOK, PoolInv, PoolBounded
    <3> QED
      BY <1>0, <2>1, <2>2, <2>4, <2>5, <3>1, NextConnectionPool DEF PoolInv
  <2>7. Counted(waiting', conns', timeout_watcher', retry_count')
    BY <2>2, <2>6
  <2>8. Live' = conns' \cup Elements(waiting')
    <3>1. Live' = Live \cup {r}
      BY <1>0, <2>2 DEF Live, TypeOK
    <3>2. Live = conns \cup Elements(waiting)
      BY DEF PoolInv
    <3> QED
      BY <2>1, <2>6, <3>1, <3>2
  <2>9. Unused'
    <3>1. \A other \in Requests :
            alloc'[other] = "none" => alloc[other] = "none" /\ other \notin Elements(q)
      BY <1>0, <2>1, <2>2 DEF PoolInv, Live, TypeOK
    <3> QED
      BY <2>2, <2>6, <3>1 DEF PoolInv, Unused
  <2>10. Running'
    BY <1>0, <2>2, <2>3, <2>6, SMTT(60) DEF PoolInv, Running, TypeOK
  <2>11. Closed'
    BY <2>2 DEF Closed
  <2>12. WorkConserving'
    BY <2>1, <2>2, <2>6, FS_CardinalityType DEF PoolInv, WorkConserving
  <2> QED
    BY <1>0, <2>6, <2>7, <2>8, <2>9, <2>10, <2>11, <2>12 DEF PoolInv
<1>2. ASSUME NEW r \in Requests, NEW n \in 1 .. timeout_watcher[r], Connected(r, n)
      PROVE  PoolInv'
  <2>1. /\ <<"connect", r, n>> \in sources
        /\ sources' = (sources \ {<<"connect", r, n>>}) \cup {<<"read", r, n>>}
        /\ handle' = [handle EXCEPT ![r] = IF @ = "proxy" THEN "socket" ELSE @]
        /\ UNCHANGED <<waiting, conns, retry_count, timeout_watcher, dns_queries, running,
                       alloc, fate, gc>>
    BY <1>2 DEF Connected, dns, life
  <2>2. r \in conns /\ n = timeout_watcher[r] /\ handle[r] \in {"proxy", "ssl"}
    <3>1. r \in conns /\ n = timeout_watcher[r]
      BY <2>1, CalledBack
    <3>2. \A x \in sources : x[1] = "connect" => handle[x[2]] \in {"proxy", "ssl"}
      BY DEF PoolInv, Attached
    <3> QED
      BY <2>1, <3>1, <3>2
  <2>3. Attached(conns', handle', sources')
    <3> SUFFICES ASSUME NEW x \in sources'
                 PROVE  /\ x[1] \in {"connect", "read", "timer"} => x[2] \in conns
                        /\ x[1] = "connect" => handle'[x[2]] \in {"proxy", "ssl"}
                        /\ x[1] = "read" => /\ handle'[x[2]] \in {"socket", "ssl"}
                                            /\ <<"connect", x[2], x[3]>> \notin sources'
                        /\ x[1] = "rtm" => x[2] \in Rtm
      BY <2>1 DEF Attached
    <3>1. CASE x = <<"read", r, n>>
      BY <1>0, <2>1, <2>2, <3>1 DEF TypeOK
    <3>2. CASE x # <<"read", r, n>>
      <4>1. x \in sources /\ x # <<"connect", r, n>> /\ x \in Sources
        BY <1>0, <2>1, <3>2 DEF TypeOK
      <4>2. x = <<x[1], x[2], x[3]>>
        BY <4>1 DEF Sources
      <4>3. x[1] = "connect" => x[2] # r
        BY <2>2, <4>1, <4>2 DEF PoolInv, Current
      <4>4. x[1] = "read" => handle'[x[2]] \in {"socket", "ssl"}
        BY <1>0, <2>1, <4>1 DEF PoolInv, Attached, TypeOK, Sources
      <4>5. x[1] = "connect" => handle'[x[2]] \in {"proxy", "ssl"}
        BY <1>0, <2>1, <4>1, <4>3 DEF PoolInv, Attached, TypeOK, Sources
      <4> QED
        BY <2>1, <4>1, <4>4, <4>5 DEF PoolInv, Attached
    <3> QED
      BY <3>1, <3>2
  <2>4. Current(sources', timeout_watcher')
    BY <2>1, <2>2 DEF PoolInv, Current
  <2>5. DnsListed(sources', dns_queries') /\ Watched(conns', sources', timeout_watcher')
    BY <2>1 DEF PoolInv, DnsListed, Watched
  <2> QED
    BY <1>0, <2>1, <2>3, <2>4, <2>5
    DEF PoolInv, PoolBounded, Live, Counted, Unused, Running, Closed, WorkConserving
<1>3. ASSUME NEW r \in Requests, NEW n \in 1 .. timeout_watcher[r], ConnectFailed(r, n)
      PROVE  PoolInv'
  <2> DEFINE s == sources \ {<<"connect", r, n>>}
  <2>1. running = None /\ <<"connect", r, n>> \in sources
        /\ slack_fatal_connection_cb(r, handle, s) /\ retry_count' = retry_count
    BY <1>3 DEF ConnectFailed
  <2>2. r \in conns
    BY <2>1, CalledBack
  <2>3. Held(r, handle, s)
    BY StillHeld
  <2>4. s \in SUBSET Sources /\ handle \in [Requests -> Handles]
    BY <1>0 DEF TypeOK
  <2> HIDE DEF s
  <2> QED
    BY <1>0, <2>1, <2>2, <2>3, <2>4, FatalPool DEF TypeOK
<1>4. ASSUME NEW r \in Requests, NEW n \in 1 .. timeout_watcher[r],
             slack_ssl_connection_error(r, n)
      PROVE  PoolInv'
  <2> DEFINE s == sources \ {<<"connect", r, n>>}
             h == [handle EXCEPT ![r] = "none"]
  <2>1. running = None /\ <<"connect", r, n>> \in sources /\ ResendOrGiveUp(r, h, s)
    BY <1>4 DEF slack_ssl_connection_error
  <2>2. r \in conns /\ n = timeout_watcher[r]
    BY <2>1, CalledBack
  <2>3. \A x \in s : x[2] = r => x[1] \notin {"connect", "read"}
    <3> SUFFICES ASSUME NEW x \in s, x[2] = r, x[1] \in {"connect", "read"} PROVE FALSE
      OBVIOUS
    <3>1. x = <<x[1], r, n>>
      BY <1>0, <2>2, SMTT(60) DEF TypeOK, Sources, PoolInv, Current
    <3> QED
      BY <2>1, <3>1 DEF PoolInv, Attached
  <2>4. Held(r, h, s)
    BY <2>3 DEF Held
  <2>5. s \in SUBSET Sources /\ h \in [Requests -> Handles]
    BY <1>0 DEF TypeOK, Handles
  <2> HIDE DEF s, h
  <2> QED
    BY <2>1, <2>2, <2>4, <2>5, ResendPool
<1>5. ASSUME NEW r \in Requests, NEW n \in 1 .. timeout_watcher[r], ReadSome(r, n)
      PROVE  PoolInv'
  BY <1>0, <1>5
  DEF ReadSome, PoolInv, PoolBounded, Live, Counted, Unused, Running, Closed, WorkConserving,
      dns, life
<1>6. ASSUME NEW r \in Requests, NEW n \in 1 .. timeout_watcher[r], ReadFailed(r, n)
      PROVE  PoolInv'
  <2>1. running = None /\ <<"read", r, n>> \in sources /\ ResendOrGiveUp(r, handle, sources)
    BY <1>6 DEF ReadFailed
  <2>2. r \in conns
    BY <2>1, CalledBack
  <2>3. Held(r, handle, sources)
    BY StillHeld
  <2> QED
    BY <1>0, <2>1, <2>2, <2>3, ResendPool DEF TypeOK
<1>7. ASSUME NEW r \in Requests, NEW n \in 1 .. timeout_watcher[r],
             NEW answer \in {"answered", "empty", "unparsable"}, ReadEnd(r, n, answer)
      PROVE  PoolInv'
  <2> DEFINE s == sources \cup {x \in {<<"rtm", r, n>>} : r \in Rtm}
  <2>1. /\ running = None
        /\ <<"read", r, n>> \in sources
        /\ fate' = [fate EXCEPT ![r] = answer]
        /\ UNCHANGED <<retry_count, gc, posted>>
    BY <1>7 DEF ReadEnd
  <2>2. r \in conns /\ n \in Nat
    BY <2>1, CalledBack
  <2>3. \A x \in s : x \in sources \/ (x = <<"rtm", r, n>> /\ r \in Rtm)
    OBVIOUS
  <2>4. /\ Attached(conns, handle, s)
        /\ Current(s, timeout_watcher)
        /\ DnsListed(s, dns_queries)
        /\ Watched(conns, s, timeout_watcher)
    <3>1. Attached(conns, handle, s)
      <4>1. \A x \in s : x[1] \in {"connect", "read", "timer"} => x \in sources
        BY <2>3
      <4>2. \A x \in s : x[1] = "rtm" => x[2] \in Rtm
        <5>1. \A x \in sources : x[1] = "rtm" => x[2] \in Rtm
          BY DEF PoolInv, Attached
        <5> HIDE DEF s
        <5> QED
          BY <2>3, <5>1
      <4>3. \A x \in s : <<"connect", x[2], x[3]>> \in s => <<"connect", x[2], x[3]>> \in sources
        BY <4>1
      <4> HIDE DEF s
      <4> QED
        BY <4>1, <4>2, <4>3 DEF PoolInv, Attached
    <3>2. Current(s, timeout_watcher) /\ DnsListed(s, dns_queries)
      BY <2>3 DEF PoolInv, Current, DnsListed
    <3>3. Watched(conns, s, timeout_watcher)
      BY DEF PoolInv, Watched
    <3> QED
      BY <3>1, <3>2, <3>3
  <2>5. s \in SUBSET Sources
    BY <1>0, <2>2, <2>3, SMTT(60) DEF TypeOK, Sources
  <2>6. Held(r, handle, s)
    <3>1. \A x \in s : x \in sources \/ (x[1] = "rtm" /\ x[2] \in Rtm)
      BY <2>3
    <3> QED
      BY <3>1, StillHeld
  <2>7. CASE answer = "answered"
    <3>1. /\ running' = r
          /\ sources' = s
          /\ UNCHANGED <<waiting, conns, handle, timeout_watcher, dns_queries, alloc>>
      BY <1>7, <2>7 DEF ReadEnd, dns
    <3>2. alloc[r] = "live"
      BY <2>2 DEF PoolInv, Live
    <3>3. Running'
      BY <1>0, <2>1, <2>2, <2>7, <3>1, <3>2 DEF PoolInv, Running, TypeOK
    <3> HIDE DEF s
    <3> QED
      BY <1>0, <2>1, <2>4, <3>1, <3>3
      DEF PoolInv, PoolBounded, Live, Counted, Unused, Closed, WorkConserving
  <2>8. CASE answer # "answered"
    <3>1. FinishAndNext(r, s) /\ running' = running
      BY <1>7, <2>8 DEF ReadEnd
    <3>2. /\ fate' \in [Requests -> {"unposted", "pending"} \cup Settled]
          /\ fate'[r] \in Settled
          /\ \A other \in Requests \ {r} : fate'[other] = fate[other]
      BY <1>0, <2>1 DEF TypeOK, Settled
    <3> HIDE DEF s
    <3> QED
      BY <2>1, <2>2, <2>5, <2>6, <3>1, <3>2, FinishPool
  <2> QED
    BY <2>7, <2>8
<1>8. ASSUME NEW r \in Requests, CallbackReturns(r) PROVE PoolInv'
  <2>1. /\ running = r /\ running' = None
        /\ FinishAndNext(r, sources)
        /\ UNCHANGED <<retry_count, fate, gc, posted>>
    BY <1>8 DEF CallbackReturns
  <2>2. r \in conns /\ fate[r] \in Settled
    BY <2>1 DEF PoolInv, Running, Live, Settled
  <2>3. Held(r, handle, sources)
    BY StillHeld
  <2> QED
    BY <1>0, <2>1, <2>2, <2>3, FinishPool DEF TypeOK
<1>9. ASSUME NEW r \in Requests, NEW n \in 1 .. timeout_watcher[r],
             slack_connection_timedout(r, n)
      PROVE  PoolInv'
  <2> DEFINE s == sources \ {<<"timer", r, n>>}
  <2>1. running = None /\ <<"timer", r, n>> \in sources /\ ResendOrGiveUp(r, handle, s)
    BY <1>9 DEF slack_connection_timedout
  <2>2. r \in conns
    BY <2>1, CalledBack
  <2>3. Held(r, handle, s)
    BY StillHeld
  <2>4. s \in SUBSET Sources /\ handle \in [Requests -> Handles]
    BY <1>0 DEF TypeOK
  <2> HIDE DEF s
  <2> QED
    BY <2>1, <2>2, <2>3, <2>4, ResendPool
<1>10. ASSUME NEW r \in Requests, NEW n \in 1 .. timeout_watcher[r],
              NEW found \in BOOLEAN, slack_host_lookup_cb(r, n, found)
       PROVE  PoolInv'
  <2>1. /\ sources' = sources \ {<<"dns", r, n>>}
        /\ dns_queries' = dns_queries \ {<<r, n>>}
        /\ gc # "closed"
        /\ UNCHANGED <<waiting, conns, handle, retry_count, timeout_watcher, running,
                       alloc, fate, gc>>
    <3>1. \A x \in sources : x[1] = "dns" => <<x[2], x[3]>> \in dns_queries
      BY DEF PoolInv, DnsListed
    <3> QED
      BY <1>10, <3>1 DEF slack_host_lookup_cb, life, PoolInv, Closed
  <2>2. Attached(conns', handle', sources') /\ Current(sources', timeout_watcher')
    BY <2>1 DEF PoolInv, Attached, Current
  <2>3. DnsListed(sources', dns_queries')
    <3> SUFFICES ASSUME NEW x \in sources', x[1] = "dns" PROVE <<x[2], x[3]>> \in dns_queries'
      BY DEF DnsListed
    <3>1. x \in sources /\ x = <<"dns", x[2], x[3]>>
      BY <1>0, <2>1 DEF TypeOK, Sources
    <3> QED
      BY <2>1, <3>1 DEF PoolInv, DnsListed
  <2>4. Watched(conns', sources', timeout_watcher')
    BY <2>1 DEF PoolInv, Watched
  <2> QED
    BY <1>0, <2>1, <2>2, <2>3, <2>4
    DEF PoolInv, PoolBounded, Live, Counted, Unused, Running, Closed, WorkConserving
<1>11. ASSUME slack_chat_close PROVE PoolInv'
  <2>1. /\ running = None /\ running' = running
        /\ gc' = "closed" /\ waiting' = <<>> /\ conns' = {} /\ dns_queries' = {}
        /\ alloc' = [r \in Requests |-> IF r \in Queued \cup conns THEN "freed" ELSE alloc[r]]
        /\ fate' = [r \in Requests |-> IF r \in Queued \cup conns THEN "cancelled" ELSE fate[r]]
        /\ UNCHANGED <<retry_count, timeout_watcher>>
    BY <1>11 DEF slack_chat_close
  <2>2. Live = Queued \cup conns
    BY DEF PoolInv, Queued, Elements
  <2>3. \A x \in sources' : x \in sources /\ x[1] = "rtm"
    <3> SUFFICES ASSUME NEW x \in sources' PROVE x \in sources /\ x[1] = "rtm"
      OBVIOUS
    <3>1. /\ x \in sources
          /\ x \notin Cancelled(x[2], handle, sources) \/ x[2] \notin Queued \cup conns
          /\ x[1] = "dns" => <<x[2], x[3]>> \notin dns_queries
      BY <1>11 DEF slack_chat_close
    <3>2. x[1] \in {"connect", "read", "timer", "rtm", "dns"}
      BY <1>0, <3>1 DEF TypeOK, Sources
    <3>3. x[1] # "dns"
      BY <3>1 DEF PoolInv, DnsListed
    <3>4. x[1] # "timer"
      BY <3>1 DEF PoolInv, Attached, Current, Cancelled
    <3>5. x[1] \in {"connect", "read"} => x[1] \in OwnedKinds(handle[x[2]]) /\ x[2] \in conns
      BY <3>1 DEF PoolInv, Attached, OwnedKinds
    <3>6. x[1] \notin {"connect", "read"}
      BY <3>1, <3>5 DEF Cancelled
    <3> QED
      BY <3>1, <3>2, <3>3, <3>4, <3>6
  <2>4. /\ Attached(conns', handle', sources') /\ Current(sources', timeout_watcher')
        /\ DnsListed(sources', dns_queries') /\ Watched(conns', sources', timeout_watcher')
    BY <2>1, <2>3 DEF PoolInv, Attached, Current, DnsListed, Watched
  <2>5. Elements(waiting') = {} /\ DOMAIN waiting' = {}
    BY <2>1, EmptySeq DEF Elements
  <2>6. Apart(waiting', conns') /\ Counted(waiting', conns', timeout_watcher', retry_count')
    BY <2>1, <2>5 DEF PoolInv, Apart, Counted
  <2>7. Live' = conns' \cup Elements(waiting')
    BY <2>1, <2>2, <2>5 DEF Live
  <2>8. IsFiniteSet(conns') /\ PoolBounded'
    BY <2>1, FS_EmptySet DEF PoolBounded
  <2>9. Running'
    BY <1>0, <2>1, <2>2 DEF PoolInv, Running, Live, Settled, TypeOK
  <2>10. Unused' /\ Closed' /\ WorkConserving'
    BY <1>0, <2>1 DEF PoolInv, Unused, Closed, WorkConserving, TypeOK
  <2> QED
    BY <1>0, <2>4, <2>6, <2>7, <2>8, <2>9, <2>10 DEF PoolInv
<1>12. ASSUME NEW r \in Requests, NEW n \in 1 .. timeout_watcher[r], slack_ans_timeout(r, n)
       PROVE  PoolInv'
  <2>1. /\ running = None /\ running' = Crashed
        /\ UNCHANGED <<waiting, conns, handle, retry_count, timeout_watcher, sources,
                       dns_queries, alloc, fate, gc>>
    BY <1>12 DEF slack_ans_timeout, life, dns
  <2>2. Running'
    BY <2>1, PoolAssumption DEF PoolInv, Running
  <2> QED
    BY <1>0, <2>1, <2>2
    DEF PoolInv, PoolBounded, Live, Counted, Unused, Closed, WorkConserving
<1>13. CASE UNCHANGED vars
  BY <1>0, <1>13
  DEF vars, PoolInv, PoolBounded, Live, Counted, Unused, Running, Closed, WorkConserving
<1> QED
  BY <1>1, <1>2, <1>3, <1>4, <1>5, <1>6, <1>7, <1>8, <1>9, <1>10, <1>11, <1>12, <1>13
  DEF Next, Callback

(* The pool invariant holds of every behaviour. *)
THEOREM PoolInvariant == Spec => []PoolInv
<1> QED
  BY PoolInit, PoolStep, PTL DEF Spec

-----------------------------------------------------------------------------
(* What follows from it. *)

(* An allocated connection is on exactly one list, once; a freed one is on *)
(* none.                                                                   *)
THEOREM OnePlaceHolds == Spec => []OnePlace
<1>1. PoolInv => OnePlace
  BY DEF PoolInv, OnePlace, Apart, Queued, Elements
<1> QED
  BY <1>1, PoolInvariant, PTL

(* slack_next_connection never opens more than SLACK_MAX_CONNECTIONS.      *)
THEOREM PoolBoundedHolds == Spec => []PoolBounded
<1>1. PoolInv => PoolBounded
  BY DEF PoolInv
<1> QED
  BY <1>1, PoolInvariant, PTL

(* No slot is free while a connection waits, short of a fatal error.       *)
THEOREM WorkConservingHolds == Spec => []WorkConserving
<1>1. PoolInv => WorkConserving
  BY DEF PoolInv
<1> QED
  BY <1>1, PoolInvariant, PTL

(* Without SLACK_METHOD_RTM every callback about a connection finds it in  *)
(* sa->conns, allocated and open.                                          *)
THEOREM ActiveListedHolds == ASSUME Rtm = {} PROVE Spec => []ActiveListed
<1>1. PoolInv => ActiveListed
  <2> SUFFICES ASSUME PoolInv, NEW x \in sources, x[1] # "dns" PROVE x[2] \in conns
    BY DEF ActiveListed
  <2>1. x[1] \in {"connect", "read", "timer", "rtm"}
    BY DEF PoolInv, TypeOK, Sources
  <2> QED
    BY <2>1 DEF PoolInv, Attached
<1> QED
  BY <1>1, PoolInvariant, PTL

(* No callback survives the attempt it was registered for.                 *)
THEOREM NoStaleAttemptHolds == Spec => []NoStaleAttempt
<1>1. PoolInv => NoStaleAttempt
  BY DEF PoolInv, Current, NoStaleAttempt
<1> QED
  BY <1>1, PoolInvariant, PTL

(* Every open attempt has its 120 second timer.                            *)
THEOREM SupervisedHolds == Spec => []Supervised
<1>1. PoolInv => Supervised
  BY DEF PoolInv, Watched, Supervised
<1> QED
  BY <1>1, PoolInvariant, PTL

(* A request is sent at most three times.                                  *)
THEOREM TriesBoundedHolds == Spec => []TriesBounded
<1>1. PoolInv => TriesBounded
  BY DEF PoolInv, Counted, TriesBounded, Queued, Elements
<1> QED
  BY <1>1, PoolInvariant, PTL

(* slack_chat_close leaves neither a connection nor a callback behind.     *)
THEOREM ClosedIsQuietHolds == ASSUME Rtm = {} PROVE Spec => []ClosedIsQuiet
<1>1. PoolInv => ClosedIsQuiet
  <2> SUFFICES ASSUME PoolInv, gc = "closed"
               PROVE  Live = {} /\ sources = {} /\ dns_queries = {}
    BY DEF ClosedIsQuiet
  <2>1. waiting = <<>> /\ conns = {} /\ dns_queries = {}
    BY DEF PoolInv, Closed
  <2>2. Live = {}
    BY <2>1, EmptySeq DEF PoolInv, Elements
  <2>3. ASSUME NEW x \in sources PROVE FALSE
    <3>1. x[1] \in {"connect", "read", "timer", "rtm", "dns"}
      BY DEF PoolInv, TypeOK, Sources
    <3> QED
      BY <2>1, <3>1 DEF PoolInv, Attached, DnsListed
  <2> QED
    BY <2>1, <2>2, <2>3
<1> QED
  BY <1>1, PoolInvariant, PTL

(* A retried request goes behind every waiting one.                        *)
LEMMA ResendYields ==
  ASSUME PoolInv, NEW r \in conns,
         NEW h \in [Requests -> Handles], NEW s \in SUBSET Sources,
         ResendOrGiveUp(r, h, s),
         NEW retried \in Requests, retry_count'[retried] > retry_count[retried],
         waiting # <<>>
  PROVE  retried \notin conns'
<1>0. retried = r
  <2>1. retry_count \in [Requests -> Nat]
    BY DEF PoolInv, TypeOK
  <2>2. retried # r => retry_count'[retried] = retry_count[retried]
    BY <2>1 DEF ResendOrGiveUp
  <2>3. retry_count[retried] \in Nat
    BY <2>1
  <2> QED
    BY <2>2, <2>3
<1>1. waiting \in Seq(Requests) /\ r \notin Elements(waiting) /\ r \in Requests
  BY DEF PoolInv, TypeOK, Apart
<1>3. CASE Requeue(r, h, s)
  <2>1. Head(Append(waiting, r)) = waiting[1] /\ 1 \in DOMAIN waiting
    BY <1>1, PopElements, AppendProperties
  <2>2. Head(Append(waiting, r)) # r
    BY <1>1, <2>1 DEF Elements
  <2>3. conns' \subseteq (conns \ {r}) \cup {Head(Append(waiting, r))}
    BY <1>3 DEF Requeue, slack_next_connection, slack_attempt_connection
  <2> QED
    BY <1>0, <2>2, <2>3
<1>4. CASE slack_fatal_connection_cb(r, h, s)
  BY <1>0, <1>4 DEF slack_fatal_connection_cb
<1> QED
  BY <1>3, <1>4 DEF ResendOrGiveUp

(* A retry never takes the slot that a waiting request could have.         *)
THEOREM RetryYieldsHolds == Spec => RetryYields
<1> DEFINE Yields == \A r \in Requests :
                       retry_count'[r] > retry_count[r] /\ waiting # <<>> => r \notin conns'
<1>1. ASSUME PoolInv, [Next]_vars PROVE Yields
  <2>0. TypeOK
    BY <1>1 DEF PoolInv
  <2>1. CASE UNCHANGED retry_count
    BY <2>0, <2>1 DEF TypeOK
  <2>2. ASSUME NEW r \in Requests, NEW n \in 1 .. timeout_watcher[r],
               slack_ssl_connection_error(r, n)
        PROVE  Yields
    <3> DEFINE h == [handle EXCEPT ![r] = "none"]
               s == sources \ {<<"connect", r, n>>}
    <3>1. r \in conns
      BY <1>1, <2>2, CalledBack DEF slack_ssl_connection_error
    <3>2. h \in [Requests -> Handles] /\ s \in SUBSET Sources /\ ResendOrGiveUp(r, h, s)
      BY <2>0, <2>2 DEF slack_ssl_connection_error, TypeOK, Handles
    <3> HIDE DEF h, s
    <3> QED
      BY <1>1, <3>1, <3>2, ResendYields
  <2>3. ASSUME NEW r \in Requests, NEW n \in 1 .. timeout_watcher[r], ReadFailed(r, n)
        PROVE  Yields
    <3>1. r \in conns
      BY <1>1, <2>3, CalledBack DEF ReadFailed
    <3>2. /\ handle \in [Requests -> Handles] /\ sources \in SUBSET Sources
          /\ ResendOrGiveUp(r, handle, sources)
      BY <2>0, <2>3 DEF ReadFailed, TypeOK
    <3> QED
      BY <1>1, <3>1, <3>2, ResendYields
  <2>4. ASSUME NEW r \in Requests, NEW n \in 1 .. timeout_watcher[r],
               slack_connection_timedout(r, n)
        PROVE  Yields
    <3> DEFINE s == sources \ {<<"timer", r, n>>}
    <3>1. r \in conns
      BY <1>1, <2>4, CalledBack DEF slack_connection_timedout
    <3>2. /\ handle \in [Requests -> Handles] /\ s \in SUBSET Sources
          /\ ResendOrGiveUp(r, handle, s)
      BY <2>0, <2>4 DEF slack_connection_timedout, TypeOK
    <3> HIDE DEF s
    <3> QED
      BY <1>1, <3>1, <3>2, ResendYields
  <2> QED
    BY <1>1, <2>1, <2>2, <2>3, <2>4, ZenonT(60)
    DEF Next, Callback, get_or_post_request, Connected, ConnectFailed, ReadSome, ReadEnd,
        CallbackReturns, slack_ans_timeout, slack_host_lookup_cb, slack_chat_close, vars
<1> QED
  BY <1>1, PoolInvariant, PTL DEF Spec, RetryYields

-----------------------------------------------------------------------------
(* The order of service. *)

(* Taking the oldest connection from the queue respects the order: a       *)
(* request posted before it and still allocated has been attempted, or it  *)
(* would wait ahead of it.                                                 *)
LEMMA NextConnectionOrder ==
  ASSUME TypeOK,
         NEW q \in Seq(Requests), NEW cs \in SUBSET Requests, NEW h, NEW s,
         NEW p \in Seq(Requests), NEW al \in [Requests -> {"none", "live", "freed"}],
         Apart(q, cs), Recorded(p, al),
         \A r \in Requests : al[r] = "live" => r \in cs \cup Elements(q),
         \A r \in cs : timeout_watcher[r] > 0,
         InOrder(q, timeout_watcher, p), Served(timeout_watcher, p, al),
         slack_next_connection(q, cs, h, s)
  PROVE  InOrder(waiting', timeout_watcher', p) /\ Served(timeout_watcher', p, al)
<1>0. /\ DOMAIN p \subseteq Nat /\ DOMAIN q \subseteq Nat
      /\ \A i \in DOMAIN p : p[i] \in Requests
      /\ \A i \in DOMAIN q : q[i] \in Requests
      /\ timeout_watcher \in [Requests -> Nat]
  BY LenProperties, ElementOfSeq DEF TypeOK
<1>1. ASSUME q # <<>>, waiting' = Tail(q), NEW linked \in BOOLEAN,
             slack_attempt_connection(Head(q), cs, h, s, linked)
      PROVE  InOrder(waiting', timeout_watcher', p) /\ Served(timeout_watcher', p, al)
  <2> DEFINE c == Head(q)
  <2>1. /\ c \in Requests /\ Tail(q) \in Seq(Requests)
        /\ 1 \in DOMAIN q /\ c = q[1]
        /\ \A i \in DOMAIN Tail(q) : i + 1 \in DOMAIN q /\ i + 1 > 1 /\ Tail(q)[i] = q[i + 1]
    BY <1>1, PopElements
  <2>2. timeout_watcher' = [timeout_watcher EXCEPT ![c] = timeout_watcher[c] + 1]
    BY <1>1 DEF slack_attempt_connection
  <2> HIDE DEF c
  <2>3. \A r \in Requests : timeout_watcher'[r] = IF r = c THEN timeout_watcher[c] + 1
                                                 ELSE timeout_watcher[r]
    BY <1>0, <2>1, <2>2
  <2>4. DOMAIN Tail(q) \subseteq Nat
    BY <2>1, LenProperties
  <2>a. ASSUME NEW r \in Requests
        PROVE  /\ timeout_watcher[r] \in Nat
               /\ timeout_watcher[r] > 0 => timeout_watcher'[r] > 0
               /\ timeout_watcher'[r] = 0 => timeout_watcher[r] = 0
    <3>1. timeout_watcher[r] \in Nat /\ timeout_watcher[c] \in Nat
      BY <1>0, <2>1
    <3> QED
      BY <2>3, <3>1
  <2>5. InOrder(Tail(q), timeout_watcher', p)
    <3> SUFFICES ASSUME NEW a \in DOMAIN Tail(q), NEW b \in DOMAIN Tail(q),
                        NEW i \in DOMAIN p, NEW j \in DOMAIN p,
                        a < b,
                        timeout_watcher'[Tail(q)[a]] = 0, timeout_watcher'[Tail(q)[b]] = 0,
                        Tail(q)[a] = p[i], Tail(q)[b] = p[j]
                 PROVE  i < j
      BY DEF InOrder
    <3>1. /\ a + 1 \in DOMAIN q /\ b + 1 \in DOMAIN q /\ a + 1 < b + 1
          /\ q[a + 1] = p[i] /\ q[b + 1] = p[j]
      BY <2>1, <2>4
    <3>2. timeout_watcher[q[a + 1]] = 0 /\ timeout_watcher[q[b + 1]] = 0
      BY <1>0, <2>1, <2>a, <3>1
    <3> QED
      BY <3>1, <3>2 DEF InOrder
  <2>6. Served(timeout_watcher', p, al)
    <3> SUFFICES ASSUME NEW i \in DOMAIN p, NEW j \in DOMAIN p,
                        i < j, timeout_watcher'[p[j]] > 0,
                        al[p[i]] # "freed"
                 PROVE  timeout_watcher'[p[i]] > 0
      BY DEF Served
    <3>1. timeout_watcher[p[i]] > 0 => timeout_watcher'[p[i]] > 0
      BY <1>0, <2>a
    <3>2. CASE timeout_watcher[p[j]] > 0
      BY <3>1, <3>2 DEF Served
    <3>3. CASE timeout_watcher[p[j]] = 0
      <4>1. p[j] = c
        BY <1>0, <2>3, <3>3
      <4>2. SUFFICES ASSUME timeout_watcher[p[i]] = 0 PROVE FALSE
        BY <1>0, <3>1
      <4>3. al[p[i]] = "live"
        BY <1>0 DEF Recorded, Elements
      <4>4. p[i] \in Elements(q)
        BY <1>0, <4>2, <4>3
      <4>5. PICK a \in DOMAIN q : q[a] = p[i]
        BY <4>4 DEF Elements
      <4>6. a # 1
        BY <1>0, <2>1, <4>1, <4>5 DEF Recorded
      <4>7. 1 < a
        BY <1>0, <2>1, <4>6, LenProperties
      <4>8. j < i
        BY <2>1, <3>3, <4>1, <4>2, <4>5, <4>7 DEF InOrder
      <4> QED
        BY <1>0, <4>8
    <3> QED
      BY <1>0, <3>2, <3>3
  <2> QED
    BY <1>1, <2>5, <2>6
<1>2. CASE waiting' = q /\ UNCHANGED timeout_watcher
  BY <1>2
<1> QED
  BY <1>1, <1>2 DEF slack_next_connection

(* Freeing a connection respects the order. *)
LEMMA FreeingRecord ==
  ASSUME TypeOK, OrderInv, NEW r \in Requests, alloc[r] = "live",
         alloc' = [alloc EXCEPT ![r] = "freed"]
  PROVE  /\ Recorded(posted, alloc')
         /\ Served(timeout_watcher, posted, alloc')
         /\ alloc' \in [Requests -> {"none", "live", "freed"}]
<1>1. \A other \in Requests : /\ alloc'[other] = "none" <=> alloc[other] = "none"
                              /\ alloc[other] = "freed" => alloc'[other] = "freed"
  BY DEF TypeOK
<1>2. \A i \in DOMAIN posted : posted[i] \in Requests
  BY LenProperties, ElementOfSeq DEF TypeOK
<1>3. Recorded(posted, alloc')
  BY <1>1 DEF OrderInv, Recorded
<1>4. Served(timeout_watcher, posted, alloc')
  BY <1>1, <1>2 DEF OrderInv, Served
<1> QED
  BY <1>3, <1>4 DEF TypeOK

(* So does freeing one while the queue stays as it is. *)
LEMMA FreeingOrder ==
  ASSUME TypeOK, OrderInv, NEW r \in Requests, alloc[r] = "live",
         alloc' = [alloc EXCEPT ![r] = "freed"],
         UNCHANGED <<waiting, timeout_watcher, posted>>
  PROVE  OrderInv'
<1>1. Recorded(posted, alloc') /\ Served(timeout_watcher, posted, alloc')
  BY FreeingRecord
<1> QED
  BY <1>1 DEF OrderInv

(* A retry, or giving up, respects the order. *)
LEMMA ResendOrder ==
  ASSUME PoolInv, OrderInv, NEW r \in conns,
         NEW h \in [Requests -> Handles], NEW s \in SUBSET Sources,
         ResendOrGiveUp(r, h, s)
  PROVE  OrderInv'
<1>1. /\ TypeOK /\ waiting \in Seq(Requests) /\ posted \in Seq(Requests) /\ r \in Requests
      /\ alloc \in [Requests -> {"none", "live", "freed"}] /\ conns \in SUBSET Requests
      /\ alloc[r] = "live" /\ r \notin Elements(waiting)
      /\ timeout_watcher \in [Requests -> Nat] /\ retry_count \in [Requests -> Nat]
  BY DEF PoolInv, TypeOK, Live, Apart
<1>2. \A other \in conns : timeout_watcher[other] > 0
  BY <1>1 DEF PoolInv, Counted
<1>3. CASE Requeue(r, h, s)
  <2> DEFINE q == Append(waiting, r)
  <2>1. /\ q \in Seq(Requests)
        /\ Elements(q) = Elements(waiting) \cup {r}
        /\ \A i \in DOMAIN q : \/ i \in DOMAIN waiting /\ q[i] = waiting[i]
                               \/ i = Len(waiting) + 1 /\ q[i] = r
    BY <1>1, PushElements
  <2> HIDE DEF q
  <2>2. /\ slack_next_connection(q, conns \ {r}, [h EXCEPT ![r] = "none"],
                                 s \ Cancelled(r, h, s))
        /\ UNCHANGED <<alloc, posted>>
    BY <1>3 DEF Requeue, life, q
  <2>3. Apart(q, conns \ {r})
    <3>1. \A i \in DOMAIN waiting : waiting[i] # r
      BY <1>1 DEF Elements
    <3> QED
      BY <2>1, <3>1 DEF PoolInv, Apart
  <2>4. InOrder(q, timeout_watcher, posted)
    BY <1>2, <2>1 DEF OrderInv, InOrder
  <2>5. \A other \in Requests : alloc[other] = "live" => other \in (conns \ {r}) \cup Elements(q)
    BY <2>1 DEF PoolInv, Live
  <2>6. /\ conns \ {r} \in SUBSET Requests
        /\ \A other \in conns \ {r} : timeout_watcher[other] > 0
    BY <1>1, <1>2
  <2>7. Recorded(posted, alloc) /\ Served(timeout_watcher, posted, alloc)
    BY DEF OrderInv
  <2>8. InOrder(waiting', timeout_watcher', posted) /\ Served(timeout_watcher', posted, alloc)
    BY <1>1, <2>1, <2>2, <2>3, <2>4, <2>5, <2>6, <2>7, NextConnectionOrder
  <2> QED
    BY <2>2, <2>7, <2>8 DEF OrderInv
<1>4. CASE slack_fatal_connection_cb(r, h, s)
  <2>1. /\ alloc' = [alloc EXCEPT ![r] = "freed"]
        /\ UNCHANGED <<waiting, timeout_watcher, posted>>
    BY <1>4 DEF slack_fatal_connection_cb
  <2> QED
    BY <1>1, <2>1, FreeingOrder
<1> QED
  BY <1>3, <1>4 DEF ResendOrGiveUp

(* Each action respects the order. *)
LEMMA OrderStep == PoolInv /\ OrderInv /\ [Next]_vars => OrderInv'
<1> SUFFICES ASSUME PoolInv, OrderInv, [Next]_vars PROVE OrderInv'
  OBVIOUS
<1>0. /\ TypeOK /\ waiting \in Seq(Requests) /\ posted \in Seq(Requests)
      /\ alloc \in [Requests -> {"none", "live", "freed"}] /\ conns \in SUBSET Requests
      /\ handle \in [Requests -> Handles] /\ sources \in SUBSET Sources
      /\ timeout_watcher \in [Requests -> Nat] /\ retry_count \in [Requests -> Nat]
  BY DEF PoolInv, TypeOK
<1>a. \A other \in conns : timeout_watcher[other] > 0
  BY <1>0 DEF PoolInv, Counted
<1>b. ASSUME NEW r \in conns, NEW s, FinishAndNext(r, s), UNCHANGED posted PROVE OrderInv'
  <2>1. r \in Requests /\ alloc[r] = "live"
    BY <1>0 DEF PoolInv, Live
  <2>2. /\ alloc' = [alloc EXCEPT ![r] = "freed"]
        /\ slack_next_connection(waiting, conns \ {r}, [handle EXCEPT ![r] = "none"],
                                 s \ Cancelled(r, handle, s))
    BY <1>b DEF FinishAndNext
  <2>3. /\ Recorded(posted, alloc') /\ Served(timeout_watcher, posted, alloc')
        /\ alloc' \in [Requests -> {"none", "live", "freed"}]
    BY <1>0, <2>1, <2>2, FreeingRecord
  <2>4. \A other \in Requests :
          alloc'[other] = "live" => other \in (conns \ {r}) \cup Elements(waiting)
    BY <1>0, <2>1, <2>2 DEF PoolInv, Live, Apart
  <2>5. Apart(waiting, conns \ {r})
    BY DEF PoolInv, Apart
  <2>6. InOrder(waiting', timeout_watcher', posted) /\ Served(timeout_watcher', posted, alloc')
    <3>1. /\ conns \ {r} \in SUBSET Requests
          /\ \A other \in conns \ {r} : timeout_watcher[other] > 0
      BY <1>0, <1>a
    <3>2. InOrder(waiting, timeout_watcher, posted)
      BY DEF OrderInv
    <3> QED
      BY <1>0, <2>2, <2>3, <2>4, <2>5, <3>1, <3>2, NextConnectionOrder
  <2> QED
    BY <1>b, <2>3, <2>6 DEF OrderInv
<1>1. ASSUME NEW r \in Requests, get_or_post_request(r) PROVE OrderInv'
  <2> DEFINE q == Append(waiting, r)
             p == Append(posted, r)
  <2>1. /\ q \in Seq(Requests)
        /\ Elements(q) = Elements(waiting) \cup {r}
        /\ \A i \in DOMAIN q : \/ i \in DOMAIN waiting /\ q[i] = waiting[i]
                               \/ i = Len(waiting) + 1 /\ q[i] = r
    BY <1>0, PushElements
  <2>2. /\ p \in Seq(Requests)
        /\ Elements(p) = Elements(posted) \cup {r}
        /\ \A i \in DOMAIN p : \/ i \in DOMAIN posted /\ p[i] = posted[i]
                               \/ i = Len(posted) + 1 /\ p[i] = r
    BY <1>0, PushElements
  <2> HIDE DEF q, p
  <2>3. /\ alloc[r] = "none"
        /\ alloc' = [alloc EXCEPT ![r] = "live"]
        /\ posted' = p
        /\ slack_next_connection(q, conns, handle, sources)
    BY <1>1 DEF get_or_post_request, q, p
  <2>4. /\ r \notin conns /\ r \notin Elements(waiting) /\ r \notin Elements(posted)
        /\ timeout_watcher[r] = 0
    BY <2>3 DEF PoolInv, Live, Unused, OrderInv, Recorded
  <2>5. /\ \A i \in DOMAIN waiting : waiting[i] # r
        /\ \A i \in DOMAIN posted : posted[i] # r
        /\ Len(posted) \in Nat /\ DOMAIN posted = 1 .. Len(posted)
        /\ Len(waiting) \in Nat /\ DOMAIN waiting = 1 .. Len(waiting)
    BY <1>0, <2>4, LenProperties DEF Elements
  <2>6. Apart(q, conns)
    BY <2>1, <2>4, <2>5 DEF PoolInv, Apart
  <2>7. Recorded(p, alloc')
    <3>1. Elements(p) = {other \in Requests : alloc'[other] # "none"}
      BY <1>0, <2>2, <2>3 DEF OrderInv, Recorded
    <3>2. \A i, j \in DOMAIN p : p[i] = p[j] => i = j
      BY <2>2, <2>5 DEF OrderInv, Recorded
    <3> QED
      BY <3>1, <3>2 DEF Recorded
  <2>8. \A other \in Requests : alloc'[other] = "live" => other \in conns \cup Elements(q)
    BY <1>0, <2>1, <2>3 DEF PoolInv, Live
  <2>9. InOrder(q, timeout_watcher, p)
    <3> SUFFICES ASSUME NEW a \in DOMAIN q, NEW b \in DOMAIN q,
                        NEW i \in DOMAIN p, NEW j \in DOMAIN p,
                        a < b, timeout_watcher[q[a]] = 0, timeout_watcher[q[b]] = 0,
                        q[a] = p[i], q[b] = p[j]
                 PROVE  i < j
      BY DEF InOrder
    <3>1. a \in DOMAIN waiting /\ q[a] = waiting[a] /\ waiting[a] # r
      BY <2>1, <2>5
    <3>2. i \in DOMAIN posted /\ p[i] = posted[i]
      BY <2>2, <3>1
    <3>3. CASE b \in DOMAIN waiting /\ q[b] = waiting[b]
      <4>1. j \in DOMAIN posted /\ p[j] = posted[j]
        BY <2>2, <2>5, <3>3
      <4> QED
        BY <3>1, <3>2, <3>3, <4>1 DEF OrderInv, InOrder
    <3>4. CASE q[b] = r
      <4>1. j = Len(posted) + 1
        BY <2>2, <2>5, <3>4
      <4> QED
        BY <2>5, <3>2, <4>1
    <3> QED
      BY <2>1, <3>3, <3>4
  <2>10. Served(timeout_watcher, p, alloc')
    <3> SUFFICES ASSUME NEW i \in DOMAIN p, NEW j \in DOMAIN p,
                        i < j, timeout_watcher[p[j]] > 0
                 PROVE  timeout_watcher[p[i]] > 0 \/ alloc'[p[i]] = "freed"
      BY DEF Served
    <3>1. j \in DOMAIN posted /\ p[j] = posted[j]
      BY <2>2, <2>4
    <3>2. i \in DOMAIN posted /\ p[i] = posted[i] /\ posted[i] # r
      BY <2>2, <2>5, <3>1
    <3>3. timeout_watcher[posted[i]] > 0 \/ alloc[posted[i]] = "freed"
      BY <3>1, <3>2 DEF OrderInv, Served
    <3>4. posted[i] \in Requests
      BY <1>0, <2>5, <3>2, ElementOfSeq
    <3> QED
      BY <1>0, <2>3, <3>2, <3>3, <3>4
  <2>11. alloc' \in [Requests -> {"none", "live", "freed"}]
    BY <1>0, <2>3
  <2>12. InOrder(waiting', timeout_watcher', p) /\ Served(timeout_watcher', p, alloc')
    BY <1>0, <1>a, <2>1, <2>2, <2>3, <2>6, <2>7, <2>8, <2>9, <2>10, <2>11, NextConnectionOrder
  <2> QED
    BY <2>3, <2>7, <2>12 DEF OrderInv
<1>2. ASSUME NEW r \in Requests, NEW n \in 1 .. timeout_watcher[r], ConnectFailed(r, n)
      PROVE  OrderInv'
  <2>1. r \in conns /\ alloc[r] = "live"
    BY <1>2, CalledBack DEF ConnectFailed, PoolInv, Live
  <2>2. /\ alloc' = [alloc EXCEPT ![r] = "freed"]
        /\ UNCHANGED <<waiting, timeout_watcher, posted>>
    BY <1>2 DEF ConnectFailed, slack_fatal_connection_cb
  <2> QED
    BY <1>0, <2>1, <2>2, FreeingOrder
<1>3. ASSUME NEW r \in Requests, NEW n \in 1 .. timeout_watcher[r],
             slack_ssl_connection_error(r, n)
      PROVE  OrderInv'
  <2> DEFINE h == [handle EXCEPT ![r] = "none"]
             s == sources \ {<<"connect", r, n>>}
  <2>1. r \in conns
    BY <1>3, CalledBack DEF slack_ssl_connection_error
  <2>2. h \in [Requests -> Handles] /\ s \in SUBSET Sources /\ ResendOrGiveUp(r, h, s)
    BY <1>0, <1>3 DEF slack_ssl_connection_error, Handles
  <2> HIDE DEF h, s
  <2> QED
    BY <2>1, <2>2, ResendOrder
<1>4. ASSUME NEW r \in Requests, NEW n \in 1 .. timeout_watcher[r], ReadFailed(r, n)
      PROVE  OrderInv'
  <2>1. r \in conns /\ ResendOrGiveUp(r, handle, sources)
    BY <1>4, CalledBack DEF ReadFailed
  <2> QED
    BY <1>0, <2>1, ResendOrder
<1>5. ASSUME NEW r \in Requests, NEW n \in 1 .. timeout_watcher[r],
             NEW answer \in {"answered", "empty", "unparsable"}, ReadEnd(r, n, answer)
      PROVE  OrderInv'
  <2>1. r \in conns
    BY <1>5, CalledBack DEF ReadEnd
  <2>2. CASE answer = "answered"
    BY <1>5, <2>2 DEF ReadEnd, OrderInv
  <2>3. CASE answer # "answered"
    BY <1>5, <1>b, <2>1, <2>3 DEF ReadEnd
  <2> QED
    BY <2>2, <2>3
<1>6. ASSUME NEW r \in Requests, CallbackReturns(r) PROVE OrderInv'
  <2>1. r \in conns
    BY <1>6, PoolAssumption DEF CallbackReturns, PoolInv, Running
  <2> QED
    BY <1>6, <1>b, <2>1 DEF CallbackReturns
<1>7. ASSUME NEW r \in Requests, NEW n \in 1 .. timeout_watcher[r],
             slack_connection_timedout(r, n)
      PROVE  OrderInv'
  <2> DEFINE s == sources \ {<<"timer", r, n>>}
  <2>1. r \in conns
    BY <1>7, CalledBack DEF slack_connection_timedout
  <2>2. s \in SUBSET Sources /\ ResendOrGiveUp(r, handle, s)
    BY <1>0, <1>7 DEF slack_connection_timedout
  <2> HIDE DEF s
  <2> QED
    BY <1>0, <2>1, <2>2, ResendOrder
<1>8. ASSUME slack_chat_close PROVE OrderInv'
  <2>1. /\ waiting' = <<>> /\ UNCHANGED <<posted, timeout_watcher>>
        /\ alloc' = [r \in Requests |-> IF r \in Queued \cup conns THEN "freed" ELSE alloc[r]]
    BY <1>8 DEF slack_chat_close
  <2>2. \A r \in Requests : /\ alloc'[r] = "none" <=> alloc[r] = "none"
                            /\ alloc[r] = "freed" => alloc'[r] = "freed"
    BY <2>1 DEF PoolInv, Live, Queued, Elements
  <2>3. Recorded(posted, alloc')
    BY <2>2 DEF OrderInv, Recorded
  <2>4. Served(timeout_watcher, posted, alloc')
    <3>1. \A i \in DOMAIN posted : posted[i] \in Requests
      BY <1>0, LenProperties, ElementOfSeq
    <3> QED
      BY <2>2, <3>1 DEF OrderInv, Served
  <2>5. InOrder(waiting', timeout_watcher', posted')
    BY <2>1, EmptySeq DEF InOrder
  <2> QED
    BY <2>1, <2>3, <2>4, <2>5 DEF OrderInv
<1>9. CASE UNCHANGED <<waiting, timeout_watcher, posted, alloc>>
  BY <1>9 DEF OrderInv
<1> QED
  BY <1>1, <1>2, <1>3, <1>4, <1>5, <1>6, <1>7, <1>8, <1>9
  DEF Next, Callback, Connected, ReadSome, slack_ans_timeout, slack_host_lookup_cb, life, vars

(* posted lists each request once, those never attempted wait in its order,*)
(* and a request is attempted after every one posted before it: what       *)
(* get_or_post_request at the tail, slack_next_connection at the head, and *)
(* a retry at the tail keep between them.                                  *)
THEOREM OrderInvariant == Spec => [](PoolInv /\ OrderInv)
<1>1. Init => OrderInv
  <2> SUFFICES ASSUME Init PROVE OrderInv
    OBVIOUS
  <2>1. DOMAIN waiting = {} /\ DOMAIN posted = {} /\ Elements(posted) = {}
    BY EmptySeq DEF Init, Elements
  <2>2. {r \in Requests : alloc[r] # "none"} = {}
    BY DEF Init
  <2> QED
    BY <2>1, <2>2 DEF OrderInv, Recorded, InOrder, Served
<1> QED
  BY <1>1, OrderStep, PoolInvariant, PTL DEF Spec

(* Requests are first attempted in the order they were posted.             *)
THEOREM FirstComeFirstServedHolds == Spec => []FirstComeFirstServed
<1>1. OrderInv => FirstComeFirstServed
  BY DEF OrderInv, Served, FirstComeFirstServed
<1> QED
  BY <1>1, OrderInvariant, PTL
=============================================================================
