---------------------------- MODULE DeliveryProofs ----------------------------
(***************************************************************************)
(* Proofs about the pool together with the server: for any number of       *)
(* requests, slots, tries and cookies.                                     *)
(*                                                                         *)
(* Every step of the composition is a step of the pool or leaves the pool  *)
(* alone, so what SlackConnectionProofs proves of the pool holds here too. *)
(* The cookies are a matter of the composition alone.                      *)
(***************************************************************************)
EXTENDS Delivery, SlackConnectionProofs

-----------------------------------------------------------------------------
(* The composition implements the pool.                                    *)

(* The end of an answer is a callback of the attempt that is open.         *)
LEMMA ReadEndIsCallback ==
  ASSUME PoolInv, NEW r, NEW n, NEW outcome \in {"answered", "empty", "unparsable"},
         ReadEnd(r, n, outcome)
  PROVE  r \in Requests /\ Callback(r)
<1>1. <<"read", r, n>> \in sources
  BY DEF ReadEnd
<1>2. r \in Requests
  BY <1>1 DEF PoolInv, TypeOK, Sources
<1>3. r \in conns /\ n = timeout_watcher[r] /\ n \in Nat
  BY <1>1, <1>2, CalledBack
<1>4. timeout_watcher[r] = retry_count[r] + 1 /\ retry_count[r] \in Nat
  BY <1>2, <1>3 DEF PoolInv, TypeOK, Counted
<1>5. n \in 1 .. timeout_watcher[r]
  BY <1>3, <1>4
<1> QED
  BY <1>2, <1>5 DEF Callback

(* A step that is not the pool's leaves it as it is.                       *)
LEMMA PoolOrServer == PoolInv /\ [DNext]_dvars => [Next]_vars
<1> SUFFICES ASSUME PoolInv, [DNext]_dvars PROVE [Next]_vars
  OBVIOUS
<1>1. ASSUME NEW r \in Requests, Post(r) PROVE Next
  BY <1>1 DEF Post, Next
<1>2. ASSUME NEW r \in Requests, NEW n \in 1 .. timeout_watcher[r],
             Write(r, n) \/ Receive(r, n) \/ FailAttempt(r, n)
      PROVE  Next
  <2>1. Callback(r)
    BY <1>2 DEF Write, Receive, FailAttempt, Callback
  <2> QED
    BY <2>1 DEF Next
<1>3. ASSUME NEW r \in Requests, NEW n, NEW outcome \in {"empty", "unparsable"},
             ReadCut(r, n, outcome)
      PROVE  Next
  <2>1. Callback(r)
    BY <1>3, ReadEndIsCallback DEF ReadCut
  <2> QED
    BY <2>1 DEF Next
<1>4. ASSUME NEW r \in Requests, CallbackReturns(r) PROVE Next
  BY <1>4 DEF Next
<1>5. ASSUME slack_chat_close PROVE Next
  BY <1>5 DEF Next
<1>6. ASSUME NEW a \in answers, NEW outcome \in {"answered", "empty", "unparsable"},
             ReadWhole(a, outcome)
      PROVE  Next
  <2>1. a[1] \in Requests /\ Callback(a[1])
    BY <1>6, ReadEndIsCallback DEF ReadWhole
  <2> QED
    BY <2>1 DEF Next
<1>7. ASSUME NEW a \in written, Evaluate(a[1], a[2]) PROVE UNCHANGED vars
  BY <1>7 DEF Evaluate
<1>8. CASE UNCHANGED dvars
  BY <1>8 DEF dvars
<1> QED
  BY <1>1, <1>2, <1>3, <1>4, <1>5, <1>6, <1>7, <1>8 DEF DNext, Pool

(* Beside a server that evaluates what it likes when it likes, the pool    *)
(* does what it does alone: what is proved of it holds of the composition. *)
THEOREM DeliveryImplementsPool == DSpec => Spec
<1>1. DInit => Init
  BY DEF DInit
<1>2. Init => PoolInv
  BY PoolInit
<1>3. PoolInv /\ [DNext]_dvars => PoolInv' /\ [Next]_vars
  BY PoolStep, PoolOrServer
<1> QED
  BY <1>1, <1>2, <1>3, PTL DEF DSpec, Spec

-----------------------------------------------------------------------------
(* The cookies.                                                            *)

(* No cookie is newer than the newest the server set, and that one is on   *)
(* its way, kept, or known to be lost.                                     *)
CookieInv ==
  /\ served \in Nat
  /\ cookie_table \in 0 .. served
  /\ \A a \in answers : a[3] \in 0 .. served
  /\ CookiesFollow

(* The newest cookie, if it is among the answers sent, is afterwards on    *)
(* the wire or lost; and no cookie comes of it that was not sent.          *)
LEMMA WireKeeps ==
  ASSUME NEW sent, NEW newest, Wire(sent, newest),
         newest \in Nat, \A a \in sent : a[3] \in 0 .. newest
  PROVE  /\ served' = newest
         /\ \A a \in answers' : a[3] \in 0 .. newest
         /\ \A a \in sent : a[3] = newest => lost' \/ a \in answers'
         /\ lost /\ newest = served => lost'
         /\ cookie_table = newest /\ cookie_table' < cookie_table => lost'
BY DEF Wire, Lost, Overwritten

(* The pool's steps: the server sets nothing.                              *)
LEMMA PoolCookies ==
  ASSUME CookieInv, NEW sent, sent \subseteq answers, Wire(sent, served),
         \/ sent = answers /\ cookie_table' = cookie_table
         \/ \E a \in answers : sent = answers \ {a} /\ cookie_table' = Updated(a)
  PROVE  CookieInv'
<1>1. /\ served \in Nat /\ cookie_table \in 0 .. served
      /\ \A a \in answers : a[3] \in 0 .. served
  BY DEF CookieInv
<1>2. /\ served' = served
      /\ \A a \in answers' : a[3] \in 0 .. served
      /\ \A a \in sent : a[3] = served => lost' \/ a \in answers'
      /\ lost => lost'
      /\ cookie_table = served /\ cookie_table' < cookie_table => lost'
  BY <1>1, WireKeeps
<1>3. cookie_table' \in 0 .. served
  BY <1>1 DEF Updated
<1>4. CookiesFollow'
  <2>1. CASE lost
    BY <1>2, <2>1 DEF CookiesFollow
  <2>2. CASE cookie_table = served
    <3>1. cookie_table' = served \/ cookie_table' < cookie_table
      BY <1>1, <1>3, <2>2
    <3> QED
      BY <1>2, <2>2, <3>1 DEF CookiesFollow
  <2>3. ASSUME NEW a \in answers, a[3] = served PROVE CookiesFollow'
    <3>1. CASE a \in sent
      BY <1>2, <2>3, <3>1 DEF CookiesFollow
    <3>2. CASE a \notin sent
      <4>1. cookie_table' = Updated(a)
        BY <2>3, <3>2
      <4>2. cookie_table' = served
        BY <1>1, <2>3, <4>1 DEF Updated
      <4> QED
        BY <1>2, <4>2 DEF CookiesFollow
    <3> QED
      BY <3>1, <3>2
  <2> QED
    BY <2>1, <2>2, <2>3 DEF CookieInv, CookiesFollow
<1> QED
  BY <1>2, <1>3, <1>4 DEF CookieInv

(* The server's steps.                                                     *)
LEMMA ServerCookies ==
  ASSUME CookieInv, NEW r, NEW n, Evaluate(r, n)
  PROVE  CookieInv'
<1>1. /\ served \in Nat /\ cookie_table \in 0 .. served /\ cookie_table' = cookie_table
      /\ \A a \in answers : a[3] \in 0 .. served
  BY DEF CookieInv, Evaluate
<1>2. ASSUME NEW newest \in {served, served + 1}, NEW c \in 0 .. newest,
             newest = served \/ c = newest,
             Wire(answers \cup {<<r, n, c>>}, newest)
      PROVE  CookieInv'
  <2> DEFINE sent == answers \cup {<<r, n, c>>}
  <2>1. newest \in Nat /\ \A a \in sent : a[3] \in 0 .. newest
    BY <1>1, <1>2
  <2> HIDE DEF sent
  <2>2. /\ served' = newest
        /\ \A a \in answers' : a[3] \in 0 .. newest
        /\ \A a \in sent : a[3] = newest => lost' \/ a \in answers'
        /\ lost /\ newest = served => lost'
    BY <1>2, <2>1, WireKeeps DEF sent
  <2>3. CASE newest = served
    BY <1>1, <2>2, <2>3 DEF CookieInv, CookiesFollow, sent
  <2>4. CASE c = newest
    <3>1. <<r, n, c>> \in sent /\ <<r, n, c>>[3] = newest
      BY <2>4 DEF sent
    <3>2. CookiesFollow'
      BY <2>2, <3>1 DEF CookiesFollow
    <3>3. cookie_table' \in 0 .. served'
      BY <1>1, <1>2, <2>2
    <3> QED
      BY <2>1, <2>2, <3>2, <3>3 DEF CookieInv
  <2> QED
    BY <1>2, <2>3, <2>4
<1>3. \/ Wire(answers \cup {<<r, n, 0>>}, served)
      \/ Wire(answers \cup {<<r, n, served + 1>>}, served + 1)
  BY DEF Evaluate
<1> QED
  BY <1>1, <1>2, <1>3

(* Every step keeps what is said of the cookies.                           *)
LEMMA CookieStep == CookieInv /\ [DNext]_dvars => CookieInv'
<1> SUFFICES ASSUME CookieInv, [DNext]_dvars PROVE CookieInv'
  OBVIOUS
<1>1. CASE Wire(answers, served) /\ UNCHANGED cookie_table
  BY <1>1, PoolCookies
<1>2. ASSUME NEW a \in answers, NEW outcome, ReadWhole(a, outcome), Wire(answers \ {a}, served)
      PROVE  CookieInv'
  BY <1>2, PoolCookies DEF ReadWhole
<1>3. ASSUME NEW a \in written, Evaluate(a[1], a[2]) PROVE CookieInv'
  BY <1>3, ServerCookies
<1>4. CASE UNCHANGED dvars
  BY <1>4 DEF dvars, CookieInv, CookiesFollow
<1> QED
  BY <1>1, <1>2, <1>3, <1>4 DEF DNext, Pool, Post, Write, Receive, FailAttempt, ReadCut

(* The account holds the newest cookie the server set, unless that one is  *)
(* on its way, or was lost with its answer, or overwritten by an older one *)
(* that was read later.                                                    *)
THEOREM CookiesFollowHolds == DSpec => []CookiesFollow
<1>1. DInit => CookieInv
  BY DEF DInit, CookieInv, CookiesFollow
<1>2. CookieInv => CookiesFollow
  BY DEF CookieInv
<1> QED
  BY <1>1, <1>2, CookieStep, PTL DEF DSpec
=============================================================================
