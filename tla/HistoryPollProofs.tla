-------------------------- MODULE HistoryPollProofs --------------------------
(***************************************************************************)
(* Proofs about the history poll of src/slack_chat.c: for any set of       *)
(* channels, any page, any number of messages and of polls under way.      *)
(*                                                                         *)
(* The invariant is HistoryInv.  Its heart is that a request begins where  *)
(* all is accounted for: what its answer leaves out up to its own time is  *)
(* of another channel, or does not fit the page, and both are excused;     *)
(* what a poll that takes the clock afresh skips is Restarted.             *)
(***************************************************************************)
EXTENDS HistoryPoll, FiniteSetTheorems, SequenceTheorems, TLAPS

Request == [channel : Channels, poll : Polls, oldest : Nat, at : Nat \cup {NotYet}]

(* A poll asks for what came after a time that is not in the future.       *)
LEMMA OldestDated ==
  ASSUME HistoryInv
  PROVE  /\ Oldest \subseteq Nat
         /\ \A oldest \in Oldest : oldest <= Now
         /\ last_message_time = Unset => \A oldest \in Oldest : oldest >= clock
         /\ last_message_time # Unset => Oldest = {last_message_time}
<1>1. Now \in Nat
  BY LenProperties DEF HistoryInv, TypeOK, Now
<1> QED
  BY <1>1, HistoryAssumption DEF HistoryInv, TypeOK, Oldest, UnixNow

(* What an answer holds is of its channel, after the time asked for, and   *)
(* not after the time it was made.                                         *)
LEMMA AnswerMatches ==
  ASSUME NEW r, r.at \in Nat, r.oldest \in Nat, NEW t
  PROVE  /\ t \in Answer(r) => t \in Matching(r)
         /\ t \in Matching(r) <=>
              t \in Int /\ r.oldest < t /\ t <= r.at /\ said[t] = r.channel
BY DEF Answer, Matching

(* What the callback of an answer leaves: the message times are typed, all *)
(* up to the answer's time is accounted for, and what it shows is shown    *)
(* for the first time if all was regular.                                  *)
LEMMA AnswerAccounts ==
  ASSUME HistoryInv, NEW r \in requests, slack_check_new_messages_cb(r)
  PROVE  /\ shown' \subseteq 1 .. MaxMessages /\ excused' \subseteq 1 .. MaxMessages
         /\ shown \subseteq shown' /\ excused \subseteq excused'
         /\ last_message_time' \in {last_message_time, r.at}
         /\ last_message_time' # last_message_time => Accounted(r.at)'
<1> USE HistoryAssumption
<1>1. /\ r.at \in Nat /\ r.oldest \in Nat /\ r.at <= Now /\ Now \in Nat /\ Now <= MaxMessages
      /\ start \in Nat /\ Accounted(r.oldest)
  BY LenProperties DEF HistoryInv, TypeOK, Now, NotYet, slack_check_new_messages_cb
<1>2. PICK latest \in Latest(r) :
        /\ last_message_time' = IF latest = Unset THEN last_message_time ELSE latest
        /\ excused' = excused \cup (Matching(r) \ Answer(r))
                        \cup {t \in 1..Now : latest # Unset /\ t <= latest /\ said[t] # r.channel}
  BY DEF slack_check_new_messages_cb
<1>3. shown' = shown \cup Answer(r) /\ start' = start /\ Restarted' = Restarted
  BY DEF slack_check_new_messages_cb, Restarted
<1>4. Matching(r) \subseteq 1 .. MaxMessages /\ Answer(r) \subseteq Matching(r)
  BY <1>1, AnswerMatches
<1>5. shown' \subseteq 1 .. MaxMessages /\ excused' \subseteq 1 .. MaxMessages
  <2>1. shown \subseteq 1 .. MaxMessages /\ excused \subseteq 1 .. MaxMessages
    BY DEF HistoryInv, TypeOK
  <2>2. 1 .. Now \subseteq 1 .. MaxMessages
    BY <1>1
  <2> QED
    BY <1>2, <1>3, <1>4, <2>1, <2>2
<1>6. latest # Unset => latest = r.at
  BY <1>2 DEF Latest
<1>7. ASSUME latest # Unset, NEW t \in start + 1 .. r.at
      PROVE  t \in shown' \cup excused' \cup Restarted'
  <2>1. t \in 1 .. Now /\ t <= latest
    BY <1>1, <1>6, <1>7
  <2>2. CASE said[t] # r.channel
    BY <1>2, <1>7, <2>1, <2>2
  <2>3. CASE t <= r.oldest
    BY <1>1, <1>2, <1>3, <1>7, <2>3 DEF Accounted
  <2>4. CASE said[t] = r.channel /\ t > r.oldest
    BY <1>1, <1>2, <1>3, <2>1, <2>4, <1>7, AnswerMatches
  <2> QED
    BY <1>1, <2>1, <2>2, <2>3, <2>4
<1> QED
  BY <1>2, <1>3, <1>5, <1>6, <1>7 DEF Accounted

(* The state HistoryInv is about, but for what a single action changes.    *)
LEMMA HistoryStep == HistoryInv /\ [Next]_vars => HistoryInv'
<1> SUFFICES ASSUME HistoryInv, [Next]_vars PROVE HistoryInv'
  OBVIOUS
<1> USE HistoryAssumption
<1>0. /\ Now \in Nat /\ TypeOK /\ clock \in Nat /\ start \in Nat \cup {NotYet}
      /\ \A r \in requests : r \in Request
  BY LenProperties DEF HistoryInv, TypeOK, Now, Request
<1>1. CASE slack_chat_login
  BY <1>1 DEF slack_chat_login, HistoryInv, TypeOK, NoneOverlooked, OnceEach, Accounted, Restarted, Now
<1>2. CASE slack_chat_close
  BY <1>2 DEF slack_chat_close, HistoryInv, TypeOK, NoneOverlooked, OnceEach, Accounted, Restarted, Now
<1>3. CASE slack_check_state
  <2>1. PICK oldest \in Oldest, p \in Unused :
          /\ requests' = requests \cup
               {[channel |-> c, poll |-> p, oldest |-> oldest, at |-> NotYet] : c \in Channels}
          /\ clock' = IF last_message_time = Unset THEN oldest ELSE clock
          /\ start' = IF start = NotYet THEN oldest ELSE start
    BY <1>3 DEF slack_check_state
  <2>2. /\ regular' = (regular /\ requests = {})
        /\ UNCHANGED <<said, connected, last_message_time, shown, repeated, excused>>
    BY <1>3 DEF slack_check_state
  <2> DEFINE posted == {[channel |-> c, poll |-> p, oldest |-> oldest, at |-> NotYet] : c \in Channels}
  <2>3. oldest \in Nat /\ oldest <= Now /\ p \in Polls
    BY OldestDated DEF Unused
  <2>4. clock' \in Nat /\ clock' >= clock /\ start' \in Nat
    BY <1>0, <2>1, <2>3, OldestDated
  <2>5. \A r \in posted : r \in Request /\ r.oldest = oldest /\ r.at = NotYet
    BY <2>3 DEF Request
  <2>6. TypeOK'
    <3>1. requests' \subseteq Request
      BY <1>0, <2>1, <2>5
    <3> QED
      BY <1>0, <2>2, <2>4, <3>1 DEF TypeOK, Request, Now
  <2>7. start # NotYet => start' = start /\ Restarted \subseteq Restarted'
    BY <1>0, <2>1, <2>4 DEF Restarted, NotYet
  <2>8. NoneOverlooked' /\ OnceEach' /\ (last_message_time # Unset => last_message_time <= Now)'
    BY <1>0, <2>1, <2>2, <2>7 DEF HistoryInv, NoneOverlooked, OnceEach, Accounted, Now
  <2>9. ASSUME NEW r \in requests' PROVE r.oldest <= Now' /\ r.at <= Now' /\ Accounted(r.oldest)'
    <3>1. CASE r \in requests
      BY <1>0, <2>2, <2>7, <3>1 DEF HistoryInv, Accounted, Now
    <3>2. CASE r \in posted /\ start = NotYet
      BY <1>0, <2>1, <2>2, <2>3, <2>5, <3>2 DEF Accounted, Now, NotYet
    <3>3. CASE r \in posted /\ start # NotYet /\ last_message_time = Unset
      <4>1. start' + 1 .. oldest = Restarted'
        BY <2>1, <3>3 DEF Restarted
      <4>2. Accounted(oldest)'
        BY <4>1 DEF Accounted
      <4>3. r.oldest = oldest /\ r.at = NotYet
        BY <2>5, <3>3
      <4> QED
        BY <1>0, <2>2, <2>3, <4>2, <4>3 DEF Now, NotYet
    <3>4. CASE r \in posted /\ last_message_time # Unset
      <4>1. oldest = last_message_time /\ start # NotYet
        BY <3>4, OldestDated DEF HistoryInv
      <4> QED
        BY <1>0, <2>2, <2>3, <2>5, <2>7, <3>4, <4>1
        DEF HistoryInv, NoneOverlooked, Accounted, Now, NotYet
    <3> QED
      BY <2>1, <3>1, <3>2, <3>3, <3>4
  <2>10. ASSUME regular'
         PROVE  /\ \A t \in shown' : last_message_time' # Unset /\ t <= last_message_time'
                /\ \A r \in requests', t \in shown' : said'[t] = r.channel => t <= r.oldest
                /\ \A r, q \in requests' : r.channel = q.channel => r = q
    <3>1. regular /\ requests' = posted
      BY <2>1, <2>2, <2>10
    <3>2. \A t \in shown : last_message_time # Unset /\ t <= last_message_time
      BY <3>1 DEF HistoryInv
    <3>3. \A t \in shown : t <= oldest
      BY <3>2, OldestDated
    <3>4. \A r, q \in posted : r.channel = q.channel => r = q
      OBVIOUS
    <3> QED
      BY <2>2, <2>5, <3>1, <3>2, <3>3, <3>4
  <2> QED
    BY <2>4, <2>6, <2>8, <2>9, <2>10 DEF HistoryInv, NotYet
<1>4. ASSUME NEW c \in Channels, Say(c) PROVE HistoryInv'
  <2>1. said' \in Seq(Channels) /\ Now' = Now + 1 /\ Now' <= MaxMessages
    BY <1>0, <1>4, AppendProperties DEF Say, TypeOK, Now
  <2>2. \A t \in 1 .. Now : said'[t] = said[t]
    BY <1>0, <1>4, AppendProperties DEF Say, TypeOK, Now
  <2>3. UNCHANGED <<connected, last_message_time, requests, shown, repeated, clock, start, excused, regular>>
    BY <1>4 DEF Say
  <2>4. TypeOK'
    BY <1>0, <2>1, <2>3 DEF TypeOK
  <2>5. \A r \in requests : r.oldest \in Nat /\ r.at \in Int
    BY <1>0 DEF Request, NotYet
  <2>6. \A t \in shown : regular => t \in 1 .. Now
    BY <1>0 DEF HistoryInv, TypeOK
  <2> QED
    BY <1>0, <2>1, <2>2, <2>3, <2>4, <2>5, <2>6
    DEF HistoryInv, NoneOverlooked, OnceEach, Accounted, Restarted, TypeOK
<1>5. ASSUME NEW r \in requests, Evaluate(r) PROVE HistoryInv'
  <2> DEFINE q == [r EXCEPT !.at = Now]
  <2>1. /\ requests' = (requests \ {r}) \cup {q}
        /\ UNCHANGED <<said, connected, last_message_time, shown, repeated, clock, start, excused, regular>>
    BY <1>5 DEF Evaluate
  <2>2. q \in Request /\ q.oldest = r.oldest /\ q.channel = r.channel /\ q.at = Now
    BY <1>0, <1>5 DEF Request
  <2>3. requests' \subseteq Request
    BY <1>0, <2>1, <2>2
  <2>4. TypeOK'
    BY <1>0, <2>1, <2>3 DEF TypeOK, Request, Now
  <2> HIDE DEF q
  <2>5. \A x \in requests' : x.oldest <= Now /\ x.at <= Now /\ Accounted(x.oldest)
    BY <1>0, <2>1, <2>2 DEF HistoryInv, Accounted, Restarted
  <2>6. regular =>
          /\ \A x \in requests', t \in shown : said[t] = x.channel => t <= x.oldest
          /\ \A x, y \in requests' : x.channel = y.channel => x = y
    BY <2>1, <2>2 DEF HistoryInv
  <2> QED
    BY <2>1, <2>4, <2>5, <2>6
    DEF HistoryInv, NoneOverlooked, OnceEach, Accounted, Restarted, Now
<1>6. ASSUME NEW r \in requests, NoAnswer(r) PROVE HistoryInv'
  <2>1. requests' \subseteq requests
    BY <1>6 DEF NoAnswer
  <2> QED
    BY <1>6, <2>1
    DEF NoAnswer, HistoryInv, TypeOK, NoneOverlooked, OnceEach, Accounted, Restarted, Now
<1>7. ASSUME NEW r \in requests, slack_check_new_messages_cb(r) PROVE HistoryInv'
  <2>1. /\ requests' = requests \ {r} /\ UNCHANGED <<said, connected, clock, start>>
        /\ shown' = shown \cup Answer(r)
        /\ repeated' = (repeated \/ (regular' /\ shown \cap Answer(r) # {}))
        /\ r.at \in Nat /\ r.oldest \in Nat /\ r.at <= Now
    BY <1>0, <1>7 DEF slack_check_new_messages_cb, HistoryInv, Request
  <2>2. regular' \in BOOLEAN /\
        (regular' => regular /\ last_message_time' = r.at
                       /\ (last_message_time # Unset => last_message_time <= r.at))
    <3>1. PICK latest \in Latest(r) :
            /\ last_message_time' = IF latest = Unset THEN last_message_time ELSE latest
            /\ regular' = (regular /\ latest # Unset
                              /\ last_message_time \in (0..latest) \cup {Unset})
      BY <1>7 DEF slack_check_new_messages_cb
    <3>2. regular' \in BOOLEAN
      BY <3>1, Zenon
    <3>3. regular' => regular /\ latest # Unset /\ last_message_time \in (0..latest) \cup {Unset}
      BY <3>1, Zenon
    <3>4. latest # Unset => latest = r.at
      BY DEF Latest
    <3> QED
      BY <2>1, <3>1, <3>2, <3>3, <3>4
  <2>3. last_message_time' \in Nat \cup {Unset}
        /\ (last_message_time' # Unset => last_message_time' <= Now)
    BY <1>7, <2>1, AnswerAccounts DEF HistoryInv, TypeOK
  <2>4. regular' => shown \cap Answer(r) = {}
    BY <1>0, <2>1, <2>2, AnswerMatches DEF HistoryInv, TypeOK
  <2>5. TypeOK' /\ OnceEach'
    BY <1>0, <1>7, <2>1, <2>2, <2>3, <2>4, AnswerAccounts
    DEF HistoryInv, TypeOK, OnceEach, Now
  <2>6. NoneOverlooked'
    BY <1>7, <2>1, AnswerAccounts DEF HistoryInv, NoneOverlooked, Accounted, Restarted
  <2>7. \A q \in requests' : q.oldest <= Now' /\ q.at <= Now' /\ Accounted(q.oldest)'
    BY <1>7, <2>1, AnswerAccounts DEF HistoryInv, Accounted, Restarted, Now
  <2>8. regular' => \A t \in shown' : last_message_time' # Unset /\ t <= last_message_time'
    BY <1>0, <2>1, <2>2, AnswerMatches DEF HistoryInv, TypeOK
  <2>9. regular' => \A q \in requests', t \in shown' : said'[t] = q.channel => t <= q.oldest
    <3> SUFFICES ASSUME regular', NEW q \in requests', NEW t \in shown', said'[t] = q.channel
                 PROVE  t <= q.oldest
      OBVIOUS
    <3>1. q \in requests /\ q.channel # r.channel
      BY <2>1, <2>2 DEF HistoryInv
    <3>2. t \notin Answer(r)
      BY <2>1, <3>1, AnswerMatches
    <3> QED
      BY <2>1, <2>2, <3>1, <3>2 DEF HistoryInv
  <2>10. regular' => \A q, x \in requests' : q.channel = x.channel => q = x
    BY <2>1, <2>2 DEF HistoryInv
  <2> QED
    BY <1>7, <2>1, <2>3, <2>5, <2>6, <2>7, <2>8, <2>9, <2>10 DEF HistoryInv, Now
<1>8. CASE UNCHANGED vars
  BY <1>8
  DEF vars, HistoryInv, TypeOK, NoneOverlooked, OnceEach, Accounted, Restarted, Now
<1> QED
  BY <1>1, <1>2, <1>3, <1>4, <1>5, <1>6, <1>7, <1>8 DEF Next

(* The invariant holds of every behaviour: what a poll asks for begins     *)
(* where all is accounted for.                                             *)
THEOREM HistoryInvariant == Spec => []HistoryInv
<1>1. Init => HistoryInv
  <2> SUFFICES ASSUME Init PROVE HistoryInv
    OBVIOUS
  <2>1. said \in Seq(Channels) /\ Now = 0
    BY EmptySeq DEF Init, Now
  <2>2. TypeOK
    <3>1. Now <= MaxMessages /\ clock \in Nat /\ start \in Nat \cup {NotYet}
      BY <2>1, HistoryAssumption DEF Init
    <3>2. connected \in BOOLEAN /\ regular \in BOOLEAN /\ repeated \in BOOLEAN
      BY DEF Init
    <3>3. requests = {} /\ shown = {} /\ excused = {} /\ last_message_time = Unset
      BY DEF Init
    <3> QED
      BY <2>1, <3>1, <3>2, <3>3, Zenon DEF TypeOK
  <2>3. NoneOverlooked /\ OnceEach
    BY DEF Init, NoneOverlooked, OnceEach
  <2> QED
    BY <2>2, <2>3 DEF Init, HistoryInv
<1> QED
  BY <1>1, HistoryStep, PTL DEF Spec

(* Every variable keeps its type.                                          *)
THEOREM HistoryTypeCorrect == Spec => []TypeOK
<1>1. HistoryInv => TypeOK
  BY DEF HistoryInv
<1> QED
  BY <1>1, HistoryInvariant, PTL

(* A message said since the account first asked, that last_message_time    *)
(* has passed, was shown, or did not fit a page, or was passed by the      *)
(* answer of another channel, or was said before a poll that took the      *)
(* clock afresh, no setting being stored yet.  None is lost for another    *)
(* reason: once the setting is stored, not through a request that failed,  *)
(* came twice or late, nor through a disconnection.                        *)
THEOREM NoneOverlookedHolds == Spec => []NoneOverlooked
<1>1. HistoryInv => NoneOverlooked
  BY DEF HistoryInv
<1> QED
  BY <1>1, HistoryInvariant, PTL

(* No message is shown twice as long as polls do not overlap and answers   *)
(* come in order and with their time.                                      *)
THEOREM OnceEachHolds == Spec => []OnceEach
<1>1. HistoryInv => OnceEach
  BY DEF HistoryInv
<1> QED
  BY <1>1, HistoryInvariant, PTL

-----------------------------------------------------------------------------
(* One channel, and pages that everything fits.                            *)

NoneExcused == excused = {}

LostOnlyToTheClock ==
    last_message_time # Unset =>
        \A t \in start + 1 .. last_message_time : t \in shown \/ t <= clock

(* A page that everything said fits holds every message that matches.      *)
LEMMA PageHoldsAll ==
  ASSUME NEW r, r.at \in Nat, r.oldest \in Nat, r.at <= MaxMessages, Page >= MaxMessages
  PROVE  Matching(r) \subseteq Answer(r)
<1> SUFFICES ASSUME NEW t \in Matching(r)
             PROVE  Cardinality({u \in Matching(r) : u > t}) < Page
  BY DEF Answer
<1> DEFINE newer == {u \in Matching(r) : u > t}
<1>1. t \in Nat \ {0} /\ t <= r.at
  BY AnswerMatches
<1>2. newer \subseteq t + 1 .. r.at
  BY <1>1, AnswerMatches
<1>3. IsFiniteSet(t + 1 .. r.at) /\ Cardinality(t + 1 .. r.at) = IF t + 1 > r.at THEN 0 ELSE r.at - (t + 1) + 1
  <2>1. t + 1 \in Int /\ r.at \in Int
    BY <1>1
  <2> QED
    BY <2>1, FS_Interval
<1>4. IsFiniteSet(newer) /\ Cardinality(newer) <= Cardinality(t + 1 .. r.at)
  BY <1>2, <1>3, FS_Subset
<1>5. Cardinality(newer) \in Nat
  BY <1>4, FS_CardinalityType
<1> HIDE DEF newer
<1>6. Cardinality(newer) < Page
  BY <1>1, <1>3, <1>4, <1>5, HistoryAssumption
<1> QED
  BY <1>6 DEF newer

(* With one channel and answers that hold all of it, a message between the *)
(* first poll and last_message_time that was not shown was said before the *)
(* last poll that took the clock, no setting being stored yet.  So what is *)
(* said after an answer has stored the setting is lost to a second channel *)
(* or to a page that is too short, or not at all; and before that, the     *)
(* first poll must have got no answer in time.                             *)
THEOREM OneChannelLosesOnlyToTheClock ==
  ASSUME NEW c, Channels = {c}, Page >= MaxMessages
  PROVE  Spec => []LostOnlyToTheClock
<1>1. Init => NoneExcused
  BY DEF Init, NoneExcused
<1>2. HistoryInv /\ NoneExcused /\ [Next]_vars => NoneExcused'
  <2> SUFFICES ASSUME HistoryInv, excused = {}, [Next]_vars PROVE excused' = {}
    BY DEF NoneExcused
  <2>1. CASE UNCHANGED excused
    BY <2>1
  <2>2. ASSUME NEW r \in requests, slack_check_new_messages_cb(r) PROVE excused' = {}
    <3>1. /\ r.at \in Nat /\ r.oldest \in Nat /\ r.channel = c /\ r.at <= MaxMessages
      BY <2>2, HistoryAssumption, LenProperties
      DEF HistoryInv, TypeOK, Now, slack_check_new_messages_cb
    <3>2. \A t \in 1 .. Now : said[t] = c
      BY LenProperties DEF HistoryInv, TypeOK, Now
    <3>3. Matching(r) \ Answer(r) = {}
      BY <3>1, PageHoldsAll
    <3> QED
      BY <2>2, <3>1, <3>2, <3>3 DEF slack_check_new_messages_cb
  <2> QED
    BY <2>1, <2>2 DEF Next, vars, slack_chat_login, slack_chat_close, slack_check_state,
                      Say, Evaluate, NoAnswer
<1>3. HistoryInv /\ NoneExcused => LostOnlyToTheClock
  BY DEF NoneExcused, HistoryInv, NoneOverlooked, Accounted, Restarted, LostOnlyToTheClock
<1> QED
  BY <1>1, <1>2, <1>3, HistoryInvariant, PTL DEF Spec
=============================================================================
