--------------------------- MODULE SlackSessionProofs ---------------------------
(***************************************************************************)
(* The session's invariant and what follows from it, for every set of      *)
(* channels and users, all intervals with the poll before the watchdog,    *)
(* and with or without the request that starts the poll.                   *)
(***************************************************************************)
EXTENDS SlackSession, TLAPS

(* A session starts in the invariant: nothing is armed, listed or posted.  *)
LEMMA SessionInit == Init => SessionInv
<1> SUFFICES ASSUME Init PROVE SessionInv
  OBVIOUS
<1> USE DEF Init
<1>1. TypeOK
  BY SessionAssumption DEF TypeOK, NoEntries, NoRequests, Timer, Buddies
<1>2. OneChain /\ NothingOutlivesClose /\ OnlyPollFires /\ UsersFirst
  BY DEF OneChain, NothingOutlivesClose, OnlyPollFires, UsersFirst, NoRequests
<1>3. ListedOnce
  BY DEF ListedOnce, NoRequests, NoEntries
<1> QED
  BY <1>1, <1>2, <1>3 DEF SessionInv

(* What a login posts, and what one that fails leaves.                     *)
LEMMA LoginKeeps == SessionInv /\ slack_chat_login => SessionInv'
<1> SUFFICES ASSUME SessionInv, slack_chat_login PROVE SessionInv'
  OBVIOUS
<1>1. /\ sa = "none" /\ pending = NoRequests
      /\ poll_timeout = Unset /\ connection_timeout = Unset /\ lost = {}
  BY DEF SessionInv, slack_chat_login, NothingOutlivesClose
<1>2. /\ UNCHANGED <<timers, buddy>> /\ channels' = NoEntries /\ by' = "nobody"
      /\ gc' \in {"connecting", "error", "connected"} /\ sa' \in {"none", "bare", "ready"}
      /\ \/ pending' = NoRequests
         \/ /\ sa' = "ready"
            /\ pending' = [list |-> 1, users |-> IF ReadUsers THEN 1 ELSE 0,
                           send |-> 0, history |-> [c \in Channels |-> 0]]
  BY <1>1 DEF slack_chat_login, slack_get_channels, NoRequests
<1>3. TypeOK'
  <2>1. NoEntries \in [Ids -> Nat]
    BY DEF NoEntries
  <2>2. pending' \in [list : Nat, users : Nat, send : Nat, history : [Channels -> Nat]]
    BY <1>2, SessionAssumption DEF NoRequests
  <2> QED
    BY <1>2, <2>1, <2>2, SessionAssumption DEF SessionInv, TypeOK, timers
<1>4. OneChain' /\ NothingOutlivesClose' /\ OnlyPollFires' /\ UsersFirst'
  BY <1>1, <1>2, SessionAssumption
  DEF OneChain, NothingOutlivesClose, OnlyPollFires, UsersFirst, NoRequests, timers
<1>5. ListedOnce'
  BY <1>1, <1>2, SessionAssumption DEF ListedOnce, NoEntries, NoRequests, timers
<1> QED
  BY <1>2, <1>3, <1>4, <1>5 DEF SessionInv

(* After close the session is as before any login.                         *)
LEMMA CloseKeeps == SessionInv /\ slack_chat_close => SessionInv'
<1> SUFFICES ASSUME SessionInv, slack_chat_close PROVE SessionInv'
  OBVIOUS
<1> USE DEF slack_chat_close
<1>1. TypeOK'
  BY SessionAssumption DEF SessionInv, TypeOK, NoEntries, NoRequests, Timer
<1>2. OneChain' /\ NothingOutlivesClose' /\ OnlyPollFires' /\ UsersFirst'
  BY DEF SessionInv, OneChain, NothingOutlivesClose, OnlyPollFires, UsersFirst, NoRequests
<1>3. ListedOnce'
  BY DEF ListedOnce, NoRequests, NoEntries
<1> QED
  BY <1>1, <1>2, <1>3 DEF SessionInv

(* The timer that fires is the poll timer, which was the only one pending, *)
(* and what it arms keeps the poll before the watchdog.                    *)
LEMMA TimeoutKeeps == SessionInv /\ slack_timeout => SessionInv'
<1> SUFFICES ASSUME SessionInv, slack_timeout PROVE SessionInv'
  OBVIOUS
<1>1. PICK timer \in Due :
        /\ slack_check_state(channels, pending,
             CASE timer = "poll" -> lost
               [] timer = "watchdog" -> Orphaned
               [] timer = "lost" -> Orphaned \ {0})
        /\ connection_timeout' = WatchdogSeconds
        /\ by' = timer
  BY DEF slack_timeout
<1>2. timer = "poll" /\ poll_timeout = 0
  <2>1. lost = {}
    BY DEF SessionInv, OneChain
  <2>2. connection_timeout = 0 => poll_timeout = 0
    BY SessionAssumption DEF SessionInv, OnlyPollFires, TypeOK, Timer
  <2> QED
    BY <1>1, <2>1, <2>2 DEF Due
<1>3. /\ sa = "ready" /\ UNCHANGED <<gc, sa, channels, buddy>>
      /\ pending' = [pending EXCEPT !.history = [c \in Channels |-> @[c] + channels[c]]]
      /\ poll_timeout' = PollSeconds /\ connection_timeout' = WatchdogSeconds
      /\ lost' = {} /\ by' = "poll"
  BY <1>1, <1>2 DEF slack_timeout, slack_check_state, SessionInv, OneChain
<1>4. TypeOK'
  BY <1>3, SessionAssumption DEF SessionInv, TypeOK, Timer, Ids
<1>5. OneChain' /\ NothingOutlivesClose' /\ OnlyPollFires'
  BY <1>3, SessionAssumption DEF OneChain, NothingOutlivesClose, OnlyPollFires
<1>6. pending.users = 0
  BY <1>2, SessionAssumption DEF SessionInv, UsersFirst, TypeOK
<1>7. pending'.users = pending.users /\ pending'.list = pending.list
  BY <1>3 DEF SessionInv, TypeOK
<1>8. ListedOnce' /\ UsersFirst'
  BY <1>3, <1>6, <1>7 DEF SessionInv, ListedOnce, UsersFirst
<1> QED
  BY <1>3, <1>4, <1>5, <1>8 DEF SessionInv

(* The callback that starts the poll finds no timer pending.               *)
LEMMA UsersKeeps == SessionInv /\ slack_read_users_cb => SessionInv'
<1> SUFFICES ASSUME SessionInv, slack_read_users_cb PROVE SessionInv'
  OBVIOUS
<1>1. PICK S \in SUBSET Users :
        /\ channels' = Listed(S)
        /\ buddy' = [x \in Ids |-> IF x \in S /\ buddy[x] = "absent" THEN "bare" ELSE buddy[x]]
  BY DEF slack_read_users_cb
<1>2. /\ pending.users = 1
      /\ poll_timeout = Unset /\ connection_timeout = Unset /\ lost = {}
  BY DEF slack_read_users_cb, SessionInv, UsersFirst, OnlyPollFires, OneChain, TypeOK
<1>3. /\ UNCHANGED <<gc, sa, connection_timeout, by>>
      /\ pending' = [pending EXCEPT !.users = @ - 1,
                                    !.history = [c \in Channels |-> @[c] + channels'[c]]]
      /\ poll_timeout' = PollSeconds /\ lost' = {}
  BY <1>2 DEF slack_read_users_cb, slack_check_state, Orphaned, SessionInv, TypeOK
<1>4. sa = "ready"
  BY <1>2 DEF SessionInv, NothingOutlivesClose, NoRequests
<1>5. TypeOK'
  <2>1. channels' \in [Ids -> Nat]
    BY <1>1 DEF Listed, SessionInv, TypeOK
  <2>2. buddy' \in [Ids -> Buddies]
    BY <1>1 DEF SessionInv, TypeOK, Buddies
  <2>3. pending' \in [list : Nat, users : Nat, send : Nat, history : [Channels -> Nat]]
    <3> DEFINE asked == [c \in Channels |-> pending.history[c] + channels'[c]]
    <3>0. /\ pending \in [list : Nat, users : Nat, send : Nat, history : [Channels -> Nat]]
          /\ pending.users - 1 \in Nat
      BY <1>2 DEF SessionInv, TypeOK
    <3>1. asked \in [Channels -> Nat]
      BY <2>1 DEF SessionInv, TypeOK, Ids
    <3>2. pending' = [pending EXCEPT !.users = @ - 1, !.history = asked]
      BY <1>3
    <3> HIDE DEF asked
    <3> QED
      BY <3>0, <3>1, <3>2
  <2>4. poll_timeout' \in Timer(PollSeconds) /\ lost' \subseteq 0 .. PollSeconds
    BY <1>3, SessionAssumption DEF Timer
  <2>5. UNCHANGED <<gc, sa, connection_timeout, by>>
    BY <1>3, SessionAssumption
  <2> QED
    BY <2>1, <2>2, <2>3, <2>4, <2>5 DEF SessionInv, TypeOK
<1>6. OneChain' /\ NothingOutlivesClose' /\ OnlyPollFires'
  BY <1>2, <1>3, <1>4 DEF SessionInv, OneChain, NothingOutlivesClose, OnlyPollFires
<1>7. pending'.users = 0 /\ pending'.list = pending.list
  BY <1>2, <1>3 DEF SessionInv, TypeOK
<1>8. ListedOnce'
  BY <1>1, <1>2, <1>7, SessionAssumption DEF SessionInv, TypeOK, ListedOnce, Listed, Ids
<1>9. UsersFirst'
  BY <1>2, <1>7 DEF UsersFirst
<1> QED
  BY <1>3, <1>5, <1>6, <1>8, <1>9 DEF SessionInv

(* The channel list is taken once: its request is gone afterwards.         *)
LEMMA ChannelsKeeps == SessionInv /\ slack_read_channels_cb => SessionInv'
<1> SUFFICES ASSUME SessionInv, slack_read_channels_cb PROVE SessionInv'
  OBVIOUS
<1>1. PICK S \in SUBSET Channels :
        /\ channels' = Listed(S)
        /\ buddy' = [x \in Ids |-> CASE x \in S /\ buddy[x] = "absent" -> "unnamed"
                                     [] x \in S /\ buddy[x] = "bare" -> "named"
                                     [] OTHER -> buddy[x]]
  BY DEF slack_read_channels_cb
<1>2. /\ UNCHANGED <<gc, sa, timers, by>> /\ pending.list > 0
      /\ pending' = [pending EXCEPT !.list = @ - 1]
  BY DEF slack_read_channels_cb
<1>3. sa = "ready"
  BY <1>2 DEF SessionInv, NothingOutlivesClose, NoRequests
<1>4. TypeOK'
  <2>1. channels' \in [Ids -> Nat]
    BY <1>1 DEF Listed, SessionInv, TypeOK
  <2>2. buddy' \in [Ids -> Buddies]
    BY <1>1 DEF SessionInv, TypeOK, Buddies
  <2>3. pending' \in [list : Nat, users : Nat, send : Nat, history : [Channels -> Nat]]
    BY <1>2 DEF SessionInv, TypeOK
  <2> QED
    BY <1>2, <2>1, <2>2, <2>3, SessionAssumption DEF SessionInv, TypeOK, timers
<1>5. OneChain' /\ NothingOutlivesClose' /\ OnlyPollFires'
  BY <1>2, <1>3 DEF SessionInv, OneChain, NothingOutlivesClose, OnlyPollFires, timers
<1>6. pending'.users = pending.users /\ pending'.history = pending.history
      /\ pending'.list = pending.list - 1
  BY <1>2 DEF SessionInv, TypeOK
<1>7. ListedOnce'
  BY <1>1, <1>2, <1>6, SessionAssumption DEF SessionInv, TypeOK, ListedOnce, Listed, Ids
<1>8. UsersFirst'
  BY <1>2, <1>6 DEF SessionInv, UsersFirst, timers
<1> QED
  BY <1>2, <1>4, <1>5, <1>7, <1>8 DEF SessionInv

(* A request that is posted or over, and changes nothing but its count.    *)
LEMMA CountKeeps ==
  ASSUME SessionInv, UNCHANGED <<sa, channels, timers, buddy, by>>, sa = "ready",
         gc' \in {gc, "error"},
         pending' \in [list : Nat, users : Nat, send : Nat, history : [Channels -> Nat]],
         pending'.list <= pending.list, pending'.users <= pending.users,
         \A c \in Channels : pending'.history[c] <= pending.history[c]
  PROVE  SessionInv'
<1>1. TypeOK'
  BY SessionAssumption DEF SessionInv, TypeOK, timers
<1>2. OneChain' /\ NothingOutlivesClose' /\ OnlyPollFires'
  BY DEF SessionInv, OneChain, NothingOutlivesClose, OnlyPollFires, timers
<1>3. ListedOnce'
  BY DEF SessionInv, TypeOK, ListedOnce
<1>4. UsersFirst'
  BY DEF SessionInv, TypeOK, UsersFirst, timers
<1>5. gc' # "offline"
  BY DEF SessionInv
<1> QED
  BY <1>1, <1>2, <1>3, <1>4, <1>5 DEF SessionInv

(* While a request is in the pool, the SlackAccount is there.              *)
LEMMA PendingReady ==
  ASSUME SessionInv,
         \/ pending.list > 0 \/ pending.users > 0 \/ pending.send > 0
         \/ \E c \in Channels : pending.history[c] > 0
  PROVE  sa = "ready"
BY DEF SessionInv, NothingOutlivesClose, NoRequests

(* Sending, and the end of any request that lists nothing.                 *)
LEMMA RequestKeeps ==
  ASSUME SessionInv,
         \/ slack_send_im \/ slack_send_im_cb \/ CallDropped
         \/ \E c \in Channels : slack_check_new_messages_cb(c) \/ HistoryDropped(c)
  PROVE  SessionInv'
<1>0. pending \in [list : Nat, users : Nat, send : Nat, history : [Channels -> Nat]]
  BY DEF SessionInv, TypeOK
<1>1. CASE slack_send_im
  <2>1. /\ sa = "ready" /\ UNCHANGED <<gc, sa, channels, timers, buddy, by>>
        /\ pending' = [pending EXCEPT !.send = @ + 1]
    BY <1>1 DEF slack_send_im
  <2> QED
    BY <1>0, <2>1, CountKeeps
<1>2. CASE slack_send_im_cb
  <2>1. /\ pending.send > 0 /\ UNCHANGED <<gc, sa, channels, timers, buddy, by>>
        /\ pending' = [pending EXCEPT !.send = @ - 1]
    BY <1>2 DEF slack_send_im_cb
  <2>2. sa = "ready"
    BY <2>1, PendingReady
  <2> QED
    BY <1>0, <2>1, <2>2, CountKeeps
<1>3. CASE CallDropped
  <2>1. PICK kind \in {"list", "users", "send"} :
          pending[kind] > 0 /\ WithoutCallback([pending EXCEPT ![kind] = @ - 1])
    BY <1>3 DEF CallDropped
  <2>2. sa = "ready"
    BY <2>1, PendingReady
  <2>3. /\ pending' = [pending EXCEPT ![kind] = @ - 1] /\ gc' \in {gc, "error"}
        /\ UNCHANGED <<sa, channels, timers, buddy, by>>
    BY <2>1 DEF WithoutCallback
  <2>4. /\ pending' \in [list : Nat, users : Nat, send : Nat, history : [Channels -> Nat]]
        /\ pending'.list <= pending.list /\ pending'.users <= pending.users
        /\ pending'.history = pending.history
    BY <1>0, <2>1, <2>3
  <2> QED
    BY <1>0, <2>2, <2>3, <2>4, CountKeeps
<1>4. ASSUME NEW c \in Channels, slack_check_new_messages_cb(c) \/ HistoryDropped(c)
      PROVE  SessionInv'
  <2>1. /\ pending.history[c] > 0
        /\ pending' = [pending EXCEPT !.history[c] = @ - 1]
        /\ gc' \in {gc, "error"}
        /\ UNCHANGED <<sa, channels, timers, buddy, by>>
    BY <1>4 DEF slack_check_new_messages_cb, HistoryDropped, WithoutCallback
  <2>2. sa = "ready"
    BY <2>1, PendingReady
  <2>3. /\ pending' \in [list : Nat, users : Nat, send : Nat, history : [Channels -> Nat]]
        /\ pending'.list = pending.list /\ pending'.users = pending.users
        /\ \A d \in Channels : pending'.history[d] <= pending.history[d]
    BY <1>0, <2>1
  <2> QED
    BY <2>1, <2>2, <2>3, <1>0, CountKeeps
<1> QED
  BY <1>1, <1>2, <1>3, <1>4

(* As time passes the poll timer stays before the watchdog.                *)
LEMMA TickKeeps == SessionInv /\ Tick => SessionInv'
<1> SUFFICES ASSUME SessionInv, Tick PROVE SessionInv'
  OBVIOUS
<1>1. /\ poll_timeout' = Less(poll_timeout)
      /\ connection_timeout' = Less(connection_timeout)
      /\ lost' = {}
      /\ UNCHANGED <<gc, sa, channels, pending, buddy, by>>
  BY SessionAssumption DEF Tick, SessionInv, OneChain, TypeOK
<1>2. /\ poll_timeout' \in Timer(PollSeconds) /\ connection_timeout' \in Timer(WatchdogSeconds)
      /\ poll_timeout' = Unset <=> poll_timeout = Unset
      /\ connection_timeout' = Unset <=> connection_timeout = Unset
  BY <1>1, SessionAssumption DEF SessionInv, TypeOK, Less, Timer
<1>3. connection_timeout' # Unset => poll_timeout' # Unset /\ poll_timeout' <= connection_timeout'
  BY <1>1, SessionAssumption DEF SessionInv, TypeOK, OnlyPollFires, Less, Timer
<1>4. TypeOK'
  BY <1>1, <1>2 DEF SessionInv, TypeOK
<1>5. OneChain' /\ NothingOutlivesClose' /\ OnlyPollFires'
  BY <1>1, <1>2, <1>3 DEF SessionInv, OneChain, NothingOutlivesClose, OnlyPollFires
<1>6. ListedOnce' /\ UsersFirst'
  BY <1>1, <1>2 DEF SessionInv, ListedOnce, UsersFirst
<1> QED
  BY <1>1, <1>4, <1>5, <1>6 DEF SessionInv

(* Every step keeps the invariant. *)
LEMMA SessionStep == SessionInv /\ [Next]_vars => SessionInv'
<1> SUFFICES ASSUME SessionInv, [Next]_vars PROVE SessionInv'
  OBVIOUS
<1>1. ASSUME NEW x \in Ids, slack_buddy_free(x) PROVE SessionInv'
  <2>1. /\ buddy' \in [Ids -> Buddies]
        /\ UNCHANGED <<gc, sa, channels, pending, timers, by>>
    BY <1>1 DEF slack_buddy_free, SessionInv, TypeOK, Buddies
  <2> QED
    BY <2>1 DEF SessionInv, TypeOK, OneChain, NothingOutlivesClose, OnlyPollFires, ListedOnce,
                UsersFirst, timers
<1>2. CASE UNCHANGED vars
  BY <1>2 DEF SessionInv, TypeOK, OneChain, NothingOutlivesClose, OnlyPollFires, ListedOnce,
              UsersFirst, vars, timers
<1> QED
  BY <1>1, <1>2, LoginKeeps, CloseKeeps, ChannelsKeeps, UsersKeeps, RequestKeeps, TimeoutKeeps,
     TickKeeps DEF Next

(* The invariant holds of every state of every session.                    *)
THEOREM SessionInvariant == Spec => []SessionInv
BY SessionInit, SessionStep, PTL DEF Spec

(* Every variable of the session keeps its type. *)
THEOREM SessionTypeCorrect == Spec => []TypeOK
<1>1. SessionInv => TypeOK
  BY DEF SessionInv
<1> QED
  BY <1>1, SessionInvariant, PTL

(* There is one chain of timers: slack_check_state never overwrites a      *)
(* poll_timeout that names a pending timer.                                *)
THEOREM OneChainHolds == Spec => []OneChain
<1>1. SessionInv => OneChain
  BY DEF SessionInv
<1> QED
  BY <1>1, SessionInvariant, PTL

(* slack_chat_close, and a login that gives up, leave no timer and no      *)
(* request behind that would come back to a freed SlackAccount.            *)
THEOREM NothingOutlivesCloseHolds == Spec => []NothingOutlivesClose
<1>1. SessionInv => NothingOutlivesClose
  BY DEF SessionInv
<1> QED
  BY <1>1, SessionInvariant, PTL

(* The watchdog of slack_timeout never fires, whatever the intervals, as   *)
(* long as the poll's is the shorter.                                      *)
THEOREM OnlyPollFiresHolds == Spec => []OnlyPollFires
<1>1. SessionInv => OnlyPollFires
  BY DEF SessionInv
<1> QED
  BY <1>1, SessionInvariant, PTL

(* slack_read_channels_cb and slack_read_users_cb list an id once.         *)
THEOREM ListedOnceHolds == Spec => []ListedOnce
<1>1. SessionInv => ListedOnce
  BY DEF SessionInv
<1> QED
  BY <1>1, SessionInvariant, PTL
=============================================================================
