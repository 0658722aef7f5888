------------------------------ MODULE SlackSession ------------------------------
(***************************************************************************)
(* One account's session with Slack (slack_chat.c): login, the channel     *)
(* list, buddies, sending, the two timers of the history poll, and close.  *)
(*                                                                         *)
(* It is a client of the request pool, of which it relies on what          *)
(* RequestLifecycle promises: a posted request is answered once, or ends   *)
(* without a call, perhaps taking the connection with it, and none calls   *)
(* back after the account was closed.  So a request is here only counted.  *)
(***************************************************************************)
EXTENDS Naturals

CONSTANTS
  Channels,          \* The ids that channels.list may return
  Users,             \* The ids that users.list may return
  ReadUsers,         \* Whether slack_get_channels also asks for users.list, with
                     \* slack_read_users_cb, which starts the history poll, as its
                     \* callback.  FALSE in the code as it stands.  TRUE is what a
                     \* comment in slack_get_channels points to; the request that is
                     \* commented out there names channels.list, whose answer has
                     \* not the members that callback reads.
  PollSeconds,       \* 3
  WatchdogSeconds,   \* 3 * 60
  MaxPending,        \* Bound: as many requests of one kind are in the pool at once
  Unset              \* A timer field that is 0

ASSUME SessionAssumption ==
  /\ Channels \cap Users = {}
  /\ ReadUsers \in BOOLEAN
  /\ PollSeconds \in Nat \ {0}
  /\ WatchdogSeconds \in Nat
  /\ PollSeconds < WatchdogSeconds
  /\ MaxPending \in Nat \ {0}
  /\ Unset \notin Nat

VARIABLES
  gc,                  \* The PurpleConnection; after "error" libpurple will close it
  sa,                  \* The SlackAccount: none, "bare" (only allocated), "ready"
  channels,            \* How many entries of sa->channels have an id
  pending,             \* How many requests of a kind are in the pool
  poll_timeout,        \* Seconds left of the timer this field of sa names
  connection_timeout,  \* The same
  lost,                \* Seconds left of the timers that no field names any more
  buddy,               \* The buddy of an id, by what its proto_data holds
  by                   \* History: which timer called slack_timeout last

timers == <<poll_timeout, connection_timeout, lost>>
vars == <<gc, sa, channels, pending, timers, buddy, by>>

Ids == Channels \cup Users
Timer(seconds) == {Unset} \cup 0 .. seconds

(* The buddy list holds no buddy of the id, one that blist.xml or          *)
(* slack_read_users_cb made, or one with a SlackBuddy.                     *)
Buddies == {"absent", "bare", "unnamed", "named"}

(* Every variable keeps its type. *)
TypeOK ==
  /\ gc \in {"offline", "connecting", "connected", "error"}
  /\ sa \in {"none", "bare", "ready"}
  /\ channels \in [Ids -> Nat]
  /\ pending \in [list : Nat, users : Nat, send : Nat, history : [Channels -> Nat]]
  /\ poll_timeout \in Timer(PollSeconds)
  /\ connection_timeout \in Timer(WatchdogSeconds)
  /\ lost \subseteq 0 .. PollSeconds
  /\ buddy \in [Ids -> Buddies]
  /\ by \in {"nobody", "poll", "watchdog", "lost"}

NoEntries == [x \in Ids |-> 0]
NoRequests == [list |-> 0, users |-> 0, send |-> 0, history |-> [c \in Channels |-> 0]]

Init ==
  /\ gc = "offline"
  /\ sa = "none"
  /\ channels = NoEntries
  /\ pending = NoRequests
  /\ poll_timeout = Unset
  /\ connection_timeout = Unset
  /\ lost = {}
  /\ buddy \in [Ids -> {"absent", "bare"}]
  /\ by = "nobody"

-----------------------------------------------------------------------------
(* Login and close. *)

(* Mutant: the channels request is posted twice.                         *)
WrongGetChannelsTwice ==
  pending' = [NoRequests EXCEPT !.list = 2]

slack_get_channels ==
  pending' = [NoRequests EXCEPT !.list = 1, !.users = IF ReadUsers THEN 1 ELSE 0]

(* Without a token nothing happens, without TLS the account is given up.   *)
slack_chat_login ==
  /\ gc = "offline"
  /\ \/ gc' = "connecting" /\ UNCHANGED <<sa, pending>>
     \/ gc' = "error" /\ sa' = "bare" /\ UNCHANGED pending
     \/ gc' = "connected" /\ sa' = "ready" /\ slack_get_channels
  /\ channels' = NoEntries
  /\ by' = "nobody"
  /\ UNCHANGED <<timers, buddy>>

(* Mutant: the watchdog is forgotten.                                    *)
WrongCloseOnlyPoll ==
  /\ gc # "offline"
  /\ gc' = "offline"
  /\ sa' = "none"
  /\ channels' = NoEntries
  /\ pending' = NoRequests
  /\ poll_timeout' = Unset
  /\ UNCHANGED <<connection_timeout, lost, buddy, by>>


(* The user disconnects, or libpurple does after an error.  The timers the *)
(* fields name are removed, and the pool's requests destroyed.  The list   *)
(* sa->channels is not freed, but nothing reaches it after the account.    *)
slack_chat_close ==
  /\ gc # "offline"
  /\ gc' = "offline"
  /\ sa' = "none"
  /\ channels' = NoEntries
  /\ pending' = NoRequests
  /\ poll_timeout' = Unset
  /\ connection_timeout' = Unset
  /\ UNCHANGED <<lost, buddy, by>>

-----------------------------------------------------------------------------
(* The history poll. *)

(* Mutant: the poll is armed with the watchdog's interval.               *)
WrongCheckSlowPoll(entries, inpool, orphans) ==
  /\ pending' = [inpool EXCEPT !.history = [c \in Channels |-> @[c] + entries[c]]]
  /\ poll_timeout' = WatchdogSeconds
  /\ lost' = orphans

(* A history request for every entry that is a channel, and the next poll  *)
(* timer.  The field may still name a timer, which is then an orphan.      *)
slack_check_state(entries, inpool, orphans) ==
  /\ pending' = [inpool EXCEPT !.history = [c \in Channels |-> @[c] + entries[c]]]
  /\ poll_timeout' = PollSeconds
  /\ lost' = orphans

Orphaned == lost \cup ({poll_timeout} \ {Unset})

(* The timers that may be dispatched: GLib takes the older of two that are *)
(* due, and slack_timeout creates the poll timer before the watchdog.      *)
Due ==
  {timer \in {"poll", "watchdog", "lost"} :
     CASE timer = "poll" -> poll_timeout = 0
       [] timer = "watchdog" -> connection_timeout = 0 /\ poll_timeout # 0
       [] timer = "lost" -> 0 \in lost}

(* Mutant: the watchdog is armed once and left.                          *)
WrongTimeoutLeavesWatchdog ==
  /\ sa = "ready"
  /\ \E timer \in Due :
       /\ slack_check_state(channels, pending,
            CASE timer = "poll" -> lost
              [] timer = "watchdog" -> Orphaned
              [] timer = "lost" -> Orphaned \ {0})
       /\ connection_timeout' =
            IF connection_timeout \in {Unset, 0} THEN WatchdogSeconds ELSE connection_timeout
       /\ by' = timer
  /\ UNCHANGED <<gc, sa, channels, buddy>>

(* Mutant: nothing is armed while requests are in the pool.              *)
WrongTimeoutStopsWhenBusy ==
  /\ sa = "ready"
  /\ \E timer \in Due :
       /\ IF \A c \in Channels : pending.history[c] = 0
          THEN /\ slack_check_state(channels, pending,
                    CASE timer = "poll" -> lost
                      [] timer = "watchdog" -> Orphaned
                      [] timer = "lost" -> Orphaned \ {0})
               /\ connection_timeout' = WatchdogSeconds
          ELSE poll_timeout' = Unset /\ connection_timeout' = Unset /\ UNCHANGED <<pending, lost>>
       /\ by' = timer
  /\ UNCHANGED <<gc, sa, channels, buddy>>

(* The timer that fired is gone; the watchdog is removed and armed again.  *)
slack_timeout ==
  /\ sa = "ready"
  /\ \E timer \in Due :
       /\ slack_check_state(channels, pending,
            CASE timer = "poll" -> lost
              [] timer = "watchdog" -> Orphaned
              [] timer = "lost" -> Orphaned \ {0})
       /\ connection_timeout' = WatchdogSeconds
       /\ by' = timer
  /\ UNCHANGED <<gc, sa, channels, buddy>>

-----------------------------------------------------------------------------
(* What the pool does with a request. *)

Listed(S) == [x \in Ids |-> channels[x] + IF x \in S THEN 1 ELSE 0]

(* Mutant: the TODO of this callback is done as well.                    *)
WrongReadChannelsStartsPoll ==
  /\ pending.list > 0
  /\ \E S \in SUBSET Channels :
       /\ channels' = Listed(S)
       /\ buddy' = [x \in Ids |-> CASE x \in S /\ buddy[x] = "absent" -> "unnamed"
                                    [] x \in S /\ buddy[x] = "bare" -> "named"
                                    [] OTHER -> buddy[x]]
       /\ slack_check_state(channels', [pending EXCEPT !.list = @ - 1], Orphaned)
  /\ UNCHANGED <<gc, sa, connection_timeout, by>>

(* A buddy made here gets a SlackBuddy without a nickname, one without a   *)
(* SlackBuddy gets one with the name, and any other keeps its own.         *)
slack_read_channels_cb ==
  /\ pending.list > 0
  /\ \E S \in SUBSET Channels :
       /\ channels' = Listed(S)
       /\ buddy' = [x \in Ids |-> CASE x \in S /\ buddy[x] = "absent" -> "unnamed"
                                    [] x \in S /\ buddy[x] = "bare" -> "named"
                                    [] OTHER -> buddy[x]]
  /\ pending' = [pending EXCEPT !.list = @ - 1]
  /\ UNCHANGED <<gc, sa, timers, by>>

(* Whatever the answer says, the history poll starts. *)
slack_read_users_cb ==
  /\ pending.users > 0
  /\ \E S \in SUBSET Users :
       /\ channels' = Listed(S)
       /\ buddy' = [x \in Ids |-> IF x \in S /\ buddy[x] = "absent" THEN "bare" ELSE buddy[x]]
  /\ slack_check_state(channels', [pending EXCEPT !.users = @ - 1], Orphaned)
  /\ UNCHANGED <<gc, sa, connection_timeout, by>>

(* The messages go to the conversation, and the request is over. *)
slack_check_new_messages_cb(c) ==
  /\ pending.history[c] > 0
  /\ pending' = [pending EXCEPT !.history[c] = @ - 1]
  /\ UNCHANGED <<gc, sa, channels, timers, buddy, by>>

slack_send_im ==
  /\ sa = "ready"
  /\ pending.send < MaxPending
  /\ pending' = [pending EXCEPT !.send = @ + 1]
  /\ UNCHANGED <<gc, sa, channels, timers, buddy, by>>

slack_send_im_cb ==
  /\ pending.send > 0
  /\ pending' = [pending EXCEPT !.send = @ - 1]
  /\ UNCHANGED <<gc, sa, channels, timers, buddy, by>>

(* A request ends without its callback: given up, which is an error of the *)
(* whole account, or answered with nothing that parses.                    *)
WithoutCallback(rest) ==
  /\ pending' = rest
  /\ gc' \in {gc, "error"}
  /\ UNCHANGED <<sa, channels, timers, buddy, by>>

CallDropped ==
  \E kind \in {"list", "users", "send"} :
    pending[kind] > 0 /\ WithoutCallback([pending EXCEPT ![kind] = @ - 1])

HistoryDropped(c) ==
  pending.history[c] > 0 /\ WithoutCallback([pending EXCEPT !.history[c] = @ - 1])

-----------------------------------------------------------------------------
(* The rest of the world. *)

(* The user takes a buddy off the list or, while offline, the client ends  *)
(* and starts again with what blist.xml holds.                             *)
slack_buddy_free(x) ==
  /\ buddy[x] # "absent"
  /\ \/ buddy' = [buddy EXCEPT ![x] = "absent"]
     \/ gc = "offline" /\ buddy' = [buddy EXCEPT ![x] = "bare"]
  /\ UNCHANGED <<gc, sa, channels, pending, timers, by>>

Less(t) == IF t = Unset \/ t = 0 THEN t ELSE t - 1

(* A second passes.  The bound: only if the pool keeps up with the poll.   *)
Tick ==
  /\ \A c \in Channels : pending.history[c] < MaxPending
  /\ poll_timeout' = Less(poll_timeout)
  /\ connection_timeout' = Less(connection_timeout)
  /\ lost' = {Less(t) : t \in lost}
  /\ UNCHANGED <<gc, sa, channels, pending, buddy, by>>

Next ==
  \/ slack_chat_login \/ slack_chat_close
  \/ slack_read_channels_cb \/ slack_read_users_cb
  \/ slack_send_im \/ slack_send_im_cb
  \/ \E c \in Channels : slack_check_new_messages_cb(c) \/ HistoryDropped(c)
  \/ CallDropped
  \/ slack_timeout
  \/ \E x \in Ids : slack_buddy_free(x)
  \/ Tick

Spec == Init /\ [][Next]_vars

(* The main loop dispatches what is due, and the pool ends every request   *)
(* (EveryRequestEnds of SlackConnection).                                  *)
FairSpec ==
  /\ Spec
  /\ WF_vars(Tick)
  /\ WF_vars(slack_timeout)
  /\ \A c \in Channels : WF_vars(slack_check_new_messages_cb(c) \/ HistoryDropped(c))

-----------------------------------------------------------------------------
(* Properties. *)

(* slack_check_state overwrites sa->poll_timeout: whoever calls it must not *)
(* do so while a timer is pending, or close could not remove that timer.   *)
OneChain == lost = {}

(* After close nothing is left that holds the freed SlackAccount, and a    *)
(* login that fails has armed and posted nothing.                          *)
NothingOutlivesClose ==
  sa # "ready" =>
    /\ poll_timeout = Unset /\ connection_timeout = Unset /\ lost = {}
    /\ pending = NoRequests

(* The watchdog is pending only beside a poll timer that is due before it, *)
(* so removing and arming it again at each poll keeps it from ever firing. *)
OnlyPollFires ==
  /\ by \in {"nobody", "poll"}
  /\ connection_timeout # Unset => poll_timeout # Unset /\ poll_timeout <= connection_timeout

(* One answer to channels.list or users.list is taken per login, so that   *)
(* the poll asks for the history of each channel once.                     *)
ListedOnce == \A x \in Ids : channels[x] + (IF x \in Channels THEN pending.list ELSE pending.users) <= 1

(* The users are asked for once, before anything polls; so the callback    *)
(* that starts the poll finds no timer.  With the properties above this    *)
(* is inductive.                                                           *)
UsersFirst ==
  /\ pending.users <= 1
  /\ pending.users > 0 => poll_timeout = Unset

(* What every reachable state satisfies, and every step preserves. *)
SessionInv ==
  /\ TypeOK
  /\ OneChain /\ NothingOutlivesClose /\ OnlyPollFires /\ ListedOnce /\ UsersFirst
  /\ gc = "offline" => sa = "none"

(* Once the poll goes, a channel the account lists is asked for its        *)
(* messages again and again, whatever became of the earlier requests.      *)
AskedAgain ==
  \A c \in Channels :
    (channels[c] > 0 /\ by = "poll" /\ pending.history[c] = 0)
      ~> (pending.history[c] > 0 \/ sa # "ready")
=============================================================================
