----------------------------- MODULE HistoryPoll -----------------------------
(***************************************************************************)
(* Which messages the history poll of src/slack_chat.c shows.              *)
(*                                                                         *)
(* Each poll asks the server, channel by channel, for what came after the  *)
(* account's last_message_time, and the callback of each answer sets that  *)
(* one setting to the time the answer was made, for all channels.  The     *)
(* requests of a poll are answered in any order, or not at all; the pool   *)
(* may send one twice; the next poll does not wait for them.  The setting  *)
(* is stored with the account, and survives a disconnection.               *)
(*                                                                         *)
(* When polls happen is SlackSession's matter: here they come at any time. *)
(* (At this commit nothing starts them.)  The server is external: it       *)
(* answers with the newest messages after oldest, at most a page of them,  *)
(* and with the time of the answer as latest, or without it.  A time is    *)
(* the number of messages said so far.                                     *)
(***************************************************************************)
EXTENDS Integers, Sequences, FiniteSets

CONSTANTS
    Channels,       \* sa->channels that are listed in a buddy channel
    Page,           \* messages in an answer at most
    MaxMessages,    \* bound: messages said
    Polls,          \* names of the polls under way, so a bound on their number
    Unset           \* last_message_time before anything set it

ASSUME HistoryAssumption ==
    /\ IsFiniteSet(Channels)
    /\ Page \in Nat \ {0} /\ MaxMessages \in Nat
    /\ Unset \notin Nat

VARIABLES
    said,               \* the channel of each message, in the order of their times
    connected,          \* logged in, and the channels listed
    last_message_time,  \* the setting of the account
    requests,           \* posted and not ended: [channel, poll, oldest, at]
    shown,              \* the messages written to a conversation
    repeated,           \* one was written again though nothing was irregular (for the properties)
    clock,              \* time(NULL) as the last poll that found no setting took it
    start,              \* as the first of them did (for the properties)
    excused,            \* messages that may be lost: see NoneOverlooked (for the properties)
    regular             \* nothing irregular so far (for the properties): see OnceEach

vars == <<said, connected, last_message_time, requests, shown, repeated, clock, start, excused, regular>>

Now == Len(said)
NotYet == -1

Init ==
    /\ said = <<>> /\ connected = FALSE /\ last_message_time = Unset
    /\ requests = {}
    /\ shown = {} /\ repeated = FALSE
    /\ clock = 0 /\ start = NotYet /\ excused = {} /\ regular = TRUE

-----------------------------------------------------------------------------
(* The account                                                             *)

slack_chat_login ==
    /\ ~connected
    /\ connected' = TRUE
    /\ UNCHANGED <<said, last_message_time, requests, shown, repeated, clock, start, excused, regular>>

(* The pool frees every request; the setting stays.                        *)
slack_chat_close ==
    /\ connected
    /\ connected' = FALSE /\ requests' = {}
    /\ UNCHANGED <<said, last_message_time, shown, repeated, clock, start, excused, regular>>

(* time(NULL) in whole seconds: now, or a little before, but never going   *)
(* back.                                                                   *)
UnixNow == {s \in {Now - 1, Now} : s >= clock}

(* Mutant: the setting is never used.                                      *)
WrongOldestFromClock == UnixNow

(* Mutant: the setting has no default.                                     *)
WrongOldestNoDefault == {last_message_time}

Oldest == IF last_message_time = Unset THEN UnixNow ELSE {last_message_time}

Unused == Polls \ {r.poll : r \in requests}

(* Each poll takes the clock afresh until an answer has stored the setting.*)
slack_check_state ==
    /\ connected
    /\ \E oldest \in Oldest, p \in Unused :
         /\ requests' = requests \cup
              {[channel |-> c, poll |-> p, oldest |-> oldest, at |-> NotYet] : c \in Channels}
         /\ clock' = IF last_message_time = Unset THEN oldest ELSE clock
         /\ start' = IF start = NotYet THEN oldest ELSE start
    /\ regular' = (regular /\ requests = {})
    /\ UNCHANGED <<said, connected, last_message_time, shown, repeated, excused>>

-----------------------------------------------------------------------------
(* The server                                                              *)

Say(c) ==
    /\ Now < MaxMessages
    /\ said' = Append(said, c)
    /\ UNCHANGED <<connected, last_message_time, requests, shown, repeated, clock, start, excused, regular>>

(* The request is answered now: if the pool sent it more than once, this   *)
(* is the time whose answer it will read.                                  *)
Evaluate(r) ==
    /\ r.at = NotYet
    /\ requests' = (requests \ {r}) \cup {[r EXCEPT !.at = Now]}
    /\ UNCHANGED <<said, connected, last_message_time, shown, repeated, clock, start, excused, regular>>

Matching(r) == {t \in (r.oldest + 1)..r.at : said[t] = r.channel}
Answer(r) == {t \in Matching(r) : Cardinality({u \in Matching(r) : u > t}) < Page}

-----------------------------------------------------------------------------
(* The answer                                                              *)

(* The request failed three times, or its answer says ok: false.           *)
NoAnswer(r) ==
    /\ requests' = requests \ {r}
    /\ UNCHANGED <<said, connected, last_message_time, shown, repeated, clock, start, excused, regular>>

(* Mutant: the time asked for is stored instead of the time answered.      *)
WrongLatestAsAsked(r) == {r.oldest, Unset}

(* What "latest" of the answer may be: the time it was made, or missing.   *)
Latest(r) == {r.at, Unset}

slack_check_new_messages_cb(r) ==
    /\ r.at # NotYet
    /\ requests' = requests \ {r}
    /\ \E latest \in Latest(r) :
         /\ last_message_time' = IF latest = Unset THEN last_message_time ELSE latest
         /\ excused' = excused \cup (Matching(r) \ Answer(r))
                               \cup {t \in 1..Now : latest # Unset /\ t <= latest /\ said[t] # r.channel}
         /\ regular' = (regular /\ latest # Unset /\ last_message_time \in (0..latest) \cup {Unset})
    /\ shown' = shown \cup Answer(r)
    /\ repeated' = (repeated \/ (regular' /\ shown \cap Answer(r) # {}))
    /\ UNCHANGED <<said, connected, clock, start>>

Next ==
    \/ slack_chat_login \/ slack_chat_close \/ slack_check_state
    \/ \E c \in Channels : Say(c)
    \/ \E r \in requests : Evaluate(r) \/ NoAnswer(r) \/ slack_check_new_messages_cb(r)

Spec == Init /\ [][Next]_vars

-----------------------------------------------------------------------------
(* Properties                                                              *)

TypeOK ==
    /\ said \in Seq(Channels) /\ Now <= MaxMessages
    /\ connected \in BOOLEAN /\ regular \in BOOLEAN
    /\ last_message_time \in Nat \cup {Unset}
    /\ requests \subseteq [channel : Channels, poll : Polls, oldest : Nat, at : Nat \cup {NotYet}]
    /\ shown \subseteq 1..MaxMessages /\ repeated \in BOOLEAN
    /\ clock \in Nat /\ start \in Nat \cup {NotYet} /\ excused \subseteq 1..MaxMessages

(* Said after the account first asked, but before the last poll that found *)
(* no setting: that poll and those after it do not ask for it any more.    *)
Restarted == start + 1 .. clock

(* What was said up to since, after the account first asked.               *)
Accounted(since) == \A t \in start + 1 .. since : t \in shown \cup excused \cup Restarted

(* A message the setting has passed, of those said since the account first *)
(* asked, was shown, or was lost: no later poll asks for it.  Only three   *)
(* things lose one: an answer with more messages than a page, of which the *)
(* code never asks for the rest; the answer of another channel, made after *)
(* the message was said, that moved the one setting past it; and a poll    *)
(* that begins, with no setting stored yet, from the clock and not from    *)
(* where the one before it began.  Once the setting is stored, what one    *)
(* channel says in short answers is never lost, whatever is dropped, sent  *)
(* again or answered out of order, and whenever the account reconnects.    *)
NoneOverlooked == last_message_time # Unset => Accounted(last_message_time)

(* A message is shown once, unless a poll began while the requests of an   *)
(* earlier one were under way, or an answer was handled after a later one, *)
(* which sets the time back, or came without its time.                     *)
OnceEach == ~repeated

(* The inductive invariant: what a request asks for begins where all is    *)
(* accounted for, and nothing is dated after now; while all is regular the *)
(* setting is past what was shown, and the requests are those of one poll, *)
(* one for each channel, that ask for nothing shown before.                *)
HistoryInv ==
    /\ TypeOK /\ NoneOverlooked /\ OnceEach
    /\ last_message_time # Unset => last_message_time <= Now
    /\ start = NotYet => last_message_time = Unset /\ requests = {}
    /\ \A r \in requests : r.oldest <= Now /\ r.at <= Now /\ Accounted(r.oldest)
    /\ regular =>
         /\ \A t \in shown : last_message_time # Unset /\ t <= last_message_time
         /\ \A r \in requests, t \in shown : said[t] = r.channel => t <= r.oldest
         /\ \A r, q \in requests : r.channel = q.channel => r = q
=============================================================================
