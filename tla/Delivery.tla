------------------------------ MODULE Delivery ------------------------------
(***************************************************************************)
(* The request pool beside the server it talks to, and what the account    *)
(* keeps of the cookies the server sets.                                   *)
(*                                                                         *)
(* The pool is SlackConnection, used as all its callers do, without        *)
(* SLACK_METHOD_RTM.  A request is written when its attempt connects; the  *)
(* server, which is external, evaluates what was written when it gets to   *)
(* it, even if the attempt has been given up by then; each evaluation may  *)
(* set a new cookie, which reaches the account if and when the answer is   *)
(* read.  Closing a connection loses what was not read.                    *)
(*                                                                         *)
(* The cookie table is one cookie here, the n-th one the server set being  *)
(* n; how a Set-Cookie line is read is SlackResponse's matter.             *)
(***************************************************************************)
EXTENDS SlackConnection

CONSTANT
  MaxCookies          \* bound: cookies the server sets

ASSUME CookiesAssumption == MaxCookies \in Nat /\ Rtm = {}

VARIABLES
  cookie_table,       \* sa->cookie_table: the cookie it holds, 0 for none
  written,            \* attempts the server has still to evaluate: <<struct, attempt>>
  answers,            \* on the wire: <<struct, attempt, the cookie it sets or 0>>
  served,             \* the newest cookie the server set
  lost                \* the newest cookie was never read, or overwritten (for the properties)

dvars == <<vars, cookie_table, written, answers, served, lost>>

DInit ==
  /\ Init
  /\ cookie_table = 0
  /\ written = {} /\ answers = {} /\ served = 0 /\ lost = FALSE

-----------------------------------------------------------------------------
(* What an action of the pool does to the answers on the wire: those of    *)
(* connections that are closed now are gone.                               *)
Reading(a) == <<"read", a[1], a[2]>> \in sources'
Lost(sent) == {a[3] : a \in {b \in sent : ~Reading(b)}}
Overwritten == IF cookie_table' < cookie_table THEN {cookie_table} ELSE {}

Wire(sent, newest) ==
  /\ served' = newest
  /\ answers' = {a \in sent : Reading(a)}
  /\ lost' = (newest \in Lost(sent) \cup Overwritten \cup {c \in {served} : lost})

Post(r) == get_or_post_request(r) /\ UNCHANGED <<cookie_table, written>>

Write(r, n) ==
  /\ Connected(r, n)
  /\ written' = written \cup {<<r, n>>}
  /\ UNCHANGED cookie_table

(* There is something to read only of an answer.                           *)
Receive(r, n) ==
  /\ \E a \in answers : a[1] = r /\ a[2] = n
  /\ ReadSome(r, n)
  /\ UNCHANGED <<cookie_table, written>>

(* Mutant: the answer's cookie is not kept.                                *)
WrongUpdatedNever(a) == cookie_table

(* slack_update_cookies, if the answer has a Set-Cookie line.              *)
Updated(a) == IF a[3] = 0 THEN cookie_table ELSE a[3]

(* The end of an answer, whose cookie is now the account's; one that stops *)
(* within its headers sets nothing, and is "empty" or no JSON.             *)
ReadWhole(a, outcome) ==
  /\ ReadEnd(a[1], a[2], outcome)
  /\ rx[a[1]]
  /\ cookie_table' = Updated(a)
  /\ UNCHANGED written

ReadCut(r, n, outcome) ==
  /\ outcome # "answered"
  /\ ReadEnd(r, n, outcome)
  /\ UNCHANGED <<cookie_table, written>>

FailAttempt(r, n) ==
  /\ \/ ConnectFailed(r, n) \/ slack_ssl_connection_error(r, n)
     \/ ReadFailed(r, n) \/ slack_connection_timedout(r, n)
  /\ UNCHANGED <<cookie_table, written>>

Pool ==
  \/ /\ \/ \E r \in Requests :
             \/ Post(r)
             \/ \E n \in 1 .. timeout_watcher[r] :
                  \/ Write(r, n) \/ Receive(r, n) \/ FailAttempt(r, n)
                  \/ \E outcome \in {"empty", "unparsable"} : ReadCut(r, n, outcome)
             \/ CallbackReturns(r) /\ UNCHANGED <<cookie_table, written>>
        \/ slack_chat_close /\ UNCHANGED <<cookie_table, written>>
     /\ Wire(answers, served)
  \/ \E a \in answers :
       /\ \E outcome \in {"answered", "empty", "unparsable"} : ReadWhole(a, outcome)
       /\ Wire(answers \ {a}, served)

(* The server.                                                             *)
Evaluate(r, n) ==
  /\ <<r, n>> \in written
  /\ written' = written \ {<<r, n>>}
  /\ UNCHANGED <<vars, cookie_table>>
  /\ \/ Wire(answers \cup {<<r, n, 0>>}, served)
     \/ served < MaxCookies /\ Wire(answers \cup {<<r, n, served + 1>>}, served + 1)

DNext == Pool \/ \E a \in written : Evaluate(a[1], a[2])

DSpec == DInit /\ [][DNext]_dvars

-----------------------------------------------------------------------------
(* Properties                                                              *)

(* The account falls behind the cookies the server sets only while the     *)
(* answer is on its way, or through an answer that was lost or cut short,  *)
(* or overwritten by an older one read later.                              *)
CookiesFollow ==
  \/ cookie_table = served
  \/ lost
  \/ \E a \in answers : a[3] = served
=============================================================================
