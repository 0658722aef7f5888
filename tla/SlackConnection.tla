--------------------------- MODULE SlackConnection ---------------------------
(***************************************************************************)
(* The HTTP request pool of slack_connection.c.  get_or_post_request       *)
(* allocates a SlackConnection and pushes it on sa->waiting_conns;         *)
(* slack_next_connection moves one waiting connection to sa->conns and     *)
(* attempts it; the callbacks libpurple makes from its main loop (proxy or *)
(* TLS connect, readable socket, 120 second timer, DNS answer) read it,    *)
(* retry it, give up on it or hand its JSON to the caller's callback; and  *)
(* slack_chat_close destroys whatever is left.                             *)
(*                                                                         *)
(* libpurple is single threaded: a handler runs to its end, except that    *)
(* the caller's callback (slackcon->callback) may itself post requests     *)
(* before the handler destroys the connection and calls                    *)
(* slack_next_connection.  "running" is the connection whose callback is   *)
(* on the stack; no other handler runs meanwhile.                          *)
(***************************************************************************)
EXTENDS Naturals, Sequences, FiniteSets

CONSTANTS
  Requests,        \* the SlackConnection structs; each is allocated at most once
  Ssl,             \* those whose method has SLACK_METHOD_SSL
  Rtm,             \* those whose method has SLACK_METHOD_RTM
  HttpProxy,       \* the account is set up with an HTTP proxy
  MaxConnections,  \* SLACK_MAX_CONNECTIONS
  MaxTries,        \* the 3 of "retry_count < 3"
  None,            \* no callback is running
  Crashed          \* the process has used freed memory: nothing runs any more

ASSUME PoolAssumption ==
  /\ Ssl \subseteq Requests
  /\ Rtm \subseteq Requests
  /\ HttpProxy \in BOOLEAN
  /\ MaxConnections \in Nat \ {0}
  /\ MaxTries \in Nat \ {0}
  /\ None \notin Requests
  /\ Crashed \notin Requests \cup {None}

VARIABLES
  waiting,            \* sa->waiting_conns; its head is the next one popped
  conns,              \* sa->conns
  alloc,              \* whether each struct is allocated
  handle,             \* what the struct owns: ssl_conn, connect_data or fd + input_watcher
  retry_count,        \* slackcon->retry_count
  timeout_watcher,    \* slackcon->timeout_watcher: GLib ids never repeat, so a struct's
                      \* n-th timer is n; close does not reset the field
  rx,                 \* rx_len > 0
  sources,            \* what the main loop will still call back: <<kind, struct, attempt>>
  hostname,           \* slackcon->hostname: the host's name or a cached address
  hostname_ip_cache,  \* sa->hostname_ip_cache has the (one) host callers name
  dns_queries,        \* sa->dns_queries
  running,            \* the struct whose callback is executing, None or Crashed
  gc,                 \* the PurpleConnection
  fate,               \* history: what became of each request
  posted              \* history: the requests in the order they were posted

life == <<alloc, fate, gc, posted>>
dns  == <<hostname, hostname_ip_cache, dns_queries>>
vars == <<waiting, conns, alloc, handle, retry_count, timeout_watcher, rx, sources,
          hostname, hostname_ip_cache, dns_queries, running, gc, fate, posted>>

Queued == {waiting[i] : i \in DOMAIN waiting}

Settled == {"answered", "empty", "unparsable", "fatal", "cancelled"}

Handles == {"none", "proxy", "socket", "ssl"}

Sources == {"connect", "read", "timer", "rtm", "dns"} \X Requests \X Nat

TypeOK ==
  /\ waiting \in Seq(Requests)
  /\ conns \in SUBSET Requests
  /\ alloc \in [Requests -> {"none", "live", "freed"}]
  /\ handle \in [Requests -> Handles]
  /\ retry_count \in [Requests -> Nat]
  /\ timeout_watcher \in [Requests -> Nat]
  /\ rx \in [Requests -> BOOLEAN]
  /\ sources \in SUBSET Sources
  /\ hostname \in [Requests -> {"name", "address"}]
  /\ hostname_ip_cache \in BOOLEAN
  /\ dns_queries \in SUBSET (Requests \X Nat)
  /\ running \in Requests \cup {None, Crashed}
  /\ gc \in {"connected", "error", "closed"}
  /\ fate \in [Requests -> {"unposted", "pending"} \cup Settled]
  /\ posted \in Seq(Requests)

(* slack_chat_login has filled in a fresh SlackAccount. *)
Init ==
  /\ waiting = <<>>
  /\ conns = {}
  /\ alloc = [r \in Requests |-> "none"]
  /\ handle = [r \in Requests |-> "none"]
  /\ retry_count = [r \in Requests |-> 0]
  /\ timeout_watcher = [r \in Requests |-> 0]
  /\ rx = [r \in Requests |-> FALSE]
  /\ sources = {}
  /\ hostname = [r \in Requests |-> "name"]
  /\ hostname_ip_cache = FALSE
  /\ dns_queries = {}
  /\ running = None
  /\ gc = "connected"
  /\ fate = [r \in Requests |-> "unposted"]
  /\ posted = <<>>

-----------------------------------------------------------------------------
(* Parts of handlers.  h and s are handle and sources as the handler has   *)
(* left them so far, q and cs the two lists.                               *)

(* Definitions named Wrong... are variants of the one that follows them    *)
(* with a plausible mistake; the README lists which property notices each. *)

(* slack_connection_close without its purple_ssl_close. *)
WrongOwnedKindsNoSsl(owned) ==
  CASE owned = "proxy"  -> {"connect"}
    [] owned = "socket" -> {"read"}
    [] owned \in {"ssl", "none"} -> {}

(* The main-loop sources that freeing what a struct owns takes away. *)
OwnedKinds(owned) ==
  CASE owned = "ssl"    -> {"connect", "read"}
    [] owned = "proxy"  -> {"connect"}
    [] owned = "socket" -> {"read"}
    [] owned = "none"   -> {}

(* slack_connection_close without its purple_timeout_remove. *)
WrongCancelledNoTimer(r, h, s) == {x \in s : x[2] = r /\ x[1] \in OwnedKinds(h[r])}

(* The sources slack_connection_close(r) cancels, s being those pending. *)
Cancelled(r, h, s) ==
  {x \in s : x[2] = r /\ \/ x[1] \in OwnedKinds(h[r])
                         \/ x[1] = "timer" /\ x[3] = timeout_watcher[r]}

NeedsLookup(c) == c \notin Ssl /\ ~HttpProxy /\ hostname[c] = "name"

(* No timer when the connection could not be started. *)
WrongAttemptUnsupervised(c, cs, h, s, linked) ==
  /\ conns' = cs \cup {c}
  /\ timeout_watcher' = [timeout_watcher EXCEPT ![c] = @ + 1]
  /\ handle' = [h EXCEPT ![c] = IF linked THEN "ssl" ELSE @]
  /\ sources' = s \cup {x \in {"connect", "timer"} \X {c} \X {timeout_watcher[c] + 1} : linked}
  /\ UNCHANGED dns

(* The connection for its query put on the untyped list sa->dns_queries.   *)
WrongAttemptListsItself(c, cs, h, s, linked) ==
  LET n      == timeout_watcher[c] + 1
      lookup == NeedsLookup(c) /\ ~hostname_ip_cache
  IN  /\ conns' = cs \cup {c}
      /\ timeout_watcher' = [timeout_watcher EXCEPT ![c] = n]
      /\ handle' = [h EXCEPT ![c] = IF ~linked THEN @
                                    ELSE IF c \in Ssl THEN "ssl" ELSE "proxy"]
      /\ sources' = s \cup {<<"timer", c, n>>}
                      \cup {x \in {<<"connect", c, n>>} : linked}
                      \cup {x \in {<<"dns", c, n>>} : lookup}
      /\ dns_queries' = dns_queries \cup {x \in {c} : lookup}
      /\ hostname' = [hostname EXCEPT ![c] = IF NeedsLookup(c) /\ hostname_ip_cache
                                             THEN "address" ELSE @]
      /\ UNCHANGED hostname_ip_cache

(* "linked" is whether purple_ssl_connect or purple_proxy_connect could    *)
(* start at all: both may return NULL, and the code does not look.         *)
slack_attempt_connection(c, cs, h, s, linked) ==
  LET n      == timeout_watcher[c] + 1
      lookup == NeedsLookup(c) /\ ~hostname_ip_cache
  IN  /\ conns' = cs \cup {c}
      /\ timeout_watcher' = [timeout_watcher EXCEPT ![c] = n]
      /\ handle' = [h EXCEPT ![c] = IF ~linked THEN @
                                    ELSE IF c \in Ssl THEN "ssl" ELSE "proxy"]
      /\ sources' = s \cup {<<"timer", c, n>>}
                      \cup {x \in {<<"connect", c, n>>} : linked}
                      \cup {x \in {<<"dns", c, n>>} : lookup}
      /\ hostname' = [hostname EXCEPT ![c] = IF NeedsLookup(c) /\ hostname_ip_cache
                                             THEN "address" ELSE @]
      /\ dns_queries' = dns_queries \cup {x \in {<<c, n>>} : lookup}
      /\ UNCHANGED hostname_ip_cache

(* One connection too many. *)
WrongNextOffByOne(q, cs, h, s) ==
  \/ /\ q # <<>>
     /\ Cardinality(cs) <= MaxConnections
     /\ waiting' = Tail(q)
     /\ \E linked \in BOOLEAN : slack_attempt_connection(Head(q), cs, h, s, linked)
  \/ /\ q = <<>> \/ Cardinality(cs) > MaxConnections
     /\ waiting' = q
     /\ conns' = cs
     /\ handle' = h
     /\ sources' = s
     /\ UNCHANGED <<timeout_watcher, dns>>

slack_next_connection(q, cs, h, s) ==
  \/ /\ q # <<>>
     /\ Cardinality(cs) < MaxConnections
     /\ waiting' = Tail(q)
     /\ \E linked \in BOOLEAN : slack_attempt_connection(Head(q), cs, h, s, linked)
  \/ /\ q = <<>> \/ Cardinality(cs) >= MaxConnections
     /\ waiting' = q
     /\ conns' = cs
     /\ handle' = h
     /\ sources' = s
     /\ UNCHANGED <<timeout_watcher, dns>>

(* The slot is not offered to the next in line. *)
WrongFinishOnly(r, s) ==
  /\ alloc' = [alloc EXCEPT ![r] = "freed"]
  /\ rx' = [rx EXCEPT ![r] = FALSE]
  /\ conns' = conns \ {r}
  /\ handle' = [handle EXCEPT ![r] = "none"]
  /\ sources' = s \ Cancelled(r, handle, s)
  /\ UNCHANGED <<waiting, timeout_watcher, dns>>

(* The request is over: slack_connection_destroy, then the next in line. *)
FinishAndNext(r, s) ==
  /\ alloc' = [alloc EXCEPT ![r] = "freed"]
  /\ rx' = [rx EXCEPT ![r] = FALSE]
  /\ slack_next_connection(waiting, conns \ {r}, [handle EXCEPT ![r] = "none"],
                           s \ Cancelled(r, handle, s))

(* slack_connection_destroy and a connection error: libpurple notes it and *)
(* disconnects the account from a zero timeout, once the handler is done.  *)
slack_fatal_connection_cb(r, h, s) ==
  /\ conns' = conns \ {r}
  /\ alloc' = [alloc EXCEPT ![r] = "freed"]
  /\ handle' = [h EXCEPT ![r] = "none"]
  /\ sources' = s \ Cancelled(r, h, s)
  /\ rx' = [rx EXCEPT ![r] = FALSE]
  /\ gc' = "error"
  /\ fate' = [fate EXCEPT ![r] = "fatal"]
  /\ UNCHANGED <<waiting, timeout_watcher, dns, running, posted>>

(* Requeued without leaving sa->conns. *)
WrongRequeueStillListed(r, h, s) ==
  /\ rx' = [rx EXCEPT ![r] = FALSE]
  /\ slack_next_connection(Append(waiting, r), conns,
                           [h EXCEPT ![r] = "none"], s \ Cancelled(r, h, s))
  /\ UNCHANGED <<life, running>>

(* Requeued at the end that is popped. *)
WrongRequeueAtOnce(r, h, s) ==
  /\ rx' = [rx EXCEPT ![r] = FALSE]
  /\ slack_next_connection(<<r>> \o waiting, conns \ {r},
                           [h EXCEPT ![r] = "none"], s \ Cancelled(r, h, s))
  /\ UNCHANGED <<life, running>>

(* Requeued without slack_next_connection. *)
WrongRequeueNoNext(r, h, s) ==
  /\ rx' = [rx EXCEPT ![r] = FALSE]
  /\ waiting' = Append(waiting, r)
  /\ conns' = conns \ {r}
  /\ handle' = [h EXCEPT ![r] = "none"]
  /\ sources' = s \ Cancelled(r, h, s)
  /\ UNCHANGED <<life, running, timeout_watcher, dns>>

(* slack_connection_close, g_queue_push_head, slack_next_connection. *)
Requeue(r, h, s) ==
  /\ rx' = [rx EXCEPT ![r] = FALSE]
  /\ slack_next_connection(Append(waiting, r), conns \ {r},
                           [h EXCEPT ![r] = "none"], s \ Cancelled(r, h, s))
  /\ UNCHANGED <<life, running>>

(* The retry limit compared with <= . *)
WrongResendOnceMore(r, h, s) ==
  /\ retry_count' = [retry_count EXCEPT ![r] = @ + 1]
  /\ \/ retry_count[r] + 1 <= MaxTries /\ Requeue(r, h, s)
     \/ retry_count[r] + 1 > MaxTries /\ slack_fatal_connection_cb(r, h, s)

(* "Try resend the request": the same lines in three handlers. *)
ResendOrGiveUp(r, h, s) ==
  /\ retry_count' = [retry_count EXCEPT ![r] = @ + 1]
  /\ \/ retry_count[r] + 1 < MaxTries /\ Requeue(r, h, s)
     \/ retry_count[r] + 1 >= MaxTries /\ slack_fatal_connection_cb(r, h, s)

-----------------------------------------------------------------------------
(* The handlers. *)

(* push_tail for push_head: the newest is served first. *)
WrongPostAtOnce(r) ==
  /\ running # Crashed
  /\ gc # "closed"
  /\ alloc[r] = "none"
  /\ alloc' = [alloc EXCEPT ![r] = "live"]
  /\ fate' = [fate EXCEPT ![r] = "pending"]
  /\ posted' = Append(posted, r)
  /\ slack_next_connection(<<r>> \o waiting, conns, handle, sources)
  /\ UNCHANGED <<retry_count, rx, running, gc>>

(* A caller's request: the user's (running = None) or a callback's. *)
get_or_post_request(r) ==
  /\ running # Crashed
  /\ gc # "closed"
  /\ alloc[r] = "none"
  /\ alloc' = [alloc EXCEPT ![r] = "live"]
  /\ fate' = [fate EXCEPT ![r] = "pending"]
  /\ posted' = Append(posted, r)
  /\ slack_next_connection(Append(waiting, r), conns, handle, sources)
  /\ UNCHANGED <<retry_count, rx, running, gc>>

(* slack_post_or_get_connect_cb or slack_post_or_get_ssl_connect_cb, with  *)
(* the whole request written.  A proxy connection becomes a socket.        *)
Connected(r, n) ==
  /\ running = None
  /\ <<"connect", r, n>> \in sources
  /\ sources' = (sources \ {<<"connect", r, n>>}) \cup {<<"read", r, n>>}
  /\ handle' = [handle EXCEPT ![r] = IF @ = "proxy" THEN "socket" ELSE @]
  /\ UNCHANGED <<waiting, conns, retry_count, timeout_watcher, rx, dns, running, life>>

(* The same two callbacks after a connect error (plain only) or a short    *)
(* write: fatal at once, without a retry.                                  *)
ConnectFailed(r, n) ==
  /\ running = None
  /\ <<"connect", r, n>> \in sources
  /\ slack_fatal_connection_cb(r, handle, sources \ {<<"connect", r, n>>})
  /\ UNCHANGED retry_count

(* libpurple closes the TLS connection itself after this callback. *)
slack_ssl_connection_error(r, n) ==
  /\ running = None
  /\ r \in Ssl
  /\ <<"connect", r, n>> \in sources
  /\ ResendOrGiveUp(r, [handle EXCEPT ![r] = "none"], sources \ {<<"connect", r, n>>})

(* slack_post_or_get_readdata_cb, len > 0. *)
ReadSome(r, n) ==
  /\ running = None
  /\ <<"read", r, n>> \in sources
  /\ rx' = [rx EXCEPT ![r] = TRUE]
  /\ UNCHANGED <<waiting, conns, handle, retry_count, timeout_watcher, sources, dns,
                 running, life>>

(* slack_post_or_get_readdata_cb, len < 0 and not to be tried again later; *)
(* a TLS error after some data is taken for the end of the answer instead. *)
ReadFailed(r, n) ==
  /\ running = None
  /\ <<"read", r, n>> \in sources
  /\ ~(r \in Ssl /\ rx[r])
  /\ ResendOrGiveUp(r, handle, sources)

(* What slack_connection_process_data can make of the bytes received.  No  *)
(* bytes, or headers alone, are "empty": the callback is not called.       *)
Answers(r) == IF rx[r] THEN {"answered", "empty", "unparsable"} ELSE {"empty"}

(* slack_post_or_get_readdata_cb at the end of the answer.  With an answer *)
(* that parses, the caller's callback now runs, the struct still in conns. *)
ReadEnd(r, n, answer) ==
  LET s == sources \cup {x \in {<<"rtm", r, n>>} : r \in Rtm}
  IN  /\ running = None
      /\ <<"read", r, n>> \in sources
      /\ answer \in Answers(r)
      /\ fate' = [fate EXCEPT ![r] = answer]
      /\ \/ /\ answer = "answered"
            /\ running' = r
            /\ sources' = s
            /\ UNCHANGED <<waiting, conns, handle, timeout_watcher, dns, alloc, rx>>
         \/ /\ answer # "answered"
            /\ FinishAndNext(r, s)
            /\ UNCHANGED running
      /\ UNCHANGED <<retry_count, gc, posted>>

(* The caller's callback returns to slack_post_or_get_readdata_cb. *)
CallbackReturns(r) ==
  /\ running = r
  /\ running' = None
  /\ FinishAndNext(r, sources)
  /\ UNCHANGED <<retry_count, fate, gc, posted>>

slack_connection_timedout(r, n) ==
  /\ running = None
  /\ <<"timer", r, n>> \in sources
  /\ ResendOrGiveUp(r, handle, sources \ {<<"timer", r, n>>})

(* The timer armed for SLACK_METHOD_RTM.  The handler that armed it        *)
(* destroyed the struct before it returned, so slackcon->sa is read from   *)
(* freed memory, and what that gives is written to and freed.  What a      *)
(* program does after that is not modelled: here it ends.                  *)
slack_ans_timeout(r, n) ==
  /\ running = None
  /\ <<"rtm", r, n>> \in sources
  /\ running' = Crashed
  /\ UNCHANGED <<waiting, conns, handle, retry_count, timeout_watcher, rx, sources, dns,
                 life>>

slack_host_lookup_cb(r, n, found) ==
  /\ running = None
  /\ <<"dns", r, n>> \in sources
  /\ sources' = sources \ {<<"dns", r, n>>}
  /\ dns_queries' = dns_queries \ {<<r, n>>}
  /\ hostname_ip_cache' = (hostname_ip_cache \/ found)
  /\ UNCHANGED <<waiting, conns, handle, retry_count, timeout_watcher, rx, hostname,
                 running, life>>

(* The DNS queries are forgotten. *)
WrongCloseKeepsDns ==
  LET destroyed == Queued \cup conns
  IN  /\ running = None
      /\ gc # "closed"
      /\ gc' = "closed"
      /\ waiting' = <<>>
      /\ conns' = {}
      /\ alloc' = [r \in Requests |-> IF r \in destroyed THEN "freed" ELSE alloc[r]]
      /\ handle' = [r \in Requests |-> IF r \in destroyed THEN "none" ELSE handle[r]]
      /\ rx' = [r \in Requests |-> IF r \in destroyed THEN FALSE ELSE rx[r]]
      /\ fate' = [r \in Requests |-> IF r \in destroyed THEN "cancelled" ELSE fate[r]]
      /\ sources' = {x \in sources : x \notin Cancelled(x[2], handle, sources)
                                      \/ x[2] \notin destroyed}
      /\ UNCHANGED <<retry_count, timeout_watcher, dns, running, posted>>

(* The user's disconnect, or libpurple's after an error: every connection  *)
(* on either list is destroyed, then every DNS query on its list.          *)
slack_chat_close ==
  LET destroyed == Queued \cup conns
  IN  /\ running = None
      /\ gc # "closed"
      /\ gc' = "closed"
      /\ waiting' = <<>>
      /\ conns' = {}
      /\ dns_queries' = {}
      /\ alloc' = [r \in Requests |-> IF r \in destroyed THEN "freed" ELSE alloc[r]]
      /\ handle' = [r \in Requests |-> IF r \in destroyed THEN "none" ELSE handle[r]]
      /\ rx' = [r \in Requests |-> IF r \in destroyed THEN FALSE ELSE rx[r]]
      /\ fate' = [r \in Requests |-> IF r \in destroyed THEN "cancelled" ELSE fate[r]]
      /\ sources' = {x \in sources : /\ x \notin Cancelled(x[2], handle, sources)
                                        \/ x[2] \notin destroyed
                                     /\ x[1] = "dns" => <<x[2], x[3]>> \notin dns_queries}
      /\ UNCHANGED <<retry_count, timeout_watcher, hostname, hostname_ip_cache, running,
                     posted>>

(* A main-loop callback made for some attempt of connection r. *)
Callback(r) ==
  \E n \in 1 .. timeout_watcher[r] :
    \/ Connected(r, n)
    \/ ConnectFailed(r, n)
    \/ slack_ssl_connection_error(r, n)
    \/ ReadSome(r, n)
    \/ ReadFailed(r, n)
    \/ \E answer \in {"answered", "empty", "unparsable"} : ReadEnd(r, n, answer)
    \/ slack_connection_timedout(r, n) \/ slack_ans_timeout(r, n)
    \/ \E found \in BOOLEAN : slack_host_lookup_cb(r, n, found)

Next ==
  \/ \E r \in Requests : get_or_post_request(r) \/ Callback(r) \/ CallbackReturns(r)
  \/ slack_chat_close

Spec == Init /\ [][Next]_vars

(* A main loop dispatches a timer that has expired and the zero timeout of *)
(* a disconnection, and a callback returns.  Nothing is assumed of the     *)
(* network, of DNS or of the user.                                         *)
Fairness ==
  /\ \A r \in Requests :
       /\ WF_vars(\E n \in 1 .. timeout_watcher[r] : slack_connection_timedout(r, n))
       /\ WF_vars(CallbackReturns(r))
  /\ WF_vars(gc = "error" /\ slack_chat_close)

FairSpec == Spec /\ Fairness
-----------------------------------------------------------------------------
(* Properties. *)

Live == {r \in Requests : alloc[r] = "live"}

(* The pool never loses a connection nor holds it twice: an allocated      *)
(* connection is on exactly one of sa->conns and sa->waiting_conns, once,  *)
(* whatever retries, fatal errors and nested posts do to the lists, and a  *)
(* freed one is on neither.                                                *)
OnePlace ==
  /\ Live = conns \cup Queued
  /\ conns \cap Queued = {}
  /\ \A i, j \in DOMAIN waiting : waiting[i] = waiting[j] => i = j

(* At most SLACK_MAX_CONNECTIONS attempts are open at a time, also while a *)
(* callback posts requests and while a retry closes one attempt to open    *)
(* another.                                                                *)
PoolBounded == Cardinality(conns) <= MaxConnections

(* No lost wake-up: slack_next_connection starts one connection per call,  *)
(* and that is enough.  A connection waits only while every slot is taken, *)
(* until an error has condemned the account (slack_fatal_connection_cb     *)
(* frees a slot without offering it).                                      *)
WorkConserving ==
  gc = "connected" /\ waiting # <<>> => Cardinality(conns) = MaxConnections

(* "conns: A list of all active Connections": whatever the main loop will  *)
(* still call back about is on that list, so no callback can be handed a   *)
(* closed or freed connection.                                             *)
ActiveListed == \A x \in sources : x[1] # "dns" => x[2] \in conns

(* A callback is never left from an earlier attempt of a retried request.  *)
NoStaleAttempt ==
  \A x \in sources : x[1] \in {"connect", "read", "timer"} => x[3] = timeout_watcher[x[2]]

(* Every open attempt has its 120 second timer pending, so it ends even if *)
(* purple_ssl_connect returned NULL or the server never answers.           *)
Supervised == \A r \in conns : <<"timer", r, timeout_watcher[r]>> \in sources

(* A request is attempted at most three times (so a message may be sent at *)
(* most three times), and attempts and retry_count keep step.              *)
TriesBounded ==
  \A r \in Requests :
    /\ timeout_watcher[r] <= MaxTries
    /\ r \in conns => timeout_watcher[r] = retry_count[r] + 1
    /\ r \in Queued => timeout_watcher[r] = retry_count[r] /\ retry_count[r] < MaxTries

(* Requests are first attempted in the order they were posted: push_head   *)
(* and pop_tail make a queue, and retries behind it do not upset it.       *)
FirstComeFirstServed ==
  \A i, j \in DOMAIN posted :
    i < j /\ timeout_watcher[posted[j]] > 0
      => timeout_watcher[posted[i]] > 0 \/ alloc[posted[i]] = "freed"

(* Once the account is closed nothing is left: no allocated connection, no *)
(* pending callback and no DNS query that would find the SlackAccount      *)
(* freed.                                                                  *)
ClosedIsQuiet == gc = "closed" => Live = {} /\ sources = {} /\ dns_queries = {}

(* A retry never overtakes a waiting request: it re-enters at the far end  *)
(* of the queue, so the slot it leaves goes to another.                    *)
RetryYields ==
  [][\A r \in Requests :
       retry_count'[r] > retry_count[r] /\ waiting # <<>> => r \notin conns']_vars

(* Every request comes to an end: its callback is called, or it is dropped *)
(* (empty or unparsable answer, fatal error, account closed), unless the   *)
(* process ends first, as only SLACK_METHOD_RTM can make it.               *)
EveryRequestEnds ==
  \A r \in Requests :
    alloc[r] = "live" ~> (alloc[r] = "freed" /\ fate[r] \in Settled) \/ running = Crashed

(* The pool implements the lifecycle it promises its callers. *)
Stage(r) ==
  CASE alloc[r] = "none"  -> "new"
    [] alloc[r] = "freed" -> "ended"
    [] alloc[r] = "live"  -> IF r \in conns THEN "active" ELSE "queued"

Lifecycle ==
  INSTANCE RequestLifecycle
    WITH stage   <- [r \in Requests |-> Stage(r)],
         tries   <- timeout_watcher,
         verdict <- [r \in Requests |-> IF fate[r] \in Settled THEN fate[r] ELSE "none"],
         open    <- gc # "closed"

(* Every behaviour of the pool is one the lifecycle allows: bounded tries, *)
(* one final verdict, nothing sent again after it, nothing dropped from    *)
(* the queue but by closing the account.                                   *)
ImplementsLifecycle == Lifecycle!Spec
=============================================================================
