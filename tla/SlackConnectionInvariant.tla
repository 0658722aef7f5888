----------------------- MODULE SlackConnectionInvariant -----------------------
(***************************************************************************)
(* The inductive invariant of the request pool: the properties of          *)
(* SlackConnection, and what relates the two lists, the main-loop sources, *)
(* the owned handles and the counters that makes them inductive.           *)
(*                                                                         *)
(* Each part takes as parameters what a handler has already changed when   *)
(* it calls slack_next_connection, so that one statement serves both the   *)
(* state and the middle of a handler.                                      *)
(***************************************************************************)
EXTENDS SlackConnection

Elements(q) == {q[i] : i \in DOMAIN q}

(* q and cs share no connection, and q has none twice. *)
Apart(q, cs) ==
  /\ Elements(q) \cap cs = {}
  /\ \A i, j \in DOMAIN q : q[i] = q[j] => i = j

(* A source other than a DNS answer belongs to an open attempt, and to its *)
(* present one; what would read or connect is owned by the struct, which   *)
(* is never connecting and reading at once.                                *)
Attached(cs, h, s) ==
  \A x \in s :
    /\ x[1] \in {"connect", "read", "timer"} => x[2] \in cs
    /\ x[1] = "connect" => h[x[2]] \in {"proxy", "ssl"}
    /\ x[1] = "read" => h[x[2]] \in {"socket", "ssl"} /\ <<"connect", x[2], x[3]>> \notin s
    /\ x[1] = "rtm" => x[2] \in Rtm

(* It belongs to the present attempt. *)
Current(s, tw) == \A x \in s : x[1] \in {"connect", "read", "timer"} => x[3] = tw[x[2]]

(* A pending DNS answer is on the list that slack_chat_close destroys. *)
DnsListed(s, queries) == \A x \in s : x[1] = "dns" => <<x[2], x[3]>> \in queries

(* Every open attempt has its timer. *)
Watched(cs, s, tw) == \A r \in cs : <<"timer", r, tw[r]>> \in s

(* Attempts and retries keep step. *)
Counted(q, cs, tw, tries) ==
  /\ \A r \in Requests : tw[r] <= MaxTries
  /\ \A r \in cs : tw[r] = tries[r] + 1
  /\ \A r \in Elements(q) : tw[r] = tries[r] /\ tries[r] < MaxTries

(* A struct not yet allocated has never been attempted. *)
Unused == \A r \in Requests : alloc[r] = "none" => timeout_watcher[r] = 0 /\ retry_count[r] = 0

(* The callback on the stack belongs to a connection still in its slot,    *)
(* whose answer is the only verdict a live connection can have.            *)
Running ==
  /\ running \in Requests => running \in conns
  /\ \A r \in Requests :
       /\ alloc[r] = "none" => fate[r] = "unposted"
       /\ alloc[r] = "live" => fate[r] = IF r = running THEN "answered" ELSE "pending"
       /\ alloc[r] = "freed" => fate[r] \in Settled

(* Nothing is listed once the account is closed. *)
Closed == gc = "closed" => waiting = <<>> /\ conns = {} /\ dns_queries = {}

(* posted lists each allocated struct, once. *)
Recorded(p, al) ==
  /\ Elements(p) = {r \in Requests : al[r] # "none"}
  /\ \A i, j \in DOMAIN p : p[i] = p[j] => i = j

(* The connections never attempted wait in the order they were posted. *)
InOrder(q, tw, p) ==
  \A a, b \in DOMAIN q, i, j \in DOMAIN p :
    a < b /\ tw[q[a]] = 0 /\ tw[q[b]] = 0 /\ q[a] = p[i] /\ q[b] = p[j] => i < j

(* FirstComeFirstServed, of attempts tw, requests p and allocations al. *)
Served(tw, p, al) ==
  \A i, j \in DOMAIN p :
    i < j /\ tw[p[j]] > 0 => tw[p[i]] > 0 \/ al[p[i]] = "freed"

PoolInv ==
  /\ TypeOK
  /\ IsFiniteSet(conns)
  /\ PoolBounded
  /\ Live = conns \cup Elements(waiting)
  /\ Apart(waiting, conns)
  /\ Attached(conns, handle, sources)
  /\ Current(sources, timeout_watcher)
  /\ DnsListed(sources, dns_queries)
  /\ Watched(conns, sources, timeout_watcher)
  /\ Counted(waiting, conns, timeout_watcher, retry_count)
  /\ Unused
  /\ Running
  /\ Closed
  /\ WorkConserving

(* What the order of service rests on, besides PoolInv. *)
OrderInv ==
  /\ Recorded(posted, alloc)
  /\ InOrder(waiting, timeout_watcher, posted)
  /\ Served(timeout_watcher, posted, alloc)
=============================================================================
