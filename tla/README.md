# Verification of slack-libpurple

TLA+ models of the Slack protocol plugin for libpurple in this repository,
model-checked with TLC, with theorems proved by TLAPS. This file says what the
program consists of, what is modelled and how, what the runs and the proofs
show, and what is left.

## The system

The plugin runs inside a libpurple client (Pidgin, Finch), in one thread,
as callbacks from a GLib main loop. One `SlackAccount` exists per connected
account, from `slack_chat_login` to `slack_chat_close`.

| Component | Source | State it keeps | Operations |
|---|---|---|---|
| Request pool | `slack_connection.c`, `.h` | `sa->conns`, `sa->waiting_conns`; per `SlackConnection` its handle, receive buffer, `retry_count`, `timeout_watcher`; `sa->dns_queries`, `hostname_ip_cache` | `get_or_post_request`, `slack_next_connection`, `slack_attempt_connection`, the connect, TLS error, read, timer and DNS callbacks, `slack_connection_close`, `slack_connection_destroy` |
| Account session | `slack_chat.c` | `sa->channels`, the buddy list and each buddy's `proto_data` | `slack_chat_login`, `slack_get_channels`, `slack_read_channels_cb`, `slack_read_users_cb`, `slack_send_im`, `slack_buddy_free`, `slack_chat_close` |
| History poll | `slack_chat.c` | `sa->poll_timeout`, `sa->connection_timeout`, the account's `last_message_time` | `slack_check_state`, `slack_timeout`, `slack_check_new_messages` and its callback |
| Answers | `slack_connection.c` | `sa->cookie_table`; the receive buffer | `slack_connection_process_data`, `slack_update_cookies`, `slack_gunzip` |
| RTM session | `slack_connection.c`, `slack_chat.c` | `sa->rtm`, the socket, its `poll_timeout` | `slack_rtm_request`, `slack_start_rtm_session`, `slack_rtm_poll`, `slack_colose_rtm_session` |
| WebSocket framing | `miniwebsock.c` | none; works on a non-blocking socket | `start_websocket_session`, `poll_frame`, `send_text_frame`, `encode_by_mask` |
| JSON parser | `json.c` (vendored, plus `json_get_value`) | none | `json_parse`, `json_value_free` |
| String helpers | `util.c`, `cstring.c` | none | `remove_char`, `create_string`, `free_string` |
| Plugin registration | `slack_plugin.c` | static tables | `init_plugin` |
| Room list and commands | `slack_messages.c` | none | not compiled at this commit |

How they interact:

- Every API call of the session, the history poll and the RTM request goes
  through `get_or_post_request(sa, method, host, url, postdata, callback,
  user_data, keepalive)`. The pool calls `callback` at most once, with the
  parsed JSON, from the middle of its read handler; the callback may post
  further requests, which re-enter `slack_next_connection`.
- The pool and the session talk to libpurple: `purple_ssl_connect`,
  `purple_proxy_connect`, `purple_dnsquery_a`, `purple_input_add`,
  `purple_timeout_add_seconds`, each of which leaves a source in the main loop
  that calls back with the struct it was given. `purple_connection_error` only
  records the error and schedules the disconnection from a zero timeout.
- `slack_chat_close` reaches into the pool and frees every connection on the
  two lists, the DNS queries, and the `SlackAccount` itself.

What is hard about it: handlers and callbacks interleave in any order the main
loop and the network choose; a retried connection is closed and reused, so a
source left over from an earlier attempt would act on the present one; a
callback posts requests while its own connection still holds its slot; an
account can be closed between any two handlers; failures are told apart by
three handlers that repeat the same lines. `PROJECT.json` lists each hazard at
its line with the properties that cover it.

What makes each component correct:

- *Request pool.* No connection is lost or listed twice; the limit of open
  attempts holds; none waits beside a free slot; no callback reaches a closed
  or freed connection; every attempt is timed; at most three attempts; service
  in the order of posting; every request ends; close leaves nothing behind.
- *Answers.* Only a text that arrived whole reaches a callback; cookies are kept as
  sent; bytes that end early are survived.
- *Account session.* Each listed channel is recorded once per answer, with a
  buddy that keeps its names; login and close leave nothing half made.
- *History poll.* One chain of timers; it stops with the account; no message is
  passed over or shown twice, but in the ways the shared `last_message_time` makes
  unavoidable.
- *JSON parser.* The second pass writes exactly what the first one counted; it
  accepts its language, with the tree each text stands for; every block is freed
  once, whatever fails; every call returns.
- *RTM session.* At most one session polls, and its socket and timer go with
  the account.
- *WebSocket framing.* Reading inverts writing, however the bytes arrive; the
  handshake ends.

## The modules

| Module | What it is |
|---|---|
| `SlackConnection` | The request pool: state, one action per handler, properties |
| `RequestLifecycle` | What the pool promises a caller, without queue, timer or socket |
| `SlackConnectionInvariant` | The inductive invariants of the pool |
| `SlackConnectionProofs` | The theorems about the pool, with their proofs |
| `SlackConnectionRefinement` | The proof that the pool implements `RequestLifecycle` |
| `SlackSession` | An account's session: login, channel list, sending, poll timers, close |
| `SlackSessionProofs` | The theorems about the session, with their proofs |
| `SlackResponse` | One answer: headers, cookies, decompression |
| `SlackResponseProofs` | The theorems about it, with their proofs |
| `RtmSession` | The RTM session and the WebSocket reader, over a stream in pieces |
| `RtmSessionProofs` | The theorems about it, with their proofs |
| `HistoryPoll` | What the history requests ask for and which messages their answers show |
| `HistoryPollProofs` | The theorems about it, with their proofs |
| `Delivery` | `SlackConnection` composed with the server: the fate of the cookies it sets |
| `DeliveryProofs` | That it is still the pool, and the theorems about it, with their proofs |
| `JsonParser` | The two-pass JSON parser and the release of its trees |
| `JsonParserProofs` | The theorems about it, with their proofs |
| `JsonGrammar` | The texts the parser is to accept, with their trees: a reference, no translation |
| `MCSlackConnection`, `MCSlackSession`, `MCSlackResponse`, `MCHistoryPoll`, `MCDelivery`, `MCJsonParser` | Instances for TLC |

### SlackConnection and the code

| Model | Code |
|---|---|
| `waiting`, `conns` | `sa->waiting_conns` (push_head / pop_tail: `Append` and `Head`), `sa->conns` |
| `handle[r]` | which of `ssl_conn`, `connect_data`, `fd` with `input_watcher` the struct owns |
| `timeout_watcher[r]` | the id of its timer; GLib never reuses an id, so the n-th timer of a struct is n, and n also numbers its attempts |
| `sources` | what the main loop may still call back: a connect, a readable socket, the 120 second timer, the RTM timer, a DNS answer, each with the attempt it was registered for |
| `running` | the connection whose caller's callback is on the stack, or `Crashed` once freed memory was used |
| `gc` | the `PurpleConnection`: connected, error noted and disconnection scheduled, closed |
| `fate`, `posted` | history, read by properties only |

Each action is a handler from entry to return, with the
`slack_connection_close`, `slack_connection_destroy` and
`slack_next_connection` it ends in. The one exception is the caller's
callback: `ReadEnd` stops where it is called, `get_or_post_request` may then
run for it, and `CallbackReturns` does the rest of the read handler. Closing
cancels exactly the sources the code cancels (`Cancelled`): those of the
handle owned and the timer whose id is in `timeout_watcher`, not the timer in
`timeout_rtm_recv`. That one is only ever armed on a struct that the same handler
frees, so its own handler, `slack_ans_timeout`, finds a freed struct: it sets
`running` to `Crashed`, after which nothing runs. What a program does that uses freed
memory is not modelled any further.

What is left to chance: whether `purple_ssl_connect` or `purple_proxy_connect`
could start at all (both may return NULL, and the code does not look), what the
network does, what the answer parses to, whether DNS finds the host, when the
user posts or disconnects, and what a callback posts. Left out: the bytes of
requests and answers, headers, cookies, and the names of hosts other than
`slack.com`, the only one any caller asks for.

`ReadFailed` is disabled for a TLS connection that has received some data,
because the code then takes the error for the end of the answer
(slack_connection.c:431-438), which is `ReadEnd`.

### SlackSession and the code

| Model | Code |
|---|---|
| `gc` | the `PurpleConnection`; "connecting" is also where a login without a token stays |
| `sa` | the `SlackAccount`: none, `"bare"` (allocated, given up for want of TLS), `"ready"` |
| `channels` | the entries of `sa->channels`, by id |
| `pending` | the requests in the pool, by the function that posted them |
| `poll_timeout`, `connection_timeout` | the timers these fields name, by the seconds they have left |
| `lost` | timers still pending that no field names any more |
| `buddy` | the buddy of an id: none, without a `SlackBuddy`, with one that has a nickname or has none |
| `by` | history, read by properties only |

The pool is here what `RequestLifecycle` promises: a request that was posted is
answered once (its callback is the action), or ends without a call, perhaps
with an error of the account (`CallDropped`, `HistoryDropped`), and none calls
back after close. `slack_timeout` is one action: it looks at the sources GLib may
dispatch (`Due`), posts, and arms both timers. Two timers that are due together
are dispatched oldest first, which is how `slack_timeout` creates them.

Nothing starts the poll at this commit: `slack_check_state` is called by
`slack_read_users_cb`, whose request is commented out (slack_chat.c:467-484), and
the call in `slack_read_channels_cb` is a TODO (445). `session_shipped` checks the
code as it stands, with `ReadUsers` false. `session_poll` checks the code that is there
but asleep: with `ReadUsers` true a `users.list` request is sent, whose answer has the
`members` that `slack_read_users_cb` reads. The request that is commented out would not
do as it is: it names `channels.list`, and the callback would use a NULL `members`
(slack_chat.c:252-253).

`slack_chat_close` never frees `sa->channels`; the list goes out of reach with the account,
and the model empties it.

### SlackResponse and the code

`slack_connection_process_data` over the bytes received so far, as tokens that
are as coarse as the code's searches (`strstr`, `strchr`, `g_strstr_len`). The server
sends any header lines in any order and the connection may end after any
token. `Cookies` follows `slack_update_cookies` from one match to the next,
including what it does where `strchr` finds nothing, and `Filled` puts what it found
in the table; `slack_gunzip` gives the text as far as the data goes, or NULL for data
zlib rejects. A compressed body ends in a token of its own (`ztrailer`): the end of the
deflated data and the checksum of gzip, of which no text comes. Cut there, `inflate` gives
the whole text and then `Z_BUF_ERROR`, which is only logged (slack_connection.c:231-235), and
the callback is called: what `AnsweredWhole` promises is a whole text, not that the answer arrived
to its end. The name or the value of a cookie has nothing in it that the code
searches for (`ResponseAssumption`): a value with a semicolon would be two tokens. Of zlib and the JSON
parser only this is assumed: inflating what was deflated gives it back, and no
proper prefix of a JSON object parses, which `ParsesAsWritten` of `JsonParser` bears out.

### RtmSession and the code

The stream is what the server sends: an HTTP answer, then frames. A byte is its
place in the stream, so a `read` is a matter of where it starts (`pos`) and how
much has arrived (`arrived`), and the sizes are the code's own: chunks of 255,
the length forms on both sides of 125 and 65535.

| Code | Definition |
|---|---|
| `slack_rtm_request_cb`, the first half of `slack_start_rtm_session` | `slack_rtm_request_cb`: the address of the answer, the host, connect and write, each of which may fail |
| `start_websocket_session` | one turn of its reading loop; the last turn ends in `open`, `refused` or, for a status line without a space, `crashed` |
| `poll_frame` | `PollFrame` where a frame starts, field by field, each read taking what is there; `PollNoise` elsewhere, where the bytes of a payload are taken for a header and anything may come out |
| the 16 and 64 bit lengths | `Length`: read in host byte order although sent in network byte order |
| `encode_by_mask` of what was read | `text`: the text survives or not, because the bytes are masked and have no terminator |
| `slack_rtm_poll`, `slack_colose_rtm_session` | the same names |

An end of the stream is no different from a pause: both give reads of no bytes or
an error, and the code does not look which. A server whose answer is 256 to 258
bytes long and arrives at once always keeps the handshake spinning, since the
first chunk of 255 ends within the empty line: `cut` says so, and
`HandshakeDecided` that this is the only way.

### HistoryPoll and the code

| Model | Code |
|---|---|
| `last_message_time` | the account's setting of that name; `Unset` until an answer sets it, and never cleared: it outlives the connection |
| `requests` | the history requests in the pool, each with the `oldest` in its URL and, once the server has answered, the time of the answer |
| `shown` | the messages given to `purple_conversation_write` |
| `clock` | `time(NULL)` as the last poll took it that found no setting |
| `start`, `excused`, `regular`, `repeated` | history, read by properties only; `start` is the clock of the first poll of all, and never moves |

A time is the number of messages said so far, so "after `oldest`" is a comparison of
numbers. `slack_check_state` reads the setting, or the clock where there is none, once for
all channels: until an answer has stored the setting, each poll takes the clock afresh, and what
was said since an earlier poll that got no answer is asked for by none (slack_chat.c:171-177).
`slack_check_new_messages_cb` stores `latest`, if the answer has one, for all of
them. The server is external: it answers with the newest messages after `oldest`, a
page at most. That the answer has the time it was made as `latest` is how the
code uses it; nothing in the repository says more about it.

When polls happen is `SlackSession`'s matter. Here they come at any time, also before
the answers of an earlier one, and logins and closes in between.

### Delivery and the code

`Delivery` extends `SlackConnection`: every action of the pool is one of its own, conjoined
with what happens on the wire. No request uses `SLACK_METHOD_RTM` here, as none does in the
repository (`CookiesAssumption`). A request is written when its attempt connects
(`Write`); the server evaluates what was written, once per attempt, even if the
attempt was given up in the meantime (`Evaluate`), and may set a cookie each time. The
cookie is the account's when the answer is read (`ReadWhole`, `Updated`) and lost if the
connection is closed before, or cut within the headers (`lost`: whether the newest cookie was, read by
the properties only). The cookie table is one
cookie; `SlackResponse` has the reading of its text. In which order requests reach the server
nothing in the repository promises, and the server may evaluate them in any.

### JsonParser and the code

One action is one turn of the loop of `json_parse_ex` over one branch of its flags; the
names say which.

| Model | Code |
|---|---|
| `pass`, `ptr`, `flags` | `state.first_pass`, `state.ptr`, the `flag_...` bits that outlive a turn |
| `top`, `root`, `alloc` | the pointers of these names; a value is its place on the allocation chain |
| `values[v]` | a `json_value`: `length` and `bytes` are counted in the first pass and counted again in the second, when `capacity` and `room` hold what was allocated for them |
| `heap` | the blocks allocated and not freed, a value's own and its data |
| `FinishValue` | the end of a turn with `flag_next` (851-903) |
| `Allocates`, `CreateValue`, `AllocationFails` | the two halves of `new_value`; any allocation may fail |
| `Failed`, `FreeDown`, `FreeUp` | `e_failed` and the loop of `json_value_free_ex` |

`bytes` stands for two things of the code: a string's `len`, and the pointer
`u.object.values`, which the first pass uses as a counter of the bytes of an object's names
(json.c:411) and the second as a size (144).

The text is chosen while it is read: a text that is already rejected is not
continued, which keeps the number of texts small and loses none.

## The runs

| Run | Instance | Shows |
|---|---|---|
| `pool_ssl` | 4 TLS requests, 2 slots, 3 tries (495 thousand states) | eight invariants and `RetryYields`, for the pool as every caller in the repository uses it |
| `pool_mixed` | 1 TLS and 2 plain requests, 2 slots, 2 tries (446 thousand, with the plain ones interchangeable) | the type invariant; the pool implements `RequestLifecycle`; closing leaves neither connection nor DNS query |
| `pool_liveness` | 2 TLS requests and a plain one with `SLACK_METHOD_RTM`, 1 slot, 2 tries (131 thousand) | every request ends, unless the RTM timer fires with its freed struct first; the inductive invariants of the proofs |
| `rtm_timer` | 2 TLS requests, one with `SLACK_METHOD_RTM` | violates `ActiveListed`: see Findings |
| `session_poll` | 2 channels, 1 user, the poll running, intervals 3 and 8 (40 thousand) | one chain of timers, which goes with the account; the watchdog never fires; each listed channel is asked again and again; the invariant of the proofs |
| `session_shipped` | the same as the code stands (516, up to symmetry) | each channel listed once per login; no request outlives a close |
| `response` | answers of up to 3 header lines setting 2 cookies to 2 values (189 thousand) | the callback is called if and only if the whole text arrived, a compressed one with or without its trailer; the cookies kept are those sent; nothing usual crashes |
| `rtm_session` | 2 frames of 125, 126, 257 or 65536 bytes, masked or not, after an answer of 257 or 300 bytes (200 thousand) | frames met whole are read as sent, and all of them; the handshake ends unless it is cut within the empty line |
| `history` | 2 channels, 3 messages, pages of 2, 2 polls under way (2.05 million, up to symmetry) | a message is overlooked only through the answer of another channel, one longer than a page, or a poll that took the clock afresh; shown twice only after overlapping polls or answers out of order; with the inductive invariant of the proofs |
| `delivery` | 3 TLS requests, 2 slots, 2 tries, 2 cookies (406 thousand, up to symmetry) | the account falls behind the server's cookies only through answers lost or read in another order |
| `json` | all texts over six alphabets, 6 to 11 tokens long (167 thousand) | the passes agree; what is accepted is the grammar's, with its trees; every block is freed once; every call returns |

Why these bounds are enough: two slots with four requests let two connections
wait while two are open, so retries meet a queue, nested posts meet a full and
a free pool, and a struct is requeued, overtaken and attempted again. Three
tries is the code's own limit. `SLACK_MAX_CONNECTIONS` is 16 in the code; the
theorems hold for every limit. Deadlock is not checked: an account that is
closed, or that nobody uses, rests.

`MaxConnections`, `MaxTries` and the number of structs are the only bounds;
each struct is allocated at most once.

For the session: 180 seconds are 8 in the runs, which only matters in
that they are more than the poll's 3; the theorems hold for all intervals so
ordered. `MaxPending` bounds the requests of one kind in the pool, by letting time
pass only while the pool keeps up and the user send only so often; two of them
suffice for answers to be late by more than a poll. Logins are not bounded.
Three header lines are enough for a cookie to be set, overwritten and followed by
the line that says gzip.
For the RTM session: one frame puts the reader in or out of step, and the second
shows which. The stream is cut (`Cuts`) at every place the code can tell apart:
within and after each field of a frame, and near the empty line. The payload of
257 bytes is the one whose long length reads the same in both byte orders, so that
the long form is checked too. What a lost handshake reads after the answer is left
out, and a reader out of step stops at one of the `Cuts`.

For the history poll: a page of two and three messages let an answer be too long; with
two channels the answer of one can pass a message of the other; two polls under
way are what it takes for their answers to cross. The number of polls, of logins
and of closes is not bounded.

For `delivery`: with two slots and three requests one waits, and the first attempt of a
retried one is evaluated after it was given up. Two cookies are what it takes
for an older one to be read after a newer. Deadlock is not checked, as in the pool.

For `json`: each alphabet is a part of the language that has flags of its own: arrays
with spaces and rubbish; objects with members that are null; containers in each
other; objects with spaces; numbers, alone and as elements; strings with every
kind of escape, as keys and as values. Eleven tokens are an object with two members,
the length at which a second name is put after a first; eight nest an array in an
object. A longer text of the same alphabet meets no other combination of flags: the
parser keeps nothing but the flags, the open values and two counters.

Fairness of the parser (`FairSpec`): it is one loop in one call, so its next turn is
taken.

Fairness of the RTM session (`FairSpec`): its timer fires. Nothing is assumed of the
network: `AllRead` is about frames that are there.

Fairness of the session (`FairSpec`, used by `session_poll`): time
passes, a due timer is dispatched, and a history request ends, which is what
`EveryRequestEnds` shows of the pool.

Fairness of the pool (`FairSpec`, used by `pool_liveness` only): an expired timer is
dispatched, the zero timeout that libpurple arms after an error is dispatched,
and a callback returns. These are what a GLib main loop and a terminating C
function do. Nothing is assumed of the network, the TLS library, DNS or the
user: `EveryRequestEnds` rests on the 120 second timers alone. Nothing runs after a crash, so it
asks nothing then.

### What each property would notice

Each property has a variant of one definition that it refutes; the variants are
the definitions named `Wrong...`.

| Property | Variant | Mistake |
|---|---|---|
| pool: `TypeOK` | `WrongAttemptListsItself` | the attempt lists itself, beside `slack_next_connection` which has |
| `OnePlace` | `WrongRequeueStillListed` | a retried connection stays on `sa->conns` |
| `PoolBounded` | `WrongNextOffByOne` | `<=` for `<` at the limit |
| `WorkConserving` | `WrongFinishOnly` | no `slack_next_connection` after an answer |
| `ActiveListed`, `PoolInv` | `WrongCancelledNoTimer` | close leaves the timer |
| `NoStaleAttempt` | `WrongOwnedKindsNoSsl` | close leaves the TLS connection |
| `Supervised` | `WrongAttemptUnsupervised` | no timer when the connect could not start |
| `TriesBounded`, `ImplementsLifecycle` | `WrongResendOnceMore` | `<=` for `<` at the retry limit |
| `FirstComeFirstServed`, `OrderInv` | `WrongPostAtOnce` | `push_tail` for `push_head` when posting |
| `RetryYields` | `WrongRequeueAtOnce` | `push_tail` for `push_head` when retrying |
| `ClosedIsQuiet` | `WrongCloseKeepsDns` | close forgets the DNS queries |
| `EveryRequestEnds` | `WrongRequeueNoNext` | no `slack_next_connection` after a retry |
| session: `TypeOK` | `WrongCheckSlowPoll` | the poll armed with the watchdog's interval |
| `OneChain`, `SessionInv` | `WrongReadChannelsStartsPoll` | the TODO of slack_chat.c:445 done, beside the users' callback |
| `NothingOutlivesClose` | `WrongCloseOnlyPoll`, `WrongCloseLeavesRequests` | close forgets the watchdog; close leaves the requests in the pool |
| `OnlyPollFires` | `WrongTimeoutLeavesWatchdog` | the watchdog armed once and left, as its comment would have it |
| `ListedOnce` | `WrongGetChannelsTwice` | the channels request posted twice |
| `AskedAgain` | `WrongTimeoutStopsWhenBusy` | a return while requests are in the pool, between removing and arming |
| `AnsweredWhole` | `WrongGunzipNoLast` | what `inflate` gives with the end of the data not appended |
| `Survives` | `WrongProcessCookiesFirst` | cookies looked for before the headers are known to be whole |
| `CookiesAsSent` | `WrongCookiesToLineEnd` | a cookie's value taken up to the end of its line |
| `FramesAsSent` | `WrongPollMaskAlways` | four bytes of mask read whether or not the frame has one |
| `HandshakeDecided` | `WrongSessionLastByteLost` | the terminator put over the last byte of the chunk |
| `AllRead` | `WrongPollOnlyWhileReading` | the timer not set again when a poll found nothing new |
| history: `TypeOK` | `WrongOldestNoDefault` | the setting read without a default |
| `NoneOverlooked` | `WrongOldestFromClock` | the setting never read |
| `OnceEach`, `HistoryInv` | `WrongLatestAsAsked` | the time asked for stored, not the time answered |
| `CookiesFollow` | `WrongUpdatedNever` | the cookies of an answer not kept |
| parser: `TypeOK` | `WrongNewAllocUnended` | the chain followed past its last value |
| `FilledAsCounted` | `WrongTakenUnterminated` | no byte allocated for a string's terminator |
| `ParsesAsWritten` | `WrongObjectByteAnyComma` | a comma taken wherever a key may stand |
| `AllFreed` | `WrongFirstToFreeLast` | `alloc` not set back to `root` when the first pass fails |
| `ParseEnds` | `WrongNumberEndUnended` | `flag_reproc` set without `flag_next` |

## The theorems

The pool (`SlackConnectionProofs`, `SlackConnectionRefinement`), for every set of
requests, every limit of connections and of tries above zero, with or without a
proxy; the only assumption is `PoolAssumption`. `ActiveListedHolds` and `ClosedIsQuietHolds`
also assume that no request uses `SLACK_METHOD_RTM`, and are false otherwise.

- `TypeCorrect`: from `TypeInit` and `TypeStep`, one step per action, with one
  lemma for each way a handler can end (`NextConnectionTyped`, `FatalTyped`,
  `ResendTyped`, `FinishTyped`).
- `PoolInvariant`: none of the properties is inductive alone. That a callback
  finds its connection listed needs that a struct owns what its sources belong
  to (`Attached`), that these are of its present attempt (`Current`), and that
  a requeued struct is in no slot (`Apart`); that a retry is bounded needs that
  attempts and `retry_count` keep step on both lists (`Counted`); that no
  connection waits beside a free slot needs the invariant at the moment
  `slack_next_connection` is called, not only between handlers. So the parts
  of `PoolInv` take the lists and the sources as parameters, and
  `NextConnectionPool` proves of any consistent middle of a handler that
  `slack_next_connection` leaves a consistent pool. `Closing` proves what
  `slack_connection_close` leaves; `FatalPool`, `ResendPool` and `FinishPool`
  combine the two for the three ways a handler ends; `PoolStep` has one step
  per action.
- `OnePlaceHolds`, `PoolBoundedHolds`, `WorkConservingHolds`,
  `ActiveListedHolds`, `NoStaleAttemptHolds`, `SupervisedHolds`,
  `TriesBoundedHolds`, `ClosedIsQuietHolds`: consequences of `PoolInv`.
- `RetryYieldsHolds`: an action property, by `ResendYields` for the retrying
  handlers and because no other action increments `retry_count`.
- `OrderInvariant`, `FirstComeFirstServedHolds`: `OrderInv` says that the connections never
  attempted wait in the order they were posted; with `PoolInv` it is inductive
  (`OrderStep`), because a retried connection re-enters the queue with its
  attempts counted and so is not among those.
- `Implements`: the pool implements `RequestLifecycle`. The lifecycle moves every
  request by itself, so the proof shows of each handler and each request that
  what happened to the request is a step the lifecycle allows (`Allowed`): for
  the request the handler is about, by how the handler ends (`FatalAllowed`,
  `ResendAllowed`, `FinishAllowed`); for the others, because all a handler can do to
  them is to start one that waited (`Promoted`, `OthersAllowed`). `PoolInv` gives
  what the lifecycle needs to know of the state: that an attempted request has
  tries left (`Counted`), and that the limit holds.

The session (`SlackSessionProofs`), for every set of channels and users, all
intervals with the poll's shorter than the watchdog's, and either value of
`ReadUsers`; the only assumption is `SessionAssumption`.

- `SessionInvariant`: `OneChain` is not inductive by itself; it needs that the users
  are asked for once per login and before anything polls (`UsersFirst`), so that
  the callback that starts the chain finds no timer, and that the watchdog,
  which would overwrite the poll's timer too, is never due before the poll
  (`OnlyPollFires`). One lemma per action, or group of actions that only count.
- `SessionTypeCorrect`, `OneChainHolds`, `NothingOutlivesCloseHolds`,
  `OnlyPollFiresHolds`, `ListedOnceHolds`: consequences.

The pool with the server (`DeliveryProofs`), for any requests, slots, tries and cookies,
under `PoolAssumption` and `CookiesAssumption` (no request uses `SLACK_METHOD_RTM`).

- `DeliveryImplementsPool`: every step of the composition is a step of the pool or leaves
  it alone, so all that is proved of the pool holds of the pool beside a server that
  evaluates what it likes, when it likes.
- `CookiesFollowHolds`: `CookieInv` says that the newest cookie the server set is on
  its way in an answer, in the table, lost, or was overwritten by an older one that was read
  later.

The history poll (`HistoryPollProofs`), for any set of channels, any page, any number of
messages and of polls under way; the assumption is `HistoryAssumption`.

- `HistoryInvariant`: `NoneOverlooked` is not inductive. It needs that every request
  under way begins where all is accounted for (`Accounted`): its `oldest` is no later
  than the setting was, so what its answer leaves out up to its own time is of
  another channel, or more than a page. Before there is a setting, its `oldest` is no later
  than the clock was taken last, and what lies before that, back to the first poll, is
  what `NoneOverlooked` excuses as lost to the clock (`Restarted`).
- `HistoryTypeCorrect`, `NoneOverlookedHolds`, `OnceEachHolds`: consequences.
- `OneChannelLosesOnlyToTheClock`: with one channel, and as long as no answer exceeds the page, every
  message between the first poll and `last_message_time` has been shown, but those said before
  the last poll that took the clock. So what is said once an answer has stored the
  setting is lost only to a second channel or to a page that is too short.

The RTM session (`RtmSessionProofs`), for any sizes of the handshake's answer and of the
payloads, and any number of frames; the assumption is `RtmAssumption`.

- `RtmInvariant`: until a frame is met in part or a length misread, the reader stands at the
  start of the frame after those it returned; before the session is open it has read
  nothing but the HTTP answer, in chunks that stop short of the empty line or cut it. Where a frame
  starts is a recursive function of the frames before it: `RtmSessionProofs` shows
  that it exists and that frames follow each other.
- `FramesAsSentHolds`, `HandshakeDecidedHolds`: consequences.

An answer (`SlackResponseProofs`), for any number of header lines, any names and values, and
a connection that ends after any token; the assumption is `ResponseAssumption`.

- `ResponseInvariant`: what arrived is a beginning of what was sent. That text is laid
  out line by line (`Laid`, `HeadLaid`), a Set-Cookie only where a line of that kind begins. So each turn
  of `slack_update_cookies` finds the next such line, its name and its value (`ScanFinds`),
  all turns together what the lines set (`CookiesRead`), and the table gets the last
  value of each name (`TableKept`). The verdict on the body is a matter of how
  much of it came (`BodyVerdict`).
- `AnsweredWholeHolds`, `SurvivesHolds`, `CookiesAsSentHolds`: consequences.

The JSON parser (`JsonParserProofs`), for any alphabets (`FamiliesAssumption`) and so for texts of any
length and any nesting, with any allocation failing.

- `ParserInvariant`: that the passes agree cannot be said of the state alone, because the second
  pass has of the first only its totals. The invariant therefore says that there is a run (`Run`): the
  points a reading of the text goes through, each with the flags, the open values and what was counted of
  every value, where each follows from the one before and the byte read there (`Turn`), whichever
  pass it is. The first pass stands at the last point (`Counting`), inside a number that begins there
  (`InsideNumber`) or where the next turn must fail (`Doomed`); the second stands at some
  point of the same run (`Filling`), with what it took filled and linked as counted up to there
  (`Filled`, `Linked`). A turn of the first pass adds a point, one of the second goes to the
  next: that it is the next is because a turn is determined by its point and its byte
  (`TurnFunctional` and its like), for a number because both passes leave it at the same byte
  (`AfterNumberIs`). One lemma per action, from a point of the run (`ReadyStep`) and from inside a number
  (`NumberingStep`).
- `FilledAsCountedHolds`: at a point of the run a value has at most what it has at the last
  (`Precedes`), also with the string or the key that is being read counted in (`LengthDue`, `BytesDue`),
  and the last is what was allocated for.
- `SecondPassAccepts`: every byte of the run has a turn, so that the second pass has no way to
  reject one. `ParserTypeCorrect` is a consequence as well.
- `AllFreedHolds`: `FreeInv` says of `json_value_free_ex` that it walks a tree: the values from the
  root to where it stands are a chain of parents, and every value not yet freed keeps as kids, below
  its `length`, exactly the others that are under it (`Walk`; `WalkDown`, `WalkUp`). When the walk leaves the root
  the least value not freed would have a parent that is not freed either; so there is none. At the start it is
  what `Linked` says of the point the parser stood at (`WalkStarts`): of the whole tree, or, if an
  allocation failed, of the values before the unfinished child of the root (`ChildOfRoot`).

Induction over the data in these last three modules is on sets of natural numbers: the library's theorem
that such a set has a least element (`WFMin`) takes no predicate as a parameter, so the
provers can use it where they cannot use its induction theorems.

Only model-checked: `EveryRequestEnds`, `AskedAgain`, `AllRead` and `ParseEnds` (liveness under
fairness is out of the prover's reach); and, of the parser, `ParsesAsWritten`, which compares it
with a grammar evaluated as sets of texts of bounded length: that a tree is what a recursive definition
gives for every text is induction over data, which the provers cannot do. `FreeInv` was
model-checked on the instance of `json` before it was proved; `ParserInv` speaks of a run, of which
TLC would have to guess every point.

## Findings

`rtm_timer`: `slack_plugin.h:25` calls `sa->conns` "A list of all active
Connections". When a request posted with `SLACK_METHOD_RTM` is answered,
`slack_post_or_get_readdata_cb` arms a 120 second timer on the struct
(slack_connection.c:498) and destroys the struct a few lines below, at 504;
nothing removes that timer, so the main loop will call `slack_ans_timeout` with
a freed struct. The method is part of the pool's interface, but no caller
passes it at this commit.

## Not modelled, and the plan

The pool came first because everything else is a client of it, then the session,
the answers, the RTM session, the history poll, the composition of pool and server,
and the parser. Each invariant that a run checks is proved but `ParsesAsWritten`. What could be
added is in the list below; the session beside the pool it posts to, in place of what
`RequestLifecycle` promises of it, would be the next composition.

Not modelled, and why:

- `send_text_frame`, `create_frame_from_text` and `slack_rtm_request`: nothing calls them at this
  commit. With them would come several RTM sessions, whose sockets and timers
  outlive `sa->rtm`; as the code stands there is at most one.
- The `Cookie` header a request carries: it is composed when the request is posted, so a
  request that waits or is sent again carries older ones. Nothing in the repository
  says which cookies a request must carry.
- The alias of a buddy and the nickname of a renamed channel: the code sets them and
  nothing reads them back.
- `util.c` and `cstring.c`: pure functions over one string. `remove_char` allocates no byte
  for a terminator and writes none, so its result is not a string: a hazard, listed as one.
- Of `json.c`: comments, which no caller enables; the byte order mark; the overflow
  checks near 2^32 bytes; the value of a double. `json_get_value` and the accessors of
  `json.h` are look-ups without state.
- `slack_plugin.c`: static tables handed to libpurple.
- `slack_messages.c`: not compiled, and it does not fit the present headers.
