------------------------------- MODULE RtmSession -------------------------------
(***************************************************************************)
(* The RTM session: rtm.start's answer, the WebSocket that it opens, the   *)
(* timer that polls it and its end; with the reader of miniwebsock.c, over *)
(* a stream that arrives in pieces.                                        *)
(*                                                                         *)
(* What the server sends is known from the start: an HTTP answer of Head   *)
(* bytes, then frames as RFC 6455 has them, lengths in network byte order. *)
(* A byte is its place in that stream, so that what a read finds is a      *)
(* matter of where it starts and how much has arrived.  The machine is     *)
(* little-endian.  An end of the stream is more bytes that never come:     *)
(* the code treats them alike.  Of a frame its type, and whether it is the *)
(* last of its message, are left out: no use is made of them.              *)
(***************************************************************************)
EXTENDS Integers, Sequences, SequencesExt, FiniteSetsExt

CONSTANTS
  Sizes,       \* Of payloads
  Heads,       \* Sizes of the server's HTTP answer
  MaxFrames    \* Bound: frames the server sends

ASSUME RtmAssumption ==
  /\ Sizes \subseteq Nat /\ \A size \in Sizes : size < 16777216
  /\ Heads \subseteq Nat \ 0 .. 15
  /\ MaxFrames \in Nat

VARIABLES
  head,      \* The size of the HTTP answer
  code,      \* Its status
  frames,    \* The frames after it
  arrived,   \* How many bytes of the stream arrived
  pos,       \* How many of them were read
  state,     \* "none", "handshake", "open", "refused", "closed" or "crashed"
  timer,     \* Is slackcon->poll_timeout armed?
  got,       \* History: what poll_frame returned, frame by frame; only Noise
             \* once it met no frame, or a part of one
  cut,       \* History: a read of the handshake ended within the empty line
  torn       \* History: some of the frames was read with the HTTP answer, or
             \* a poll met a frame before all of it had arrived

server == <<head, code, frames>>
vars == <<head, code, frames, arrived, pos, state, timer, got, cut, torn>>

States == {"none", "handshake", "open", "refused", "closed", "crashed"}

-----------------------------------------------------------------------------
(* The stream. *)

Frames == [masked : BOOLEAN, size : Sizes]

(* What follows a frame's first two bytes. *)
Extended(f) == IF f.size > 65535 THEN 8 ELSE IF f.size > 125 THEN 2 ELSE 0
Mask(f) == IF f.masked THEN 4 ELSE 0
Total(f) == 2 + Extended(f) + Mask(f) + f.size

(* Where frame i starts, that is how many bytes are before it. *)
Start(i) ==
  LET From[n \in 1 .. i] == IF n = 1 THEN head ELSE From[n - 1] + Total(frames[n - 1])
  IN From[i]
End == Start(Len(frames) + 1)

(* Bound: the places where the stream may be cut, those the code can tell  *)
(* apart: near the empty line, and within and after each field of a frame. *)
Cuts ==
  LET Of(i) == LET f == frames[i] IN
        {Start(i) + n : n \in {1, 2, 3, 2 + Extended(f), 2 + Extended(f) + Mask(f) - 1,
                               2 + Extended(f) + Mask(f) + 1, Total(f) - 1, Total(f)}}
  IN {n \in {head - 4, head - 3, head - 1, head} \cup UNION {Of(i) : i \in DOMAIN frames} : n <= End}

Init ==
  /\ head \in Heads
  /\ code \in {"101", "other", "garbled"}
  /\ frames \in BoundedSeq(Frames, MaxFrames)
  /\ arrived = 0 /\ pos = 0
  /\ state = "none"
  /\ timer = FALSE
  /\ got = <<>>
  /\ cut = FALSE /\ torn = FALSE

(* The server sends once the request was written. *)
Deliver ==
  /\ state \in {"handshake", "open"}
  /\ \E n \in Cuts : n > arrived /\ arrived' = n
  /\ UNCHANGED <<server, pos, state, timer, got, cut, torn>>

-----------------------------------------------------------------------------
(* The session. *)

(* The answer to rtm.start, up to the request of the WebSocket: the host   *)
(* is what follows five characters of the address, nothing for wss://,     *)
(* and a host that is not found is used as if it were.  The answer's ok    *)
(* may be false; connect or write may fail.                                *)
slack_rtm_request_cb ==
  /\ state = "none"
  /\ \E ok, found, connected \in BOOLEAN, scheme \in {"ws://", "wss://"} :
       state' = CASE ~ok -> "refused"
                  [] ok /\ (scheme = "wss://" \/ ~found) -> "crashed"
                  [] OTHER -> IF connected THEN "handshake" ELSE "refused"
  /\ UNCHANGED <<server, arrived, pos, timer, got, cut, torn>>

Chunk == 255

(* Mutant: the terminator goes over the last byte of a chunk.            *)
WrongSessionLastByteLost ==
  /\ state = "handshake"
  /\ pos < Min({arrived, head})
  /\ LET n == Min({Chunk, arrived - pos})
         rnrn_found == pos <= head - 4 /\ pos + n - 1 >= head
     IN /\ pos' = pos + n
        /\ cut' = (cut \/ pos + n \in head - 3 .. head - 1)
        /\ state' = IF ~rnrn_found THEN "handshake"
                    ELSE CASE code = "101" -> "open"
                           [] code = "garbled" -> "crashed"
                           [] OTHER -> "refused"
        /\ torn' = (pos + n > head)
        /\ timer' = (state' = "open")
  /\ UNCHANGED <<server, arrived, got>>

(* A turn of the handshake's loop that reads something; in the last, what  *)
(* start_websocket_session and slack_start_rtm_session do after it.  The   *)
(* loop looks for the empty line in each chunk by itself.  While it runs   *)
(* nothing else of the program does.  Bound: a loop that missed the line   *)
(* goes on for ever, and what else it reads is left out.                   *)
start_websocket_session ==
  /\ state = "handshake"
  /\ pos < Min({arrived, head})
  /\ LET n == Min({Chunk, arrived - pos})
         rnrn_found == pos <= head - 4 /\ pos + n >= head
     IN /\ pos' = pos + n
        /\ cut' = (cut \/ pos + n \in head - 3 .. head - 1)
        /\ state' = IF ~rnrn_found THEN "handshake"
                    ELSE CASE code = "101" -> "open"
                           [] code = "garbled" -> "crashed"
                           [] OTHER -> "refused"
        /\ torn' = (pos + n > head)
        /\ timer' = (state' = "open")
  /\ UNCHANGED <<server, arrived, got>>

-----------------------------------------------------------------------------
(* The reader. *)

(* How many of n bytes a read that does not block gets. *)
Read(n, have) == Min({n, have})

(* A length that no memory is allocated for, or that covers all there is.  *)
Huge == 1073741824

(* The length of f as read: the m bytes that were there replace the low    *)
(* ones of 126 or 127, whichever they were meant to be.                    *)
Length(f, m) ==
  IF Extended(f) = 0 THEN f.size
  ELSE IF Extended(f) = 2
       THEN <<126, f.size \div 256, (f.size \div 256) + 256 * (f.size % 256)>>[m + 1]
       ELSE IF m = 0 THEN 127 ELSE IF m < 6 THEN 0 ELSE Huge

(* A frame as it was read: the bytes of the stream from first to last are  *)
(* its data; text says whether they still are after encode_by_mask, which  *)
(* takes a string: it stops at a NUL and goes on where there is none.      *)
Value(first, size, text) ==
  [first |-> first, size |-> size, text |-> text]

(* What is read where no frame starts could be anything.                   *)
Noise == [first |-> 0, size |-> 0, text |-> FALSE]

Keep(value) == got' = IF torn' \/ value = Noise \/ got = <<Noise>> THEN <<Noise>> ELSE Append(got, value)

(* Mutant: four bytes of mask are read of every frame.                   *)
WrongPollMaskAlways(f, have) ==
  LET m == Read(Extended(f), have - 2)
      k == Read(4, have - 2 - m)
      length == Length(f, m)
      size == Read(length, have - 2 - m - k)
  IN \/ /\ pos' = pos + 2 + m + k + size
        /\ \E text \in (IF f.masked THEN BOOLEAN ELSE {TRUE}) :
             Keep(Value(pos + 2 + m + k, size, text))
        /\ UNCHANGED state
     \/ length = Huge /\ state' = "crashed" /\ UNCHANGED <<pos, got>>

(* poll_frame at the start of a frame of which two bytes or more are there.*)
(* Fields that are not all there are taken as they are.                    *)
PollFrame(f, have) ==
  LET m == Read(Extended(f), have - 2)
      k == Read(Mask(f), have - 2 - m)
      length == Length(f, m)
      size == Read(length, have - 2 - m - k)
  IN \/ /\ pos' = pos + 2 + m + k + size
        /\ \E text \in (IF f.masked THEN BOOLEAN ELSE {TRUE}) :
             Keep(Value(pos + 2 + m + k, size, text))
        /\ UNCHANGED state
     \/ length = Huge /\ state' = "crashed" /\ UNCHANGED <<pos, got>>

(* poll_frame elsewhere.  Bound: it, too, ends at one of the Cuts.         *)
PollNoise(have) ==
  \/ /\ pos' \in {n \in Cuts : n - pos \in 2 .. have}
     /\ Keep(Noise)
     /\ UNCHANGED state
  \/ state' = "crashed" /\ UNCHANGED <<pos, got>>

poll_frame ==
  LET have == arrived - pos
      next == {i \in DOMAIN frames : Start(i) = pos}
  IN /\ torn' = (torn \/ \E i \in next : have \in 1 .. Total(frames[i]) - 1)
     /\ CASE have < 2 -> pos' = arrived /\ UNCHANGED <<got, state>>
          [] have >= 2 /\ next # {} -> \E i \in next : PollFrame(frames[i], have)
          [] OTHER -> PollNoise(have)

(* Mutant: the timer is not set again when nothing new came.             *)
WrongPollOnlyWhileReading ==
  /\ state = "open"
  /\ timer
  /\ poll_frame
  /\ timer' = (pos < arrived /\ state' # "crashed")
  /\ UNCHANGED <<server, arrived, cut>>

(* The timer.  No frame is looked at, and it is set again whatever came.   *)
slack_rtm_poll ==
  /\ state = "open"
  /\ timer
  /\ poll_frame
  /\ timer' = (state' # "crashed")
  /\ UNCHANGED <<server, arrived, cut>>

(* The account is closed.  The socket is not.                              *)
slack_colose_rtm_session ==
  /\ state = "open"
  /\ state' = "closed"
  /\ timer' = FALSE
  /\ UNCHANGED <<server, arrived, pos, got, cut, torn>>

Next ==
  \/ slack_rtm_request_cb
  \/ start_websocket_session
  \/ Deliver
  \/ slack_rtm_poll
  \/ slack_colose_rtm_session

Spec == Init /\ [][Next]_vars

(* A timer that is armed fires. *)
FairSpec == Spec /\ WF_vars(slack_rtm_poll)

-----------------------------------------------------------------------------
(* Properties. *)

(* The frames whose length reads the same in both byte orders.             *)
ReadAlike(f) == Extended(f) = 0 \/ (Extended(f) = 2 /\ f.size \div 256 = f.size % 256)

Alike == \A i \in DOMAIN frames : ReadAlike(frames[i])

Sent(i) ==
  LET f == frames[i] IN {Value(Start(i + 1) - f.size, f.size, text) : text \in BOOLEAN}

(* As long as every frame had arrived when it was polled, and none is of a *)
(* length that is misread, poll_frame returns the frames of the server one *)
(* by one, each with its own payload, and as it was sent if it is not      *)
(* masked, however polls and arrivals interleave; and the next poll starts *)
(* where a frame does.                                                     *)
FramesAsSent ==
  state \in {"open", "closed"} /\ ~torn /\ Alike =>
    /\ pos = Start(Len(got) + 1)
    /\ \A i \in DOMAIN got : got[i] \in Sent(i) /\ (~frames[i].masked => got[i].text)

(* A handshake of which all was read is over, and led to a session only if *)
(* the server agreed, unless a read ended within the empty line: however   *)
(* large the answer is, and wherever else it is cut.                       *)
HandshakeDecided ==
  pos >= head /\ ~cut =>
    state # "handshake" /\ (state \in {"open", "closed"} => code = "101")

Unread == state = "open" /\ ~torn /\ Alike /\ arrived = End /\ Len(got) < Len(frames)

(* Frames that are all there, with the reader in step, are all read in the *)
(* end, unless the account is closed before: the timer is set again after  *)
(* every poll.                                                             *)
AllRead == Unread ~> ~Unread
=============================================================================
