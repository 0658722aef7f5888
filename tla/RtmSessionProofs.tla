--------------------------- MODULE RtmSessionProofs ---------------------------
(***************************************************************************)
(* Proofs about the RTM session and the reader of miniwebsock.c: for any   *)
(* sizes of the handshake's answer and of the payloads, and any number of  *)
(* frames.                                                                 *)
(*                                                                         *)
(* Where a frame starts is a recursive function of the frames before it.   *)
(* That it exists, and that frames start one after the other, is shown by  *)
(* induction: as the sets of numbers that the library's least-element      *)
(* theorem is about, since its induction theorems take a predicate.        *)
(***************************************************************************)
EXTENDS RtmSession, WellFoundedInduction, SequenceTheorems, TLAPS

-----------------------------------------------------------------------------
(* Induction on sets of natural numbers.                                   *)

(* A set of natural numbers that is not empty has a least element.         *)
LEMMA LeastNatural ==
  ASSUME NEW T, T \subseteq Nat, T # {}
  PROVE  \E x \in T : \A y \in T : x <= y
<1> DEFINE R == {ss \in Nat \X Nat : ss[1] < ss[2]}
<1>1. IsWellFoundedOn(R, Nat)
  BY NatLessThanWellFounded DEF OpToRel
<1>2. \E x \in T : \A y \in T : ~ (<<y, x>> \in R)
  <2> HIDE DEF R
  <2> QED
    BY <1>1, WFMin
<1>3. ASSUME NEW x \in T, NEW y \in T, ~ (<<y, x>> \in R) PROVE x <= y
  <2>1. x \in Nat /\ y \in Nat
    OBVIOUS
  <2>2. <<y, x>> \in Nat \X Nat /\ <<y, x>>[1] = y /\ <<y, x>>[2] = x
    BY <2>1
  <2>3. ~(y < x)
    BY <1>3, <2>2
  <2> QED
    BY <2>1, <2>3
<1> QED
  BY <1>2, <1>3

(* A set that has one, and with each number the next, has all from one on. *)
LEMMA FromOneOn ==
  ASSUME NEW T, 1 \in T, \A n \in Nat \ {0} : n \in T => n + 1 \in T
  PROVE  \A n \in Nat \ {0} : n \in T
<1> DEFINE Missing == (Nat \ {0}) \ T
<1> SUFFICES ASSUME Missing # {} PROVE FALSE
  OBVIOUS
<1>1. PICK n \in Missing : \A m \in Missing : n <= m
  BY LeastNatural
<1>2. n # 1 /\ n - 1 \in Nat \ {0}
  BY <1>1
<1>3. n - 1 \in T
  BY <1>1, <1>2
<1> QED
  BY <1>1, <1>2, <1>3

-----------------------------------------------------------------------------
(* Where frames start.                                                     *)

(* f is the function Start defines, up to frame i.                         *)
StartsUpTo(f, i) ==
  f = [n \in 1 .. i |-> IF n = 1 THEN head ELSE f[n - 1] + Total(frames[n - 1])]

(* There is such a function.                                               *)
LEMMA StartsExist == \A i \in Nat \ {0} : \E f : StartsUpTo(f, i)
<1> DEFINE T == {i \in Nat : \E f : StartsUpTo(f, i)}
<1>1. 1 \in T
  <2>1. StartsUpTo([n \in 1 .. 1 |-> head], 1)
    BY DEF StartsUpTo
  <2> QED
    BY <2>1
<1>2. ASSUME NEW i \in Nat \ {0}, i \in T PROVE i + 1 \in T
  <2>1. PICK f : StartsUpTo(f, i)
    BY <1>2
  <2> DEFINE g == [n \in 1 .. i + 1 |-> IF n <= i THEN f[n] ELSE f[i] + Total(frames[i])]
  <2>2. \A n \in 1 .. i + 1 : g[n] = IF n = 1 THEN head ELSE g[n - 1] + Total(frames[n - 1])
    <3> SUFFICES ASSUME NEW n \in 1 .. i + 1
                 PROVE  g[n] = IF n = 1 THEN head ELSE g[n - 1] + Total(frames[n - 1])
      OBVIOUS
    <3>1. CASE n <= i
      <4>1. n \in 1 .. i /\ (n # 1 => n - 1 \in 1 .. i + 1 /\ n - 1 <= i)
        BY <3>1
      <4>2. f[n] = IF n = 1 THEN head ELSE f[n - 1] + Total(frames[n - 1])
        BY <2>1, <4>1 DEF StartsUpTo
      <4> QED
        BY <3>1, <4>1, <4>2
    <3>2. CASE n = i + 1
      <4>1. n # 1 /\ n - 1 = i /\ i \in 1 .. i + 1 /\ ~(n <= i) /\ i <= i
        BY <3>2
      <4> QED
        BY <4>1
    <3> QED
      BY <3>1, <3>2
  <2>3. g = [n \in 1 .. i + 1 |-> g[n]]
    OBVIOUS
  <2> HIDE DEF g
  <2>4. StartsUpTo(g, i + 1)
    BY <2>2, <2>3 DEF StartsUpTo
  <2> QED
    BY <2>4
<1> HIDE DEF T
<1>3. \A i \in Nat \ {0} : i \in T
  BY <1>1, <1>2, FromOneOn
<1> QED
  BY <1>3 DEF T

(* Two of them agree where both are defined.                               *)
LEMMA StartsAgree ==
  ASSUME NEW i \in Nat, NEW j \in Nat, NEW f, NEW g, StartsUpTo(f, i), StartsUpTo(g, j)
  PROVE  \A n \in Nat \ {0} : n <= i /\ n <= j => f[n] = g[n]
<1> DEFINE T == {n \in Nat : n <= i /\ n <= j => f[n] = g[n]}
<1>1. ASSUME NEW n \in Nat \ {0}, n <= i, n <= j
      PROVE  /\ f[n] = IF n = 1 THEN head ELSE f[n - 1] + Total(frames[n - 1])
             /\ g[n] = IF n = 1 THEN head ELSE g[n - 1] + Total(frames[n - 1])
  <2>1. n \in 1 .. i /\ n \in 1 .. j
    BY <1>1
  <2> QED
    BY <2>1 DEF StartsUpTo
<1>2. 1 \in T
  BY <1>1
<1>3. ASSUME NEW n \in Nat \ {0}, n \in T PROVE n + 1 \in T
  <2> SUFFICES ASSUME n + 1 <= i, n + 1 <= j PROVE f[n + 1] = g[n + 1]
    OBVIOUS
  <2>1. f[n] = g[n] /\ n + 1 \in Nat \ {0} /\ n + 1 # 1 /\ (n + 1) - 1 = n
    BY <1>3
  <2>2. f[n + 1] = f[n] + Total(frames[n]) /\ g[n + 1] = g[n] + Total(frames[n])
    BY <1>1, <2>1
  <2> QED
    BY <2>1, <2>2
<1> HIDE DEF T
<1>4. \A n \in Nat \ {0} : n \in T
  BY <1>2, <1>3, FromOneOn
<1> QED
  BY <1>4 DEF T

(* Start is what it was meant to be: the first frame after the handshake's *)
(* answer, and each of the others after the one before it.                 *)
LEMMA StartFollows ==
  /\ Start(1) = head
  /\ \A i \in Nat \ {0} : Start(i + 1) = Start(i) + Total(frames[i])
<1> DEFINE From(i) == CHOOSE f : StartsUpTo(f, i)
<1>1. \A i : Start(i) = From(i)[i]
  BY DEF Start, StartsUpTo
<1>2. ASSUME NEW i \in Nat \ {0} PROVE StartsUpTo(From(i), i)
  BY StartsExist
<1> HIDE DEF From
<1>3. Start(1) = head
  <2>1. StartsUpTo(From(1), 1) /\ 1 \in 1 .. 1
    BY <1>2
  <2>2. From(1)[1] = head
    BY <2>1 DEF StartsUpTo
  <2> QED
    BY <1>1, <2>2
<1>4. ASSUME NEW i \in Nat \ {0} PROVE Start(i + 1) = Start(i) + Total(frames[i])
  <2>1. i + 1 \in Nat \ {0} /\ i + 1 \in 1 .. i + 1 /\ i + 1 # 1 /\ (i + 1) - 1 = i
    OBVIOUS
  <2>2. StartsUpTo(From(i + 1), i + 1) /\ StartsUpTo(From(i), i)
    BY <1>2, <2>1
  <2>3. From(i + 1)[i + 1] = From(i + 1)[i] + Total(frames[i])
    BY <2>1, <2>2 DEF StartsUpTo
  <2>4. From(i + 1)[i] = From(i)[i]
    BY <2>1, <2>2, StartsAgree
  <2> QED
    BY <1>1, <2>3, <2>4
<1> QED
  BY <1>3, <1>4

(* What the server sends: an answer of some length, and a list of frames.  *)
ServerTyped == head \in Nat /\ head >= 16 /\ frames \in Seq(Frames)

(* What a frame takes on the wire.                                         *)
LEMMA FrameTyped ==
  ASSUME NEW f \in Frames
  PROVE  /\ f.masked \in BOOLEAN /\ f.size \in Nat /\ f.size < Huge
         /\ Extended(f) \in {0, 2, 8} /\ Mask(f) \in {0, 4}
         /\ Total(f) = 2 + Extended(f) + Mask(f) + f.size
         /\ Total(f) \in Nat /\ Total(f) >= 2
<1>1. f.masked \in BOOLEAN /\ f.size \in Nat /\ f.size < Huge
  <2>1. f.masked \in BOOLEAN /\ f.size \in Sizes
    BY DEF Frames
  <2>2. \A size \in Sizes : size \in Nat /\ size < 1073741824
    BY RtmAssumption, SMT
  <2> QED
    BY <2>1, <2>2 DEF Huge
<1>2. Extended(f) \in {0, 2, 8} /\ Mask(f) \in {0, 4}
  BY DEF Extended, Mask
<1> QED
  BY <1>1, <1>2 DEF Total

(* Frames start at numbers that increase.                                  *)
LEMMA StartsIncrease ==
  ASSUME ServerTyped
  PROVE  \A n \in 1 .. Len(frames) + 1 :
           /\ Start(n) \in Nat /\ Start(n) >= head
           /\ \A i \in 1 .. n - 1 : Start(i) < Start(n)
<1> DEFINE Good(n) == /\ Start(n) \in Nat /\ Start(n) >= head
                      /\ \A i \in 1 .. n - 1 : Start(i) \in Nat /\ Start(i) < Start(n)
           T == {n \in Nat : n <= Len(frames) + 1 => Good(n)}
<1>0. Len(frames) \in Nat /\ head \in Nat /\ \A n \in 1 .. Len(frames) : frames[n] \in Frames
  BY LenProperties, ElementOfSeq DEF ServerTyped
<1>1. 1 \in T
  BY <1>0, StartFollows
<1>2. ASSUME NEW n \in Nat \ {0}, n \in T PROVE n + 1 \in T
  <2> SUFFICES ASSUME n + 1 <= Len(frames) + 1 PROVE Good(n + 1)
    OBVIOUS
  <2>1. n \in 1 .. Len(frames) /\ Good(n)
    BY <1>0, <1>2
  <2>2. Total(frames[n]) \in Nat /\ Total(frames[n]) >= 2
    BY <1>0, <2>1, FrameTyped
  <2>3. Start(n + 1) = Start(n) + Total(frames[n])
    BY StartFollows
  <2>4. Start(n + 1) \in Nat /\ Start(n + 1) >= head /\ Start(n) < Start(n + 1)
    BY <1>0, <2>1, <2>2, <2>3
  <2>5. ASSUME NEW i \in 1 .. (n + 1) - 1 PROVE Start(i) \in Nat /\ Start(i) < Start(n + 1)
    <3>1. CASE i = n
      BY <2>1, <2>4, <3>1
    <3>2. CASE i # n
      <4>1. i \in 1 .. n - 1
        BY <3>2
      <4>2. Start(i) < Start(n) /\ i \in 1 .. Len(frames) + 1
        BY <1>0, <2>1, <4>1
      <4> QED
        BY <2>1, <2>4, <4>1, <4>2
    <3> QED
      BY <3>1, <3>2
  <2> QED
    BY <2>4, <2>5
<1> HIDE DEF T
<1>3. \A n \in Nat \ {0} : n \in T
  BY <1>1, <1>2, FromOneOn
<1> QED
  BY <1>0, <1>3 DEF T

(* No two frames, nor a frame and the end, are at the same place.          *)
LEMMA StartsDiffer ==
  ASSUME ServerTyped, NEW i \in 1 .. Len(frames) + 1, NEW j \in 1 .. Len(frames) + 1,
         Start(i) = Start(j)
  PROVE  i = j
<1>1. Len(frames) \in Nat
  BY LenProperties DEF ServerTyped
<1>2. Start(i) \in Nat /\ Start(j) \in Nat
  BY StartsIncrease
<1>3. CASE i < j
  <2>1. i \in 1 .. j - 1
    BY <1>1, <1>3
  <2> QED
    BY <1>2, <2>1, StartsIncrease
<1>4. CASE j < i
  <2>1. j \in 1 .. i - 1
    BY <1>1, <1>4
  <2> QED
    BY <1>2, <2>1, StartsIncrease
<1> QED
  BY <1>1, <1>3, <1>4

(* What the server sends is settled from the start.                        *)
LEMMA ServerSettled ==
  ASSUME UNCHANGED server
  PROVE  /\ \A i : Start(i)' = Start(i)
         /\ End' = End /\ Alike' = Alike
         /\ \A i : Sent(i)' = Sent(i)
         /\ (ServerTyped => ServerTyped')
<1>1. head' = head /\ frames' = frames
  BY DEF server
<1>2. \A i : Start(i)' = Start(i)
  BY <1>1 DEF Start
<1> QED
  BY <1>1, <1>2 DEF End, Alike, Sent, ServerTyped

-----------------------------------------------------------------------------
(* The invariant.                                                          *)

Values == [first : Nat, size : Nat, text : BOOLEAN]

(* The reader is in step: it stands where the frame after those it has     *)
(* read starts, and has read no further than what arrived.                 *)
InStep ==
  /\ pos <= arrived
  /\ got \in Seq(Values) /\ Len(got) <= Len(frames)
  /\ pos = Start(Len(got) + 1)
  /\ \A i \in DOMAIN got : got[i] \in Sent(i) /\ (~frames[i].masked => got[i].text)

(* Before the session is open nothing was read but the HTTP answer, whose  *)
(* loop stops short of the empty line, or cut it; a session that was       *)
(* opened had its answer accepted.                                         *)
RtmInv ==
  /\ ServerTyped
  /\ arrived \in Nat /\ arrived <= End
  /\ torn \in BOOLEAN /\ cut \in BOOLEAN
  /\ state \in {"none", "handshake"} => got = <<>> /\ pos \in Nat /\ pos <= arrived
  /\ state = "none" => pos = 0
  /\ state = "handshake" => cut \/ pos <= head - 4
  /\ state \in {"open", "closed"} => code = "101"
  /\ state \in {"open", "closed"} /\ ~torn /\ Alike => InStep

(* The smaller of two numbers.                                             *)
LEMMA MinOfTwo ==
  ASSUME NEW a \in Int, NEW b \in Int
  PROVE  Min({a, b}) = IF a <= b THEN a ELSE b
BY DEF Min

(* The server starts with an answer and frames of the types given.         *)
LEMMA RtmInit == Init => RtmInv
<1> SUFFICES ASSUME Init PROVE RtmInv
  OBVIOUS
<1>1. head \in Nat /\ head >= 16
  BY RtmAssumption DEF Init
<1>2. frames \in Seq(Frames)
  BY RtmAssumption DEF Init, BoundedSeq, SeqOf
<1>3. ServerTyped
  BY <1>1, <1>2 DEF ServerTyped
<1>4. End \in Nat
  <2>1. Len(frames) + 1 \in 1 .. Len(frames) + 1
    BY <1>2, LenProperties
  <2> QED
    BY <1>3, <2>1, StartsIncrease DEF End
<1>5. torn \in BOOLEAN /\ cut \in BOOLEAN
  BY DEF Init
<1> QED
  BY <1>1, <1>3, <1>4, <1>5 DEF Init, RtmInv

(* The stream is cut at numbers, and not after its end.                    *)
LEMMA CutsTyped ==
  ASSUME ServerTyped
  PROVE  \A n \in Cuts : n \in Int /\ n <= End
<1>1. head \in Nat /\ Len(frames) \in Nat /\ DOMAIN frames = 1 .. Len(frames)
  BY LenProperties DEF ServerTyped
<1>2. ASSUME NEW i \in DOMAIN frames
      PROVE  /\ Start(i) \in Nat
             /\ Extended(frames[i]) \in Int /\ Mask(frames[i]) \in Int /\ Total(frames[i]) \in Int
  <2>1. frames[i] \in Frames /\ i \in 1 .. Len(frames) + 1
    BY <1>1, <1>2, ElementOfSeq DEF ServerTyped
  <2> QED
    BY <2>1, FrameTyped, StartsIncrease
<1> QED
  BY <1>1, <1>2 DEF Cuts

(* A turn of the handshake's loop.                                         *)
LEMMA HandshakeStep ==
  ASSUME RtmInv, start_websocket_session
  PROVE  RtmInv'
<1>1. /\ ServerTyped /\ head \in Nat /\ head >= 16
      /\ arrived \in Nat /\ pos \in Nat /\ got = <<>>
      /\ cut \in BOOLEAN /\ (cut \/ pos <= head - 4)
  BY DEF RtmInv, ServerTyped, start_websocket_session
<1> DEFINE n == Min({Chunk, arrived - pos})
           found == pos <= head - 4 /\ pos + n >= head
           verdict == CASE code = "101" -> "open"
                        [] code = "garbled" -> "crashed"
                        [] OTHER -> "refused"
<1>2. /\ pos < Min({arrived, head})
      /\ pos' = pos + n
      /\ cut' = (cut \/ pos + n \in head - 3 .. head - 1)
      /\ state' = IF ~found THEN "handshake" ELSE verdict
      /\ torn' = (pos + n > head)
      /\ UNCHANGED <<server, arrived, got>>
  BY Zenon DEF start_websocket_session
<1>3. verdict \in {"open", "crashed", "refused"} /\ (verdict = "open" => code = "101")
  BY Zenon
<1> HIDE DEF verdict
<1>4. /\ pos < arrived /\ pos < head
      /\ n \in Nat /\ n > 0 /\ pos + n <= arrived
  BY <1>1, <1>2, MinOfTwo DEF Chunk
<1> HIDE DEF n
<1>5. /\ ServerTyped' /\ End' = End /\ Alike' = Alike /\ head' = head /\ code' = code
      /\ \A i : Start(i)' = Start(i)
  BY <1>1, <1>2, ServerSettled DEF server
<1>6. torn' \in BOOLEAN /\ cut' \in BOOLEAN
  BY <1>2
<1>7. /\ ~torn' => ~(pos + n > head)
      /\ cut \/ pos + n \in head - 3 .. head - 1 => cut'
  BY <1>2, Zenon
<1>8. CASE ~found
  <2>1. state' = "handshake"
    BY <1>2, <1>8
  <2>2. pos + n < head \/ pos > head - 4
    BY <1>1, <1>4, <1>8
  <2>3. cut' \/ pos' <= head - 4
    <3>1. pos + n \in head - 3 .. head - 1 \/ pos + n <= head - 4 \/ cut
      BY <1>1, <1>4, <2>2
    <3> QED
      BY <1>2, <1>7, <3>1
  <2> QED
    BY <1>1, <1>2, <1>4, <1>5, <1>6, <2>1, <2>3 DEF RtmInv
<1>9. CASE found
  <2>1. state' \in {"open", "crashed", "refused"} /\ (state' = "open" => code = "101")
    BY <1>2, <1>3, <1>9
  <2>2. ~torn' => InStep'
    <3>1. ~torn' => pos' = head
      BY <1>1, <1>2, <1>4, <1>9, <1>7
    <3>2. got' = <<>> /\ Len(got') = 0 /\ got' \in Seq(Values) /\ DOMAIN got' = {}
      BY <1>1, <1>2, EmptySeq
    <3>3. Start(1)' = head /\ Len(frames') \in Nat
      BY <1>5, StartFollows, LenProperties DEF ServerTyped
    <3> QED
      BY <1>2, <1>4, <3>1, <3>2, <3>3 DEF InStep
  <2> QED
    BY <1>1, <1>2, <1>4, <1>5, <1>6, <2>1, <2>2 DEF RtmInv
<1> QED
  BY <1>8, <1>9

(* A length that reads the same in both byte orders is read as it is.      *)
LEMMA LengthAsSent ==
  ASSUME NEW f \in Frames, ReadAlike(f)
  PROVE  Length(f, Extended(f)) = f.size
<1>1. CASE Extended(f) = 0
  BY <1>1 DEF Length
<1>2. CASE Extended(f) = 2 /\ f.size \div 256 = f.size % 256
  <2>1. Length(f, Extended(f)) = (f.size \div 256) + 256 * (f.size % 256)
    BY <1>2 DEF Length
  <2>2. /\ f.size = 256 * (f.size \div 256) + (f.size % 256)
        /\ f.size \div 256 \in Nat
    BY FrameTyped
  <2> QED
    BY <1>2, <2>1, <2>2
<1> QED
  BY <1>1, <1>2 DEF ReadAlike

(* Of a frame that is all there, each field is read whole.                 *)
LEMMA FieldsWhole ==
  ASSUME NEW f \in Frames, ReadAlike(f), NEW have \in Int, have >= Total(f)
  PROVE  /\ Read(Extended(f), have - 2) = Extended(f)
         /\ Read(Mask(f), have - 2 - Extended(f)) = Mask(f)
         /\ Read(f.size, have - 2 - Extended(f) - Mask(f)) = f.size
<1>1. /\ Extended(f) \in Nat /\ Mask(f) \in Nat /\ f.size \in Nat
      /\ Total(f) = 2 + Extended(f) + Mask(f) + f.size
  BY FrameTyped
<1> QED
  BY <1>1, MinOfTwo DEF Read

(* Reading a frame that is all there leaves the reader in step, at the     *)
(* next frame, with the frame's payload.                                   *)
LEMMA WholeFrameRead ==
  ASSUME RtmInv, InStep, Alike, UNCHANGED <<server, arrived>>, ~torn',
         NEW f, Len(got) + 1 \in DOMAIN frames, f = frames[Len(got) + 1],
         arrived - pos >= Total(f), PollFrame(f, arrived - pos)
  PROVE  InStep' /\ state' = state
<1> DEFINE k == Len(got) + 1
           have == arrived - pos
           first == pos + 2 + Extended(f) + Mask(f)
<1>1. /\ ServerTyped /\ Len(frames) \in Nat /\ DOMAIN frames = 1 .. Len(frames)
      /\ arrived \in Nat /\ Len(got) \in Nat /\ DOMAIN got = 1 .. Len(got)
      /\ got \in Seq(Values) /\ k \in 1 .. Len(frames) + 1
  BY LenProperties DEF RtmInv, ServerTyped, InStep
<1>2. f \in Frames /\ ReadAlike(f)
  BY <1>1, ElementOfSeq DEF ServerTyped, Alike
<1>3. /\ Extended(f) \in Nat /\ Mask(f) \in Nat /\ f.size \in Nat /\ f.size < Huge
      /\ Total(f) = 2 + Extended(f) + Mask(f) + f.size
  BY <1>2, FrameTyped
<1>4. pos \in Nat /\ pos >= 16 /\ Start(k) = pos /\ Start(k + 1) = pos + Total(f)
  <2>1. Start(k) \in Nat /\ Start(k) >= head
    BY <1>1, StartsIncrease
  <2> QED
    BY <1>1, <2>1, StartFollows DEF InStep, ServerTyped
<1>5. /\ Read(Extended(f), have - 2) = Extended(f)
      /\ Read(Mask(f), have - 2 - Extended(f)) = Mask(f)
      /\ Read(f.size, have - 2 - Extended(f) - Mask(f)) = f.size
      /\ Length(f, Extended(f)) = f.size
  BY <1>1, <1>2, <1>4, FieldsWhole, LengthAsSent
<1>6. f.size # Huge
  BY <1>3 DEF Huge
<1>7. /\ \E text \in (IF f.masked THEN BOOLEAN ELSE {TRUE}) : Keep(Value(first, f.size, text))
      /\ pos' = first + f.size /\ state' = state
  BY <1>5, <1>6 DEF PollFrame
<1>8. /\ first \in Nat /\ first > 0 /\ first = Start(k + 1) - f.size
      /\ first + f.size = pos + Total(f) /\ pos + Total(f) <= arrived
  <2>1. first \in Nat /\ first > 0
    BY <1>3, <1>4
  <2>2. first + f.size = pos + Total(f)
    BY <1>3, <1>4
  <2> HIDE DEF first
  <2>3. first = Start(k + 1) - f.size
    BY <1>3, <1>4, <2>1, <2>2
  <2>4. pos + Total(f) <= arrived
    BY <1>1, <1>3, <1>4
  <2> QED
    BY <2>1, <2>2, <2>3, <2>4
<1> HIDE DEF first
<1>9. PICK text \in BOOLEAN : (~f.masked => text) /\ Keep(Value(first, f.size, text))
  BY <1>7, Zenon
<1> DEFINE v == Value(first, f.size, text)
<1>10. v \in Values /\ v # Noise
  <2>1. v \in Values
    BY <1>3, <1>8, <1>9 DEF Value, Values
  <2>2. v.first = first /\ Noise.first = 0
    BY DEF Value, Noise
  <2> QED
    BY <1>8, <2>1, <2>2
<1>11. got # <<Noise>>
  <2> SUFFICES ASSUME got = <<Noise>> PROVE FALSE
    OBVIOUS
  <2>1. 1 \in DOMAIN got /\ got[1] = Noise
    OBVIOUS
  <2>2. Noise \in Sent(1) /\ 1 \in 1 .. Len(frames)
    BY <1>1, <2>1 DEF InStep
  <2>3. frames[1] \in Frames /\ Start(2) = head + Total(frames[1])
    BY <1>1, <2>2, StartFollows, ElementOfSeq DEF ServerTyped
  <2>4. /\ Extended(frames[1]) \in Nat /\ Mask(frames[1]) \in Nat /\ frames[1].size \in Nat
        /\ Total(frames[1]) = 2 + Extended(frames[1]) + Mask(frames[1]) + frames[1].size
        /\ head \in Nat
    BY <1>1, <2>3, FrameTyped, SMTT(60) DEF ServerTyped
  <2>5. Start(2) - frames[1].size > 0
    BY <2>3, <2>4
  <2>6. Noise.first = Start(2) - frames[1].size
    <3>1. 1 + 1 = 2
      OBVIOUS
    <3> QED
      BY <2>2, <3>1 DEF Sent, Value
  <2> QED
    BY <2>5, <2>6 DEF Noise
<1>12. got' = Append(got, v)
  BY <1>9, <1>10, <1>11 DEF Keep
<1>13. v \in Sent(k) /\ (~f.masked => v.text)
  <2>1. v.text = text
    BY DEF Value
  <2>2. v \in {Value(Start(k + 1) - f.size, f.size, t) : t \in BOOLEAN}
    BY <1>8, <1>9, Zenon
  <2> QED
    BY <1>9, <2>1, <2>2 DEF Sent
<1> HIDE DEF v
<1>14. /\ got' \in Seq(Values) /\ Len(got') = Len(got) + 1 /\ got'[k] = v
       /\ \A i \in 1 .. Len(got) : got'[i] = got[i]
       /\ DOMAIN got' = 1 .. Len(got) + 1
  BY <1>1, <1>10, <1>12, AppendProperties, LenProperties
<1>15. /\ \A i : Start(i)' = Start(i) /\ Sent(i)' = Sent(i)
       /\ frames' = frames /\ arrived' = arrived
  BY ServerSettled DEF server
<1>16. pos' <= arrived' /\ pos' = Start(Len(got) + 1)'
  <2>1. Start(Len(got) + 1)' = Start(k + 1)
    BY <1>14, <1>15
  <2> QED
    BY <1>4, <1>7, <1>8, <1>15, <2>1
<1>17. \A i \in DOMAIN got' : got'[i] \in Sent(i)' /\ (~frames'[i].masked => got'[i].text)
  <2> SUFFICES ASSUME NEW i \in DOMAIN got'
               PROVE  got'[i] \in Sent(i)' /\ (~frames'[i].masked => got'[i].text)
    OBVIOUS
  <2>1. CASE i = k
    BY <1>13, <1>14, <1>15, <2>1
  <2>2. CASE i # k
    <3>1. i \in DOMAIN got /\ got'[i] = got[i]
      BY <1>1, <1>14, <2>2
    <3> QED
      BY <1>15, <3>1 DEF InStep
  <2> QED
    BY <2>1, <2>2
<1>18. Len(got') <= Len(frames')
  BY <1>1, <1>14, <1>15
<1> QED
  BY <1>7, <1>14, <1>17, <1>16, <1>18 DEF InStep

(* A poll: a frame that is not all there tears, one that is there is read, *)
(* and where no frame is left there is nothing to be read.                 *)
LEMMA PollStep ==
  ASSUME RtmInv, slack_rtm_poll
  PROVE  RtmInv'
<1> DEFINE have == arrived - pos
           next == {i \in DOMAIN frames : Start(i) = pos}
           part == \E i \in next : have \in 1 .. Total(frames[i]) - 1
<1>1. /\ state = "open" /\ UNCHANGED <<server, arrived, cut>>
      /\ torn' = (torn \/ part)
      /\ CASE have < 2 -> pos' = arrived /\ UNCHANGED <<got, state>>
           [] have >= 2 /\ next # {} -> \E i \in next : PollFrame(frames[i], have)
           [] OTHER -> PollNoise(have)
  BY Zenon DEF slack_rtm_poll, poll_frame
<1>2. /\ ServerTyped /\ arrived \in Nat /\ arrived <= End
      /\ torn \in BOOLEAN /\ cut \in BOOLEAN /\ code = "101"
      /\ Len(frames) \in Nat /\ DOMAIN frames = 1 .. Len(frames)
  BY <1>1, LenProperties DEF RtmInv, ServerTyped
<1>3. /\ ServerTyped' /\ End' = End /\ Alike' = Alike /\ code' = code
      /\ arrived' = arrived /\ cut' = cut /\ frames' = frames
      /\ \A i : Start(i)' = Start(i)
      /\ \A i : Sent(i)' = Sent(i)
  BY <1>1, <1>2, ServerSettled DEF server
<1>4. (~torn' => ~torn /\ ~part) /\ torn' \in BOOLEAN
  <2> HIDE DEF part
  <2> QED
    BY <1>1, Zenon
<1>5. \/ have < 2 /\ pos' = arrived /\ UNCHANGED <<got, state>>
      \/ have >= 2 /\ \E i \in next : PollFrame(frames[i], have)
      \/ ~(have < 2) /\ ~(have >= 2 /\ next # {}) /\ PollNoise(have)
  <2> HIDE DEF have, next
  <2> QED
    BY <1>1, Zenon
<1>6. state' \in {"open", "crashed"}
  BY <1>1, <1>5, Zenon DEF PollFrame, PollNoise
<1>7. ASSUME state' = "open", ~torn', Alike
      PROVE  InStep'
  <2> DEFINE k == Len(got) + 1
  <2>1. InStep /\ ~part
    BY <1>1, <1>2, <1>4, <1>7 DEF RtmInv
  <2>2. /\ Len(got) \in Nat /\ pos <= arrived /\ Start(k) = pos
        /\ k \in 1 .. Len(frames) + 1
    BY <1>2, <2>1, LenProperties DEF InStep
  <2>3. pos \in Nat
    BY <1>2, <2>2, StartsIncrease
  <2>4. CASE k \in DOMAIN frames
    <3>1. k \in next
      BY <2>2, <2>4
    <3>2. Total(frames[k]) \in Nat /\ Total(frames[k]) >= 2
      BY <1>2, <2>4, ElementOfSeq, FrameTyped DEF ServerTyped
    <3>3. have <= 0 \/ have >= Total(frames[k])
      BY <1>2, <2>1, <2>3, <3>1, <3>2
    <3>4. CASE have < 2 /\ pos' = arrived /\ UNCHANGED <<got, state>>
      <4>1. pos' = pos /\ pos' <= arrived /\ UNCHANGED got
        BY <1>2, <2>2, <2>3, <3>2, <3>3, <3>4
      <4> HIDE DEF have, next, k
      <4> QED
        BY <1>3, <2>1, <4>1 DEF InStep
    <3>5. CASE have >= 2 /\ \E i \in next : PollFrame(frames[i], have)
      <4>1. PICK i \in next : PollFrame(frames[i], have)
        BY <3>5
      <4>2. i = k
        BY <1>2, <2>2, <4>1, StartsDiffer
      <4>3. have >= Total(frames[k])
        BY <1>2, <2>3, <3>3, <3>5
      <4> QED
        BY <1>1, <1>7, <2>1, <2>4, <4>1, <4>2, <4>3, WholeFrameRead
    <3>6. CASE ~(have < 2) /\ ~(have >= 2 /\ next # {})
      BY <1>2, <2>3, <3>1, <3>6
    <3> QED
      BY <1>5, <3>4, <3>5, <3>6
  <2>5. CASE k \notin DOMAIN frames
    <3>1. k = Len(frames) + 1 /\ pos = End
      BY <1>2, <2>2, <2>5 DEF End
    <3>2. next = {}
      BY <1>2, <2>2, <3>1, StartsDiffer
    <3>3. have = 0
      BY <1>2, <2>2, <2>3, <3>1
    <3>4. pos' = arrived /\ UNCHANGED <<got, state>>
      BY <1>5, <3>2, <3>3
    <3>5. pos' = pos /\ pos' <= arrived
      BY <1>2, <2>3, <3>3, <3>4
    <3> HIDE DEF have, next, k
    <3> QED
      BY <1>3, <2>1, <3>4, <3>5 DEF InStep
  <2> QED
    BY <2>4, <2>5
<1> QED
  BY <1>1, <1>2, <1>3, <1>4, <1>6, <1>7 DEF RtmInv

(* Every step preserves the invariant.                                     *)
LEMMA RtmStep == RtmInv /\ [Next]_vars => RtmInv'
<1> SUFFICES ASSUME RtmInv, [Next]_vars PROVE RtmInv'
  OBVIOUS
<1>1. CASE slack_rtm_request_cb
  <2>1. /\ state = "none" /\ UNCHANGED <<server, arrived, pos, timer, got, cut, torn>>
        /\ state' \in {"refused", "crashed", "handshake"}
    BY <1>1, Zenon DEF slack_rtm_request_cb
  <2>2. ServerTyped /\ head \in Nat /\ head >= 16
    BY DEF RtmInv, ServerTyped
  <2>3. ServerTyped' /\ End' = End /\ Alike' = Alike /\ head' = head
    BY <2>1, <2>2, ServerSettled DEF server
  <2> QED
    BY <2>1, <2>2, <2>3 DEF RtmInv
<1>2. CASE start_websocket_session
  BY <1>2, HandshakeStep
<1>3. CASE Deliver
  <2>1. /\ state \in {"handshake", "open"}
        /\ UNCHANGED <<server, pos, state, timer, got, cut, torn>>
        /\ arrived' \in Cuts /\ arrived' > arrived
    BY <1>3 DEF Deliver
  <2>2. ServerTyped /\ arrived \in Nat
    BY DEF RtmInv
  <2>3. arrived' \in Nat /\ arrived' <= End
    BY <2>1, <2>2, CutsTyped
  <2>4. /\ ServerTyped' /\ End' = End /\ Alike' = Alike /\ head' = head /\ code' = code
        /\ frames' = frames
        /\ \A i : Start(i)' = Start(i)
        /\ \A i : Sent(i)' = Sent(i)
    BY <2>1, <2>2, ServerSettled DEF server
  <2>5. pos \in Int /\ pos <= arrived => pos <= arrived'
    BY <2>1, <2>2, <2>3
  <2>6. CASE state = "handshake"
    BY <2>1, <2>3, <2>4, <2>5, <2>6 DEF RtmInv
  <2>7. CASE state = "open"
    <3>1. InStep => InStep'
      <4> SUFFICES ASSUME InStep PROVE InStep'
        OBVIOUS
      <4>1. Len(got) + 1 \in 1 .. Len(frames) + 1
        BY <2>2, LenProperties DEF InStep, ServerTyped
      <4>2. pos \in Int
        BY <2>2, <4>1, StartsIncrease DEF InStep
      <4> QED
        BY <2>1, <2>4, <2>5, <4>2 DEF InStep
    <3> QED
      BY <2>1, <2>3, <2>4, <2>7, <3>1 DEF RtmInv
  <2> QED
    BY <2>1, <2>6, <2>7
<1>4. CASE slack_rtm_poll
  BY <1>4, PollStep
<1>5. CASE slack_colose_rtm_session
  <2>1. /\ state = "open" /\ state' = "closed"
        /\ UNCHANGED <<server, arrived, pos, got, cut, torn>>
    BY <1>5 DEF slack_colose_rtm_session
  <2> QED
    BY <2>1, ServerSettled DEF RtmInv, InStep, server
<1>6. CASE UNCHANGED vars
  <2>1. UNCHANGED <<server, arrived, pos, state, timer, got, cut, torn>>
    BY <1>6 DEF vars, server
  <2> QED
    BY <2>1, ServerSettled DEF RtmInv, InStep, server
<1> QED
  BY <1>1, <1>2, <1>3, <1>4, <1>5, <1>6 DEF Next

-----------------------------------------------------------------------------
(* The invariant, and what it is for.                                      *)

(* RtmInv is invariant: whatever the sizes and the number of the frames.   *)
THEOREM RtmInvariant == Spec => []RtmInv
<1> QED
  BY RtmInit, RtmStep, PTL DEF Spec

(* The reader returns the server's frames one by one, each with its own    *)
(* payload, as long as each had arrived when it was polled and none is of  *)
(* a misread length.                                                       *)
THEOREM FramesAsSentHolds == Spec => []FramesAsSent
<1>1. RtmInv => FramesAsSent
  BY DEF RtmInv, InStep, FramesAsSent
<1> QED
  BY <1>1, RtmInvariant, PTL

(* A handshake of which all was read is decided, and opened a session only *)
(* if the server agreed, unless a read ended within the empty line.        *)
THEOREM HandshakeDecidedHolds == Spec => []HandshakeDecided
<1>1. RtmInv => HandshakeDecided
  <2> SUFFICES ASSUME RtmInv, pos >= head, ~cut
               PROVE  state # "handshake" /\ (state \in {"open", "closed"} => code = "101")
    BY DEF HandshakeDecided
  <2>1. head \in Nat /\ (state = "handshake" => pos \in Nat /\ pos <= head - 4)
    BY DEF RtmInv, ServerTyped
  <2>2. state # "handshake"
    BY <2>1
  <2> QED
    BY <2>2 DEF RtmInv
<1> QED
  BY <1>1, RtmInvariant, PTL
=============================================================================
