-------------------------- MODULE JsonParserProofs --------------------------
(***************************************************************************)
(* Proofs about JsonParser: its variables keep their types, the second     *)
(* pass writes exactly what the first one counted, a text is rejected by   *)
(* the first or not at all, and what is allocated is freed once.           *)
(*                                                                         *)
(* What the second pass has done at a byte is what the first had done      *)
(* there, but of the first only the totals are left.  The invariant        *)
(* therefore says that there is a run: the points the first pass went      *)
(* through, each with what it had counted of every value, where each       *)
(* follows from the one before and the text alone (Turn).  The first pass  *)
(* stands at the last point of the run, the second at some point of it.    *)
(* Once a parse is over, FreeInv says what json_value_free_ex has yet to   *)
(* free: the values it will walk, or the chain.                            *)
(***************************************************************************)
EXTENDS JsonParser, WellFoundedInduction, TLAPS

-----------------------------------------------------------------------------
(* Points of a run                                                         *)

Types == Containers \cup {"string", "boolean", "null", "integer", "double"}
Numeric == {"integer", "double"}
ParserFlags == {"need_comma", "seek_value", "escaped", "string", "need_colon", "done"}

ValueRecord ==
    [type : Types, parent : Nat, num : Int, length : Nat, bytes : Nat,
     capacity : Nat, room : Nat, kids : Seq(Nat), names : Seq(Nat)]

(* at, fl, top and slen stand for ptr, flags, top and string_length, n for *)
(* the number of values begun, len and byt for their length and bytes;     *)
(* open are the values begun and not finished.                             *)
Point ==
    [at : Nat, fl : SUBSET ParserFlags, top : Nat, slen : Nat, n : Nat,
     len : [Nat -> Nat], byt : [Nat -> Nat], open : SUBSET Nat]

Start ==
    [at |-> 1, fl |-> {"seek_value"}, top |-> 0, slen |-> 0, n |-> 0,
     len |-> [v \in Nat |-> 0], byt |-> [v \in Nat |-> 0], open |-> {}]

InString(a) == "string" \in a.fl
Seeks(a) == "seek_value" \in a.fl /\ "string" \notin a.fl /\ "done" \notin a.fl
Begins(a) == Seeks(a) /\ "need_comma" \notin a.fl /\ "need_colon" \notin a.fl
Inside(vs, a) ==
    /\ "string" \notin a.fl /\ "done" \notin a.fl /\ "seek_value" \notin a.fl
    /\ a.top # 0 /\ vs[a.top].type = "object"

(* a further on in the text; a new value begun; value v finished.          *)
Moved(a, at, fl, slen, byt) ==
    [at |-> at, fl |-> fl, top |-> a.top, slen |-> slen, n |-> a.n,
     len |-> a.len, byt |-> byt, open |-> a.open]

Begun(a, at, fl, slen) ==
    [at |-> at, fl |-> fl, top |-> a.n + 1, slen |-> slen, n |-> a.n + 1,
     len |-> a.len, byt |-> a.byt, open |-> a.open \cup {a.n + 1}]

FinishedFlags(vs, v, fl) ==
    fl \cup {"need_comma"}
       \cup (IF vs[v].parent = 0 THEN {"done"}
             ELSE IF vs[vs[v].parent].type = "array" THEN {"seek_value"} ELSE {})

With(f, k, x) == [f EXCEPT ![k] = x]
Tallied(len, p) == IF p = 0 THEN len ELSE [len EXCEPT ![p] = len[p] + 1]

Finished(vs, a, v, n, byt, at, fl) ==
    [at |-> at, fl |-> FinishedFlags(vs, v, fl),
     top |-> IF vs[v].parent = 0 THEN v ELSE vs[v].parent, slen |-> a.slen, n |-> n,
     len |-> Tallied(a.len, vs[v].parent), byt |-> byt, open |-> a.open \ {v}]

(* The turns of the parser at point a over byte c, to the point b.         *)

MoveFlags(vs, c, a, fl) ==
    \/ InString(a) /\ "escaped" \notin a.fl /\ c = "esc" /\ fl = a.fl \cup {"escaped"}
    \/ Seeks(a) /\ c = "sp" /\ fl = a.fl
    \/ Seeks(a) /\ "need_comma" \in a.fl /\ c = "comma" /\ fl = a.fl \ {"need_comma"}
    \/ /\ Seeks(a) /\ "need_comma" \notin a.fl /\ "need_colon" \in a.fl /\ c = "colon"
       /\ fl = a.fl \ {"need_colon"}
    \/ Inside(vs, a) /\ c = "sp" /\ fl = a.fl
    \/ Inside(vs, a) /\ "need_comma" \in a.fl /\ c = "comma" /\ fl = a.fl \ {"need_comma"}
    \/ "done" \in a.fl /\ "string" \notin a.fl /\ c = "sp" /\ fl = a.fl

MoveTurn(vs, c, a, b) ==
    \E fl \in SUBSET ParserFlags : MoveFlags(vs, c, a, fl) /\ b = Moved(a, a.at + 1, fl, a.slen, a.byt)

CharTurn(c, a, b) ==
    /\ InString(a) /\ c # End
    /\ IF "escaped" \in a.fl THEN c # "u?" ELSE c \notin {"quote", "esc"}
    /\ b = Moved(a, a.at + 1, a.fl \ {"escaped"},
                 a.slen + (IF "escaped" \in a.fl THEN Width(c) ELSE 1), a.byt)

KeyBeginTurn(vs, c, a, b) ==
    /\ Inside(vs, a) /\ c = "quote" /\ "need_comma" \notin a.fl
    /\ b = Moved(a, a.at + 1, a.fl \cup {"string"}, 0, a.byt)

KeyEndTurn(vs, c, a, b) ==
    /\ InString(a) /\ "escaped" \notin a.fl /\ c = "quote" /\ vs[a.top].type = "object"
    /\ b = Moved(a, a.at + 1, (a.fl \ {"string"}) \cup {"seek_value", "need_colon"}, a.slen,
                 With(a.byt, a.top, a.byt[a.top] + a.slen + 1))

StringEndTurn(vs, c, a, b) ==
    /\ InString(a) /\ "escaped" \notin a.fl /\ c = "quote" /\ vs[a.top].type = "string"
    /\ b = Finished(vs, a, a.top, a.n, With(a.byt, a.top, a.slen), a.at + 1, a.fl \ {"string"})

ArrayEndTurn(vs, c, a, b) ==
    /\ Seeks(a) /\ c = "rbracket" /\ a.top # 0 /\ vs[a.top].type = "array"
    /\ b = Finished(vs, a, a.top, a.n, a.byt, a.at + 1, a.fl \ {"need_comma", "seek_value"})

ObjectEndTurn(vs, c, a, b) ==
    /\ Inside(vs, a) /\ c = "rbrace"
    /\ b = Finished(vs, a, a.top, a.n, a.byt, a.at + 1, a.fl \ {"need_comma"})

(* The value a turn begins at a: of type in T, under a's top.              *)
Newest(vs, a, T) == vs[a.n + 1].parent = a.top /\ vs[a.n + 1].type \in T

ArrayTurn(vs, c, a, b) ==
    /\ Begins(a) /\ c = "lbracket" /\ Newest(vs, a, {"array"})
    /\ b = Begun(a, a.at + 1, a.fl, a.slen)

ObjectTurn(vs, c, a, b) ==
    /\ Begins(a) /\ c = "lbrace" /\ Newest(vs, a, {"object"})
    /\ b = Begun(a, a.at + 1, a.fl \ {"seek_value"}, a.slen)

StringTurn(vs, c, a, b) ==
    /\ Begins(a) /\ c = "quote" /\ Newest(vs, a, {"string"})
    /\ b = Begun(a, a.at + 1, (a.fl \ {"seek_value"}) \cup {"string"}, 0)

WordTurn(vs, c, a, b) ==
    /\ Begins(a) /\ c \in Words
    /\ Newest(vs, a, {IF c = "true" THEN "boolean" ELSE "null"})
    /\ b = Finished(vs, a, a.n + 1, a.n + 1, a.byt, a.at + 1, a.fl \ {"seek_value"})

(* The bytes of a number that begins at position i, up to position e.      *)
NumberSpan(t, i, e) == e \in i..(Len(t) + 1) /\ \A j \in i..(e - 1) : t[j] \in NumberTokens
NumberStops(t, whole, e) == IF e <= Len(t) THEN t[e] \notin NumberTokens ELSE whole

NumberTurn(t, whole, vs, a, b) ==
    /\ Begins(a) /\ t[a.at] \in Digits \cup {"-"} /\ Newest(vs, a, Numeric)
    /\ \E e \in Nat :
          /\ e > a.at /\ NumberSpan(t, a.at, e) /\ NumberStops(t, whole, e)
          /\ b = Finished(vs, a, a.n + 1, a.n + 1, a.byt, e, a.fl \ {"seek_value"})

Turn(t, whole, vs, a, b) ==
    /\ a.at \in 1..Len(t)
    /\ \/ MoveTurn(vs, t[a.at], a, b) \/ CharTurn(t[a.at], a, b)
       \/ KeyBeginTurn(vs, t[a.at], a, b) \/ KeyEndTurn(vs, t[a.at], a, b)
       \/ StringEndTurn(vs, t[a.at], a, b) \/ ArrayEndTurn(vs, t[a.at], a, b)
       \/ ObjectEndTurn(vs, t[a.at], a, b) \/ ArrayTurn(vs, t[a.at], a, b)
       \/ ObjectTurn(vs, t[a.at], a, b) \/ StringTurn(vs, t[a.at], a, b)
       \/ WordTurn(vs, t[a.at], a, b) \/ NumberTurn(t, whole, vs, a, b)

-----------------------------------------------------------------------------
(* What holds at every point of a run                                      *)

(* The open values are a chain of parents, from the top to the root.       *)
Chain(vs, open, last) ==
    /\ \A v \in open : v <= last /\ (vs[v].parent = 0 \/ vs[v].parent \in open)
    /\ \A v, w \in open : w < v => w <= vs[v].parent

(* Values are numbered as they begin, under a value that is open then.     *)
Nested(vs, a) ==
    /\ \A v \in 2..a.n : vs[v].parent # 0 /\ vs[vs[v].parent].type \in Containers
    /\ \A v \in a.open : \A w \in 1..a.n : v < w => v <= vs[w].parent

(* Which flags go with which top.                                          *)
Mode(vs, a) ==
    IF "done" \in a.fl
    THEN a.open = {} /\ "string" \notin a.fl /\ "seek_value" \notin a.fl /\ a.n # 0
    ELSE IF a.n = 0 THEN a.top = 0 /\ a.open = {} /\ a.fl = {"seek_value"}
    ELSE /\ a.top \in a.open
         /\ \A v \in a.open : v # a.top => vs[v].type \in Containers
         /\ IF "string" \in a.fl
            THEN /\ "seek_value" \notin a.fl
                 /\ \/ vs[a.top].type = "object"
                    \/ vs[a.top].type = "string" /\ a.byt[a.top] = 0
            ELSE vs[a.top].type \in Containers

NoneBeyond(f, n) == \A v \in Nat : v > n => f[v] = 0

Sound(size, vs, a) ==
    /\ a \in Point
    /\ a.at \in 1..(size + 1) /\ a.n <= Len(vs) /\ a.top \in 0..a.n /\ a.open \subseteq 1..a.n
    /\ NoneBeyond(a.len, a.n) /\ NoneBeyond(a.byt, a.n)
    /\ Chain(vs, a.open, a.top) /\ Nested(vs, a) /\ Mode(vs, a)

(* What value v is bound to have from point a on: an element or member for *)
(* each one that is finished or begun, and the bytes read so far.          *)
LengthDue(vs, a, v) ==
    a.len[v] + IF v # a.top THEN IF v \in a.open THEN 1 ELSE 0
               ELSE IF /\ vs[v].type = "object"
                       /\ "string" \in a.fl \/ "seek_value" \in a.fl THEN 1 ELSE 0

BytesDue(vs, a, v) ==
    a.byt[v] + IF v = a.top /\ "string" \in a.fl
               THEN a.slen + (IF vs[v].type = "object" THEN 1 ELSE 0) ELSE 0

(* Point b is not before point a.                                          *)
Precedes(vs, a, b) ==
    /\ a.n <= b.n
    /\ \A v \in 1..a.n : /\ LengthDue(vs, a, v) <= LengthDue(vs, b, v)
                         /\ BytesDue(vs, a, v) <= BytesDue(vs, b, v)

Run(t, whole, vs, run) ==
    /\ run \in Seq(Point) /\ run # <<>> /\ run[1] = Start
    /\ \A i \in 1..Len(run) : Sound(Len(t), vs, run[i])
    /\ \A i \in 1..(Len(run) - 1) : Turn(t, whole, vs, run[i], run[i + 1])
    /\ \A i, j \in 1..Len(run) : i <= j => Precedes(vs, run[i], run[j])

Last(run) == run[Len(run)]

-----------------------------------------------------------------------------
(* The values at a point                                                   *)

(* They have the length and the bytes that were counted so far.            *)
Matches(vs, a) == \A v \in 1..a.n : vs[v].length = a.len[v] /\ vs[v].bytes = a.byt[v]

(* How many names an object has at point a.                                *)
NamesDue(a, v) ==
    a.len[v] + IF v # a.top THEN IF v \in a.open THEN 1 ELSE 0
               ELSE IF "seek_value" \in a.fl THEN 1 ELSE 0

(* What the second pass has filled at point a is linked as the run was     *)
(* read, and what it has not is as the last point z counted it.            *)
Filled(vs, z, a) ==
    \A v \in 1..Len(vs) :
      IF v > a.n THEN /\ vs[v].length = z.len[v] /\ vs[v].bytes = z.byt[v]
                      /\ vs[v].kids = <<>> /\ vs[v].names = <<>>
      ELSE /\ vs[v].capacity = z.len[v]
           /\ vs[v].room = z.byt[v] + (IF vs[v].type = "string" THEN 1 ELSE 0)
           /\ Len(vs[v].kids) = vs[v].length
           /\ vs[v].type = "object" => Len(vs[v].names) = NamesDue(a, v)

(* The kids of a value are the finished values under it, each once.        *)
Linked(vs, a) ==
    \A v \in 1..a.n :
      /\ \A i \in 1..Len(vs[v].kids) :
            /\ vs[v].kids[i] \in (1..a.n) \ a.open
            /\ vs[vs[v].kids[i]].parent = v
      /\ \A i, j \in 1..Len(vs[v].kids) : vs[v].kids[i] = vs[v].kids[j] => i = j
      /\ \A w \in (1..a.n) \ a.open :
            vs[w].parent = v => \E i \in 1..Len(vs[v].kids) : vs[v].kids[i] = w

-----------------------------------------------------------------------------
(* The state of the parser, and the run                                    *)

(* The parser stands at point a, in either pass.                           *)
At(a) ==
    /\ ptr = a.at /\ flags \ NumberFlags = a.fl /\ top = a.top /\ string_length = a.slen
    /\ root = IF a.n = 0 THEN 0 ELSE 1
    /\ Matches(values, a)

(* The first pass stands at a: it has begun as many values as there are.   *)
Counting(a) == At(a) /\ Len(values) = a.n

(* It is inside the number that begins at point a.                         *)
InsideNumber(a) ==
    /\ Begins(a) /\ a.at \in 1..Len(text) /\ text[a.at] \in Digits \cup {"-"}
    /\ Len(values) = a.n + 1 /\ Newest(values, a, Numeric)
    /\ values[a.n + 1].length = 0 /\ values[a.n + 1].bytes = 0
    /\ NumberSpan(text, a.at, ptr)
    /\ ptr = a.at => text[ptr] \in Digits
    /\ flags \ NumberFlags = a.fl \ {"seek_value"} /\ top = a.n + 1 /\ string_length = a.slen
    /\ root = 1
    /\ Matches(values, a)

(* A number is followed by one of its own tokens in the wrong place: the   *)
(* next turn fails.                                                        *)
Doomed ==
    /\ "need_comma" \in flags /\ "string" \notin flags /\ flags \subseteq ParserFlags \cup NumberFlags
    /\ ptr \in 1..Len(text) /\ text[ptr] \in {"+", "-", ".", "e"}
    /\ "done" \in flags \/ (top # 0 /\ values[top].type \in Containers)
    /\ values # <<>> /\ root = 1 /\ top \in 0..Len(values) /\ string_length \in Nat

(* The values of the first pass: a chain, of which nothing is filled.      *)
Chained ==
    /\ \A v \in 1..Len(values) : values[v].kids = <<>> /\ values[v].names = <<>>
    /\ heap = {Block(v) : v \in 1..Len(values)} /\ alloc = Len(values)

FirstPass(run) == Chained /\ (Counting(Last(run)) \/ InsideNumber(Last(run)) \/ Doomed)

Whole(z) ==
    /\ "done" \in z.fl /\ z.n = Len(values)
    /\ IF z.at <= Len(text) THEN text[z.at] = End ELSE ended

(* The second pass stands at a.                                            *)
Filling(z, a) ==
    /\ At(a)
    /\ alloc = IF a.n < Len(values) THEN a.n + 1 ELSE 0
    /\ Filled(values, z, a) /\ Linked(values, a)
    /\ heap \subseteq UNION {{Block(v), DataBlock(v)} : v \in 1..Len(values)}
    /\ \A v \in 1..Len(values) : Block(v) \in heap /\ (DataBlock(v) \in heap => v <= a.n)

SecondPass(run) ==
    /\ Whole(Last(run))
    /\ \E k \in 1..Len(run) :
          Filling(Last(run), run[k]) /\ (stage = "parsed" => k = Len(run))

Reading ==
    stage \in {"parsing", "parsed"} =>
      \E run : Run(text, ended, values, run) /\ IF pass = 1 THEN FirstPass(run) ELSE SecondPass(run)

-----------------------------------------------------------------------------
(* Points, and what a turn makes of them                                   *)

(* The values of a chain: their records, each under an earlier one.        *)
Shapes(vs) ==
    /\ vs \in Seq(ValueRecord)
    /\ \A v \in 1..Len(vs) : vs[v].parent < v

(* The first n values of vt have the parents and types of those of vs.     *)
Alike(vs, vt, n) ==
    \A v \in 1..n : /\ vt[v].parent = vs[v].parent
                    /\ vt[v].type = vs[v].type \/ {vt[v].type, vs[v].type} \subseteq Numeric

Counts(f) == f \in [Nat -> Nat]
Within(i, size) == i \in 1..(size + 1)

(* Moved, Begun and Finished make points of points.                        *)
LEMMA MovedPoint ==
  ASSUME NEW a \in Point, NEW at \in Nat, NEW fl \in SUBSET ParserFlags,
         NEW slen \in Nat, NEW byt, Counts(byt)
  PROVE  Moved(a, at, fl, slen, byt) \in Point
BY DEF Moved, Point, Counts

(* A value that begins at a point leads to a point.                        *)
LEMMA BegunPoint ==
  ASSUME NEW a \in Point, NEW at \in Nat, NEW fl \in SUBSET ParserFlags, NEW slen \in Nat
  PROVE  Begun(a, at, fl, slen) \in Point
BY DEF Begun, Point

(* So does one that is finished there.                                     *)
LEMMA FinishedPoint ==
  ASSUME NEW vs, NEW a \in Point, NEW v \in Nat, NEW n \in Nat, NEW byt, Counts(byt),
         NEW at \in Nat, NEW fl \in SUBSET ParserFlags, vs[v].parent \in Nat
  PROVE  Finished(vs, a, v, n, byt, at, fl) \in Point
<1>1. FinishedFlags(vs, v, fl) \in SUBSET ParserFlags
  BY DEF FinishedFlags, ParserFlags
<1>2. Tallied(a.len, vs[v].parent) \in [Nat -> Nat]
  <2>1. a.len \in [Nat -> Nat]
    BY DEF Point
  <2> QED
    BY <2>1 DEF Tallied
<1>3. a.open \ {v} \in SUBSET Nat
  BY DEF Point
<1> QED
  BY <1>1, <1>2, <1>3 DEF Finished, Point, Counts

(* The types of the parts of a point.                                      *)
LEMMA PointIs ==
  ASSUME NEW a \in Point
  PROVE  /\ a.at \in Nat /\ a.fl \in SUBSET ParserFlags /\ a.top \in Nat /\ a.slen \in Nat
         /\ a.n \in Nat /\ a.len \in [Nat -> Nat] /\ Counts(a.byt) /\ a.open \in SUBSET Nat
BY DEF Point, Counts

(* The parts of what is sound.                                             *)
LEMMA SoundIs ==
  ASSUME NEW size \in Nat, NEW vs, NEW a, Sound(size, vs, a)
  PROVE  /\ a \in Point
         /\ a.at \in 1..(size + 1) /\ a.n <= Len(vs) /\ a.top \in 0..a.n /\ a.open \subseteq 1..a.n
         /\ NoneBeyond(a.len, a.n) /\ NoneBeyond(a.byt, a.n)
         /\ Chain(vs, a.open, a.top) /\ Nested(vs, a) /\ Mode(vs, a)
BY DEF Sound

(* A value lies under an earlier one, or under none.                       *)
LEMMA ShapesIs ==
  ASSUME NEW vs, Shapes(vs)
  PROVE  /\ Len(vs) \in Nat
         /\ \A w \in 1..Len(vs) : vs[w].parent \in Nat /\ vs[w].parent < w
<1>1. vs \in Seq(ValueRecord)
  BY DEF Shapes
<1>2. \A w \in 1..Len(vs) : vs[w] \in ValueRecord
  BY <1>1
<1>3. \A w \in 1..Len(vs) : vs[w].parent \in Nat
  BY <1>2 DEF ValueRecord
<1> QED
  BY <1>1, <1>3 DEF Shapes

(* The value begun is open, under the top it was begun at.                 *)
LEMMA SoundBegun ==
  ASSUME NEW size \in Nat, NEW vs, NEW a, NEW at, Within(at, size), NEW fl \in SUBSET ParserFlags,
         NEW slen \in Nat, Shapes(vs), Sound(size, vs, a), Begins(a), a.n + 1 <= Len(vs),
         vs[a.n + 1].parent = a.top, Mode(vs, Begun(a, at, fl, slen))
  PROVE  Sound(size, vs, Begun(a, at, fl, slen))
<1> DEFINE b == Begun(a, at, fl, slen)
<1>1. a \in Point /\ a.n \in Nat
  BY SoundIs, PointIs
<1>2. /\ b.at = at /\ b.top = a.n + 1 /\ b.n = a.n + 1 /\ b.len = a.len
      /\ b.byt = a.byt /\ b.open = a.open \cup {a.n + 1}
  BY DEF Begun
<1>11. b \in Point
  BY <1>1, BegunPoint DEF Within
<1> HIDE DEF b
<1>3. /\ a.open \subseteq 1..a.n /\ a.top \in 0..a.n
      /\ Chain(vs, a.open, a.top) /\ Nested(vs, a) /\ Mode(vs, a)
  BY SoundIs
<1>4. "done" \notin a.fl /\ "seek_value" \in a.fl /\ "string" \notin a.fl
  BY DEF Begins, Seeks
<1>5. a.n = 0 => a.top = 0 /\ a.open = {}
  BY <1>3, <1>4 DEF Mode
<1>6. a.n # 0 => a.top \in a.open /\ vs[a.top].type \in Containers
  BY <1>3, <1>4 DEF Mode
<1>7. Chain(vs, b.open, b.top)
  <2>1. \A v \in b.open : v <= b.top /\ (vs[v].parent = 0 \/ vs[v].parent \in b.open)
    BY <1>1, <1>2, <1>3, <1>5, <1>6 DEF Chain
  <2>2. \A v, w \in b.open : w < v => w <= vs[v].parent
    <3> SUFFICES ASSUME NEW v \in b.open, NEW w \in b.open, w < v PROVE w <= vs[v].parent
      OBVIOUS
    <3>1. w \in a.open
      BY <1>1, <1>2, <1>3
    <3>2. CASE v = a.n + 1
      BY <3>1, <3>2, <1>3 DEF Chain
    <3>3. CASE v \in a.open
      BY <3>1, <3>3, <1>3 DEF Chain
    <3> QED
      BY <3>2, <3>3, <1>2
  <2> QED
    BY <2>1, <2>2 DEF Chain
<1>8. Nested(vs, b)
  <2>1. \A v \in 2..b.n : vs[v].parent # 0 /\ vs[vs[v].parent].type \in Containers
    <3> SUFFICES ASSUME NEW v \in 2..b.n PROVE vs[v].parent # 0 /\ vs[vs[v].parent].type \in Containers
      OBVIOUS
    <3>1. CASE v \in 2..a.n
      BY <3>1, <1>3 DEF Nested
    <3>2. CASE v = a.n + 1
      BY <3>2, <1>1, <1>3, <1>6, SMTT(60)
    <3> QED
      BY <3>1, <3>2, <1>1, <1>2
  <2>2. \A v \in b.open : \A w \in 1..b.n : v < w => v <= vs[w].parent
    <3> SUFFICES ASSUME NEW v \in b.open, NEW w \in 1..b.n, v < w PROVE v <= vs[w].parent
      OBVIOUS
    <3>1. v \in a.open
      BY <1>1, <1>2, <1>3
    <3>2. CASE w \in 1..a.n
      BY <3>1, <3>2, <1>3 DEF Nested
    <3>3. CASE w = a.n + 1
      BY <3>1, <3>3, <1>3 DEF Chain
    <3> QED
      BY <3>2, <3>3, <1>1, <1>2
  <2> QED
    BY <2>1, <2>2 DEF Nested
<1>9. NoneBeyond(b.len, b.n) /\ NoneBeyond(b.byt, b.n)
  BY <1>1, <1>2, SoundIs DEF NoneBeyond
<1>10. Mode(vs, b)
  BY DEF b
<1> QED
  <2>1. b.at \in 1..(size + 1) /\ b.n <= Len(vs) /\ b.top \in 0..b.n /\ b.open \subseteq 1..b.n
    BY <1>1, <1>2, <1>3 DEF Within
  <2>2. Sound(size, vs, b)
    BY <1>2, <1>7, <1>8, <1>9, <1>10, <1>11, <2>1 DEF Sound
  <2> QED
    BY <2>2 DEF b

(* A value is finished when it is the top, or a word or number just read.  *)
Finishes(vs, a, v, n) ==
    \/ n = a.n /\ v = a.top /\ v \in a.open
    \/ n = a.n + 1 /\ v = a.n + 1 /\ vs[v].parent = a.top /\ Begins(a)

(* What holds at every point holds after a value is finished: under its    *)
(* parent, or the root with nothing open.                                  *)
LEMMA SoundFinished ==
  ASSUME NEW size \in Nat, NEW vs, NEW a, NEW v, NEW n, NEW byt, Counts(byt), NEW at, Within(at, size),
         NEW fl \in SUBSET ParserFlags, Shapes(vs), Sound(size, vs, a),
         "done" \notin a.fl, Finishes(vs, a, v, n), n <= Len(vs),
         "done" \notin fl, "string" \notin fl, "seek_value" \notin fl,
         NoneBeyond(byt, n)
  PROVE  /\ Sound(size, vs, Finished(vs, a, v, n, byt, at, fl))
         /\ v \in Nat /\ n \in Nat /\ vs[v].parent \in Nat
<1> DEFINE b == Finished(vs, a, v, n, byt, at, fl)
           p == vs[v].parent
<1>1. a \in Point /\ a.n \in Nat /\ at \in Nat
  <2>1. a \in Point
    BY SoundIs
  <2>2. a.n \in Nat
    BY <2>1, PointIs
  <2> QED
    BY <2>1, <2>2 DEF Within
<1>2. /\ a.open \subseteq 1..a.n /\ a.top \in 0..a.n /\ a.n <= Len(vs)
      /\ Chain(vs, a.open, a.top) /\ Nested(vs, a) /\ Mode(vs, a)
  BY SoundIs
<1>3. v \in 1..n /\ n \in Nat /\ n >= a.n
  BY <1>1, <1>2 DEF Finishes
<1>4. \A w \in 1..Len(vs) : vs[w].parent \in Nat /\ vs[w].parent < w
  BY ShapesIs
<1>5. p \in Nat /\ p < v
  BY <1>3, <1>4
<1>6. /\ b \in Point /\ b.at = at /\ b.fl = FinishedFlags(vs, v, fl)
      /\ b.top = IF p = 0 THEN v ELSE p
      /\ b.n = n /\ b.byt = byt /\ b.open = a.open \ {v}
      /\ b.len = Tallied(a.len, p)
  <2>1. v \in Nat /\ n \in Nat /\ at \in Nat /\ vs[v].parent \in Nat /\ a \in Point
    BY <1>1, <1>3, <1>5
  <2>2. fl \in SUBSET ParserFlags /\ Counts(byt)
    OBVIOUS
  <2>3. b \in Point
    BY <2>1, <2>2, FinishedPoint, Zenon
  <2>4. /\ b.at = at /\ b.fl = FinishedFlags(vs, v, fl)
        /\ b.top = IF p = 0 THEN v ELSE p
        /\ b.n = n /\ b.byt = byt /\ b.open = a.open \ {v}
        /\ b.len = Tallied(a.len, p)
    BY DEF Finished
  <2> QED
    BY <2>3, <2>4
<1> HIDE DEF b
<1>7. a.n = 0 => a.top = 0 /\ a.open = {}
  BY <1>2 DEF Mode
<1>8. a.n # 0 => a.top \in a.open
  BY <1>2 DEF Mode
<1>9. Begins(a) /\ a.n # 0 => vs[a.top].type \in Containers
  BY <1>2 DEF Mode, Begins, Seeks
<1>10. p = 0 => b.open = {}
  <2> SUFFICES ASSUME p = 0, NEW w \in b.open PROVE FALSE
    OBVIOUS
  <2>1. w \in a.open /\ w # v /\ w >= 1
    BY <1>1, <1>2, <1>6
  <2>2. CASE v = a.top /\ v \in a.open
    BY <2>1, <2>2, <1>1, <1>2 DEF Chain
  <2>3. CASE vs[v].parent = a.top
    BY <2>1, <2>3, <1>1, <1>2, <1>7, <1>8
  <2> QED
    BY <2>2, <2>3 DEF Finishes
<1>11. p # 0 => /\ p \in b.open /\ vs[p].type \in Containers
                /\ \A w \in b.open : w <= p /\ (w # p => vs[w].type \in Containers)
  <2> SUFFICES ASSUME p # 0
               PROVE  /\ p \in b.open /\ vs[p].type \in Containers
                      /\ \A w \in b.open : w <= p /\ (w # p => vs[w].type \in Containers)
    OBVIOUS
  <2>1. \A w \in a.open : w # a.top => vs[w].type \in Containers
    BY <1>2, <1>7 DEF Mode
  <2>2. CASE v = a.top /\ v \in a.open
    <3>1. p \in a.open /\ p # a.top
      BY <2>2, <1>2, <1>5 DEF Chain
    <3>2. \A w \in b.open : w \in a.open /\ w < v
      BY <2>2, <1>1, <1>2, <1>6 DEF Chain
    <3>3. \A w \in b.open : w <= p
      BY <2>2, <3>2, <1>2 DEF Chain
    <3> QED
      BY <3>1, <3>2, <3>3, <2>1, <2>2, <1>5, <1>6
  <2>3. CASE v = a.n + 1 /\ vs[v].parent = a.top /\ Begins(a)
    <3>1. p = a.top /\ p \in a.open /\ vs[p].type \in Containers
      BY <2>3, <1>7, <1>8, <1>9
    <3> QED
      BY <3>1, <2>1, <2>3, <1>1, <1>2, <1>5, <1>6 DEF Chain
  <2> QED
    BY <2>2, <2>3 DEF Finishes
<1>12. Chain(vs, b.open, b.top)
  <2>1. \A w \in b.open : vs[w].parent = 0 \/ vs[w].parent \in b.open
    <3> SUFFICES ASSUME NEW w \in b.open, vs[w].parent # 0 PROVE vs[w].parent \in b.open
      OBVIOUS
    <3>1. w \in a.open /\ p # 0
      BY <1>6, <1>10
    <3>2. vs[w].parent \in a.open /\ vs[w].parent < w
      BY <3>1, <1>1, <1>2, <1>4 DEF Chain
    <3>3. w <= p
      BY <3>1, <1>11
    <3>4. vs[w].parent # v
      BY <3>2, <3>3, <1>3, <1>4, <1>1, <1>2, <1>5, <3>1
    <3> QED
      BY <3>2, <3>4, <1>6
  <2>2. \A w \in b.open : w <= b.top
    BY <1>6, <1>10, <1>11
  <2>3. \A u, w \in b.open : w < u => w <= vs[u].parent
    BY <1>2, <1>6 DEF Chain
  <2> QED
    BY <2>1, <2>2, <2>3 DEF Chain
<1>13. Nested(vs, b)
  <2>1. \A w \in 2..b.n : vs[w].parent # 0 /\ vs[vs[w].parent].type \in Containers
    <3> SUFFICES ASSUME NEW w \in 2..b.n PROVE vs[w].parent # 0 /\ vs[vs[w].parent].type \in Containers
      OBVIOUS
    <3>1. CASE w \in 2..a.n
      BY <3>1, <1>2 DEF Nested
    <3>2. CASE w = a.n + 1 /\ n = a.n + 1
      <4>1. vs[w].parent = a.top /\ Begins(a) /\ a.n # 0
        BY <3>2, <1>1 DEF Finishes
      <4> QED
        BY <4>1, <1>8, <1>9, <1>2
    <3> QED
      BY <3>1, <3>2, <1>1, <1>6 DEF Finishes
  <2>2. \A u \in b.open : \A w \in 1..b.n : u < w => u <= vs[w].parent
    <3> SUFFICES ASSUME NEW u \in b.open, NEW w \in 1..b.n, u < w PROVE u <= vs[w].parent
      OBVIOUS
    <3>1. u \in a.open
      BY <1>6
    <3>2. CASE w \in 1..a.n
      BY <3>1, <3>2, <1>2 DEF Nested
    <3>3. CASE w = a.n + 1 /\ n = a.n + 1
      <4>1. vs[w].parent = a.top
        BY <3>3, <1>1 DEF Finishes
      <4> QED
        BY <3>1, <4>1, <1>2 DEF Chain
    <3> QED
      BY <3>2, <3>3, <1>1, <1>6 DEF Finishes
  <2> QED
    BY <2>1, <2>2 DEF Nested
<1>14. NoneBeyond(b.len, b.n) /\ NoneBeyond(b.byt, b.n)
  <2>1. NoneBeyond(a.len, a.n) /\ a.len \in [Nat -> Nat]
    BY <1>1, SoundIs, PointIs
  <2>2. ASSUME NEW w \in Nat, w > n PROVE b.len[w] = a.len[w] /\ w > a.n
    <3>1. w # p /\ w > a.n
      BY <2>2, <1>1, <1>3, <1>5
    <3> QED
      BY <3>1, <2>1, <1>5, <1>6 DEF Tallied
  <2>3. NoneBeyond(b.len, b.n)
    BY <2>1, <2>2, <1>6 DEF NoneBeyond
  <2> QED
    BY <2>3, <1>6
<1>15. Mode(vs, b)
  <2>1. CASE p = 0
    <3>1. b.fl = fl \cup {"need_comma", "done"}
      BY <2>1, <1>6 DEF FinishedFlags
    <3> QED
      BY <2>1, <3>1, <1>3, <1>6, <1>10 DEF Mode
  <2>2. CASE p # 0
    <3>1. b.fl \subseteq fl \cup {"need_comma", "seek_value"}
      BY <2>2, <1>6 DEF FinishedFlags
    <3>2. "done" \notin b.fl /\ "string" \notin b.fl
      BY <3>1
    <3> QED
      BY <2>2, <3>2, <1>3, <1>6, <1>11 DEF Mode
  <2> QED
    BY <2>1, <2>2
<1>16. b.at \in 1..(size + 1) /\ b.n <= Len(vs) /\ b.top \in 0..b.n /\ b.open \subseteq 1..b.n
  BY <1>1, <1>2, <1>3, <1>5, <1>6 DEF Within
<1>17. Sound(size, vs, b)
  BY <1>6, <1>12, <1>13, <1>14, <1>15, <1>16 DEF Sound
<1> QED
  BY <1>3, <1>5, <1>17 DEF b

(* What a character of a string adds.                                      *)
LEMMA WidthIs == ASSUME NEW c PROVE Width(c) \in 1..4
<1>1. Width(c) \in {1, 2, 3, 4}
  BY Zenon DEF Width
<1> QED
  BY <1>1

(* Counts of the first n values stay so when one of them changes.          *)
LEMMA CountsKept ==
  ASSUME NEW f, NEW n \in Nat, NEW k \in 0..n, NEW x \in Nat, Counts(f), NoneBeyond(f, n)
  PROVE  Counts(With(f, k, x)) /\ NoneBeyond(With(f, k, x), n)
<1>1. f \in [Nat -> Nat]
  BY DEF Counts
<1>2. [f EXCEPT ![k] = x] \in [Nat -> Nat]
  BY <1>1
<1>3. \A v \in Nat : v > n => [f EXCEPT ![k] = x][v] = f[v]
  BY <1>1
<1> QED
  BY <1>2, <1>3 DEF Counts, NoneBeyond, With

(* A turn that neither begins nor finishes a value keeps a point sound.    *)
LEMMA SoundMoved ==
  ASSUME NEW size \in Nat, NEW vs, NEW a, NEW fl \in SUBSET ParserFlags, NEW slen \in Nat,
         NEW byt, Counts(byt), Sound(size, vs, a), a.at \in 1..size, NoneBeyond(byt, a.n),
         Mode(vs, Moved(a, a.at + 1, fl, slen, byt))
  PROVE  Sound(size, vs, Moved(a, a.at + 1, fl, slen, byt))
<1> DEFINE b == Moved(a, a.at + 1, fl, slen, byt)
<1>1. a \in Point /\ a.at + 1 \in Nat
  BY SoundIs
<1>2. b \in Point
  BY <1>1, MovedPoint, Zenon
<1>3. /\ b.at = a.at + 1 /\ b.top = a.top /\ b.n = a.n
      /\ b.open = a.open /\ b.len = a.len /\ b.byt = byt
  BY DEF Moved
<1> HIDE DEF b
<1>4. /\ a.n <= Len(vs) /\ a.top \in 0..a.n /\ a.open \subseteq 1..a.n
      /\ NoneBeyond(a.len, a.n) /\ Chain(vs, a.open, a.top) /\ Nested(vs, a)
  BY SoundIs
<1>5. Nested(vs, b)
  BY <1>3, <1>4 DEF Nested
<1>6. Mode(vs, b)
  BY DEF b
<1>7. Sound(size, vs, b)
  BY <1>2, <1>3, <1>4, <1>5, <1>6 DEF Sound
<1> QED
  BY <1>7 DEF b

(* The flags fit the top when a value is begun.                            *)
LEMMA ModeBegun ==
  ASSUME NEW vs, NEW a, NEW at, NEW fl, NEW slen, Mode(vs, a), Begins(a),
         a.n \in Nat, a.open \subseteq 1..a.n, "done" \notin fl,
         IF "string" \in fl
         THEN "seek_value" \notin fl /\ vs[a.n + 1].type = "string" /\ a.byt[a.n + 1] = 0
         ELSE vs[a.n + 1].type \in Containers
  PROVE  Mode(vs, Begun(a, at, fl, slen))
<1> DEFINE b == Begun(a, at, fl, slen)
<1>1. /\ b.fl = fl /\ b.top = a.n + 1 /\ b.n = a.n + 1 /\ b.open = a.open \cup {a.n + 1}
      /\ b.byt = a.byt
  BY DEF Begun
<1> HIDE DEF b
<1>2. "done" \notin a.fl /\ "string" \notin a.fl
  BY DEF Begins, Seeks
<1>3. \A v \in a.open : vs[v].type \in Containers
  <2>1. CASE a.n = 0
    BY <2>1
  <2>2. CASE a.n # 0
    BY <2>2, <1>2 DEF Mode
  <2> QED
    BY <2>1, <2>2
<1>4. Mode(vs, b)
  BY <1>1, <1>3 DEF Mode
<1> QED
  BY <1>4 DEF b

(* Every turn leads from a sound point to a sound point.                   *)
LEMMA TurnSound ==
  ASSUME NEW t, NEW whole, NEW vs, NEW a, NEW b, Len(t) \in Nat, Shapes(vs),
         Sound(Len(t), vs, a), Turn(t, whole, vs, a, b), b.n <= Len(vs)
  PROVE  Sound(Len(t), vs, b)
<1> DEFINE size == Len(t)
           c == t[a.at]
<1> SUFFICES Sound(size, vs, b)
  OBVIOUS
<1>1. size \in Nat /\ a.at \in Nat /\ a.at \in 1..size
  BY DEF Turn
<1>2. Sound(size, vs, a)
  OBVIOUS
<1>18. \/ MoveTurn(vs, c, a, b) \/ CharTurn(c, a, b)
       \/ KeyBeginTurn(vs, c, a, b) \/ KeyEndTurn(vs, c, a, b)
       \/ StringEndTurn(vs, c, a, b) \/ ArrayEndTurn(vs, c, a, b)
       \/ ObjectEndTurn(vs, c, a, b) \/ ArrayTurn(vs, c, a, b)
       \/ ObjectTurn(vs, c, a, b) \/ StringTurn(vs, c, a, b)
       \/ WordTurn(vs, c, a, b) \/ NumberTurn(t, whole, vs, a, b)
  BY DEF Turn
<1> HIDE DEF size, c
<1>3. /\ a.fl \in SUBSET ParserFlags /\ a.top \in Nat /\ a.slen \in Nat /\ a.n \in Nat
      /\ Counts(a.byt)
  BY <1>2, SoundIs, PointIs
<1>4. /\ a.open \subseteq 1..a.n /\ a.top \in 0..a.n /\ NoneBeyond(a.byt, a.n) /\ Mode(vs, a)
  BY <1>2, SoundIs
<1>5. Within(a.at + 1, size)
  BY <1>1 DEF Within
<1>6. CASE MoveTurn(vs, c, a, b)
  <2>1. PICK fl \in SUBSET ParserFlags :
           MoveFlags(vs, c, a, fl) /\ b = Moved(a, a.at + 1, fl, a.slen, a.byt)
    BY <1>6 DEF MoveTurn
  <2>2. b.fl = fl /\ b.top = a.top /\ b.n = a.n /\ b.open = a.open /\ b.byt = a.byt
    BY <2>1 DEF Moved
  <2>3. /\ "done" \in fl <=> "done" \in a.fl
        /\ "string" \in fl <=> "string" \in a.fl
        /\ "seek_value" \in fl <=> "seek_value" \in a.fl
    BY <2>1 DEF MoveFlags
  <2>4. a.n = 0 /\ "done" \notin a.fl => fl = {"seek_value"}
    BY <2>1, <1>4 DEF MoveFlags, Mode, InString, Seeks, Inside
  <2>5. Mode(vs, b)
    BY <2>2, <2>3, <2>4, <1>4 DEF Mode
  <2> QED
    BY <2>1, <2>5, <1>1, <1>2, <1>3, <1>4, SoundMoved
<1>7. CASE CharTurn(c, a, b)
  <2> DEFINE slen == a.slen + (IF "escaped" \in a.fl THEN Width(c) ELSE 1)
  <2>1. slen \in Nat
    <3>1. Width(c) \in Nat
      BY WidthIs
    <3> QED
      BY <3>1, <1>3
  <2>2. b = Moved(a, a.at + 1, a.fl \ {"escaped"}, slen, a.byt) /\ "string" \in a.fl
    BY <1>7 DEF CharTurn, InString
  <2> HIDE DEF slen
  <2>3. /\ b.fl = a.fl \ {"escaped"} /\ b.top = a.top /\ b.n = a.n
        /\ b.open = a.open /\ b.byt = a.byt
    BY <2>2 DEF Moved
  <2>4. Mode(vs, b)
    BY <2>2, <2>3, <1>4 DEF Mode
  <2>5. a.fl \ {"escaped"} \in SUBSET ParserFlags
    BY <1>3
  <2> QED
    BY <2>1, <2>2, <2>4, <2>5, <1>1, <1>2, <1>3, <1>4, SoundMoved
<1>8. CASE KeyBeginTurn(vs, c, a, b)
  <2>1. b = Moved(a, a.at + 1, a.fl \cup {"string"}, 0, a.byt) /\ Inside(vs, a)
    BY <1>8 DEF KeyBeginTurn
  <2>2. /\ b.fl = a.fl \cup {"string"} /\ b.top = a.top /\ b.n = a.n
        /\ b.open = a.open /\ b.byt = a.byt
    BY <2>1 DEF Moved
  <2>3. Mode(vs, b)
    BY <2>1, <2>2, <1>4 DEF Mode, Inside
  <2>4. a.fl \cup {"string"} \in SUBSET ParserFlags
    BY <1>3 DEF ParserFlags
  <2> QED
    BY <2>1, <2>3, <2>4, <1>1, <1>2, <1>3, <1>4, SoundMoved
<1>9. CASE KeyEndTurn(vs, c, a, b)
  <2> DEFINE fl == (a.fl \ {"string"}) \cup {"seek_value", "need_colon"}
             byt == With(a.byt, a.top, a.byt[a.top] + a.slen + 1)
  <2>1. b = Moved(a, a.at + 1, fl, a.slen, byt) /\ vs[a.top].type = "object" /\ "string" \in a.fl
    BY <1>9 DEF KeyEndTurn, InString
  <2>2. b.fl = fl /\ b.top = a.top /\ b.n = a.n /\ b.open = a.open
    BY <2>1 DEF Moved
  <2>3. "done" \notin a.fl /\ a.n # 0 /\ a.top \in a.open
    BY <2>1, <1>4 DEF Mode
  <2>4. Mode(vs, b)
    BY <2>1, <2>2, <2>3, <1>4 DEF Mode, Containers
  <2>5. fl \in SUBSET ParserFlags
    BY <1>3 DEF ParserFlags
  <2>6. a.byt[a.top] + a.slen + 1 \in Nat
    <3>1. a.byt \in [Nat -> Nat]
      BY <1>3 DEF Counts
    <3>2. a.byt[a.top] \in Nat
      BY <3>1, <1>3
    <3> QED
      BY <3>2, <1>3
  <2>7. Counts(byt) /\ NoneBeyond(byt, a.n)
    BY <2>6, <1>3, <1>4, CountsKept
  <2> HIDE DEF fl, byt
  <2> QED
    BY <2>1, <2>4, <2>5, <2>7, <1>1, <1>2, <1>3, SoundMoved
<1>10. CASE StringEndTurn(vs, c, a, b)
  <2> DEFINE fl == a.fl \ {"string"}
             byt == With(a.byt, a.top, a.slen)
  <2>1. b = Finished(vs, a, a.top, a.n, byt, a.at + 1, fl) /\ "string" \in a.fl
    BY <1>10 DEF StringEndTurn, InString
  <2>2. "done" \notin a.fl /\ "seek_value" \notin a.fl /\ a.top \in a.open
    BY <2>1, <1>4 DEF Mode
  <2>3. fl \in SUBSET ParserFlags /\ "done" \notin fl /\ "string" \notin fl /\ "seek_value" \notin fl
    BY <2>2, <1>3
  <2>5. Counts(byt) /\ NoneBeyond(byt, a.n)
    BY <1>3, <1>4, CountsKept
  <2>6. Finishes(vs, a, a.top, a.n) /\ a.n <= Len(vs)
    BY <2>2, <1>2, SoundIs DEF Finishes
  <2> HIDE DEF fl, byt
  <2> QED
    BY <2>1, <2>2, <2>3, <2>5, <2>6, <1>1, <1>2, <1>5, SoundFinished
<1>11. CASE ArrayEndTurn(vs, c, a, b)
  <2> DEFINE fl == a.fl \ {"need_comma", "seek_value"}
  <2>1. b = Finished(vs, a, a.top, a.n, a.byt, a.at + 1, fl) /\ Seeks(a) /\ a.top # 0
    BY <1>11 DEF ArrayEndTurn
  <2>2. "done" \notin a.fl /\ "string" \notin a.fl /\ a.top \in a.open
    BY <2>1, <1>4 DEF Mode, Seeks
  <2>3. fl \in SUBSET ParserFlags /\ "done" \notin fl /\ "string" \notin fl /\ "seek_value" \notin fl
    BY <2>2, <1>3
  <2>4. Finishes(vs, a, a.top, a.n) /\ a.n <= Len(vs)
    BY <2>2, <1>2, SoundIs DEF Finishes
  <2> HIDE DEF fl
  <2> QED
    BY <2>1, <2>2, <2>3, <2>4, <1>1, <1>2, <1>3, <1>4, <1>5, SoundFinished
<1>12. CASE ObjectEndTurn(vs, c, a, b)
  <2> DEFINE fl == a.fl \ {"need_comma"}
  <2>1. b = Finished(vs, a, a.top, a.n, a.byt, a.at + 1, fl) /\ Inside(vs, a)
    BY <1>12 DEF ObjectEndTurn
  <2>2. a.top \in a.open
    BY <2>1, <1>4 DEF Mode, Inside
  <2>3. fl \in SUBSET ParserFlags /\ "done" \notin fl /\ "string" \notin fl /\ "seek_value" \notin fl
        /\ "done" \notin a.fl
    BY <2>1, <1>3 DEF Inside
  <2>4. Finishes(vs, a, a.top, a.n) /\ a.n <= Len(vs)
    BY <2>2, <1>2, SoundIs DEF Finishes
  <2> HIDE DEF fl
  <2> QED
    BY <2>1, <2>3, <2>4, <1>1, <1>2, <1>3, <1>4, <1>5, SoundFinished
<1>13. CASE ArrayTurn(vs, c, a, b)
  <2>1. /\ b = Begun(a, a.at + 1, a.fl, a.slen) /\ Begins(a)
        /\ vs[a.n + 1].parent = a.top /\ vs[a.n + 1].type = "array"
    BY <1>13 DEF ArrayTurn, Newest
  <2>2. b.fl = a.fl /\ b.top = a.n + 1 /\ b.n = a.n + 1 /\ b.open = a.open \cup {a.n + 1}
    BY <2>1 DEF Begun
  <2>3. Mode(vs, b)
    BY <2>1, <1>3, <1>4, ModeBegun DEF Begins, Seeks, Containers
  <2> QED
    BY <2>1, <2>2, <2>3, <1>1, <1>2, <1>3, <1>5, SoundBegun
<1>14. CASE ObjectTurn(vs, c, a, b)
  <2>1. /\ b = Begun(a, a.at + 1, a.fl \ {"seek_value"}, a.slen) /\ Begins(a)
        /\ vs[a.n + 1].parent = a.top /\ vs[a.n + 1].type = "object"
    BY <1>14 DEF ObjectTurn, Newest
  <2>2. /\ b.fl = a.fl \ {"seek_value"} /\ b.top = a.n + 1 /\ b.n = a.n + 1
        /\ b.open = a.open \cup {a.n + 1}
    BY <2>1 DEF Begun
  <2>3. Mode(vs, b)
    BY <2>1, <1>3, <1>4, ModeBegun DEF Begins, Seeks, Containers
  <2>4. a.fl \ {"seek_value"} \in SUBSET ParserFlags
    BY <1>3
  <2> QED
    BY <2>1, <2>2, <2>3, <2>4, <1>1, <1>2, <1>3, <1>5, SoundBegun
<1>15. CASE StringTurn(vs, c, a, b)
  <2> DEFINE fl == (a.fl \ {"seek_value"}) \cup {"string"}
  <2>1. /\ b = Begun(a, a.at + 1, fl, 0) /\ Begins(a)
        /\ vs[a.n + 1].parent = a.top /\ vs[a.n + 1].type = "string"
    BY <1>15 DEF StringTurn, Newest
  <2>2. /\ b.fl = fl /\ b.top = a.n + 1 /\ b.n = a.n + 1 /\ b.open = a.open \cup {a.n + 1}
        /\ b.byt = a.byt
    BY <2>1 DEF Begun
  <2>3. a.byt[a.n + 1] = 0
    BY <1>3, <1>4 DEF NoneBeyond
  <2>4. Mode(vs, b)
    BY <2>1, <2>3, <1>3, <1>4, ModeBegun DEF Begins, Seeks
  <2>5. fl \in SUBSET ParserFlags
    BY <1>3 DEF ParserFlags
  <2> HIDE DEF fl
  <2> QED
    BY <2>1, <2>2, <2>4, <2>5, <1>1, <1>2, <1>3, <1>5, SoundBegun
<1>16. ASSUME NEW e, Within(e, size), Begins(a), vs[a.n + 1].parent = a.top,
              b = Finished(vs, a, a.n + 1, a.n + 1, a.byt, e, a.fl \ {"seek_value"})
       PROVE  Sound(size, vs, b)
  <2> DEFINE fl == a.fl \ {"seek_value"}
  <2>1. fl \in SUBSET ParserFlags /\ "done" \notin fl /\ "string" \notin fl /\ "seek_value" \notin fl
        /\ "done" \notin a.fl
    BY <1>16, <1>3 DEF Begins, Seeks
  <2>2. Finishes(vs, a, a.n + 1, a.n + 1)
    BY <1>16 DEF Finishes
  <2>3. a.n + 1 <= Len(vs)
    BY <1>16 DEF Finished
  <2>4. NoneBeyond(a.byt, a.n + 1)
    BY <1>3, <1>4 DEF NoneBeyond
  <2>5. b = Finished(vs, a, a.n + 1, a.n + 1, a.byt, e, fl)
    BY <1>16
  <2> HIDE DEF fl
  <2> QED
    BY <1>16, <2>1, <2>2, <2>3, <2>4, <2>5, <1>1, <1>2, <1>3, SoundFinished
<1>17. CASE WordTurn(vs, c, a, b)
  BY <1>5, <1>16, <1>17 DEF WordTurn, Newest
<1>19. CASE NumberTurn(t, whole, vs, a, b)
  <2>1. PICK e \in Nat : /\ e > a.at /\ NumberSpan(t, a.at, e)
                         /\ b = Finished(vs, a, a.n + 1, a.n + 1, a.byt, e, a.fl \ {"seek_value"})
    BY <1>19 DEF NumberTurn
  <2>2. Within(e, size)
    BY <2>1, <1>1 DEF Within, NumberSpan, size
  <2> QED
    BY <1>19, <2>1, <2>2, <1>16 DEF NumberTurn, Newest
<1> QED
  BY <1>6, <1>7, <1>8, <1>9, <1>10, <1>11, <1>12, <1>13, <1>14, <1>15, <1>17, <1>18, <1>19

(* What is due never becomes less: a turn within a value,                  *)
LEMMA PrecedesMoved ==
  ASSUME NEW size \in Nat, NEW vs, NEW a, NEW at, NEW fl, NEW slen, NEW byt, Sound(size, vs, a),
         "string" \in a.fl \/ "seek_value" \in a.fl => "string" \in fl \/ "seek_value" \in fl,
         \A v \in 1..a.n : v # a.top => a.byt[v] = byt[v],
         BytesDue(vs, a, a.top) <= BytesDue(vs, Moved(a, at, fl, slen, byt), a.top)
  PROVE  Precedes(vs, a, Moved(a, at, fl, slen, byt))
<1> DEFINE b == Moved(a, at, fl, slen, byt)
<1>1. /\ b.fl = fl /\ b.top = a.top /\ b.n = a.n /\ b.open = a.open /\ b.len = a.len /\ b.byt = byt
  BY DEF Moved
<1>2. BytesDue(vs, a, a.top) <= BytesDue(vs, b, a.top)
  OBVIOUS
<1> HIDE DEF b
<1>3. a \in Point
  BY SoundIs
<1>4. a.n \in Nat /\ a.len \in [Nat -> Nat] /\ a.byt \in [Nat -> Nat]
  BY <1>3, PointIs DEF Counts
<1>5. ASSUME NEW v \in 1..a.n
      PROVE  LengthDue(vs, a, v) <= LengthDue(vs, b, v)
  <2>1. a.len[v] \in Nat
    BY <1>4
  <2> QED
    BY <2>1, <1>1 DEF LengthDue
<1>6. ASSUME NEW v \in 1..a.n
      PROVE  BytesDue(vs, a, v) <= BytesDue(vs, b, v)
  <2>1. a.byt[v] \in Nat
    BY <1>4
  <2>2. CASE v # a.top
    BY <2>1, <2>2, <1>1 DEF BytesDue
  <2>3. CASE v = a.top
    BY <2>3, <1>2
  <2> QED
    BY <2>2, <2>3
<1>7. Precedes(vs, a, b)
  BY <1>1, <1>4, <1>5, <1>6 DEF Precedes
<1> QED
  BY <1>7 DEF b

(* the beginning of a value,                                               *)
LEMMA PrecedesBegun ==
  ASSUME NEW size \in Nat, NEW vs, NEW a, NEW at, NEW fl, NEW slen, Sound(size, vs, a), Begins(a)
  PROVE  Precedes(vs, a, Begun(a, at, fl, slen))
<1> DEFINE b == Begun(a, at, fl, slen)
<1>1. /\ b.fl = fl /\ b.top = a.n + 1 /\ b.n = a.n + 1 /\ b.open = a.open \cup {a.n + 1}
      /\ b.len = a.len /\ b.byt = a.byt
  BY DEF Begun
<1> HIDE DEF b
<1>2. a \in Point /\ Mode(vs, a)
  BY SoundIs
<1>3. a.n \in Nat /\ a.len \in [Nat -> Nat] /\ a.byt \in [Nat -> Nat]
  BY <1>2, PointIs DEF Counts
<1>4. "string" \notin a.fl /\ (a.n # 0 => a.top \in a.open)
  BY <1>2 DEF Mode, Begins, Seeks
<1>5. ASSUME NEW v \in 1..a.n
      PROVE  LengthDue(vs, a, v) <= LengthDue(vs, b, v)
  <2>1. a.len[v] \in Nat /\ v # b.top
    BY <1>1, <1>3
  <2>2. v \in a.open <=> v \in b.open
    BY <1>1, <1>3
  <2>3. v = a.top => v \in a.open
    BY <1>3, <1>4
  <2> QED
    BY <2>1, <2>2, <2>3, <1>1 DEF LengthDue
<1>6. ASSUME NEW v \in 1..a.n
      PROVE  BytesDue(vs, a, v) <= BytesDue(vs, b, v)
  <2>1. a.byt[v] \in Nat /\ v # b.top
    BY <1>1, <1>3
  <2> QED
    BY <2>1, <1>1, <1>4 DEF BytesDue
<1>7. Precedes(vs, a, b)
  BY <1>1, <1>3, <1>5, <1>6 DEF Precedes
<1> QED
  BY <1>7 DEF b

(* and its end.                                                            *)
LEMMA PrecedesFinished ==
  ASSUME NEW size \in Nat, NEW vs, NEW a, NEW v, NEW n, NEW byt, Counts(byt), NEW at, NEW fl,
         Sound(size, vs, a), Finishes(vs, a, v, n), vs[v].parent \in Nat, vs[v].parent < v,
         "string" \notin fl,
         v = a.top /\ vs[v].type = "object" => "string" \notin a.fl /\ "seek_value" \notin a.fl,
         \A u \in 1..a.n : BytesDue(vs, a, u) <= byt[u]
  PROVE  Precedes(vs, a, Finished(vs, a, v, n, byt, at, fl))
<1> DEFINE b == Finished(vs, a, v, n, byt, at, fl)
           p == vs[v].parent
<1>1. /\ b.fl = FinishedFlags(vs, v, fl)
      /\ b.top = IF p = 0 THEN v ELSE p
      /\ b.n = n /\ b.byt = byt /\ b.open = a.open \ {v}
      /\ b.len = Tallied(a.len, p)
  BY DEF Finished
<1>2. "string" \notin b.fl
  BY <1>1 DEF FinishedFlags
<1> HIDE DEF b
<1>3. a \in Point /\ a.top \in 0..a.n
  BY SoundIs
<1>4. a.n \in Nat /\ a.len \in [Nat -> Nat]
  BY <1>3, PointIs
<1>5. a.n <= n
  BY <1>4 DEF Finishes
<1>6. ASSUME NEW u \in 1..a.n
      PROVE  LengthDue(vs, a, u) <= LengthDue(vs, b, u)
  <2>1. a.len[u] \in Nat
    BY <1>4
  <2>2. CASE u = p
    <3>1. b.len[u] = a.len[u] + 1
      BY <2>2, <1>1, <1>4 DEF Tallied
    <3>2. LengthDue(vs, a, u) <= a.len[u] + 1
      BY <2>1 DEF LengthDue
    <3>3. LengthDue(vs, b, u) >= b.len[u]
      BY <2>1, <3>1 DEF LengthDue
    <3>4. LengthDue(vs, a, u) \in Nat /\ LengthDue(vs, b, u) \in Nat
      BY <2>1, <3>1 DEF LengthDue
    <3> QED
      BY <2>1, <3>1, <3>2, <3>3, <3>4
  <2>3. CASE u # p /\ u # a.top
    <3>1. b.len[u] = a.len[u]
      BY <2>3, <1>1, <1>4 DEF Tallied
    <3>2. u # v /\ u # b.top
      BY <2>3, <1>1, <1>4 DEF Finishes
    <3> QED
      BY <2>1, <2>3, <3>1, <3>2, <1>1 DEF LengthDue
  <2>4. CASE u # p /\ u = a.top
    <3>1. b.len[u] = a.len[u]
      BY <2>4, <1>1, <1>4 DEF Tallied
    <3>2. v = a.top
      BY <2>4 DEF Finishes
    <3>3. LengthDue(vs, a, u) = a.len[u]
      BY <2>1, <2>4, <3>2 DEF LengthDue
    <3> QED
      BY <2>1, <3>1, <3>3 DEF LengthDue
  <2> QED
    BY <2>2, <2>3, <2>4
<1>7. ASSUME NEW u \in 1..a.n
      PROVE  BytesDue(vs, a, u) <= BytesDue(vs, b, u)
  <2>1. byt[u] \in Nat /\ BytesDue(vs, a, u) <= byt[u]
    <3>1. byt \in [Nat -> Nat]
      BY DEF Counts
    <3> QED
      BY <3>1, <1>4
  <2>2. BytesDue(vs, b, u) = byt[u] + 0
    BY <1>1, <1>2 DEF BytesDue
  <2> QED
    BY <2>1, <2>2
<1>8. Precedes(vs, a, b)
  BY <1>1, <1>5, <1>6, <1>7 DEF Precedes
<1> QED
  BY <1>8 DEF b

(* One count, and one of them changed.                                     *)
LEMMA CountAt ==
  ASSUME NEW f, Counts(f), NEW v \in Nat
  PROVE  f[v] \in Nat
BY DEF Counts

(* Another count than the one changed stays.                               *)
LEMMA CountChanged ==
  ASSUME NEW f, Counts(f), NEW k \in Nat, NEW x
  PROVE  /\ With(f, k, x)[k] = x
         /\ \A v \in Nat : v # k => With(f, k, x)[v] = f[v]
BY DEF Counts, With

(* Every turn leads to a point that is not before.                         *)
LEMMA TurnPrecedes ==
  ASSUME NEW t, NEW whole, NEW vs, NEW a, NEW b, Len(t) \in Nat, Shapes(vs),
         Sound(Len(t), vs, a), Turn(t, whole, vs, a, b), b.n <= Len(vs)
  PROVE  Precedes(vs, a, b)
<1> DEFINE size == Len(t)
           c == t[a.at]
<1>1. size \in Nat /\ Sound(size, vs, a)
  OBVIOUS
<1>2. \/ MoveTurn(vs, c, a, b) \/ CharTurn(c, a, b)
      \/ KeyBeginTurn(vs, c, a, b) \/ KeyEndTurn(vs, c, a, b)
      \/ StringEndTurn(vs, c, a, b) \/ ArrayEndTurn(vs, c, a, b)
      \/ ObjectEndTurn(vs, c, a, b) \/ ArrayTurn(vs, c, a, b)
      \/ ObjectTurn(vs, c, a, b) \/ StringTurn(vs, c, a, b)
      \/ WordTurn(vs, c, a, b) \/ NumberTurn(t, whole, vs, a, b)
  BY DEF Turn
<1> HIDE DEF size, c
<1>3. /\ a.fl \in SUBSET ParserFlags /\ a.top \in Nat /\ a.slen \in Nat /\ a.n \in Nat
      /\ Counts(a.byt)
  BY <1>1, SoundIs, PointIs
<1>4. /\ a.open \subseteq 1..a.n /\ a.top \in 0..a.n /\ a.n <= Len(vs) /\ NoneBeyond(a.byt, a.n)
      /\ Mode(vs, a)
  BY <1>1, SoundIs
<1>21. \A v \in Nat : a.byt[v] \in Nat
  BY <1>3, CountAt
<1>22. a.byt[a.top] \in Nat
  BY <1>3, <1>21
<1>24. Counts(a.byt)
  BY <1>3
<1>23. a.top \in Nat /\ a.slen \in Nat /\ a.n \in Nat
  BY <1>3
<1>5. \A w \in 1..Len(vs) : vs[w].parent \in Nat /\ vs[w].parent < w
  BY ShapesIs
<1>6. CASE MoveTurn(vs, c, a, b)
  <2>1. PICK fl \in SUBSET ParserFlags :
           MoveFlags(vs, c, a, fl) /\ b = Moved(a, a.at + 1, fl, a.slen, a.byt)
    BY <1>6 DEF MoveTurn
  <2>2. b.fl = fl /\ b.top = a.top /\ b.byt = a.byt /\ b.slen = a.slen
    BY <2>1 DEF Moved
  <2>3. /\ "string" \in fl <=> "string" \in a.fl
        /\ "seek_value" \in fl <=> "seek_value" \in a.fl
    BY <2>1 DEF MoveFlags
  <2>4. BytesDue(vs, a, a.top) <= BytesDue(vs, b, a.top)
    BY <2>2, <2>3, <1>23, <1>22 DEF BytesDue
  <2> QED
    BY <2>1, <2>3, <2>4, <1>1, PrecedesMoved
<1>7. CASE CharTurn(c, a, b)
  <2> DEFINE slen == a.slen + (IF "escaped" \in a.fl THEN Width(c) ELSE 1)
  <2>1. slen \in Nat /\ slen >= a.slen
    <3>1. Width(c) \in Nat
      BY WidthIs
    <3> QED
      BY <3>1, <1>3
  <2>2. b = Moved(a, a.at + 1, a.fl \ {"escaped"}, slen, a.byt) /\ "string" \in a.fl
    BY <1>7 DEF CharTurn, InString
  <2> HIDE DEF slen
  <2>3. b.fl = a.fl \ {"escaped"} /\ b.top = a.top /\ b.byt = a.byt /\ b.slen = slen
    BY <2>2 DEF Moved
  <2>4. BytesDue(vs, a, a.top) <= BytesDue(vs, b, a.top)
    <3> DEFINE key == IF vs[a.top].type = "object" THEN 1 ELSE 0
    <3>1. BytesDue(vs, a, a.top) = a.byt[a.top] + (a.slen + key)
      BY <2>2 DEF BytesDue
    <3>2. BytesDue(vs, b, a.top) = a.byt[a.top] + (slen + key)
      BY <2>2, <2>3 DEF BytesDue
    <3>3. key \in {0, 1}
      OBVIOUS
    <3> QED
      BY <2>1, <3>1, <3>2, <3>3, <1>22, <1>23
  <2> QED
    BY <2>2, <2>4, <1>1, PrecedesMoved
<1>8. CASE KeyBeginTurn(vs, c, a, b)
  <2>1. b = Moved(a, a.at + 1, a.fl \cup {"string"}, 0, a.byt) /\ Inside(vs, a)
    BY <1>8 DEF KeyBeginTurn
  <2>2. b.fl = a.fl \cup {"string"} /\ b.top = a.top /\ b.byt = a.byt /\ b.slen = 0
    BY <2>1 DEF Moved
  <2>3. BytesDue(vs, a, a.top) <= BytesDue(vs, b, a.top)
    <3>1. BytesDue(vs, a, a.top) = a.byt[a.top] + 0 /\ vs[a.top].type = "object"
      BY <2>1 DEF BytesDue, Inside
    <3>2. BytesDue(vs, b, a.top) = a.byt[a.top] + (0 + 1)
      BY <3>1, <2>2 DEF BytesDue
    <3> QED
      BY <3>1, <3>2, <1>22
  <2> QED
    BY <2>1, <2>3, <1>1, PrecedesMoved
<1>9. CASE KeyEndTurn(vs, c, a, b)
  <2> DEFINE fl == (a.fl \ {"string"}) \cup {"seek_value", "need_colon"}
             byt == With(a.byt, a.top, a.byt[a.top] + a.slen + 1)
  <2>7. byt = With(a.byt, a.top, a.byt[a.top] + a.slen + 1)
    OBVIOUS
  <2>8. "seek_value" \in fl
    OBVIOUS
  <2>1. b = Moved(a, a.at + 1, fl, a.slen, byt) /\ vs[a.top].type = "object" /\ "string" \in a.fl
    BY <1>9 DEF KeyEndTurn, InString
  <2> HIDE DEF fl, byt
  <2>2. b.fl = fl /\ b.top = a.top /\ b.byt = byt
    BY <2>1 DEF Moved
  <2>9. "string" \notin b.fl
    BY <2>2 DEF fl
  <2>3. byt[a.top] = a.byt[a.top] + a.slen + 1
    BY <1>24, <1>23, <2>7, CountChanged
  <2>4. BytesDue(vs, a, a.top) <= BytesDue(vs, b, a.top)
    <3>1. BytesDue(vs, a, a.top) = a.byt[a.top] + (a.slen + 1)
      BY <2>1 DEF BytesDue
    <3>2. BytesDue(vs, b, a.top) = (a.byt[a.top] + a.slen + 1) + 0
      BY <2>2, <2>3, <2>9 DEF BytesDue
    <3> QED
      BY <3>1, <3>2, <1>22, <1>23
  <2>5. \A v \in 1..a.n : v # a.top => a.byt[v] = byt[v]
    BY <1>24, <1>23, <2>7, CountChanged
  <2> QED
    BY <2>1, <2>4, <2>5, <2>8, <1>1, PrecedesMoved
<1>10. CASE StringEndTurn(vs, c, a, b)
  <2> DEFINE fl == a.fl \ {"string"}
             byt == With(a.byt, a.top, a.slen)
  <2>8. byt = With(a.byt, a.top, a.slen)
    OBVIOUS
  <2>1. /\ b = Finished(vs, a, a.top, a.n, byt, a.at + 1, fl)
        /\ "string" \in a.fl /\ vs[a.top].type = "string"
    BY <1>10 DEF StringEndTurn, InString
  <2>2. a.top \in a.open /\ a.byt[a.top] = 0
    BY <2>1, <1>4 DEF Mode
  <2>3. "string" \notin fl
    OBVIOUS
  <2>4. Counts(byt)
    BY <1>3, <1>4, CountsKept
  <2>5. Finishes(vs, a, a.top, a.n)
    BY <2>2 DEF Finishes
  <2> HIDE DEF fl, byt
  <2>6. ASSUME NEW u \in 1..a.n
        PROVE  BytesDue(vs, a, u) <= byt[u]
    <3>1. CASE u = a.top
      <4>1. BytesDue(vs, a, u) = 0 + (a.slen + 0)
        BY <3>1, <2>1, <2>2 DEF BytesDue
      <4> QED
        <5>1. byt[a.top] = a.slen
          BY <1>24, <1>23, <2>8, CountChanged
        <5> QED
          BY <4>1, <5>1, <3>1, <1>23
    <3>2. CASE u # a.top
      <4>1. BytesDue(vs, a, u) = a.byt[u] + 0
        BY <3>2 DEF BytesDue
      <4>2. u \in Nat
        BY <1>23
      <4>3. byt[u] = a.byt[u]
        BY <3>2, <4>2, <1>3, <1>23, <2>8, CountChanged
      <4> QED
        BY <4>1, <4>2, <4>3, <1>21
    <3> QED
      BY <3>1, <3>2
  <2>7. vs[a.top].parent \in Nat /\ vs[a.top].parent < a.top
    BY <2>2, <1>3, <1>4, <1>5
  <2> QED
    BY <2>1, <2>3, <2>4, <2>5, <2>6, <2>7, <1>1, PrecedesFinished
<1>11. ASSUME NEW v, NEW n, NEW at, NEW fl, b = Finished(vs, a, v, n, a.byt, at, fl),
              Finishes(vs, a, v, n), n <= Len(vs), "string" \notin fl, "string" \notin a.fl,
              v = a.top /\ vs[v].type = "object" => "seek_value" \notin a.fl
       PROVE  Precedes(vs, a, b)
  <2>1. ASSUME NEW u \in 1..a.n
        PROVE  BytesDue(vs, a, u) <= a.byt[u]
    <3>1. BytesDue(vs, a, u) = a.byt[u] + 0
      BY <1>11 DEF BytesDue
    <3> QED
      BY <3>1, <1>21, <1>23
  <2>2. v \in 1..Len(vs)
    BY <1>11, <1>3, <1>4 DEF Finishes
  <2>3. vs[v].parent \in Nat /\ vs[v].parent < v
    BY <2>2, <1>5
  <2> QED
    BY <1>1, <1>3, <1>11, <2>1, <2>3, PrecedesFinished
<1>12. CASE ArrayEndTurn(vs, c, a, b)
  <2>1. /\ b = Finished(vs, a, a.top, a.n, a.byt, a.at + 1, a.fl \ {"need_comma", "seek_value"})
        /\ Seeks(a) /\ a.top # 0 /\ vs[a.top].type = "array"
    BY <1>12 DEF ArrayEndTurn
  <2>2. "string" \notin a.fl /\ a.top \in a.open
    BY <2>1, <1>4 DEF Mode, Seeks
  <2>3. Finishes(vs, a, a.top, a.n)
    BY <2>2 DEF Finishes
  <2> QED
    BY <2>1, <2>2, <2>3, <1>4, <1>11
<1>13. CASE ObjectEndTurn(vs, c, a, b)
  <2>1. /\ b = Finished(vs, a, a.top, a.n, a.byt, a.at + 1, a.fl \ {"need_comma"})
        /\ Inside(vs, a)
    BY <1>13 DEF ObjectEndTurn
  <2>2. "string" \notin a.fl /\ a.top \in a.open /\ "seek_value" \notin a.fl
    BY <2>1, <1>4 DEF Mode, Inside
  <2>3. Finishes(vs, a, a.top, a.n)
    BY <2>2 DEF Finishes
  <2> QED
    BY <2>1, <2>2, <2>3, <1>4, <1>11
<1>14. CASE ArrayTurn(vs, c, a, b)
  BY <1>14, <1>1, PrecedesBegun DEF ArrayTurn
<1>15. CASE ObjectTurn(vs, c, a, b)
  BY <1>15, <1>1, PrecedesBegun DEF ObjectTurn
<1>16. CASE StringTurn(vs, c, a, b)
  BY <1>16, <1>1, PrecedesBegun DEF StringTurn
<1>17. ASSUME NEW e, Begins(a), vs[a.n + 1].parent = a.top,
              b = Finished(vs, a, a.n + 1, a.n + 1, a.byt, e, a.fl \ {"seek_value"})
       PROVE  Precedes(vs, a, b)
  <2>1. "string" \notin a.fl
    BY <1>17 DEF Begins, Seeks
  <2>2. Finishes(vs, a, a.n + 1, a.n + 1)
    BY <1>17 DEF Finishes
  <2>3. a.n + 1 <= Len(vs) /\ a.n + 1 # a.top
    BY <1>3, <1>4, <1>17 DEF Finished
  <2> QED
    BY <1>17, <2>1, <2>2, <2>3, <1>11
<1>18. CASE WordTurn(vs, c, a, b)
  BY <1>17, <1>18 DEF WordTurn, Newest
<1>19. CASE NumberTurn(t, whole, vs, a, b)
  BY <1>17, <1>19 DEF NumberTurn, Newest
<1> QED
  BY <1>2, <1>6, <1>7, <1>8, <1>9, <1>10, <1>12, <1>13, <1>14, <1>15, <1>16, <1>18, <1>19

(* The byte each turn is about.                                            *)
LEMMA TurnByte ==
  ASSUME NEW vs, NEW c, NEW a, NEW b
  PROVE  /\ KeyBeginTurn(vs, c, a, b) => c = "quote" /\ "need_comma" \notin a.fl
         /\ ObjectEndTurn(vs, c, a, b) => c = "rbrace"
         /\ CharTurn(c, a, b) => /\ c # End
                                 /\ IF "escaped" \in a.fl THEN c # "u?" ELSE c \notin {"quote", "esc"}
         /\ KeyEndTurn(vs, c, a, b) => /\ c = "quote" /\ "escaped" \notin a.fl
                                       /\ vs[a.top].type = "object"
         /\ StringEndTurn(vs, c, a, b) => /\ c = "quote" /\ "escaped" \notin a.fl
                                          /\ vs[a.top].type = "string"
         /\ ArrayEndTurn(vs, c, a, b) => c = "rbracket" /\ a.top # 0 /\ vs[a.top].type = "array"
         /\ ArrayTurn(vs, c, a, b) => Begins(a) /\ c = "lbracket"
         /\ ObjectTurn(vs, c, a, b) => Begins(a) /\ c = "lbrace"
         /\ StringTurn(vs, c, a, b) => Begins(a) /\ c = "quote"
         /\ WordTurn(vs, c, a, b) => Begins(a) /\ c \in {"true", "null"}
BY DEF KeyBeginTurn, ObjectEndTurn, CharTurn, KeyEndTurn, StringEndTurn, ArrayEndTurn, ArrayTurn,
       ObjectTurn, StringTurn, WordTurn, Words

(* The turns there are inside a string,                                    *)
LEMMA TurnInString ==
  ASSUME NEW t, NEW whole, NEW vs, NEW a, NEW b, Turn(t, whole, vs, a, b), InString(a)
  PROVE  /\ "escaped" \notin a.fl /\ t[a.at] = "esc" => MoveTurn(vs, t[a.at], a, b)
         /\ "escaped" \notin a.fl /\ t[a.at] = "quote" =>
               KeyEndTurn(vs, t[a.at], a, b) \/ StringEndTurn(vs, t[a.at], a, b)
         /\ "escaped" \in a.fl \/ t[a.at] \notin {"quote", "esc"} => CharTurn(t[a.at], a, b)
<1> DEFINE c == t[a.at]
<1>1. ~Seeks(a) /\ ~Inside(vs, a) /\ ~Begins(a) /\ "string" \in a.fl
  BY DEF InString, Seeks, Inside, Begins
<1>2. \/ MoveTurn(vs, c, a, b) \/ CharTurn(c, a, b) \/ KeyEndTurn(vs, c, a, b)
      \/ StringEndTurn(vs, c, a, b)
  BY <1>1 DEF Turn, KeyBeginTurn, ArrayEndTurn, ObjectEndTurn, ArrayTurn, ObjectTurn,
              StringTurn, WordTurn, NumberTurn
<1> HIDE DEF c
<1>3. MoveTurn(vs, c, a, b) => "escaped" \notin a.fl /\ c = "esc"
  BY <1>1 DEF MoveTurn, MoveFlags
<1>4. CharTurn(c, a, b) => IF "escaped" \in a.fl THEN c # "u?" ELSE c \notin {"quote", "esc"}
  BY DEF CharTurn
<1>5. KeyEndTurn(vs, c, a, b) \/ StringEndTurn(vs, c, a, b) => c = "quote" /\ "escaped" \notin a.fl
  BY DEF KeyEndTurn, StringEndTurn
<1>6. /\ "escaped" \notin a.fl /\ c = "esc" => MoveTurn(vs, c, a, b)
      /\ "escaped" \notin a.fl /\ c = "quote" => KeyEndTurn(vs, c, a, b) \/ StringEndTurn(vs, c, a, b)
      /\ "escaped" \in a.fl \/ c \notin {"quote", "esc"} => CharTurn(c, a, b)
  BY <1>2, <1>3, <1>4, <1>5
<1> QED
  BY <1>6 DEF c

(* where a value is to begin,                                              *)
LEMMA TurnSeeking ==
  ASSUME NEW t, NEW whole, NEW vs, NEW a, NEW b, Turn(t, whole, vs, a, b), Seeks(a)
  PROVE  \/ t[a.at] = "sp" /\ b = Moved(a, a.at + 1, a.fl, a.slen, a.byt)
         \/ /\ "need_comma" \in a.fl /\ t[a.at] = "comma"
            /\ b = Moved(a, a.at + 1, a.fl \ {"need_comma"}, a.slen, a.byt)
         \/ /\ "need_comma" \notin a.fl /\ "need_colon" \in a.fl /\ t[a.at] = "colon"
            /\ b = Moved(a, a.at + 1, a.fl \ {"need_colon"}, a.slen, a.byt)
         \/ ArrayEndTurn(vs, t[a.at], a, b)
         \/ ArrayTurn(vs, t[a.at], a, b)
         \/ ObjectTurn(vs, t[a.at], a, b)
         \/ StringTurn(vs, t[a.at], a, b)
         \/ WordTurn(vs, t[a.at], a, b)
         \/ NumberTurn(t, whole, vs, a, b)
<1>1. ~InString(a) /\ ~Inside(vs, a) /\ "done" \notin a.fl
  BY DEF InString, Seeks, Inside
<1>2. CASE MoveTurn(vs, t[a.at], a, b)
  BY <1>1, <1>2 DEF MoveTurn, MoveFlags
<1> QED
  BY <1>1, <1>2 DEF Turn, CharTurn, KeyBeginTurn, KeyEndTurn, StringEndTurn, ObjectEndTurn

(* between the members of an object,                                       *)
LEMMA TurnInside ==
  ASSUME NEW t, NEW whole, NEW vs, NEW a, NEW b, Turn(t, whole, vs, a, b), Inside(vs, a)
  PROVE  /\ t[a.at] \in {"sp", "comma", "quote", "rbrace"}
         /\ t[a.at] = "sp" => b = Moved(a, a.at + 1, a.fl, a.slen, a.byt)
         /\ t[a.at] = "comma" => /\ "need_comma" \in a.fl
                                 /\ b = Moved(a, a.at + 1, a.fl \ {"need_comma"}, a.slen, a.byt)
         /\ t[a.at] = "quote" => KeyBeginTurn(vs, t[a.at], a, b)
         /\ t[a.at] = "rbrace" => ObjectEndTurn(vs, t[a.at], a, b)
<1> DEFINE c == t[a.at]
<1>1. ~InString(a) /\ ~Seeks(a) /\ ~Begins(a) /\ "done" \notin a.fl
  BY DEF InString, Seeks, Inside, Begins
<1>2. MoveTurn(vs, c, a, b) \/ KeyBeginTurn(vs, c, a, b) \/ ObjectEndTurn(vs, c, a, b)
  BY <1>1 DEF Turn, CharTurn, KeyEndTurn, StringEndTurn, ArrayEndTurn, ArrayTurn, ObjectTurn,
              StringTurn, WordTurn, NumberTurn
<1> HIDE DEF c
<1>3. MoveTurn(vs, c, a, b) =>
         \/ c = "sp" /\ b = Moved(a, a.at + 1, a.fl, a.slen, a.byt)
         \/ /\ c = "comma" /\ "need_comma" \in a.fl
            /\ b = Moved(a, a.at + 1, a.fl \ {"need_comma"}, a.slen, a.byt)
  BY <1>1 DEF MoveTurn, MoveFlags
<1>4. KeyBeginTurn(vs, c, a, b) => c = "quote"
  BY DEF KeyBeginTurn
<1>5. ObjectEndTurn(vs, c, a, b) => c = "rbrace"
  BY DEF ObjectEndTurn
<1>6. /\ c \in {"sp", "comma", "quote", "rbrace"}
      /\ c = "sp" => b = Moved(a, a.at + 1, a.fl, a.slen, a.byt)
      /\ c = "comma" => "need_comma" \in a.fl /\ b = Moved(a, a.at + 1, a.fl \ {"need_comma"}, a.slen, a.byt)
      /\ c = "quote" => KeyBeginTurn(vs, c, a, b)
      /\ c = "rbrace" => ObjectEndTurn(vs, c, a, b)
  BY <1>2, <1>3, <1>4, <1>5
<1> QED
  BY <1>6 DEF c

(* after the root value,                                                   *)
LEMMA TurnDone ==
  ASSUME NEW t, NEW whole, NEW vs, NEW a, NEW b, Turn(t, whole, vs, a, b), "done" \in a.fl, ~InString(a)
  PROVE  t[a.at] = "sp" /\ b = Moved(a, a.at + 1, a.fl, a.slen, a.byt)
<1>1. ~Inside(vs, a) /\ ~Seeks(a) /\ ~Begins(a)
  BY DEF Seeks, Inside, Begins
<1>2. CASE MoveTurn(vs, t[a.at], a, b)
  BY <1>1, <1>2 DEF MoveTurn, MoveFlags
<1> QED
  BY <1>1, <1>2 DEF Turn, CharTurn, KeyBeginTurn, KeyEndTurn, StringEndTurn, ArrayEndTurn, ObjectEndTurn,
                    ArrayTurn, ObjectTurn, StringTurn, WordTurn, NumberTurn

(* and nowhere else.                                                       *)
LEMMA TurnSomewhere ==
  ASSUME NEW t, NEW whole, NEW vs, NEW a, NEW b, Turn(t, whole, vs, a, b)
  PROVE  InString(a) \/ Seeks(a) \/ Inside(vs, a) \/ ("done" \in a.fl /\ ~InString(a))
<1>1. CASE MoveTurn(vs, t[a.at], a, b)
  BY <1>1 DEF MoveTurn, MoveFlags, InString
<1> QED
  BY <1>1 DEF Turn, CharTurn, KeyBeginTurn, KeyEndTurn, StringEndTurn, ArrayEndTurn, ObjectEndTurn,
              ArrayTurn, ObjectTurn, StringTurn, WordTurn, NumberTurn, Begins

(* A number ends in one place.                                             *)
LEMMA NumberEndsOnce ==
  ASSUME NEW t, NEW whole, NEW i \in Nat, NEW d \in Nat, NEW e \in Nat, Len(t) \in Nat,
         NumberSpan(t, i, d), NumberStops(t, whole, d), NumberSpan(t, i, e), NumberStops(t, whole, e)
  PROVE  d = e
<1>1. d < e => FALSE
  BY DEF NumberSpan, NumberStops
<1>2. e < d => FALSE
  BY DEF NumberSpan, NumberStops
<1> QED
  BY <1>1, <1>2

(* The text decides the turn.                                              *)
LEMMA TurnFunctional ==
  ASSUME NEW t, NEW whole, NEW vs, NEW a, NEW b, NEW d, Len(t) \in Nat, a.at \in Nat,
         Turn(t, whole, vs, a, b), Turn(t, whole, vs, a, d)
  PROVE  b = d
<1> DEFINE c == t[a.at]
<1>1. CASE InString(a)
  <2>3. CASE "escaped" \in a.fl \/ c \notin {"quote", "esc"}
    <3>1. CharTurn(c, a, b) /\ CharTurn(c, a, d)
      BY <1>1, <2>3, TurnInString
    <3> QED
      BY <3>1, Zenon DEF CharTurn
  <2>4. CASE "escaped" \notin a.fl /\ c = "esc"
    <3>1. MoveTurn(vs, c, a, b) /\ MoveTurn(vs, c, a, d)
      BY <1>1, <2>4, TurnInString
    <3>2. PICK fl \in SUBSET ParserFlags : MoveFlags(vs, c, a, fl) /\ b = Moved(a, a.at + 1, fl, a.slen, a.byt)
      BY <3>1 DEF MoveTurn
    <3>3. PICK fm \in SUBSET ParserFlags : MoveFlags(vs, c, a, fm) /\ d = Moved(a, a.at + 1, fm, a.slen, a.byt)
      BY <3>1 DEF MoveTurn
    <3>4. fl = fm
      BY <1>1, <2>4, <3>2, <3>3 DEF MoveFlags, Seeks, Inside, InString
    <3> QED
      BY <3>2, <3>3, <3>4, Zenon
  <2>5. CASE "escaped" \notin a.fl /\ c = "quote"
    <3>1. /\ KeyEndTurn(vs, c, a, b) \/ StringEndTurn(vs, c, a, b)
          /\ KeyEndTurn(vs, c, a, d) \/ StringEndTurn(vs, c, a, d)
      BY <1>1, <2>5, TurnInString
    <3> QED
      BY <3>1 DEF KeyEndTurn, StringEndTurn
  <2> QED
    BY <2>3, <2>4, <2>5
<1>2. CASE Inside(vs, a)
  <2>1. c \in {"sp", "comma", "quote", "rbrace"}
    BY <1>2, TurnInside
  <2>2. CASE c \in {"sp", "comma"}
    <3> DEFINE fl == IF c = "sp" THEN a.fl ELSE a.fl \ {"need_comma"}
    <3>1. b = Moved(a, a.at + 1, fl, a.slen, a.byt)
      BY <1>2, <2>2, TurnInside
    <3>2. d = Moved(a, a.at + 1, fl, a.slen, a.byt)
      BY <1>2, <2>2, TurnInside
    <3> HIDE DEF fl
    <3> QED
      BY <3>1, <3>2, Zenon
  <2>3. CASE c = "quote"
    <3>1. KeyBeginTurn(vs, c, a, b) /\ KeyBeginTurn(vs, c, a, d)
      BY <1>2, <2>3, TurnInside
    <3> HIDE DEF c
    <3> QED
      BY <3>1, Zenon DEF KeyBeginTurn
  <2>4. CASE c = "rbrace"
    <3>1. ObjectEndTurn(vs, c, a, b) /\ ObjectEndTurn(vs, c, a, d)
      BY <1>2, <2>4, TurnInside
    <3> HIDE DEF c
    <3> QED
      BY <3>1, Zenon DEF ObjectEndTurn
  <2> QED
    BY <2>1, <2>2, <2>3, <2>4
<1>3. CASE "done" \in a.fl /\ ~InString(a)
  BY <1>3, TurnDone
<1>4. CASE Seeks(a) /\ c \in {"sp", "comma", "colon", "rbracket"}
  BY <1>4, TurnSeeking DEF ArrayEndTurn, ArrayTurn, ObjectTurn, StringTurn, WordTurn, NumberTurn,
                           Begins, Words, Digits
<1>5. CASE Seeks(a) /\ c \in {"lbracket", "lbrace", "quote"}
  BY <1>5, TurnSeeking DEF ArrayEndTurn, ArrayTurn, ObjectTurn, StringTurn, WordTurn, NumberTurn,
                           Words, Digits
<1>6. CASE Seeks(a) /\ c \in Words
  BY <1>6, TurnSeeking DEF ArrayEndTurn, ArrayTurn, ObjectTurn, StringTurn, WordTurn, NumberTurn,
                           Words, Digits
<1>7. CASE Seeks(a) /\ c \notin {"sp", "comma", "colon", "rbracket", "lbracket", "lbrace", "quote"} \cup Words
  <2>1. NumberTurn(t, whole, vs, a, b) /\ NumberTurn(t, whole, vs, a, d)
    BY <1>7, TurnSeeking DEF ArrayEndTurn, ArrayTurn, ObjectTurn, StringTurn, WordTurn
  <2>2. PICK e \in Nat : /\ NumberSpan(t, a.at, e) /\ NumberStops(t, whole, e)
                         /\ b = Finished(vs, a, a.n + 1, a.n + 1, a.byt, e, a.fl \ {"seek_value"})
    BY <2>1 DEF NumberTurn
  <2>3. PICK e2 \in Nat : /\ NumberSpan(t, a.at, e2) /\ NumberStops(t, whole, e2)
                          /\ d = Finished(vs, a, a.n + 1, a.n + 1, a.byt, e2, a.fl \ {"seek_value"})
    BY <2>1 DEF NumberTurn
  <2>4. e = e2
    BY <2>2, <2>3, NumberEndsOnce
  <2> QED
    BY <2>2, <2>3, <2>4
<1> QED
  BY <1>1, <1>2, <1>3, <1>4, <1>5, <1>6, <1>7, TurnSomewhere

-----------------------------------------------------------------------------
(* A run stays one                                                         *)

(* The text u, complete if over, goes on where t ends.                     *)
Extends(t, whole, u, over) ==
    /\ Len(t) \in Nat /\ Len(u) \in Nat /\ Len(t) <= Len(u)
    /\ \A i \in 1..Len(t) : u[i] = t[i]
    /\ whole => over /\ Len(u) = Len(t)

(* What the types of alike values have in common.                          *)
LEMMA AlikeTypes ==
  ASSUME NEW vs, NEW vt, NEW n \in Nat, Alike(vs, vt, n), NEW v \in 1..n
  PROVE  /\ vt[v].parent = vs[v].parent
         /\ vt[v].type = "object" <=> vs[v].type = "object"
         /\ vt[v].type = "array" <=> vs[v].type = "array"
         /\ vt[v].type = "string" <=> vs[v].type = "string"
         /\ vt[v].type = "boolean" <=> vs[v].type = "boolean"
         /\ vt[v].type = "null" <=> vs[v].type = "null"
         /\ vt[v].type \in Containers <=> vs[v].type \in Containers
         /\ vt[v].type \in Numeric <=> vs[v].type \in Numeric
BY DEF Alike, Numeric, Containers

(* A value ends alike among alike values.                                  *)
LEMMA FinishedAlike ==
  ASSUME NEW vs, NEW vt, NEW n \in Nat, Alike(vs, vt, n), NEW v \in 1..n, NEW a, NEW m, NEW byt, NEW at, NEW fl,
         vs[v].parent \in Nat, vs[v].parent < v
  PROVE  Finished(vt, a, v, m, byt, at, fl) = Finished(vs, a, v, m, byt, at, fl)
<1>1. vt[v].parent = vs[v].parent
  BY AlikeTypes
<1>2. vs[v].parent # 0 => (vt[vs[v].parent].type = "array" <=> vs[vs[v].parent].type = "array")
  BY AlikeTypes
<1>3. FinishedFlags(vt, v, fl) = FinishedFlags(vs, v, fl)
  BY <1>1, <1>2 DEF FinishedFlags
<1> QED
  BY <1>1, <1>3, Zenon DEF Finished

(* A turn made once is the turn there also when the text and the values    *)
(* have grown.                                                             *)
LEMMA TurnCarries ==
  ASSUME NEW t, NEW whole, NEW vs, NEW u, NEW over, NEW vt, NEW a, NEW b,
         Extends(t, whole, u, over), Shapes(vs), Sound(Len(t), vs, a),
         Turn(t, whole, vs, a, b), b.n \in Nat, a.n <= b.n, b.n <= Len(vs), Alike(vs, vt, b.n)
  PROVE  Turn(u, over, vt, a, b)
<1> DEFINE c == t[a.at]
<1>1. /\ Len(t) \in Nat /\ Len(u) \in Nat /\ Len(t) <= Len(u)
      /\ \A i \in 1..Len(t) : u[i] = t[i]
      /\ whole => over /\ Len(u) = Len(t)
  BY DEF Extends
<1>2. a.at \in 1..Len(t)
  BY DEF Turn
<1>3. u[a.at] = c /\ a.at \in 1..Len(u)
  BY <1>1, <1>2
<1>4. a.n \in Nat /\ a.top \in 0..a.n /\ Mode(vs, a) /\ a.open \subseteq 1..a.n
  <2>1. a \in Point
    BY <1>1, SoundIs
  <2> QED
    BY <2>1, <1>1, SoundIs, PointIs
<1>5. \A w \in 1..Len(vs) : vs[w].parent \in Nat /\ vs[w].parent < w
  BY ShapesIs
<1>6. a.top # 0 => /\ vt[a.top].type = "object" <=> vs[a.top].type = "object"
                   /\ vt[a.top].type = "array" <=> vs[a.top].type = "array"
                   /\ vt[a.top].type = "string" <=> vs[a.top].type = "string"
  BY <1>4, AlikeTypes
<1>7. Inside(vs, a) <=> Inside(vt, a)
  BY <1>6 DEF Inside
<1>8. ASSUME NEW v \in 1..b.n, NEW m, NEW byt, NEW at, NEW fl
      PROVE  Finished(vt, a, v, m, byt, at, fl) = Finished(vs, a, v, m, byt, at, fl)
  <2>1. vs[v].parent \in Nat /\ vs[v].parent < v
    BY <1>5
  <2> QED
    BY <2>1, FinishedAlike
<1>9. \/ MoveTurn(vs, c, a, b) \/ CharTurn(c, a, b)
      \/ KeyBeginTurn(vs, c, a, b) \/ KeyEndTurn(vs, c, a, b)
      \/ StringEndTurn(vs, c, a, b) \/ ArrayEndTurn(vs, c, a, b)
      \/ ObjectEndTurn(vs, c, a, b) \/ ArrayTurn(vs, c, a, b)
      \/ ObjectTurn(vs, c, a, b) \/ StringTurn(vs, c, a, b)
      \/ WordTurn(vs, c, a, b) \/ NumberTurn(t, whole, vs, a, b)
  BY DEF Turn
<1>10. SUFFICES \/ MoveTurn(vt, c, a, b) \/ CharTurn(c, a, b)
                \/ KeyBeginTurn(vt, c, a, b) \/ KeyEndTurn(vt, c, a, b)
                \/ StringEndTurn(vt, c, a, b) \/ ArrayEndTurn(vt, c, a, b)
                \/ ObjectEndTurn(vt, c, a, b) \/ ArrayTurn(vt, c, a, b)
                \/ ObjectTurn(vt, c, a, b) \/ StringTurn(vt, c, a, b)
                \/ WordTurn(vt, c, a, b) \/ NumberTurn(u, over, vt, a, b)
  BY <1>3 DEF Turn
<1> HIDE DEF c
<1>11. CASE MoveTurn(vs, c, a, b)
  BY <1>11, <1>7 DEF MoveTurn, MoveFlags
<1>12. CASE CharTurn(c, a, b)
  BY <1>12
<1>13. CASE KeyBeginTurn(vs, c, a, b)
  BY <1>13, <1>7 DEF KeyBeginTurn
<1>14. InString(a) => a.top # 0
  <2>1. InString(a) => a.top \in a.open
    BY <1>4 DEF Mode, InString
  <2> QED
    BY <2>1, <1>4
<1>15. CASE KeyEndTurn(vs, c, a, b)
  BY <1>6, <1>14, <1>15 DEF KeyEndTurn
<1>16. a.top # 0 => a.top \in 1..b.n
  BY <1>4
<1>17. CASE StringEndTurn(vs, c, a, b)
  <2> DEFINE fl == a.fl \ {"string"}
             byt == With(a.byt, a.top, a.slen)
  <2>1. b = Finished(vs, a, a.top, a.n, byt, a.at + 1, fl)
    BY <1>17 DEF StringEndTurn
  <2> HIDE DEF fl, byt
  <2>2. a.top \in 1..b.n
    BY <1>14, <1>16, <1>17 DEF StringEndTurn, Inside
  <2>3. b = Finished(vt, a, a.top, a.n, byt, a.at + 1, fl)
    BY <2>1, <2>2, <1>8
  <2>4. StringEndTurn(vt, c, a, b)
    BY <2>2, <2>3, <1>4, <1>6, <1>7, <1>17 DEF StringEndTurn, fl, byt
  <2> QED
    BY <2>4
<1>18. CASE ArrayEndTurn(vs, c, a, b)
  <2> DEFINE fl == a.fl \ {"need_comma", "seek_value"}
             byt == a.byt
  <2>1. b = Finished(vs, a, a.top, a.n, byt, a.at + 1, fl)
    BY <1>18 DEF ArrayEndTurn
  <2> HIDE DEF fl, byt
  <2>2. a.top \in 1..b.n
    BY <1>16, <1>18 DEF ArrayEndTurn, Inside
  <2>3. b = Finished(vt, a, a.top, a.n, byt, a.at + 1, fl)
    BY <2>1, <2>2, <1>8
  <2>4. ArrayEndTurn(vt, c, a, b)
    BY <2>2, <2>3, <1>4, <1>6, <1>7, <1>18 DEF ArrayEndTurn, fl, byt
  <2> QED
    BY <2>4
<1>19. CASE ObjectEndTurn(vs, c, a, b)
  <2> DEFINE fl == a.fl \ {"need_comma"}
             byt == a.byt
  <2>1. b = Finished(vs, a, a.top, a.n, byt, a.at + 1, fl)
    BY <1>19 DEF ObjectEndTurn
  <2> HIDE DEF fl, byt
  <2>2. a.top \in 1..b.n
    BY <1>16, <1>19 DEF ObjectEndTurn, Inside
  <2>3. b = Finished(vt, a, a.top, a.n, byt, a.at + 1, fl)
    BY <2>1, <2>2, <1>8
  <2>4. ObjectEndTurn(vt, c, a, b)
    BY <2>2, <2>3, <1>4, <1>6, <1>7, <1>19 DEF ObjectEndTurn, fl, byt
  <2> QED
    BY <2>4
<1>20. b.n = a.n + 1 => /\ a.n + 1 \in 1..b.n
                        /\ vt[a.n + 1].parent = vs[a.n + 1].parent
                        /\ vt[a.n + 1].type = "object" <=> vs[a.n + 1].type = "object"
                        /\ vt[a.n + 1].type = "array" <=> vs[a.n + 1].type = "array"
                        /\ vt[a.n + 1].type = "string" <=> vs[a.n + 1].type = "string"
                        /\ vt[a.n + 1].type = "boolean" <=> vs[a.n + 1].type = "boolean"
                        /\ vt[a.n + 1].type = "null" <=> vs[a.n + 1].type = "null"
                        /\ vt[a.n + 1].type \in Numeric <=> vs[a.n + 1].type \in Numeric
  <2> SUFFICES ASSUME b.n = a.n + 1
               PROVE  /\ a.n + 1 \in 1..b.n
                      /\ vt[a.n + 1].parent = vs[a.n + 1].parent
                      /\ vt[a.n + 1].type = "object" <=> vs[a.n + 1].type = "object"
                      /\ vt[a.n + 1].type = "array" <=> vs[a.n + 1].type = "array"
                      /\ vt[a.n + 1].type = "string" <=> vs[a.n + 1].type = "string"
                      /\ vt[a.n + 1].type = "boolean" <=> vs[a.n + 1].type = "boolean"
                      /\ vt[a.n + 1].type = "null" <=> vs[a.n + 1].type = "null"
                      /\ vt[a.n + 1].type \in Numeric <=> vs[a.n + 1].type \in Numeric
    OBVIOUS
  <2>1. a.n + 1 \in 1..b.n
    BY <1>4
  <2> QED
    BY <2>1, AlikeTypes
<1>21. CASE ArrayTurn(vs, c, a, b)
  <2>1. b.n = a.n + 1
    BY <1>21 DEF ArrayTurn, Begun
  <2> QED
    BY <2>1, <1>20, <1>21 DEF ArrayTurn, Newest
<1>22. CASE ObjectTurn(vs, c, a, b)
  <2>1. b.n = a.n + 1
    BY <1>22 DEF ObjectTurn, Begun
  <2> QED
    BY <2>1, <1>20, <1>22 DEF ObjectTurn, Newest
<1>23. CASE StringTurn(vs, c, a, b)
  <2>1. b.n = a.n + 1
    BY <1>23 DEF StringTurn, Begun
  <2> QED
    BY <2>1, <1>20, <1>23 DEF StringTurn, Newest
<1>24. CASE WordTurn(vs, c, a, b)
  <2>1. b.n = a.n + 1
    BY <1>24 DEF WordTurn, Finished
  <2>2. b = Finished(vt, a, a.n + 1, a.n + 1, a.byt, a.at + 1, a.fl \ {"seek_value"})
    <3>1. b = Finished(vs, a, a.n + 1, a.n + 1, a.byt, a.at + 1, a.fl \ {"seek_value"})
      BY <1>24 DEF WordTurn
    <3> QED
      BY <2>1, <3>1, <1>8, <1>20
  <2> QED
    BY <2>1, <2>2, <1>20, <1>24 DEF WordTurn, Newest
<1>25. CASE NumberTurn(t, whole, vs, a, b)
  <2>1. PICK e \in Nat : /\ e > a.at /\ NumberSpan(t, a.at, e) /\ NumberStops(t, whole, e)
                         /\ b = Finished(vs, a, a.n + 1, a.n + 1, a.byt, e, a.fl \ {"seek_value"})
    BY <1>25 DEF NumberTurn
  <2>2. b.n = a.n + 1
    BY <2>1 DEF Finished
  <2>3. b = Finished(vt, a, a.n + 1, a.n + 1, a.byt, e, a.fl \ {"seek_value"})
    <3> DEFINE fl == a.fl \ {"seek_value"}
    <3>1. b = Finished(vs, a, a.n + 1, a.n + 1, a.byt, e, fl)
      BY <2>1
    <3> HIDE DEF fl
    <3>2. b = Finished(vt, a, a.n + 1, a.n + 1, a.byt, e, fl)
      BY <3>1, <2>2, <1>8, <1>20
    <3> QED
      BY <3>2 DEF fl
  <2>4. NumberSpan(u, a.at, e)
    <3>1. e \in a.at..(Len(t) + 1) /\ \A j \in a.at..(e - 1) : t[j] \in NumberTokens
      BY <2>1 DEF NumberSpan
    <3>2. ASSUME NEW j \in a.at..(e - 1) PROVE u[j] \in NumberTokens
      <4>1. j \in 1..Len(t)
        BY <3>1, <1>1, <1>2
      <4> QED
        BY <4>1, <3>1, <1>1
    <3> QED
      BY <3>1, <3>2, <1>1, <1>2 DEF NumberSpan
  <2>5. NumberStops(u, over, e)
    BY <2>1, <1>1, <1>2 DEF NumberStops, NumberSpan
  <2>6. Newest(vt, a, Numeric)
    BY <2>2, <1>20, <1>25 DEF NumberTurn, Newest
  <2>7. Begins(a) /\ u[a.at] \in Digits \cup {"-"}
    BY <1>1, <1>2, <1>25 DEF NumberTurn
  <2> QED
    BY <2>1, <2>3, <2>4, <2>5, <2>6, <2>7 DEF NumberTurn
<1> QED
  BY <1>9, <1>11, <1>12, <1>13, <1>15, <1>17, <1>18, <1>19, <1>21, <1>22, <1>23, <1>24, <1>25

(* What is sound of a text and values is sound of what they grow to.       *)
LEMMA SoundCarries ==
  ASSUME NEW size \in Nat, NEW more \in Nat, size <= more, NEW vs, NEW vt, NEW a,
         Shapes(vs), Sound(size, vs, a), Alike(vs, vt, a.n), a.n <= Len(vt)
  PROVE  Sound(more, vt, a)
<1>1. a \in Point /\ a.n \in Nat
  <2>1. a \in Point
    BY SoundIs
  <2> QED
    BY <2>1, PointIs
<1>2. /\ a.n <= Len(vs) /\ Len(vs) \in Nat
      /\ a.at \in 1..(size + 1) /\ a.top \in 0..a.n /\ a.open \subseteq 1..a.n
      /\ NoneBeyond(a.len, a.n) /\ NoneBeyond(a.byt, a.n)
      /\ Chain(vs, a.open, a.top) /\ Nested(vs, a) /\ Mode(vs, a)
  BY SoundIs, ShapesIs
<1>3. \A v \in 1..a.n : /\ vt[v].parent = vs[v].parent
                        /\ vt[v].type = "object" <=> vs[v].type = "object"
                        /\ vt[v].type = "string" <=> vs[v].type = "string"
                        /\ vt[v].type \in Containers <=> vs[v].type \in Containers
  BY <1>1, AlikeTypes
<1>4. Chain(vt, a.open, a.top)
  BY <1>2, <1>3 DEF Chain
<1>5. Nested(vt, a)
  <2>1. \A v \in 2..a.n : vt[v].parent # 0 /\ vt[vt[v].parent].type \in Containers
    <3> SUFFICES ASSUME NEW v \in 2..a.n PROVE vt[v].parent # 0 /\ vt[vt[v].parent].type \in Containers
      OBVIOUS
    <3>1. vs[v].parent # 0 /\ vs[vs[v].parent].type \in Containers /\ vt[v].parent = vs[v].parent
      BY <1>1, <1>2, <1>3 DEF Nested
    <3>2. v \in 1..Len(vs)
      BY <1>1, <1>2
    <3>3. vs[v].parent \in Nat /\ vs[v].parent < v
      BY <3>2, ShapesIs
    <3>4. vs[v].parent \in 1..a.n
      BY <3>1, <3>3, <1>1
    <3> QED
      BY <3>1, <3>4, <1>3
  <2>2. \A v \in a.open : \A w \in 1..a.n : v < w => v <= vt[w].parent
    BY <1>2, <1>3 DEF Nested
  <2> QED
    BY <2>1, <2>2 DEF Nested
<1>6. Mode(vt, a)
  BY <1>2, <1>3 DEF Mode
<1>7. a.at \in 1..(more + 1)
  BY <1>2
<1> QED
  BY <1>1, <1>2, <1>4, <1>5, <1>6, <1>7 DEF Sound

(* What is due is a number, and the order of points a preorder.            *)
LEMMA DueNat ==
  ASSUME NEW vs, NEW a, a \in Point, NEW v \in Nat
  PROVE  LengthDue(vs, a, v) \in Nat /\ BytesDue(vs, a, v) \in Nat
<1>1. a.slen \in Nat /\ a.len \in [Nat -> Nat] /\ a.byt \in [Nat -> Nat]
  BY PointIs DEF Counts
<1>2. a.len[v] \in Nat /\ a.byt[v] \in Nat
  BY <1>1
<1>3. LengthDue(vs, a, v) \in Nat
  BY <1>2 DEF LengthDue
<1>4. BytesDue(vs, a, v) \in Nat
  BY <1>1, <1>2 DEF BytesDue
<1> QED
  BY <1>3, <1>4

(* No point is before one that is not before it: the order of points is    *)
(* transitive,                                                             *)
LEMMA PrecedesTransitive ==
  ASSUME NEW vs, NEW a, NEW b, NEW d, a \in Point, b \in Point, d \in Point,
         Precedes(vs, a, b), Precedes(vs, b, d)
  PROVE  Precedes(vs, a, d)
<1>1. a.n \in Nat /\ b.n \in Nat /\ d.n \in Nat /\ a.n <= b.n /\ b.n <= d.n
  BY PointIs DEF Precedes
<1>2. ASSUME NEW v \in 1..a.n
      PROVE  /\ LengthDue(vs, a, v) <= LengthDue(vs, d, v)
             /\ BytesDue(vs, a, v) <= BytesDue(vs, d, v)
  <2>1. v \in 1..b.n /\ v \in Nat
    BY <1>1
  <2>2. /\ LengthDue(vs, a, v) <= LengthDue(vs, b, v)
        /\ LengthDue(vs, b, v) <= LengthDue(vs, d, v)
        /\ BytesDue(vs, a, v) <= BytesDue(vs, b, v)
        /\ BytesDue(vs, b, v) <= BytesDue(vs, d, v)
    BY <2>1 DEF Precedes
  <2>3. /\ LengthDue(vs, a, v) \in Nat /\ LengthDue(vs, b, v) \in Nat /\ LengthDue(vs, d, v) \in Nat
        /\ BytesDue(vs, a, v) \in Nat /\ BytesDue(vs, b, v) \in Nat /\ BytesDue(vs, d, v) \in Nat
    BY <2>1, DueNat
  <2> QED
    BY <2>2, <2>3
<1> QED
  BY <1>1, <1>2 DEF Precedes

(* and reflexive.                                                          *)
LEMMA PrecedesItself ==
  ASSUME NEW vs, NEW a, a \in Point
  PROVE  Precedes(vs, a, a)
<1>1. a.n \in Nat
  BY PointIs
<1>2. ASSUME NEW v \in 1..a.n
      PROVE  LengthDue(vs, a, v) \in Nat /\ BytesDue(vs, a, v) \in Nat
  BY <1>1, DueNat
<1> QED
  BY <1>1, <1>2 DEF Precedes

(* It is the same among alike values.                                      *)
LEMMA PrecedesCarries ==
  ASSUME NEW vs, NEW vt, NEW a, NEW b, a \in Point, b \in Point, Precedes(vs, a, b), Alike(vs, vt, a.n)
  PROVE  Precedes(vt, a, b)
<1>1. a.n \in Nat /\ a.n <= b.n
  BY PointIs DEF Precedes
<1>2. ASSUME NEW v \in 1..a.n
      PROVE  /\ LengthDue(vt, a, v) = LengthDue(vs, a, v) /\ LengthDue(vt, b, v) = LengthDue(vs, b, v)
             /\ BytesDue(vt, a, v) = BytesDue(vs, a, v) /\ BytesDue(vt, b, v) = BytesDue(vs, b, v)
  <2>1. vt[v].type = "object" <=> vs[v].type = "object"
    BY <1>1, AlikeTypes
  <2>2. LengthDue(vt, a, v) = LengthDue(vs, a, v) /\ LengthDue(vt, b, v) = LengthDue(vs, b, v)
    BY <2>1, Zenon DEF LengthDue
  <2>3. BytesDue(vt, a, v) = BytesDue(vs, a, v) /\ BytesDue(vt, b, v) = BytesDue(vs, b, v)
    BY <2>1, Zenon DEF BytesDue
  <2> QED
    BY <2>2, <2>3
<1>3. ASSUME NEW v \in 1..a.n
      PROVE  /\ LengthDue(vs, a, v) <= LengthDue(vs, b, v)
             /\ BytesDue(vs, a, v) <= BytesDue(vs, b, v)
  BY DEF Precedes
<1> QED
  BY <1>1, <1>2, <1>3 DEF Precedes

(* The points of a run.                                                    *)
LEMMA RunIs ==
  ASSUME NEW t, NEW whole, NEW vs, NEW run, Len(t) \in Nat, Run(t, whole, vs, run)
  PROVE  /\ Len(run) \in Nat /\ Len(run) >= 1 /\ run[1] = Start
         /\ \A i \in 1..Len(run) :
               run[i] \in Point /\ Sound(Len(t), vs, run[i]) /\ run[i].n \in Nat /\ run[i].n <= Len(vs)
         /\ \A i, j \in 1..Len(run) : i <= j => Precedes(vs, run[i], run[j]) /\ run[i].n <= run[j].n
         /\ \A i \in 1..(Len(run) - 1) : Turn(t, whole, vs, run[i], run[i + 1])
<1>1. /\ run \in Seq(Point) /\ run # <<>> /\ run[1] = Start
      /\ \A i \in 1..Len(run) : Sound(Len(t), vs, run[i])
      /\ \A i \in 1..(Len(run) - 1) : Turn(t, whole, vs, run[i], run[i + 1])
      /\ \A i, j \in 1..Len(run) : i <= j => Precedes(vs, run[i], run[j])
  BY DEF Run
<1>2. Len(run) \in Nat /\ Len(run) >= 1
  BY <1>1
<1>3. ASSUME NEW i \in 1..Len(run)
      PROVE  run[i] \in Point /\ Sound(Len(t), vs, run[i]) /\ run[i].n \in Nat /\ run[i].n <= Len(vs)
  <2>1. Sound(Len(t), vs, run[i])
    BY <1>1
  <2>2. run[i] \in Point /\ run[i].n <= Len(vs)
    BY <2>1, SoundIs
  <2>3. run[i].n \in Nat
    BY <2>2, PointIs
  <2> QED
    BY <2>1, <2>2, <2>3
<1>4. \A i, j \in 1..Len(run) : i <= j => run[i].n <= run[j].n
  BY <1>1 DEF Precedes
<1> QED
  BY <1>1, <1>2, <1>3, <1>4

(* A run of a text is one of what the text grows to, with alike values.    *)
LEMMA RunCarries ==
  ASSUME NEW t, NEW whole, NEW vs, NEW u, NEW over, NEW vt, NEW run,
         Run(t, whole, vs, run), Extends(t, whole, u, over), Shapes(vs),
         Alike(vs, vt, Last(run).n), Len(vt) \in Nat, Last(run).n <= Len(vt)
  PROVE  Run(u, over, vt, run)
<1>1. Len(t) \in Nat /\ Len(u) \in Nat /\ Len(t) <= Len(u)
  BY DEF Extends
<1>2. /\ Len(run) \in Nat /\ Len(run) >= 1
      /\ \A i \in 1..Len(run) :
            run[i] \in Point /\ Sound(Len(t), vs, run[i]) /\ run[i].n \in Nat /\ run[i].n <= Len(vs)
      /\ \A i, j \in 1..Len(run) : i <= j => Precedes(vs, run[i], run[j]) /\ run[i].n <= run[j].n
      /\ \A i \in 1..(Len(run) - 1) : Turn(t, whole, vs, run[i], run[i + 1])
  BY <1>1, RunIs
<1>3. ASSUME NEW i \in 1..Len(run)
      PROVE  Alike(vs, vt, run[i].n) /\ run[i].n <= Last(run).n
  <2>1. run[i].n <= Last(run).n /\ run[i].n \in Nat /\ Last(run).n \in Nat
    BY <1>2 DEF Last
  <2> QED
    BY <2>1 DEF Alike
<1>4. ASSUME NEW i \in 1..Len(run)
      PROVE  Sound(Len(u), vt, run[i])
  <2>1. run[i].n <= Len(vt)
    <3>1. Last(run).n \in Nat /\ run[i].n \in Nat
      BY <1>2 DEF Last
    <3> QED
      BY <3>1, <1>3
  <2> QED
    BY <2>1, <1>1, <1>2, <1>3, SoundCarries
<1>5. ASSUME NEW i \in 1..(Len(run) - 1)
      PROVE  Turn(u, over, vt, run[i], run[i + 1])
  <2>1. i \in 1..Len(run) /\ i + 1 \in 1..Len(run) /\ i <= i + 1
    BY <1>2
  <2>2. /\ Turn(t, whole, vs, run[i], run[i + 1]) /\ Sound(Len(t), vs, run[i])
        /\ run[i + 1].n \in Nat /\ run[i].n <= run[i + 1].n /\ run[i + 1].n <= Len(vs)
    BY <2>1, <1>2
  <2>3. Alike(vs, vt, run[i + 1].n)
    BY <2>1, <1>3
  <2> QED
    BY <2>2, <2>3, TurnCarries
<1>6. ASSUME NEW i \in 1..Len(run), NEW j \in 1..Len(run), i <= j
      PROVE  Precedes(vt, run[i], run[j])
  <2>1. Precedes(vs, run[i], run[j]) /\ run[i] \in Point /\ run[j] \in Point /\ Alike(vs, vt, run[i].n)
    BY <1>2, <1>3, <1>6
  <2> QED
    BY <2>1, PrecedesCarries
<1>7. run \in Seq(Point) /\ run # <<>> /\ run[1] = Start
  BY DEF Run
<1> QED
  BY <1>4, <1>5, <1>6, <1>7 DEF Run

(* A turn at the last point adds a point.                                  *)
LEMMA RunGrows ==
  ASSUME NEW t, NEW whole, NEW vs, NEW run, NEW b, Len(t) \in Nat, Shapes(vs), Run(t, whole, vs, run),
         Turn(t, whole, vs, Last(run), b), b.n <= Len(vs)
  PROVE  Run(t, whole, vs, Append(run, b)) /\ Last(Append(run, b)) = b
<1> DEFINE z == Last(run)
           more == Append(run, b)
<1>1. /\ Len(run) \in Nat /\ Len(run) >= 1 /\ run[1] = Start
      /\ \A i \in 1..Len(run) : run[i] \in Point /\ Sound(Len(t), vs, run[i])
      /\ \A i, j \in 1..Len(run) : i <= j => Precedes(vs, run[i], run[j])
      /\ \A i \in 1..(Len(run) - 1) : Turn(t, whole, vs, run[i], run[i + 1])
  BY RunIs
<1>2. z = run[Len(run)] /\ z \in Point /\ Sound(Len(t), vs, z)
  BY <1>1 DEF Last
<1>3. Sound(Len(t), vs, b) /\ Precedes(vs, z, b)
  BY <1>2, TurnSound, TurnPrecedes
<1>4. b \in Point
  BY <1>3, SoundIs
<1>5. /\ more \in Seq(Point) /\ Len(more) = Len(run) + 1 /\ more # <<>>
      /\ \A i \in 1..Len(run) : more[i] = run[i]
      /\ more[Len(run) + 1] = b
  <2>1. run \in Seq(Point)
    BY DEF Run
  <2> HIDE DEF Point
  <2> QED
    BY <2>1, <1>4
<1> HIDE DEF more, z
<1>6. ASSUME NEW i \in 1..(Len(run) + 1)
      PROVE  more[i] \in Point /\ Sound(Len(t), vs, more[i])
  <2>1. CASE i = Len(run) + 1
    BY <2>1, <1>3, <1>4, <1>5
  <2>2. CASE i \in 1..Len(run)
    BY <2>2, <1>1, <1>5
  <2> QED
    BY <2>1, <2>2, <1>1
<1>7. ASSUME NEW i \in 1..Len(run)
      PROVE  Turn(t, whole, vs, more[i], more[i + 1])
  <2>1. CASE i = Len(run)
    BY <2>1, <1>1, <1>2, <1>5 DEF z
  <2>2. CASE i \in 1..(Len(run) - 1)
    <3>1. more[i] = run[i] /\ more[i + 1] = run[i + 1]
      BY <2>2, <1>1, <1>5
    <3> QED
      BY <2>2, <3>1, <1>1
  <2> QED
    BY <2>1, <2>2, <1>1
<1>8. ASSUME NEW i \in 1..(Len(run) + 1), NEW j \in 1..(Len(run) + 1), i <= j
      PROVE  Precedes(vs, more[i], more[j])
  <2>1. CASE j \in 1..Len(run)
    <3>1. i \in 1..Len(run)
      BY <2>1, <1>8
    <3> QED
      BY <2>1, <3>1, <1>1, <1>5, <1>8
  <2>2. CASE j = Len(run) + 1 /\ i \in 1..Len(run)
    <3>1. Precedes(vs, run[i], z) /\ run[i] \in Point
      BY <2>2, <1>1, <1>2
    <3>2. Precedes(vs, run[i], b)
      BY <3>1, <1>2, <1>3, <1>4, PrecedesTransitive
    <3> QED
      BY <2>2, <3>2, <1>5
  <2>3. CASE j = Len(run) + 1 /\ i = Len(run) + 1
    BY <2>3, <1>4, <1>5, PrecedesItself
  <2> QED
    BY <2>1, <2>2, <2>3, <1>1
<1>9. more[1] = Start
  BY <1>1, <1>5
<1>10. \A i \in 1..(Len(more) - 1) : Turn(t, whole, vs, more[i], more[i + 1])
  BY <1>5, <1>7, <1>1
<1>11. Run(t, whole, vs, more)
  BY <1>5, <1>6, <1>8, <1>9, <1>10 DEF Run
<1>12. Last(more) = b
  BY <1>5 DEF Last
<1> QED
  BY <1>11, <1>12 DEF more

-----------------------------------------------------------------------------
(* What a turn makes of the values                                         *)

(* The second pass takes value m: the others stay as they are.             *)
Takes(vs, vt, m) ==
    /\ Len(vt) = Len(vs) /\ vt[m] = Taken(vs[m])
    /\ \A w \in 1..Len(vs) : w # m => vt[w] = vs[w]

(* Value v is counted in its parent, and in the second pass linked there.  *)
Tallies(vs, vt, v, second) ==
    /\ Len(vt) = Len(vs)
    /\ \A w \in 1..Len(vs) :
          /\ vt[w].type = vs[w].type /\ vt[w].parent = vs[w].parent
          /\ vt[w].bytes = vs[w].bytes /\ vt[w].capacity = vs[w].capacity
          /\ vt[w].room = vs[w].room /\ vt[w].names = vs[w].names
          /\ vt[w].length = vs[w].length + (IF w = vs[v].parent THEN 1 ELSE 0)
          /\ vt[w].kids = IF w = vs[v].parent /\ second THEN Append(vs[w].kids, v) ELSE vs[w].kids

(* The records of a chain.                                                 *)
LEMMA RecordIs ==
  ASSUME NEW vs, Shapes(vs), NEW v \in 1..Len(vs)
  PROVE  /\ vs[v].type \in Types /\ vs[v].parent \in Nat /\ vs[v].length \in Nat /\ vs[v].bytes \in Nat
         /\ vs[v].capacity \in Nat /\ vs[v].room \in Nat
         /\ vs[v].kids \in Seq(Nat) /\ vs[v].names \in Seq(Nat)
<1>1. vs[v] \in ValueRecord
  BY DEF Shapes
<1> QED
  BY <1>1 DEF ValueRecord

(* A record with other counts is a record of a value.                      *)
LEMMA TakenRecord ==
  ASSUME NEW v \in ValueRecord, NEW n \in Nat, NEW m \in Nat, NEW x,
         x = [v EXCEPT !.capacity = n, !.length = 0, !.room = m, !.bytes = 0]
  PROVE  x \in ValueRecord
BY DEF ValueRecord

(* new_value's second pass: room for what was counted, nothing of it       *)
(* filled; type, place and links stay.                                     *)
LEMMA TakenIs ==
  ASSUME NEW v \in ValueRecord
  PROVE  /\ Taken(v) \in ValueRecord
         /\ Taken(v).type = v.type /\ Taken(v).parent = v.parent
         /\ Taken(v).length = 0 /\ Taken(v).bytes = 0 /\ Taken(v).capacity = v.length
         /\ Taken(v).room = v.bytes + (IF v.type = "string" THEN 1 ELSE 0)
         /\ Taken(v).kids = v.kids /\ Taken(v).names = v.names
<1>1. Taken(v).length = 0
  BY DEF Taken, ValueRecord
<1>2. Taken(v).bytes = 0
  BY DEF Taken, ValueRecord
<1>3. Taken(v).capacity = v.length
  BY DEF Taken, ValueRecord
<1>4. Taken(v).room = v.bytes + (IF v.type = "string" THEN 1 ELSE 0)
  BY DEF Taken, ValueRecord
<1>5. Taken(v).type = v.type
  BY DEF Taken, ValueRecord
<1>6. Taken(v).parent = v.parent
  BY DEF Taken, ValueRecord
<1>7. Taken(v).kids = v.kids
  BY DEF Taken, ValueRecord
<1>8. Taken(v).names = v.names
  BY DEF Taken, ValueRecord
<1>9. Taken(v) \in ValueRecord
  <2> DEFINE m == IF v.type = "string" THEN v.bytes + 1 ELSE v.bytes
             n == v.length
  <2>1. m \in Nat /\ n \in Nat
    BY DEF ValueRecord
  <2>2. Taken(v) = [v EXCEPT !.capacity = n, !.length = 0, !.room = m, !.bytes = 0]
    BY DEF Taken
  <2>3. PICK x : x = Taken(v)
    OBVIOUS
  <2>4. x = [v EXCEPT !.capacity = n, !.length = 0, !.room = m, !.bytes = 0]
    BY <2>2, <2>3
  <2> HIDE DEF m, n
  <2>5. x \in ValueRecord
    BY <2>1, <2>4, TakenRecord
  <2> QED
    BY <2>3, <2>5
<1> QED
  BY <1>1, <1>2, <1>3, <1>4, <1>5, <1>6, <1>7, <1>8, <1>9

(* The count of one value more.                                            *)
LEMMA TalliedAt ==
  ASSUME NEW f, Counts(f), NEW p \in Nat, NEW v \in Nat, v >= 1
  PROVE  Tallied(f, p)[v] = f[v] + (IF v = p THEN 1 ELSE 0)
<1>1. f[v] \in Nat
  BY CountAt
<1>2. CASE p = 0
  BY <1>1, <1>2 DEF Tallied
<1>3. CASE p # 0
  BY <1>1, <1>3 DEF Tallied, Counts
<1> QED
  BY <1>2, <1>3

(* What a point has counted.                                               *)
LEMMA SoundCounts ==
  ASSUME NEW size \in Nat, NEW vs, NEW a, Sound(size, vs, a)
  PROVE  /\ a.n \in Nat /\ a.top \in Nat /\ a.slen \in Nat /\ a.at \in Nat
         /\ Counts(a.len) /\ Counts(a.byt)
         /\ \A v \in Nat : a.len[v] \in Nat /\ a.byt[v] \in Nat
         /\ \A v \in Nat : v > a.n => a.len[v] = 0 /\ a.byt[v] = 0
<1>1. a \in Point /\ NoneBeyond(a.len, a.n) /\ NoneBeyond(a.byt, a.n)
  BY SoundIs
<1>2. /\ a.n \in Nat /\ a.top \in Nat /\ a.slen \in Nat /\ a.at \in Nat
      /\ a.len \in [Nat -> Nat] /\ Counts(a.byt)
  BY <1>1, PointIs
<1>3. Counts(a.len)
  BY <1>2 DEF Counts
<1>4. \A v \in Nat : a.len[v] \in Nat /\ a.byt[v] \in Nat
  BY <1>2, <1>3, CountAt
<1>5. \A v \in Nat : v > a.n => a.len[v] = 0 /\ a.byt[v] = 0
  BY <1>1 DEF NoneBeyond
<1> QED
  BY <1>2, <1>3, <1>4, <1>5

(* Counting goes on when a value is begun                                  *)
LEMMA MatchesBegun ==
  ASSUME NEW size \in Nat, NEW vs, NEW vt, NEW a, NEW at, NEW fl, NEW slen, Sound(size, vs, a),
         Matches(vs, a), \A w \in 1..a.n : vt[w] = vs[w],
         vt[a.n + 1].length = 0, vt[a.n + 1].bytes = 0
  PROVE  Matches(vt, Begun(a, at, fl, slen))
<1> DEFINE b == Begun(a, at, fl, slen)
<1>1. b.n = a.n + 1 /\ b.len = a.len /\ b.byt = a.byt
  BY DEF Begun
<1> HIDE DEF b
<1>2. a.n \in Nat /\ \A v \in Nat : v > a.n => a.len[v] = 0 /\ a.byt[v] = 0
  BY SoundCounts
<1>3. a.len[a.n + 1] = 0 /\ a.byt[a.n + 1] = 0
  BY <1>2
<1>4. ASSUME NEW v \in 1..b.n
      PROVE  vt[v].length = b.len[v] /\ vt[v].bytes = b.byt[v]
  <2>1. CASE v = a.n + 1
    BY <2>1, <1>1, <1>3
  <2>2. CASE v \in 1..a.n
    BY <2>2, <1>1 DEF Matches
  <2> QED
    BY <2>1, <2>2, <1>1, <1>2
<1>5. Matches(vt, b)
  BY <1>4 DEF Matches
<1> QED
  BY <1>5 DEF b

(* or finished.                                                            *)
LEMMA MatchesFinished ==
  ASSUME NEW vs, NEW vt, NEW a, NEW at, NEW fl, NEW second, Shapes(vs), Counts(a.len), a.n \in Nat,
         a.n <= Len(vs), a.top \in 1..a.n, Matches(vs, a), Tallies(vs, vt, a.top, second)
  PROVE  Matches(vt, Finished(vs, a, a.top, a.n, a.byt, at, fl))
<1> DEFINE b == Finished(vs, a, a.top, a.n, a.byt, at, fl)
           p == vs[a.top].parent
<1>1. b.n = a.n /\ b.byt = a.byt /\ b.len = Tallied(a.len, p)
  BY DEF Finished
<1>2. p \in Nat /\ Len(vs) \in Nat
  BY ShapesIs
<1>3. \A w \in 1..Len(vs) : /\ vt[w].bytes = vs[w].bytes
                            /\ vt[w].length = vs[w].length + (IF w = p THEN 1 ELSE 0)
  BY DEF Tallies
<1> HIDE DEF b, p
<1>4. ASSUME NEW v \in 1..b.n
      PROVE  vt[v].length = b.len[v] /\ vt[v].bytes = b.byt[v]
  <2>1. v \in 1..a.n /\ v \in 1..Len(vs) /\ v \in Nat /\ v >= 1
    BY <1>1, <1>2
  <2>2. b.len[v] = a.len[v] + (IF v = p THEN 1 ELSE 0)
    BY <2>1, <1>1, <1>2, TalliedAt
  <2>3. vs[v].length = a.len[v] /\ vs[v].bytes = a.byt[v]
    BY <2>1 DEF Matches
  <2>4. vt[v].length = vs[v].length + (IF v = p THEN 1 ELSE 0) /\ vt[v].bytes = vs[v].bytes
    BY <2>1, <1>3
  <2> QED
    BY <2>2, <2>3, <2>4, <1>1
<1>5. Matches(vt, b)
  BY <1>4 DEF Matches
<1> QED
  BY <1>5 DEF b

(* In the second pass a value that is begun is sized by what was counted,  *)
LEMMA FilledBegun ==
  ASSUME NEW size \in Nat, NEW vs, NEW vt, NEW z, NEW a, NEW at, NEW fl, NEW slen, Shapes(vs),
         Sound(size, vs, a), Begins(a), a.n + 1 <= Len(vs), Takes(vs, vt, a.n + 1), Filled(vs, z, a),
         vs[a.n + 1].type = "object" => "seek_value" \notin fl
  PROVE  Filled(vt, z, Begun(a, at, fl, slen))
<1> DEFINE b == Begun(a, at, fl, slen)
           m == a.n + 1
<1>1. /\ b.fl = fl /\ b.top = m /\ b.n = m /\ b.len = a.len /\ b.open = a.open \cup {m}
  BY DEF Begun
<1>2. /\ a.n \in Nat /\ a.len[m] = 0
      /\ \A v \in Nat : a.len[v] \in Nat
  BY SoundCounts
<1>3. a.top \in 0..a.n /\ (a.n # 0 => a.top \in a.open)
  <2>1. a.top \in 0..a.n /\ Mode(vs, a)
    BY SoundIs
  <2> QED
    BY <2>1 DEF Mode, Begins, Seeks
<1>4. "seek_value" \in a.fl
  BY DEF Begins, Seeks
<1>5. m \in 1..Len(vs) /\ m \in Nat
  BY <1>2, ShapesIs
<1>6. /\ Len(vt) = Len(vs) /\ vt[m] = Taken(vs[m])
      /\ \A w \in 1..Len(vs) : w # m => vt[w] = vs[w]
  BY DEF Takes
<1>7. /\ vs[m].length = z.len[m] /\ vs[m].bytes = z.byt[m]
      /\ vs[m].kids = <<>> /\ vs[m].names = <<>>
  <2>1. m > a.n
    BY <1>2
  <2> QED
    BY <2>1, <1>5 DEF Filled
<1>8. vs[m] \in ValueRecord
  BY <1>5 DEF Shapes
<1>9. /\ vt[m].length = 0 /\ vt[m].capacity = vs[m].length /\ vt[m].type = vs[m].type
      /\ vt[m].room = vs[m].bytes + (IF vs[m].type = "string" THEN 1 ELSE 0)
      /\ vt[m].kids = vs[m].kids /\ vt[m].names = vs[m].names
  BY <1>6, <1>8, TakenIs
<1> HIDE DEF b
<1>10. vt[m].type = "object" => NamesDue(b, m) = 0
  <2> SUFFICES ASSUME vt[m].type = "object" PROVE NamesDue(b, m) = 0
    OBVIOUS
  <2>1. "seek_value" \notin b.fl
    BY <1>1, <1>9
  <2>2. NamesDue(b, m) = a.len[m] + 0
    BY <2>1, <1>1, Zenon DEF NamesDue
  <2> QED
    BY <2>2, <1>2
<1> HIDE DEF m
<1>11. ASSUME NEW v \in 1..Len(vs), v # m, v <= a.n
       PROVE  NamesDue(b, v) = NamesDue(a, v)
  <2>1. v \in b.open <=> v \in a.open
    BY <1>1, <1>11
  <2>2. v # b.top
    BY <1>1, <1>11
  <2>3. v = a.top => v \in a.open
    BY <1>2, <1>3, <1>11
  <2>4. a.len[v] \in Nat /\ b.len[v] = a.len[v]
    BY <1>1, <1>2
  <2> QED
    BY <2>1, <2>2, <2>3, <2>4, <1>4 DEF NamesDue
<1>12. ASSUME NEW v \in 1..Len(vt)
       PROVE  IF v > b.n THEN /\ vt[v].length = z.len[v] /\ vt[v].bytes = z.byt[v]
                              /\ vt[v].kids = <<>> /\ vt[v].names = <<>>
              ELSE /\ vt[v].capacity = z.len[v]
                   /\ vt[v].room = z.byt[v] + (IF vt[v].type = "string" THEN 1 ELSE 0)
                   /\ Len(vt[v].kids) = vt[v].length
                   /\ vt[v].type = "object" => Len(vt[v].names) = NamesDue(b, v)
  <2>1. v \in 1..Len(vs)
    BY <1>6
  <2>2. CASE v = m
    <3>1. ~(v > b.n) /\ Len(<<>>) = 0
      BY <2>2, <1>1, <1>5
    <3> QED
      BY <2>2, <3>1, <1>7, <1>9, <1>10
  <2>3. CASE v # m
    <3>1. vt[v] = vs[v] /\ (v > b.n <=> v > a.n) /\ (~(v > b.n) => v <= a.n)
      BY <2>1, <2>3, <1>1, <1>2, <1>6 DEF m
    <3>2. v <= a.n => NamesDue(b, v) = NamesDue(a, v)
      BY <2>1, <2>3, <1>11
    <3> QED
      BY <2>1, <3>1, <3>2 DEF Filled
  <2> QED
    BY <2>2, <2>3
<1>13. Filled(vt, z, b)
  BY <1>12 DEF Filled
<1> QED
  BY <1>13 DEF b

(* and has no kids yet.                                                    *)
LEMMA LinkedBegun ==
  ASSUME NEW size \in Nat, NEW vs, NEW vt, NEW z, NEW a, NEW at, NEW fl, NEW slen, Shapes(vs),
         Sound(size, vs, a), a.n + 1 <= Len(vs), Takes(vs, vt, a.n + 1), Filled(vs, z, a),
         Linked(vs, a)
  PROVE  Linked(vt, Begun(a, at, fl, slen))
<1> DEFINE b == Begun(a, at, fl, slen)
           m == a.n + 1
<1>1. b.n = m /\ b.open = a.open \cup {m}
  BY DEF Begun
<1>2. a.n \in Nat /\ a.n <= Len(vs)
  BY SoundCounts, SoundIs
<1>3. m \in 1..Len(vs) /\ m \in Nat
  BY <1>2, ShapesIs
<1>4. vt[m] = Taken(vs[m]) /\ \A w \in 1..Len(vs) : w # m => vt[w] = vs[w]
  BY DEF Takes
<1>5. vs[m].kids = <<>>
  <2>1. m > a.n
    BY <1>2
  <2> QED
    BY <2>1, <1>3 DEF Filled
<1>6. vs[m] \in ValueRecord
  BY <1>3 DEF Shapes
<1>7. vt[m].kids = <<>> /\ vt[m].parent = vs[m].parent
  BY <1>4, <1>5, <1>6, TakenIs
<1>8. \A w \in 1..Len(vs) : vs[w].parent \in Nat /\ vs[w].parent < w
  BY ShapesIs
<1>9. \A w \in 1..a.n : vt[w] = vs[w] /\ w # m /\ w \in 1..Len(vs)
  BY <1>2, <1>4, ShapesIs
<1> HIDE DEF b
<1>10. ASSUME NEW v \in 1..b.n
       PROVE  /\ \A i \in 1..Len(vt[v].kids) :
                    vt[v].kids[i] \in (1..b.n) \ b.open /\ vt[vt[v].kids[i]].parent = v
              /\ \A i, j \in 1..Len(vt[v].kids) : vt[v].kids[i] = vt[v].kids[j] => i = j
              /\ \A w \in (1..b.n) \ b.open :
                    vt[w].parent = v => \E i \in 1..Len(vt[v].kids) : vt[v].kids[i] = w
  <2>1. (1..b.n) \ b.open = (1..a.n) \ a.open
    BY <1>1, <1>2
  <2>2. CASE v = m
    <3>1. \A w \in (1..b.n) \ b.open : vt[w].parent # v
      BY <2>1, <2>2, <1>8, <1>9, <1>2
    <3>2. Len(vt[v].kids) = 0
      BY <2>2, <1>7
    <3> QED
      BY <3>1, <3>2
  <2>3. CASE v \in 1..a.n
    <3>1. /\ \A i \in 1..Len(vs[v].kids) :
                 vs[v].kids[i] \in (1..a.n) \ a.open /\ vs[vs[v].kids[i]].parent = v
          /\ \A i, j \in 1..Len(vs[v].kids) : vs[v].kids[i] = vs[v].kids[j] => i = j
          /\ \A w \in (1..a.n) \ a.open :
                 vs[w].parent = v => \E i \in 1..Len(vs[v].kids) : vs[v].kids[i] = w
      BY <2>3 DEF Linked
    <3>2. vt[v] = vs[v] /\ \A w \in (1..a.n) \ a.open : vt[w] = vs[w]
      BY <2>3, <1>9
    <3>3. ASSUME NEW i \in 1..Len(vt[v].kids)
          PROVE  vt[v].kids[i] \in (1..b.n) \ b.open /\ vt[vt[v].kids[i]].parent = v
      <4>1. vs[v].kids[i] \in (1..a.n) \ a.open /\ vs[vs[v].kids[i]].parent = v /\ vt[v].kids[i] = vs[v].kids[i]
        BY <3>1, <3>2
      <4> QED
        BY <4>1, <3>2, <2>1
    <3>4. \A w \in (1..b.n) \ b.open :
             vt[w].parent = v => \E i \in 1..Len(vt[v].kids) : vt[v].kids[i] = w
      BY <2>1, <3>1, <3>2
    <3>5. \A i, j \in 1..Len(vt[v].kids) : vt[v].kids[i] = vt[v].kids[j] => i = j
      BY <3>1, <3>2
    <3> QED
      BY <3>3, <3>4, <3>5
  <2> QED
    BY <2>2, <2>3, <1>1, <1>2
<1>11. Linked(vt, b)
  BY <1>10 DEF Linked
<1> QED
  BY <1>11 DEF b

(* The top may be finished: it is open, under a value that is open too.    *)
Finishing(vs, a) ==
    /\ a.n \in Nat /\ a.n <= Len(vs) /\ Counts(a.len) /\ a.top \in 1..a.n /\ a.top \in a.open
    /\ vs[a.top].parent # 0 => vs[a.top].parent \in a.open
    /\ vs[a.top].type = "object" => "seek_value" \notin a.fl

(* A value that is finished is linked where it was counted,                *)
LEMMA FilledFinished ==
  ASSUME NEW vs, NEW vt, NEW z, NEW a, NEW byt, NEW at, NEW fl, Shapes(vs), Finishing(vs, a),
         Tallies(vs, vt, a.top, TRUE), Filled(vs, z, a), "seek_value" \notin fl
  PROVE  Filled(vt, z, Finished(vs, a, a.top, a.n, byt, at, fl))
<1> DEFINE b == Finished(vs, a, a.top, a.n, byt, at, fl)
           p == vs[a.top].parent
<1>1. /\ b.fl = FinishedFlags(vs, a.top, fl)
      /\ b.top = IF p = 0 THEN a.top ELSE p
      /\ b.n = a.n /\ b.open = a.open \ {a.top} /\ b.len = Tallied(a.len, p)
  BY DEF Finished
<1>2. /\ a.n \in Nat /\ a.n <= Len(vs) /\ Counts(a.len) /\ a.top \in 1..a.n /\ a.top \in a.open
      /\ p # 0 => p \in a.open
      /\ vs[a.top].type = "object" => "seek_value" \notin a.fl
  BY DEF Finishing
<1>3. p \in Nat /\ p < a.top /\ Len(vs) \in Nat
  BY <1>2, ShapesIs
<1>4. "seek_value" \in b.fl => p # 0 /\ vs[p].type = "array"
  BY <1>1 DEF FinishedFlags
<1> HIDE DEF b
<1>5. /\ Len(vt) = Len(vs)
      /\ \A w \in 1..Len(vs) :
            /\ vt[w].type = vs[w].type /\ vt[w].parent = vs[w].parent
            /\ vt[w].bytes = vs[w].bytes /\ vt[w].capacity = vs[w].capacity
            /\ vt[w].room = vs[w].room /\ vt[w].names = vs[w].names
            /\ vt[w].length = vs[w].length + (IF w = p THEN 1 ELSE 0)
            /\ vt[w].kids = IF w = p THEN Append(vs[w].kids, a.top) ELSE vs[w].kids
  BY DEF Tallies
<1> HIDE DEF p
<1>6. ASSUME NEW v \in 1..Len(vs), v <= a.n, vs[v].type = "object"
      PROVE  NamesDue(b, v) = NamesDue(a, v)
  <2>1. v \in Nat /\ v >= 1 /\ a.len[v] \in Nat
    BY <1>2, CountAt
  <2>2. b.len[v] = a.len[v] + (IF v = p THEN 1 ELSE 0)
    BY <2>1, <1>1, <1>2, <1>3, TalliedAt
  <2>3. CASE v = p
    <3>1. "seek_value" \notin b.fl /\ v = b.top /\ v # a.top /\ v \in a.open
      BY <2>1, <2>3, <1>1, <1>2, <1>3, <1>4, <1>6
    <3>2. NamesDue(b, v) = b.len[v] + 0
      BY <3>1, Zenon DEF NamesDue
    <3>3. NamesDue(a, v) = a.len[v] + 1
      BY <3>1, Zenon DEF NamesDue
    <3> QED
      BY <2>1, <2>2, <2>3, <3>2, <3>3
  <2>4. CASE v = a.top
    <3>2. "seek_value" \notin a.fl /\ v # p /\ v \notin b.open
      BY <2>1, <2>4, <1>1, <1>2, <1>3, <1>6
    <3>3. NamesDue(a, v) = a.len[v] + 0
      BY <2>4, <3>2, Zenon DEF NamesDue
    <3>4. NamesDue(b, v) = b.len[v] + 0
      <4>1. CASE v = b.top
        <5>1. "seek_value" \notin b.fl
          BY <2>4, <4>1, <3>2, <1>1, <1>4
        <5> QED
          BY <4>1, <5>1, Zenon DEF NamesDue
      <4>2. CASE v # b.top
        BY <4>2, <3>2, Zenon DEF NamesDue
      <4> QED
        BY <4>1, <4>2
    <3> QED
      BY <2>1, <2>2, <3>2, <3>3, <3>4
  <2>5. CASE v # p /\ v # a.top
    <3>1. v # b.top /\ (v \in b.open <=> v \in a.open)
      BY <2>5, <1>1
    <3>2. b.len[v] = a.len[v]
      BY <2>1, <2>2, <2>5
    <3> QED
      BY <2>5, <3>1, <3>2, Zenon DEF NamesDue
  <2> QED
    BY <2>3, <2>4, <2>5
<1>7. ASSUME NEW v \in 1..Len(vt)
      PROVE  IF v > b.n THEN /\ vt[v].length = z.len[v] /\ vt[v].bytes = z.byt[v]
                             /\ vt[v].kids = <<>> /\ vt[v].names = <<>>
             ELSE /\ vt[v].capacity = z.len[v]
                  /\ vt[v].room = z.byt[v] + (IF vt[v].type = "string" THEN 1 ELSE 0)
                  /\ Len(vt[v].kids) = vt[v].length
                  /\ vt[v].type = "object" => Len(vt[v].names) = NamesDue(b, v)
  <2>1. v \in 1..Len(vs)
    BY <1>5
  <2>2. vs[v].kids \in Seq(Nat) /\ vs[v].length \in Nat
    BY <2>1, RecordIs
  <2>3. CASE v > a.n
    <3>1. /\ vs[v].length = z.len[v] /\ vs[v].bytes = z.byt[v]
          /\ vs[v].kids = <<>> /\ vs[v].names = <<>>
      BY <2>1, <2>3 DEF Filled
    <3>2. v # p
      BY <2>3, <1>2, <1>3
    <3>3. vt[v].length = vs[v].length + 0 /\ vt[v].kids = vs[v].kids
      BY <2>1, <3>2, <1>5
    <3>4. vt[v].bytes = vs[v].bytes /\ vt[v].names = vs[v].names
      BY <2>1, <1>5
    <3> QED
      BY <2>2, <2>3, <3>1, <3>3, <3>4, <1>1
  <2>4. CASE v <= a.n
    <3>1. /\ vs[v].capacity = z.len[v]
          /\ vs[v].room = z.byt[v] + (IF vs[v].type = "string" THEN 1 ELSE 0)
          /\ Len(vs[v].kids) = vs[v].length
          /\ vs[v].type = "object" => Len(vs[v].names) = NamesDue(a, v)
      BY <2>1, <2>4, <1>2 DEF Filled
    <3>2. Len(vt[v].kids) = vt[v].length
      <4>1. CASE v = p
        <5>1. vt[v].kids = Append(vs[v].kids, a.top) /\ vt[v].length = vs[v].length + 1
          BY <2>1, <4>1, <1>5
        <5>2. Len(Append(vs[v].kids, a.top)) = Len(vs[v].kids) + 1
          BY <2>2, <1>2
        <5> QED
          BY <3>1, <5>1, <5>2
      <4>2. CASE v # p
        <5>1. vt[v].kids = vs[v].kids /\ vt[v].length = vs[v].length + 0
          BY <2>1, <4>2, <1>5
        <5> QED
          BY <2>2, <3>1, <5>1
      <4> QED
        BY <4>1, <4>2
    <3>3. /\ vt[v].type = vs[v].type /\ vt[v].capacity = vs[v].capacity /\ vt[v].room = vs[v].room
          /\ vt[v].names = vs[v].names
      BY <2>1, <1>5
    <3>4. vs[v].type = "object" => NamesDue(b, v) = NamesDue(a, v)
      BY <2>1, <2>4, <1>6
    <3>5. ~(v > b.n)
      BY <2>4, <1>1, <1>2
    <3> QED
      BY <3>1, <3>2, <3>3, <3>4, <3>5
  <2> QED
    BY <2>3, <2>4, <2>1, <1>2
<1>8. Filled(vt, z, b)
  BY <1>7 DEF Filled
<1> QED
  BY <1>8 DEF b

(* once.                                                                   *)
LEMMA LinkedFinished ==
  ASSUME NEW vs, NEW vt, NEW a, NEW byt, NEW at, NEW fl, Shapes(vs), Finishing(vs, a),
         Tallies(vs, vt, a.top, TRUE), Linked(vs, a)
  PROVE  Linked(vt, Finished(vs, a, a.top, a.n, byt, at, fl))
<1> DEFINE b == Finished(vs, a, a.top, a.n, byt, at, fl)
           p == vs[a.top].parent
<1>1. b.n = a.n /\ b.open = a.open \ {a.top}
  BY DEF Finished
<1>2. a.n \in Nat /\ a.n <= Len(vs) /\ a.top \in 1..a.n /\ a.top \in a.open
  BY DEF Finishing
<1>3. p \in Nat /\ Len(vs) \in Nat
  BY <1>2, ShapesIs
<1>4. \A w \in 1..Len(vs) :
            /\ vt[w].parent = vs[w].parent
            /\ vt[w].kids = IF w = p THEN Append(vs[w].kids, a.top) ELSE vs[w].kids
  BY DEF Tallies
<1>5. vt[a.top].parent = p
  BY <1>2, <1>3, <1>4
<1> HIDE DEF b, p
<1>6. ASSUME NEW v \in 1..b.n
      PROVE  /\ \A i \in 1..Len(vt[v].kids) :
                   vt[v].kids[i] \in (1..b.n) \ b.open /\ vt[vt[v].kids[i]].parent = v
             /\ \A i, j \in 1..Len(vt[v].kids) : vt[v].kids[i] = vt[v].kids[j] => i = j
             /\ \A w \in (1..b.n) \ b.open :
                   vt[w].parent = v => \E i \in 1..Len(vt[v].kids) : vt[v].kids[i] = w
  <2>1. v \in 1..Len(vs) /\ v \in 1..a.n
    BY <1>1, <1>2, <1>3
  <2>2. vs[v].kids \in Seq(Nat) /\ Len(vs[v].kids) \in Nat
    BY <2>1, RecordIs
  <2>3. /\ \A i \in 1..Len(vs[v].kids) :
              vs[v].kids[i] \in (1..a.n) \ a.open /\ vs[vs[v].kids[i]].parent = v
        /\ \A i, j \in 1..Len(vs[v].kids) : vs[v].kids[i] = vs[v].kids[j] => i = j
        /\ \A w \in (1..a.n) \ a.open :
              vs[w].parent = v => \E i \in 1..Len(vs[v].kids) : vs[v].kids[i] = w
    BY <2>1 DEF Linked
  <2>4. (1..b.n) \ b.open = ((1..a.n) \ a.open) \cup {a.top}
    BY <1>1, <1>2
  <2>5. \A w \in 1..a.n : vt[w].parent = vs[w].parent
    BY <1>2, <1>3, <1>4
  <2>6. \A i \in 1..Len(vs[v].kids) :
              /\ vs[v].kids[i] \in (1..b.n) \ b.open /\ vt[vs[v].kids[i]].parent = v
              /\ vs[v].kids[i] # a.top
    <3> SUFFICES ASSUME NEW i \in 1..Len(vs[v].kids)
                 PROVE  /\ vs[v].kids[i] \in (1..b.n) \ b.open /\ vt[vs[v].kids[i]].parent = v
                        /\ vs[v].kids[i] # a.top
      OBVIOUS
    <3>1. vs[v].kids[i] \in (1..a.n) \ a.open /\ vs[vs[v].kids[i]].parent = v
      BY <2>3
    <3> QED
      BY <3>1, <2>4, <2>5, <1>2
  <2>7. CASE v # p
    <3>1. vt[v].kids = vs[v].kids
      BY <2>1, <2>7, <1>4
    <3>2. \A w \in (1..b.n) \ b.open :
             vt[w].parent = v => \E i \in 1..Len(vs[v].kids) : vs[v].kids[i] = w
      BY <2>3, <2>4, <2>5, <2>7, <1>5
    <3> QED
      BY <2>3, <2>6, <3>1, <3>2
  <2>8. CASE v = p
    <3> DEFINE k == Append(vs[v].kids, a.top)
               n == Len(vs[v].kids)
    <3>1. vt[v].kids = k
      BY <2>1, <2>8, <1>4
    <3>2. Len(k) = n + 1 /\ k[n + 1] = a.top /\ \A i \in 1..n : k[i] = vs[v].kids[i]
      BY <2>2, <1>2
    <3>3. n \in Nat
      BY <2>2
    <3> HIDE DEF k, n
    <3>4. ASSUME NEW i \in 1..Len(k)
          PROVE  k[i] \in (1..b.n) \ b.open /\ vt[k[i]].parent = v
      <4>1. CASE i = n + 1
        BY <4>1, <3>2, <2>4, <2>8, <1>5
      <4>2. CASE i \in 1..n
        BY <4>2, <3>2, <2>6 DEF n
      <4> QED
        BY <4>1, <4>2, <3>2, <3>3
    <3>5. ASSUME NEW i \in 1..Len(k), NEW j \in 1..Len(k), k[i] = k[j]
          PROVE  i = j
      <4>1. \A l \in 1..n : k[l] # a.top
        BY <3>2, <2>6 DEF n
      <4>2. CASE i \in 1..n /\ j \in 1..n
        BY <4>2, <3>2, <3>5, <2>3 DEF n
      <4>3. CASE i = n + 1 \/ j = n + 1
        BY <4>1, <4>3, <3>2, <3>3, <3>5
      <4> QED
        BY <4>2, <4>3, <3>2, <3>3
    <3>6. ASSUME NEW w \in (1..b.n) \ b.open, vt[w].parent = v
          PROVE  \E i \in 1..Len(k) : k[i] = w
      <4>1. CASE w = a.top
        BY <4>1, <3>2, <3>3
      <4>2. CASE w \in (1..a.n) \ a.open
        <5>1. PICK i \in 1..n : vs[v].kids[i] = w
          BY <4>2, <3>6, <2>3, <2>5 DEF n
        <5> QED
          BY <5>1, <3>2, <3>3
      <4> QED
        BY <4>1, <4>2, <2>4
    <3> QED
      BY <3>1, <3>4, <3>5, <3>6
  <2> QED
    BY <2>7, <2>8
<1>7. Linked(vt, b)
  BY <1>6 DEF Linked
<1> QED
  BY <1>7 DEF b

(* A string's bytes, and a key's, are counted.                             *)
Sizes(vs, vt, m, bytes) ==
    /\ Len(vt) = Len(vs)
    /\ \A w \in 1..Len(vs) :
          /\ vt[w].type = vs[w].type /\ vt[w].parent = vs[w].parent /\ vt[w].length = vs[w].length
          /\ vt[w].capacity = vs[w].capacity /\ vt[w].room = vs[w].room /\ vt[w].kids = vs[w].kids
          /\ vt[w].bytes = IF w = m THEN bytes ELSE vs[w].bytes

(* No name is added, or in the second pass that of the key just read.      *)
Names(vs, vt, m, second, slen) ==
    \A w \in 1..Len(vs) : vt[w].names = IF w = m /\ second THEN Append(vs[w].names, slen) ELSE vs[w].names

(* Where only the cursor and the flags move, the counts stay matched,      *)
LEMMA MatchesMoved ==
  ASSUME NEW vs, NEW a, NEW at, NEW fl, NEW slen, Matches(vs, a)
  PROVE  Matches(vs, Moved(a, at, fl, slen, a.byt))
<1> DEFINE b == Moved(a, at, fl, slen, a.byt)
<1>1. b.n = a.n /\ b.len = a.len /\ b.byt = a.byt
  BY DEF Moved
<1> HIDE DEF b
<1>2. Matches(vs, b)
  BY <1>1 DEF Matches
<1> QED
  BY <1>2 DEF b

(* what is filled stays so, while no member begins or ends,                *)
LEMMA FilledMoved ==
  ASSUME NEW vs, NEW z, NEW a, NEW at, NEW fl, NEW slen, NEW byt, Filled(vs, z, a),
         "seek_value" \in fl <=> "seek_value" \in a.fl
  PROVE  Filled(vs, z, Moved(a, at, fl, slen, byt))
<1> DEFINE b == Moved(a, at, fl, slen, byt)
<1>1. b.n = a.n /\ b.len = a.len /\ b.open = a.open /\ b.top = a.top /\ b.fl = fl
  BY DEF Moved
<1> HIDE DEF b
<1>2. \A v : NamesDue(b, v) = NamesDue(a, v)
  BY <1>1, Zenon DEF NamesDue
<1>3. Filled(vs, z, b)
  BY <1>1, <1>2 DEF Filled
<1> QED
  BY <1>3 DEF b

(* and the tree stays linked.                                              *)
LEMMA LinkedMoved ==
  ASSUME NEW vs, NEW vt, NEW a, NEW at, NEW fl, NEW slen, NEW byt, Linked(vs, a), a.n \in Nat, a.n <= Len(vs),
         Len(vs) \in Nat, \A w \in 1..Len(vs) : vt[w].parent = vs[w].parent /\ vt[w].kids = vs[w].kids
  PROVE  Linked(vt, Moved(a, at, fl, slen, byt))
<1> DEFINE b == Moved(a, at, fl, slen, byt)
<1>1. b.n = a.n /\ b.open = a.open
  BY DEF Moved
<1> HIDE DEF b
<1>2. ASSUME NEW v \in 1..a.n
      PROVE  /\ \A i \in 1..Len(vt[v].kids) :
                   vt[v].kids[i] \in (1..a.n) \ a.open /\ vt[vt[v].kids[i]].parent = v
             /\ \A i, j \in 1..Len(vt[v].kids) : vt[v].kids[i] = vt[v].kids[j] => i = j
             /\ \A w \in (1..a.n) \ a.open :
                   vt[w].parent = v => \E i \in 1..Len(vt[v].kids) : vt[v].kids[i] = w
  <2>1. vt[v].kids = vs[v].kids /\ \A w \in 1..a.n : vt[w].parent = vs[w].parent
    OBVIOUS
  <2>2. /\ \A i \in 1..Len(vs[v].kids) :
              vs[v].kids[i] \in (1..a.n) \ a.open /\ vs[vs[v].kids[i]].parent = v
        /\ \A i, j \in 1..Len(vs[v].kids) : vs[v].kids[i] = vs[v].kids[j] => i = j
        /\ \A w \in (1..a.n) \ a.open :
              vs[w].parent = v => \E i \in 1..Len(vs[v].kids) : vs[v].kids[i] = w
    BY DEF Linked
  <2>3. \A i \in 1..Len(vs[v].kids) : vt[vs[v].kids[i]].parent = v
    BY <2>1, <2>2
  <2> QED
    BY <2>1, <2>2, <2>3
<1>3. ASSUME NEW v \in 1..b.n
      PROVE  /\ \A i \in 1..Len(vt[v].kids) :
                   vt[v].kids[i] \in (1..b.n) \ b.open /\ vt[vt[v].kids[i]].parent = v
             /\ \A i, j \in 1..Len(vt[v].kids) : vt[v].kids[i] = vt[v].kids[j] => i = j
             /\ \A w \in (1..b.n) \ b.open :
                   vt[w].parent = v => \E i \in 1..Len(vt[v].kids) : vt[v].kids[i] = w
  BY <1>1, <1>2
<1>4. Linked(vt, b)
  BY <1>3 DEF Linked
<1> QED
  BY <1>4 DEF b

(* The bytes counted are those of the point.                               *)
LEMMA MatchesSized ==
  ASSUME NEW vs, NEW vt, NEW a, NEW at, NEW fl, NEW slen, NEW bytes, Len(vs) \in Nat, a.n \in Nat, a.n <= Len(vs),
         a.top \in Nat, Counts(a.byt), Matches(vs, a), Sizes(vs, vt, a.top, bytes)
  PROVE  Matches(vt, Moved(a, at, fl, slen, With(a.byt, a.top, bytes)))
<1> DEFINE byt == With(a.byt, a.top, bytes)
           b == Moved(a, at, fl, slen, byt)
<1>1. b.n = a.n /\ b.len = a.len /\ b.byt = byt
  BY DEF Moved
<1>2. byt[a.top] = bytes /\ \A v \in Nat : v # a.top => byt[v] = a.byt[v]
  BY CountChanged
<1> HIDE DEF b, byt
<1>3. ASSUME NEW v \in 1..b.n
      PROVE  vt[v].length = b.len[v] /\ vt[v].bytes = b.byt[v]
  <2>1. v \in 1..Len(vs) /\ v \in 1..a.n /\ v \in Nat
    BY <1>1
  <2>2. vt[v].length = vs[v].length /\ vt[v].bytes = IF v = a.top THEN bytes ELSE vs[v].bytes
    BY <2>1 DEF Sizes
  <2>3. vs[v].length = a.len[v] /\ vs[v].bytes = a.byt[v]
    BY <2>1 DEF Matches
  <2> QED
    BY <2>1, <2>2, <2>3, <1>1, <1>2
<1>4. Matches(vt, b)
  BY <1>3 DEF Matches
<1> QED
  BY <1>4 DEF b, byt

(* The end of a string or of a key changes the bytes of the top; in the    *)
(* second pass it adds the key's name, which the value that is sought then *)
(* makes due.                                                              *)
LEMMA FilledSized ==
  ASSUME NEW vs, NEW vt, NEW z, NEW a, NEW at, NEW fl, NEW slen, NEW byt, NEW bytes, NEW name,
         Shapes(vs), a.n \in Nat, Counts(a.len), a.top \in 1..a.n, a.n <= Len(vs), Filled(vs, z, a), Sizes(vs, vt, a.top, bytes),
         \/ Names(vs, vt, a.top, FALSE, name) /\ ("seek_value" \in fl <=> "seek_value" \in a.fl)
         \/ /\ Names(vs, vt, a.top, TRUE, name) /\ name \in Nat
            /\ "seek_value" \in fl /\ "seek_value" \notin a.fl
  PROVE  Filled(vt, z, Moved(a, at, fl, slen, byt))
<1> DEFINE b == Moved(a, at, fl, slen, byt)
<1>1. b.n = a.n /\ b.len = a.len /\ b.open = a.open /\ b.top = a.top /\ b.fl = fl
  BY DEF Moved
<1> HIDE DEF b
<1>2. /\ Len(vt) = Len(vs)
      /\ \A w \in 1..Len(vs) :
          /\ vt[w].type = vs[w].type /\ vt[w].length = vs[w].length
          /\ vt[w].capacity = vs[w].capacity /\ vt[w].room = vs[w].room /\ vt[w].kids = vs[w].kids
          /\ w # a.top => vt[w].bytes = vs[w].bytes
  BY DEF Sizes
<1>3. ASSUME NEW v \in 1..Len(vs)
      PROVE  /\ v > a.n => vt[v].names = vs[v].names /\ vt[v].bytes = vs[v].bytes
             /\ v <= a.n /\ vs[v].type = "object" => Len(vt[v].names) = NamesDue(b, v)
  <2>1. v > a.n => v # a.top
    OBVIOUS
  <2>2. v # a.top => vt[v].names = vs[v].names
    BY DEF Names
  <2>3. v > a.n => vt[v].names = vs[v].names /\ vt[v].bytes = vs[v].bytes
    BY <2>1, <2>2, <1>2
  <2>4. ASSUME v <= a.n, vs[v].type = "object" PROVE Len(vt[v].names) = NamesDue(b, v)
    <3>1. Len(vs[v].names) = NamesDue(a, v)
      BY <2>4 DEF Filled
    <3>2. a.len[v] \in Nat /\ vs[v].names \in Seq(Nat)
      BY RecordIs, CountAt
    <3>3. CASE v # a.top
      <4>1. NamesDue(b, v) = NamesDue(a, v)
        BY <3>3, <1>1, Zenon DEF NamesDue
      <4> QED
        BY <3>1, <3>3, <4>1, <2>2
    <3>4. CASE /\ v = a.top /\ Names(vs, vt, a.top, FALSE, name)
               /\ "seek_value" \in fl <=> "seek_value" \in a.fl
      <4>1. NamesDue(b, v) = NamesDue(a, v)
        BY <3>4, <1>1, Zenon DEF NamesDue
      <4>2. vt[v].names = vs[v].names
        BY <3>4 DEF Names
      <4> QED
        BY <3>1, <4>1, <4>2
    <3>5. CASE /\ v = a.top /\ Names(vs, vt, a.top, TRUE, name) /\ name \in Nat
               /\ "seek_value" \in fl /\ "seek_value" \notin a.fl
      <4>1. NamesDue(b, v) = a.len[v] + 1 /\ NamesDue(a, v) = a.len[v] + 0
        BY <3>5, <1>1, Zenon DEF NamesDue
      <4>2. vt[v].names = Append(vs[v].names, name)
        BY <3>5 DEF Names
      <4>3. Len(Append(vs[v].names, name)) = Len(vs[v].names) + 1
        BY <3>2, <3>5
      <4> QED
        BY <3>1, <3>2, <4>1, <4>2, <4>3
    <3> QED
      BY <3>3, <3>4, <3>5
  <2> QED
    BY <2>3, <2>4
<1>4. ASSUME NEW v \in 1..Len(vt)
      PROVE  IF v > b.n THEN /\ vt[v].length = z.len[v] /\ vt[v].bytes = z.byt[v]
                             /\ vt[v].kids = <<>> /\ vt[v].names = <<>>
             ELSE /\ vt[v].capacity = z.len[v]
                  /\ vt[v].room = z.byt[v] + (IF vt[v].type = "string" THEN 1 ELSE 0)
                  /\ Len(vt[v].kids) = vt[v].length
                  /\ vt[v].type = "object" => Len(vt[v].names) = NamesDue(b, v)
  <2>1. v \in 1..Len(vs)
    BY <1>2
  <2>2. CASE v > a.n
    <3>1. /\ vs[v].length = z.len[v] /\ vs[v].bytes = z.byt[v]
          /\ vs[v].kids = <<>> /\ vs[v].names = <<>>
      BY <2>1, <2>2 DEF Filled
    <3> QED
      BY <2>1, <2>2, <3>1, <1>1, <1>2, <1>3
  <2>3. CASE ~(v > a.n)
    <3>1. /\ vs[v].capacity = z.len[v]
          /\ vs[v].room = z.byt[v] + (IF vs[v].type = "string" THEN 1 ELSE 0)
          /\ Len(vs[v].kids) = vs[v].length
      BY <2>1, <2>3 DEF Filled
    <3>2. v <= a.n
      BY <2>1, <2>3
    <3> QED
      BY <2>1, <2>3, <3>1, <3>2, <1>1, <1>2, <1>3
  <2> QED
    BY <2>2, <2>3
<1>5. Filled(vt, z, b)
  BY <1>4 DEF Filled
<1> QED
  BY <1>5 DEF b

-----------------------------------------------------------------------------
(* What an action does to the values                                       *)

(* One value of a chain changes, and neither its parent nor its place.     *)
LEMMA OneChanged ==
  ASSUME NEW vs, Shapes(vs), NEW p \in 1..Len(vs), NEW r \in ValueRecord, r.parent = vs[p].parent,
         NEW vt, vt = With(vs, p, r)
  PROVE  /\ Shapes(vt) /\ Len(vt) = Len(vs) /\ Len(vs) \in Nat
         /\ vt[p] = r /\ \A w \in 1..Len(vs) : w # p => vt[w] = vs[w]
<1>1. vs \in Seq(ValueRecord) /\ \A w \in 1..Len(vs) : vs[w].parent < w
  BY DEF Shapes
<1>0. vt = [vs EXCEPT ![p] = r]
  BY DEF With
<1> HIDE DEF ValueRecord
<1>2. vt \in Seq(ValueRecord) /\ Len(vt) = Len(vs) /\ Len(vs) \in Nat
  BY <1>0, <1>1
<1>3. vt[p] = r /\ \A w \in 1..Len(vs) : w # p => vt[w] = vs[w]
  BY <1>0, <1>1
<1>4. \A w \in 1..Len(vt) : vt[w].parent < w
  <2> SUFFICES ASSUME NEW w \in 1..Len(vs) PROVE vt[w].parent < w
    BY <1>2
  <2> QED
    BY <1>1, <1>3
<1> QED
  BY <1>2, <1>3, <1>4 DEF Shapes

(* A chain grows by a value that lies under one of it, or under none.      *)
LEMMA OneAdded ==
  ASSUME NEW vs, Shapes(vs), NEW r \in ValueRecord, r.parent <= Len(vs)
  PROVE  /\ Shapes(Append(vs, r)) /\ Len(Append(vs, r)) = Len(vs) + 1
         /\ Append(vs, r)[Len(vs) + 1] = r /\ \A w \in 1..Len(vs) : Append(vs, r)[w] = vs[w]
<1>1. vs \in Seq(ValueRecord) /\ \A w \in 1..Len(vs) : vs[w].parent < w
  BY DEF Shapes
<1> DEFINE vt == Append(vs, r)
<1>2. /\ vt \in Seq(ValueRecord) /\ Len(vt) = Len(vs) + 1 /\ Len(vs) \in Nat
      /\ vt[Len(vs) + 1] = r /\ \A w \in 1..Len(vs) : vt[w] = vs[w]
  BY <1>1
<1> HIDE DEF vt
<1>3. \A w \in 1..Len(vt) : vt[w].parent < w
  <2> SUFFICES ASSUME NEW w \in 1..Len(vt) PROVE vt[w].parent < w
    OBVIOUS
  <2>1. CASE w = Len(vs) + 1
    <3>1. r.parent \in Nat
      BY DEF ValueRecord
    <3> QED
      BY <2>1, <3>1, <1>2
  <2>2. CASE w \in 1..Len(vs)
    BY <2>2, <1>1, <1>2
  <2> QED
    BY <2>1, <2>2, <1>2
<1>4. Shapes(vt)
  BY <1>2, <1>3 DEF Shapes
<1> QED
  BY <1>2, <1>4 DEF vt

(* Chains whose values have the same parents and types are alike.          *)
LEMMA SameAlike ==
  ASSUME NEW vs, NEW vt, NEW n \in Nat, \A w \in 1..n : vt[w].parent = vs[w].parent /\ vt[w].type = vs[w].type
  PROVE  Alike(vs, vt, n)
BY DEF Alike

(* What FinishValue does: the value is counted in its parent, if it has    *)
(* one, which is the top again.                                            *)
LEMMA FinishEffect ==
  ASSUME NEW vs, NEW v \in 1..Len(vs), NEW fs, NEW at, Shapes(vs), FinishValue(vs, v, fs, at)
  PROVE  /\ ptr' = at /\ flags' = FinishedFlags(vs, v, fs)
         /\ top' = IF vs[v].parent = 0 THEN v ELSE vs[v].parent
         /\ Shapes(values') /\ Tallies(vs, values', v, pass # 1)
         /\ UNCHANGED <<pass, stage, error, freeing>>
<1> DEFINE p == vs[v].parent
<1>1. vs[v].parent \in Nat /\ vs[v].parent < v /\ Len(vs) \in Nat
  BY ShapesIs
<1>2. ptr' = at /\ UNCHANGED <<pass, stage, error, freeing>>
  BY DEF FinishValue
<1>3. flags' = FinishedFlags(vs, v, fs)
  BY DEF FinishValue, FinishedFlags
<1>4. top' = IF vs[v].parent = 0 THEN v ELSE vs[v].parent
  BY DEF FinishValue
<1>5. CASE p = 0
  <2>1. values' = vs
    BY <1>5 DEF FinishValue
  <2>2. Tallies(vs, values', v, pass # 1)
    <3> SUFFICES ASSUME NEW w \in 1..Len(vs)
                 PROVE  /\ vs[w].length = vs[w].length + (IF w = p THEN 1 ELSE 0)
                        /\ vs[w].kids = IF w = p /\ pass # 1 THEN Append(vs[w].kids, v) ELSE vs[w].kids
      BY <2>1 DEF Tallies
    <3>1. vs[w].length \in Nat /\ w # p
      BY <1>5, <1>1, RecordIs
    <3> QED
      BY <3>1
  <2> QED
    BY <2>1, <2>2, <1>2, <1>3, <1>4
<1>6. CASE p # 0
  <2>1. p \in 1..Len(vs)
    BY <1>6, <1>1
  <2> DEFINE n == vs[p].length + 1
             k == IF pass = 1 THEN vs[p].kids ELSE Append(vs[p].kids, v)
             r == [vs[p] EXCEPT !.length = n, !.kids = k]
  <2>2. values' = With(vs, p, r)
    BY <1>6 DEF FinishValue, With
  <2>3. vs[p].length \in Nat /\ vs[p].kids \in Seq(Nat) /\ vs[p] \in ValueRecord
    BY <2>1, RecordIs DEF Shapes
  <2>4. n \in Nat /\ k \in Seq(Nat)
    BY <2>3
  <2>5. n = vs[p].length + 1 /\ k = IF pass # 1 THEN Append(vs[p].kids, v) ELSE vs[p].kids
    OBVIOUS
  <2> HIDE DEF n, k
  <2>6. /\ r \in ValueRecord
        /\ r.type = vs[p].type /\ r.parent = vs[p].parent /\ r.bytes = vs[p].bytes
        /\ r.capacity = vs[p].capacity /\ r.room = vs[p].room /\ r.names = vs[p].names
        /\ r.length = n /\ r.kids = k
    BY <2>3, <2>4 DEF ValueRecord
  <2> HIDE DEF r
  <2>7. /\ Shapes(values') /\ Len(values') = Len(vs)
        /\ values'[p] = r /\ \A w \in 1..Len(vs) : w # p => values'[w] = vs[w]
    BY <2>1, <2>2, <2>6, OneChanged
  <2>8. ASSUME NEW w \in 1..Len(vs)
        PROVE  /\ values'[w].type = vs[w].type /\ values'[w].parent = vs[w].parent
               /\ values'[w].bytes = vs[w].bytes /\ values'[w].capacity = vs[w].capacity
               /\ values'[w].room = vs[w].room /\ values'[w].names = vs[w].names
               /\ values'[w].length = vs[w].length + (IF w = p THEN 1 ELSE 0)
               /\ values'[w].kids = IF w = p /\ pass # 1 THEN Append(vs[w].kids, v) ELSE vs[w].kids
    <3>1. CASE w = p
      BY <3>1, <2>5, <2>6, <2>7
    <3>2. CASE w # p
      <4>1. vs[w].length \in Nat
        BY RecordIs
      <4> QED
        BY <3>2, <4>1, <2>7
    <3> QED
      BY <3>1, <3>2
  <2>9. Tallies(vs, values', v, pass # 1)
    BY <2>7, <2>8 DEF Tallies
  <2> QED
    BY <2>7, <2>9, <1>2, <1>3, <1>4
<1> QED
  BY <1>5, <1>6

(* What new_value does in the first pass: a value is added to the chain.   *)
LEMMA NewFirst ==
  ASSUME Shapes(values), pass = 1, NEW type \in Types, NEW num \in Int, top \in 0..Len(values)
  PROVE  /\ Shapes(NewValues(type, num)) /\ Len(NewValues(type, num)) = Len(values) + 1
         /\ NewTop = Len(values) + 1 /\ NewAlloc = Len(values) + 1
         /\ Allocates = {Block(Len(values) + 1)}
         /\ \A w \in 1..Len(values) : NewValues(type, num)[w] = values[w]
         /\ NewValues(type, num)[Len(values) + 1].type = type
         /\ NewValues(type, num)[Len(values) + 1].parent = top
         /\ NewValues(type, num)[Len(values) + 1].length = 0
         /\ NewValues(type, num)[Len(values) + 1].bytes = 0
         /\ NewValues(type, num)[Len(values) + 1].kids = <<>>
         /\ NewValues(type, num)[Len(values) + 1].names = <<>>
<1>1. Len(values) \in Nat
  BY ShapesIs
<1> DEFINE r == Fresh(type, num)
<1>2. /\ r \in ValueRecord /\ r.type = type /\ r.parent = top /\ r.length = 0 /\ r.bytes = 0
      /\ r.kids = <<>> /\ r.names = <<>>
  BY <1>1 DEF Fresh, ValueRecord
<1>3. NewValues(type, num) = Append(values, r)
  BY DEF NewValues
<1> HIDE DEF r
<1>4. r.parent <= Len(values)
  BY <1>1, <1>2
<1>5. /\ Shapes(Append(values, r)) /\ Len(Append(values, r)) = Len(values) + 1
      /\ Append(values, r)[Len(values) + 1] = r
      /\ \A w \in 1..Len(values) : Append(values, r)[w] = values[w]
  BY <1>2, <1>4, OneAdded
<1>6. NewTop = Len(values) + 1 /\ NewAlloc = Len(values) + 1 /\ Allocates = {Block(Len(values) + 1)}
  BY DEF NewTop, NewAlloc, Allocates
<1> QED
  BY <1>2, <1>3, <1>5, <1>6

(* And in the second: the next value of the chain is taken.                *)
LEMMA NewSecond ==
  ASSUME Shapes(values), pass = 0, NEW type, NEW num, alloc \in 1..Len(values)
  PROVE  /\ Shapes(NewValues(type, num)) /\ Takes(values, NewValues(type, num), alloc)
         /\ NewTop = alloc /\ NewAlloc = IF alloc < Len(values) THEN alloc + 1 ELSE 0
         /\ Allocates \subseteq {DataBlock(alloc)}
         /\ \A w \in 1..Len(values) : /\ NewValues(type, num)[w].type = values[w].type
                                      /\ NewValues(type, num)[w].parent = values[w].parent
<1> DEFINE r == Taken(values[alloc])
<1>1. values[alloc] \in ValueRecord
  BY DEF Shapes
<1>2. r \in ValueRecord /\ r.parent = values[alloc].parent /\ r.type = values[alloc].type
  BY <1>1, TakenIs
<1>3. NewValues(type, num) = With(values, alloc, r)
  BY DEF NewValues, With
<1>4. NewTop = alloc /\ NewAlloc = IF alloc < Len(values) THEN alloc + 1 ELSE 0
  BY DEF NewTop, NewAlloc
<1>5. Allocates \subseteq {DataBlock(alloc)}
  BY DEF Allocates
<1>6. r = Taken(values[alloc])
  OBVIOUS
<1> DEFINE vt == NewValues(type, num)
<1> HIDE DEF r, vt
<1>7. /\ Shapes(vt) /\ Len(vt) = Len(values)
      /\ vt[alloc] = r /\ \A w \in 1..Len(values) : w # alloc => vt[w] = values[w]
  <2>1. vt = With(values, alloc, r)
    BY <1>3 DEF vt
  <2> QED
    BY <2>1, <1>2, OneChanged
<1>8. Takes(values, vt, alloc)
  BY <1>6, <1>7 DEF Takes
<1>9. \A w \in 1..Len(values) : vt[w].type = values[w].type /\ vt[w].parent = values[w].parent
  BY <1>2, <1>7
<1> QED
  BY <1>4, <1>5, <1>7, <1>8, <1>9 DEF vt

(* What the end of a string or of a key does to the value it is of.        *)
Lengths(s) == s \in Seq(Nat)
Renamed(vs, vt, p, names) ==
    \A w \in 1..Len(vs) : vt[w].names = IF w = p THEN names ELSE vs[w].names
Resized(r, bytes, names) == [r EXCEPT !.bytes = bytes, !.names = names]

(* Nothing but bytes and names of that value is changed.                   *)
LEMMA SizedEffect ==
  ASSUME NEW vs, NEW vt, NEW p \in 1..Len(vs), NEW bytes \in Nat, NEW names, Lengths(names), Shapes(vs),
         vt = With(vs, p, Resized(vs[p], bytes, names))
  PROVE  /\ Shapes(vt) /\ Sizes(vs, vt, p, bytes)
         /\ Renamed(vs, vt, p, names)
<1> DEFINE r == Resized(vs[p], bytes, names)
<1>1. vs[p] \in ValueRecord
  BY DEF Shapes
<1>2. /\ r \in ValueRecord
      /\ r.type = vs[p].type /\ r.parent = vs[p].parent /\ r.length = vs[p].length
      /\ r.capacity = vs[p].capacity /\ r.room = vs[p].room /\ r.kids = vs[p].kids
      /\ r.bytes = bytes /\ r.names = names
  BY <1>1 DEF ValueRecord, Resized, Lengths
<1>3. vt = With(vs, p, r)
  OBVIOUS
<1> HIDE DEF r
<1>4. /\ Shapes(vt) /\ Len(vt) = Len(vs)
      /\ vt[p] = r /\ \A w \in 1..Len(vs) : w # p => vt[w] = vs[w]
  BY <1>2, <1>3, OneChanged
<1>5. Sizes(vs, vt, p, bytes)
  BY <1>2, <1>4 DEF Sizes
<1> QED
  BY <1>2, <1>4, <1>5 DEF Renamed

-----------------------------------------------------------------------------
(* From one point of the run to the next                                   *)

(* The parser stands at point k of the run.                                *)
Standing(run, k) ==
    /\ k \in 1..Len(run) /\ At(run[k])
    /\ IF pass = 1 THEN k = Len(run) /\ Chained /\ Len(values) = run[k].n
       ELSE Whole(Last(run)) /\ Filling(Last(run), run[k])

Ready(run, k) ==
    /\ stage = "parsing" /\ pass \in {0, 1} /\ Len(text) \in Nat /\ Shapes(values)
    /\ Run(text, ended, values, run) /\ Standing(run, k)

(* The text goes on, in the first pass only.                               *)
ReadOn == Extends(text, ended, text', ended') /\ (pass = 0 => text' = text /\ ended' = ended)

(* Byte c is read, the end of the text among them.                         *)
Byte(c) ==
    /\ c # End => ptr \in 1..Len(text') /\ text'[ptr] = c
    /\ c = End => IF ptr <= Len(text') THEN text'[ptr] = End ELSE ended'

(* What holds of the point the parser stands at.                           *)
LEMMA ReadyIs ==
  ASSUME NEW run, NEW k, Ready(run, k)
  PROVE  /\ k \in 1..Len(run) /\ Len(run) \in Nat
         /\ run[k] \in Point /\ Sound(Len(text), values, run[k]) /\ At(run[k])
         /\ run[k].n \in Nat /\ run[k].n <= Len(values) /\ Len(values) \in Nat
         /\ ptr = run[k].at /\ ptr \in 1..(Len(text) + 1) /\ Len(text) \in Nat
         /\ pass \in {0, 1} /\ Shapes(values) /\ stage = "parsing"
         /\ pass = 1 => k = Len(run) /\ run[k] = Last(run) /\ Chained /\ Len(values) = run[k].n
         /\ pass = 0 => Whole(Last(run)) /\ Filling(Last(run), run[k])
<1> DEFINE a == run[k]
<1>1. /\ stage = "parsing" /\ pass \in {0, 1} /\ Len(text) \in Nat /\ Shapes(values)
      /\ Run(text, ended, values, run) /\ Standing(run, k)
  BY DEF Ready
<1>2. /\ k \in 1..Len(run) /\ At(a)
      /\ pass = 1 => k = Len(run) /\ Chained /\ Len(values) = a.n
      /\ pass = 0 => Whole(Last(run)) /\ Filling(Last(run), a)
  BY <1>1 DEF Standing
<1>3. Len(run) \in Nat /\ a \in Point /\ Sound(Len(text), values, a) /\ a.n \in Nat /\ a.n <= Len(values)
  BY <1>1, <1>2, RunIs
<1>4. ptr = a.at
  BY <1>2 DEF At
<1>5. a.at \in 1..(Len(text) + 1)
  BY <1>1, <1>3, SoundIs
<1>6. Len(values) \in Nat
  BY <1>1, ShapesIs
<1>7. pass = 1 => a = Last(run)
  BY <1>2 DEF Last
<1> QED
  BY <1>1, <1>2, <1>3, <1>4, <1>5, <1>6, <1>7

(* At the last point of the run the text is at its end.                    *)
LEMMA AtTheEnd ==
  ASSUME NEW run, NEW k, Ready(run, k), pass = 0, k = Len(run)
  PROVE  /\ "done" \in run[k].fl /\ "string" \notin run[k].fl /\ "seek_value" \notin run[k].fl
         /\ IF ptr <= Len(text) THEN text[ptr] = End ELSE ended
<1> DEFINE a == run[k]
<1>1. /\ Sound(Len(text), values, a) /\ Whole(Last(run)) /\ ptr = a.at /\ Len(text) \in Nat
  BY ReadyIs
<1>2. a = Last(run)
  BY DEF Last
<1>3. "done" \in a.fl /\ IF ptr <= Len(text) THEN text[ptr] = End ELSE ended
  BY <1>1, <1>2 DEF Whole
<1>4. Mode(values, a)
  BY <1>1, SoundIs
<1>5. "string" \notin a.fl /\ "seek_value" \notin a.fl
  BY <1>3, <1>4 DEF Mode
<1> QED
  BY <1>3, <1>5

(* The point after the one the second pass stands at, if there is one.     *)
LEMMA NextPoint ==
  ASSUME NEW run, NEW k, Ready(run, k), k # Len(run)
  PROVE  /\ k + 1 \in 1..Len(run) /\ Turn(text, ended, values, run[k], run[k + 1])
         /\ run[k].at \in 1..Len(text) /\ run[k + 1].n <= Len(values) /\ run[k].n <= run[k + 1].n
         /\ run[k + 1].n \in Nat
<1>1. k \in 1..(Len(run) - 1) /\ k + 1 \in 1..Len(run) /\ k <= k + 1
  BY ReadyIs
<1>2. Len(text) \in Nat /\ Run(text, ended, values, run)
  BY DEF Ready
<1>3. Turn(text, ended, values, run[k], run[k + 1])
  BY <1>1, <1>2, RunIs
<1>4. run[k + 1].n <= Len(values) /\ run[k].n <= run[k + 1].n /\ run[k + 1].n \in Nat
  BY <1>1, <1>2, RunIs
<1>5. run[k].at \in 1..Len(text)
  BY <1>3 DEF Turn
<1> QED
  BY <1>1, <1>3, <1>4, <1>5

(* A byte is read where the text goes on or the one before ended.          *)
LEMMA ReadsText ==
  ASSUME NEW c, NEW S, text \in Seq(S), Reads(c), ptr \in 1..(Len(text) + 1)
  PROVE  Extends(text, ended, text', ended') /\ Byte(c) /\ UNCHANGED family /\ stage = "parsing"
<1> USE DEF Extends, Byte
<1>1. UNCHANGED family /\ stage = "parsing"
  BY DEF Reads
<1>2. CASE ptr <= Len(text) /\ c = text[ptr] /\ UNCHANGED <<text, ended>>
  BY <1>1, <1>2
<1>3. CASE ptr > Len(text) /\ ended /\ c = End /\ UNCHANGED <<text, ended>>
  BY <1>1, <1>3
<1>4. CASE ptr > Len(text) /\ ~ended /\ c = End /\ ended' = TRUE /\ UNCHANGED text
  BY <1>1, <1>4
<1>5. CASE /\ ptr > Len(text) /\ ~ended /\ text' = Append(text, c) /\ UNCHANGED ended
  BY <1>1, <1>5
<1> QED
  BY <1>2, <1>3, <1>4, <1>5 DEF Reads

(* The second pass reads what the first has read.                          *)
LEMMA ReadyReads ==
  ASSUME NEW run, NEW k, NEW c, NEW S, Ready(run, k), text \in Seq(S), Reads(c)
  PROVE  ReadOn /\ Byte(c) /\ (pass = 0 => (k = Len(run) => c = End))
<1>1. ptr \in 1..(Len(text) + 1) /\ ptr = run[k].at /\ Len(text) \in Nat
  BY ReadyIs
<1>2. Extends(text, ended, text', ended') /\ Byte(c)
  BY <1>1, ReadsText
<1>3. ASSUME pass = 0
      PROVE  text' = text /\ ended' = ended /\ (k = Len(run) => c = End)
  <2>1. CASE k = Len(run)
    <3>1. IF ptr <= Len(text) THEN text[ptr] = End ELSE ended
      BY <1>3, <2>1, AtTheEnd
    <3> QED
      BY <1>1, <2>1, <3>1 DEF Reads
  <2>2. CASE k # Len(run)
    <3>1. ptr <= Len(text)
      BY <1>1, <2>2, NextPoint
    <3> QED
      BY <1>1, <2>2, <3>1 DEF Reads
  <2> QED
    BY <2>1, <2>2
<1> QED
  BY <1>2, <1>3 DEF ReadOn

(* A turn of the first pass adds a point to the run; one of the second     *)
(* leads to its next point.                                                *)
LEMMA Advance ==
  ASSUME NEW run, NEW k, NEW b, Ready(run, k), ReadOn, UNCHANGED <<pass, stage>>,
         Shapes(values'), Alike(values, values', run[k].n), run[k].n <= Len(values'), b.n <= Len(values'),
         Turn(text', ended', values', run[k], b),
         pass = 1 => At(b)' /\ Chained' /\ Len(values') = b.n,
         pass = 0 => /\ Filling(Last(run), b)'
                     /\ Len(values') = Len(values) /\ Alike(values, values', Len(values))
  PROVE  Reading'
<1>1. Run(text, ended, values, run) /\ Shapes(values) /\ Len(text) \in Nat
  BY DEF Ready
<1>2. /\ k \in 1..Len(run) /\ Len(run) \in Nat /\ run[k].n \in Nat /\ Len(values) \in Nat
      /\ pass \in {0, 1} /\ Sound(Len(text), values, run[k])
      /\ pass = 1 => run[k] = Last(run)
      /\ pass = 0 => Whole(Last(run))
  BY ReadyIs
<1>3. Extends(text, ended, text', ended') /\ (pass = 0 => text' = text /\ ended' = ended)
  BY DEF ReadOn
<1>4. Len(values') \in Nat
  BY ShapesIs
<1>5. Len(text') \in Nat
  BY <1>3 DEF Extends
<1>6. CASE pass = 1
  <2>1. Run(text', ended', values', run)
    BY <1>1, <1>2, <1>3, <1>4, <1>6, RunCarries
  <2>2. Run(text', ended', values', Append(run, b)) /\ Last(Append(run, b)) = b
    BY <2>1, <1>2, <1>5, <1>6, RunGrows
  <2>3. Counting(b)' /\ Chained'
    BY <1>6 DEF Counting
  <2>4. FirstPass(Append(run, b))'
    BY <2>2, <2>3 DEF FirstPass
  <2>5. pass' = 1
    BY <1>6
  <2> QED
    BY <2>2, <2>4, <2>5 DEF Reading
<1>7. CASE pass = 0
  <2>1. Last(run).n = Len(values)
    BY <1>2, <1>7 DEF Whole
  <2>2. Run(text', ended', values', run)
    BY <2>1, <1>1, <1>2, <1>3, <1>4, <1>7, RunCarries
  <2>3. Turn(text, ended, values', run[k], b)
    BY <1>3, <1>7
  <2>4. k # Len(run)
    <3> SUFFICES ASSUME k = Len(run) PROVE FALSE
      OBVIOUS
    <3>1. "done" \in run[k].fl /\ ~InString(run[k]) /\ IF ptr <= Len(text) THEN text[ptr] = End ELSE ended
      BY <1>7, AtTheEnd DEF InString
    <3>2. text[run[k].at] = "sp"
      BY <2>3, <3>1, TurnDone
    <3>3. run[k].at \in 1..Len(text)
      BY <2>3 DEF Turn
    <3>4. ptr = run[k].at
      BY ReadyIs
    <3> QED
      BY <1>1, <3>1, <3>2, <3>3, <3>4 DEF End
  <2>5. k \in 1..(Len(run) - 1) /\ k + 1 \in 1..Len(run)
    BY <2>4, <1>2
  <2>6. Turn(text', ended', values', run[k], run[k + 1])
    BY <2>2, <2>5, <1>5, RunIs
  <2>7. run[k].at \in Nat
    BY <1>1, <1>2, SoundCounts
  <2>8. b = run[k + 1]
    BY <2>6, <2>7, <1>5, TurnFunctional
  <2>9. Whole(Last(run))'
    BY <1>2, <1>3, <1>7 DEF Whole
  <2>10. stage' = "parsing"
    BY DEF Ready
  <2>11. SecondPass(run)'
    BY <2>5, <2>8, <2>9, <2>10, <1>7 DEF SecondPass
  <2>12. pass' = 0
    BY <1>7
  <2> QED
    BY <2>2, <2>11, <2>12 DEF Reading
<1> QED
  BY <1>2, <1>6, <1>7

-----------------------------------------------------------------------------
(* The turns that allocate nothing and finish nothing                      *)

(* A flag of a point is one of the parser's.                               *)
LEMMA FlagIs ==
  ASSUME NEW a, At(a)
  PROVE  /\ flags \ NumberFlags = a.fl
         /\ "string" \in flags <=> "string" \in a.fl
         /\ "escaped" \in flags <=> "escaped" \in a.fl
         /\ "done" \in flags <=> "done" \in a.fl
         /\ "seek_value" \in flags <=> "seek_value" \in a.fl
         /\ "need_comma" \in flags <=> "need_comma" \in a.fl
         /\ "need_colon" \in flags <=> "need_colon" \in a.fl
         /\ top = a.top /\ string_length = a.slen /\ root = IF a.n = 0 THEN 0 ELSE 1
         /\ Seeking <=> Seeks(a)
         /\ InObject <=> Inside(values, a)
<1>1. flags \ NumberFlags = a.fl /\ top = a.top /\ string_length = a.slen
      /\ root = IF a.n = 0 THEN 0 ELSE 1
  BY DEF At
<1>2. /\ "string" \in flags <=> "string" \in a.fl
      /\ "escaped" \in flags <=> "escaped" \in a.fl
      /\ "done" \in flags <=> "done" \in a.fl
      /\ "seek_value" \in flags <=> "seek_value" \in a.fl
      /\ "need_comma" \in flags <=> "need_comma" \in a.fl
      /\ "need_colon" \in flags <=> "need_colon" \in a.fl
  BY <1>1 DEF NumberFlags
<1>3. Seeking <=> Seeks(a)
  BY <1>2 DEF Seeking, Seeks
<1>4. InObject <=> Inside(values, a)
  BY <1>1, <1>2 DEF InObject, Inside
<1> QED
  BY <1>1, <1>2, <1>3, <1>4

(* In the second pass there is a turn at the byte that is read.            *)
LEMMA SecondTurn ==
  ASSUME NEW run, NEW k, NEW c, NEW S, Ready(run, k), text \in Seq(S), Reads(c), pass = 0,
         "done" \notin run[k].fl \/ c # End
  PROVE  /\ k + 1 \in 1..Len(run) /\ Turn(text, ended, values, run[k], run[k + 1])
         /\ text[run[k].at] = c /\ run[k].at \in 1..Len(text) /\ text' = text /\ ended' = ended
         /\ run[k + 1].n <= Len(values) /\ run[k + 1].n \in Nat
<1>1. ReadOn /\ Byte(c) /\ (k = Len(run) => c = End)
  BY ReadyReads
<1>2. k # Len(run)
  BY <1>1, AtTheEnd
<1>3. /\ k + 1 \in 1..Len(run) /\ Turn(text, ended, values, run[k], run[k + 1])
      /\ run[k].at \in 1..Len(text) /\ run[k + 1].n <= Len(values) /\ run[k + 1].n \in Nat
  BY <1>2, NextPoint
<1>4. text' = text /\ ended' = ended
  BY <1>1 DEF ReadOn
<1>5. ptr = run[k].at /\ Len(text) \in Nat
  BY ReadyIs
<1>6. text[run[k].at] = c
  BY <1>1, <1>3, <1>4, <1>5 DEF Byte
<1> QED
  BY <1>3, <1>4, <1>6

(* What a turn of the parser leads to: the next point, or a failure, for   *)
(* want of memory or, in the first pass only, because of the text.         *)
Goes == Shapes(values') /\ Reading' /\ stage' = "parsing"
Rejects == pass = 1 /\ Fail("syntax")

(* Only the cursor moves.                                                  *)
LEMMA MovedStep ==
  ASSUME NEW run, NEW k, Ready(run, k), ReadOn, NEW fl \in SUBSET ParserFlags, NEW slen \in Nat,
         Turn(text', ended', values, run[k], Moved(run[k], run[k].at + 1, fl, slen, run[k].byt)),
         flags' \ NumberFlags = fl, ptr' = ptr + 1, string_length' = slen,
         UNCHANGED <<pass, top, root, alloc, values, heap, stage>>,
         "seek_value" \in fl <=> "seek_value" \in run[k].fl
  PROVE  Goes
<1> DEFINE a == run[k]
           b == Moved(a, a.at + 1, fl, slen, a.byt)
<1>1. /\ Sound(Len(text), values, a) /\ At(a) /\ a.n \in Nat /\ a.n <= Len(values)
      /\ Len(values) \in Nat /\ Shapes(values) /\ ptr = a.at /\ stage = "parsing"
      /\ pass = 1 => Chained /\ Len(values) = a.n
      /\ pass = 0 => Filling(Last(run), a)
  BY ReadyIs
<1>2. /\ b.at = a.at + 1 /\ b.fl = fl /\ b.top = a.top /\ b.slen = slen /\ b.n = a.n
      /\ Turn(text', ended', values', a, b)
  BY DEF Moved
<1>3. /\ flags \ NumberFlags = a.fl /\ top = a.top /\ root = (IF a.n = 0 THEN 0 ELSE 1)
      /\ Matches(values, a)
  BY <1>1 DEF At
<1>4. Matches(values, b)
  BY <1>3, MatchesMoved
<1>5. pass = 0 => Filled(values, Last(run), b) /\ Linked(values, b)
  <2> SUFFICES ASSUME pass = 0 PROVE Filled(values, Last(run), b) /\ Linked(values, b)
    OBVIOUS
  <2>1. Filled(values, Last(run), a) /\ Linked(values, a)
    BY <1>1 DEF Filling
  <2>2. Filled(values, Last(run), b)
    BY <2>1, FilledMoved
  <2>3. \A w \in 1..Len(values) : values[w].parent = values[w].parent /\ values[w].kids = values[w].kids
    OBVIOUS
  <2>4. Linked(values, b)
    BY <2>1, <2>3, <1>1, LinkedMoved
  <2> QED
    BY <2>2, <2>4
<1> HIDE DEF b
<1>6. At(b)'
  BY <1>1, <1>2, <1>3, <1>4 DEF At
<1>7. Alike(values, values', a.n) /\ Alike(values, values', Len(values))
  <2>1. values' = values
    OBVIOUS
  <2> QED
    BY <2>1 DEF Alike
<1>8. pass = 1 => Chained' /\ Len(values') = b.n
  BY <1>1, <1>2 DEF Chained
<1>9. pass = 0 => Filling(Last(run), b)'
  BY <1>1, <1>2, <1>5, <1>6 DEF Filling
<1>10. Reading'
  BY <1>1, <1>2, <1>6, <1>7, <1>8, <1>9, Advance
<1> QED
  BY <1>1, <1>10 DEF Goes

(* So it does where there is nothing but flags to change.                  *)
LEMMA ContinueStep ==
  ASSUME NEW run, NEW k, NEW c, NEW S, Ready(run, k), text \in Seq(S), Reads(c), c # End,
         NEW fs, Continue(fs), NEW fl, fl = fs \ NumberFlags, MoveFlags(values, c, run[k], fl)
  PROVE  Goes
<1> DEFINE a == run[k]
           b == Moved(a, a.at + 1, fl, a.slen, a.byt)
<1>1. a \in Point /\ ptr = a.at /\ At(a)
  BY ReadyIs
<1>2. ReadOn /\ Byte(c)
  BY ReadyReads
<1>3. a.at \in 1..Len(text') /\ text'[a.at] = c
  BY <1>1, <1>2 DEF Byte
<1>4. a.fl \in SUBSET ParserFlags /\ a.slen \in Nat
  BY <1>1, PointIs
<1>5. fl \in SUBSET ParserFlags /\ ("seek_value" \in fl <=> "seek_value" \in a.fl)
  BY <1>4 DEF MoveFlags, ParserFlags
<1>6. Turn(text', ended', values, a, b)
  BY <1>3, <1>5 DEF Turn, MoveTurn
<1>7. string_length = a.slen
  BY <1>1 DEF At
<1> QED
  BY <1>2, <1>4, <1>5, <1>6, <1>7, MovedStep DEF Continue

(* White space where a value is sought.                                    *)
LEMMA SeekSpaceStep ==
  ASSUME NEW run, NEW k, NEW S, Ready(run, k), text \in Seq(S), SeekSpace
  PROVE  Goes
<1> DEFINE fl == flags \ NumberFlags
<1>1. At(run[k])
  BY ReadyIs
<1>2. MoveFlags(values, "sp", run[k], fl)
  BY <1>1, FlagIs DEF MoveFlags, SeekSpace
<1>3. Reads("sp") /\ Continue(flags) /\ "sp" # End
  BY DEF SeekSpace, End
<1> QED
  BY <1>2, <1>3, ContinueStep

(* A comma or colon before a value.                                        *)
LEMMA SeekSeparatorStep ==
  ASSUME NEW run, NEW k, NEW S, NEW c, Ready(run, k), text \in Seq(S), SeekSeparator(c)
  PROVE  Goes \/ Rejects
<1> DEFINE a == run[k]
<1>1. At(a) /\ pass \in {0, 1}
  BY ReadyIs
<1>2. Seeks(a) /\ Reads(c) /\ c \notin {"sp", "rbracket"}
  BY <1>1, FlagIs DEF SeekSeparator
<1>3. CASE "need_comma" \in flags /\ c = "comma"
  <2> DEFINE fs == flags \ {"need_comma"}
             fl == fs \ NumberFlags
  <2>1. fl = a.fl \ {"need_comma"}
    BY <1>1, FlagIs
  <2>2. MoveFlags(values, c, a, fl)
    BY <2>1, <1>1, <1>2, <1>3, FlagIs DEF MoveFlags
  <2>3. Continue(fs) /\ c # End
    BY <1>3 DEF SeekSeparator, End
  <2>4. fl = fs \ NumberFlags
    OBVIOUS
  <2> HIDE DEF fs, fl
  <2> QED
    BY <1>2, <2>2, <2>3, <2>4, ContinueStep
<1>4. CASE "need_comma" \notin flags /\ "need_colon" \in flags /\ c = "colon"
  <2> DEFINE fs == flags \ {"need_colon"}
             fl == fs \ NumberFlags
  <2>1. fl = a.fl \ {"need_colon"}
    BY <1>1, FlagIs
  <2>2. MoveFlags(values, c, a, fl)
    BY <2>1, <1>1, <1>2, <1>4, FlagIs DEF MoveFlags
  <2>3. Continue(fs) /\ c # End
    BY <1>4 DEF SeekSeparator, End
  <2>4. fl = fs \ NumberFlags
    OBVIOUS
  <2> HIDE DEF fs, fl
  <2> QED
    BY <1>2, <2>2, <2>3, <2>4, ContinueStep
<1>5. CASE Fail("syntax") /\ IF "need_comma" \in flags THEN c # "comma" ELSE "need_colon" \in flags /\ c # "colon"
  <2>1. pass # 0
    <3> SUFFICES ASSUME pass = 0 PROVE FALSE
      OBVIOUS
    <3>1. "done" \notin a.fl
      BY <1>2 DEF Seeks
    <3>2. Turn(text, ended, values, a, run[k + 1]) /\ text[a.at] = c
      BY <3>1, <1>2, SecondTurn
    <3>3. "need_comma" \in a.fl \/ "need_colon" \in a.fl
      BY <1>1, <1>5, FlagIs
    <3>4. ~Begins(a)
      BY <3>3 DEF Begins
    <3>5. "need_comma" \in a.fl <=> "need_comma" \in flags
      BY <1>1, FlagIs
    <3> QED
      BY <3>2, <3>3, <3>4, <3>5, <1>2, <1>5, TurnSeeking, TurnByte, ZenonT(60) DEF NumberTurn
  <2> QED
    BY <2>1, <1>1, <1>5 DEF Rejects
<1> QED
  BY <1>3, <1>4, <1>5 DEF SeekSeparator

(* A byte between the members of an object.                                *)
LEMMA ObjectByteStep ==
  ASSUME NEW run, NEW k, NEW S, NEW c, Ready(run, k), text \in Seq(S), ObjectByte(c)
  PROVE  Goes \/ Rejects
<1> DEFINE a == run[k]
<1>1. At(a) /\ pass \in {0, 1}
  BY ReadyIs
<1>2. Inside(values, a) /\ Reads(c) /\ c \notin {"quote", "rbrace"}
  BY <1>1, FlagIs DEF ObjectByte
<1>3. CASE c = "sp"
  <2> DEFINE fl == flags \ NumberFlags
  <2>1. fl = a.fl
    BY <1>1, FlagIs
  <2>2. MoveFlags(values, c, a, fl)
    BY <2>1, <1>2, <1>3 DEF MoveFlags
  <2>3. Continue(flags) /\ c # End
    BY <1>3 DEF ObjectByte, End
  <2> QED
    BY <1>2, <2>2, <2>3, ContinueStep
<1>4. CASE "need_comma" \in flags /\ c = "comma"
  <2> DEFINE fs == flags \ {"need_comma"}
             fl == fs \ NumberFlags
  <2>1. fl = a.fl \ {"need_comma"}
    BY <1>1, FlagIs
  <2>2. MoveFlags(values, c, a, fl)
    BY <2>1, <1>1, <1>2, <1>4, FlagIs DEF MoveFlags
  <2>3. Continue(fs) /\ c # End
    BY <1>4 DEF ObjectByte, End
  <2>4. fl = fs \ NumberFlags
    OBVIOUS
  <2> HIDE DEF fs, fl
  <2> QED
    BY <1>2, <2>2, <2>3, <2>4, ContinueStep
<1>5. CASE Fail("syntax") /\ c # "sp" /\ ~("need_comma" \in flags /\ c = "comma")
  <2>1. pass # 0
    <3> SUFFICES ASSUME pass = 0 PROVE FALSE
      OBVIOUS
    <3>1. "done" \notin a.fl
      BY <1>2 DEF Inside
    <3>2. Turn(text, ended, values, a, run[k + 1]) /\ text[a.at] = c
      BY <3>1, <1>2, SecondTurn
    <3>3. "need_comma" \in a.fl <=> "need_comma" \in flags
      BY <1>1, FlagIs
    <3> QED
      BY <3>2, <3>3, <1>2, <1>5, TurnInside
  <2> QED
    BY <2>1, <1>1, <1>5 DEF Rejects
<1> QED
  BY <1>3, <1>4, <1>5 DEF ObjectByte

(* A byte after the root value.                                            *)
LEMMA TrailerStep ==
  ASSUME NEW run, NEW k, NEW S, NEW c, Ready(run, k), text \in Seq(S), Trailer(c)
  PROVE  Goes \/ Rejects
<1> DEFINE a == run[k]
<1>1. At(a) /\ pass \in {0, 1}
  BY ReadyIs
<1>2. "done" \in a.fl /\ "string" \notin a.fl /\ Reads(c) /\ c # End
  BY <1>1, FlagIs DEF Trailer
<1>3. CASE c = "sp"
  <2> DEFINE fl == flags \ NumberFlags
  <2>1. fl = a.fl
    BY <1>1, FlagIs
  <2>2. MoveFlags(values, c, a, fl)
    BY <2>1, <1>2, <1>3 DEF MoveFlags
  <2>3. Continue(flags)
    BY <1>3 DEF Trailer
  <2> QED
    BY <1>2, <2>2, <2>3, ContinueStep
<1>4. CASE c # "sp"
  <2>1. pass # 0
    <3> SUFFICES ASSUME pass = 0 PROVE FALSE
      OBVIOUS
    <3>1. Turn(text, ended, values, a, run[k + 1]) /\ text[a.at] = c
      BY <1>2, SecondTurn
    <3> QED
      BY <3>1, <1>2, <1>4, TurnDone DEF InString
  <2> QED
    BY <2>1, <1>1, <1>4 DEF Rejects, Trailer
<1> QED
  BY <1>3, <1>4

(* A byte of a string.                                                     *)
LEMMA StringByteStep ==
  ASSUME NEW run, NEW k, NEW S, NEW c, Ready(run, k), text \in Seq(S), StringByte(c)
  PROVE  Goes \/ Rejects
<1> DEFINE a == run[k]
<1>1. At(a) /\ pass \in {0, 1} /\ a \in Point /\ ptr = a.at /\ Sound(Len(text), values, a) /\ Len(text) \in Nat
  BY ReadyIs
<1>2. /\ InString(a) /\ Reads(c) /\ ("escaped" \in a.fl \/ c # "quote")
      /\ "escaped" \in flags <=> "escaped" \in a.fl
  BY <1>1, FlagIs DEF StringByte, InString
<1>3. CASE c = End \/ ("escaped" \in flags /\ c = "u?")
  <2>1. pass # 0
    <3> SUFFICES ASSUME pass = 0 PROVE FALSE
      OBVIOUS
    <3>1. "done" \notin a.fl
      <4>1. Mode(values, a)
        BY <1>1, SoundIs
      <4> QED
        BY <4>1, <1>2 DEF Mode, InString
    <3>2. Turn(text, ended, values, a, run[k + 1]) /\ text[a.at] = c
      BY <3>1, <1>2, SecondTurn
    <3>3. CharTurn(c, a, run[k + 1])
      BY <3>2, <1>2, <1>3, TurnInString DEF End
    <3> QED
      BY <3>3, <1>2, <1>3 DEF CharTurn
  <2> QED
    BY <2>1, <1>1, <1>3 DEF Rejects, StringByte
<1>4. CASE ~(c = End \/ ("escaped" \in flags /\ c = "u?")) /\ "escaped" \notin flags /\ c = "esc"
  <2> DEFINE fs == flags \cup {"escaped"}
             fl == fs \ NumberFlags
  <2>1. fl = a.fl \cup {"escaped"}
    BY <1>1, FlagIs DEF NumberFlags
  <2>2. MoveFlags(values, c, a, fl)
    BY <2>1, <1>2, <1>4 DEF MoveFlags
  <2>3. Continue(fs)
    BY <1>4 DEF StringByte
  <2>4. fl = fs \ NumberFlags
    OBVIOUS
  <2> HIDE DEF fs, fl
  <2> QED
    BY <1>2, <1>4, <2>2, <2>3, <2>4, ContinueStep
<1>5. CASE ~(c = End \/ ("escaped" \in flags /\ c = "u?")) /\ ~("escaped" \notin flags /\ c = "esc")
  <2> DEFINE fl == a.fl \ {"escaped"}
             slen == a.slen + (IF "escaped" \in a.fl THEN Width(c) ELSE 1)
             b == Moved(a, a.at + 1, fl, slen, a.byt)
  <2>1. ReadOn /\ Byte(c)
    BY <1>2, ReadyReads
  <2>2. a.at \in 1..Len(text') /\ text'[a.at] = c
    BY <2>1, <1>1, <1>5 DEF Byte
  <2>3. CharTurn(c, a, b)
    BY <1>2, <1>5 DEF CharTurn
  <2>4. Turn(text', ended', values, a, b)
    BY <2>2, <2>3 DEF Turn
  <2>5. a.fl \in SUBSET ParserFlags /\ a.slen \in Nat
    BY <1>1, PointIs
  <2>6. fl \in SUBSET ParserFlags /\ slen \in Nat /\ ("seek_value" \in fl <=> "seek_value" \in a.fl)
    BY <2>5, WidthIs
  <2>7. /\ flags' = flags \ {"escaped"} /\ ptr' = ptr + 1
        /\ string_length' = string_length + (IF "escaped" \in flags THEN Width(c) ELSE 1)
        /\ UNCHANGED <<pass, top, root, alloc, values, heap, stage>>
    BY <1>5 DEF StringByte
  <2>8. flags' \ NumberFlags = fl /\ string_length' = slen
    BY <2>7, <1>1, FlagIs
  <2> HIDE DEF fl, slen
  <2> QED
    BY <2>1, <2>4, <2>6, <2>7, <2>8, MovedStep
<1> QED
  BY <1>3, <1>4, <1>5

(* A key begins.                                                           *)
LEMMA KeyBeginStep ==
  ASSUME NEW run, NEW k, NEW S, Ready(run, k), text \in Seq(S), KeyBegin
  PROVE  Goes \/ Rejects
<1> DEFINE a == run[k]
<1>1. At(a) /\ pass \in {0, 1} /\ a \in Point /\ ptr = a.at
  BY ReadyIs
<1>2. /\ Inside(values, a) /\ Reads("quote") /\ ("need_comma" \in flags <=> "need_comma" \in a.fl)
  BY <1>1, FlagIs DEF KeyBegin
<1>3. CASE "need_comma" \in flags
  <2>1. pass # 0
    <3> SUFFICES ASSUME pass = 0 PROVE FALSE
      OBVIOUS
    <3>1. "done" \notin a.fl
      BY <1>2 DEF Inside
    <3>2. Turn(text, ended, values, a, run[k + 1]) /\ text[a.at] = "quote"
      BY <3>1, <1>2, SecondTurn
    <3>3. KeyBeginTurn(values, text[a.at], a, run[k + 1])
      BY <3>2, <1>2, TurnInside
    <3> QED
      BY <3>3, <1>2, <1>3 DEF KeyBeginTurn
  <2> QED
    BY <2>1, <1>1, <1>3 DEF Rejects, KeyBegin
<1>4. CASE "need_comma" \notin flags
  <2> DEFINE fl == a.fl \cup {"string"}
             b == Moved(a, a.at + 1, fl, 0, a.byt)
  <2>1. ReadOn /\ Byte("quote")
    BY <1>2, ReadyReads
  <2>2. a.at \in 1..Len(text') /\ text'[a.at] = "quote"
    BY <2>1, <1>1 DEF Byte, End
  <2>3. KeyBeginTurn(values, "quote", a, b)
    BY <1>2, <1>4 DEF KeyBeginTurn
  <2>4. Turn(text', ended', values, a, b)
    BY <2>2, <2>3 DEF Turn
  <2>5. a.fl \in SUBSET ParserFlags
    BY <1>1, PointIs
  <2>6. fl \in SUBSET ParserFlags /\ 0 \in Nat /\ ("seek_value" \in fl <=> "seek_value" \in a.fl)
    BY <2>5 DEF ParserFlags
  <2>7. /\ flags' = flags \cup {"string"} /\ ptr' = ptr + 1 /\ string_length' = 0
        /\ UNCHANGED <<pass, top, root, alloc, values, heap, stage>>
    BY <1>4 DEF KeyBegin
  <2>8. flags' \ NumberFlags = fl
    BY <2>7, <1>1, FlagIs DEF NumberFlags
  <2> HIDE DEF fl
  <2> QED
    BY <2>1, <2>4, <2>6, <2>7, <2>8, MovedStep
<1> QED
  BY <1>3, <1>4

-----------------------------------------------------------------------------
(* The turns that end a key or a value                                     *)

(* The top of a point is open, and so is the value it lies under.          *)
LEMMA OpenTop ==
  ASSUME NEW size \in Nat, NEW vs, NEW a, Sound(size, vs, a), Shapes(vs), "done" \notin a.fl,
         a.top # 0 \/ "string" \in a.fl
  PROVE  /\ a.top \in a.open /\ a.top \in 1..a.n /\ a.top \in 1..Len(vs) /\ a.n \in Nat
         /\ vs[a.top].parent # 0 => vs[a.top].parent \in a.open
<1>1. /\ a.n <= Len(vs) /\ a.open \subseteq 1..a.n /\ Chain(vs, a.open, a.top) /\ Mode(vs, a)
  BY SoundIs
<1>2. a.n \in Nat /\ Len(vs) \in Nat
  BY SoundCounts, ShapesIs
<1>3. a.top \in a.open
  BY <1>1 DEF Mode
<1>4. a.top \in 1..a.n
  BY <1>1, <1>3
<1>5. a.top \in 1..Len(vs)
  BY <1>1, <1>2, <1>4
<1>6. vs[a.top].parent # 0 => vs[a.top].parent \in a.open
  BY <1>1, <1>3 DEF Chain
<1> QED
  BY <1>2, <1>3, <1>4, <1>5, <1>6

(* What is finished depends on the counts, the open values, and the        *)
(* parents and types there are.                                            *)
LEMMA FinishedSame ==
  ASSUME NEW vs, NEW vt, NEW a, NEW m, NEW v, NEW n, NEW byt, NEW at, NEW fl,
         m.slen = a.slen, m.len = a.len, m.open \ {v} = a.open \ {v},
         vt[v].parent = vs[v].parent,
         vs[v].parent # 0 => vt[vs[v].parent].type = vs[vs[v].parent].type
  PROVE  Finished(vt, a, v, n, byt, at, fl) = Finished(vs, m, v, n, byt, at, fl)
<1>1. FinishedFlags(vt, v, fl) = FinishedFlags(vs, v, fl)
  BY DEF FinishedFlags
<1> QED
  BY <1>1 DEF Finished

(* Among the values mid, at point m, the top may be finished.              *)
Finishable(mid, m, z) ==
    /\ Shapes(mid) /\ Finishing(mid, m) /\ Matches(mid, m)
    /\ pass = 0 => Filled(mid, z, m) /\ Linked(mid, m)

(* The flags but those inside a number, of which none seeks a value.       *)
Bare(fs, fl) == fl = fs \ NumberFlags
Atop(v, a) == v = a.top
Settled(fs, fl) == Bare(fs, fl) /\ "seek_value" \notin fl

(* Value m.top of mid is finished, where m is the point as it would be     *)
(* without that.                                                           *)
LEMMA FinishStep ==
  ASSUME NEW mid, NEW m, NEW z, NEW fs, NEW at, NEW fl, Finishable(mid, m, z),
         FinishValue(mid, m.top, fs, at), Settled(fs, fl),
         NEW b, b = Finished(mid, m, m.top, m.n, m.byt, at, fl)
  PROVE  /\ ptr' = at /\ Bare(flags', b.fl) /\ Atop(top', b)
         /\ Shapes(values') /\ Len(values') = Len(mid) /\ Matches(values', b)
         /\ pass = 0 => Filled(values', z, b) /\ Linked(values', b)
         /\ \A w \in 1..Len(mid) :
               /\ values'[w].type = mid[w].type /\ values'[w].parent = mid[w].parent
               /\ values'[w].names = mid[w].names /\ (pass = 1 => values'[w].kids = mid[w].kids)
         /\ UNCHANGED <<pass, stage, error, freeing>>
<1> USE DEF Finishable, Settled, Bare, Atop
<1>1. m.top \in 1..Len(mid) /\ m.n \in Nat /\ m.n <= Len(mid) /\ Counts(m.len) /\ m.top \in 1..m.n
  BY ShapesIs DEF Finishing
<1>2. /\ ptr' = at /\ flags' = FinishedFlags(mid, m.top, fs)
      /\ top' = IF mid[m.top].parent = 0 THEN m.top ELSE mid[m.top].parent
      /\ Shapes(values') /\ Tallies(mid, values', m.top, pass # 1)
      /\ UNCHANGED <<pass, stage, error, freeing>>
  BY <1>1, FinishEffect
<1>3. b.fl = FinishedFlags(mid, m.top, fl) /\ b.top = IF mid[m.top].parent = 0 THEN m.top ELSE mid[m.top].parent
  BY DEF Finished
<1>4. flags' \ NumberFlags = b.fl
  BY <1>2, <1>3 DEF FinishedFlags, NumberFlags
<1>5. Matches(values', b)
  BY <1>1, <1>2, MatchesFinished
<1>6. ASSUME pass = 0
      PROVE  Filled(values', z, b) /\ Linked(values', b)
  <2>1. Tallies(mid, values', m.top, TRUE)
    <3>1. (pass # 1) = TRUE
      BY <1>6
    <3> QED
      BY <1>2, <3>1
  <2> QED
    BY <2>1, <1>6, FilledFinished, LinkedFinished
<1>7. /\ Len(values') = Len(mid)
      /\ \A w \in 1..Len(mid) :
            /\ values'[w].type = mid[w].type /\ values'[w].parent = mid[w].parent
            /\ values'[w].names = mid[w].names /\ (pass = 1 => values'[w].kids = mid[w].kids)
  BY <1>2 DEF Tallies
<1> QED
  BY <1>2, <1>3, <1>4, <1>5, <1>6, <1>7

(* Values that differ in their counts, or in what is linked, at most.      *)
SameTree(vs, vt) ==
    /\ Len(vt) = Len(vs)
    /\ \A w \in 1..Len(vs) : vt[w].type = vs[w].type /\ vt[w].parent = vs[w].parent
SameLinks(vs, vt) ==
    SameTree(vs, vt) /\ \A w \in 1..Len(vs) : vt[w].kids = vs[w].kids /\ vt[w].names = vs[w].names

(* The next point, when a value of those there are is finished.            *)
LEMMA EndStep ==
  ASSUME NEW run, NEW k, Ready(run, k), ReadOn, NEW mid, NEW m, NEW fs, NEW at, NEW fl, NEW b,
         Finishable(mid, m, Last(run)), SameLinks(values, mid), m.n = run[k].n, m.slen = run[k].slen,
         FinishValue(mid, m.top, fs, at), Settled(fs, fl),
         b = Finished(mid, m, m.top, m.n, m.byt, at, fl),
         UNCHANGED <<root, alloc, string_length, heap>>,
         SameTree(values, values') => Turn(text', ended', values', run[k], b)
  PROVE  Goes
<1> DEFINE a == run[k]
<1>1. /\ At(a) /\ a.n \in Nat /\ a.n <= Len(values)
      /\ Len(values) \in Nat /\ stage = "parsing"
      /\ pass = 1 => Chained /\ Len(values) = a.n
      /\ pass = 0 => Filling(Last(run), a)
  BY ReadyIs
<1>2. /\ ptr' = at /\ Bare(flags', b.fl) /\ Atop(top', b)
      /\ Shapes(values') /\ Len(values') = Len(mid) /\ Matches(values', b)
      /\ pass = 0 => Filled(values', Last(run), b) /\ Linked(values', b)
      /\ \A w \in 1..Len(mid) :
            /\ values'[w].type = mid[w].type /\ values'[w].parent = mid[w].parent
            /\ values'[w].names = mid[w].names /\ (pass = 1 => values'[w].kids = mid[w].kids)
      /\ UNCHANGED <<pass, stage>>
  <2>1. ptr' = at
    BY FinishStep
  <2>5. Bare(flags', b.fl)
    BY FinishStep
  <2>6. Atop(top', b)
    BY FinishStep
  <2>2. Shapes(values') /\ Len(values') = Len(mid) /\ Matches(values', b) /\ UNCHANGED <<pass, stage>>
    BY FinishStep
  <2>3. pass = 0 => Filled(values', Last(run), b) /\ Linked(values', b)
    BY FinishStep
  <2>4. \A w \in 1..Len(mid) :
            /\ values'[w].type = mid[w].type /\ values'[w].parent = mid[w].parent
            /\ values'[w].names = mid[w].names /\ (pass = 1 => values'[w].kids = mid[w].kids)
    BY FinishStep
  <2> QED
    BY <2>1, <2>2, <2>3, <2>4, <2>5, <2>6
<1>3. b.at = at /\ b.slen = a.slen /\ b.n = a.n
  BY DEF Finished
<1>4. /\ Len(values') = Len(values)
      /\ \A w \in 1..Len(values) :
            /\ values'[w].type = values[w].type /\ values'[w].parent = values[w].parent
            /\ values'[w].names = values[w].names /\ (pass = 1 => values'[w].kids = values[w].kids)
  BY <1>2 DEF SameLinks, SameTree
<1>5. Turn(text', ended', values', a, b)
  BY <1>4 DEF SameTree
<1>6. Alike(values, values', a.n) /\ Alike(values, values', Len(values))
  BY <1>1, <1>4 DEF Alike
<1>7. At(b)'
  BY <1>1, <1>2, <1>3 DEF At, Bare, Atop
<1>8. pass = 1 => Chained' /\ Len(values') = b.n
  BY <1>1, <1>3, <1>4 DEF Chained
<1>9. pass = 0 => Filling(Last(run), b)'
  BY <1>1, <1>2, <1>3, <1>4, <1>7 DEF Filling
<1>10. Reading'
  BY <1>1, <1>2, <1>3, <1>4, <1>5, <1>6, <1>7, <1>8, <1>9, Advance
<1> QED
  BY <1>1, <1>2, <1>10 DEF Goes

(* The end of an array or an object, whose values stay as they are.        *)
LEMMA ContainerEnds ==
  ASSUME NEW run, NEW k, Ready(run, k), ReadOn, NEW fs, NEW fl, "done" \notin run[k].fl, run[k].top # 0,
         FinishValue(values, top, fs, ptr + 1), Settled(fs, fl),
         values[run[k].top].type = "object" => "seek_value" \notin run[k].fl,
         UNCHANGED <<root, alloc, string_length, heap>>,
         \A vt : SameTree(values, vt) =>
                    Turn(text', ended', vt, run[k],
                         Finished(vt, run[k], run[k].top, run[k].n, run[k].byt, run[k].at + 1, fl))
  PROVE  Goes
<1> DEFINE a == run[k]
           b == Finished(values, a, a.top, a.n, a.byt, a.at + 1, fl)
<1>1. /\ Sound(Len(text), values, a) /\ At(a) /\ a.n \in Nat /\ a.n <= Len(values)
      /\ Len(values) \in Nat /\ ptr = a.at /\ Len(text) \in Nat /\ Shapes(values)
      /\ pass = 0 => Filling(Last(run), a)
  BY ReadyIs
<1>2. /\ a.top \in a.open /\ a.top \in 1..a.n /\ a.top \in 1..Len(values)
      /\ values[a.top].parent # 0 => values[a.top].parent \in a.open
  BY <1>1, OpenTop
<1>3. Counts(a.len) /\ a.open \subseteq 1..a.n
  BY <1>1, SoundCounts, SoundIs
<1>4. Finishing(values, a)
  BY <1>1, <1>2, <1>3 DEF Finishing
<1>5. Matches(values, a) /\ top = a.top
  BY <1>1 DEF At
<1>6. Finishable(values, a, Last(run))
  BY <1>1, <1>4, <1>5 DEF Finishable, Filling
<1>7. ASSUME SameTree(values, values')
      PROVE  Turn(text', ended', values', a, b)
  <2>1. values[a.top].parent \in Nat /\ values[a.top].parent < a.top
    BY <1>1, <1>2, ShapesIs
  <2>2. values[a.top].parent # 0 => values[a.top].parent \in 1..Len(values)
    BY <1>1, <1>2, <2>1
  <2>3. Finished(values', a, a.top, a.n, a.byt, a.at + 1, fl) = b
    BY <1>2, <1>7, <2>2, FinishedSame DEF SameTree
  <2> QED
    BY <1>7, <2>3
<1>8. FinishValue(values, a.top, fs, a.at + 1)
  BY <1>1, <1>5
<1> HIDE DEF b
<1>9. b = Finished(values, a, a.top, a.n, a.byt, a.at + 1, fl)
  BY DEF b
<1>10. SameLinks(values, values)
  BY DEF SameLinks, SameTree
<1> QED
  BY <1>10, <1>6, <1>7, <1>8, <1>9, EndStep

(* An array ends.                                                          *)
LEMMA ArrayEndStep ==
  ASSUME NEW run, NEW k, NEW S, Ready(run, k), text \in Seq(S), ArrayEnd
  PROVE  Goes \/ Rejects
<1> DEFINE a == run[k]
<1>1. At(a) /\ pass \in {0, 1} /\ ptr = a.at
  BY ReadyIs
<1>2. Seeks(a) /\ Reads("rbracket") /\ top = a.top
  BY <1>1, FlagIs DEF ArrayEnd
<1>3. CASE ~(top # 0 /\ values[top].type = "array")
  <2>1. pass # 0
    <3> SUFFICES ASSUME pass = 0 PROVE FALSE
      OBVIOUS
    <3>1. "done" \notin a.fl
      BY <1>2 DEF Seeks
    <3>2. Turn(text, ended, values, a, run[k + 1]) /\ text[a.at] = "rbracket"
      BY <3>1, <1>2, SecondTurn
    <3>3. ~NumberTurn(text, ended, values, a, run[k + 1])
      BY <3>2 DEF NumberTurn, Digits
    <3>4. /\ ~WordTurn(values, text[a.at], a, run[k + 1]) /\ ~ArrayTurn(values, text[a.at], a, run[k + 1])
          /\ ~ObjectTurn(values, text[a.at], a, run[k + 1]) /\ ~StringTurn(values, text[a.at], a, run[k + 1])
      BY <3>2 DEF WordTurn, Words, ArrayTurn, ObjectTurn, StringTurn
    <3>5. ArrayEndTurn(values, text[a.at], a, run[k + 1])
      BY <3>2, <3>3, <3>4, <1>2, TurnSeeking
    <3> QED
      BY <3>5, <1>2, <1>3 DEF ArrayEndTurn
  <2> QED
    BY <2>1, <1>1, <1>3 DEF Rejects, ArrayEnd
<1>4. CASE top # 0 /\ values[top].type = "array"
  <2> DEFINE fs == flags \ {"need_comma", "seek_value"}
             fl == a.fl \ {"need_comma", "seek_value"}
  <2>1. ReadOn /\ Byte("rbracket")
    BY <1>2, ReadyReads
  <2>2. a.at \in 1..Len(text') /\ text'[a.at] = "rbracket"
    BY <2>1, <1>1 DEF Byte, End
  <2>3. ASSUME NEW vt, SameTree(values, vt)
        PROVE  Turn(text', ended', vt, a, Finished(vt, a, a.top, a.n, a.byt, a.at + 1, fl))
    <3>1. a.top \in 1..Len(values)
      BY <1>2, <1>4, ReadyIs, OpenTop DEF Seeks
    <3>2. vt[a.top].type = "array"
      BY <3>1, <2>3, <1>2, <1>4 DEF SameTree
    <3> DEFINE b == Finished(vt, a, a.top, a.n, a.byt, a.at + 1, fl)
    <3>3. ArrayEndTurn(vt, text'[a.at], a, b)
      BY <3>2, <2>2, <1>2, <1>4 DEF ArrayEndTurn
    <3> HIDE DEF b
    <3>4. Turn(text', ended', vt, a, b)
      BY <3>3, <2>2 DEF Turn
    <3> QED
      BY <3>4 DEF b
  <2>4. "done" \notin a.fl /\ a.top # 0 /\ values[a.top].type # "object"
    BY <1>2, <1>4 DEF Seeks
  <2>5. FinishValue(values, top, fs, ptr + 1) /\ UNCHANGED <<root, alloc, string_length, heap>>
    BY <1>4 DEF ArrayEnd
  <2>6. Settled(fs, fl)
    BY <1>1, FlagIs DEF Settled, Bare
  <2> HIDE DEF fs, fl
  <2> QED
    BY <2>1, <2>3, <2>4, <2>5, <2>6, ContainerEnds
<1> QED
  BY <1>3, <1>4

(* An object ends.                                                         *)
LEMMA ObjectEndStep ==
  ASSUME NEW run, NEW k, NEW S, Ready(run, k), text \in Seq(S), ObjectEnd
  PROVE  Goes
<1> DEFINE a == run[k]
           fs == flags \ {"need_comma"}
           fl == a.fl \ {"need_comma"}
<1>1. At(a) /\ pass \in {0, 1} /\ ptr = a.at
  BY ReadyIs
<1>2. Inside(values, a) /\ Reads("rbrace") /\ top = a.top
  BY <1>1, FlagIs DEF ObjectEnd
<1>3. ReadOn /\ Byte("rbrace")
  BY <1>2, ReadyReads
<1>4. a.at \in 1..Len(text') /\ text'[a.at] = "rbrace"
  BY <1>3, <1>1 DEF Byte, End
<1>5. ASSUME NEW vt, SameTree(values, vt)
      PROVE  Turn(text', ended', vt, a, Finished(vt, a, a.top, a.n, a.byt, a.at + 1, fl))
  <2>1. a.top \in 1..Len(values)
    BY <1>2, ReadyIs, OpenTop DEF Inside
  <2>2. Inside(vt, a)
    BY <2>1, <1>5, <1>2 DEF Inside, SameTree
  <2> DEFINE b == Finished(vt, a, a.top, a.n, a.byt, a.at + 1, fl)
  <2>3. ObjectEndTurn(vt, text'[a.at], a, b)
    BY <2>2, <1>4 DEF ObjectEndTurn
  <2> HIDE DEF b
  <2>4. Turn(text', ended', vt, a, b)
    BY <2>3, <1>4 DEF Turn
  <2> QED
    BY <2>4 DEF b
<1>6. "done" \notin a.fl /\ a.top # 0 /\ "seek_value" \notin a.fl
  BY <1>2 DEF Inside
<1>7. FinishValue(values, top, fs, ptr + 1) /\ UNCHANGED <<root, alloc, string_length, heap>>
  BY DEF ObjectEnd
<1>8. Settled(fs, fl)
  BY <1>1, <1>6, FlagIs DEF Settled, Bare
<1> HIDE DEF fs, fl
<1> QED
  BY <1>3, <1>5, <1>6, <1>7, <1>8, ContainerEnds

(* A key ends: its bytes are counted, and in the second pass its name is   *)
(* there.                                                                  *)
LEMMA KeyEndStep ==
  ASSUME NEW run, NEW k, NEW S, Ready(run, k), text \in Seq(S), KeyEnd
  PROVE  Goes
<1> DEFINE a == run[k]
           fl == (a.fl \ {"string"}) \cup {"seek_value", "need_colon"}
           bytes == a.byt[a.top] + a.slen + 1
           byt == With(a.byt, a.top, bytes)
           b == Moved(a, a.at + 1, fl, a.slen, byt)
<1>1. /\ Sound(Len(text), values, a) /\ At(a) /\ a.n \in Nat /\ a.n <= Len(values)
      /\ Len(values) \in Nat /\ ptr = a.at /\ Len(text) \in Nat /\ Shapes(values) /\ stage = "parsing"
      /\ pass \in {0, 1} /\ a \in Point
      /\ pass = 1 => Chained /\ Len(values) = a.n
      /\ pass = 0 => Filling(Last(run), a)
  BY ReadyIs
<1>2. /\ InString(a) /\ "escaped" \notin a.fl /\ Reads("quote") /\ top = a.top /\ string_length = a.slen
      /\ root = (IF a.n = 0 THEN 0 ELSE 1) /\ values[a.top].type = "object"
  BY <1>1, FlagIs DEF KeyEnd, InString
<1>3. ReadOn /\ Byte("quote")
  BY <1>2, ReadyReads
<1>4. a.at \in 1..Len(text') /\ text'[a.at] = "quote"
  BY <1>3, <1>1 DEF Byte, End
<1>5. "done" \notin a.fl /\ "seek_value" \notin a.fl
  <2>1. Mode(values, a)
    BY <1>1, SoundIs
  <2> QED
    BY <2>1, <1>2 DEF Mode, InString
<1>6. a.top \in 1..a.n /\ a.top \in 1..Len(values)
  BY <1>1, <1>2, <1>5, OpenTop DEF InString
<1>7. Matches(values, a)
  BY <1>1 DEF At
<1>8. values[a.top].bytes = a.byt[a.top]
  BY <1>6, <1>7 DEF Matches
<1>9. Counts(a.byt) /\ Counts(a.len) /\ a.slen \in Nat /\ a.top \in Nat /\ a.byt[a.top] \in Nat
  BY <1>1, SoundCounts
<1>10. bytes \in Nat /\ values[a.top].names \in Seq(Nat)
  BY <1>1, <1>6, <1>9, RecordIs, SMTT(60)
<1> DEFINE names == IF pass = 1 THEN values[a.top].names ELSE Append(values[a.top].names, a.slen)
<1>11. Lengths(names)
  BY <1>9, <1>10 DEF Lengths
<1>12. values' = With(values, a.top, Resized(values[a.top], bytes, names))
  <2>1. values' = [values EXCEPT ![a.top].bytes = bytes, ![a.top].names = names]
    BY <1>2, <1>8 DEF KeyEnd
  <2> QED
    BY <2>1 DEF With, Resized
<1> HIDE DEF bytes, names
<1>13. /\ Shapes(values') /\ Sizes(values, values', a.top, bytes)
       /\ \A w \in 1..Len(values) : values'[w].names = IF w = a.top THEN names ELSE values[w].names
  <2>1. Shapes(values') /\ Sizes(values, values', a.top, bytes) /\ Renamed(values, values', a.top, names)
    BY <1>1, <1>6, <1>10, <1>11, <1>12, SizedEffect
  <2> QED
    BY <2>1 DEF Renamed
<1>14. Len(values') = Len(values)
       /\ \A w \in 1..Len(values) : /\ values'[w].type = values[w].type /\ values'[w].parent = values[w].parent
                                    /\ values'[w].kids = values[w].kids
  BY <1>13 DEF Sizes
<1>15. pass = 1 => \A w \in 1..Len(values) : values'[w].names = values[w].names
  BY <1>13 DEF names
<1>16. KeyEndTurn(values', text'[a.at], a, b)
  <2>1. values'[a.top].type = "object"
    BY <1>2, <1>6, <1>14
  <2> QED
    BY <2>1, <1>2, <1>4 DEF KeyEndTurn, bytes
<1>17. /\ b.at = a.at + 1 /\ b.fl = fl /\ b.top = a.top /\ b.slen = a.slen /\ b.n = a.n
  BY DEF Moved
<1>18. flags' \ NumberFlags = fl
  <2>1. flags' = (flags \ {"string"}) \cup {"seek_value", "need_colon"} /\ flags \ NumberFlags = a.fl
    BY <1>1, FlagIs DEF KeyEnd
  <2> QED
    BY <2>1 DEF NumberFlags
<1>19. "seek_value" \in fl
  OBVIOUS
<1> HIDE DEF fl
<1>20. Matches(values', b)
  BY <1>1, <1>6, <1>7, <1>9, <1>13, MatchesSized
<1>21. pass = 0 => Filled(values', Last(run), b) /\ Linked(values', b)
  <2> SUFFICES ASSUME pass = 0 PROVE Filled(values', Last(run), b) /\ Linked(values', b)
    OBVIOUS
  <2>1. Filled(values, Last(run), a) /\ Linked(values, a)
    BY <1>1 DEF Filling
  <2>2. Names(values, values', a.top, TRUE, a.slen)
    BY <1>13 DEF Names, names
  <2>3. Filled(values', Last(run), b)
    BY <2>1, <2>2, <1>1, <1>5, <1>6, <1>9, <1>13, <1>19, FilledSized
  <2>4. Linked(values', b)
    BY <2>1, <1>1, <1>14, LinkedMoved
  <2> QED
    BY <2>3, <2>4
<1> HIDE DEF b
<1>22. Turn(text', ended', values', a, b)
  BY <1>4, <1>16 DEF Turn
<1>23. /\ ptr' = ptr + 1
       /\ UNCHANGED <<pass, top, root, alloc, string_length, heap, stage>>
  BY DEF KeyEnd
<1>24. At(b)'
  BY <1>1, <1>2, <1>17, <1>18, <1>20, <1>23 DEF At
<1>25. Alike(values, values', a.n) /\ Alike(values, values', Len(values))
  BY <1>1, <1>14 DEF Alike
<1>26. pass = 1 => Chained' /\ Len(values') = b.n
  BY <1>1, <1>14, <1>15, <1>17, <1>23 DEF Chained
<1>27. pass = 0 => Filling(Last(run), b)'
  BY <1>1, <1>14, <1>17, <1>21, <1>23, <1>24 DEF Filling
<1>28. Reading'
  BY <1>1, <1>3, <1>13, <1>14, <1>17, <1>22, <1>23, <1>24, <1>25, <1>26, <1>27, Advance
<1> QED
  BY <1>1, <1>13, <1>23, <1>28 DEF Goes

(* A string ends: its bytes are counted, and it is finished.               *)
LEMMA StringEndStep ==
  ASSUME NEW run, NEW k, NEW S, Ready(run, k), text \in Seq(S), StringEnd
  PROVE  Goes
<1> DEFINE a == run[k]
           fs == flags \ {"string"}
           fl == a.fl \ {"string"}
           byt == With(a.byt, a.top, a.slen)
           m == Moved(a, a.at, a.fl, a.slen, byt)
           mid == With(values, a.top, Resized(values[a.top], a.slen, values[a.top].names))
           b == Finished(mid, m, m.top, m.n, m.byt, a.at + 1, fl)
<1>1. /\ Sound(Len(text), values, a) /\ At(a) /\ a.n \in Nat /\ a.n <= Len(values)
      /\ Len(values) \in Nat /\ ptr = a.at /\ Len(text) \in Nat /\ Shapes(values) /\ stage = "parsing"
      /\ pass \in {0, 1} /\ a \in Point
      /\ pass = 0 => Filling(Last(run), a)
  BY ReadyIs
<1>2. /\ InString(a) /\ "escaped" \notin a.fl /\ Reads("quote") /\ top = a.top /\ string_length = a.slen
      /\ values[a.top].type = "string" /\ flags \ NumberFlags = a.fl
  BY <1>1, FlagIs DEF StringEnd, InString
<1>3. ReadOn /\ Byte("quote")
  BY <1>2, ReadyReads
<1>4. a.at \in 1..Len(text') /\ text'[a.at] = "quote"
  BY <1>3, <1>1 DEF Byte, End
<1>5. "done" \notin a.fl /\ "seek_value" \notin a.fl
  <2>1. Mode(values, a)
    BY <1>1, SoundIs
  <2> QED
    BY <2>1, <1>2 DEF Mode, InString
<1>6. /\ a.top \in a.open /\ a.top \in 1..a.n /\ a.top \in 1..Len(values)
      /\ values[a.top].parent # 0 => values[a.top].parent \in a.open
  BY <1>1, <1>2, <1>5, OpenTop DEF InString
<1>7. Matches(values, a)
  BY <1>1 DEF At
<1>8. Counts(a.byt) /\ Counts(a.len) /\ a.slen \in Nat /\ a.top \in Nat /\ a.open \subseteq 1..a.n
  BY <1>1, SoundCounts, SoundIs
<1>9. Lengths(values[a.top].names)
  BY <1>1, <1>6, RecordIs DEF Lengths
<1>10. FinishValue(mid, a.top, fs, a.at + 1)
  <2>1. FinishValue([values EXCEPT ![a.top].bytes = a.slen], a.top, fs, a.at + 1)
    BY <1>1, <1>2 DEF StringEnd
  <2>2. [values EXCEPT ![a.top].bytes = a.slen] = mid
    <3>1. values[a.top] \in ValueRecord /\ values \in Seq(ValueRecord)
      BY <1>1, <1>6 DEF Shapes
    <3>2. Resized(values[a.top], a.slen, values[a.top].names) = [values[a.top] EXCEPT !.bytes = a.slen]
      BY <3>1 DEF ValueRecord, Resized
    <3> QED
      BY <3>2 DEF With
  <2> QED
    BY <2>1, <2>2
<1>11. /\ Shapes(mid) /\ Sizes(values, mid, a.top, a.slen)
       /\ \A w \in 1..Len(values) : mid[w].names = IF w = a.top THEN values[a.top].names ELSE values[w].names
  <2>1. Shapes(mid) /\ Sizes(values, mid, a.top, a.slen) /\ Renamed(values, mid, a.top, values[a.top].names)
    BY <1>1, <1>6, <1>8, <1>9, SizedEffect
  <2> QED
    BY <2>1 DEF Renamed
<1> HIDE DEF mid
<1>12. /\ Len(mid) = Len(values)
       /\ \A w \in 1..Len(values) : /\ mid[w].type = values[w].type /\ mid[w].parent = values[w].parent
                                    /\ mid[w].kids = values[w].kids /\ mid[w].names = values[w].names
  BY <1>11 DEF Sizes
<1>13. Names(values, mid, a.top, FALSE, a.slen)
  BY <1>12 DEF Names
<1>14. /\ m.top = a.top /\ m.n = a.n /\ m.slen = a.slen /\ m.len = a.len /\ m.open = a.open /\ m.byt = byt
       /\ m.fl = a.fl
  BY DEF Moved
<1>15. Matches(mid, m)
  BY <1>1, <1>6, <1>7, <1>8, <1>11, MatchesSized
<1>16. pass = 0 => Filled(mid, Last(run), m) /\ Linked(mid, m)
  <2> SUFFICES ASSUME pass = 0 PROVE Filled(mid, Last(run), m) /\ Linked(mid, m)
    OBVIOUS
  <2>1. Filled(values, Last(run), a) /\ Linked(values, a)
    BY <1>1 DEF Filling
  <2>2. Filled(mid, Last(run), m)
    BY <2>1, <1>1, <1>6, <1>8, <1>11, <1>13, FilledSized
  <2>3. Linked(mid, m)
    BY <2>1, <1>1, <1>12, LinkedMoved
  <2> QED
    BY <2>2, <2>3
<1>17. FinishValue(mid, m.top, fs, a.at + 1)
  BY <1>10, <1>14
<1> HIDE DEF m, byt
<1>18. Finishing(mid, m)
  <2>1. mid[a.top].type = values[a.top].type /\ mid[a.top].parent = values[a.top].parent
    BY <1>6, <1>12
  <2> QED
    BY <2>1, <1>1, <1>2, <1>6, <1>8, <1>12, <1>14 DEF Finishing
<1>19. Finishable(mid, m, Last(run))
  BY <1>11, <1>15, <1>16, <1>18 DEF Finishable
<1>20. Settled(fs, fl)
  BY <1>2, <1>5 DEF Settled, Bare
<1>21. UNCHANGED <<root, alloc, string_length, heap>>
  BY DEF StringEnd
<1>22. ASSUME SameTree(values, values')
       PROVE  Turn(text', ended', values', a, b)
  <2>1. values[a.top].parent \in Nat /\ values[a.top].parent < a.top
    BY <1>1, <1>6, ShapesIs
  <2>2. values[a.top].parent # 0 => values[a.top].parent \in 1..Len(values)
    BY <1>1, <1>6, <2>1
  <2>3. Finished(values', a, a.top, a.n, byt, a.at + 1, fl) = Finished(mid, m, a.top, a.n, byt, a.at + 1, fl)
    BY <1>6, <1>12, <1>14, <1>22, <2>2, FinishedSame, SMTT(60) DEF SameTree
  <2>4. values'[a.top].type = "string"
    BY <1>2, <1>6, <1>22 DEF SameTree
  <2>5. StringEndTurn(values', text'[a.at], a, b)
    BY <2>3, <2>4, <1>2, <1>4, <1>14 DEF StringEndTurn, byt
  <2> HIDE DEF b
  <2> QED
    BY <2>5, <1>4 DEF Turn
<1> HIDE DEF fs, fl
<1>23. b = Finished(mid, m, m.top, m.n, m.byt, a.at + 1, fl)
  OBVIOUS
<1> HIDE DEF b
<1>24. SameLinks(values, mid)
  BY <1>12 DEF SameLinks, SameTree
<1> QED
  BY <1>24, <1>3, <1>14, <1>17, <1>19, <1>20, <1>21, <1>22, <1>23, EndStep

-----------------------------------------------------------------------------
(* The turns that begin a value                                            *)

(* The types a value may have that begins with byte c.                     *)
TypesFor(c) ==
    IF c = "lbracket" THEN {"array"}
    ELSE IF c = "lbrace" THEN {"object"}
    ELSE IF c = "quote" THEN {"string"}
    ELSE IF c = "true" THEN {"boolean"}
    ELSE IF c = "null" THEN {"null"}
    ELSE Numeric

Starters == {"lbracket", "lbrace", "quote", "-"} \cup Words \cup Digits

(* Where the second pass reads a value there is one, and of that type.     *)
LEMMA SecondBegins ==
  ASSUME NEW run, NEW k, NEW c, NEW S, Ready(run, k), text \in Seq(S), Reads(c), Begins(run[k]), pass = 0
  PROVE  /\ c \in Starters \cup {"sp", "rbracket"}
         /\ c \in Starters => /\ run[k].n + 1 <= Len(values)
                              /\ Newest(values, run[k], TypesFor(c))
         /\ c \in Digits \cup {"-"} => NumberTurn(text, ended, values, run[k], run[k + 1])
<1> DEFINE a == run[k]
           b == run[k + 1]
<1>1. Seeks(a) /\ "need_comma" \notin a.fl /\ "need_colon" \notin a.fl /\ "done" \notin a.fl
  BY DEF Begins, Seeks
<1>2. /\ Turn(text, ended, values, a, b) /\ text[a.at] = c
      /\ b.n <= Len(values) /\ b.n \in Nat
  BY <1>1, SecondTurn
<1> HIDE DEF b
<1>3. \/ c = "sp"
      \/ ArrayEndTurn(values, c, a, b)
      \/ ArrayTurn(values, c, a, b)
      \/ ObjectTurn(values, c, a, b)
      \/ StringTurn(values, c, a, b)
      \/ WordTurn(values, c, a, b)
      \/ NumberTurn(text, ended, values, a, b)
  BY <1>1, <1>2, TurnSeeking
<1>4. CASE c = "sp" \/ ArrayEndTurn(values, c, a, b)
  <2>1. c \in {"sp", "rbracket"}
    BY <1>4 DEF ArrayEndTurn
  <2> QED
    BY <2>1 DEF Starters, Words, Digits
<1>5. CASE ArrayTurn(values, c, a, b)
  <2>1. c = "lbracket" /\ Newest(values, a, {"array"}) /\ b.n = a.n + 1
    BY <1>5 DEF ArrayTurn, Begun
  <2> QED
    BY <2>1, <1>2 DEF Starters, TypesFor, Digits
<1>6. CASE ObjectTurn(values, c, a, b)
  <2>1. c = "lbrace" /\ Newest(values, a, {"object"}) /\ b.n = a.n + 1
    BY <1>6 DEF ObjectTurn, Begun
  <2> QED
    BY <2>1, <1>2 DEF Starters, TypesFor, Digits
<1>7. CASE StringTurn(values, c, a, b)
  <2>1. c = "quote" /\ Newest(values, a, {"string"}) /\ b.n = a.n + 1
    BY <1>7 DEF StringTurn, Begun
  <2> QED
    BY <2>1, <1>2 DEF Starters, TypesFor, Digits
<1>8. CASE WordTurn(values, c, a, b)
  <2>1. c \in Words /\ Newest(values, a, {IF c = "true" THEN "boolean" ELSE "null"}) /\ b.n = a.n + 1
    BY <1>8 DEF WordTurn, Finished
  <2> QED
    BY <2>1, <1>2 DEF Starters, TypesFor, Digits, Words
<1>9. CASE NumberTurn(text, ended, values, a, b)
  <2>1. c \in Digits \cup {"-"} /\ Newest(values, a, Numeric) /\ b.n = a.n + 1
    BY <1>2, <1>9 DEF NumberTurn, Finished
  <2> QED
    BY <2>1, <1>2, <1>9 DEF Starters, TypesFor, Digits, Words, b
<1> QED
  BY <1>3, <1>4, <1>5, <1>6, <1>7, <1>8, <1>9

(* A value may begin, of a type in T.                                      *)
Opens(run, k, type, num, T) ==
    /\ Ready(run, k) /\ Begins(run[k]) /\ type \in Types /\ num \in Int
    /\ pass = 1 => type \in T
    /\ pass = 0 => run[k].n + 1 <= Len(values) /\ Newest(values, run[k], T)

(* The values with the one just begun.                                     *)
Opened(run, k, vt, T) ==
    /\ Shapes(vt) /\ run[k].n + 1 <= Len(vt) /\ Newest(vt, run[k], T)
    /\ vt[run[k].n + 1].length = 0 /\ vt[run[k].n + 1].bytes = 0
    /\ \A w \in 1..run[k].n : vt[w] = values[w]
    /\ pass = 1 => /\ Len(vt) = run[k].n + 1
                   /\ \A w \in 1..Len(vt) : vt[w].kids = <<>> /\ vt[w].names = <<>>
    /\ pass = 0 => Takes(values, vt, run[k].n + 1) /\ SameTree(values, vt)

(* new_value appends a fresh value in the first pass and takes the next of *)
(* the chain in the second: either way the value after those the point has *)
(* begun.                                                                  *)
LEMMA OpenedIs ==
  ASSUME NEW run, NEW k, NEW type, NEW num, NEW T, Opens(run, k, type, num, T)
  PROVE  NewTop = run[k].n + 1 /\ Opened(run, k, NewValues(type, num), T)
<1> DEFINE a == run[k]
           vt == NewValues(type, num)
<1>1. /\ At(a) /\ a.n \in Nat /\ a.n <= Len(values) /\ Len(values) \in Nat /\ pass \in {0, 1}
      /\ Shapes(values) /\ Sound(Len(text), values, a) /\ Len(text) \in Nat
      /\ pass = 1 => Chained /\ Len(values) = a.n
      /\ pass = 0 => Filling(Last(run), a)
  BY ReadyIs DEF Opens
<1>2. top = a.top /\ a.top \in 0..a.n
  BY <1>1, FlagIs, SoundIs
<1>3. CASE pass = 1
  <2>1. top \in 0..Len(values)
    BY <1>1, <1>2, <1>3
  <2>2. /\ Shapes(vt) /\ Len(vt) = Len(values) + 1 /\ NewTop = Len(values) + 1
        /\ \A w \in 1..Len(values) : vt[w] = values[w]
        /\ vt[Len(values) + 1].type = type /\ vt[Len(values) + 1].parent = top
        /\ vt[Len(values) + 1].length = 0 /\ vt[Len(values) + 1].bytes = 0
        /\ vt[Len(values) + 1].kids = <<>> /\ vt[Len(values) + 1].names = <<>>
    BY <2>1, <1>1, <1>3, NewFirst DEF Opens
  <2> HIDE DEF vt
  <2>3. Newest(vt, a, T)
    BY <2>2, <1>1, <1>2, <1>3 DEF Newest, Opens
  <2>4. \A w \in 1..Len(vt) : vt[w].kids = <<>> /\ vt[w].names = <<>>
    <3> SUFFICES ASSUME NEW w \in 1..Len(vt) PROVE vt[w].kids = <<>> /\ vt[w].names = <<>>
      OBVIOUS
    <3>1. CASE w \in 1..Len(values)
      BY <3>1, <2>2, <1>1, <1>3 DEF Chained
    <3>2. CASE w = Len(values) + 1
      BY <3>2, <2>2
    <3> QED
      BY <3>1, <3>2, <2>2, <1>1
  <2>5. Opened(run, k, vt, T)
    BY <2>2, <2>3, <2>4, <1>1, <1>3 DEF Opened
  <2> QED
    BY <2>2, <2>5, <1>1, <1>3 DEF vt
<1>4. CASE pass = 0
  <2>1. a.n + 1 <= Len(values) /\ Newest(values, a, T)
    BY <1>4 DEF Opens
  <2>2. alloc = a.n + 1
    BY <2>1, <1>1, <1>4 DEF Filling
  <2>3. alloc \in 1..Len(values)
    BY <2>1, <2>2, <1>1
  <2>4. /\ Shapes(vt) /\ Takes(values, vt, alloc) /\ NewTop = alloc
        /\ \A w \in 1..Len(values) : vt[w].type = values[w].type /\ vt[w].parent = values[w].parent
    BY <2>3, <1>1, <1>4, NewSecond
  <2> HIDE DEF vt
  <2>5. Len(vt) = Len(values) /\ vt[alloc] = Taken(values[alloc])
        /\ \A w \in 1..Len(values) : w # alloc => vt[w] = values[w]
    BY <2>4 DEF Takes
  <2>6. values[alloc] \in ValueRecord
    BY <2>3, <1>1 DEF Shapes
  <2>7. vt[alloc].length = 0 /\ vt[alloc].bytes = 0
    BY <2>5, <2>6, TakenIs
  <2>8. \A w \in 1..a.n : vt[w] = values[w]
    BY <2>2, <2>5, <1>1
  <2>9. Newest(vt, a, T)
    BY <2>1, <2>2, <2>3, <2>4 DEF Newest
  <2>10. SameTree(values, vt)
    BY <2>4, <2>5 DEF SameTree
  <2>11. Opened(run, k, vt, T)
    BY <2>1, <2>2, <2>4, <2>5, <2>7, <2>8, <2>9, <2>10, <1>4 DEF Opened
  <2> QED
    BY <2>2, <2>4, <2>11 DEF vt
<1> QED
  BY <1>1, <1>3, <1>4

(* The point with the one just begun.                                      *)
LEMMA OpenedPoint ==
  ASSUME NEW run, NEW k, NEW vt, NEW T, NEW at, NEW fl, NEW slen, Ready(run, k), Begins(run[k]),
         Opened(run, k, vt, T), "object" \in T => "seek_value" \notin fl
  PROVE  /\ Matches(vt, Begun(run[k], at, fl, slen))
         /\ pass = 0 => /\ Filled(vt, Last(run), Begun(run[k], at, fl, slen))
                        /\ Linked(vt, Begun(run[k], at, fl, slen))
<1> DEFINE a == run[k]
<1>1. /\ At(a) /\ a.n \in Nat /\ Len(values) \in Nat /\ Len(text) \in Nat
      /\ Shapes(values) /\ Sound(Len(text), values, a)
      /\ pass = 0 => Filling(Last(run), a)
  BY ReadyIs
<1>2. Matches(values, a)
  BY <1>1 DEF At
<1>3. /\ vt[a.n + 1].length = 0 /\ vt[a.n + 1].bytes = 0
      /\ \A w \in 1..a.n : vt[w] = values[w]
      /\ pass = 0 => Takes(values, vt, a.n + 1) /\ SameTree(values, vt)
      /\ a.n + 1 <= Len(vt) /\ Newest(vt, a, T)
  BY DEF Opened
<1>4. Matches(vt, Begun(a, at, fl, slen))
  BY <1>1, <1>2, <1>3, MatchesBegun
<1>5. ASSUME pass = 0
      PROVE  Filled(vt, Last(run), Begun(a, at, fl, slen)) /\ Linked(vt, Begun(a, at, fl, slen))
  <2>1. Filled(values, Last(run), a) /\ Linked(values, a)
    BY <1>1, <1>5 DEF Filling
  <2>2. a.n + 1 <= Len(values) /\ Takes(values, vt, a.n + 1) /\ values[a.n + 1].type = vt[a.n + 1].type
    BY <1>1, <1>3, <1>5 DEF SameTree
  <2>3. values[a.n + 1].type = "object" => "seek_value" \notin fl
    BY <2>2, <1>3 DEF Newest
  <2>4. Filled(vt, Last(run), Begun(a, at, fl, slen))
    BY <2>1, <2>2, <2>3, <1>1, FilledBegun
  <2>5. Linked(vt, Begun(a, at, fl, slen))
    BY <2>1, <2>2, <1>1, LinkedBegun
  <2> QED
    BY <2>4, <2>5
<1> QED
  BY <1>4, <1>5

(* What CreateValue does for the value that becomes number n.              *)
Created(n) ==
    /\ root' = 1
    /\ pass = 1 => alloc' = n /\ heap' = heap \cup {Block(n)}
    /\ pass = 0 => /\ alloc' = IF n < Len(values) THEN n + 1 ELSE 0
                   /\ heap \subseteq heap' /\ heap' \subseteq heap \cup {DataBlock(n)}

(* It is allocated, and the root if it is the first.                       *)
LEMMA CreatedIs ==
  ASSUME NEW run, NEW k, NEW type, NEW num, NEW T, Opens(run, k, type, num, T), CreateValue
  PROVE  Created(run[k].n + 1)
<1> DEFINE n == run[k].n + 1
<1>1. /\ At(run[k]) /\ run[k].n \in Nat /\ Len(values) \in Nat /\ pass \in {0, 1} /\ Shapes(values)
      /\ Sound(Len(text), values, run[k]) /\ Len(text) \in Nat
      /\ pass = 1 => Len(values) = run[k].n
      /\ pass = 0 => Filling(Last(run), run[k])
  BY ReadyIs DEF Opens
<1>2. root = (IF run[k].n = 0 THEN 0 ELSE 1) /\ NewTop = n /\ top \in 0..run[k].n
  BY <1>1, FlagIs, OpenedIs, SoundIs
<1>3. root' = 1
  BY <1>1, <1>2 DEF CreateValue
<1>4. CASE pass = 1
  <2>1. top \in 0..Len(values)
    BY <1>1, <1>2, <1>4
  <2>2. NewAlloc = Len(values) + 1 /\ Allocates = {Block(Len(values) + 1)}
    BY <2>1, <1>1, <1>4, NewFirst DEF Opens
  <2> QED
    BY <2>2, <1>1, <1>3, <1>4 DEF CreateValue, Created
<1>5. CASE pass = 0
  <2>1. n <= Len(values)
    BY <1>5 DEF Opens
  <2>2. alloc = n
    BY <2>1, <1>1, <1>5 DEF Filling
  <2>3. alloc \in 1..Len(values)
    BY <2>1, <2>2, <1>1
  <2>4. NewAlloc = (IF alloc < Len(values) THEN alloc + 1 ELSE 0) /\ Allocates \subseteq {DataBlock(alloc)}
    BY <2>3, <1>1, <1>5, NewSecond
  <2>5. alloc' = (IF n < Len(values) THEN n + 1 ELSE 0)
    BY <2>2, <2>4 DEF CreateValue
  <2>6. heap \subseteq heap' /\ heap' \subseteq heap \cup {DataBlock(n)}
    BY <2>2, <2>4 DEF CreateValue
  <2> QED
    BY <2>5, <2>6, <1>3, <1>5 DEF Created
<1> QED
  BY <1>1, <1>4, <1>5

(* Where the chain and the memory are as CreateValue leaves them, the      *)
(* parser stands at a point with the value begun.                          *)
LEMMA CreatedAt ==
  ASSUME NEW run, NEW k, NEW b, Ready(run, k), b.n = run[k].n + 1, Created(run[k].n + 1), At(b)',
         UNCHANGED pass,
         pass = 1 => /\ Len(values') = b.n
                     /\ \A w \in 1..b.n : values'[w].kids = <<>> /\ values'[w].names = <<>>,
         pass = 0 => /\ Len(values') = Len(values) /\ b.n <= Len(values)
                     /\ Filled(values', Last(run), b) /\ Linked(values', b)
  PROVE  /\ pass = 1 => Chained' /\ Len(values') = b.n
         /\ pass = 0 => Filling(Last(run), b)'
<1> DEFINE n == run[k].n + 1
<1>1. /\ run[k].n \in Nat /\ Len(values) \in Nat /\ pass \in {0, 1}
      /\ pass = 1 => Chained /\ Len(values) = run[k].n
      /\ pass = 0 => Filling(Last(run), run[k])
  BY ReadyIs
<1>2. CASE pass = 1
  <2>1. heap = {Block(v) : v \in 1..run[k].n}
    BY <1>1, <1>2 DEF Chained
  <2>2. alloc' = n /\ heap' = heap \cup {Block(n)}
    BY <1>2 DEF Created
  <2>3. 1..n = 1..run[k].n \cup {n}
    BY <1>1
  <2> HIDE DEF n
  <2>4. heap' = {Block(v) : v \in 1..n}
    BY <2>1, <2>2, <2>3
  <2>5. Len(values') = n /\ b.n = n
    BY <1>2 DEF n
  <2>6. /\ \A v \in 1..Len(values') : values'[v].kids = <<>> /\ values'[v].names = <<>>
        /\ heap' = {Block(v) : v \in 1..Len(values')} /\ alloc' = Len(values')
    BY <2>2, <2>4, <2>5, <1>2
  <2> QED
    BY <2>5, <2>6, <1>2 DEF Chained
<1>3. CASE pass = 0
  <2>1. /\ heap \subseteq UNION {{Block(v), DataBlock(v)} : v \in 1..Len(values)}
        /\ \A v \in 1..Len(values) : Block(v) \in heap /\ (DataBlock(v) \in heap => v <= run[k].n)
    BY <1>1, <1>3 DEF Filling
  <2>2. /\ alloc' = IF n < Len(values) THEN n + 1 ELSE 0
        /\ heap \subseteq heap' /\ heap' \subseteq heap \cup {DataBlock(n)}
    BY <1>3 DEF Created
  <2>3. n \in 1..Len(values) /\ b.n = n
    BY <1>1, <1>3
  <2>4. \A v \in 1..Len(values) : DataBlock(v) = DataBlock(n) => v = n
    BY DEF DataBlock
  <2>5. DataBlock(n) \in UNION {{Block(v), DataBlock(v)} : v \in 1..Len(values)}
    BY <2>3
  <2>6. heap' \subseteq UNION {{Block(v), DataBlock(v)} : v \in 1..Len(values)}
    <3> HIDE DEF n
    <3> QED
      BY <2>1, <2>2, <2>5
  <2>7. ASSUME NEW v \in 1..Len(values)
        PROVE  Block(v) \in heap' /\ (DataBlock(v) \in heap' => v <= b.n)
    BY <2>1, <2>2, <2>3, <2>4, <1>1
  <2> QED
    BY <2>2, <2>3, <2>6, <2>7, <1>3 DEF Filling
<1> QED
  BY <1>1, <1>2, <1>3

(* The next point, when a value begins that is not at its end at once.     *)
LEMMA BeginStep ==
  ASSUME NEW run, NEW k, NEW type, NEW num, NEW T, ReadOn, Opens(run, k, type, num, T), CreateValue,
         values' = NewValues(type, num), top' = NewTop, ptr' = ptr + 1, UNCHANGED <<pass, stage>>,
         NEW fl, Bare(flags', fl), NEW slen, string_length' = slen, "object" \in T => "seek_value" \notin fl,
         NEW b, b = Begun(run[k], run[k].at + 1, fl, slen),
         Newest(values', run[k], T) => Turn(text', ended', values', run[k], b)
  PROVE  Goes
<1> DEFINE a == run[k]
<1>1. Ready(run, k) /\ Begins(a)
  BY DEF Opens
<1>2. /\ a.n \in Nat /\ a.n <= Len(values) /\ Len(values) \in Nat /\ ptr = a.at /\ stage = "parsing"
      /\ pass = 1 => Len(values) = a.n
  BY <1>1, ReadyIs
<1>3. NewTop = a.n + 1 /\ Opened(run, k, values', T)
  BY OpenedIs
<1>4. /\ Shapes(values') /\ a.n + 1 <= Len(values') /\ Newest(values', a, T)
      /\ \A w \in 1..a.n : values'[w] = values[w]
      /\ pass = 1 => /\ Len(values') = a.n + 1
                     /\ \A w \in 1..Len(values') : values'[w].kids = <<>> /\ values'[w].names = <<>>
      /\ pass = 0 => SameTree(values, values')
  BY <1>3 DEF Opened
<1>5. Matches(values', b) /\ (pass = 0 => Filled(values', Last(run), b) /\ Linked(values', b))
  BY <1>1, <1>3, OpenedPoint
<1>6. b.at = a.at + 1 /\ b.fl = fl /\ b.top = a.n + 1 /\ b.slen = slen /\ b.n = a.n + 1
  BY DEF Begun
<1>7. Created(a.n + 1)
  BY CreatedIs
<1>8. root' = 1
  BY <1>7 DEF Created
<1>9. At(b)'
  <2>1. b.n # 0
    BY <1>2, <1>6
  <2>2. top' = b.top
    BY <1>3, <1>6
  <2>3. flags' \ NumberFlags = b.fl
    BY <1>6 DEF Bare
  <2>4. ptr' = b.at
    BY <1>2, <1>6
  <2> QED
    BY <2>1, <2>2, <2>3, <2>4, <1>5, <1>6, <1>8 DEF At
<1>10. pass = 0 => Len(values') = Len(values) /\ b.n <= Len(values)
  BY <1>4, <1>6 DEF SameTree
<1>11. pass = 1 => /\ Len(values') = b.n
                   /\ \A w \in 1..b.n : values'[w].kids = <<>> /\ values'[w].names = <<>>
  BY <1>4, <1>6
<1>12. /\ pass = 1 => Chained' /\ Len(values') = b.n
       /\ pass = 0 => Filling(Last(run), b)'
  BY <1>1, <1>5, <1>6, <1>7, <1>9, <1>10, <1>11, CreatedAt
<1>13. Turn(text', ended', values', a, b)
  BY <1>4
<1>14. Alike(values, values', a.n) /\ (pass = 0 => Alike(values, values', Len(values)))
  BY <1>4 DEF Alike, SameTree
<1>15. a.n <= Len(values') /\ b.n <= Len(values')
  <2>1. Len(values') \in Nat
    BY <1>4, ShapesIs
  <2> QED
    BY <2>1, <1>2, <1>4, <1>6
<1>16. Reading'
  BY <1>1, <1>4, <1>9, <1>10, <1>12, <1>13, <1>14, <1>15, Advance
<1> QED
  BY <1>2, <1>4, <1>16 DEF Goes

(* The next point, when a value begins and ends in one turn.               *)
LEMMA BeginEndStep ==
  ASSUME NEW run, NEW k, NEW type, NEW num, NEW T, ReadOn, Opens(run, k, type, num, T), "object" \notin T,
         CreateValue, NEW at, FinishValue(NewValues(type, num), NewTop, Sought, at),
         UNCHANGED string_length, NEW fl, Settled(Sought, fl),
         \A vt : Newest(vt, run[k], T) =>
                   Turn(text', ended', vt, run[k],
                        Finished(vt, run[k], run[k].n + 1, run[k].n + 1, run[k].byt, at, fl))
  PROVE  Goes
<1> DEFINE a == run[k]
           n == a.n + 1
           mid == NewValues(type, num)
           m == Begun(a, a.at, fl, a.slen)
<1>1. Ready(run, k) /\ Begins(a)
  BY DEF Opens
<1>2. /\ Sound(Len(text), values, a) /\ At(a) /\ a.n \in Nat /\ a.n <= Len(values) /\ Len(values) \in Nat
      /\ ptr = a.at /\ Len(text) \in Nat /\ Shapes(values) /\ stage = "parsing"
      /\ pass = 1 => Len(values) = a.n
  BY <1>1, ReadyIs
<1>3. NewTop = n /\ Opened(run, k, mid, T)
  BY OpenedIs
<1>4. FinishValue(mid, NewTop, Sought, at)
  OBVIOUS
<1> HIDE DEF mid
<1>5. /\ Shapes(mid) /\ n <= Len(mid) /\ Newest(mid, a, T)
      /\ \A w \in 1..a.n : mid[w] = values[w]
      /\ pass = 1 => /\ Len(mid) = n
                     /\ \A w \in 1..Len(mid) : mid[w].kids = <<>> /\ mid[w].names = <<>>
      /\ pass = 0 => SameTree(values, mid)
  BY <1>3 DEF Opened
<1>6. Matches(mid, m) /\ (pass = 0 => Filled(mid, Last(run), m) /\ Linked(mid, m))
  BY <1>1, <1>3, OpenedPoint
<1>7. /\ m.top = n /\ m.n = n /\ m.slen = a.slen /\ m.len = a.len /\ m.open = a.open \cup {n} /\ m.byt = a.byt
      /\ m.fl = fl
  BY DEF Begun
<1> HIDE DEF m
<1>8. a.top \in 0..a.n /\ a.open \subseteq 1..a.n /\ Counts(a.len) /\ (a.top # 0 => a.top \in a.open)
  <2>1. "done" \notin a.fl
    BY <1>1 DEF Begins, Seeks
  <2> QED
    BY <2>1, <1>2, SoundIs, SoundCounts, OpenTop
<1>9. Finishing(mid, m)
  <2>1. mid[n].parent = a.top
    BY <1>5 DEF Newest
  <2>2. "seek_value" \notin m.fl
    BY <1>7 DEF Settled
  <2>3. Len(mid) \in Nat
    BY <1>5, ShapesIs
  <2> QED
    BY <2>1, <2>2, <2>3, <1>2, <1>5, <1>7, <1>8 DEF Finishing
<1>10. Finishable(mid, m, Last(run))
  BY <1>5, <1>6, <1>9 DEF Finishable
<1>11. FinishValue(mid, m.top, Sought, at)
  BY <1>3, <1>4, <1>7
<1>12. PICK b : b = Finished(mid, m, m.top, m.n, m.byt, at, fl)
  OBVIOUS
<1>13. b.at = at /\ b.slen = a.slen /\ b.n = n
  BY <1>7, <1>12 DEF Finished
<1>14. /\ ptr' = at /\ Bare(flags', b.fl)
       /\ Shapes(values') /\ Len(values') = Len(mid) /\ Matches(values', b)
       /\ \A w \in 1..Len(mid) :
               /\ values'[w].type = mid[w].type /\ values'[w].parent = mid[w].parent
               /\ values'[w].names = mid[w].names /\ (pass = 1 => values'[w].kids = mid[w].kids)
       /\ UNCHANGED <<pass, stage>>
  BY <1>10, <1>11, <1>12, FinishStep
<1>15. pass = 0 => Filled(values', Last(run), b) /\ Linked(values', b)
  BY <1>10, <1>11, <1>12, FinishStep
<1>16. Atop(top', b)
  BY <1>10, <1>11, <1>12, FinishStep
<1>17. Created(n)
  BY CreatedIs
<1>18. root' = 1
  BY <1>17 DEF Created
<1>19. string_length' = a.slen
  BY <1>2 DEF At
<1>20. At(b)'
  <2>1. b.n # 0
    BY <1>2, <1>13
  <2>2. top' = b.top
    BY <1>16 DEF Atop
  <2>3. flags' \ NumberFlags = b.fl
    BY <1>14 DEF Bare
  <2>4. ptr' = b.at /\ string_length' = b.slen
    BY <1>13, <1>14, <1>19
  <2>5. Matches(values', b)
    BY <1>14
  <2> QED
    BY <2>1, <2>2, <2>3, <2>4, <2>5, <1>18 DEF At
<1>21. pass = 0 => Len(values') = Len(values) /\ b.n <= Len(values)
  BY <1>5, <1>13, <1>14 DEF SameTree
<1>22. pass = 1 => /\ Len(values') = b.n
                   /\ \A w \in 1..b.n : values'[w].kids = <<>> /\ values'[w].names = <<>>
  BY <1>5, <1>13, <1>14
<1>23. /\ pass = 1 => Chained' /\ Len(values') = b.n
       /\ pass = 0 => Filling(Last(run), b)'
  BY <1>1, <1>13, <1>14, <1>15, <1>17, <1>20, <1>21, <1>22, CreatedAt
<1>24. n \in 1..Len(mid) /\ Len(mid) \in Nat
  <2>1. Len(mid) \in Nat
    BY <1>5, ShapesIs
  <2> QED
    BY <2>1, <1>2, <1>5
<1>25. Newest(values', a, T)
  BY <1>5, <1>14, <1>24 DEF Newest
<1>26. Finished(values', a, n, n, a.byt, at, fl) = b
  <2>1. mid[n].parent = a.top
    BY <1>5 DEF Newest
  <2>2. values'[n].parent = mid[n].parent
    BY <1>14, <1>24
  <2>3. mid[n].parent # 0 => values'[mid[n].parent].type = mid[mid[n].parent].type
    BY <2>1, <1>2, <1>8, <1>14, <1>24
  <2>4. m.open \ {n} = a.open \ {n}
    BY <1>7
  <2>5. Finished(values', a, n, n, a.byt, at, fl) = Finished(mid, m, n, n, a.byt, at, fl)
    BY <2>2, <2>3, <2>4, <1>7, FinishedSame
  <2> QED
    BY <2>5, <1>7, <1>12
<1>27. Turn(text', ended', values', a, b)
  BY <1>25, <1>26
<1>28. Alike(values, values', a.n) /\ (pass = 0 => Alike(values, values', Len(values)))
  <2>1. \A w \in 1..a.n : values'[w].parent = values[w].parent /\ values'[w].type = values[w].type
    BY <1>2, <1>5, <1>14, <1>24
  <2>2. pass = 0 => \A w \in 1..Len(values) : values'[w].parent = values[w].parent /\ values'[w].type = values[w].type
    BY <1>5, <1>14 DEF SameTree
  <2> QED
    BY <2>1, <2>2 DEF Alike
<1>29. a.n <= Len(values') /\ b.n <= Len(values')
  BY <1>2, <1>13, <1>14, <1>24
<1>30. Reading'
  BY <1>1, <1>14, <1>20, <1>21, <1>23, <1>27, <1>28, <1>29, Advance
<1> QED
  BY <1>2, <1>14, <1>30 DEF Goes

(* What holds where a value is sought and nothing else.                    *)
LEMMA BeginsIs ==
  ASSUME NEW run, NEW k, NEW c, NEW S, Ready(run, k), text \in Seq(S), BeginsValue(c)
  PROVE  /\ Begins(run[k]) /\ Reads(c) /\ ReadOn /\ run[k].at = ptr
         /\ c \in Starters => run[k].at \in 1..Len(text') /\ text'[run[k].at] = c
         /\ pass = 0 => c \in Starters \cup {"sp", "rbracket"}
         /\ pass = 0 /\ c \in Starters => run[k].n + 1 <= Len(values) /\ Newest(values, run[k], TypesFor(c))
<1> DEFINE a == run[k]
<1>1. At(a) /\ ptr = a.at
  BY ReadyIs
<1>2. Begins(a) /\ Reads(c)
  BY <1>1, FlagIs DEF BeginsValue, Begins
<1>3. ReadOn /\ Byte(c)
  BY <1>2, ReadyReads
<1>4. c \in Starters => a.at \in 1..Len(text') /\ text'[a.at] = c
  <2>1. c \in Starters => c # End
    BY DEF Starters, End, Words, Digits
  <2> QED
    BY <2>1, <1>1, <1>3 DEF Byte
<1>5. pass = 0 => c \in Starters \cup {"sp", "rbracket"}
  BY <1>2, SecondBegins
<1>6. pass = 0 /\ c \in Starters => a.n + 1 <= Len(values) /\ Newest(values, a, TypesFor(c))
  BY <1>2, SecondBegins
<1> QED
  BY <1>1, <1>2, <1>3, <1>4, <1>5, <1>6

(* An array or an object begins.                                           *)
LEMMA SeekContainerStep ==
  ASSUME NEW run, NEW k, NEW S, Ready(run, k), text \in Seq(S), SeekContainer
  PROVE  Goes \/ AllocationFails
<1> DEFINE a == run[k]
<1>1. At(a) /\ pass \in {0, 1} /\ a.slen = string_length /\ flags \ NumberFlags = a.fl
  BY ReadyIs, FlagIs
<1>2. CASE /\ BeginsValue("lbracket") /\ CreateValue
           /\ values' = NewValues("array", 0) /\ top' = NewTop /\ flags' = flags /\ ptr' = ptr + 1
           /\ UNCHANGED <<pass, string_length, num_digits, stage, error, freeing>>
  <2> DEFINE b == Begun(a, a.at + 1, a.fl, a.slen)
  <2>1. /\ Begins(a) /\ ReadOn /\ a.at \in 1..Len(text') /\ text'[a.at] = "lbracket"
        /\ pass = 0 => a.n + 1 <= Len(values) /\ Newest(values, a, {"array"})
    BY <1>2, BeginsIs DEF Starters, TypesFor
  <2>2. Opens(run, k, "array", 0, {"array"})
    BY <2>1 DEF Opens, Types, Containers
  <2>3. Bare(flags', a.fl) /\ string_length' = a.slen
    BY <1>1, <1>2 DEF Bare
  <2>4. ASSUME Newest(values', a, {"array"})
        PROVE  Turn(text', ended', values', a, b)
    <3>1. ArrayTurn(values', text'[a.at], a, b)
      BY <2>1, <2>4 DEF ArrayTurn
    <3> HIDE DEF b
    <3> QED
      BY <2>1, <3>1 DEF Turn
  <2> HIDE DEF b
  <2>5. b = Begun(a, a.at + 1, a.fl, a.slen)
    BY DEF b
  <2> QED
    BY <2>1, <2>2, <2>3, <2>4, <2>5, <1>2, BeginStep
<1>3. CASE /\ BeginsValue("lbrace") /\ CreateValue
           /\ values' = NewValues("object", 0) /\ top' = NewTop /\ flags' = Sought /\ ptr' = ptr + 1
           /\ UNCHANGED <<pass, string_length, num_digits, stage, error, freeing>>
  <2> DEFINE fl == a.fl \ {"seek_value"}
             b == Begun(a, a.at + 1, fl, a.slen)
  <2>1. /\ Begins(a) /\ ReadOn /\ a.at \in 1..Len(text') /\ text'[a.at] = "lbrace"
        /\ pass = 0 => a.n + 1 <= Len(values) /\ Newest(values, a, {"object"})
    BY <1>3, BeginsIs DEF Starters, TypesFor
  <2>2. Opens(run, k, "object", 0, {"object"})
    BY <2>1 DEF Opens, Types, Containers
  <2>3. Bare(flags', fl) /\ string_length' = a.slen /\ "seek_value" \notin fl
    BY <1>1, <1>3 DEF Bare, Sought
  <2>4. ASSUME Newest(values', a, {"object"})
        PROVE  Turn(text', ended', values', a, b)
    <3>1. ObjectTurn(values', text'[a.at], a, b)
      BY <2>1, <2>4 DEF ObjectTurn
    <3> HIDE DEF b
    <3> QED
      BY <2>1, <3>1 DEF Turn
  <2> HIDE DEF b, fl
  <2>5. b = Begun(a, a.at + 1, fl, a.slen)
    BY DEF b
  <2> QED
    BY <2>1, <2>2, <2>3, <2>4, <2>5, <1>3, BeginStep
<1>4. \/ AllocationFails
      \/ /\ BeginsValue("lbracket") /\ CreateValue
         /\ values' = NewValues("array", 0) /\ top' = NewTop /\ flags' = flags /\ ptr' = ptr + 1
         /\ UNCHANGED <<pass, string_length, num_digits, stage, error, freeing>>
      \/ /\ BeginsValue("lbrace") /\ CreateValue
         /\ values' = NewValues("object", 0) /\ top' = NewTop /\ flags' = Sought /\ ptr' = ptr + 1
         /\ UNCHANGED <<pass, string_length, num_digits, stage, error, freeing>>
  <2>1. PICK c \in {"lbrace", "lbracket"} :
            /\ BeginsValue(c)
            /\ \/ AllocationFails
               \/ /\ CreateValue
                  /\ values' = NewValues(IF c = "lbrace" THEN "object" ELSE "array", 0) /\ top' = NewTop
                  /\ flags' = IF c = "lbracket" THEN flags ELSE Sought
                  /\ ptr' = ptr + 1
                  /\ UNCHANGED <<pass, string_length, num_digits, stage, error, freeing>>
    BY DEF SeekContainer
  <2>2. CASE c = "lbrace"
    BY <2>1, <2>2
  <2>3. CASE c = "lbracket"
    BY <2>1, <2>3
  <2> QED
    BY <2>1, <2>2, <2>3
<1> QED
  BY <1>2, <1>3, <1>4

(* A string begins.                                                        *)
LEMMA SeekStringStep ==
  ASSUME NEW run, NEW k, NEW S, Ready(run, k), text \in Seq(S), SeekString
  PROVE  Goes \/ AllocationFails
<1> DEFINE a == run[k]
<1>1. At(a) /\ pass \in {0, 1} /\ flags \ NumberFlags = a.fl
  BY ReadyIs, FlagIs
<1>2. BeginsValue("quote")
  BY DEF SeekString
<1>3. CASE /\ CreateValue
           /\ values' = NewValues("string", 0) /\ top' = NewTop
           /\ flags' = Sought \cup {"string"} /\ string_length' = 0 /\ ptr' = ptr + 1
           /\ UNCHANGED <<pass, num_digits, stage, error, freeing>>
  <2> DEFINE fl == (a.fl \ {"seek_value"}) \cup {"string"}
             b == Begun(a, a.at + 1, fl, 0)
  <2>1. /\ Begins(a) /\ ReadOn /\ a.at \in 1..Len(text') /\ text'[a.at] = "quote"
        /\ pass = 0 => a.n + 1 <= Len(values) /\ Newest(values, a, {"string"})
    BY <1>2, BeginsIs DEF Starters, TypesFor
  <2>2. Opens(run, k, "string", 0, {"string"})
    BY <2>1 DEF Opens, Types
  <2>3. Bare(flags', fl) /\ "seek_value" \notin fl
    BY <1>1, <1>3 DEF Bare, Sought, NumberFlags
  <2>4. ASSUME Newest(values', a, {"string"})
        PROVE  Turn(text', ended', values', a, b)
    <3>1. StringTurn(values', text'[a.at], a, b)
      BY <2>1, <2>4 DEF StringTurn
    <3> HIDE DEF b
    <3> QED
      BY <2>1, <3>1 DEF Turn
  <2> HIDE DEF b, fl
  <2>5. b = Begun(a, a.at + 1, fl, 0)
    BY DEF b
  <2>6. /\ CreateValue /\ values' = NewValues("string", 0) /\ top' = NewTop
        /\ string_length' = 0 /\ ptr' = ptr + 1 /\ UNCHANGED <<pass, stage>>
    BY <1>3
  <2> QED
    BY <2>1, <2>2, <2>3, <2>4, <2>5, <2>6, BeginStep
<1> QED
  BY <1>3 DEF SeekString

(* A word is read.                                                         *)
LEMMA SeekWordStep ==
  ASSUME NEW run, NEW k, NEW S, Ready(run, k), text \in Seq(S), SeekWord
  PROVE  Goes \/ AllocationFails
<1> DEFINE a == run[k]
<1>1. At(a) /\ pass \in {0, 1} /\ flags \ NumberFlags = a.fl /\ ptr = a.at
  BY ReadyIs, FlagIs
<1>2. PICK c \in Words :
          /\ BeginsValue(c)
          /\ \/ AllocationFails
             \/ /\ CreateValue
                /\ FinishValue(NewValues(IF c = "true" THEN "boolean" ELSE "null", IF c = "true" THEN 1 ELSE 0),
                               NewTop, Sought, ptr + 1)
                /\ UNCHANGED <<string_length, num_digits>>
  BY DEF SeekWord
<1>3. ASSUME CreateValue,
             FinishValue(NewValues(IF c = "true" THEN "boolean" ELSE "null", IF c = "true" THEN 1 ELSE 0),
                         NewTop, Sought, ptr + 1),
             UNCHANGED string_length
      PROVE  Goes
  <2> DEFINE fl == a.fl \ {"seek_value"}
             type == IF c = "true" THEN "boolean" ELSE "null"
             num == IF c = "true" THEN 1 ELSE 0
             T == {type}
  <2>1. c \in Starters /\ T = TypesFor(c) /\ type \in Types /\ num \in Int
    BY DEF Starters, TypesFor, Words, Types
  <2>6. "object" \notin T
    OBVIOUS
  <2>7. FinishValue(NewValues(type, num), NewTop, Sought, a.at + 1)
    BY <1>1, <1>3
  <2> HIDE DEF T, type, num
  <2>2. /\ Begins(a) /\ ReadOn /\ a.at \in 1..Len(text') /\ text'[a.at] = c
        /\ pass = 0 => a.n + 1 <= Len(values) /\ Newest(values, a, T)
    BY <2>1, <1>2, BeginsIs
  <2>3. Opens(run, k, type, num, T)
    BY <2>1, <2>2 DEF Opens, T
  <2>4. Settled(Sought, fl)
    BY <1>1 DEF Settled, Bare, Sought
  <2>5. ASSUME NEW vt, Newest(vt, a, T)
        PROVE  Turn(text', ended', vt, a, Finished(vt, a, a.n + 1, a.n + 1, a.byt, a.at + 1, fl))
    <3> DEFINE b == Finished(vt, a, a.n + 1, a.n + 1, a.byt, a.at + 1, fl)
    <3>1. WordTurn(vt, text'[a.at], a, b)
      BY <2>2, <2>5 DEF WordTurn, T, type
    <3> HIDE DEF b
    <3>2. Turn(text', ended', vt, a, b)
      BY <2>2, <3>1 DEF Turn
    <3> QED
      BY <3>2 DEF b
  <2> HIDE DEF fl
  <2> QED
    BY <2>2, <2>3, <2>4, <2>5, <2>6, <2>7, <1>3, BeginEndStep
<1> QED
  BY <1>2, <1>3

(* Any other byte fails.                                                   *)
LEMMA SeekOtherStep ==
  ASSUME NEW run, NEW k, NEW c, NEW S, Ready(run, k), text \in Seq(S), SeekOther(c)
  PROVE  Rejects
<1>1. BeginsValue(c) /\ Fail("syntax") /\ c \notin Starters \cup {"sp", "rbracket"}
  BY DEF SeekOther, Starters
<1>2. pass \in {0, 1} /\ (pass = 0 => c \in Starters \cup {"sp", "rbracket"})
  BY <1>1, BeginsIs, ReadyIs
<1> QED
  BY <1>1, <1>2 DEF Rejects

-----------------------------------------------------------------------------
(* Numbers: the second pass skips them                                     *)

(* Where the second pass resumes is where the run stopped reading the      *)
(* number: only one position both spans the number and stops it.           *)
LEMMA AfterNumberIs ==
  ASSUME NEW e \in Nat, Len(text) \in Nat, ptr \in Nat, NumberSpan(text, ptr, e), NumberStops(text, ended, e)
  PROVE  AfterNumber = e
<1> DEFINE P(x) == /\ \A i \in ptr..(x - 1) : text[i] \in NumberTokens
                   /\ x <= Len(text) => text[x] \notin NumberTokens
           d == CHOOSE x \in ptr..(Len(text) + 1) : P(x)
<1>1. e \in ptr..(Len(text) + 1) /\ P(e)
  BY DEF NumberSpan, NumberStops
<1>2. d \in ptr..(Len(text) + 1) /\ P(d)
  <2> HIDE DEF P
  <2> QED
    BY <1>1
<1>3. AfterNumber = d
  BY DEF AfterNumber
<1> HIDE DEF d
<1>4. d \in Nat
  BY <1>2
<1>5. d = e
  <2>1. CASE d < e
    <3>1. text[d] \in NumberTokens
      BY <2>1, <1>1, <1>2, <1>4
    <3>2. d <= Len(text)
      BY <2>1, <1>1, <1>4
    <3> QED
      BY <3>1, <3>2, <1>2
  <2>2. CASE e < d
    <3>1. text[e] \in NumberTokens
      BY <2>2, <1>1, <1>2, <1>4
    <3>2. e <= Len(text)
      BY <2>2, <1>2, <1>4
    <3> QED
      BY <3>1, <3>2, <1>1
  <2> QED
    BY <2>1, <2>2, <1>4
<1> QED
  BY <1>3, <1>5

(* A number in the second pass: one turn of the parser, one of the run.    *)
LEMMA SecondNumber ==
  ASSUME NEW run, NEW k, NEW c \in Digits \cup {"-"}, NEW S, Ready(run, k), text \in Seq(S), BeginsValue(c),
         pass = 0, CreateValue, FinishValue(NewValues("integer", 0), NewTop, Sought, AfterNumber),
         UNCHANGED string_length
  PROVE  Goes
<1> DEFINE a == run[k]
           fl == a.fl \ {"seek_value"}
<1>1. At(a) /\ ptr = a.at /\ Len(text) \in Nat /\ a.at \in 1..(Len(text) + 1) /\ flags \ NumberFlags = a.fl
  BY ReadyIs, FlagIs
<1>2. c \in Starters /\ TypesFor(c) = Numeric
  BY DEF Starters, TypesFor, Digits
<1>3. /\ Begins(a) /\ Reads(c) /\ ReadOn /\ a.at \in 1..Len(text') /\ text'[a.at] = c
      /\ a.n + 1 <= Len(values) /\ Newest(values, a, Numeric)
  BY <1>2, BeginsIs
<1>4. NumberTurn(text, ended, values, a, run[k + 1])
  BY <1>3, SecondBegins
<1>5. PICK e \in Nat : e > a.at /\ NumberSpan(text, a.at, e) /\ NumberStops(text, ended, e)
  BY <1>4 DEF NumberTurn
<1>6. AfterNumber = e
  BY <1>1, <1>5, AfterNumberIs
<1>7. text' = text /\ ended' = ended
  BY <1>3 DEF ReadOn
<1>8. Opens(run, k, "integer", 0, Numeric)
  BY <1>3 DEF Opens, Types, Numeric
<1>9. Settled(Sought, fl) /\ "object" \notin Numeric
  BY <1>1 DEF Settled, Bare, Sought, Numeric
<1>10. ASSUME NEW vt, Newest(vt, a, Numeric)
       PROVE  Turn(text', ended', vt, a, Finished(vt, a, a.n + 1, a.n + 1, a.byt, e, fl))
  <2> DEFINE b == Finished(vt, a, a.n + 1, a.n + 1, a.byt, e, fl)
  <2>1. NumberTurn(text', ended', vt, a, b)
    BY <1>3, <1>5, <1>7, <1>10 DEF NumberTurn
  <2> HIDE DEF b
  <2>2. Turn(text', ended', vt, a, b)
    BY <1>3, <2>1 DEF Turn
  <2> QED
    BY <2>2 DEF b
<1>11. FinishValue(NewValues("integer", 0), NewTop, Sought, e)
  BY <1>6
<1> HIDE DEF fl
<1> QED
  BY <1>3, <1>8, <1>9, <1>10, <1>11, BeginEndStep

-----------------------------------------------------------------------------
(* Numbers: the first pass goes through them byte by byte                  *)

(* The run stays as it is while a number is read.                          *)
LEMMA StayFirst ==
  ASSUME NEW run, Run(text, ended, values, run), Shapes(values), Extends(text, ended, text', ended'),
         Shapes(values'), Alike(values, values', Last(run).n), Last(run).n <= Len(values'),
         pass' = 1, stage' = "parsing", Chained', InsideNumber(Last(run))' \/ Doomed'
  PROVE  Goes
<1>1. Len(values') \in Nat
  BY ShapesIs
<1>2. Run(text', ended', values', run)
  BY <1>1, RunCarries
<1>3. FirstPass(run)'
  BY DEF FirstPass
<1> QED
  BY <1>2, <1>3 DEF Goes, Reading

(* The first pass begins a number.                                         *)
LEMMA FirstNumber ==
  ASSUME NEW run, NEW k, NEW c \in Digits \cup {"-"}, NEW S, Ready(run, k), text \in Seq(S), BeginsValue(c),
         pass = 1, CreateValue, values' = NewValues("integer", 0), top' = NewTop,
         flags' = (Sought \ NumberFlags) \cup IF c = "-" THEN {"num_negative"} ELSE {},
         ptr' = IF c = "-" THEN ptr + 1 ELSE ptr,
         UNCHANGED <<pass, string_length, stage>>
  PROVE  Goes
<1> DEFINE a == run[k]
<1>1. /\ At(a) /\ ptr = a.at /\ Len(text) \in Nat /\ a.at \in 1..(Len(text) + 1) /\ flags \ NumberFlags = a.fl
      /\ a.n \in Nat /\ Len(values) = a.n /\ a = Last(run) /\ stage = "parsing" /\ Shapes(values)
      /\ string_length = a.slen /\ Chained
  BY ReadyIs, FlagIs
<1>2. c \in Starters /\ c # End
  BY DEF Starters, Digits, End
<1>3. Begins(a) /\ ReadOn /\ a.at \in 1..Len(text') /\ text'[a.at] = c
  BY <1>2, BeginsIs
<1>4. Opens(run, k, "integer", 0, Numeric)
  BY <1>3 DEF Opens, Types, Numeric
<1>5. NewTop = a.n + 1 /\ Opened(run, k, values', Numeric)
  BY <1>4, OpenedIs
<1>6. /\ Shapes(values') /\ Newest(values', a, Numeric)
      /\ values'[a.n + 1].length = 0 /\ values'[a.n + 1].bytes = 0
      /\ \A w \in 1..a.n : values'[w] = values[w]
      /\ Len(values') = a.n + 1
      /\ \A w \in 1..Len(values') : values'[w].kids = <<>> /\ values'[w].names = <<>>
  BY <1>5 DEF Opened
<1>7. Created(a.n + 1)
  BY <1>4, CreatedIs
<1>8. root' = 1 /\ alloc' = a.n + 1 /\ heap' = heap \cup {Block(a.n + 1)}
  BY <1>7 DEF Created
<1>9. Extends(text, ended, text', ended') /\ Len(text') \in Nat
  BY <1>3 DEF ReadOn, Extends
<1>10. Chained'
  <2>1. heap = {Block(v) : v \in 1..a.n}
    BY <1>1 DEF Chained
  <2>2. 1..(a.n + 1) = 1..a.n \cup {a.n + 1}
    BY <1>1
  <2> DEFINE n == a.n + 1
  <2>3. heap' = heap \cup {Block(n)} /\ 1..n = 1..a.n \cup {n}
    BY <2>2, <1>8
  <2> HIDE DEF n
  <2>4. heap' = {Block(v) : v \in 1..n}
    BY <2>1, <2>3
  <2> QED
    BY <2>4, <1>6, <1>8 DEF Chained, n
<1>11. flags' \ NumberFlags = a.fl \ {"seek_value"}
  BY <1>1 DEF Sought, NumberFlags
<1>12. Matches(values', a)
  <2>1. Matches(values, a)
    BY <1>1 DEF At
  <2> QED
    BY <2>1, <1>6 DEF Matches
<1>13. NumberSpan(text', a.at, ptr') /\ (ptr' = a.at => text'[ptr'] \in Digits)
  <2>1. CASE c = "-"
    <3>1. ptr' = a.at + 1 /\ a.at \in Nat
      BY <2>1, <1>1
    <3>2. \A j \in a.at..(ptr' - 1) : j = a.at
      BY <3>1
    <3>3. text'[a.at] \in NumberTokens
      BY <2>1, <1>3 DEF NumberTokens
    <3>4. ptr' \in a.at..(Len(text') + 1)
      BY <3>1, <1>3, <1>9
    <3> QED
      BY <3>1, <3>2, <3>3, <3>4 DEF NumberSpan
  <2>2. CASE c # "-"
    <3>1. ptr' = a.at /\ text'[ptr'] \in Digits /\ a.at \in Nat
      BY <2>2, <1>1, <1>3
    <3>2. \A j \in a.at..(ptr' - 1) : FALSE
      BY <3>1
    <3>3. ptr' \in a.at..(Len(text') + 1)
      BY <3>1, <1>3, <1>9
    <3> QED
      BY <3>1, <3>2, <3>3 DEF NumberSpan
  <2> QED
    BY <2>1, <2>2
<1>14. InsideNumber(a)'
  BY <1>1, <1>3, <1>5, <1>6, <1>8, <1>11, <1>12, <1>13 DEF InsideNumber
<1>15. Alike(values, values', a.n) /\ a.n <= Len(values')
  BY <1>1, <1>6 DEF Alike
<1>16. Run(text, ended, values, run)
  BY DEF Ready
<1> QED
  BY <1>1, <1>6, <1>9, <1>10, <1>14, <1>15, <1>16, StayFirst

(* A number is sought.                                                     *)
LEMMA SeekNumberStep ==
  ASSUME NEW run, NEW k, NEW S, Ready(run, k), text \in Seq(S), SeekNumber
  PROVE  Goes \/ AllocationFails
<1>1. PICK c \in Digits \cup {"-"} :
          /\ BeginsValue(c)
          /\ \/ AllocationFails
             \/ /\ pass = 1 /\ CreateValue
                /\ values' = NewValues("integer", 0) /\ top' = NewTop
                /\ flags' = (Sought \ NumberFlags) \cup IF c = "-" THEN {"num_negative"} ELSE {}
                /\ ptr' = IF c = "-" THEN ptr + 1 ELSE ptr
                /\ UNCHANGED <<pass, string_length, stage, error, freeing>>
             \/ /\ pass = 0 /\ CreateValue
                /\ FinishValue(NewValues("integer", 0), NewTop, Sought, AfterNumber)
                /\ UNCHANGED <<string_length, num_digits>>
  BY DEF SeekNumber
<1>2. CASE AllocationFails
  BY <1>2
<1>3. CASE /\ pass = 1 /\ CreateValue
           /\ values' = NewValues("integer", 0) /\ top' = NewTop
           /\ flags' = (Sought \ NumberFlags) \cup IF c = "-" THEN {"num_negative"} ELSE {}
           /\ ptr' = IF c = "-" THEN ptr + 1 ELSE ptr
           /\ UNCHANGED <<pass, string_length, stage, error, freeing>>
  BY <1>1, <1>3, FirstNumber
<1>4. CASE /\ pass = 0 /\ CreateValue
           /\ FinishValue(NewValues("integer", 0), NewTop, Sought, AfterNumber)
           /\ UNCHANGED <<string_length, num_digits>>
  BY <1>1, <1>4, SecondNumber
<1> QED
  BY <1>1, <1>2, <1>3, <1>4

(* The first pass is inside a number, at the end of the run it has made.   *)
Numbering(run) ==
    /\ stage = "parsing" /\ pass = 1 /\ Len(text) \in Nat /\ Shapes(values)
    /\ Run(text, ended, values, run) /\ Chained /\ InsideNumber(Last(run))

(* What holds there.                                                       *)
LEMMA NumberingIs ==
  ASSUME NEW run, NEW a, a = Last(run), Numbering(run)
  PROVE  /\ stage = "parsing" /\ pass = 1 /\ Len(text) \in Nat /\ Shapes(values) /\ Chained
         /\ Run(text, ended, values, run) /\ a \in Point /\ Sound(Len(text), values, a)
         /\ a.n \in Nat /\ Len(values) = a.n + 1 /\ top = a.n + 1 /\ root = 1 /\ string_length = a.slen
         /\ Begins(a) /\ a.at \in 1..Len(text) /\ text[a.at] \in Digits \cup {"-"}
         /\ Newest(values, a, Numeric) /\ values[a.n + 1].length = 0 /\ values[a.n + 1].bytes = 0
         /\ NumberSpan(text, a.at, ptr) /\ (ptr = a.at => text[ptr] \in Digits)
         /\ flags \ NumberFlags = a.fl \ {"seek_value"} /\ Matches(values, a)
         /\ ptr \in Nat /\ ptr >= a.at /\ ptr <= Len(text) + 1
<1>1. /\ stage = "parsing" /\ pass = 1 /\ Len(text) \in Nat /\ Shapes(values)
      /\ Run(text, ended, values, run) /\ Chained /\ InsideNumber(a)
  BY DEF Numbering
<1>2. a \in Point /\ Sound(Len(text), values, a) /\ a.n \in Nat
  <2>1. Len(run) \in Nat /\ Len(run) >= 1
    BY <1>1, RunIs
  <2>2. Len(run) \in 1..Len(run)
    BY <2>1
  <2> QED
    BY <2>2, <1>1, RunIs DEF Last
<1>3. NumberSpan(text, a.at, ptr) /\ a.at \in 1..Len(text)
  BY <1>1 DEF InsideNumber
<1>4. ptr \in a.at..(Len(text) + 1)
  BY <1>3 DEF NumberSpan
<1>5. ptr \in Nat /\ ptr >= a.at /\ ptr <= Len(text) + 1
  BY <1>1, <1>3, <1>4
<1> QED
  BY <1>1, <1>2, <1>5 DEF InsideNumber

(* The byte at the cursor belongs to the number or ends it.                *)
LEMMA NumberReads ==
  ASSUME NEW run, NEW a, a = Last(run), Numbering(run), NEW c, NEW S, text \in Seq(S), Reads(c)
  PROVE  /\ Extends(text, ended, text', ended') /\ Byte(c) /\ Len(text') \in Nat
         /\ a.at \in 1..Len(text') /\ text'[a.at] \in Digits \cup {"-"}
         /\ NumberSpan(text', a.at, ptr) /\ (ptr = a.at => text'[ptr] \in Digits)
<1>1. /\ Len(text) \in Nat /\ a.at \in 1..Len(text) /\ text[a.at] \in Digits \cup {"-"}
      /\ NumberSpan(text, a.at, ptr) /\ (ptr = a.at => text[ptr] \in Digits)
      /\ ptr \in Nat /\ ptr >= a.at /\ ptr <= Len(text) + 1
  BY NumberingIs
<1>2. Extends(text, ended, text', ended') /\ Byte(c)
  BY <1>1, ReadsText
<1>3. /\ Len(text') \in Nat /\ Len(text) <= Len(text')
      /\ \A i \in 1..Len(text) : text'[i] = text[i]
  BY <1>2 DEF Extends
<1>4. NumberSpan(text', a.at, ptr)
  <2>1. ptr \in a.at..(Len(text') + 1)
    BY <1>1, <1>3
  <2>2. ASSUME NEW j \in a.at..(ptr - 1)
        PROVE  text'[j] \in NumberTokens
    <3>1. j \in 1..Len(text)
      BY <1>1
    <3>2. text[j] \in NumberTokens
      BY <1>1 DEF NumberSpan
    <3> QED
      BY <3>1, <3>2, <1>3
  <2> QED
    BY <2>1, <2>2 DEF NumberSpan
<1>5. a.at \in 1..Len(text') /\ text'[a.at] = text[a.at]
  BY <1>1, <1>3
<1> QED
  BY <1>1, <1>2, <1>3, <1>4, <1>5

(* A byte more of the number: of the values only that of the number may    *)
(* change, and of it only what is a matter of numbers.                     *)
Renumbered(vs, vt, n) ==
    /\ Shapes(vt) /\ Len(vt) = Len(vs)
    /\ \A w \in 1..Len(vs) : w # n => vt[w] = vs[w]
    /\ vt[n].type \in Numeric /\ vt[n].parent = vs[n].parent
    /\ vt[n].length = vs[n].length /\ vt[n].bytes = vs[n].bytes
    /\ vt[n].kids = vs[n].kids /\ vt[n].names = vs[n].names

(* A number's type and value are changed, its place and counts are not.    *)
LEMMA RenumberedIs ==
  ASSUME NEW vs, NEW vt, NEW n \in 1..Len(vs), Shapes(vs), NEW type \in Numeric, NEW num \in Int,
         vt = With(vs, n, [vs[n] EXCEPT !.type = type, !.num = num])
  PROVE  Renumbered(vs, vt, n) /\ vt[n].type = type
<1> DEFINE r == [vs[n] EXCEPT !.type = type, !.num = num]
<1>1. vs[n] \in ValueRecord
  BY DEF Shapes
<1>2. type \in Types
  BY DEF Types, Numeric
<1>3. /\ r \in ValueRecord /\ r.type = type /\ r.parent = vs[n].parent
      /\ r.length = vs[n].length /\ r.bytes = vs[n].bytes
      /\ r.kids = vs[n].kids /\ r.names = vs[n].names
  BY <1>1, <1>2 DEF ValueRecord
<1>4. vt = With(vs, n, r)
  OBVIOUS
<1> HIDE DEF r
<1>5. /\ Shapes(vt) /\ Len(vt) = Len(vs)
      /\ vt[n] = r /\ \A w \in 1..Len(vs) : w # n => vt[w] = vs[w]
  BY <1>3, <1>4, OneChanged
<1> QED
  BY <1>3, <1>5 DEF Renumbered

(* What is known of the values while the number is read stays known.       *)
Numbered(vt, a) ==
    /\ Shapes(vt) /\ Len(vt) = a.n + 1 /\ Newest(vt, a, Numeric) /\ Matches(vt, a)
    /\ vt[a.n + 1].length = 0 /\ vt[a.n + 1].bytes = 0
    /\ \A w \in 1..a.n : vt[w] = values[w]
    /\ \A w \in 1..Len(vt) : vt[w].kids = <<>> /\ vt[w].names = <<>>
    /\ Alike(values, vt, a.n) /\ a.n <= Len(vt)

(* The values are as inside the same number.                               *)
LEMMA RenumberedKeeps ==
  ASSUME NEW run, NEW a, a = Last(run), Numbering(run), NEW vt, Renumbered(values, vt, a.n + 1)
  PROVE  Numbered(vt, a)
<1>1. /\ a.n \in Nat /\ Len(values) = a.n + 1 /\ Newest(values, a, Numeric) /\ Matches(values, a)
      /\ values[a.n + 1].length = 0 /\ values[a.n + 1].bytes = 0 /\ Chained
  BY NumberingIs
<1>2. Shapes(vt) /\ Len(vt) = a.n + 1 /\ \A w \in 1..a.n : vt[w] = values[w]
  BY <1>1 DEF Renumbered
<1>3. Newest(vt, a, Numeric) /\ vt[a.n + 1].length = 0 /\ vt[a.n + 1].bytes = 0
  BY <1>1 DEF Renumbered, Newest
<1>4. Matches(vt, a)
  BY <1>1, <1>2 DEF Matches
<1>5. \A w \in 1..Len(vt) : vt[w].kids = <<>> /\ vt[w].names = <<>>
  BY <1>1 DEF Renumbered, Chained
<1>6. Alike(values, vt, a.n) /\ a.n <= Len(vt)
  <2>1. \A w \in 1..a.n : vt[w].parent = values[w].parent /\ vt[w].type = values[w].type
    BY <1>2
  <2>2. Alike(values, vt, a.n)
    BY <2>1, <1>1, SameAlike
  <2> QED
    BY <2>2, <1>1, <1>2
<1> QED
  BY <1>2, <1>3, <1>4, <1>5, <1>6 DEF Numbered

(* The number goes on.                                                     *)
LEMMA NumberStays ==
  ASSUME NEW run, Numbering(run), NEW c \in NumberTokens, NEW S, text \in Seq(S), Reads(c),
         Renumbered(values, values', Last(run).n + 1),
         flags' \ NumberFlags = flags \ NumberFlags, ptr' = ptr + 1,
         UNCHANGED <<pass, top, root, alloc, string_length, heap, stage>>
  PROVE  Goes
<1>0. PICK a : a = Last(run)
  OBVIOUS
<1>1. /\ stage = "parsing" /\ pass = 1 /\ Len(text) \in Nat /\ Shapes(values) /\ Chained
      /\ Run(text, ended, values, run) /\ a.n \in Nat /\ Len(values) = a.n + 1
      /\ top = a.n + 1 /\ root = 1 /\ string_length = a.slen /\ Begins(a)
      /\ flags \ NumberFlags = a.fl \ {"seek_value"}
      /\ ptr \in Nat /\ ptr >= a.at /\ a.at \in 1..Len(text)
  BY <1>0, NumberingIs
<1>2. /\ Extends(text, ended, text', ended') /\ Byte(c) /\ Len(text') \in Nat
      /\ a.at \in 1..Len(text') /\ text'[a.at] \in Digits \cup {"-"} /\ NumberSpan(text', a.at, ptr)
  BY <1>0, NumberReads
<1>3. /\ Shapes(values') /\ Len(values') = a.n + 1 /\ Newest(values', a, Numeric) /\ Matches(values', a)
      /\ values'[a.n + 1].length = 0 /\ values'[a.n + 1].bytes = 0
      /\ \A w \in 1..Len(values') : values'[w].kids = <<>> /\ values'[w].names = <<>>
      /\ Alike(values, values', a.n) /\ a.n <= Len(values')
  BY <1>0, RenumberedKeeps DEF Numbered
<1>4. ptr \in 1..Len(text') /\ text'[ptr] = c
  BY <1>2 DEF Byte, NumberTokens, Digits, End
<1>5. NumberSpan(text', a.at, ptr')
  <2>1. ptr' \in a.at..(Len(text') + 1)
    BY <1>1, <1>2, <1>4
  <2>2. ASSUME NEW j \in a.at..(ptr' - 1)
        PROVE  text'[j] \in NumberTokens
    <3>1. j = ptr \/ j \in a.at..(ptr - 1)
      BY <1>1
    <3> QED
      BY <3>1, <1>2, <1>4 DEF NumberSpan
  <2> QED
    BY <2>1, <2>2 DEF NumberSpan
<1>6. ptr' # a.at
  BY <1>1
<1>7. InsideNumber(a)'
  BY <1>1, <1>2, <1>3, <1>5, <1>6 DEF InsideNumber
<1>8. Chained'
  BY <1>1, <1>3 DEF Chained
<1> QED
  BY <1>0, <1>1, <1>2, <1>3, <1>7, <1>8, StayFirst

(* The value of a number changes, or nothing does.                         *)
LEMMA RenumberedNum ==
  ASSUME NEW vs, NEW n \in 1..Len(vs), Shapes(vs), vs[n].type \in Numeric
  PROVE  /\ Renumbered(vs, vs, n)
         /\ \A num \in Int : Renumbered(vs, With(vs, n, [vs[n] EXCEPT !.num = num]), n)
         /\ vs[n].num \in Int
<1>1. vs[n] \in ValueRecord
  BY DEF Shapes
<1>2. vs[n].num \in Int
  BY <1>1 DEF ValueRecord
<1>3. Renumbered(vs, vs, n)
  BY DEF Renumbered
<1>4. ASSUME NEW num \in Int
      PROVE  Renumbered(vs, With(vs, n, [vs[n] EXCEPT !.num = num]), n)
  <2> DEFINE type == vs[n].type
  <2>1. [vs[n] EXCEPT !.num = num] = [vs[n] EXCEPT !.type = type, !.num = num]
    BY <1>1 DEF ValueRecord
  <2>2. type \in Numeric
    OBVIOUS
  <2> HIDE DEF type
  <2> DEFINE vt == With(vs, n, [vs[n] EXCEPT !.type = type, !.num = num])
  <2>3. Renumbered(vs, vt, n)
    BY <2>2, RenumberedIs
  <2> QED
    BY <2>1, <2>3
<1> QED
  BY <1>2, <1>3, <1>4

(* A digit of the number.                                                  *)
LEMMA NumberDigitStep ==
  ASSUME NEW run, Numbering(run), NEW S, text \in Seq(S), NEW d \in Digits, NumberDigit(d)
  PROVE  Goes \/ Rejects
<1>0. PICK a : a = Last(run)
  OBVIOUS
<1>1. /\ pass = 1 /\ a.n \in Nat /\ Len(values) = a.n + 1 /\ top = a.n + 1 /\ Shapes(values)
      /\ values[top].type \in Numeric
  BY <1>0, NumberingIs DEF Newest
<1>2. Reads(d) /\ d \in NumberTokens
  BY DEF NumberDigit, NumberTokens
<1>3. CASE Fail("syntax")
  BY <1>1, <1>3 DEF Rejects
<1>4. CASE ~(IsInteger /\ ~Exponent /\ "num_zero" \in flags)
  <2> DEFINE num == 10 * values[top].num + (IF d = "1" THEN 1 ELSE 0)
             n == a.n + 1
  <2>1. /\ flags' = flags \cup (IF Exponent THEN {"num_e_got_sign"}
                                ELSE IF IsInteger /\ num_digits = 0 /\ d = "0" THEN {"num_zero"} ELSE {})
        /\ values' = values \/ values' = [values EXCEPT ![top].num = num]
        /\ ptr' = ptr + 1
        /\ UNCHANGED <<pass, top, root, alloc, string_length, heap, stage>>
    BY <1>4 DEF NumberDigit
  <2>2. flags' \ NumberFlags = flags \ NumberFlags
    BY <2>1 DEF NumberFlags
  <2>3. n \in 1..Len(values) /\ n = top
    BY <1>1
  <2>4. /\ Renumbered(values, values, n) /\ values[n].num \in Int
        /\ \A x \in Int : Renumbered(values, With(values, n, [values[n] EXCEPT !.num = x]), n)
    BY <2>3, <1>1, RenumberedNum
  <2>5. num \in Int
    BY <2>3, <2>4
  <2> HIDE DEF num
  <2>6. [values EXCEPT ![top].num = num] = With(values, n, [values[n] EXCEPT !.num = num])
    BY <2>3 DEF With
  <2>7. Renumbered(values, values', n)
    BY <2>1, <2>4, <2>5, <2>6
  <2> QED
    BY <2>1, <2>2, <2>7, <1>0, <1>2, NumberStays
<1> QED
  BY <1>3, <1>4 DEF NumberDigit

(* The sign of an exponent.                                                *)
LEMMA NumberSignStep ==
  ASSUME NEW run, Numbering(run), NEW S, text \in Seq(S), NumberSign
  PROVE  Goes
<1>0. PICK a : a = Last(run)
  OBVIOUS
<1>1. /\ pass = 1 /\ a.n \in Nat /\ Len(values) = a.n + 1 /\ top = a.n + 1 /\ Shapes(values)
      /\ values[top].type \in Numeric
  BY <1>0, NumberingIs DEF Newest
<1>2. PICK c \in {"+", "-"} : Reads(c) /\ Continue(flags \cup {"num_e_got_sign"})
  BY DEF NumberSign
<1>3. c \in NumberTokens
  BY DEF NumberTokens
<1>4. Renumbered(values, values', a.n + 1)
  <2> DEFINE n == a.n + 1
  <2>1. n \in 1..Len(values) /\ n = top
    BY <1>1
  <2>2. Renumbered(values, values, n)
    BY <2>1, <1>1, RenumberedNum
  <2>3. values' = values
    BY <1>2 DEF Continue
  <2> QED
    BY <2>2, <2>3
<1>5. flags' \ NumberFlags = flags \ NumberFlags
  BY <1>2 DEF Continue, NumberFlags
<1>6. ptr' = ptr + 1 /\ UNCHANGED <<pass, top, root, alloc, string_length, heap, stage>>
  BY <1>2 DEF Continue
<1> QED
  BY <1>0, <1>2, <1>3, <1>4, <1>5, <1>6, NumberStays

(* The point or the e.                                                     *)
LEMMA NumberPointStep ==
  ASSUME NEW run, Numbering(run), NEW S, text \in Seq(S), NEW c, NumberPoint(c)
  PROVE  Goes \/ Rejects
<1>0. PICK a : a = Last(run)
  OBVIOUS
<1>1. /\ pass = 1 /\ a.n \in Nat /\ Len(values) = a.n + 1 /\ top = a.n + 1 /\ Shapes(values)
      /\ values[top].type \in Numeric
  BY <1>0, NumberingIs DEF Newest
<1>2. Reads(c) /\ c \in NumberTokens
  BY DEF NumberPoint, NumberTokens
<1>3. CASE Fail("syntax")
  BY <1>1, <1>3 DEF Rejects
<1>4. CASE ~(num_digits = 0 /\ (c = "." \/ ~IsInteger))
  <2> DEFINE n == a.n + 1
  <2>1. /\ values' = [values EXCEPT ![top].type = "double", ![top].num = 0]
        /\ flags' = (IF c = "e" THEN (flags \cup {"num_e"}) \ {"num_zero"} ELSE flags)
        /\ ptr' = ptr + 1
        /\ UNCHANGED <<pass, top, root, alloc, string_length, heap, stage>>
    BY <1>4 DEF NumberPoint
  <2>2. flags' \ NumberFlags = flags \ NumberFlags
    BY <2>1 DEF NumberFlags
  <2>3. n \in 1..Len(values) /\ n = top
    BY <1>1
  <2>4. values' = With(values, n, [values[n] EXCEPT !.type = "double", !.num = 0])
    <3>1. values \in Seq(ValueRecord)
      BY <1>1 DEF Shapes
    <3> HIDE DEF ValueRecord
    <3>2. [[values EXCEPT ![top].type = "double"] EXCEPT ![top].num = 0] =
          [values EXCEPT ![top] = [values[top] EXCEPT !.type = "double", !.num = 0]]
      BY <2>3, <3>1
    <3> QED
      BY <2>1, <2>3, <3>2 DEF With
  <2>5. "double" \in Numeric /\ 0 \in Int
    BY DEF Numeric
  <2>6. Renumbered(values, values', n)
    BY <2>3, <2>4, <2>5, <1>1, RenumberedIs
  <2> QED
    BY <2>1, <2>2, <2>6, <1>0, <1>2, NumberStays
<1> QED
  BY <1>3, <1>4 DEF NumberPoint

(* A turn of the first pass to a point where it counts adds that point to  *)
(* the run.                                                                *)
LEMMA GrowsFirst ==
  ASSUME NEW run, NEW b, Run(text, ended, values, run), Shapes(values), Extends(text, ended, text', ended'),
         Shapes(values'), Alike(values, values', Last(run).n), Last(run).n <= Len(values'),
         b.n <= Len(values'), Turn(text', ended', values', Last(run), b),
         pass' = 1, stage' = "parsing", Chained', Counting(b)'
  PROVE  Goes
<1>1. Len(values') \in Nat /\ Len(text') \in Nat
  BY ShapesIs DEF Extends
<1>2. Run(text', ended', values', run)
  BY <1>1, RunCarries
<1>3. Run(text', ended', values', Append(run, b)) /\ Last(Append(run, b)) = b
  BY <1>1, <1>2, RunGrows
<1>4. FirstPass(Append(run, b))'
  BY <1>3 DEF FirstPass
<1> QED
  BY <1>3, <1>4 DEF Goes, Reading

(* The value of the number as its end leaves it, at the point as it would  *)
(* be without that.                                                        *)
Ending(mid, m, a, z) ==
    /\ Finishable(mid, m, z) /\ m.top = a.n + 1 /\ m.n = a.n + 1 /\ m.slen = a.slen
    /\ m.len = a.len /\ m.byt = a.byt /\ m.open \ {a.n + 1} = a.open \ {a.n + 1}
    /\ a.top \in 0..a.n

(* The number can be finished: its parent is the top of the point it began *)
(* at.                                                                     *)
LEMMA NumberFinishable ==
  ASSUME NEW run, NEW a, a = Last(run), Numbering(run), NEW mid, Renumbered(values, mid, a.n + 1),
         NEW fl, fl = a.fl \ {"seek_value"}, NEW m, m = Begun(a, a.at, fl, a.slen), NEW z
  PROVE  Ending(mid, m, a, z)
<1>1. /\ pass = 1 /\ Len(text) \in Nat /\ Shapes(values) /\ Sound(Len(text), values, a)
      /\ a.n \in Nat /\ Len(values) = a.n + 1 /\ Begins(a)
  BY NumberingIs
<1>2. /\ Shapes(mid) /\ Len(mid) = a.n + 1 /\ Newest(mid, a, Numeric) /\ Matches(mid, a)
      /\ mid[a.n + 1].length = 0 /\ mid[a.n + 1].bytes = 0
      /\ \A w \in 1..a.n : mid[w] = values[w]
  BY RenumberedKeeps DEF Numbered
<1>3. Matches(values, a)
  BY NumberingIs
<1>4. Matches(mid, m)
  BY <1>1, <1>2, <1>3, MatchesBegun
<1>5. /\ m.top = a.n + 1 /\ m.n = a.n + 1 /\ m.slen = a.slen /\ m.len = a.len
      /\ m.open = a.open \cup {a.n + 1} /\ m.byt = a.byt /\ m.fl = fl
  BY DEF Begun
<1>6. a.top \in 0..a.n /\ Counts(a.len) /\ (a.top # 0 => a.top \in a.open)
  <2>1. "done" \notin a.fl
    BY <1>1 DEF Begins, Seeks
  <2> QED
    BY <2>1, <1>1, SoundIs, SoundCounts, OpenTop
<1>7. Finishing(mid, m)
  <2>1. mid[a.n + 1].parent = a.top
    BY <1>2 DEF Newest
  <2>2. "seek_value" \notin m.fl
    BY <1>5
  <2>3. m.n \in Nat /\ m.n <= Len(mid) /\ m.top \in 1..m.n /\ m.top \in m.open
    <3>1. m.n \in Nat /\ m.n <= Len(mid)
      BY <1>1, <1>2, <1>5
    <3>2. m.top = m.n /\ m.n >= 1
      BY <1>1, <1>5
    <3>3. m.top \in 1..m.n
      BY <3>1, <3>2
    <3>4. m.top \in m.open
      BY <1>5
    <3> QED
      BY <3>1, <3>3, <3>4
  <2>4. Counts(m.len)
    BY <1>5, <1>6
  <2>5. mid[m.top].parent # 0 => mid[m.top].parent \in m.open
    BY <2>1, <1>5, <1>6
  <2> QED
    BY <2>2, <2>3, <2>4, <2>5 DEF Finishing
<1>8. m.open \ {a.n + 1} = a.open \ {a.n + 1}
  BY <1>5
<1> QED
  <2>1. Finishable(mid, m, z)
    BY <1>1, <1>2, <1>4, <1>7 DEF Finishable
  <2> QED
    BY <2>1, <1>5, <1>6, <1>8 DEF Ending

(* A number ends: the byte after it is read again, or it is one that makes *)
(* the next turn fail.                                                     *)
LEMMA NumberFinished ==
  ASSUME NEW run, Numbering(run), NEW S, text \in Seq(S), NEW c, Reads(c), c \notin Digits,
         NEW mid, Renumbered(values, mid, Last(run).n + 1), FinishValue(mid, top, flags, ptr),
         UNCHANGED <<root, alloc, string_length, heap>>
  PROVE  Goes
<1>0. PICK a : a = Last(run)
  OBVIOUS
<1>00. PICK fl : fl = a.fl \ {"seek_value"}
  OBVIOUS
<1>01. PICK m : m = Begun(a, a.at, fl, a.slen)
  OBVIOUS
<1> DEFINE n == a.n + 1
<1>1. /\ stage = "parsing" /\ pass = 1 /\ Len(text) \in Nat /\ Shapes(values) /\ Chained
      /\ Run(text, ended, values, run) /\ a \in Point /\ Sound(Len(text), values, a) /\ a.n \in Nat
      /\ Len(values) = n /\ top = n /\ root = 1 /\ string_length = a.slen /\ Begins(a)
      /\ flags \ NumberFlags = fl
      /\ ptr \in Nat /\ ptr >= a.at /\ ptr <= Len(text) + 1 /\ a.at \in 1..Len(text)
  BY <1>0, <1>00, NumberingIs
<1>2. /\ Extends(text, ended, text', ended') /\ Byte(c) /\ Len(text') \in Nat
      /\ a.at \in 1..Len(text') /\ text'[a.at] \in Digits \cup {"-"}
      /\ NumberSpan(text', a.at, ptr) /\ (ptr = a.at => text'[ptr] \in Digits)
  BY <1>0, NumberReads
<1>3. /\ Shapes(mid) /\ Len(mid) = n /\ Newest(mid, a, Numeric)
      /\ \A w \in 1..a.n : mid[w] = values[w]
      /\ \A w \in 1..Len(mid) : mid[w].kids = <<>> /\ mid[w].names = <<>>
      /\ Alike(values, mid, a.n) /\ a.n <= Len(mid)
  <2>1. Numbered(mid, a)
    BY <1>0, RenumberedKeeps
  <2> QED
    BY <2>1 DEF Numbered
<1>4. /\ Finishable(mid, m, 0) /\ m.top = n /\ m.n = n /\ m.slen = a.slen
      /\ m.len = a.len /\ m.byt = a.byt /\ m.open \ {n} = a.open \ {n} /\ a.top \in 0..a.n
  <2>1. Ending(mid, m, a, 0)
    BY <1>0, <1>00, <1>01, NumberFinishable
  <2> QED
    BY <2>1 DEF Ending
<1>5. Settled(flags, fl)
  BY <1>00, <1>1 DEF Settled, Bare
<1>6. PICK b : b = Finished(mid, m, m.top, m.n, m.byt, ptr, fl)
  OBVIOUS
<1>7. FinishValue(mid, m.top, flags, ptr)
  BY <1>1, <1>4
<1>8. /\ ptr' = ptr /\ Bare(flags', b.fl) /\ Shapes(values') /\ Len(values') = Len(mid) /\ Matches(values', b)
      /\ \A w \in 1..Len(mid) :
              /\ values'[w].type = mid[w].type /\ values'[w].parent = mid[w].parent
              /\ values'[w].names = mid[w].names /\ (pass = 1 => values'[w].kids = mid[w].kids)
      /\ UNCHANGED <<pass, stage>>
  BY <1>4, <1>5, <1>6, <1>7, FinishStep
<1>9. Atop(top', b)
  BY <1>4, <1>5, <1>6, <1>7, FinishStep
<1>10. b.at = ptr /\ b.slen = a.slen /\ b.n = n
  BY <1>4, <1>6 DEF Finished
<1>11. n \in 1..Len(mid) /\ Len(mid) \in Nat
  BY <1>1, <1>3
<1>12. Chained'
  <2>1. \A w \in 1..Len(values') : values'[w].kids = <<>> /\ values'[w].names = <<>>
    BY <1>1, <1>3, <1>8
  <2>2. heap' = {Block(v) : v \in 1..Len(values')} /\ alloc' = Len(values')
    BY <1>1, <1>3, <1>8 DEF Chained
  <2> QED
    BY <2>1, <2>2 DEF Chained
<1>13. Alike(values, values', a.n) /\ a.n <= Len(values')
  <2>1. ASSUME NEW w \in 1..a.n
        PROVE  values'[w].parent = values[w].parent /\ values'[w].type = values[w].type
    <3>1. w \in 1..Len(mid) /\ mid[w] = values[w]
      BY <1>1, <1>3
    <3> QED
      BY <3>1, <1>8
  <2>2. Alike(values, values', a.n)
    BY <2>1, <1>1, SameAlike
  <2> QED
    BY <2>2, <1>3, <1>8
<1>14. CASE c \notin NumberTokens
  <2>1. ptr > a.at
    <3> SUFFICES ASSUME ptr = a.at PROVE FALSE
      BY <1>1
    <3>1. text'[ptr] \in Digits /\ ptr \in 1..Len(text')
      BY <1>2
    <3> QED
      BY <3>1, <1>2 DEF Byte, Digits, End
  <2>2. NumberStops(text', ended', ptr)
    BY <1>1, <1>2, <1>14 DEF NumberStops, Byte
  <2>3. Newest(values', a, Numeric)
    BY <1>3, <1>8, <1>11 DEF Newest
  <2>4. Finished(values', a, n, n, a.byt, ptr, fl) = b
    <3>1. mid[n].parent = a.top
      BY <1>3 DEF Newest
    <3>2. values'[n].parent = mid[n].parent
      BY <1>8, <1>11
    <3>3. mid[n].parent # 0 => values'[mid[n].parent].type = mid[mid[n].parent].type
      BY <3>1, <1>1, <1>4, <1>8, <1>11
    <3>4. Finished(values', a, n, n, a.byt, ptr, fl) = Finished(mid, m, n, n, a.byt, ptr, fl)
      BY <3>2, <3>3, <1>4, FinishedSame
    <3> QED
      BY <3>4, <1>4, <1>6
  <2>5. NumberTurn(text', ended', values', a, b)
    BY <2>1, <2>2, <2>3, <2>4, <1>00, <1>1, <1>2 DEF NumberTurn
  <2>6. Turn(text', ended', values', a, b)
    BY <2>5, <1>2 DEF Turn
  <2>7. At(b)'
    <3>1. b.n # 0
      BY <1>1, <1>10
    <3>2. top' = b.top
      BY <1>9 DEF Atop
    <3>3. flags' \ NumberFlags = b.fl
      BY <1>8 DEF Bare
    <3>4. ptr' = b.at /\ string_length' = b.slen /\ root' = 1
      BY <1>1, <1>8, <1>10
    <3>5. Matches(values', b)
      BY <1>8
    <3> QED
      BY <3>1, <3>2, <3>3, <3>4, <3>5 DEF At
  <2>8. Counting(b)'
    BY <2>7, <1>3, <1>8, <1>10 DEF Counting
  <2>9. b.n <= Len(values')
    BY <1>1, <1>3, <1>8, <1>10
  <2> QED
    BY <2>6, <2>8, <2>9, <1>0, <1>1, <1>2, <1>8, <1>12, <1>13, GrowsFirst
<1>15. CASE c \in NumberTokens
  <2>1. c \in {"+", "-", ".", "e"}
    BY <1>15 DEF NumberTokens
  <2>2. ptr \in 1..Len(text') /\ text'[ptr] = c
    BY <2>1, <1>2 DEF Byte, End
  <2>3. b.fl = FinishedFlags(mid, n, fl) /\ b.top = IF mid[n].parent = 0 THEN n ELSE mid[n].parent
    BY <1>4, <1>6 DEF Finished
  <2>4. mid[n].parent = a.top
    BY <1>3 DEF Newest
  <2>5. "need_comma" \in b.fl /\ "string" \notin b.fl
    BY <2>3, <1>00, <1>1 DEF FinishedFlags, Begins, Seeks
  <2>6. "need_comma" \in flags' /\ "string" \notin flags'
    BY <2>5, <1>8 DEF Bare, NumberFlags
  <2>7. flags' \subseteq ParserFlags \cup NumberFlags
    <3>1. a.fl \in SUBSET ParserFlags
      BY <1>1, PointIs
    <3>2. b.fl \subseteq ParserFlags
      BY <3>1, <2>3, <1>00 DEF FinishedFlags, ParserFlags
    <3> QED
      BY <3>2, <1>8 DEF Bare
  <2>8. "done" \in flags' \/ (top' # 0 /\ values'[top'].type \in Containers)
    <3>1. CASE a.top = 0
      <4>1. "done" \in b.fl
        BY <3>1, <2>3, <2>4 DEF FinishedFlags
      <4> QED
        BY <4>1, <1>8 DEF Bare
    <3>2. CASE a.top # 0
      <4>1. Mode(values, a)
        BY <1>1, SoundIs
      <4>2. values[a.top].type \in Containers
        BY <4>1, <3>2, <1>1 DEF Mode, Begins, Seeks
      <4>3. a.top \in 1..a.n /\ a.top \in 1..Len(mid)
        BY <3>2, <1>1, <1>3, <1>4
      <4>4. values'[a.top].type = values[a.top].type
        BY <4>3, <1>3, <1>8
      <4>5. top' = a.top
        BY <3>2, <2>3, <2>4, <1>9 DEF Atop
      <4> QED
        BY <3>2, <4>2, <4>4, <4>5
    <3> QED
      BY <3>1, <3>2
  <2>9. top' \in 0..Len(values')
    <3>1. b.top \in 0..n
      BY <2>3, <2>4, <1>1, <1>4
    <3> QED
      BY <3>1, <1>1, <1>3, <1>8, <1>9 DEF Atop
  <2>10. values' # <<>>
    <3>1. Len(values') # 0
      BY <1>1, <1>3, <1>8
    <3> QED
      BY <3>1
  <2>11. string_length' \in Nat
    BY <1>1, PointIs
  <2>12. root' = 1 /\ ptr' = ptr
    BY <1>1, <1>8
  <2>13. Doomed'
    BY <2>1, <2>2, <2>6, <2>7, <2>8, <2>9, <2>10, <2>11, <2>12 DEF Doomed
  <2> QED
    BY <2>13, <1>0, <1>1, <1>2, <1>8, <1>12, <1>13, StayFirst
<1> QED
  BY <1>14, <1>15

(* The byte after a number ends it and is read again: the run reaches the  *)
(* next point, unless that byte is one of a number's own tokens, which the *)
(* next turn rejects.                                                      *)
LEMMA NumberEndStep ==
  ASSUME NEW run, Numbering(run), NEW S, text \in Seq(S), NEW c, NumberEnd(c)
  PROVE  Goes \/ Rejects
<1>0. PICK a : a = Last(run)
  OBVIOUS
<1>1. /\ pass = 1 /\ a.n \in Nat /\ Len(values) = a.n + 1 /\ top = a.n + 1 /\ Shapes(values)
      /\ values[top].type \in Numeric
  BY <1>0, NumberingIs DEF Newest
<1>2. Reads(c) /\ c \notin Digits
  BY DEF NumberEnd
<1>3. CASE Fail("syntax")
  BY <1>1, <1>3 DEF Rejects
<1>4. CASE ~(num_digits = 0 /\ ~IsInteger)
  <2> DEFINE num == IF "num_negative" \in flags THEN -values[top].num ELSE values[top].num
             n == a.n + 1
             mid == With(values, n, [values[n] EXCEPT !.num = num])
  <2>1. n \in 1..Len(values) /\ n = top
    BY <1>1
  <2>2. /\ values[n].num \in Int
        /\ \A x \in Int : Renumbered(values, With(values, n, [values[n] EXCEPT !.num = x]), n)
    BY <2>1, <1>1, RenumberedNum
  <2>3. num \in Int
    BY <2>1, <2>2
  <2>4. /\ FinishValue([values EXCEPT ![top].num = num], top, flags, ptr)
        /\ UNCHANGED <<root, alloc, string_length, heap>>
    BY <1>4 DEF NumberEnd
  <2> HIDE DEF num
  <2>5. [values EXCEPT ![top].num = num] = mid
    BY <2>1 DEF With
  <2>6. Renumbered(values, mid, n)
    BY <2>2, <2>3
  <2> HIDE DEF mid
  <2>7. FinishValue(mid, top, flags, ptr)
    BY <2>4, <2>5
  <2> QED
    BY <2>4, <2>6, <2>7, <1>0, <1>2, NumberFinished
<1> QED
  BY <1>3, <1>4 DEF NumberEnd

-----------------------------------------------------------------------------
(* Every turn                                                              *)

(* The parser is done, with all of the text read twice.                    *)
Returns == pass = 0 /\ Shapes(values') /\ Reading' /\ stage' = "parsed"

(* The first pass ends: the second stands at the start of its run.         *)
LEMMA FirstEnds ==
  ASSUME NEW run, NEW k, NEW S, Ready(run, k), text \in Seq(S), PassEnds, pass = 1
  PROVE  Goes
<1>0. PICK a : a = run[k]
  OBVIOUS
<1>1. /\ k \in 1..Len(run) /\ Len(run) \in Nat /\ Sound(Len(text), values, a) /\ At(a)
      /\ a.n \in Nat /\ Len(values) \in Nat /\ ptr = a.at /\ Len(text) \in Nat
      /\ Shapes(values) /\ stage = "parsing" /\ a = Last(run) /\ Chained /\ Len(values) = a.n
  BY <1>0, ReadyIs
<1>2. "done" \in a.fl
  BY <1>1, FlagIs DEF PassEnds
<1>3. Mode(values, a)
  BY <1>1, SoundIs
<1>4. a.n # 0
  BY <1>2, <1>3 DEF Mode
<1>5. ReadOn /\ Byte(End)
  BY ReadyReads DEF PassEnds
<1>6. Extends(text, ended, text', ended') /\ Len(text') \in Nat
  BY <1>5 DEF ReadOn, Extends
<1>7. /\ pass' = 0 /\ alloc' = root /\ top' = 0 /\ root' = 0 /\ flags' = {"seek_value"}
      /\ string_length' = 0 /\ ptr' = 1 /\ stage' = stage /\ values' = values /\ heap' = heap
  BY DEF PassEnds
<1>8. Run(text, ended, values, run)
  BY DEF Ready
<1>9. Run(text', ended', values', run)
  <2>1. Alike(values, values', a.n)
    BY <1>7 DEF Alike
  <2> QED
    BY <2>1, <1>1, <1>6, <1>7, <1>8, RunCarries
<1>10. run[1] = Start /\ 1 \in 1..Len(run)
  BY <1>1, <1>8, RunIs
<1>11. Start.at = 1 /\ Start.fl = {"seek_value"} /\ Start.top = 0 /\ Start.slen = 0 /\ Start.n = 0
  BY DEF Start
<1>12. At(Start)'
  <2>1. flags' \ NumberFlags = Start.fl
    BY <1>7, <1>11 DEF NumberFlags
  <2>2. Matches(values', Start)
    BY <1>11 DEF Matches
  <2> QED
    BY <2>1, <2>2, <1>7, <1>11 DEF At
<1>13. root = 1
  BY <1>1, <1>4 DEF At
<1>14. \A v \in 1..Len(values) : Block(v) \in heap /\ DataBlock(v) \notin heap
  BY <1>1 DEF Chained, Block, DataBlock
<1>15. heap \subseteq UNION {{Block(v), DataBlock(v)} : v \in 1..Len(values)}
  BY <1>1 DEF Chained
<1>16. Filled(values, a, Start)
  <2>1. Matches(values, a)
    BY <1>1 DEF At
  <2> SUFFICES ASSUME NEW v \in 1..Len(values)
               PROVE  /\ v > Start.n /\ values[v].length = a.len[v] /\ values[v].bytes = a.byt[v]
                      /\ values[v].kids = <<>> /\ values[v].names = <<>>
    BY DEF Filled
  <2>2. v > Start.n
    BY <1>1, <1>11
  <2>3. values[v].kids = <<>> /\ values[v].names = <<>>
    BY <1>1 DEF Chained
  <2> QED
    BY <2>1, <2>2, <2>3, <1>1 DEF Matches
<1>17. Linked(values, Start)
  BY <1>11 DEF Linked
<1>18. Filling(a, Start)'
  BY <1>1, <1>4, <1>7, <1>11, <1>12, <1>13, <1>14, <1>15, <1>16, <1>17 DEF Filling
<1>19. Whole(a)'
  BY <1>1, <1>2, <1>5, <1>7 DEF Whole, Byte
<1>20. SecondPass(run)'
  BY <1>1, <1>7, <1>10, <1>18, <1>19 DEF SecondPass, Last
<1>21. Reading'
  BY <1>7, <1>9, <1>20 DEF Reading
<1> QED
  BY <1>1, <1>7, <1>21 DEF Goes

(* The second pass ends where the first did.                               *)
LEMMA SecondEnds ==
  ASSUME NEW run, NEW k, NEW S, Ready(run, k), text \in Seq(S), PassEnds, pass = 0
  PROVE  Returns
<1>0. PICK a : a = run[k]
  OBVIOUS
<1>1. /\ k \in 1..Len(run) /\ Len(run) \in Nat /\ At(a)
      /\ ptr = a.at /\ Len(text) \in Nat /\ Shapes(values)
      /\ Whole(Last(run)) /\ Filling(Last(run), a)
  BY <1>0, ReadyIs
<1>2. "done" \in a.fl /\ ~InString(a) /\ Reads(End)
  BY <1>1, FlagIs DEF PassEnds, InString
<1>3. ReadOn /\ Byte(End)
  BY <1>2, ReadyReads
<1>4. text' = text /\ ended' = ended
  BY <1>3 DEF ReadOn
<1>5. k = Len(run)
  <2> SUFFICES ASSUME k # Len(run) PROVE FALSE
    OBVIOUS
  <2>1. Turn(text, ended, values, a, run[k + 1]) /\ a.at \in 1..Len(text)
    BY <1>0, NextPoint
  <2>2. text[a.at] = "sp"
    BY <2>1, <1>2, TurnDone
  <2> QED
    BY <2>1, <2>2, <1>1, <1>3, <1>4 DEF Byte, End
<1>6. /\ stage' = "parsed" /\ values' = values /\ heap' = heap
      /\ UNCHANGED <<pass, ptr, flags, top, root, alloc, string_length>>
  BY DEF PassEnds, cursor
<1>7. Run(text', ended', values', run)
  BY <1>4, <1>6 DEF Ready
<1>8. At(a)'
  BY <1>1, <1>6 DEF At
<1>9. Filling(Last(run), a)'
  BY <1>1, <1>6, <1>8 DEF Filling
<1>10. Whole(Last(run))'
  BY <1>1, <1>4, <1>6 DEF Whole
<1>11. SecondPass(run)'
  BY <1>0, <1>1, <1>5, <1>9, <1>10 DEF SecondPass
<1>12. Reading'
  BY <1>6, <1>7, <1>11 DEF Reading
<1> QED
  BY <1>1, <1>6, <1>12 DEF Returns

(* From a point of the run.                                                *)
LEMMA ReadyStep ==
  ASSUME NEW run, NEW k, NEW S, Ready(run, k), text \in Seq(S), Parse
  PROVE  Goes \/ Rejects \/ AllocationFails \/ Returns
<1>1. ~InNumber
  <2>1. Sound(Len(text), values, run[k]) /\ At(run[k]) /\ Len(text) \in Nat
    BY ReadyIs
  <2>2. Mode(values, run[k])
    BY <2>1, SoundIs
  <2> SUFFICES ASSUME InNumber PROVE FALSE
    OBVIOUS
  <2>3. /\ "string" \notin run[k].fl /\ "done" \notin run[k].fl
        /\ run[k].top # 0 /\ values[run[k].top].type \in {"integer", "double"}
    BY <2>1, FlagIs DEF InNumber
  <2> QED
    BY <2>2, <2>3 DEF Mode, Containers
<1>2. ASSUME NEW c, StringByte(c) \/ SeekSeparator(c) \/ SeekOther(c) \/ ObjectByte(c) \/ Trailer(c)
      PROVE  Goes \/ Rejects
  BY <1>2, StringByteStep, SeekSeparatorStep, SeekOtherStep, ObjectByteStep, TrailerStep
<1>3. ASSUME NEW c PROVE ~NumberPoint(c) /\ ~NumberEnd(c) /\ ~NumberDigit(c) /\ ~NumberSign
  BY <1>1 DEF NumberPoint, NumberEnd, NumberDigit, NumberSign
<1>4. CASE StringEnd \/ KeyEnd \/ SeekSpace \/ ArrayEnd \/ KeyBegin \/ ObjectEnd
  BY <1>4, StringEndStep, KeyEndStep, SeekSpaceStep, ArrayEndStep, KeyBeginStep, ObjectEndStep
<1>5. CASE SeekContainer \/ SeekString \/ SeekWord \/ SeekNumber
  BY <1>5, SeekContainerStep, SeekStringStep, SeekWordStep, SeekNumberStep
<1>6. CASE PassEnds
  <2>1. pass \in {0, 1}
    BY ReadyIs
  <2> QED
    BY <2>1, <1>6, FirstEnds, SecondEnds
<1> QED
  BY <1>2, <1>3, <1>4, <1>5, <1>6 DEF Parse

(* From inside a number.                                                   *)
LEMMA NumberingStep ==
  ASSUME NEW run, NEW S, Numbering(run), text \in Seq(S), Parse
  PROVE  Goes \/ Rejects
<1>0. PICK a : a = Last(run)
  OBVIOUS
<1>1. /\ a.n \in Nat /\ Len(values) = a.n + 1 /\ top = a.n + 1
      /\ values[top].type \in {"integer", "double"} /\ Begins(a) /\ flags \ NumberFlags = a.fl \ {"seek_value"}
  BY <1>0, NumberingIs DEF Newest, Numeric
<1>2. "string" \notin flags /\ "done" \notin flags /\ "seek_value" \notin flags
  BY <1>1 DEF Begins, Seeks, NumberFlags
<1>3. ~Seeking /\ ~InObject
  BY <1>1, <1>2 DEF Seeking, InObject
<1>4. ASSUME NEW c
      PROVE  /\ ~StringByte(c) /\ ~SeekSeparator(c) /\ ~SeekOther(c) /\ ~ObjectByte(c) /\ ~Trailer(c)
             /\ ~BeginsValue(c)
  BY <1>2, <1>3 DEF StringByte, SeekSeparator, SeekOther, ObjectByte, Trailer, BeginsValue
<1>5. ~StringEnd /\ ~KeyEnd /\ ~SeekSpace /\ ~ArrayEnd /\ ~KeyBegin /\ ~ObjectEnd /\ ~PassEnds
  BY <1>2, <1>3 DEF StringEnd, KeyEnd, SeekSpace, ArrayEnd, KeyBegin, ObjectEnd, PassEnds
<1>6. ~SeekContainer /\ ~SeekString /\ ~SeekWord /\ ~SeekNumber
  BY <1>4 DEF SeekContainer, SeekString, SeekWord, SeekNumber
<1>7. ASSUME NEW c, NumberPoint(c) \/ NumberEnd(c) PROVE Goes \/ Rejects
  BY <1>7, NumberPointStep, NumberEndStep
<1>8. ASSUME NEW d \in Digits, NumberDigit(d) PROVE Goes \/ Rejects
  BY <1>8, NumberDigitStep
<1>9. CASE NumberSign
  BY <1>9, NumberSignStep
<1> QED
  BY <1>4, <1>5, <1>6, <1>7, <1>8, <1>9 DEF Parse

(* After a number that is followed by one of its own tokens.               *)
LEMMA DoomedStep ==
  ASSUME Doomed, pass = 1, Len(text) \in Nat, Parse
  PROVE  Rejects
<1>1. /\ "need_comma" \in flags /\ "string" \notin flags
      /\ ptr \in 1..Len(text) /\ text[ptr] \in {"+", "-", ".", "e"}
      /\ "done" \in flags \/ (top # 0 /\ values[top].type \in Containers)
  BY DEF Doomed
<1>2. ASSUME NEW c, Reads(c) PROVE c \in {"+", "-", ".", "e"}
  BY <1>1, <1>2 DEF Reads
<1>3. ~InNumber
  BY <1>1 DEF InNumber, Containers
<1>4. ASSUME NEW c PROVE ~StringByte(c) /\ ~SeekOther(c) /\ ~NumberPoint(c) /\ ~NumberEnd(c) /\ ~NumberDigit(c) /\ ~BeginsValue(c)
  BY <1>1, <1>3 DEF StringByte, SeekOther, NumberPoint, NumberEnd, NumberDigit, BeginsValue
<1>5. ~StringEnd /\ ~KeyEnd /\ ~NumberSign
  BY <1>1, <1>3 DEF StringEnd, KeyEnd, NumberSign
<1>6. ~Reads("sp") /\ ~Reads("rbracket") /\ ~Reads("quote") /\ ~Reads("rbrace") /\ ~Reads(End)
  BY <1>2 DEF End
<1>7. ~SeekSpace /\ ~ArrayEnd /\ ~KeyBegin /\ ~ObjectEnd /\ ~PassEnds
  BY <1>6 DEF SeekSpace, ArrayEnd, KeyBegin, ObjectEnd, PassEnds
<1>8. ~SeekContainer /\ ~SeekString /\ ~SeekWord /\ ~SeekNumber
  BY <1>4 DEF SeekContainer, SeekString, SeekWord, SeekNumber
<1>9. ASSUME NEW c, SeekSeparator(c) \/ ObjectByte(c) \/ Trailer(c) PROVE Fail("syntax")
  <2>1. Reads(c)
    BY <1>9 DEF SeekSeparator, ObjectByte, Trailer
  <2>2. c # "comma" /\ c # "sp"
    BY <2>1, <1>2
  <2> QED
    BY <2>2, <1>1, <1>9 DEF SeekSeparator, ObjectByte, Trailer
<1> QED
  BY <1>4, <1>5, <1>7, <1>8, <1>9 DEF Parse, Rejects

-----------------------------------------------------------------------------
(* What every turn leaves alone                                            *)

(* A turn reads one byte; it moves no other variable than by its branch,   *)
(* and fails for want of memory only where a value is to begin.            *)
Frame ==
    /\ \E c : Reads(c)
    /\ num_digits' \in 0..2 /\ pass' \in {pass, 0} /\ UNCHANGED freeing
    /\ \/ error' = error /\ stage' # "failed"
       \/ error' = "syntax" /\ stage' = "failed"
       \/ error' = "memory" /\ stage' = "failed" /\ \E c \in Starters : BeginsValue(c)

(* What each way of ending a turn leaves alone: going on,                  *)
LEMMA ContinueFrame ==
  ASSUME NEW c, Reads(c), NEW fs, Continue(fs), num_digits \in 0..2
  PROVE  Frame
  BY DEF Frame, Reads, Continue

(* failing,                                                                *)
LEMMA FailFrame ==
  ASSUME NEW c, Reads(c), Fail("syntax"), num_digits \in 0..2
  PROVE  Frame
  BY DEF Frame, Reads, Fail, cursor

(* finishing a value,                                                      *)
LEMMA FinishFrame ==
  ASSUME NEW c, Reads(c), NEW vs, NEW v, NEW fs, NEW at, FinishValue(vs, v, fs, at),
         UNCHANGED num_digits, num_digits \in 0..2
  PROVE  Frame
<1>1. UNCHANGED <<pass, stage, error, freeing>>
  BY DEF FinishValue
<1> QED
  BY <1>1 DEF Frame, Reads

(* getting no memory,                                                      *)
LEMMA AllocationFrame ==
  ASSUME NEW c \in Starters, BeginsValue(c), AllocationFails, num_digits \in 0..2
  PROVE  Frame
  BY DEF Frame, BeginsValue, AllocationFails

(* or any other.                                                           *)
LEMMA TurnFrame ==
  ASSUME NEW c, Reads(c), num_digits' \in 0..2, UNCHANGED <<pass, stage, error, freeing>>
  PROVE  Frame
  BY DEF Frame, Reads

(* Every turn is one of these.                                             *)
LEMMA ParseFrame ==
  ASSUME Parse, num_digits \in 0..2
  PROVE  Frame
<1> USE DEF End
<1>1. ASSUME NEW c, StringByte(c) PROVE Frame
  <2>1. Reads(c)
    BY <1>1 DEF StringByte
  <2>2. \/ Fail("syntax") \/ Continue(flags \cup {"escaped"})
        \/ UNCHANGED <<pass, num_digits, stage, error, freeing>>
    BY <1>1 DEF StringByte
  <2> QED
    BY <2>1, <2>2, FailFrame, ContinueFrame DEF Frame, Reads
<1>2. ASSUME NEW c, SeekSeparator(c) PROVE Frame
  <2>1. Reads(c) /\ (Fail("syntax") \/ \E fs : Continue(fs))
    BY <1>2 DEF SeekSeparator
  <2> QED
    BY <2>1, FailFrame, ContinueFrame
<1>3. ASSUME NEW c, SeekOther(c) PROVE Frame
  <2>1. Reads(c) /\ Fail("syntax")
    BY <1>3 DEF SeekOther, BeginsValue
  <2> QED
    BY <2>1, FailFrame
<1>4. ASSUME NEW c, ObjectByte(c) PROVE Frame
  <2>1. Reads(c) /\ (Fail("syntax") \/ \E fs : Continue(fs))
    BY <1>4 DEF ObjectByte
  <2> QED
    BY <2>1, FailFrame, ContinueFrame
<1>5. ASSUME NEW c, NumberPoint(c) PROVE Frame
  <2>1. Reads(c)
    BY <1>5 DEF NumberPoint
  <2>2. Fail("syntax") \/ (num_digits' = 0 /\ UNCHANGED <<pass, stage, error, freeing>>)
    BY <1>5 DEF NumberPoint
  <2>3. num_digits' = 0 => num_digits' \in 0..2
    OBVIOUS
  <2> QED
    BY <2>1, <2>2, <2>3, FailFrame, TurnFrame
<1>6. ASSUME NEW c, NumberEnd(c) PROVE Frame
  <2>1. Reads(c)
    BY <1>6 DEF NumberEnd
  <2>2. Fail("syntax") \/ (UNCHANGED num_digits /\ \E vs, v, fs, at : FinishValue(vs, v, fs, at))
    BY <1>6 DEF NumberEnd
  <2> QED
    BY <2>1, <2>2, FailFrame, FinishFrame
<1>7. ASSUME NEW c, Trailer(c) PROVE Frame
  <2>1. Reads(c) /\ (Fail("syntax") \/ \E fs : Continue(fs))
    BY <1>7 DEF Trailer
  <2> QED
    BY <2>1, FailFrame, ContinueFrame
<1>8. ASSUME NEW d \in Digits, NumberDigit(d) PROVE Frame
  <2>1. Reads(d)
    BY <1>8 DEF NumberDigit
  <2>2. Fail("syntax") \/ (num_digits' = (IF num_digits < 2 THEN num_digits + 1 ELSE 2) /\ UNCHANGED <<pass, stage, error, freeing>>)
    BY <1>8 DEF NumberDigit
  <2>3. num_digits' = (IF num_digits < 2 THEN num_digits + 1 ELSE 2) => num_digits' \in 0..2
    OBVIOUS
  <2> QED
    BY <2>1, <2>2, <2>3, FailFrame, TurnFrame
<1>9. CASE StringEnd
  <2>1. Reads("quote") /\ UNCHANGED num_digits /\ \E vs, v, fs, at : FinishValue(vs, v, fs, at)
    BY <1>9 DEF StringEnd
  <2> QED
    BY <2>1, FinishFrame
<1>10. CASE KeyEnd
  BY <1>10 DEF KeyEnd, Frame, Reads
<1>11. CASE SeekSpace
  BY <1>11, ContinueFrame DEF SeekSpace
<1>12. CASE ArrayEnd
  <2>1. Reads("rbracket") /\ (Fail("syntax") \/ (UNCHANGED num_digits /\ \E vs, v, fs, at : FinishValue(vs, v, fs, at)))
    BY <1>12 DEF ArrayEnd
  <2> QED
    BY <2>1, FailFrame, FinishFrame
<1>13. CASE SeekContainer
  <2>1. PICK c \in {"lbrace", "lbracket"} :
            BeginsValue(c) /\ (AllocationFails \/ UNCHANGED <<pass, num_digits, stage, error, freeing>>)
    <3>1. PICK c \in {"lbrace", "lbracket"} :
              BeginsValue(c) /\ (AllocationFails \/ UNCHANGED <<pass, string_length, num_digits, stage, error, freeing>>)
      BY <1>13 DEF SeekContainer
    <3> QED
      BY <3>1
  <2>2. c \in Starters
    BY DEF Starters
  <2> QED
    BY <2>1, <2>2, AllocationFrame DEF Frame, Reads, BeginsValue
<1>14. CASE SeekString
  <2>1. BeginsValue("quote") /\ (AllocationFails \/ UNCHANGED <<pass, num_digits, stage, error, freeing>>)
    BY <1>14 DEF SeekString
  <2>2. "quote" \in Starters
    BY DEF Starters
  <2> QED
    BY <2>1, <2>2, AllocationFrame DEF Frame, Reads, BeginsValue
<1>15. CASE SeekWord
  <2>1. PICK c \in Words :
            /\ BeginsValue(c)
            /\ AllocationFails \/ (UNCHANGED num_digits /\ \E vs, v, fs, at : FinishValue(vs, v, fs, at))
    BY <1>15 DEF SeekWord
  <2>2. c \in Starters
    BY DEF Starters
  <2> QED
    BY <2>1, <2>2, AllocationFrame, FinishFrame DEF BeginsValue
<1>16. CASE SeekNumber
  <2>1. PICK c \in Digits \cup {"-"} :
            /\ BeginsValue(c)
            /\ \/ AllocationFails
               \/ num_digits' = 0 /\ UNCHANGED <<pass, stage, error, freeing>>
               \/ UNCHANGED num_digits /\ \E vs, v, fs, at : FinishValue(vs, v, fs, at)
    BY <1>16 DEF SeekNumber
  <2>2. c \in Starters
    BY DEF Starters
  <2>3. num_digits' = 0 => num_digits' \in 0..2
    OBVIOUS
  <2>4. Reads(c)
    BY <2>1 DEF BeginsValue
  <2> QED
    BY <2>1, <2>2, <2>3, <2>4, AllocationFrame, FinishFrame, TurnFrame
<1>17. CASE KeyBegin
  <2>1. Reads("quote") /\ (Fail("syntax") \/ UNCHANGED <<pass, num_digits, stage, error, freeing>>)
    BY <1>17 DEF KeyBegin
  <2> QED
    BY <2>1, FailFrame DEF Frame, Reads
<1>18. CASE ObjectEnd
  <2>1. Reads("rbrace") /\ UNCHANGED num_digits /\ \E vs, v, fs, at : FinishValue(vs, v, fs, at)
    BY <1>18 DEF ObjectEnd
  <2> QED
    BY <2>1, FinishFrame
<1>19. CASE NumberSign
  <2>1. \E c, fs : Reads(c) /\ Continue(fs)
    BY <1>19 DEF NumberSign
  <2> QED
    BY <2>1, ContinueFrame
<1>20. CASE PassEnds
  BY <1>20 DEF PassEnds, Frame, Reads, cursor
<1> QED
  BY <1>1, <1>2, <1>3, <1>4, <1>5, <1>6, <1>7, <1>8, <1>9, <1>10, <1>11, <1>12, <1>13, <1>14,
     <1>15, <1>16, <1>17, <1>18, <1>19, <1>20 DEF Parse

(* The byte is one of the family's, or the end.                            *)
LEMMA ReadsTyped ==
  ASSUME NEW c, Reads(c), text \in Seq(family.tokens), ended \in BOOLEAN
  PROVE  /\ family' = family /\ text' \in Seq(family.tokens) /\ ended' \in BOOLEAN
         /\ Len(text) \in Nat /\ Len(text') \in Nat /\ Len(text) <= Len(text')
<1>1. Offered \subseteq family.tokens
  BY DEF Offered
<1>2. family' = family /\ (text' = text \/ (c \in family.tokens /\ text' = Append(text, c))) /\ ended' \in BOOLEAN
  BY <1>1 DEF Reads
<1> DEFINE S == family.tokens
<1>3. text \in Seq(S) /\ (text' = text \/ (c \in S /\ text' = Append(text, c)))
  BY <1>2
<1> HIDE DEF S
<1>4. text' \in Seq(S) /\ Len(text) \in Nat /\ Len(text') \in Nat /\ Len(text) <= Len(text')
  BY <1>3
<1> QED
  BY <1>2, <1>4 DEF S

-----------------------------------------------------------------------------
(* The parser reads: where it stands, and what a turn leads to             *)

(* It stands at a point of a run, inside a number or where it will fail.   *)
LEMMA ReadyWhere ==
  ASSUME Reading, stage = "parsing", pass \in {0, 1}, Len(text) \in Nat, Shapes(values)
  PROVE  \/ \E run, k : Ready(run, k)
         \/ \E run : Numbering(run)
         \/ pass = 1 /\ Doomed
<1>1. PICK run : Run(text, ended, values, run) /\ IF pass = 1 THEN FirstPass(run) ELSE SecondPass(run)
  BY DEF Reading
<1>2. Len(run) \in Nat /\ Len(run) >= 1
  BY <1>1, RunIs
<1>3. Len(run) \in 1..Len(run)
  BY <1>2
<1>4. CASE pass = 1
  <2>1. Chained /\ (Counting(Last(run)) \/ InsideNumber(Last(run)) \/ Doomed)
    BY <1>1, <1>4 DEF FirstPass
  <2>2. CASE Counting(Last(run))
    <3>1. Standing(run, Len(run))
      BY <2>1, <2>2, <1>3, <1>4 DEF Standing, Counting, Last
    <3> QED
      BY <3>1, <1>1 DEF Ready
  <2>3. CASE InsideNumber(Last(run))
    BY <2>1, <2>3, <1>1, <1>4 DEF Numbering
  <2> QED
    BY <2>1, <2>2, <2>3, <1>4
<1>5. CASE pass = 0
  <2>1. PICK k \in 1..Len(run) : Whole(Last(run)) /\ Filling(Last(run), run[k])
    BY <1>1, <1>5 DEF SecondPass
  <2>2. Standing(run, k)
    BY <2>1, <1>5 DEF Standing, Filling
  <2> QED
    BY <2>2, <1>1 DEF Ready
<1> QED
  BY <1>4, <1>5

(* Memory runs out; in the second pass there is a value it was meant for.  *)
Starves == AllocationFails /\ (pass = 0 => alloc \in 1..Len(values))

(* Every turn keeps to a run, rejects the text in the first pass, gets no  *)
(* memory, or returns the tree.                                            *)
LEMMA ReadingStep ==
  ASSUME Reading, stage = "parsing", pass \in {0, 1}, Len(text) \in Nat, Shapes(values),
         NEW S, text \in Seq(S), Parse, num_digits \in 0..2
  PROVE  Goes \/ Rejects \/ Starves \/ Returns
<1>1. ASSUME NEW run, NEW k, Ready(run, k)
      PROVE  Goes \/ Rejects \/ Starves \/ Returns
  <2>1. Goes \/ Rejects \/ AllocationFails \/ Returns
    BY <1>1, ReadyStep
  <2>2. ASSUME AllocationFails, pass = 0
        PROVE  alloc \in 1..Len(values)
    <3>1. Frame
      BY ParseFrame
    <3>2. stage' = "failed" /\ error' = "memory"
      BY <2>2 DEF AllocationFails
    <3>3. PICK c \in Starters : BeginsValue(c)
      BY <3>1, <3>2 DEF Frame
    <3>4. run[k].n + 1 <= Len(values)
      BY <3>3, <1>1, <2>2, BeginsIs
    <3>5. Filling(Last(run), run[k]) /\ run[k].n \in Nat /\ Len(values) \in Nat
      BY <1>1, <2>2, ReadyIs
    <3>6. alloc = run[k].n + 1
      BY <3>4, <3>5 DEF Filling
    <3> QED
      BY <3>4, <3>5, <3>6
  <2> QED
    BY <2>1, <2>2 DEF Starves
<1>2. ASSUME NEW run, Numbering(run)
      PROVE  Goes \/ Rejects
  BY <1>2, NumberingStep
<1>3. CASE pass = 1 /\ Doomed
  BY <1>3, DoomedStep
<1> QED
  BY <1>1, <1>2, <1>3, ReadyWhere

(* The variables of a parser that reads, or has read.                      *)
Blocks == UNION {{Block(v), DataBlock(v)} : v \in 1..Len(values)}
KidsInChain == \A v \in 1..Len(values) : \A i \in 1..Len(values[v].kids) : values[v].kids[i] \in 1..Len(values)
Placed ==
    /\ flags \subseteq ParserFlags \cup NumberFlags /\ ptr \in 1..(Len(text) + 1)
    /\ top \in 0..Len(values) /\ root \in 0..Len(values) /\ alloc \in 0..Len(values)
    /\ string_length \in Nat /\ heap \subseteq Blocks /\ KidsInChain
    /\ stage = "parsed" => pass = 0 /\ root # 0

(* The run places the variables of the first pass,                         *)
LEMMA PlacedFirst ==
  ASSUME NEW run, Run(text, ended, values, run), FirstPass(run), Len(text) \in Nat, Shapes(values),
         stage \in {"parsing", "parsed"}, pass = 1, stage = "parsing"
  PROVE  Placed
<1>0. PICK a : a = Last(run)
  OBVIOUS
<1>1. Chained /\ (Counting(a) \/ InsideNumber(a) \/ Doomed)
  BY <1>0 DEF FirstPass
<1>2. Len(values) \in Nat
  BY ShapesIs
<1>3. Sound(Len(text), values, a) /\ a \in Point /\ a.n \in Nat
  <2>1. Len(run) \in Nat /\ Len(run) >= 1
    BY RunIs
  <2>2. Len(run) \in 1..Len(run)
    BY <2>1
  <2> QED
    BY <2>2, <1>0, RunIs DEF Last
<1>4. a.at \in 1..(Len(text) + 1) /\ a.top \in 0..a.n /\ a.fl \in SUBSET ParserFlags /\ a.slen \in Nat
  BY <1>3, SoundIs, PointIs
<1>5. alloc \in 0..Len(values) /\ heap \subseteq Blocks /\ KidsInChain
  <2>1. alloc \in 0..Len(values) /\ heap \subseteq Blocks
    BY <1>1, <1>2 DEF Chained, Blocks
  <2>2. \A v \in 1..Len(values) : values[v].kids = <<>>
    BY <1>1 DEF Chained
  <2> QED
    BY <2>1, <2>2 DEF KidsInChain
<1>6. CASE Counting(a)
  <2>1. /\ ptr = a.at /\ flags \ NumberFlags = a.fl /\ top = a.top /\ string_length = a.slen
        /\ root = (IF a.n = 0 THEN 0 ELSE 1) /\ Len(values) = a.n
    BY <1>6 DEF Counting, At
  <2>2. flags \subseteq ParserFlags \cup NumberFlags
    BY <2>1, <1>4
  <2>3. root \in 0..Len(values)
    BY <2>1, <1>3
  <2> QED
    BY <2>1, <2>2, <2>3, <1>4, <1>5 DEF Placed
<1>7. CASE InsideNumber(a)
  <2>1. /\ flags \ NumberFlags = a.fl \ {"seek_value"} /\ top = a.n + 1 /\ string_length = a.slen
        /\ root = 1 /\ Len(values) = a.n + 1 /\ NumberSpan(text, a.at, ptr)
    BY <1>7 DEF InsideNumber
  <2>2. flags \subseteq ParserFlags \cup NumberFlags
    BY <2>1, <1>4
  <2>3. ptr \in 1..(Len(text) + 1)
    BY <2>1, <1>4 DEF NumberSpan
  <2>4. root \in 0..Len(values) /\ top \in 0..Len(values)
    BY <2>1, <1>3
  <2> QED
    BY <2>1, <2>2, <2>3, <2>4, <1>4, <1>5 DEF Placed
<1>8. CASE Doomed
  <2>1. Len(values) # 0
    BY <1>8 DEF Doomed, Shapes
  <2>2. root \in 0..Len(values)
    BY <2>1, <1>2, <1>8 DEF Doomed
  <2> QED
    BY <2>2, <1>5, <1>8 DEF Doomed, Placed
<1> QED
  BY <1>1, <1>6, <1>7, <1>8

(* and those of the second.                                                *)
LEMMA PlacedSecond ==
  ASSUME NEW run, Run(text, ended, values, run), SecondPass(run), Len(text) \in Nat, Shapes(values), pass = 0
  PROVE  Placed
<1>1. PICK k \in 1..Len(run) :
          Whole(Last(run)) /\ Filling(Last(run), run[k]) /\ (stage = "parsed" => k = Len(run))
  BY DEF SecondPass
<1>2. PICK a : a = run[k]
  OBVIOUS
<1>3. Sound(Len(text), values, a) /\ a \in Point /\ a.n \in Nat /\ a.n <= Len(values)
  BY <1>1, <1>2, RunIs
<1>4. /\ a.at \in 1..(Len(text) + 1) /\ a.top \in 0..a.n /\ a.fl \in SUBSET ParserFlags /\ a.slen \in Nat
      /\ Mode(values, a) /\ Len(values) \in Nat
  BY <1>3, SoundIs, PointIs, ShapesIs
<1>5. /\ ptr = a.at /\ flags \ NumberFlags = a.fl /\ top = a.top /\ string_length = a.slen
      /\ root = (IF a.n = 0 THEN 0 ELSE 1)
      /\ alloc = (IF a.n < Len(values) THEN a.n + 1 ELSE 0)
      /\ Filled(values, Last(run), a) /\ Linked(values, a) /\ heap \subseteq Blocks
  BY <1>1, <1>2 DEF Filling, At, Blocks
<1>6. flags \subseteq ParserFlags \cup NumberFlags
  BY <1>4, <1>5
<1>7. root \in 0..Len(values) /\ top \in 0..Len(values) /\ alloc \in 0..Len(values)
  BY <1>3, <1>4, <1>5
<1>8. KidsInChain
  <2> SUFFICES ASSUME NEW v \in 1..Len(values), NEW i \in 1..Len(values[v].kids)
               PROVE  values[v].kids[i] \in 1..Len(values)
    BY DEF KidsInChain
  <2>1. CASE v > a.n
    <3>1. values[v].kids = <<>>
      BY <2>1, <1>5 DEF Filled
    <3> QED
      BY <3>1
  <2>2. CASE ~(v > a.n)
    <3>1. v \in 1..a.n
      BY <2>2, <1>3
    <3>2. values[v].kids[i] \in 1..a.n
      BY <3>1, <1>5 DEF Linked
    <3> QED
      BY <3>2, <1>3, <1>4, SMTT(60)
  <2> QED
    BY <2>1, <2>2
<1>9. stage = "parsed" => root # 0
  <2>1. ASSUME stage = "parsed" PROVE a = Last(run)
    BY <2>1, <1>1, <1>2 DEF Last
  <2>2. ASSUME stage = "parsed" PROVE a.n # 0
    <3>1. "done" \in a.fl
      BY <2>1, <2>2, <1>1 DEF Whole
    <3> QED
      BY <3>1, <1>4 DEF Mode
  <2> QED
    BY <2>2, <1>5
<1>10. ptr \in 1..(Len(text) + 1) /\ string_length \in Nat
  BY <1>4, <1>5
<1> QED
  BY <1>5, <1>6, <1>7, <1>8, <1>9, <1>10 DEF Placed

(* So they are while the parser reads, and when it has.                    *)
LEMMA ReadingPlaced ==
  ASSUME Reading, stage \in {"parsing", "parsed"}, pass \in {0, 1}, pass = 1 => stage = "parsing",
         Len(text) \in Nat, Shapes(values)
  PROVE  Placed
<1>1. PICK run : Run(text, ended, values, run) /\ IF pass = 1 THEN FirstPass(run) ELSE SecondPass(run)
  BY DEF Reading
<1> QED
  BY <1>1, PlacedFirst, PlacedSecond

-----------------------------------------------------------------------------
(* The inductive invariant                                                 *)

Typed ==
    /\ family \in Families /\ text \in Seq(family.tokens) /\ ended \in BOOLEAN
    /\ pass \in {0, 1} /\ num_digits \in 0..2 /\ freeing \in 0..Len(values)
    /\ stage \in {"parsing", "failed", "parsed", "freeing", "ended", "crashed"}
    /\ error \in {"", "syntax", "memory"}
    /\ Shapes(values)

(* Which stages go with which pass, and what may be freed in them.         *)
Staged ==
    /\ pass = 1 => stage \in {"parsing", "failed", "ended"}
    /\ stage \in {"parsing", "parsed", "failed"} => freeing = 0
    /\ stage = "freeing" => freeing # 0
    /\ stage = "failed" /\ pass = 0 => root # 0
    /\ stage = "parsing" => error = ""
    /\ error = "syntax" => pass = 1

(* While it reads the run tells what its variables are, afterwards they    *)
(* stay as they were.                                                      *)
ParserInv ==
    /\ Typed /\ Staged /\ Reading
    /\ stage \notin {"parsing", "parsed"} => Placed

(* Staged, for a step: of the old state only what it is spoken of counts.  *)
LEMMA StagedNext ==
  ASSUME pass' = 1 => stage' \in {"parsing", "failed", "ended"},
         stage' \in {"parsing", "parsed", "failed"} => freeing' = 0,
         stage' = "freeing" => freeing' # 0,
         stage' = "failed" /\ pass' = 0 => root' # 0,
         stage' = "parsing" => error' = "",
         error' = "syntax" => pass' = 1
  PROVE  Staged'
  BY DEF Staged

(* Zero is in a range from zero; what else is there is in the range from   *)
(* one.                                                                    *)
LEMMA NoneOf == ASSUME NEW n \in Nat PROVE 0 \in 0..n
  OBVIOUS

(* What is in a range from zero and is not zero is in the range from one.  *)
LEMMA SomeOf == ASSUME NEW n \in Nat, NEW i \in 0..n, i # 0 PROVE i \in 1..n
  OBVIOUS

(* Typed, for a step that frees nothing.                                   *)
LEMMA TypedNext ==
  ASSUME Typed, family' = family, text' \in Seq(family.tokens), ended' \in BOOLEAN,
         pass' \in {0, 1}, num_digits' \in 0..2, freeing' = 0,
         stage' \in {"parsing", "failed", "parsed", "freeing", "ended", "crashed"},
         error' \in {"", "syntax", "memory"}, Shapes(values')
  PROVE  Typed'
<1>1. Len(values') \in Nat
  BY ShapesIs
<1>2. freeing' \in 0..Len(values')
  <2>1. 0 \in 0..Len(values')
    BY <1>1, NoneOf
  <2> QED
    BY <2>1
<1>3. family' \in Families /\ text' \in Seq(family'.tokens)
  <2>1. family \in Families
    BY DEF Typed
  <2> DEFINE S == family.tokens
  <2>2. family'.tokens = S /\ text' \in Seq(S)
    OBVIOUS
  <2> HIDE DEF S
  <2> QED
    BY <2>1, <2>2
<1> QED
  BY <1>2, <1>3 DEF Typed

(* The invariant implies the type invariant.                               *)
LEMMA InvTyped == ParserInv => TypeOK /\ Placed
<1> SUFFICES ASSUME ParserInv PROVE TypeOK /\ Placed
  OBVIOUS
<1>1. Typed /\ Staged /\ Reading
  BY DEF ParserInv
<1> DEFINE S == family.tokens
<1>2. Len(text) \in Nat
  <2>1. text \in Seq(S)
    BY <1>1 DEF Typed
  <2> HIDE DEF S
  <2> QED
    BY <2>1
<1>3. Placed
  BY <1>1, <1>2, ReadingPlaced DEF Typed, Staged, ParserInv
<1>4. \A v \in 1..Len(values) : values[v].parent \in 0..(v - 1)
  <2>1. \A v \in 1..Len(values) : values[v].parent \in Nat /\ values[v].parent < v
    BY <1>1, ShapesIs DEF Typed
  <2> QED
    BY <2>1
<1>5. ptr \in 1..(Len(text) + 2)
  BY <1>2, <1>3 DEF Placed
<1>6. /\ flags \subseteq {"need_comma", "seek_value", "escaped", "string", "need_colon", "done"} \cup NumberFlags
      /\ {top, root, alloc, freeing} \subseteq 0..Len(values) /\ string_length \in Nat
      /\ heap \subseteq UNION {{Block(v), DataBlock(v)} : v \in 1..Len(values)}
  BY <1>1, <1>3 DEF Placed, Typed, ParserFlags, Blocks
<1> QED
  BY <1>1, <1>3, <1>4, <1>5, <1>6 DEF TypeOK, Typed

(* Nothing is read yet: the run is its start.                              *)
LEMMA InvInit == Init => ParserInv
<1> SUFFICES ASSUME Init PROVE ParserInv
  OBVIOUS
<1>1. /\ family \in Families /\ text = <<>> /\ ended = FALSE /\ pass = 1 /\ ptr = 1 /\ flags = {"seek_value"}
      /\ top = 0 /\ root = 0 /\ alloc = 0 /\ values = <<>> /\ string_length = 0 /\ num_digits = 0
      /\ heap = {} /\ stage = "parsing" /\ error = "" /\ freeing = 0
  BY DEF Init
<1>2. Shapes(values) /\ Len(values) = 0
  <2> HIDE DEF ValueRecord
  <2>1. Len(values) = 0
    BY <1>1
  <2>2. <<>> \in Seq(ValueRecord)
    OBVIOUS
  <2>3. values \in Seq(ValueRecord)
    BY <1>1, <2>2
  <2> QED
    BY <2>1, <2>3 DEF Shapes
<1>3. Typed /\ Staged
  <2> DEFINE S == family.tokens
  <2>1. <<>> \in Seq(S)
    <3> HIDE DEF S
    <3> QED
      OBVIOUS
  <2>2. text \in Seq(family.tokens)
    BY <2>1, <1>1
  <2>3. 0 \in 0..Len(values)
    BY <1>2, NoneOf
  <2>4. freeing \in 0..Len(values)
    BY <2>3, <1>1
  <2>5. ended \in BOOLEAN /\ pass \in {0, 1} /\ num_digits \in 0..2
    <3>1. 0 \in 0..2
      OBVIOUS
    <3>2. num_digits \in 0..2
      BY <3>1, <1>1
    <3>3. ended \in BOOLEAN
      BY <1>1
    <3>4. pass \in {0, 1}
      BY <1>1
    <3> QED
      BY <3>2, <3>3, <3>4
  <2>6. /\ stage \in {"parsing", "failed", "parsed", "freeing", "ended", "crashed"}
        /\ error \in {"", "syntax", "memory"}
    BY <1>1
  <2>7. Typed
    BY <2>2, <2>4, <2>5, <2>6, <1>1, <1>2 DEF Typed
  <2> QED
    BY <2>7, <1>1 DEF Staged
<1>4. /\ Start.at = 1 /\ Start.fl = {"seek_value"} /\ Start.top = 0 /\ Start.slen = 0 /\ Start.n = 0
      /\ Start.open = {} /\ Counts(Start.len) /\ Counts(Start.byt)
      /\ \A v \in Nat : Start.len[v] = 0 /\ Start.byt[v] = 0
  BY DEF Start, Counts
<1>5. Start \in Point
  <2>1. {"seek_value"} \in SUBSET ParserFlags /\ {} \in SUBSET Nat /\ 1 \in Nat /\ 0 \in Nat
    BY DEF ParserFlags
  <2>2. [v \in Nat |-> 0] \in [Nat -> Nat]
    OBVIOUS
  <2> DEFINE f == [v \in Nat |-> 0]
             N == [Nat -> Nat]
             F == SUBSET ParserFlags
  <2>3. Start = [at |-> 1, fl |-> {"seek_value"}, top |-> 0, slen |-> 0, n |-> 0, len |-> f, byt |-> f, open |-> {}]
    BY DEF Start
  <2>4. Point = [at : Nat, fl : F, top : Nat, slen : Nat, n : Nat, len : N, byt : N, open : SUBSET Nat]
    BY DEF Point
  <2>5. f \in N /\ {"seek_value"} \in F
    BY <2>1, <2>2
  <2> HIDE DEF f, N, F
  <2> QED
    BY <2>1, <2>3, <2>4, <2>5
<1>6. Sound(Len(text), values, Start)
  <2>1. Chain(values, Start.open, Start.top)
    BY <1>4 DEF Chain
  <2>2. Nested(values, Start)
    BY <1>4 DEF Nested
  <2>3. Mode(values, Start)
    BY <1>4 DEF Mode
  <2>4. NoneBeyond(Start.len, Start.n) /\ NoneBeyond(Start.byt, Start.n)
    BY <1>4 DEF NoneBeyond
  <2>5. Len(text) = 0 /\ Len(values) = 0
    BY <1>1
  <2> QED
    BY <2>1, <2>2, <2>3, <2>4, <2>5, <1>4, <1>5 DEF Sound
<1> DEFINE run == <<Start>>
<1>7. run \in Seq(Point) /\ Len(run) = 1 /\ run[1] = Start /\ run # <<>>
  <2> HIDE DEF Point, Start
  <2> QED
    BY <1>5
<1>8. Last(run) = Start
  BY <1>7 DEF Last
<1> HIDE DEF run
<1>9. Run(text, ended, values, run)
  <2>1. Precedes(values, Start, Start)
    BY <1>5, PrecedesItself
  <2>2. \A i \in 1..Len(run) : i = 1
    BY <1>7
  <2>3. \A i \in 1..Len(run) : Sound(Len(text), values, run[i])
    BY <2>2, <1>6, <1>7
  <2>4. \A i \in 1..(Len(run) - 1) : FALSE
    BY <1>7
  <2>5. \A i, j \in 1..Len(run) : i <= j => Precedes(values, run[i], run[j])
    BY <2>1, <2>2, <1>7
  <2> QED
    BY <2>3, <2>4, <2>5, <1>7 DEF Run
<1>10. Counting(Start)
  <2>1. Matches(values, Start)
    BY <1>4 DEF Matches
  <2>2. flags \ NumberFlags = Start.fl
    BY <1>1, <1>4 DEF NumberFlags
  <2> QED
    BY <2>1, <2>2, <1>1, <1>4 DEF Counting, At
<1>11. Chained
  <2>1. \A v \in 1..Len(values) : FALSE
    BY <1>2
  <2> QED
    BY <2>1, <1>1, <1>2 DEF Chained
<1>12. Reading
  BY <1>1, <1>8, <1>9, <1>10, <1>11 DEF Reading, FirstPass
<1> QED
  BY <1>1, <1>3, <1>12 DEF ParserInv

(* A turn of the parser.                                                   *)
LEMMA InvParse == ParserInv /\ Parse => ParserInv'
<1> SUFFICES ASSUME ParserInv, Parse PROVE ParserInv'
  OBVIOUS
<1>1. Typed /\ Staged /\ Reading /\ Placed
  BY InvTyped DEF ParserInv
<1>2. Frame
  BY <1>1, ParseFrame DEF Typed
<1>3. PICK c : Reads(c)
  BY <1>2 DEF Frame
<1>4. stage = "parsing" /\ error = "" /\ freeing = 0 /\ pass \in {0, 1} /\ num_digits \in 0..2
  BY <1>1, <1>3 DEF Reads, Staged, Typed
<1>5. /\ family' = family /\ text' \in Seq(family.tokens) /\ ended' \in BOOLEAN
      /\ Len(text) \in Nat /\ Len(text') \in Nat /\ Len(text) <= Len(text')
  BY <1>1, <1>3, ReadsTyped DEF Typed
<1>6. Goes \/ Rejects \/ Starves \/ Returns
  BY <1>1, <1>4, <1>5, ReadingStep DEF Typed
<1>7. CASE Goes
  <2>1. Shapes(values') /\ Reading' /\ stage' = "parsing"
    BY <1>7 DEF Goes
  <2>2. error' = "" /\ freeing' = 0 /\ pass' \in {0, 1} /\ num_digits' \in 0..2
    BY <2>1, <1>2, <1>4 DEF Frame
  <2>3. Len(values') \in Nat
    BY <2>1, ShapesIs
  <2>4. Typed'
    BY <2>1, <2>2, <1>1, <1>5, TypedNext
  <2>5. Staged'
    <3>1. stage' = "parsing" /\ freeing' = 0 /\ error' = ""
      BY <2>1, <2>2
    <3> QED
      BY <3>1, StagedNext
  <2> QED
    BY <2>1, <2>4, <2>5 DEF ParserInv
<1>8. CASE Returns
  <2>1. Shapes(values') /\ Reading' /\ stage' = "parsed" /\ pass = 0
    BY <1>8 DEF Returns
  <2>2. error' = "" /\ freeing' = 0 /\ pass' = 0 /\ num_digits' \in 0..2
    BY <2>1, <1>2, <1>4 DEF Frame
  <2>3. Len(values') \in Nat
    BY <2>1, ShapesIs
  <2>4. Typed'
    BY <2>1, <2>2, <1>1, <1>5, TypedNext
  <2>5. Staged'
    <3>1. stage' = "parsed" /\ pass' = 0 /\ freeing' = 0 /\ error' = ""
      BY <2>1, <2>2
    <3>2. \A p : p = 0 => p # 1
      OBVIOUS
    <3> QED
      BY <3>1, <3>2, StagedNext
  <2> QED
    BY <2>1, <2>4, <2>5 DEF ParserInv
<1>9. CASE Rejects
  <2>1. /\ pass = 1 /\ stage' = "failed" /\ error' = "syntax"
        /\ UNCHANGED <<pass, ptr, flags, top, root, alloc, string_length, num_digits>>
        /\ UNCHANGED <<values, heap, freeing>>
    BY <1>9 DEF Rejects, Fail, cursor
  <2>2. Typed'
    BY <2>1, <1>1, <1>4, <1>5 DEF Typed
  <2>3. Staged'
    <3>1. pass' = 1 /\ stage' = "failed" /\ freeing' = 0 /\ error' = "syntax"
      BY <2>1, <1>4
    <3> QED
      BY <3>1, StagedNext
  <2>4. Placed'
    <3>1. ptr' \in 1..(Len(text') + 1)
      BY <2>1, <1>1, <1>5 DEF Placed
    <3> QED
      BY <3>1, <2>1, <1>1 DEF Placed, Blocks, KidsInChain
  <2> QED
    BY <2>1, <2>2, <2>3, <2>4 DEF ParserInv, Reading
<1>10. CASE Starves
  <2>1. /\ stage' = "failed" /\ error' = "memory"
        /\ UNCHANGED <<pass, ptr, flags, values, string_length, num_digits, heap, freeing>>
        /\ IF pass = 1 THEN UNCHANGED <<top, root, alloc>>
           ELSE top' = NewTop /\ alloc' = NewAlloc /\ root' = IF root = 0 THEN NewTop ELSE root
        /\ pass = 0 => alloc \in 1..Len(values)
    BY <1>10 DEF Starves, AllocationFails
  <2>2. Typed'
    BY <2>1, <1>1, <1>4, <1>5 DEF Typed
  <2>3. Len(values) \in Nat
    BY <1>1, ShapesIs DEF Typed
  <2>4. /\ top' \in 0..Len(values) /\ alloc' \in 0..Len(values) /\ root' \in 0..Len(values)
        /\ pass = 0 => root' # 0
    <3>1. CASE pass = 1
      BY <3>1, <2>1, <1>1 DEF Placed
    <3>2. CASE pass = 0
      <4>1. NewTop = alloc /\ NewAlloc = IF alloc < Len(values) THEN alloc + 1 ELSE 0
        BY <3>2 DEF NewTop, NewAlloc
      <4> QED
        BY <4>1, <3>2, <2>1, <2>3, <1>1 DEF Placed
    <3> QED
      BY <3>1, <3>2, <1>4
  <2>5. Staged'
    <3>1. pass' = pass /\ stage' = "failed" /\ freeing' = 0 /\ error' = "memory"
      BY <2>1, <1>4
    <3> QED
      BY <3>1, <2>4, StagedNext
  <2>6. Placed'
    <3>1. ptr' \in 1..(Len(text') + 1)
      BY <2>1, <1>1, <1>5 DEF Placed
    <3> QED
      BY <3>1, <2>1, <2>4, <1>1 DEF Placed, Blocks, KidsInChain
  <2> QED
    BY <2>1, <2>2, <2>5, <2>6 DEF ParserInv, Reading
<1> QED
  BY <1>6, <1>7, <1>8, <1>9, <1>10

(* Whatever is freed: the cursor stays, the values keep their shape.       *)
LEMMA InvFreeing ==
  ASSUME ParserInv, stage \in {"failed", "parsed", "freeing"}, UNCHANGED <<reading, cursor, error>>,
         stage' \in {"freeing", "ended", "crashed"}, heap' \subseteq heap,
         Shapes(values'), Len(values') = Len(values), KidsInChain', freeing' \in 0..Len(values),
         stage' = "freeing" => freeing' # 0, stage' # "ended" => pass = 0
  PROVE  ParserInv'
<1>1. Typed /\ Staged /\ Placed
  BY InvTyped DEF ParserInv
<1>2. UNCHANGED <<family, text, ended, pass, ptr, flags, top, root, alloc, string_length, num_digits, error>>
  BY DEF reading, cursor
<1>3. Typed'
  BY <1>1, <1>2 DEF Typed
<1>4. Staged'
  <2>1. error = "syntax" => pass = 1
    BY <1>1 DEF Staged
  <2>2. pass' = pass /\ error' = error
    BY <1>2
  <2>3. pass' = 1 => stage' = "ended"
    BY <2>2
  <2> QED
    BY <2>1, <2>2, <2>3, StagedNext
<1>5. Placed'
  BY <1>1, <1>2 DEF Placed, Blocks
<1> QED
  BY <1>3, <1>4, <1>5 DEF ParserInv, Reading

(* e_failed frees what is left of the chain, and returns or frees the      *)
(* tree.                                                                   *)
LEMMA InvFailed == ParserInv /\ Failed => ParserInv'
<1> SUFFICES ASSUME ParserInv, Failed PROVE ParserInv'
  OBVIOUS
<1>1. Typed /\ Staged /\ Placed
  BY InvTyped DEF ParserInv
<1>2. /\ stage = "failed" /\ UNCHANGED <<reading, cursor, values, error>> /\ heap' \subseteq heap
      /\ IF pass = 1 THEN stage' = "ended" /\ UNCHANGED freeing ELSE stage' = "freeing" /\ freeing' = root
  BY DEF Failed
<1>3. freeing' \in 0..Len(values) /\ (stage' = "freeing" => freeing' # 0) /\ (stage' # "ended" => pass = 0)
  BY <1>1, <1>2 DEF Typed, Staged, Placed
<1>4. Shapes(values') /\ Len(values') = Len(values) /\ KidsInChain'
  BY <1>1, <1>2 DEF Typed, Placed, KidsInChain
<1>5. stage' \in {"freeing", "ended", "crashed"}
  BY <1>2
<1> QED
  BY <1>2, <1>3, <1>4, <1>5, InvFreeing

(* The callback gives the tree back.                                       *)
LEMMA InvRelease == ParserInv /\ Release => ParserInv'
<1> SUFFICES ASSUME ParserInv, Release PROVE ParserInv'
  OBVIOUS
<1>1. Typed /\ Staged /\ Placed
  BY InvTyped DEF ParserInv
<1>2. stage = "parsed" /\ UNCHANGED <<reading, cursor, values, error, heap>> /\ stage' = "freeing" /\ freeing' = root
  BY DEF Release
<1>3. freeing' \in 0..Len(values) /\ freeing' # 0 /\ pass = 0
  BY <1>1, <1>2 DEF Placed
<1>4. Shapes(values') /\ Len(values') = Len(values) /\ KidsInChain'
  BY <1>1, <1>2 DEF Typed, Placed, KidsInChain
<1> QED
  BY <1>2, <1>3, <1>4, InvFreeing

(* json_value_free_ex steps down: only a length is changed, and the kid it *)
(* steps to is in the chain.                                               *)
LEMMA InvFreeDown == ParserInv /\ FreeDown => ParserInv'
<1> SUFFICES ASSUME ParserInv, FreeDown PROVE ParserInv'
  OBVIOUS
<1>1. Typed /\ Staged /\ Placed
  BY InvTyped DEF ParserInv
<1>2. Shapes(values) /\ freeing \in 1..Len(values) /\ Len(values) \in Nat /\ pass = 0 /\ stage = "freeing"
      /\ KidsInChain
  <2>1. stage = "freeing"
    BY DEF FreeDown
  <2>2. Shapes(values) /\ Len(values) \in Nat /\ KidsInChain
    BY <1>1, ShapesIs DEF Typed, Placed
  <2>3. freeing \in 1..Len(values)
    <3>1. freeing \in 0..Len(values) /\ freeing # 0
      BY <2>1, <1>1 DEF Typed, Staged
    <3> QED
      BY <3>1, <2>2, SomeOf
  <2>4. pass = 0
    BY <2>1, <1>1 DEF Typed, Staged
  <2> QED
    BY <2>1, <2>2, <2>3, <2>4
<1>3. UNCHANGED <<reading, cursor, error, heap>> /\ values[freeing].length > 0
  BY DEF FreeDown
<1>4. CASE values[freeing].length > Len(values[freeing].kids)
  <2>1. stage' = "crashed" /\ UNCHANGED <<values, freeing>>
    BY <1>4 DEF FreeDown
  <2>2. Shapes(values') /\ Len(values') = Len(values) /\ KidsInChain'
    BY <2>1, <1>2 DEF KidsInChain
  <2> QED
    BY <2>1, <2>2, <1>2, <1>3, InvFreeing
<1>5. CASE ~(values[freeing].length > Len(values[freeing].kids))
  <2> DEFINE n == values[freeing].length
             x == values[freeing].length - 1
             r == [values[freeing] EXCEPT !.length = x]
  <2>1. values' = With(values, freeing, r) /\ freeing' = values[freeing].kids[n] /\ stage' = "freeing"
    BY <1>2, <1>5 DEF FreeDown, With
  <2>2. values[freeing] \in ValueRecord /\ n \in Nat /\ values[freeing].kids \in Seq(Nat)
    BY <1>2, RecordIs DEF Shapes
  <2>3. x \in Nat
    BY <2>2, <1>3
  <2> HIDE DEF x
  <2>4. r \in ValueRecord /\ r.parent = values[freeing].parent /\ r.kids = values[freeing].kids
    BY <2>2, <2>3 DEF ValueRecord
  <2> HIDE DEF r
  <2>5. /\ Shapes(values') /\ Len(values') = Len(values)
        /\ values'[freeing] = r /\ \A w \in 1..Len(values) : w # freeing => values'[w] = values[w]
    <3>1. values' = With(values, freeing, r)
      BY <2>1
    <3>2. freeing \in 1..Len(values) /\ Shapes(values)
      BY <1>2
    <3> QED
      BY <2>4, <3>1, <3>2, OneChanged
  <2>6. KidsInChain'
    <3>1. \A w \in 1..Len(values) : values'[w].kids = values[w].kids
      BY <2>4, <2>5
    <3> QED
      BY <3>1, <2>5, <1>2 DEF KidsInChain
  <2>7. freeing' \in 1..Len(values)
    <3>1. n \in 1..Len(values[freeing].kids)
      BY <2>2, <1>3, <1>5
    <3> QED
      BY <3>1, <2>1, <1>2 DEF KidsInChain
  <2>8. freeing' \in 0..Len(values) /\ freeing' # 0
    BY <2>7, <1>2
  <2> QED
    BY <2>1, <2>5, <2>6, <2>8, <1>2, <1>3, InvFreeing
<1> QED
  BY <1>4, <1>5

(* It steps up, to the parent, or is done.                                 *)
LEMMA InvFreeUp == ParserInv /\ FreeUp => ParserInv'
<1> SUFFICES ASSUME ParserInv, FreeUp PROVE ParserInv'
  OBVIOUS
<1>1. Typed /\ Staged /\ Placed
  BY InvTyped DEF ParserInv
<1>2. Shapes(values) /\ freeing \in 1..Len(values) /\ Len(values) \in Nat /\ pass = 0 /\ stage = "freeing"
      /\ KidsInChain
  <2>1. stage = "freeing"
    BY DEF FreeUp
  <2>2. Shapes(values) /\ Len(values) \in Nat /\ KidsInChain
    BY <1>1, ShapesIs DEF Typed, Placed
  <2>3. freeing \in 1..Len(values)
    <3>1. freeing \in 0..Len(values) /\ freeing # 0
      BY <2>1, <1>1 DEF Typed, Staged
    <3> QED
      BY <3>1, <2>2, SomeOf
  <2>4. pass = 0
    BY <2>1, <1>1 DEF Typed, Staged
  <2> QED
    BY <2>1, <2>2, <2>3, <2>4
<1>3. UNCHANGED <<reading, cursor, error, values>>
  BY DEF FreeUp
<1>4. Shapes(values') /\ Len(values') = Len(values) /\ KidsInChain'
  BY <1>2, <1>3 DEF KidsInChain
<1>5. heap' \subseteq heap /\ stage' \in {"freeing", "ended", "crashed"} /\ (stage' = "freeing" => freeing' # 0)
  BY <1>2 DEF FreeUp
<1>6. values[freeing].parent \in 0..Len(values)
  <2>1. values[freeing].parent \in Nat /\ values[freeing].parent < freeing
    BY <1>2, ShapesIs
  <2> QED
    BY <2>1, <1>2
<1>7. freeing' \in 0..Len(values)
  BY <1>2, <1>6 DEF FreeUp
<1> QED
  BY <1>2, <1>3, <1>4, <1>5, <1>7, InvFreeing

(* No step: the same run serves.                                           *)
LEMMA InvStutters == ParserInv /\ UNCHANGED vars => ParserInv'
<1> SUFFICES ASSUME ParserInv, UNCHANGED vars PROVE ParserInv'
  OBVIOUS
<1>1. /\ family' = family /\ text' = text /\ ended' = ended /\ pass' = pass /\ ptr' = ptr /\ flags' = flags
      /\ top' = top /\ root' = root /\ alloc' = alloc /\ string_length' = string_length
      /\ num_digits' = num_digits /\ values' = values /\ heap' = heap /\ stage' = stage
      /\ error' = error /\ freeing' = freeing
  BY DEF vars, reading, cursor
<1>2. Typed' /\ Staged'
  BY <1>1 DEF ParserInv, Typed, Staged
<1>3. Placed' <=> Placed
  BY <1>1 DEF Placed, Blocks, KidsInChain
<1>4. Reading' <=> Reading
  <2>1. ASSUME NEW a PROVE At(a)' <=> At(a)
    BY <1>1 DEF At
  <2>2. Doomed' <=> Doomed
    BY <1>1 DEF Doomed
  <2>3. ASSUME NEW a PROVE InsideNumber(a)' <=> InsideNumber(a)
    BY <1>1 DEF InsideNumber
  <2>4. ASSUME NEW a PROVE Counting(a)' <=> Counting(a)
    BY <1>1, <2>1 DEF Counting
  <2>5. Chained' <=> Chained
    BY <1>1 DEF Chained
  <2>6. ASSUME NEW run PROVE FirstPass(run)' <=> FirstPass(run)
    BY <2>2, <2>3, <2>4, <2>5 DEF FirstPass
  <2>7. ASSUME NEW z, NEW a PROVE Filling(z, a)' <=> Filling(z, a)
    BY <1>1, <2>1 DEF Filling
  <2>8. ASSUME NEW z PROVE Whole(z)' <=> Whole(z)
    BY <1>1 DEF Whole
  <2>9. ASSUME NEW run PROVE SecondPass(run)' <=> SecondPass(run)
    BY <1>1, <2>7, <2>8 DEF SecondPass
  <2> QED
    BY <1>1, <2>6, <2>9 DEF Reading
<1> QED
  BY <1>1, <1>2, <1>3, <1>4 DEF ParserInv

(* At every moment of every parse of every text there is a run, at whose   *)
(* last point the first pass stands and at some point of which the second  *)
(* does (json_parse_ex).                                                   *)
THEOREM ParserInvariant == Spec => []ParserInv
<1>1. ParserInv /\ [Next]_vars => ParserInv'
  <2> SUFFICES ASSUME ParserInv, [Next]_vars PROVE ParserInv'
    OBVIOUS
  <2>1. CASE Parse
    BY <2>1, InvParse
  <2>2. CASE Failed
    BY <2>2, InvFailed
  <2>3. CASE Release
    BY <2>3, InvRelease
  <2>4. CASE FreeDown
    BY <2>4, InvFreeDown
  <2>5. CASE FreeUp
    BY <2>5, InvFreeUp
  <2>6. CASE UNCHANGED vars
    BY <2>6, InvStutters
  <2> QED
    BY <2>1, <2>2, <2>3, <2>4, <2>5, <2>6 DEF Next, Returned
<1> QED
  BY InvInit, <1>1, PTL DEF Spec

(* The parser's variables keep the types of the C program's, and every     *)
(* pointer is NULL or a value of the chain.                                *)
THEOREM ParserTypeCorrect == Spec => []TypeOK
  BY ParserInvariant, InvTyped, PTL

-----------------------------------------------------------------------------
(* What was counted is what is filled                                      *)

(* The last point of the run is past every value.                          *)
LEMMA WholeDue ==
  ASSUME NEW run, Run(text, ended, values, run), Len(text) \in Nat, Shapes(values), Whole(Last(run)),
         NEW a, \E k \in 1..Len(run) : a = run[k]
  PROVE  /\ a.n \in Nat /\ a.n <= Len(values) /\ Sound(Len(text), values, a)
         /\ \A v \in 1..a.n : /\ LengthDue(values, a, v) <= Last(run).len[v]
                              /\ BytesDue(values, a, v) <= Last(run).byt[v]
<1>0. PICK z : z = Last(run)
  OBVIOUS
<1>1. PICK k \in 1..Len(run) : a = run[k]
  OBVIOUS
<1>2. Len(run) \in Nat /\ Len(run) \in 1..Len(run) /\ k <= Len(run)
  <2>1. Len(run) \in Nat /\ Len(run) >= 1
    BY RunIs
  <2> QED
    BY <2>1
<1>3. /\ Sound(Len(text), values, a) /\ Sound(Len(text), values, z) /\ Precedes(values, a, z)
      /\ a \in Point /\ z \in Point /\ a.n \in Nat /\ a.n <= Len(values)
  BY <1>0, <1>1, <1>2, RunIs DEF Last
<1>4. "done" \in z.fl /\ Mode(values, z)
  BY <1>0, <1>3, SoundIs DEF Whole
<1>5. z.open = {} /\ "string" \notin z.fl /\ "seek_value" \notin z.fl
  BY <1>4 DEF Mode
<1>6. ASSUME NEW v \in 1..a.n
      PROVE  LengthDue(values, a, v) <= z.len[v] /\ BytesDue(values, a, v) <= z.byt[v]
  <2>1. v \in Nat /\ z.len[v] \in Nat /\ z.byt[v] \in Nat
    <3>1. v \in Nat
      BY <1>3
    <3> QED
      BY <3>1, <1>3, SoundCounts
  <2>2. LengthDue(values, z, v) = z.len[v] + 0 /\ BytesDue(values, z, v) = z.byt[v] + 0
    BY <1>5 DEF LengthDue, BytesDue
  <2>3. LengthDue(values, a, v) <= LengthDue(values, z, v) /\ BytesDue(values, a, v) <= BytesDue(values, z, v)
    BY <1>3 DEF Precedes
  <2> QED
    BY <2>1, <2>2, <2>3
<1> QED
  BY <1>0, <1>3, <1>6

(* What is due of a value at a point, for what it takes there to write.    *)
LEMMA DueAt ==
  ASSUME NEW size \in Nat, NEW vs, NEW a, Sound(size, vs, a), NEW v \in 1..a.n, NEW len \in Nat, NEW byt \in Nat,
         LengthDue(vs, a, v) <= len, BytesDue(vs, a, v) <= byt
  PROVE  /\ a.len[v] <= len /\ a.byt[v] <= byt
         /\ v = a.top /\ vs[v].type = "object" /\ "string" \in a.fl => a.len[v] + 1 <= len
         /\ v = a.top /\ "string" \in a.fl => a.byt[v] + a.slen <= byt
         /\ v = a.top /\ "string" \in a.fl /\ vs[v].type # "string" => a.byt[v] + a.slen + 1 <= byt
<1>1. a.n \in Nat /\ v \in Nat /\ a.len[v] \in Nat /\ a.byt[v] \in Nat /\ a.slen \in Nat
  BY SoundCounts
<1>2. PICK x \in {0, 1} : LengthDue(vs, a, v) = a.len[v] + x
  BY DEF LengthDue
<1>3. PICK y \in Nat : BytesDue(vs, a, v) = a.byt[v] + y
  <2>1. a.slen + 1 \in Nat /\ a.slen + 0 \in Nat /\ 0 \in Nat
    BY <1>1
  <2> QED
    BY <2>1 DEF BytesDue
<1>4. a.len[v] <= len /\ a.byt[v] <= byt
  BY <1>1, <1>2, <1>3
<1>5. ASSUME v = a.top, "string" \in a.fl
      PROVE  /\ vs[v].type = "object" => LengthDue(vs, a, v) = a.len[v] + 1 /\ BytesDue(vs, a, v) = a.byt[v] + (a.slen + 1)
             /\ vs[v].type # "object" => BytesDue(vs, a, v) = a.byt[v] + (a.slen + 0)
             /\ vs[v].type \in {"object", "string"}
  <2>1. Mode(vs, a)
    BY SoundIs
  <2>2. "done" \notin a.fl /\ a.n # 0
    BY <2>1, <1>1, <1>5 DEF Mode
  <2>3. vs[v].type \in {"object", "string"}
    BY <2>1, <2>2, <1>5 DEF Mode
  <2>4. vs[v].type = "object" => LengthDue(vs, a, v) = a.len[v] + 1 /\ BytesDue(vs, a, v) = a.byt[v] + (a.slen + 1)
    BY <1>5 DEF LengthDue, BytesDue
  <2>5. vs[v].type # "object" => BytesDue(vs, a, v) = a.byt[v] + (a.slen + 0)
    BY <1>5 DEF BytesDue
  <2> QED
    BY <2>3, <2>4, <2>5
<1>6. ASSUME v = a.top, "string" \in a.fl, vs[v].type = "object"
      PROVE  a.len[v] + 1 <= len /\ a.byt[v] + a.slen + 1 <= byt
  BY <1>1, <1>5, <1>6
<1>7. ASSUME v = a.top, "string" \in a.fl, vs[v].type = "string"
      PROVE  a.byt[v] + a.slen <= byt
  BY <1>1, <1>5, <1>7
<1>8. ASSUME a.byt[v] + a.slen + 1 <= byt PROVE a.byt[v] + a.slen <= byt
  BY <1>1, <1>8
<1> QED
  BY <1>4, <1>5, <1>6, <1>7, <1>8

(* The bytes that are being written to a value, the terminator included,   *)
(* and the key of an object that is being read.                            *)
Writing(v) ==
    IF v = top /\ "string" \in flags THEN string_length + 1
    ELSE IF values[v].type = "string" THEN 1 ELSE 0
Keys(v) == IF v = top /\ values[v].type = "object" /\ "string" \in flags THEN 1 ELSE 0

(* At the point where the second pass stands every value it has begun has  *)
(* at most the elements, keys and bytes that the last point of the run     *)
(* counted; at the last point it has exactly those.                        *)
LEMMA WrittenIs ==
  ASSUME NEW run, NEW k \in 1..Len(run), Run(text, ended, values, run), Len(text) \in Nat, Shapes(values),
         Whole(Last(run)), Filling(Last(run), run[k]), NEW v \in 1..Len(values), alloc = 0 \/ v < alloc
  PROVE  /\ values[v].length + Keys(v) <= values[v].capacity
         /\ values[v].bytes + Writing(v) <= values[v].room
         /\ k = Len(run) => /\ alloc = 0
                            /\ values[v].length = values[v].capacity
                            /\ values[v].length = Len(values[v].kids)
                            /\ values[v].bytes + Writing(v) = values[v].room
                            /\ values[v].type = "object" => Len(values[v].names) = values[v].length
<1>0. PICK a : a = run[k]
  OBVIOUS
<1>00. PICK z : z = Last(run)
  OBVIOUS
<1>1. /\ a.n \in Nat /\ a.n <= Len(values) /\ Sound(Len(text), values, a) /\ Len(values) \in Nat
      /\ \A w \in 1..a.n : LengthDue(values, a, w) <= z.len[w] /\ BytesDue(values, a, w) <= z.byt[w]
  BY <1>0, <1>00, WholeDue, ShapesIs
<1>2. /\ At(a) /\ Filled(values, z, a) /\ alloc = IF a.n < Len(values) THEN a.n + 1 ELSE 0
  BY <1>0, <1>00 DEF Filling
<1>3. v \in 1..a.n /\ ~(v > a.n)
  BY <1>1, <1>2
<1>4. /\ values[v].capacity = z.len[v]
      /\ values[v].room = z.byt[v] + (IF values[v].type = "string" THEN 1 ELSE 0)
      /\ Len(values[v].kids) = values[v].length
      /\ values[v].type = "object" => Len(values[v].names) = NamesDue(a, v)
  BY <1>2, <1>3 DEF Filled
<1>5. values[v].length = a.len[v] /\ values[v].bytes = a.byt[v]
  BY <1>2, <1>3 DEF At, Matches
<1>6. /\ a.len[v] \in Nat /\ a.byt[v] \in Nat /\ a.slen \in Nat /\ z.len[v] \in Nat /\ z.byt[v] \in Nat
  <2>1. Sound(Len(text), values, z)
    <3>1. Len(run) \in Nat /\ Len(run) >= 1
      BY RunIs
    <3>2. Len(run) \in 1..Len(run)
      BY <3>1
    <3> QED
      BY <3>2, <1>00, RunIs DEF Last
  <2> QED
    BY <2>1, <1>1, <1>3, SoundCounts
<1>7. /\ a.len[v] <= z.len[v] /\ a.byt[v] <= z.byt[v]
      /\ v = a.top /\ values[v].type = "object" /\ "string" \in a.fl => a.len[v] + 1 <= z.len[v]
      /\ v = a.top /\ "string" \in a.fl => a.byt[v] + a.slen <= z.byt[v]
      /\ v = a.top /\ "string" \in a.fl /\ values[v].type # "string" => a.byt[v] + a.slen + 1 <= z.byt[v]
  BY <1>1, <1>3, <1>6, DueAt
<1>8. top = a.top /\ string_length = a.slen /\ ("string" \in flags <=> "string" \in a.fl)
  BY <1>2, FlagIs DEF At
<1>9. values[v].length + Keys(v) <= values[v].capacity
  <2>1. CASE v = top /\ values[v].type = "object" /\ "string" \in flags
    <3>1. Keys(v) = 1
      BY <2>1 DEF Keys
    <3> QED
      BY <3>1, <2>1, <1>4, <1>5, <1>7, <1>8
  <2>2. CASE ~(v = top /\ values[v].type = "object" /\ "string" \in flags)
    <3>1. Keys(v) = 0
      BY <2>2 DEF Keys
    <3> QED
      BY <3>1, <1>4, <1>5, <1>6, <1>7
  <2> QED
    BY <2>1, <2>2
<1>10. values[v].bytes + Writing(v) <= values[v].room
  <2>1. CASE v = top /\ "string" \in flags
    <3>1. Writing(v) = a.slen + 1
      BY <2>1, <1>8 DEF Writing
    <3>2. CASE values[v].type = "string"
      <4>1. values[v].room = z.byt[v] + 1
        BY <3>2, <1>4
      <4>2. a.byt[v] + a.slen <= z.byt[v]
        BY <2>1, <1>7, <1>8
      <4>3. ASSUME NEW m \in Nat, NEW l \in Nat, NEW r \in Nat, m + l <= r
            PROVE  m + (l + 1) <= r + 1
        BY <4>3
      <4>4. a.byt[v] + (a.slen + 1) <= z.byt[v] + 1
        BY <4>2, <4>3, <1>6
      <4> QED
        BY <3>1, <4>1, <4>4, <1>5
    <3>3. CASE values[v].type # "string"
      <4>1. values[v].room = z.byt[v] + 0
        BY <3>3, <1>4
      <4>2. a.byt[v] + a.slen + 1 <= z.byt[v]
        BY <2>1, <3>3, <1>7, <1>8
      <4> QED
        BY <3>1, <4>1, <4>2, <1>5, <1>6, SMTT(60)
    <3> QED
      BY <3>2, <3>3
  <2>2. CASE ~(v = top /\ "string" \in flags)
    <3>1. a.byt[v] <= z.byt[v]
      BY <1>7
    <3>2. CASE values[v].type = "string"
      <4>1. Writing(v) = 1 /\ values[v].room = z.byt[v] + 1
        BY <2>2, <3>2, <1>4 DEF Writing
      <4> QED
        BY <3>1, <4>1, <1>5, <1>6, SMTT(60)
    <3>3. CASE values[v].type # "string"
      <4>1. Writing(v) = 0 /\ values[v].room = z.byt[v] + 0
        BY <2>2, <3>3, <1>4 DEF Writing
      <4> QED
        BY <3>1, <4>1, <1>5, <1>6
    <3> QED
      BY <3>2, <3>3
  <2> QED
    BY <2>1, <2>2
<1>11. ASSUME k = Len(run)
       PROVE  /\ alloc = 0 /\ values[v].length = values[v].capacity
              /\ values[v].length = Len(values[v].kids)
              /\ values[v].bytes + Writing(v) = values[v].room
              /\ values[v].type = "object" => Len(values[v].names) = values[v].length
  <2>1. a = z
    BY <1>0, <1>00, <1>11 DEF Last
  <2>2. a.n = Len(values) /\ "done" \in a.fl
    BY <2>1, <1>00 DEF Whole
  <2>3. Mode(values, a)
    BY <1>1, SoundIs
  <2>4. a.open = {} /\ "string" \notin a.fl /\ "seek_value" \notin a.fl
    BY <2>2, <2>3 DEF Mode
  <2>5. Writing(v) = IF values[v].type = "string" THEN 1 ELSE 0
    BY <2>4, <1>8 DEF Writing
  <2>6. NamesDue(a, v) = a.len[v] + 0
    BY <2>4 DEF NamesDue
  <2>7. values[v].bytes + Writing(v) = values[v].room
    BY <2>1, <2>5, <1>4, <1>5
  <2>8. values[v].type = "object" => Len(values[v].names) = values[v].length
    BY <2>6, <1>4, <1>5, <1>6
  <2>9. alloc = 0
    BY <2>2, <1>1, <1>2
  <2> QED
    BY <2>1, <2>7, <2>8, <2>9, <1>4, <1>5
<1> QED
  BY <1>9, <1>10, <1>11

(* The invariant implies that nothing is written beyond what was counted.  *)
LEMMA InvFilled == ParserInv => FilledAsCounted
<1> SUFFICES ASSUME ParserInv, pass = 0, stage \in {"parsing", "parsed"} PROVE FilledAsCounted
  BY DEF FilledAsCounted
<1>1. Typed /\ Reading
  BY DEF ParserInv
<1> DEFINE S == family.tokens
<1>2. Len(text) \in Nat /\ Shapes(values)
  <2>1. text \in Seq(S) /\ Shapes(values)
    BY <1>1 DEF Typed
  <2> HIDE DEF S
  <2> QED
    BY <2>1
<1>3. PICK run : Run(text, ended, values, run) /\ SecondPass(run)
  BY <1>1 DEF Reading
<1>4. PICK k \in 1..Len(run) :
          Whole(Last(run)) /\ Filling(Last(run), run[k]) /\ (stage = "parsed" => k = Len(run))
  BY <1>3 DEF SecondPass
<1>5. ASSUME NEW v \in {i \in 1..Len(values) : alloc = 0 \/ i < alloc}
      PROVE  /\ values[v].length + Keys(v) <= values[v].capacity
             /\ values[v].bytes + Writing(v) <= values[v].room
             /\ stage = "parsed" =>
                   /\ alloc = 0
                   /\ values[v].length = values[v].capacity /\ values[v].length = Len(values[v].kids)
                   /\ values[v].bytes + Writing(v) = values[v].room
                   /\ values[v].type = "object" => Len(values[v].names) = values[v].length
  BY <1>2, <1>3, <1>4, WrittenIs
<1> QED
  BY <1>5 DEF FilledAsCounted, Keys, Writing

(* The second pass, which checks no bound, writes no element, no key and   *)
(* no byte beyond what the first pass counted, and leaves none of it       *)
(* unwritten (new_value and the writes of json_parse_ex).                  *)
THEOREM FilledAsCountedHolds == Spec => []FilledAsCounted
  BY ParserInvariant, InvFilled, PTL

(* A text is only rejected in the first pass, where e_failed has nothing   *)
(* but a chain to free.                                                    *)
NeverRejectedTwice == error = "syntax" => pass = 1

(* A text the first pass accepts is never rejected by the second, whose    *)
(* error path would free a tree that is partly built (e_failed).           *)
THEOREM SecondPassAccepts == Spec => []NeverRejectedTwice
<1>1. ParserInv => NeverRejectedTwice
  BY DEF ParserInv, Staged, NeverRejectedTwice
<1> QED
  BY <1>1, ParserInvariant, PTL

-----------------------------------------------------------------------------
(* What is freed                                                           *)

(* The walk of json_value_free_ex stands at f: live are the values it has  *)
(* yet to free, path those from the root to f.  A live value keeps, of its *)
(* kids, the first length ones: those are its live values off the path.    *)
Walk(vs, live, f, path) ==
    /\ live \subseteq 1..Len(vs) /\ path \subseteq live /\ f \in path
    /\ Chain(vs, path, f)
    /\ \A v \in live : v # 1 => vs[v].parent \in live /\ vs[vs[v].parent].type \in Containers
    /\ \A v \in live :
         /\ vs[v].length <= Len(vs[v].kids)
         /\ \A i \in 1..vs[v].length : vs[v].kids[i] \in live \ path /\ vs[vs[v].kids[i]].parent = v
         /\ \A i, j \in 1..vs[v].length : vs[v].kids[i] = vs[v].kids[j] => i = j
         /\ \A w \in live \ path : vs[w].parent = v => \E i \in 1..vs[v].length : vs[v].kids[i] = w

(* What an allocation that failed in the second pass leaves behind.        *)
Lost(v) ==
    /\ error = "memory" /\ pass = 0
    /\ \E c \in UnfinishedChild : c <= v /\ (v < alloc \/ alloc = 0)

(* The blocks in hp are those of the live values, but for what is lost.    *)
Held(live, hp) ==
    /\ \A v \in live : Block(v) \in hp
    /\ \A v \in 1..Len(values) : hp \cap {Block(v), DataBlock(v)} # {} => v \in live \/ Lost(v)

(* No memory for the root: there are no kids where its length says so.     *)
Rootless(f, hp) ==
    /\ error = "memory" /\ pass = 0 /\ f = 1 /\ root = 1 /\ top = 1 /\ Len(values) # 0
    /\ values[1].kids = <<>>
    /\ hp \subseteq {Block(1), DataBlock(1)}

Freeable(f, hp) == Rootless(f, hp) \/ \E live, path \in SUBSET (1..Len(values)) : Walk(values, live, f, path) /\ Held(live, hp)

(* What Failed leaves allocated.                                           *)
Kept == heap \ {Block(v) : v \in {i \in 1..Len(values) : FirstToFree # 0 /\ i >= FirstToFree}}

FreeInv ==
    /\ stage = "failed" => IF pass = 1 THEN Kept = {} ELSE Freeable(root, Kept)
    /\ stage = "freeing" => Freeable(freeing, heap)
    /\ stage \in {"ended", "crashed"} => AllFreed

(* A set of natural numbers that is not empty has a least element.         *)
LEMMA LeastNatural ==
  ASSUME NEW T, T \subseteq Nat, T # {}
  PROVE  \E x \in T : \A y \in T : x <= y
<1> DEFINE R == {ss \in Nat \X Nat : ss[1] < ss[2]}
<1>1. IsWellFoundedOn(R, Nat)
  BY NatLessThanWellFounded DEF OpToRel
<1>2. \E x \in T : \A y \in T : ~ (<<y, x>> \in R)
  <2> HIDE DEF R
  <2> QED
    BY <1>1, WFMin
<1>3. ASSUME NEW x \in T, NEW y \in T, ~ (<<y, x>> \in R) PROVE x <= y
  <2>1. x \in Nat /\ y \in Nat
    OBVIOUS
  <2>2. <<y, x>> \in Nat \X Nat /\ <<y, x>>[1] = y /\ <<y, x>>[2] = x
    BY <2>1
  <2>3. ~(y < x)
    BY <1>3, <2>2
  <2> QED
    BY <2>1, <2>3
<1> QED
  BY <1>2, <1>3

(* What a live value keeps of its kids.                                    *)
Keeps(vs, live, path, v) ==
    /\ vs[v].length <= Len(vs[v].kids)
    /\ \A i \in 1..vs[v].length : vs[v].kids[i] \in live \ path /\ vs[vs[v].kids[i]].parent = v
    /\ \A i, j \in 1..vs[v].length : vs[v].kids[i] = vs[v].kids[j] => i = j
    /\ \A w \in live \ path : vs[w].parent = v => \E i \in 1..vs[v].length : vs[v].kids[i] = w

(* A walk is a chain of parents, and every live value keeps its kids.      *)
LEMMA WalkIs ==
  ASSUME NEW vs, NEW live, NEW f, NEW path
  PROVE  Walk(vs, live, f, path) <=>
         /\ live \subseteq 1..Len(vs) /\ path \subseteq live /\ f \in path
         /\ Chain(vs, path, f)
         /\ \A v \in live : v # 1 => vs[v].parent \in live /\ vs[vs[v].parent].type \in Containers
         /\ \A v \in live : Keeps(vs, live, path, v)
  BY DEF Walk, Keeps

(* How many kids a value has.                                              *)
LEMMA KidsCount ==
  ASSUME NEW vs, Shapes(vs), NEW v \in 1..Len(vs)
  PROVE  Len(vs[v].kids) \in Nat /\ vs[v].length \in Nat
<1>1. vs[v] \in ValueRecord
  BY DEF Shapes
<1> QED
  BY <1>1 DEF ValueRecord

(* Down to the last kid that is left.                                      *)
LEMMA WalkDown ==
  ASSUME NEW vs, Shapes(vs), NEW live, NEW f, NEW path, Walk(vs, live, f, path),
         vs[f].length \in Nat, vs[f].length > 0,
         NEW vt, Len(vt) = Len(vs),
         \A v \in 1..Len(vs) : /\ vt[v].parent = vs[v].parent /\ vt[v].type = vs[v].type /\ vt[v].kids = vs[v].kids
                               /\ v # f => vt[v].length = vs[v].length,
         vt[f].length = vs[f].length - 1,
         NEW x, x = vs[f].kids[vs[f].length]
  PROVE  x \in 1..Len(vs) /\ Walk(vt, live, x, path \cup {x})
<1>1. /\ live \subseteq 1..Len(vs) /\ path \subseteq live /\ f \in path
      /\ Chain(vs, path, f)
      /\ \A v \in live : v # 1 => vs[v].parent \in live /\ vs[vs[v].parent].type \in Containers
      /\ \A v \in live : Keeps(vs, live, path, v)
  BY WalkIs
<1>2. Len(vs) \in Nat /\ \A w \in 1..Len(vs) : vs[w].parent \in Nat /\ vs[w].parent < w
  BY ShapesIs
<1>3. f \in live /\ f \in 1..Len(vs) /\ vs[f].length \in 1..vs[f].length
  BY <1>1, <1>2
<1>4. x \in live \ path /\ x \in 1..Len(vs) /\ vs[x].parent = f /\ f < x
  <2>1. x \in live \ path /\ vs[x].parent = f
    BY <1>1, <1>3 DEF Keeps
  <2> QED
    BY <2>1, <1>1, <1>2
<1>5. Chain(vt, path \cup {x}, x)
  <2>1. \A v \in path : v <= f /\ (vs[v].parent = 0 \/ vs[v].parent \in path)
    BY <1>1 DEF Chain
  <2>2. \A v, w \in path : w < v => w <= vs[v].parent
    BY <1>1 DEF Chain
  <2>3. ASSUME NEW v \in path \cup {x}
        PROVE  v <= x /\ (vt[v].parent = 0 \/ vt[v].parent \in path \cup {x})
    <3>1. v \in 1..Len(vs)
      BY <1>1, <1>4
    <3> QED
      BY <3>1, <1>1, <1>2, <1>3, <1>4, <2>1
  <2>4. ASSUME NEW v \in path \cup {x}, NEW w \in path \cup {x}, w < v
        PROVE  w <= vt[v].parent
    <3>1. v \in 1..Len(vs) /\ w \in 1..Len(vs) /\ vt[v].parent = vs[v].parent
      BY <1>1, <1>4
    <3>2. CASE v = x
      BY <3>1, <3>2, <2>1, <2>4, <1>2, <1>4
    <3>3. CASE v # x
      <4>1. v \in path /\ v <= f /\ w # x
        BY <3>1, <3>3, <2>1, <2>4, <1>2, <1>4
      <4> QED
        BY <4>1, <3>1, <2>2, <2>4
    <3> QED
      BY <3>2, <3>3
  <2> QED
    BY <2>3, <2>4 DEF Chain
<1>6. \A v \in live : v # 1 => vt[v].parent \in live /\ vt[vt[v].parent].type \in Containers
  BY <1>1
<1>7. ASSUME NEW v \in live PROVE Keeps(vt, live, path \cup {x}, v)
  <2>1. Keeps(vs, live, path, v) /\ v \in 1..Len(vs) /\ vt[v].kids = vs[v].kids
    BY <1>1
  <2>2. \A w \in live : vt[w].parent = vs[w].parent
    BY <1>1
  <2>3. CASE v # f
    <3>1. vt[v].length = vs[v].length
      BY <2>1, <2>3
    <3>2. \A i \in 1..vs[v].length : vs[v].kids[i] \in live \ path /\ vs[vs[v].kids[i]].parent = v
      BY <2>1 DEF Keeps
    <3>3. \A i \in 1..vs[v].length : vs[v].kids[i] # x
      BY <3>2, <2>3, <1>4
    <3>4. \A i \in 1..vt[v].length : vt[v].kids[i] \in live \ (path \cup {x}) /\ vt[vt[v].kids[i]].parent = v
      <4> SUFFICES ASSUME NEW i \in 1..vs[v].length
                   PROVE  vs[v].kids[i] \in live \ (path \cup {x}) /\ vt[vs[v].kids[i]].parent = v
        BY <3>1, <2>1
      <4> QED
        BY <3>2, <3>3, <2>2
    <3>5. \A w \in live \ (path \cup {x}) : vt[w].parent = v => \E i \in 1..vt[v].length : vt[v].kids[i] = w
      BY <3>1, <2>1, <2>2 DEF Keeps
    <3>6. /\ vt[v].length <= Len(vt[v].kids)
          /\ \A i, j \in 1..vt[v].length : vt[v].kids[i] = vt[v].kids[j] => i = j
      BY <3>1, <2>1 DEF Keeps
    <3> QED
      BY <3>4, <3>5, <3>6 DEF Keeps
  <2>4. CASE v = f
    <3> DEFINE n == vs[f].length
    <3>1. vt[f].length = n - 1 /\ n \in Nat /\ n > 0
      OBVIOUS
    <3>2. /\ n <= Len(vs[f].kids)
          /\ \A i \in 1..n : vs[f].kids[i] \in live \ path /\ vs[vs[f].kids[i]].parent = f
          /\ \A i, j \in 1..n : vs[f].kids[i] = vs[f].kids[j] => i = j
          /\ \A w \in live \ path : vs[w].parent = f => \E i \in 1..n : vs[f].kids[i] = w
      BY <2>1, <2>4 DEF Keeps
    <3>3. x = vs[f].kids[n]
      OBVIOUS
    <3>4. n \in 1..n
      BY <1>3
    <3> HIDE DEF n
    <3>5. \A i \in 1..(n - 1) : i \in 1..n /\ i # n
      BY <3>1
    <3>6. \A i \in 1..n : i # n => i \in 1..(n - 1)
      BY <3>1
    <3>7. n - 1 <= Len(vt[f].kids)
      <4>1. vt[f].kids = vs[f].kids
        BY <2>1, <2>4
      <4>2. Len(vs[f].kids) \in Nat
        BY <1>3, KidsCount
      <4> QED
        BY <4>1, <4>2, <3>1, <3>2
    <3>8. \A i \in 1..(n - 1) : vs[f].kids[i] \in live \ (path \cup {x}) /\ vs[vs[f].kids[i]].parent = f
      BY <3>2, <3>3, <3>4, <3>5
    <3>9. \A w \in live \ (path \cup {x}) : vs[w].parent = f => \E i \in 1..(n - 1) : vs[f].kids[i] = w
      BY <3>2, <3>3, <3>6
    <3>10. \A i, j \in 1..(n - 1) : vs[f].kids[i] = vs[f].kids[j] => i = j
      BY <3>2, <3>5
    <3>11. vt[v].length = n - 1 /\ vt[v].kids = vs[f].kids
      BY <3>1, <2>1, <2>4
    <3>12. \A i \in 1..vt[v].length : vt[v].kids[i] \in live \ (path \cup {x}) /\ vt[vt[v].kids[i]].parent = v
      BY <3>8, <3>11, <2>2, <2>4
    <3>13. \A w \in live \ (path \cup {x}) : vt[w].parent = v => \E i \in 1..vt[v].length : vt[v].kids[i] = w
      BY <3>9, <3>11, <2>2, <2>4
    <3>14. /\ vt[v].length <= Len(vt[v].kids)
           /\ \A i, j \in 1..vt[v].length : vt[v].kids[i] = vt[v].kids[j] => i = j
      BY <3>7, <3>10, <3>11, <2>4
    <3> QED
      BY <3>12, <3>13, <3>14 DEF Keeps
  <2> QED
    BY <2>3, <2>4
<1>8. live \subseteq 1..Len(vt) /\ path \cup {x} \subseteq live /\ x \in path \cup {x}
  BY <1>1, <1>4
<1> QED
  BY <1>4, <1>5, <1>6, <1>7, <1>8, WalkIs

(* Up from a value that has no kids left: it is freed.                     *)
LEMMA WalkUp ==
  ASSUME NEW vs, Shapes(vs), NEW live, NEW f, NEW path, Walk(vs, live, f, path),
         vs[f].type \notin Containers \/ vs[f].length = 0,
         NEW rest, rest = live \ {f}, NEW back, back = path \ {f}
  PROVE  /\ vs[f].parent = 0 => f = 1 /\ rest = {}
         /\ vs[f].parent # 0 => Walk(vs, rest, vs[f].parent, back)
<1>1. /\ live \subseteq 1..Len(vs) /\ path \subseteq live /\ f \in path
      /\ Chain(vs, path, f)
      /\ \A v \in live : v # 1 => vs[v].parent \in live /\ vs[vs[v].parent].type \in Containers
      /\ \A v \in live : Keeps(vs, live, path, v)
  BY WalkIs
<1>2. Len(vs) \in Nat /\ \A w \in 1..Len(vs) : vs[w].parent \in Nat /\ vs[w].parent < w
  BY ShapesIs
<1>3. f \in live /\ f \in 1..Len(vs)
  BY <1>1
<1>4. \A v \in path : v <= f /\ (vs[v].parent = 0 \/ vs[v].parent \in path)
  BY <1>1 DEF Chain
<1>5. \A v, w \in path : w < v => w <= vs[v].parent
  BY <1>1 DEF Chain
<1>6. ASSUME NEW w \in live, vs[w].parent = f PROVE FALSE
  <2>1. w \in 1..Len(vs) /\ f < w
    BY <1>1, <1>2, <1>6
  <2>2. w \notin path
    BY <2>1, <1>2, <1>3, <1>4
  <2>3. w # 1
    BY <2>1, <1>2, <1>3
  <2>4. vs[f].type \in Containers
    BY <2>3, <1>1, <1>6
  <2>5. vs[f].length = 0
    BY <2>4
  <2>6. \E i \in 1..vs[f].length : vs[f].kids[i] = w
    BY <2>2, <1>1, <1>3, <1>6 DEF Keeps
  <2> QED
    BY <2>5, <2>6
<1>7. ASSUME vs[f].parent = 0 PROVE f = 1 /\ live = {f}
  <2>1. f = 1
    <3>1. 0 \notin live
      BY <1>1, <1>2
    <3> QED
      BY <3>1, <1>1, <1>3, <1>7
  <2>2. ASSUME live # {f} PROVE FALSE
    <3> DEFINE T == live \ {f}
    <3>1. T \subseteq Nat /\ T # {}
      BY <2>2, <1>1, <1>2, <1>3
    <3>2. PICK x \in T : \A y \in T : x <= y
      <4> HIDE DEF T
      <4> QED
        BY <3>1, LeastNatural
    <3>3. x \in live /\ x # 1 /\ vs[x].parent # f /\ x \in 1..Len(vs)
      BY <2>1, <1>1, <1>6
    <3>4. vs[x].parent \in T
      BY <3>3, <1>1
    <3> QED
      BY <3>2, <3>3, <3>4, <1>2
  <2> QED
    BY <2>1, <2>2
<1>8. ASSUME vs[f].parent # 0
      PROVE  Walk(vs, live \ {f}, vs[f].parent, path \ {f})
  <2> DEFINE p == vs[f].parent
  <2>1. p \in path /\ p < f /\ p # f /\ p \in 1..Len(vs)
    BY <1>1, <1>2, <1>3, <1>4, <1>8
  <2>2. Chain(vs, path \ {f}, p)
    <3>1. ASSUME NEW v \in path \ {f}
          PROVE  v <= p /\ (vs[v].parent = 0 \/ vs[v].parent \in path \ {f})
      <4>1. v \in 1..Len(vs) /\ v < f
        BY <1>1, <1>2, <1>3, <1>4
      <4>2. v <= p
        BY <4>1, <1>1, <1>5
      <4>3. vs[v].parent # f
        BY <1>1, <1>6
      <4> QED
        BY <4>2, <4>3, <1>4
    <3> QED
      BY <3>1, <1>5 DEF Chain
  <2>3. \A v \in live \ {f} : v # 1 => vs[v].parent \in live \ {f} /\ vs[vs[v].parent].type \in Containers
    BY <1>1, <1>6
  <2>4. ASSUME NEW v \in live \ {f} PROVE Keeps(vs, live \ {f}, path \ {f}, v)
    <3>1. Keeps(vs, live, path, v)
      BY <1>1
    <3>2. (live \ {f}) \ (path \ {f}) = live \ path
      BY <1>1
    <3>3. /\ vs[v].length <= Len(vs[v].kids)
          /\ \A i \in 1..vs[v].length : vs[v].kids[i] \in live \ path /\ vs[vs[v].kids[i]].parent = v
          /\ \A i, j \in 1..vs[v].length : vs[v].kids[i] = vs[v].kids[j] => i = j
          /\ \A w \in live \ path : vs[w].parent = v => \E i \in 1..vs[v].length : vs[v].kids[i] = w
      BY <3>1 DEF Keeps
    <3> HIDE DEF p
    <3> QED
      BY <3>2, <3>3 DEF Keeps
  <2>5. live \ {f} \subseteq 1..Len(vs) /\ path \ {f} \subseteq live \ {f} /\ p \in path \ {f}
    BY <2>1, <1>1
  <2> QED
    BY <2>2, <2>3, <2>4, <2>5, WalkIs
<1> QED
  BY <1>3, <1>7, <1>8

(* From the root: of the values before c all are live, and of those none   *)
(* but the root is unfinished.                                             *)
LEMMA WalkStarts ==
  ASSUME NEW vs, Shapes(vs), NEW a, a.n \in Nat, a.n <= Len(vs), a.open \subseteq 1..a.n,
         Nested(vs, a), Linked(vs, a), \A v \in 1..a.n : Len(vs[v].kids) = vs[v].length,
         NEW c \in 2..(a.n + 1),
         \A v \in a.open : v < c => v = 1,
         \A v \in 1..a.n : v >= c => v \in a.open \/ vs[v].parent >= c
  PROVE  Walk(vs, 1..(c - 1), 1, {1})
<1> DEFINE live == 1..(c - 1)
<1>1. Len(vs) \in Nat /\ \A w \in 1..Len(vs) : vs[w].parent \in Nat /\ vs[w].parent < w
  BY ShapesIs
<1>2. 1 \in live /\ live \subseteq 1..a.n /\ live \subseteq 1..Len(vs)
  BY <1>1
<1>3. vs[1].parent = 0
  <2>1. 1 \in 1..Len(vs)
    BY <1>2
  <2>2. vs[1].parent \in Nat /\ vs[1].parent < 1
    BY <2>1, <1>1
  <2> QED
    BY <2>2
<1>4. Chain(vs, {1}, 1)
  BY <1>3 DEF Chain
<1>5. \A v \in live : v # 1 => vs[v].parent \in live /\ vs[vs[v].parent].type \in Containers
  <2> SUFFICES ASSUME NEW v \in live, v # 1
               PROVE  vs[v].parent \in live /\ vs[vs[v].parent].type \in Containers
    OBVIOUS
  <2>1. v \in 2..a.n /\ v \in 1..Len(vs)
    BY <1>2
  <2>2. vs[v].parent # 0 /\ vs[vs[v].parent].type \in Containers
    BY <2>1 DEF Nested
  <2>3. vs[v].parent \in Nat /\ vs[v].parent < v
    BY <2>1, <1>1
  <2> QED
    BY <2>2, <2>3
<1>6. ASSUME NEW v \in live PROVE Keeps(vs, live, {1}, v)
  <2>1. v \in 1..a.n /\ v \in 1..Len(vs) /\ Len(vs[v].kids) = vs[v].length
    BY <1>2
  <2>2. /\ \A i \in 1..Len(vs[v].kids) : vs[v].kids[i] \in (1..a.n) \ a.open /\ vs[vs[v].kids[i]].parent = v
        /\ \A i, j \in 1..Len(vs[v].kids) : vs[v].kids[i] = vs[v].kids[j] => i = j
        /\ \A w \in (1..a.n) \ a.open : vs[w].parent = v => \E i \in 1..Len(vs[v].kids) : vs[v].kids[i] = w
    BY <2>1 DEF Linked
  <2>3. ASSUME NEW w \in 1..a.n, w \notin a.open, vs[w].parent = v
        PROVE  w \in live \ {1}
    <3>1. w # 1
      BY <2>1, <2>3, <1>3
    <3>2. ~(w >= c)
      BY <2>3
    <3> QED
      BY <3>1, <3>2
  <2>4. \A i \in 1..vs[v].length : vs[v].kids[i] \in live \ {1} /\ vs[vs[v].kids[i]].parent = v
    <3> SUFFICES ASSUME NEW i \in 1..Len(vs[v].kids)
                 PROVE  vs[v].kids[i] \in live \ {1} /\ vs[vs[v].kids[i]].parent = v
      BY <2>1
    <3> HIDE DEF live
    <3> QED
      BY <2>2, <2>3
  <2>5. \A w \in live \ {1} : vs[w].parent = v => \E i \in 1..vs[v].length : vs[v].kids[i] = w
    <3> SUFFICES ASSUME NEW w \in live \ {1}, vs[w].parent = v
                 PROVE  \E i \in 1..vs[v].length : vs[v].kids[i] = w
      OBVIOUS
    <3>1. w \in 1..a.n /\ w < c /\ w # 1
      BY <1>2
    <3>2. w \notin a.open
      BY <3>1
    <3> QED
      BY <3>1, <3>2, <2>1, <2>2
  <2>6. /\ vs[v].length <= Len(vs[v].kids)
        /\ \A i, j \in 1..vs[v].length : vs[v].kids[i] = vs[v].kids[j] => i = j
    <3>1. Len(vs[v].kids) \in Nat
      BY <2>1, KidsCount
    <3> QED
      BY <3>1, <2>1, <2>2
  <2> HIDE DEF live
  <2> QED
    BY <2>4, <2>5, <2>6 DEF Keeps
<1>7. live \subseteq 1..Len(vs) /\ {1} \subseteq live /\ 1 \in {1}
  BY <1>2
<1> HIDE DEF live
<1>8. Walk(vs, live, 1, {1})
  BY <1>4, <1>5, <1>6, <1>7, WalkIs
<1> QED
  BY <1>8 DEF live

(* A value is about to begin: there is an unfinished child of the root, it *)
(* or an earlier one, after which all is under it.                         *)
LEMMA ChildOfRoot ==
  ASSUME NEW vs, Shapes(vs), NEW a, a.n \in Nat, a.n # 0, a.n + 1 <= Len(vs), a.open \subseteq 1..a.n,
         a.top \in a.open, Chain(vs, a.open, a.top), Nested(vs, a), vs[a.n + 1].parent = a.top
  PROVE  \E c \in 2..(a.n + 1) :
            /\ vs[c].parent = 1 /\ \A w \in (c + 1)..(a.n + 1) : vs[w].parent # 1
            /\ \A v \in a.open : v < c => v = 1
            /\ \A v \in 1..a.n : v >= c => v \in a.open \/ vs[v].parent >= c
<1>1. Len(vs) \in Nat /\ \A w \in 1..Len(vs) : vs[w].parent \in Nat /\ vs[w].parent < w
  BY ShapesIs
<1>2. \A v \in a.open : v <= a.top /\ (vs[v].parent = 0 \/ vs[v].parent \in a.open)
  BY DEF Chain
<1>3. /\ \A v \in 2..a.n : vs[v].parent # 0
      /\ \A v \in a.open : \A w \in 1..a.n : v < w => v <= vs[w].parent
  BY DEF Nested
<1>4. a.top \in 1..a.n
  OBVIOUS
<1>5. CASE a.top = 1
  <2>1. \A v \in a.open : v = 1
    BY <1>2, <1>4, <1>5
  <2>2. a.n + 1 \in 2..(a.n + 1)
    BY <1>4
  <2>3. vs[a.n + 1].parent = 1
    BY <1>5
  <2>4. \A w \in (a.n + 1 + 1)..(a.n + 1) : FALSE
    OBVIOUS
  <2>5. \A v \in 1..a.n : ~(v >= a.n + 1)
    OBVIOUS
  <2> QED
    BY <2>1, <2>2, <2>3, <2>4, <2>5
<1>6. CASE a.top # 1
  <2> DEFINE T == a.open \ {1}
  <2>1. T \subseteq Nat /\ T # {} /\ a.top \in T
    BY <1>4, <1>6
  <2>2. PICK x \in T : \A y \in T : x <= y
    <3> HIDE DEF T
    <3> QED
      BY <2>1, LeastNatural
  <2>3. x \in a.open /\ x \in 2..a.n
    <3>1. x \in a.open /\ x # 1 /\ x \in 1..a.n
      OBVIOUS
    <3> QED
      BY <3>1
  <2>4. vs[x].parent \in a.open /\ vs[x].parent < x
    <3>1. x \in 1..Len(vs)
      BY <2>3, <1>1
    <3> QED
      BY <3>1, <2>3, <1>1, <1>2, <1>3
  <2>5. vs[x].parent = 1
    <3>1. vs[x].parent \notin T
      BY <2>2, <2>3, <2>4
    <3> QED
      BY <3>1, <2>4
  <2>6. \A v \in a.open : v < x => v = 1
    <3> SUFFICES ASSUME NEW v \in a.open, v < x, v # 1 PROVE FALSE
      OBVIOUS
    <3>1. v \in T /\ v \in Nat
      OBVIOUS
    <3> QED
      BY <3>1, <2>2, <2>3
  <2>7. ASSUME NEW v \in 1..a.n, v >= x PROVE v \in a.open \/ vs[v].parent >= x
    <3>1. CASE v = x
      BY <3>1, <2>3
    <3>2. CASE v # x
      <4>1. x < v
        BY <3>2, <2>3, <2>7
      <4>2. x <= vs[v].parent
        BY <4>1, <2>3, <1>3
      <4>3. vs[v].parent \in Nat
        BY <1>1
      <4> QED
        BY <4>2, <4>3, <2>3
    <3> QED
      BY <3>1, <3>2
  <2>8. ASSUME NEW w \in (x + 1)..(a.n + 1) PROVE vs[w].parent # 1
    <3>1. CASE w = a.n + 1
      BY <3>1, <1>6
    <3>2. CASE w # a.n + 1
      <4>1. w \in 1..a.n /\ x < w
        BY <3>2, <2>3
      <4>2. x <= vs[w].parent
        BY <4>1, <2>3, <1>3
      <4> QED
        BY <4>2, <2>3
    <3> QED
      BY <3>1, <3>2
  <2>9. x \in 2..(a.n + 1)
    BY <2>3
  <2> QED
    BY <2>5, <2>6, <2>7, <2>8, <2>9
<1> QED
  BY <1>5, <1>6

(* What is left allocated of hp, once the chain is freed from first on.    *)
Rest(hp, first, size) == hp \ {Block(v) : v \in {i \in 1..size : first # 0 /\ i >= first}}

(* It is the value blocks from first on that are gone.                     *)
LEMMA RestIs ==
  ASSUME NEW hp, NEW first, NEW size, NEW v \in 1..size
  PROVE  /\ Block(v) \in Rest(hp, first, size) <=> Block(v) \in hp /\ ~(first # 0 /\ v >= first)
         /\ DataBlock(v) \in Rest(hp, first, size) <=> DataBlock(v) \in hp
         /\ Rest(hp, first, size) \subseteq hp
<1>1. \A w : Block(v) = Block(w) <=> v = w
  BY DEF Block
<1>2. \A w : DataBlock(v) # Block(w)
  BY DEF Block, DataBlock
<1>3. Block(v) \in Rest(hp, first, size) <=> Block(v) \in hp /\ ~(first # 0 /\ v >= first)
  <2> HIDE DEF Block
  <2> QED
    BY <1>1 DEF Rest
<1>4. DataBlock(v) \in Rest(hp, first, size) <=> DataBlock(v) \in hp
  BY <1>2 DEF Rest
<1> QED
  BY <1>3, <1>4 DEF Rest

-----------------------------------------------------------------------------
(* From the run to the walk                                                *)

(* A whole tree is walked from its root.                                   *)
LEMMA ParsedFreeable ==
  ASSUME Reading, stage = "parsed", pass = 0, Len(text) \in Nat, Shapes(values)
  PROVE  Freeable(root, heap)
<1>1. PICK run : Run(text, ended, values, run) /\ SecondPass(run)
  BY DEF Reading
<1>2. Whole(Last(run)) /\ Filling(Last(run), run[Len(run)])
  BY <1>1 DEF SecondPass
<1>3. PICK a : a = Last(run)
  OBVIOUS
<1>4. a = run[Len(run)] /\ Len(run) \in 1..Len(run)
  <2>1. Len(run) \in Nat /\ Len(run) >= 1
    BY <1>1, RunIs
  <2> QED
    BY <2>1, <1>3 DEF Last
<1>5. Sound(Len(text), values, a) /\ a.n \in Nat
  BY <1>1, <1>4, RunIs
<1>6. a.open \subseteq 1..a.n /\ Nested(values, a) /\ Mode(values, a)
  BY <1>5, SoundIs
<1>7. "done" \in a.fl /\ a.n = Len(values)
  BY <1>2, <1>3 DEF Whole
<1>8. a.open = {} /\ a.n # 0
  BY <1>6, <1>7 DEF Mode
<1>9. /\ At(a) /\ Filled(values, a, a) /\ Linked(values, a)
      /\ \A v \in 1..Len(values) : Block(v) \in heap
  BY <1>2, <1>3, <1>4 DEF Filling
<1>10. root = 1
  BY <1>8, <1>9 DEF At
<1>11. \A v \in 1..a.n : Len(values[v].kids) = values[v].length
  <2> SUFFICES ASSUME NEW v \in 1..a.n PROVE Len(values[v].kids) = values[v].length
    OBVIOUS
  <2>1. v \in 1..Len(values) /\ ~(v > a.n)
    BY <1>5, <1>7
  <2> QED
    BY <2>1, <1>9 DEF Filled
<1>12. PICK c : c = a.n + 1
  OBVIOUS
<1>13. c \in 2..(a.n + 1) /\ 1..(c - 1) = 1..Len(values) /\ a.n <= Len(values)
  BY <1>5, <1>7, <1>8, <1>12
<1>14. \A v \in 1..a.n : ~(v >= c)
  BY <1>5, <1>12
<1>15. Walk(values, 1..(c - 1), 1, {1})
  BY <1>5, <1>6, <1>8, <1>9, <1>11, <1>13, <1>14, WalkStarts
<1>16. {1} \subseteq 1..Len(values)
  BY <1>5, <1>7, <1>8
<1>17. Held(1..Len(values), heap)
  BY <1>9 DEF Held
<1>18. \E live, path \in SUBSET (1..Len(values)) : Walk(values, live, 1, path) /\ Held(live, heap)
  BY <1>13, <1>15, <1>16, <1>17
<1> QED
  BY <1>10, <1>18 DEF Freeable

(* The first pass leaves a chain, all of which is freed at once.           *)
LEMMA ChainFreed ==
  ASSUME Reading, stage = "parsing", pass = 1, Len(text) \in Nat, Shapes(values)
  PROVE  heap = {Block(v) : v \in 1..Len(values)} /\ (Len(values) # 0 => root = 1)
<1>1. PICK run : Run(text, ended, values, run) /\ FirstPass(run)
  BY DEF Reading
<1>2. Chained /\ (Counting(Last(run)) \/ InsideNumber(Last(run)) \/ Doomed)
  BY <1>1 DEF FirstPass
<1>3. Len(values) # 0 => root = 1
  BY <1>2 DEF Counting, At, InsideNumber, Doomed
<1> QED
  BY <1>2, <1>3 DEF Chained

(* Nothing is left of it: the root is the first of the chain.              *)
LEMMA NothingKept ==
  ASSUME Len(values) \in Nat, pass = 1, heap = {Block(v) : v \in 1..Len(values)}, Len(values) # 0 => root = 1
  PROVE  Kept = {}
<1>1. FirstToFree = root
  BY DEF FirstToFree
<1>2. \A v \in 1..Len(values) : v \in {i \in 1..Len(values) : root # 0 /\ i >= root}
  <2> SUFFICES ASSUME NEW v \in 1..Len(values) PROVE root # 0 /\ v >= root
    OBVIOUS
  <2>1. root = 1
    OBVIOUS
  <2> QED
    BY <2>1
<1> QED
  BY <1>1, <1>2 DEF Kept

(* The second pass gets no memory for a value: the finished kids of the    *)
(* root are walked, what is under its unfinished child is lost.            *)
LEMMA StarvedFreeable ==
  ASSUME NEW run, NEW k, NEW c \in Starters, NEW S, Ready(run, k), text \in Seq(S), BeginsValue(c),
         AllocationFails, pass = 0
  PROVE  Freeable(root, Kept)'
<1>0. PICK a : a = run[k]
  OBVIOUS
<1>1. /\ Sound(Len(text), values, a) /\ At(a) /\ Filling(Last(run), a)
      /\ a.n \in Nat /\ Len(values) \in Nat /\ Len(text) \in Nat /\ Shapes(values)
  BY <1>0, ReadyIs
<1>2. Begins(a) /\ a.n + 1 <= Len(values) /\ Newest(values, a, TypesFor(c))
  BY <1>0, BeginsIs
<1>3. /\ a.open \subseteq 1..a.n /\ Chain(values, a.open, a.top) /\ Nested(values, a) /\ Mode(values, a)
  BY <1>1, SoundIs
<1>4. /\ Filled(values, Last(run), a) /\ Linked(values, a) /\ alloc = a.n + 1
      /\ heap \subseteq UNION {{Block(v), DataBlock(v)} : v \in 1..Len(values)}
      /\ \A v \in 1..Len(values) : Block(v) \in heap /\ (DataBlock(v) \in heap => v <= a.n)
  BY <1>1, <1>2 DEF Filling
<1>5. /\ UNCHANGED <<pass, values, heap>> /\ error' = "memory"
      /\ top' = a.n + 1 /\ alloc' = (IF a.n + 1 < Len(values) THEN a.n + 1 + 1 ELSE 0)
      /\ root' = IF root = 0 THEN a.n + 1 ELSE root
  BY <1>4 DEF AllocationFails, NewTop, NewAlloc
<1>6. Kept' = Rest(heap, alloc', Len(values))
  BY <1>5 DEF Kept, FirstToFree, Rest
<1>7. PICK hp : hp = Kept'
  OBVIOUS
<1>8. ASSUME NEW v \in 1..Len(values)
      PROVE  /\ Block(v) \in hp <=> (v < alloc' \/ alloc' = 0)
             /\ DataBlock(v) \in hp => v <= a.n
  <2>1. alloc' \in Nat
    BY <1>1, <1>5
  <2>2. ~(alloc' # 0 /\ v >= alloc') <=> (v < alloc' \/ alloc' = 0)
    BY <2>1
  <2> QED
    BY <2>2, <1>4, <1>6, <1>7, RestIs
<1>9. CASE a.n = 0
  <2>1. root' = 1 /\ top' = 1 /\ Len(values) # 0
    BY <1>1, <1>2, <1>5, <1>9 DEF At
  <2>2. values[1].kids = <<>>
    <3>1. 1 \in 1..Len(values) /\ 1 > a.n
      BY <1>1, <1>2, <1>9
    <3> QED
      BY <3>1, <1>4 DEF Filled
  <2>3. ASSUME NEW b \in hp PROVE b \in {Block(1), DataBlock(1)}
    <3>1. b \in heap
      BY <2>3, <1>6, <1>7 DEF Rest
    <3>2. PICK v \in 1..Len(values) : b \in {Block(v), DataBlock(v)}
      BY <3>1, <1>4
    <3>3. b # DataBlock(v)
      BY <2>3, <1>8, <1>9
    <3>4. v < alloc' \/ alloc' = 0
      BY <2>3, <3>2, <3>3, <1>8
    <3>5. v = 1
      BY <3>4, <1>1, <1>5, <1>9
    <3> QED
      BY <3>2, <3>5
  <2>4. Rootless(root, Kept)'
    BY <2>1, <2>2, <2>3, <1>5, <1>7 DEF Rootless
  <2> QED
    BY <2>4 DEF Freeable
<1>10. CASE a.n # 0
  <2>1. a.top \in a.open
    BY <1>2, <1>3, <1>10 DEF Mode, Begins, Seeks
  <2>2. values[a.n + 1].parent = a.top
    BY <1>2 DEF Newest
  <2>3. PICK u \in 2..(a.n + 1) :
            /\ values[u].parent = 1 /\ \A w \in (u + 1)..(a.n + 1) : values[w].parent # 1
            /\ \A v \in a.open : v < u => v = 1
            /\ \A v \in 1..a.n : v >= u => v \in a.open \/ values[v].parent >= u
    BY <2>1, <2>2, <1>1, <1>2, <1>3, <1>10, ChildOfRoot
  <2>4. \A v \in 1..a.n : Len(values[v].kids) = values[v].length
    <3> SUFFICES ASSUME NEW v \in 1..a.n PROVE Len(values[v].kids) = values[v].length
      OBVIOUS
    <3>1. v \in 1..Len(values) /\ ~(v > a.n)
      BY <1>1, <1>2
    <3> QED
      BY <3>1, <1>4 DEF Filled
  <2>5. a.n <= Len(values)
    BY <1>1, <1>2
  <2>6. Walk(values, 1..(u - 1), 1, {1})
    BY <2>3, <2>4, <2>5, <1>1, <1>3, <1>4, WalkStarts
  <2>7. root' = 1
    BY <1>1, <1>5, <1>10 DEF At
  <2>8. u \in UnfinishedChild'
    <3>1. u \in 1..top'
      BY <1>1, <1>5
    <3>2. \A w \in (u + 1)..top' : values'[w].parent # root'
      BY <2>3, <2>7, <1>5
    <3>3. values'[u].parent = root'
      BY <2>3, <2>7, <1>5
    <3> QED
      BY <3>1, <3>2, <3>3 DEF UnfinishedChild
  <2>9. Held(1..(u - 1), Kept)'
    <3>1. ASSUME NEW v \in 1..(u - 1) PROVE Block(v) \in hp
      <4>1. v \in 1..Len(values) /\ (v < alloc' \/ alloc' = 0)
        BY <1>1, <1>2, <1>5
      <4> QED
        BY <4>1, <1>8
    <3>2. ASSUME NEW v \in 1..Len(values), hp \cap {Block(v), DataBlock(v)} # {}, v \notin 1..(u - 1)
          PROVE  Lost(v)'
      <4>1. Block(v) \in hp \/ DataBlock(v) \in hp
        BY <3>2
      <4>2. v < alloc' \/ alloc' = 0
        <5>1. CASE Block(v) \in hp
          BY <5>1, <1>8
        <5>2. CASE DataBlock(v) \in hp
          <6>1. v <= a.n
            BY <5>2, <1>8
          <6> QED
            BY <6>1, <1>1, <1>5
        <5> QED
          BY <4>1, <5>1, <5>2
      <4>3. u <= v
        BY <3>2, <1>1
      <4> QED
        BY <4>2, <4>3, <2>8, <1>5 DEF Lost
    <3> QED
      BY <3>1, <3>2, <1>5, <1>7 DEF Held
  <2>10. 1..(u - 1) \subseteq 1..Len(values) /\ {1} \subseteq 1..Len(values)
    BY <1>1, <1>2
  <2>11. \E live, path \in SUBSET (1..Len(values')) : Walk(values', live, root', path) /\ Held(live, Kept)'
    BY <2>6, <2>7, <2>9, <2>10, <1>5
  <2> QED
    BY <2>11 DEF Freeable
<1> QED
  BY <1>9, <1>10

-----------------------------------------------------------------------------
(* Every step of the walk                                                  *)

(* What is lost stays so, while values are freed.                          *)
LEMMA LostStays ==
  ASSUME Placed, UNCHANGED <<cursor, error>>, Len(values) \in Nat,
         \A v \in 1..Len(values) : values'[v].parent = values[v].parent,
         NEW v
  PROVE  Lost(v)' <=> Lost(v)
<1>1. UNCHANGED <<pass, ptr, flags, top, root, alloc, error>>
  BY DEF cursor
<1>2. top \in 0..Len(values)
  BY DEF Placed
<1>3. \A w : w \in 1..top => values'[w].parent = values[w].parent
  BY <1>2
<1>4. UnfinishedChild' = UnfinishedChild
  <2>1. ASSUME NEW c \in 1..top
        PROVE  /\ values'[c].parent = root' <=> values[c].parent = root
               /\ (\A w \in (c + 1)..top : values'[w].parent # root')
                  <=> (\A w \in (c + 1)..top : values[w].parent # root)
    <3>1. \A w \in (c + 1)..top : w \in 1..top
      BY <1>2
    <3> QED
      BY <3>1, <1>1, <1>3
  <2> QED
    BY <2>1, <1>1 DEF UnfinishedChild
<1> QED
  BY <1>1, <1>4 DEF Lost

(* No step of the walk: the same blocks are held by the same values.       *)
LEMMA FreeableStays ==
  ASSUME Placed, UNCHANGED <<cursor, error, values>>, Len(values) \in Nat,
         NEW f, NEW hp, Freeable(f, hp), freeing' = f, heap' = hp
  PROVE  Freeable(freeing, heap)'
<1>1. UNCHANGED <<pass, ptr, flags, top, root, alloc, error, values>>
  BY DEF cursor
<1>2. \A v : Lost(v)' <=> Lost(v)
  BY LostStays
<1>3. \A live : Held(live, hp) => Held(live, heap)'
  BY <1>1, <1>2 DEF Held
<1>4. CASE Rootless(f, hp)
  <2>1. Rootless(freeing, heap)'
    BY <1>1, <1>4 DEF Rootless
  <2> QED
    BY <2>1 DEF Freeable
<1>5. CASE \E live, path \in SUBSET (1..Len(values)) : Walk(values, live, f, path) /\ Held(live, hp)
  BY <1>1, <1>3, <1>5 DEF Freeable
<1> QED
  BY <1>4, <1>5 DEF Freeable

(* After e_failed the walk stands at the root, or in the first pass        *)
(* nothing is allocated.                                                   *)
LEMMA FreedFailed == ParserInv /\ FreeInv /\ Failed => FreeInv'
<1> SUFFICES ASSUME ParserInv, FreeInv, Failed PROVE FreeInv'
  OBVIOUS
<1>1. Typed /\ Staged /\ Placed /\ Len(values) \in Nat
  BY InvTyped, ShapesIs DEF ParserInv, Typed
<1>2. /\ stage = "failed" /\ UNCHANGED <<cursor, values, error>> /\ heap' = Kept
      /\ IF pass = 1 THEN stage' = "ended" /\ UNCHANGED freeing ELSE stage' = "freeing" /\ freeing' = root
  BY DEF Failed, Kept
<1>3. CASE pass = 1
  <2>1. stage' = "ended" /\ heap' = {}
    BY <1>2, <1>3 DEF FreeInv
  <2>2. AllFreed'
    BY <2>1 DEF AllFreed
  <2> QED
    BY <2>1, <2>2 DEF FreeInv
<1>4. CASE pass # 1
  <2>1. Freeable(root, Kept) /\ stage' = "freeing" /\ freeing' = root
    BY <1>2, <1>4 DEF FreeInv
  <2>2. Freeable(freeing, heap)'
    BY <2>1, <1>1, <1>2, FreeableStays
  <2> QED
    BY <2>1, <2>2 DEF FreeInv
<1> QED
  BY <1>3, <1>4

(* The tree the callback gives back is whole.                              *)
LEMMA FreedRelease == ParserInv /\ FreeInv /\ Release => FreeInv'
<1> SUFFICES ASSUME ParserInv, FreeInv, Release PROVE FreeInv'
  OBVIOUS
<1>1. Typed /\ Staged /\ Placed /\ Reading /\ Len(values) \in Nat
  BY InvTyped, ShapesIs DEF ParserInv, Typed
<1>2. /\ stage = "parsed" /\ UNCHANGED <<cursor, values, error, heap>>
      /\ stage' = "freeing" /\ freeing' = root
  BY DEF Release
<1>3. pass = 0
  BY <1>1, <1>2 DEF Placed
<1>4. Len(text) \in Nat
  <2> DEFINE S == family.tokens
  <2>1. text \in Seq(S)
    BY <1>1 DEF Typed
  <2> HIDE DEF S
  <2> QED
    BY <2>1
<1>5. Freeable(root, heap)
  BY <1>1, <1>2, <1>3, <1>4, ParsedFreeable DEF Typed
<1>6. Freeable(freeing, heap)'
  BY <1>1, <1>2, <1>5, FreeableStays
<1> QED
  BY <1>2, <1>6 DEF FreeInv

(* What freeing starts from: a value of the chain, in the second pass.     *)
LEMMA FreeingIs ==
  ASSUME ParserInv, stage = "freeing"
  PROVE  /\ Shapes(values) /\ freeing \in 1..Len(values) /\ Len(values) \in Nat /\ pass = 0 /\ Placed
         /\ values[freeing] \in ValueRecord /\ values[freeing].length \in Nat
<1>1. Typed /\ Staged /\ Placed
  BY InvTyped DEF ParserInv
<1>2. Shapes(values) /\ Len(values) \in Nat
  BY <1>1, ShapesIs DEF Typed
<1>3. freeing \in 1..Len(values)
  <2>1. freeing \in 0..Len(values) /\ freeing # 0
    BY <1>1 DEF Typed, Staged
  <2> QED
    BY <2>1, <1>2, SomeOf
<1>4. values[freeing] \in ValueRecord /\ values[freeing].length \in Nat
  BY <1>2, <1>3, KidsCount DEF Shapes
<1>5. pass = 0
  BY <1>1 DEF Typed, Staged
<1> QED
  BY <1>1, <1>2, <1>3, <1>4, <1>5

(* A step down reads a kid that is live; a root without memory has none.   *)
LEMMA FreedDown == ParserInv /\ FreeInv /\ FreeDown => FreeInv'
<1> SUFFICES ASSUME ParserInv, FreeInv, FreeDown PROVE FreeInv'
  OBVIOUS
<1>1. /\ stage = "freeing" /\ values[freeing].type \in Containers /\ values[freeing].length > 0
      /\ UNCHANGED <<cursor, heap, error>>
  BY DEF FreeDown
<1>2. /\ Shapes(values) /\ freeing \in 1..Len(values) /\ Len(values) \in Nat /\ pass = 0 /\ Placed
      /\ values[freeing] \in ValueRecord /\ values[freeing].length \in Nat
  BY <1>1, FreeingIs
<1>3. Freeable(freeing, heap)
  BY <1>1 DEF FreeInv
<1>4. UNCHANGED <<pass, top, root, alloc>>
  BY <1>1 DEF cursor
<1>5. CASE Rootless(freeing, heap)
  <2>1. values[freeing].length > Len(values[freeing].kids)
    <3>1. values[freeing].kids = <<>>
      BY <1>5 DEF Rootless
    <3>2. Len(values[freeing].kids) = 0
      BY <3>1
    <3> QED
      BY <3>2, <1>1
  <2>2. stage' = "crashed" /\ UNCHANGED freeing
    BY <2>1 DEF FreeDown
  <2>3. error' = "memory" /\ pass' = 0 /\ freeing' = root' /\ top' = root'
    BY <2>2, <1>1, <1>4, <1>5 DEF Rootless
  <2>4. AllFreed'
    BY <2>2, <2>3 DEF AllFreed
  <2> QED
    BY <2>2, <2>4 DEF FreeInv
<1>6. ASSUME NEW live \in SUBSET (1..Len(values)), NEW path \in SUBSET (1..Len(values)),
             Walk(values, live, freeing, path), Held(live, heap)
      PROVE  FreeInv'
  <2>1. values[freeing].length <= Len(values[freeing].kids)
    BY <1>6 DEF Walk
  <2>2. Len(values[freeing].kids) \in Nat
    BY <1>2, KidsCount
  <2>3. ~(values[freeing].length > Len(values[freeing].kids))
    BY <2>1, <2>2, <1>2
  <2> DEFINE n == values[freeing].length
             m == values[freeing].length - 1
             r == [values[freeing] EXCEPT !.length = m]
  <2>4. values' = With(values, freeing, r) /\ freeing' = values[freeing].kids[n] /\ stage' = "freeing"
    BY <1>2, <2>3 DEF FreeDown, With
  <2>5. m \in Nat
    BY <1>1, <1>2
  <2> HIDE DEF m
  <2>6. /\ r \in ValueRecord /\ r.parent = values[freeing].parent /\ r.kids = values[freeing].kids
        /\ r.type = values[freeing].type /\ r.length = m
    BY <1>2, <2>5 DEF ValueRecord
  <2> HIDE DEF r
  <2>7. /\ Len(values') = Len(values)
        /\ values'[freeing] = r /\ \A w \in 1..Len(values) : w # freeing => values'[w] = values[w]
    BY <2>4, <2>6, <1>2, OneChanged
  <2>8. \A v \in 1..Len(values) :
           /\ values'[v].parent = values[v].parent /\ values'[v].type = values[v].type
           /\ values'[v].kids = values[v].kids
           /\ v # freeing => values'[v].length = values[v].length
    BY <2>6, <2>7
  <2>9. values'[freeing].length = values[freeing].length - 1
    BY <2>6, <2>7 DEF m
  <2>10. freeing' \in 1..Len(values) /\ Walk(values', live, freeing', path \cup {freeing'})
    <3>1. PICK x : x = freeing'
      OBVIOUS
    <3>2. PICK vt : vt = values'
      OBVIOUS
    <3>3. /\ Len(vt) = Len(values) /\ vt[freeing].length = values[freeing].length - 1
          /\ \A v \in 1..Len(values) :
                /\ vt[v].parent = values[v].parent /\ vt[v].type = values[v].type
                /\ vt[v].kids = values[v].kids
                /\ v # freeing => vt[v].length = values[v].length
      BY <2>7, <2>8, <2>9, <3>2
    <3>4. x = values[freeing].kids[values[freeing].length]
      BY <2>4, <3>1
    <3>5. x \in 1..Len(values) /\ Walk(vt, live, x, path \cup {x})
      BY <3>3, <3>4, <1>1, <1>2, <1>6, WalkDown, ZenonT(60)
    <3> QED
      BY <3>1, <3>2, <3>5
  <2>11. \A v : Lost(v)' <=> Lost(v)
    BY <2>8, <1>1, <1>2, LostStays
  <2>12. Held(live, heap)'
    BY <2>7, <2>11, <1>1, <1>6 DEF Held
  <2>13. path \cup {freeing'} \in SUBSET (1..Len(values')) /\ live \in SUBSET (1..Len(values'))
    BY <2>7, <2>10
  <2>14. Freeable(freeing, heap)'
    BY <2>10, <2>12, <2>13 DEF Freeable
  <2> QED
    BY <2>4, <2>14 DEF FreeInv
<1> QED
  BY <1>3, <1>5, <1>6 DEF Freeable

(* A step up frees the value it leaves. When it leaves the root no value   *)
(* is live, so that only what was lost is allocated.                       *)
LEMMA FreedUp == ParserInv /\ FreeInv /\ FreeUp => FreeInv'
<1> SUFFICES ASSUME ParserInv, FreeInv, FreeUp PROVE FreeInv'
  OBVIOUS
<1>1. /\ stage = "freeing" /\ ~(values[freeing].type \in Containers /\ values[freeing].length > 0)
      /\ UNCHANGED <<cursor, values, error>>
      /\ IF Block(freeing) \notin heap
         THEN stage' = "crashed" /\ UNCHANGED <<heap, freeing>>
         ELSE /\ heap' = heap \ {Block(freeing), DataBlock(freeing)}
              /\ freeing' = values[freeing].parent
              /\ stage' = IF freeing' = 0 THEN "ended" ELSE "freeing"
  BY DEF FreeUp
<1>2. /\ Shapes(values) /\ freeing \in 1..Len(values) /\ Len(values) \in Nat /\ pass = 0 /\ Placed
      /\ values[freeing] \in ValueRecord /\ values[freeing].length \in Nat
  BY <1>1, FreeingIs
<1>3. Freeable(freeing, heap)
  BY <1>1 DEF FreeInv
<1>4. UNCHANGED <<pass, top, root, alloc>>
  BY <1>1 DEF cursor
<1>5. CASE Rootless(freeing, heap)
  <2>1. CASE Block(freeing) \notin heap
    <3>1. stage' = "crashed" /\ UNCHANGED freeing
      BY <2>1, <1>1
    <3>2. error' = "memory" /\ pass' = 0 /\ freeing' = root' /\ top' = root'
      BY <3>1, <1>1, <1>4, <1>5 DEF Rootless
    <3>3. AllFreed'
      BY <3>1, <3>2 DEF AllFreed
    <3> QED
      BY <3>1, <3>3 DEF FreeInv
  <2>2. CASE Block(freeing) \in heap
    <3>1. freeing = 1 /\ heap \subseteq {Block(1), DataBlock(1)}
      BY <1>5 DEF Rootless
    <3>2. values[freeing].parent = 0
      <4>1. values[freeing].parent \in Nat /\ values[freeing].parent < freeing
        BY <1>2, ShapesIs
      <4> QED
        BY <4>1, <3>1
    <3>3. heap' = {} /\ stage' = "ended"
      BY <2>2, <3>1, <3>2, <1>1
    <3>4. AllFreed'
      BY <3>3 DEF AllFreed
    <3> QED
      BY <3>3, <3>4 DEF FreeInv
  <2> QED
    BY <2>1, <2>2
<1>6. ASSUME NEW live \in SUBSET (1..Len(values)), NEW path \in SUBSET (1..Len(values)),
             Walk(values, live, freeing, path), Held(live, heap)
      PROVE  FreeInv'
  <2>1. freeing \in path /\ path \subseteq live /\ freeing \in live
    BY <1>6 DEF Walk
  <2>2. Block(freeing) \in heap
    BY <2>1, <1>6 DEF Held
  <2>3. /\ heap' = heap \ {Block(freeing), DataBlock(freeing)}
        /\ freeing' = values[freeing].parent
        /\ stage' = IF freeing' = 0 THEN "ended" ELSE "freeing"
    BY <2>2, <1>1
  <2>4. values[freeing].type \notin Containers \/ values[freeing].length = 0
    BY <1>1, <1>2
  <2>50. PICK rest, back : rest = live \ {freeing} /\ back = path \ {freeing}
    OBVIOUS
  <2>5. /\ values[freeing].parent = 0 => freeing = 1 /\ rest = {}
        /\ values[freeing].parent # 0 => Walk(values, rest, values[freeing].parent, back)
    BY <2>4, <2>50, <1>2, <1>6, WalkUp
  <2>6. \A v : Lost(v)' <=> Lost(v)
    BY <1>1, <1>2, LostStays
  <2>7. \A v : v # freeing => Block(v) # Block(freeing) /\ Block(v) # DataBlock(freeing)
    BY DEF Block, DataBlock
  <2>8. ASSUME NEW v \in 1..Len(values), heap' \cap {Block(v), DataBlock(v)} # {}
        PROVE  v \in rest \/ Lost(v)
    <3>1. heap \cap {Block(v), DataBlock(v)} # {} /\ v # freeing
      BY <2>3, <2>8
    <3> QED
      BY <3>1, <2>50, <1>6 DEF Held
  <2>9. CASE values[freeing].parent # 0
    <3>1. \A v \in rest : Block(v) \in heap'
      BY <2>3, <2>7, <2>50, <1>6 DEF Held
    <3>2. Held(rest, heap)'
      BY <2>6, <2>8, <3>1, <1>1 DEF Held
    <3>3. Walk(values', rest, freeing', back)
      BY <2>3, <2>5, <2>9, <1>1
    <3>4. rest \in SUBSET (1..Len(values')) /\ back \in SUBSET (1..Len(values'))
      BY <2>50, <1>1
    <3>5. Freeable(freeing, heap)'
      BY <3>2, <3>3, <3>4 DEF Freeable
    <3>6. stage' = "freeing"
      BY <2>3, <2>9
    <3> QED
      BY <3>5, <3>6 DEF FreeInv
  <2>10. CASE values[freeing].parent = 0
    <3>1. stage' = "ended" /\ rest = {}
      BY <2>3, <2>5, <2>10
    <3>2. ASSUME NEW v \in 1..Len(values), heap' \cap {Block(v), DataBlock(v)} # {}
          PROVE  Lost(v)'
      BY <2>6, <2>8, <3>1, <3>2
    <3>3. ASSUME NEW b \in heap'
          PROVE  error' = "memory" /\ pass' = 0
      <4>1. b \in heap
        BY <2>3
      <4>2. PICK v \in 1..Len(values) : b \in {Block(v), DataBlock(v)}
        BY <4>1, <1>2 DEF Placed, Blocks
      <4>3. Lost(v)'
        BY <4>2, <3>2
      <4> QED
        BY <4>3 DEF Lost
    <3>4. ~(error' = "memory" /\ pass' = 0) => heap' = {}
      BY <3>3
    <3>5. ASSUME NEW v \in 1..Len(values'), heap' \cap {Block(v), DataBlock(v)} # {}
          PROVE  \E c \in UnfinishedChild' : c <= v /\ (v < alloc' \/ alloc' = 0)
      <4>1. Lost(v)'
        BY <3>2, <3>5, <1>1
      <4> QED
        BY <4>1 DEF Lost
    <3>6. AllFreed'
      BY <3>1, <3>4, <3>5 DEF AllFreed
    <3> QED
      BY <3>1, <3>6 DEF FreeInv
  <2> QED
    BY <2>9, <2>10
<1> QED
  BY <1>3, <1>5, <1>6 DEF Freeable

(* A turn of the parser frees nothing: what it leaves can be freed.        *)
LEMMA FreedParse == ParserInv /\ Parse => FreeInv'
<1> SUFFICES ASSUME ParserInv, Parse PROVE FreeInv'
  OBVIOUS
<1>1. Typed /\ Staged /\ Reading /\ Placed
  BY InvTyped DEF ParserInv
<1> DEFINE S == family.tokens
<1>2. text \in Seq(S) /\ Shapes(values) /\ num_digits \in 0..2 /\ pass \in {0, 1}
  BY <1>1 DEF Typed
<1> HIDE DEF S
<1>3. Len(text) \in Nat /\ Len(values) \in Nat
  BY <1>2, ShapesIs
<1>4. Frame
  BY <1>2, ParseFrame
<1>5. stage = "parsing"
  BY <1>4 DEF Frame, Reads
<1>6. Goes \/ Rejects \/ Starves \/ Returns
  BY <1>1, <1>2, <1>3, <1>5, ReadingStep
<1>7. CASE Goes \/ Returns
  <2>1. stage' \in {"parsing", "parsed"}
    BY <1>7 DEF Goes, Returns
  <2> QED
    BY <2>1 DEF FreeInv
<1>8. ASSUME pass = 1, stage' = "failed", UNCHANGED <<pass, root, alloc, values, heap>>
      PROVE  FreeInv'
  <2>1. Kept = {}
    BY <1>1, <1>2, <1>3, <1>5, <1>8, ChainFreed, NothingKept
  <2>2. Kept' = Kept
    BY <1>8 DEF Kept, FirstToFree
  <2> QED
    BY <2>1, <2>2, <1>8 DEF FreeInv
<1>9. CASE Rejects
  <2>1. pass = 1 /\ stage' = "failed" /\ UNCHANGED <<pass, root, alloc, values, heap>>
    BY <1>9 DEF Rejects, Fail, cursor
  <2> QED
    BY <2>1, <1>8
<1>10. CASE Starves
  <2>1. stage' = "failed" /\ error' = "memory" /\ UNCHANGED <<pass, values, heap>> /\ AllocationFails
    BY <1>10 DEF Starves, AllocationFails
  <2>2. CASE pass = 1
    <3>1. UNCHANGED <<root, alloc>>
      BY <2>1, <2>2 DEF AllocationFails
    <3> QED
      BY <2>1, <2>2, <3>1, <1>8
  <2>3. CASE pass = 0
    <3>1. PICK c \in Starters : BeginsValue(c)
      BY <2>1, <1>4 DEF Frame
    <3>2. PICK run, k : Ready(run, k)
      <4>1. \/ \E run, k : Ready(run, k)
            \/ \E run : Numbering(run)
        BY <2>3, <1>1, <1>2, <1>3, <1>5, ReadyWhere
      <4>2. ASSUME NEW run, Numbering(run) PROVE FALSE
        BY <4>2, <2>3 DEF Numbering
      <4> QED
        BY <4>1, <4>2
    <3>3. Freeable(root, Kept)'
      BY <2>1, <2>3, <3>1, <3>2, <1>2, StarvedFreeable
    <3>4. pass' # 1
      BY <2>1, <2>3
    <3> QED
      BY <2>1, <3>3, <3>4 DEF FreeInv
  <2> QED
    BY <2>2, <2>3, <1>2
<1> QED
  BY <1>6, <1>7, <1>9, <1>10

(* No step: the same blocks are held.                                      *)
LEMMA FreedStutters == FreeInv /\ UNCHANGED vars => FreeInv'
<1> SUFFICES ASSUME FreeInv, UNCHANGED vars PROVE FreeInv'
  OBVIOUS
<1>1. /\ pass' = pass /\ top' = top /\ root' = root /\ alloc' = alloc /\ values' = values
      /\ heap' = heap /\ stage' = stage /\ error' = error /\ freeing' = freeing
  BY DEF vars, cursor
<1>2. UnfinishedChild' = UnfinishedChild
  BY <1>1 DEF UnfinishedChild
<1>3. AllFreed' <=> AllFreed
  BY <1>1, <1>2 DEF AllFreed
<1>4. Kept' = Kept
  BY <1>1 DEF Kept, FirstToFree
<1>5. \A v : Lost(v)' <=> Lost(v)
  BY <1>1, <1>2 DEF Lost
<1>6. \A live, hp : Held(live, hp)' <=> Held(live, hp)
  BY <1>1, <1>5 DEF Held
<1>7. \A f, hp : Freeable(f, hp)' <=> Freeable(f, hp)
  BY <1>1, <1>6 DEF Freeable, Rootless
<1> QED
  BY <1>1, <1>3, <1>4, <1>7 DEF FreeInv

(* Every block is freed once, and the walk reads no value that is gone.    *)
THEOREM AllFreedHolds == Spec => []AllFreed
<1>1. Init => FreeInv
  BY DEF Init, FreeInv
<1>2. ParserInv /\ FreeInv /\ [Next]_vars => FreeInv'
  BY FreedParse, FreedFailed, FreedRelease, FreedDown, FreedUp, FreedStutters DEF Next, Returned
<1>3. FreeInv => AllFreed
  BY DEF FreeInv, AllFreed
<1> QED
  BY <1>1, <1>2, <1>3, ParserInvariant, PTL DEF Spec
=============================================================================
