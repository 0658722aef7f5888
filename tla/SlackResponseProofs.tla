------------------------- MODULE SlackResponseProofs -------------------------
(***************************************************************************)
(* Proofs about what becomes of one answer: for any number of header       *)
(* lines, in any order, any names and values of cookies, and a connection  *)
(* that ends after any token.                                              *)
(*                                                                         *)
(* The text of a head is laid out line by line (Laid); what the searches   *)
(* of slack_update_cookies find in it follows from the layout.  Induction  *)
(* is on sets of natural numbers, by the library's least-element theorem.  *)
(***************************************************************************)
EXTENDS SlackResponse, WellFoundedInduction, SequenceTheorems, TLAPS

-----------------------------------------------------------------------------
(* Induction on sets of natural numbers.                                   *)

(* A set of natural numbers that is not empty has a least element.         *)
LEMMA LeastNatural ==
  ASSUME NEW T, T \subseteq Nat, T # {}
  PROVE  \E x \in T : \A y \in T : x <= y
<1> DEFINE R == {ss \in Nat \X Nat : ss[1] < ss[2]}
<1>1. IsWellFoundedOn(R, Nat)
  BY NatLessThanWellFounded DEF OpToRel
<1>2. \E x \in T : \A y \in T : ~ (<<y, x>> \in R)
  <2> HIDE DEF R
  <2> QED
    BY <1>1, WFMin
<1>3. ASSUME NEW x \in T, NEW y \in T, ~ (<<y, x>> \in R) PROVE x <= y
  <2>1. x \in Nat /\ y \in Nat
    OBVIOUS
  <2>2. <<y, x>> \in Nat \X Nat /\ <<y, x>>[1] = y /\ <<y, x>>[2] = x
    BY <2>1
  <2>3. ~(y < x)
    BY <1>3, <2>2
  <2> QED
    BY <2>1, <2>3
<1> QED
  BY <1>2, <1>3

(* A set that has zero, and with each number the next, has all of them.    *)
LEMMA FromZeroOn ==
  ASSUME NEW T, 0 \in T, \A n \in Nat : n \in T => n + 1 \in T
  PROVE  \A n \in Nat : n \in T
<1> DEFINE Missing == Nat \ T
<1> SUFFICES ASSUME Missing # {} PROVE FALSE
  OBVIOUS
<1>1. PICK n \in Missing : \A m \in Missing : n <= m
  BY LeastNatural
<1>2. n # 0 /\ n - 1 \in Nat
  BY <1>1
<1>3. n - 1 \in T
  BY <1>1, <1>2
<1> QED
  BY <1>1, <1>2, <1>3

-----------------------------------------------------------------------------
(* The text of a head.                                                     *)

HeadTokens == Names \cup Values \cup {"cookie", "gzip", "equals", "semicolon", "line"}

AllTokens == HeadTokens \cup {"end", "first", "last", "zfirst", "zlast", "ztrailer"}

(* The tokens of each kind of line.                                        *)
LEMMA TokensByKind ==
  ASSUME NEW l
  PROVE  /\ l.kind = "cookie" => Tokens(l) = <<"cookie", l.name, "equals", l.value, "semicolon", "line">>
         /\ l.kind = "bare" => Tokens(l) = <<"cookie", l.name, "equals", l.value>>
         /\ l.kind = "gzip" => Tokens(l) = <<"gzip">>
         /\ l.kind = "type" => Tokens(l) = <<"line", "semicolon", "line", "equals", "line">>
<1>1. CASE l.kind = "cookie"
  BY <1>1, Zenon DEF Tokens
<1>2. CASE l.kind = "bare"
  BY <1>2, Zenon DEF Tokens
<1>3. CASE l.kind = "gzip"
  BY <1>3, Zenon DEF Tokens
<1>4. CASE l.kind = "type"
  BY <1>4, Zenon DEF Tokens
<1> QED
  BY <1>1, <1>2, <1>3, <1>4

(* Short sequences, which the provers know when their elements are bare.   *)
LEMMA OfFour ==
  ASSUME NEW S, NEW a \in S, NEW b \in S, NEW c \in S, NEW d \in S
  PROVE  <<a, b, c, d>> \in Seq(S) /\ Len(<<a, b, c, d>>) = 4
OBVIOUS

(* The same of five.                                                       *)
LEMMA OfFive ==
  ASSUME NEW a, NEW b, NEW c, NEW d, NEW e, NEW k \in 1 .. 5
  PROVE  <<a, b, c, d, e>>[k] \in {a, b, c, d, e}
<1>1. k = 1 \/ k = 2 \/ k = 3 \/ k = 4 \/ k = 5
  OBVIOUS
<1> QED
  BY <1>1

(* The same of six, of which a Set-Cookie is the first at most.            *)
LEMMA OfSix ==
  ASSUME NEW S, NEW a \in S, NEW b \in S, NEW c \in S, NEW d \in S, NEW e \in S, NEW f \in S
  PROVE  /\ <<a, b, c, d, e, f>> \in Seq(S) /\ Len(<<a, b, c, d, e, f>>) = 6
         /\ \A k \in 2 .. 6 : <<a, b, c, d, e, f>>[k] \in {b, c, d, e, f}
<1>1. ASSUME NEW k \in 2 .. 6 PROVE <<a, b, c, d, e, f>>[k] \in {b, c, d, e, f}
  <2>1. k = 2 \/ k = 3 \/ k = 4 \/ k = 5 \/ k = 6
    OBVIOUS
  <2> QED
    BY <2>1
<1>2. <<a, b, c, d, e, f>> \in Seq(S) /\ Len(<<a, b, c, d, e, f>>) = 6
  OBVIOUS
<1> QED
  BY <1>1, <1>2

(* A line has a token at least; a Set-Cookie or the gzip only at its       *)
(* start, and only if it is of that kind.                                  *)
LEMMA LineTyped ==
  ASSUME NEW l \in Lines
  PROVE  /\ l.kind \in {"cookie", "bare", "gzip", "type"}
         /\ l.kind \in {"cookie", "bare"} => l.name \in Names /\ l.value \in Values
         /\ Tokens(l) \in Seq(HeadTokens) /\ Len(Tokens(l)) \in Nat /\ Len(Tokens(l)) >= 1
         /\ l.kind = "gzip" => Tokens(l)[1] = "gzip"
         /\ \A k \in 1 .. Len(Tokens(l)) :
              /\ Tokens(l)[k] = "cookie" => k = 1 /\ l.kind \in {"cookie", "bare"}
              /\ Tokens(l)[k] = "gzip" => k = 1 /\ l.kind = "gzip"
         /\ l.kind = "cookie" =>
              /\ Len(Tokens(l)) = 6
              /\ Tokens(l)[1] = "cookie" /\ Tokens(l)[2] = l.name /\ Tokens(l)[3] = "equals"
              /\ Tokens(l)[4] = l.value /\ Tokens(l)[5] = "semicolon"
<1>1. /\ l.kind \in {"cookie", "bare", "gzip", "type"}
      /\ l.kind \in {"cookie", "bare"} => l.name \in Names /\ l.value \in Values
  BY DEF Lines
<1>2. \A t \in Names \cup Values : t \notin {"cookie", "gzip"}
  BY ResponseAssumption DEF Marks
<1>3. CASE l.kind = "cookie"
  <2> DEFINE n == l.name
             v == l.value
             s == <<"cookie", n, "equals", v, "semicolon", "line">>
  <2>1. Tokens(l) = s
    BY <1>3, TokensByKind
  <2>2. n \in Names /\ v \in Values /\ n \notin {"cookie", "gzip"} /\ v \notin {"cookie", "gzip"}
    BY <1>1, <1>2, <1>3
  <2> HIDE DEF n, v
  <2>3. /\ s \in Seq(HeadTokens) /\ Len(s) = 6
        /\ \A k \in 2 .. 6 : s[k] \in {n, "equals", v, "semicolon", "line"}
    <3>1. {"cookie", n, "equals", v, "semicolon", "line"} \subseteq HeadTokens
      BY <2>2 DEF HeadTokens
    <3> QED
      BY <3>1, OfSix
  <2>4. ASSUME NEW k \in 1 .. 6 PROVE s[k] # "gzip" /\ (s[k] = "cookie" => k = 1)
    <3>1. CASE k = 1
      BY <3>1
    <3>2. CASE k # 1
      <4> HIDE DEF s
      <4>0. k \in 2 .. 6
        BY <3>2
      <4>1. s[k] \in {n, "equals", v, "semicolon", "line"}
        BY <2>3, <4>0, Zenon
      <4> QED
        BY <2>2, <3>2, <4>1
    <3> QED
      BY <3>1, <3>2
  <2>5. s[1] = "cookie" /\ s[2] = n /\ s[3] = "equals" /\ s[4] = v /\ s[5] = "semicolon"
    OBVIOUS
  <2> HIDE DEF s
  <2>6. n = l.name /\ v = l.value
    BY DEF n, v
  <2>7. \A k \in 1 .. Len(Tokens(l)) : Tokens(l)[k] # "gzip" /\ (Tokens(l)[k] = "cookie" => k = 1)
    BY <2>1, <2>3, <2>4
  <2>8. Tokens(l) \in Seq(HeadTokens) /\ Len(Tokens(l)) = 6
    BY <2>1, <2>3
  <2>9. /\ Tokens(l)[1] = "cookie" /\ Tokens(l)[2] = l.name /\ Tokens(l)[3] = "equals"
        /\ Tokens(l)[4] = l.value /\ Tokens(l)[5] = "semicolon"
    BY <2>1, <2>5, <2>6
  <2>10. Len(Tokens(l)) \in Nat /\ Len(Tokens(l)) >= 1
    BY <2>8
  <2>11. l.kind # "gzip" /\ l.kind \in {"cookie", "bare"}
    BY <1>3
  <2> QED
    BY <1>1, <2>7, <2>8, <2>9, <2>10, <2>11, Zenon
<1>4. CASE l.kind = "bare"
  <2> DEFINE n == l.name
             v == l.value
             s == <<"cookie", n, "equals", v>>
  <2>1. Tokens(l) = s
    BY <1>4, TokensByKind
  <2>2. n \in Names /\ v \in Values /\ n \notin {"cookie", "gzip"} /\ v \notin {"cookie", "gzip"}
    BY <1>1, <1>2, <1>4
  <2> HIDE DEF n, v
  <2>3. s \in Seq(HeadTokens) /\ Len(s) = 4
    <3>1. {"cookie", n, "equals", v} \subseteq HeadTokens
      BY <2>2 DEF HeadTokens
    <3> QED
      BY <3>1, OfFour
  <2>4. \A k \in 1 .. 4 : s[k] # "gzip" /\ (s[k] = "cookie" => k = 1)
    BY <2>2
  <2> HIDE DEF s
  <2> QED
    BY <1>1, <1>4, <2>1, <2>3, <2>4
<1>5. CASE l.kind = "gzip"
  <2> DEFINE s == <<"gzip">>
  <2>1. Tokens(l) = s
    BY <1>5, TokensByKind
  <2>2. s \in Seq(HeadTokens) /\ Len(s) = 1 /\ s[1] = "gzip"
    BY DEF HeadTokens
  <2> HIDE DEF s
  <2> QED
    BY <1>1, <1>5, <2>1, <2>2
<1>6. CASE l.kind = "type"
  <2> DEFINE s == <<"line", "semicolon", "line", "equals", "line">>
  <2>1. Tokens(l) = s
    BY <1>6, TokensByKind
  <2>2. s \in Seq(HeadTokens) /\ Len(s) = 5
    BY DEF HeadTokens
  <2>3. ASSUME NEW k \in 1 .. 5 PROVE s[k] \notin {"gzip", "cookie"}
    <3>1. s[k] \in {"line", "semicolon", "line", "equals", "line"}
      BY OfFive
    <3> HIDE DEF s
    <3> QED
      BY <3>1
  <2> HIDE DEF s
  <2> QED
    BY <1>1, <1>6, <2>1, <2>2, <2>3
<1> QED
  BY <1>1, <1>3, <1>4, <1>5, <1>6

(* What FlattenSeq glues together, one after the other.                    *)
LEMMA FlattenUnfolds ==
  ASSUME NEW seqs, Len(seqs) \in Nat
  PROVE  \E f : /\ \A i \in 1 .. Len(seqs) : f[i] = IF i = 1 THEN seqs[i] ELSE f[i - 1] \o seqs[i]
                /\ FlattenSeq(seqs) = IF Len(seqs) = 0 THEN seqs ELSE f[Len(seqs)]
<1> DEFINE Upto(f, n) == f = [i \in 1 .. n |-> IF i = 1 THEN seqs[i] ELSE f[i - 1] \o seqs[i]]
           T == {n \in Nat : \E f : Upto(f, n)}
<1>1. 0 \in T
  <2>1. [i \in 1 .. 0 |-> 0] = [i \in 1 .. 0 |-> IF i = 1 THEN seqs[i] ELSE [j \in 1 .. 0 |-> 0][i - 1] \o seqs[i]]
    OBVIOUS
  <2>2. Upto([i \in 1 .. 0 |-> 0], 0)
    BY <2>1
  <2> HIDE DEF Upto
  <2> QED
    BY <2>2
<1>2. ASSUME NEW n \in Nat, n \in T PROVE n + 1 \in T
  <2>1. PICK f : Upto(f, n)
    BY <1>2
  <2> DEFINE g == [i \in 1 .. n + 1 |-> IF i <= n THEN f[i]
                                        ELSE IF i = 1 THEN seqs[i] ELSE f[n] \o seqs[i]]
  <2>2. ASSUME NEW i \in 1 .. n + 1
        PROVE  g[i] = IF i = 1 THEN seqs[i] ELSE g[i - 1] \o seqs[i]
    <3>1. CASE i <= n
      <4>1. i \in 1 .. n /\ (i # 1 => i - 1 \in 1 .. n + 1 /\ i - 1 <= n)
        BY <3>1
      <4>2. f[i] = IF i = 1 THEN seqs[i] ELSE f[i - 1] \o seqs[i]
        BY <2>1, <4>1
      <4> QED
        BY <3>1, <4>1, <4>2
    <3>2. CASE i = n + 1
      <4>1. ~(i <= n) /\ (i # 1 => n \in 1 .. n + 1 /\ i - 1 = n /\ n <= n)
        BY <3>2
      <4> QED
        BY <4>1
    <3> QED
      BY <3>1, <3>2
  <2>3. g = [i \in 1 .. n + 1 |-> g[i]]
    OBVIOUS
  <2> HIDE DEF g
  <2>4. Upto(g, n + 1)
    BY <2>2, <2>3
  <2> HIDE DEF Upto
  <2> QED
    BY <2>4
<1> HIDE DEF T
<1>3. \A n \in Nat : n \in T
  BY <1>1, <1>2, FromZeroOn
<1>4. \E f : Upto(f, Len(seqs))
  BY <1>3 DEF T
<1> DEFINE c == CHOOSE f : Upto(f, Len(seqs))
<1>5. Upto(c, Len(seqs))
  BY <1>4, Zenon
<1>6. FlattenSeq(seqs) = IF Len(seqs) = 0 THEN seqs ELSE c[Len(seqs)]
  BY DEF FlattenSeq
<1> HIDE DEF c
<1>7. \A i \in 1 .. Len(seqs) : c[i] = IF i = 1 THEN seqs[i] ELSE c[i - 1] \o seqs[i]
  BY <1>5
<1> QED
  BY <1>6, <1>7

(* Of the head s with the first n of the lines: where each line begins     *)
(* (o), that they follow each other, and that a Set-Cookie or a gzip is    *)
(* the beginning of one of its kind.                                       *)
Laid(lines, n, s, o) ==
  /\ s \in Seq(HeadTokens) /\ Len(s) >= 1 /\ s[1] = "line"
  /\ \A i \in 1 .. n :
       /\ o[i] \in Nat /\ o[i] >= 2 /\ o[i] + Len(Tokens(lines[i])) <= Len(s) + 1
       /\ \A k \in 1 .. Len(Tokens(lines[i])) : s[o[i] + k - 1] = Tokens(lines[i])[k]
  /\ \A i, j \in 1 .. n : i < j => o[i] + Len(Tokens(lines[i])) <= o[j]
  /\ \A p \in 1 .. Len(s) :
       /\ s[p] = "cookie" => \E i \in 1 .. n : p = o[i] /\ lines[i].kind \in {"cookie", "bare"}
       /\ s[p] = "gzip" => \E i \in 1 .. n : p = o[i] /\ lines[i].kind = "gzip"

(* One more line.                                                          *)
LEMMA LaidLonger ==
  ASSUME NEW lines, NEW n \in Nat, NEW s, NEW o, Laid(lines, n, s, o),
         \A i \in 1 .. n + 1 : lines[i] \in Lines
  PROVE  \E q : Laid(lines, n + 1, s \o Tokens(lines[n + 1]), q)
<1> DEFINE l == lines[n + 1]
           t == s \o Tokens(l)
           q == [i \in 1 .. n + 1 |-> IF i <= n THEN o[i] ELSE Len(s) + 1]
           Size(i) == Len(Tokens(lines[i]))
<1>1. l \in Lines
  OBVIOUS
<1>2. ASSUME NEW i \in 1 .. n + 1 PROVE Size(i) \in Nat /\ Size(i) >= 1
  <2>1. lines[i] \in Lines
    OBVIOUS
  <2> QED
    BY <2>1, LineTyped
<1>3. s \in Seq(HeadTokens) /\ Len(s) \in Nat /\ Len(s) >= 1
  BY LenProperties DEF Laid
<1>4. Tokens(l) \in Seq(HeadTokens) /\ Len(Tokens(l)) = Size(n + 1)
  BY <1>1, LineTyped
<1> HIDE DEF l, Size
<1>5. /\ t \in Seq(HeadTokens) /\ Len(t) = Len(s) + Size(n + 1)
      /\ \A p \in 1 .. Len(s) + Size(n + 1) :
           t[p] = IF p <= Len(s) THEN s[p] ELSE Tokens(l)[p - Len(s)]
  BY <1>3, <1>4, ConcatProperties, ZenonT(60)
<1> HIDE DEF t
<1>6. Size(n + 1) \in Nat /\ Size(n + 1) >= 1
  BY <1>2
<1>7. t \in Seq(HeadTokens) /\ Len(t) >= 1 /\ t[1] = "line"
  BY <1>3, <1>5, <1>6 DEF Laid
<1>8. q[n + 1] = Len(s) + 1 /\ \A i \in 1 .. n : q[i] = o[i]
  OBVIOUS
<1> HIDE DEF q
<1>9. ASSUME NEW i \in 1 .. n
      PROVE  /\ o[i] \in Nat /\ o[i] >= 2 /\ o[i] + Size(i) <= Len(s) + 1
             /\ \A k \in 1 .. Size(i) : s[o[i] + k - 1] = Tokens(lines[i])[k]
  BY DEF Laid, Size
<1>10. ASSUME NEW i \in 1 .. n + 1
       PROVE  /\ q[i] \in Nat /\ q[i] >= 2 /\ q[i] + Size(i) <= Len(t) + 1
              /\ \A k \in 1 .. Size(i) : t[q[i] + k - 1] = Tokens(lines[i])[k]
  <2>1. CASE i \in 1 .. n
    <3>1. q[i] \in Nat /\ q[i] >= 2 /\ q[i] + Size(i) <= Len(s) + 1
      BY <1>8, <1>9, <2>1
    <3>2. ASSUME NEW k \in 1 .. Size(i) PROVE t[q[i] + k - 1] = Tokens(lines[i])[k]
      <4>1. Size(i) \in Nat
        BY <1>2
      <4>2. q[i] + k - 1 \in 1 .. Len(s)
        BY <1>3, <3>1, <4>1
      <4>3. t[q[i] + k - 1] = s[q[i] + k - 1]
        BY <1>3, <1>5, <1>6, <4>2
      <4> QED
        BY <1>8, <1>9, <2>1, <4>3
    <3> QED
      BY <1>2, <1>3, <1>5, <1>6, <3>1, <3>2
  <2>2. CASE i = n + 1
    <3>1. q[i] = Len(s) + 1
      BY <1>8, <2>2
    <3>2. ASSUME NEW k \in 1 .. Size(i) PROVE t[q[i] + k - 1] = Tokens(lines[i])[k]
      <4>1. /\ q[i] + k - 1 = Len(s) + k /\ k \in Nat /\ k >= 1
            /\ Len(s) + k \in 1 .. Len(s) + Size(n + 1)
            /\ ~(Len(s) + k <= Len(s)) /\ (Len(s) + k) - Len(s) = k
        BY <1>3, <1>6, <2>2, <3>1
      <4>2. t[Len(s) + k] = Tokens(l)[k]
        BY <1>5, <4>1
      <4> QED
        BY <2>2, <4>1, <4>2 DEF l
    <3> QED
      BY <1>3, <1>5, <1>6, <2>2, <3>1, <3>2
  <2> QED
    BY <2>1, <2>2
<1>11. ASSUME NEW i \in 1 .. n + 1, NEW j \in 1 .. n + 1, i < j
       PROVE  q[i] + Size(i) <= q[j]
  <2>1. i \in 1 .. n
    BY <1>11
  <2>2. CASE j = n + 1
    BY <1>3, <1>8, <1>9, <2>1, <2>2
  <2>3. CASE j \in 1 .. n
    <3>1. o[i] + Size(i) <= o[j]
      BY <1>11, <2>1, <2>3 DEF Laid, Size
    <3> QED
      BY <1>8, <2>1, <2>3, <3>1
  <2> QED
    BY <2>2, <2>3
<1>12. ASSUME NEW p \in 1 .. Len(t)
       PROVE  /\ t[p] = "cookie" =>
                   \E i \in 1 .. n + 1 : p = q[i] /\ lines[i].kind \in {"cookie", "bare"}
              /\ t[p] = "gzip" => \E i \in 1 .. n + 1 : p = q[i] /\ lines[i].kind = "gzip"
  <2>1. CASE p <= Len(s)
    <3>1. p \in 1 .. Len(s) /\ t[p] = s[p]
      BY <1>3, <1>5, <1>6, <2>1
    <3>2. /\ s[p] = "cookie" => \E i \in 1 .. n : p = o[i] /\ lines[i].kind \in {"cookie", "bare"}
          /\ s[p] = "gzip" => \E i \in 1 .. n : p = o[i] /\ lines[i].kind = "gzip"
      BY <3>1 DEF Laid
    <3>3. \A i \in 1 .. n : i \in 1 .. n + 1
      OBVIOUS
    <3> QED
      BY <1>8, <3>1, <3>2, <3>3
  <2>2. CASE ~(p <= Len(s))
    <3> DEFINE k == p - Len(s)
    <3>1. k \in 1 .. Size(n + 1) /\ t[p] = Tokens(l)[k] /\ n + 1 \in 1 .. n + 1
      BY <1>3, <1>5, <1>6, <2>2
    <3>2. /\ Tokens(l)[k] = "cookie" => k = 1 /\ l.kind \in {"cookie", "bare"}
          /\ Tokens(l)[k] = "gzip" => k = 1 /\ l.kind = "gzip"
      BY <1>1, <1>4, <3>1, LineTyped
    <3>3. k = 1 => p = q[n + 1]
      BY <1>3, <1>5, <1>6, <1>8
    <3> HIDE DEF k
    <3> QED
      BY <3>1, <3>2, <3>3 DEF l
  <2> QED
    BY <2>1, <2>2
<1>13. Laid(lines, n + 1, t, q)
  BY <1>7, <1>10, <1>11, <1>12 DEF Laid, Size
<1> QED
  BY <1>13 DEF t, l

(* The head of an answer with these lines. *)
HeadOf(lines) == <<"line">> \o FlattenSeq([i \in DOMAIN lines |-> Tokens(lines[i])])

(* Every head is laid out.                                                 *)
LEMMA HeadLaid ==
  ASSUME NEW lines \in Seq(Lines)
  PROVE  \E o : Laid(lines, Len(lines), HeadOf(lines), o)
<1> DEFINE seqs == [i \in DOMAIN lines |-> Tokens(lines[i])]
           L == Len(lines)
<1>1. L \in Nat /\ DOMAIN lines = 1 .. L /\ \A i \in 1 .. L : lines[i] \in Lines
  BY LenProperties, ElementOfSeq
<1>2. Len(seqs) = L /\ \A i \in 1 .. L : seqs[i] = Tokens(lines[i])
  BY <1>1
<1>3. seqs = <<>> \/ L # 0
  BY <1>1
<1> HIDE DEF seqs
<1>4. PICK f : /\ \A i \in 1 .. L : f[i] = IF i = 1 THEN seqs[i] ELSE f[i - 1] \o seqs[i]
               /\ FlattenSeq(seqs) = IF L = 0 THEN seqs ELSE f[L]
  BY <1>1, <1>2, FlattenUnfolds
<1> HIDE DEF L
<1> DEFINE Flat(n) == IF n = 0 THEN <<>> ELSE f[n]
           T == {n \in Nat : n <= L => /\ Flat(n) \in Seq(HeadTokens)
                                       /\ \E o : Laid(lines, n, <<"line">> \o Flat(n), o)}
<1>5. <<"line">> \in Seq(HeadTokens) /\ Len(<<"line">>) = 1 /\ <<"line">>[1] = "line"
  BY DEF HeadTokens
<1>6. 0 \in T
  <2>1. <<"line">> \o <<>> = <<"line">> /\ <<>> \in Seq(HeadTokens)
    BY <1>5, ConcatEmptySeq, EmptySeq
  <2>2. Laid(lines, 0, <<"line">>, <<>>)
    BY <1>5 DEF Laid
  <2> QED
    BY <2>1, <2>2
<1>7. ASSUME NEW n \in Nat, n \in T PROVE n + 1 \in T
  <2> SUFFICES ASSUME n + 1 <= L
               PROVE  /\ Flat(n + 1) \in Seq(HeadTokens)
                      /\ \E o : Laid(lines, n + 1, <<"line">> \o Flat(n + 1), o)
    OBVIOUS
  <2>1. /\ n + 1 \in 1 .. L /\ n <= L /\ n + 1 # 0 /\ (n + 1) - 1 = n
        /\ \A i \in 1 .. n + 1 : i \in 1 .. L
    BY <1>1
  <2>2. Flat(n) \in Seq(HeadTokens) /\ \E o : Laid(lines, n, <<"line">> \o Flat(n), o)
    BY <1>7, <2>1
  <2>3. /\ seqs[n + 1] = Tokens(lines[n + 1]) /\ lines[n + 1] \in Lines
        /\ Tokens(lines[n + 1]) \in Seq(HeadTokens)
    BY <1>1, <1>2, <2>1, LineTyped
  <2>4. Flat(n + 1) = Flat(n) \o Tokens(lines[n + 1])
    <3>1. CASE n = 0
      <4>1. Flat(n + 1) = Tokens(lines[n + 1]) /\ Flat(n) = <<>>
        BY <1>4, <2>1, <2>3, <3>1
      <4> QED
        BY <2>3, <4>1, ConcatEmptySeq
    <3>2. CASE n # 0
      <4>1. f[n + 1] = f[n] \o seqs[n + 1]
        <5>1. n + 1 # 1
          BY <3>2
        <5> QED
          BY <1>4, <2>1, <5>1
      <4> QED
        BY <2>1, <2>3, <3>2, <4>1
    <3> QED
      BY <3>1, <3>2
  <2> HIDE DEF Flat
  <2>5. Flat(n + 1) \in Seq(HeadTokens)
    BY <2>2, <2>3, <2>4, ConcatProperties
  <2>6. <<"line">> \o Flat(n + 1) = (<<"line">> \o Flat(n)) \o Tokens(lines[n + 1])
    <3> DEFINE a == <<"line">>
    <3>1. a \in Seq(HeadTokens)
      BY <1>5
    <3> HIDE DEF a
    <3>2. a \o (Flat(n) \o Tokens(lines[n + 1])) = (a \o Flat(n)) \o Tokens(lines[n + 1])
      BY <2>2, <2>3, <3>1, ConcatAssociative, SMTT(60)
    <3> QED
      BY <2>4, <3>2 DEF a
  <2>7. \A i \in 1 .. n + 1 : lines[i] \in Lines
    BY <1>1, <2>1
  <2>8. PICK o : Laid(lines, n, <<"line">> \o Flat(n), o)
    BY <2>2
  <2>9. \E q : Laid(lines, n + 1, (<<"line">> \o Flat(n)) \o Tokens(lines[n + 1]), q)
    BY <2>7, <2>8, LaidLonger
  <2> QED
    BY <2>5, <2>6, <2>9
<1>8. L \in T
  <2> HIDE DEF T
  <2> QED
    BY <1>1, <1>6, <1>7, FromZeroOn
<1>9. Flat(L) = FlattenSeq(seqs)
  BY <1>3, <1>4
<1>10. HeadOf(lines) = <<"line">> \o Flat(L)
  BY <1>9 DEF HeadOf, seqs
<1> HIDE DEF Flat
<1> QED
  BY <1>1, <1>8, <1>10 DEF L

-----------------------------------------------------------------------------
(* Searches.                                                               *)

(* Find finds the first, or nothing where there is none.                   *)
LEMMA FindFirst ==
  ASSUME NEW s, Len(s) \in Nat, NEW t, NEW i \in Nat \ {0}
  PROVE  \/ Find(t, s, i) = 0 /\ \A j \in i .. Len(s) : s[j] # t
         \/ /\ Find(t, s, i) \in i .. Len(s) /\ s[Find(t, s, i)] = t
            /\ \A j \in i .. Find(t, s, i) - 1 : s[j] # t
<1> DEFINE places == {j \in i .. Len(s) : s[j] = t}
<1>1. Find(t, s, i) = IF places = {} THEN 0 ELSE Min(places)
  BY DEF Find
<1>2. CASE places = {}
  BY <1>1, <1>2
<1>3. CASE places # {}
  <2>1. places \subseteq Nat
    OBVIOUS
  <2>2. \E x \in places : \A y \in places : x <= y
    <3> HIDE DEF places
    <3> QED
      BY <1>3, <2>1, LeastNatural
  <2>3. Min(places) \in places /\ \A y \in places : Min(places) <= y
    <3> HIDE DEF places
    <3> QED
      BY <2>2 DEF Min
  <2>4. Find(t, s, i) \in places /\ \A y \in places : Find(t, s, i) <= y
    BY <1>1, <1>3, <2>3
  <2>5. ASSUME NEW j \in i .. Find(t, s, i) - 1, s[j] = t PROVE FALSE
    <3>1. j \in places /\ ~(Find(t, s, i) <= j)
      BY <2>4, <2>5
    <3> QED
      BY <2>4, <3>1
  <2> QED
    BY <2>4, <2>5
<1> QED
  BY <1>2, <1>3

(* Find finds what is there, and nothing else before it.                   *)
LEMMA FindAt ==
  ASSUME NEW s, Len(s) \in Nat, NEW t, NEW i \in Nat \ {0},
         NEW j \in i .. Len(s), s[j] = t, \A k \in i .. j - 1 : s[k] # t
  PROVE  Find(t, s, i) = j
<1> DEFINE r == Find(t, s, i)
<1>1. r \in i .. Len(s) /\ s[r] = t /\ \A k \in i .. r - 1 : s[k] # t
  BY FindFirst
<1> HIDE DEF r
<1>2. ~(r < j) /\ ~(j < r)
  BY <1>1
<1>3. r = j
  BY <1>1, <1>2
<1> QED
  BY <1>3 DEF r

(* In particular it finds what is second.                                  *)
LEMMA FindSecond ==
  ASSUME NEW s, Len(s) \in Nat, NEW t, NEW i \in Nat \ {0}, NEW j, j = i + 1,
         j <= Len(s), s[i] # t, s[j] = t
  PROVE  Find(t, s, i) = j
<1>1. j \in i .. Len(s) /\ \A k \in i .. j - 1 : k = i
  OBVIOUS
<1> QED
  BY <1>1, FindAt

(* A piece of one token.                                                   *)
LEMMA OneToken ==
  ASSUME NEW s, NEW m \in Int
  PROVE  SubSeq(s, m, m) = <<s[m]>>
<1> DEFINE S == {s[m]}
           t == <<s[m]>>
<1>1. \A i \in m .. m : s[i] \in S
  <2>1. \A i \in m .. m : i = m
    OBVIOUS
  <2> QED
    BY <2>1
<1>2. /\ SubSeq(s, m, m) \in Seq(S) /\ Len(SubSeq(s, m, m)) = 1
      /\ SubSeq(s, m, m)[1] = s[m]
  <2>1. m - m + 1 = 1 /\ m + 1 - 1 = m /\ m <= m /\ 1 \in 1 .. m - m + 1
    OBVIOUS
  <2> HIDE DEF S
  <2> QED
    BY <1>1, <2>1, SubSeqProperties
<1>3. t \in Seq(S) /\ Len(t) = 1 /\ t[1] = s[m]
  OBVIOUS
<1> HIDE DEF S, t
<1>4. \A i \in 1 .. 1 : SubSeq(s, m, m)[i] = t[i]
  <2>1. \A i \in 1 .. 1 : i = 1
    OBVIOUS
  <2> QED
    BY <1>2, <1>3, <2>1
<1>5. SubSeq(s, m, m) = t
  BY <1>2, <1>3, <1>4, SeqEqual
<1> QED
  BY <1>5 DEF t

(* A turn of slack_update_cookies' loop, f being what it finds later on.   *)
Scan(head, f, i) ==
  LET start == Find("cookie", head, i)
      equals == Find("equals", head, start + 1)
      end == Find("semicolon", head, equals + 1)
  IN CASE start = 0 -> <<>>
       [] start # 0 /\ (equals = 0 \/ end = 0) -> <<Crash>>
       [] OTHER -> <<[name |-> SubSeq(head, start + 1, equals - 1),
                      value |-> SubSeq(head, equals + 1, end - 1)]>> \o f[end]

(* It goes forward.                                                        *)
LEMMA ScanForward ==
  ASSUME NEW head, Len(head) \in Nat, NEW i \in Nat \ {0}, NEW f, NEW g,
         \A j \in i + 1 .. Len(head) : f[j] = g[j]
  PROVE  Scan(head, f, i) = Scan(head, g, i)
<1> DEFINE start == Find("cookie", head, i)
           equals == Find("equals", head, start + 1)
           end == Find("semicolon", head, equals + 1)
<1>0. /\ start \in Nat \ {0} => equals = 0 \/ equals \in start + 1 .. Len(head)
      /\ equals \in Nat \ {0} => end = 0 \/ end \in equals + 1 .. Len(head)
      /\ start = 0 \/ start \in i .. Len(head)
  <2>1. \A m \in Nat \ {0} : m + 1 \in Nat \ {0}
    OBVIOUS
  <2> QED
    BY <2>1, FindFirst, Zenon
<1> HIDE DEF start, equals, end
<1>1. start = 0 \/ equals = 0 \/ end = 0 \/ end \in i + 1 .. Len(head)
  BY <1>0
<1> USE DEF start, equals, end
<1>2. start = 0 \/ equals = 0 \/ end = 0 \/ f[end] = g[end]
  <2> HIDE DEF start, equals, end
  <2> QED
    BY <1>1
<1> DEFINE c == [name |-> SubSeq(head, start + 1, equals - 1),
                 value |-> SubSeq(head, equals + 1, end - 1)]
<1>3. ASSUME NEW h
      PROVE  Scan(head, h, i) = CASE start = 0 -> <<>>
                                  [] start # 0 /\ (equals = 0 \/ end = 0) -> <<Crash>>
                                  [] OTHER -> <<c>> \o h[end]
  BY DEF Scan
<1> HIDE DEF start, equals, end, c
<1>4. ASSUME NEW h
      PROVE  /\ start = 0 => Scan(head, h, i) = <<>>
             /\ start # 0 /\ (equals = 0 \/ end = 0) => Scan(head, h, i) = <<Crash>>
             /\ start # 0 /\ equals # 0 /\ end # 0 => Scan(head, h, i) = <<c>> \o h[end]
  BY <1>3, Zenon
<1>5. CASE start = 0
  BY <1>4, <1>5, Zenon
<1>6. CASE start # 0 /\ (equals = 0 \/ end = 0)
  BY <1>4, <1>6, Zenon
<1>7. CASE start # 0 /\ equals # 0 /\ end # 0
  BY <1>2, <1>4, <1>7, Zenon
<1> QED
  BY <1>5, <1>6, <1>7

(* What the loop finds is what a turn at its beginning finds.              *)
LEMMA CookiesUnfold ==
  ASSUME NEW head, Len(head) \in Nat
  PROVE  \E f : /\ Cookies(head) = f[1]
                /\ \A i \in 1 .. Len(head) + 1 : f[i] = Scan(head, f, i)
<1> DEFINE L == Len(head)
           T == {k \in Nat : k <= L => \E f : \A i \in L + 1 - k .. L + 1 : f[i] = Scan(head, f, i)}
<1>1. L \in Nat
  OBVIOUS
<1> HIDE DEF L
<1>2. 0 \in T
  <2> DEFINE f == [i \in 1 .. L + 1 |-> Scan(head, 0, i)]
  <2>1. ASSUME NEW i \in L + 1 .. L + 1 PROVE f[i] = Scan(head, f, i)
    <3>1. i = L + 1 /\ i \in 1 .. L + 1 /\ i \in Nat \ {0}
      BY <1>1
    <3>2. f[i] = Scan(head, 0, i)
      BY <3>1
    <3>3. \A j \in i + 1 .. Len(head) : 0[j] = f[j]
      BY <1>1, <3>1 DEF L
    <3> HIDE DEF f
    <3> QED
      BY <3>1, <3>2, <3>3, ScanForward
  <2>2. L + 1 - 0 = L + 1
    BY <1>1
  <2> HIDE DEF f
  <2> QED
    BY <2>1, <2>2
<1>3. ASSUME NEW k \in Nat, k \in T PROVE k + 1 \in T
  <2> SUFFICES ASSUME k + 1 <= L
               PROVE  \E f : \A i \in L + 1 - (k + 1) .. L + 1 : f[i] = Scan(head, f, i)
    OBVIOUS
  <2>1. PICK f : \A i \in L + 1 - k .. L + 1 : f[i] = Scan(head, f, i)
    BY <1>1, <1>3
  <2> DEFINE m == L - k
             g == [i \in 1 .. L + 1 |-> IF i = m THEN Scan(head, f, m) ELSE f[i]]
  <2>2. m \in 1 .. L /\ L + 1 - (k + 1) = m /\ L + 1 - k = m + 1
    BY <1>1
  <2> HIDE DEF m
  <2>3. g[m] = Scan(head, f, m) /\ \A j \in m + 1 .. L + 1 : g[j] = f[j]
    BY <1>1, <2>2
  <2> HIDE DEF g
  <2>4. ASSUME NEW i \in m .. L + 1 PROVE g[i] = Scan(head, g, i)
    <3>1. i \in Nat \ {0} /\ \A j \in i + 1 .. Len(head) : f[j] = g[j]
      BY <1>1, <2>2, <2>3 DEF L
    <3>2. Scan(head, f, i) = Scan(head, g, i)
      BY <3>1, ScanForward
    <3>3. CASE i = m
      BY <2>3, <3>2, <3>3
    <3>4. CASE i # m
      <4>1. i \in m + 1 .. L + 1
        BY <1>1, <2>2, <3>4
      <4> QED
        BY <2>1, <2>2, <2>3, <3>2, <4>1
    <3> QED
      BY <3>3, <3>4
  <2> QED
    BY <2>2, <2>4
<1>4. L \in T
  <2> HIDE DEF T
  <2> QED
    BY <1>1, <1>2, <1>3, FromZeroOn
<1>5. PICK f : \A i \in 1 .. L + 1 : f[i] = Scan(head, f, i)
  <2>1. L + 1 - L = 1 /\ L <= L
    BY <1>1
  <2> QED
    BY <1>4, <2>1
<1> DEFINE Whole(h) == h = [i \in 1 .. L + 1 |-> Scan(head, h, i)]
           g == [i \in 1 .. L + 1 |-> f[i]]
           c == CHOOSE h : Whole(h)
<1>6. Whole(g)
  <2>1. ASSUME NEW i \in 1 .. L + 1 PROVE g[i] = Scan(head, g, i)
    <3>1. i \in Nat \ {0} /\ \A j \in i + 1 .. Len(head) : f[j] = g[j]
      BY <1>1 DEF L
    <3>2. Scan(head, f, i) = Scan(head, g, i)
      <4> HIDE DEF g
      <4> QED
        BY <3>1, ScanForward
    <3> QED
      BY <1>5, <3>2
  <2>2. g = [i \in 1 .. L + 1 |-> g[i]]
    OBVIOUS
  <2> HIDE DEF g
  <2> QED
    BY <2>1, <2>2
<1>7. Whole(c)
  <2> HIDE DEF Whole, g
  <2> QED
    BY <1>6, Zenon
<1>8. Cookies(head) = c[1]
  BY DEF Cookies, Scan, L
<1> HIDE DEF c
<1>9. \A i \in 1 .. L + 1 : c[i] = Scan(head, c, i)
  BY <1>7
<1> QED
  BY <1>8, <1>9 DEF L

-----------------------------------------------------------------------------
(* What is found in a head whose cookies all have attributes.              *)

(* head is the text of the lines with the end after it.                    *)
IsHead(lines, o, head) ==
  \E s : /\ Laid(lines, Len(lines), s, o)
         /\ Len(head) = Len(s) + 1 /\ head[Len(s) + 1] = "end"
         /\ \A p \in 1 .. Len(s) : head[p] = s[p]

Setting(lines) == {l \in 1 .. Len(lines) : lines[l].kind = "cookie"}

FoundIn(line) == [name |-> <<line.name>>, value |-> <<line.value>>]

(* Where the Set-Cookies of a head are, and what follows them.             *)
LEMMA CookiePlaces ==
  ASSUME NEW lines \in Seq(Lines), NEW o, NEW head, IsHead(lines, o, head),
         \A l \in 1 .. Len(lines) : lines[l].kind # "bare"
  PROVE  /\ Len(lines) \in Nat /\ Len(head) \in Nat
         /\ \A p \in 1 .. Len(head) :
              head[p] = "cookie" => \E l \in Setting(lines) : p = o[l]
         /\ \A l \in Setting(lines) :
              /\ o[l] \in Nat /\ o[l] >= 1 /\ o[l] + 5 < Len(head)
              /\ head[o[l]] = "cookie" /\ head[o[l] + 1] = lines[l].name
              /\ head[o[l] + 2] = "equals" /\ head[o[l] + 3] = lines[l].value
              /\ head[o[l] + 4] = "semicolon"
              /\ lines[l].name \in Names /\ lines[l].value \in Values
              /\ \A m \in Setting(lines) : l < m => o[l] + 6 <= o[m]
<1>1. PICK s : /\ Laid(lines, Len(lines), s, o)
               /\ Len(head) = Len(s) + 1 /\ head[Len(s) + 1] = "end"
               /\ \A p \in 1 .. Len(s) : head[p] = s[p]
  BY DEF IsHead
<1>2. Len(lines) \in Nat /\ Len(s) \in Nat /\ \A l \in 1 .. Len(lines) : lines[l] \in Lines
  BY <1>1, LenProperties, ElementOfSeq DEF Laid
<1>3. ASSUME NEW p \in 1 .. Len(head), head[p] = "cookie"
      PROVE  \E l \in Setting(lines) : p = o[l]
  <2>1. p \in 1 .. Len(s) /\ s[p] = "cookie"
    BY <1>1, <1>2, <1>3
  <2>2. PICK l \in 1 .. Len(lines) : p = o[l] /\ lines[l].kind \in {"cookie", "bare"}
    BY <1>1, <2>1 DEF Laid
  <2> QED
    BY <2>2 DEF Setting
<1>4. ASSUME NEW l \in Setting(lines)
      PROVE  /\ o[l] \in Nat /\ o[l] >= 1 /\ o[l] + 5 < Len(head)
             /\ head[o[l]] = "cookie" /\ head[o[l] + 1] = lines[l].name
             /\ head[o[l] + 2] = "equals" /\ head[o[l] + 3] = lines[l].value
             /\ head[o[l] + 4] = "semicolon"
             /\ lines[l].name \in Names /\ lines[l].value \in Values
             /\ \A m \in Setting(lines) : l < m => o[l] + 6 <= o[m]
  <2> DEFINE t == Tokens(lines[l])
  <2>1. l \in 1 .. Len(lines) /\ lines[l].kind = "cookie" /\ lines[l] \in Lines
    BY <1>2 DEF Setting
  <2>2. /\ Len(t) = 6 /\ t[1] = "cookie" /\ t[2] = lines[l].name /\ t[3] = "equals"
        /\ t[4] = lines[l].value /\ t[5] = "semicolon"
        /\ lines[l].name \in Names /\ lines[l].value \in Values
    BY <2>1, LineTyped
  <2>3. /\ o[l] \in Nat /\ o[l] >= 2 /\ o[l] + Len(t) <= Len(s) + 1
        /\ \A k \in 1 .. Len(t) : s[o[l] + k - 1] = t[k]
        /\ \A m \in 1 .. Len(lines) : l < m => o[l] + Len(t) <= o[m]
    BY <1>1, <2>1 DEF Laid
  <2> HIDE DEF t
  <2>4. ASSUME NEW k \in 1 .. 5 PROVE head[o[l] + k - 1] = t[k]
    <3> DEFINE at == o[l]
               N == Len(s)
    <3>1. at \in Nat /\ at >= 2 /\ at + 6 <= N + 1 /\ N \in Nat
      BY <1>2, <2>2, <2>3
    <3>2. s[at + k - 1] = t[k]
      <4>1. k \in 1 .. Len(t)
        BY <2>2
      <4> QED
        BY <2>3, <4>1, Zenon
    <3> HIDE DEF at, N
    <3>3. at + k - 1 \in 1 .. N
      BY <3>1
    <3>4. head[at + k - 1] = t[k]
      BY <1>1, <3>2, <3>3 DEF N
    <3> QED
      BY <3>4 DEF at
  <2>5. /\ o[l] + 1 - 1 = o[l] /\ o[l] + 2 - 1 = o[l] + 1 /\ o[l] + 3 - 1 = o[l] + 2
        /\ o[l] + 4 - 1 = o[l] + 3 /\ o[l] + 5 - 1 = o[l] + 4
    BY <2>3
  <2>6. /\ head[o[l]] = t[1] /\ head[o[l] + 1] = t[2] /\ head[o[l] + 2] = t[3]
        /\ head[o[l] + 3] = t[4] /\ head[o[l] + 4] = t[5]
    BY <2>4, <2>5
  <2>7. \A m \in Setting(lines) : l < m => o[l] + 6 <= o[m]
    BY <2>2, <2>3 DEF Setting
  <2> QED
    BY <1>1, <1>2, <2>2, <2>3, <2>6, <2>7
<1> QED
  BY <1>1, <1>2, <1>3, <1>4

(* A turn of the loop finds the next Set-Cookie and takes its name and its *)
(* value, or finds that there is none.                                     *)
LEMMA ScanFinds ==
  ASSUME NEW lines \in Seq(Lines), NEW o, NEW head, IsHead(lines, o, head),
         \A l \in 1 .. Len(lines) : lines[l].kind # "bare",
         NEW i \in Nat \ {0}, NEW f
  PROVE  \/ Scan(head, f, i) = <<>> /\ \A l \in Setting(lines) : o[l] < i
         \/ \E l \in Setting(lines) :
              /\ o[l] >= i
              /\ \A m \in Setting(lines) : o[m] >= i <=> l <= m
              /\ Scan(head, f, i) = <<FoundIn(lines[l])>> \o f[o[l] + 4]
<1> DEFINE start == Find("cookie", head, i)
           equals == Find("equals", head, start + 1)
           end == Find("semicolon", head, equals + 1)
           c == [name |-> SubSeq(head, start + 1, equals - 1),
                 value |-> SubSeq(head, equals + 1, end - 1)]
<1>1. Scan(head, f, i) = CASE start = 0 -> <<>>
                           [] start # 0 /\ (equals = 0 \/ end = 0) -> <<Crash>>
                           [] OTHER -> <<c>> \o f[end]
  BY DEF Scan
<1>2. /\ start = 0 => Scan(head, f, i) = <<>>
      /\ start # 0 /\ equals # 0 /\ end # 0 => Scan(head, f, i) = <<c>> \o f[end]
  <2> HIDE DEF start, equals, end, c
  <2> QED
    BY <1>1, Zenon
<1>3. /\ Len(lines) \in Nat /\ Len(head) \in Nat
      /\ \A p \in 1 .. Len(head) :
           head[p] = "cookie" => \E l \in Setting(lines) : p = o[l]
      /\ \A l \in Setting(lines) :
           /\ o[l] \in Nat /\ o[l] >= 1 /\ o[l] + 5 < Len(head)
           /\ head[o[l]] = "cookie" /\ head[o[l] + 1] = lines[l].name
           /\ head[o[l] + 2] = "equals" /\ head[o[l] + 3] = lines[l].value
           /\ head[o[l] + 4] = "semicolon"
           /\ lines[l].name \in Names /\ lines[l].value \in Values
           /\ \A m \in Setting(lines) : l < m => o[l] + 6 <= o[m]
  BY CookiePlaces
<1>4. \/ start = 0 /\ \A j \in i .. Len(head) : head[j] # "cookie"
      \/ /\ start \in i .. Len(head) /\ head[start] = "cookie"
         /\ \A j \in i .. start - 1 : head[j] # "cookie"
  BY <1>3, FindFirst
<1>5. CASE start = 0 /\ \A j \in i .. Len(head) : head[j] # "cookie"
  <2>1. ASSUME NEW l \in Setting(lines), ~(o[l] < i) PROVE FALSE
    <3>1. o[l] \in i .. Len(head) /\ head[o[l]] = "cookie"
      BY <1>3, <2>1, SMTT(60)
    <3> QED
      BY <1>5, <3>1
  <2> QED
    BY <1>2, <1>5, <2>1, <1>3
<1>6. CASE /\ start \in i .. Len(head) /\ head[start] = "cookie"
           /\ \A j \in i .. start - 1 : head[j] # "cookie"
  <2>1. start \in 1 .. Len(head) /\ start \in Nat \ {0}
    <3> HIDE DEF start
    <3> QED
      BY <1>3, <1>6
  <2>2. PICK l \in Setting(lines) : start = o[l]
    BY <1>3, <1>6, <2>1
  <2>3. /\ o[l] \in Nat /\ o[l] >= 1 /\ o[l] + 5 < Len(head)
        /\ head[o[l] + 1] = lines[l].name
        /\ head[o[l] + 2] = "equals" /\ head[o[l] + 3] = lines[l].value
        /\ head[o[l] + 4] = "semicolon"
        /\ lines[l].name \in Names /\ lines[l].value \in Values
    BY <1>3
  <2>4. lines[l].name # "equals" /\ lines[l].value # "semicolon"
    BY <2>3, ResponseAssumption DEF Marks
  <2> DEFINE at == o[l]
             L == Len(head)
  <2>a. /\ at \in Nat /\ at >= 1 /\ at + 5 < L /\ L \in Nat /\ start = at
        /\ head[at + 1] = lines[l].name /\ head[at + 2] = "equals"
        /\ head[at + 3] = lines[l].value /\ head[at + 4] = "semicolon"
    BY <1>3, <2>2, <2>3
  <2>b. /\ at + 1 \in Nat \ {0} /\ at + 2 = (at + 1) + 1 /\ at + 2 <= L
        /\ at + 3 \in Nat \ {0} /\ at + 4 = (at + 3) + 1 /\ at + 4 <= L
        /\ (at + 2) + 1 = at + 3 /\ (at + 2) - 1 = at + 1 /\ (at + 4) - 1 = at + 3
    <3> HIDE DEF at, L, start
    <3> QED
      BY <2>a
  <2>5. equals = at + 2
    <3> HIDE DEF at, start
    <3>1. Find("equals", head, at + 1) = at + 2
      BY <2>4, <2>a, <2>b, FindSecond
    <3> QED
      BY <2>a, <3>1
  <2>6. end = at + 4
    <3> HIDE DEF at, equals
    <3>1. Find("semicolon", head, at + 3) = at + 4
      BY <2>4, <2>a, <2>b, FindSecond
    <3> QED
      BY <2>5, <2>b, <3>1
  <2>7. c = FoundIn(lines[l])
    <3> HIDE DEF at, start, equals, end
    <3>1. SubSeq(head, at + 1, at + 1) = <<head[at + 1]>> /\ SubSeq(head, at + 3, at + 3) = <<head[at + 3]>>
      BY <2>b, OneToken
    <3>2. c = [name |-> SubSeq(head, at + 1, at + 1), value |-> SubSeq(head, at + 3, at + 3)]
      BY <2>5, <2>6, <2>a, <2>b
    <3> QED
      BY <2>a, <3>1, <3>2 DEF FoundIn
  <2>8. Scan(head, f, i) = <<FoundIn(lines[l])>> \o f[o[l] + 4]
    <3>1. start # 0 /\ equals # 0 /\ end # 0
      <4> HIDE DEF start, equals, end
      <4> QED
        BY <2>2, <2>3, <2>5, <2>6, SMTT(60)
    <3> HIDE DEF start, equals, c, FoundIn
    <3> QED
      BY <1>2, <2>6, <2>7, <3>1
  <2> HIDE DEF start, equals, end, c
  <2>9. o[l] >= i
    BY <1>3, <1>6, <2>2
  <2>10. ASSUME NEW m \in Setting(lines) PROVE o[m] >= i <=> l <= m
    <3>1. l \in 1 .. Len(lines) /\ m \in 1 .. Len(lines)
      BY DEF Setting
    <3>2. CASE l <= m
      <4> HIDE DEF at, L
      <4>2. o[m] \in Nat /\ o[l] \in Nat
        BY <1>3
      <4>1. o[l] <= o[m]
        <5>1. CASE l = m
          BY <4>2, <5>1
        <5>2. CASE l < m
          <6>1. o[l] + 6 <= o[m]
            BY <1>3, <5>2, Zenon
          <6> QED
            BY <4>2, <6>1
        <5> QED
          BY <1>3, <3>1, <3>2, <5>1, <5>2
      <4> QED
        BY <2>9, <3>2, <4>1, <4>2
    <3>3. CASE m < l
      <4>1. o[m] \in Nat /\ o[m] + 6 <= o[l] /\ head[o[m]] = "cookie"
        BY <1>3, <3>3
      <4>2. ~(o[m] \in i .. start - 1)
        BY <1>6, <4>1
      <4> QED
        BY <2>2, <2>3, <3>1, <3>3, <4>1, <4>2
    <3> QED
      BY <1>3, <3>1, <3>2, <3>3
  <2> QED
    BY <2>8, <2>9, <2>10
<1> QED
  BY <1>4, <1>5, <1>6

Finds == [name : {<<n>> : n \in Names}, value : {<<v>> : v \in Values}]

(* c has what the lines of S set: of each name, the last that c has is the *)
(* one of the last line of that name.                                      *)
Covers(c, S, lines) ==
  /\ c \in Seq(Finds)
  /\ \A x : \/ /\ \A k \in 1 .. Len(c) : c[k].name # x
               /\ \A l \in S : <<lines[l].name>> # x
            \/ \E k \in 1 .. Len(c), l \in S :
                 /\ c[k] = FoundIn(lines[l]) /\ c[k].name = x
                 /\ \A j \in k + 1 .. Len(c) : c[j].name # x
                 /\ \A m \in S : l < m => <<lines[m].name>> # x

(* One more line, before the others.                                       *)
LEMMA CoversLonger ==
  ASSUME NEW c, NEW S, NEW R, NEW lines, Covers(c, R, lines),
         S \subseteq Nat, NEW l \in S, R = {m \in S : l < m}, \A m \in S : l <= m,
         lines[l].name \in Names, lines[l].value \in Values
  PROVE  Covers(<<FoundIn(lines[l])>> \o c, S, lines)
<1> DEFINE a == FoundIn(lines[l])
           one == <<a>>
           d == one \o c
<1>1. a \in Finds /\ a.name = <<lines[l].name>>
  BY DEF FoundIn, Finds
<1>2. a = FoundIn(lines[l])
  OBVIOUS
<1> HIDE DEF a
<1>3. one \in Seq(Finds) /\ Len(one) = 1 /\ one[1] = a
  BY <1>1
<1>4. c \in Seq(Finds) /\ Len(c) \in Nat
  BY LenProperties DEF Covers
<1> HIDE DEF one
<1>5. /\ d \in Seq(Finds) /\ Len(d) = Len(c) + 1
      /\ \A i \in 1 .. Len(c) + 1 : d[i] = IF i <= 1 THEN one[i] ELSE c[i - 1]
  <2>1. /\ d \in Seq(Finds) /\ Len(d) = 1 + Len(c)
        /\ \A i \in 1 .. 1 + Len(c) : d[i] = IF i <= 1 THEN one[i] ELSE c[i - 1]
    BY <1>3, <1>4, ConcatProperties, SMTT(60)
  <2>2. 1 + Len(c) = Len(c) + 1
    BY <1>4
  <2> QED
    BY <2>1, <2>2
<1> HIDE DEF d
<1>6. d[1] = a /\ \A i \in 2 .. Len(c) + 1 : d[i] = c[i - 1]
  BY <1>3, <1>4, <1>5
<1>7. ASSUME NEW x
      PROVE  \/ /\ \A k \in 1 .. Len(d) : d[k].name # x
                /\ \A m \in S : <<lines[m].name>> # x
             \/ \E k \in 1 .. Len(d), m \in S :
                  /\ d[k] = FoundIn(lines[m]) /\ d[k].name = x
                  /\ \A j \in k + 1 .. Len(d) : d[j].name # x
                  /\ \A q \in S : m < q => <<lines[q].name>> # x
  <2>1. CASE /\ \A k \in 1 .. Len(c) : c[k].name # x
             /\ \A m \in R : <<lines[m].name>> # x
    <3>1. \A j \in 2 .. Len(d) : d[j].name # x
      <4> SUFFICES ASSUME NEW j \in 2 .. Len(d) PROVE d[j].name # x
        OBVIOUS
      <4>1. j - 1 \in 1 .. Len(c) /\ d[j] = c[j - 1]
        BY <1>4, <1>5, <1>6
      <4> QED
        BY <2>1, <4>1
    <3>2. CASE a.name = x
      <4>1. 1 \in 1 .. Len(d) /\ 1 + 1 = 2
        BY <1>4, <1>5
      <4> QED
        BY <1>2, <1>6, <2>1, <3>1, <3>2, <4>1
    <3>3. CASE a.name # x
      <4>1. \A k \in 1 .. Len(d) : k = 1 \/ k \in 2 .. Len(d)
        BY <1>4, <1>5
      <4>2. \A m \in S : m = l \/ m \in R
        OBVIOUS
      <4> QED
        BY <1>1, <1>6, <2>1, <3>1, <3>3, <4>1, <4>2
    <3> QED
      BY <3>2, <3>3
  <2>2. CASE \E k \in 1 .. Len(c), m \in R :
               /\ c[k] = FoundIn(lines[m]) /\ c[k].name = x
               /\ \A j \in k + 1 .. Len(c) : c[j].name # x
               /\ \A q \in R : m < q => <<lines[q].name>> # x
    <3>1. PICK k \in 1 .. Len(c), m \in R :
            /\ c[k] = FoundIn(lines[m]) /\ c[k].name = x
            /\ \A j \in k + 1 .. Len(c) : c[j].name # x
            /\ \A q \in R : m < q => <<lines[q].name>> # x
      BY <2>2
    <3>2. k + 1 \in 1 .. Len(d) /\ d[k + 1] = c[k]
      <4>1. k + 1 \in 2 .. Len(c) + 1 /\ (k + 1) - 1 = k
        BY <1>4
      <4> QED
        BY <1>4, <1>5, <1>6, <4>1
    <3>3. ASSUME NEW j \in (k + 1) + 1 .. Len(d) PROVE d[j].name # x
      <4>1. j \in 2 .. Len(c) + 1 /\ j - 1 \in k + 1 .. Len(c)
        BY <1>4, <1>5
      <4> QED
        BY <1>6, <3>1, <4>1
    <3>4. m \in S /\ \A q \in S : m < q => q \in R
      OBVIOUS
    <3> QED
      BY <3>1, <3>2, <3>3, <3>4
  <2> QED
    BY <2>1, <2>2 DEF Covers
<1>8. Covers(d, S, lines)
  BY <1>5, <1>7 DEF Covers
<1> QED
  BY <1>8 DEF d, one, a

(* slack_update_cookies finds what the lines set, and goes on from no      *)
(* character that strchr did not find.                                     *)
LEMMA CookiesRead ==
  ASSUME NEW lines \in Seq(Lines), NEW o, NEW head, IsHead(lines, o, head),
         \A l \in 1 .. Len(lines) : lines[l].kind # "bare"
  PROVE  Covers(Cookies(head), Setting(lines), lines)
<1> DEFINE L == Len(head)
           From(i) == {l \in Setting(lines) : o[l] >= i}
<1>1. /\ Len(lines) \in Nat /\ L \in Nat
      /\ \A l \in Setting(lines) :
           /\ o[l] \in Nat /\ o[l] >= 1 /\ o[l] + 5 < L
           /\ lines[l].name \in Names /\ lines[l].value \in Values
           /\ \A m \in Setting(lines) : l < m => o[l] + 6 <= o[m]
  BY CookiePlaces
<1>2. PICK f : /\ Cookies(head) = f[1]
               /\ \A i \in 1 .. L + 1 : f[i] = Scan(head, f, i)
  BY <1>1, CookiesUnfold
<1> HIDE DEF L
<1> DEFINE Good(i) == Covers(f[i], From(i), lines)
           Bad == {k \in Nat : \E i \in 1 .. L + 1 : i + k = L + 1 /\ ~Good(i)}
<1>3. ASSUME NEW i \in 1 .. L + 1, \A j \in i + 1 .. L + 1 : Good(j)
      PROVE  Good(i)
  <2>1. \/ Scan(head, f, i) = <<>> /\ \A l \in Setting(lines) : o[l] < i
        \/ \E l \in Setting(lines) :
             /\ o[l] >= i
             /\ \A m \in Setting(lines) : o[m] >= i <=> l <= m
             /\ Scan(head, f, i) = <<FoundIn(lines[l])>> \o f[o[l] + 4]
    <3>1. i \in Nat \ {0}
      BY <1>1
    <3> QED
      BY <3>1, ScanFinds
  <2>2. CASE Scan(head, f, i) = <<>> /\ \A l \in Setting(lines) : o[l] < i
    <3>1. From(i) = {}
      BY <1>1, <2>2
    <3>2. f[i] = <<>>
      BY <1>2, <2>2
    <3> HIDE DEF From
    <3>3. <<>> \in Seq(Finds) /\ Len(<<>>) = 0
      BY EmptySeq
    <3> QED
      BY <3>1, <3>2, <3>3 DEF Covers
  <2>3. CASE \E l \in Setting(lines) :
               /\ o[l] >= i
               /\ \A m \in Setting(lines) : o[m] >= i <=> l <= m
               /\ Scan(head, f, i) = <<FoundIn(lines[l])>> \o f[o[l] + 4]
    <3>1. PICK l \in Setting(lines) :
            /\ o[l] >= i
            /\ \A m \in Setting(lines) : o[m] >= i <=> l <= m
            /\ Scan(head, f, i) = <<FoundIn(lines[l])>> \o f[o[l] + 4]
      BY <2>3
    <3> DEFINE e == o[l] + 4
    <3>2. o[l] \in Nat /\ e \in i + 1 .. L + 1
      <4>1. o[l] \in Nat /\ o[l] + 5 < L
        BY <1>1
      <4> QED
        BY <1>1, <3>1, <4>1
    <3>3. Good(e)
      <4> HIDE DEF Good, e
      <4> QED
        BY <1>3, <3>2
    <3>4. Setting(lines) \subseteq Nat
      BY <1>1 DEF Setting
    <3>5. From(e) = {m \in From(i) : l < m}
      <4>1. ASSUME NEW m \in Setting(lines) PROVE o[m] >= e <=> l < m
        <5>1. l \in Nat /\ m \in Nat /\ o[m] \in Nat
          BY <1>1, <3>4
        <5>2. CASE l < m
          <6>1. o[l] + 6 <= o[m]
            BY <1>1, <5>2, Zenon
          <6> QED
            BY <3>2, <5>1, <5>2, <6>1
        <5>3. CASE l = m
          BY <3>2, <5>1, <5>3
        <5>4. CASE m < l
          <6>1. o[m] + 6 <= o[l]
            BY <1>1, <5>4, Zenon
          <6> QED
            BY <3>2, <5>1, <5>4, <6>1
        <5> QED
          BY <5>1, <5>2, <5>3, <5>4
      <4>2. ASSUME NEW m \in Setting(lines), l < m PROVE o[m] >= i
        <5>1. l \in Nat /\ m \in Nat
          BY <3>4
        <5> QED
          BY <3>1, <4>2, <5>1
      <4> HIDE DEF e
      <4> QED
        BY <4>1, <4>2
    <3>6. l \in From(i) /\ From(i) \subseteq Nat /\ \A m \in From(i) : l <= m
      BY <3>1, <3>4
    <3>7. lines[l].name \in Names /\ lines[l].value \in Values
      BY <1>1
    <3>8. f[i] = <<FoundIn(lines[l])>> \o f[e]
      BY <1>2, <3>1
    <3> HIDE DEF From, e
    <3> QED
      BY <3>3, <3>5, <3>6, <3>7, <3>8, CoversLonger
  <2> QED
    BY <2>1, <2>2, <2>3
<1> HIDE DEF Good
<1>4. Bad = {}
  <2> SUFFICES ASSUME Bad # {} PROVE FALSE
    OBVIOUS
  <2>1. PICK k \in Bad : \A m \in Bad : k <= m
    <3>1. Bad \subseteq Nat
      OBVIOUS
    <3> HIDE DEF Bad
    <3> QED
      BY <3>1, LeastNatural
  <2>2. PICK i \in 1 .. L + 1 : i + k = L + 1 /\ ~Good(i)
    BY <2>1
  <2>3. ASSUME NEW j \in i + 1 .. L + 1 PROVE Good(j)
    <3> DEFINE d == L + 1 - j
    <3>1. d \in Nat /\ j + d = L + 1 /\ j \in 1 .. L + 1 /\ ~(k <= d)
      BY <1>1, <2>2
    <3>2. d \notin Bad
      BY <2>1, <3>1
    <3> HIDE DEF d
    <3> QED
      BY <3>1, <3>2
  <2> QED
    BY <1>3, <2>2, <2>3
<1>5. Good(1)
  <2>1. L \in Nat /\ 1 + L = L + 1 /\ 1 \in 1 .. L + 1
    BY <1>1
  <2> QED
    BY <1>4, <2>1
<1>6. From(1) = Setting(lines)
  BY <1>1
<1> QED
  BY <1>2, <1>5, <1>6 DEF Good

-----------------------------------------------------------------------------
(* What slack_update_cookies keeps.                                        *)

(* The table after each of the cookies found.                              *)
LEMMA FilledUnfolds ==
  ASSUME NEW table, NEW c, Len(c) \in Nat
  PROVE  \E g : /\ g[0] = table
                /\ \A n \in 1 .. Len(c) : g[n] = Put(g[n - 1], c[n])
                /\ Filled(table, c) = g[Len(c)]
<1> DEFINE Upto(f, n) == f = [i \in 0 .. n |-> IF i = 0 THEN table ELSE Put(f[i - 1], c[i])]
           T == {n \in Nat : \E f : Upto(f, n)}
<1>1. 0 \in T
  <2> DEFINE f == [i \in 0 .. 0 |-> table]
  <2>1. f = [i \in 0 .. 0 |-> IF i = 0 THEN table ELSE Put(f[i - 1], c[i])]
    OBVIOUS
  <2> HIDE DEF f
  <2>2. Upto(f, 0)
    BY <2>1
  <2> HIDE DEF Upto
  <2> QED
    BY <2>2
<1>2. ASSUME NEW n \in Nat, n \in T PROVE n + 1 \in T
  <2>1. PICK f : Upto(f, n)
    BY <1>2
  <2> DEFINE g == [i \in 0 .. n + 1 |-> IF i <= n THEN f[i] ELSE Put(f[n], c[n + 1])]
  <2>2. ASSUME NEW i \in 0 .. n + 1
        PROVE  g[i] = IF i = 0 THEN table ELSE Put(g[i - 1], c[i])
    <3>1. CASE i <= n
      <4>1. i \in 0 .. n /\ (i # 0 => i - 1 \in 0 .. n + 1 /\ i - 1 <= n)
        BY <3>1
      <4>2. f[i] = IF i = 0 THEN table ELSE Put(f[i - 1], c[i])
        BY <2>1, <4>1
      <4> QED
        BY <3>1, <4>1, <4>2
    <3>2. CASE i = n + 1
      <4>1. ~(i <= n) /\ i # 0 /\ i - 1 = n /\ n \in 0 .. n + 1 /\ n <= n
        BY <3>2
      <4>2. g[i] = Put(f[n], c[n + 1]) /\ g[n] = f[n]
        BY <4>1
      <4> HIDE DEF g
      <4> QED
        BY <3>2, <4>1, <4>2
    <3> QED
      BY <3>1, <3>2
  <2>3. g = [i \in 0 .. n + 1 |-> g[i]]
    OBVIOUS
  <2> HIDE DEF g
  <2>4. Upto(g, n + 1)
    BY <2>2, <2>3
  <2> HIDE DEF Upto
  <2> QED
    BY <2>4
<1> HIDE DEF T
<1>3. \A n \in Nat : n \in T
  BY <1>1, <1>2, FromZeroOn
<1>4. \E f : Upto(f, Len(c))
  BY <1>3 DEF T
<1> DEFINE g == CHOOSE f : Upto(f, Len(c))
<1>5. Upto(g, Len(c))
  BY <1>4, Zenon
<1>6. Filled(table, c) = g[Len(c)]
  BY DEF Filled
<1> HIDE DEF g
<1>7. \A i \in 0 .. Len(c) : g[i] = IF i = 0 THEN table ELSE Put(g[i - 1], c[i])
  BY <1>5
<1>8. g[0] = table
  BY <1>7
<1>9. ASSUME NEW n \in 1 .. Len(c) PROVE g[n] = Put(g[n - 1], c[n])
  <2>1. n \in 0 .. Len(c) /\ n # 0
    OBVIOUS
  <2> QED
    BY <1>7, <2>1
<1> QED
  BY <1>6, <1>8, <1>9

(* t has, besides the cookies of table, those of the first n of c; the     *)
(* last value of each.                                                     *)
Holds(t, table, c, n) ==
  /\ \A x : x \in DOMAIN t <=> x \in DOMAIN table \/ \E k \in 1 .. n : c[k].name = x
  /\ \A x : \A k \in 1 .. n :
       c[k].name = x /\ (\A j \in k + 1 .. n : c[j].name # x) => t[x] = c[k].value
  /\ \A x \in DOMAIN table : (\A k \in 1 .. n : c[k].name # x) => t[x] = table[x]

(* One more cookie.                                                        *)
LEMMA HoldsMore ==
  ASSUME NEW t, NEW table, NEW c, NEW n \in Nat, Holds(t, table, c, n)
  PROVE  Holds(Put(t, c[n + 1]), table, c, n + 1)
<1> DEFINE a == c[n + 1]
           r == Put(t, a)
<1>1. /\ \A x : x \in DOMAIN r <=> x \in DOMAIN t \/ a.name = x
      /\ a.name \in DOMAIN r => r[a.name] = a.value
      /\ \A x \in DOMAIN t : x # a.name => r[x] = t[x]
  BY DEF Put
<1>2. /\ \A k \in 1 .. n + 1 : k \in 1 .. n \/ k = n + 1
      /\ \A k \in 1 .. n : k \in 1 .. n + 1 /\ n + 1 \in k + 1 .. n + 1
                           /\ \A j \in k + 1 .. n : j \in k + 1 .. n + 1
      /\ n + 1 \in 1 .. n + 1
  OBVIOUS
<1>3. a = c[n + 1]
  OBVIOUS
<1> HIDE DEF r, a
<1>4. \A x : x \in DOMAIN r <=> x \in DOMAIN table \/ \E k \in 1 .. n + 1 : c[k].name = x
  BY <1>1, <1>2, <1>3, Zenon DEF Holds
<1>5. ASSUME NEW x, NEW k \in 1 .. n + 1, c[k].name = x,
             \A j \in k + 1 .. n + 1 : c[j].name # x
      PROVE  r[x] = c[k].value
  <2>1. CASE k = n + 1
    BY <1>1, <1>3, <1>5, <2>1
  <2>2. CASE k \in 1 .. n
    <3>1. x # a.name
      BY <1>2, <1>3, <1>5, <2>2, Zenon
    <3>2. \A j \in k + 1 .. n : c[j].name # x
      BY <1>2, <1>5, <2>2, Zenon
    <3>3. x \in DOMAIN t
      BY <1>5, <2>2, Zenon DEF Holds
    <3>4. \A i \in 1 .. n :
            c[i].name = x /\ (\A j \in i + 1 .. n : c[j].name # x) => t[x] = c[i].value
      BY DEF Holds
    <3>5. t[x] = c[k].value
      BY <1>5, <2>2, <3>2, <3>4, Zenon
    <3> QED
      BY <1>1, <3>1, <3>3, <3>5
  <2> QED
    BY <1>2, <2>1, <2>2
<1>6. ASSUME NEW x \in DOMAIN table, \A k \in 1 .. n + 1 : c[k].name # x
      PROVE  r[x] = table[x]
  <2>1. x # a.name /\ \A k \in 1 .. n : c[k].name # x
    BY <1>2, <1>3, <1>6, Zenon
  <2>2. t[x] = table[x] /\ x \in DOMAIN t
    BY <2>1, Zenon DEF Holds
  <2> QED
    BY <1>1, <2>1, <2>2
<1>7. Holds(r, table, c, n + 1)
  BY <1>4, <1>5, <1>6 DEF Holds
<1> QED
  BY <1>7 DEF r, a

(* The table after all of them.                                            *)
LEMMA FilledHolds ==
  ASSUME NEW table, NEW c, Len(c) \in Nat
  PROVE  Holds(Filled(table, c), table, c, Len(c))
<1>1. PICK g : /\ g[0] = table
               /\ \A n \in 1 .. Len(c) : g[n] = Put(g[n - 1], c[n])
               /\ Filled(table, c) = g[Len(c)]
  BY FilledUnfolds
<1> DEFINE T == {n \in Nat : n <= Len(c) => Holds(g[n], table, c, n)}
<1>2. 0 \in T
  <2>1. Holds(table, table, c, 0)
    BY DEF Holds
  <2> QED
    BY <1>1, <2>1
<1>3. ASSUME NEW n \in Nat, n \in T PROVE n + 1 \in T
  <2> SUFFICES ASSUME n + 1 <= Len(c) PROVE Holds(g[n + 1], table, c, n + 1)
    OBVIOUS
  <2>1. n + 1 \in 1 .. Len(c) /\ (n + 1) - 1 = n /\ n <= Len(c)
    OBVIOUS
  <2>2. g[n + 1] = Put(g[n], c[n + 1])
    BY <1>1, <2>1
  <2>3. Holds(g[n], table, c, n)
    BY <1>3, <2>1
  <2> QED
    BY <2>2, <2>3, HoldsMore
<1>4. Len(c) \in T
  <2> HIDE DEF T
  <2> QED
    BY <1>2, <1>3, FromZeroOn
<1> QED
  BY <1>1, <1>4

(* The greatest of a set of numbers is the one no other is above.          *)
LEMMA GreatestIs ==
  ASSUME NEW S, S \subseteq Nat, NEW l \in S, \A m \in S : ~(l < m)
  PROVE  Max(S) = l
<1>1. \A m \in S : l >= m
  OBVIOUS
<1>2. \A x \in S : (\A m \in S : x >= m) => x = l
  <2> SUFFICES ASSUME NEW x \in S, \A m \in S : x >= m PROVE x = l
    OBVIOUS
  <2>1. x >= l /\ l >= x /\ x \in Nat /\ l \in Nat
    BY <1>1
  <2> QED
    BY <2>1
<1> DEFINE Top(x) == \A m \in S : x >= m
<1>3. \E x \in S : Top(x)
  BY <1>1
<1>4. Max(S) \in S /\ Top(Max(S))
  <2>1. Max(S) = CHOOSE x \in S : Top(x)
    BY DEF Max
  <2> HIDE DEF Top
  <2> QED
    BY <1>3, <2>1, Zenon
<1> QED
  BY <1>2, <1>4

(* What CookiesAsSent says of a table, the one before, the lines of an     *)
(* answer and those of them that count.                                    *)
KeptLast(table, old, lines, set) ==
  LET Of(n) == {i \in set : <<lines[i].name>> = n}
  IN /\ DOMAIN table = DOMAIN old \cup {<<lines[i].name>> : i \in set}
     /\ \A n \in DOMAIN table :
          table[n] = IF Of(n) = {} THEN old[n] ELSE <<lines[Max(Of(n))].value>>

(* A table with the last value of each name is what it asks for.           *)
LEMMA LastKept ==
  ASSUME NEW table, NEW old, NEW lines, NEW set, set \subseteq Nat,
         DOMAIN table = DOMAIN old \cup {<<lines[i].name>> : i \in set},
         \A n \in DOMAIN table :
           \/ (\A l \in set : <<lines[l].name>> # n) /\ table[n] = old[n]
           \/ \E l \in set : /\ <<lines[l].name>> = n
                             /\ table[n] = <<lines[l].value>>
                             /\ \A m \in set : l < m => <<lines[m].name>> # n
  PROVE  KeptLast(table, old, lines, set)
<1> DEFINE Of(n) == {i \in set : <<lines[i].name>> = n}
<1>1. ASSUME NEW n \in DOMAIN table
      PROVE  table[n] = IF Of(n) = {} THEN old[n] ELSE <<lines[Max(Of(n))].value>>
  <2>1. CASE (\A l \in set : <<lines[l].name>> # n) /\ table[n] = old[n]
    <3>1. Of(n) = {}
      BY <2>1
    <3> QED
      BY <2>1, <3>1
  <2>2. CASE \E l \in set : /\ <<lines[l].name>> = n
                            /\ table[n] = <<lines[l].value>>
                            /\ \A m \in set : l < m => <<lines[m].name>> # n
    <3>1. PICK l \in set : /\ <<lines[l].name>> = n
                           /\ table[n] = <<lines[l].value>>
                           /\ \A m \in set : l < m => <<lines[m].name>> # n
      BY <2>2
    <3>2. l \in Of(n) /\ Of(n) \subseteq Nat /\ \A m \in Of(n) : ~(l < m)
      BY <3>1
    <3> HIDE DEF Of
    <3>3. Max(Of(n)) = l /\ Of(n) # {}
      BY <3>2, GreatestIs
    <3> QED
      BY <3>1, <3>3
  <2> QED
    BY <2>1, <2>2
<1> QED
  BY <1>1 DEF KeptLast

(* Of each name that the lines of S set, the last value; every other       *)
(* cookie as it was.                                                       *)
LEMMA TableKept ==
  ASSUME NEW table, NEW c, NEW S, NEW lines, Covers(c, S, lines), S \subseteq Nat
  PROVE  KeptLast(Filled(table, c), table, lines, S)
<1> DEFINE r == Filled(table, c)
           L == Len(c)
<1>1. L \in Nat
  BY LenProperties DEF Covers
<1>2. Holds(r, table, c, L)
  BY <1>1, FilledHolds
<1> HIDE DEF r, L
<1>3. ASSUME NEW x
      PROVE  \/ /\ \A k \in 1 .. L : c[k].name # x
                /\ \A l \in S : <<lines[l].name>> # x
             \/ \E k \in 1 .. L, l \in S :
                  /\ c[k] = FoundIn(lines[l]) /\ c[k].name = x
                  /\ \A j \in k + 1 .. L : c[j].name # x
                  /\ \A m \in S : l < m => <<lines[m].name>> # x
  BY DEF Covers, L
<1>4. ASSUME NEW x
      PROVE  \/ /\ \A l \in S : <<lines[l].name>> # x
                /\ x \in DOMAIN r <=> x \in DOMAIN table
                /\ x \in DOMAIN r => r[x] = table[x]
             \/ /\ x \in DOMAIN r
                /\ \E l \in S : /\ <<lines[l].name>> = x /\ r[x] = <<lines[l].value>>
                                /\ \A m \in S : l < m => <<lines[m].name>> # x
  <2>1. CASE /\ \A k \in 1 .. L : c[k].name # x
             /\ \A l \in S : <<lines[l].name>> # x
    <3>1. x \in DOMAIN r <=> x \in DOMAIN table
      BY <1>2, <2>1, Zenon DEF Holds
    <3>2. x \in DOMAIN table => r[x] = table[x]
      BY <1>2, <2>1, Zenon DEF Holds
    <3> QED
      BY <2>1, <3>1, <3>2
  <2>2. CASE \E k \in 1 .. L, l \in S :
               /\ c[k] = FoundIn(lines[l]) /\ c[k].name = x
               /\ \A j \in k + 1 .. L : c[j].name # x
               /\ \A m \in S : l < m => <<lines[m].name>> # x
    <3>1. PICK k \in 1 .. L, l \in S :
            /\ c[k] = FoundIn(lines[l]) /\ c[k].name = x
            /\ \A j \in k + 1 .. L : c[j].name # x
            /\ \A m \in S : l < m => <<lines[m].name>> # x
      BY <2>2
    <3>a. \A i \in 1 .. L :
            c[i].name = x /\ (\A j \in i + 1 .. L : c[j].name # x) => r[x] = c[i].value
      BY <1>2 DEF Holds
    <3>b. x \in DOMAIN r
      BY <1>2, <3>1, Zenon DEF Holds
    <3>2. x \in DOMAIN r /\ r[x] = c[k].value
      BY <3>1, <3>a, <3>b, Zenon
    <3>3. <<lines[l].name>> = x /\ c[k].value = <<lines[l].value>>
      BY <3>1 DEF FoundIn
    <3> QED
      BY <3>1, <3>2, <3>3
  <2> QED
    BY <1>3, <2>1, <2>2
<1>5. DOMAIN r = DOMAIN table \cup {<<lines[l].name>> : l \in S}
  <2>1. ASSUME NEW x
        PROVE  x \in DOMAIN r <=> x \in DOMAIN table \/ \E l \in S : x = <<lines[l].name>>
    BY <1>4
  <2> QED
    BY <2>1, Zenon
<1>6. \A x \in DOMAIN r :
        \/ (\A l \in S : <<lines[l].name>> # x) /\ r[x] = table[x]
        \/ \E l \in S : /\ <<lines[l].name>> = x /\ r[x] = <<lines[l].value>>
                        /\ \A m \in S : l < m => <<lines[m].name>> # x
  BY <1>4
<1>7. KeptLast(r, table, lines, S)
  BY <1>5, <1>6, LastKept
<1> QED
  BY <1>7 DEF r

-----------------------------------------------------------------------------
(* What has arrived.                                                       *)

(* A text of three parts.                                                  *)
LEMMA ThreeParts ==
  ASSUME NEW S, NEW s \in Seq(S), NEW a \in Seq(S), NEW b \in Seq(S),
         Len(a) = 1
  PROVE  /\ (s \o a) \o b \in Seq(S) /\ Len((s \o a) \o b) = Len(s) + 1 + Len(b)
         /\ \A p \in 1 .. Len(s) : ((s \o a) \o b)[p] = s[p]
         /\ ((s \o a) \o b)[Len(s) + 1] = a[1]
         /\ \A k \in 1 .. Len(b) : ((s \o a) \o b)[Len(s) + 1 + k] = b[k]
<1> DEFINE h == s \o a
           e == h \o b
           N == Len(s)
           M == Len(b)
<1>1. N \in Nat /\ M \in Nat
  BY LenProperties
<1>2. /\ h \in Seq(S) /\ Len(h) = Len(s) + Len(a)
      /\ \A p \in 1 .. Len(s) + Len(a) : h[p] = IF p <= Len(s) THEN s[p] ELSE a[p - Len(s)]
  BY ConcatProperties
<1> HIDE DEF h
<1>3. /\ e \in Seq(S) /\ Len(e) = Len(h) + Len(b)
      /\ \A p \in 1 .. Len(h) + Len(b) : e[p] = IF p <= Len(h) THEN h[p] ELSE b[p - Len(h)]
  <2>1. h \in Seq(S)
    BY <1>2
  <2> QED
    BY <2>1, ConcatProperties
<1> HIDE DEF e
<1>4. /\ Len(h) = N + 1 /\ Len(e) = N + 1 + M
      /\ \A p \in 1 .. N + 1 : h[p] = IF p <= N THEN s[p] ELSE a[p - N]
      /\ \A p \in 1 .. N + 1 + M : e[p] = IF p <= N + 1 THEN h[p] ELSE b[p - (N + 1)]
  BY <1>1, <1>2, <1>3
<1> HIDE DEF N, M
<1>5. \A p \in 1 .. N : e[p] = s[p]
  BY <1>1, <1>4
<1>6. e[N + 1] = a[1]
  <2>1. N + 1 \in 1 .. N + 1 /\ N + 1 \in 1 .. N + 1 + M /\ ~(N + 1 <= N) /\ (N + 1) - N = 1
    BY <1>1
  <2> QED
    BY <1>1, <1>4, <2>1
<1>7. ASSUME NEW k \in 1 .. M PROVE e[N + 1 + k] = b[k]
  <2>1. N + 1 + k \in 1 .. N + 1 + M /\ ~(N + 1 + k <= N + 1) /\ (N + 1 + k) - (N + 1) = k
    BY <1>1
  <2> QED
    BY <1>4, <2>1
<1> QED
  BY <1>3, <1>4, <1>5, <1>6, <1>7 DEF e, h, N, M

(* A body has the two parts of its text, and a compressed one a trailer.   *)
LEMMA BodyTyped ==
  ASSUME NEW b \in Bodies
  PROVE  /\ b \in Seq(AllTokens) /\ Len(b) \in {2, 3}
         /\ Len(b) = 2 => b[2] = "last"
         /\ Len(b) = 3 => b[3] = "ztrailer"
<1>1. Plain \in Seq(AllTokens) /\ Len(Plain) = 2 /\ Plain[2] = "last"
  BY DEF AllTokens, Plain
<1>2. Zipped \in Seq(AllTokens) /\ Len(Zipped) = 3 /\ Zipped[3] = "ztrailer"
  BY DEF AllTokens, Zipped
<1>3. CASE b = Plain
  <2>1. b \in Seq(AllTokens) /\ Len(b) = 2 /\ b[2] = "last"
    BY <1>1, <1>3
  <2> QED
    BY <2>1
<1>4. CASE b = Zipped
  <2>1. b \in Seq(AllTokens) /\ Len(b) = 3 /\ b[3] = "ztrailer"
    BY <1>2, <1>4
  <2> QED
    BY <2>1
<1> QED
  BY <1>3, <1>4 DEF Bodies

(* What may be missing of a body whose text is whole.                      *)
LEMMA TextWhole ==
  ASSUME NEW b \in Bodies, NEW n \in Nat, NEW rest \in Seq(AllTokens), n + Len(rest) = Len(b),
         \A i \in 1 .. Len(rest) : rest[i] = b[n + i]
  PROVE  rest \in {<<>>, <<"ztrailer">>} <=> n >= 2
<1>1. /\ (Len(b) = 2 /\ b[2] = "last") \/ (Len(b) = 3 /\ b[3] = "ztrailer")
      /\ Len(rest) \in Nat
  BY BodyTyped, LenProperties
<1>2. rest = <<>> <=> Len(rest) = 0
  BY EmptySeq, LenProperties
<1> DEFINE R == Len(rest)
           B == Len(b)
<1>len. (B = 2 \/ B = 3) /\ R \in Nat /\ n + R = B
  BY <1>1
<1>7. R = 0 \/ R = 1 \/ (R > 1 /\ n < 2)
  <2> HIDE DEF R, B
  <2> QED
    BY <1>len
<1> DEFINE one == <<"ztrailer">>
<1>3. one \in Seq(AllTokens) /\ Len(one) = 1 /\ one[1] = "ztrailer"
  BY DEF AllTokens
<1> HIDE DEF one
<1>4. CASE Len(rest) = 0
  BY <1>1, <1>2, <1>4
<1>5. CASE Len(rest) = 1
  <2>1. rest[1] = b[n + 1]
    BY <1>5
  <2>2. CASE Len(b) = 2 /\ b[2] = "last"
    <3>1. n = 1 /\ n + 1 = 2
      BY <1>5, <2>2
    <3>2. rest # one
      BY <1>3, <2>1, <2>2, <3>1
    <3> QED
      BY <1>2, <1>5, <3>1, <3>2 DEF one
  <2>3. CASE Len(b) = 3 /\ b[3] = "ztrailer"
    <3>1. n = 2 /\ n + 1 = 3
      BY <1>5, <2>3
    <3>2. \A i \in 1 .. Len(rest) : i = 1
      BY <1>5
    <3>3. Len(rest) = Len(one) /\ \A i \in 1 .. Len(rest) : rest[i] = one[i]
      BY <1>3, <1>5, <2>1, <2>3, <3>1, <3>2
    <3>4. rest = one
      BY <1>3, <3>3, SeqEqual
    <3> QED
      BY <3>1, <3>4 DEF one
  <2> QED
    BY <1>1, <2>2, <2>3
<1>6. CASE Len(rest) > 1
  <2>1. n < 2
    BY <1>6, <1>7
  <2>2. rest # one /\ rest # <<>>
    BY <1>2, <1>3, <1>6
  <2> QED
    BY <2>1, <2>2 DEF one
<1> QED
  BY <1>4, <1>5, <1>6, <1>7, Zenon

(* The text of an answer: its head s, the end and the body.                *)
LEMMA Encoded ==
  ASSUME NEW answer, answer.lines \in Seq(Lines), answer.body \in Bodies
  PROVE  \E s, o :
           /\ Laid(answer.lines, Len(answer.lines), s, o)
           /\ Encode(answer) \in Seq(AllTokens) /\ Len(Encode(answer)) = Len(s) + 1 + Len(answer.body)
           /\ \A p \in 1 .. Len(s) : Encode(answer)[p] = s[p]
           /\ Encode(answer)[Len(s) + 1] = "end"
           /\ \A k \in 1 .. Len(answer.body) : Encode(answer)[Len(s) + 1 + k] = answer.body[k]
<1> DEFINE lines == answer.lines
           s == HeadOf(lines)
           b == answer.body
           mark == <<"end">>
<1>1. Encode(answer) = (s \o mark) \o b
  BY DEF Encode, HeadOf
<1>2. b \in Seq(AllTokens)
  BY BodyTyped
<1>3. mark \in Seq(AllTokens) /\ Len(mark) = 1 /\ mark[1] = "end"
  BY DEF AllTokens
<1> HIDE DEF b, mark
<1>4. lines \in Seq(Lines)
  OBVIOUS
<1> HIDE DEF lines
<1>5. PICK o : Laid(lines, Len(lines), s, o)
  BY <1>4, HeadLaid
<1> HIDE DEF s
<1>6. s \in Seq(AllTokens)
  <2>1. s \in Seq(HeadTokens)
    BY <1>5 DEF Laid
  <2>2. HeadTokens \subseteq AllTokens
    BY DEF AllTokens
  <2> QED
    BY <2>1, <2>2, SeqMonotonic
<1>7. /\ (s \o mark) \o b \in Seq(AllTokens) /\ Len((s \o mark) \o b) = Len(s) + 1 + Len(b)
      /\ \A p \in 1 .. Len(s) : ((s \o mark) \o b)[p] = s[p]
      /\ ((s \o mark) \o b)[Len(s) + 1] = mark[1]
      /\ \A k \in 1 .. Len(b) : ((s \o mark) \o b)[Len(s) + 1 + k] = b[k]
  BY <1>2, <1>3, <1>6, ThreeParts
<1> DEFINE e == (s \o mark) \o b
<1>8. e = Encode(answer)
  BY <1>1
<1>9. /\ e \in Seq(AllTokens) /\ Len(e) = Len(s) + 1 + Len(b)
      /\ \A p \in 1 .. Len(s) : e[p] = s[p]
      /\ e[Len(s) + 1] = "end" /\ \A k \in 1 .. Len(b) : e[Len(s) + 1 + k] = b[k]
  BY <1>3, <1>7
<1> HIDE DEF e
<1> QED
  BY <1>5, <1>8, <1>9 DEF lines, b

(* What is left of a text when its beginning is known.                     *)
LEMMA Beginning ==
  ASSUME NEW S, NEW a \in Seq(S), NEW b \in Seq(S)
  PROVE  /\ Len(a) \in Nat /\ Len(a) <= Len(a \o b)
         /\ \A p \in 1 .. Len(a) : a[p] = (a \o b)[p]
         /\ Len(b) \in Nat /\ Len(a) + Len(b) = Len(a \o b)
         /\ \A p \in 1 .. Len(b) : b[p] = (a \o b)[Len(a) + p]
<1>1. Len(a) \in Nat /\ Len(b) \in Nat
  BY LenProperties
<1>2. /\ Len(a \o b) = Len(a) + Len(b)
      /\ \A p \in 1 .. Len(a) + Len(b) : (a \o b)[p] = IF p <= Len(a) THEN a[p] ELSE b[p - Len(a)]
  BY ConcatProperties
<1>3. \A p \in 1 .. Len(a) : p \in 1 .. Len(a) + Len(b) /\ p <= Len(a)
  BY <1>1
<1>4. \A p \in 1 .. Len(a) : a[p] = (a \o b)[p]
  BY <1>2, <1>3
<1>5. ASSUME NEW p \in 1 .. Len(b) PROVE b[p] = (a \o b)[Len(a) + p]
  <2>1. Len(a) + p \in 1 .. Len(a) + Len(b) /\ ~(Len(a) + p <= Len(a)) /\ (Len(a) + p) - Len(a) = p
    BY <1>1
  <2> QED
    BY <1>2, <2>1
<1> QED
  BY <1>1, <1>2, <1>4, <1>5

(* What has arrived of an answer lacks the end, and is nothing or begins   *)
(* with a line, or it is the whole head and some of the body.              *)
LEMMA Arrived ==
  ASSUME NEW answer, answer.lines \in Seq(Lines), answer.body \in Bodies,
         NEW got \in Seq(AllTokens), NEW rest \in Seq(AllTokens), got \o rest = Encode(answer)
  PROVE  \/ /\ Find("end", got, 1) = 0 /\ ~Contains(got, "end")
            /\ rest \notin {<<>>, <<"ztrailer">>}
            /\ got # <<>> => got[1] = "line"
         \/ LET end == Find("end", got, 1)
                data == SubSeq(got, end + 1, Len(got))
            IN /\ end # 0 /\ Contains(got, "end")
               /\ \E o : IsHead(answer.lines, o, SubSeq(got, 1, end))
               /\ data \in Seq(AllTokens) /\ Len(data) \in 0 .. Len(answer.body)
               /\ \A i \in 1 .. Len(data) : data[i] = answer.body[i]
               /\ rest \in {<<>>, <<"ztrailer">>} <=> Len(data) >= 2
<1> DEFINE lines == answer.lines
           body == answer.body
           e == Encode(answer)
           L == Len(got)
<1>1. PICK s, o :
        /\ Laid(lines, Len(lines), s, o)
        /\ e \in Seq(AllTokens) /\ Len(e) = Len(s) + 1 + Len(body)
        /\ \A p \in 1 .. Len(s) : e[p] = s[p]
        /\ e[Len(s) + 1] = "end" /\ \A k \in 1 .. Len(body) : e[Len(s) + 1 + k] = body[k]
  BY Encoded
<1> DEFINE N == Len(s)
           M == Len(body)
           R == Len(rest)
<1>2. /\ s \in Seq(HeadTokens) /\ N \in Nat /\ N >= 1 /\ s[1] = "line"
      /\ M = 2 \/ M = 3
  BY <1>1, LenProperties, BodyTyped DEF Laid
<1>3. \A p \in 1 .. N : s[p] # "end"
  <2>1. "end" \notin HeadTokens
    BY ResponseAssumption DEF HeadTokens, Marks
  <2> QED
    BY <1>2, <2>1, ElementOfSeq
<1>4. /\ L \in Nat /\ L <= Len(e) /\ (\A p \in 1 .. L : got[p] = e[p])
      /\ R \in Nat /\ L + R = Len(e) /\ \A p \in 1 .. R : rest[p] = e[L + p]
  BY Beginning
<1>body. body \in Bodies
  OBVIOUS
<1> HIDE DEF e, lines, body
<1>5. /\ L \in Nat /\ L <= N + 1 + M /\ (\A p \in 1 .. L : got[p] = e[p])
      /\ R \in Nat /\ L + R = N + 1 + M
  BY <1>1, <1>4
<1>6. \A p \in 1 .. L : p <= N => got[p] = s[p]
  BY <1>1, <1>2, <1>5
<1>7. \A p \in 1 .. N : p <= L => got[p] # "end"
  BY <1>3, <1>5, <1>6
<1> DEFINE end == Find("end", got, 1)
<1>8. CASE L <= N
  <2>1. \A j \in 1 .. L : got[j] # "end"
    BY <1>2, <1>5, <1>7, <1>8
  <2>2. end = 0
    <3>1. Len(got) \in Nat /\ 1 \in Nat \ {0}
      BY <1>5
    <3> QED
      BY <2>1, <3>1, FindFirst
  <2>3. ~Contains(got, "end")
    BY <2>1 DEF Contains
  <2>4. rest \notin {<<>>, <<"ztrailer">>}
    <3>1. R > 2
      <4> HIDE DEF N, M, R, L
      <4> QED
        BY <1>2, <1>5, <1>8
    <3>2. Len(<<>>) = 0 /\ Len(<<"ztrailer">>) = 1
      BY EmptySeq
    <3> QED
      BY <3>1, <3>2
  <2>5. ASSUME got # <<>> PROVE got[1] = "line"
    <3>1. L # 0
      BY <2>5, EmptySeq
    <3>2. 1 \in 1 .. L /\ 1 <= N
      BY <1>2, <1>5, <3>1
    <3> QED
      BY <1>2, <1>6, <3>2
  <2> QED
    BY <2>2, <2>3, <2>4, <2>5
<1>9. CASE N < L
  <2> DEFINE head == SubSeq(got, 1, end)
             data == SubSeq(got, end + 1, L)
  <2>1. N + 1 \in 1 .. L /\ got[N + 1] = "end" /\ \A k \in 1 .. (N + 1) - 1 : got[k] # "end"
    <3>1. N + 1 \in 1 .. L /\ \A k \in 1 .. (N + 1) - 1 : k \in 1 .. N /\ k <= L
      BY <1>2, <1>5, <1>9
    <3>2. got[N + 1] = "end"
      BY <1>1, <1>5, <3>1
    <3> QED
      BY <1>7, <3>1, <3>2
  <2>2. end = N + 1
    <3>1. Len(got) \in Nat /\ 1 \in Nat \ {0}
      BY <1>5
    <3> QED
      BY <2>1, <3>1, FindAt
  <2>3. Contains(got, "end")
    BY <2>1 DEF Contains
  <2> HIDE DEF end
  <2>4. \A i \in 1 .. L : got[i] \in AllTokens
    BY ElementOfSeq
  <2>5. Len(head) = N + 1 /\ \A p \in 1 .. N + 1 : head[p] = got[p]
    <3>1. /\ 1 \in Int /\ end \in Int /\ \A i \in 1 .. end : got[i] \in AllTokens
          /\ 1 <= end /\ (end - 1) + 1 = N + 1
          /\ \A p \in 1 .. N + 1 : (1 + p) - 1 = p /\ p \in 1 .. (end - 1) + 1
      BY <1>2, <2>1, <2>2, <2>4
    <3>2. /\ Len(head) = IF 1 <= end THEN (end - 1) + 1 ELSE 0
          /\ \A p \in 1 .. (end - 1) + 1 : head[p] = got[(1 + p) - 1]
      BY <3>1, SubSeqProperties
    <3> HIDE DEF head
    <3> QED
      BY <3>1, <3>2
  <2>6. IsHead(lines, o, head)
    <3>1. \A p \in 1 .. N : p \in 1 .. L /\ p \in 1 .. N + 1 /\ p <= N
      BY <1>2, <1>5, <1>9
    <3>2. \A p \in 1 .. N : head[p] = s[p]
      BY <1>6, <2>5, <3>1
    <3>3. N + 1 \in 1 .. N + 1
      BY <1>2
    <3>4. head[N + 1] = "end"
      BY <2>1, <2>5, <3>3
    <3> QED
      BY <1>1, <2>5, <3>2, <3>4 DEF IsHead
  <2>7. /\ data \in Seq(AllTokens) /\ Len(data) = L - (N + 1)
        /\ \A i \in 1 .. L - (N + 1) : data[i] = got[N + 1 + i]
    <3>1. /\ end + 1 \in Int /\ L \in Int /\ \A i \in end + 1 .. L : got[i] \in AllTokens
          /\ (IF end + 1 <= L THEN (L - (end + 1)) + 1 ELSE 0) = L - (N + 1)
          /\ (L - (end + 1)) + 1 = L - (N + 1)
          /\ \A i \in 1 .. L - (N + 1) : ((end + 1) + i) - 1 = N + 1 + i
      BY <1>2, <1>5, <1>9, <2>2, <2>4
    <3>2. /\ data \in Seq(AllTokens)
          /\ Len(data) = IF end + 1 <= L THEN (L - (end + 1)) + 1 ELSE 0
          /\ \A i \in 1 .. (L - (end + 1)) + 1 : data[i] = got[((end + 1) + i) - 1]
      BY <3>1, SubSeqProperties
    <3> HIDE DEF data
    <3> QED
      BY <3>1, <3>2
  <2>8. ASSUME NEW i \in 1 .. L - (N + 1) PROVE got[N + 1 + i] = body[i]
    <3>1. N + 1 + i \in 1 .. L /\ i \in 1 .. M
      BY <1>2, <1>5
    <3>2. got[N + 1 + i] = e[N + 1 + i]
      BY <1>5, <3>1
    <3> QED
      BY <1>1, <3>1, <3>2
  <2>9. L - (N + 1) \in 0 .. M /\ (L - (N + 1)) + R = M
    BY <1>2, <1>5, <1>9
  <2>10. ASSUME NEW i \in 1 .. R PROVE rest[i] = body[(L - (N + 1)) + i]
    <3> DEFINE k == (L - (N + 1)) + i
    <3>1. k \in 1 .. M /\ N + 1 + k = L + i
      BY <1>2, <1>5, <1>9, <2>9
    <3> HIDE DEF k
    <3>2. e[N + 1 + k] = body[k]
      BY <1>1, <3>1
    <3>3. rest[i] = e[L + i]
      BY <1>4
    <3> QED
      BY <3>1, <3>2, <3>3 DEF k
  <2>11. rest \in {<<>>, <<"ztrailer">>} <=> L - (N + 1) >= 2
    <3> DEFINE n == L - (N + 1)
    <3>1. n \in Nat /\ n + R = M /\ \A i \in 1 .. R : rest[i] = body[n + i]
      BY <2>9, <2>10
    <3> HIDE DEF n
    <3>2. rest \in {<<>>, <<"ztrailer">>} <=> n >= 2
      BY <1>body, <3>1, TextWhole
    <3> QED
      BY <3>2 DEF n
  <2> HIDE DEF head, data
  <2>12. /\ end # 0 /\ Len(data) \in 0 .. M
         /\ rest \in {<<>>, <<"ztrailer">>} <=> Len(data) >= 2
         /\ \A i \in 1 .. Len(data) : data[i] = body[i]
    <3>1. end # 0
      BY <1>2, <2>2
    <3>2. Len(data) \in 0 .. M /\ (rest \in {<<>>, <<"ztrailer">>} <=> Len(data) >= 2)
      BY <2>7, <2>9, <2>11
    <3>3. \A i \in 1 .. Len(data) : data[i] = body[i]
      BY <2>7, <2>8
    <3> QED
      BY <3>1, <3>2, <3>3
  <2> QED
    BY <2>3, <2>6, <2>7, <2>12 DEF head, data, end, lines, body
<1> QED
  BY <1>2, <1>5, <1>8, <1>9

(* The answer says that it is compressed iff one of its lines does.        *)
LEMMA GzipFound ==
  ASSUME NEW lines \in Seq(Lines), NEW o, NEW head, IsHead(lines, o, head)
  PROVE  Contains(head, "gzip") <=> \E l \in 1 .. Len(lines) : lines[l].kind = "gzip"
<1>1. PICK s : /\ Laid(lines, Len(lines), s, o)
               /\ Len(head) = Len(s) + 1 /\ head[Len(s) + 1] = "end"
               /\ \A p \in 1 .. Len(s) : head[p] = s[p]
  BY DEF IsHead
<1>2. Len(s) \in Nat /\ \A l \in 1 .. Len(lines) : lines[l] \in Lines
  BY <1>1, LenProperties, ElementOfSeq DEF Laid
<1>3. ASSUME NEW p \in 1 .. Len(head), head[p] = "gzip"
      PROVE  \E l \in 1 .. Len(lines) : lines[l].kind = "gzip"
  <2>1. p \in 1 .. Len(s) /\ s[p] = "gzip"
    BY <1>1, <1>2, <1>3
  <2> QED
    BY <1>1, <2>1 DEF Laid
<1>4. ASSUME NEW l \in 1 .. Len(lines), lines[l].kind = "gzip"
      PROVE  \E p \in 1 .. Len(head) : head[p] = "gzip"
  <2> DEFINE t == Tokens(lines[l])
             at == o[l]
             N == Len(s)
  <2>1. Len(t) \in Nat /\ Len(t) >= 1 /\ t[1] = "gzip"
    BY <1>2, <1>4, LineTyped
  <2>2. /\ at \in Nat /\ at >= 2 /\ at + Len(t) <= N + 1
        /\ \A k \in 1 .. Len(t) : s[at + k - 1] = t[k]
    BY <1>1 DEF Laid
  <2>3. 1 \in 1 .. Len(t) /\ (at + 1) - 1 = at /\ at \in 1 .. N /\ at \in 1 .. N + 1
    <3> HIDE DEF at, N, t
    <3>1. N \in Nat
      BY <1>2 DEF N
    <3> QED
      BY <2>1, <2>2, <3>1
  <2> HIDE DEF at, t
  <2>4. s[at] = "gzip"
    BY <2>1, <2>2, <2>3
  <2> QED
    BY <1>1, <2>3, <2>4
<1> QED
  BY <1>3, <1>4 DEF Contains

-----------------------------------------------------------------------------
(* What becomes of it.                                                     *)

(* The verdict on a text, as the code's tests of it go.                    *)
LEMMA VerdictOn ==
  ASSUME NEW text
  PROVE  /\ text = <<>> => Verdict(text) = "empty"
         /\ text # <<>> /\ text # <<"crash">> /\ text = <<"first", "last">> => Verdict(text) = "answered"
         /\ text # <<>> /\ text # <<"crash">> /\ text # <<"first", "last">> => Verdict(text) = "unparsable"
<1> DEFINE none == <<>>
           bad == <<"crash">>
           whole == <<"first", "last">>
<1>1. Verdict(text) = CASE text = none -> "empty"
                        [] text = bad -> "crashed"
                        [] text = whole -> "answered"
                        [] OTHER -> "unparsable"
  BY DEF Verdict
<1>2. none # bad /\ none # whole /\ bad # whole
  OBVIOUS
<1> HIDE DEF none, bad, whole
<1>3. text = none => Verdict(text) = "empty"
  BY <1>1, <1>2, Zenon
<1>4. text = whole => Verdict(text) = "answered"
  BY <1>1, <1>2, Zenon
<1>5. text # none /\ text # bad /\ text # whole => Verdict(text) = "unparsable"
  BY <1>1, <1>2, Zenon
<1> QED
  BY <1>3, <1>4, <1>5 DEF none, bad, whole

(* Text that has not come to the end of its headers is no answer.          *)
LEMMA HeadersAlone ==
  ASSUME NEW got, got # <<>> => got[1] = "line"
  PROVE  Verdict(got) \in {"empty", "unparsable"}
<1>1. CASE got = <<>>
  BY <1>1, VerdictOn
<1>2. CASE got # <<>>
  <2>1. <<"crash">>[1] = "crash" /\ <<"first", "last">>[1] = "first"
    OBVIOUS
  <2>2. got # <<"crash">> /\ got # <<"first", "last">>
    BY <1>2, <2>1
  <2> QED
    BY <1>2, <2>2, VerdictOn
<1> QED
  BY <1>1, <1>2

(* A beginning of a text of two tokens.                                    *)
LEMMA BeginningsOfTwo ==
  ASSUME NEW a, NEW b, NEW data \in Seq(AllTokens), Len(data) \in 0 .. 2,
         \A i \in 1 .. Len(data) : data[i] = <<a, b>>[i]
  PROVE  \/ data = <<>> /\ Len(data) = 0
         \/ data = <<a>> /\ Len(data) = 1
         \/ data = <<a, b>> /\ Len(data) = 2
<1>1. Len(data) = 0 \/ Len(data) = 1 \/ Len(data) = 2
  OBVIOUS
<1>2. CASE Len(data) = 0
  BY <1>2, EmptySeq
<1>3. CASE Len(data) = 1
  <2>1. data[1] = a /\ a \in AllTokens
    BY <1>3, ElementOfSeq
  <2>2. <<a>> \in Seq(AllTokens) /\ Len(<<a>>) = 1 /\ <<a>>[1] = a
    BY <2>1
  <2>3. \A i \in 1 .. 1 : i = 1
    OBVIOUS
  <2>4. data = <<a>>
    <3> DEFINE t == <<a>>
    <3>1. t \in Seq(AllTokens) /\ Len(t) = 1 /\ t[1] = a
      BY <2>2
    <3> HIDE DEF t
    <3>2. Len(data) = Len(t) /\ \A i \in 1 .. Len(data) : data[i] = t[i]
      BY <1>3, <2>1, <2>3, <3>1
    <3>3. data = t
      BY <3>1, <3>2, SeqEqual
    <3> QED
      BY <3>3 DEF t
  <2> QED
    BY <1>3, <2>4
<1>4. CASE Len(data) = 2
  <2>1. data[1] = a /\ data[2] = b /\ a \in AllTokens /\ b \in AllTokens
    <3>1. 1 \in 1 .. Len(data) /\ 2 \in 1 .. Len(data) /\ <<a, b>>[1] = a /\ <<a, b>>[2] = b
      BY <1>4
    <3>2. data[1] = a /\ data[2] = b
      BY <3>1
    <3>3. data[1] \in AllTokens /\ data[2] \in AllTokens
      BY <3>1, ElementOfSeq
    <3> QED
      BY <3>2, <3>3
  <2>2. <<a, b>> \in Seq(AllTokens) /\ Len(<<a, b>>) = 2
    BY <2>1
  <2>4. data = <<a, b>>
    <3> DEFINE t == <<a, b>>
    <3>1. t \in Seq(AllTokens) /\ Len(t) = 2 /\ \A i \in 1 .. Len(data) : data[i] = t[i]
      BY <2>2
    <3> HIDE DEF t
    <3>2. data = t
      BY <1>4, <3>1, SeqEqual
    <3> QED
      BY <3>2 DEF t
  <2> QED
    BY <1>4, <2>4
<1> QED
  BY <1>1, <1>2, <1>3, <1>4

(* What of a beginning of a compressed body slack_gunzip inflates.         *)
LEMMA GunzipOn ==
  ASSUME NEW data \in Seq(AllTokens), Len(data) \in 0 .. 3,
         \A i \in 1 .. Len(data) : data[i] = Zipped[i]
  PROVE  \E d \in Seq(AllTokens) :
           /\ Len(d) = IF Len(data) = 3 THEN 2 ELSE Len(data)
           /\ \A i \in 1 .. Len(d) : d[i] = <<"zfirst", "zlast">>[i]
           /\ slack_gunzip(data) = [i \in DOMAIN d |-> Inflated[d[i]]]
<1> DEFINE end == Find("ztrailer", data, 1)
           d == IF end = 0 THEN data ELSE SubSeq(data, 1, end - 1)
           L == Len(data)
<1>1. /\ Zipped[1] = "zfirst" /\ Zipped[2] = "zlast" /\ Zipped[3] = "ztrailer"
      /\ <<"zfirst", "zlast">>[1] = "zfirst" /\ <<"zfirst", "zlast">>[2] = "zlast"
      /\ L \in Nat /\ 1 \in Nat \ {0}
  BY DEF Zipped
<1>2. data # <<>> => data[1] = "zfirst"
  <2>1. data # <<>> => 1 \in 1 .. L
    BY EmptySeq
  <2> QED
    BY <1>1, <2>1
<1>3. slack_gunzip(data) = [i \in DOMAIN d |-> Inflated[d[i]]]
  <2>1. data # <<>> => data[1] \in DOMAIN Inflated
    BY <1>2 DEF Inflated
  <2> QED
    BY <2>1 DEF slack_gunzip
<1>4. CASE L = 3
  <2>1. /\ 3 \in 1 .. L /\ 1 \in 1 .. L /\ 2 \in 1 .. L
        /\ \A k \in 1 .. 3 - 1 : k = 1 \/ k = 2
    BY <1>4
  <2>2. data[3] = "ztrailer" /\ data[1] = "zfirst" /\ data[2] = "zlast"
    BY <1>1, <2>1
  <2>3. \A k \in 1 .. 3 - 1 : data[k] # "ztrailer"
    BY <2>1, <2>2
  <2>4. end = 3
    BY <1>1, <2>1, <2>2, <2>3, FindAt
  <2> HIDE DEF end
  <2>5. /\ SubSeq(data, 1, 2) \in Seq(AllTokens) /\ Len(SubSeq(data, 1, 2)) = 2
        /\ \A i \in 1 .. 2 : SubSeq(data, 1, 2)[i] = data[i]
    <3>1. \A i \in 1 .. 2 : data[i] \in AllTokens /\ (1 + i) - 1 = i
      BY <2>1, ElementOfSeq
    <3>2. /\ SubSeq(data, 1, 2) \in Seq(AllTokens)
          /\ Len(SubSeq(data, 1, 2)) = IF 1 <= 2 THEN (2 - 1) + 1 ELSE 0
          /\ \A i \in 1 .. (2 - 1) + 1 : SubSeq(data, 1, 2)[i] = data[(1 + i) - 1]
      BY <3>1, SubSeqProperties
    <3> QED
      BY <3>1, <3>2
  <2>6. d = SubSeq(data, 1, 2)
    BY <2>4
  <2> HIDE DEF d
  <2>7. d \in Seq(AllTokens) /\ Len(d) = 2 /\ d[1] = "zfirst" /\ d[2] = "zlast"
    BY <2>2, <2>5, <2>6
  <2>8. \A i \in 1 .. Len(d) : d[i] = <<"zfirst", "zlast">>[i]
    <3>1. \A i \in 1 .. Len(d) : i = 1 \/ i = 2
      BY <2>7
    <3> QED
      BY <1>1, <2>7, <3>1
  <2> QED
    BY <1>3, <1>4, <2>7, <2>8
<1>5. CASE L # 3
  <2>1. \A i \in 1 .. L : i = 1 \/ i = 2
    BY <1>5
  <2>2. \A i \in 1 .. L : data[i] = <<"zfirst", "zlast">>[i] /\ data[i] # "ztrailer"
    BY <1>1, <2>1
  <2>3. end = 0
    BY <1>1, <2>2, FindFirst
  <2>4. d = data
    BY <2>3
  <2> HIDE DEF d
  <2> QED
    BY <1>3, <1>5, <2>2, <2>4
<1> QED
  BY <1>4, <1>5

(* What slack_gunzip makes of the beginnings of a compressed body.         *)
LEMMA GunzipOf ==
  ASSUME NEW data \in Seq(AllTokens), Len(data) \in 0 .. 3,
         \A i \in 1 .. Len(data) : data[i] = Zipped[i]
  PROVE  \/ slack_gunzip(data) = <<>> /\ Len(data) = 0
         \/ slack_gunzip(data) = <<"first">> /\ Len(data) = 1
         \/ slack_gunzip(data) = <<"first", "last">> /\ Len(data) >= 2
<1>1. /\ DOMAIN Inflated = {"zfirst", "zlast"}
      /\ Inflated["zfirst"] = "first" /\ Inflated["zlast"] = "last"
  BY DEF Inflated
<1> HIDE DEF Inflated
<1>2. PICK d \in Seq(AllTokens) :
        /\ Len(d) = IF Len(data) = 3 THEN 2 ELSE Len(data)
        /\ \A i \in 1 .. Len(d) : d[i] = <<"zfirst", "zlast">>[i]
        /\ slack_gunzip(data) = [i \in DOMAIN d |-> Inflated[d[i]]]
  BY GunzipOn
<1>len. Len(data) \in 0 .. 3 /\ Len(d) = IF Len(data) = 3 THEN 2 ELSE Len(data)
  BY <1>2
<1>3. \/ d = <<>> /\ Len(d) = 0
      \/ d = <<"zfirst">> /\ Len(d) = 1
      \/ d = <<"zfirst", "zlast">> /\ Len(d) = 2
  <2>1. Len(d) \in 0 .. 2
    BY <1>2
  <2> QED
    BY <1>2, <2>1, BeginningsOfTwo
<1>4. CASE d = <<>> /\ Len(d) = 0
  <2>1. slack_gunzip(data) = [i \in DOMAIN <<>> |-> Inflated[<<>>[i]]]
    BY <1>2, <1>4, Zenon
  <2>2. [i \in DOMAIN <<>> |-> Inflated[<<>>[i]]] = <<>>
    OBVIOUS
  <2>3. Len(data) = 0
    BY <1>len, <1>4
  <2> QED
    BY <2>1, <2>2, <2>3
<1>5. CASE d = <<"zfirst">> /\ Len(d) = 1
  <2>1. d[1] = "zfirst" /\ DOMAIN d = 1 .. 1
    BY <1>5
  <2>2. [i \in DOMAIN d |-> Inflated[d[i]]] = [i \in 1 .. 1 |-> "first"]
    <3>1. \A i \in 1 .. 1 : d[i] = "zfirst"
      BY <2>1
    <3> QED
      BY <1>1, <2>1, <3>1
  <2>3. [i \in 1 .. 1 |-> "first"] = <<"first">>
    OBVIOUS
  <2>4. Len(data) = 1
    BY <1>len, <1>5
  <2> QED
    BY <1>2, <2>2, <2>3, <2>4
<1>6. CASE d = <<"zfirst", "zlast">> /\ Len(d) = 2
  <2> DEFINE r == [i \in 1 .. 2 |-> IF i = 1 THEN "first" ELSE "last"]
  <2>1. d[1] = "zfirst" /\ d[2] = "zlast" /\ DOMAIN d = 1 .. 2
    BY <1>6
  <2>2. [i \in DOMAIN d |-> Inflated[d[i]]] = r
    <3>1. \A i \in 1 .. 2 : Inflated[d[i]] = IF i = 1 THEN "first" ELSE "last"
      BY <1>1, <2>1
    <3> QED
      BY <2>1, <3>1
  <2>3. r = <<"first", "last">>
    OBVIOUS
  <2> HIDE DEF r
  <2>4. Len(data) >= 2
    <3>1. Len(d) = 2
      BY <1>6
    <3> HIDE <1>6
    <3> QED
      BY <1>len, <3>1
  <2> QED
    BY <1>2, <2>2, <2>3, <2>4
<1> QED
  BY <1>3, <1>4, <1>5, <1>6

(* The verdict on what came of a body that is compressed iff the headers   *)
(* say so.                                                                 *)
LEMMA BodyVerdict ==
  ASSUME NEW body \in Bodies, NEW data \in Seq(AllTokens), Len(data) \in 0 .. Len(body),
         \A i \in 1 .. Len(data) : data[i] = body[i],
         NEW text, text = IF body = Zipped THEN slack_gunzip(data) ELSE data
  PROVE  /\ Verdict(text) \in {"empty", "unparsable", "answered"}
         /\ Verdict(text) = "answered" <=> Len(data) >= 2
<1>1. /\ Verdict(<<>>) = "empty"
      /\ Verdict(<<"first">>) = "unparsable"
      /\ Verdict(<<"first", "last">>) = "answered"
  <2>1. /\ <<"first">> # <<>> /\ <<"first">> # <<"crash">> /\ <<"first">> # <<"first", "last">>
        /\ <<"first", "last">> # <<>> /\ <<"first", "last">> # <<"crash">>
    OBVIOUS
  <2> QED
    BY <2>1, VerdictOn
<1>2. \/ /\ text = data /\ Len(data) \in 0 .. 2
         /\ \A i \in 1 .. Len(data) : data[i] = <<"first", "last">>[i]
      \/ /\ text = slack_gunzip(data) /\ Len(data) \in 0 .. 3
         /\ \A i \in 1 .. Len(data) : data[i] = Zipped[i]
  <2>1. body = Plain \/ body = Zipped
    BY DEF Bodies
  <2>2. Len(Plain) = 2 /\ Len(Zipped) = 3
    BY DEF Plain, Zipped
  <2>3. CASE body = Plain
    <3>1. Len(body) = 2
      BY <2>2, <2>3
    <3>2. Len(data) \in 0 .. 2
      BY <3>1
    <3>3. ASSUME body = Zipped PROVE FALSE
      <4>1. Len(body) = Len(Zipped)
        BY <3>3
      <4> QED
        BY <2>2, <3>1, <4>1
    <3> QED
      BY <2>3, <3>2, <3>3 DEF Plain
  <2>4. CASE body = Zipped
    <3>1. Len(body) = 3
      BY <2>2, <2>4
    <3>2. Len(data) \in 0 .. 3
      BY <3>1
    <3> QED
      BY <2>4, <3>2
  <2> QED
    BY <2>1, <2>3, <2>4
<1>3. \/ text = <<>> /\ Len(data) = 0
      \/ text = <<"first">> /\ Len(data) = 1
      \/ text = <<"first", "last">> /\ Len(data) >= 2
  <2>1. CASE /\ text = data /\ Len(data) \in 0 .. 2
             /\ \A i \in 1 .. Len(data) : data[i] = <<"first", "last">>[i]
    <3>1. \/ data = <<>> /\ Len(data) = 0
          \/ data = <<"first">> /\ Len(data) = 1
          \/ data = <<"first", "last">> /\ Len(data) = 2
      BY <2>1, BeginningsOfTwo
    <3>2. text = data
      BY <2>1
    <3>3. Len(data) = 2 => Len(data) >= 2
      OBVIOUS
    <3> QED
      BY <3>1, <3>2, <3>3, Zenon
  <2>2. CASE /\ text = slack_gunzip(data) /\ Len(data) \in 0 .. 3
             /\ \A i \in 1 .. Len(data) : data[i] = Zipped[i]
    BY <2>2, GunzipOf
  <2> QED
    BY <1>2, <2>1, <2>2
<1> DEFINE v == Verdict(text)
           n == Len(data)
<1>4. (v = "empty" /\ n = 0) \/ (v = "unparsable" /\ n = 1) \/ (v = "answered" /\ n >= 2)
  <2>1. CASE text = <<>> /\ n = 0
    BY <1>1, <2>1
  <2>2. CASE text = <<"first">> /\ n = 1
    BY <1>1, <2>2
  <2>3. CASE text = <<"first", "last">> /\ n >= 2
    BY <1>1, <2>3
  <2> QED
    BY <1>3, <2>1, <2>2, <2>3
<1> HIDE DEF v, n
<1>5. v \in {"empty", "unparsable", "answered"} /\ (v = "answered" <=> n >= 2)
  BY <1>4
<1> QED
  BY <1>5 DEF v, n

(* slack_update_cookies goes on from nothing that strchr did not find.     *)
LEMMA NoCrash ==
  ASSUME NEW c \in Seq(Finds)
  PROVE  ~Contains(c, Crash)
<1> SUFFICES ASSUME NEW k \in 1 .. Len(c), c[k] = Crash PROVE FALSE
  BY DEF Contains
<1>1. c[k] \in Finds
  BY ElementOfSeq
<1>2. PICK n \in Names : c[k].name = <<n>>
  BY <1>1 DEF Finds
<1>3. Crash.name = <<>>
  BY DEF Crash
<1>4. <<n>> # <<>>
  OBVIOUS
<1> QED
  BY <1>2, <1>3, <1>4

(* The handler, when every cookie has attributes: without an end of the    *)
(* headers it calls back with no answer and keeps no cookie; with it, it   *)
(* keeps what the lines set, and if the body is compressed iff they say    *)
(* so, answers iff its text is whole.                                      *)
LEMMA ProcessData ==
  ASSUME sent.lines \in Seq(Lines), sent.body \in Bodies,
         rx_buf \in Seq(AllTokens), todo \in Seq(AllTokens), rx_buf \o todo = Encode(sent),
         \A l \in 1 .. Len(sent.lines) : sent.lines[l].kind # "bare",
         slack_connection_process_data
  PROVE  \/ /\ ~Contains(rx_buf, "end") /\ todo \notin {<<>>, <<"ztrailer">>}
            /\ outcome' \in {"empty", "unparsable"} /\ cookie_table' = cookie_table
         \/ /\ Contains(rx_buf, "end")
            /\ \E c : Covers(c, Setting(sent.lines), sent.lines) /\ cookie_table' = Filled(cookie_table, c)
            /\ ((\E l \in 1 .. Len(sent.lines) : sent.lines[l].kind = "gzip")
                  <=> sent.body = Zipped)
                 => /\ outcome' \in {"empty", "unparsable", "answered"}
                    /\ outcome' = "answered" <=> todo \in {<<>>, <<"ztrailer">>}
<1> DEFINE end == Find("end", rx_buf, 1)
           head == SubSeq(rx_buf, 1, end)
           data == SubSeq(rx_buf, end + 1, Len(rx_buf))
           text == IF Contains(head, "gzip") THEN slack_gunzip(data) ELSE data
           kept == slack_update_cookies(head)
           lines == sent.lines
           body == sent.body
<1>1. (CASE end = 0 -> outcome' = Verdict(rx_buf) /\ UNCHANGED cookie_table
         [] end # 0 /\ Contains(Cookies(head), Crash) -> outcome' = "crashed" /\ UNCHANGED cookie_table
         [] OTHER -> outcome' = Verdict(text) /\ kept)
  BY DEF slack_connection_process_data
<1>2. \/ /\ end = 0 /\ ~Contains(rx_buf, "end") /\ todo \notin {<<>>, <<"ztrailer">>}
         /\ rx_buf # <<>> => rx_buf[1] = "line"
      \/ /\ end # 0 /\ Contains(rx_buf, "end")
         /\ \E o : IsHead(lines, o, head)
         /\ data \in Seq(AllTokens) /\ Len(data) \in 0 .. Len(body)
         /\ \A i \in 1 .. Len(data) : data[i] = body[i]
         /\ todo \in {<<>>, <<"ztrailer">>} <=> Len(data) >= 2
  BY Arrived
<1>3. kept <=> cookie_table' = Filled(cookie_table, Cookies(head))
  BY DEF slack_update_cookies
<1>4. text = IF Contains(head, "gzip") THEN slack_gunzip(data) ELSE data
  OBVIOUS
<1> HIDE DEF end, head, data, text, kept
<1>5. CASE /\ end = 0 /\ ~Contains(rx_buf, "end") /\ todo \notin {<<>>, <<"ztrailer">>}
           /\ rx_buf # <<>> => rx_buf[1] = "line"
  <2>1. outcome' = Verdict(rx_buf) /\ UNCHANGED cookie_table
    BY <1>1, <1>5, Zenon
  <2>2. Verdict(rx_buf) \in {"empty", "unparsable"}
    BY <1>5, HeadersAlone
  <2> QED
    BY <1>5, <2>1, <2>2
<1>6. CASE /\ end # 0 /\ Contains(rx_buf, "end")
           /\ \E o : IsHead(lines, o, head)
           /\ data \in Seq(AllTokens) /\ Len(data) \in 0 .. Len(body)
           /\ \A i \in 1 .. Len(data) : data[i] = body[i]
           /\ todo \in {<<>>, <<"ztrailer">>} <=> Len(data) >= 2
  <2>1. PICK o : IsHead(lines, o, head)
    BY <1>6
  <2>2. lines \in Seq(Lines) /\ body \in Bodies /\ \A l \in 1 .. Len(lines) : lines[l].kind # "bare"
    OBVIOUS
  <2> HIDE DEF lines, body
  <2>3. Covers(Cookies(head), Setting(lines), lines)
    BY <2>1, <2>2, CookiesRead
  <2>4. ~Contains(Cookies(head), Crash)
    <3>1. Cookies(head) \in Seq(Finds)
      BY <2>3 DEF Covers
    <3> QED
      BY <3>1, NoCrash
  <2>5. outcome' = Verdict(text) /\ kept
    BY <1>1, <1>6, <2>4, Zenon
  <2>6. Contains(head, "gzip") <=> \E l \in 1 .. Len(lines) : lines[l].kind = "gzip"
    BY <2>1, <2>2, GzipFound
  <2>7. ASSUME (\E l \in 1 .. Len(lines) : lines[l].kind = "gzip") <=> body = Zipped
        PROVE  /\ outcome' \in {"empty", "unparsable", "answered"}
               /\ outcome' = "answered" <=> todo \in {<<>>, <<"ztrailer">>}
    <3>1. text = IF body = Zipped THEN slack_gunzip(data) ELSE data
      BY <1>4, <2>6, <2>7
    <3>2. /\ Verdict(text) \in {"empty", "unparsable", "answered"}
          /\ Verdict(text) = "answered" <=> Len(data) >= 2
      BY <1>6, <2>2, <3>1, BodyVerdict
    <3> QED
      BY <1>6, <2>5, <3>2
  <2>8. \E c : Covers(c, Setting(lines), lines) /\ cookie_table' = Filled(cookie_table, c)
    BY <1>3, <2>3, <2>5
  <2> QED
    BY <1>6, <2>7, <2>8 DEF lines, body
<1> QED
  BY <1>2, <1>5, <1>6

(* The handler comes to an outcome.                                        *)
LEMMA HandlerDecides ==
  ASSUME slack_connection_process_data
  PROVE  outcome' # "none"
<1> DEFINE end == Find("end", rx_buf, 1)
           head == SubSeq(rx_buf, 1, end)
           data == SubSeq(rx_buf, end + 1, Len(rx_buf))
           text == IF Contains(head, "gzip") THEN slack_gunzip(data) ELSE data
           kept == slack_update_cookies(head)
<1>1. (CASE end = 0 -> outcome' = Verdict(rx_buf) /\ UNCHANGED cookie_table
         [] end # 0 /\ Contains(Cookies(head), Crash) -> outcome' = "crashed" /\ UNCHANGED cookie_table
         [] OTHER -> outcome' = Verdict(text) /\ kept)
  BY DEF slack_connection_process_data
<1> HIDE DEF end, head, text, kept
<1>2. outcome' = Verdict(rx_buf) \/ outcome' = "crashed" \/ outcome' = Verdict(text)
  BY <1>1, Zenon
<1>3. ASSUME NEW t PROVE Verdict(t) # "none"
  <2>1. Verdict(t) \in {"empty", "crashed", "answered", "unparsable"}
    BY Zenon DEF Verdict
  <2> QED
    BY <2>1
<1> QED
  BY <1>2, <1>3

-----------------------------------------------------------------------------
(* The invariant.                                                          *)

(* What has arrived is a beginning of what was sent; no cookie is kept     *)
(* before the handler runs; and the properties of its outcome.             *)
ResponseInv ==
  /\ sent.lines \in Seq(Lines) /\ sent.body \in Bodies
  /\ rx_buf \in Seq(AllTokens) /\ todo \in Seq(AllTokens)
  /\ rx_buf \o todo = Encode(sent)
  /\ outcome = "none" => cookie_table = before
  /\ AnsweredWhole /\ Survives /\ CookiesAsSent

(* The properties are about a handler that has run.                        *)
LEMMA NoneYet ==
  ASSUME outcome = "none"
  PROVE  AnsweredWhole /\ Survives /\ CookiesAsSent
BY DEF AnsweredWhole, Survives, CookiesAsSent

(* Nothing has arrived at first.                                           *)
LEMMA ResponseInit ==
  ASSUME Init
  PROVE  ResponseInv
<1>1. sent.lines \in BoundedSeq(Lines, MaxLines) /\ sent.body \in Bodies
  BY DEF Init
<1>2. sent.lines \in Seq(Lines)
  <2>1. PICK n \in 0 .. MaxLines : sent.lines \in [1 .. n -> Lines]
    BY <1>1 DEF BoundedSeq, SeqOf
  <2>2. n \in Nat
    BY ResponseAssumption
  <2> QED
    BY <2>1, <2>2, SeqDef
<1>3. Encode(sent) \in Seq(AllTokens)
  BY <1>1, <1>2, Encoded
<1>4. /\ rx_buf = <<>> /\ todo = Encode(sent) /\ cookie_table = before /\ outcome = "none"
  BY DEF Init
<1>5. rx_buf \o todo = Encode(sent) /\ rx_buf \in Seq(AllTokens) /\ todo \in Seq(AllTokens)
  BY <1>3, <1>4, ConcatEmptySeq, EmptySeq
<1> QED
  BY <1>1, <1>2, <1>4, <1>5, NoneYet DEF ResponseInv

(* One more token arrives.                                                 *)
LEMMA ReceiveKeeps ==
  ASSUME ResponseInv, Receive
  PROVE  ResponseInv'
<1>1. /\ rx_buf \in Seq(AllTokens) /\ todo \in Seq(AllTokens) /\ todo # <<>>
      /\ rx_buf' = Append(rx_buf, Head(todo)) /\ todo' = Tail(todo)
  BY DEF ResponseInv, Receive
<1>2. rx_buf' \in Seq(AllTokens) /\ todo' \in Seq(AllTokens) /\ rx_buf' \o todo' = rx_buf \o todo
  <2> DEFINE a == Head(todo)
             r == Tail(todo)
             one == <<a>>
  <2>1. a \in AllTokens /\ r \in Seq(AllTokens) /\ todo = one \o r
    BY <1>1
  <2> HIDE DEF a, r
  <2>2. one \in Seq(AllTokens) /\ Append(rx_buf, a) = rx_buf \o one
    BY <1>1, <2>1
  <2> HIDE DEF one
  <2>3. rx_buf \o (one \o r) = (rx_buf \o one) \o r
    <3>1. rx_buf \in Seq(AllTokens) /\ one \in Seq(AllTokens) /\ r \in Seq(AllTokens)
      BY <1>1, <2>1, <2>2
    <3> QED
      BY <3>1, ConcatAssociative
  <2>4. rx_buf \o one \in Seq(AllTokens)
    BY <1>1, <2>2, ConcatProperties
  <2>5. rx_buf' = rx_buf \o one /\ todo' = r
    BY <1>1, <2>2 DEF a, r
  <2> QED
    BY <2>1, <2>3, <2>4, <2>5
<1>3. /\ sent' = sent /\ before' = before /\ cookie_table' = cookie_table
      /\ outcome = "none" /\ outcome' = "none"
  BY DEF Receive
<1>4. (AnsweredWhole /\ Survives /\ CookiesAsSent)'
  BY <1>3 DEF AnsweredWhole, Survives, CookiesAsSent
<1>5. Encode(sent)' = Encode(sent)
  BY <1>3
<1> QED
  BY <1>2, <1>3, <1>4, <1>5 DEF ResponseInv

(* The handler runs.                                                       *)
LEMMA EndedKeeps ==
  ASSUME ResponseInv, Ended
  PROVE  ResponseInv'
<1> DEFINE lines == sent.lines
           Bare == \E l \in 1 .. Len(lines) : lines[l].kind = "bare"
           Gzip == \E l \in 1 .. Len(lines) : lines[l].kind = "gzip"
           IsZipped == sent.body = Zipped
           S == Setting(lines)
<1>1. /\ sent' = sent /\ todo' = todo /\ rx_buf' = rx_buf /\ before' = before
      /\ outcome = "none" /\ cookie_table = before /\ slack_connection_process_data
  BY DEF Ended, ResponseInv
<1>2. DOMAIN lines = 1 .. Len(lines) /\ Len(lines) \in Nat
  BY LenProperties DEF ResponseInv
<1>3. /\ LinesOf("bare")' = {} <=> ~Bare
      /\ LinesOf("gzip")' = {} <=> ~Gzip
      /\ LinesOf("cookie")' = S
  BY <1>1, <1>2 DEF LinesOf, Setting
<1>4. Usual' => ~Bare /\ (Gzip <=> IsZipped)
  BY <1>1, <1>3 DEF Usual
<1>5. AnsweredWhole' /\ Survives' /\ CookiesAsSent'
  <2>1. CASE Bare
    <3>1. LinesOf("bare")' # {} /\ ~Usual'
      BY <1>3, <1>4, <2>1
    <3> QED
      BY <3>1 DEF AnsweredWhole, Survives, CookiesAsSent
  <2>2. CASE ~Bare
    <3> DEFINE TextIn == todo \in {<<>>, <<"ztrailer">>}
    <3>1. \/ /\ ~Contains(rx_buf, "end") /\ ~TextIn
             /\ outcome' \in {"empty", "unparsable"} /\ cookie_table' = cookie_table
          \/ /\ Contains(rx_buf, "end")
             /\ \E c : Covers(c, S, lines) /\ cookie_table' = Filled(cookie_table, c)
             /\ (Gzip <=> IsZipped) => /\ outcome' \in {"empty", "unparsable", "answered"}
                                       /\ outcome' = "answered" <=> TextIn
      BY <1>1, <2>2, ProcessData DEF ResponseInv
    <3> HIDE DEF Gzip, IsZipped, Bare, TextIn
    <3>2. Usual' => /\ outcome' \in {"empty", "unparsable", "answered"}
                    /\ outcome' = "answered" <=> TextIn
      BY <1>4, <3>1
    <3>3. AnsweredWhole' /\ Survives'
      BY <1>1, <3>2 DEF AnsweredWhole, Survives, TextIn
    <3> DEFINE set == IF Contains(rx_buf, "end") THEN S ELSE {}
    <3>4. set \subseteq Nat
      BY <1>2 DEF Setting
    <3>5. KeptLast(cookie_table', before, lines, set)
      <4>1. CASE ~Contains(rx_buf, "end")
        <5>1. set = {} /\ cookie_table' = before
          BY <1>1, <3>1, <4>1
        <5> HIDE DEF set, lines
        <5>2. KeptLast(before, before, lines, {})
          BY LastKept
        <5> QED
          BY <5>1, <5>2
      <4>2. CASE Contains(rx_buf, "end")
        <5>1. set = S
          BY <4>2
        <5>2. PICK c : Covers(c, S, lines) /\ cookie_table' = Filled(before, c)
          BY <1>1, <3>1, <4>2
        <5> HIDE DEF set, S, lines
        <5>3. KeptLast(Filled(before, c), before, lines, S)
          <6>1. S \subseteq Nat
            BY <3>4, <5>1
          <6> QED
            BY <5>2, <6>1, TableKept
        <5> QED
          BY <5>1, <5>2, <5>3
      <4> QED
        BY <4>1, <4>2
    <3>6. (IF Contains(rx_buf, "end") THEN LinesOf("cookie") ELSE {})' = set
      BY <1>1, <1>3
    <3>7. CookiesAsSent' <=>
            (outcome' \notin {"none", "crashed"} /\ LinesOf("bare")' = {} =>
               KeptLast(cookie_table', before', sent.lines',
                        (IF Contains(rx_buf, "end") THEN LinesOf("cookie") ELSE {})'))
      BY DEF CookiesAsSent, KeptLast
    <3> HIDE DEF set
    <3>8. KeptLast(cookie_table', before', sent.lines',
                   (IF Contains(rx_buf, "end") THEN LinesOf("cookie") ELSE {})')
      BY <1>1, <3>5, <3>6
    <3> QED
      BY <3>3, <3>7, <3>8
  <2> QED
    BY <2>1, <2>2
<1>6. outcome' # "none"
  BY <1>1, HandlerDecides
<1>7. Encode(sent)' = Encode(sent)
  BY <1>1
<1> QED
  BY <1>1, <1>5, <1>6, <1>7 DEF ResponseInv

(* Whatever arrives of an answer, and whenever its connection ends: the    *)
(* invariant holds in every state.                                         *)
THEOREM ResponseInvariant == Spec => []ResponseInv
<1>1. Init => ResponseInv
  BY ResponseInit
<1>2. ResponseInv /\ [Next]_vars => ResponseInv'
  <2> SUFFICES ASSUME ResponseInv, [Next]_vars PROVE ResponseInv'
    OBVIOUS
  <2>1. CASE Receive
    BY <2>1, ReceiveKeeps
  <2>2. CASE Ended
    BY <2>2, EndedKeeps
  <2>3. CASE UNCHANGED vars
    <3>1. /\ sent' = sent /\ todo' = todo /\ rx_buf' = rx_buf /\ before' = before
          /\ cookie_table' = cookie_table /\ outcome' = outcome
      BY <2>3 DEF vars
    <3>2. /\ AnsweredWhole' <=> AnsweredWhole
          /\ Survives' <=> Survives
          /\ CookiesAsSent' <=> CookiesAsSent
          /\ Encode(sent)' = Encode(sent)
      BY <3>1 DEF AnsweredWhole, Survives, CookiesAsSent, Usual, LinesOf
    <3> QED
      BY <3>1, <3>2 DEF ResponseInv
  <2> QED
    BY <2>1, <2>2, <2>3 DEF Next
<1> QED
  BY <1>1, <1>2, PTL DEF Spec

(* slack_connection_process_data calls the callback with an answer if the  *)
(* whole of its text arrived and for no other: a text that was cut short   *)
(* is never taken for one, after however many header lines, compressed or  *)
(* not.  Of a compressed answer the trailer may be missing, in whole or in *)
(* part: the code only logs that.                                          *)
THEOREM AnsweredWholeHolds == Spec => []AnsweredWhole
<1>1. ResponseInv => AnsweredWhole
  BY DEF ResponseInv
<1> QED
  BY <1>1, ResponseInvariant, PTL

(* None of the results of strchr that slack_update_cookies does not look   *)
(* at is NULL in an answer of the usual kind, and slack_gunzip returns a   *)
(* text.                                                                   *)
THEOREM SurvivesHolds == Spec => []Survives
<1>1. ResponseInv => Survives
  BY DEF ResponseInv
<1> QED
  BY <1>1, ResponseInvariant, PTL

(* slack_update_cookies keeps of each name that a whole head sets the last *)
(* value and no other cookie of it, for any number of lines and cookies.   *)
THEOREM CookiesAsSentHolds == Spec => []CookiesAsSent
<1>1. ResponseInv => CookiesAsSent
  BY DEF ResponseInv
<1> QED
  BY <1>1, ResponseInvariant, PTL
=============================================================================
