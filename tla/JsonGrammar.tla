---------------------------- MODULE JsonGrammar ----------------------------
(***************************************************************************)
(* The texts json.c is to accept and the tree each one stands for, as a    *)
(* grammar written down without regard to how json_parse_ex reads it.      *)
(* Nothing here translates code: it is the reference JsonParser is         *)
(* compared with.                                                          *)
(*                                                                         *)
(* The language is JSON with the liberties json.c takes, each a clause     *)
(* below: one comma may follow the last element or member, and a minus     *)
(* sign needs no digits after it.                                          *)
(*                                                                         *)
(* A text is a sequence of tokens: a character, or a word or an escape     *)
(* that the code reads in one go.  "quote" and "esc" are the double quote  *)
(* and the backslash, "lbrace" and "lbracket" what opens an object and an  *)
(* array, "sp" white space, "x" a character that has no meaning, "u1" to   *)
(* "u4" a \u escape of so many bytes of UTF-8, "u?" one with a digit that  *)
(* is not hexadecimal.                                                     *)
(***************************************************************************)
EXTENDS Integers, Sequences, FiniteSets

Digits == {"0", "1"}
Words == {"true", "null"}
UEscapes == {"u1", "u2", "u3", "u4"}
Plain == {"x", "comma", "rbrace"}   \* what strings are made of here, escapes apart

(* Bytes of a string that an escape, or a character, stands for.           *)
Width(t) == CASE t = "u2" -> 2 [] t = "u3" -> 3 [] t = "u4" -> 4 [] OTHER -> 1

(* A node: num is the value of an integer or of a boolean, size the length *)
(* of a string, names the lengths of an object's keys.                     *)
Node(type, num, size, names, kids) ==
    [type |-> type, num |-> num, size |-> size, names |-> names, kids |-> kids]

(* Sequences over S of length n, and the concatenations of one of A with   *)
(* one of B.                                                               *)
Strings(S, n) == [1..n -> S]
Glue(A, B) == {a \o b : a \in A, b \in B}

DecimalValue(s) ==
    LET val[i \in 0..Len(s)] ==
            IF i = 0 THEN 0 ELSE 10 * val[i - 1] + (IF s[i] = "1" THEN 1 ELSE 0)
    IN  val[Len(s)]

-----------------------------------------------------------------------------
(* Numbers over the tokens T: sign, integer part, fraction, exponent.      *)

Signs(T, n) == Strings(T \cap {"-"}, n)
Wholes(T, n) == {d \in Strings(Digits \cap T, n) : n > 1 => d[1] # "0"}
Fractions(T, n) ==
    CASE n = 0 -> {<<>>}
      [] n = 1 -> {}
      [] OTHER -> Glue(Strings(T \cap {"."}, 1), Strings(Digits \cap T, n - 1))
Exponents(T, n) ==
    CASE n = 0 -> {<<>>}
      [] n = 1 -> {}
      [] OTHER -> Glue(Strings(T \cap {"e"}, 1),
                       Strings(Digits \cap T, n - 1)
                       \cup IF n = 2 THEN {}
                            ELSE Glue(Strings(T \cap {"+", "-"}, 1), Strings(Digits \cap T, n - 2)))

Numbers(T, n) ==
    LET lengths == {l \in (0..1) \X (0..n) \X (0..n) :
                       l[1] + l[2] + l[3] <= n /\ (l[2] = 0 => l[1] = 1 /\ l[3] = 0)}
        parts == UNION {Signs(T, l[1]) \X Wholes(T, l[2]) \X Fractions(T, l[3])
                           \X Exponents(T, n - l[1] - l[2] - l[3]) : l \in lengths}
    IN  {<<p[1] \o p[2] \o p[3] \o p[4],
           IF p[3] = <<>> /\ p[4] = <<>>
           THEN Node("integer",
                     IF p[1] = <<>> THEN DecimalValue(p[2]) ELSE -DecimalValue(p[2]), 0, <<>>, <<>>)
           ELSE Node("double", 0, 0, <<>>, <<>>)>> : p \in parts}

-----------------------------------------------------------------------------
(* Strings, as <<text without the quotes, length in bytes>>.               *)

Contents(T, n) ==
    LET c[k \in 0..n] ==
          IF k = 0 THEN {<<<<>>, 0>>}
          ELSE {<<p[1] \o <<t>>, p[2] + 1>> : p \in c[k - 1], t \in T \cap Plain}
               \cup IF k = 1 THEN {}
                    ELSE {<<p[1] \o <<q, t>>, p[2] + Width(t)>> :
                             p \in c[k - 2], q \in T \cap {"esc"},
                             t \in T \cap ({"x", "quote"} \cup UEscapes)}
    IN  c[n]

Quoted(T, n) ==
    IF n < 2 \/ "quote" \notin T THEN {}
    ELSE {<<<<"quote">> \o c[1] \o <<"quote">>, c[2]>> : c \in Contents(T, n - 2)}

-----------------------------------------------------------------------------
(* Values, and the inside of arrays and objects, of n tokens of T.         *)

Blank(T, n) == Strings(T \cap {"sp"}, n)

Spaced(T, part, n) ==
    UNION {{<<l \o p[1] \o r, p[2]>> :
               l \in Blank(T, i[1]), p \in part[i[2]], r \in Blank(T, n - i[1] - i[2])} :
              i \in {j \in (0..n) \X (0..n) : j[1] + j[2] <= n}}

(* What of length n follows from the rows of the shorter lengths: row[k]   *)
(* has the values, the values with spaces around them, the key-value       *)
(* pairs, and what may stand between brackets and between braces.          *)
Row(T, row, n) ==
    LET words == {<<<<w>>, IF w = "true" THEN Node("boolean", 1, 0, <<>>, <<>>)
                                         ELSE Node("null", 0, 0, <<>>, <<>>)>> :
                     w \in IF n = 1 THEN T \cap Words ELSE {}}
        strings == {<<s[1], Node("string", 0, s[2], <<>>, <<>>)>> : s \in Quoted(T, n)}
        arrays == IF n < 2 \/ "lbracket" \notin T THEN {}
                  ELSE {<<<<"lbracket">> \o i[1] \o <<"rbracket">>, Node("array", 0, 0, <<>>, i[2])>> :
                           i \in row[n - 2].items}
        objects == IF n < 2 \/ "lbrace" \notin T THEN {}
                   ELSE {<<<<"lbrace">> \o m[1] \o <<"rbrace">>, Node("object", 0, 0, m[2], m[3])>> :
                            m \in row[n - 2].members}
        value == words \cup strings \cup Numbers(T, n) \cup arrays \cup objects
        keys == [k \in 0..n |-> Quoted(T, k)]
        padded == Spaced(T, [k \in 0..n |-> IF k = n THEN value ELSE row[k].value], n)
        pairs == {<<m[1][1] \o <<"colon">> \o m[2][1], m[1][2], m[2][2]>> :
                    m \in UNION {Spaced(T, keys, a) \X row[n - 1 - a].padded : a \in 0..(n - 1)}}
    IN [value |-> value, padded |-> padded, pairs |-> pairs,
        items |->
           {<<b, <<>>>> : b \in Blank(T, n)} \cup {<<p[1], <<p[2]>>>> : p \in padded}
           \cup {<<p[1][1] \o <<"comma">> \o p[2][1], <<p[1][2]>> \o p[2][2]>> :
                    p \in UNION {row[a].padded \X row[n - 1 - a].items : a \in 0..(n - 1)}},
        members |->
           {<<b, <<>>, <<>>>> : b \in Blank(T, n)} \cup {<<p[1], <<p[2]>>, <<p[3]>>>> : p \in pairs}
           \cup {<<p[1][1] \o <<"comma">> \o p[2][1], <<p[1][2]>> \o p[2][2], <<p[1][3]>> \o p[2][3]>> :
                    p \in UNION {row[a].pairs \X row[n - 1 - a].members : a \in 0..(n - 1)}}]

(* The texts of at most max tokens of T, each with its tree.               *)
Grammar(T, max) ==
    LET rows[n \in -1..max] ==
            IF n = -1 THEN <<>>
            ELSE LET shorter == rows[n - 1]
                 IN  Append(shorter, Row(T, [k \in 0..(n - 1) |-> shorter[k + 1]], n))
    IN  UNION {r.padded : r \in {rows[max][k] : k \in 1..(max + 1)}}

(* The beginnings of the texts of a grammar.                               *)
Beginnings(G) == UNION {{SubSeq(p[1], 1, k) : k \in 0..Len(p[1])} : p \in G}
=============================================================================
