------------------------------ MODULE SlackResponse ------------------------------
(***************************************************************************)
(* What becomes of the bytes of one answer: slack_connection_process_data, *)
(* with slack_update_cookies and slack_gunzip.  The server closes the      *)
(* connection to end an answer, so an answer that is cut short looks like  *)
(* any other.                                                              *)
(*                                                                         *)
(* The bytes are tokens, as coarse as the searches of the code allow:      *)
(*   cookie     "\r\nSet-Cookie: "                                         *)
(*   gzip       "\r\nContent-Encoding: gzip"                               *)
(*   equals     the character =                                            *)
(*   semicolon  the character ;                                            *)
(*   end        "\r\n\r\n"                                                 *)
(*   line       any other text between them                                *)
(*   first      the first part of a JSON text, and last the other          *)
(*   zfirst     the same, compressed, and zlast                            *)
(*   ztrailer   what ends a compressed body: no text comes of it           *)
(* and the names and values of cookies.                                    *)
(***************************************************************************)
EXTENDS Naturals, Sequences, SequencesExt, FiniteSetsExt

CONSTANTS
  Names, Values,   \* Of cookies
  MaxLines         \* Bound: header lines of an answer

(* What the code searches for. *)
Marks == {"cookie", "gzip", "equals", "semicolon", "end", "line", "first", "last", "zfirst", "zlast",
          "ztrailer"}

(* A name or a value has none of it in it. *)
ASSUME ResponseAssumption ==
  /\ MaxLines \in Nat
  /\ (Names \cup Values) \cap (Marks \cup {"crash"}) = {}

VARIABLES
  sent,           \* The answer, as the server meant it: its header lines and body
  todo,           \* The tokens that have yet to arrive
  rx_buf,         \* Those that did
  before,         \* History: the cookies before this answer
  cookie_table,   \* The name and value of every cookie kept, as found in the bytes
  outcome         \* What the handler made of the answer

vars == <<sent, todo, rx_buf, before, cookie_table, outcome>>

-----------------------------------------------------------------------------
(* What servers send. *)

(* A cookie usually has attributes, which follow a semicolon, but need not. *)
Lines ==
  [kind : {"cookie", "bare"}, name : Names, value : Values]
    \cup {[kind |-> "gzip"], [kind |-> "type"]}

Plain == <<"first", "last">>
Zipped == <<"zfirst", "zlast", "ztrailer">>
Bodies == {Plain, Zipped}

(* The tokens of a header line; "type" is Content-Type: text; charset=utf-8. *)
Tokens(l) ==
  CASE l.kind = "cookie" -> <<"cookie", l.name, "equals", l.value, "semicolon", "line">>
    [] l.kind = "bare" -> <<"cookie", l.name, "equals", l.value>>
    [] l.kind = "gzip" -> <<"gzip">>
    [] l.kind = "type" -> <<"line", "semicolon", "line", "equals", "line">>

Encode(answer) ==
  <<"line">> \o FlattenSeq([i \in DOMAIN answer.lines |-> Tokens(answer.lines[i])])
    \o <<"end">> \o answer.body

(* The cookies an account may have from earlier answers. *)
Tables == UNION {[{<<n>> : n \in S} -> {<<v>> : v \in Values}] : S \in SUBSET Names}

Init ==
  /\ sent \in [lines : BoundedSeq(Lines, MaxLines), body : Bodies]
  /\ todo = Encode(sent)
  /\ rx_buf = <<>>
  /\ before \in Tables
  /\ cookie_table = before
  /\ outcome = "none"

-----------------------------------------------------------------------------
(* Where token t first is in the text s from place i on, or 0 (strstr and  *)
(* strchr).                                                                *)
Find(t, s, i) ==
  LET places == {j \in i .. Len(s) : s[j] = t} IN IF places = {} THEN 0 ELSE Min(places)

Crash == [name |-> <<>>, value |-> <<"crash">>]

(* Mutant: a value is taken up to the end of its line.                   *)
WrongCookiesToLineEnd(head) ==
  LET From[i \in 1 .. Len(head) + 1] ==
        LET start == Find("cookie", head, i)
            equals == Find("equals", head, start + 1)
            end == Find("line", head, equals + 1)
        IN CASE start = 0 -> <<>>
             [] start # 0 /\ (equals = 0 \/ end = 0) -> <<Crash>>
             [] OTHER -> <<[name |-> SubSeq(head, start + 1, equals - 1),
                            value |-> SubSeq(head, equals + 1, end - 1)]>> \o From[end]
  IN From[1]

(* The cookies found in a head, in order, ending in Crash if the code goes *)
(* on from a character that strchr did not find.                           *)
Cookies(head) ==
  LET From[i \in 1 .. Len(head) + 1] ==
        LET start == Find("cookie", head, i)
            equals == Find("equals", head, start + 1)
            end == Find("semicolon", head, equals + 1)
        IN CASE start = 0 -> <<>>
             [] start # 0 /\ (equals = 0 \/ end = 0) -> <<Crash>>
             [] OTHER -> <<[name |-> SubSeq(head, start + 1, equals - 1),
                            value |-> SubSeq(head, equals + 1, end - 1)]>> \o From[end]
  IN From[1]

(* g_hash_table_insert *)
Put(table, c) ==
  [name \in DOMAIN table \cup {c.name} |-> IF name = c.name THEN c.value ELSE table[name]]

Filled(table, found) ==
  LET Table[n \in 0 .. Len(found)] == IF n = 0 THEN table ELSE Put(Table[n - 1], found[n])
  IN Table[Len(found)]

slack_update_cookies(head) == cookie_table' = Filled(cookie_table, Cookies(head))

Inflated == [z \in {"zfirst", "zlast"} |-> IF z = "zfirst" THEN "first" ELSE "last"]

(* Mutant: what inflate gives with the end of the data is not appended.    *)
WrongGunzipNoLast(data) ==
  LET end == Find("ztrailer", data, 1)
      deflated == IF end = 0 THEN data ELSE SubSeq(data, 1, end - 2)
  IN IF data # <<>> /\ data[1] \notin DOMAIN Inflated
     THEN <<"crash">>
     ELSE [i \in DOMAIN deflated |-> Inflated[deflated[i]]]

(* The text as far as the data goes, with or without the end of the data,  *)
(* the lack of which is only logged; nothing, for bytes zlib does not know,*)
(* because the second attempt is given up before it is made.               *)
slack_gunzip(data) ==
  LET end == Find("ztrailer", data, 1)
      deflated == IF end = 0 THEN data ELSE SubSeq(data, 1, end - 1)
  IN IF data # <<>> /\ data[1] \notin DOMAIN Inflated
     THEN <<"crash">>
     ELSE [i \in DOMAIN deflated |-> Inflated[deflated[i]]]

(* What the caller's callback gets to see of a text.                       *)
Verdict(text) ==
  CASE text = <<>> -> "empty"
    [] text = <<"crash">> -> "crashed"
    [] text = <<"first", "last">> -> "answered"
    [] OTHER -> "unparsable"

(* Mutant: cookies before the headers are known to be whole.             *)
WrongProcessCookiesFirst ==
  LET end == Find("end", rx_buf, 1)
      head == IF end = 0 THEN rx_buf ELSE SubSeq(rx_buf, 1, end)
      data == SubSeq(rx_buf, end + 1, Len(rx_buf))
  IN IF Contains(Cookies(head), Crash)
     THEN outcome' = "crashed" /\ UNCHANGED cookie_table
     ELSE /\ outcome' = Verdict(IF Contains(head, "gzip") THEN slack_gunzip(data) ELSE data)
          /\ slack_update_cookies(head)

(* Without an end of the headers, all there is counts as the text.         *)
slack_connection_process_data ==
  LET end == Find("end", rx_buf, 1)
      head == SubSeq(rx_buf, 1, end)
      data == SubSeq(rx_buf, end + 1, Len(rx_buf))
  IN CASE end = 0 ->
            outcome' = Verdict(rx_buf) /\ UNCHANGED cookie_table
       [] end # 0 /\ Contains(Cookies(head), Crash) ->
            outcome' = "crashed" /\ UNCHANGED cookie_table
       [] OTHER ->
            /\ outcome' = Verdict(IF Contains(head, "gzip") THEN slack_gunzip(data) ELSE data)
            /\ slack_update_cookies(head)

(* Some bytes arrive. *)
Receive ==
  /\ outcome = "none"
  /\ todo # <<>>
  /\ rx_buf' = Append(rx_buf, Head(todo))
  /\ todo' = Tail(todo)
  /\ UNCHANGED <<sent, before, cookie_table, outcome>>

(* The connection ends, as it should or early. *)
Ended ==
  /\ outcome = "none"
  /\ slack_connection_process_data
  /\ UNCHANGED <<sent, todo, rx_buf, before>>

Next == Receive \/ Ended

Spec == Init /\ [][Next]_vars

-----------------------------------------------------------------------------
(* Properties. *)

LinesOf(kind) == {i \in DOMAIN sent.lines : sent.lines[i].kind = kind}

(* Every cookie has attributes, and the body is compressed iff it says so. *)
Usual == LinesOf("bare") = {} /\ (LinesOf("gzip") # {} <=> sent.body = Zipped)

(* The callback is given an answer if the whole of its text arrived, and   *)
(* for no other: no text that was cut short is taken for an answer.  The   *)
(* text, not the answer: a compressed one that was cut in its trailer is   *)
(* given to the callback too, and its checksum is never looked at.         *)
AnsweredWhole ==
  outcome # "none" /\ Usual => (outcome = "answered" <=> todo \in {<<>>, <<"ztrailer">>})

(* An answer of the usual kind is survived, wherever it was cut: none of   *)
(* strchr's results that slack_update_cookies does not look at is NULL,    *)
(* and slack_gunzip returns a text.                                        *)
Survives == outcome = "crashed" => ~Usual

(* A head that arrived whole leaves of each name it sets the last value,   *)
(* and every other cookie as it was; one that did not leaves them all.     *)
CookiesAsSent ==
  outcome \notin {"none", "crashed"} /\ LinesOf("bare") = {} =>
    LET set == IF Contains(rx_buf, "end") THEN LinesOf("cookie") ELSE {}
        Of(n) == {i \in set : <<sent.lines[i].name>> = n}
    IN /\ DOMAIN cookie_table = DOMAIN before \cup {<<sent.lines[i].name>> : i \in set}
       /\ \A n \in DOMAIN cookie_table :
            cookie_table[n] = IF Of(n) = {} THEN before[n] ELSE <<sent.lines[Max(Of(n))].value>>
=============================================================================
