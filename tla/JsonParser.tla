----------------------------- MODULE JsonParser -----------------------------
(***************************************************************************)
(* json_parse_ex (src/json.c), which turns every answer of the server into *)
(* a tree, and json_value_free_ex, which the callbacks give the tree to.   *)
(*                                                                         *)
(* The parser reads the text twice.  The first pass allocates the values,  *)
(* chained in the order they begin, and counts elements and bytes; the     *)
(* second takes the values off the chain again, allocates what was counted *)
(* and fills it without looking at a bound.  One action is one turn of the *)
(* parser's loop over one branch of its flags.                             *)
(*                                                                         *)
(* The text is chosen while the first pass reads it, so that only what     *)
(* parses so far is continued; the second pass reads the same tokens       *)
(* again.  End is the end of the text or a NUL byte before it, which the   *)
(* code takes alike.  A word that is cut off or misspelt is the token "x": *)
(* the code rejects it before it allocates anything.  Comments (settings   *)
(* is 0), the byte order mark, the overflow checks near 2^32 bytes and the *)
(* value of a double are left out.                                         *)
(***************************************************************************)
EXTENDS Integers, Sequences, FiniteSets, JsonGrammar

CONSTANT
    Families        \* records [tokens, length]: an alphabet and the longest text over it

ASSUME FamiliesAssumption ==
    \A f \in Families : f.length \in Nat /\ IsFiniteSet(f.tokens)

VARIABLES
    family,         \* the family this text is of
    text,           \* the tokens chosen so far
    ended,          \* whether End has been read, so that the text is whole
    pass,           \* state.first_pass
    ptr,            \* state.ptr: the position of the byte read next
    flags,          \* the flag_... bits set; next and reproc last one turn and are not kept
    top, root,      \* json_value pointers: an index of values, 0 is NULL
    alloc,          \* last of the chain (first pass), next to be taken (second pass)
    values,         \* the json_values in the order of the chain
    string_length,
    num_digits,     \* 0, 1 or 2, which stands for more
    heap,           \* the blocks allocated and not freed
    stage,          \* "parsing", "failed", "parsed", "freeing", "ended" or "crashed"
    error,          \* "", "syntax" or "memory"
    freeing         \* json_value_free_ex's value

reading == <<family, text, ended>>
cursor == <<pass, ptr, flags, top, root, alloc, string_length, num_digits>>
vars == <<reading, cursor, values, heap, stage, error, freeing>>

End == "end"
Containers == {"array", "object"}
NumberFlags == {"num_negative", "num_zero", "num_e", "num_e_got_sign"}
NumberTokens == Digits \cup {"+", "-", ".", "e"}

Block(v) == <<v, "value">>
DataBlock(v) == <<v, "data">>

Init ==
    /\ family \in Families
    /\ text = <<>> /\ ended = FALSE
    /\ pass = 1 /\ ptr = 1 /\ flags = {"seek_value"}
    /\ top = 0 /\ root = 0 /\ alloc = 0
    /\ values = <<>> /\ string_length = 0 /\ num_digits = 0
    /\ heap = {} /\ stage = "parsing" /\ error = "" /\ freeing = 0

-----------------------------------------------------------------------------
(* Parts of a turn                                                         *)

(* What the text may go on with: any token of the family, in a string and  *)
(* after a backslash only those that differ there.                         *)
Offered ==
    family.tokens \cap
        (CASE "escaped" \in flags -> UEscapes \cup {"x", "quote", "u?"}
           [] flags \cap {"string", "escaped"} = {"string"} -> Plain \cup {"quote", "esc"}
           [] OTHER -> family.tokens \ (UEscapes \cup {"u?"}))

(* The byte b of this turn.                                                *)
Reads(b) ==
    /\ stage = "parsing"
    /\ UNCHANGED family
    /\ \/ /\ ptr <= Len(text) /\ b = text[ptr] /\ UNCHANGED <<text, ended>>
       \/ /\ ptr > Len(text) /\ ended /\ b = End /\ UNCHANGED <<text, ended>>
       \/ /\ ptr > Len(text) /\ ~ended /\ b = End /\ ended' = TRUE /\ UNCHANGED text
       \/ /\ ptr > Len(text) /\ ~ended /\ Len(text) < family.length
          /\ b \in Offered /\ text' = Append(text, b) /\ UNCHANGED ended

Fail(why) ==
    /\ stage' = "failed" /\ error' = why
    /\ UNCHANGED <<cursor, values, heap, freeing>>

(* The turn ends with nothing but the flags and the cursor moved.          *)
Continue(fs) ==
    /\ flags' = fs /\ ptr' = ptr + 1
    /\ UNCHANGED <<pass, top, root, alloc, values, string_length, num_digits, heap, stage, error, freeing>>

(* new_value.  bytes counts a string, or an object's names with their      *)
(* terminators: to be allocated in the first pass, written in the second.  *)
Fresh(type, num) ==
    [type |-> type, parent |-> top, num |-> num, length |-> 0, bytes |-> 0,
     capacity |-> 0, room |-> 0, kids |-> <<>>, names |-> <<>>]

(* Mutant: no byte for a string's terminator.                              *)
WrongTakenUnterminated(v) ==
    [v EXCEPT !.capacity = v.length, !.length = 0, !.room = v.bytes, !.bytes = 0]

(* The second pass makes room for what was counted, and counts again.      *)
Taken(v) ==
    [v EXCEPT !.capacity = v.length, !.length = 0,
              !.room = IF v.type = "string" THEN v.bytes + 1 ELSE v.bytes, !.bytes = 0]

NewTop == IF pass = 1 THEN Len(values) + 1 ELSE alloc
NewValues(type, num) ==
    IF pass = 1 THEN Append(values, Fresh(type, num))
                ELSE [values EXCEPT ![alloc] = Taken(@)]

(* Mutant: the chain does not end in NULL.                                 *)
WrongNewAllocUnended == IF pass = 1 THEN NewTop ELSE alloc + 1

(* The next of the chain, NULL after its last.                             *)
NewAlloc == IF pass = 1 THEN NewTop ELSE IF alloc < Len(values) THEN alloc + 1 ELSE 0

(* The blocks this call asks for; an empty container needs none.           *)
Allocates ==
    IF pass = 1 THEN {Block(NewTop)}
    ELSE IF \/ values[alloc].type = "string"
            \/ values[alloc].type \in Containers /\ values[alloc].length > 0
    THEN {DataBlock(alloc)} ELSE {}

CreateValue ==
    /\ root' = IF root = 0 THEN NewTop ELSE root
    /\ alloc' = NewAlloc
    /\ heap' = heap \cup Allocates

(* json_alloc returns NULL: what new_value did before is done.             *)
AllocationFails ==
    /\ Allocates # {}
    /\ stage' = "failed" /\ error' = "memory"
    /\ IF pass = 1 THEN UNCHANGED <<top, root, alloc>>
       ELSE top' = NewTop /\ alloc' = NewAlloc /\ root' = IF root = 0 THEN NewTop ELSE root
    /\ UNCHANGED <<pass, ptr, flags, values, string_length, num_digits, heap, freeing>>

(* The end of a turn that finished value v: it is done, or counted and, in *)
(* the second pass, linked in its parent.  at is where the next turn reads *)
(* (flag_reproc: the byte just read again).                                *)
FinishValue(vs, v, fs, at) ==
    LET p == vs[v].parent IN
    /\ ptr' = at
    /\ IF p = 0
       THEN /\ flags' = fs \cup {"need_comma", "done"}
            /\ top' = v /\ values' = vs
       ELSE /\ flags' = fs \cup {"need_comma"}
                           \cup IF vs[p].type = "array" THEN {"seek_value"} ELSE {}
            /\ top' = p
            /\ values' = [vs EXCEPT ![p].length = @ + 1,
                                    ![p].kids = IF pass = 1 THEN @ ELSE Append(@, v)]
    /\ UNCHANGED <<pass, stage, error, freeing>>

-----------------------------------------------------------------------------
(* Inside a string: a key when top is an object                            *)

StringByte(b) ==
    /\ "string" \in flags /\ Reads(b)
    /\ "escaped" \in flags \/ b # "quote"
    /\ IF b = End \/ ("escaped" \in flags /\ b = "u?") THEN Fail("syntax")
       ELSE IF "escaped" \notin flags /\ b = "esc" THEN Continue(flags \cup {"escaped"})
       ELSE /\ string_length' = string_length + (IF "escaped" \in flags THEN Width(b) ELSE 1)
            /\ flags' = flags \ {"escaped"} /\ ptr' = ptr + 1
            /\ UNCHANGED <<pass, top, root, alloc, values, num_digits, heap, stage, error, freeing>>

StringEnd ==
    /\ "string" \in flags /\ "escaped" \notin flags
    /\ Reads("quote")
    /\ values[top].type = "string"
    /\ FinishValue([values EXCEPT ![top].bytes = string_length], top, flags \ {"string"}, ptr + 1)
    /\ UNCHANGED <<root, alloc, string_length, num_digits, heap>>

KeyEnd ==
    /\ "string" \in flags /\ "escaped" \notin flags
    /\ Reads("quote")
    /\ values[top].type = "object"
    /\ values' = [values EXCEPT ![top].bytes = @ + string_length + 1,
                                ![top].names = IF pass = 1 THEN @ ELSE Append(@, string_length)]
    /\ flags' = (flags \ {"string"}) \cup {"seek_value", "need_colon"} /\ ptr' = ptr + 1
    /\ UNCHANGED <<pass, top, root, alloc, string_length, num_digits, heap, stage, error, freeing>>

-----------------------------------------------------------------------------
(* Where a value is to begin (flag_seek_value)                             *)

Seeking == "seek_value" \in flags /\ "string" \notin flags /\ "done" \notin flags

SeekSpace == Seeking /\ Reads("sp") /\ Continue(flags)

ArrayEnd ==
    /\ Seeking /\ Reads("rbracket")
    /\ IF top # 0 /\ values[top].type = "array"
       THEN /\ FinishValue(values, top, flags \ {"need_comma", "seek_value"}, ptr + 1)
            /\ UNCHANGED <<root, alloc, string_length, num_digits, heap>>
       ELSE Fail("syntax")

(* The comma, the colon, or anything else in their place.                  *)
SeekSeparator(b) ==
    /\ Seeking /\ Reads(b) /\ b \notin {"sp", "rbracket"}
    /\ \/ /\ "need_comma" \in flags
          /\ IF b = "comma" THEN Continue(flags \ {"need_comma"}) ELSE Fail("syntax")
       \/ /\ "need_comma" \notin flags /\ "need_colon" \in flags
          /\ IF b = "colon" THEN Continue(flags \ {"need_colon"}) ELSE Fail("syntax")

(* The second pass skips over a number, to the byte after it.              *)
AfterNumber == CHOOSE e \in ptr..(Len(text) + 1) :
                  /\ \A i \in ptr..(e - 1) : text[i] \in NumberTokens
                  /\ e <= Len(text) => text[e] \notin NumberTokens

BeginsValue(b) == Seeking /\ flags \cap {"need_comma", "need_colon"} = {} /\ Reads(b)
Sought == flags \ {"seek_value"}

SeekContainer ==
    \E b \in {"lbrace", "lbracket"} :
      LET type == IF b = "lbrace" THEN "object" ELSE "array" IN
      /\ BeginsValue(b)
      /\ \/ AllocationFails
         \/ /\ CreateValue
            /\ values' = NewValues(type, 0) /\ top' = NewTop
            /\ flags' = IF b = "lbracket" THEN flags ELSE Sought
            /\ ptr' = ptr + 1
            /\ UNCHANGED <<pass, string_length, num_digits, stage, error, freeing>>

SeekString ==
    /\ BeginsValue("quote")
    /\ \/ AllocationFails
       \/ /\ CreateValue
          /\ values' = NewValues("string", 0) /\ top' = NewTop
          /\ flags' = Sought \cup {"string"} /\ string_length' = 0
          /\ ptr' = ptr + 1
          /\ UNCHANGED <<pass, num_digits, stage, error, freeing>>

SeekWord ==
    \E b \in Words :
      LET type == IF b = "true" THEN "boolean" ELSE "null"
          num == IF b = "true" THEN 1 ELSE 0 IN
      /\ BeginsValue(b)
      /\ \/ AllocationFails
         \/ /\ CreateValue
            /\ FinishValue(NewValues(type, num), NewTop, Sought, ptr + 1)
            /\ UNCHANGED <<string_length, num_digits>>

SeekNumber ==
    \E b \in Digits \cup {"-"} :
      /\ BeginsValue(b)
      /\ \/ AllocationFails
         \/ /\ pass = 1
            /\ CreateValue
            /\ values' = NewValues("integer", 0) /\ top' = NewTop
            /\ num_digits' = 0
            /\ flags' = (Sought \ NumberFlags) \cup IF b = "-" THEN {"num_negative"} ELSE {}
            /\ ptr' = IF b = "-" THEN ptr + 1 ELSE ptr
            /\ UNCHANGED <<pass, string_length, stage, error, freeing>>
         \/ /\ pass = 0
            /\ CreateValue
            /\ FinishValue(NewValues("integer", 0), NewTop, Sought, AfterNumber)
            /\ UNCHANGED <<string_length, num_digits>>

SeekOther(b) ==
    /\ b \notin {"sp", "rbracket", "lbrace", "lbracket", "quote"} \cup Words \cup Digits \cup {"-"}
    /\ BeginsValue(b)
    /\ Fail("syntax")

-----------------------------------------------------------------------------
(* Between an object's members                                             *)

InObject ==
    /\ flags \cap {"string", "done", "seek_value"} = {}
    /\ top # 0 /\ values[top].type = "object"

(* Mutant: a comma is taken wherever a key may stand.                      *)
WrongObjectByteAnyComma(b) ==
    /\ InObject /\ Reads(b) /\ b \notin {"quote", "rbrace"}
    /\ IF b \in {"sp", "comma"} THEN Continue(flags \ {"need_comma"}) ELSE Fail("syntax")

ObjectByte(b) ==
    /\ InObject /\ Reads(b) /\ b \notin {"quote", "rbrace"}
    /\ IF b = "sp" THEN Continue(flags)
       ELSE IF b = "comma" /\ "need_comma" \in flags THEN Continue(flags \ {"need_comma"})
       ELSE Fail("syntax")

KeyBegin ==
    /\ InObject /\ Reads("quote")
    /\ IF "need_comma" \in flags THEN Fail("syntax")
       ELSE /\ flags' = flags \cup {"string"} /\ string_length' = 0 /\ ptr' = ptr + 1
            /\ UNCHANGED <<pass, top, root, alloc, values, num_digits, heap, stage, error, freeing>>

ObjectEnd ==
    /\ InObject /\ Reads("rbrace")
    /\ FinishValue(values, top, flags \ {"need_comma"}, ptr + 1)
    /\ UNCHANGED <<root, alloc, string_length, num_digits, heap>>

-----------------------------------------------------------------------------
(* Inside a number: the first pass only                                    *)

InNumber ==
    /\ flags \cap {"string", "done", "seek_value"} = {}
    /\ top # 0 /\ values[top].type \in {"integer", "double"}
Exponent == "num_e" \in flags
IsInteger == values[top].type = "integer"

NumberDigit(d) ==
    /\ InNumber /\ Reads(d)
    /\ IF IsInteger /\ ~Exponent /\ "num_zero" \in flags THEN Fail("syntax")
       ELSE /\ num_digits' = IF num_digits < 2 THEN num_digits + 1 ELSE 2
            /\ flags' = flags \cup (IF Exponent THEN {"num_e_got_sign"}
                                    ELSE IF IsInteger /\ num_digits = 0 /\ d = "0" THEN {"num_zero"} ELSE {})
            /\ values' = IF IsInteger /\ ~Exponent
                         THEN [values EXCEPT ![top].num = 10 * @ + (IF d = "1" THEN 1 ELSE 0)]
                         ELSE values
            /\ ptr' = ptr + 1
            /\ UNCHANGED <<pass, top, root, alloc, string_length, heap, stage, error, freeing>>

(* The sign of an exponent, the point and the e are taken where they fit;  *)
(* any other byte, one of these in the wrong place too, ends the number.   *)
FitsNumber(b) ==
    \/ b \in {"+", "-"} /\ Exponent /\ "num_e_got_sign" \notin flags
    \/ b = "." /\ IsInteger
    \/ b = "e" /\ ~Exponent

NumberSign ==
    \E b \in {"+", "-"} :
      /\ InNumber /\ FitsNumber(b) /\ Reads(b)
      /\ Continue(flags \cup {"num_e_got_sign"})

NumberPoint(b) ==
    /\ b \in {".", "e"}
    /\ InNumber /\ FitsNumber(b) /\ Reads(b)
    /\ IF num_digits = 0 /\ (b = "." \/ ~IsInteger) THEN Fail("syntax")
       ELSE /\ values' = [values EXCEPT ![top].type = "double", ![top].num = 0]
            /\ num_digits' = 0
            /\ flags' = IF b = "e" THEN (flags \cup {"num_e"}) \ {"num_zero"} ELSE flags
            /\ ptr' = ptr + 1
            /\ UNCHANGED <<pass, top, root, alloc, string_length, heap, stage, error, freeing>>

(* Mutant: the byte after a number is read again, but the number not ended. *)
WrongNumberEndUnended(b) ==
    /\ InNumber /\ b \notin Digits /\ ~FitsNumber(b) /\ Reads(b)
    /\ IF num_digits = 0 /\ ~IsInteger THEN Fail("syntax")
       ELSE UNCHANGED <<cursor, values, heap, stage, error, freeing>>

NumberEnd(b) ==
    /\ InNumber /\ b \notin Digits /\ ~FitsNumber(b) /\ Reads(b)
    /\ IF num_digits = 0 /\ ~IsInteger THEN Fail("syntax")
       ELSE /\ FinishValue([values EXCEPT ![top].num = IF "num_negative" \in flags THEN -@ ELSE @],
                           top, flags, ptr)
            /\ UNCHANGED <<root, alloc, string_length, num_digits, heap>>

-----------------------------------------------------------------------------
(* After the root value                                                    *)

Trailer(b) ==
    /\ "done" \in flags /\ "string" \notin flags /\ Reads(b) /\ b # End
    /\ IF b = "sp" THEN Continue(flags) ELSE Fail("syntax")

PassEnds ==
    /\ "done" \in flags /\ "string" \notin flags /\ Reads(End)
    /\ IF pass = 1
       THEN /\ pass' = 0 /\ alloc' = root
            /\ top' = 0 /\ root' = 0 /\ flags' = {"seek_value"}
            /\ string_length' = 0 /\ ptr' = 1
            /\ UNCHANGED <<stage, num_digits>>
       ELSE stage' = "parsed" /\ UNCHANGED cursor
    /\ UNCHANGED <<values, heap, error, freeing>>

-----------------------------------------------------------------------------
(* e_failed, and json_value_free_ex one turn at a time                     *)

(* Mutant: the chain is freed from its last value in the first pass too.   *)
WrongFirstToFreeLast == alloc

(* What is left of the chain: all of it, or what the second pass did not   *)
(* reach; then the tree as far as it is built.                             *)
FirstToFree == IF pass = 1 THEN root ELSE alloc

Failed ==
    /\ stage = "failed"
    /\ heap' = heap \ {Block(v) : v \in {i \in 1..Len(values) : FirstToFree # 0 /\ i >= FirstToFree}}
    /\ IF pass = 1 THEN stage' = "ended" /\ UNCHANGED freeing
                   ELSE stage' = "freeing" /\ freeing' = root
    /\ UNCHANGED <<reading, cursor, values, error>>

(* The callback has read the tree and gives it back.                       *)
Release ==
    /\ stage = "parsed"
    /\ stage' = "freeing" /\ freeing' = root
    /\ UNCHANGED <<reading, cursor, values, heap, error>>

FreeDown ==
    /\ stage = "freeing"
    /\ values[freeing].type \in Containers /\ values[freeing].length > 0
    /\ IF values[freeing].length > Len(values[freeing].kids)
       THEN stage' = "crashed" /\ UNCHANGED <<values, freeing>>
       ELSE /\ values' = [values EXCEPT ![freeing].length = @ - 1]
            /\ freeing' = values[freeing].kids[values[freeing].length]
            /\ UNCHANGED stage
    /\ UNCHANGED <<reading, cursor, heap, error>>

FreeUp ==
    /\ stage = "freeing"
    /\ ~(values[freeing].type \in Containers /\ values[freeing].length > 0)
    /\ IF Block(freeing) \notin heap
       THEN stage' = "crashed" /\ UNCHANGED <<heap, freeing>>
       ELSE /\ heap' = heap \ {Block(freeing), DataBlock(freeing)}
            /\ freeing' = values[freeing].parent
            /\ stage' = IF freeing' = 0 THEN "ended" ELSE "freeing"
    /\ UNCHANGED <<reading, cursor, values, error>>

Parse ==
    \/ \E b \in family.tokens \cup {End} :
         \/ StringByte(b) \/ SeekSeparator(b) \/ SeekOther(b)
         \/ ObjectByte(b) \/ NumberPoint(b) \/ NumberEnd(b) \/ Trailer(b)
    \/ \E d \in Digits : NumberDigit(d)
    \/ StringEnd \/ KeyEnd \/ SeekSpace \/ ArrayEnd
    \/ SeekContainer \/ SeekString \/ SeekWord \/ SeekNumber
    \/ KeyBegin \/ ObjectEnd \/ NumberSign \/ PassEnds

(* The caller has its NULL, or has freed its tree, or is gone.             *)
Returned == stage \in {"ended", "crashed"} /\ UNCHANGED vars

Next == Parse \/ Failed \/ Release \/ FreeDown \/ FreeUp \/ Returned

Spec == Init /\ [][Next]_vars

(* The parser is one loop of one call: its next turn is always taken.      *)
FairSpec == Spec /\ WF_vars(Next)

-----------------------------------------------------------------------------
(* Properties                                                              *)

(* The variables take values of the C program's types, and every pointer   *)
(* is NULL or a value of the chain.                                        *)
TypeOK ==
    /\ family \in Families /\ text \in Seq(family.tokens) /\ ended \in BOOLEAN
    /\ pass \in {0, 1} /\ ptr \in 1..(Len(text) + 2)
    /\ flags \subseteq {"need_comma", "seek_value", "escaped", "string", "need_colon", "done"}
                       \cup NumberFlags
    /\ {top, root, alloc, freeing} \subseteq 0..Len(values)
    /\ \A v \in 1..Len(values) : values[v].parent \in 0..(v - 1)
    /\ string_length \in Nat /\ num_digits \in 0..2
    /\ heap \subseteq UNION {{Block(v), DataBlock(v)} : v \in 1..Len(values)}
    /\ stage \in {"parsing", "failed", "parsed", "freeing", "ended", "crashed"}
    /\ error \in {"", "syntax", "memory"}

(* The second pass writes into memory it sized by what the first pass      *)
(* counted, and checks no bound: the passes agree, so that no element, no  *)
(* key and no byte of a string, its terminator included, lies beyond what  *)
(* was counted, and when the tree is returned nothing counted is left      *)
(* unwritten for a caller to read.                                         *)
FilledAsCounted ==
    pass = 0 /\ stage \in {"parsing", "parsed"} =>
      \A v \in {i \in 1..Len(values) : alloc = 0 \/ i < alloc} :
        LET val == values[v]
            writing == IF v = top /\ "string" \in flags THEN string_length + 1
                       ELSE IF val.type = "string" THEN 1 ELSE 0
            keys == IF v = top /\ val.type = "object" /\ "string" \in flags THEN 1 ELSE 0
        IN /\ val.length + keys <= val.capacity
           /\ val.bytes + writing <= val.room
           /\ stage = "parsed" =>
                /\ alloc = 0
                /\ val.length = val.capacity /\ val.length = Len(val.kids)
                /\ val.bytes + writing = val.room
                /\ val.type = "object" => Len(val.names) = val.length

(* A text that json_parse_ex accepts is in the grammar, and its tree is the*)
(* one the grammar gives; a text it rejects for its syntax is not in the   *)
(* grammar, and if it is rejected before its end, none that begins so is.  *)
Language == [f \in Families |-> Grammar(f.tokens, f.length)]
Texts == [f \in Families |-> {p[1] : p \in Language[f]}]
Openings == [f \in Families |-> Beginnings(Language[f])]

Tree ==
    LET t[v \in 1..Len(values)] ==
            Node(values[v].type, values[v].num,
                 IF values[v].type = "string" THEN values[v].bytes ELSE 0, values[v].names,
                 [i \in 1..Len(values[v].kids) |-> t[values[v].kids[i]]])
    IN  t[root]

ParsesAsWritten ==
    /\ stage = "parsed" => <<text, Tree>> \in Language[family]
    /\ stage = "failed" /\ error = "syntax" =>
         text \notin (IF ended THEN Texts[family] ELSE Openings[family])

(* Every block is freed once: by e_failed in the first pass, or by the     *)
(* callback's json_value_free.  Only an allocation that fails in the       *)
(* second pass is not cleaned up after: what hangs under the unfinished    *)
(* child of the root is lost, and if the root itself got no memory its     *)
(* elements are read through NULL.                                         *)
UnfinishedChild ==
    {v \in 1..top : /\ values[v].parent = root
                    /\ \A w \in (v + 1)..top : values[w].parent # root}

AllFreed ==
    /\ stage = "ended" /\ ~(error = "memory" /\ pass = 0) => heap = {}
    /\ stage = "ended" => \A v \in 1..Len(values) :
         heap \cap {Block(v), DataBlock(v)} # {} =>
           \E c \in UnfinishedChild : c <= v /\ (v < alloc \/ alloc = 0)
    /\ stage = "crashed" => error = "memory" /\ pass = 0 /\ freeing = root /\ top = root

(* Every call returns, or crashes: a byte that is read again (flag_reproc) *)
(* is taken by another branch then.                                        *)
ParseEnds == <>(stage \in {"ended", "crashed"})
=============================================================================
