---------------------------- MODULE MCJsonParser ----------------------------
(* Texts for TLC, a family for each part of the language: a long text over *)
(* few tokens shows more of the parser than a short one over all of them.  *)
EXTENDS JsonParser

MCFamilies ==
    LET brackets == {"lbracket", "rbracket"}
        braces == {"lbrace", "rbrace"}
        object == braces \cup {"quote", "colon"}
    IN {[tokens |-> brackets \cup {"comma", "1", "sp", "x"},              length |-> 7],
        [tokens |-> object \cup {"comma", "null"},                       length |-> 11],
        [tokens |-> object \cup brackets \cup {"comma", "true"},          length |-> 8],
        [tokens |-> object \cup {"sp", "1"},                             length |-> 7],
        [tokens |-> brackets \cup NumberTokens \cup {"comma"},            length |-> 6],
        [tokens |-> object \cup UEscapes \cup {"u?", "esc", "x", "1"},    length |-> 7]}
=============================================================================
