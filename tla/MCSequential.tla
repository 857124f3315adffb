------------------------------ MODULE MCSequential ------------------------------
(* Small inputs for TLC: the constants of Sequential.                      *)
EXTENDS Sequential

(* Empty and blank parts, a part that is another one padded, and a part    *)
(* that starts like another one.                                           *)
Letters == {Blank, "a", "b"}
SomeParts == { << >>, <<" ">>, <<"a">>, <<"a", "b">>, <<" ", "a">>, <<"b">> }

(* Bytes 1 and 2 are letters; NUL, 0, occurs in texts only.                *)
SomeHeads == { << >>, <<1>> }
SomeScopes == { None, Some(<< >>), Some(<<1>>) }
SomeTexts == { << >>, <<1>>, <<NUL>>, <<2, 1>> }

(* '/', '0', '9', 'A', 'a', 'f' and 'g': digits of both cases, neighbours. *)
SomeBytes == {47, 48, 57, 65, 97, 102, 103}

(* A conversation id that is a number, with and without a scope; texts     *)
(* that are a version, a version spelled otherwise, none, or a kind.       *)
SomeStrings == { <<4, 2>>, <<13>>, <<14>>, <<9>>, <<15>> }
SomeEnvelopes ==
    [schema_version : {1, 255}, kind : {"DemotedMessage", "CompactionSummary"},
     conversation_id : {<<4, 2>>, <<13>>}, chat_role : {<<14>>},
     dedup_key : {<<9>>}, scope : {None, Some(<<15>>)}]
SomeWrites == { << >>, <<7>>, <<10, 0, 7>>, <<2, 5, 6>>, <<10>>, <<11>> }

(* The bits are the sets of words, and a word has the bits it is in: every *)
(* possible column of three words occurs.                                  *)
SomeWords == {"u", "v", "w"}
SomeTokens ==
    { [word |-> w, dress |-> FALSE] : w \in SomeWords }
        \cup { [word |-> "u", dress |-> TRUE], [word |-> NoWord, dress |-> TRUE] }
SomeBits == SUBSET SomeWords
SomeHash(word) == { bit \in SomeBits : word \in bit }
=============================================================================
