-------------------------------- MODULE FrameMap --------------------------------
(***************************************************************************)
(* FrameMetadata as a map of strings (src/metadata.rs): a hook stamps an   *)
(* envelope into an entry's map, other tools put, overwrite and remove     *)
(* keys of it, and somebody decodes it.                                    *)
(*                                                                         *)
(* A text is a sequence of characters: 0 to 9 are the digits, 10 is '+',   *)
(* the others are letters.  The two names of kinds are one letter each.    *)
(***************************************************************************)
EXTENDS SequencesExt, Options

CONSTANTS
    Envelopes,  \* the envelopes that are stamped
    Texts,      \* what others write into the map
    MaxChanges  \* bound: changes after the stamp

VARIABLES
    envelope,   \* the FrameMetadata that was stamped
    map,        \* the entry's map: a function on a set of names
    touched     \* history: names changed since

vars == <<envelope, map, touched>>

Plus == 10
as_str(kind) == IF kind = "DemotedMessage" THEN <<11>> ELSE <<12>>
Kinds == {"DemotedMessage", "CompactionSummary"}

TextFields == {"conversation_id", "chat_role", "dedup_key"}
FieldNames == TextFields \cup {"schema_version", "kind", "scope"}
ForeignNames == {"uri"}

-----------------------------------------------------------------------------
(* u8::to_string                                                           *)
decimal(n) ==
    IF n < 10 THEN <<n>>
    ELSE IF n < 100 THEN <<n \div 10, n % 10>>
    ELSE <<n \div 100, (n \div 10) % 10, n % 10>>

(* str::parse::<u8>: the decimal form of a number up to 255, and what      *)
(* differs from it by leading zeros and one plus; everything else is Err.  *)
parse_u8(text) ==
    LET digits == IF text # << >> /\ text[1] = Plus THEN Tail(text) ELSE text
    IN  { n \in 0..255 :
            \E zeros \in 0..Len(digits) : digits = [i \in 1..zeros |-> 0] \o decimal(n) }

into_map(m) ==
    LET names == FieldNames \ (IF m.scope = None THEN {"scope"} ELSE {})
    IN  [name \in names |->
            CASE name = "schema_version" -> decimal(m.schema_version)
              [] name = "kind"           -> as_str(m.kind)
              [] name = "scope"          -> CHOOSE text \in m.scope : TRUE
              [] OTHER                   -> m[name]]

(* Mutant: any text that is a number becomes one, whatever its name.       *)
numbers_all(dict) == { name \in DOMAIN dict : parse_u8(dict[name]) # None }

(* The names whose texts become JSON numbers.                              *)
numbers(dict) ==
    { name \in DOMAIN dict \cap {"schema_version"} : parse_u8(dict[name]) # None }

(* serde wants a number for the version, texts for the other fields and    *)
(* every field but scope, and ignores other names.  Err is None.           *)
try_from_map(dict) ==
    IF \/ ~ FieldNames \ {"scope"} \subseteq DOMAIN dict
       \/ numbers(dict) \cap FieldNames # {"schema_version"}
    THEN None
    ELSE { [schema_version  |-> CHOOSE n \in parse_u8(dict["schema_version"]) : TRUE,
            kind            |-> kind,
            conversation_id |-> dict["conversation_id"],
            chat_role       |-> dict["chat_role"],
            dedup_key       |-> dict["dedup_key"],
            scope           |-> IF "scope" \in DOMAIN dict
                                THEN Some(dict["scope"]) ELSE None] :
           kind \in { x \in Kinds : as_str(x) = dict["kind"] } }

-----------------------------------------------------------------------------
Init ==
    /\ envelope \in Envelopes
    /\ map = into_map(envelope)
    /\ touched = {}

Put(name, text) ==
    /\ Cardinality(touched \cup {name}) <= MaxChanges
    /\ map' = [n \in DOMAIN map \cup {name} |-> IF n = name THEN text ELSE map[n]]
    /\ touched' = touched \cup {name}
    /\ UNCHANGED envelope

Strip(name) ==
    /\ name \in DOMAIN map
    /\ Cardinality(touched \cup {name}) <= MaxChanges
    /\ map' = [n \in DOMAIN map \ {name} |-> map[n]]
    /\ touched' = touched \cup {name}
    /\ UNCHANGED envelope

Next ==
    \/ \E name \in FieldNames \cup ForeignNames, text \in Texts : Put(name, text)
    \/ \E name \in FieldNames \cup ForeignNames : Strip(name)

Spec == Init /\ [][Next]_vars

-----------------------------------------------------------------------------
(* The envelope survives in a map that others use too: names of other      *)
(* tools do not disturb it, and after a change to a field the map decodes  *)
(* to an envelope with that change and no other, or not at all; written    *)
(* back it is the same map, but for the spelling of the version            *)
(* (src/metadata.rs:56-89).                                                *)
EnvelopeSurvives ==
    LET decoded == try_from_map(map)
    IN  /\ touched \cap FieldNames = {} => decoded = Some(envelope)
        /\ \A m \in decoded :
              /\ \A name \in FieldNames \ touched : m[name] = envelope[name]
              /\ DOMAIN into_map(m) = DOMAIN map \ ForeignNames
              /\ \A name \in DOMAIN into_map(m) \ {"schema_version"} :
                    into_map(m)[name] = map[name]
              /\ try_from_map(into_map(m)) = decoded
=============================================================================
