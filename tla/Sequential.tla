------------------------------- MODULE Sequential -------------------------------
(***************************************************************************)
(* The parts of the crate that run to their end in one call, each on all   *)
(* the inputs its module types in.  They do not interact: a behaviour runs *)
(* one of them.  The variables of the others are Off, or in their only     *)
(* initial state if their module is extended.                              *)
(***************************************************************************)
EXTENDS DedupKey, ScopePairs

CONSTANTS
    Off,                                            \* variables of a part that does not run
    Bytes, KeyLen,                                  \* HexCodec
    Strings, Envelopes, Writes, MaxChanges,         \* FrameMap
    Items, Ks, MaxLists, MaxItems, Unit,            \* Fusion
    Tokens, NoWord, Bits, Hash(_), MaxTokens,       \* SimHash
    Backends                                        \* Conformance

VARIABLES
    part,
    text,                                                   \* HexCodec
    envelope, map, touched,                                 \* FrameMap
    k, lists, order, scores,                                \* Fusion
    left, right,                                            \* SimHash
    backend, step, ids, pending, committed, verdict         \* Conformance

frameVars == <<envelope, map, touched>>
fusionVars == <<k, lists, order, scores>>
simVars == <<left, right>>
confVars == <<backend, step, ids, pending, committed, verdict>>
vars == <<part, scopeVars, offered, text, frameVars, fusionVars, simVars, confVars>>

-----------------------------------------------------------------------------
HexPart == INSTANCE HexCodec
FramePart == INSTANCE FrameMap WITH Texts <- Writes
FusionPart == INSTANCE Fusion
SimPart == INSTANCE SimHash
ConfPart == INSTANCE Conformance

(* Bytes are numbers, and the fields of an envelope are texts.             *)
ASSUME HexAssumption == KeyLen \in Nat /\ Bytes \subseteq Nat

AllEnvelopes(T) ==
    [schema_version : 0..255, kind : FramePart!Kinds, conversation_id : T,
     chat_role : T, dedup_key : T, scope : {None} \cup { Some(t) : t \in T }]

ASSUME EnvelopeAssumption == Envelopes \subseteq AllEnvelopes(Strings)

(* What a backend may do.                                                  *)
AllBackends ==
    [ids : {"counter", "position", "constant"}, commit : {"flushes", "drops"},
     delete : {"removes", "ignores"}, fails : 0..5]

ASSUME BackendAssumption == Backends \subseteq AllBackends

(* Every 1/(k + rank) is a whole number of units.                          *)
ASSUME FusionAssumption ==
    /\ Ks \subseteq Nat \ {0} /\ MaxLists \in Nat /\ MaxItems \in Nat /\ Unit \in Nat \ {0}
    /\ \A kk \in Ks, rank \in 0..MaxItems - 1 : Unit % (kk + rank) = 0

ASSUME BitsAssumption == IsFiniteSet(Bits)

-----------------------------------------------------------------------------
PartsInit ==
    /\ part \in {"scopes", "keys", "hex", "frames", "fusion", "simhash", "conformance"}
    /\ ScopeInit
    /\ Init
    /\ IF part = "hex" THEN HexPart!Init ELSE text = Off
    /\ IF part = "frames" THEN FramePart!Init
       ELSE envelope = Off /\ map = Off /\ touched = Off
    /\ IF part = "fusion" THEN FusionPart!Init
       ELSE k = Off /\ lists = Off /\ order = Off /\ scores = Off
    /\ IF part = "simhash" THEN SimPart!Init
       ELSE left = Off /\ right = Off
    /\ IF part = "conformance" THEN ConfPart!Init
       ELSE /\ backend = Off /\ step = Off /\ ids = Off
            /\ pending = Off /\ committed = Off /\ verdict = Off

ScopesStep ==
    /\ part = "scopes" /\ ScopeNext
    /\ UNCHANGED <<part, offered, text, frameVars, fusionVars, simVars, confVars>>

KeysStep ==
    /\ part = "keys" /\ Next
    /\ UNCHANGED <<part, scopeVars, text, frameVars, fusionVars, simVars, confVars>>

HexStep ==
    /\ part = "hex" /\ HexPart!TypeByte
    /\ UNCHANGED <<part, scopeVars, offered, frameVars, fusionVars, simVars, confVars>>

FramesStep ==
    /\ part = "frames" /\ FramePart!Next
    /\ UNCHANGED <<part, scopeVars, offered, text, fusionVars, simVars, confVars>>

FusionStep ==
    /\ part = "fusion" /\ FusionPart!Next
    /\ UNCHANGED <<part, scopeVars, offered, text, frameVars, simVars, confVars>>

SimStep ==
    /\ part = "simhash" /\ SimPart!Next
    /\ UNCHANGED <<part, scopeVars, offered, text, frameVars, fusionVars, confVars>>

ConformanceStep ==
    /\ part = "conformance" /\ ConfPart!Next
    /\ UNCHANGED <<part, scopeVars, offered, text, frameVars, fusionVars, simVars>>

PartsNext ==
    \/ ScopesStep \/ KeysStep \/ HexStep \/ FramesStep
    \/ FusionStep \/ SimStep \/ ConformanceStep

PartsSpec == PartsInit /\ [][PartsNext]_vars

-----------------------------------------------------------------------------
(* The invariants of the modules, each stated and explained there, of the  *)
(* part that runs; those of ScopePairs and DedupKey are their own.         *)

(* See HexCodec: the hex form is a bijection (src/dedup.rs:138-188).       *)
HexRoundTrip == part = "hex" => HexPart!HexRoundTrip

(* See FrameMap: the envelope survives in the map (src/metadata.rs:56-89). *)
EnvelopeSurvives == part = "frames" => FramePart!EnvelopeSurvives

(* See Fusion: items come out by their sums (src/fusion.rs:60-91).         *)
FusionIsBySums == part = "fusion" => FusionPart!FusionIsBySums

(* See Fusion: agreement outranks a single place (src/fusion.rs:125).      *)
AgreementOutranks == part = "fusion" => FusionPart!AgreementOutranks

(* See SimHash: a bit is what most words have (src/dedup.rs:228-257).      *)
FingerprintIsMajority == part = "simhash" => SimPart!FingerprintIsMajority

(* See SimHash: a joined text is between its parts (src/dedup.rs:228-257). *)
JoinedTextIsBetween == part = "simhash" => SimPart!JoinedTextIsBetween

(* See Conformance: what the verdict tells (src/conformance.rs:13-44).     *)
VerdictIsSound == part = "conformance" => ConfPart!VerdictIsSound
=============================================================================
