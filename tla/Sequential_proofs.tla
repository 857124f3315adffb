---------------------------- MODULE Sequential_proofs ----------------------------
(***************************************************************************)
(* Theorems about the parts of the crate that run to their end in one      *)
(* call, on inputs of any length: each says that the part's property is an *)
(* invariant of PartsSpec.  The inductive invariant of a part speaks of    *)
(* nothing else, so that the steps of the other parts keep it.             *)
(***************************************************************************)
EXTENDS Sequential, SequenceTheorems, OrderTheorems, TLAPS

-----------------------------------------------------------------------------
(* A digit has one value, and the value is written in lower case           *)
(* (src/dedup.rs:159-188).                                                 *)
LEMMA DigitHasValue ==
    ASSUME NEW b \in HexPart!Digits
    PROVE  LET n == HexPart!Nibble(b)
               lower == IF b \in 65..70 THEN b + 32 ELSE b
           IN  /\ n \in 0..15
               /\ HexPart!nibble(b) = {n}
               /\ HexPart!nibble_to_hex(n) = lower
               /\ lower \in HexPart!Digits
               /\ HexPart!Nibble(lower) = n
<1> DEFINE n == HexPart!Nibble(b)
           lower == IF b \in 65..70 THEN b + 32 ELSE b
<1>1. ASSUME NEW d, NEW v, HexPart!nibble(d) = {v}
      PROVE  HexPart!Nibble(d) = v
  BY <1>1 DEF HexPart!Nibble
<1>2. CASE b \in 48..57
  <2>1. HexPart!nibble(b) = {b - 48}
    BY <1>2 DEF HexPart!nibble, HexPart!Some
  <2>2. n = b - 48
    BY <1>1, <2>1
  <2>3. lower = b
    BY <1>2
  <2> QED
    BY <1>2, <2>1, <2>2, <2>3 DEF HexPart!nibble_to_hex
<1>3. CASE b \in 97..102
  <2>1. HexPart!nibble(b) = {b - 97 + 10}
    BY <1>3 DEF HexPart!nibble, HexPart!Some
  <2>2. n = b - 97 + 10 /\ lower = b
    BY <1>1, <1>3, <2>1
  <2> QED
    BY <1>3, <2>1, <2>2 DEF HexPart!nibble_to_hex
<1>4. CASE b \in 65..70
  <2>1. HexPart!nibble(b) = {b - 65 + 10}
    BY <1>4 DEF HexPart!nibble, HexPart!Some
  <2>2. n = b - 65 + 10 /\ lower = b + 32
    BY <1>1, <1>4, <2>1
  <2>3. HexPart!nibble(lower) = {lower - 97 + 10}
    BY <1>4 DEF HexPart!nibble, HexPart!Some
  <2>4. HexPart!Nibble(lower) = n
    BY <1>1, <1>4, <2>2, <2>3
  <2> QED
    BY <1>4, <2>1, <2>2, <2>4 DEF HexPart!nibble_to_hex, HexPart!Digits
<1> QED
  BY <1>2, <1>3, <1>4 DEF HexPart!Digits

(* What is no digit has no value.                                          *)
LEMMA OnlyDigitsHaveValues ==
    ASSUME NEW b \in Nat
    PROVE  HexPart!nibble(b) = HexPart!None <=> b \notin HexPart!Digits
<1>1. CASE b \in HexPart!Digits
  BY <1>1, DigitHasValue DEF HexPart!None
<1>2. CASE b \notin HexPart!Digits
  BY <1>2 DEF HexPart!nibble, HexPart!None, HexPart!Digits
<1> QED
  BY <1>1, <1>2

(* A text of digits decodes pair by pair.                                  *)
LEMMA DecodeOfDigits ==
    ASSUME KeyLen \in Nat, NEW hex \in Seq(HexPart!Digits), Len(hex) = 2 * KeyLen
    PROVE  HexPart!hex_decode(hex) =
             {[i \in 1..KeyLen |-> HexPart!Nibble(hex[2 * i - 1]) * 16 + HexPart!Nibble(hex[2 * i])]}
<1>1. DOMAIN hex = 1..Len(hex) /\ \A i \in 1..Len(hex) : hex[i] \in HexPart!Digits
  BY LenProperties, ElementOfSeq
<1>2. \A i \in DOMAIN hex : HexPart!nibble(hex[i]) # HexPart!None
  BY <1>1, DigitHasValue DEF HexPart!None
<1> QED
  BY <1>2 DEF HexPart!hex_decode, HexPart!Some

(* A key is written as the text it was read from, in lower case; what is   *)
(* no text of a key is refused (src/dedup.rs:138-188).                     *)
LEMMA TextRoundTrip ==
    ASSUME KeyLen \in Nat, text \in Seq(Nat)
    PROVE  HexPart!HexRoundTrip
<1>1. DOMAIN text = 1..Len(text) /\ Len(text) \in Nat /\ \A i \in 1..Len(text) : text[i] \in Nat
  BY LenProperties, ElementOfSeq
<1>2. CASE Len(text) = 2 * KeyLen /\ \A i \in DOMAIN text : text[i] \in HexPart!Digits
  <2> DEFINE n == 2 * KeyLen
             val == [i \in 1..n |-> HexPart!Nibble(text[i])]
             key == [i \in 1..KeyLen |-> val[2 * i - 1] * 16 + val[2 * i]]
             lower == HexPart!Lower(text)
  <2>1. text \in [1..n -> HexPart!Digits] /\ text \in Seq(HexPart!Digits)
    BY <1>1, <1>2
  <2>2. /\ \A i \in 1..n : val[i] \in 0..15 /\ HexPart!nibble_to_hex(val[i]) = lower[i]
        /\ \A i \in 1..n : lower[i] \in HexPart!Digits /\ HexPart!Nibble(lower[i]) = val[i]
    BY <1>1, <1>2, DigitHasValue DEF HexPart!Lower
  <2>3. \A i \in 1..KeyLen : 2 * i - 1 \in 1..n /\ 2 * i \in 1..n
    OBVIOUS
  <2>4. HexPart!hex_decode(text) = {key}
    <3>1. HexPart!hex_decode(text) =
            {[i \in 1..KeyLen |-> HexPart!Nibble(text[2 * i - 1]) * 16 + HexPart!Nibble(text[2 * i])]}
      BY <1>2, <2>1, DecodeOfDigits
    <3> QED
      BY <2>3, <3>1
  <2>5. lower \in [1..n -> HexPart!Digits]
    <3>1. lower = [i \in 1..n |-> lower[i]]
      BY <1>1, <1>2 DEF HexPart!Lower
    <3> HIDE DEF lower
    <3> QED
      BY <2>2, <3>1
  <2>6. lower \in Seq(HexPart!Digits) /\ Len(lower) = n
    <3> HIDE DEF lower
    <3> QED
      BY <2>5
  <2>7. HexPart!hex_decode(lower) = {key}
    <3>1. HexPart!hex_decode(lower) =
            {[i \in 1..KeyLen |-> HexPart!Nibble(lower[2 * i - 1]) * 16 + HexPart!Nibble(lower[2 * i])]}
      BY <2>6, DecodeOfDigits
    <3>2. \A i \in 1..KeyLen : /\ HexPart!Nibble(lower[2 * i - 1]) = val[2 * i - 1]
                               /\ HexPart!Nibble(lower[2 * i]) = val[2 * i]
      BY <2>2, <2>3
    <3> HIDE DEF lower, val
    <3> QED
      BY <3>1, <3>2
  <2>8. HexPart!hex_encode(key) = lower
    <3> DEFINE digit(i) == IF i % 2 = 1 THEN key[(i + 1) \div 2] \div 16
                           ELSE key[(i + 1) \div 2] % 16
    <3>1. ASSUME NEW i \in 1..n
          PROVE  digit(i) = val[i]
      <4> DEFINE p == (i + 1) \div 2
      <4>1. p \in 1..KeyLen
        OBVIOUS
      <4>2. (i % 2 = 1 /\ i = 2 * p - 1) \/ (i % 2 = 0 /\ i = 2 * p)
        OBVIOUS
      <4>3. key[p] = val[2 * p - 1] * 16 + val[2 * p]
        BY <4>1
      <4>4. val[2 * p - 1] \in 0..15 /\ val[2 * p] \in 0..15
        BY <2>2, <2>3, <4>1
      <4> HIDE DEF p, val, key
      <4>5. key[p] \div 16 = val[2 * p - 1] /\ key[p] % 16 = val[2 * p]
        <5>1. \A a, b \in 0..15 : (a * 16 + b) \div 16 = a /\ (a * 16 + b) % 16 = b
          OBVIOUS
        <5>2. /\ (val[2 * p - 1] * 16 + val[2 * p]) \div 16 = val[2 * p - 1]
              /\ (val[2 * p - 1] * 16 + val[2 * p]) % 16 = val[2 * p]
          BY <4>4, <5>1, Zenon
        <5> QED
          BY <4>3, <5>2, Zenon
      <4>6. CASE i % 2 = 1 /\ i = 2 * p - 1
        <5>1. digit(i) = key[p] \div 16
          BY <4>6 DEF p
        <5> QED
          BY <4>5, <4>6, <5>1
      <4>7. CASE i % 2 = 0 /\ i = 2 * p
        <5>1. digit(i) = key[p] % 16
          BY <4>7 DEF p
        <5> QED
          BY <4>5, <4>7, <5>1
      <4> QED
        BY <4>2, <4>6, <4>7
    <3>2. HexPart!hex_encode(key) = [i \in 1..n |-> HexPart!nibble_to_hex(digit(i))]
      <4> HIDE DEF key
      <4> QED
        BY DEF HexPart!hex_encode
    <3>3. lower = [i \in 1..n |-> lower[i]]
      BY <2>5
    <3> HIDE DEF digit, lower, val
    <3> QED
      BY <2>2, <3>1, <3>2, <3>3
  <2> HIDE DEF key
  <2> QED
    BY <1>2, <2>4, <2>7, <2>8 DEF HexPart!HexRoundTrip, HexPart!Some
<1>3. CASE ~(Len(text) = 2 * KeyLen /\ \A i \in DOMAIN text : text[i] \in HexPart!Digits)
  <2>1. Len(text) # 2 * KeyLen \/ \E i \in DOMAIN text : HexPart!nibble(text[i]) = HexPart!None
    <3>1. \A i \in DOMAIN text :
             HexPart!nibble(text[i]) = HexPart!None <=> text[i] \notin HexPart!Digits
      BY <1>1, OnlyDigitsHaveValues
    <3> QED
      BY <1>3, <3>1
  <2>2. HexPart!hex_decode(text) = HexPart!None
    BY <2>1 DEF HexPart!hex_decode
  <2> QED
    BY <1>3, <2>2, Zenon DEF HexPart!HexRoundTrip
<1> QED
  BY <1>2, <1>3

(* The hex form is a bijection between keys and lower-case texts, for keys *)
(* of any length and texts of any bytes (src/dedup.rs:138-188).            *)
THEOREM HexFormIsFaithful == PartsSpec => []HexRoundTrip
<1> DEFINE HexInv == part = "hex" => text \in Seq(Nat)
<1>1. PartsInit => HexInv
  BY EmptySeq DEF PartsInit, HexPart!Init
<1>2. HexInv /\ [PartsNext]_vars => HexInv'
  <2> SUFFICES ASSUME HexInv, [PartsNext]_vars
               PROVE  HexInv'
    OBVIOUS
  <2>1. CASE HexStep
    BY <2>1, HexAssumption, AppendProperties DEF HexStep, HexPart!TypeByte
  <2>2. CASE UNCHANGED <<part, text>>
    BY <2>2
  <2> QED
    BY <2>1, <2>2 DEF PartsNext, ScopesStep, KeysStep, FramesStep, FusionStep, SimStep,
       ConformanceStep, vars
<1>3. HexInv => HexRoundTrip
  BY HexAssumption, TextRoundTrip DEF HexRoundTrip
<1> QED
  BY <1>1, <1>2, <1>3, PTL DEF PartsSpec

-----------------------------------------------------------------------------
Entry(id, record) == [id |-> id, record |-> record]

(* Where verify_backend stands before each of its five calls               *)
(* (src/conformance.rs:22-43).                                             *)
BeforeCall ==
    /\ step \in 1..5
    /\ backend.fails = 0 \/ backend.fails >= step
    /\ step = 1 => ids = << >> /\ pending = << >> /\ committed = << >>
    /\ step = 2 => ids = <<0>> /\ pending = <<Entry(0, 1)>> /\ committed = << >>
    /\ step = 3 => ids = <<0, 1>> /\ pending = <<Entry(0, 1), Entry(1, 2)>> /\ committed = << >>
    /\ step = 4 => /\ ids = <<0, 1>> /\ pending = << >>
                   /\ backend.commit = "flushes" => committed = <<Entry(0, 1), Entry(1, 2)>>
    /\ step = 5 => /\ pending = << >>
                   /\ backend.commit = "flushes" /\ backend.delete = "removes"
                        => committed = <<Entry(1, 2)>>
    /\ step \in 3..5 => backend.ids # "constant"

(* The inductive invariant: a verdict is kept once given.                  *)
ConfInv ==
    /\ backend \in AllBackends
    /\ verdict \in {"running", "ok", "panicked", "err"}
    /\ verdict = "running" => BeforeCall
    /\ ConfPart!VerdictIsSound

(* Appending to a sequence of one.                                         *)
LEMMA AppendToOne ==
    ASSUME NEW a, NEW b
    PROVE  Append(<<a>>, b) = <<a, b>>
<1> DEFINE S == {a, b}
<1>1. <<a>> \in Seq(S) /\ <<a, b>> \in Seq(S) /\ Len(<<a>>) = 1 /\ Len(<<a, b>>) = 2
  OBVIOUS
<1>2. /\ Append(<<a>>, b) \in Seq(S) /\ Len(Append(<<a>>, b)) = 2
      /\ \A i \in 1..Len(<<a>>) : Append(<<a>>, b)[i] = <<a>>[i]
      /\ Append(<<a>>, b)[2] = b
  BY <1>1, AppendProperties
<1>3. \A i \in 1..2 : Append(<<a>>, b)[i] = <<a, b>>[i]
  BY <1>1, <1>2
<1> HIDE DEF S
<1> QED
  BY <1>1, <1>2, <1>3, SeqEqual

(* Deleting by the first id leaves the second entry                        *)
(* (src/conformance.rs:37-38).                                             *)
LEMMA DeleteLeavesSecond ==
    LET both == <<Entry(0, 1), Entry(1, 2)>>
    IN  ElementsAt(both, { i \in DOMAIN both : both[i].id # 0 }) = <<Entry(1, 2)>>
<1> DEFINE both == <<Entry(0, 1), Entry(1, 2)>>
           kept == { i \in DOMAIN both : both[i].id # 0 }
<1>1. kept = {2}
  BY DEF Entry
<1>2. Cardinality({2}) = 1
  BY FS_Singleton
<1>3. NthPlace({2}, 1) = 2
  <2>1. { j \in {2} : j < 2 } = {}
    OBVIOUS
  <2>2. Cardinality({ j \in {2} : j < 2 }) = 1 - 1
    BY <2>1, FS_EmptySet
  <2>3. NthPlace({2}, 1) \in {2}
    BY <2>2 DEF NthPlace
  <2> QED
    BY <2>3
<1>4. ElementsAt(both, kept) = [n \in 1..1 |-> Entry(1, 2)]
  <2>1. both[2] = Entry(1, 2)
    OBVIOUS
  <2> HIDE DEF both, kept
  <2>2. \A n \in 1..1 : NthPlace({2}, n) = 2
    BY <1>3
  <2> QED
    BY <1>1, <1>2, <2>1, <2>2 DEF ElementsAt
<1>5. [n \in 1..1 |-> Entry(1, 2)] = <<Entry(1, 2)>>
  OBVIOUS
<1> QED
  BY <1>4, <1>5

(* Every call of the harness keeps it (src/conformance.rs:22-43).          *)
LEMMA ConfStep == ConfInv /\ [ConfPart!Next]_ConfPart!vars => ConfInv'
<1> SUFFICES ASSUME ConfInv, [ConfPart!Next]_ConfPart!vars
             PROVE  ConfInv'
  OBVIOUS
<1>1. CASE ConfPart!Write
  <2>1. /\ verdict = "running" /\ BeforeCall /\ step \in {1, 2} /\ backend.fails # step
        /\ backend' = backend /\ committed' = committed /\ step' = step + 1
        /\ backend \in AllBackends
    BY <1>1 DEF ConfPart!Write, ConfPart!At, ConfInv
  <2>2. CASE step = 1
    <3>1. ConfPart!NextId = 0
      BY <2>1, <2>2 DEF ConfPart!NextId, BeforeCall
    <3>2. ids' = <<0>> /\ pending' = <<Entry(0, 1)>> /\ verdict' = "running"
      BY <1>1, <2>1, <2>2, <3>1 DEF ConfPart!Write, BeforeCall, Entry
    <3>3. BeforeCall'
      BY <2>1, <2>2, <3>2 DEF BeforeCall, AllBackends
    <3> QED
      BY <2>1, <3>2, <3>3 DEF ConfInv, ConfPart!VerdictIsSound
  <2>3. CASE step = 2 /\ backend.ids = "constant"
    <3>1. ConfPart!NextId = 0 /\ ids = <<0>>
      BY <2>1, <2>3 DEF ConfPart!NextId, BeforeCall
    <3>2. ids' = <<0, 0>> /\ verdict' = "panicked"
      <4>1. ids' = Append(<<0>>, 0)
        BY <1>1, <3>1 DEF ConfPart!Write
      <4>2. ids' = <<0, 0>>
        BY <4>1, AppendToOne
      <4>3. ids'[1] = ids'[2]
        BY <4>2
      <4> QED
        BY <1>1, <2>3, <4>2, <4>3 DEF ConfPart!Write
    <3> QED
      BY <2>1, <2>3, <3>2 DEF ConfInv, ConfPart!VerdictIsSound
  <2>4. CASE step = 2 /\ backend.ids # "constant"
    <3>1. ids = <<0>> /\ pending = <<Entry(0, 1)>>
      BY <2>1, <2>4 DEF BeforeCall
    <3>2. ConfPart!NextId = 1
      <4>1. Len(ids) = 1 /\ Len(pending) = 1
        BY <3>1
      <4> QED
        BY <2>1, <2>4, <4>1 DEF ConfPart!NextId, AllBackends
    <3>3. ids' = <<0, 1>> /\ pending' = <<Entry(0, 1), Entry(1, 2)>> /\ verdict' = "running"
      <4>1. ids' = Append(<<0>>, 1) /\ pending' = Append(<<Entry(0, 1)>>, Entry(1, 2))
        BY <1>1, <2>4, <3>1, <3>2 DEF ConfPart!Write, Entry
      <4>2. ids' = <<0, 1>>
        BY <4>1, AppendToOne
      <4>3. pending' = <<Entry(0, 1), Entry(1, 2)>>
        BY <4>1, AppendToOne
      <4>4. ids'[1] # ids'[2]
        BY <4>2
      <4> QED
        BY <1>1, <2>1, <4>2, <4>3, <4>4 DEF ConfPart!Write
    <3>4. BeforeCall'
      BY <2>1, <2>4, <3>3 DEF BeforeCall, AllBackends
    <3> QED
      BY <2>1, <3>3, <3>4 DEF ConfInv, ConfPart!VerdictIsSound
  <2> QED
    BY <2>1, <2>2, <2>3, <2>4
<1>2. CASE ConfPart!CommitCall
  <2>1. /\ verdict = "running" /\ BeforeCall /\ step \in {3, 5} /\ backend.fails # step
        /\ UNCHANGED <<backend, ids>> /\ pending' = << >> /\ step' = step + 1
        /\ committed' = IF backend.commit = "flushes" THEN committed \o pending ELSE committed
        /\ verdict' = IF step = 5 THEN "ok" ELSE verdict
        /\ backend \in AllBackends
    BY <1>2 DEF ConfPart!CommitCall, ConfPart!At, ConfInv
  <2>2. CASE step = 3
    <3>1. /\ pending = <<Entry(0, 1), Entry(1, 2)>> /\ committed = << >>
          /\ ids' = <<0, 1>> /\ backend.ids # "constant" /\ verdict' = "running"
      BY <2>1, <2>2 DEF BeforeCall
    <3>2. backend'.commit = "flushes" => committed' = <<Entry(0, 1), Entry(1, 2)>>
      BY <2>1, <3>1
    <3>3. BeforeCall'
      BY <2>1, <2>2, <3>1, <3>2 DEF BeforeCall, AllBackends
    <3> QED
      BY <2>1, <3>1, <3>3 DEF ConfInv, ConfPart!VerdictIsSound
  <2>3. CASE step = 5
    <3>1. backend.fails = 0 /\ backend.ids # "constant" /\ pending = << >> /\ verdict' = "ok"
      BY <2>1, <2>3 DEF BeforeCall, AllBackends
    <3>2. ASSUME backend.commit = "flushes", backend.delete = "removes"
          PROVE  committed' = <<Entry(1, 2)>>
      <4>1. committed = <<Entry(1, 2)>>
        BY <2>1, <2>3, <3>2 DEF BeforeCall
      <4> QED
        BY <2>1, <3>1, <3>2, <4>1
    <3>3. Len(<<Entry(1, 2)>>) = 1 /\ <<Entry(1, 2)>>[1].record = 2
      BY DEF Entry
    <3>4. ConfPart!VerdictIsSound'
      BY <2>1, <3>1, <3>2, <3>3 DEF ConfPart!VerdictIsSound
    <3> QED
      BY <2>1, <3>1, <3>4 DEF ConfInv
  <2> QED
    BY <2>1, <2>2, <2>3
<1>3. CASE ConfPart!DeleteCall
  <2>1. /\ verdict = "running" /\ BeforeCall /\ step = 4 /\ backend.fails # step
        /\ UNCHANGED <<backend, ids, pending, verdict>> /\ step' = step + 1
        /\ backend \in AllBackends
    BY <1>3 DEF ConfPart!DeleteCall, ConfPart!At, ConfInv
  <2>2. ids[1] = 0 /\ pending = << >> /\ backend.ids # "constant"
    BY <2>1 DEF BeforeCall
  <2>3. ASSUME backend.commit = "flushes", backend.delete = "removes"
        PROVE  committed' = <<Entry(1, 2)>>
    <3>1. committed = <<Entry(0, 1), Entry(1, 2)>>
      BY <2>1, <2>3 DEF BeforeCall
    <3>2. committed' = ElementsAt(committed, { i \in DOMAIN committed : committed[i].id # 0 })
      <4>1. committed' = ConfPart!ElementsAt(committed,
                            { i \in DOMAIN committed : committed[i].id # 0 })
        BY <1>3, <2>2, <2>3 DEF ConfPart!DeleteCall
      <4>2. \A s, places : ConfPart!ElementsAt(s, places) = ElementsAt(s, places)
        BY DEF ConfPart!ElementsAt, ConfPart!NthPlace, ElementsAt, NthPlace,
           ConfPart!Cardinality, Cardinality
      <4> QED
        BY <4>1, <4>2
    <3> QED
      BY <3>1, <3>2, DeleteLeavesSecond, Zenon
  <2>4. BeforeCall'
    BY <2>1, <2>2, <2>3 DEF BeforeCall, AllBackends
  <2> QED
    BY <2>1, <2>4 DEF ConfInv, ConfPart!VerdictIsSound
<1>4. CASE ConfPart!CallFails
  <2>1. /\ verdict = "running" /\ BeforeCall /\ backend.fails = step
        /\ verdict' = "err" /\ backend' = backend /\ backend \in AllBackends
    BY <1>4 DEF ConfPart!CallFails, ConfInv
  <2>2. backend'.fails # 0
    BY <2>1 DEF BeforeCall
  <2> QED
    BY <2>1, <2>2 DEF ConfInv, ConfPart!VerdictIsSound
<1>5. CASE UNCHANGED ConfPart!vars
  BY <1>5 DEF ConfInv, ConfPart!VerdictIsSound, ConfPart!vars, BeforeCall
<1> QED
  BY <1>1, <1>2, <1>3, <1>4, <1>5 DEF ConfPart!Next

(* The verdict on any backend tells what it tells: Ok, that no call failed *)
(* and the ids differ, and that an honest backend is left with the second  *)
(* record alone (src/conformance.rs:13-44).                                *)
THEOREM VerdictsAreSound == PartsSpec => []VerdictIsSound
<1> DEFINE Inv == part = "conformance" => ConfInv
<1>1. PartsInit => Inv
  BY BackendAssumption DEF PartsInit, ConfPart!Init, ConfInv, BeforeCall, AllBackends,
     ConfPart!VerdictIsSound
<1>2. Inv /\ [PartsNext]_vars => Inv'
  <2> SUFFICES ASSUME Inv, [PartsNext]_vars
               PROVE  Inv'
    OBVIOUS
  <2>1. CASE ConformanceStep
    BY <2>1, ConfStep DEF ConformanceStep
  <2>2. CASE UNCHANGED <<part, confVars>>
    BY <2>2, ConfStep DEF confVars, ConfPart!vars
  <2> QED
    BY <2>1, <2>2 DEF PartsNext, ScopesStep, KeysStep, HexStep, FramesStep, FusionStep,
       SimStep, vars
<1>3. Inv => VerdictIsSound
  BY DEF ConfInv, VerdictIsSound
<1> QED
  BY <1>1, <1>2, <1>3, PTL DEF PartsSpec

-----------------------------------------------------------------------------
(* The decimal digits of a u8, by length.                                  *)
LEMMA DecimalDigits ==
    ASSUME NEW n \in 0..255
    PROVE  LET d == FramePart!decimal(n)
           IN  /\ d \in Seq(0..9)
               /\ n < 10 => Len(d) = 1 /\ d[1] = n
               /\ n >= 10 /\ n < 100 => Len(d) = 2 /\ d[1] = n \div 10 /\ d[2] = n % 10
               /\ n >= 100 => /\ Len(d) = 3 /\ d[1] = n \div 100
                             /\ d[2] = (n \div 10) % 10 /\ d[3] = n % 10
<1>1. CASE n < 10
  BY <1>1 DEF FramePart!decimal
<1>2. CASE n >= 10 /\ n < 100
  <2>1. FramePart!decimal(n) = <<n \div 10, n % 10>>
    BY <1>2 DEF FramePart!decimal
  <2>2. n \div 10 \in 0..9 /\ n % 10 \in 0..9
    BY <1>2
  <2> QED
    BY <1>2, <2>1, <2>2
<1>3. CASE n >= 100
  <2>1. FramePart!decimal(n) = <<n \div 100, (n \div 10) % 10, n % 10>>
    BY <1>3 DEF FramePart!decimal
  <2>2. n \div 100 \in 0..9 /\ (n \div 10) % 10 \in 0..9 /\ n % 10 \in 0..9
    BY <1>3
  <2> QED
    BY <1>3, <2>1, <2>2
<1> QED
  BY <1>1, <1>2, <1>3

(* A number is known by its digits.                                        *)
LEMMA SameDigits ==
    ASSUME NEW n \in 0..255, NEW m \in 0..255, FramePart!decimal(n) = FramePart!decimal(m)
    PROVE  n = m
<1> DEFINE d == FramePart!decimal(n)
           Spells(x) ==
               /\ x < 10 => Len(d) = 1 /\ d[1] = x
               /\ x >= 10 /\ x < 100 => Len(d) = 2 /\ d[1] = x \div 10 /\ d[2] = x % 10
               /\ x >= 100 => /\ Len(d) = 3 /\ d[1] = x \div 100
                             /\ d[2] = (x \div 10) % 10 /\ d[3] = x % 10
<1>1. Spells(n) /\ Spells(m)
  <2>1. ASSUME NEW x \in 0..255, FramePart!decimal(x) = d
        PROVE  Spells(x)
    <3> HIDE DEF d
    <3> QED
      BY <2>1, DecimalDigits
  <2> QED
    BY <2>1
<1> HIDE DEF d
<1>2. CASE n < 10
  BY <1>1, <1>2
<1>3. CASE n >= 10 /\ n < 100
  <2>1. m >= 10 /\ m < 100
    BY <1>1, <1>3
  <2>2. n \div 10 = m \div 10 /\ n % 10 = m % 10
    BY <1>1, <1>3, <2>1
  <2> QED
    BY <2>2
<1>4. CASE n >= 100
  <2>1. m >= 100
    BY <1>1, <1>4
  <2>2. /\ n \div 100 = m \div 100 /\ (n \div 10) % 10 = (m \div 10) % 10
        /\ n % 10 = m % 10
    BY <1>1, <1>4, <2>1
  <2> HIDE DEF d
  <2> QED
    BY <2>2
<1> QED
  BY <1>2, <1>3, <1>4

(* Leading zeros aside, the digits of a number belong to it alone.         *)
LEMMA DecimalIsUnique ==
    ASSUME NEW n \in 0..255, NEW m \in 0..255, NEW zeros \in Nat,
           FramePart!decimal(n) = [i \in 1..zeros |-> 0] \o FramePart!decimal(m)
    PROVE  n = m
<1> DEFINE d == FramePart!decimal(n)
           e == FramePart!decimal(m)
           z == [i \in 1..zeros |-> 0]
<1>1. /\ d \in Seq(0..9) /\ e \in Seq(0..9) /\ z \in Seq(0..9)
      /\ Len(z) = zeros /\ \A i \in 1..zeros : z[i] = 0
  <2>1. z \in Seq(0..9) /\ Len(z) = zeros /\ \A i \in 1..zeros : z[i] = 0
    OBVIOUS
  <2> QED
    BY <2>1, DecimalDigits
<1>2. /\ Len(d) = zeros + Len(e)
      /\ \A i \in 1..zeros : d[i] = 0
      /\ \A i \in 1..Len(e) : d[zeros + i] = e[i]
  BY <1>1, ConcatProperties
<1>3. /\ n < 10 => Len(d) = 1 /\ d[1] = n
      /\ n >= 10 /\ n < 100 => Len(d) = 2 /\ d[1] = n \div 10 /\ d[2] = n % 10
      /\ n >= 100 => Len(d) = 3 /\ d[1] = n \div 100 /\ d[2] = (n \div 10) % 10 /\ d[3] = n % 10
      /\ m < 10 => Len(e) = 1 /\ e[1] = m
      /\ m >= 10 /\ m < 100 => Len(e) = 2 /\ e[1] = m \div 10 /\ e[2] = m % 10
      /\ m >= 100 => Len(e) = 3 /\ e[1] = m \div 100 /\ e[2] = (m \div 10) % 10 /\ e[3] = m % 10
  BY DecimalDigits
<1> HIDE DEF d, e, z
<1>4. zeros = 0
  <2>1. Len(e) \in 1..3
    BY <1>3
  <2>2. CASE n < 10
    BY <1>2, <1>3, <2>1, <2>2
  <2>3. CASE n >= 10
    <3>1. d[1] # 0
      BY <1>3, <2>3
    <3> QED
      BY <1>2, <3>1
  <2> QED
    BY <2>2, <2>3
<1>5. d = e
  <2>1. z = << >>
    BY <1>4 DEF z
  <2>2. z \o e = e
    BY <1>1, <2>1, ConcatEmptySeq
  <2> QED
    BY <2>2 DEF d, e, z
<1> QED
  BY <1>5, SameDigits DEF d, e

(* A version written is read back as it was (src/metadata.rs:62, 79).      *)
LEMMA VersionRoundTrip ==
    ASSUME NEW n \in 0..255
    PROVE  FramePart!parse_u8(FramePart!decimal(n)) = {n}
<1> DEFINE d == FramePart!decimal(n)
           Reads(m) == \E zeros \in 0..Len(d) :
                          d = [i \in 1..zeros |-> 0] \o FramePart!decimal(m)
<1>1. d \in Seq(0..9) /\ d # << >> /\ Len(d) \in Nat /\ d[1] # FramePart!Plus
  <2>1. d \in Seq(0..9) /\ Len(d) \in 1..3
    <3>1. /\ d \in Seq(0..9)
          /\ n < 10 => Len(d) = 1
          /\ n >= 10 /\ n < 100 => Len(d) = 2
          /\ n >= 100 => Len(d) = 3
      BY DecimalDigits
    <3> HIDE DEF d
    <3> QED
      BY <3>1
  <2> HIDE DEF d
  <2>2. d[1] \in 0..9
    BY <2>1, ElementOfSeq
  <2> QED
    BY <2>1, <2>2, EmptySeq DEF FramePart!Plus
<1>2. FramePart!parse_u8(d) = { m \in 0..255 : Reads(m) }
  BY <1>1 DEF FramePart!parse_u8
<1>3. Reads(n)
  <2>1. [i \in 1..0 |-> 0] = << >>
    OBVIOUS
  <2>2. << >> \o d = d
    BY <1>1, ConcatEmptySeq
  <2>3. 0 \in 0..Len(d)
    BY <1>1
  <2> QED
    BY <2>1, <2>2, <2>3
<1>4. \A m \in 0..255 : Reads(m) => m = n
  <2> SUFFICES ASSUME NEW m \in 0..255, NEW zeros \in 0..Len(d),
                      d = [i \in 1..zeros |-> 0] \o FramePart!decimal(m)
               PROVE  m = n
    OBVIOUS
  <2>1. zeros \in Nat
    BY <1>1
  <2> QED
    BY <2>1, DecimalIsUnique
<1> QED
  BY <1>2, <1>3, <1>4

(* The fields of a map, by name (src/metadata.rs:74-89).                   *)
LEMMA MapOfEnvelope ==
    ASSUME NEW T, NEW m \in AllEnvelopes(T)
    PROVE  LET dict == FramePart!into_map(m)
           IN  /\ DOMAIN dict = FramePart!FieldNames \ (IF m.scope = {} THEN {"scope"} ELSE {})
               /\ dict["schema_version"] = FramePart!decimal(m.schema_version)
               /\ dict["kind"] = FramePart!as_str(m.kind)
               /\ dict["conversation_id"] = m.conversation_id
               /\ dict["chat_role"] = m.chat_role
               /\ dict["dedup_key"] = m.dedup_key
               /\ m.scope # {} => m.scope = {dict["scope"]}
<1> DEFINE dict == FramePart!into_map(m)
<1>1. /\ DOMAIN dict = FramePart!FieldNames \ (IF m.scope = {} THEN {"scope"} ELSE {})
      /\ {"schema_version", "kind", "conversation_id", "chat_role", "dedup_key"} \subseteq DOMAIN dict
      /\ m.scope # {} => "scope" \in DOMAIN dict
  BY DEF FramePart!into_map, FramePart!None, FramePart!FieldNames, FramePart!TextFields
<1>2. /\ dict["schema_version"] = FramePart!decimal(m.schema_version)
      /\ dict["kind"] = FramePart!as_str(m.kind)
      /\ dict["conversation_id"] = m.conversation_id
      /\ dict["chat_role"] = m.chat_role
      /\ dict["dedup_key"] = m.dedup_key
  BY <1>1 DEF FramePart!into_map
<1>3. ASSUME m.scope # {}
      PROVE  m.scope = {dict["scope"]}
  <2>1. dict["scope"] = CHOOSE t \in m.scope : TRUE
    BY <1>1, <1>3 DEF FramePart!into_map
  <2>2. PICK t : m.scope = {t}
    BY <1>3 DEF AllEnvelopes, None, Some
  <2> QED
    BY <2>1, <2>2
<1> QED
  BY <1>1, <1>2, <1>3

(* What decoding needs and gives (src/metadata.rs:54-72).                  *)
Decodable(dict) ==
    /\ FramePart!FieldNames \ {"scope"} \subseteq DOMAIN dict
    /\ FramePart!parse_u8(dict["schema_version"]) # {}

Decodes(dict, m) ==
    /\ Decodable(dict)
    /\ m.schema_version \in FramePart!parse_u8(dict["schema_version"])
    /\ m.kind \in FramePart!Kinds /\ FramePart!as_str(m.kind) = dict["kind"]
    /\ m.conversation_id = dict["conversation_id"]
    /\ m.chat_role = dict["chat_role"]
    /\ m.dedup_key = dict["dedup_key"]
    /\ m.scope = IF "scope" \in DOMAIN dict THEN {dict["scope"]} ELSE {}

(* A map decodes to one envelope at most, and that has its fields.         *)
LEMMA DecodedEnvelope ==
    ASSUME NEW dict, NEW m \in FramePart!try_from_map(dict)
    PROVE  /\ Decodes(dict, m)
           /\ FramePart!try_from_map(dict) = {m}
           /\ \E T : m \in AllEnvelopes(T)
<1> DEFINE version == CHOOSE n \in FramePart!parse_u8(dict["schema_version"]) : TRUE
           envelopeOf(kind) ==
              [schema_version  |-> version,
               kind            |-> kind,
               conversation_id |-> dict["conversation_id"],
               chat_role       |-> dict["chat_role"],
               dedup_key       |-> dict["dedup_key"],
               scope           |-> IF "scope" \in DOMAIN dict THEN {dict["scope"]} ELSE {}]
           kinds == { x \in FramePart!Kinds : FramePart!as_str(x) = dict["kind"] }
<1>1. Decodable(dict)
  BY DEF FramePart!try_from_map, FramePart!numbers, FramePart!None, Decodable,
     FramePart!FieldNames, FramePart!TextFields
<1>2. FramePart!try_from_map(dict) = { envelopeOf(kind) : kind \in kinds }
  BY DEF FramePart!try_from_map, FramePart!None, FramePart!Some
<1>3. version \in FramePart!parse_u8(dict["schema_version"]) /\ version \in 0..255
  <2>1. FramePart!parse_u8(dict["schema_version"]) \subseteq 0..255
    BY DEF FramePart!parse_u8
  <2> QED
    BY <1>1, <2>1 DEF Decodable
<1>4. PICK kind \in kinds : m = envelopeOf(kind)
  BY <1>2
<1>5. \A x \in kinds : x = kind
  BY DEF FramePart!Kinds, FramePart!as_str
<1> HIDE DEF version
<1>6. Decodes(dict, m)
  BY <1>1, <1>3, <1>4 DEF Decodes
<1>7. FramePart!try_from_map(dict) = {m}
  <2> HIDE DEF envelopeOf, kinds
  <2> QED
    BY <1>2, <1>4, <1>5
<1>8. \E T : m \in AllEnvelopes(T)
  <2> DEFINE T == {dict["conversation_id"], dict["chat_role"], dict["dedup_key"], dict["scope"]}
  <2>1. m \in AllEnvelopes(T)
    BY <1>3, <1>4 DEF AllEnvelopes, None, Some
  <2> QED
    BY <2>1
<1> QED
  BY <1>6, <1>7, <1>8

(* An envelope that the fields of a map describe is what it decodes to.    *)
LEMMA DecodesTo ==
    ASSUME NEW T, NEW m \in AllEnvelopes(T), NEW dict,
           \A name \in FramePart!FieldNames :
              /\ name \in DOMAIN dict <=> name \in DOMAIN FramePart!into_map(m)
              /\ name \in DOMAIN dict => dict[name] = FramePart!into_map(m)[name]
    PROVE  FramePart!try_from_map(dict) = {m}
<1> DEFINE fields == FramePart!into_map(m)
<1>1. /\ DOMAIN fields = FramePart!FieldNames \ (IF m.scope = {} THEN {"scope"} ELSE {})
      /\ fields["schema_version"] = FramePart!decimal(m.schema_version)
      /\ fields["kind"] = FramePart!as_str(m.kind)
      /\ fields["conversation_id"] = m.conversation_id
      /\ fields["chat_role"] = m.chat_role
      /\ fields["dedup_key"] = m.dedup_key
      /\ m.scope # {} => m.scope = {fields["scope"]}
  BY MapOfEnvelope
<1> HIDE DEF fields
<1>2. /\ {"schema_version", "kind", "conversation_id", "chat_role", "dedup_key"}
             = FramePart!FieldNames \ {"scope"}
      /\ "scope" \in FramePart!FieldNames /\ "schema_version" \in FramePart!FieldNames
  BY DEF FramePart!FieldNames, FramePart!TextFields
<1>3. /\ FramePart!FieldNames \ {"scope"} \subseteq DOMAIN dict
      /\ dict["schema_version"] = FramePart!decimal(m.schema_version)
      /\ dict["kind"] = FramePart!as_str(m.kind)
      /\ dict["conversation_id"] = m.conversation_id
      /\ dict["chat_role"] = m.chat_role
      /\ dict["dedup_key"] = m.dedup_key
      /\ "scope" \in DOMAIN dict <=> m.scope # {}
      /\ m.scope # {} => m.scope = {dict["scope"]}
  BY <1>1, <1>2 DEF fields
<1>4. m.schema_version \in 0..255 /\ m.kind \in FramePart!Kinds
  BY DEF AllEnvelopes
<1>5. FramePart!parse_u8(dict["schema_version"]) = {m.schema_version}
  BY <1>3, <1>4, VersionRoundTrip
<1> DEFINE decoded ==
              [schema_version  |-> CHOOSE n \in FramePart!parse_u8(dict["schema_version"]) : TRUE,
               kind            |-> m.kind,
               conversation_id |-> dict["conversation_id"],
               chat_role       |-> dict["chat_role"],
               dedup_key       |-> dict["dedup_key"],
               scope           |-> IF "scope" \in DOMAIN dict THEN {dict["scope"]} ELSE {}]
<1>6. FramePart!numbers(dict) \cap FramePart!FieldNames = {"schema_version"}
  BY <1>2, <1>3, <1>5 DEF FramePart!numbers, FramePart!None
<1>7. decoded \in FramePart!try_from_map(dict)
  BY <1>3, <1>4, <1>6 DEF FramePart!try_from_map, FramePart!None, FramePart!Some
<1>8. decoded = m
  <2>1. (CHOOSE n \in FramePart!parse_u8(dict["schema_version"]) : TRUE) = m.schema_version
    BY <1>5
  <2>2. m.scope = IF "scope" \in DOMAIN dict THEN {dict["scope"]} ELSE {}
    BY <1>3
  <2> QED
    BY <1>3, <2>1, <2>2 DEF AllEnvelopes
<1> HIDE DEF decoded
<1> QED
  BY <1>7, <1>8, DecodedEnvelope

(* The inductive invariant: what nobody touched is still what was stamped. *)
FrameInv ==
    /\ envelope \in AllEnvelopes(Strings)
    /\ DOMAIN map \subseteq FramePart!FieldNames \cup FramePart!ForeignNames
    /\ \A name \in FramePart!FieldNames \ touched :
          /\ name \in DOMAIN map <=> name \in DOMAIN FramePart!into_map(envelope)
          /\ name \in DOMAIN map => map[name] = FramePart!into_map(envelope)[name]

(* Other tools change what they touch, and only that.                      *)
LEMMA FrameStep == FrameInv /\ [FramePart!Next]_FramePart!vars => FrameInv'
<1> SUFFICES ASSUME FrameInv, [FramePart!Next]_FramePart!vars
             PROVE  FrameInv'
  OBVIOUS
<1> DEFINE names == FramePart!FieldNames \cup FramePart!ForeignNames
           stamped == FramePart!into_map(envelope)
<1>1. ASSUME NEW name \in names, NEW written, FramePart!Put(name, written)
      PROVE  FrameInv'
  <2>1. /\ map' = [n \in DOMAIN map \cup {name} |-> IF n = name THEN written ELSE map[n]]
        /\ touched' = touched \cup {name} /\ envelope' = envelope
    BY <1>1 DEF FramePart!Put
  <2>2. DOMAIN map' = DOMAIN map \cup {name}
    BY <2>1
  <2>3. \A n \in DOMAIN map : n # name => map'[n] = map[n]
    BY <2>1
  <2>4. FramePart!into_map(envelope)' = FramePart!into_map(envelope)
    BY <2>1 DEF FramePart!into_map
  <2> QED
    BY <2>1, <2>2, <2>3, <2>4 DEF FrameInv, FramePart!FieldNames, FramePart!TextFields,
       FramePart!ForeignNames
<1>2. ASSUME NEW name \in names, FramePart!Strip(name)
      PROVE  FrameInv'
  <2>1. /\ map' = [n \in DOMAIN map \ {name} |-> map[n]]
        /\ touched' = touched \cup {name} /\ envelope' = envelope
    BY <1>2 DEF FramePart!Strip
  <2>2. DOMAIN map' = DOMAIN map \ {name}
    BY <2>1
  <2>3. \A n \in DOMAIN map' : map'[n] = map[n]
    BY <2>1
  <2>4. FramePart!into_map(envelope)' = FramePart!into_map(envelope)
    BY <2>1 DEF FramePart!into_map
  <2> QED
    BY <2>1, <2>2, <2>3, <2>4 DEF FrameInv, FramePart!FieldNames, FramePart!TextFields,
       FramePart!ForeignNames
<1>3. CASE UNCHANGED FramePart!vars
  <2>1. map' = map /\ touched' = touched /\ envelope' = envelope
    BY <1>3 DEF FramePart!vars
  <2>2. FramePart!into_map(envelope)' = FramePart!into_map(envelope)
    BY <2>1 DEF FramePart!into_map
  <2> QED
    BY <2>1, <2>2 DEF FrameInv, FramePart!FieldNames, FramePart!TextFields, FramePart!ForeignNames
<1> QED
  BY <1>1, <1>2, <1>3 DEF FramePart!Next

(* What decodes has the untouched fields, and is written back as the same  *)
(* map (src/metadata.rs:54-89).                                            *)
LEMMA FrameInvSurvives == FrameInv => FramePart!EnvelopeSurvives
<1> SUFFICES ASSUME FrameInv
             PROVE  FramePart!EnvelopeSurvives
  OBVIOUS
<1> DEFINE decoded == FramePart!try_from_map(map)
           stamped == FramePart!into_map(envelope)
<1>1. ASSUME touched \cap FramePart!FieldNames = {}
      PROVE  decoded = {envelope}
  <2>1. envelope \in AllEnvelopes(Strings)
    BY DEF FrameInv
  <2>2. \A name \in FramePart!FieldNames :
           /\ name \in DOMAIN map <=> name \in DOMAIN stamped
           /\ name \in DOMAIN map => map[name] = stamped[name]
    BY <1>1 DEF FrameInv
  <2> HIDE DEF decoded, stamped
  <2> QED
    BY <2>1, <2>2, DecodesTo DEF decoded, stamped
<1>2. ASSUME NEW m \in decoded
      PROVE  /\ \A name \in FramePart!FieldNames \ touched : m[name] = envelope[name]
             /\ DOMAIN FramePart!into_map(m) = DOMAIN map \ FramePart!ForeignNames
             /\ \A name \in DOMAIN FramePart!into_map(m) \ {"schema_version"} :
                   FramePart!into_map(m)[name] = map[name]
             /\ FramePart!try_from_map(FramePart!into_map(m)) = decoded
  <2> DEFINE back == FramePart!into_map(m)
  <2>1. Decodes(map, m) /\ decoded = {m}
    BY DecodedEnvelope
  <2>2. PICK T : m \in AllEnvelopes(T)
    BY DecodedEnvelope
  <2>3. /\ DOMAIN back = FramePart!FieldNames \ (IF m.scope = {} THEN {"scope"} ELSE {})
        /\ back["kind"] = FramePart!as_str(m.kind)
        /\ back["conversation_id"] = m.conversation_id
        /\ back["chat_role"] = m.chat_role
        /\ back["dedup_key"] = m.dedup_key
        /\ m.scope # {} => m.scope = {back["scope"]}
    BY <2>2, MapOfEnvelope
  <2>4. /\ DOMAIN stamped
              = FramePart!FieldNames \ (IF envelope.scope = {} THEN {"scope"} ELSE {})
        /\ stamped["schema_version"] = FramePart!decimal(envelope.schema_version)
        /\ stamped["kind"] = FramePart!as_str(envelope.kind)
        /\ stamped["conversation_id"] = envelope.conversation_id
        /\ stamped["chat_role"] = envelope.chat_role
        /\ stamped["dedup_key"] = envelope.dedup_key
        /\ envelope.scope # {} => envelope.scope = {stamped["scope"]}
    BY MapOfEnvelope DEF FrameInv
  <2>5. FramePart!try_from_map(back) = {m}
    BY <2>2, DecodesTo
  <2> HIDE DEF back, stamped
  <2>6. /\ FramePart!FieldNames = {"schema_version", "kind", "conversation_id", "chat_role",
                                   "dedup_key", "scope"}
        /\ FramePart!ForeignNames = {"uri"}
    BY DEF FramePart!FieldNames, FramePart!TextFields, FramePart!ForeignNames
  <2>7. DOMAIN back = DOMAIN map \ FramePart!ForeignNames
    <3>1. /\ FramePart!FieldNames \ {"scope"} \subseteq DOMAIN map
          /\ DOMAIN map \subseteq FramePart!FieldNames \cup FramePart!ForeignNames
          /\ "scope" \in DOMAIN map <=> m.scope # {}
      BY <2>1 DEF Decodes, Decodable, FrameInv
    <3> QED
      BY <2>3, <2>6, <3>1
  <2>8. \A name \in DOMAIN back \ {"schema_version"} : back[name] = map[name]
    <3>1. /\ back["kind"] = map["kind"]
          /\ back["conversation_id"] = map["conversation_id"]
          /\ back["chat_role"] = map["chat_role"]
          /\ back["dedup_key"] = map["dedup_key"]
      BY <2>1, <2>3 DEF Decodes
    <3>2. "scope" \in DOMAIN back => back["scope"] = map["scope"]
      BY <2>1, <2>3 DEF Decodes
    <3> QED
      BY <2>3, <2>6, <3>1, <3>2
  <2>9. \A name \in FramePart!FieldNames \ touched : m[name] = envelope[name]
    <3>1. \A name \in FramePart!FieldNames \ touched :
             /\ name \in DOMAIN map <=> name \in DOMAIN stamped
             /\ name \in DOMAIN map => map[name] = stamped[name]
      BY DEF FrameInv, stamped
    <3>2. envelope.schema_version \in 0..255 /\ envelope.kind \in FramePart!Kinds
      BY DEF FrameInv, AllEnvelopes
    <3>3. FramePart!FieldNames \ {"scope"} \subseteq DOMAIN map
      BY <2>1 DEF Decodes, Decodable
    <3>4. "schema_version" \notin touched => m.schema_version = envelope.schema_version
      <4> SUFFICES ASSUME "schema_version" \notin touched
                   PROVE  m.schema_version = envelope.schema_version
        OBVIOUS
      <4>1. map["schema_version"] = FramePart!decimal(envelope.schema_version)
        BY <2>4, <2>6, <3>1, <3>3
      <4>2. FramePart!parse_u8(map["schema_version"]) = {envelope.schema_version}
        BY <3>2, <4>1, VersionRoundTrip
      <4> QED
        BY <2>1, <4>2 DEF Decodes
    <3>5. "kind" \notin touched => m.kind = envelope.kind
      <4> SUFFICES ASSUME "kind" \notin touched
                   PROVE  m.kind = envelope.kind
        OBVIOUS
      <4>1. map["kind"] = FramePart!as_str(envelope.kind)
        BY <2>4, <2>6, <3>1, <3>3
      <4> QED
        BY <2>1, <3>2, <4>1 DEF Decodes, FramePart!Kinds, FramePart!as_str
    <3>6. /\ "conversation_id" \notin touched => m.conversation_id = envelope.conversation_id
          /\ "chat_role" \notin touched => m.chat_role = envelope.chat_role
          /\ "dedup_key" \notin touched => m.dedup_key = envelope.dedup_key
      BY <2>1, <2>4, <2>6, <3>1, <3>3 DEF Decodes
    <3>7. "scope" \notin touched => m.scope = envelope.scope
      <4> SUFFICES ASSUME "scope" \notin touched
                   PROVE  m.scope = envelope.scope
        OBVIOUS
      <4>1. /\ "scope" \in DOMAIN map <=> "scope" \in DOMAIN stamped
            /\ "scope" \in DOMAIN map => map["scope"] = stamped["scope"]
        BY <2>6, <3>1
      <4>2. "scope" \in DOMAIN stamped <=> envelope.scope # {}
        BY <2>4, <2>6
      <4>3. m.scope = IF "scope" \in DOMAIN map THEN {map["scope"]} ELSE {}
        BY <2>1 DEF Decodes
      <4> QED
        BY <2>4, <4>1, <4>2, <4>3
    <3> QED
      BY <2>6, <3>4, <3>5, <3>6, <3>7
  <2> QED
    BY <2>1, <2>5, <2>7, <2>8, <2>9 DEF back
<1> QED
  BY <1>1, <1>2 DEF FramePart!EnvelopeSurvives, FramePart!Some

(* A stamped envelope survives every use of the map by others, for texts   *)
(* of any kind and any number of changes (src/metadata.rs:54-89).          *)
THEOREM EnvelopesSurvive == PartsSpec => []EnvelopeSurvives
<1> DEFINE Inv == part = "frames" => FrameInv
<1>1. PartsInit => Inv
  <2> SUFFICES ASSUME FramePart!Init
               PROVE  FrameInv
    BY DEF PartsInit
  <2>1. envelope \in AllEnvelopes(Strings) /\ map = FramePart!into_map(envelope)
    BY EnvelopeAssumption DEF FramePart!Init
  <2>2. DOMAIN map \subseteq FramePart!FieldNames
    BY <2>1, MapOfEnvelope
  <2> QED
    BY <2>1, <2>2 DEF FrameInv
<1>2. Inv /\ [PartsNext]_vars => Inv'
  <2> SUFFICES ASSUME Inv, [PartsNext]_vars
               PROVE  Inv'
    OBVIOUS
  <2>1. CASE FramesStep
    BY <2>1, FrameStep DEF FramesStep
  <2>2. CASE UNCHANGED <<part, frameVars>>
    BY <2>2, FrameStep DEF frameVars, FramePart!vars
  <2> QED
    BY <2>1, <2>2 DEF PartsNext, ScopesStep, KeysStep, HexStep, FusionStep, SimStep,
       ConformanceStep, vars
<1>3. Inv => EnvelopeSurvives
  BY FrameInvSurvives DEF EnvelopeSurvives
<1> QED
  BY <1>1, <1>2, <1>3, PTL DEF PartsSpec

-----------------------------------------------------------------------------
(* SimHash counts with the same Cardinality.                               *)
LEMMA SimCardinality == \A S : SimPart!Cardinality(S) = Cardinality(S)
BY DEF SimPart!Cardinality, Cardinality

(* The words of a text that have a bit, and the count of the loop.         *)
Ones(t, bit) == { i \in SimPart!words(t) : bit \in Hash(t[i].word) }
UpTo(S, n) == { i \in S : i <= n }

(* Counting up to a number, one by one.                                    *)
LEMMA UpToGrows ==
    ASSUME NEW S \in SUBSET Nat, NEW n \in Nat
    PROVE  /\ IsFiniteSet(UpTo(S, n)) /\ Cardinality(UpTo(S, n)) \in Nat
           /\ Cardinality(UpTo(S, n + 1))
                = Cardinality(UpTo(S, n)) + IF n + 1 \in S THEN 1 ELSE 0
<1>1. IsFiniteSet(UpTo(S, n))
  <2>1. IsFiniteSet(0..n)
    BY FS_Interval
  <2>2. UpTo(S, n) \subseteq 0..n
    <3>1. \A i \in S : i <= n => i \in 0..n
      OBVIOUS
    <3> QED
      BY <3>1 DEF UpTo
  <2> QED
    BY <2>1, <2>2, FS_Subset
<1>2. UpTo(S, n + 1) = IF n + 1 \in S THEN UpTo(S, n) \cup {n + 1} ELSE UpTo(S, n)
  <2>1. \A i \in S : i <= n + 1 <=> i <= n \/ i = n + 1
    OBVIOUS
  <2> QED
    BY <2>1 DEF UpTo
<1>3. n + 1 \notin UpTo(S, n)
  BY DEF UpTo
<1>4. Cardinality(UpTo(S, n)) \in Nat
  BY <1>1, FS_CardinalityType
<1>5. Cardinality(UpTo(S, n) \cup {n + 1}) = Cardinality(UpTo(S, n)) + 1
  BY <1>1, <1>3, FS_AddElement
<1>6. CASE n + 1 \in S
  BY <1>1, <1>2, <1>4, <1>5, <1>6
<1>7. CASE n + 1 \notin S
  <2>1. UpTo(S, n + 1) = UpTo(S, n)
    BY <1>2, <1>7
  <2> DEFINE c == Cardinality(UpTo(S, n))
  <2>2. Cardinality(UpTo(S, n + 1)) = c /\ c \in Nat
    BY <1>4, <2>1
  <2> HIDE DEF c
  <2>3. c = c + 0
    BY <2>2
  <2> QED
    BY <1>1, <1>7, <2>2, <2>3 DEF c
<1> QED
  BY <1>6, <1>7

(* The counters of the loop, after each token.                             *)
Counts(after, t, bit) ==
    after = [i \in 0..Len(t) |->
                IF i = 0 THEN 0
                ELSE IF i \notin SimPart!words(t) THEN after[i - 1]
                ELSE after[i - 1] + IF bit \in Hash(t[i].word) THEN 1 ELSE -1]

(* The counter of a bit is the words with a 1 less those with a 0          *)
(* (src/dedup.rs:229-246).                                                 *)
LEMMA ColumnCounts ==
    ASSUME NEW t, Len(t) \in Nat, DOMAIN t = 1..Len(t), NEW bit
    PROVE  /\ IsFiniteSet(SimPart!words(t)) /\ IsFiniteSet(Ones(t, bit))
           /\ SimPart!column(t, bit)
                 = 2 * Cardinality(Ones(t, bit)) - Cardinality(SimPart!words(t))
<1> DEFINE W == SimPart!words(t)
           O == Ones(t, bit)
           n == Len(t)
           f == [i \in 0..n |-> 2 * Cardinality(UpTo(O, i)) - Cardinality(UpTo(W, i))]
           c == CHOOSE after : Counts(after, t, bit)
<1>1. O \subseteq W /\ W \subseteq 1..n /\ n \in Nat
  BY DEF SimPart!words, Ones
<1>2. \A i \in W : i \in O <=> bit \in Hash(t[i].word)
  BY DEF Ones
<1>3. SimPart!column(t, bit) = c[n]
  BY DEF SimPart!column, Counts
<1>4. Counts(f, t, bit)
  <2>1. ASSUME NEW i \in 0..n
        PROVE  f[i] = IF i = 0 THEN 0
                      ELSE IF i \notin W THEN f[i - 1]
                      ELSE f[i - 1] + IF bit \in Hash(t[i].word) THEN 1 ELSE -1
    <3> HIDE DEF W, O, n
    <3>1. CASE i = 0
      <4>1. UpTo(O, 0) = {} /\ UpTo(W, 0) = {}
        <5>1. \A j \in O \cup W : j \in 1..n /\ ~ j <= 0
          BY <1>1
        <5> QED
          BY <5>1 DEF UpTo
      <4>2. 0 \in 0..n
        BY <1>1
      <4>3. Cardinality({}) = 0
        BY FS_EmptySet
      <4>4. f[i] = 2 * Cardinality({}) - Cardinality({})
        BY <3>1, <4>1, <4>2
      <4> HIDE DEF f
      <4> QED
        BY <3>1, <4>3, <4>4
    <3>2. CASE i # 0
      <4> DEFINE m == i - 1
      <4>1. m \in Nat /\ m + 1 = i /\ m \in 0..n
        BY <1>1, <3>2
      <4>2. O \in SUBSET Nat /\ W \in SUBSET Nat
        BY <1>1
      <4> HIDE DEF m
      <4>3. /\ Cardinality(UpTo(O, m)) \in Nat /\ Cardinality(UpTo(W, m)) \in Nat
            /\ Cardinality(UpTo(O, i)) = Cardinality(UpTo(O, m)) + IF i \in O THEN 1 ELSE 0
            /\ Cardinality(UpTo(W, i)) = Cardinality(UpTo(W, m)) + IF i \in W THEN 1 ELSE 0
        BY <4>1, <4>2, UpToGrows
      <4>4. /\ f[i] = 2 * Cardinality(UpTo(O, i)) - Cardinality(UpTo(W, i))
            /\ f[m] = 2 * Cardinality(UpTo(O, m)) - Cardinality(UpTo(W, m))
        BY <4>1
      <4> HIDE DEF f
      <4>5. i \in O => i \in W
        BY <1>1
      <4>6. f[i] = IF i \notin W THEN f[m] ELSE f[m] + IF i \in O THEN 1 ELSE -1
        BY <4>3, <4>4, <4>5
      <4> QED
        BY <1>2, <3>2, <4>6 DEF m
    <3> QED
      BY <3>1, <3>2
  <2>2. f = [i \in 0..n |-> f[i]]
    OBVIOUS
  <2> HIDE DEF f
  <2> QED
    BY <2>1, <2>2 DEF Counts
<1>5. Counts(c, t, bit)
  BY <1>4
<1>6. c[n] = f[n]
  <2> DEFINE P == { i \in Nat : i <= n => c[i] = f[i] }
  <2> HIDE DEF c, f, W, O
  <2>1. 0 \in P
    BY <1>1, <1>4, <1>5 DEF Counts
  <2>2. ASSUME NEW i \in P
        PROVE  i + 1 \in P
    <3> SUFFICES ASSUME i + 1 <= n
                 PROVE  c[i + 1] = f[i + 1]
      OBVIOUS
    <3> DEFINE j == i + 1
    <3>1. j \in 0..n /\ j # 0 /\ j - 1 = i /\ c[i] = f[i]
      BY <1>1
    <3> HIDE DEF j, n, P
    <3>2. /\ c[j] = IF j \notin SimPart!words(t) THEN c[j - 1]
                    ELSE c[j - 1] + IF bit \in Hash(t[j].word) THEN 1 ELSE -1
          /\ f[j] = IF j \notin SimPart!words(t) THEN f[j - 1]
                    ELSE f[j - 1] + IF bit \in Hash(t[j].word) THEN 1 ELSE -1
      BY <1>4, <1>5, <3>1 DEF Counts, n
    <3>3. c[j] = f[j]
      BY <3>1, <3>2
    <3> QED
      BY <3>3 DEF j
  <2>3. P = Nat
    <3> HIDE DEF P
    <3>1. P \subseteq Nat
      BY DEF P
    <3> QED
      BY <2>1, <2>2, <3>1, NatSetInduction
  <2>4. n \in P
    BY <1>1, <2>3
  <2> QED
    BY <1>1, <2>4
<1>7. UpTo(O, n) = O /\ UpTo(W, n) = W
  BY <1>1 DEF UpTo
<1>8. f[n] = 2 * Cardinality(O) - Cardinality(W)
  BY <1>1, <1>7
<1>9. IsFiniteSet(O) /\ IsFiniteSet(W)
  <2>1. IsFiniteSet(1..n)
    BY <1>1, FS_Interval
  <2> QED
    BY <1>1, <2>1, FS_Subset
<1> QED
  BY <1>3, <1>6, <1>8, <1>9

(* The places of a text where a word of a set stands.                      *)
Where(t, Q) == { i \in DOMAIN t : t[i].word \in Q }
With(bit) == { word \in SimPart!Words : bit \in Hash(word) }

(* They are finitely many.                                                 *)
LEMMA WhereIsFinite ==
    ASSUME NEW T, NEW t \in Seq(T), NEW Q
    PROVE  IsFiniteSet(Where(t, Q)) /\ Cardinality(Where(t, Q)) \in Nat
<1>1. IsFiniteSet(1..Len(t)) /\ DOMAIN t = 1..Len(t)
  <2>1. Len(t) \in Nat /\ DOMAIN t = 1..Len(t)
    BY LenProperties
  <2> QED
    BY <2>1, FS_Interval
<1>2. Where(t, Q) \subseteq DOMAIN t
  BY DEF Where
<1> QED
  BY <1>1, <1>2, FS_Subset, FS_CardinalityType

(* In a joined text the words of both count.                               *)
LEMMA WhereOfJoined ==
    ASSUME NEW T, NEW s \in Seq(T), NEW t \in Seq(T), NEW Q
    PROVE  Cardinality(Where(s \o t, Q)) = Cardinality(Where(s, Q)) + Cardinality(Where(t, Q))
<1> DEFINE n == Len(s)
           A == Where(s, Q)
           B == Where(t, Q)
           C == { i + n : i \in B }
<1>1. /\ n \in Nat /\ Len(t) \in Nat
      /\ DOMAIN s = 1..n /\ DOMAIN t = 1..Len(t) /\ DOMAIN (s \o t) = 1..(n + Len(t))
      /\ \A i \in 1..n : (s \o t)[i] = s[i]
      /\ \A i \in 1..Len(t) : (s \o t)[i + n] = t[i]
  BY LenProperties, ConcatProperties
<1>2. Where(s \o t, Q) = A \cup C
  <2> HIDE DEF n
  <2>1. ASSUME NEW i \in Where(s \o t, Q), i \notin 1..n
        PROVE  i \in C
    <3> DEFINE j == i - n
    <3>1. j \in 1..Len(t) /\ i = j + n
      BY <1>1, <2>1 DEF Where
    <3>2. t[j].word \in Q
      BY <1>1, <3>1 DEF Where
    <3> QED
      BY <1>1, <3>1, <3>2 DEF Where
  <2>2. ASSUME NEW i \in Where(s \o t, Q), i \in 1..n
        PROVE  i \in A
    BY <1>1, <2>2 DEF Where
  <2>3. ASSUME NEW i \in A
        PROVE  i \in Where(s \o t, Q)
    BY <1>1 DEF Where
  <2>4. ASSUME NEW i \in B
        PROVE  i + n \in Where(s \o t, Q)
    <3>1. i \in 1..Len(t) /\ t[i].word \in Q
      BY <1>1 DEF Where
    <3>2. i + n \in 1..(n + Len(t)) /\ (s \o t)[i + n].word \in Q
      BY <1>1, <3>1
    <3> QED
      BY <1>1, <3>2 DEF Where
  <2> QED
    BY <2>1, <2>2, <2>3, <2>4
<1>3. A \cap C = {}
  <2>1. A \subseteq 1..n /\ B \subseteq 1..Len(t)
    BY <1>1 DEF Where
  <2> HIDE DEF A, B, n
  <2> QED
    BY <1>1, <2>1
<1>4. IsFiniteSet(A) /\ IsFiniteSet(B) /\ Cardinality(A) \in Nat /\ Cardinality(B) \in Nat
  BY WhereIsFinite
<1>5. IsFiniteSet(C) /\ Cardinality(C) = Cardinality(B)
  <2> DEFINE f == [i \in B |-> i + n]
  <2>1. B \subseteq Nat
    BY <1>1 DEF Where
  <2> HIDE DEF B, n
  <2>2. f \in [B -> C] /\ \A x, y \in B : f[x] = f[y] => x = y
    BY <1>1, <2>1
  <2>3. \A c \in C : \E x \in B : f[x] = c
    OBVIOUS
  <2> HIDE DEF f, C
  <2>4. f \in Bijection(B, C)
    BY <2>2, <2>3 DEF Bijection, Injection, IsInjective, Surjection
  <2>5. ExistsBijection(B, C)
    BY <2>4 DEF ExistsBijection
  <2> QED
    BY <1>4, <2>5, FS_Bijection
<1> HIDE DEF A, B, C, n
<1>6. Cardinality(A \cup C) = Cardinality(A) + Cardinality(C) - Cardinality(A \cap C)
  BY <1>4, <1>5, FS_Union
<1>7. Cardinality(A \cap C) = 0
  BY <1>3, FS_EmptySet
<1> QED
  BY <1>2, <1>4, <1>5, <1>6, <1>7 DEF A, B

(* Texts with the same votes for every word of a set have as many of them. *)
LEMMA SameVotesSameCount ==
    ASSUME NEW T, NEW s \in Seq(T), NEW t \in Seq(T), NEW Q,
           \A word \in Q : SimPart!Votes(s, word) = SimPart!Votes(t, word)
    PROVE  Cardinality(Where(s, Q)) = Cardinality(Where(t, Q))
<1> DEFINE A == Where(s, Q)
           B == Where(t, Q)
           At(u, word) == { i \in DOMAIN u : u[i].word = word }
           g == [word \in Q |-> CHOOSE h : h \in Bijection(At(s, word), At(t, word))]
           f == [i \in A |-> g[s[i].word][i]]
<1>1. ASSUME NEW word \in Q
      PROVE  g[word] \in Bijection(At(s, word), At(t, word))
  <2>1. At(s, word) = Where(s, {word}) /\ At(t, word) = Where(t, {word})
    BY DEF Where
  <2>2. IsFiniteSet(At(s, word)) /\ IsFiniteSet(At(t, word))
    BY <2>1, WhereIsFinite
  <2>3. Cardinality(At(s, word)) = Cardinality(At(t, word))
    BY SimCardinality DEF SimPart!Votes
  <2> HIDE DEF At
  <2>4. ExistsBijection(At(s, word), At(t, word))
    BY <2>2, <2>3, FS_SameCardinalityBij
  <2> QED
    BY <2>4 DEF ExistsBijection
<1> HIDE DEF g
<1>2. ASSUME NEW word \in Q
      PROVE  /\ g[word] \in [At(s, word) -> At(t, word)]
             /\ \A x, y \in At(s, word) : g[word][x] = g[word][y] => x = y
             /\ \A z \in At(t, word) : \E x \in At(s, word) : g[word][x] = z
  BY <1>1 DEF Bijection, Injection, IsInjective, Surjection
<1>3. ASSUME NEW i \in A
      PROVE  /\ s[i].word \in Q /\ i \in At(s, s[i].word) /\ f[i] = g[s[i].word][i]
             /\ f[i] \in At(t, s[i].word)
  <2>1. s[i].word \in Q /\ i \in At(s, s[i].word) /\ f[i] = g[s[i].word][i]
    BY DEF Where
  <2> HIDE DEF At, f, A
  <2>2. g[s[i].word] \in [At(s, s[i].word) -> At(t, s[i].word)]
    BY <1>2, <2>1
  <2> QED
    BY <2>1, <2>2
<1>4. ASSUME NEW i \in A
      PROVE  f[i] \in B /\ t[f[i]].word = s[i].word
  BY <1>3 DEF Where
<1>5. ASSUME NEW x \in A, NEW y \in A, f[x] = f[y]
      PROVE  x = y
  <2>1. s[x].word = s[y].word
    BY <1>4, <1>5
  <2>2. /\ s[x].word \in Q /\ x \in At(s, s[x].word) /\ y \in At(s, s[x].word)
        /\ g[s[x].word][x] = g[s[x].word][y]
    <3>1. f[x] = g[s[x].word][x] /\ x \in At(s, s[x].word) /\ s[x].word \in Q
      BY <1>3
    <3>2. f[y] = g[s[y].word][y] /\ y \in At(s, s[y].word)
      BY <1>3
    <3> HIDE DEF f, At, A
    <3> QED
      BY <1>5, <2>1, <3>1, <3>2
  <2> HIDE DEF At
  <2> QED
    BY <1>2, <2>2
<1>6. ASSUME NEW z \in B
      PROVE  \E x \in A : f[x] = z
  <2>1. t[z].word \in Q /\ z \in At(t, t[z].word)
    BY DEF Where
  <2>2. PICK x \in At(s, t[z].word) : g[t[z].word][x] = z
    BY <1>2, <2>1
  <2> QED
    BY <2>1, <2>2 DEF Where
<1>7. f \in Bijection(A, B)
  <2>1. f \in [A -> B]
    BY <1>4
  <2> HIDE DEF f, A, B
  <2> QED
    BY <1>5, <1>6, <2>1 DEF Bijection, Injection, IsInjective, Surjection
<1> QED
  BY <1>7, WhereIsFinite, FS_Bijection DEF ExistsBijection

(* A bit is 1 if most of the words have it (src/dedup.rs:228-257).         *)
LEMMA BitIsMajority ==
    ASSUME NEW t \in Seq(Tokens), NEW bit \in Bits
    PROVE  bit \in SimPart!from_text(t)
             <=> 2 * Cardinality(Where(t, With(bit))) > Cardinality(Where(t, SimPart!Words))
<1>1. Len(t) \in Nat /\ DOMAIN t = 1..Len(t) /\ \A i \in DOMAIN t : t[i] \in Tokens
  BY LenProperties, ElementOfSeq
<1>2. SimPart!words(t) = Where(t, SimPart!Words)
  BY <1>1 DEF SimPart!words, SimPart!Words, Where
<1>3. Ones(t, bit) = Where(t, With(bit))
  BY <1>2 DEF Ones, With, Where
<1>4. SimPart!column(t, bit)
         = 2 * Cardinality(Where(t, With(bit))) - Cardinality(Where(t, SimPart!Words))
  BY <1>1, <1>2, <1>3, ColumnCounts
<1>5. /\ Cardinality(Where(t, With(bit))) \in Nat
      /\ Cardinality(Where(t, SimPart!Words)) \in Nat
  BY WhereIsFinite
<1>6. CASE SimPart!words(t) # {}
  BY <1>4, <1>5, <1>6 DEF SimPart!from_text
<1>7. CASE SimPart!words(t) = {}
  <2>1. Where(t, SimPart!Words) = {} /\ Where(t, With(bit)) = {}
    BY <1>2, <1>3, <1>7 DEF Ones
  <2>2. Cardinality(Where(t, With(bit))) = 0 /\ Cardinality(Where(t, SimPart!Words)) = 0
    BY <2>1, FS_EmptySet
  <2>3. bit \notin SimPart!from_text(t)
    BY <1>7 DEF SimPart!from_text
  <2> QED
    BY <2>2, <2>3
<1> QED
  BY <1>6, <1>7

(* A fingerprint has no other bits.                                        *)
LEMMA BitsOfText ==
    ASSUME NEW t
    PROVE  SimPart!from_text(t) \in SUBSET Bits
BY DEF SimPart!from_text

(* The typed texts are sequences of tokens.                                *)
SimInv == left \in Seq(Tokens) /\ right \in Seq(Tokens)

(* Votes decide, bit by bit (src/dedup.rs:192-197).                        *)
LEMMA SimInvMajority == SimInv => SimPart!FingerprintIsMajority
<1> SUFFICES ASSUME SimInv
             PROVE  SimPart!FingerprintIsMajority
  OBVIOUS
<1>1. left \in Seq(Tokens) /\ right \in Seq(Tokens)
  BY DEF SimInv
<1>2. ASSUME \A word \in SimPart!Words : SimPart!Votes(left, word) = SimPart!Votes(right, word)
      PROVE  SimPart!is_near(SimPart!from_text(left), SimPart!from_text(right), 0)
  <2>1. ASSUME NEW bit \in Bits
        PROVE  bit \in SimPart!from_text(left) <=> bit \in SimPart!from_text(right)
    <3>1. With(bit) \subseteq SimPart!Words
      BY DEF With
    <3>2. \A Q \in SUBSET SimPart!Words :
             Cardinality(Where(left, Q)) = Cardinality(Where(right, Q))
      BY <1>1, <1>2, SameVotesSameCount
    <3>3. /\ Cardinality(Where(left, With(bit))) = Cardinality(Where(right, With(bit)))
          /\ Cardinality(Where(left, SimPart!Words)) = Cardinality(Where(right, SimPart!Words))
      BY <3>1, <3>2
    <3> QED
      BY <1>1, <3>3, BitIsMajority
  <2>2. SimPart!from_text(left) = SimPart!from_text(right)
    BY <2>1, BitsOfText
  <2>3. SimPart!SymDiff(SimPart!from_text(left), SimPart!from_text(right)) = {}
    BY <2>2 DEF SimPart!SymDiff
  <2> QED
    BY <2>3, SimCardinality, FS_EmptySet DEF SimPart!is_near, SimPart!hamming_distance
<1>3. SimPart!from_text(left) =
        { bit \in Bits :
             2 * Cardinality({ i \in DOMAIN left : left[i].word # NoWord
                                                   /\ bit \in Hash(left[i].word) })
                 > Cardinality({ i \in DOMAIN left : left[i].word # NoWord }) }
  <2>1. DOMAIN left = 1..Len(left) /\ \A i \in DOMAIN left : left[i] \in Tokens
    BY <1>1, LenProperties, ElementOfSeq
  <2>2. Where(left, SimPart!Words) = { i \in DOMAIN left : left[i].word # NoWord }
    BY <2>1 DEF SimPart!Words, Where
  <2>3. \A bit : Where(left, With(bit))
                  = { i \in DOMAIN left : left[i].word # NoWord /\ bit \in Hash(left[i].word) }
    BY <2>1 DEF SimPart!Words, With, Where
  <2>4. \A bit \in Bits : bit \in SimPart!from_text(left)
          <=> 2 * Cardinality(Where(left, With(bit))) > Cardinality(Where(left, SimPart!Words))
    BY <1>1, BitIsMajority
  <2> QED
    BY <2>2, <2>3, <2>4, BitsOfText
<1> QED
  BY <1>2, <1>3, SimCardinality DEF SimPart!FingerprintIsMajority

(* Two majorities are one together (src/dedup.rs:195-199).                 *)
LEMMA SimInvBetween == SimInv => SimPart!JoinedTextIsBetween
<1> SUFFICES ASSUME SimInv
             PROVE  SimPart!JoinedTextIsBetween
  OBVIOUS
<1> DEFINE joined == SimPart!from_text(left \o right)
           L == SimPart!from_text(left)
           R == SimPart!from_text(right)
<1>1. left \in Seq(Tokens) /\ right \in Seq(Tokens) /\ left \o right \in Seq(Tokens)
  BY ConcatProperties DEF SimInv
<1>2. joined \subseteq Bits /\ L \subseteq Bits /\ R \subseteq Bits
  BY BitsOfText
<1>3. ASSUME NEW bit \in Bits
      PROVE  /\ bit \in L /\ bit \in R => bit \in joined
             /\ bit \in joined => bit \in L \/ bit \in R
  <2> DEFINE o1 == Cardinality(Where(left, With(bit)))
             o2 == Cardinality(Where(right, With(bit)))
             w1 == Cardinality(Where(left, SimPart!Words))
             w2 == Cardinality(Where(right, SimPart!Words))
  <2>1. o1 \in Nat /\ o2 \in Nat /\ w1 \in Nat /\ w2 \in Nat
    BY <1>1, WhereIsFinite
  <2>2. /\ Cardinality(Where(left \o right, With(bit))) = o1 + o2
        /\ Cardinality(Where(left \o right, SimPart!Words)) = w1 + w2
    BY <1>1, WhereOfJoined
  <2>3. /\ bit \in L <=> 2 * o1 > w1
        /\ bit \in R <=> 2 * o2 > w2
        /\ bit \in joined <=> 2 * (o1 + o2) > w1 + w2
    BY <1>1, <2>2, BitIsMajority
  <2> HIDE DEF o1, o2, w1, w2, L, R, joined
  <2> QED
    BY <2>1, <2>3
<1> HIDE DEF L, R, joined
<1>4. L \cap R \subseteq joined /\ joined \subseteq L \cup R
  BY <1>2, <1>3
<1>5. Cardinality(SimPart!SymDiff(joined, L)) <= Cardinality(SimPart!SymDiff(L, R))
  <2>1. SimPart!SymDiff(joined, L) \subseteq SimPart!SymDiff(L, R)
    BY <1>4 DEF SimPart!SymDiff
  <2>2. SimPart!SymDiff(L, R) \subseteq Bits
    BY <1>2 DEF SimPart!SymDiff
  <2> QED
    BY <2>1, <2>2, BitsAssumption, FS_Subset
<1> QED
  BY <1>4, <1>5, SimCardinality DEF SimPart!JoinedTextIsBetween, SimPart!is_near,
     SimPart!hamming_distance, joined, L, R

(* The texts stay what was typed.                                          *)
LEMMA SimInvariant == PartsSpec => [](part = "simhash" => SimInv)
<1> DEFINE Inv == part = "simhash" => SimInv
<1>1. PartsInit => Inv
  BY EmptySeq DEF PartsInit, SimPart!Init, SimInv
<1>2. Inv /\ [PartsNext]_vars => Inv'
  <2> SUFFICES ASSUME Inv, [PartsNext]_vars
               PROVE  Inv'
    OBVIOUS
  <2>1. CASE SimStep
    BY <2>1, AppendProperties
       DEF SimStep, SimPart!Next, SimPart!TypeLeft, SimPart!TypeRight, SimInv
  <2>2. CASE UNCHANGED <<part, simVars>>
    BY <2>2 DEF simVars, SimInv
  <2> QED
    BY <2>1, <2>2 DEF PartsNext, ScopesStep, KeysStep, HexStep, FramesStep, FusionStep,
       ConformanceStep, vars
<1> QED
  BY <1>1, <1>2, PTL DEF PartsSpec

(* For texts of any length, any vocabulary and any hash: a bit of a        *)
(* fingerprint is what most of the words have, so order, case and          *)
(* punctuation do not matter (src/dedup.rs:192-197, 228-257).              *)
THEOREM BitsAreMajorities == PartsSpec => []FingerprintIsMajority
<1>1. (part = "simhash" => SimInv) => FingerprintIsMajority
  BY SimInvMajority DEF FingerprintIsMajority
<1> QED
  BY <1>1, SimInvariant, PTL

(* For texts of any length: a joined text is no farther from its parts     *)
(* than they are from each other (src/dedup.rs:195-199).                   *)
THEOREM JoinedTextsAreBetween == PartsSpec => []JoinedTextIsBetween
<1>1. (part = "simhash" => SimInv) => JoinedTextIsBetween
  BY SimInvBetween DEF JoinedTextIsBetween
<1> QED
  BY <1>1, SimInvariant, PTL

-----------------------------------------------------------------------------
(* Fusion counts as everybody does.                                        *)
LEMMA FusionCardinality == \A S : FusionPart!Cardinality(S) = Cardinality(S)
BY DEF FusionPart!Cardinality, Cardinality

(* A contribution is a positive whole number of units, the exact fraction  *)
(* (src/fusion.rs:62).                                                     *)
LEMMA ExactContribution ==
    ASSUME k \in Ks, NEW rank \in 0..(MaxItems - 1)
    PROVE  /\ FusionPart!contribution(rank) \in Nat
           /\ FusionPart!contribution(rank) * (k + rank) = Unit
           /\ k + rank \in Nat \ {0}
<1>1. k + rank \in Nat \ {0} /\ Unit \in Nat \ {0} /\ Unit % (k + rank) = 0
  BY FusionAssumption
<1> DEFINE d == k + rank
<1>2. \A a \in Nat, b \in Nat \ {0} : a % b = 0 => (a \div b) * b = a /\ a \div b \in Nat
  OBVIOUS
<1> QED
  BY <1>1, <1>2 DEF FusionPart!contribution

(* The input, and what Fusion says of it, for any lists: the ones before   *)
(* and after a step.                                                       *)
Inputs(ls) == ls \in Seq(Seq(Items)) /\ \A i \in 1..Len(ls) : Len(ls[i]) <= MaxItems

Holding(ls, item, place) == { i \in DOMAIN ls : place \in DOMAIN ls[i] /\ ls[i][place] = item }
Has(ls, item) == \E place \in 1..MaxItems : Holding(ls, item, place) # {}

Weights(ls, item) ==
    [place \in 1..MaxItems |->
        Cardinality(Holding(ls, item, place)) * (Unit \div (k + place - 1))]

Total(ls, item) ==
    LET upTo[place \in 0..MaxItems] ==
            IF place = 0 THEN 0
            ELSE upTo[place - 1]
                   + Cardinality(Holding(ls, item, place)) * (Unit \div (k + place - 1))
    IN  upTo[MaxItems]

First(ls, x, y) ==
    \E p \in 1..MaxItems : \E i \in Holding(ls, x, p) :
        \A q \in 1..MaxItems : \A j \in Holding(ls, y, q) : i < j \/ (i = j /\ p < q)

(* The input is a list of lists of items.                                  *)
LEMMA InputFacts ==
    ASSUME NEW ls, Inputs(ls)
    PROVE  /\ DOMAIN ls = 1..Len(ls) /\ Len(ls) \in Nat
           /\ \A i \in 1..Len(ls) :
                 /\ ls[i] \in Seq(Items) /\ Len(ls[i]) \in 0..MaxItems
                 /\ DOMAIN ls[i] = 1..Len(ls[i])
                 /\ \A q \in DOMAIN ls[i] : ls[i][q] \in Items
<1>1. DOMAIN ls = 1..Len(ls) /\ Len(ls) \in Nat
  BY LenProperties DEF Inputs
<1>2. \A i \in 1..Len(ls) : ls[i] \in Seq(Items) /\ Len(ls[i]) <= MaxItems
  BY <1>1, ElementOfSeq DEF Inputs
<1>3. ASSUME NEW list \in Seq(Items)
      PROVE  /\ Len(list) \in Nat /\ DOMAIN list = 1..Len(list)
             /\ \A q \in DOMAIN list : list[q] \in Items
  BY LenProperties, ElementOfSeq
<1> QED
  BY <1>1, <1>2, <1>3, FusionAssumption

(* The lists with an item at a place are finitely many.                    *)
LEMMA HoldingIsFinite ==
    ASSUME NEW ls, Inputs(ls), NEW item, NEW place
    PROVE  /\ IsFiniteSet(Holding(ls, item, place))
           /\ Holding(ls, item, place) \subseteq 1..Len(ls)
           /\ Cardinality(Holding(ls, item, place)) \in Nat
<1>1. Holding(ls, item, place) \subseteq 1..Len(ls)
  BY InputFacts DEF Holding
<1>2. IsFiniteSet(1..Len(ls))
  BY InputFacts, FS_Interval
<1> QED
  BY <1>1, <1>2, FS_Subset, FS_CardinalityType

(* What an item gets for a place: its contribution, for each list that has *)
(* it there.                                                               *)
LEMMA WeightFacts ==
    ASSUME NEW ls, Inputs(ls), k \in Ks, NEW item
    PROVE  /\ Weights(ls, item) \in [1..MaxItems -> Nat]
           /\ \A place \in 1..MaxItems :
                 /\ place - 1 \in 0..(MaxItems - 1)
                 /\ Weights(ls, item)[place]
                       = Cardinality(Holding(ls, item, place)) * FusionPart!contribution(place - 1)
<1>1. ASSUME NEW place \in 1..MaxItems
      PROVE  /\ place - 1 \in 0..(MaxItems - 1)
             /\ Unit \div (k + place - 1) = FusionPart!contribution(place - 1)
             /\ FusionPart!contribution(place - 1) \in Nat
             /\ Cardinality(Holding(ls, item, place)) \in Nat
  <2>1. place - 1 \in 0..(MaxItems - 1)
    BY FusionAssumption
  <2>2. FusionPart!contribution(place - 1) \in Nat
    BY <2>1, ExactContribution
  <2>3. k + place - 1 = k + (place - 1)
    BY FusionAssumption
  <2> QED
    BY <2>1, <2>2, <2>3, HoldingIsFinite DEF FusionPart!contribution
<1>2. \A a, b \in Nat : a * b \in Nat
  OBVIOUS
<1> QED
  BY <1>1, <1>2 DEF Weights

-----------------------------------------------------------------------------
(* Induction up to a bound.                                                *)
LEMMA UpToInduction ==
    ASSUME NEW M \in Nat, NEW P, 0 \in P,
           \A i \in P : i \in 0..(M - 1) => i + 1 \in P
    PROVE  0..M \subseteq P
<1> DEFINE Q == { i \in Nat : i <= M => i \in P }
<1>1. 0 \in Q
  OBVIOUS
<1>2. \A i \in Q : i + 1 \in Q
  OBVIOUS
<1>3. Q \in SUBSET Nat
  OBVIOUS
<1> HIDE DEF Q
<1>4. Q = Nat
  BY <1>1, <1>2, <1>3, NatSetInduction
<1> QED
  BY <1>4 DEF Q

(* Running sums of weights.                                                *)
Sums(f, w, M) ==
    /\ f \in [0..M -> Nat]
    /\ f[0] = 0
    /\ \A i \in 1..M : f[i] = f[i - 1] + w[i]

(* Weights have running sums.                                              *)
LEMMA SumsExist ==
    ASSUME NEW M \in Nat, NEW w \in [1..M -> Nat]
    PROVE  \E f : Sums(f, w, M)
<1> DEFINE P == { n \in 0..M : \E f : Sums(f, w, n) }
<1>1. 0 \in P
  <2> DEFINE f == [i \in 0..0 |-> 0]
  <2>1. Sums(f, w, 0)
    BY DEF Sums
  <2> QED
    BY <2>1
<1>2. ASSUME NEW n \in P, n \in 0..(M - 1)
      PROVE  n + 1 \in P
  <2>1. PICK f : Sums(f, w, n)
    OBVIOUS
  <2> DEFINE m == n + 1
             g == [i \in 0..m |-> IF i = m THEN f[n] + w[m] ELSE f[i]]
  <2>2. m \in 1..M /\ m - 1 = n /\ n \in 0..n /\ n \in 0..m /\ n # m
    BY <1>2
  <2>3. f[n] \in Nat /\ w[m] \in Nat
    BY <2>1, <2>2 DEF Sums
  <2>4. ASSUME NEW i \in 0..m
        PROVE  i = m \/ i \in 0..n
    OBVIOUS
  <2>5. g \in [0..m -> Nat]
    <3>1. \A i \in 0..m : (IF i = m THEN f[n] + w[m] ELSE f[i]) \in Nat
      BY <2>1, <2>3, <2>4 DEF Sums
    <3> QED
      BY <3>1
  <2>6. ASSUME NEW i \in 1..m
        PROVE  g[i] = g[i - 1] + w[i]
    <3>1. CASE i = m
      BY <2>2, <3>1
    <3>2. CASE i # m
      <4>1. i \in 1..n /\ i \in 0..m /\ i - 1 \in 0..m /\ i - 1 # m
        BY <3>2
      <4> QED
        BY <2>1, <3>2, <4>1 DEF Sums
    <3> QED
      BY <3>1, <3>2
  <2>7. g[0] = 0
    BY <1>2, <2>1 DEF Sums
  <2>8. Sums(g, w, m)
    <3> HIDE DEF g, m
    <3> QED
      BY <2>5, <2>6, <2>7 DEF Sums
  <2>9. m \in 0..M
    BY <2>2
  <2> QED
    BY <2>8, <2>9
<1> HIDE DEF P
<1>3. 0..M \subseteq P
  BY <1>1, <1>2, UpToInduction
<1> QED
  BY <1>3 DEF P

(* The recursion of Sum has running sums as its only solution.             *)
LEMMA SumsAreUnique ==
    ASSUME NEW M \in Nat, NEW w, NEW f, Sums(f, w, M), NEW g,
           g = [i \in 0..M |-> IF i = 0 THEN 0 ELSE g[i - 1] + w[i]]
    PROVE  g = f
<1> DEFINE P == { i \in 0..M : g[i] = f[i] }
<1>1. 0 \in P
  BY DEF Sums
<1>2. ASSUME NEW i \in P, i \in 0..(M - 1)
      PROVE  i + 1 \in P
  <2> DEFINE j == i + 1
  <2>1. j \in 0..M /\ j \in 1..M /\ j # 0 /\ j - 1 = i /\ g[i] = f[i]
    BY <1>2
  <2> HIDE DEF j
  <2>2. f[j] = f[j - 1] + w[j]
    BY <2>1 DEF Sums
  <2>3. g[j] = g[j - 1] + w[j]
    BY <2>1
  <2> QED
    BY <2>1, <2>2, <2>3 DEF j
<1> HIDE DEF P
<1>3. 0..M \subseteq P
  BY <1>1, <1>2, UpToInduction
<1>4. \A i \in 0..M : g[i] = f[i]
  BY <1>3 DEF P
<1>5. DOMAIN g = 0..M /\ g = [i \in 0..M |-> g[i]]
  OBVIOUS
<1>6. f = [i \in 0..M |-> f[i]]
  BY DEF Sums
<1> QED
  BY <1>4, <1>5, <1>6

IsMore(a, b, c) == a = b + c

(* One weight more by an amount, the sum more by it.                       *)
LEMMA SumsGrow ==
    ASSUME NEW M \in Nat, NEW w \in [1..M -> Nat], NEW f, Sums(f, w, M),
           NEW v, NEW g, Sums(g, v, M), NEW q \in 1..M, NEW c \in Nat,
           IsMore(v[q], w[q], c), \A i \in 1..M : i # q => v[i] = w[i]
    PROVE  IsMore(g[M], f[M], c)
<1> DEFINE more(i) == IF i < q THEN 0 ELSE c
           P == { i \in 0..M : g[i] = f[i] + more(i) }
<1>1. 0 \in P
  BY DEF Sums
<1>2. ASSUME NEW i \in P, i \in 0..(M - 1)
      PROVE  i + 1 \in P
  <2> DEFINE j == i + 1
  <2>1. j \in 0..M /\ j \in 1..M /\ j # 0 /\ j - 1 = i /\ g[i] = f[i] + more(i)
    BY <1>2
  <2>2. f[j] = f[i] + w[j] /\ g[j] = g[i] + v[j] /\ f[i] \in Nat /\ f[j] \in Nat /\ g[i] \in Nat
    BY <2>1 DEF Sums
  <2>3. CASE j = q
    <3>1. more(i) = 0 /\ more(j) = c /\ v[j] = w[j] + c /\ w[j] \in Nat
      BY <2>3 DEF IsMore
    <3> HIDE DEF more, j, P
    <3>2. g[j] = f[j] + more(j)
      BY <2>1, <2>2, <3>1
    <3> QED
      BY <2>1, <3>2 DEF P, j
  <2>4. CASE j # q
    <3>1. more(i) = more(j) /\ v[j] = w[j] /\ more(i) \in Nat /\ w[j] \in Nat
      BY <2>1, <2>4
    <3> HIDE DEF more, j, P
    <3>2. g[j] = f[j] + more(j)
      BY <2>1, <2>2, <3>1
    <3> QED
      BY <2>1, <3>2 DEF P, j
  <2> QED
    BY <2>3, <2>4
<1> HIDE DEF P
<1>3. 0..M \subseteq P
  BY <1>1, <1>2, UpToInduction
<1>4. M \in P
  BY <1>3
<1> QED
  BY <1>4 DEF P, IsMore
-----------------------------------------------------------------------------
(* The sum of an item is a running sum of its weights.                     *)
LEMMA TotalIsASum ==
    ASSUME NEW ls, Inputs(ls), k \in Ks, NEW item
    PROVE  \E f : Sums(f, Weights(ls, item), MaxItems) /\ Total(ls, item) = f[MaxItems]
<1> DEFINE w == Weights(ls, item)
           Solves(g) == g = [place \in 0..MaxItems |->
                                IF place = 0 THEN 0
                                ELSE g[place - 1] + Cardinality(Holding(ls, item, place))
                                                      * (Unit \div (k + place - 1))]
           c == CHOOSE g : Solves(g)
<1>1. w \in [1..MaxItems -> Nat] /\ MaxItems \in Nat
  BY WeightFacts, FusionAssumption
<1>2. PICK f : Sums(f, w, MaxItems)
  BY <1>1, SumsExist
<1>3. \A g : Solves(g) <=> g = [i \in 0..MaxItems |-> IF i = 0 THEN 0 ELSE g[i - 1] + w[i]]
  <2>1. \A i \in 0..MaxItems : i # 0 => i \in 1..MaxItems
    BY FusionAssumption
  <2> QED
    BY <2>1 DEF Weights
<1>4. Solves(f)
  <2> HIDE DEF w
  <2>1. f = [i \in 0..MaxItems |-> f[i]]
    BY <1>2 DEF Sums
  <2>2. \A i \in 0..MaxItems : f[i] = IF i = 0 THEN 0 ELSE f[i - 1] + w[i]
    BY <1>1, <1>2 DEF Sums
  <2> HIDE DEF Solves
  <2> QED
    BY <1>3, <2>1, <2>2
<1>5. Solves(c)
  <2> HIDE DEF Solves
  <2> QED
    BY <1>4
<1>6. c = f
  <2> HIDE DEF w, c, Solves
  <2> QED
    BY <1>1, <1>2, <1>3, <1>5, SumsAreUnique
<1>7. Total(ls, item) = c[MaxItems]
  BY DEF Total
<1> QED
  BY <1>2, <1>6, <1>7

(* An item that stands nowhere has no score.                               *)
LEMMA NoPlaceNoTotal ==
    ASSUME NEW ls, Inputs(ls), k \in Ks, NEW item, ~ Has(ls, item)
    PROVE  Total(ls, item) = 0
<1> DEFINE w == Weights(ls, item)
           z == [i \in 0..MaxItems |-> 0]
<1>1. \A place \in 1..MaxItems : w[place] = 0
  <2>1. \A place \in 1..MaxItems : Cardinality(Holding(ls, item, place)) = 0
    BY FS_EmptySet DEF Has
  <2>2. \A place \in 1..MaxItems : FusionPart!contribution(place - 1) \in Nat
    BY WeightFacts, ExactContribution
  <2>3. \A b \in Nat : 0 * b = 0
    OBVIOUS
  <2> QED
    BY <2>1, <2>2, <2>3, WeightFacts
<1>2. PICK f : Sums(f, w, MaxItems) /\ Total(ls, item) = f[MaxItems]
  BY TotalIsASum
<1> HIDE DEF w
<1>3. z = [i \in 0..MaxItems |-> IF i = 0 THEN 0 ELSE z[i - 1] + w[i]]
  <2>1. \A i \in 0..MaxItems : i # 0 => i \in 1..MaxItems /\ i - 1 \in 0..MaxItems
    BY FusionAssumption
  <2> QED
    BY <1>1, <2>1
<1> HIDE DEF z
<1>4. z = f
  BY <1>2, <1>3, FusionAssumption, SumsAreUnique
<1> QED
  BY <1>2, <1>4, FusionAssumption DEF z

(* One place more, after all others.                                       *)
Grown(ls, after, item, n, q) ==
    /\ Inputs(ls) /\ Inputs(after) /\ n \in Nat /\ q \in 1..MaxItems
    /\ \A x, p : Holding(after, x, p) = IF x = item /\ p = q THEN Holding(ls, x, p) \cup {n}
                                        ELSE Holding(ls, x, p)
    /\ \A x : \A p \in 1..MaxItems : \A i \in Holding(ls, x, p) : i < n \/ (i = n /\ p < q)

(* It adds its contribution to one item's sum, and leaves the others.      *)
LEMMA TotalsGrow ==
    ASSUME k \in Ks, NEW ls, NEW after, NEW item, NEW n, NEW q, Grown(ls, after, item, n, q)
    PROVE  \A x : Total(after, x)
                    = Total(ls, x) + IF x = item THEN FusionPart!contribution(q - 1) ELSE 0
<1> SUFFICES ASSUME NEW x
             PROVE  Total(after, x)
                      = Total(ls, x) + IF x = item THEN FusionPart!contribution(q - 1) ELSE 0
  OBVIOUS
<1> DEFINE w == Weights(ls, x)
           v == Weights(after, x)
           c == IF x = item THEN FusionPart!contribution(q - 1) ELSE 0
<1>1. Inputs(ls) /\ Inputs(after) /\ q \in 1..MaxItems /\ n \in Nat
  BY DEF Grown
<1>2. /\ w \in [1..MaxItems -> Nat]
      /\ \A p \in 1..MaxItems :
            /\ w[p] = Cardinality(Holding(ls, x, p)) * FusionPart!contribution(p - 1)
            /\ v[p] = Cardinality(Holding(after, x, p)) * FusionPart!contribution(p - 1)
            /\ FusionPart!contribution(p - 1) \in Nat
  BY <1>1, WeightFacts, ExactContribution
<1> HIDE DEF w, v
<1>3. \A p \in 1..MaxItems : p # q => v[p] = w[p]
  BY <1>2 DEF Grown
<1>4. v[q] = w[q] + c /\ c \in Nat
  <2>1. CASE x # item
    BY <1>1, <1>2, <2>1 DEF Grown
  <2>2. CASE x = item
    <3>1. Holding(after, x, q) = Holding(ls, x, q) \cup {n} /\ n \notin Holding(ls, x, q)
      BY <1>1, <2>2 DEF Grown
    <3>2. Cardinality(Holding(after, x, q)) = Cardinality(Holding(ls, x, q)) + 1
      BY <1>1, <3>1, HoldingIsFinite, FS_AddElement
    <3>3. \A a, b \in Nat : (a + 1) * b = a * b + b
      OBVIOUS
    <3>4. Cardinality(Holding(ls, x, q)) \in Nat
      BY <1>1, HoldingIsFinite
    <3> QED
      BY <1>1, <1>2, <2>2, <3>2, <3>3, <3>4
  <2> QED
    BY <2>1, <2>2
<1>5. PICK f : Sums(f, w, MaxItems) /\ Total(ls, x) = f[MaxItems]
  BY <1>1, TotalIsASum DEF w
<1>6. PICK g : Sums(g, v, MaxItems) /\ Total(after, x) = g[MaxItems]
  BY <1>1, TotalIsASum DEF v
<1> HIDE DEF c
<1>7. g[MaxItems] = f[MaxItems] + c
  <2>1. MaxItems \in Nat /\ w \in [1..MaxItems -> Nat] /\ q \in 1..MaxItems /\ c \in Nat
    BY <1>1, <1>2, <1>4, FusionAssumption
  <2>2. Sums(f, w, MaxItems) /\ Sums(g, v, MaxItems)
    BY <1>5, <1>6
  <2>3. IsMore(v[q], w[q], c) /\ \A i \in 1..MaxItems : i # q => v[i] = w[i]
    BY <1>3, <1>4 DEF IsMore
  <2>4. IsMore(g[MaxItems], f[MaxItems], c)
    BY <2>1, <2>2, <2>3, SumsGrow
  <2> QED
    BY <2>4 DEF IsMore
<1> QED
  BY <1>5, <1>6, <1>7 DEF c

(* It changes no earlier first place.                                      *)
LEMMA FirstsStay ==
    ASSUME NEW ls, NEW after, NEW item, NEW n, NEW q, Grown(ls, after, item, n, q)
    PROVE  /\ \A x : Has(after, x) <=> Has(ls, x) \/ x = item
           /\ \A x, y : First(ls, x, y) => First(after, x, y)
           /\ \A x : Has(ls, x) /\ ~ Has(ls, item) => First(after, x, item)
<1>1. /\ q \in 1..MaxItems /\ n \in Nat
      /\ \A x, p : Holding(ls, x, p) \subseteq Holding(after, x, p)
      /\ \A x, p : \A i \in Holding(after, x, p) :
             i \in Holding(ls, x, p) \/ (x = item /\ p = q /\ i = n)
      /\ n \in Holding(after, item, q)
      /\ \A x : \A p \in 1..MaxItems : \A i \in Holding(ls, x, p) : i < n \/ (i = n /\ p < q)
  BY DEF Grown
<1>2. \A x : Has(after, x) <=> Has(ls, x) \/ x = item
  BY <1>1 DEF Has
<1>3. ASSUME NEW x, NEW y, First(ls, x, y)
      PROVE  First(after, x, y)
  <2>1. PICK p \in 1..MaxItems : \E i \in Holding(ls, x, p) :
           \A r \in 1..MaxItems : \A j \in Holding(ls, y, r) : i < j \/ (i = j /\ p < r)
    BY <1>3 DEF First
  <2>2. PICK i \in Holding(ls, x, p) :
           \A r \in 1..MaxItems : \A j \in Holding(ls, y, r) : i < j \/ (i = j /\ p < r)
    BY <2>1
  <2>3. i \in Holding(after, x, p)
    BY <1>1
  <2>4. \A r \in 1..MaxItems : \A j \in Holding(after, y, r) : i < j \/ (i = j /\ p < r)
    BY <1>1, <2>2
  <2> QED
    BY <2>3, <2>4 DEF First
<1>4. ASSUME NEW x, Has(ls, x), ~ Has(ls, item)
      PROVE  First(after, x, item)
  <2>1. PICK p \in 1..MaxItems : \E i : i \in Holding(ls, x, p)
    BY <1>4 DEF Has
  <2>2. PICK i : i \in Holding(ls, x, p)
    BY <2>1
  <2>3. \A r \in 1..MaxItems : \A j \in Holding(after, item, r) : i < j \/ (i = j /\ p < r)
    <3>1. \A r \in 1..MaxItems : \A j \in Holding(after, item, r) : j = n /\ r = q
      BY <1>1, <1>4 DEF Has
    <3>2. i < n \/ (i = n /\ p < q)
      BY <1>1, <2>1, <2>2
    <3> QED
      BY <3>1, <3>2
  <2>4. i \in Holding(after, x, p)
    BY <1>1, <2>2
  <2> QED
    BY <2>3, <2>4 DEF First
<1> QED
  BY <1>2, <1>3, <1>4

(* An empty list more changes nothing.                                     *)
LEMMA SameHoldings ==
    ASSUME k \in Ks, NEW ls, NEW after, Inputs(ls), Inputs(after),
           \A x, p : Holding(after, x, p) = Holding(ls, x, p)
    PROVE  /\ \A x : Has(after, x) <=> Has(ls, x)
           /\ \A x, y : First(after, x, y) <=> First(ls, x, y)
           /\ \A x : Total(after, x) = Total(ls, x)
<1>1. ASSUME NEW x
      PROVE  Total(after, x) = Total(ls, x)
  <2> DEFINE w == Weights(ls, x)
             v == Weights(after, x)
  <2>1. w = v
    BY DEF Weights
  <2>2. PICK f : Sums(f, w, MaxItems) /\ Total(ls, x) = f[MaxItems]
    BY TotalIsASum
  <2>3. PICK g : Sums(g, v, MaxItems) /\ Total(after, x) = g[MaxItems]
    BY TotalIsASum
  <2> HIDE DEF w, v
  <2>4. g = [i \in 0..MaxItems |-> IF i = 0 THEN 0 ELSE g[i - 1] + w[i]]
    <3>1. g = [i \in 0..MaxItems |-> g[i]]
      BY <2>3 DEF Sums
    <3>2. \A i \in 0..MaxItems : g[i] = IF i = 0 THEN 0 ELSE g[i - 1] + w[i]
      BY <2>1, <2>3, FusionAssumption DEF Sums
    <3> QED
      BY <3>1, <3>2
  <2>5. g = f
    BY <2>2, <2>4, FusionAssumption, SumsAreUnique
  <2> QED
    BY <2>2, <2>3, <2>5
<1> QED
  BY <1>1 DEF Has, First

(* The inductive invariant of the loop: the slots are the items so far, in *)
(* the order in which they were first seen, and the scores their sums.     *)
FusionInv ==
    /\ k \in Ks /\ Inputs(lists) /\ Len(lists) <= MaxLists
    /\ order \in Seq(Items) /\ scores \in Seq(Nat) /\ Len(scores) = Len(order)
    /\ \A s, t \in DOMAIN order : order[s] = order[t] => s = t
    /\ \A x \in Items : Has(lists, x) <=> \E s \in DOMAIN order : order[s] = x
    /\ \A s \in DOMAIN order : scores[s] = Total(lists, order[s])
    /\ \A s, t \in DOMAIN order : s < t => First(lists, order[s], order[t])

(* A list is opened (src/fusion.rs:60).                                    *)
LEMMA NextListStep == FusionInv /\ FusionPart!NextList => FusionInv'
<1> SUFFICES ASSUME FusionInv, FusionPart!NextList
             PROVE  FusionInv'
  OBVIOUS
<1>1. /\ lists' = Append(lists, << >>) /\ k' = k /\ order' = order /\ scores' = scores
      /\ Len(lists) < MaxLists /\ k \in Ks /\ Inputs(lists)
  BY DEF FusionPart!NextList, FusionInv
<1> DEFINE n == Len(lists)
<1>2. DOMAIN lists = 1..n /\ n \in Nat
  BY <1>1, InputFacts
<1>3. /\ lists' \in Seq(Seq(Items)) /\ Len(lists') = n + 1 /\ DOMAIN lists' = 1..(n + 1)
      /\ \A i \in 1..n : lists'[i] = lists[i]
      /\ lists'[n + 1] = << >>
  <2>1. << >> \in Seq(Items) /\ lists \in Seq(Seq(Items))
    BY <1>1, EmptySeq DEF Inputs
  <2> QED
    BY <1>1, <2>1, AppendProperties, LenProperties
<1>4. Inputs(lists')
  BY <1>1, <1>2, <1>3, FusionAssumption, EmptySeq DEF Inputs
<1>5. \A x, p : Holding(lists', x, p) = Holding(lists, x, p)
  <2> SUFFICES ASSUME NEW x, NEW p
               PROVE  Holding(lists', x, p) = Holding(lists, x, p)
    OBVIOUS
  <2>1. DOMAIN lists'[n + 1] = {}
    BY <1>3
  <2>2. \A i \in 1..(n + 1) : i \in 1..n \/ i = n + 1
    BY <1>2
  <2> HIDE DEF n
  <2> QED
    BY <1>2, <1>3, <2>1, <2>2 DEF Holding
<1>6. /\ \A x : Has(lists', x) <=> Has(lists, x)
      /\ \A x, y : First(lists', x, y) <=> First(lists, x, y)
      /\ \A x : Total(lists', x) = Total(lists, x)
  BY <1>1, <1>4, <1>5, SameHoldings
<1>7. \A x : Total(lists, x)' = Total(lists', x)
  BY <1>1 DEF Total
<1>8. Len(lists') <= MaxLists
  BY <1>1, <1>2, <1>3, FusionAssumption
<1> QED
  BY <1>1, <1>4, <1>6, <1>7, <1>8 DEF FusionInv

(* An item stands at the next place of the last list.                      *)
LEMMA SeeItemGrows ==
    ASSUME NEW item \in Items, FusionInv, FusionPart!SeeItem(item)
    PROVE  LET n == Len(lists)
               q == Len(lists[n]) + 1
           IN  /\ Grown(lists, lists', item, n, q)
               /\ Len(lists') = Len(lists)
               /\ Len(FusionPart!Last(lists)) = q - 1
<1> DEFINE n == Len(lists)
           q == Len(lists[n]) + 1
           old == lists[n]
           new == Append(old, item)
<1>1. /\ k \in Ks /\ Inputs(lists) /\ lists # << >>
      /\ lists' = [lists EXCEPT ![n] = new]
      /\ Len(FusionPart!Last(lists)) < MaxItems
  BY DEF FusionPart!SeeItem, FusionInv
<1>2. FusionPart!Last(lists) = old
  BY DEF FusionPart!Last
<1>3. /\ DOMAIN lists = 1..n /\ n \in Nat /\ n \in 1..n
      /\ \A i \in 1..n : /\ lists[i] \in Seq(Items) /\ Len(lists[i]) \in 0..MaxItems
                           /\ DOMAIN lists[i] = 1..Len(lists[i])
  <2>1. DOMAIN lists = 1..n /\ n \in Nat
    BY <1>1, InputFacts
  <2>2. n # 0
    BY <1>1, EmptySeq DEF Inputs
  <2> QED
    BY <1>1, <2>1, <2>2, InputFacts
<1>4. /\ new \in Seq(Items) /\ Len(new) = q /\ DOMAIN new = 1..q /\ q \in 1..MaxItems
      /\ \A p \in 1..(q - 1) : new[p] = old[p]
      /\ new[q] = item /\ DOMAIN old = 1..(q - 1) /\ Len(old) = q - 1
  <2>1. old \in Seq(Items) /\ Len(old) \in 0..MaxItems /\ DOMAIN old = 1..Len(old)
    BY <1>3
  <2>2. q \in 1..MaxItems /\ Len(old) = q - 1 /\ q = Len(old) + 1
    BY <1>1, <1>2, <2>1, FusionAssumption
  <2> HIDE DEF old
  <2>3. /\ new \in Seq(Items) /\ Len(new) = Len(old) + 1
        /\ \A p \in 1..Len(old) : new[p] = old[p]
        /\ new[Len(old) + 1] = item
    BY <2>1, AppendProperties
  <2> HIDE DEF new, q
  <2>4. DOMAIN new = 1..Len(new)
    BY <2>3, LenProperties
  <2> QED
    BY <2>1, <2>2, <2>3, <2>4
<1> HIDE DEF new, old, q
<1>5. /\ DOMAIN lists' = 1..n /\ lists'[n] = new
      /\ \A i \in 1..n : i # n => lists'[i] = lists[i]
  BY <1>1, <1>3
<1>6. Inputs(lists') /\ Len(lists') = n
  <2>1. lists' \in Seq(Seq(Items)) /\ Len(lists') = n
    <3> HIDE DEF n
    <3>1. \A i \in 1..n : lists'[i] \in Seq(Items)
      BY <1>3, <1>4, <1>5
    <3>2. lists' \in [1..n -> Seq(Items)]
      BY <1>1, <1>3, <1>5, <3>1
    <3> QED
      BY <1>3, <3>2
  <2>2. \A i \in 1..n : Len(lists'[i]) <= MaxItems
    <3> HIDE DEF n
    <3>1. Len(new) <= MaxItems
      BY <1>4, FusionAssumption
    <3>2. \A i \in 1..n : Len(lists[i]) <= MaxItems
      BY <1>3, FusionAssumption
    <3> QED
      BY <1>5, <3>1, <3>2
  <2> HIDE DEF n
  <2> QED
    BY <2>1, <2>2 DEF Inputs
<1>7. \A x, p : Holding(lists', x, p) = IF x = item /\ p = q THEN Holding(lists, x, p) \cup {n}
                                        ELSE Holding(lists, x, p)
  <2> HIDE DEF n
  <2> SUFFICES ASSUME NEW x, NEW p
               PROVE  Holding(lists', x, p)
                        = IF x = item /\ p = q THEN Holding(lists, x, p) \cup {n}
                          ELSE Holding(lists, x, p)
    OBVIOUS
  <2>1. \A i \in 1..n : i # n => (i \in Holding(lists', x, p) <=> i \in Holding(lists, x, p))
    BY <1>3, <1>5 DEF Holding
  <2>2. n \in Holding(lists', x, p) <=> p \in 1..q /\ new[p] = x
    BY <1>3, <1>4, <1>5 DEF Holding
  <2>3. n \in Holding(lists, x, p) <=> p \in 1..(q - 1) /\ old[p] = x
    BY <1>3, <1>4 DEF Holding, old
  <2>4. \A i \in 1..q : i \in 1..(q - 1) \/ i = q
    BY <1>4
  <2>5. 1..(q - 1) \subseteq 1..q /\ q \in 1..q /\ q \notin 1..(q - 1)
    BY <1>4
  <2>6. n \in Holding(lists', x, p) <=> n \in Holding(lists, x, p) \/ (x = item /\ p = q)
    BY <1>4, <2>2, <2>3, <2>4, <2>5
  <2>7. Holding(lists', x, p) \subseteq 1..n /\ Holding(lists, x, p) \subseteq 1..n
    BY <1>3, <1>5 DEF Holding
  <2> QED
    BY <1>3, <2>1, <2>6, <2>7
<1>8. \A x : \A p \in 1..MaxItems : \A i \in Holding(lists, x, p) : i < n \/ (i = n /\ p < q)
  <2> SUFFICES ASSUME NEW x, NEW p \in 1..MaxItems, NEW i \in Holding(lists, x, p)
               PROVE  i < n \/ (i = n /\ p < q)
    OBVIOUS
  <2> HIDE DEF n
  <2>1. i \in 1..n /\ p \in 1..Len(lists[i])
    BY <1>3 DEF Holding
  <2>2. CASE i = n
    BY <1>4, <2>1, <2>2 DEF old
  <2>3. CASE i # n
    BY <1>3, <2>1, <2>3
  <2> QED
    BY <2>2, <2>3
<1>9. Grown(lists, lists', item, n, q)
  <2> HIDE DEF n
  <2> QED
    BY <1>1, <1>3, <1>4, <1>6, <1>7, <1>8 DEF Grown
<1> QED
  BY <1>2, <1>4, <1>6, <1>9 DEF q, old

(* An item is seen (src/fusion.rs:61-77).                                  *)
LEMMA SeeItemStep ==
    ASSUME NEW item \in Items, FusionInv, FusionPart!SeeItem(item)
    PROVE  FusionInv'
<1> DEFINE n == Len(lists)
           q == Len(lists[n]) + 1
           c == FusionPart!contribution(q - 1)
           found == { slot \in DOMAIN order : order[slot] = item }
<1>1. /\ Grown(lists, lists', item, n, q) /\ Len(lists') = Len(lists)
      /\ Len(FusionPart!Last(lists)) = q - 1
  BY SeeItemGrows
<1> HIDE DEF n, q
<1>2. /\ k' = k /\ k \in Ks /\ Inputs(lists) /\ Inputs(lists') /\ Len(lists') <= MaxLists
      /\ IF found # {}
         THEN /\ scores' = [slot \in DOMAIN scores |->
                               scores[slot] + IF slot \in found THEN c ELSE 0]
              /\ order' = order
         ELSE /\ order' = Append(order, item)
              /\ scores' = Append(scores, c)
  BY <1>1 DEF FusionPart!SeeItem, FusionInv, Grown
<1>3. /\ \A x : Total(lists', x) = Total(lists, x) + IF x = item THEN c ELSE 0
      /\ \A x : Total(lists, x)' = Total(lists', x)
  <2>1. \A x : Total(lists, x)' = Total(lists', x)
    BY <1>2 DEF Total
  <2> QED
    BY <1>1, <1>2, <2>1, TotalsGrow
<1>4. /\ \A x : Has(lists', x) <=> Has(lists, x) \/ x = item
      /\ \A x, y : First(lists, x, y) => First(lists', x, y)
      /\ \A x : Has(lists, x) /\ ~ Has(lists, item) => First(lists', x, item)
  BY <1>1, FirstsStay
<1>5. c \in Nat
  <2>1. q - 1 \in 0..(MaxItems - 1)
    BY <1>1, FusionAssumption DEF Grown
  <2> QED
    BY <1>2, <2>1, ExactContribution
<1>6. /\ order \in Seq(Items) /\ scores \in Seq(Nat) /\ Len(scores) = Len(order)
      /\ Len(order) \in Nat /\ DOMAIN order = 1..Len(order) /\ DOMAIN scores = 1..Len(order)
      /\ \A s \in DOMAIN order : order[s] \in Items /\ scores[s] \in Nat
  <2>1. order \in Seq(Items) /\ scores \in Seq(Nat) /\ Len(scores) = Len(order)
    BY DEF FusionInv
  <2> QED
    BY <2>1, LenProperties, ElementOfSeq
<1>7. /\ \A s, t \in DOMAIN order : order[s] = order[t] => s = t
      /\ \A x \in Items : Has(lists, x) <=> \E s \in DOMAIN order : order[s] = x
      /\ \A s \in DOMAIN order : scores[s] = Total(lists, order[s])
      /\ \A s, t \in DOMAIN order : s < t => First(lists, order[s], order[t])
  BY DEF FusionInv
<1> HIDE DEF c
<1>8. CASE found # {}
  <2>1. /\ order' = order /\ DOMAIN scores' = 1..Len(order)
        /\ \A s \in 1..Len(order) : scores'[s] = scores[s] + IF order[s] = item THEN c ELSE 0
    BY <1>2, <1>6, <1>8
  <2>2. \A s \in 1..Len(order) : scores'[s] \in Nat
    BY <1>5, <1>6, <2>1
  <2>3. scores' \in Seq(Nat) /\ Len(scores') = Len(order')
    <3>1. scores' \in [1..Len(order) -> Nat]
      BY <1>2, <1>6, <1>8, <2>1, <2>2
    <3> QED
      BY <1>6, <2>1, <3>1
  <2>4. \A x \in Items : Has(lists', x) <=> \E s \in DOMAIN order' : order'[s] = x
    <3>1. Has(lists, item)
      BY <1>7, <1>8
    <3> QED
      BY <1>4, <1>7, <2>1, <3>1
  <2>5. \A s \in DOMAIN order' : scores'[s] = Total(lists', order'[s])
    BY <1>3, <1>6, <1>7, <2>1
  <2>6. \A s, t \in DOMAIN order' : s < t => First(lists', order'[s], order'[t])
    BY <1>4, <1>7, <2>1
  <2>7. (\A s \in DOMAIN order : scores[s] = Total(lists, order[s]))'
    BY <1>3, <2>5
  <2>8. \A s, t \in DOMAIN order' : order'[s] = order'[t] => s = t
    BY <1>7, <2>1
  <2>9. order' \in Seq(Items)
    BY <1>6, <2>1
  <2> QED
    BY <1>2, <2>3, <2>4, <2>6, <2>7, <2>8, <2>9 DEF FusionInv
<1>9. CASE found = {}
  <2> DEFINE m == Len(order)
  <2>1. ~ Has(lists, item) /\ \A s \in 1..m : order[s] # item
    BY <1>6, <1>7, <1>9
  <2>2. /\ order' \in Seq(Items) /\ Len(order') = m + 1 /\ DOMAIN order' = 1..(m + 1)
        /\ \A s \in 1..m : order'[s] = order[s]
        /\ order'[m + 1] = item
    <3>1. order' = Append(order, item) /\ order \in Seq(Items)
      BY <1>2, <1>6, <1>9
    <3> QED
      BY <1>6, <3>1, AppendProperties, LenProperties
  <2>3. /\ scores' \in Seq(Nat) /\ Len(scores') = m + 1
        /\ \A s \in 1..m : scores'[s] = scores[s]
        /\ scores'[m + 1] = c
    <3>1. scores' = Append(scores, c) /\ scores \in Seq(Nat) /\ Len(scores) = m
      BY <1>2, <1>6, <1>9
    <3> HIDE DEF m
    <3> QED
      BY <1>5, <3>1, AppendProperties
  <2>4. Total(lists, item) = 0
    BY <1>2, <2>1, NoPlaceNoTotal
  <2>5. \A s \in 1..(m + 1) : s \in 1..m \/ s = m + 1
    BY <1>6
  <2>6. m \in Nat /\ m + 1 \in 1..(m + 1) /\ 1..m \subseteq 1..(m + 1)
    BY <1>6
  <2> HIDE DEF m
  <2>7. \A s, t \in DOMAIN order' : order'[s] = order'[t] => s = t
    BY <1>6, <1>7, <2>1, <2>2, <2>5, <2>6 DEF m
  <2>8. \A x \in Items : Has(lists', x) <=> \E s \in DOMAIN order' : order'[s] = x
    BY <1>4, <1>6, <1>7, <2>1, <2>2, <2>5, <2>6 DEF m
  <2>9. \A s \in DOMAIN order' : scores'[s] = Total(lists', order'[s])
    <3>1. \A s \in 1..m : scores'[s] = Total(lists', order'[s])
      <4>1. \A s \in 1..m : order'[s] # item /\ scores'[s] = Total(lists, order'[s])
                            /\ scores[s] \in Nat
        BY <1>6, <1>7, <2>1, <2>2, <2>3 DEF m
      <4>2. \A x : x # item => Total(lists', x) = Total(lists, x) + 0
        BY <1>3
      <4> QED
        BY <2>3, <4>1, <4>2
    <3>2. scores'[m + 1] = Total(lists', order'[m + 1])
      BY <1>3, <1>5, <2>2, <2>3, <2>4
    <3> QED
      BY <2>2, <2>5, <3>1, <3>2
  <2>10. ASSUME NEW s \in DOMAIN order', NEW t \in DOMAIN order', s < t
         PROVE  First(lists', order'[s], order'[t])
    <3>1. s \in 1..m
      BY <2>2, <2>5, <2>6, <2>10
    <3>2. order'[s] = order[s] /\ Has(lists, order[s])
      BY <1>6, <1>7, <2>2, <3>1 DEF m
    <3>3. CASE t = m + 1
      BY <1>4, <2>1, <2>2, <3>2, <3>3
    <3>4. CASE t \in 1..m
      BY <1>4, <1>6, <1>7, <2>2, <2>10, <3>1, <3>2, <3>4 DEF m
    <3> QED
      BY <2>2, <2>5, <3>3, <3>4
  <2>11. (\A s \in DOMAIN order : scores[s] = Total(lists, order[s]))'
    BY <1>3, <2>9
  <2> QED
    BY <1>2, <2>2, <2>3, <2>7, <2>8, <2>10, <2>11 DEF FusionInv
<1> QED
  BY <1>8, <1>9

(* In the beginning there is no list.                                      *)
LEMMA FusionInit == FusionPart!Init => FusionInv
<1> SUFFICES ASSUME FusionPart!Init
             PROVE  FusionInv
  OBVIOUS
<1>1. k \in Ks /\ lists = << >> /\ order = << >> /\ scores = << >>
  BY DEF FusionPart!Init
<1>2. Inputs(lists) /\ Len(lists) <= MaxLists /\ DOMAIN lists = {}
  BY <1>1, EmptySeq, FusionAssumption DEF Inputs
<1>3. \A x : ~ Has(lists, x)
  BY <1>2 DEF Has, Holding
<1>4. order \in Seq(Items) /\ scores \in Seq(Nat) /\ Len(scores) = Len(order) /\ DOMAIN order = {}
  BY <1>1, EmptySeq
<1> QED
  BY <1>1, <1>2, <1>3, <1>4 DEF FusionInv

(* Every step of the loop keeps the invariant.                             *)
LEMMA FusionInvStep == FusionInv /\ [FusionPart!Next]_FusionPart!vars => FusionInv'
<1> SUFFICES ASSUME FusionInv, [FusionPart!Next]_FusionPart!vars
             PROVE  FusionInv'
  OBVIOUS
<1>1. CASE UNCHANGED FusionPart!vars
  BY <1>1 DEF FusionPart!vars, FusionInv, Total, Inputs
<1> QED
  BY <1>1, NextListStep, SeeItemStep DEF FusionPart!Next

-----------------------------------------------------------------------------
(* Fusion's names for the lists and sums.                                  *)
LEMMA FusionNames ==
    /\ \A x, p : FusionPart!ListsAt(x, p) = Holding(lists, x, p)
    /\ \A x : FusionPart!Sum(x) = Total(lists, x)
    /\ \A x, y : FusionPart!SeenBefore(x, y) <=> First(lists, x, y)
    /\ \A x : FusionPart!ListsWith(x) # {} <=> Has(lists, x)
<1>1. \A x, p : FusionPart!ListsAt(x, p) = Holding(lists, x, p)
  BY DEF FusionPart!ListsAt, Holding
<1>2. \A x : FusionPart!Sum(x) = Total(lists, x)
  BY FusionCardinality DEF FusionPart!Sum, Total, FusionPart!ListsAt, Holding
<1>3. \A x, y : FusionPart!SeenBefore(x, y) <=> First(lists, x, y)
  BY DEF FusionPart!SeenBefore, First, FusionPart!ListsAt, Holding
<1>4. \A x : FusionPart!ListsWith(x) # {} <=> Has(lists, x)
  BY <1>1 DEF FusionPart!ListsWith, Has
<1> QED
  BY <1>1, <1>2, <1>3, <1>4

(* What comes first does not come second.                                  *)
LEMMA FirstIsStrict ==
    ASSUME NEW ls, Inputs(ls), NEW x, NEW y, First(ls, x, y)
    PROVE  ~ First(ls, y, x)
<1> SUFFICES ASSUME First(ls, y, x)
             PROVE  FALSE
  OBVIOUS
<1>1. PICK p \in 1..MaxItems : \E i \in Holding(ls, x, p) :
         \A q \in 1..MaxItems : \A j \in Holding(ls, y, q) : i < j \/ (i = j /\ p < q)
  BY DEF First
<1>2. PICK i \in Holding(ls, x, p) :
         \A q \in 1..MaxItems : \A j \in Holding(ls, y, q) : i < j \/ (i = j /\ p < q)
  BY <1>1
<1>3. PICK q \in 1..MaxItems : \E j \in Holding(ls, y, q) :
         \A r \in 1..MaxItems : \A h \in Holding(ls, x, r) : j < h \/ (j = h /\ q < r)
  BY DEF First
<1>4. PICK j \in Holding(ls, y, q) :
         \A r \in 1..MaxItems : \A h \in Holding(ls, x, r) : j < h \/ (j = h /\ q < r)
  BY <1>3
<1>5. (i < j \/ (i = j /\ p < q)) /\ (j < i \/ (j = i /\ q < p))
  BY <1>2, <1>4
<1>6. i \in 1..Len(ls) /\ j \in 1..Len(ls) /\ Len(ls) \in Nat
  BY HoldingIsFinite, InputFacts
<1> QED
  BY <1>5, <1>6

(* The sort (src/fusion.rs:79-86).                                         *)
Better(s, t) == scores[s] > scores[t] \/ (scores[s] = scores[t] /\ s < t)
Sorting == { p \in FusionPart!SlotPairs : Better(p[1], p[2]) }

(* The comparison orders the slots totally.                                *)
LEMMA SortingIsTotal ==
    ASSUME FusionInv
    PROVE  /\ StrictTotalOrder(Sorting, DOMAIN order)
           /\ \A s, t \in DOMAIN order : <<s, t>> \in Sorting <=> Better(s, t)
           /\ DOMAIN order = 1..Len(order) /\ Len(order) \in Nat
           /\ IsFiniteSet(DOMAIN order) /\ Cardinality(DOMAIN order) = Len(order)
<1>1. /\ DOMAIN order = 1..Len(order) /\ Len(order) \in Nat
      /\ \A s \in DOMAIN order : scores[s] \in Nat
  <2>1. order \in Seq(Items) /\ scores \in Seq(Nat) /\ Len(scores) = Len(order)
    BY DEF FusionInv
  <2> QED
    BY <2>1, LenProperties, ElementOfSeq
<1>2. \A s, t \in DOMAIN order : <<s, t>> \in Sorting <=> Better(s, t)
  BY DEF Sorting, FusionPart!SlotPairs
<1>3. /\ \A s \in DOMAIN order : ~ Better(s, s)
      /\ \A r, s, t \in DOMAIN order : Better(r, s) /\ Better(s, t) => Better(r, t)
      /\ \A s, t \in DOMAIN order : s # t => Better(s, t) \/ Better(t, s)
  BY <1>1 DEF Better
<1>4. StrictTotalOrder(Sorting, DOMAIN order)
  BY <1>2, <1>3 DEF StrictTotalOrder
<1>5. IsFiniteSet(DOMAIN order) /\ Cardinality(DOMAIN order) = Len(order)
  <2> DEFINE m == Len(order)
  <2>1. m \in Int /\ DOMAIN order = 1..m
    BY <1>1
  <2> HIDE DEF m
  <2>2. IsFiniteSet(1..m) /\ Cardinality(1..m) = IF 1 > m THEN 0 ELSE m - 1 + 1
    BY <2>1, FS_Interval
  <2> QED
    BY <1>1, <2>1, <2>2 DEF m
<1> QED
  BY <1>1, <1>2, <1>4, <1>5

(* The output is the items by the places of their slots.                   *)
SlotAt(n) == CHOOSE s \in DOMAIN order : Place(Sorting, DOMAIN order, s) = n - 1

(* The n-th item of the output is that of the slot with n - 1 before it.   *)
LEMMA FusedBySlots ==
    ASSUME FusionInv
    PROVE  /\ DOMAIN FusionPart!fused = DOMAIN order
           /\ \A n \in DOMAIN order : /\ FusionPart!fused[n] = order[SlotAt(n)]
                                       /\ SlotAt(n) \in DOMAIN order
                                       /\ Place(Sorting, DOMAIN order, SlotAt(n)) = n - 1
           /\ \A s \in DOMAIN order : \E n \in DOMAIN order : SlotAt(n) = s
<1> DEFINE S == DOMAIN order
           Pl(s) == Place(Sorting, S, s)
<1>1. /\ StrictTotalOrder(Sorting, S) /\ IsFiniteSet(S) /\ Cardinality(S) = Len(order)
      /\ S = 1..Len(order) /\ Len(order) \in Nat
  BY SortingIsTotal
<1>2. FusionPart!fused = [n \in S |-> order[SlotAt(n)]]
  <2>1. \A s \in S : FusionPart!Cardinality({ t \in S : <<t, s>> \in Sorting }) = Pl(s)
    BY FusionCardinality DEF Place, Below
  <2>2. Sorting = { p \in FusionPart!SlotPairs :
                      \/ scores[p[1]] > scores[p[2]]
                      \/ scores[p[1]] = scores[p[2]] /\ p[1] < p[2] }
    BY DEF Sorting, Better
  <2>3. FusionPart!fused = FusionPart!Arranged(Sorting)
    BY <2>2 DEF FusionPart!fused
  <2>4. \A n \in S : SlotAt(n)
           = CHOOSE s \in S : FusionPart!Cardinality({ t \in S : <<t, s>> \in Sorting }) = n - 1
    BY <2>1 DEF SlotAt
  <2>5. FusionPart!Arranged(Sorting)
          = [n \in S |-> order[CHOOSE s \in S :
               FusionPart!Cardinality({ t \in S : <<t, s>> \in Sorting }) = n - 1]]
    BY DEF FusionPart!Arranged
  <2> QED
    BY <2>3, <2>4, <2>5
<1>3. ASSUME NEW n \in S
      PROVE  SlotAt(n) \in S /\ Pl(SlotAt(n)) = n - 1
  <2>1. n - 1 \in 0..(Cardinality(S) - 1)
    BY <1>1
  <2>2. \A m \in 0..(Cardinality(S) - 1) : \E s \in S : Pl(s) = m
    BY <1>1, PlacesAreTaken
  <2>3. \E s \in S : Pl(s) = n - 1
    BY <2>1, <2>2
  <2> QED
    BY <2>3 DEF SlotAt
<1>4. ASSUME NEW s \in S
      PROVE  \E n \in S : SlotAt(n) = s
  <2> DEFINE n == Pl(s) + 1
  <2>1. Pl(s) \in 0..(Cardinality(S) - 1)
    BY <1>1, PlaceType
  <2>2. n \in S /\ n - 1 = Pl(s)
    BY <1>1, <2>1
  <2>3. SlotAt(n) \in S /\ Pl(SlotAt(n)) = Pl(s)
    BY <1>3, <2>2
  <2>4. SlotAt(n) = s
    BY <1>1, <2>3, PlacesOrder
  <2> QED
    BY <2>2, <2>4
<1> QED
  BY <1>2, <1>3, <1>4

(* Who is ahead has the better slot, by sum and then by first place.       *)
LEMMA AheadIsBetter ==
    ASSUME FusionInv, NEW s \in DOMAIN order, NEW t \in DOMAIN order
    PROVE  FusionPart!Ahead(order[s], order[t]) <=> Better(s, t)
<1> DEFINE S == DOMAIN order
           Pl(r) == Place(Sorting, S, r)
<1>1. /\ StrictTotalOrder(Sorting, S) /\ IsFiniteSet(S)
      /\ S = 1..Len(order) /\ Len(order) \in Nat
      /\ <<s, t>> \in Sorting <=> Better(s, t)
      /\ \A r, u \in S : order[r] = order[u] => r = u
  BY SortingIsTotal DEF FusionInv
<1>2. <<s, t>> \in Sorting <=> Pl(s) < Pl(t)
  BY <1>1, PlacesOrder
<1>3. /\ DOMAIN FusionPart!fused = S
      /\ \A n \in S : /\ FusionPart!fused[n] = order[SlotAt(n)] /\ SlotAt(n) \in S
                       /\ Pl(SlotAt(n)) = n - 1
      /\ \A r \in S : \E n \in S : SlotAt(n) = r
  BY FusedBySlots
<1> HIDE DEF Pl, S
<1>4. ASSUME FusionPart!Ahead(order[s], order[t])
      PROVE  Pl(s) < Pl(t)
  <2>1. PICK i \in S, j \in S : i < j /\ FusionPart!fused[i] = order[s]
                                      /\ FusionPart!fused[j] = order[t]
    BY <1>3, <1>4 DEF FusionPart!Ahead
  <2>2. SlotAt(i) = s /\ SlotAt(j) = t
    BY <1>1, <1>3, <2>1 DEF S
  <2>3. Pl(s) = i - 1 /\ Pl(t) = j - 1 /\ i \in Nat /\ j \in Nat
    BY <1>1, <1>3, <2>2
  <2> QED
    BY <2>1, <2>3
<1>5. ASSUME Pl(s) < Pl(t)
      PROVE  FusionPart!Ahead(order[s], order[t])
  <2>1. PICK i \in S : SlotAt(i) = s
    BY <1>3 DEF S
  <2>2. PICK j \in S : SlotAt(j) = t
    BY <1>3 DEF S
  <2>3. Pl(s) = i - 1 /\ Pl(t) = j - 1 /\ i \in Nat /\ j \in Nat
    BY <1>1, <1>3, <2>1, <2>2
  <2>4. i < j
    BY <1>5, <2>3
  <2> QED
    BY <1>3, <2>1, <2>2, <2>4 DEF FusionPart!Ahead
<1> QED
  BY <1>1, <1>2, <1>4, <1>5

(* Every item is in one slot.                                              *)
LEMMA PresentItems ==
    ASSUME FusionInv
    PROVE  /\ \A s \in DOMAIN order : order[s] \in FusionPart!present
           /\ \A x \in FusionPart!present : \E s \in DOMAIN order : order[s] = x
           /\ Cardinality(FusionPart!present) = Len(order)
<1> DEFINE S == DOMAIN order
           here == FusionPart!present
<1>1. \A s \in S : order[s] \in Items
  BY ElementOfSeq, LenProperties DEF FusionInv
<1>2. here = { x \in Items : \E s \in S : order[s] = x }
  BY FusionNames DEF FusionPart!present, FusionInv
<1>3. IsFiniteSet(S) /\ Cardinality(S) = Len(order)
  BY SortingIsTotal
<1>4. order \in Bijection(S, here)
  <2>1. order \in [S -> here]
    <3>1. order = [s \in S |-> order[s]]
      BY LenProperties, SortingIsTotal DEF FusionInv
    <3> QED
      BY <1>1, <1>2, <3>1
  <2>2. \A s, t \in S : order[s] = order[t] => s = t
    BY DEF FusionInv
  <2>3. \A x \in here : \E s \in S : order[s] = x
    BY <1>2
  <2> HIDE DEF S, here
  <2> QED
    BY <2>1, <2>2, <2>3 DEF Bijection, Injection, IsInjective, Surjection
<1>5. Cardinality(here) = Cardinality(S)
  BY <1>3, <1>4, FS_Bijection DEF ExistsBijection
<1> QED
  BY <1>1, <1>2, <1>3, <1>5

(* Who is ahead has the greater sum, or the same and was seen first.       *)
LEMMA AheadBySums ==
    ASSUME FusionInv, NEW x \in FusionPart!present, NEW y \in FusionPart!present
    PROVE  FusionPart!Ahead(x, y) <=>
             Total(lists, x) > Total(lists, y)
               \/ (Total(lists, x) = Total(lists, y) /\ First(lists, x, y))
<1>1. PICK s \in DOMAIN order : order[s] = x
  BY PresentItems
<1>2. PICK t \in DOMAIN order : order[t] = y
  BY PresentItems
<1>3. scores[s] = Total(lists, x) /\ scores[t] = Total(lists, y)
  BY <1>1, <1>2 DEF FusionInv
<1>4. s < t <=> First(lists, x, y)
  <2>1. \A a, b \in DOMAIN order : a < b => First(lists, order[a], order[b])
    BY DEF FusionInv
  <2>2. s < t => First(lists, x, y)
    BY <1>1, <1>2, <2>1
  <2>3. t < s => First(lists, y, x)
    BY <1>1, <1>2, <2>1
  <2>4. First(lists, x, y) => ~ First(lists, y, x)
    BY FirstIsStrict DEF FusionInv
  <2>5. s = t => x = y
    BY <1>1, <1>2
  <2>6. s < t \/ t < s \/ s = t
    BY SortingIsTotal
  <2> QED
    BY <2>2, <2>3, <2>4, <2>5, <2>6
<1> QED
  BY <1>1, <1>2, <1>3, <1>4, AheadIsBetter DEF Better

(* What the invariant says of the sorted output.                           *)
LEMMA FusionInvSums == FusionInv => FusionPart!FusionIsBySums
<1> SUFFICES ASSUME FusionInv
             PROVE  FusionPart!FusionIsBySums
  OBVIOUS
<1> DEFINE out == FusionPart!fused
           here == FusionPart!present
<1>1. /\ DOMAIN out = 1..Len(order) /\ Len(order) \in Nat
      /\ \A n \in DOMAIN out : out[n] \in here
      /\ \A x \in here : \E n \in DOMAIN out : out[n] = x
  BY SortingIsTotal, FusedBySlots, PresentItems
<1>2. Len(out) = Len(order)
  <2>1. out = [n \in DOMAIN order |-> out[n]]
    BY FusedBySlots DEF FusionPart!fused, FusionPart!Arranged
  <2> HIDE DEF out
  <2>2. out \in [1..Len(order) -> here]
    BY <1>1, <2>1, FusedBySlots DEF out
  <2> QED
    BY <1>1, <2>2
<1>3. { out[n] : n \in DOMAIN out } = here
  BY <1>1
<1>4. Len(out) = FusionPart!Cardinality(here)
  BY <1>2, PresentItems, FusionCardinality
<1>5. \A x, y \in here :
         FusionPart!Ahead(x, y) <=>
            FusionPart!Sum(x) > FusionPart!Sum(y)
              \/ (FusionPart!Sum(x) = FusionPart!Sum(y) /\ FusionPart!SeenBefore(x, y))
  BY AheadBySums, FusionNames
<1> QED
  BY <1>3, <1>4, <1>5 DEF FusionPart!FusionIsBySums

-----------------------------------------------------------------------------
(* A sum of a items of at least U/(k + M) is more than one of b < a items  *)
(* of at most U/k, if k is more than L * M and a at most L.                *)
LEMMA MoreOutranks ==
    ASSUME NEW a \in Nat, NEW b \in Nat, NEW X \in Nat, NEW Y \in Nat, NEW U \in Nat \ {0},
           NEW n \in Nat, NEW M \in Nat, NEW L \in Nat,
           b < a, a <= L, n > L * M, a * U <= X * (n + M), Y * n <= b * U
    PROVE  X > Y
<1> SUFFICES ASSUME X <= Y
             PROVE  FALSE
  OBVIOUS
<1>1. \A p, q, r \in Nat : p <= q => p * r <= q * r
  OBVIOUS
<1>2. (b + 1) * U <= a * U /\ X * (n + M) <= Y * (n + M)
  BY <1>1
<1>3. (b + 1) * U = b * U + U /\ Y * (n + M) = Y * n + Y * M
  OBVIOUS
<1>4. b * U \in Nat /\ Y * n \in Nat /\ Y * M \in Nat /\ a * U \in Nat /\ X * (n + M) \in Nat
      /\ (b + 1) * U \in Nat /\ Y * (n + M) \in Nat
  OBVIOUS
<1>5. U <= Y * M
  BY <1>2, <1>3, <1>4
<1>6. U * n <= (Y * M) * n
  BY <1>1, <1>4, <1>5
<1>7. (Y * n) * M <= (b * U) * M
  BY <1>1, <1>4
<1>8. (Y * M) * n = (Y * n) * M /\ (b * U) * M = (b * M) * U /\ U * n = n * U
  OBVIOUS
<1>9. b * M <= L * M /\ b * M \in Nat /\ L * M \in Nat
  BY <1>1
<1>10. b * M + 1 <= n
  BY <1>9
<1>11. (b * M + 1) * U <= n * U
  BY <1>1, <1>9, <1>10
<1>12. (b * M + 1) * U = (b * M) * U + U
  BY <1>9
<1>13. /\ (b * M) * U \in Nat /\ n * U \in Nat /\ (Y * n) * M \in Nat
  BY <1>4, <1>9
<1> QED
  BY <1>6, <1>7, <1>8, <1>11, <1>12, <1>13

(* f is a sum of g contributions, each between a Unit/e and a Unit/d.      *)
Within(f, g, d, e) == f * d <= g * Unit /\ g * Unit <= f * e

(* Sums of such bounds are bounds of the sum.                              *)
LEMMA WithinGrows ==
    ASSUME NEW f \in Nat, NEW g \in Nat, NEW n \in Nat, NEW c \in Nat, NEW d \in Nat, NEW e \in Nat,
           Unit \in Nat, Within(f, g, d, e), Within(c, 1, d, e)
    PROVE  Within(f + n * c, g + n, d, e)
<1>1. f * d <= g * Unit /\ g * Unit <= f * e /\ c * d <= Unit /\ Unit <= c * e
  BY DEF Within
<1>2. \A p, q \in Nat : p <= q => n * p <= n * q
  OBVIOUS
<1>3. /\ f * d \in Nat /\ g * Unit \in Nat /\ f * e \in Nat /\ c * d \in Nat /\ c * e \in Nat
      /\ n * (c * d) \in Nat /\ n * Unit \in Nat /\ n * (c * e) \in Nat
  OBVIOUS
<1>4. n * (c * d) <= n * Unit /\ n * Unit <= n * (c * e)
  BY <1>1, <1>2, <1>3
<1>5. /\ (f + n * c) * d = f * d + n * (c * d)
      /\ (f + n * c) * e = f * e + n * (c * e)
      /\ (g + n) * Unit = g * Unit + n * Unit
  OBVIOUS
<1>6. /\ (f + n * c) * d <= (g + n) * Unit
      /\ (g + n) * Unit <= (f + n * c) * e
  BY <1>1, <1>3, <1>4, <1>5
<1> QED
  BY <1>6 DEF Within

(* One contribution is between a Unit/(k + MaxItems) and a Unit/k.         *)
LEMMA ContributionIsWithin ==
    ASSUME k \in Ks, NEW rank \in 0..(MaxItems - 1)
    PROVE  Within(FusionPart!contribution(rank), 1, k, k + MaxItems)
<1> DEFINE c == FusionPart!contribution(rank)
<1>1. c \in Nat /\ c * (k + rank) = Unit /\ k \in Nat /\ rank \in Nat /\ MaxItems \in Nat
      /\ rank <= MaxItems /\ Unit \in Nat
  BY ExactContribution, FusionAssumption
<1> HIDE DEF c
<1>2. c * (k + rank) = c * k + c * rank /\ c * (k + MaxItems) = c * k + c * MaxItems
  BY <1>1
<1>3. c * rank \in Nat /\ c * k \in Nat /\ c * MaxItems \in Nat /\ c * rank <= c * MaxItems
  BY <1>1
<1>4. 1 * Unit = Unit
  BY <1>1
<1> QED
  BY <1>1, <1>2, <1>3, <1>4 DEF Within, c

(* Where no list repeats an item, its score is between a whole Unit/(k +   *)
(* MaxItems) and a whole Unit/k for every list it is in.                   *)
Once(ls) == \A i \in DOMAIN ls : \A p, q \in DOMAIN ls[i] : ls[i][p] = ls[i][q] => p = q
Up(ls, item, p) == { i \in DOMAIN ls : \E q \in 1..p : i \in Holding(ls, item, q) }

(* The lists in which the item stands at one of the first p places: place  *)
(* by place, nobody is counted twice.                                      *)
LEMMA UpFacts ==
    ASSUME NEW ls, Inputs(ls), Once(ls), NEW item
    PROVE  /\ Cardinality(Up(ls, item, 0)) = 0
           /\ \A p \in 0..MaxItems : Cardinality(Up(ls, item, p)) \in 0..Len(ls)
           /\ \A p \in 0..(MaxItems - 1) :
                 Cardinality(Up(ls, item, p + 1))
                   = Cardinality(Up(ls, item, p)) + Cardinality(Holding(ls, item, p + 1))
<1>1. Up(ls, item, 0) = {}
  BY DEF Up
<1>2. /\ DOMAIN ls = 1..Len(ls) /\ Len(ls) \in Nat
      /\ IsFiniteSet(1..Len(ls)) /\ Cardinality(1..Len(ls)) = Len(ls)
  <2>1. DOMAIN ls = 1..Len(ls) /\ Len(ls) \in Nat
    BY InputFacts
  <2> DEFINE m == Len(ls)
  <2>2. m \in Int
    BY <2>1
  <2> HIDE DEF m
  <2>3. IsFiniteSet(1..m) /\ Cardinality(1..m) = IF 1 > m THEN 0 ELSE m - 1 + 1
    BY <2>2, FS_Interval
  <2> QED
    BY <2>1, <2>2, <2>3 DEF m
<1>3. ASSUME NEW p
      PROVE  /\ IsFiniteSet(Up(ls, item, p))
             /\ Cardinality(Up(ls, item, p)) \in Nat
             /\ Cardinality(Up(ls, item, p)) <= Len(ls)
  <2>1. Up(ls, item, p) \subseteq 1..Len(ls)
    BY <1>2 DEF Up
  <2> QED
    BY <1>2, <2>1, FS_Subset, FS_CardinalityType
<1>4. ASSUME NEW p \in 0..(MaxItems - 1)
      PROVE  Cardinality(Up(ls, item, p + 1))
               = Cardinality(Up(ls, item, p)) + Cardinality(Holding(ls, item, p + 1))
  <2> DEFINE A == Up(ls, item, p)
             B == Holding(ls, item, p + 1)
  <2>1. p \in Nat /\ MaxItems \in Nat
    BY FusionAssumption
  <2>2. Up(ls, item, p + 1) = A \cup B
    <3>1. \A q : q \in 1..(p + 1) <=> q \in 1..p \/ q = p + 1
      BY <2>1
    <3> QED
      BY <3>1 DEF Up, Holding
  <2>3. A \cap B = {}
    <3> SUFFICES ASSUME NEW i, i \in A, i \in B
                 PROVE  FALSE
      OBVIOUS
    <3>1. PICK q \in 1..p : i \in Holding(ls, item, q)
      BY DEF Up
    <3>2. q = p + 1
      BY <3>1 DEF Once, Holding
    <3> QED
      BY <2>1, <3>1, <3>2
  <2>4. IsFiniteSet(A) /\ IsFiniteSet(B) /\ Cardinality(A) \in Nat /\ Cardinality(B) \in Nat
    BY <1>3, HoldingIsFinite
  <2> HIDE DEF A, B
  <2>5. Cardinality(A \cup B) = Cardinality(A) + Cardinality(B) - Cardinality(A \cap B)
    BY <2>4, FS_Union
  <2>6. Cardinality(A \cap B) = 0
    BY <2>3, FS_EmptySet
  <2>7. Cardinality(A \cup B) = Cardinality(A) + Cardinality(B)
    BY <2>4, <2>5, <2>6
  <2> QED
    BY <2>2, <2>7 DEF A, B
<1>5. Cardinality(Up(ls, item, 0)) = 0
  BY <1>1, FS_EmptySet
<1>6. \A p \in 0..MaxItems : Cardinality(Up(ls, item, p)) \in 0..Len(ls)
  BY <1>2, <1>3
<1> QED
  BY <1>4, <1>5, <1>6

(* The bounds hold up to the last place.                                   *)
LEMMA TotalIsWithin ==
    ASSUME NEW ls, Inputs(ls), Once(ls), k \in Ks, NEW item
    PROVE  /\ Total(ls, item) \in Nat
           /\ Within(Total(ls, item), Cardinality(Up(ls, item, MaxItems)), k, k + MaxItems)
<1> DEFINE w == Weights(ls, item)
           G(p) == Cardinality(Up(ls, item, p))
<1>1. PICK f : Sums(f, w, MaxItems) /\ Total(ls, item) = f[MaxItems]
  BY TotalIsASum
<1>2. MaxItems \in Nat /\ k \in Nat /\ Unit \in Nat /\ k + MaxItems \in Nat
  BY FusionAssumption
<1> DEFINE P == { p \in 0..MaxItems : Within(f[p], G(p), k, k + MaxItems) }
<1>3. 0 \in P
  <2>1. f[0] = 0 /\ G(0) = 0
    BY <1>1, UpFacts DEF Sums
  <2>2. 0 * k <= 0 * Unit /\ 0 * Unit <= 0 * (k + MaxItems)
    BY <1>2
  <2> QED
    BY <1>2, <2>1, <2>2 DEF Within
<1>4. ASSUME NEW p \in P, p \in 0..(MaxItems - 1)
      PROVE  p + 1 \in P
  <2> DEFINE q == p + 1
             n == Cardinality(Holding(ls, item, q))
             c == FusionPart!contribution(p)
  <2>1. q \in 1..MaxItems /\ q \in 0..MaxItems /\ q - 1 = p /\ p \in 0..MaxItems
    BY <1>2, <1>4
  <2>2. n \in Nat
    BY HoldingIsFinite
  <2>3. c \in Nat /\ Within(c, 1, k, k + MaxItems)
    BY <1>4, ExactContribution, ContributionIsWithin
  <2>4. G(q) = G(p) + n
    BY <1>4, UpFacts
  <2>5. G(p) \in Nat
    <3>1. G(p) \in 0..Len(ls) /\ Len(ls) \in Nat
      BY <2>1, UpFacts, InputFacts
    <3> QED
      BY <3>1
  <2>6. f[q] = f[p] + n * c /\ f[p] \in Nat
    <3>1. w[q] = n * FusionPart!contribution(q - 1)
      BY <2>1, WeightFacts
    <3>2. f[q] = f[q - 1] + w[q] /\ f[p] \in Nat
      BY <1>1, <2>1 DEF Sums
    <3> HIDE DEF w, n, q
    <3> QED
      BY <2>1, <3>1, <3>2
  <2>7. Within(f[p], G(p), k, k + MaxItems)
    OBVIOUS
  <2> HIDE DEF G, n, c, q
  <2>8. Within(f[p] + n * c, G(p) + n, k, k + MaxItems)
    BY <1>2, <2>2, <2>3, <2>5, <2>6, <2>7, WithinGrows
  <2>9. q \in P
    BY <2>1, <2>4, <2>6, <2>8
  <2> QED
    BY <2>9 DEF q
<1> HIDE DEF P
<1>5. 0..MaxItems \subseteq P
  BY <1>2, <1>3, <1>4, UpToInduction
<1>6. MaxItems \in P
  BY <1>2, <1>5
<1>7. f[MaxItems] \in Nat
  BY <1>1, <1>2 DEF Sums
<1> QED
  BY <1>1, <1>6, <1>7 DEF P

(* So an item in more lists has the greater sum.                           *)
LEMMA FusionInvAgreement == FusionInv => FusionPart!AgreementOutranks
<1> SUFFICES ASSUME FusionInv, FusionPart!NoRepeats, k > MaxLists * MaxItems,
                    NEW x \in FusionPart!present, NEW y \in FusionPart!present,
                    FusionPart!Cardinality(FusionPart!ListsWith(x))
                      > FusionPart!Cardinality(FusionPart!ListsWith(y))
             PROVE  FusionPart!Ahead(x, y)
  BY DEF FusionPart!AgreementOutranks
<1> DEFINE in(z) == Cardinality(Up(lists, z, MaxItems))
<1>1. /\ Inputs(lists) /\ k \in Ks /\ Once(lists) /\ Len(lists) <= MaxLists
      /\ Len(lists) \in Nat
  <2>1. Inputs(lists) /\ k \in Ks /\ Len(lists) <= MaxLists
    BY DEF FusionInv
  <2> QED
    BY <2>1, InputFacts DEF FusionPart!NoRepeats, Once
<1>2. ASSUME NEW z
      PROVE  FusionPart!ListsWith(z) = Up(lists, z, MaxItems)
  BY FusionNames DEF FusionPart!ListsWith, Up, Holding
<1>3. in(x) > in(y)
  BY <1>2, FusionCardinality
<1>4. ASSUME NEW z
      PROVE  in(z) \in 0..Len(lists)
  <2>1. MaxItems \in 0..MaxItems
    BY FusionAssumption
  <2>2. \A p \in 0..MaxItems : Cardinality(Up(lists, z, p)) \in 0..Len(lists)
    BY <1>1, UpFacts
  <2> QED
    BY <2>1, <2>2
<1>5. \A z : /\ Total(lists, z) \in Nat
             /\ Within(Total(lists, z), in(z), k, k + MaxItems)
  BY <1>1, TotalIsWithin
<1>6. k \in Nat /\ MaxItems \in Nat /\ MaxLists \in Nat /\ Unit \in Nat \ {0}
  BY <1>1, FusionAssumption
<1> HIDE DEF in
<1>7. /\ in(x) \in Nat /\ in(y) \in Nat /\ in(y) < in(x) /\ in(x) <= MaxLists
  BY <1>1, <1>3, <1>4, <1>6
<1>8. /\ in(x) * Unit <= Total(lists, x) * (k + MaxItems)
      /\ Total(lists, y) * k <= in(y) * Unit
  BY <1>5 DEF Within
<1>9. Total(lists, x) > Total(lists, y)
  BY <1>5, <1>6, <1>7, <1>8, MoreOutranks
<1> QED
  BY <1>9, AheadBySums

-----------------------------------------------------------------------------
(* The invariant holds whenever this part runs.                            *)
LEMMA FusionInvariant == PartsSpec => [](part = "fusion" => FusionInv)
<1> DEFINE Inv == part = "fusion" => FusionInv
<1>1. PartsInit => Inv
  BY FusionInit DEF PartsInit
<1>2. Inv /\ [PartsNext]_vars => Inv'
  <2> SUFFICES ASSUME Inv, [PartsNext]_vars, part' = "fusion"
               PROVE  FusionInv'
    OBVIOUS
  <2>1. CASE FusionStep
    BY <2>1, FusionInvStep DEF FusionStep
  <2>2. CASE UNCHANGED <<part, fusionVars>>
    <3>1. part = "fusion" /\ UNCHANGED FusionPart!vars
      BY <2>2 DEF fusionVars, FusionPart!vars
    <3> QED
      BY <3>1, FusionInvStep
  <2> QED
    BY <2>1, <2>2 DEF PartsNext, ScopesStep, KeysStep, HexStep, FramesStep, SimStep,
       ConformanceStep, vars
<1> QED
  BY <1>1, <1>2, PTL DEF PartsSpec

(* For any number of lists of any lengths, and any k: every item comes out *)
(* once, ordered by the sums of 1/(k + rank) over all its places and then  *)
(* by where it was first seen (src/fusion.rs:39-44, 60-91).                *)
THEOREM FusionOrdersBySums == PartsSpec => []FusionIsBySums
<1>1. (part = "fusion" => FusionInv) => FusionIsBySums
  BY FusionInvSums DEF FusionIsBySums
<1> QED
  BY <1>1, FusionInvariant, PTL

(* For any lists in which no item comes twice, and k above the number of   *)
(* their places: an item in more lists than another comes out before it,   *)
(* whatever their places (the test at src/fusion.rs:125, for all inputs).  *)
THEOREM AgreementCountsMost == PartsSpec => []AgreementOutranks
<1>1. (part = "fusion" => FusionInv) => AgreementOutranks
  BY FusionInvAgreement DEF AgreementOutranks
<1> QED
  BY <1>1, FusionInvariant, PTL
=============================================================================
