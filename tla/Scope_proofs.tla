------------------------------ MODULE Scope_proofs ------------------------------
(***************************************************************************)
(* Theorems about Scope, through ScopePairs, for texts of any number of    *)
(* parts over any characters: what normalization promises, what matching   *)
(* means, and that the comparison of joined strings in contains is the     *)
(* comparison of segments.                                                 *)
(***************************************************************************)
EXTENDS ScopePairs, SequenceTheorems, OrderTheorems, TLAPS

-----------------------------------------------------------------------------
(* Min and Max are what they say.                                          *)
LEMMA MinIs ==
    ASSUME NEW S, S \subseteq Nat, NEW low \in S, \A i \in S : low <= i
    PROVE  Min(S) = low
<1>1. \A x \in S : (\A y \in S : x <= y) => x = low
  OBVIOUS
<1> QED
  BY <1>1 DEF Min

(* The other way round.                                                    *)
LEMMA MaxIs ==
    ASSUME NEW S, S \subseteq Nat, NEW high \in S, \A i \in S : i <= high
    PROVE  Max(S) = high
<1>1. \A x \in S : (\A y \in S : x >= y) => x = high
  OBVIOUS
<1> QED
  BY <1>1 DEF Max

(* A finite set of numbers has a least and a greatest.                     *)
LEMMA MinAndMax ==
    ASSUME NEW S, S \subseteq Nat, IsFiniteSet(S), S # {}
    PROVE  /\ Min(S) \in S /\ Max(S) \in S
           /\ \A i \in S : Min(S) <= i /\ i <= Max(S)
<1> DEFINE count == Cardinality(S)
           nth == [n \in 1..count |-> NthPlace(S, n)]
<1>1. count \in Nat \ {0}
  BY FS_CardinalityType, FS_EmptySet
<1>2. /\ \A n \in 1..count : nth[n] \in S
      /\ \A m, n \in 1..count : m < n => nth[m] < nth[n]
      /\ \A i \in S : \E n \in 1..count : nth[n] = i
  BY NthPlaces
<1> HIDE DEF count, nth
<1>3. 1 \in 1..count /\ count \in 1..count
  BY <1>1
<1>4. nth[1] \in S /\ nth[count] \in S
  BY <1>2, <1>3
<1>5. ASSUME NEW i \in S
      PROVE  nth[1] <= i /\ i <= nth[count]
  <2>1. PICK n \in 1..count : nth[n] = i
    BY <1>2
  <2>2. n = 1 \/ 1 < n
    BY <1>1
  <2>3. n = count \/ n < count
    BY <1>1
  <2>4. nth[1] = nth[n] \/ nth[1] < nth[n]
    BY <1>2, <1>3, <2>2
  <2>5. nth[n] = nth[count] \/ nth[n] < nth[count]
    BY <1>2, <1>3, <2>3
  <2>6. nth[1] \in Nat /\ nth[n] \in Nat /\ nth[count] \in Nat
    BY <1>2, <1>4
  <2>7. nth[1] <= nth[n] /\ nth[n] <= nth[count]
    BY <2>4, <2>5, <2>6
  <2> QED
    BY <2>1, <2>7
<1>6. Min(S) = nth[1]
  BY <1>4, <1>5, MinIs
<1>7. Max(S) = nth[count]
  BY <1>4, <1>5, MaxIs
<1> QED
  BY <1>4, <1>5, <1>6, <1>7

(* A segment: not empty, and bare at both ends.                            *)
Bare(segment) ==
    /\ segment \in Seq(Chars)
    /\ segment # << >>
    /\ segment[1] # Blank
    /\ segment[Len(segment)] # Blank

(* trim leaves nothing or a bare text (src/scope.rs:103).                  *)
LEMMA TrimIsBare ==
    ASSUME NEW part \in Seq(Chars)
    PROVE  trim(part) = << >> \/ Bare(trim(part))
<1> DEFINE letters == { i \in DOMAIN part : part[i] # Blank }
           low == Min(letters)
           high == Max(letters)
<1>1. Len(part) \in Nat /\ DOMAIN part = 1..Len(part) /\ \A i \in 1..Len(part) : part[i] \in Chars
  BY LenProperties, ElementOfSeq
<1>2. CASE letters = {}
  BY <1>2 DEF trim
<1>3. CASE letters # {}
  <2>1. letters \subseteq Nat /\ IsFiniteSet(letters)
    <3>1. IsFiniteSet(1..Len(part)) /\ letters \subseteq 1..Len(part)
      BY <1>1, FS_Interval
    <3> QED
      BY <3>1, FS_Subset
  <2>2. /\ low \in letters /\ high \in letters
        /\ \A i \in letters : low <= i /\ i <= high
    <3> HIDE DEF letters
    <3> QED
      BY <1>3, <2>1, MinAndMax
  <2>3. /\ low \in 1..Len(part) /\ high \in 1..Len(part) /\ low <= high
        /\ part[low] # Blank /\ part[high] # Blank
    BY <1>1, <2>2
  <2>4. trim(part) = SubSeq(part, low, high)
    BY <1>3 DEF trim
  <2> HIDE DEF low, high, letters
  <2>5. /\ SubSeq(part, low, high) \in Seq(Chars)
        /\ Len(SubSeq(part, low, high)) = high - low + 1
        /\ \A i \in 1..(high - low + 1) : SubSeq(part, low, high)[i] = part[low + i - 1]
    <3>1. low \in Int /\ high \in Int /\ \A i \in low..high : part[i] \in Chars
      BY <1>1, <2>3
    <3> QED
      BY <2>3, <3>1, SubSeqProperties
  <2>6. /\ 1 \in 1..(high - low + 1) /\ high - low + 1 \in 1..(high - low + 1)
        /\ low + 1 - 1 = low /\ low + (high - low + 1) - 1 = high
    BY <1>1, <2>3
  <2>7. Bare(SubSeq(part, low, high))
    <3>1. SubSeq(part, low, high)[1] = part[low]
      BY <2>5, <2>6
    <3>2. SubSeq(part, low, high)[high - low + 1] = part[high]
      BY <2>5, <2>6
    <3> QED
      BY <2>3, <2>5, <2>6, <3>1, <3>2, EmptySeq DEF Bare
  <2> QED
    BY <2>4, <2>7
<1> QED
  BY <1>2, <1>3

(* A bare text is left as it is.                                           *)
LEMMA BareStays ==
    ASSUME NEW segment, Bare(segment)
    PROVE  trim(segment) = segment
<1> DEFINE letters == { i \in DOMAIN segment : segment[i] # Blank }
           n == Len(segment)
<1>1. /\ segment \in Seq(Chars) /\ n \in Nat \ {0} /\ DOMAIN segment = 1..n
      /\ segment[1] # Blank /\ segment[n] # Blank
  BY LenProperties, EmptySeq DEF Bare
<1>2. 1 \in letters /\ n \in letters /\ \A i \in letters : 1 <= i /\ i <= n
  BY <1>1
<1>3. letters \subseteq Nat
  BY <1>1
<1>4. trim(segment) = SubSeq(segment, Min(letters), Max(letters))
  BY <1>2 DEF trim
<1> HIDE DEF letters, n
<1>5. Min(letters) = 1
  BY <1>2, <1>3, MinIs
<1>6. Max(letters) = n
  BY <1>2, <1>3, MaxIs
<1> QED
  BY <1>1, <1>4, <1>5, <1>6, SubSeqFull DEF n

-----------------------------------------------------------------------------
(* A normal form: bare segments.                                           *)
Normal(segments) ==
    /\ segments \in Seq(Seq(Chars))
    /\ \A i \in DOMAIN segments : Bare(segments[i])

(* What normalize_scope returns is one (src/scope.rs:99-108).              *)
LEMMA NormalizeIsNormal ==
    ASSUME NEW text \in Seq(Seq(Chars))
    PROVE  Normal(normalize_scope(text))
<1> DEFINE trimmed == Trimmed(text)
           places == NonEmpty(trimmed)
           count == Cardinality(places)
           normalized == normalize_scope(text)
<1>1. /\ Len(text) \in Nat /\ DOMAIN text = 1..Len(text)
      /\ \A i \in 1..Len(text) : text[i] \in Seq(Chars)
  BY LenProperties, ElementOfSeq
<1>2. DOMAIN trimmed = 1..Len(text) /\ \A i \in 1..Len(text) : trimmed[i] = trim(text[i])
  BY <1>1 DEF Trimmed
<1>3. places \subseteq 1..Len(text) /\ \A i \in places : Bare(trimmed[i])
  <2>1. \A i \in 1..Len(text) : trimmed[i] = << >> \/ Bare(trimmed[i])
    BY <1>1, <1>2, TrimIsBare
  <2> QED
    BY <1>2, <2>1 DEF NonEmpty
<1>4. IsFiniteSet(places)
  <2>1. IsFiniteSet(1..Len(text))
    BY <1>1, FS_Interval
  <2> QED
    BY <1>3, <2>1, FS_Subset
<1>5. count \in Nat /\ \A n \in 1..count : NthPlace(places, n) \in places
  <2>1. places \subseteq Nat
    BY <1>1, <1>3
  <2> HIDE DEF places
  <2> QED
    BY <1>4, <2>1, NthPlaces
<1>6. normalized = [n \in 1..count |-> trimmed[NthPlace(places, n)]]
  BY DEF normalize_scope, ElementsAt
<1> HIDE DEF trimmed, places, count, normalized
<1>7. \A n \in 1..count : Bare(trimmed[NthPlace(places, n)])
  BY <1>3, <1>5
<1>8. normalized \in [1..count -> Seq(Chars)]
  BY <1>6, <1>7 DEF Bare
<1>9. normalized \in Seq(Seq(Chars)) /\ DOMAIN normalized = 1..count
  BY <1>5, <1>8
<1>10. \A n \in DOMAIN normalized : Bare(normalized[n])
  BY <1>6, <1>7, <1>9
<1> QED
  BY <1>9, <1>10 DEF Normal, normalized

(* And normalize_scope leaves it as it is (src/scope.rs:99-108).           *)
LEMMA NormalStays ==
    ASSUME NEW segments, Normal(segments)
    PROVE  normalize_scope(segments) = segments
<1> DEFINE n == Len(segments)
<1>1. segments \in Seq(Seq(Chars)) /\ n \in Nat /\ DOMAIN segments = 1..n
  BY LenProperties DEF Normal
<1>2. segments = [i \in 1..n |-> segments[i]]
  BY <1>1
<1>3. Trimmed(segments) = segments
  <2>1. Trimmed(segments) = [i \in 1..n |-> trim(segments[i])]
    BY <1>1 DEF Trimmed
  <2>2. \A i \in 1..n : trim(segments[i]) = segments[i]
    BY <1>1, BareStays DEF Normal
  <2> HIDE DEF n
  <2> QED
    BY <1>2, <2>1, <2>2
<1>4. NonEmpty(segments) = 1..n
  BY <1>1 DEF NonEmpty, Normal, Bare
<1>5. Cardinality(1..n) = n
  BY <1>1, FS_Interval
<1>6. normalize_scope(segments) = [i \in 1..n |-> segments[NthPlace(1..n, i)]]
  <2> HIDE DEF n
  <2> QED
    BY <1>3, <1>4, <1>5, Zenon DEF normalize_scope, ElementsAt
<1>7. \A i \in 1..n : NthPlace(1..n, i) = i
  BY <1>1, AllPlaces
<1> HIDE DEF n
<1> QED
  BY <1>2, <1>6, <1>7

-----------------------------------------------------------------------------
(* What a joined string is written with.                                   *)
Written == Chars \cup {Slash}

(* The string V begins with the string P.                                  *)
Begins(P, V) == Len(P) <= Len(V) /\ \A i \in 1..Len(P) : P[i] = V[i]

(* IsPrefix is that, for sequences.                                        *)
LEMMA PrefixByPlace ==
    ASSUME NEW S, NEW P \in Seq(S), NEW V \in Seq(S)
    PROVE  IsPrefix(P, V) <=> Begins(P, V)
<1>1. Len(P) \in Nat /\ Len(V) \in Nat
  BY LenProperties
<1>2. SubSeq(P, 1, Len(P)) = P
  BY SubSeqFull
<1>3. ASSUME Len(P) <= Len(V)
      PROVE  SubSeq(V, 1, Len(P)) = P <=> \A i \in 1..Len(P) : P[i] = V[i]
  <2> DEFINE front == SubSeq(V, 1, Len(P))
  <2>1. /\ front \in Seq(S) /\ Len(front) = Len(P)
        /\ \A i \in 1..Len(P) : front[i] = V[i]
    <3>1. \A i \in 1..Len(P) : V[i] \in S
      BY <1>1, <1>3, ElementOfSeq
    <3>2. /\ front \in Seq(S)
          /\ Len(front) = IF 1 <= Len(P) THEN Len(P) - 1 + 1 ELSE 0
          /\ \A i \in 1..(Len(P) - 1 + 1) : front[i] = V[1 + i - 1]
      BY <1>1, <3>1, SubSeqProperties
    <3> HIDE DEF front
    <3> QED
      BY <1>1, <3>2
  <2> HIDE DEF front
  <2>2. (\A i \in 1..Len(P) : P[i] = V[i]) => front = P
    BY <2>1, SeqEqual
  <2> QED
    BY <2>1, <2>2 DEF front
<1> QED
  BY <1>1, <1>2, <1>3 DEF IsPrefix, Begins

(* A text begins with what its front begins with.                          *)
LEMMA BeginsTransitive ==
    ASSUME NEW S, NEW P \in Seq(S), NEW Q \in Seq(S), NEW V \in Seq(S),
           Begins(P, Q), Begins(Q, V)
    PROVE  Begins(P, V)
BY LenProperties DEF Begins

(* Of two texts of one length neither begins with the other, if they       *)
(* differ.                                                                 *)
LEMMA BeginsEqual ==
    ASSUME NEW S, NEW P \in Seq(S), NEW V \in Seq(S), Len(P) = Len(V)
    PROVE  Begins(P, V) <=> P = V
BY SeqEqual, LenProperties DEF Begins

-----------------------------------------------------------------------------
(* The strings of the first segments, each with its slash.                 *)
Stretches(w, s) ==
    /\ w \in [0..Len(s) -> Seq(Written)]
    /\ w[0] = << >>
    /\ \A i \in 1..Len(s) : w[i] = w[i - 1] \o s[i] \o <<Slash>>

(* The function that Joined is read off.                                   *)
JoinsUpTo(f, s, m) ==
    f = [n \in 0..m |-> IF n = 0 THEN << >>
                        ELSE IF n = 1 THEN s[1]
                        ELSE f[n - 1] \o <<Slash>> \o s[n]]

(* There is one.                                                           *)
LEMMA JoinsExist ==
    ASSUME NEW s \in Seq(Seq(Chars)), NEW n \in Nat, n <= Len(s)
    PROVE  \E f \in [0..n -> Seq(Written)] : JoinsUpTo(f, s, n)
<1> DEFINE P == { m \in Nat : m <= Len(s) =>
                     \E f \in [0..m -> Seq(Written)] : JoinsUpTo(f, s, m) }
<1>1. /\ Len(s) \in Nat
      /\ \A i \in 1..Len(s) : s[i] \in Seq(Chars) /\ s[i] \in Seq(Written)
      /\ <<Slash>> \in Seq(Written) /\ << >> \in Seq(Written)
  <2>1. \A i \in 1..Len(s) : s[i] \in Seq(Chars)
    BY ElementOfSeq
  <2>2. Seq(Chars) \subseteq Seq(Written)
    BY DEF Written
  <2>3. Len(s) \in Nat
    BY LenProperties
  <2>4. <<Slash>> \in Seq(Written) /\ << >> \in Seq(Written)
    BY DEF Written
  <2> QED
    BY <2>1, <2>2, <2>3, <2>4
<1>2. 0 \in P
  <2> DEFINE f == [i \in 0..0 |-> << >>]
  <2>1. f \in [0..0 -> Seq(Written)] /\ JoinsUpTo(f, s, 0)
    BY <1>1 DEF JoinsUpTo
  <2> QED
    BY <2>1
<1>3. ASSUME NEW m \in P
      PROVE  m + 1 \in P
  <2> SUFFICES ASSUME m + 1 <= Len(s)
               PROVE  \E f \in [0..(m + 1) -> Seq(Written)] : JoinsUpTo(f, s, m + 1)
    BY <1>1
  <2>0. m \in Nat /\ m <= Len(s)
    BY <1>1
  <2>1. PICK f \in [0..m -> Seq(Written)] : JoinsUpTo(f, s, m)
    BY <2>0
  <2> DEFINE next == IF m = 0 THEN s[1] ELSE f[m] \o <<Slash>> \o s[m + 1]
             g == [i \in 0..(m + 1) |-> IF i = m + 1 THEN next ELSE f[i]]
  <2>2. next \in Seq(Written)
    <3>1. m + 1 \in 1..Len(s) /\ 1 \in 1..Len(s) /\ f[m] \in Seq(Written)
      BY <1>1, <2>0
    <3>2. s[1] \in Seq(Written) /\ s[m + 1] \in Seq(Written)
      BY <1>1, <3>1
    <3> QED
      BY <1>1, <3>1, <3>2, ConcatProperties
  <2>3. g \in [0..(m + 1) -> Seq(Written)]
    <3> HIDE DEF next
    <3> QED
      BY <2>0, <2>2
  <2>4. ASSUME NEW i \in 0..(m + 1)
        PROVE  g[i] = IF i = 0 THEN << >> ELSE IF i = 1 THEN s[1]
                      ELSE g[i - 1] \o <<Slash>> \o s[i]
    <3>1. CASE i = m + 1
      <4>1. g[i] = next
        BY <3>1
      <4>2. m # 0 => i - 1 = m /\ g[i - 1] = f[m]
        <5>1. i - 1 = m /\ m \in 0..(m + 1) /\ m # m + 1
          BY <2>0, <3>1
        <5>2. g[m] = f[m]
          BY <5>1
        <5> QED
          BY <5>1, <5>2
      <4> HIDE DEF g
      <4> QED
        BY <2>0, <3>1, <4>1, <4>2
    <3>2. CASE i # m + 1
      <4>1. i \in 0..m /\ g[i] = f[i]
        BY <2>0, <3>2
      <4>2. i # 0 => i - 1 \in 0..m /\ g[i - 1] = f[i - 1]
        BY <2>0, <3>2
      <4>3. f[i] = IF i = 0 THEN << >> ELSE IF i = 1 THEN s[1]
                   ELSE f[i - 1] \o <<Slash>> \o s[i]
        BY <2>1, <4>1 DEF JoinsUpTo
      <4> HIDE DEF g
      <4> QED
        BY <4>1, <4>2, <4>3
    <3> QED
      BY <3>1, <3>2
  <2>5. JoinsUpTo(g, s, m + 1)
    BY <2>3, <2>4 DEF JoinsUpTo
  <2> HIDE DEF g
  <2> QED
    BY <2>3, <2>5
<1>4. P = Nat
  <2> HIDE DEF P
  <2>1. P \subseteq Nat
    BY DEF P
  <2> QED
    BY <1>2, <1>3, <2>1, NatSetInduction
<1> QED
  BY <1>4

(* The joined string and its slash are the last stretch.                   *)
LEMMA JoinedStretches ==
    ASSUME NEW s \in Seq(Seq(Chars)), s # << >>
    PROVE  /\ Joined(s) \in Seq(Written)
           /\ \E w : Stretches(w, s) /\ w[Len(s)] = Joined(s) \o <<Slash>>
<1> DEFINE n == Len(s)
           f == CHOOSE g : JoinsUpTo(g, s, n)
           w == [i \in 0..n |-> IF i = 0 THEN << >> ELSE f[i] \o <<Slash>>]
<1>1. n \in Nat \ {0}
  BY LenProperties, EmptySeq
<1>2. JoinsUpTo(f, s, n)
  BY <1>1, JoinsExist
<1>3. Joined(s) = f[n]
  BY DEF Joined, JoinsUpTo
<1> HIDE DEF f, n
<1>10. f \in [0..n -> Seq(Written)]
  <2>1. PICK g \in [0..n -> Seq(Written)] : JoinsUpTo(g, s, n)
    BY <1>1, JoinsExist DEF n
  <2> DEFINE P == { i \in Nat : i <= n => f[i] = g[i] }
  <2>2. 0 \in P
    BY <1>2, <2>1 DEF JoinsUpTo
  <2>3. ASSUME NEW i \in P
        PROVE  i + 1 \in P
    <3> SUFFICES ASSUME i + 1 <= n
                 PROVE  f[i + 1] = g[i + 1]
      OBVIOUS
    <3>1. i \in Nat /\ i + 1 \in 0..n /\ f[i] = g[i]
      BY <1>1
    <3>2. /\ f[i + 1] = IF i = 0 THEN s[1] ELSE f[i] \o <<Slash>> \o s[i + 1]
          /\ g[i + 1] = IF i = 0 THEN s[1] ELSE g[i] \o <<Slash>> \o s[i + 1]
      <4>1. i + 1 # 0 /\ (i + 1 = 1 <=> i = 0) /\ i + 1 - 1 = i
        BY <3>1
      <4> DEFINE k == i + 1
      <4>2. k \in 0..n /\ k # 0 /\ k - 1 = i /\ (k = 1 <=> i = 0)
        BY <3>1, <4>1
      <4> HIDE DEF k
      <4>3. /\ f[k] = IF k = 1 THEN s[1] ELSE f[k - 1] \o <<Slash>> \o s[k]
            /\ g[k] = IF k = 1 THEN s[1] ELSE g[k - 1] \o <<Slash>> \o s[k]
        BY <1>2, <2>1, <4>2 DEF JoinsUpTo
      <4>4. /\ f[k] = IF i = 0 THEN s[1] ELSE f[i] \o <<Slash>> \o s[k]
            /\ g[k] = IF i = 0 THEN s[1] ELSE g[i] \o <<Slash>> \o s[k]
        BY <4>2, <4>3
      <4> QED
        BY <4>4 DEF k
    <3> QED
      BY <3>1, <3>2
  <2>4. P = Nat
    <3> HIDE DEF P
    <3>1. P \subseteq Nat
      BY DEF P
    <3> QED
      BY <2>2, <2>3, <3>1, NatSetInduction
  <2>5. \A i \in Nat : i <= n => f[i] = g[i]
    BY <2>4
  <2>6. f = [i \in 0..n |-> f[i]]
    BY <1>2 DEF JoinsUpTo
  <2>7. \A i \in 0..n : f[i] \in Seq(Written)
    BY <1>1, <2>5
  <2> QED
    BY <2>6, <2>7
<1>4. <<Slash>> \in Seq(Written) /\ << >> \in Seq(Written)
  BY DEF Written
<1>5. w \in [0..n -> Seq(Written)]
  BY <1>10, <1>4, ConcatProperties
<1>6. w[0] = << >> /\ w[n] = Joined(s) \o <<Slash>>
  BY <1>1, <1>3
<1>7. ASSUME NEW i \in 1..n
      PROVE  w[i] = w[i - 1] \o s[i] \o <<Slash>>
  <2>1. CASE i = 1
    <3>1. f[1] = s[1]
      BY <1>1, <1>2 DEF JoinsUpTo
    <3>2. f[1] \in Seq(Written)
      BY <1>1, <1>10
    <3>3. << >> \o f[1] = f[1]
      BY <3>2, ConcatEmptySeq
    <3>4. w[1] = f[1] \o <<Slash>> /\ w[0] = << >> /\ i - 1 = 0
      BY <1>1, <2>1
    <3> HIDE DEF w
    <3>5. w[i] = w[0] \o s[i] \o <<Slash>>
      BY <2>1, <3>1, <3>3, <3>4, Zenon
    <3> QED
      BY <3>4, <3>5
  <2>2. CASE i # 1
    <3>0. i \in 0..n /\ i - 1 \in 0..n /\ i # 0 /\ i - 1 # 0
      BY <1>1, <2>2
    <3>1. f[i] = f[i - 1] \o <<Slash>> \o s[i]
      BY <1>2, <2>2, <3>0 DEF JoinsUpTo
    <3>2. w[i] = f[i] \o <<Slash>> /\ w[i - 1] = f[i - 1] \o <<Slash>>
      BY <3>0, Zenon
    <3> HIDE DEF w
    <3> QED
      BY <3>1, <3>2
  <2> QED
    BY <2>1, <2>2
<1> HIDE DEF w
<1>8. Stretches(w, s)
  BY <1>5, <1>6, <1>7 DEF Stretches, n
<1>9. Joined(s) \in Seq(Written)
  BY <1>1, <1>3, <1>10
<1> QED
  BY <1>6, <1>8, <1>9 DEF n

(* u is the text a, then x, then a slash; V has x and a slash after the    *)
(* first n characters.                                                     *)
Lengthened(u, a, x) ==
    /\ u \in Seq(Written) /\ a \in Seq(Written) /\ x \in Seq(Written)
    /\ Len(u) = Len(a) + Len(x) + 1
    /\ \A q \in 1..Len(x) : u[Len(a) + q] = x[q]
    /\ u[Len(u)] = Slash
    /\ Begins(a, u)

SegmentAfter(V, n, x) ==
    /\ \A q \in 1..Len(x) : V[n + q] = x[q]
    /\ V[n + Len(x) + 1] = Slash

(* Each stretch lengthens the one before it by a segment.                  *)
LEMMA StretchStep ==
    ASSUME NEW s \in Seq(Seq(Chars)), NEW w, Stretches(w, s), NEW i \in 1..Len(s)
    PROVE  Lengthened(w[i], w[i - 1], s[i])
<1>1. /\ Len(s) \in Nat /\ s[i] \in Seq(Written) /\ s[i] \in Seq(Chars)
      /\ <<Slash>> \in Seq(Written) /\ Len(<<Slash>>) = 1 /\ <<Slash>>[1] = Slash
  <2>1. s[i] \in Seq(Chars)
    BY ElementOfSeq
  <2>2. Seq(Chars) \subseteq Seq(Written)
    BY DEF Written
  <2> QED
    BY <2>1, <2>2, LenProperties DEF Written
<1>2. w[i] \in Seq(Written) /\ w[i - 1] \in Seq(Written)
  <2>1. i \in 0..Len(s) /\ i - 1 \in 0..Len(s)
    BY <1>1
  <2> QED
    BY <2>1 DEF Stretches
<1> DEFINE a == w[i - 1]
           x == s[i]
           ax == a \o x
<1>3. w[i] = ax \o <<Slash>>
  BY DEF Stretches
<1>4. a \in Seq(Written) /\ x \in Seq(Written)
  BY <1>1, <1>2
<1> HIDE DEF a, x
<1>5. /\ ax \in Seq(Written) /\ Len(ax) = Len(a) + Len(x)
      /\ \A q \in 1..(Len(a) + Len(x)) : ax[q] = IF q <= Len(a) THEN a[q] ELSE x[q - Len(a)]
  BY <1>4, ConcatProperties
<1> HIDE DEF ax
<1>6. /\ Len(w[i]) = Len(ax) + 1
      /\ \A q \in 1..(Len(ax) + 1) : w[i][q] = IF q <= Len(ax) THEN ax[q] ELSE <<Slash>>[q - Len(ax)]
  BY <1>1, <1>3, <1>5, ConcatProperties
<1>7. Len(a) \in Nat /\ Len(x) \in Nat
  BY <1>4, LenProperties
<1>8. ASSUME NEW q \in 1..Len(x)
      PROVE  w[i][Len(a) + q] = x[q]
  <2>1. /\ Len(a) + q \in 1..(Len(a) + Len(x)) /\ Len(a) + q \in 1..(Len(ax) + 1)
        /\ Len(a) + q <= Len(ax) /\ ~ (Len(a) + q <= Len(a)) /\ Len(a) + q - Len(a) = q
    BY <1>5, <1>7
  <2>2. w[i][Len(a) + q] = ax[Len(a) + q]
    BY <1>6, <2>1
  <2>3. ax[Len(a) + q] = x[Len(a) + q - Len(a)]
    BY <1>5, <2>1
  <2> QED
    BY <2>1, <2>2, <2>3
<1>9. w[i][Len(w[i])] = Slash
  <2>1. /\ Len(ax) + 1 \in 1..(Len(ax) + 1) /\ ~ (Len(ax) + 1 <= Len(ax))
        /\ Len(ax) + 1 - Len(ax) = 1
    BY <1>5, <1>7
  <2>2. w[i][Len(ax) + 1] = <<Slash>>[Len(ax) + 1 - Len(ax)]
    BY <1>6, <2>1
  <2> QED
    BY <1>1, <1>6, <2>1, <2>2
<1>10. Begins(a, w[i])
  <2>1. ASSUME NEW q \in 1..Len(a)
        PROVE  w[i][q] = a[q]
    <3>1. /\ q \in 1..(Len(a) + Len(x)) /\ q \in 1..(Len(ax) + 1)
          /\ q <= Len(ax) /\ q <= Len(a)
      BY <1>5, <1>7
    <3> QED
      BY <1>5, <1>6, <3>1
  <2>2. Len(a) <= Len(w[i])
    BY <1>5, <1>6, <1>7
  <2> QED
    BY <2>1, <2>2 DEF Begins
<1> QED
  BY <1>2, <1>4, <1>5, <1>6, <1>7, <1>8, <1>9, <1>10 DEF Lengthened, a, x

(* The string of more segments begins with that of fewer.                  *)
LEMMA StretchesGrow ==
    ASSUME NEW s \in Seq(Seq(Chars)), NEW w, Stretches(w, s),
           NEW i \in 0..Len(s), NEW j \in i..Len(s)
    PROVE  /\ w[i] \in Seq(Written) /\ w[j] \in Seq(Written)
           /\ Begins(w[i], w[j])
<1> DEFINE P == { k \in Nat : i + k <= Len(s) => Begins(w[i], w[i + k]) }
<1>1. /\ Len(s) \in Nat
      /\ \A k \in 0..Len(s) : w[k] \in Seq(Written)
  BY LenProperties DEF Stretches
<1>2. 0 \in P
  <2>1. Len(w[i]) \in Nat /\ i + 0 = i
    BY <1>1, LenProperties
  <2> QED
    BY <2>1 DEF Begins
<1>3. ASSUME NEW k \in P
      PROVE  k + 1 \in P
  <2> SUFFICES ASSUME i + (k + 1) <= Len(s)
               PROVE  Begins(w[i], w[i + (k + 1)])
    OBVIOUS
  <2>1. /\ i + k \in 0..Len(s) /\ i + (k + 1) \in 1..Len(s) /\ (i + (k + 1)) - 1 = i + k
    BY <1>1
  <2>2. Begins(w[i], w[i + k])
    BY <2>1
  <2>3. Begins(w[(i + (k + 1)) - 1], w[i + (k + 1)])
    BY <2>1, StretchStep DEF Lengthened
  <2>4. w[i] \in Seq(Written) /\ w[i + k] \in Seq(Written) /\ w[i + (k + 1)] \in Seq(Written)
    BY <1>1, <2>1
  <2> QED
    BY <2>1, <2>2, <2>3, <2>4, BeginsTransitive
<1>4. P = Nat
  <2> HIDE DEF P
  <2>1. P \subseteq Nat
    BY DEF P
  <2> QED
    BY <1>2, <1>3, <2>1, NatSetInduction
<1>5. j - i \in Nat /\ i + (j - i) = j /\ j <= Len(s)
  BY <1>1
<1>6. Begins(w[i], w[i + (j - i)])
  BY <1>4, <1>5
<1> QED
  BY <1>1, <1>5, <1>6

(* After the same front, a segment ends at the first slash.                *)
LEMMA SegmentEndsAtSlash ==
    ASSUME Slash \notin Chars,
           NEW V, NEW a \in Nat, NEW x \in Seq(Chars), NEW y \in Seq(Chars),
           SegmentAfter(V, a, x), SegmentAfter(V, a, y)
    PROVE  x = y
<1>1. Len(x) \in Nat /\ Len(y) \in Nat
  BY LenProperties
<1>2. (\A q \in 1..Len(x) : x[q] # Slash) /\ (\A q \in 1..Len(y) : y[q] # Slash)
  BY ElementOfSeq
<1>3. ~ Len(x) < Len(y)
  <2> SUFFICES ASSUME Len(x) < Len(y) PROVE FALSE
    OBVIOUS
  <2>1. Len(x) + 1 \in 1..Len(y) /\ a + (Len(x) + 1) = a + Len(x) + 1
    BY <1>1
  <2> QED
    BY <1>2, <2>1 DEF SegmentAfter
<1>4. ~ Len(y) < Len(x)
  <2> SUFFICES ASSUME Len(y) < Len(x) PROVE FALSE
    OBVIOUS
  <2>1. Len(y) + 1 \in 1..Len(x) /\ a + (Len(y) + 1) = a + Len(y) + 1
    BY <1>1
  <2> QED
    BY <1>2, <2>1 DEF SegmentAfter
<1>5. Len(x) = Len(y)
  BY <1>1, <1>3, <1>4
<1>6. \A q \in 1..Len(x) : x[q] = y[q]
  BY <1>5 DEF SegmentAfter
<1> QED
  BY <1>5, <1>6, SeqEqual

(* What a stretch says of a text that begins with it.                      *)
LEMMA SegmentInText ==
    ASSUME NEW s \in Seq(Seq(Chars)), NEW w, Stretches(w, s), NEW i \in 1..Len(s),
           NEW V \in Seq(Written), Begins(w[i], V)
    PROVE  SegmentAfter(V, Len(w[i - 1]), s[i])
<1> DEFINE u == w[i]
           a == w[i - 1]
           x == s[i]
<1>1. Lengthened(u, a, x)
  BY StretchStep
<1>2. \A q \in 1..Len(u) : V[q] = u[q]
  BY DEF Begins
<1> HIDE DEF u, a, x
<1>3. Len(a) \in Nat /\ Len(x) \in Nat /\ Len(u) = Len(a) + Len(x) + 1
  BY <1>1, LenProperties DEF Lengthened
<1>4. \A q \in 1..Len(x) : V[Len(a) + q] = x[q]
  <2> TAKE q \in 1..Len(x)
  <2>1. Len(a) + q \in 1..Len(u)
    BY <1>3
  <2> QED
    BY <1>1, <1>2, <2>1 DEF Lengthened
<1>5. V[Len(a) + Len(x) + 1] = Slash
  <2>1. Len(u) \in 1..Len(u)
    BY <1>3
  <2> QED
    BY <1>1, <1>2, <1>3, <2>1 DEF Lengthened
<1> QED
  BY <1>4, <1>5 DEF SegmentAfter, a, x

(* Segments can be read off the string.                                    *)
LEMMA StringGivesSegments ==
    ASSUME Slash \notin Chars,
           NEW s \in Seq(Seq(Chars)), NEW w, Stretches(w, s),
           NEW t \in Seq(Seq(Chars)), NEW v, Stretches(v, t),
           Begins(w[Len(s)], v[Len(t)])
    PROVE  Begins(s, t)
<1> DEFINE n == Len(s)
           m == Len(t)
           V == v[m]
           P == { i \in Nat : i <= n => /\ i <= m /\ w[i] = v[i]
                                        /\ \A j \in 1..i : s[j] = t[j] }
<1>1. /\ n \in Nat /\ m \in Nat
      /\ \A i \in 0..n : w[i] \in Seq(Written)
      /\ \A i \in 0..m : v[i] \in Seq(Written)
      /\ V \in Seq(Written)
  <2>1. n \in Nat /\ m \in Nat /\ m \in 0..m
    BY LenProperties
  <2> QED
    BY <2>1 DEF Stretches
<1>2. \A i \in 0..n : Begins(w[i], V)
  <2> TAKE i \in 0..n
  <2>1. n \in i..n /\ n \in 0..n
    BY <1>1
  <2>2. Begins(w[i], w[n])
    BY <2>1, StretchesGrow
  <2> QED
    BY <1>1, <2>1, <2>2, BeginsTransitive
<1>3. \A i \in 0..m : Begins(v[i], V)
  <2> TAKE i \in 0..m
  <2>1. m \in i..m
    BY <1>1
  <2> QED
    BY <2>1, StretchesGrow
<1>4. 0 \in P
  BY <1>1 DEF Stretches
<1>5. ASSUME NEW i \in P
      PROVE  i + 1 \in P
  <2> SUFFICES ASSUME i + 1 <= n
               PROVE  /\ i + 1 <= m /\ w[i + 1] = v[i + 1]
                      /\ \A j \in 1..(i + 1) : s[j] = t[j]
    BY <1>1
  <2>1. i \in Nat /\ i <= m /\ w[i] = v[i] /\ \A j \in 1..i : s[j] = t[j]
    BY <1>1
  <2> DEFINE k == i + 1
  <2>2. k \in 1..n /\ k - 1 = i /\ k \in 0..n /\ k \in Nat
    BY <1>1, <2>1
  <2>3. k <= m
    <3>1. Len(w[k]) = Len(w[i]) + Len(s[k]) + 1 /\ s[k] \in Seq(Written)
      <4>1. Lengthened(w[k], w[k - 1], s[k])
        <5> HIDE DEF k, n
        <5> QED
          BY <2>2, StretchStep DEF n
      <4> HIDE DEF k
      <4> QED
        BY <2>2, <4>1 DEF Lengthened
    <3>2. Len(w[i]) \in Nat /\ Len(s[k]) \in Nat /\ Len(V) \in Nat
      <4>1. i \in 0..n
        BY <1>1, <2>1
      <4> QED
        BY <1>1, <3>1, <4>1, LenProperties
    <3>3. Len(w[k]) <= Len(V)
      BY <1>2, <2>2 DEF Begins
    <3>4. i # m
      <4>1. SUFFICES ASSUME i = m PROVE FALSE
        OBVIOUS
      <4>2. V = w[i]
        BY <2>1, <4>1
      <4> HIDE DEF k, V, P, n, m
      <4>3. Len(w[i]) + Len(s[k]) + 1 <= Len(w[i])
        BY <3>1, <3>3, <4>2
      <4>4. Len(w[i]) \in Nat /\ Len(s[k]) \in Nat
        BY <3>2
      <4> DEFINE a == Len(w[i])
                 b == Len(s[k])
      <4> HIDE DEF a, b
      <4>5. a \in Nat /\ b \in Nat /\ a + b + 1 <= a
        BY <4>3, <4>4 DEF a, b
      <4> QED
        BY <4>5
    <3> QED
      BY <1>1, <2>1, <3>4
  <2>4. k \in 1..m /\ k \in 0..m
    BY <1>1, <2>2, <2>3
  <2> HIDE DEF k, n, m, V
  <2>5. s[k] \in Seq(Chars) /\ t[k] \in Seq(Chars) /\ Len(w[i]) \in Nat
    <3>1. i \in 0..m
      BY <1>1, <2>1
    <3> QED
      BY <1>1, <2>1, <2>2, <2>4, <3>1, ElementOfSeq, LenProperties DEF n, m
  <2>6. SegmentAfter(V, Len(w[i]), s[k])
    <3>1. Begins(w[k], V)
      BY <1>2, <2>2
    <3>2. SegmentAfter(V, Len(w[k - 1]), s[k])
      BY <1>1, <2>2, <3>1, SegmentInText DEF n
    <3> QED
      BY <2>2, <3>2
  <2>7. SegmentAfter(V, Len(w[i]), t[k])
    <3>1. Begins(v[k], V)
      BY <1>3, <2>4
    <3>2. SegmentAfter(V, Len(v[k - 1]), t[k])
      BY <1>1, <2>4, <3>1, SegmentInText DEF m
    <3> QED
      BY <2>1, <2>2, <3>2
  <2>8. s[k] = t[k]
    BY <1>1, <2>5, <2>6, <2>7, SegmentEndsAtSlash
  <2>9. w[k] = w[i] \o s[k] \o <<Slash>> /\ v[k] = v[i] \o t[k] \o <<Slash>>
    BY <2>2, <2>4 DEF Stretches, n, m
  <2>10. w[k] = v[k]
    BY <2>1, <2>8, <2>9
  <2>11. \A j \in 1..k : s[j] = t[j]
    BY <2>1, <2>2, <2>8
  <2> QED
    BY <2>3, <2>10, <2>11 DEF k
<1>6. P = Nat
  <2> HIDE DEF P
  <2>1. P \subseteq Nat
    BY DEF P
  <2> QED
    BY <1>4, <1>5, <2>1, NatSetInduction
<1>7. n <= m /\ \A j \in 1..n : s[j] = t[j]
  <2>1. n \in P
    BY <1>1, <1>6
  <2>2. n <= n
    BY <1>1
  <2> QED
    BY <2>1, <2>2
<1> QED
  BY <1>7 DEF Begins

(* And the string off the segments.                                        *)
LEMMA SegmentsGiveString ==
    ASSUME NEW s \in Seq(Seq(Chars)), NEW w, Stretches(w, s),
           NEW t \in Seq(Seq(Chars)), NEW v, Stretches(v, t),
           Begins(s, t)
    PROVE  Begins(w[Len(s)], v[Len(t)])
<1> DEFINE n == Len(s)
           m == Len(t)
           P == { i \in Nat : i <= n => w[i] = v[i] }
<1>1. n \in Nat /\ m \in Nat /\ n <= m /\ \A i \in 1..n : s[i] = t[i]
  BY LenProperties DEF Begins
<1>2. 0 \in P
  BY DEF Stretches
<1>3. ASSUME NEW i \in P
      PROVE  i + 1 \in P
  <2> SUFFICES ASSUME i + 1 <= n
               PROVE  w[i + 1] = v[i + 1]
    OBVIOUS
  <2> DEFINE k == i + 1
  <2>1. k \in 1..n /\ k \in 1..m /\ k - 1 = i /\ w[i] = v[i]
    BY <1>1
  <2> HIDE DEF k, n, m
  <2>2. w[k] = w[i] \o s[k] \o <<Slash>> /\ v[k] = v[i] \o t[k] \o <<Slash>>
    BY <2>1 DEF Stretches, n, m
  <2> QED
    BY <1>1, <2>1, <2>2 DEF k
<1>4. P = Nat
  <2> HIDE DEF P
  <2>1. P \subseteq Nat
    BY DEF P
  <2> QED
    BY <1>2, <1>3, <2>1, NatSetInduction
<1>5. w[n] = v[n]
  BY <1>1, <1>4
<1>6. n \in 0..m /\ m \in n..m
  BY <1>1
<1>7. Begins(v[n], v[m])
  <2> HIDE DEF n
  <2> QED
    BY <1>6, StretchesGrow
<1> QED
  BY <1>5, <1>7

(* A string with its slash begins with another one: they are equal or the  *)
(* slash falls inside.                                                     *)
LEMMA BeginsWithSlash ==
    ASSUME NEW a \in Seq(Written), NEW b \in Seq(Written)
    PROVE  Begins(a \o <<Slash>>, b \o <<Slash>>)
              <=> b = a \/ Begins(a \o <<Slash>>, b)
<1> DEFINE c == a \o <<Slash>>
           d == b \o <<Slash>>
<1>1. <<Slash>> \in Seq(Written) /\ Len(<<Slash>>) = 1 /\ Len(a) \in Nat /\ Len(b) \in Nat
  BY LenProperties DEF Written
<1>2. /\ c \in Seq(Written) /\ Len(c) = Len(a) + 1
      /\ \A q \in 1..Len(a) : c[q] = a[q]
  BY <1>1, ConcatProperties
<1>3. /\ d \in Seq(Written) /\ Len(d) = Len(b) + 1
      /\ \A q \in 1..Len(b) : d[q] = b[q]
  BY <1>1, ConcatProperties
<1>4. b = a => c = d
  OBVIOUS
<1> HIDE DEF c, d
<1>5. Begins(b, d)
  BY <1>1, <1>3 DEF Begins
<1>6. Begins(c, b) => Begins(c, d)
  BY <1>2, <1>3, <1>5, BeginsTransitive
<1>7. b = a => Begins(c, d)
  BY <1>2, <1>3, <1>4, BeginsEqual
<1>8. ASSUME Begins(c, d)
      PROVE  b = a \/ Begins(c, b)
  <2>1. CASE Len(b) = Len(a)
    <3>1. \A q \in 1..Len(a) : a[q] = b[q]
      <4> TAKE q \in 1..Len(a)
      <4>1. q \in 1..Len(c) /\ q \in 1..Len(b)
        BY <1>1, <1>2, <2>1
      <4> QED
        BY <1>2, <1>3, <1>8, <4>1 DEF Begins
    <3> QED
      BY <2>1, <3>1, SeqEqual
  <2>2. CASE Len(b) # Len(a)
    <3>1. Len(c) <= Len(b)
      BY <1>1, <1>2, <1>3, <1>8, <2>2 DEF Begins
    <3>2. \A q \in 1..Len(c) : c[q] = b[q]
      <4> TAKE q \in 1..Len(c)
      <4>1. q \in 1..Len(b)
        BY <1>1, <1>2, <3>1
      <4> QED
        BY <1>3, <1>8, <4>1 DEF Begins
    <3> QED
      BY <3>1, <3>2 DEF Begins
  <2> QED
    BY <2>1, <2>2
<1> QED
  BY <1>6, <1>7, <1>8 DEF c, d

(* No segment, no string; and a bare one has a character.                  *)
LEMMA JoinedOfNone == Joined(<< >>) = << >>
<1> DEFINE f == CHOOSE g : JoinsUpTo(g, << >>, 0)
<1>1. JoinsUpTo(f, << >>, 0)
  <2>1. << >> \in Seq(Seq(Chars)) /\ 0 <= Len(<< >>) /\ 0 \in Nat
    OBVIOUS
  <2> QED
    BY <2>1, JoinsExist
<1>2. Joined(<< >>) = f[0]
  BY DEF Joined, JoinsUpTo
<1> HIDE DEF f
<1> QED
  BY <1>1, <1>2 DEF JoinsUpTo

(* Segments that are not empty join to a text that is not.                 *)
LEMMA JoinedOfSome ==
    ASSUME NEW s, Normal(s), s # << >>
    PROVE  Joined(s) # << >>
<1>1. s \in Seq(Seq(Chars)) /\ Len(s) \in Nat \ {0} /\ DOMAIN s = 1..Len(s)
  BY LenProperties, EmptySeq DEF Normal
<1>2. PICK w : Stretches(w, s) /\ w[Len(s)] = Joined(s) \o <<Slash>>
  BY <1>1, JoinedStretches
<1>3. 1 \in 1..Len(s) /\ 1 - 1 = 0 /\ 1 \in 0..Len(s) /\ Len(s) \in 1..Len(s)
  BY <1>1
<1>4. s[1] \in Seq(Chars) /\ s[1] # << >>
  BY <1>1, <1>3 DEF Normal, Bare
<1>5. Len(s[1]) \in Nat \ {0}
  BY <1>4, LenProperties, EmptySeq
<1>6. Len(w[1]) = Len(w[1 - 1]) + Len(s[1]) + 1
  <2>1. Lengthened(w[1], w[0], s[1])
    <3> DEFINE i == 1
    <3> HIDE DEF i
    <3>1. i \in 1..Len(s) /\ i - 1 = 0
      BY <1>3 DEF i
    <3>2. Lengthened(w[i], w[i - 1], s[i])
      BY <1>1, <1>2, <3>1, StretchStep
    <3> QED
      BY <3>1, <3>2 DEF i
  <2> QED
    BY <2>1, <1>3 DEF Lengthened
<1>7. w[1 - 1] = << >> /\ Len(<< >>) = 0
  BY <1>2, <1>3 DEF Stretches
<1>8. Begins(w[1], w[Len(s)])
  BY <1>1, <1>2, <1>3, StretchesGrow
<1>9. Len(w[1]) <= Len(Joined(s) \o <<Slash>>)
  BY <1>2, <1>8 DEF Begins
<1>10. Len(Joined(s) \o <<Slash>>) = Len(Joined(s)) + 1
  <2>1. Joined(s) \in Seq(Written) /\ <<Slash>> \in Seq(Written) /\ Len(<<Slash>>) = 1
    BY <1>1, JoinedStretches DEF Written
  <2> QED
    BY <2>1, ConcatProperties
<1>11. 2 <= Len(w[1])
  BY <1>5, <1>6, <1>7
<1>12. Len(w[1]) <= Len(Joined(s)) + 1
  BY <1>9, <1>10
<1>13. Joined(s) = << >> => Len(w[1]) <= 1
  BY <1>7, <1>12
<1> QED
  BY <1>5, <1>6, <1>7, <1>11, <1>13

(* Comparing the joined strings, with a slash, is comparing the segments   *)
(* (src/scope.rs:66-79).                                                   *)
LEMMA JoinedPrefix ==
    ASSUME Slash \notin Chars,
           NEW s, Normal(s), s # << >>, NEW t, Normal(t)
    PROVE  (Joined(t) = Joined(s) \/ IsPrefix(Joined(s) \o <<Slash>>, Joined(t)))
              <=> IsPrefix(s, t)
<1>1. s \in Seq(Seq(Chars)) /\ t \in Seq(Seq(Chars))
  BY DEF Normal
<1>2. Joined(s) \in Seq(Written) /\ <<Slash>> \in Seq(Written)
  BY <1>1, JoinedStretches DEF Written
<1>3. PICK w : Stretches(w, s) /\ w[Len(s)] = Joined(s) \o <<Slash>>
  BY <1>1, JoinedStretches
<1>4. /\ Joined(s) \o <<Slash>> \in Seq(Written)
      /\ Len(Joined(s) \o <<Slash>>) = Len(Joined(s)) + 1
      /\ Len(Joined(s)) \in Nat
  BY <1>2, ConcatProperties, LenProperties
<1>5. CASE t = << >>
  <2>1. Joined(t) = << >>
    BY <1>5, JoinedOfNone
  <2>2. ~ IsPrefix(Joined(s) \o <<Slash>>, Joined(t))
    BY <1>4, <2>1 DEF IsPrefix
  <2>3. ~ IsPrefix(s, t)
    BY <1>1, <1>5, LenProperties, EmptySeq DEF IsPrefix
  <2>4. Joined(s) # << >>
    BY <1>1, JoinedOfSome
  <2> QED
    BY <2>1, <2>2, <2>3, <2>4
<1>6. CASE t # << >>
  <2>1. Joined(t) \in Seq(Written)
    BY <1>1, <1>6, JoinedStretches
  <2>2. PICK v : Stretches(v, t) /\ v[Len(t)] = Joined(t) \o <<Slash>>
    BY <1>1, <1>6, JoinedStretches
  <2>3. Begins(Joined(s) \o <<Slash>>, Joined(t) \o <<Slash>>) <=> Begins(s, t)
    <3>1. Begins(w[Len(s)], v[Len(t)]) <=> Begins(s, t)
      BY <1>1, <1>3, <2>2, StringGivesSegments, SegmentsGiveString
    <3> QED
      BY <1>3, <2>2, <3>1
  <2>4. IsPrefix(s, t) <=> Begins(s, t)
    BY <1>1, PrefixByPlace
  <2>5. IsPrefix(Joined(s) \o <<Slash>>, Joined(t)) <=> Begins(Joined(s) \o <<Slash>>, Joined(t))
    BY <1>4, <2>1, PrefixByPlace
  <2>6. Begins(Joined(s) \o <<Slash>>, Joined(t) \o <<Slash>>)
           <=> Joined(t) = Joined(s) \/ Begins(Joined(s) \o <<Slash>>, Joined(t))
    BY <1>2, <2>1, BeginsWithSlash
  <2> QED
    BY <2>3, <2>4, <2>5, <2>6
<1> QED
  BY <1>5, <1>6

-----------------------------------------------------------------------------
(* The texts are typed from parts; no more is needed of a state.           *)
TextInv == asked \in Seq(Seq(Chars)) /\ stored \in Seq(Seq(Chars))
                /\ asked \in Seq(Parts) /\ stored \in Seq(Parts)

(* Every step adds one part to one of the texts.                           *)
LEMMA TextsAreTexts == ScopeSpec => []TextInv
<1>1. ScopeInit => TextInv
  BY EmptySeq DEF ScopeInit, TextInv
<1>2. TextInv /\ [ScopeNext]_scopeVars => TextInv'
  <2> SUFFICES ASSUME TextInv, [ScopeNext]_scopeVars
               PROVE  TextInv'
    OBVIOUS
  <2>1. ASSUME NEW part \in Parts, NEW text \in Seq(Parts), text \in Seq(Seq(Chars))
        PROVE  Append(text, part) \in Seq(Parts) /\ Append(text, part) \in Seq(Seq(Chars))
    <3>1. part \in Seq(Chars)
      BY TextAssumption
    <3> QED
      BY <2>1, <3>1, AppendProperties
  <2>2. CASE TypeAsked
    BY <2>1, <2>2 DEF TypeAsked, TextInv
  <2>3. CASE TypeStored
    BY <2>1, <2>3 DEF TypeStored, TextInv
  <2>4. CASE UNCHANGED scopeVars
    BY <2>4 DEF scopeVars, TextInv
  <2> QED
    BY <2>2, <2>3, <2>4 DEF ScopeNext
<1> QED
  BY <1>1, <1>2, PTL DEF ScopeSpec

(* Both texts have a normal form.                                          *)
LEMMA BothAreNormal == TextInv => Normal(self) /\ Normal(normal)
BY NormalizeIsNormal DEF TextInv, self, normal

(* Every segment of a normalized scope is there and bare at both ends      *)
(* (src/scope.rs:110-118).                                                 *)
THEOREM SegmentsAreBare == ScopeSpec => []TypeOK
<1>1. TextInv => TypeOK
  <2> SUFFICES ASSUME TextInv, NEW i \in DOMAIN normal
               PROVE  normal[i] # << >> /\ Blank \notin {normal[i][1], Last(normal[i])}
    BY DEF TypeOK, TextInv
  <2>1. Bare(normal[i])
    BY BothAreNormal DEF Normal
  <2> QED
    BY <2>1 DEF Bare, Last
<1> QED
  BY <1>1, TextsAreTexts, PTL

(* A scope built from another one's text is the same scope                 *)
(* (src/scope.rs:99-108).                                                  *)
THEOREM NormalizingTwiceIsOnce == ScopeSpec => []NormalizeIsIdempotent
<1>1. TextInv => NormalizeIsIdempotent
  BY BothAreNormal, NormalStays DEF NormalizeIsIdempotent
<1> QED
  BY <1>1, TextsAreTexts, PTL

(* Two scope texts match whichever of them is the policy's, exactly if     *)
(* their normal forms are one (src/scope.rs:51-58, 120-132).               *)
THEOREM MatchingIsSymmetric == ScopeSpec => []MatchIsSymmetric
<1>1. \A a, b : scope_matches(Some(a), Some(b)) <=> normalize_scope(a) = normalize_scope(b)
  BY DEF scope_matches, matches, Some, None
<1>2. MatchIsSymmetric
  BY <1>1 DEF MatchIsSymmetric
<1> QED
  BY <1>2, PTL

(* Scope::contains is the tree of paths, not of characters                 *)
(* (src/scope.rs:60-79): the scopes that contain a stored one are its      *)
(* ancestors and itself, and the root only itself.                         *)
THEOREM ContainsAncestorsOnly == ScopeSpec => []ContainsIsSubtree
<1>1. TextInv => ContainsIsSubtree
  <2> SUFFICES ASSUME TextInv
               PROVE  ContainsIsSubtree
    OBVIOUS
  <2>1. Normal(self) /\ Normal(normal) /\ Slash \notin Chars
    BY BothAreNormal, TextAssumption
  <2>2. contains(self, Some(stored)) <=>
           IF self = << >> THEN normal = << >>
           ELSE \/ Joined(normal) = Joined(self)
                \/ IsPrefix(Joined(self) \o <<Slash>>, Joined(normal))
    BY DEF contains, Some, normal
  <2>3. self # << >> =>
           (\/ Joined(normal) = Joined(self)
            \/ IsPrefix(Joined(self) \o <<Slash>>, Joined(normal))) <=> IsPrefix(self, normal)
    <3> HIDE DEF self, normal
    <3> QED
      BY <2>1, JoinedPrefix
  <2> QED
    BY <2>2, <2>3 DEF ContainsIsSubtree
<1> QED
  BY <1>1, TextsAreTexts, PTL
=============================================================================
