-------------------------- MODULE InMemoryStore_proofs --------------------------
(***************************************************************************)
(* Theorems about InMemoryStore for any readers, any tokens, any number of *)
(* episodes and any terminal key: keys, snapshots, and what a retrieval    *)
(* returns.                                                                *)
(***************************************************************************)
EXTENDS InMemoryStore, SequenceTheorems, OrderTheorems, TLAPS

-----------------------------------------------------------------------------
(* The n-th key (src/inmem.rs:106-113).                                    *)
Capped(n) == IF n < MaxKey THEN n ELSE MaxKey

(* The i-th episode has the i-th key: stronger than sorted keys, and what  *)
(* makes them stable.                                                      *)
KeysAreNumbered ==
    /\ next_key = Capped(Len(episodes))
    /\ episodes \in Seq(Stored)
    /\ \A i \in DOMAIN episodes : episodes[i].key = Capped(i)

(* list is what the Vec was at some time.                                  *)
Past(list) ==
    /\ list \in Seq(Stored)
    /\ Len(list) <= Len(episodes)
    /\ \A i \in 1..Len(list) : list[i] = episodes[i]

(* A reader that waits or scores saw no more at its call than it will.     *)
ReadersSeeThePast ==
    /\ pc \in [Readers -> {"idle", "called", "cloned", "returned"}]
    /\ DOMAIN snapshot = Readers
    /\ DOMAIN stored = Readers
    /\ \A c \in Readers :
          /\ pc[c] \in {"called", "cloned"} =>
                stored[c] \in Nat /\ stored[c] <= Len(episodes)
          /\ pc[c] = "cloned" => Past(snapshot[c]) /\ stored[c] <= Len(snapshot[c])

(* The inductive invariant.                                                *)
StoreInv == KeysAreNumbered /\ ReadersSeeThePast

-----------------------------------------------------------------------------
(* An append puts the next key at the end (src/inmem.rs:104-116).          *)
LEMMA AppendEffect ==
    ASSUME KeysAreNumbered, NEW e \in Summaries, AppendEpisode(e)
    PROVE  /\ KeysAreNumbered'
           /\ Len(episodes) \in Nat
           /\ DOMAIN episodes = 1..Len(episodes)
           /\ Len(episodes') = Len(episodes) + 1
           /\ DOMAIN episodes' = 1..Len(episodes) + 1
           /\ \A i \in 1..Len(episodes) : episodes'[i] = episodes[i]
           /\ episodes'[Len(episodes) + 1] = [key |-> Capped(Len(episodes) + 1), episode |-> e]
<1> DEFINE n == Len(episodes)
           new == [key |-> next_key', episode |-> e]
<1>1. n \in Nat /\ DOMAIN episodes = 1..n
  BY LenProperties DEF KeysAreNumbered
<1>2. next_key' = Capped(n + 1)
  <2>1. next_key = Capped(n) /\ next_key' = IF next_key = MaxKey THEN MaxKey ELSE next_key + 1
    BY DEF AppendEpisode, KeysAreNumbered
  <2>2. CASE n < MaxKey
    <3>1. n \in Nat /\ MaxKey \in Nat /\ n < MaxKey
      BY <1>1, <2>2, MaxKeyAssumption
    <3>2. next_key = n
      BY <2>1, <2>2 DEF Capped
    <3> HIDE DEF n
    <3>3. Capped(n + 1) = n + 1
      BY <3>1 DEF Capped
    <3>4. next_key' = n + 1
      BY <2>1, <3>1, <3>2
    <3> QED
      BY <3>3, <3>4
  <2>3. CASE ~ n < MaxKey
    BY <1>1, <2>1, <2>3, MaxKeyAssumption DEF Capped
  <2> QED
    BY <2>2, <2>3
<1>3. Capped(n + 1) \in 0..MaxKey
  BY <1>1, MaxKeyAssumption DEF Capped
<1>4. new \in Stored
  BY <1>2, <1>3 DEF Stored
<1>5. episodes' = Append(episodes, new)
  BY DEF AppendEpisode
<1> HIDE DEF new
<1>6. /\ episodes' \in Seq(Stored)
      /\ Len(episodes') = n + 1
      /\ \A i \in 1..n : episodes'[i] = episodes[i]
      /\ episodes'[n + 1] = new
  BY <1>4, <1>5, AppendProperties DEF KeysAreNumbered
<1>7. DOMAIN episodes' = 1..n + 1
  BY <1>6, LenProperties
<1>8. new.key = Capped(n + 1)
  BY <1>2 DEF new
<1>9. \A i \in DOMAIN episodes' : episodes'[i].key = Capped(i)
  BY <1>1, <1>6, <1>7, <1>8 DEF KeysAreNumbered
<1>10. KeysAreNumbered'
  BY <1>2, <1>6, <1>9 DEF KeysAreNumbered, Capped
<1> QED
  BY <1>1, <1>2, <1>6, <1>7, <1>10 DEF new

(* Keys stay numbered and readers in the past (src/inmem.rs:104-154).      *)
LEMMA StoreStep == StoreInv /\ [Next]_vars => StoreInv'
<1> SUFFICES ASSUME StoreInv, [Next]_vars
             PROVE  StoreInv'
  OBVIOUS
<1>1. Len(episodes) \in Nat /\ episodes \in Seq(Stored) /\ DOMAIN episodes = 1..Len(episodes)
  BY LenProperties DEF StoreInv, KeysAreNumbered
<1>2. Past(episodes)
  BY <1>1 DEF Past
<1>3. ASSUME UNCHANGED storeVars
      PROVE  KeysAreNumbered' /\ \A list : Past(list)' <=> Past(list)
  BY <1>3 DEF storeVars, StoreInv, KeysAreNumbered, Capped, Past
<1>4. ASSUME NEW e \in Summaries, AppendEpisode(e)
      PROVE  StoreInv'
  <2>1. /\ KeysAreNumbered'
        /\ Len(episodes') = Len(episodes) + 1
        /\ \A i \in 1..Len(episodes) : episodes'[i] = episodes[i]
    BY <1>4, AppendEffect DEF StoreInv
  <2>2. UNCHANGED readerVars
    BY <1>4 DEF AppendEpisode
  <2>3. ASSUME NEW list, Past(list)
        PROVE  Past(list)'
    <3>1. Len(list) \in Nat
      BY <2>3, LenProperties DEF Past
    <3> QED
      BY <1>1, <2>1, <2>3, <3>1 DEF Past
  <2>4. ReadersSeeThePast'
    BY <1>1, <2>1, <2>2, <2>3 DEF StoreInv, ReadersSeeThePast, readerVars
  <2> QED
    BY <2>1, <2>4 DEF StoreInv
<1>5. ASSUME NEW c \in Readers, NEW r \in Requests, CallRetrieve(c, r)
      PROVE  StoreInv'
  <2>1. UNCHANGED storeVars
    BY <1>5 DEF CallRetrieve
  <2>2. ReadersSeeThePast'
    BY <1>1, <1>3, <1>5, <2>1 DEF CallRetrieve, StoreInv, ReadersSeeThePast, storeVars
  <2> QED
    BY <1>3, <2>1, <2>2 DEF StoreInv
<1>6. ASSUME NEW c \in Readers, CloneEpisodes(c)
      PROVE  StoreInv'
  <2>1. UNCHANGED storeVars
    BY <1>6 DEF CloneEpisodes
  <2>2. ReadersSeeThePast'
    BY <1>1, <1>2, <1>3, <1>6, <2>1 DEF CloneEpisodes, StoreInv, ReadersSeeThePast, storeVars
  <2> QED
    BY <1>3, <2>1, <2>2 DEF StoreInv
<1>7. ASSUME NEW c \in Readers, ReturnHits(c) \/ CloneFails(c) \/ ReturnPoisoned(c)
      PROVE  StoreInv'
  <2>1. UNCHANGED storeVars /\ UNCHANGED <<snapshot, stored>>
    BY <1>7 DEF ReturnHits, CloneFails, ReturnPoisoned
  <2>2. \E p \in {"idle", "returned"} : pc' = [pc EXCEPT ![c] = p]
    BY <1>7 DEF ReturnHits, CloneFails, ReturnPoisoned
  <2>3. ReadersSeeThePast'
    BY <1>3, <2>1, <2>2 DEF StoreInv, ReadersSeeThePast, storeVars
  <2> QED
    BY <1>3, <2>1, <2>3 DEF StoreInv
<1>8. ASSUME (\E key \in 0..MaxKey : GetFails(key)) \/ UNCHANGED vars
      PROVE  StoreInv'
  <2>1. UNCHANGED storeVars /\ UNCHANGED <<pc, snapshot, stored>>
    BY <1>8 DEF GetFails, vars, storeVars, readerVars
  <2>2. ReadersSeeThePast'
    BY <1>3, <2>1 DEF StoreInv, ReadersSeeThePast, storeVars
  <2> QED
    BY <1>3, <2>1, <2>2 DEF StoreInv
<1> QED
  BY <1>4, <1>5, <1>6, <1>7, <1>8 DEF Next

(* A new store is empty (src/inmem.rs:85-102).                             *)
LEMMA StoreInit == Init => StoreInv
<1> SUFFICES ASSUME Init
             PROVE  StoreInv
  OBVIOUS
<1>1. episodes = << >> /\ next_key = 0
  BY DEF Init
<1>2. KeysAreNumbered
  BY <1>1, EmptySeq, MaxKeyAssumption DEF KeysAreNumbered, Capped
<1>3. ReadersSeeThePast
  BY DEF Init, ReadersSeeThePast
<1> QED
  BY <1>2, <1>3 DEF StoreInv

(* Keys are numbered and retrievals see the past, in every reachable       *)
(* state.                                                                  *)
THEOREM StoreCorrect == Spec => []StoreInv
BY StoreInit, StoreStep, PTL DEF Spec

-----------------------------------------------------------------------------
(* Keys sort by insertion, and only the terminal one is used twice         *)
(* (src/inmem.rs:106-109).                                                 *)
THEOREM KeysAreSorted == Spec => []KeysSortByInsertion
<1>1. StoreInv => KeysSortByInsertion
  <2> SUFFICES ASSUME StoreInv, NEW i \in DOMAIN episodes, NEW j \in DOMAIN episodes, i < j
               PROVE  episodes[i].key < episodes[j].key \/ episodes[j].key = MaxKey
    BY DEF KeysSortByInsertion
  <2>1. i \in Nat /\ j \in Nat
    BY LenProperties DEF StoreInv, KeysAreNumbered
  <2>2. episodes[i].key = Capped(i) /\ episodes[j].key = Capped(j)
    BY DEF StoreInv, KeysAreNumbered
  <2> QED
    BY <2>1, <2>2, MaxKeyAssumption DEF Capped
<1> QED
  BY <1>1, StoreCorrect, PTL

(* A retrieval works on a prefix of the Vec that holds all that was stored *)
(* when it was called, however many appends overtake it                    *)
(* (src/inmem.rs:128-131).                                                 *)
THEOREM RetrievalsSeeThePast == Spec => []RetrievalSeesThePast
<1>1. StoreInv => RetrievalSeesThePast
  <2> SUFFICES ASSUME StoreInv, NEW c \in Readers, pc[c] = "cloned"
               PROVE  IsPrefix(snapshot[c], episodes) /\ Len(snapshot[c]) >= stored[c]
    BY DEF RetrievalSeesThePast
  <2> DEFINE list == snapshot[c]
  <2>1. Past(list) /\ stored[c] <= Len(list) /\ stored[c] \in Nat
    BY DEF StoreInv, ReadersSeeThePast
  <2>2. episodes \in Seq(Stored)
    BY DEF StoreInv, KeysAreNumbered
  <2> HIDE DEF list
  <2>3. /\ list \in Seq(Stored) /\ Len(list) \in Nat /\ Len(episodes) \in Nat
        /\ Len(list) <= Len(episodes)
        /\ \A i \in 1..Len(list) :
              list[i] = episodes[i] /\ list[i] \in Stored /\ episodes[i] \in Stored
    BY <2>1, <2>2, LenProperties, ElementOfSeq DEF Past
  <2>4. /\ SubSeq(list, 1, Len(list)) \in Seq(Stored)
        /\ Len(SubSeq(list, 1, Len(list))) = Len(list)
        /\ \A i \in 1..Len(list) : SubSeq(list, 1, Len(list))[i] = list[i]
    BY <2>3, SubSeqProperties
  <2>5. /\ SubSeq(episodes, 1, Len(list)) \in Seq(Stored)
        /\ Len(SubSeq(episodes, 1, Len(list))) = Len(list)
        /\ \A i \in 1..Len(list) : SubSeq(episodes, 1, Len(list))[i] = episodes[i]
    BY <2>3, SubSeqProperties
  <2>6. SubSeq(list, 1, Len(list)) = SubSeq(episodes, 1, Len(list))
    BY <2>3, <2>4, <2>5, SeqEqual
  <2> QED
    BY <2>1, <2>3, <2>6 DEF IsPrefix, list
<1> QED
  BY <1>1, StoreCorrect, PTL

(* get finds the episode whose place is its key, unless the store is       *)
(* poisoned (src/inmem.rs:156-165).                                        *)
GetByKey ==
    \A key \in 0..MaxKey :
        get(key) = IF poisoned THEN Poisoned
                   ELSE IF key \in DOMAIN episodes THEN Found(episodes[key].episode)
                   ELSE NotFound

(* The first episode with a key is the one at that place.                  *)
LEMMA NumberedKeysAreFound == KeysAreNumbered => GetByKey
<1> SUFFICES ASSUME KeysAreNumbered, NEW key \in 0..MaxKey
             PROVE  get(key) = IF poisoned THEN Poisoned
                               ELSE IF key \in DOMAIN episodes THEN Found(episodes[key].episode)
                               ELSE NotFound
  BY DEF GetByKey
<1> DEFINE found == { i \in DOMAIN episodes : episodes[i].key = key }
<1>1. DOMAIN episodes = 1..Len(episodes) /\ Len(episodes) \in Nat
  BY LenProperties DEF KeysAreNumbered
<1>2. \A i \in found : key <= i /\ i \in Nat
  BY <1>1, MaxKeyAssumption DEF KeysAreNumbered, Capped
<1>3. CASE key \in DOMAIN episodes
  <2>1. key \in found
    BY <1>1, <1>3, MaxKeyAssumption DEF KeysAreNumbered, Capped
  <2>2. \A i \in found : (\A j \in found : i =< j) => i = key
    BY <1>2, <2>1
  <2>3. get(key) = IF poisoned THEN Poisoned ELSE Found(episodes[Min(found)].episode)
    BY <2>1 DEF get
  <2> HIDE DEF found
  <2>4. Min(found) = key
    BY <1>2, <2>1, <2>2 DEF Min
  <2> QED
    BY <1>3, <2>3, <2>4
<1>4. CASE key \notin DOMAIN episodes
  <2>1. found = {}
    BY <1>1, <1>4, MaxKeyAssumption DEF KeysAreNumbered, Capped
  <2> QED
    BY <1>4, <2>1 DEF get
<1> QED
  BY <1>3, <1>4

(* The three answers of get differ (src/inmem.rs:157-165).                 *)
LEMMA AnswersDiffer ==
    ASSUME NEW e
    PROVE  /\ Found(e).is = "Ok" /\ Found(e) # Poisoned
           /\ Poisoned.is # "Ok" /\ NotFound.is # "Ok" /\ NotFound # Poisoned
<1>1. Found(e).is = "Ok" /\ Poisoned.is = "Poisoned" /\ NotFound.is = "NotFound"
  BY DEF Found, Poisoned, NotFound
<1> QED
  BY <1>1

(* A poisoned store answers get, append and retrieve_similar with          *)
(* Err(Poisoned) from then on; nobody clears the lock (src/inmem.rs:111,   *)
(* 129, 158).                                                              *)
LEMMA PoisonStays ==
    ASSUME StoreInv, poisoned, [Next]_vars
    PROVE  /\ poisoned'
           /\ episodes' = episodes
           /\ \A c \in Readers : pc'[c] = "cloned" => pc[c] = "cloned"
<1>1. pc \in [Readers -> {"idle", "called", "cloned", "returned"}]
  BY DEF StoreInv, ReadersSeeThePast
<1>2. ASSUME NEW e \in Summaries, AppendEpisode(e)
      PROVE  FALSE
  BY <1>2 DEF AppendEpisode
<1>3. ASSUME NEW c \in Readers, NEW r \in Requests, CallRetrieve(c, r)
      PROVE  /\ poisoned' /\ episodes' = episodes
             /\ \A d \in Readers : pc'[d] = "cloned" => pc[d] = "cloned"
  BY <1>1, <1>3 DEF CallRetrieve, storeVars
<1>4. ASSUME NEW c \in Readers, CloneEpisodes(c) \/ CloneFails(c)
      PROVE  FALSE
  BY <1>4 DEF CloneEpisodes, CloneFails
<1>5. ASSUME NEW c \in Readers, ReturnHits(c) \/ ReturnPoisoned(c)
      PROVE  /\ poisoned' /\ episodes' = episodes
             /\ \A d \in Readers : pc'[d] = "cloned" => pc[d] = "cloned"
  BY <1>1, <1>5 DEF ReturnHits, ReturnPoisoned, storeVars
<1>6. ASSUME (\E key \in 0..MaxKey : GetFails(key)) \/ UNCHANGED vars
      PROVE  /\ poisoned' /\ episodes' = episodes
             /\ \A d \in Readers : pc'[d] = "cloned" => pc[d] = "cloned"
  BY <1>6 DEF GetFails, vars, storeVars, readerVars
<1> QED
  BY <1>2, <1>3, <1>4, <1>5, <1>6 DEF Next

(* A stored episode stays at its place (src/inmem.rs:104-116).             *)
LEMMA PlacesStay ==
    ASSUME StoreInv, [Next]_vars, NEW i \in DOMAIN episodes
    PROVE  i \in DOMAIN episodes' /\ episodes'[i] = episodes[i]
<1>1. ASSUME NEW e \in Summaries, AppendEpisode(e)
      PROVE  i \in DOMAIN episodes' /\ episodes'[i] = episodes[i]
  <2>1. /\ DOMAIN episodes = 1..Len(episodes)
        /\ DOMAIN episodes' = 1..Len(episodes) + 1
        /\ Len(episodes) \in Nat
        /\ \A j \in 1..Len(episodes) : episodes'[j] = episodes[j]
    BY <1>1, AppendEffect DEF StoreInv
  <2> QED
    BY <2>1
<1>2. CASE episodes' = episodes
  BY <1>2
<1> QED
  BY <1>1, <1>2 DEF Next, GetFails, CallRetrieve, CloneEpisodes, ReturnHits, CloneFails,
     ReturnPoisoned, vars, storeVars

(* Over any step, get goes on answering the episode a key was given to,    *)
(* also for the terminal key that later episodes share, until a clone      *)
(* panics; from then on every call is refused, whatever was under way      *)
(* (src/inmem.rs:104-116, 128-131, 156-165).                               *)
THEOREM AnswersStayStable == Spec => AnswersAreStable
<1>1. StoreInv /\ GetByKey /\ GetByKey' /\ [Next]_vars
        => [PoisonIsFinal /\ \A key \in 0..MaxKey : KeyIsStable(key)]_vars
  <2> SUFFICES ASSUME StoreInv, GetByKey, GetByKey', [Next]_vars
               PROVE  PoisonIsFinal /\ \A key \in 0..MaxKey : KeyIsStable(key)
    OBVIOUS
  <2>1. ASSUME NEW key \in 0..MaxKey, get(key) = Poisoned
        PROVE  poisoned
    BY <2>1, AnswersDiffer DEF GetByKey
  <2>2. ASSUME poisoned', NEW key \in 0..MaxKey
        PROVE  get(key)' = Poisoned
    <3>1. (get(key) = IF poisoned THEN Poisoned
                      ELSE IF key \in DOMAIN episodes THEN Found(episodes[key].episode)
                      ELSE NotFound)'
      BY <2>2 DEF GetByKey
    <3> QED
      BY <2>2, <3>1 DEF Poisoned
  <2>3. PoisonIsFinal
    BY <2>1, <2>2, PoisonStays DEF PoisonIsFinal
  <2>4. ASSUME NEW key \in 0..MaxKey, get(key).is = "Ok"
        PROVE  get(key)' \in {get(key), Poisoned}
    <3>1. /\ ~poisoned /\ key \in DOMAIN episodes
          /\ get(key) = Found(episodes[key].episode)
      BY <2>4, AnswersDiffer DEF GetByKey
    <3>2. key \in DOMAIN episodes' /\ episodes'[key] = episodes[key]
      BY <3>1, PlacesStay
    <3>3. CASE poisoned'
      BY <2>2, <3>3
    <3>4. CASE ~poisoned'
      <4>1. (get(key) = IF poisoned THEN Poisoned
                        ELSE IF key \in DOMAIN episodes THEN Found(episodes[key].episode)
                        ELSE NotFound)'
        BY DEF GetByKey
      <4>2. get(key)' = Found(episodes'[key].episode)
        BY <3>2, <3>4, <4>1 DEF Found
      <4> QED
        BY <3>1, <3>2, <4>2
    <3> QED
      BY <3>3, <3>4
  <2> QED
    BY <2>3, <2>4 DEF KeyIsStable
<1>2. StoreInv => GetByKey
  BY NumberedKeysAreFound DEF StoreInv
<1> QED
  BY <1>1, <1>2, StoreCorrect, PTL DEF Spec, AnswersAreStable

-----------------------------------------------------------------------------
(* The score of an episode is a natural number (src/inmem.rs:207-218).     *)
LEMMA ScoreType ==
    ASSUME NEW query \in SUBSET Tokens, NEW summary
    PROVE  lexical_score(query, summary) \in Nat
BY TokensAssumption, FS_Subset, FS_CardinalityType DEF lexical_score

(* Outranks, as a set of pairs of matching positions.                      *)
RankOrder(query, list) ==
    { p \in Matching(query, list) \X Matching(query, list) :
        Outranks(query, list, p[1], p[2]) }

(* Ties broken by place, every two hits are ordered (src/inmem.rs:147-151). *)
LEMMA RankIsTotal ==
    ASSUME NEW query \in SUBSET Tokens, NEW list \in Seq(Stored)
    PROVE  /\ IsFiniteSet(Matching(query, list))
           /\ StrictTotalOrder(RankOrder(query, list), Matching(query, list))
<1> DEFINE S == Matching(query, list)
           R == RankOrder(query, list)
<1>1. Len(list) \in Nat /\ DOMAIN list = 1..Len(list)
  BY LenProperties
<1>2. S \subseteq 1..Len(list) /\ S \subseteq Nat
  BY <1>1 DEF Matching
<1>3. IsFiniteSet(S)
  <2>1. IsFiniteSet(1..Len(list))
    BY <1>1, FS_Interval
  <2> QED
    BY <1>2, <2>1, FS_Subset
<1>4. \A i, j \in S : <<i, j>> \in R <=> Outranks(query, list, i, j)
  BY DEF RankOrder
<1> DEFINE score == [i \in S |-> lexical_score(query, list[i].episode)]
<1>5. \A i \in S : score[i] \in Nat
  BY ScoreType
<1>6. \A i, j \in S :
        <<i, j>> \in R <=> score[i] > score[j] \/ (score[i] = score[j] /\ i < j)
  BY <1>4 DEF Outranks
<1> HIDE DEF S, R, score
<1>7. StrictTotalOrder(R, S)
  <2>1. \A i, j, k \in S : <<i, j>> \in R /\ <<j, k>> \in R => <<i, k>> \in R
    BY <1>2, <1>5, <1>6
  <2>2. \A i, j \in S : i # j => <<i, j>> \in R \/ <<j, i>> \in R
    BY <1>2, <1>5, <1>6
  <2>3. \A i \in S : <<i, i>> \notin R
    BY <1>2, <1>5, <1>6
  <2> QED
    BY <2>1, <2>2, <2>3 DEF StrictTotalOrder
<1> QED
  BY <1>3, <1>7 DEF S, R

(* The smaller of two numbers (truncate, src/inmem.rs:152).                *)
LEMMA MinOfTwoNumbers ==
    ASSUME NEW a \in Nat, NEW b \in Nat
    PROVE  Min({a, b}) = IF a < b THEN a ELSE b
<1> DEFINE least == IF a < b THEN a ELSE b
<1>1. least \in {a, b} /\ \A y \in {a, b} : least <= y
  OBVIOUS
<1>2. \A x \in {a, b} : (\A y \in {a, b} : x <= y) => x = least
  OBVIOUS
<1> HIDE DEF least
<1>3. Min({a, b}) = least
  BY <1>1, <1>2 DEF Min
<1> QED
  BY <1>3 DEF least

(* The n-th ranked position is the matching one with n - 1 before it.      *)
LEMMA RankedPlaces ==
    ASSUME NEW query \in SUBSET Tokens, NEW list \in Seq(Stored)
    PROVE  LET S == Matching(query, list)
               order == Ranked(query, list)
           IN  /\ Cardinality(S) \in Nat
               /\ order \in Seq(S) /\ Len(order) = Cardinality(S)
               /\ \A n \in 1..Cardinality(S) :
                     order[n] \in S /\ Place(RankOrder(query, list), S, order[n]) = n - 1
<1> DEFINE S == Matching(query, list)
           R == RankOrder(query, list)
           order == Ranked(query, list)
           Ahead(i) == { j \in S : Outranks(query, list, j, i) }
<1>1. IsFiniteSet(S) /\ StrictTotalOrder(R, S) /\ Cardinality(S) \in Nat
  BY RankIsTotal, FS_CardinalityType
<1>2. \A i \in S : Place(R, S, i) = Cardinality(Ahead(i))
  <2> SUFFICES ASSUME NEW i \in S
               PROVE  Below(R, S, i) = Ahead(i)
    BY DEF Place
  <2> QED
    BY DEF Below, RankOrder
<1>3. ASSUME NEW n \in 1..Cardinality(S)
      PROVE  order[n] \in S /\ Place(R, S, order[n]) = n - 1
  <2>1. n - 1 \in 0..(Cardinality(S) - 1)
    BY <1>1
  <2>2. PICK x \in S : Place(R, S, x) = n - 1
    BY <1>1, <2>1, PlacesAreTaken
  <2>3. order[n] = CHOOSE i \in S : Cardinality(Ahead(i)) = n - 1
    BY <1>3 DEF Ranked
  <2>4. order[n] \in S /\ Cardinality(Ahead(order[n])) = n - 1
    BY <1>2, <2>2, <2>3
  <2> QED
    BY <1>2, <2>4
<1>4. order \in [1..Cardinality(S) -> S]
  <2>1. order = [n \in 1..Cardinality(S) |->
                    CHOOSE i \in S : Cardinality(Ahead(i)) = n - 1]
    BY DEF Ranked
  <2> HIDE DEF order, S, R, Ahead
  <2> QED
    BY <1>3, <2>1
<1>5. order \in Seq(S) /\ Len(order) = Cardinality(S)
  BY <1>1, <1>4, SMT
<1> QED
  BY <1>1, <1>3, <1>5

(* The hits h are right for a call on list: HitsAreTheBest, of one answer. *)
BestOf(h, query, k, list) ==
    LET Score(i) == Cardinality(query \cap list[i].episode)
        Better(hit, i) == \/ hit.score > Score(i)
                          \/ hit.score = Score(i) /\ hit.key <= list[i].key
    IN  /\ Len(h) <= k
        /\ \A n \in DOMAIN h : h[n].score > 0
        /\ \E at \in [DOMAIN h -> DOMAIN list] :
              /\ \A m, n \in DOMAIN h : at[m] = at[n] => m = n
              /\ \A n \in DOMAIN h : h[n] = [key |-> list[at[n]].key, score |-> Score(at[n])]
        /\ \A m, n \in DOMAIN h : m < n =>
              \/ h[m].score > h[n].score
              \/ h[m].score = h[n].score /\ h[m].key <= h[n].key
        /\ \A i \in DOMAIN list : Score(i) > 0 =>
              \/ [key |-> list[i].key, score |-> Score(i)] \in { h[n] : n \in DOMAIN h }
              \/ Len(h) = k /\ \A n \in DOMAIN h : Better(h[n], i)

(* Keys that follow the places, as in the Vec.                             *)
Numbered(list) == \A i \in DOMAIN list : list[i].key = Capped(i)

(* Sorting by score and cutting at k returns the best k, ties to the older *)
(* (src/inmem.rs:132-153).                                                 *)
LEMMA TopHitsAreBest ==
    ASSUME NEW query \in SUBSET Tokens, NEW k \in Nat,
           NEW list \in Seq(Stored), Numbered(list)
    PROVE  LET h == TopHits(query, k, list)
           IN  h \in Seq(Hits) /\ BestOf(h, query, k, list)
<1> DEFINE S == Matching(query, list)
           R == RankOrder(query, list)
           order == Ranked(query, list)
           h == TopHits(query, k, list)
           count == Cardinality(S)
           length == IF k < count THEN k ELSE count
           score == [i \in DOMAIN list |-> lexical_score(query, list[i].episode)]
           Hit(i) == [key |-> list[i].key, score |-> score[i]]
           Ahead(i, j) == score[i] > score[j] \/ (score[i] = score[j] /\ i < j)
<1>1. /\ IsFiniteSet(S) /\ StrictTotalOrder(R, S)
      /\ count \in Nat
      /\ Len(order) = count
      /\ \A n \in 1..count : order[n] \in S /\ Place(R, S, order[n]) = n - 1
  BY RankIsTotal, RankedPlaces
<1>2. Len(list) \in Nat /\ DOMAIN list = 1..Len(list)
  BY LenProperties
<1>3. S \subseteq DOMAIN list /\ \A i \in DOMAIN list : i \in S <=> score[i] > 0
  BY DEF Matching
<1>4. \A i \in DOMAIN list : score[i] \in Nat
  BY ScoreType
<1>5. \A i \in DOMAIN list : list[i].key \in 0..MaxKey
  <2>1. \A i \in DOMAIN list : list[i] \in Stored
    BY <1>2, ElementOfSeq
  <2> QED
    BY <2>1 DEF Stored
<1>6. h = [n \in 1..length |-> Hit(order[n])]
  <2>1. Min({k, Len(order)}) = length
    BY <1>1, MinOfTwoNumbers
  <2>2. \A n \in 1..length : order[n] \in DOMAIN list
    BY <1>1, <1>3
  <2>3. h = [n \in 1..length |->
               [key |-> list[order[n]].key, score |-> lexical_score(query, list[order[n]].episode)]]
    BY <2>1 DEF TopHits
  <2> HIDE DEF order, length, h
  <2> QED
    BY <2>2, <2>3
<1>7. length \in Nat /\ length <= k /\ length <= count /\ (length = k \/ length = count)
  BY <1>1
<1>8. \A i, j \in S : Place(R, S, i) < Place(R, S, j) => Ahead(i, j)
  <2>1. \A i, j \in S : <<i, j>> \in R <=> Place(R, S, i) < Place(R, S, j)
    BY <1>1, PlacesOrder
  <2>2. \A i, j \in S : <<i, j>> \in R => Outranks(query, list, i, j)
    BY DEF RankOrder
  <2> QED
    BY <1>3, <2>1, <2>2 DEF Outranks
<1>9. \A i, j \in S : Ahead(i, j) =>
         score[i] > score[j] \/ (score[i] = score[j] /\ list[i].key <= list[j].key)
  BY <1>2, <1>3, MaxKeyAssumption DEF Numbered, Capped
<1>10. \A i \in S : Place(R, S, i) \in 0..(count - 1)
  BY <1>1, PlaceType
<1>11. \A i, j \in S : Place(R, S, i) = Place(R, S, j) => i = j
  BY <1>1, PlacesOrder
<1> DEFINE place == [i \in S |-> Place(R, S, i)]
<1>12. /\ \A n \in 1..count : order[n] \in S /\ place[order[n]] = n - 1
       /\ \A i \in S : place[i] \in 0..(count - 1)
       /\ \A i, j \in S : place[i] < place[j] => Ahead(i, j)
       /\ \A i, j \in S : place[i] = place[j] => i = j
  BY <1>1, <1>8, <1>10, <1>11
<1>13. \A i \in DOMAIN list : Cardinality(query \cap list[i].episode) = score[i]
  BY DEF lexical_score
<1>14. count \in Nat
  BY <1>1
<1> HIDE DEF S, R, order, h, count, length, score, place
<1>15. h \in [1..length -> Hits]
  <2>1. \A i \in S : Hit(i) \in Hits
    BY <1>3, <1>4, <1>5 DEF Hits
  <2> HIDE DEF Hit
  <2> QED
    BY <1>6, <1>7, <1>12, <1>14, <2>1
<1>16. h \in Seq(Hits) /\ Len(h) = length /\ DOMAIN h = 1..length
  BY <1>7, <1>15
<1>17. \A n \in 1..length :
          order[n] \in S /\ place[order[n]] = n - 1 /\ h[n] = Hit(order[n])
  BY <1>6, <1>7, <1>12, <1>14
<1> HIDE DEF Ahead
<1>18. /\ \A n \in DOMAIN h : h[n].score > 0
       /\ \E at \in [DOMAIN h -> DOMAIN list] :
             /\ \A m, n \in DOMAIN h : at[m] = at[n] => m = n
             /\ \A n \in DOMAIN h : at[n] \in DOMAIN list /\ h[n] = Hit(at[n])
  <2> DEFINE at == [n \in DOMAIN h |-> order[n]]
  <2>1. \A n \in DOMAIN h : order[n] \in DOMAIN list /\ h[n] = Hit(order[n])
    BY <1>3, <1>16, <1>17
  <2>2. at \in [DOMAIN h -> DOMAIN list]
    BY <2>1
  <2>3. \A n \in DOMAIN h : at[n] = order[n]
    OBVIOUS
  <2>4. \A m, n \in DOMAIN h : order[m] = order[n] => m = n
    BY <1>7, <1>16, <1>17
  <2>5. \A n \in DOMAIN h : h[n].score > 0
    BY <1>3, <1>16, <1>17
  <2> HIDE DEF at, Hit
  <2> QED
    BY <2>1, <2>2, <2>3, <2>4, <2>5
<1>19. \A m, n \in DOMAIN h : m < n =>
          \/ h[m].score > h[n].score
          \/ h[m].score = h[n].score /\ h[m].key <= h[n].key
  <2> SUFFICES ASSUME NEW m \in 1..length, NEW n \in 1..length, m < n
               PROVE  \/ h[m].score > h[n].score
                      \/ h[m].score = h[n].score /\ h[m].key <= h[n].key
    BY <1>16
  <2>1. /\ order[m] \in S /\ place[order[m]] = m - 1 /\ h[m] = Hit(order[m])
        /\ order[n] \in S /\ place[order[n]] = n - 1 /\ h[n] = Hit(order[n])
    BY <1>17
  <2>2. m - 1 < n - 1
    BY <1>7
  <2>3. Ahead(order[m], order[n])
    BY <1>12, <2>1, <2>2
  <2>4. \/ score[order[m]] > score[order[n]]
        \/ score[order[m]] = score[order[n]] /\ list[order[m]].key <= list[order[n]].key
    BY <1>9, <2>1, <2>3
  <2> QED
    BY <2>1, <2>4
<1>20. ASSUME NEW i \in DOMAIN list, score[i] > 0
       PROVE  \/ Hit(i) \in { h[n] : n \in DOMAIN h }
              \/ /\ Len(h) = k
                 /\ \A n \in DOMAIN h :
                       \/ h[n].score > score[i]
                       \/ h[n].score = score[i] /\ h[n].key <= list[i].key
  <2>1. i \in S /\ place[i] \in 0..(count - 1)
    BY <1>3, <1>12, <1>20
  <2>2. CASE place[i] < length
    <3>1. place[i] + 1 \in 1..length
      BY <1>7, <1>14, <2>1, <2>2
    <3>2. place[order[place[i] + 1]] = place[i] /\ order[place[i] + 1] \in S
      <4> DEFINE n == place[i] + 1
      <4>1. order[n] \in S /\ place[order[n]] = n - 1
        BY <1>17, <3>1
      <4>2. n - 1 = place[i]
        BY <1>14, <2>1
      <4> QED
        BY <4>1, <4>2
    <3>3. order[place[i] + 1] = i
      BY <1>12, <2>1, <3>2
    <3>4. h[place[i] + 1] = Hit(i)
      BY <1>17, <3>1, <3>3
    <3> QED
      BY <1>16, <3>1, <3>4
  <2>3. CASE ~ place[i] < length
    <3>1. length = k
      BY <1>7, <1>14, <2>1, <2>3
    <3>2. ASSUME NEW n \in 1..length
          PROVE  \/ h[n].score > score[i]
                 \/ h[n].score = score[i] /\ h[n].key <= list[i].key
      <4>1. order[n] \in S /\ place[order[n]] = n - 1 /\ h[n] = Hit(order[n])
        BY <1>17
      <4>2. n - 1 < place[i]
        BY <1>7, <1>14, <2>1, <2>3
      <4>3. Ahead(order[n], i)
        BY <1>12, <2>1, <4>1, <4>2
      <4>4. \/ score[order[n]] > score[i]
            \/ score[order[n]] = score[i] /\ list[order[n]].key <= list[i].key
        BY <1>9, <2>1, <4>1, <4>3
      <4> QED
        BY <4>1, <4>4
    <3> QED
      BY <1>16, <3>1, <3>2
  <2> QED
    BY <2>2, <2>3
<1>21. BestOf(h, query, k, list)
  <2>1. Len(h) <= k
    BY <1>7, <1>16
  <2>2. /\ \A n \in DOMAIN h : h[n].score > 0
        /\ \E at \in [DOMAIN h -> DOMAIN list] :
              /\ \A m, n \in DOMAIN h : at[m] = at[n] => m = n
              /\ \A n \in DOMAIN h :
                    h[n] = [key |-> list[at[n]].key,
                            score |-> Cardinality(query \cap list[at[n]].episode)]
    <3>1. PICK at \in [DOMAIN h -> DOMAIN list] :
             /\ \A m, n \in DOMAIN h : at[m] = at[n] => m = n
             /\ \A n \in DOMAIN h : at[n] \in DOMAIN list /\ h[n] = Hit(at[n])
      BY <1>18
    <3>2. \A n \in DOMAIN h :
             h[n] = [key |-> list[at[n]].key,
                     score |-> Cardinality(query \cap list[at[n]].episode)]
      BY <1>13, <3>1
    <3> QED
      BY <1>18, <3>1, <3>2
  <2>3. ASSUME NEW i \in DOMAIN list, Cardinality(query \cap list[i].episode) > 0
        PROVE  LET s == Cardinality(query \cap list[i].episode)
               IN  \/ [key |-> list[i].key, score |-> s] \in { h[n] : n \in DOMAIN h }
                   \/ /\ Len(h) = k
                      /\ \A n \in DOMAIN h :
                            \/ h[n].score > s
                            \/ h[n].score = s /\ h[n].key <= list[i].key
    BY <1>13, <1>20, <2>3
  <2> QED
    BY <1>19, <2>1, <2>2, <2>3, Zenon DEF BestOf
<1> QED
  BY <1>16, <1>21 DEF h

-----------------------------------------------------------------------------
(* Types, the bound on appends, and what an answered reader holds.         *)
ReaderInv ==
    /\ TypeOK
    /\ Len(episodes) <= MaxEpisodes
    /\ \A c \in Readers : pc[c] = "returned" =>
          BestOf(hits[c], request[c].query, request[c].k, snapshot[c])

(* The step of one reader keeps the others' answers.                       *)
LEMMA OthersKeep ==
    ASSUME ReaderInv, NEW c \in Readers,
           NEW p \in {"idle", "called", "cloned", "returned"}, NEW r \in Requests,
           NEW list \in Seq(Stored), NEW h \in Seq(Hits), NEW n \in 0..MaxEpisodes,
           p = "returned" => BestOf(h, r.query, r.k, list),
           pc' = [pc EXCEPT ![c] = p],
           request' = [request EXCEPT ![c] = r],
           snapshot' = [snapshot EXCEPT ![c] = list],
           hits' = [hits EXCEPT ![c] = h],
           stored' = [stored EXCEPT ![c] = n],
           UNCHANGED storeVars, poisoned' \in BOOLEAN
    PROVE  ReaderInv'
<1>1. TypeOK'
  BY DEF ReaderInv, TypeOK, storeVars
<1>2. (Len(episodes) <= MaxEpisodes)'
  BY DEF ReaderInv, storeVars
<1>3. ASSUME NEW d \in Readers, pc'[d] = "returned"
      PROVE  BestOf(hits'[d], request'[d].query, request'[d].k, snapshot'[d])
  <2>1. CASE d = c
    BY <1>3, <2>1 DEF ReaderInv, TypeOK
  <2>2. CASE d # c
    <3>1. /\ pc'[d] = pc[d] /\ hits'[d] = hits[d]
          /\ request'[d] = request[d] /\ snapshot'[d] = snapshot[d]
      BY <2>2 DEF ReaderInv, TypeOK
    <3>2. BestOf(hits[d], request[d].query, request[d].k, snapshot[d])
      BY <1>3, <3>1 DEF ReaderInv
    <3> QED
      BY <3>1, <3>2
  <2> QED
    BY <2>1, <2>2
<1>4. (\A d \in Readers : pc[d] = "returned" =>
          BestOf(hits[d], request[d].query, request[d].k, snapshot[d]))'
  BY <1>3 DEF BestOf
<1> QED
  BY <1>1, <1>2, <1>4 DEF ReaderInv

(* Nor does a step that changes no reader.                                 *)
LEMMA AllKeep ==
    ASSUME ReaderInv, UNCHANGED readerVars, TypeOK', (Len(episodes) <= MaxEpisodes)'
    PROVE  ReaderInv'
<1>1. ASSUME NEW d \in Readers, pc'[d] = "returned"
      PROVE  BestOf(hits'[d], request'[d].query, request'[d].k, snapshot'[d])
  BY <1>1, Zenon DEF ReaderInv, readerVars
<1>2. (\A d \in Readers : pc[d] = "returned" =>
          BestOf(hits[d], request[d].query, request[d].k, snapshot[d]))'
  BY <1>1 DEF BestOf
<1> QED
  BY <1>2 DEF ReaderInv

(* The fields of a reader that a step leaves alone.                        *)
LEMMA FieldsKeep ==
    ASSUME TypeOK, NEW c \in Readers
    PROVE  /\ pc[c] \in {"idle", "called", "cloned", "returned"}
           /\ request[c] \in Requests /\ request = [request EXCEPT ![c] = request[c]]
           /\ snapshot[c] \in Seq(Stored) /\ snapshot = [snapshot EXCEPT ![c] = snapshot[c]]
           /\ hits[c] \in Seq(Hits) /\ hits = [hits EXCEPT ![c] = hits[c]]
           /\ stored[c] \in 0..MaxEpisodes /\ stored = [stored EXCEPT ![c] = stored[c]]
BY DEF TypeOK

(* Appends change no answer; calls start afresh; answers are the best of   *)
(* the clone (src/inmem.rs:104-154).                                       *)
LEMMA ReaderStep == StoreInv /\ ReaderInv /\ [Next]_vars => ReaderInv'
<1> SUFFICES ASSUME StoreInv, ReaderInv, [Next]_vars
             PROVE  ReaderInv'
  OBVIOUS
<1>1. /\ TypeOK
      /\ Len(episodes) \in Nat /\ Len(episodes) <= MaxEpisodes
      /\ episodes \in Seq(Stored)
  BY LenProperties DEF ReaderInv, StoreInv, KeysAreNumbered
<1>2. Len(episodes) \in 0..MaxEpisodes
  BY <1>1, MaxEpisodesAssumption
<1>3. ASSUME NEW e \in Summaries, AppendEpisode(e)
      PROVE  ReaderInv'
  <2>1. KeysAreNumbered' /\ Len(episodes') = Len(episodes) + 1
    BY <1>3, AppendEffect DEF StoreInv
  <2>2. Len(episodes') <= MaxEpisodes
    BY <1>1, <1>3, <2>1, MaxEpisodesAssumption DEF AppendEpisode
  <2>3. next_key' \in 0..MaxKey
    BY <1>1, <1>3, MaxKeyAssumption DEF AppendEpisode, TypeOK
  <2>4. UNCHANGED <<poisoned, pc, request, snapshot, hits, stored>>
    BY <1>3 DEF AppendEpisode, readerVars
  <2>5. TypeOK'
    BY <1>1, <2>1, <2>3, <2>4 DEF TypeOK, KeysAreNumbered
  <2> QED
    BY <1>3, <2>2, <2>5, AllKeep DEF AppendEpisode
<1>4. ASSUME NEW c \in Readers, NEW r \in Requests, CallRetrieve(c, r)
      PROVE  ReaderInv'
  <2>1. r.k \in Nat
    BY LimitsAssumption DEF Requests
  <2>2. << >> \in Seq(Stored) /\ << >> \in Seq(Hits) /\ Len(<< >>) = 0 /\ DOMAIN << >> = {}
    BY EmptySeq
  <2>3. BestOf(<< >>, r.query, r.k, << >>)
    <3>1. ASSUME NEW e, DOMAIN e = {}, Len(e) = 0
          PROVE  BestOf(e, r.query, r.k, e)
      <4> DEFINE at == [n \in {} |-> n]
      <4>1. at \in [DOMAIN e -> DOMAIN e]
        BY <3>1
      <4>2. \A n \in DOMAIN e : FALSE
        BY <3>1
      <4> HIDE DEF at
      <4>3. \E a \in [DOMAIN e -> DOMAIN e] :
               /\ \A m, n \in DOMAIN e : a[m] = a[n] => m = n
               /\ \A n \in DOMAIN e :
                     e[n] = [key |-> e[a[n]].key,
                             score |-> Cardinality(r.query \cap e[a[n]].episode)]
        BY <4>1, <4>2, Zenon
      <4>4. Len(e) <= r.k
        BY <2>1, <3>1
      <4> QED
        BY <4>2, <4>3, <4>4, Zenon DEF BestOf
    <3> QED
      BY <2>2, <3>1
  <2> DEFINE p == IF r.k = 0 THEN "returned" ELSE "called"
  <2>4. p \in {"idle", "called", "cloned", "returned"}
    OBVIOUS
  <2>5. /\ pc' = [pc EXCEPT ![c] = p]
        /\ request' = [request EXCEPT ![c] = r]
        /\ snapshot' = [snapshot EXCEPT ![c] = << >>]
        /\ hits' = [hits EXCEPT ![c] = << >>]
        /\ stored' = [stored EXCEPT ![c] = Len(episodes)]
        /\ UNCHANGED storeVars /\ poisoned' \in BOOLEAN
    BY <1>1, <1>4 DEF CallRetrieve, TypeOK
  <2> HIDE DEF p
  <2> QED
    BY <1>2, <2>2, <2>3, <2>4, <2>5, OthersKeep
<1>5. ASSUME NEW c \in Readers, CloneEpisodes(c)
      PROVE  ReaderInv'
  <2>1. /\ pc' = [pc EXCEPT ![c] = "cloned"]
        /\ request' = [request EXCEPT ![c] = request[c]]
        /\ snapshot' = [snapshot EXCEPT ![c] = episodes]
        /\ hits' = [hits EXCEPT ![c] = hits[c]]
        /\ stored' = [stored EXCEPT ![c] = stored[c]]
        /\ UNCHANGED storeVars /\ poisoned' \in BOOLEAN
    BY <1>1, <1>5, FieldsKeep DEF CloneEpisodes, TypeOK
  <2> QED
    BY <1>1, <2>1, FieldsKeep, OthersKeep
<1>6. ASSUME NEW c \in Readers, ReturnHits(c)
      PROVE  ReaderInv'
  <2> DEFINE h == TopHits(request[c].query, request[c].k, snapshot[c])
  <2>1. request[c].query \in SUBSET Tokens /\ request[c].k \in Nat
    BY <1>1, LimitsAssumption DEF TypeOK, Requests
  <2>2. Past(snapshot[c])
    BY <1>6 DEF ReturnHits, StoreInv, ReadersSeeThePast
  <2>3. snapshot[c] \in Seq(Stored) /\ Numbered(snapshot[c])
    <3>1. /\ DOMAIN snapshot[c] = 1..Len(snapshot[c]) /\ Len(snapshot[c]) \in Nat
          /\ DOMAIN episodes = 1..Len(episodes)
      BY <1>1, <2>2, LenProperties DEF Past
    <3>2. \A i \in DOMAIN snapshot[c] : i \in DOMAIN episodes /\ snapshot[c][i] = episodes[i]
      BY <1>1, <2>2, <3>1 DEF Past
    <3> QED
      BY <2>2, <3>2 DEF Past, Numbered, StoreInv, KeysAreNumbered
  <2>4. h \in Seq(Hits) /\ BestOf(h, request[c].query, request[c].k, snapshot[c])
    BY <2>1, <2>3, TopHitsAreBest
  <2>5. /\ pc' = [pc EXCEPT ![c] = "returned"]
        /\ request' = [request EXCEPT ![c] = request[c]]
        /\ snapshot' = [snapshot EXCEPT ![c] = snapshot[c]]
        /\ hits' = [hits EXCEPT ![c] = h]
        /\ stored' = [stored EXCEPT ![c] = stored[c]]
        /\ UNCHANGED storeVars /\ poisoned' \in BOOLEAN
    BY <1>1, <1>6, FieldsKeep DEF ReturnHits, TypeOK
  <2> HIDE DEF h
  <2> QED
    BY <1>1, <2>4, <2>5, FieldsKeep, OthersKeep
<1>7. ASSUME NEW c \in Readers, CloneFails(c) \/ ReturnPoisoned(c)
      PROVE  ReaderInv'
  <2>1. /\ pc' = [pc EXCEPT ![c] = "idle"]
        /\ request' = [request EXCEPT ![c] = request[c]]
        /\ snapshot' = [snapshot EXCEPT ![c] = snapshot[c]]
        /\ hits' = [hits EXCEPT ![c] = hits[c]]
        /\ stored' = [stored EXCEPT ![c] = stored[c]]
        /\ UNCHANGED storeVars /\ poisoned' \in BOOLEAN
    BY <1>1, <1>7, FieldsKeep DEF CloneFails, ReturnPoisoned, TypeOK
  <2> QED
    BY <1>1, <2>1, FieldsKeep, OthersKeep
<1>8. ASSUME (\E key \in 0..MaxKey : GetFails(key)) \/ UNCHANGED vars
      PROVE  ReaderInv'
  <2>1. UNCHANGED storeVars /\ UNCHANGED readerVars /\ poisoned' \in BOOLEAN
    BY <1>1, <1>8 DEF GetFails, vars, TypeOK
  <2>2. TypeOK' /\ (Len(episodes) <= MaxEpisodes)'
    BY <1>1, <2>1 DEF TypeOK, storeVars, readerVars
  <2> QED
    BY <2>1, <2>2, AllKeep
<1> QED
  BY <1>3, <1>4, <1>5, <1>6, <1>7, <1>8 DEF Next

(* A new store has no answered reader.                                     *)
LEMMA ReaderInit == Init => ReaderInv
<1> SUFFICES ASSUME Init
             PROVE  ReaderInv
  OBVIOUS
<1>1. << >> \in Seq(Stored) /\ << >> \in Seq(Hits) /\ Len(<< >>) = 0
  BY EmptySeq
<1>2. (CHOOSE k \in Limits : TRUE) \in Limits
  BY LimitsAssumption
<1>3. [query |-> {}, k |-> CHOOSE k \in Limits : TRUE] \in Requests
  BY <1>2 DEF Requests
<1>4. 0 \in 0..MaxKey /\ 0 \in 0..MaxEpisodes
  BY MaxKeyAssumption, MaxEpisodesAssumption
<1>5. TypeOK
  BY <1>1, <1>3, <1>4 DEF Init, TypeOK
<1>6. \A c \in Readers : pc[c] # "returned"
  BY DEF Init
<1> QED
  BY <1>1, <1>5, <1>6, MaxEpisodesAssumption DEF Init, ReaderInv

(* What readers hold, in every reachable state.                            *)
THEOREM ReadersCorrect == Spec => []ReaderInv
<1>1. ReaderInv /\ StoreInv /\ [Next]_vars => ReaderInv'
  BY ReaderStep
<1> QED
  BY <1>1, ReaderInit, StoreCorrect, PTL DEF Spec

(* The types; the key counter and the Vec stay within their bounds         *)
(* (src/inmem.rs:104-116).                                                 *)
THEOREM TypeCorrect == Spec => []TypeOK
<1>1. ReaderInv => TypeOK
  BY DEF ReaderInv
<1> QED
  BY <1>1, ReadersCorrect, PTL

(* A retrieval returns the best k matching episodes of its clone, best     *)
(* first, equal scores oldest first, and leaves one out only for k that    *)
(* come before it (src/inmem.rs:118-154).                                  *)
THEOREM HitsAreBest == Spec => []HitsAreTheBest
<1>1. ReaderInv => HitsAreTheBest
  BY DEF ReaderInv, HitsAreTheBest, BestOf
<1> QED
  BY <1>1, ReadersCorrect, PTL
=============================================================================
