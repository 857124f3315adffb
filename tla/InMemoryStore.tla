------------------------------ MODULE InMemoryStore ------------------------------
(***************************************************************************)
(* The append-only episode store of src/inmem.rs, shared by several tasks. *)
(*                                                                         *)
(* append and get hold the mutex for their whole body: one step each.      *)
(* retrieve_similar clones the episodes under the lock and scores the      *)
(* clone afterwards, so it is three steps: the call, the clone, the        *)
(* return.  A panic in E::clone, the host's code, poisons the mutex.       *)
(*                                                                         *)
(* An episode is the set of normalized tokens of its summary, a query the  *)
(* set of its own; a score is the number of shared tokens, which orders    *)
(* the hits of one query as the fraction does.  The key "ep-{:016x}" is    *)
(* its number: fixed width makes the two orders the same.                  *)
(***************************************************************************)
EXTENDS SequencesExt

CONSTANTS
    Readers,        \* tasks that call retrieve_similar
    Tokens,         \* normalized tokens
    Limits,         \* values of k
    MaxKey,         \* u64::MAX
    MaxEpisodes,    \* bound: episodes appended
    ClonePanics     \* may E::clone panic?

ASSUME TokensAssumption == IsFiniteSet(Tokens)
ASSUME LimitsAssumption == Limits \subseteq Nat /\ Limits # {}
ASSUME MaxKeyAssumption == MaxKey \in Nat \ {0}
ASSUME MaxEpisodesAssumption == MaxEpisodes \in Nat
ASSUME ClonePanicsAssumption == ClonePanics \in BOOLEAN

VARIABLES
    next_key,
    episodes,       \* the Vec of pairs
    poisoned,       \* has a holder of the mutex panicked?
    pc,             \* "idle", "called", "cloned", "returned"
    request,        \* the query and k of each reader's call
    snapshot,       \* the reader's clone of the episodes
    hits,           \* what the call returned
    stored          \* history: episodes stored when the reader called

storeVars == <<next_key, episodes>>
readerVars == <<pc, request, snapshot, hits, stored>>
vars == <<storeVars, poisoned, readerVars>>

Summaries == SUBSET Tokens
Requests == [query : SUBSET Tokens, k : Limits]
Stored == [key : 0..MaxKey, episode : Summaries]
Hits == [key : 0..MaxKey, score : Nat]

TypeOK ==
    /\ next_key \in 0..MaxKey
    /\ episodes \in Seq(Stored)
    /\ poisoned \in BOOLEAN
    /\ pc \in [Readers -> {"idle", "called", "cloned", "returned"}]
    /\ request \in [Readers -> Requests]
    /\ snapshot \in [Readers -> Seq(Stored)]
    /\ hits \in [Readers -> Seq(Hits)]
    /\ stored \in [Readers -> 0..MaxEpisodes]

-----------------------------------------------------------------------------
lexical_score(query, summary) == Cardinality(query \cap summary)

(* The positions of the episodes that share a token with the query.        *)
Matching(query, list) == { i \in DOMAIN list : lexical_score(query, list[i].episode) > 0 }

(* sort_by is stable: equal scores stay in insertion order.                *)
Outranks(query, list, i, j) ==
    LET Score(n) == lexical_score(query, list[n].episode)
    IN  Score(i) > Score(j) \/ (Score(i) = Score(j) /\ i < j)

(* The matching positions, best first: the n-th has n - 1 before it.       *)
Ranked(query, list) ==
    LET matching == Matching(query, list)
        Ahead(i) == { j \in matching : Outranks(query, list, j, i) }
    IN  [n \in 1..Cardinality(matching) |->
            CHOOSE i \in matching : Cardinality(Ahead(i)) = n - 1]

(* Mutant: the list is cut before it is sorted.                            *)
TopHitsUnsorted(query, k, list) ==
    LET order == Ranked(query, SubSeq(list, 1, Min({k, Len(list)})))
    IN  [i \in DOMAIN order |->
            [key |-> list[order[i]].key,
             score |-> lexical_score(query, list[order[i]].episode)]]

TopHits(query, k, list) ==
    LET order == Ranked(query, list)
    IN  [i \in 1..Min({k, Len(order)}) |->
            [key |-> list[order[i]].key,
             score |-> lexical_score(query, list[order[i]].episode)]]

-----------------------------------------------------------------------------
Init ==
    /\ next_key = 0
    /\ episodes = << >>
    /\ poisoned = FALSE
    /\ pc = [c \in Readers |-> "idle"]
    /\ request = [c \in Readers |-> [query |-> {}, k |-> CHOOSE k \in Limits : TRUE]]
    /\ snapshot = [c \in Readers |-> << >>]
    /\ hits = [c \in Readers |-> << >>]
    /\ stored = [c \in Readers |-> 0]

(* Mutants: a counter that wraps around, one that overflows.               *)
AppendWraps(e) ==
    /\ ~poisoned
    /\ Len(episodes) < MaxEpisodes
    /\ next_key' = (next_key + 1) % (MaxKey + 1)
    /\ episodes' = Append(episodes, [key |-> next_key', episode |-> e])
    /\ UNCHANGED <<poisoned, readerVars>>

AppendOverflows(e) ==
    /\ ~poisoned
    /\ Len(episodes) < MaxEpisodes
    /\ next_key' = next_key + 1
    /\ episodes' = Append(episodes, [key |-> next_key', episode |-> e])
    /\ UNCHANGED <<poisoned, readerVars>>

(* saturating_add: the terminal key is used again.                         *)
AppendEpisode(e) ==
    /\ ~poisoned
    /\ Len(episodes) < MaxEpisodes
    /\ next_key' = IF next_key = MaxKey THEN MaxKey ELSE next_key + 1
    /\ episodes' = Append(episodes, [key |-> next_key', episode |-> e])
    /\ UNCHANGED <<poisoned, readerVars>>

(* What get answers: Err(Poisoned), Err(NotFound) or the episode.          *)
Poisoned == [is |-> "Poisoned"]
NotFound == [is |-> "NotFound"]
Found(e) == [is |-> "Ok", episode |-> e]

(* Mutant: the last episode with the key.                                  *)
get_last(key) ==
    LET found == { i \in DOMAIN episodes : episodes[i].key = key }
    IN  IF poisoned THEN Poisoned
        ELSE IF found = {} THEN NotFound ELSE Found(episodes[Max(found)].episode)

(* get asks the lock first, then returns the first episode with the key.   *)
get(key) ==
    LET found == { i \in DOMAIN episodes : episodes[i].key = key }
    IN  IF poisoned THEN Poisoned
        ELSE IF found = {} THEN NotFound ELSE Found(episodes[Min(found)].episode)

(* Its clone of that episode panics, under the lock.                       *)
GetFails(key) ==
    /\ ClonePanics
    /\ get(key).is = "Ok"
    /\ poisoned' = TRUE
    /\ UNCHANGED <<storeVars, readerVars>>

(* The call: k = 0 returns at once, without the lock.                      *)
CallRetrieve(c, r) ==
    /\ pc[c] \in {"idle", "returned"}
    /\ request' = [request EXCEPT ![c] = r]
    /\ stored' = [stored EXCEPT ![c] = Len(episodes)]
    /\ hits' = [hits EXCEPT ![c] = << >>]
    /\ snapshot' = [snapshot EXCEPT ![c] = << >>]
    /\ pc' = [pc EXCEPT ![c] = IF r.k = 0 THEN "returned" ELSE "called"]
    /\ UNCHANGED <<storeVars, poisoned>>

(* Mutant: a clone that misses the episode appended last.                  *)
CloneMissesLast(c) ==
    /\ pc[c] = "called"
    /\ ~poisoned
    /\ snapshot' = [snapshot EXCEPT ![c] = SubSeq(episodes, 1, Len(episodes) - 1)]
    /\ pc' = [pc EXCEPT ![c] = "cloned"]
    /\ UNCHANGED <<storeVars, poisoned, request, hits, stored>>

CloneEpisodes(c) ==
    /\ pc[c] = "called"
    /\ ~poisoned
    /\ snapshot' = [snapshot EXCEPT ![c] = episodes]
    /\ pc' = [pc EXCEPT ![c] = "cloned"]
    /\ UNCHANGED <<storeVars, poisoned, request, hits, stored>>

(* The lock is gone by now: others may have appended.                      *)
ReturnHits(c) ==
    /\ pc[c] = "cloned"
    /\ hits' = [hits EXCEPT ![c] =
                   TopHits(request[c].query, request[c].k, snapshot[c])]
    /\ pc' = [pc EXCEPT ![c] = "returned"]
    /\ UNCHANGED <<storeVars, poisoned, request, snapshot, stored>>

(* The panic unwinds through the guard and the call.                       *)
CloneFails(c) ==
    /\ ClonePanics
    /\ pc[c] = "called"
    /\ ~poisoned
    /\ episodes # << >>
    /\ poisoned' = TRUE
    /\ pc' = [pc EXCEPT ![c] = "idle"]
    /\ UNCHANGED <<storeVars, request, snapshot, hits, stored>>

(* Err(Poisoned).                                                          *)
ReturnPoisoned(c) ==
    /\ pc[c] = "called"
    /\ poisoned
    /\ pc' = [pc EXCEPT ![c] = "idle"]
    /\ UNCHANGED <<storeVars, poisoned, request, snapshot, hits, stored>>

Next ==
    \/ \E e \in Summaries : AppendEpisode(e)
    \/ \E key \in 0..MaxKey : GetFails(key)
    \/ \E c \in Readers :
          \/ \E r \in Requests : CallRetrieve(c, r)
          \/ CloneEpisodes(c) \/ ReturnHits(c)
          \/ CloneFails(c) \/ ReturnPoisoned(c)

Spec == Init /\ [][Next]_vars

-----------------------------------------------------------------------------
(* Keys sort by insertion order, and only the terminal key is ever used    *)
(* twice (src/inmem.rs:106-109).                                           *)
KeysSortByInsertion ==
    \A i, j \in DOMAIN episodes :
        i < j => episodes[i].key < episodes[j].key \/ episodes[j].key = MaxKey

(* A key below the terminal one names its episode for ever, the terminal   *)
(* one the episode that got it first, whoever reuses it: from then on get  *)
(* answers that episode or Err(Poisoned), never NotFound, never another    *)
(* (src/inmem.rs:106-109, 157-165).                                        *)
KeyIsStable(key) == get(key).is = "Ok" => get(key)' \in {get(key), Poisoned}

(* A panic in one call is final for all of them, also for those under way: *)
(* once one get is refused, every get is, nothing is appended and no       *)
(* waiting reader gets a clone.                                            *)
PoisonIsFinal ==
    (\E key \in 0..MaxKey : get(key) = Poisoned) =>
        /\ \A key \in 0..MaxKey : get(key)' = Poisoned
        /\ episodes' = episodes
        /\ \A c \in Readers : pc'[c] = "cloned" => pc[c] = "cloned"

(* What get answers, over any step of the others.                          *)
AnswersAreStable ==
    [][ PoisonIsFinal /\ \A key \in 0..MaxKey : KeyIsStable(key) ]_vars

(* A retrieval sees every episode stored before it was called, in order,   *)
(* and nothing that was never stored: its snapshot is a prefix of the Vec  *)
(* at least as long as the Vec was at the call.                            *)
RetrievalSeesThePast ==
    \A c \in Readers :
        pc[c] = "cloned" =>
            /\ IsPrefix(snapshot[c], episodes)
            /\ Len(snapshot[c]) >= stored[c]

(* What a retrieval returns, judged without sorting: at most k hits, each  *)
(* an episode of its own that matches, with its score; none is worse than  *)
(* the next, equal scores come in key order; and a matching episode is     *)
(* left out only if k better ones, or as good and older ones, were         *)
(* returned (src/inmem.rs:118-119).                                        *)
HitsAreTheBest ==
    \A c \in Readers : pc[c] = "returned" =>
        LET query == request[c].query
            Score(i) == Cardinality(query \cap snapshot[c][i].episode)
            Better(h, i) == \/ h.score > Score(i)
                            \/ h.score = Score(i) /\ h.key <= snapshot[c][i].key
        IN  /\ Len(hits[c]) <= request[c].k
            /\ \A n \in DOMAIN hits[c] : hits[c][n].score > 0
            /\ \E at \in [DOMAIN hits[c] -> DOMAIN snapshot[c]] :
                  /\ \A m, n \in DOMAIN hits[c] : at[m] = at[n] => m = n
                  /\ \A n \in DOMAIN hits[c] :
                        hits[c][n] = [key |-> snapshot[c][at[n]].key, score |-> Score(at[n])]
            /\ \A m, n \in DOMAIN hits[c] : m < n =>
                  \/ hits[c][m].score > hits[c][n].score
                  \/ /\ hits[c][m].score = hits[c][n].score
                     /\ hits[c][m].key <= hits[c][n].key
            /\ \A i \in DOMAIN snapshot[c] : Score(i) > 0 =>
                  \/ [key |-> snapshot[c][i].key, score |-> Score(i)]
                        \in { hits[c][n] : n \in DOMAIN hits[c] }
                  \/ /\ Len(hits[c]) = request[c].k
                     /\ \A n \in DOMAIN hits[c] : Better(hits[c][n], i)
=============================================================================
