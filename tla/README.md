# rig-memory-policy in TLA+

A TLA+ model of the crate `rig-memory-policy` (`src/`), checked with TLC and, for
the parts marked below, proved with TLAPS. Paths such as `src/dedup.rs` are
relative to the root of the crate.

## 1. Inventory

The crate is a library: it starts no thread and opens no file. Concurrency,
crashes and retries come from its callers, the *hosts* (Rig's demotion hooks and
compactors, and the adapters of archive backends).

| Component | State | Operations | What is hard | What makes it correct |
|---|---|---|---|---|
| **DedupSet** (`src/dedup.rs`) | hash set behind a `RwLock`, poison flag | `contains`, `insert`, `snapshot`, `extend_from_snapshot` | `contains` then `insert` is not atomic; `insert` precedes the append it stands for; sidecar lines may be damaged; `warn!` runs foreign code under the write guard | at most one entry per key, no entry suppressed without a reason, restored keys not rewritten, fails closed when poisoned |
| **compute_key** (`src/dedup.rs`) | none | five fields joined by NUL and hashed | separators inside fields, `None` and `""` | distinct entries have distinct keys |
| **hex codec** (`src/dedup.rs`) | none | `hex_encode`, `hex_decode` | case, length, bad digits | decode after encode is the identity |
| **SimHash** (`src/dedup.rs`, feature `near-dedup`) | none | `from_text`, `hamming_distance`, `is_near` | ties of a column | independent of token order |
| **Scope** (`src/scope.rs`) | none | `normalize_scope`, `scope_path`, `matches`, `contains`, `scope_matches` | padded and doubled slashes, prefix that is no ancestor | `contains` is the subtree, matching is an equivalence on texts |
| **RetentionPolicy** (`src/retention.rs`) | rules, default; during a batch `current_batch` and the report | builder, `evaluate`, `evaluate_batch`, `salience` | several rules in a row, stable sorts on each other's output, missing facts, NaN | the report is a partition, agrees with `evaluate`, quotas take the top, scope guard isolates |
| **InMemoryStore** (`src/inmem.rs`) | counter and `Vec` behind a `Mutex` | `append`, `retrieve_similar`, `get`, `len` | scoring happens after unlock; counter saturates; `E::clone` runs under the lock | stable sorted keys, consistent snapshots, best hits in order |
| **FrameMetadata** (`src/metadata.rs`) | none | `into_map`, `try_from_map`, `FrameKind::as_str` | version as text | round trip |
| **ExactHashResolver** (`src/reconcile.rs`) | set of hashes | `new`, `observe`, `reconcile` | `reconcile` does not record | `Noop` exactly for what was observed |
| **RRF** (`src/fusion.rs`) | none | `reciprocal_rank_fusion` | duplicates in a list, ties, k not positive | deterministic order, best first |
| **store traits** (`src/store.rs`) | the backend's buffer and committed log | `write_text`, `commit`, `delete_text` | failure half way through `persist_all`, commits of others, ids used again | nothing committed is lost, ids name one entry |
| **conformance** (`src/conformance.rs`) | none | `verify_backend` | ids compared before the first commit only | rejects backends that break the contract |
| `src/error.rs`, `src/lib.rs`, build files | none | | | |

How they interact: a hook computes a key (`compute_key`), asks the `DedupSet`,
records the key, stamps it in hex with kind and scope into a `FrameMetadata`, and
appends the entry to a store (`examples/retention_policy.rs:18-51`,
`tests/policy_pipeline.rs:20-66`). A retention pass later decodes the metadata
and runs a `RetentionPolicy` over candidates; its rules call `src/scope.rs`.
Between processes the only state is the archive and, if the host opts in, the
sidecar file with `DedupSet::snapshot`.

A backend's `persist_all` writes line by line and commits, and nothing keeps two
of them apart (`src/store.rs:176-189`); a resolver tells which lines to offer it
and is told of them afterwards (`src/reconcile.rs:92-118`).

`PROJECT.json` lists the hazards at their lines, with the properties that cover
each. Two have no property. A retry after a commit whose error hid its effect writes
the batch once more (`src/store.rs:187`): nothing in the code prevents it, and no
property here counts the entries of two calls together. The clamp of `k` and the
rounding of sums in the fusion (`src/fusion.rs:53`) are not modelled.

## 2. Modules

| Module | Models | Kind |
|---|---|---|
| `DedupSet` | the set, its lock and the hex snapshot, one action per method | component |
| `DedupHook` | hook invocations, archive, sidecar and restarts around `DedupSet` | composition |
| `AtMostOnceLog` | what readers of the archive are promised | abstract specification |
| `MCDedupHook` | instances of `DedupHook` for TLC | MC |
| `DedupHook_proofs` | theorems about `DedupHook` | proofs |
| `DedupKey`, `MCDedupKey`, `DedupKey_proofs` | `compute_key` | operators, MC, proofs |
| `Options` | an `Option` is a set with at most one element | operators |
| `Subsequences` | what `Iterator::filter` leaves of a sequence | operators |
| `Scope` | `src/scope.rs` as operators | operators |
| `ScopePairs`, `Scope_proofs` | `Scope` on all pairs of texts | harness, proofs |
| `Retention`, `MCRetention`, `Retention_proofs` | `src/retention.rs` on top of `Scope` | component, MC, proofs |
| `InMemoryStore`, `MCInMemoryStore`, `InMemoryStore_proofs` | `src/inmem.rs` with overlapping readers | component, MC, proofs |
| `TextStore` | the reference backend of `src/store.rs`: buffer and committed log | component |
| `Resolver` | `ExactHashResolver` of `src/reconcile.rs` | component |
| `Consolidation` | calls that reconcile, persist and observe, over one `TextStore` and one `Resolver` | composition |
| `AckedLog` | what a caller of the store is promised | abstract specification |
| `MCConsolidation`, `Consolidation_proofs` | instances and theorems of `Consolidation` | MC, proofs |
| `HexCodec`, `FrameMap`, `Fusion`, `SimHash`, `Conformance` | the hex form of a key, `src/metadata.rs`, `src/fusion.rs`, SimHash, `src/conformance.rs` | harnesses |
| `Sequential` | the parts that run to their end in one call (`ScopePairs`, `DedupKey` and the five above), one per behaviour | composition |
| `MCSequential`, `Sequential_proofs` | instance and theorems of `Sequential` | MC, proofs |
| `OrderTheorems` | places in a finite strict total order; induction on numbers | lemmas |

Definitions named `Mutant` in a comment are plausible wrong versions of the
definition that follows them; nothing uses them. For each property of a passing
run `PROJECT.json` names one that the property catches.

### DedupSet and DedupHook

Each method of `DedupSet` holds the lock for its whole body, so it is one step.
`Contains(k, result)` is enabled for the one result the code returns, and for
none when the lock is poisoned (`Err(Poisoned)` changes nothing). Keys are model
values. A line of a snapshot is a key and a flag that says whether `hex_decode`
accepts it; the sorting of the snapshot has no effect on a set and is left out.
`ExtendPanics` is the panic of a `tracing` subscriber inside `warn!` at
`src/dedup.rs:112`: the lines read before it are already inserted and the lock is
poisoned. `hex_encode`, `contains` and `insert` call no foreign code under the
guard, so this is the only way to poison the set.

`DedupHook` puts the protocol of the example and the pipeline test around it, one
action per call: `CheckDuplicate` or `CheckNovel` (`contains`), `Record`
(`insert`), `Write` or `WriteFails` (the append). `TakeSnapshot` may come between
any two of them. `Shutdown` waits for the hooks, writes a last snapshot and starts
a new process, as the module comment asks (`src/dedup.rs:15-18`); `Crash` does
neither. The new process replays the sidecar (`Replay`, `ReplayPanics`) or, if it
does not opt in, starts empty (`StartEmpty`). The archive and the sidecar are
outside the crate: the archive appends or fails without an effect, the sidecar
keeps the last snapshot, of which any line may be damaged. The constant `Faults`
says which of these failures a run admits.

`restored`, `answered` and `lost` are history variables that no guard reads.

### DedupKey

Texts are sequences of bytes and a key is the byte string handed to blake3, which
is taken to be injective: a property that needed a blake3 collision to fail would
say nothing about this code.

### Scope

A scope text is split at `/` in the representation already: it is a sequence of
parts, a part a sequence of characters of which only the blank is special. So
`normalize_scope` is trim and filter, and `scope_path` is the same sequence. `trim`
goes from the first character that is not blank to the last; the filter takes the
n-th place that is kept to be the one with n - 1 kept before it (`Subsequences`).
`contains` compares joined strings and is modelled on joined strings, because its
correctness is exactly the question whether a string prefix is a path prefix.

### Retention

One policy, built by `AddRule` and `SetDefault` in any order, then any number of
batches. `BeginBatch` picks arbitrary candidates; then one action per iteration of
the `for` loop: `RankPool` for the two ranking rules, `FilterPool` for the others,
and `FinishBatch` for the default decision, also when the pool ran empty early.
The order of `current_batch` matters, since the next stable sort keeps it among
ties, and is kept as the position `rank`; the order inside the report's lists is
not modelled. A sort is described by its result: a candidate's position is the number
of those that must stand before it. `salience` is compared exactly: raised to the
power `half_life` and times 2^`as_of` it is a whole number, for importance in
`Scale`-ths; rounding of `f64` is left out, underflow of the decay with it. An
importance of NaN is a value of its own above or below all others by its sign, and
-0.0, which `clamp` leaves alone and no decay changes, one just under 0, as
`total_cmp` orders them.

### InMemoryStore

`append` and `get` are atomic. `get` changes nothing and is an operator: it answers
`Poisoned`, `NotFound` or `Found` the episode, in the order in which the code asks
lock and `Vec`. `retrieve_similar` is three steps, because it
scores a clone after the lock is gone: `CallRetrieve`, `CloneEpisodes`,
`ReturnHits`. A panic of the host's `E::clone` under the lock is `CloneFails` in a
retrieval and `GetFails` in `get`; afterwards `append` is not enabled, for it changes
nothing but its answer, and a retrieval that has no clone yet ends in
`ReturnPoisoned`. A summary is its set of
normalized tokens; a score is the number of shared tokens, which orders the hits
of one query as the fraction does. Keys are numbers up to `MaxKey`, which stands
for `u64::MAX`.

### TextStore, Resolver and Consolidation

`TextStore` has the two lists of the backend that the docs and tests of
`src/store.rs` give, and one action per method: `write_text` answers with the
length of the buffer, `commit` moves the whole buffer, whoever filled it, to the
end of the log. `Resolver` is the set of hashes, with an injective hash:
`reconcile` reads it, `observe` adds to it.

`Consolidation` runs any number of calls of a host over one store and one
resolver. `Begin` reconciles a batch and picks what is `Add`, in order (`Picks`);
the resolver does not change meanwhile, so a batch that repeats a line picks both.
`WriteLine` is one turn of the loop in `persist_all`, `Commit` its last line,
`Observe` what the caller does with the `Ok`. Each `await` is a point between two
actions, where other calls run. With the fault `"write"` or `"commit"` the backend
answers `Err`, having done the work or not, and the `?` ends the call with the
lines before it still buffered (`WriteFails`, `CommitFails`). `Crash` loses the
buffer and every call in flight; the next process calls
`ExactHashResolver::new` with the lines the store holds. `Delete` is a tombstone
(`deleted`), because the resolver has no method to forget a line.

An entry is named by its call and position, `LineOf` gives its line: so "once" and
"in order" can be said of lines that repeat. `known` is a history variable: the
calls that had observed their lines when this one began. `ids` holds what the
backend answered, which only `persist_all`'s own count and the run `store_ids`
look at.

The order reconcile, persist, observe is the hosts': the crate has the three
operations, and asks that writes be paired with a commit before they count as durable
(`src/store.rs:73-77`) and that `observe` mark what is to be `Noop` from then on
(`src/reconcile.rs:92-93`).

### The sequential parts

`Sequential` instantiates them side by side: the variable `part` says which one
runs, and the variables of the others stay `Off`. Each is typed in step by step, so that every reachable state is an input, and the
invariant compares the code's result with a definition that does not follow the
code.

- `HexCodec`: bytes are numbers, a key has two of them instead of 32; a text of any
  length up to five characters, one too many.
- `FrameMap`: a text is a sequence of digits, `+` and letters, so that `u8::to_string`,
  `str::parse::<u8>` and the conversion of numeric strings to JSON numbers in
  `try_from_map` are modelled by what they do. Other tools put and remove names of
  the same map (`Put`, `Strip`, outside the crate).
- `Fusion`: the loop with its hash index and the sort with its tie-break. Scores are
  exact for whole positive `k`: they count in units of `1/Unit`, a constant that every
  `k + rank` divides (for any finite `Ks` and any `MaxItems` there is one).
- `SimHash`: a token is a word and its dress (case and punctuation); the hash of a
  word is a set of bits, chosen so that every column of three words occurs. `column`
  is the loop over one counter, as a recursive function. The
  `i32` width of a counter is left out: it takes 2^31 tokens.
- `Conformance`: `verify_backend` call by call. A backend is a record that says how
  it gives ids, what its `commit` and `delete_text` do and which call fails.

## 3. Runs

Deadlock is checked in every run but four, in which the system really stops: a
process poisoned in its last life (`hook_concurrent`), all calls at their end
(`consolidation`, `store_ids`), an input typed to its bound (`sequential`).

| Run | Bounds | Shows |
|---|---|---|
| `hook_concurrent` | 2 workers, 2 keys, 2 lives, all faults | the inductive invariant `SafetyInv`; no worker writes a key twice in a life; restored keys are not rewritten; every suppression has a reason; a poisoned set fails closed; whoever is told "duplicate" will find the entry, unless its append or its process failed |
| `hook_orderly` | 1 worker, 3 keys, 3 lives, failed appends | one entry per key for ever, and refinement of `AtMostOnceLog` |
| `hook_race`, `hook_retry` | 1 key | disagreements with the module comment, section 5 |
| `consolidation` | 2 calls, 4 batches over 2 lines (two of them repeat a line), all faults, deletions | the inductive invariant `SafetyInv`; what is held was written once and in order; what was acknowledged is durable; `Noop` is always explained; a known line is not rewritten; refinement of `AckedLog`; every call ends |
| `store_ids` | 2 calls, one batch | disagreement, section 5 |
| `sequential` | scopes: all pairs of texts of 3 of 6 parts; keys: 2 entries, texts up to 2 bytes, NUL in `text`; hex: texts up to 5 of 7 bytes; frames: 16 envelopes, 2 changes of 6 texts; fusion: 2 lists of 3 of 3 items, k 1 or 60; SimHash: 2 texts of 3 of 5 tokens; harness: 72 backends | `contains` is the subtree, matching symmetric, normalization idempotent; keys separate entries; the hex form is a bijection up to case; an envelope survives in a shared map; fusion orders by the sums and agreement outranks a single place; a fingerprint is the majority and a joined text lies between its parts; what a verdict tells |
| `retention` | 3 candidates of 8, policies of 2 of 14 rules, 3 defaults | partition, agreement with `evaluate`, isolation; sorts are lists, quotas take the top (a quota of nothing too), ties and what is passed on follow the list before, nobody without a sequence is kept before one who has it |
| `retention_superseded`, `retention_missing` | policies of 1 rule | disagreements, section 5 |
| `key_nul` | 2 entries, NUL in the other fields | disagreement, section 5 |
| `store` | 2 readers, 3 episodes over 2 tokens, k 0 or 2, `MaxKey` 2, clones may panic | keys stay sorted past saturation; over any step `get` goes on answering the same episode, or `Err(Poisoned)` once a clone has panicked, and then for ever and to all (`AnswersAreStable`); a retrieval sees all that was stored before its call and returns the best of it, no episode twice, in order |

Why these bounds are enough to be interesting. The hook: the two lives of
`hook_concurrent` reach a key lost in the first and replayed in the second, with
two workers on one key and a second key to tell a wrong set from a right one; the
three lives and keys of `hook_orderly` let a key be forgotten in the second replay.
There is no symmetry in a run with a liveness property or a refinement; only
`store`, whose action property names no reader or token, uses it. The only bound in `DedupHook` is
`MaxLife`; the archive is finite because each life archives a key at most once per
worker. Retention: two rules are the shortest policy in which one rule's output is
another's input, and three candidates the smallest pool that a quota splits with
two left to order; `MaxRules` bounds the policy, and the constraint `SecondBatch`
lets a second batch follow only a first one of plain candidates (whose report the
second must not inherit). The store: `MaxEpisodes` exceeds `MaxKey`, so the
terminal key is given twice; k = 2 cuts a list of three. Consolidation: two calls
are enough for one to commit the half batch of the other, to fail between two
writes, and to be repeated after a crash or a deletion; the proofs cover any number.
`AgreementOutranks` needs `k` greater than the number of places, which only k = 60
is here; k = 1 exercises `FusionIsBySums` where it fails.

**Fairness.** `FairSpec` of `DedupHook` asks weak fairness of `Record` and `Write` of
each worker and nothing else: a hook that was called runs to its end, because no
lock is held between calls and no call waits for another invocation. It does not ask
that hooks are called, that snapshots are taken or that processes restart. Appends
may fail and processes crash: `AnsweredIsEventuallyStored` says that an answered key
is then archived or `lost`, never in flight for ever. `FairSpec` of `Consolidation`
asks, for each call, that a step of its `persist_all` and the `observe` after it is
not put off for ever: the store's methods wait for nobody, and an executor polls
what it has started. No error is needed for a call to end, and none is asked for.

## 4. Proofs

All for every value of the constants that satisfies the modules' `ASSUME`s: any
number of workers, calls, readers, candidates, rules and episodes, texts, lists and
keys of any length. The assumptions say what the types of the code say (a sequence
number is a `u64`, importance is clamped, -0.0 or NaN, an `Option` has at most one value,
the fields of an envelope are texts), that finite things are finite, and three things
about the model's own alphabet: no part of a scope text contains the slash it is split
at (`TextAssumption`), the backends are records of what a backend may do
(`BackendAssumption`), and `Unit` measures every `1/(k + rank)` (`FusionAssumption`).
TLC evaluates them in the runs. Every property that a passing run checks is a
theorem, but for the two of liveness.

`OrderTheorems`
- What the sorts and filters rest on. In a finite set with a strict total order, the
  place of an element is the number of elements before it; places order the set
  (`PlacesOrder`), every place up to the size is taken (`PlacesAreTaken`), and the first
  k are k (`FirstPlaces`). The last by induction on numbers, which `NatSetInduction`
  states for a set of numbers, so that the provers can use it: a set without a least
  missing number misses none.

`DedupHook_proofs`
- `TypeCorrect`: the type invariant.
- `SafetyCorrect`: `SafetyInv` is inductive together with `TypeOK`.
  `CopiesByDistinctWorkers` alone is not: it needs that whatever this process
  archived is in the set (`EntriesAreRecorded`), that a worker that passed
  `contains` has not archived its key yet (`PendingIsUnwritten`), that entries of
  earlier lives do not count as entries of this one (`LivesAreOrdered`), and that
  a process that is still starting has none (`StartingIsClean`). One lemma per
  action that touches it. From it: `CopiesAreByDistinctWorkers`,
  `RestoredIsNotRewritten`.
- `SerialAtMostOnce`, assuming that there is one worker: with
  `CopiesByDistinctWorkers`, two copies have the same worker and are one. So
  `AtMostOncePerLife` holds where invocations do not overlap, whatever fails; the
  run `hook_race` shows that two workers are enough to break it.
- `SuppressionIsExplained`: inductive as it stands, since a snapshot is a copy of
  the set and what the set loses in a crash the archive, `lost` or nobody has.
- `PoisonFailsClosed`: an action property, from the invariant that no invocation is
  in flight in a poisoned process (`PoisonedIsIdle`): the set can only be poisoned
  by the replay, before the first hook runs.
- `OrderlyAtMostOnce` and `OrderlyImplementsOnceLog`, assuming one worker and no
  fault but failed appends: `[]AtMostOnceEver` and the refinement of
  `AtMostOnceLog`, both from `OrderlyArchive`. The invariant
  `OrderlyInv` adds that the set, or while starting the sidecar, names every
  archived key; `Write` maps to `AppendNew`, everything else to a stutter.

`Retention_proofs`
- `TypeCorrect`, and `ReportCorrect`: `ReportInv` strengthens `Partition` and
  `AgreesWithSingle` by `PoolIsUndecided`, that no rule the loop has passed had an
  opinion of who is still in the pool. From it `BatchIsPartitioned`,
  `BatchAgreesWithSingle` and, since the first rule of a guarded policy decides for
  every foreign candidate, `ScopeGuardHolds`.
- `PoolStaysAList`: each ranking rule leaves a position for every candidate and one
  candidate at each. The comparator alone is a weak order (`BeforeWeakOrder`: with
  `total_cmp` a NaN is above or below every number, and equal to itself). With the
  position before the sort as the tie-break it is a strict total order (`SortIsTotal`),
  which needs that the pool was a list before, and the new positions are its places.
  Dropping the top of the list, or a filter, keeps the rest a list.
- `QuotaTakesTheTop`: an action property, about every turn of the loop at a ranking
  rule. It keeps min(count, pool) of the candidates; each of them goes before all that
  are passed on, by the rule's order and among ties by the list before
  (`PositionsFollowBoth`), and those passed on stay in that order. `Before` is the
  model's comparator; that a missing sequence goes last is said without it
  (`MissingSequenceGoesLast`).

`Scope_proofs`
- `SegmentsAreBare`: `trim` leaves no blank at either end (`TrimIsBare`) and the filter
  no empty segment. `NormalizingTwiceIsOnce`: a bare segment is trimmed to itself and a
  filter that drops nothing is the identity. `MatchingIsSymmetric` follows.
- `ContainsAncestorsOnly`: `contains` compares strings, and means paths. Both texts end
  each segment with a slash (the code adds the last one), so the joined text is a row of
  stretches (`JoinedStretches`); if one string begins the other, then by induction on the
  segments each of them ends where the other's does, because no segment contains a slash
  (`SegmentEndsAtSlash`, `StringGivesSegments`). The root, whose text is empty, contains
  only itself.

`DedupKey_proofs`
- `EntriesAreSeparated`, assuming that kind, conversation id, role and scope
  contain no NUL: the first NUL of two equal strings is at one position (`FirstNul`),
  field by field. The run `key_nul` shows that the assumption is needed.

`Consolidation_proofs`
- `TypeCorrect`, then `SafetyCorrect`: `SafetyInv` is inductive together with
  `TypeOK`. `AcknowledgedIsDurable` alone is not: that the commit finds all lines of
  the call needs that what a call wrote is held as long as it writes
  (`WrittenAreHeld`), whoever commits in between; that nothing is written twice needs
  that what is held of a call is no more than it wrote (`EntriesAreWritten`), but for
  the line at which it failed. `ObservedAreSeen` and `AddsAreNews` carry what a call
  knew at its start through crashes and deletions to `KnownNotRewritten`.
- From it `LinesAreWrittenOnceInOrder`, `AcknowledgedStaysDurable`,
  `SuppressionIsExplained`, `KnownIsNotRewritten`.
- `StoreImplementsAckedLog`: the committed log and the entries of acknowledged calls
  implement `AckedLog`. A commit, also one whose answer is lost, maps to an extension
  (`LogGrows`), the caller's `Ok` to an acknowledgement of what is in the log
  already (`AcknowledgedGrows`), everything else, a crash included, to a stutter.

`InMemoryStore_proofs`
- `StoreCorrect`: `StoreInv` is inductive. Sorted keys are not enough to show that a
  key is stable; what is kept is that the i-th episode has the key min(i, `MaxKey`)
  (`KeysAreNumbered`), and that every reader's clone is a prefix of the `Vec`
  (`ReadersSeeThePast`). From it `KeysAreSorted`, `RetrievalsSeeThePast` and, as
  `get` finds the first position of a key (`GetByKey`), an append moves no episode
  (`PlacesStay`) and nothing un-poisons the lock (`PoisonStays`), `AnswersStayStable`.
- `TypeCorrect` and `HitsAreBest`: the list that `sort_by` and `truncate` make of the
  matches (`Ranked`, `TopHits`) is well typed, the best of the clone, and in order
  (`TopHitsAreBest`, by `OrderTheorems`). That equal scores come out oldest first even
  when they share the terminal key needs that the clone's keys are numbered (`Numbered`),
  so `StoreInv` is part of the induction (`ReaderInv`).

`Sequential_proofs`: an inductive invariant for each part, which says nothing while
another part runs.
- `HexFormIsFaithful`: a digit has one value and the value one lower-case digit
  (`DigitHasValue`); two digits make a byte and give it back, at every position of the key.
- `EnvelopesSurvive`: the invariant is that the fields nobody touched are in the map
  as `into_map` wrote them (`FrameInv`). That the version is read back needs that
  decimal forms are unique even with zeros before them (`DecimalIsUnique`).
- `VerdictsAreSound`: the invariant says, for each step of the harness, what the buffer,
  the log and the ids of each kind of backend are (`ConfInv`).
- `BitsAreMajorities`: a column is the ones less the zeros (`ColumnCounts`, by induction
  along the text), so a bit is set exactly if most words have it. Two texts with the
  same votes have a bijection between the words with a bit (`SameVotesSameCount`), word
  by word, so their fingerprints are equal. `JoinedTextsAreBetween`: the counts of a joined
  text are the sums of the counts (`WhereOfJoined`), and a bit that both have, or neither,
  stays.
- `FusionOrdersBySums`: the invariant of the loop (`FusionInv`) says that the slots are
  the items seen so far, none twice, in the order of their first places, and the score of
  a slot the sum over all places of its item. One item more is one place more, after all
  others (`Grown`): it raises the sum of that item by its contribution (`TotalsGrow`), gives
  a first place only to an item that had none (`FirstsStay`), and leaves the rest. The sort
  is a strict total order on the slots, so the output is the slots by their places.
- `AgreementCountsMost`: where no list repeats an item, the sum of an item that is in g
  lists lies between g/(k + `MaxItems`) and g/k (`TotalIsWithin`, place by place), and for
  k above `MaxLists * MaxItems` the intervals of different g are apart (`MoreOutranks`). For
  smaller k the sentence of the test is false in general, which is why the property has
  the bound.

Only model-checked: liveness under fairness (`AnsweredIsEventuallyStored`, `CallsEnd`),
which the prover does not do. In the modules with theorems there are recursive functions
but no `RECURSIVE` operators: that a function is the one its equation defines is shown by
induction on its domain (`PowerExists`, `JoinsExist`, `SumsExist` and `SumsAreUnique`).

## 5. Where the code and its comments disagree

Each is a run with a counterexample; none is a statement about which side is right.

- `hook_race`: two overlapping invocations of the same operation both append,
  against "exactly one entry" (`src/dedup.rs:12-14`). `insert` could say whether the
  key was new, and the check would be atomic. What still holds is
  `CopiesByDistinctWorkers`.
- `hook_retry`: after a failed append a retry is answered as a duplicate and there is no
  entry, against the same sentence. No method takes a key out again.
- `retention_superseded`: "Backends use this to invalidate the older fact rather than
  hard-deleting it" (`src/retention.rs:36-37`); the rule invalidates the candidate that
  carries the reference, which is the newer one. Its comment (`204-205`) says both:
  "have been superseded by a newer entry, i.e. those carrying a
  [`RetentionCandidate::supersedes`] reference"; the builder's (`428`) and the tests
  agree with the code.
- `retention_missing`: "Missing facts simply make rules that depend on them
  non-matching" (`src/retention.rs:14-15`); `KeepMostRecent` keeps a candidate without facts
  when its quota is not used up.
- `key_nul`: "two distinct field tuples cannot collide" (`src/dedup.rs:42-43`); they do
  with NUL inside a field. A missing and an empty scope have one key as well
  (`src/dedup.rs:58`), which `KeysSeparateEntries` allows for.
- `store_ids`: "backend must assign unique IDs" (`src/conformance.rs:32`); the
  reference backend answers with the position in a buffer that every commit empties
  (`src/store.rs:54-57`, `157-161`), so one `persist_all` can get an id twice. The
  harness compares two ids of one buffer and does not see it.

## 6. Not modelled, and what could follow

Not modelled, and why:

- Rounding of `f64` (salience and fusion are exact), and the clamp of a `k` that is
  not positive, which makes the first place enormous (`src/fusion.rs:53`): TLC has
  integers only. `rank fusion` is therefore "partly" modelled.
- The `i32` counters of SimHash, Unicode trimming, tokenization, blake3 itself.
- `Update` and `Delete` answers of a resolver: no resolver of the crate gives them.
- The pipeline of the example as a whole: it is a straight line of calls into parts
  that are modelled, and nothing flows back from the retention pass into the set or
  the archive.
- `src/error.rs`, `src/lib.rs` and the build files have no behaviour.

What could follow: for which policies the order of the candidates shows in the
report; a bound on the rounding of `f64` under which the order of fusion is exact; the
pipeline of the hook with its own retention pass, should the crate ever feed a decision
back into the set.
