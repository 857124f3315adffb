------------------------- MODULE Consolidation_proofs -------------------------
(***************************************************************************)
(* Theorems about Consolidation for any lines and batches, any number of   *)
(* calls and any set of faults.                                            *)
(***************************************************************************)
EXTENDS Consolidation, SequenceTheorems, TLAPS

-----------------------------------------------------------------------------
(* What a call keeps for good (src/store.rs:183): its lines and what it    *)
(* knew when it began.                                                     *)
CallsKept ==
    \A m \in DOMAIN calls :
        /\ m \in DOMAIN calls'
        /\ calls'[m].adds = calls[m].adds
        /\ calls'[m].known = calls[m].known

(* A record of a call has the fields of one.                               *)
LEMMA CallFields ==
    ASSUME TypeOK, NEW n \in DOMAIN calls
    PROVE  /\ calls[n] \in Calls
           /\ calls[n].adds \in Seq(Lines)
           /\ calls[n].ids \in Seq(Nat)
           /\ calls[n].state \in States
           /\ calls[n].known \in SUBSET Nat
           /\ n \in Nat
<1>1. DOMAIN calls = 1..Len(calls) /\ Len(calls) \in Nat
  BY LenProperties DEF TypeOK
<1>2. calls[n] \in Calls
  BY <1>1, ElementOfSeq DEF TypeOK
<1> QED
  BY <1>1, <1>2 DEF Calls

(* SetState changes one state and nothing else.                            *)
LEMMA StateEffect ==
    ASSUME TypeOK, NEW n \in DOMAIN calls, NEW st \in States, SetState(n, st)
    PROVE  /\ calls' \in Seq(Calls)
           /\ DOMAIN calls' = DOMAIN calls
           /\ CallsKept
           /\ \A m \in DOMAIN calls :
                 /\ calls'[m].ids = calls[m].ids
                 /\ calls'[m].state = IF m = n THEN st ELSE calls[m].state
<1> DEFINE new == [calls[n] EXCEPT !.state = st]
<1>1. DOMAIN calls = 1..Len(calls)
  BY LenProperties DEF TypeOK
<1>2. new \in Calls /\ new.adds = calls[n].adds /\ new.ids = calls[n].ids
        /\ new.known = calls[n].known /\ new.state = st
  BY CallFields DEF Calls
<1>3. calls' = [calls EXCEPT ![n] = new]
  BY DEF SetState
<1> HIDE DEF new
<1>4. calls' \in Seq(Calls) /\ Len(calls') = Len(calls)
        /\ \A m \in DOMAIN calls : calls'[m] = IF m = n THEN new ELSE calls[m]
  BY <1>1, <1>2, <1>3, ExceptSeq DEF TypeOK
<1>5. DOMAIN calls' = DOMAIN calls
  BY <1>3
<1> QED
  BY <1>2, <1>4, <1>5 DEF CallsKept

(* What WriteLine does to the calls (src/store.rs:185).                    *)
AddId(n, id) == calls' = [calls EXCEPT ![n].ids = Append(@, id)]

(* A write that succeeds appends one id to its call.                       *)
LEMMA IdsEffect ==
    ASSUME TypeOK, NEW n \in DOMAIN calls, NEW id \in Nat, AddId(n, id)
    PROVE  /\ calls' \in Seq(Calls)
           /\ DOMAIN calls' = DOMAIN calls
           /\ CallsKept
           /\ \A m \in DOMAIN calls :
                 /\ m # n => calls'[m].ids = calls[m].ids
                 /\ calls'[m].state = calls[m].state
           /\ Len(calls'[n].ids) = Len(calls[n].ids) + 1
           /\ calls'[n].ids \in Seq(Nat)
<1> DEFINE longer == Append(calls[n].ids, id)
           new == [calls[n] EXCEPT !.ids = longer]
<1>1. DOMAIN calls = 1..Len(calls)
  BY LenProperties DEF TypeOK
<1>2. longer \in Seq(Nat) /\ Len(longer) = Len(calls[n].ids) + 1
  BY CallFields, AppendProperties
<1> HIDE DEF longer
<1>3. new \in Calls /\ new.adds = calls[n].adds /\ new.ids = longer
        /\ new.known = calls[n].known /\ new.state = calls[n].state
  BY <1>2, CallFields DEF Calls
<1>4. calls' = [calls EXCEPT ![n] = new]
  BY DEF AddId, longer
<1> HIDE DEF new
<1>5. calls' \in Seq(Calls) /\ Len(calls') = Len(calls)
        /\ \A m \in DOMAIN calls : calls'[m] = IF m = n THEN new ELSE calls[m]
  BY <1>1, <1>3, <1>4, ExceptSeq DEF TypeOK
<1>6. DOMAIN calls' = DOMAIN calls
  BY <1>4
<1> QED
  BY <1>2, <1>3, <1>5, <1>6 DEF CallsKept

(* A crash ends every call (src/store.rs:73-76).                           *)
LEMMA CrashEffect ==
    ASSUME TypeOK, Crash
    PROVE  /\ calls' \in Seq(Calls)
           /\ DOMAIN calls' = DOMAIN calls
           /\ CallsKept
           /\ \A m \in DOMAIN calls :
                 /\ calls'[m].ids = calls[m].ids
                 /\ calls'[m].state \in {"failed", "observed"}
                 /\ calls'[m].state = "observed" <=>
                       calls[m].state \in {"durable", "observed"}
<1>1. DOMAIN calls = 1..Len(calls) /\ Len(calls) \in Nat
  BY LenProperties DEF TypeOK
<1>2. \A m \in DOMAIN calls : calls'[m] =
        [calls[m] EXCEPT !.state = IF calls[m].state = "writing" THEN "failed"
                                   ELSE IF calls[m].state = "durable" THEN "observed"
                                   ELSE calls[m].state]
  BY DEF Crash
<1>3. DOMAIN calls' = DOMAIN calls
  BY DEF Crash
<1>4. \A m \in DOMAIN calls :
         /\ calls'[m] \in Calls
         /\ calls'[m].adds = calls[m].adds
         /\ calls'[m].ids = calls[m].ids
         /\ calls'[m].known = calls[m].known
         /\ calls'[m].state \in {"failed", "observed"}
         /\ calls'[m].state = "observed" <=> calls[m].state \in {"durable", "observed"}
  <2> SUFFICES ASSUME NEW m \in DOMAIN calls
               PROVE  /\ calls'[m] \in Calls
                      /\ calls'[m].adds = calls[m].adds
                      /\ calls'[m].ids = calls[m].ids
                      /\ calls'[m].known = calls[m].known
                      /\ calls'[m].state \in {"failed", "observed"}
                      /\ calls'[m].state = "observed" <=>
                            calls[m].state \in {"durable", "observed"}
    OBVIOUS
  <2>1. calls[m] \in Calls /\ calls[m].state \in States
    BY CallFields
  <2>2. PICK st \in {"failed", "observed"} :
           /\ calls'[m] = [calls[m] EXCEPT !.state = st]
           /\ st = "observed" <=> calls[m].state \in {"durable", "observed"}
    BY <1>2, <2>1 DEF States
  <2> QED
    BY <2>1, <2>2 DEF Calls, States
<1>5. calls' \in [1..Len(calls) -> Calls]
  <2>1. calls' = [m \in 1..Len(calls) |-> calls'[m]]
    BY <1>1 DEF Crash
  <2> QED
    BY <1>1, <1>4, <2>1
<1>6. calls' \in Seq(Calls)
  BY <1>1, <1>5, SeqDef
<1> QED
  BY <1>3, <1>4, <1>6 DEF CallsKept

(* A call that begins has written nothing, adds only what the resolver     *)
(* does not know, and knows who has observed (src/reconcile.rs:112-118).   *)
LEMMA BeginEffect ==
    ASSUME TypeOK, NEW batch \in Batches, Begin(batch)
    PROVE  LET n == Len(calls) + 1
           IN  /\ calls' \in Seq(Calls)
               /\ DOMAIN calls' = DOMAIN calls \cup {n}
               /\ n \notin DOMAIN calls
               /\ CallsKept
               /\ \A m \in DOMAIN calls : calls'[m] = calls[m]
               /\ calls'[n].ids = << >>
               /\ calls'[n].state = "writing"
               /\ calls'[n].known = { m \in DOMAIN calls : calls[m].state = "observed" }
               /\ calls'[n].adds \in Seq(Lines)
               /\ \A i \in DOMAIN calls'[n].adds : calls'[n].adds[i] \notin seen
<1> DEFINE n == Len(calls) + 1
<1>1. DOMAIN calls = 1..Len(calls) /\ Len(calls) \in Nat
  BY LenProperties DEF TypeOK
<1>2. PICK pick \in Picks(batch) :
        calls' = Append(calls,
           [adds  |-> [i \in DOMAIN pick |-> batch[pick[i]]],
            ids   |-> << >>,
            state |-> "writing",
            known |-> { m \in DOMAIN calls : calls[m].state = "observed" }])
  BY DEF Begin
<1> DEFINE adds == [i \in DOMAIN pick |-> batch[pick[i]]]
           known == { m \in DOMAIN calls : calls[m].state = "observed" }
           new == [adds |-> adds, ids |-> << >>, state |-> "writing", known |-> known]
<1>3. batch \in Seq(Lines)
  BY BatchesAssumption
<1>4. DOMAIN batch = 1..Len(batch) /\ Len(batch) \in Nat
        /\ \A p \in DOMAIN batch : batch[p] \in Lines
  BY <1>3, LenProperties, ElementOfSeq
<1>5. PICK m \in Nat : pick \in [1..m -> DOMAIN batch]
  <2>1. pick \in UNION { [1..m -> DOMAIN batch] : m \in 0..Len(batch) }
    BY <1>2 DEF Picks
  <2>2. PICK m \in 0..Len(batch) : pick \in [1..m -> DOMAIN batch]
    BY <2>1
  <2> QED
    BY <1>4, <2>2
<1>6. \A i \in 1..m : reconcile(batch[pick[i]]) = "Add"
  BY <1>2, <1>5 DEF Picks
<1>7. adds \in Seq(Lines)
  <2>1. adds \in [1..m -> Lines]
    BY <1>4, <1>5
  <2> QED
    BY <2>1, SeqDef
<1>8. \A i \in DOMAIN adds : adds[i] \notin seen
  BY <1>5, <1>6 DEF reconcile, content_hash
<1>9. known \in SUBSET Nat
  BY <1>1
<1> HIDE DEF adds, known
<1>10. new \in Calls /\ new.adds = adds /\ new.ids = << >> /\ new.state = "writing"
         /\ new.known = known
  BY <1>7, <1>9, EmptySeq DEF Calls, States
<1>11. calls' = Append(calls, new)
  BY <1>2 DEF adds, known
<1> HIDE DEF new
<1>12. /\ calls' \in Seq(Calls)
       /\ Len(calls') = n
       /\ \A k \in 1..Len(calls) : calls'[k] = calls[k]
       /\ calls'[n] = new
  BY <1>10, <1>11, AppendProperties DEF TypeOK
<1>13. DOMAIN calls' = DOMAIN calls \cup {n} /\ n \notin DOMAIN calls
  BY <1>1, <1>12, LenProperties
<1> QED
  BY <1>1, <1>7, <1>8, <1>10, <1>12, <1>13 DEF CallsKept, known

-----------------------------------------------------------------------------
(* What the backend holds is the log and then the buffer                   *)
(* (src/store.rs:139-142).                                                 *)
LEMMA HeldFacts ==
    ASSUME TypeOK
    PROVE  /\ Held \in Seq(Entries)
           /\ DOMAIN Held = 1..Len(Held) /\ Len(Held) \in Nat
           /\ DOMAIN committed = 1..Len(committed) /\ Len(committed) \in Nat
           /\ DOMAIN committed \subseteq DOMAIN Held
           /\ \A i \in DOMAIN committed : Held[i] = committed[i]
           /\ Committed \subseteq HeldEntries
           /\ HeldEntries \subseteq Entries
<1>1. committed \in Seq(Entries) /\ pending \in Seq(Entries)
  BY DEF TypeOK
<1>2. /\ Held \in Seq(Entries)
      /\ Len(Held) = Len(committed) + Len(pending)
      /\ \A i \in 1..Len(committed) : Held[i] = committed[i]
  BY <1>1, ConcatProperties DEF Held
<1>3. DOMAIN Held = 1..Len(Held) /\ DOMAIN committed = 1..Len(committed)
        /\ Len(committed) \in Nat /\ Len(pending) \in Nat /\ Len(Held) \in Nat
  BY <1>1, <1>2, LenProperties
<1>4. DOMAIN committed \subseteq DOMAIN Held
  BY <1>2, <1>3
<1>5. Committed \subseteq HeldEntries
  BY <1>2, <1>3, <1>4 DEF Committed, HeldEntries
<1>6. HeldEntries \subseteq Entries
  BY <1>2, <1>3, ElementOfSeq DEF HeldEntries
<1> QED
  BY <1>2, <1>3, <1>4, <1>5, <1>6

(* A write puts one entry at the end (src/store.rs:157-161).               *)
LEMMA WriteEffect ==
    ASSUME TypeOK, NEW e \in Entries, NEW id, write_text(e, id)
    PROVE  /\ committed' = committed
           /\ pending' \in Seq(Entries)
           /\ DOMAIN Held' = DOMAIN Held \cup {Len(Held) + 1}
           /\ \A i \in DOMAIN Held : Held'[i] = Held[i]
           /\ Held'[Len(Held) + 1] = e
           /\ HeldEntries' = HeldEntries \cup {e}
<1>1. committed \in Seq(Entries) /\ pending \in Seq(Entries)
  BY DEF TypeOK
<1>2. committed' = committed /\ pending' = Append(pending, e)
  BY DEF write_text
<1>3. pending' \in Seq(Entries)
  BY <1>1, <1>2, AppendProperties
<1>4. Held' = Append(Held, e)
  <2>1. <<e>> \in Seq(Entries)
    OBVIOUS
  <2>2. pending' = pending \o <<e>>
    BY <1>1, <1>2, AppendIsConcat
  <2>3. Held' = (committed \o pending) \o <<e>>
    BY <1>1, <1>2, <2>1, <2>2, ConcatAssociative DEF Held
  <2> QED
    BY <2>3, HeldFacts, AppendIsConcat DEF Held
<1>5. /\ Held' \in Seq(Entries)
      /\ Len(Held') = Len(Held) + 1
      /\ \A i \in 1..Len(Held) : Held'[i] = Held[i]
      /\ Held'[Len(Held) + 1] = e
  BY <1>4, HeldFacts, AppendProperties
<1>6. DOMAIN Held' = DOMAIN Held \cup {Len(Held) + 1}
  BY <1>5, HeldFacts, LenProperties
<1>7. HeldEntries' = HeldEntries \cup {e}
  BY <1>5, <1>6, HeldFacts DEF HeldEntries
<1> QED
  BY <1>2, <1>3, <1>5, <1>6, <1>7, HeldFacts

(* A commit makes all that is held durable and changes nothing of it       *)
(* (src/store.rs:166-171).                                                 *)
LEMMA CommitEffect ==
    ASSUME TypeOK, commit
    PROVE  /\ committed' = Held
           /\ Held' = Held
           /\ pending' \in Seq(Entries)
           /\ HeldEntries' = HeldEntries
           /\ Committed' = HeldEntries
<1>1. committed' = Held /\ pending' = << >>
  BY DEF commit
<1>2. Held' = Held
  BY <1>1, HeldFacts, ConcatEmptySeq DEF Held
<1> QED
  BY <1>1, <1>2, EmptySeq DEF Committed, HeldEntries

(* With the buffer goes all but the log (src/store.rs:74-76).              *)
LEMMA LoseEffect ==
    ASSUME TypeOK, LosePending
    PROVE  /\ committed' = committed
           /\ Held' = committed
           /\ pending' \in Seq(Entries)
           /\ HeldEntries' = Committed
           /\ Committed' = Committed
<1>1. committed' = committed /\ pending' = << >>
  BY DEF LosePending
<1>2. Held' = committed
  BY <1>1, ConcatEmptySeq DEF Held, TypeOK
<1> QED
  BY <1>1, <1>2, EmptySeq DEF Committed, HeldEntries

(* Lines and entries of calls are what they were.                          *)
LEMMA LinesKept ==
    ASSUME CallsKept
    PROVE  /\ \A n \in DOMAIN calls : EntriesOf(n)' = EntriesOf(n)
           /\ \A n \in DOMAIN calls : LinesOf(n)' = LinesOf(n)
           /\ \A e : e.call \in DOMAIN calls => LineOf(e)' = LineOf(e)
BY DEF CallsKept, EntriesOf, LinesOf, LineOf

(* An entry that is held is one of its call's lines.                       *)
LEMMA HeldIsOfCall ==
    ASSUME TypeOK, NEW e \in HeldEntries
    PROVE  /\ e.call \in DOMAIN calls
           /\ e.pos \in DOMAIN calls[e.call].adds
           /\ e \in EntriesOf(e.call)
           /\ LineOf(e) \in LinesOf(e.call)
           /\ LineOf(e) \in Lines
<1>1. e.call \in DOMAIN calls /\ e.pos \in DOMAIN calls[e.call].adds
  BY DEF TypeOK
<1>2. e = [call |-> e.call, pos |-> e.pos]
  BY HeldFacts DEF Entries
<1>3. calls[e.call].adds[e.pos] \in Lines
  BY <1>1, CallFields, LenProperties, ElementOfSeq
<1> QED
  BY <1>1, <1>2, <1>3 DEF EntriesOf, LineOf, LinesOf

-----------------------------------------------------------------------------
(* What is written next is an entry of a line its call has                 *)
(* (src/store.rs:184-186).                                                 *)
LEMMA NextEntryFacts ==
    ASSUME TypeOK, NEW n \in DOMAIN calls, Writing(n)
    PROVE  /\ NextEntry(n) \in Entries
           /\ NextEntry(n).call = n
           /\ NextEntry(n).pos = Len(calls[n].ids) + 1
           /\ NextEntry(n).pos \in DOMAIN calls[n].adds
<1>1. n \in Nat /\ Len(calls[n].ids) \in Nat /\ DOMAIN calls[n].adds = 1..Len(calls[n].adds)
        /\ Len(calls[n].adds) \in Nat
  BY CallFields, LenProperties
<1> QED
  BY <1>1 DEF NextEntry, Entries, Writing

(* The type invariant where a step keeps the calls' lines: what is held    *)
(* must still be theirs (src/store.rs:139-172).                            *)
LEMMA TypeKept ==
    ASSUME TypeOK, CallsKept, calls' \in Seq(Calls),
           pending' \in Seq(Entries), committed' \in Seq(Entries),
           seen' \in SUBSET Lines, deleted' \subseteq Committed',
           \A e \in HeldEntries' :
               \/ e \in HeldEntries
               \/ e.call \in DOMAIN calls /\ e.pos \in DOMAIN calls[e.call].adds
    PROVE  TypeOK'
BY DEF TypeOK, CallsKept

(* A write, whether its caller hears of it or not, keeps the types.        *)
LEMMA TypeWrite ==
    ASSUME TypeOK, NEW n \in DOMAIN calls, Writing(n),
           write_text(NextEntry(n), Len(pending)),
           CallsKept, calls' \in Seq(Calls), UNCHANGED <<seen, deleted>>
    PROVE  TypeOK'
<1>1. /\ NextEntry(n) \in Entries
      /\ NextEntry(n).call = n
      /\ NextEntry(n).pos \in DOMAIN calls[n].adds
  BY NextEntryFacts
<1>2. /\ committed' = committed
      /\ pending' \in Seq(Entries)
      /\ HeldEntries' = HeldEntries \cup {NextEntry(n)}
  BY <1>1, WriteEffect
<1>3. deleted' \subseteq Committed'
  BY <1>2 DEF TypeOK, Committed
<1> QED
  BY <1>1, <1>2, <1>3, TypeKept DEF TypeOK

(* A step that leaves the store alone keeps the types.                     *)
LEMMA TypeQuiet ==
    ASSUME TypeOK, CallsKept, calls' \in Seq(Calls), UNCHANGED storeVars,
           seen' \in SUBSET Lines, deleted' \subseteq Committed
    PROVE  TypeOK'
<1>1. committed' = committed /\ pending' = pending
  BY DEF storeVars
<1>2. Committed' = Committed /\ HeldEntries' = HeldEntries
  BY <1>1 DEF Committed, HeldEntries, Held
<1> QED
  BY <1>1, <1>2, TypeKept DEF TypeOK

(* A commit keeps the types.                                               *)
LEMMA TypeCommit ==
    ASSUME TypeOK, commit, CallsKept, calls' \in Seq(Calls), UNCHANGED <<seen, deleted>>
    PROVE  TypeOK'
<1>1. deleted' \subseteq Committed'
  BY CommitEffect, HeldFacts DEF TypeOK
<1> QED
  BY <1>1, CommitEffect, HeldFacts, TypeKept DEF TypeOK

(* The variables keep their types, and what the store holds belongs to     *)
(* lines of calls (src/store.rs:174-189, src/reconcile.rs:94-118).         *)
LEMMA TypeStep == TypeOK /\ [Next]_vars => TypeOK'
<1> SUFFICES ASSUME TypeOK, [Next]_vars
             PROVE  TypeOK'
  OBVIOUS
<1>1. ASSUME NEW batch \in Batches, Begin(batch)
      PROVE  TypeOK'
  BY <1>1, BeginEffect, TypeQuiet DEF Begin, TypeOK
<1>2. ASSUME NEW n \in DOMAIN calls, WriteLine(n)
      PROVE  TypeOK'
  <2>1. PICK id \in {Len(pending)} : write_text(NextEntry(n), id) /\ AddId(n, id)
    BY <1>2 DEF WriteLine, AddId
  <2>2. id = Len(pending) /\ id \in Nat
    BY LenProperties DEF TypeOK
  <2>3. calls' \in Seq(Calls) /\ CallsKept
    BY <2>1, <2>2, IdsEffect
  <2> QED
    BY <1>2, <2>1, <2>2, <2>3, TypeWrite DEF WriteLine
<1>3. ASSUME NEW n \in DOMAIN calls, WriteFails(n)
      PROVE  TypeOK'
  <2>1. calls' \in Seq(Calls) /\ CallsKept
    BY <1>3, StateEffect DEF WriteFails, States
  <2>2. CASE write_text(NextEntry(n), Len(pending))
    BY <1>3, <2>1, <2>2, TypeWrite DEF WriteFails
  <2>3. CASE UNCHANGED storeVars
    BY <1>3, <2>1, <2>3, TypeQuiet DEF WriteFails, TypeOK
  <2> QED
    BY <1>3, <2>2, <2>3 DEF WriteFails
<1>4. ASSUME NEW n \in DOMAIN calls, Commit(n)
      PROVE  TypeOK'
  <2>1. calls' \in Seq(Calls) /\ CallsKept
    BY <1>4, StateEffect DEF Commit, States
  <2> QED
    BY <1>4, <2>1, TypeCommit DEF Commit
<1>5. ASSUME NEW n \in DOMAIN calls, CommitFails(n)
      PROVE  TypeOK'
  <2>1. calls' \in Seq(Calls) /\ CallsKept
    BY <1>5, StateEffect DEF CommitFails, States
  <2>2. CASE commit
    BY <1>5, <2>1, <2>2, TypeCommit DEF CommitFails
  <2>3. CASE UNCHANGED storeVars
    BY <1>5, <2>1, <2>3, TypeQuiet DEF CommitFails, TypeOK
  <2> QED
    BY <1>5, <2>2, <2>3 DEF CommitFails
<1>6. ASSUME NEW n \in DOMAIN calls, Observe(n)
      PROVE  TypeOK'
  <2>1. calls' \in Seq(Calls) /\ CallsKept
    BY <1>6, StateEffect DEF Observe, States
  <2>2. LinesOf(n) \subseteq Lines
    BY CallFields, LenProperties, ElementOfSeq DEF LinesOf
  <2>3. seen' \in SUBSET Lines
    BY <1>6, <2>2 DEF Observe, observe, Hashes, content_hash, TypeOK
  <2> QED
    BY <1>6, <2>1, <2>3, TypeQuiet DEF Observe, TypeOK
<1>7. ASSUME NEW e \in Existing, Delete(e)
      PROVE  TypeOK'
  <2>1. calls' = calls /\ seen' = seen /\ UNCHANGED storeVars
    BY <1>7 DEF Delete
  <2>2. CallsKept /\ calls' \in Seq(Calls)
    BY <2>1 DEF CallsKept, TypeOK
  <2>3. deleted' \subseteq Committed
    BY <1>7 DEF Delete, Existing, TypeOK
  <2> QED
    BY <2>1, <2>2, <2>3, TypeQuiet DEF TypeOK
<1>8. ASSUME Crash
      PROVE  TypeOK'
  <2>1. calls' \in Seq(Calls) /\ CallsKept
    BY <1>8, CrashEffect
  <2>2. /\ committed' = committed
        /\ pending' \in Seq(Entries)
        /\ HeldEntries' = Committed
        /\ Committed' = Committed
    BY <1>8, LoseEffect DEF Crash
  <2>3. seen' \in SUBSET Lines
    BY <1>8, HeldIsOfCall, HeldFacts DEF Crash, Hashes, content_hash, Existing
  <2>4. deleted' = deleted
    BY <1>8 DEF Crash
  <2> QED
    BY <2>1, <2>2, <2>3, <2>4, HeldFacts, TypeKept DEF TypeOK
<1>9. CASE UNCHANGED vars
  BY <1>9, TypeQuiet DEF vars, storeVars, CallsKept, TypeOK
<1> QED
  BY <1>1, <1>2, <1>3, <1>4, <1>5, <1>6, <1>7, <1>8, <1>9 DEF Next, CallStep

(* A store and a resolver that are new are well typed.                     *)
LEMMA TypeInit == Init => TypeOK
<1> SUFFICES ASSUME Init
             PROVE  TypeOK
  OBVIOUS
<1>1. pending = << >> /\ committed = << >> /\ calls = << >> /\ deleted = {} /\ seen = {}
  BY DEF Init, StoreNew, ResolverNew, Hashes
<1>2. Held = << >>
  BY <1>1 DEF Held
<1>3. HeldEntries = {}
  BY <1>2 DEF HeldEntries
<1> QED
  BY <1>1, <1>3 DEF TypeOK

(* Every variable keeps its type; what is held is of some call's lines.    *)
THEOREM TypeCorrect == Spec => []TypeOK
BY TypeInit, TypeStep, PTL DEF Spec

-----------------------------------------------------------------------------
(* Calls do not go back: failed and observed are ends, only a call that    *)
(* writes may still write, and ids are only added.                         *)
CallsAge ==
    \A m \in DOMAIN calls :
        /\ calls[m].state = "failed" => calls'[m].state = "failed"
        /\ calls[m].state = "observed" => calls'[m].state = "observed"
        /\ calls'[m].state = "writing" => calls[m].state = "writing"

(* What a call may not add stays so in every step but the start of a call  *)
(* (src/reconcile.rs:112-118).                                             *)
LEMMA NewsKept ==
    ASSUME TypeOK, SafetyInv, CallsKept, DOMAIN calls' = DOMAIN calls,
           deleted \subseteq deleted'
    PROVE  AddsAreNews'
<1> SUFFICES ASSUME NEW n \in DOMAIN calls, NEW k \in calls[n].known,
                    NEW e \in EntriesOf(k)', LineOf(e)' \in LinesOf(n)'
             PROVE  e \in deleted'
  BY DEF AddsAreNews, CallsKept
<1>1. k \in DOMAIN calls
  BY DEF SafetyInv, ObservedAreSeen
<1>2. e \in EntriesOf(k) /\ e.call = k
  BY <1>1, LinesKept DEF EntriesOf
<1>3. LineOf(e) \in LinesOf(n)
  BY <1>1, <1>2, LinesKept
<1> QED
  BY <1>2, <1>3 DEF SafetyInv, AddsAreNews

(* The lines of the log are explained whatever grows but the resolver.     *)
LEMMA SeenKept ==
    ASSUME TypeOK, SafetyInv, CallsKept, Committed \subseteq Committed', seen' = seen
    PROVE  SeenIsExplained'
<1> SUFFICES ASSUME NEW line \in seen
             PROVE  \E e \in Committed' : line = LineOf(e)'
  BY DEF SeenIsExplained
<1>1. PICK e \in Committed : line = LineOf(e)
  BY DEF SafetyInv, SeenIsExplained
<1>2. LineOf(e)' = LineOf(e)
  BY HeldFacts, HeldIsOfCall, LinesKept
<1> QED
  BY <1>1, <1>2

(* The steps that neither write nor touch the resolver: an answer or an    *)
(* error reaches a caller, a commit moves the buffer, an entry is deleted. *)
LEMMA QuietStep ==
    ASSUME TypeOK, SafetyInv, CallsKept, CallsAge,
           DOMAIN calls' = DOMAIN calls,
           \A m \in DOMAIN calls :
               /\ calls'[m].ids = calls[m].ids
               /\ calls'[m].state = "observed" => calls[m].state = "observed"
               /\ calls'[m].state = "durable" =>
                     calls[m].state = "durable" \/ EntriesOf(m) \subseteq Committed',
           Held' = Held, Committed \subseteq Committed',
           seen' = seen, deleted \subseteq deleted'
    PROVE  SafetyInv'
<1>1. HeldEntries' = HeldEntries
  BY DEF HeldEntries
<1>2. WrittenOnceInOrder'
  BY DEF SafetyInv, WrittenOnceInOrder
<1>3. EntriesAreWritten'
  BY <1>1 DEF SafetyInv, EntriesAreWritten, CallsAge, TypeOK
<1>4. WrittenAreHeld'
  BY <1>1 DEF SafetyInv, WrittenAreHeld, CallsAge, CallsKept
<1>5. AcknowledgedIsDurable'
  BY LinesKept DEF SafetyInv, AcknowledgedIsDurable
<1>6. ObservedAreSeen'
  <2>1. \A n \in DOMAIN calls : \A k \in calls'[n].known :
           k \in DOMAIN calls /\ calls'[k].state = "observed"
    BY DEF SafetyInv, ObservedAreSeen, CallsKept, CallsAge
  <2>2. ASSUME NEW n \in DOMAIN calls, calls'[n].state = "observed", NEW e \in EntriesOf(n)'
        PROVE  LineOf(e)' \in seen' \/ e \in deleted'
    <3>1. e \in EntriesOf(n) /\ e.call = n
      BY LinesKept DEF EntriesOf
    <3>2. LineOf(e) \in seen \/ e \in deleted
      BY <2>2, <3>1 DEF SafetyInv, ObservedAreSeen
    <3> QED
      BY <3>1, <3>2, LinesKept
  <2> QED
    BY <2>1, <2>2 DEF ObservedAreSeen
<1> QED
  BY <1>2, <1>3, <1>4, <1>5, <1>6, NewsKept, SeenKept DEF SafetyInv

(* A write: the entry is new, and the one before it is held                *)
(* (src/store.rs:184-186).                                                 *)
LEMMA WriteStep ==
    ASSUME TypeOK, SafetyInv, NEW n \in DOMAIN calls, Writing(n),
           write_text(NextEntry(n), Len(pending)),
           CallsKept, CallsAge, DOMAIN calls' = DOMAIN calls,
           \A m \in DOMAIN calls \ {n} :
               calls'[m].ids = calls[m].ids /\ calls'[m].state = calls[m].state,
           \/ calls'[n].state = "writing" /\ Len(calls'[n].ids) = Len(calls[n].ids) + 1
                /\ calls'[n].ids \in Seq(Nat)
           \/ calls'[n].state = "failed" /\ calls'[n].ids = calls[n].ids,
           UNCHANGED <<seen, deleted>>
    PROVE  SafetyInv'
<1> DEFINE new == NextEntry(n)
           last == Len(Held) + 1
<1>1. /\ new \in Entries
      /\ new.call = n
      /\ new.pos = Len(calls[n].ids) + 1
      /\ new.pos \in DOMAIN calls[n].adds
      /\ Len(calls[n].ids) \in Nat /\ DOMAIN calls[n].ids = 1..Len(calls[n].ids)
  BY NextEntryFacts, CallFields, LenProperties
<1>2. /\ committed' = committed
      /\ DOMAIN Held' = DOMAIN Held \cup {last}
      /\ \A i \in DOMAIN Held : Held'[i] = Held[i]
      /\ Held'[last] = new
      /\ HeldEntries' = HeldEntries \cup {new}
  BY <1>1, WriteEffect
<1>3. DOMAIN Held = 1..Len(Held) /\ Len(Held) \in Nat
  BY HeldFacts
<1>4. Committed' = Committed
  BY <1>2 DEF Committed
<1>5. calls[n].state = "writing"
  BY DEF Writing
<1>6. new \notin HeldEntries
  <2>1. ASSUME NEW e \in HeldEntries, e.call = n
        PROVE  e.pos <= Len(calls[n].ids)
    BY <1>5, <2>1 DEF SafetyInv, EntriesAreWritten
  <2> QED
    BY <1>1, <2>1
<1> HIDE DEF new, last
<1>7. WrittenOnceInOrder'
  <2>1. \A i, j \in DOMAIN Held' : Held'[i] = Held'[j] => i = j
    BY <1>2, <1>6 DEF SafetyInv, WrittenOnceInOrder, HeldEntries
  <2>2. ASSUME NEW i \in DOMAIN Held', Held'[i].pos > 1
        PROVE  \E j \in DOMAIN Held' :
                 j < i /\ Held'[j] = [call |-> Held'[i].call, pos |-> Held'[i].pos - 1]
    <3>1. CASE i \in DOMAIN Held
      BY <1>2, <2>2, <3>1 DEF SafetyInv, WrittenOnceInOrder
    <3>2. CASE i = last
      <4>1. Held'[i].call = n /\ Held'[i].pos - 1 = Len(calls[n].ids)
              /\ Len(calls[n].ids) \in DOMAIN calls[n].ids
        BY <1>1, <1>2, <2>2, <3>2
      <4>2. [call |-> n, pos |-> Len(calls[n].ids)] \in HeldEntries
        BY <1>5, <4>1 DEF SafetyInv, WrittenAreHeld
      <4>3. PICK j \in DOMAIN Held : Held[j] = [call |-> n, pos |-> Len(calls[n].ids)]
        BY <4>2 DEF HeldEntries
      <4> QED
        BY <1>2, <1>3, <3>2, <4>1, <4>3 DEF last
    <3> QED
      BY <1>2, <3>1, <3>2
  <2> QED
    BY <2>1, <2>2 DEF WrittenOnceInOrder
<1>8. EntriesAreWritten'
  <2> SUFFICES ASSUME NEW e \in HeldEntries', calls'[e.call].state # "failed"
               PROVE  e.pos <= Len(calls'[e.call].ids)
    BY DEF EntriesAreWritten
  <2>1. CASE e = new
    BY <1>1, <2>1
  <2>2. CASE e \in HeldEntries
    <3>1. e.call \in DOMAIN calls /\ e.pos \in Nat
      BY <2>2, HeldIsOfCall, HeldFacts DEF Entries
    <3>2. calls[e.call].state # "failed"
      BY <3>1 DEF CallsAge
    <3>3. e.pos <= Len(calls[e.call].ids)
      BY <2>2, <3>2 DEF SafetyInv, EntriesAreWritten
    <3>4. Len(calls[e.call].ids) <= Len(calls'[e.call].ids)
      BY <1>1, <3>1, CallFields, LenProperties
    <3> QED
      BY <1>1, <3>1, <3>3
  <2> QED
    BY <1>2, <2>1, <2>2
<1>9. WrittenAreHeld'
  <2> SUFFICES ASSUME NEW m \in DOMAIN calls
               PROVE  /\ Len(calls'[m].ids) <= Len(calls[m].adds)
                      /\ calls'[m].state = "writing" =>
                            \A i \in DOMAIN calls'[m].ids :
                                [call |-> m, pos |-> i] \in HeldEntries'
    BY DEF WrittenAreHeld, CallsKept
  <2>1. CASE m # n
    BY <1>2, <2>1 DEF SafetyInv, WrittenAreHeld
  <2>2. CASE m = n
    <3>1. Len(calls'[n].ids) <= Len(calls[n].adds)
      BY <1>1, CallFields, LenProperties DEF Writing
    <3>2. ASSUME calls'[n].state = "writing", NEW i \in DOMAIN calls'[n].ids
          PROVE  [call |-> n, pos |-> i] \in HeldEntries'
      <4>1. i \in 1..Len(calls[n].ids) + 1
        BY <3>2, LenProperties
      <4>2. CASE i \in DOMAIN calls[n].ids
        BY <1>2, <1>5, <4>2 DEF SafetyInv, WrittenAreHeld
      <4>3. CASE i = Len(calls[n].ids) + 1
        BY <1>2, <4>3 DEF new, NextEntry
      <4> QED
        BY <1>1, <4>1, <4>2, <4>3
    <3> QED
      BY <2>2, <3>1, <3>2
  <2> QED
    BY <2>1, <2>2
<1>10. AcknowledgedIsDurable'
  BY <1>4, LinesKept DEF SafetyInv, AcknowledgedIsDurable
<1>11. ObservedAreSeen'
  <2>1. \A m \in DOMAIN calls : \A k \in calls'[m].known :
           k \in DOMAIN calls /\ calls'[k].state = "observed"
    BY DEF SafetyInv, ObservedAreSeen, CallsKept, CallsAge
  <2>2. ASSUME NEW m \in DOMAIN calls, calls'[m].state = "observed", NEW e \in EntriesOf(m)'
        PROVE  LineOf(e)' \in seen' \/ e \in deleted'
    <3>1. e \in EntriesOf(m) /\ e.call = m
      BY LinesKept DEF EntriesOf
    <3>2. LineOf(e) \in seen \/ e \in deleted
      BY <2>2, <3>1 DEF SafetyInv, ObservedAreSeen
    <3> QED
      BY <3>1, <3>2, LinesKept
  <2> QED
    BY <2>1, <2>2 DEF ObservedAreSeen
<1> QED
  BY <1>4, <1>7, <1>8, <1>9, <1>10, <1>11, NewsKept, SeenKept DEF SafetyInv

-----------------------------------------------------------------------------
(* A call that begins adds nothing that the resolver knows, and the        *)
(* resolver knows what was observed (src/reconcile.rs:112-118).            *)
LEMMA BeginStep ==
    ASSUME TypeOK, SafetyInv, NEW batch \in Batches, Begin(batch)
    PROVE  SafetyInv'
<1> DEFINE n == Len(calls) + 1
<1>1. /\ DOMAIN calls' = DOMAIN calls \cup {n}
      /\ n \notin DOMAIN calls
      /\ CallsKept
      /\ \A m \in DOMAIN calls : calls'[m] = calls[m]
      /\ calls'[n].ids = << >>
      /\ calls'[n].state = "writing"
      /\ calls'[n].known = { m \in DOMAIN calls : calls[m].state = "observed" }
      /\ \A i \in DOMAIN calls'[n].adds : calls'[n].adds[i] \notin seen
      /\ calls'[n].adds \in Seq(Lines)
  BY BeginEffect
<1> HIDE DEF n
<1>2. /\ committed' = committed /\ pending' = pending
      /\ seen' = seen /\ deleted' = deleted
  BY DEF Begin, storeVars
<1>3. Held' = Held /\ HeldEntries' = HeldEntries /\ Committed' = Committed
  BY <1>2 DEF Held, HeldEntries, Committed
<1>4. \A e \in HeldEntries : e.call \in DOMAIN calls
  BY DEF TypeOK
<1>5. WrittenOnceInOrder'
  BY <1>3 DEF SafetyInv, WrittenOnceInOrder
<1>6. EntriesAreWritten'
  BY <1>1, <1>3, <1>4 DEF SafetyInv, EntriesAreWritten
<1>7. WrittenAreHeld'
  <2>1. Len(calls'[n].ids) = 0 /\ DOMAIN calls'[n].ids = {} /\ Len(calls'[n].adds) >= 0
    BY <1>1, LenProperties
  <2> QED
    BY <1>1, <1>3, <2>1 DEF SafetyInv, WrittenAreHeld
<1>8. AcknowledgedIsDurable'
  BY <1>1, <1>3, LinesKept DEF SafetyInv, AcknowledgedIsDurable
<1>9. ObservedAreSeen'
  <2>1. \A m \in DOMAIN calls' : \A k \in calls'[m].known :
           k \in DOMAIN calls' /\ calls'[k].state = "observed"
    BY <1>1 DEF SafetyInv, ObservedAreSeen
  <2>2. ASSUME NEW m \in DOMAIN calls', calls'[m].state = "observed", NEW e \in EntriesOf(m)'
        PROVE  LineOf(e)' \in seen' \/ e \in deleted'
    <3>1. m \in DOMAIN calls /\ calls[m].state = "observed"
      BY <1>1, <2>2
    <3>2. e \in EntriesOf(m) /\ e.call = m
      BY <1>1, <3>1, LinesKept DEF EntriesOf
    <3>3. LineOf(e) \in seen \/ e \in deleted
      BY <3>1, <3>2 DEF SafetyInv, ObservedAreSeen
    <3> QED
      BY <1>1, <1>2, <3>1, <3>2, <3>3, LinesKept
  <2> QED
    BY <2>1, <2>2 DEF ObservedAreSeen
<1>10. AddsAreNews'
  <2> SUFFICES ASSUME NEW m \in DOMAIN calls', NEW k \in calls'[m].known,
                      NEW e \in EntriesOf(k)', LineOf(e)' \in LinesOf(m)'
               PROVE  e \in deleted'
    BY DEF AddsAreNews
  <2>1. k \in DOMAIN calls /\ calls[k].state = "observed"
    BY <1>1 DEF SafetyInv, ObservedAreSeen
  <2>2. e \in EntriesOf(k) /\ e.call = k /\ LineOf(e)' = LineOf(e)
    BY <1>1, <2>1, LinesKept DEF EntriesOf
  <2>3. CASE m = n
    <3>1. LineOf(e) \notin seen
      BY <1>1, <2>2, <2>3 DEF LinesOf
    <3> QED
      BY <1>2, <2>1, <2>2, <3>1 DEF SafetyInv, ObservedAreSeen
  <2>4. CASE m \in DOMAIN calls
    <3>1. LineOf(e) \in LinesOf(m) /\ k \in calls[m].known
      BY <1>1, <2>2, <2>4, LinesKept
    <3> QED
      BY <1>2, <2>2, <2>4, <3>1 DEF SafetyInv, AddsAreNews
  <2> QED
    BY <1>1, <2>3, <2>4
<1> QED
  BY <1>1, <1>2, <1>3, <1>5, <1>6, <1>7, <1>8, <1>9, <1>10, SeenKept DEF SafetyInv

(* A call observes its lines only when the log holds them                  *)
(* (src/reconcile.rs:94-96).                                               *)
LEMMA ObserveStep ==
    ASSUME TypeOK, SafetyInv, NEW n \in DOMAIN calls, Observe(n)
    PROVE  SafetyInv'
<1>1. /\ DOMAIN calls' = DOMAIN calls
      /\ CallsKept
      /\ \A m \in DOMAIN calls :
            /\ calls'[m].ids = calls[m].ids
            /\ calls'[m].state = IF m = n THEN "observed" ELSE calls[m].state
  BY StateEffect DEF Observe, States
<1>2. /\ committed' = committed /\ pending' = pending /\ deleted' = deleted
      /\ seen' = seen \cup LinesOf(n)
      /\ calls[n].state = "durable"
  BY DEF Observe, observe, Hashes, content_hash, storeVars
<1>3. Held' = Held /\ HeldEntries' = HeldEntries /\ Committed' = Committed
  BY <1>2 DEF Held, HeldEntries, Committed
<1>4. CallsAge
  BY <1>1, <1>2 DEF CallsAge
<1>5. WrittenOnceInOrder'
  BY <1>3 DEF SafetyInv, WrittenOnceInOrder
<1>6. EntriesAreWritten'
  BY <1>1, <1>2, <1>3 DEF SafetyInv, EntriesAreWritten, TypeOK
<1>7. WrittenAreHeld'
  BY <1>1, <1>3 DEF SafetyInv, WrittenAreHeld, CallsKept
<1>8. AcknowledgedIsDurable'
  BY <1>1, <1>2, <1>3, LinesKept DEF SafetyInv, AcknowledgedIsDurable
<1>9. SeenIsExplained'
  <2> SUFFICES ASSUME NEW line \in seen'
               PROVE  \E e \in Committed' : line = LineOf(e)'
    BY DEF SeenIsExplained
  <2>1. PICK e \in Committed : line = LineOf(e)
    <3>1. CASE line \in seen
      BY <3>1 DEF SafetyInv, SeenIsExplained
    <3>2. CASE line \in LinesOf(n)
      <4>1. PICK i \in DOMAIN calls[n].adds : line = calls[n].adds[i]
        BY <3>2 DEF LinesOf
      <4>2. [call |-> n, pos |-> i] \in Committed
        BY <1>2, <4>1 DEF SafetyInv, AcknowledgedIsDurable, EntriesOf
      <4> QED
        BY <4>1, <4>2 DEF LineOf
    <3> QED
      BY <1>2, <3>1, <3>2
  <2>2. LineOf(e)' = LineOf(e)
    BY <1>1, HeldFacts, HeldIsOfCall, LinesKept
  <2> QED
    BY <1>3, <2>1, <2>2
<1>10. ObservedAreSeen'
  <2>1. \A m \in DOMAIN calls : \A k \in calls'[m].known :
           k \in DOMAIN calls /\ calls'[k].state = "observed"
    BY <1>1, <1>4 DEF SafetyInv, ObservedAreSeen, CallsKept, CallsAge
  <2>2. ASSUME NEW m \in DOMAIN calls, calls'[m].state = "observed", NEW e \in EntriesOf(m)'
        PROVE  LineOf(e)' \in seen' \/ e \in deleted'
    <3>1. e \in EntriesOf(m) /\ e.call = m /\ LineOf(e)' = LineOf(e)
      BY <1>1, LinesKept DEF EntriesOf
    <3>2. CASE m = n
      BY <1>2, <3>1, <3>2 DEF EntriesOf, LinesOf, LineOf
    <3>3. CASE m # n
      BY <1>1, <1>2, <2>2, <3>1, <3>3 DEF SafetyInv, ObservedAreSeen
    <3> QED
      BY <3>2, <3>3
  <2> QED
    BY <1>1, <2>1, <2>2 DEF ObservedAreSeen
<1> QED
  BY <1>1, <1>2, <1>5, <1>6, <1>7, <1>8, <1>9, <1>10, NewsKept DEF SafetyInv

(* A crash keeps the log and seeds the resolver from it: it knows all that *)
(* was observed and is not deleted (src/reconcile.rs:80-90).               *)
LEMMA CrashStep ==
    ASSUME TypeOK, SafetyInv, Crash
    PROVE  SafetyInv'
<1>1. /\ DOMAIN calls' = DOMAIN calls
      /\ CallsKept
      /\ \A m \in DOMAIN calls :
            /\ calls'[m].ids = calls[m].ids
            /\ calls'[m].state \in {"failed", "observed"}
            /\ calls'[m].state = "observed" <=>
                  calls[m].state \in {"durable", "observed"}
  BY CrashEffect
<1>2. /\ committed' = committed
      /\ Held' = committed
      /\ HeldEntries' = Committed
      /\ Committed' = Committed
  BY LoseEffect DEF Crash
<1>3. deleted' = deleted /\ seen' = { LineOf(e) : e \in Existing }
  BY DEF Crash, Hashes, content_hash
<1>4. /\ DOMAIN committed = 1..Len(committed) /\ Len(committed) \in Nat
      /\ DOMAIN committed \subseteq DOMAIN Held
      /\ DOMAIN Held = 1..Len(Held) /\ Len(Held) \in Nat
      /\ \A i \in DOMAIN committed : Held[i] = committed[i]
      /\ Committed \subseteq HeldEntries
  BY HeldFacts
<1>5. WrittenOnceInOrder'
  <2>1. \A i, j \in DOMAIN committed : committed[i] = committed[j] => i = j
    BY <1>4 DEF SafetyInv, WrittenOnceInOrder
  <2>2. ASSUME NEW i \in DOMAIN committed, committed[i].pos > 1
        PROVE  \E j \in DOMAIN committed :
                 /\ j < i
                 /\ committed[j] = [call |-> committed[i].call, pos |-> committed[i].pos - 1]
    <3>1. PICK j \in DOMAIN Held :
             /\ j < i
             /\ Held[j] = [call |-> Held[i].call, pos |-> Held[i].pos - 1]
      BY <1>4, <2>2 DEF SafetyInv, WrittenOnceInOrder
    <3>2. j \in DOMAIN committed
      BY <1>4, <3>1
    <3> QED
      BY <1>4, <3>1, <3>2
  <2> QED
    BY <1>2, <2>1, <2>2 DEF WrittenOnceInOrder
<1>6. EntriesAreWritten'
  <2> SUFFICES ASSUME NEW e \in Committed, calls'[e.call].state # "failed"
               PROVE  e.pos <= Len(calls'[e.call].ids)
    BY <1>2 DEF EntriesAreWritten
  <2>1. e \in HeldEntries /\ e.call \in DOMAIN calls
    BY <1>4, HeldIsOfCall
  <2> QED
    BY <1>1, <2>1 DEF SafetyInv, EntriesAreWritten
<1>7. WrittenAreHeld'
  BY <1>1 DEF SafetyInv, WrittenAreHeld, CallsKept
<1>8. AcknowledgedIsDurable'
  BY <1>1, <1>2, LinesKept DEF SafetyInv, AcknowledgedIsDurable
<1>9. \A e \in Committed : LineOf(e)' = LineOf(e)
  BY <1>1, <1>4, HeldIsOfCall, LinesKept
<1>10. SeenIsExplained'
  BY <1>2, <1>3, <1>9 DEF SeenIsExplained, Existing
<1>11. ObservedAreSeen'
  <2>1. \A m \in DOMAIN calls : \A k \in calls'[m].known :
           k \in DOMAIN calls /\ calls'[k].state = "observed"
    BY <1>1 DEF SafetyInv, ObservedAreSeen, CallsKept
  <2>2. ASSUME NEW m \in DOMAIN calls, calls'[m].state = "observed", NEW e \in EntriesOf(m)'
        PROVE  LineOf(e)' \in seen' \/ e \in deleted'
    <3>1. e \in EntriesOf(m)
      BY <1>1, LinesKept
    <3>2. e \in Committed
      BY <1>1, <2>2, <3>1 DEF SafetyInv, AcknowledgedIsDurable
    <3> QED
      BY <1>3, <1>9, <3>2 DEF Existing
  <2> QED
    BY <1>1, <2>1, <2>2 DEF ObservedAreSeen
<1> QED
  BY <1>1, <1>3, <1>5, <1>6, <1>7, <1>8, <1>10, <1>11, NewsKept DEF SafetyInv

-----------------------------------------------------------------------------
(* One step of the invariant per action.                                   *)
LEMMA SafetyStep == TypeOK /\ SafetyInv /\ [Next]_vars => SafetyInv'
<1> SUFFICES ASSUME TypeOK, SafetyInv, [Next]_vars
             PROVE  SafetyInv'
  OBVIOUS
<1>1. ASSUME NEW batch \in Batches, Begin(batch)
      PROVE  SafetyInv'
  BY <1>1, BeginStep
<1>2. ASSUME NEW n \in DOMAIN calls, WriteLine(n)
      PROVE  SafetyInv'
  <2>1. PICK id \in {Len(pending)} : write_text(NextEntry(n), id) /\ AddId(n, id)
    BY <1>2 DEF WriteLine, AddId
  <2>2. id = Len(pending) /\ id \in Nat
    BY LenProperties DEF TypeOK
  <2>3. /\ DOMAIN calls' = DOMAIN calls
        /\ CallsKept
        /\ \A m \in DOMAIN calls :
              /\ m # n => calls'[m].ids = calls[m].ids
              /\ calls'[m].state = calls[m].state
        /\ Len(calls'[n].ids) = Len(calls[n].ids) + 1
        /\ calls'[n].ids \in Seq(Nat)
    BY <2>1, <2>2, IdsEffect
  <2>4. CallsAge
    BY <2>3 DEF CallsAge
  <2>5. Writing(n) /\ calls[n].state = "writing" /\ seen' = seen /\ deleted' = deleted
    BY <1>2 DEF WriteLine, Writing
  <2> QED
    BY <2>1, <2>2, <2>3, <2>4, <2>5, WriteStep
<1>3. ASSUME NEW n \in DOMAIN calls, WriteFails(n)
      PROVE  SafetyInv'
  <2>1. /\ DOMAIN calls' = DOMAIN calls
        /\ CallsKept
        /\ \A m \in DOMAIN calls :
              /\ calls'[m].ids = calls[m].ids
              /\ calls'[m].state = IF m = n THEN "failed" ELSE calls[m].state
    BY <1>3, StateEffect DEF WriteFails, States
  <2>2. Writing(n) /\ calls[n].state = "writing" /\ seen' = seen /\ deleted' = deleted
    BY <1>3 DEF WriteFails, Writing
  <2>3. CallsAge
    BY <2>1, <2>2 DEF CallsAge
  <2>4. CASE write_text(NextEntry(n), Len(pending))
    BY <2>1, <2>2, <2>3, <2>4, WriteStep
  <2>5. CASE UNCHANGED storeVars
    <3>1. Held' = Held /\ Committed' = Committed
      BY <2>5 DEF storeVars, Held, Committed
    <3> QED
      BY <2>1, <2>2, <2>3, <3>1, QuietStep
  <2> QED
    BY <1>3, <2>4, <2>5 DEF WriteFails
<1>4. ASSUME NEW n \in DOMAIN calls, Commit(n)
      PROVE  SafetyInv'
  <2>1. /\ DOMAIN calls' = DOMAIN calls
        /\ CallsKept
        /\ \A m \in DOMAIN calls :
              /\ calls'[m].ids = calls[m].ids
              /\ calls'[m].state = IF m = n THEN "durable" ELSE calls[m].state
    BY <1>4, StateEffect DEF Commit, States
  <2>2. Written(n) /\ commit /\ seen' = seen /\ deleted' = deleted
    BY <1>4 DEF Commit
  <2>3. CallsAge
    BY <2>1, <2>2 DEF CallsAge, Written
  <2>4. Held' = Held /\ Committed' = HeldEntries /\ Committed \subseteq Committed'
    BY <2>2, CommitEffect, HeldFacts
  <2>5. EntriesOf(n) \subseteq Committed'
    <3>1. DOMAIN calls[n].adds = DOMAIN calls[n].ids
      BY <2>2, CallFields, LenProperties DEF Written
    <3> QED
      BY <2>2, <2>4, <3>1 DEF SafetyInv, WrittenAreHeld, Written, EntriesOf
  <2> QED
    BY <2>1, <2>2, <2>3, <2>4, <2>5, QuietStep
<1>5. ASSUME NEW n \in DOMAIN calls, CommitFails(n)
      PROVE  SafetyInv'
  <2>1. /\ DOMAIN calls' = DOMAIN calls
        /\ CallsKept
        /\ \A m \in DOMAIN calls :
              /\ calls'[m].ids = calls[m].ids
              /\ calls'[m].state = IF m = n THEN "failed" ELSE calls[m].state
    BY <1>5, StateEffect DEF CommitFails, States
  <2>2. Written(n) /\ seen' = seen /\ deleted' = deleted
    BY <1>5 DEF CommitFails
  <2>3. CallsAge
    BY <2>1, <2>2 DEF CallsAge, Written
  <2>4. Held' = Held /\ Committed \subseteq Committed'
    <3>1. CASE commit
      BY <3>1, CommitEffect, HeldFacts
    <3>2. CASE UNCHANGED storeVars
      BY <3>2 DEF storeVars, Held, Committed
    <3> QED
      BY <1>5, <3>1, <3>2 DEF CommitFails
  <2> QED
    BY <2>1, <2>2, <2>3, <2>4, QuietStep
<1>6. ASSUME NEW n \in DOMAIN calls, Observe(n)
      PROVE  SafetyInv'
  BY <1>6, ObserveStep
<1>7. ASSUME NEW e \in Existing, Delete(e)
      PROVE  SafetyInv'
  <2>1. /\ calls' = calls /\ seen' = seen /\ deleted \subseteq deleted'
        /\ committed' = committed /\ pending' = pending
    BY <1>7 DEF Delete, storeVars
  <2>2. CallsKept /\ CallsAge /\ Held' = Held /\ Committed' = Committed
    BY <2>1 DEF CallsKept, CallsAge, Held, Committed
  <2> QED
    BY <2>1, <2>2, QuietStep
<1>8. ASSUME Crash
      PROVE  SafetyInv'
  BY <1>8, CrashStep
<1>9. CASE UNCHANGED vars
  <2>1. /\ calls' = calls /\ seen' = seen /\ deleted' = deleted
        /\ committed' = committed /\ pending' = pending
    BY <1>9 DEF vars, storeVars
  <2>2. CallsKept /\ CallsAge /\ Held' = Held /\ Committed' = Committed
    BY <2>1 DEF CallsKept, CallsAge, Held, Committed
  <2> QED
    BY <2>1, <2>2, QuietStep
<1> QED
  BY <1>1, <1>2, <1>3, <1>4, <1>5, <1>6, <1>7, <1>8, <1>9 DEF Next, CallStep

(* Nothing has been called, written or observed.                           *)
LEMMA SafetyInit == Init => SafetyInv
<1> SUFFICES ASSUME Init
             PROVE  SafetyInv
  OBVIOUS
<1>1. pending = << >> /\ committed = << >> /\ calls = << >> /\ seen = {}
  BY DEF Init, StoreNew, ResolverNew, Hashes
<1>2. Held = << >> /\ HeldEntries = {} /\ DOMAIN calls = {} /\ DOMAIN Held = {}
  BY <1>1 DEF Held, HeldEntries
<1> QED
  BY <1>1, <1>2 DEF SafetyInv, WrittenOnceInOrder, EntriesAreWritten, WrittenAreHeld,
     AcknowledgedIsDurable, SeenIsExplained, ObservedAreSeen, AddsAreNews

(* The buffer, the log, the resolver and the calls agree, for any number   *)
(* of overlapping calls, any errors, deletions and crashes.                *)
THEOREM SafetyCorrect == Spec => []SafetyInv
BY TypeInit, TypeStep, SafetyInit, SafetyStep, PTL DEF Spec

(* The store holds every line that was written once, and the lines of a    *)
(* call in their order without a gap (src/store.rs:184-188).               *)
THEOREM LinesAreWrittenOnceInOrder == Spec => []WrittenOnceInOrder
<1>1. SafetyInv => WrittenOnceInOrder
  BY DEF SafetyInv
<1> QED
  BY <1>1, SafetyCorrect, PTL

(* What persist_all answered for is in the log for good                    *)
(* (src/store.rs:74-77).                                                   *)
THEOREM AcknowledgedStaysDurable == Spec => []AcknowledgedIsDurable
<1>1. SafetyInv => AcknowledgedIsDurable
  BY DEF SafetyInv
<1> QED
  BY <1>1, SafetyCorrect, PTL

(* The resolver suppresses only lines that the log holds                   *)
(* (src/reconcile.rs:94-118).                                              *)
THEOREM SuppressionIsExplained == Spec => []SeenIsExplained
<1>1. SafetyInv => SeenIsExplained
  BY DEF SafetyInv
<1> QED
  BY <1>1, SafetyCorrect, PTL

(* A line is not written again by a call that began after it was observed, *)
(* unless it was deleted (src/reconcile.rs:112-118).                       *)
THEOREM KnownIsNotRewritten == Spec => []KnownNotRewritten
<1>1. TypeOK /\ SafetyInv => KnownNotRewritten
  <2> SUFFICES ASSUME TypeOK, SafetyInv,
                      NEW e \in HeldEntries, NEW f \in HeldEntries,
                      e.call \in calls[f.call].known, LineOf(e) = LineOf(f)
               PROVE  e \in deleted
    BY DEF KnownNotRewritten
  <2>1. f.call \in DOMAIN calls /\ LineOf(f) \in LinesOf(f.call)
    BY HeldIsOfCall
  <2>2. e \in EntriesOf(e.call)
    BY HeldIsOfCall
  <2> QED
    BY <2>1, <2>2 DEF SafetyInv, AddsAreNews
<1> QED
  BY <1>1, TypeCorrect, SafetyCorrect, PTL

-----------------------------------------------------------------------------
(* The log only grows at its end (src/store.rs:166-171).                   *)
LEMMA LogGrows ==
    ASSUME TypeOK, [Next]_vars
    PROVE  /\ Len(committed) <= Len(committed')
           /\ \A i \in DOMAIN committed : committed'[i] = committed[i]
<1>1. Len(committed) \in Nat
  BY LenProperties DEF TypeOK
<1>2. CASE commit
  <2>1. committed' = Held
    BY <1>2, CommitEffect
  <2>2. Len(committed) <= Len(Held)
    BY ConcatProperties, LenProperties DEF Held, TypeOK
  <2> QED
    BY <2>1, <2>2, HeldFacts
<1>3. CASE committed' = committed
  BY <1>1, <1>3
<1>4. commit \/ committed' = committed
  BY DEF Next, CallStep, Begin, WriteLine, WriteFails, Commit, CommitFails, Observe, Delete,
     Crash, write_text, LosePending, storeVars, vars
<1> QED
  BY <1>2, <1>3, <1>4

(* No acknowledgement is taken back (src/store.rs:187-188).                *)
LEMMA AcknowledgedGrows ==
    ASSUME TypeOK, [Next]_vars
    PROVE  Acknowledged \subseteq Acknowledged'
<1> DEFINE Ok == {"durable", "observed"}
<1> SUFFICES ASSUME CallsKept, \A m \in DOMAIN calls : calls[m].state \in Ok => calls'[m].state \in Ok
             PROVE  Acknowledged \subseteq Acknowledged'
  <2>1. ASSUME NEW batch \in Batches, Begin(batch)
        PROVE  CallsKept /\ \A m \in DOMAIN calls : calls[m].state \in Ok => calls'[m].state \in Ok
    BY <2>1, BeginEffect
  <2>2. ASSUME NEW n \in DOMAIN calls, WriteLine(n)
        PROVE  CallsKept /\ \A m \in DOMAIN calls : calls[m].state \in Ok => calls'[m].state \in Ok
    <3>1. PICK id \in {Len(pending)} : AddId(n, id)
      BY <2>2 DEF WriteLine, AddId
    <3>2. id \in Nat
      BY LenProperties DEF TypeOK
    <3> QED
      BY <3>1, <3>2, IdsEffect
  <2>3. ASSUME NEW n \in DOMAIN calls, WriteFails(n) \/ CommitFails(n)
        PROVE  CallsKept /\ \A m \in DOMAIN calls : calls[m].state \in Ok => calls'[m].state \in Ok
    BY <2>3, StateEffect DEF WriteFails, CommitFails, Writing, Written, States
  <2>4. ASSUME NEW n \in DOMAIN calls, Commit(n)
        PROVE  CallsKept /\ \A m \in DOMAIN calls : calls[m].state \in Ok => calls'[m].state \in Ok
    BY <2>4, StateEffect DEF Commit, States
  <2>5. ASSUME NEW n \in DOMAIN calls, Observe(n)
        PROVE  CallsKept /\ \A m \in DOMAIN calls : calls[m].state \in Ok => calls'[m].state \in Ok
    BY <2>5, StateEffect DEF Observe, States
  <2>6. CASE Crash
    BY <2>6, CrashEffect
  <2>7. CASE calls' = calls
    BY <2>7 DEF CallsKept
  <2> QED
    BY <2>1, <2>2, <2>3, <2>4, <2>5, <2>6, <2>7 DEF Next, CallStep, Delete, vars
<1> QED
  BY LinesKept DEF Acknowledged, CallsKept

(* The store implements the log of acknowledged entries: no step takes     *)
(* anything back, whoever commits for whom (src/store.rs:71-113).          *)
THEOREM StoreImplementsAckedLog == Spec => ImplementsAckedLog
<1>1. Init => Promised!Init
  <2> SUFFICES ASSUME Init
               PROVE  Promised!Init
    OBVIOUS
  <2>1. committed = << >> /\ calls = << >>
    BY DEF Init, StoreNew
  <2> QED
    BY <2>1 DEF Promised!Init, Acknowledged
<1>2. TypeOK /\ SafetyInv => Promised!Distinct
  BY HeldFacts DEF SafetyInv, WrittenOnceInOrder, Promised!Distinct
<1>3. TypeOK /\ SafetyInv' /\ Promised!Distinct' /\ [Next]_vars
        => [Promised!Next]_<<committed, Acknowledged>>
  <2> SUFFICES ASSUME TypeOK, SafetyInv', Promised!Distinct', [Next]_vars
               PROVE  Promised!Next
    OBVIOUS
  <2>1. Promised!Extend
    BY LogGrows DEF Promised!Extend
  <2>2. Acknowledged' \subseteq Promised!Logged'
    BY DEF Acknowledged, SafetyInv, AcknowledgedIsDurable, Promised!Logged, Committed
  <2> QED
    BY <2>1, <2>2, AcknowledgedGrows DEF Promised!Next, Promised!Acknowledge
<1> QED
  BY <1>1, <1>2, <1>3, TypeCorrect, SafetyCorrect, PTL
     DEF Spec, ImplementsAckedLog, Promised!Spec

=============================================================================
