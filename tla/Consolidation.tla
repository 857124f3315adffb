----------------------------- MODULE Consolidation -----------------------------
(***************************************************************************)
(* Consolidating batches of lines into a shared store: the composition of  *)
(* ExactHashResolver (src/reconcile.rs) and the store traits               *)
(* (src/store.rs).  Each call                                              *)
(*                                                                         *)
(*   - reconciles its batch against the resolver and takes what is Add,    *)
(*   - persists that with persist_all: write_text for each line, commit,   *)
(*     and `?` after each of them,                                         *)
(*   - observes the lines once persist_all has returned Ok.                *)
(*                                                                         *)
(* Calls overlap: every await of persist_all is a point where others run,  *)
(* and all of them share one buffer.  The process may die between any two  *)
(* steps; the next one builds its resolver from what the store holds.      *)
(* A host may delete a committed entry; the resolver is not told, because  *)
(* it has no way to forget.                                                *)
(*                                                                         *)
(* Faults names what may go wrong in a run:                                *)
(*   "write"    write_text returns an error, with or without the entry     *)
(*   "commit"   commit returns an error, with or without its effect        *)
(*   "crash"    the process dies                                           *)
(***************************************************************************)
EXTENDS TextStore, Resolver

CONSTANTS
    Batches,    \* the batches a host offers: sequences of lines
    MaxCalls,   \* bound: calls started, over all lives of the process
    Faults      \* see above

ASSUME BatchesAssumption == Batches \subseteq Seq(Lines)
ASSUME MaxCallsAssumption == MaxCalls \in Nat
ASSUME FaultsAssumption == Faults \subseteq {"write", "commit", "crash"}

VARIABLES
    calls,      \* the calls, oldest first
    deleted     \* committed entries that were deleted

vars == <<storeVars, seen, calls, deleted>>

(* state: "writing" in persist_all, "durable" after its Ok, "observed" or  *)
(* "failed" at the end.  known is history: the calls that had observed     *)
(* their lines when this one reconciled its batch.                         *)
States == {"writing", "durable", "observed", "failed"}

Calls == [adds : Seq(Lines), ids : Seq(Nat), state : States, known : SUBSET Nat]

(* An entry names the line it carries by its call and position.            *)
Entries == [call : Nat, pos : Nat]

LineOf(e) == calls[e.call].adds[e.pos]
EntriesOf(n) == { [call |-> n, pos |-> i] : i \in DOMAIN calls[n].adds }
LinesOf(n) == { calls[n].adds[i] : i \in DOMAIN calls[n].adds }
Committed == { committed[i] : i \in DOMAIN committed }
Existing == Committed \ deleted

HeldEntries == { Held[i] : i \in DOMAIN Held }

TypeOK ==
    /\ calls \in Seq(Calls)
    /\ pending \in Seq(Entries)
    /\ committed \in Seq(Entries)
    /\ seen \in SUBSET Lines
    /\ deleted \subseteq Committed
    /\ \A e \in HeldEntries :
          e.call \in DOMAIN calls /\ e.pos \in DOMAIN calls[e.call].adds

Init ==
    /\ StoreNew
    /\ ResolverNew
    /\ calls = << >>
    /\ deleted = {}

-----------------------------------------------------------------------------
(* The places of the batch that are Add, in order; there is one such pick. *)
Picks(batch) ==
    { pick \in UNION { [1..m -> DOMAIN batch] : m \in 0..Len(batch) } :
        /\ \A i, j \in DOMAIN pick : i < j => pick[i] < pick[j]
        /\ \A p \in DOMAIN batch :
              reconcile(batch[p]) = "Add" <=> \E i \in DOMAIN pick : pick[i] = p }

(* Each line is reconciled against the same set: a batch that repeats a    *)
(* line gets Add for both.                                                 *)
Begin(batch) ==
    /\ Len(calls) < MaxCalls
    /\ \E pick \in Picks(batch) :
          calls' = Append(calls,
             [adds  |-> [i \in DOMAIN pick |-> batch[pick[i]]],
              ids   |-> << >>,
              state |-> "writing",
              known |-> { n \in DOMAIN calls : calls[n].state = "observed" }])
    /\ UNCHANGED <<storeVars, seen, deleted>>

(* The loop of persist_all has a line left; it has none.                   *)
Writing(n) == calls[n].state = "writing" /\ Len(calls[n].ids) < Len(calls[n].adds)
Written(n) == calls[n].state = "writing" /\ Len(calls[n].ids) = Len(calls[n].adds)

(* Mutant: positions counted from zero.                                    *)
NextEntryFromZero(n) == [call |-> n, pos |-> Len(calls[n].ids)]

NextEntry(n) == [call |-> n, pos |-> Len(calls[n].ids) + 1]

SetState(n, state) == calls' = [calls EXCEPT ![n].state = state]

WriteLine(n) ==
    /\ Writing(n)
    /\ \E id \in {Len(pending)} :
          /\ write_text(NextEntry(n), id)
          /\ calls' = [calls EXCEPT ![n].ids = Append(@, id)]
    /\ UNCHANGED <<seen, deleted>>

(* The lines before this one stay in the buffer.                           *)
WriteFails(n) ==
    /\ "write" \in Faults
    /\ Writing(n)
    /\ \/ write_text(NextEntry(n), Len(pending))
       \/ UNCHANGED storeVars
    /\ SetState(n, "failed")
    /\ UNCHANGED <<seen, deleted>>

(* Mutant: a commit that waits until there is something to flush.          *)
CommitWaits(n) ==
    /\ Written(n)
    /\ pending # << >>
    /\ commit
    /\ SetState(n, "durable")
    /\ UNCHANGED <<seen, deleted>>

Commit(n) ==
    /\ Written(n)
    /\ commit
    /\ SetState(n, "durable")
    /\ UNCHANGED <<seen, deleted>>

CommitFails(n) ==
    /\ "commit" \in Faults
    /\ Written(n)
    /\ commit \/ UNCHANGED storeVars
    /\ SetState(n, "failed")
    /\ UNCHANGED <<seen, deleted>>

(* Mutant: a host that observes before it persists.                        *)
ObserveEarly(n) ==
    /\ calls[n].state = "writing"
    /\ observe(LinesOf(n))
    /\ UNCHANGED <<storeVars, calls, deleted>>

Observe(n) ==
    /\ calls[n].state = "durable"
    /\ observe(LinesOf(n))
    /\ SetState(n, "observed")
    /\ UNCHANGED <<storeVars, deleted>>

Delete(e) ==
    /\ e \in Existing
    /\ deleted' = deleted \cup {e}
    /\ UNCHANGED <<storeVars, seen, calls>>

(* Mutant: the next process starts with an empty resolver.                 *)
CrashUnseeded ==
    /\ "crash" \in Faults
    /\ LosePending
    /\ seen' = {}
    /\ calls' = [n \in DOMAIN calls |->
          [calls[n] EXCEPT !.state =
              IF @ = "writing" THEN "failed"
              ELSE IF @ = "durable" THEN "observed" ELSE @]]
    /\ UNCHANGED deleted

(* The process dies, and the next one seeds its resolver with the lines    *)
(* the store holds.                                                        *)
Crash ==
    /\ "crash" \in Faults
    /\ LosePending
    /\ seen' = Hashes({ LineOf(e) : e \in Existing })
    /\ calls' = [n \in DOMAIN calls |->
          [calls[n] EXCEPT !.state =
              IF @ = "writing" THEN "failed"
              ELSE IF @ = "durable" THEN "observed" ELSE @]]
    /\ UNCHANGED deleted

CallStep(n) == WriteLine(n) \/ WriteFails(n) \/ Commit(n) \/ CommitFails(n) \/ Observe(n)

Next ==
    \/ \E batch \in Batches : Begin(batch)
    \/ \E n \in DOMAIN calls : CallStep(n)
    \/ \E e \in Existing : Delete(e)
    \/ Crash

Spec == Init /\ [][Next]_vars

(* Nothing in persist_all waits for another call: a call that was started  *)
(* is polled to its end.  A step of it is not put off for ever; an error   *)
(* may take its place, but none is needed to end the call.                 *)
Fairness ==
    \A n \in 1..MaxCalls :
        WF_vars(n \in DOMAIN calls /\ (WriteLine(n) \/ Commit(n) \/ Observe(n)))

FairSpec == Spec /\ Fairness

-----------------------------------------------------------------------------
(* However calls overlap and fail and whoever commits for whom: the store  *)
(* holds every line that was written once, the lines of a call in their    *)
(* order, and none without the one before it.  A batch that is only partly *)
(* in the store is a prefix (src/store.rs:184-188).                        *)
WrittenOnceInOrder ==
    /\ \A i, j \in DOMAIN Held : Held[i] = Held[j] => i = j
    /\ \A i \in DOMAIN Held : Held[i].pos > 1 =>
          \E j \in DOMAIN Held :
              j < i /\ Held[j] = [call |-> Held[i].call, pos |-> Held[i].pos - 1]

(* From the Ok of persist_all on, all its lines are in the committed log,  *)
(* also after a crash: the commit of another caller between two writes has *)
(* not swallowed any of them (src/store.rs:74-77).                         *)
AcknowledgedIsDurable ==
    \A n \in DOMAIN calls :
        calls[n].state \in {"durable", "observed"} => EntriesOf(n) \subseteq Committed

(* Noop is "a duplicate of existing memory" (src/reconcile.rs:51) in this  *)
(* sense: the line is durably in the store, or was until it was deleted.   *)
(* No failed, torn or crashed call makes a later batch lose a line.        *)
SeenIsExplained == seen \subseteq { LineOf(e) : e \in Committed }

(* A call never writes a line of a call that had observed its lines before *)
(* the batch was reconciled, unless that entry is deleted by now.  All     *)
(* other repetitions are possible: within a batch, between calls that      *)
(* overlap, and after a call that failed half way (src/store.rs:185).      *)
KnownNotRewritten ==
    \A e, f \in HeldEntries :
        e.call \in calls[f.call].known /\ LineOf(e) = LineOf(f) => e \in deleted

(* What the invariants above rest on: what is held of a call is what it    *)
(* wrote, up to the entry at which it failed.                              *)
EntriesAreWritten ==
    \A e \in HeldEntries :
        calls[e.call].state = "failed" \/ e.pos <= Len(calls[e.call].ids)

(* What a call wrote is held while it writes; at the end it wrote it all.  *)
WrittenAreHeld ==
    \A n \in DOMAIN calls :
        /\ Len(calls[n].ids) <= Len(calls[n].adds)
        /\ calls[n].state = "writing" =>
              \A i \in DOMAIN calls[n].ids : [call |-> n, pos |-> i] \in HeldEntries

(* A call that observed its lines has done so for good, and the resolver   *)
(* of any later life knows them, unless the entry was deleted.             *)
ObservedAreSeen ==
    \A n \in DOMAIN calls :
        /\ \A k \in calls[n].known : k \in DOMAIN calls /\ calls[k].state = "observed"
        /\ calls[n].state = "observed" =>
              \A e \in EntriesOf(n) : LineOf(e) \in seen \/ e \in deleted

(* No call adds a line of a call it knows, unless that entry was deleted.  *)
AddsAreNews ==
    \A n \in DOMAIN calls : \A k \in calls[n].known : \A e \in EntriesOf(k) :
        LineOf(e) \in LinesOf(n) => e \in deleted

(* The inductive invariant: across overlapping calls, errors, deletions    *)
(* and crashes the buffer, the log, the resolver and the calls agree       *)
(* (src/store.rs:153-189, src/reconcile.rs:94-118).                        *)
SafetyInv ==
    /\ WrittenOnceInOrder
    /\ EntriesAreWritten
    /\ WrittenAreHeld
    /\ AcknowledgedIsDurable
    /\ SeenIsExplained
    /\ ObservedAreSeen
    /\ AddsAreNews

(* What the caller may rely on, without buffers, calls and crashes.        *)
Acknowledged ==
    UNION { EntriesOf(n) : n \in { m \in DOMAIN calls :
                                     calls[m].state \in {"durable", "observed"} } }

Promised == INSTANCE AckedLog WITH log <- committed, acked <- Acknowledged

ImplementsAckedLog == Promised!Spec

(* Every call comes to an end: nobody waits for the commit of another one. *)
CallsEnd ==
    \A n \in 1..MaxCalls :
        n \in DOMAIN calls ~>
            n \in DOMAIN calls /\ calls[n].state \in {"observed", "failed"}

(* src/conformance.rs:32: "backend must assign unique IDs".                *)
IdsAreUnique ==
    \A n \in DOMAIN calls : \A i, j \in DOMAIN calls[n].ids :
        calls[n].ids[i] = calls[n].ids[j] => i = j
=============================================================================
