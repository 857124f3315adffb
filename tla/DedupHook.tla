------------------------------- MODULE DedupHook -------------------------------
(***************************************************************************)
(* The system DedupSet is made for (src/dedup.rs, module comment): hook    *)
(* invocations that gate an append-only archive with                       *)
(*                                                                         *)
(*     if seen.contains(&key)? { return Ok(..) }                           *)
(*     seen.insert(key)?;                                                  *)
(*     archive.append(entry)?;                                             *)
(*                                                                         *)
(* which is the order of examples/retention_policy.rs and                  *)
(* tests/policy_pipeline.rs.  A DemotionHook runs where messages are       *)
(* demoted and a Compactor where they are compacted, so several            *)
(* invocations (Workers) share one DedupSet; the three calls are three     *)
(* steps.  The process may stop between any two of them; only the archive  *)
(* and the sidecar file with the last snapshot survive.                    *)
(*                                                                         *)
(* Faults names what may go wrong in a run:                                *)
(*   "write"       an append to the archive returns an error               *)
(*   "crash"       the process dies without a last snapshot                *)
(*   "damage"      a line of the sidecar is malformed when it is read      *)
(*   "panic"       the subscriber of tracing::warn! panics during replay   *)
(*   "no_replay"   a host starts without replaying the sidecar             *)
(***************************************************************************)
EXTENDS DedupSet, Naturals, Sequences

CONSTANTS
    Workers,    \* concurrent invocations of the hook
    NoKey,      \* the job of an idle worker
    MaxLife,    \* bound: how many times the process is started
    Faults      \* see above

ASSUME NoKeyAssumption == NoKey \notin Keys
ASSUME MaxLifeAssumption == MaxLife \in Nat \ {0}
ASSUME FaultsAssumption ==
    Faults \subseteq {"write", "crash", "damage", "panic", "no_replay"}

VARIABLES
    phase,      \* "starting" until the host has filled its DedupSet
    pc,         \* the call each worker made last
    job,        \* the key each worker works on
    archive,    \* the entries of the append-only backend, oldest first
    sidecar,    \* the lines of the last snapshot written to disk
    life,       \* which incarnation of the process this is
    restored,   \* history: the keys replay put into this DedupSet
    answered,   \* history: keys some invocation of this life returned Ok for
    lost        \* history: keys recorded by an invocation that never wrote them

hookVars == <<phase, pc, job, archive, sidecar, life, restored, answered, lost>>
vars == <<dedupVars, hookVars>>

-----------------------------------------------------------------------------
Entries == [key : Keys, worker : Workers, life : Nat]
EntriesNow == { i \in DOMAIN archive : archive[i].life = life }
ArchivedKeys == { archive[i].key : i \in DOMAIN archive }
InFlight == { job[w] : w \in { v \in Workers : pc[v] = "recorded" } }

TypeOK ==
    /\ DedupTypeOK
    /\ phase \in {"starting", "running"}
    /\ pc \in [Workers -> {"idle", "checked", "recorded"}]
    /\ job \in [Workers -> Keys \cup {NoKey}]
    /\ \A w \in Workers : pc[w] = "idle" <=> job[w] = NoKey
    /\ archive \in Seq(Entries)
    /\ sidecar \in SUBSET HexStrings
    /\ life \in 1..MaxLife
    /\ restored \in SUBSET Keys
    /\ answered \in SUBSET Keys
    /\ lost \in SUBSET Keys

Init ==
    /\ DedupNew
    /\ phase = "starting"
    /\ pc = [w \in Workers |-> "idle"]
    /\ job = [w \in Workers |-> NoKey]
    /\ archive = << >>
    /\ sidecar = {}
    /\ life = 1
    /\ restored = {}
    /\ answered = {}
    /\ lost = {}

-----------------------------------------------------------------------------
(* The host starts with an empty set: the first start, or no opt-in to     *)
(* cross-restart dedup.                                                    *)
StartEmpty ==
    /\ phase = "starting"
    /\ life = 1 \/ "no_replay" \in Faults
    /\ phase' = "running"
    /\ UNCHANGED <<dedupVars, pc, job, archive, sidecar, life, restored,
                   answered, lost>>

Replay ==
    /\ phase = "starting"
    /\ ExtendFromSnapshot(sidecar)
    /\ restored' = seen'
    /\ phase' = "running"
    /\ UNCHANGED <<pc, job, archive, sidecar, life, answered, lost>>

(* The panic leaves a poisoned set behind; the host runs on with it.       *)
ReplayPanics ==
    /\ "panic" \in Faults
    /\ phase = "starting"
    /\ ExtendPanics(sidecar)
    /\ restored' = seen'
    /\ phase' = "running"
    /\ UNCHANGED <<pc, job, archive, sidecar, life, answered, lost>>

-----------------------------------------------------------------------------
(* Mutant: the worker forgets to take the next job.                        *)
FinishKeepsJob(w) == pc' = [pc EXCEPT ![w] = "idle"] /\ UNCHANGED job

Finish(w) ==
    /\ pc' = [pc EXCEPT ![w] = "idle"]
    /\ job' = [job EXCEPT ![w] = NoKey]

(* contains says true: the invocation is done, the entry is a duplicate.   *)
CheckDuplicate(w, k) ==
    /\ phase = "running"
    /\ pc[w] = "idle"
    /\ Contains(k, TRUE)
    /\ answered' = answered \cup {k}
    /\ UNCHANGED <<phase, pc, job, archive, sidecar, life, restored, lost>>

(* contains says false; the lock is free again before insert takes it.     *)
CheckNovel(w, k) ==
    /\ phase = "running"
    /\ pc[w] = "idle"
    /\ Contains(k, FALSE)
    /\ pc' = [pc EXCEPT ![w] = "checked"]
    /\ job' = [job EXCEPT ![w] = k]
    /\ UNCHANGED <<phase, archive, sidecar, life, restored, answered, lost>>

(* insert does not say whether the key was new, so nothing is decided here.*)
Record(w) ==
    /\ pc[w] = "checked"
    /\ Insert(job[w])
    /\ pc' = [pc EXCEPT ![w] = "recorded"]
    /\ UNCHANGED <<phase, job, archive, sidecar, life, restored, answered, lost>>

(* Mutant: an append that reports success and stores nothing.              *)
WriteSkips(w) ==
    /\ pc[w] = "recorded"
    /\ answered' = answered \cup {job[w]}
    /\ Finish(w)
    /\ UNCHANGED <<dedupVars, archive, phase, sidecar, life, restored, lost>>

Write(w) ==
    /\ pc[w] = "recorded"
    /\ archive' = Append(archive, [key |-> job[w], worker |-> w, life |-> life])
    /\ answered' = answered \cup {job[w]}
    /\ Finish(w)
    /\ UNCHANGED <<dedupVars, phase, sidecar, life, restored, lost>>

(* The `?` after the append: the key stays recorded, the entry is missing. *)
WriteFails(w) ==
    /\ "write" \in Faults
    /\ pc[w] = "recorded"
    /\ lost' = lost \cup {job[w]}
    /\ Finish(w)
    /\ UNCHANGED <<dedupVars, archive, phase, sidecar, life, restored, answered>>

-----------------------------------------------------------------------------
(* A host may write a snapshot at any time, also between two calls of a    *)
(* worker.                                                                 *)
TakeSnapshot ==
    /\ phase = "running"
    /\ ~poisoned
    /\ sidecar' = Snapshot
    /\ UNCHANGED <<dedupVars, phase, pc, job, archive, life, restored,
                   answered, lost>>

DamageSidecar ==
    /\ "damage" \in Faults
    /\ \E h \in sidecar :
          /\ h.intact
          /\ sidecar' = (sidecar \ {h}) \cup {[h EXCEPT !.intact = FALSE]}
    /\ UNCHANGED <<dedupVars, phase, pc, job, archive, life, restored,
                   answered, lost>>

(* A new process: memory is gone, the archive is not.                      *)
Restart ==
    /\ life < MaxLife
    /\ life' = life + 1
    /\ phase' = "starting"
    /\ seen' = {}
    /\ poisoned' = FALSE
    /\ pc' = [w \in Workers |-> "idle"]
    /\ job' = [w \in Workers |-> NoKey]
    /\ restored' = {}
    /\ answered' = {}
    /\ UNCHANGED archive

(* The module comment's "snapshot before shutdown": no hook is running.    *)
Shutdown ==
    /\ phase = "running"
    /\ ~poisoned
    /\ \A w \in Workers : pc[w] = "idle"
    /\ sidecar' = Snapshot
    /\ Restart
    /\ UNCHANGED lost

Crash ==
    /\ "crash" \in Faults
    /\ phase = "running"
    /\ lost' = lost \cup InFlight
    /\ Restart
    /\ UNCHANGED sidecar

WorkerStep(w) ==
    \/ \E k \in Keys : CheckDuplicate(w, k) \/ CheckNovel(w, k)
    \/ Record(w)
    \/ Write(w)
    \/ WriteFails(w)

Next ==
    \/ StartEmpty \/ Replay \/ ReplayPanics
    \/ \E w \in Workers : WorkerStep(w)
    \/ TakeSnapshot \/ DamageSidecar \/ Shutdown \/ Crash

Spec == Init /\ [][Next]_vars

(* A hook that was called runs to its end: nothing in insert or append     *)
(* waits for another invocation, and the lock is held for one call only.   *)
Fairness == \A w \in Workers : WF_vars(Record(w)) /\ WF_vars(Write(w))

FairSpec == Spec /\ Fairness

-----------------------------------------------------------------------------
(* The guarantee of src/dedup.rs:12-14 within one process, the "at most    *)
(* one" half: no two entries of one incarnation have the same key.  It     *)
(* holds for one worker; two workers break it between contains and insert. *)
AtMostOncePerLife ==
    \A i, j \in EntriesNow : archive[i].key = archive[j].key => i = j

(* What is left of it when invocations overlap: two copies of a key in one *)
(* life are always the work of two different workers, so the number of     *)
(* copies is bounded by the concurrency; a copy can still join after the   *)
(* first one only from a worker that was past contains before the insert.  *)
CopiesByDistinctWorkers ==
    \A i, j \in EntriesNow :
        archive[i].key = archive[j].key /\ archive[i].worker = archive[j].worker
            => i = j

(* A key that replay brought back (src/dedup.rs:15-18) is never written    *)
(* again in this life, whatever the interleaving and the faults.           *)
RestoredNotRewritten == \A i \in EntriesNow : archive[i].key \notin restored

(* The guarantee across restarts, src/dedup.rs:15-18: with a snapshot      *)
(* before every shutdown and a replay at every start, the archive holds at *)
(* most one entry per key for ever (one worker).                           *)
AtMostOnceEver ==
    \A i, j \in DOMAIN archive : archive[i].key = archive[j].key => i = j

(* The other half of "exactly one": when an invocation has returned Ok,    *)
(* duplicate or not, the entry is in the archive.                          *)
AnsweredMeansStored == answered \subseteq ArchivedKeys

(* A hook answers "duplicate" only for a reason: every recorded key is in  *)
(* the archive, on its way there, or was lost by a failed append or a      *)
(* crash.  The same holds for what a replay of the sidecar would record,   *)
(* so a snapshot never suppresses a key that no invocation worked on.      *)
NoUnexplainedSuppression ==
    seen \cup Decoded(sidecar) \subseteq ArchivedKeys \cup InFlight \cup lost

(* After a panic under the write guard the gate fails closed until the     *)
(* process is restarted: nothing is archived, and no invocation is         *)
(* answered either, not even for a key the replay had loaded before the    *)
(* panic (every method returns Err(Poisoned), src/dedup.rs:82,88).         *)
PoisonedFailsClosed ==
    [][poisoned => archive' = archive /\ answered' \subseteq answered]_vars

(* An Ok for a duplicate may be early (src/dedup.rs:83), but the entry     *)
(* follows, or an append or the process failed on it: nobody is answered   *)
(* on behalf of an entry that stays in flight for ever.                    *)
AnsweredIsEventuallyStored ==
    \A k \in Keys : (k \in answered) ~> (k \in ArchivedKeys \cup lost)

-----------------------------------------------------------------------------
(* The readers' view of the archive: an at-most-once log.  With one worker *)
(* and orderly restarts the hook implements it, whatever appends fail      *)
(* (src/dedup.rs:3-18).                                                    *)
ArchiveLog == [i \in DOMAIN archive |-> archive[i].key]

OnceLog == INSTANCE AtMostOnceLog WITH log <- ArchiveLog

ImplementsOnceLog == OnceLog!Spec

-----------------------------------------------------------------------------
(* The strengthening that makes the safety properties inductive.           *)
LivesAreOrdered == \A i \in DOMAIN archive : archive[i].life <= life

EntriesAreRecorded == \A i \in EntriesNow : archive[i].key \in seen

RecordedIsSeen == InFlight \subseteq seen

PendingIsUnwritten ==
    \A w \in Workers : pc[w] # "idle" =>
        /\ job[w] \notin restored
        /\ \A i \in EntriesNow : archive[i].worker = w => archive[i].key # job[w]

StartingIsClean ==
    phase = "starting" =>
        /\ seen = {} /\ restored = {} /\ EntriesNow = {}
        /\ \A w \in Workers : pc[w] = "idle"

(* What relates the DedupSet, the archive and the workers in every state:  *)
(* whatever this process wrote or is about to write is recorded, and what  *)
(* a worker is about to write it has not written yet.                      *)
SafetyInv ==
    /\ LivesAreOrdered
    /\ EntriesAreRecorded
    /\ RecordedIsSeen
    /\ restored \subseteq seen
    /\ PendingIsUnwritten
    /\ StartingIsClean
    /\ CopiesByDistinctWorkers
    /\ RestoredNotRewritten

(* The same for one worker and orderly restarts: a new process starts from *)
(* a sidecar that names every archived key.                                *)
OrderlyInv ==
    /\ phase = "starting" => /\ ArchivedKeys \subseteq Decoded(sidecar)
                             /\ life = 1 => ArchivedKeys = {}
    /\ phase = "running" => ArchivedKeys \subseteq seen
    /\ \A w \in Workers : pc[w] # "idle" => job[w] \notin ArchivedKeys
    /\ AtMostOnceEver

(* A poisoned set has no invocation in flight.                             *)
PoisonedIsIdle == poisoned => \A w \in Workers : pc[w] = "idle"
=============================================================================
