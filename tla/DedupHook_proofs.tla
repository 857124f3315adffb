---------------------------- MODULE DedupHook_proofs ----------------------------
(***************************************************************************)
(* Theorems about DedupHook for any set of workers and keys, any number of *)
(* restarts and any set of faults.                                         *)
(***************************************************************************)
EXTENDS DedupHook, TLAPS



-----------------------------------------------------------------------------
(* A snapshot is a list of well-formed lines (src/dedup.rs:95-100).        *)
LEMMA SnapshotType ==
    ASSUME seen \in SUBSET Keys
    PROVE  Snapshot \in SUBSET HexStrings
<1>1. \A k \in Keys : hex_encode(k) \in HexStrings
  BY DEF hex_encode, HexStrings
<1> QED
  BY <1>1 DEF Snapshot

(* What a new process starts from has the right type.                      *)
LEMMA RestartType ==
    ASSUME TypeOK, Restart
    PROVE  /\ phase' \in {"starting", "running"}
           /\ pc' \in [Workers -> {"idle", "checked", "recorded"}]
           /\ job' \in [Workers -> Keys \cup {NoKey}]
           /\ \A w \in Workers : pc'[w] = "idle" <=> job'[w] = NoKey
           /\ life' \in 1..MaxLife
           /\ DedupTypeOK'
<1>1. life' \in 1..MaxLife
  BY MaxLifeAssumption DEF TypeOK, Restart
<1>2. pc' \in [Workers -> {"idle", "checked", "recorded"}]
  BY DEF Restart
<1>3. job' \in [Workers -> Keys \cup {NoKey}]
  BY DEF Restart
<1>4. \A w \in Workers : pc'[w] = "idle" <=> job'[w] = NoKey
  BY DEF Restart
<1>5. DedupTypeOK'
  BY DEF Restart, DedupTypeOK
<1> QED
  BY <1>1, <1>2, <1>3, <1>4, <1>5 DEF Restart

(* Every variable keeps its type (src/dedup.rs:65-121 and its callers).    *)
THEOREM TypeCorrect == Spec => []TypeOK
<1>1. Init => TypeOK
  <2> SUFFICES ASSUME Init
               PROVE  TypeOK
    OBVIOUS
  <2>1. pc \in [Workers -> {"idle", "checked", "recorded"}]
    BY DEF Init
  <2>2. job \in [Workers -> Keys \cup {NoKey}]
    BY DEF Init
  <2>3. archive \in Seq(Entries)
    BY DEF Init
  <2>4. life \in 1..MaxLife
    BY MaxLifeAssumption DEF Init
  <2>5. DedupTypeOK
    BY DEF Init, DedupNew, DedupTypeOK
  <2>6. \A w \in Workers : pc[w] = "idle" <=> job[w] = NoKey
    BY DEF Init
  <2> QED
    BY <2>1, <2>2, <2>3, <2>4, <2>5, <2>6 DEF Init, TypeOK
<1>2. TypeOK /\ [Next]_vars => TypeOK'
  <2> SUFFICES ASSUME TypeOK, [Next]_vars
               PROVE  TypeOK'
    OBVIOUS
  <2> USE DEF TypeOK, DedupTypeOK
  <2>1. CASE StartEmpty
    BY <2>1 DEF StartEmpty, dedupVars
  <2>2. CASE Replay
    BY <2>2 DEF Replay, ExtendFromSnapshot, Decoded, HexStrings
  <2>3. CASE ReplayPanics
    BY <2>3 DEF ReplayPanics, ExtendPanics, Decoded, HexStrings
  <2>4. ASSUME NEW w \in Workers, NEW k \in Keys, CheckDuplicate(w, k)
        PROVE  TypeOK'
    BY <2>4 DEF CheckDuplicate, Contains, dedupVars
  <2>5. ASSUME NEW w \in Workers, NEW k \in Keys, CheckNovel(w, k)
        PROVE  TypeOK'
    <3>1. pc' \in [Workers -> {"idle", "checked", "recorded"}]
      BY <2>5 DEF CheckNovel
    <3>2. job' \in [Workers -> Keys \cup {NoKey}]
      BY <2>5 DEF CheckNovel
    <3>3. \A v \in Workers : pc'[v] = "idle" <=> job'[v] = NoKey
      BY <2>5, NoKeyAssumption DEF CheckNovel
    <3> QED
      BY <3>1, <3>2, <3>3, <2>5 DEF CheckNovel, Contains, dedupVars
  <2>6. ASSUME NEW w \in Workers, Record(w)
        PROVE  TypeOK'
    BY <2>6 DEF Record, Insert
  <2>7. ASSUME NEW w \in Workers, Write(w)
        PROVE  TypeOK'
    <3>1. [key |-> job[w], worker |-> w, life |-> life] \in Entries
      BY <2>7 DEF Write, Entries
    <3>2. archive' \in Seq(Entries)
      BY <3>1, <2>7 DEF Write
    <3> QED
      BY <3>2, <2>7 DEF Write, Finish, dedupVars
  <2>8. ASSUME NEW w \in Workers, WriteFails(w)
        PROVE  TypeOK'
    BY <2>8 DEF WriteFails, Finish, dedupVars
  <2>9. CASE TakeSnapshot
    BY <2>9, SnapshotType DEF TakeSnapshot, dedupVars
  <2>10. CASE DamageSidecar
    BY <2>10 DEF DamageSidecar, HexStrings, dedupVars
  <2>11. CASE Shutdown
    BY <2>11, RestartType, SnapshotType DEF Shutdown, Restart
  <2>12. CASE Crash
    <3>1. InFlight \subseteq Keys
      BY NoKeyAssumption DEF InFlight
    <3> QED
      BY <2>12, <3>1, RestartType DEF Crash, Restart
  <2>13. CASE UNCHANGED vars
    BY <2>13 DEF vars, dedupVars, hookVars
  <2> QED
    BY <2>1, <2>2, <2>3, <2>4, <2>5, <2>6, <2>7, <2>8, <2>9, <2>10, <2>11,
       <2>12, <2>13 DEF Next, WorkerStep
<1> QED
  BY <1>1, <1>2, PTL DEF Spec

-----------------------------------------------------------------------------
(* The initial state satisfies the strengthening.                          *)
LEMMA InitSafety == Init => SafetyInv
  BY DEF Init, DedupNew, SafetyInv, LivesAreOrdered, EntriesAreRecorded,
         RecordedIsSeen, PendingIsUnwritten, StartingIsClean, EntriesNow,
         InFlight, CopiesByDistinctWorkers, RestoredNotRewritten

(* The state a new process starts from: no entry carries its life yet.     *)
LEMMA RestartSafety ==
    ASSUME TypeOK, SafetyInv, Restart
    PROVE  SafetyInv'
<1> USE DEF TypeOK, SafetyInv
<1>1. \A i \in DOMAIN archive : archive[i].life < life + 1
  <2>1. \A i \in DOMAIN archive : archive[i] \in Entries
    OBVIOUS
  <2> QED
    BY <2>1 DEF LivesAreOrdered, Entries
<1>2. EntriesNow' = {}
  <2>1. \A i \in DOMAIN archive : archive[i].life # life + 1
    BY <1>1 DEF Entries
  <2> QED
    BY <2>1 DEF EntriesNow, Restart
<1>3. InFlight' = {}
  BY DEF InFlight, Restart
<1>4. LivesAreOrdered'
  <2>1. \A i \in DOMAIN archive : archive[i] \in Entries
    OBVIOUS
  <2> QED
    BY <1>1, <2>1 DEF LivesAreOrdered, Restart, Entries
<1>5. PendingIsUnwritten'
  BY DEF PendingIsUnwritten, Restart
<1>6. StartingIsClean'
  BY <1>2 DEF StartingIsClean, Restart
<1> QED
  BY <1>2, <1>3, <1>4, <1>5, <1>6
     DEF EntriesAreRecorded, RecordedIsSeen, CopiesByDistinctWorkers,
         RestoredNotRewritten, Restart

(* A step that leaves the archive, the workers and the process alone, and  *)
(* at most adds keys to seen, of which restored may get some while no hook *)
(* has started.                                                            *)
LEMMA StartSafety ==
    ASSUME TypeOK, SafetyInv,
           phase = "starting",
           UNCHANGED <<pc, job, archive, life>>,
           restored' \subseteq seen',
           phase' = "running"
    PROVE  SafetyInv'
<1>1. EntriesNow' = {} /\ \A w \in Workers : pc'[w] = "idle"
  BY DEF SafetyInv, StartingIsClean, EntriesNow
<1>2. InFlight' = {}
  BY <1>1 DEF InFlight
<1> QED
  BY <1>1, <1>2
     DEF SafetyInv, LivesAreOrdered, EntriesAreRecorded, RecordedIsSeen,
         PendingIsUnwritten, StartingIsClean, CopiesByDistinctWorkers,
         RestoredNotRewritten

(* A step that touches none of what the strengthening speaks of.           *)
LEMMA IdleSafety ==
    ASSUME SafetyInv,
           UNCHANGED <<seen, phase, pc, job, archive, life, restored>>
    PROVE  SafetyInv'
  BY DEF SafetyInv, LivesAreOrdered, EntriesAreRecorded, RecordedIsSeen,
         PendingIsUnwritten, StartingIsClean, EntriesNow, InFlight,
         CopiesByDistinctWorkers, RestoredNotRewritten

(* The worker that found its key missing: nothing of this life has it.     *)
LEMMA CheckNovelSafety ==
    ASSUME TypeOK, SafetyInv, NEW w \in Workers, NEW k \in Keys,
           CheckNovel(w, k)
    PROVE  SafetyInv'
<1> USE DEF TypeOK, SafetyInv, CheckNovel, Contains, dedupVars
<1>1. EntriesNow' = EntriesNow
  BY DEF EntriesNow
<1>2. InFlight' = InFlight
  BY DEF InFlight
<1>3. k \notin seen /\ k \notin restored
  OBVIOUS
<1>4. PendingIsUnwritten'
  <2> SUFFICES ASSUME NEW v \in Workers, pc'[v] # "idle"
               PROVE  /\ job'[v] \notin restored'
                      /\ \A i \in EntriesNow' :
                            archive'[i].worker = v => archive'[i].key # job'[v]
    BY DEF PendingIsUnwritten
  <2>1. CASE v = w
    BY <2>1, <1>1, <1>3 DEF EntriesAreRecorded
  <2>2. CASE v # w
    BY <2>2, <1>1 DEF PendingIsUnwritten
  <2> QED
    BY <2>1, <2>2
<1> QED
  BY <1>1, <1>2, <1>4
     DEF LivesAreOrdered, EntriesAreRecorded, RecordedIsSeen, StartingIsClean,
         CopiesByDistinctWorkers, RestoredNotRewritten

(* The worker records its key: seen only grows.                            *)
LEMMA RecordSafety ==
    ASSUME TypeOK, SafetyInv, NEW w \in Workers, Record(w)
    PROVE  SafetyInv'
<1> USE DEF TypeOK, SafetyInv, Record, Insert
<1>1. EntriesNow' = EntriesNow
  BY DEF EntriesNow
<1>2. InFlight' \subseteq InFlight \cup {job[w]}
  BY DEF InFlight
<1>3. seen \subseteq seen' /\ job[w] \in seen'
  OBVIOUS
<1>4. PendingIsUnwritten'
  BY <1>1 DEF PendingIsUnwritten
<1>5. StartingIsClean'
  BY DEF StartingIsClean
<1>6. RecordedIsSeen'
  BY <1>2, <1>3 DEF RecordedIsSeen
<1>7. EntriesAreRecorded'
  BY <1>1, <1>3 DEF EntriesAreRecorded
<1> QED
  BY <1>1, <1>3, <1>4, <1>5, <1>6, <1>7
     DEF LivesAreOrdered, CopiesByDistinctWorkers, RestoredNotRewritten

(* The worker gives up or is done, and the archive is as it was.           *)
LEMMA FinishSafety ==
    ASSUME TypeOK, SafetyInv, NEW w \in Workers, Finish(w),
           UNCHANGED <<seen, phase, archive, life, restored>>
    PROVE  SafetyInv'
<1> USE DEF TypeOK, SafetyInv, Finish
<1>1. EntriesNow' = EntriesNow
  BY DEF EntriesNow
<1>2. InFlight' \subseteq InFlight
  BY DEF InFlight
<1>3. PendingIsUnwritten'
  BY <1>1 DEF PendingIsUnwritten
<1> QED
  BY <1>1, <1>2, <1>3
     DEF LivesAreOrdered, EntriesAreRecorded, RecordedIsSeen, StartingIsClean,
         CopiesByDistinctWorkers, RestoredNotRewritten

(* The append: the new entry has a recorded key, it is the first of this   *)
(* worker for that key, and the worker has nothing pending afterwards.     *)
LEMMA WriteSafety ==
    ASSUME TypeOK, SafetyInv, NEW w \in Workers, Write(w)
    PROVE  SafetyInv'
<1> USE DEF TypeOK, SafetyInv, Write, Finish, dedupVars
<1> DEFINE n == Len(archive) + 1
           e == [key |-> job[w], worker |-> w, life |-> life]
<1>1. /\ n \in Nat
      /\ DOMAIN archive' = DOMAIN archive \cup {n}
      /\ n \notin DOMAIN archive
      /\ archive'[n] = e
      /\ \A i \in DOMAIN archive : archive'[i] = archive[i]
  OBVIOUS
<1>2. EntriesNow' = EntriesNow \cup {n}
  BY <1>1 DEF EntriesNow
<1>3. /\ archive'[n].key = job[w]
      /\ archive'[n].worker = w
      /\ archive'[n].life = life
  BY <1>1
<1>4. \A i \in EntriesNow : archive'[i] = archive[i]
  BY <1>1 DEF EntriesNow
<1>5. /\ job[w] \in seen
      /\ job[w] \notin restored
      /\ \A i \in EntriesNow : archive[i].worker = w => archive[i].key # job[w]
  BY DEF RecordedIsSeen, InFlight, PendingIsUnwritten
<1>13. /\ UNCHANGED <<seen, life, restored>>
       /\ pc'[w] = "idle"
       /\ \A v \in Workers : v # w => pc'[v] = pc[v] /\ job'[v] = job[v]
  OBVIOUS
<1> HIDE DEF n, e
<1>6. LivesAreOrdered'
  BY <1>1, <1>3 DEF LivesAreOrdered
<1>7. EntriesAreRecorded'
  BY <1>2, <1>3, <1>4, <1>5 DEF EntriesAreRecorded
<1>8. RecordedIsSeen'
  BY DEF RecordedIsSeen, InFlight
<1>9. PendingIsUnwritten'
  <2> SUFFICES ASSUME NEW v \in Workers, pc'[v] # "idle"
               PROVE  /\ job'[v] \notin restored'
                      /\ \A i \in EntriesNow' :
                            archive'[i].worker = v => archive'[i].key # job'[v]
    BY DEF PendingIsUnwritten
  <2> HIDE DEF TypeOK, SafetyInv, Write, Finish, dedupVars
  <2>1. v # w /\ pc[v] # "idle" /\ job'[v] = job[v]
    BY <1>13
  <2>2. PendingIsUnwritten
    BY DEF SafetyInv
  <2> QED
    BY <2>1, <2>2, <1>2, <1>3, <1>4, <1>13 DEF PendingIsUnwritten
<1>10. StartingIsClean'
  BY DEF StartingIsClean
<1>11. CopiesByDistinctWorkers'
  <2> SUFFICES ASSUME NEW i \in EntriesNow', NEW j \in EntriesNow',
                      archive'[i].key = archive'[j].key,
                      archive'[i].worker = archive'[j].worker
               PROVE  i = j
    BY DEF CopiesByDistinctWorkers
  <2> HIDE DEF TypeOK, SafetyInv, Write, Finish, dedupVars
  <2>1. CASE i = n \/ j = n
    BY <2>1, <1>2, <1>3, <1>4, <1>5
  <2>2. CASE i # n /\ j # n
    BY <2>2, <1>2, <1>4 DEF CopiesByDistinctWorkers, SafetyInv
  <2> QED
    BY <2>1, <2>2
<1>12. RestoredNotRewritten'
  BY <1>2, <1>3, <1>4, <1>5 DEF RestoredNotRewritten
<1> QED
  BY <1>6, <1>7, <1>8, <1>9, <1>10, <1>11, <1>12

(* The strengthening is kept by every step of every worker, by snapshots,  *)
(* damage, shutdowns and crashes.                                          *)
THEOREM SafetyCorrect == Spec => []SafetyInv
<1>1. Init => SafetyInv
  BY InitSafety
<1>2. TypeOK /\ SafetyInv /\ [Next]_vars => SafetyInv'
  <2> SUFFICES ASSUME TypeOK, SafetyInv, [Next]_vars
               PROVE  SafetyInv'
    OBVIOUS
  <2>1. CASE StartEmpty
    <3>1. restored' \subseteq seen'
      BY <2>1 DEF StartEmpty, dedupVars, SafetyInv
    <3> QED
      BY <2>1, <3>1, StartSafety DEF StartEmpty
  <2>2. CASE Replay
    BY <2>2, StartSafety DEF Replay
  <2>3. CASE ReplayPanics
    BY <2>3, StartSafety DEF ReplayPanics
  <2>4. ASSUME NEW w \in Workers, NEW k \in Keys, CheckDuplicate(w, k)
        PROVE  SafetyInv'
    BY <2>4, IdleSafety DEF CheckDuplicate, Contains, dedupVars
  <2>5. ASSUME NEW w \in Workers, NEW k \in Keys, CheckNovel(w, k)
        PROVE  SafetyInv'
    BY <2>5, CheckNovelSafety
  <2>6. ASSUME NEW w \in Workers, Record(w)
        PROVE  SafetyInv'
    BY <2>6, RecordSafety
  <2>7. ASSUME NEW w \in Workers, Write(w)
        PROVE  SafetyInv'
    BY <2>7, WriteSafety
  <2>8. ASSUME NEW w \in Workers, WriteFails(w)
        PROVE  SafetyInv'
    BY <2>8, FinishSafety DEF WriteFails, dedupVars
  <2>9. CASE TakeSnapshot
    BY <2>9, IdleSafety DEF TakeSnapshot, dedupVars
  <2>10. CASE DamageSidecar
    BY <2>10, IdleSafety DEF DamageSidecar, dedupVars
  <2>11. CASE Shutdown
    BY <2>11, RestartSafety DEF Shutdown
  <2>12. CASE Crash
    BY <2>12, RestartSafety DEF Crash
  <2>13. CASE UNCHANGED vars
    BY <2>13, IdleSafety DEF vars, dedupVars, hookVars
  <2> QED
    BY <2>1, <2>2, <2>3, <2>4, <2>5, <2>6, <2>7, <2>8, <2>9, <2>10, <2>11,
       <2>12, <2>13 DEF Next, WorkerStep
<1> QED
  BY <1>1, <1>2, TypeCorrect, PTL DEF Spec

(* However many invocations overlap, two entries of one key and one life   *)
(* come from two different workers.                                        *)
THEOREM CopiesAreByDistinctWorkers == Spec => []CopiesByDistinctWorkers
<1>1. SafetyInv => CopiesByDistinctWorkers
  BY DEF SafetyInv
<1> QED
  BY <1>1, SafetyCorrect, PTL

(* What a replay brought back is not written again (src/dedup.rs:15-18).   *)
THEOREM RestoredIsNotRewritten == Spec => []RestoredNotRewritten
<1>1. SafetyInv => RestoredNotRewritten
  BY DEF SafetyInv
<1> QED
  BY <1>1, SafetyCorrect, PTL

(* Where invocations never overlap, the guarantee of src/dedup.rs:12-14    *)
(* holds in its "at most one" half, with any faults.                       *)
THEOREM SerialAtMostOnce ==
    ASSUME \A v, w \in Workers : v = w
    PROVE  Spec => []AtMostOncePerLife
<1>1. TypeOK /\ SafetyInv => AtMostOncePerLife
  <2> SUFFICES ASSUME TypeOK, CopiesByDistinctWorkers,
                      NEW i \in EntriesNow, NEW j \in EntriesNow,
                      archive[i].key = archive[j].key
               PROVE  i = j
    BY DEF SafetyInv, AtMostOncePerLife
  <2>1. archive[i] \in Entries /\ archive[j] \in Entries
    BY DEF TypeOK, EntriesNow
  <2>2. archive[i].worker = archive[j].worker
    BY <2>1 DEF Entries
  <2> QED
    BY <2>2 DEF CopiesByDistinctWorkers
<1> QED
  BY <1>1, TypeCorrect, SafetyCorrect, PTL

-----------------------------------------------------------------------------
(* What a host finds in the sidecar is what snapshot() saw.                *)
LEMMA DecodedSnapshot == Decoded(Snapshot) = seen
<1>1. \A k : hex_encode(k).intact /\ hex_encode(k).key = k
  BY DEF hex_encode
<1>2. ASSUME NEW k \in Decoded(Snapshot)
      PROVE  k \in seen
  BY <1>1 DEF Decoded, Snapshot
<1>3. ASSUME NEW k \in seen
      PROVE  k \in Decoded(Snapshot)
  <2>1. hex_encode(k) \in { x \in Snapshot : x.intact }
    BY <1>1 DEF Snapshot
  <2> QED
    BY <1>1, <2>1 DEF Decoded
<1> QED
  BY <1>2, <1>3

(* Every key a DedupSet or its sidecar suppresses is archived, about to be *)
(* archived, or was lost by a failed append or a crash.                    *)
THEOREM SuppressionIsExplained == Spec => []NoUnexplainedSuppression
<1>1. Init => NoUnexplainedSuppression
  BY DEF Init, DedupNew, NoUnexplainedSuppression, Decoded
<1>2. TypeOK /\ NoUnexplainedSuppression /\ [Next]_vars
        => NoUnexplainedSuppression'
  <2> SUFFICES ASSUME TypeOK, NoUnexplainedSuppression, [Next]_vars
               PROVE  NoUnexplainedSuppression'
    OBVIOUS
  <2> USE DEF NoUnexplainedSuppression
  <2>1. CASE StartEmpty
    BY <2>1 DEF StartEmpty, dedupVars, InFlight, ArchivedKeys, Decoded
  <2>2. CASE Replay
    BY <2>2 DEF Replay, ExtendFromSnapshot, InFlight, ArchivedKeys, Decoded
  <2>3. CASE ReplayPanics
    BY <2>3 DEF ReplayPanics, ExtendPanics, InFlight, ArchivedKeys, Decoded
  <2>4. ASSUME NEW w \in Workers, NEW k \in Keys, CheckDuplicate(w, k)
        PROVE  NoUnexplainedSuppression'
    BY <2>4
       DEF CheckDuplicate, Contains, dedupVars, InFlight, ArchivedKeys, Decoded
  <2>5. ASSUME NEW w \in Workers, NEW k \in Keys, CheckNovel(w, k)
        PROVE  NoUnexplainedSuppression'
    <3>1. InFlight \subseteq InFlight'
      BY <2>5 DEF CheckNovel, InFlight, TypeOK
    <3> QED
      BY <2>5, <3>1 DEF CheckNovel, Contains, dedupVars, ArchivedKeys, Decoded
  <2>6. ASSUME NEW w \in Workers, Record(w)
        PROVE  NoUnexplainedSuppression'
    <3>1. InFlight \cup {job[w]} \subseteq InFlight'
      BY <2>6 DEF Record, InFlight, TypeOK
    <3> QED
      BY <2>6, <3>1 DEF Record, Insert, ArchivedKeys, Decoded
  <2>7. ASSUME NEW w \in Workers, Write(w)
        PROVE  NoUnexplainedSuppression'
    <3>1. InFlight \subseteq InFlight' \cup {job[w]}
      BY <2>7 DEF Write, Finish, InFlight, TypeOK
    <3>2. ArchivedKeys \cup {job[w]} \subseteq ArchivedKeys'
      <4>1. /\ DOMAIN archive' = DOMAIN archive \cup {Len(archive) + 1}
            /\ \A i \in DOMAIN archive : archive'[i] = archive[i]
            /\ archive'[Len(archive) + 1].key = job[w]
        BY <2>7 DEF Write, TypeOK
      <4> QED
        BY <4>1 DEF ArchivedKeys
    <3> QED
      BY <2>7, <3>1, <3>2 DEF Write, dedupVars, Decoded
  <2>8. ASSUME NEW w \in Workers, WriteFails(w)
        PROVE  NoUnexplainedSuppression'
    <3>1. InFlight \subseteq InFlight' \cup {job[w]}
      BY <2>8 DEF WriteFails, Finish, InFlight, TypeOK
    <3> QED
      BY <2>8, <3>1 DEF WriteFails, dedupVars, ArchivedKeys, Decoded
  <2>9. CASE TakeSnapshot
    <3>1. Decoded(sidecar') = seen
      BY <2>9, DecodedSnapshot DEF TakeSnapshot
    <3> QED
      BY <2>9, <3>1 DEF TakeSnapshot, dedupVars, InFlight, ArchivedKeys
  <2>10. CASE DamageSidecar
    <3>1. Decoded(sidecar') \subseteq Decoded(sidecar)
      BY <2>10 DEF DamageSidecar, Decoded, TypeOK, HexStrings
    <3> QED
      BY <2>10, <3>1 DEF DamageSidecar, dedupVars, InFlight, ArchivedKeys
  <2>11. CASE Shutdown
    <3>1. Decoded(sidecar') = seen
      BY <2>11, DecodedSnapshot DEF Shutdown
    <3>2. InFlight = {}
      BY <2>11 DEF Shutdown, InFlight
    <3> QED
      BY <2>11, <3>1, <3>2 DEF Shutdown, Restart, ArchivedKeys
  <2>12. CASE Crash
    BY <2>12 DEF Crash, Restart, ArchivedKeys, Decoded
  <2>13. CASE UNCHANGED vars
    BY <2>13 DEF vars, dedupVars, hookVars, InFlight, ArchivedKeys, Decoded
  <2> QED
    BY <2>1, <2>2, <2>3, <2>4, <2>5, <2>6, <2>7, <2>8, <2>9, <2>10, <2>11,
       <2>12, <2>13 DEF Next, WorkerStep
<1> QED
  BY <1>1, <1>2, TypeCorrect, PTL DEF Spec

(* A panic under the write guard can only happen before the hooks run, so  *)
(* a poisoned gate has no append on its way and lets none begin.           *)
THEOREM PoisonFailsClosed == Spec => PoisonedFailsClosed
<1>1. Init => PoisonedIsIdle
  BY DEF Init, DedupNew, PoisonedIsIdle
<1>2. TypeOK /\ SafetyInv /\ PoisonedIsIdle /\ [Next]_vars => PoisonedIsIdle'
  <2> SUFFICES ASSUME TypeOK, SafetyInv, PoisonedIsIdle, [Next]_vars
               PROVE  PoisonedIsIdle'
    OBVIOUS
  <2>1. CASE StartEmpty \/ Replay \/ ReplayPanics
    BY <2>1 DEF StartEmpty, Replay, ReplayPanics, SafetyInv, StartingIsClean,
                PoisonedIsIdle
  <2>2. ASSUME NEW w \in Workers, WorkerStep(w)
        PROVE  PoisonedIsIdle'
    <3>1. poisoned' = poisoned
      BY <2>2 DEF WorkerStep, CheckDuplicate, CheckNovel, Contains, Record,
                  Insert, Write, WriteFails, dedupVars
    <3>2. CASE \E k \in Keys : CheckDuplicate(w, k) \/ CheckNovel(w, k)
      BY <3>1, <3>2 DEF CheckDuplicate, CheckNovel, Contains, PoisonedIsIdle
    <3>3. CASE Record(w) \/ Write(w) \/ WriteFails(w)
      BY <3>1, <3>3 DEF Record, Write, WriteFails, PoisonedIsIdle
    <3> QED
      BY <2>2, <3>2, <3>3 DEF WorkerStep
  <2>3. CASE TakeSnapshot \/ DamageSidecar
    BY <2>3 DEF TakeSnapshot, DamageSidecar, dedupVars, PoisonedIsIdle
  <2>4. CASE Shutdown \/ Crash
    BY <2>4 DEF Shutdown, Crash, Restart, PoisonedIsIdle
  <2>5. CASE UNCHANGED vars
    BY <2>5 DEF vars, dedupVars, hookVars, PoisonedIsIdle
  <2> QED
    BY <2>1, <2>2, <2>3, <2>4, <2>5 DEF Next
<1>3. PoisonedIsIdle /\ [Next]_vars
        => [poisoned => archive' = archive /\ answered' \subseteq answered]_vars
  <2> SUFFICES ASSUME PoisonedIsIdle, Next, poisoned
               PROVE  archive' = archive /\ answered' \subseteq answered
    OBVIOUS
  <2>1. CASE StartEmpty \/ Replay \/ ReplayPanics
    BY <2>1 DEF StartEmpty, Replay, ReplayPanics
  <2>2. CASE \E w \in Workers : WorkerStep(w)
    BY <2>2 DEF WorkerStep, CheckDuplicate, CheckNovel, Contains, Record,
                Insert, Write, WriteFails, PoisonedIsIdle
  <2>3. CASE TakeSnapshot \/ DamageSidecar \/ Shutdown \/ Crash
    BY <2>3 DEF TakeSnapshot, DamageSidecar, Shutdown, Crash, Restart
  <2> QED
    BY <2>1, <2>2, <2>3 DEF Next
<1> QED
  BY <1>1, <1>2, <1>3, TypeCorrect, SafetyCorrect, PTL
     DEF Spec, PoisonedFailsClosed

-----------------------------------------------------------------------------
(* One entry per key for ever, and the refinement, where invocations do    *)
(* not overlap and every restart is orderly; appends may fail.             *)

(* The keys of a list of entries are a list of the same length.            *)
LEMMA KeysOfEntries ==
    ASSUME NEW a \in Seq(Entries)
    PROVE  LET keys == [i \in DOMAIN a |-> a[i].key]
           IN  keys \in Seq(Keys) /\ Len(keys) = Len(a)
<1> DEFINE keys == [i \in 1..Len(a) |-> a[i].key]
<1>1. DOMAIN a = 1..Len(a) /\ Len(a) \in Nat
  OBVIOUS
<1>2. keys \in [1..Len(a) -> Keys]
  <2>1. \A i \in 1..Len(a) : a[i] \in Entries
    OBVIOUS
  <2> QED
    BY <2>1 DEF Entries
<1>3. keys \in Seq(Keys)
  BY <1>1, <1>2
<1>4. Len(keys) = Len(a)
  BY <1>1, <1>2, <1>3
<1> QED
  BY <1>1, <1>3, <1>4

(* The append is a step of the at-most-once log.                           *)
LEMMA OrderlyWrite ==
    ASSUME TypeOK, SafetyInv, OrderlyInv, NEW w \in Workers, Write(w),
           \A v \in Workers : v = w
    PROVE  OrderlyInv' /\ OnceLog!AppendNew(job[w])
<1> DEFINE n == Len(archive) + 1
<1>1. /\ n \in Nat
      /\ DOMAIN archive = 1..Len(archive)
      /\ DOMAIN archive' = DOMAIN archive \cup {n}
      /\ n \notin DOMAIN archive
      /\ archive'[n].key = job[w]
      /\ \A i \in DOMAIN archive : archive'[i] = archive[i]
  BY DEF Write, TypeOK
<1>2. ArchivedKeys' = ArchivedKeys \cup {job[w]}
  BY <1>1 DEF ArchivedKeys
<1>3. job[w] \notin ArchivedKeys
  BY DEF OrderlyInv, Write
<1>4. job[w] \in seen /\ phase = "running"
  BY DEF SafetyInv, RecordedIsSeen, InFlight, StartingIsClean, Write, TypeOK
<1>5. AtMostOnceEver'
  BY <1>1, <1>3 DEF OrderlyInv, AtMostOnceEver, ArchivedKeys
<1>6. \A v \in Workers : pc'[v] = "idle"
  BY DEF Write, Finish, TypeOK
<1>7. OrderlyInv'
  BY <1>2, <1>4, <1>5, <1>6 DEF OrderlyInv, Write, dedupVars
<1>8. OnceLog!Logged = ArchivedKeys
  BY DEF OnceLog!Logged, ArchiveLog, ArchivedKeys
<1>9. ArchiveLog' = Append(ArchiveLog, job[w])
  <2>1. ArchiveLog \in Seq(Keys) /\ Len(ArchiveLog) = Len(archive)
    BY KeysOfEntries DEF ArchiveLog, TypeOK
  <2>2. DOMAIN ArchiveLog = DOMAIN archive /\ DOMAIN ArchiveLog' = DOMAIN archive'
    BY DEF ArchiveLog
  <2>3. \A i \in DOMAIN archive' : ArchiveLog'[i] = archive'[i].key
    BY DEF ArchiveLog
  <2>4. \A i \in DOMAIN archive : ArchiveLog[i] = archive[i].key
    BY DEF ArchiveLog
  <2>5. ArchiveLog' \in Seq(Keys) /\ Len(ArchiveLog') = n
    <3>1. archive' \in Seq(Entries) /\ Len(archive') = n
      BY DEF Write, TypeOK, Entries
    <3> QED
      BY <3>1, KeysOfEntries DEF ArchiveLog
  <2>6. job[w] \in Keys
    BY DEF TypeOK, Write
  <2> QED
    BY <1>1, <2>1, <2>2, <2>3, <2>4, <2>5, <2>6
<1> QED
  BY <1>3, <1>7, <1>8, <1>9 DEF OnceLog!AppendNew

(* The only steps that append are those of the one worker; replay brings   *)
(* back every archived key, since the sidecar was written with no append   *)
(* on its way.                                                             *)
LEMMA OrderlyStep ==
    ASSUME TypeOK, SafetyInv, OrderlyInv, [Next]_vars,
           \A v, w \in Workers : v = w,
           Faults \subseteq {"write"}
    PROVE  OrderlyInv' /\ [OnceLog!Next]_ArchiveLog
<1> USE DEF OrderlyInv
<1>1. CASE StartEmpty
  BY <1>1 DEF StartEmpty, dedupVars, ArchivedKeys, AtMostOnceEver, ArchiveLog
<1>2. CASE Replay
  BY <1>2 DEF Replay, ExtendFromSnapshot, ArchivedKeys, AtMostOnceEver, ArchiveLog
<1>3. CASE ReplayPanics \/ DamageSidecar \/ Crash
  BY <1>3 DEF ReplayPanics, DamageSidecar, Crash
<1>4. ASSUME NEW w \in Workers, NEW k \in Keys,
             CheckDuplicate(w, k) \/ CheckNovel(w, k)
      PROVE  OrderlyInv' /\ [OnceLog!Next]_ArchiveLog
  <2>1. UNCHANGED <<archive, seen, sidecar, life, phase>>
    BY <1>4 DEF CheckDuplicate, CheckNovel, Contains, dedupVars
  <2>2. ArchivedKeys' = ArchivedKeys /\ UNCHANGED ArchiveLog
    BY <2>1 DEF ArchivedKeys, ArchiveLog
  <2>3. CASE CheckDuplicate(w, k)
    BY <2>1, <2>2, <2>3 DEF CheckDuplicate, AtMostOnceEver, Decoded
  <2>4. CASE CheckNovel(w, k)
    <3>1. k \notin ArchivedKeys
      BY <2>4 DEF CheckNovel, Contains
    <3>2. \A v \in Workers : v = w
      OBVIOUS
    <3>3. job'[w] = k
      BY <2>4 DEF CheckNovel, TypeOK
    <3> QED
      BY <2>1, <2>2, <3>1, <3>2, <3>3 DEF AtMostOnceEver, Decoded
  <2> QED
    BY <1>4, <2>3, <2>4
<1>5. ASSUME NEW w \in Workers, Record(w)
      PROVE  OrderlyInv' /\ [OnceLog!Next]_ArchiveLog
  <2>1. /\ UNCHANGED <<job, archive, sidecar, life, phase>>
        /\ seen \subseteq seen'
        /\ \A v \in Workers : pc'[v] # "idle" => pc[v] # "idle"
    BY <1>5 DEF Record, Insert, TypeOK
  <2>2. ArchivedKeys' = ArchivedKeys /\ UNCHANGED ArchiveLog
    BY <2>1 DEF ArchivedKeys, ArchiveLog
  <2> QED
    BY <2>1, <2>2 DEF AtMostOnceEver, Decoded
<1>6. ASSUME NEW w \in Workers, Write(w)
      PROVE  OrderlyInv' /\ [OnceLog!Next]_ArchiveLog
  <2>1. job[w] \in Keys
    BY <1>6 DEF Write, TypeOK
  <2> QED
    BY <1>6, <2>1, OrderlyWrite DEF OnceLog!Next
<1>7. ASSUME NEW w \in Workers, WriteFails(w)
      PROVE  OrderlyInv' /\ [OnceLog!Next]_ArchiveLog
  <2>1. /\ UNCHANGED <<seen, archive, sidecar, life, phase>>
        /\ \A v \in Workers :
              pc'[v] # "idle" => pc[v] # "idle" /\ job'[v] = job[v]
    BY <1>7 DEF WriteFails, Finish, dedupVars, TypeOK
  <2>2. ArchivedKeys' = ArchivedKeys /\ UNCHANGED ArchiveLog
    BY <2>1 DEF ArchivedKeys, ArchiveLog
  <2> QED
    BY <2>1, <2>2 DEF AtMostOnceEver, Decoded
<1>8. CASE TakeSnapshot
  BY <1>8 DEF TakeSnapshot, dedupVars, ArchivedKeys, AtMostOnceEver, ArchiveLog
<1>9. CASE Shutdown
  <2>1. Decoded(sidecar') = seen
    BY <1>9, DecodedSnapshot DEF Shutdown
  <2>2. life' # 1
    BY <1>9 DEF Shutdown, Restart, TypeOK
  <2>3. ArchivedKeys' = ArchivedKeys /\ UNCHANGED ArchiveLog
    BY <1>9 DEF Shutdown, Restart, ArchivedKeys, ArchiveLog
  <2>4. Decoded(sidecar)' = seen
    BY <2>1 DEF Decoded
  <2> QED
    BY <1>9, <2>2, <2>3, <2>4 DEF Shutdown, Restart, AtMostOnceEver
<1>10. CASE UNCHANGED vars
  BY <1>10 DEF vars, dedupVars, hookVars, ArchivedKeys, AtMostOnceEver,
               ArchiveLog, Decoded
<1> QED
  BY <1>1, <1>2, <1>3, <1>4, <1>5, <1>6, <1>7, <1>8, <1>9, <1>10
     DEF Next, WorkerStep

(* Both halves of the next two theorems, from one invariant.               *)
LEMMA OrderlyArchive ==
    ASSUME \A v, w \in Workers : v = w,
           Faults \subseteq {"write"}
    PROVE  Spec => []AtMostOnceEver /\ ImplementsOnceLog
<1>1. Init => OrderlyInv /\ OnceLog!Init
  <2>1. Init => OrderlyInv
    BY DEF Init, OrderlyInv, ArchivedKeys, AtMostOnceEver
  <2>2. Init => OnceLog!Init
    BY DEF Init, OnceLog!Init, ArchiveLog
  <2> QED
    BY <2>1, <2>2
<1>2. TypeOK /\ SafetyInv /\ OrderlyInv /\ [Next]_vars
        => OrderlyInv' /\ [OnceLog!Next]_ArchiveLog
  BY OrderlyStep
<1>3. OrderlyInv => AtMostOnceEver
  BY DEF OrderlyInv
<1> QED
  BY <1>1, <1>2, <1>3, TypeCorrect, SafetyCorrect, PTL
     DEF Spec, ImplementsOnceLog, OnceLog!Spec

(* With one worker and orderly restarts the archive never holds a key      *)
(* twice, in whatever processes, whatever appends fail                     *)
(* (src/dedup.rs:12-18).                                                   *)
THEOREM OrderlyAtMostOnce ==
    ASSUME \A v, w \in Workers : v = w,
           Faults \subseteq {"write"}
    PROVE  Spec => []AtMostOnceEver
BY OrderlyArchive

(* And so it refines AtMostOnceLog, step by step.                          *)
THEOREM OrderlyImplementsOnceLog ==
    ASSUME \A v, w \in Workers : v = w,
           Faults \subseteq {"write"}
    PROVE  Spec => ImplementsOnceLog
BY OrderlyArchive
=============================================================================
