------------------------------- MODULE DedupSet -------------------------------
(***************************************************************************)
(* The in-process content-hash set of src/dedup.rs: DedupSet and the hex   *)
(* form of its snapshot.                                                   *)
(*                                                                         *)
(* Every method of DedupSet holds the RwLock for its whole body and        *)
(* returns nothing that borrows from it, so each method is one atomic      *)
(* action here.  What is NOT atomic is two calls in a row: contains        *)
(* followed by insert releases the lock in between (module DedupHook).     *)
(*                                                                         *)
(* The state is the set of recorded keys and the poison flag of the lock.  *)
(* A key is a member of Keys: compute_key is modelled in module DedupKey.  *)
(***************************************************************************)
CONSTANT Keys

VARIABLES
    seen,       \* the HashSet<DedupKey> behind the lock
    poisoned    \* has a holder of the write guard panicked?

dedupVars == <<seen, poisoned>>

-----------------------------------------------------------------------------
(***************************************************************************)
(* A line of a snapshot: the hex form of a key, either as hex_encode wrote *)
(* it or damaged on the way back (wrong length, a character that is no hex *)
(* digit), which is all hex_decode tells apart.                            *)
(***************************************************************************)
HexStrings == [key : Keys, intact : BOOLEAN]

hex_encode(k) == [key |-> k, intact |-> TRUE]

(* The keys hex_decode returns Some for; the other lines are skipped.      *)
Decoded(hexes) == { h.key : h \in { x \in hexes : x.intact } }

-----------------------------------------------------------------------------
DedupTypeOK ==
    /\ seen \in SUBSET Keys
    /\ poisoned \in BOOLEAN

DedupNew == seen = {} /\ poisoned = FALSE

(* Mutants: a contains that ignores the poison flag, one that never finds  *)
(* the key.                                                                *)
ContainsPoisoned(k, result) == result = (k \in seen) /\ UNCHANGED dedupVars

ContainsBlind(k, result) == ~poisoned /\ ~result /\ UNCHANGED dedupVars

(* contains(k) = Ok(result).  On a poisoned lock every method returns      *)
(* Err(Poisoned) and changes nothing: there is no step to take.            *)
Contains(k, result) ==
    /\ ~poisoned
    /\ result = (k \in seen)
    /\ UNCHANGED dedupVars

(* Mutant: an insert that forgets the other keys.                          *)
InsertReplaces(k) ==
    /\ ~poisoned
    /\ seen' = {k}
    /\ UNCHANGED poisoned

Insert(k) ==
    /\ ~poisoned
    /\ seen' = seen \cup {k}
    /\ UNCHANGED poisoned

(* The list snapshot() returns.  It is sorted, so it is a function of the  *)
(* set; the order is abstracted.                                           *)
Snapshot == { hex_encode(k) : k \in seen }

(* Mutant: a replay that loads nothing.                                    *)
ExtendForgets(hexes) == ~poisoned /\ UNCHANGED dedupVars

ExtendFromSnapshot(hexes) ==
    /\ ~poisoned
    /\ seen' = seen \cup Decoded(hexes)
    /\ UNCHANGED poisoned

(***************************************************************************)
(* extend_from_snapshot calls tracing::warn! for a damaged line while it   *)
(* holds the write guard, and that runs the host's subscriber.  If the     *)
(* subscriber panics the lock is poisoned with the lines read so far       *)
(* already inserted.  It is the only foreign code a write guard spans.     *)
(***************************************************************************)
ExtendPanics(hexes) ==
    /\ ~poisoned
    /\ \E h \in hexes : ~h.intact
    /\ \E done \in SUBSET Decoded(hexes) : seen' = seen \cup done
    /\ poisoned' = TRUE
=============================================================================
