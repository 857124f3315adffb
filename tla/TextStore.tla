------------------------------- MODULE TextStore -------------------------------
(***************************************************************************)
(* The reference backend of the store traits (src/store.rs, the doc        *)
(* example and the CountingStore of its tests): a buffer and a committed   *)
(* log, each behind a mutex.  No body panics under a lock, so the locks    *)
(* are never poisoned; each method is one step.                            *)
(***************************************************************************)
EXTENDS Integers, Sequences

VARIABLES
    pending,    \* entries written and not committed, lost with the process
    committed   \* the durable log

storeVars == <<pending, committed>>

StoreNew == pending = << >> /\ committed = << >>

(* Everything the backend holds, oldest first.                             *)
Held == committed \o pending

(* write_text(e) = Ok(id): the position in the buffer.                     *)
write_text(e, id) ==
    /\ id = Len(pending)
    /\ pending' = Append(pending, e)
    /\ UNCHANGED committed

(* Mutants: a commit that leaves the buffer, one that drops it, one that   *)
(* replaces the log.                                                       *)
commit_keeps_pending == committed' = Held /\ UNCHANGED pending

commit_drops == pending' = << >> /\ UNCHANGED committed

commit_replaces == committed' = pending /\ pending' = << >>

(* commit() = Ok(()): what is in the buffer moves to the end of the log,   *)
(* whoever wrote it.                                                       *)
commit ==
    /\ committed' = Held
    /\ pending' = << >>

(* The process dies with the buffer.                                       *)
LosePending == pending' = << >> /\ UNCHANGED committed
=============================================================================
