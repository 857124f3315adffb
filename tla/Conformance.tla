------------------------------ MODULE Conformance ------------------------------
(***************************************************************************)
(* verify_backend of src/conformance.rs, run against backends that keep    *)
(* the traits of src/store.rs and against backends that do not.  The       *)
(* backends are not part of the crate; a record says what one does:        *)
(*                                                                         *)
(*   ids      "counter", "position" (in the buffer) or "constant"          *)
(*   commit   "flushes" or "drops" what was written                        *)
(*   delete   "removes" the entry or "ignores" the call                    *)
(*   fails    the number of the call that returns Err, 0 for none          *)
(***************************************************************************)
EXTENDS Subsequences

CONSTANT Backends

VARIABLES backend, step, ids, pending, committed, verdict

vars == <<backend, step, ids, pending, committed, verdict>>

Init ==
    /\ backend \in Backends
    /\ step = 1
    /\ ids = << >>
    /\ pending = << >>
    /\ committed = << >>
    /\ verdict = "running"

At(steps) == verdict = "running" /\ step \in steps /\ backend.fails # step

NextId ==
    CASE backend.ids = "counter"  -> Len(ids)
      [] backend.ids = "position" -> Len(pending)
      [] OTHER                    -> 0

(* Mutant: the ids are not compared.                                       *)
WriteUnchecked ==
    /\ At({1, 2})
    /\ ids' = Append(ids, NextId)
    /\ pending' = Append(pending, [id |-> NextId, record |-> step])
    /\ step' = step + 1
    /\ UNCHANGED <<backend, committed, verdict>>

(* The two writes, and the assert_ne after the second one.                 *)
Write ==
    /\ At({1, 2})
    /\ ids' = Append(ids, NextId)
    /\ pending' = Append(pending, [id |-> NextId, record |-> step])
    /\ verdict' = IF step = 2 /\ ids'[1] = ids'[2] THEN "panicked" ELSE verdict
    /\ step' = step + 1
    /\ UNCHANGED <<backend, committed>>

CommitCall ==
    /\ At({3, 5})
    /\ committed' = IF backend.commit = "flushes" THEN committed \o pending ELSE committed
    /\ pending' = << >>
    /\ verdict' = IF step = 5 THEN "ok" ELSE verdict
    /\ step' = step + 1
    /\ UNCHANGED <<backend, ids>>

DeleteCall ==
    /\ At({4})
    /\ committed' = IF backend.delete = "removes"
                    THEN ElementsAt(committed, { i \in DOMAIN committed :
                                                    committed[i].id # ids[1] })
                    ELSE committed
    /\ step' = step + 1
    /\ UNCHANGED <<backend, ids, pending, verdict>>

CallFails ==
    /\ verdict = "running"
    /\ backend.fails = step
    /\ verdict' = "err"
    /\ UNCHANGED <<backend, step, ids, pending, committed>>

Next == Write \/ CommitCall \/ DeleteCall \/ CallFails

Spec == Init /\ [][Next]_vars

-----------------------------------------------------------------------------
(* What the verdict tells: Ok that no call failed and that the ids of the  *)
(* two buffered writes differ, an abort that they do not (the assertion at *)
(* src/conformance.rs:32), Err that a call failed.  An accepted backend    *)
(* that honours commit and delete is left with the second record and       *)
(* nothing else, durably.  Whether it honours them the verdict does not    *)
(* tell: nothing is read back.                                             *)
VerdictIsSound ==
    /\ verdict = "ok" => backend.fails = 0 /\ backend.ids # "constant"
    /\ verdict = "panicked" => backend.ids = "constant"
    /\ verdict = "err" => backend.fails # 0
    /\ (verdict = "ok" /\ backend.commit = "flushes" /\ backend.delete = "removes")
         => pending = << >> /\ Len(committed) = 1 /\ committed[1].record = 2
=============================================================================
