----------------------------- MODULE AtMostOnceLog -----------------------------
(***************************************************************************)
(* What the backing store behind a dedup gate promises to its readers      *)
(* (src/dedup.rs:3-18): a log that only grows, one entry per key for ever. *)
(* Nothing is said of processes, locks, snapshots or restarts.             *)
(***************************************************************************)
EXTENDS Naturals, Sequences

CONSTANT Keys

VARIABLE log    \* the keys of the entries, oldest first

Logged == { log[i] : i \in DOMAIN log }

Init == log = << >>

AppendNew(k) ==
    /\ k \notin Logged
    /\ log' = Append(log, k)

Next == \E k \in Keys : AppendNew(k)

Spec == Init /\ [][Next]_log
=============================================================================
