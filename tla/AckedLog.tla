-------------------------------- MODULE AckedLog --------------------------------
(***************************************************************************)
(* What writing and committing promises the callers of a store: a log that *)
(* only grows, in which no entry occurs twice, and that holds what was     *)
(* acknowledged from the moment of the acknowledgement.                    *)
(***************************************************************************)
EXTENDS Naturals, Sequences

VARIABLES log, acked

Logged == { log[i] : i \in DOMAIN log }

Distinct == \A i, j \in DOMAIN log : log[i] = log[j] => i = j

Init == log = << >> /\ acked = {}

(* A commit may bring any number of entries, of several calls.             *)
Extend ==
    /\ Len(log) <= Len(log')
    /\ \A i \in DOMAIN log : log'[i] = log[i]
    /\ Distinct'

Acknowledge == acked \subseteq acked' /\ acked' \subseteq Logged'

Next == Extend /\ Acknowledge

Spec == Init /\ [][Next]_<<log, acked>>
=============================================================================
