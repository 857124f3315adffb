------------------------------ MODULE MCRetention ------------------------------
(* Policies and candidates for TLC: one rule of each kind (and the limits    *)
(* of the ranking rules), candidates on both sides of every predicate that  *)
(* tie, lack facts, or have a NaN importance of either sign, or -0.0.       *)
EXTENDS Retention

SomeIds == 1..3

A == << <<"a">> >>
PaddedA == << << >>, <<" ", "a">> >>
AB == << <<"a">>, <<"b">> >>
Root == << << >> >>

Plain == NewCandidate("DemotedMessage", None)

SomeCandidates ==
    { Plain,
      [Plain EXCEPT !.kind = "CompactionSummary", !.scope = Some(PaddedA),
                    !.sequence = 0, !.written_at = 4, !.importance = 1],
      [Plain EXCEPT !.scope = Some(AB), !.sequence = 1, !.written_at = 0,
                    !.label = Some("pin"), !.last_accessed = 1,
                    !.supersedes = Some(2)],
      [Plain EXCEPT !.scope = Some(Root), !.sequence = 1, !.written_at = 2,
                    !.importance = 1, !.label = Some("tmp"), !.valid_to = 2],
      [Plain EXCEPT !.scope = Some(A), !.written_at = 1, !.valid_from = 2,
                    !.importance = 0, !.last_accessed = 2, !.valid_to = 3],
      [Plain EXCEPT !.sequence = 2, !.written_at = 5, !.importance = NaN],
      [Plain EXCEPT !.written_at = 3, !.importance = NegNaN],
      [Plain EXCEPT !.sequence = 0, !.importance = NegZero] }

SomeRules ==
    { [op |-> "KeepFrameKind", kind |-> "CompactionSummary"],
      [op |-> "KeepScope", scope |-> A],
      [op |-> "KeepRecent", min_sequence |-> 2],
      [op |-> "KeepLabel", label |-> "pin"],
      [op |-> "DropWrittenBefore", older_than |-> 2],
      [op |-> "DropLastAccessedBefore", older_than |-> 2],
      [op |-> "DropOutsideScope", required_scope |-> Some(A)],
      [op |-> "DropOutsideScope", required_scope |-> None],
      [op |-> "DropLabel", label |-> "tmp"],
      [op |-> "InvalidateExpired", as_of |-> 2],
      [op |-> "InvalidateSuperseded"],
      [op |-> "KeepMostRecent", count |-> 2],
      [op |-> "KeepTopBySalience", count |-> 1, half_life |-> 2, as_of |-> 4],
      [op |-> "KeepTopBySalience", count |-> 0, half_life |-> 0, as_of |-> 4] }

SomeDecisions == {"keep", "invalidate"}
NoChoice == {}

(* Bound: a second batch follows only a first one of plain candidates.      *)
SecondBatch == phase = "done" => facts = [c \in Ids |-> Plain]
=============================================================================
