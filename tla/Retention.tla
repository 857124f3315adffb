------------------------------- MODULE Retention -------------------------------
(***************************************************************************)
(* The retention policy of src/retention.rs: a policy is built rule by     *)
(* rule, then evaluate_batch runs batches of candidates through it, one    *)
(* rule after the other.  evaluate judges one candidate alone.             *)
(*                                                                         *)
(* Candidates are named by their position in the caller's list (Ids);      *)
(* facts says what each carries.  current_batch, a Vec in the code, is the *)
(* set pool with the position rank of each member, because the order of    *)
(* current_batch decides ties of the next stable sort.  The four Vecs of   *)
(* the report are sets: their order is not modelled.                       *)
(*                                                                         *)
(* Option<u64> is an integer with NONE below every time and sequence, as   *)
(* Option's Ord has it; the other Options are sets with at most one        *)
(* element (module Options). importance counts in Scale-ths; a NaN and     *)
(* -0.0, which clamp lets through, have the places total_cmp gives them: a *)
(* NaN above or below every other value by its sign, -0.0 just under 0.    *)
(***************************************************************************)
EXTENDS Scope

CONSTANTS
    Ids,            \* positions in the list of candidates
    CandidateSet,   \* what a candidate may carry
    RuleSet,        \* the rules a host may add
    Decisions,      \* the default decisions it may choose
    MaxRules,       \* bound: rules of a policy
    Scale           \* importance 1.0

NONE == -1
NaN == Scale + 1
NegZero == -2
NegNaN == -3

RetentionDecision == {"keep", "drop", "invalidate", "defer"}

(* RetentionCandidate::new; a with_ method sets one fact.                  *)
NewCandidate(kind, scope) ==
    [kind |-> kind, scope |-> scope, sequence |-> NONE, written_at |-> NONE,
     last_accessed |-> NONE, label |-> None, valid_from |-> NONE,
     valid_to |-> NONE, supersedes |-> None, importance |-> NONE]

ASSUME IdsAssumption == Ids \in SUBSET Nat /\ IsFiniteSet(Ids)
ASSUME CandidatesAssumption == CandidateSet # {}
ASSUME DecisionsAssumption == Decisions \subseteq RetentionDecision
ASSUME OptionAssumption ==
    /\ \A c \in CandidateSet : \A s, t \in c.scope : s = t
    /\ \A r \in RuleSet : r.op = "DropOutsideScope" =>
          \A s, t \in r.required_scope : s = t
(* u64 and usize; RetentionCandidate::with_importance clamps.              *)
ASSUME NumbersAssumption ==
    /\ \A c \in CandidateSet :
          /\ {c.sequence, c.written_at, c.valid_from} \subseteq Nat \cup {NONE}
          /\ c.importance \in 0..Scale \cup {NONE, NaN, NegZero, NegNaN}
    /\ \A r \in RuleSet :
          /\ r.op = "KeepMostRecent" => r.count \in Nat
          /\ r.op = "KeepTopBySalience" => {r.count, r.half_life, r.as_of} \subseteq Nat
ASSUME MaxRulesAssumption == MaxRules \in Nat
ASSUME ScaleAssumption == Scale \in Nat \ {0}

VARIABLES
    rules,              \* the policy's Vec of rules
    default_decision,
    phase,              \* "building", "running" a batch, "done" with it
    next_rule,          \* the rule of the for loop
    facts,              \* the candidates of the batch
    pool,               \* current_batch, as a set
    rank,               \* the position in current_batch
    keep, drop, invalidate, defer   \* the report

report == <<keep, drop, invalidate, defer>>
vars == <<rules, default_decision, phase, next_rule, facts, pool, rank, report>>

-----------------------------------------------------------------------------
(* Rules: evaluate                                                         *)
Ranks(r) == r.op \in {"KeepMostRecent", "KeepTopBySalience"}

Keeps(r, c) ==
    \/ r.op = "KeepFrameKind" /\ c.kind = r.kind
    \/ r.op = "KeepScope" /\ matches(r.scope, c.scope)
    \/ r.op = "KeepRecent" /\ c.sequence # NONE /\ c.sequence >= r.min_sequence
    \/ r.op = "KeepLabel" /\ c.label = Some(r.label)

Drops(r, c) ==
    \/ /\ r.op = "DropWrittenBefore"
       /\ c.written_at # NONE /\ c.written_at < r.older_than
    \/ /\ r.op = "DropLastAccessedBefore"
       /\ c.last_accessed # NONE /\ c.last_accessed < r.older_than
    \/ r.op = "DropOutsideScope" /\ ~scope_matches(r.required_scope, c.scope)
    \/ r.op = "DropLabel" /\ c.label = Some(r.label)

Invalidates(r, c) ==
    \/ r.op = "InvalidateExpired" /\ c.valid_to # NONE /\ c.valid_to <= r.as_of
    \/ r.op = "InvalidateSuperseded" /\ c.supersedes # None

(* RetentionRule::evaluate                                                 *)
rule_evaluate(r, c) ==
    CASE Keeps(r, c)       -> "keep"
      [] Drops(r, c)       -> "drop"
      [] Invalidates(r, c) -> "invalidate"
      [] OTHER             -> "defer"

(* Mutant: the last rule with an opinion wins.                             *)
evaluate_last(c) ==
    LET opinions == { i \in DOMAIN rules : rule_evaluate(rules[i], c) # "defer" }
    IN  IF opinions = {} THEN default_decision
        ELSE rule_evaluate(rules[CHOOSE i \in opinions :
                                    \A j \in opinions : j <= i], c)

(* RetentionPolicy::evaluate: the first opinion wins.                      *)
evaluate(c) ==
    LET opinions == { i \in DOMAIN rules : rule_evaluate(rules[i], c) # "defer" }
    IN  IF opinions = {} THEN default_decision
        ELSE rule_evaluate(rules[CHOOSE i \in opinions :
                                    \A j \in opinions : i <= j], c)

-----------------------------------------------------------------------------
(* The two orders of the ranking rules.                                    *)
Newer(c, d) ==
    \/ c.sequence > d.sequence
    \/ c.sequence = d.sequence /\ c.written_at > d.written_at

Importance(c) == IF c.importance = NONE THEN Scale ELSE c.importance

(* An age that decays: 0 where salience() returns the importance alone.    *)
Age(r, c) ==
    LET reference == IF c.valid_from # NONE THEN c.valid_from ELSE c.written_at
    IN  IF reference = NONE \/ r.half_life = 0 \/ reference > r.as_of THEN 0
        ELSE r.as_of - reference

(* b to the n-th.                                                          *)
Power(b, n) ==
    LET power[i \in 0..n] == IF i = 0 THEN 1 ELSE b * power[i - 1]
    IN  power[n]

(* importance * 0.5^(age / half_life) on an integer scale: to the power    *)
(* half_life, times 2^as_of, which no age exceeds.  -0.0 stays -0.0.       *)
Salience(r, c) ==
    LET h == IF r.half_life = 0 THEN 1 ELSE r.half_life
    IN  IF Importance(c) = NegZero THEN -1
        ELSE Power(Importance(c), h) * Power(2, r.as_of - Age(r, c))

IsNaN(c) == Importance(c) \in {NaN, NegNaN}

(* Mutant: partial_cmp, where a NaN is neither before nor after anything.  *)
MoreSalientPartial(r, c, d) ==
    ~IsNaN(c) /\ ~IsNaN(d) /\ Salience(r, c) > Salience(r, d)

(* total_cmp, the larger one first.                                        *)
MoreSalient(r, c, d) ==
    IF IsNaN(c) \/ IsNaN(d) THEN Importance(c) > Importance(d)
    ELSE Salience(r, c) > Salience(r, d)

(* The comparator of the sort: must c come before d?                       *)
Before(r, c, d) ==
    \/ r.op = "KeepMostRecent" /\ Newer(facts[c], facts[d])
    \/ r.op = "KeepTopBySalience" /\ MoreSalient(r, facts[c], facts[d])

(* sort_by is stable.                                                      *)
Sorted(r, c, d) ==
    \/ Before(r, c, d)
    \/ ~Before(r, d, c) /\ rank[c] < rank[d]

(* Mutants: an ascending sort, an off-by-one.                              *)
PositionOffByOne(r, c) == Cardinality({ d \in pool : Sorted(r, d, c) }) - 1

PositionFromEnd(r, c) == Cardinality({ d \in pool : Sorted(r, c, d) })

Position(r, c) == Cardinality({ d \in pool : Sorted(r, d, c) })

-----------------------------------------------------------------------------
TypeOK ==
    /\ rules \in Seq(RuleSet)
    /\ default_decision \in Decisions \cup {"defer"}
    /\ phase \in {"building", "running", "done"}
    /\ next_rule \in 1..(Len(rules) + 1)
    /\ facts \in [Ids -> CandidateSet]
    /\ rank \in [Ids -> Nat]
    /\ {pool, keep, drop, invalidate, defer} \subseteq SUBSET Ids

(* RetentionPolicy::new; there is no batch yet.                            *)
Init ==
    /\ rules = << >>
    /\ default_decision = "defer"
    /\ phase = "building"
    /\ next_rule = 1
    /\ facts = [c \in Ids |-> CHOOSE candidate \in CandidateSet : TRUE]
    /\ pool = {}
    /\ rank = [c \in Ids |-> c]
    /\ keep = {} /\ drop = {} /\ invalidate = {} /\ defer = {}

(* rule and the builder methods that call it.                              *)
AddRule(r) ==
    /\ phase = "building"
    /\ Len(rules) < MaxRules
    /\ rules' = Append(rules, r)
    /\ UNCHANGED <<default_decision, phase, next_rule, facts, pool, rank, report>>

SetDefault(d) ==
    /\ phase = "building"
    /\ default_decision' = d
    /\ UNCHANGED <<rules, phase, next_rule, facts, pool, rank, report>>

(* evaluate_batch is called; the caller may use the policy again later.    *)
BeginBatch ==
    /\ phase # "running"
    /\ phase' = "running"
    /\ next_rule' = 1
    /\ facts' \in [Ids -> CandidateSet]
    /\ pool' = Ids
    /\ rank' = [c \in Ids |-> c]
    /\ keep' = {} /\ drop' = {} /\ invalidate' = {} /\ defer' = {}
    /\ UNCHANGED <<rules, default_decision>>

(* The for loop is at a rule, with somebody left to judge.                 *)
AtRule ==
    /\ phase = "running"
    /\ next_rule \in DOMAIN rules
    /\ pool # {}

(* The rule sorts what is left, keeps the first count candidates and       *)
(* passes the others on in sorted order.                                   *)
RankPool ==
    /\ AtRule
    /\ LET r == rules[next_rule]
           first == { c \in pool : Position(r, c) < r.count }
       IN  /\ Ranks(r)
           /\ keep' = keep \cup first
           /\ pool' = pool \ first
           /\ rank' = [c \in Ids |-> IF c \in pool THEN Position(r, c) ELSE rank[c]]
    /\ next_rule' = next_rule + 1
    /\ UNCHANGED <<rules, default_decision, phase, facts, drop, invalidate, defer>>

(* Mutant: a candidate that a rule invalidates also stays in the pool.     *)
JudgedTwice(r, decision) ==
    { c \in pool : \/ rule_evaluate(r, facts[c]) = decision
                   \/ decision = "defer" /\ rule_evaluate(r, facts[c]) = "invalidate" }

Judged(r, decision) == { c \in pool : rule_evaluate(r, facts[c]) = decision }

(* Any other rule judges each candidate alone.                             *)
FilterPool ==
    /\ AtRule
    /\ LET r == rules[next_rule]
       IN  /\ ~Ranks(r)
           /\ keep' = keep \cup Judged(r, "keep")
           /\ drop' = drop \cup Judged(r, "drop")
           /\ invalidate' = invalidate \cup Judged(r, "invalidate")
           /\ pool' = Judged(r, "defer")
    /\ next_rule' = next_rule + 1
    /\ UNCHANGED <<rules, default_decision, phase, facts, rank, defer>>

(* No rule is left, or nobody to judge: the default for the rest.          *)
FinishBatch ==
    /\ phase = "running"
    /\ next_rule = Len(rules) + 1 \/ pool = {}
    /\ phase' = "done"
    /\ keep' = IF default_decision = "keep" THEN keep \cup pool ELSE keep
    /\ drop' = IF default_decision = "drop" THEN drop \cup pool ELSE drop
    /\ invalidate' =
          IF default_decision = "invalidate" THEN invalidate \cup pool ELSE invalidate
    /\ defer' = IF default_decision = "defer" THEN defer \cup pool ELSE defer
    /\ pool' = {}
    /\ UNCHANGED <<rules, default_decision, next_rule, facts, rank>>

Next ==
    \/ \E r \in RuleSet : AddRule(r)
    \/ \E d \in Decisions : SetDefault(d)
    \/ BeginBatch \/ RankPool \/ FilterPool \/ FinishBatch

Spec == Init /\ [][Next]_vars

-----------------------------------------------------------------------------
(* No candidate is lost and none is reported twice, whichever rules sorted *)
(* and split current_batch before (src/retention.rs:489-568).              *)
Partition ==
    phase # "building" =>
        /\ pool \cup keep \cup drop \cup invalidate \cup defer = Ids
        /\ pool \cap (keep \cup drop \cup invalidate \cup defer) = {}
        /\ keep \cap (drop \cup invalidate \cup defer) = {}
        /\ drop \cap (invalidate \cup defer) = {}
        /\ invalidate \cap defer = {}

(* The candidate reaches a ranking rule undecided.                         *)
MayRank(c) ==
    \E i \in DOMAIN rules :
        /\ Ranks(rules[i])
        /\ \A j \in 1..(i - 1) : rule_evaluate(rules[j], facts[c]) = "defer"

(* A batch and the single-candidate evaluate (src/retention.rs:475-481)    *)
(* agree, but for the ranking rules, which single evaluation defers: what  *)
(* a batch drops, invalidates or defers, evaluate does too, and what it    *)
(* keeps evaluate keeps, or a ranking rule stood before the first opinion. *)
AgreesWithSingle ==
    /\ \A c \in drop : evaluate(facts[c]) = "drop"
    /\ \A c \in invalidate : evaluate(facts[c]) = "invalidate"
    /\ \A c \in defer : evaluate(facts[c]) = "defer"
    /\ \A c \in keep : evaluate(facts[c]) = "keep" \/ MayRank(c)

(* Two Options name the same place of the scope tree; a missing scope is   *)
(* the root to a policy that requires none, and nothing to any other.      *)
SameScope(required, candidate) ==
    /\ \A q \in required, text \in candidate :
          normalize_scope(text) = normalize_scope(q)
    /\ required = None => \A text \in candidate : normalize_scope(text) = << >>
    /\ candidate = None => required = None

(* Isolation: a policy that begins with drop_outside_scope reports nothing *)
(* but "drop" for a candidate whose scope is another one after             *)
(* normalization, whatever rules follow (src/retention.rs:279-286).        *)
ScopeGuardIsolates ==
    phase = "done" /\ rules # << >> /\ rules[1].op = "DropOutsideScope" =>
        \A c \in keep \cup invalidate \cup defer :
            SameScope(rules[1].required_scope, facts[c].scope)

(* The order of two candidates after a ranking rule: the rule's own, and   *)
(* that of the list before where the rule has none.                        *)
GoesFirst(r, c, d) ==
    /\ ~Before(r, d, c)
    /\ ~Before(r, c, d) => rank[c] < rank[d]

(* A ranking rule fills its quota, also one of nothing, with candidates    *)
(* that go before all it passes on, among ties those that came first in    *)
(* the list before; what it passes on is in that order too; and the most   *)
(* recent never lack a sequence while one that has it is passed over       *)
(* (src/retention.rs:502-542).                                             *)
RankingTakesTheTop ==
    [][ phase = "running" /\ next_rule \in DOMAIN rules
            /\ next_rule' # next_rule /\ Ranks(rules[next_rule]) =>
          LET r == rules[next_rule]
              kept == keep' \ keep
          IN  /\ kept \cup pool' = pool
              /\ Cardinality(kept) = Min({r.count, Cardinality(pool)})
              /\ \A c \in kept, d \in pool' :
                    /\ GoesFirst(r, c, d)
                    /\ r.op = "KeepMostRecent" /\ facts[d].sequence # NONE =>
                          facts[c].sequence # NONE
              /\ \A c, d \in pool' : rank'[c] < rank'[d] => GoesFirst(r, c, d) ]_vars

(* After every sort current_batch is a list: no two candidates share a     *)
(* position.  It holds because both comparators are strict weak orders     *)
(* (total_cmp ranks a NaN importance, src/retention.rs:528).               *)
PoolIsAList == \A c, d \in pool : rank[c] = rank[d] => c = d

-----------------------------------------------------------------------------
(* src/retention.rs:36-37 of supersedes: "Backends use this to invalidate  *)
(* the older fact rather than hard-deleting it."  Under the one rule       *)
(* InvalidateSuperseded, what is invalidated is referred to by another     *)
(* candidate's supersedes.                                                 *)
SupersededIsInvalidated ==
    phase = "done" /\ Len(rules) = 1 /\ rules[1].op = "InvalidateSuperseded"
        /\ default_decision = "defer" =>
          \A c \in invalidate : \E d \in Ids : c \in facts[d].supersedes

(* src/retention.rs:13-14: "Missing facts simply make rules that depend on *)
(* them non-matching".  Under the one rule KeepMostRecent, what is kept    *)
(* has a sequence or a write time.                                         *)
MissingFactsNeverMatch ==
    phase = "done" /\ Len(rules) = 1 /\ rules[1].op = "KeepMostRecent"
        /\ default_decision = "defer" =>
          \A c \in keep : facts[c].sequence # NONE \/ facts[c].written_at # NONE

-----------------------------------------------------------------------------
(* The strengthening that makes Partition and AgreesWithSingle inductive:  *)
(* every rule the loop has passed had no opinion of who is still in it.    *)
PoolIsUndecided ==
    phase = "running" =>
        \A c \in pool : \A j \in 1..(next_rule - 1) :
            rule_evaluate(rules[j], facts[c]) = "defer"

NoBatchYet ==
    phase = "building" =>
        /\ pool = {} /\ keep = {} /\ drop = {} /\ invalidate = {} /\ defer = {}

ReportInv ==
    /\ Partition
    /\ AgreesWithSingle
    /\ PoolIsUndecided
    /\ NoBatchYet
=============================================================================
