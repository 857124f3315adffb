---------------------------- MODULE Retention_proofs ----------------------------
(***************************************************************************)
(* Theorems about Retention for any candidates, any rules and any length   *)
(* of the policy.                                                          *)
(***************************************************************************)
EXTENDS Retention, OrderTheorems

-----------------------------------------------------------------------------
(* What an evaluation can say (src/retention.rs:226-295).                  *)
LEMMA FourDecisions ==
    ASSUME NEW r, NEW c
    PROVE  rule_evaluate(r, c) \in {"keep", "drop", "invalidate", "defer"}
  BY DEF rule_evaluate

(* The first rule with an opinion decides (src/retention.rs:475-481).      *)
LEMMA FirstOpinionWins ==
    ASSUME NEW c, NEW i \in DOMAIN rules,
           rules \in Seq(RuleSet),
           rule_evaluate(rules[i], c) # "defer",
           \A j \in 1..(i - 1) : rule_evaluate(rules[j], c) = "defer"
    PROVE  evaluate(c) = rule_evaluate(rules[i], c)
<1> DEFINE opinions == { k \in DOMAIN rules : rule_evaluate(rules[k], c) # "defer" }
           first == CHOOSE k \in opinions : \A j \in opinions : k <= j
<1>1. i \in opinions /\ \A j \in opinions : i <= j
  OBVIOUS
<1>2. first \in opinions /\ \A j \in opinions : first <= j
  BY <1>1
<1>3. first = i
  BY <1>1, <1>2
<1>4. evaluate(c) = rule_evaluate(rules[first], c)
  BY <1>1 DEF evaluate
<1> QED
  BY <1>3, <1>4

(* With no opinion the default decides.                                    *)
LEMMA NoOpinionIsDefault ==
    ASSUME NEW c, \A j \in DOMAIN rules : rule_evaluate(rules[j], c) = "defer"
    PROVE  evaluate(c) = default_decision
  BY DEF evaluate

(* A ranking rule has no opinion of a single candidate                     *)
(* (src/retention.rs:234-235).                                             *)
LEMMA RankingDefers ==
    ASSUME NEW r, NEW c, Ranks(r)
    PROVE  rule_evaluate(r, c) = "defer"
  BY DEF Ranks, rule_evaluate, Keeps, Drops, Invalidates

(* A position in a sorted pool is a natural number.                        *)
LEMMA PositionType ==
    ASSUME NEW r, NEW c, pool \in SUBSET Ids
    PROVE  Position(r, c) \in Nat
<1>1. { d \in pool : Sorted(r, d, c) } \subseteq Ids
  OBVIOUS
<1>2. IsFiniteSet({ d \in pool : Sorted(r, d, c) })
  BY <1>1, FS_Subset, IdsAssumption
<1> QED
  BY <1>2, FS_CardinalityType DEF Position

(* Every variable keeps its type.                                          *)
THEOREM TypeCorrect == Spec => []TypeOK
<1>1. Init => TypeOK
  BY IdsAssumption, CandidatesAssumption DEF Init, TypeOK
<1>2. TypeOK /\ [Next]_vars => TypeOK'
  <2> SUFFICES ASSUME TypeOK, [Next]_vars
               PROVE  TypeOK'
    OBVIOUS
  <2> USE DEF TypeOK, report
  <2>1. ASSUME NEW r \in RuleSet, AddRule(r)
        PROVE  TypeOK'
    BY <2>1 DEF AddRule
  <2>2. ASSUME NEW d \in Decisions, SetDefault(d)
        PROVE  TypeOK'
    BY <2>2 DEF SetDefault
  <2>3. CASE BeginBatch
    BY <2>3, IdsAssumption DEF BeginBatch
  <2>4. CASE RankPool
    <3>1. rank' \in [Ids -> Nat]
      BY <2>4, PositionType DEF RankPool
    <3>2. next_rule' \in 1..(Len(rules') + 1)
      BY <2>4 DEF RankPool, AtRule
    <3> QED
      BY <2>4, <3>1, <3>2 DEF RankPool
  <2>5. CASE FilterPool
    <3>1. next_rule' \in 1..(Len(rules') + 1)
      BY <2>5 DEF FilterPool, AtRule
    <3> QED
      BY <2>5, <3>1 DEF FilterPool, Judged
  <2>6. CASE FinishBatch
    BY <2>6 DEF FinishBatch
  <2>7. CASE UNCHANGED vars
    BY <2>7 DEF vars
  <2> QED
    BY <2>1, <2>2, <2>3, <2>4, <2>5, <2>6, <2>7 DEF Next
<1> QED
  BY <1>1, <1>2, PTL DEF Spec

-----------------------------------------------------------------------------
(* What a rule says of a candidate does not change while a batch runs.     *)
LEMMA SameOpinions ==
    ASSUME UNCHANGED <<rules, default_decision, facts>>
    PROVE  /\ \A c : evaluate(c)' = evaluate(c)
           /\ \A c : MayRank(c)' = MayRank(c)
<1>1. \A c : evaluate(c)' = evaluate(c)
  BY DEF evaluate
<1>2. \A c : MayRank(c)' = MayRank(c)
  BY DEF MayRank
<1> QED
  BY <1>1, <1>2

(* A ranking rule moves candidates it found undecided from pool to keep.   *)
LEMMA RankPoolReport ==
    ASSUME TypeOK, ReportInv, RankPool
    PROVE  ReportInv'
<1> DEFINE r == rules[next_rule]
           first == { c \in pool : Position(r, c) < r.count }
<1>1. /\ first \subseteq pool
      /\ keep' = keep \cup first
      /\ pool' = pool \ first
      /\ Ranks(r)
      /\ phase = "running"
      /\ next_rule \in DOMAIN rules
      /\ next_rule' = next_rule + 1
      /\ UNCHANGED <<rules, default_decision, phase, facts, drop, invalidate, defer>>
  BY DEF RankPool, AtRule
<1> HIDE DEF r, first
<1>2. /\ \A c : evaluate(c)' = evaluate(c)
      /\ \A c : MayRank(c)' = MayRank(c)
  BY <1>1, SameOpinions
<1>3. Partition'
  BY <1>1 DEF ReportInv, Partition
<1>4. \A c \in first : MayRank(c)
  BY <1>1 DEF ReportInv, PoolIsUndecided, MayRank, r
<1>5. AgreesWithSingle'
  <2>1. \A c \in keep' : evaluate(facts[c]) = "keep" \/ MayRank(c)
    BY <1>1, <1>4 DEF ReportInv, AgreesWithSingle
  <2>2. \A c \in drop : evaluate(facts[c]) = "drop"
    BY DEF ReportInv, AgreesWithSingle
  <2>3. \A c \in invalidate : evaluate(facts[c]) = "invalidate"
    BY DEF ReportInv, AgreesWithSingle
  <2>4. \A c \in defer : evaluate(facts[c]) = "defer"
    BY DEF ReportInv, AgreesWithSingle
  <2>5. \A c : evaluate(facts[c])' = evaluate(facts[c])
    BY <1>1 DEF evaluate
  <2> QED
    BY <1>1, <1>2, <2>1, <2>2, <2>3, <2>4, <2>5 DEF AgreesWithSingle
<1>6. PoolIsUndecided'
  <2>1. \A c \in pool : rule_evaluate(rules[next_rule], facts[c]) = "defer"
    BY <1>1, RankingDefers DEF r
  <2>2. 1..(next_rule' - 1) = 1..(next_rule - 1) \cup {next_rule}
    BY <1>1 DEF TypeOK
  <2>3. \A c \in pool, j \in 1..(next_rule' - 1) :
            rule_evaluate(rules[j], facts[c]) = "defer"
    BY <1>1, <2>1, <2>2 DEF ReportInv, PoolIsUndecided
  <2> QED
    BY <1>1, <2>3 DEF PoolIsUndecided
<1>7. NoBatchYet'
  BY <1>1 DEF NoBatchYet
<1> QED
  BY <1>3, <1>5, <1>6, <1>7 DEF ReportInv

(* Any other rule moves them to the part of the report that evaluate       *)
(* names, since it is the first rule with an opinion of them.              *)
LEMMA FilterPoolReport ==
    ASSUME TypeOK, ReportInv, FilterPool
    PROVE  ReportInv'
<1> DEFINE r == rules[next_rule]
           O(c) == rule_evaluate(r, facts[c])
<1>1. /\ keep' = keep \cup Judged(r, "keep")
      /\ drop' = drop \cup Judged(r, "drop")
      /\ invalidate' = invalidate \cup Judged(r, "invalidate")
      /\ pool' = Judged(r, "defer")
      /\ phase = "running"
      /\ next_rule \in DOMAIN rules
      /\ next_rule' = next_rule + 1
      /\ UNCHANGED <<rules, default_decision, phase, facts, defer>>
  BY DEF FilterPool, AtRule
<1>2. /\ \A c : evaluate(c)' = evaluate(c)
      /\ \A c : MayRank(c)' = MayRank(c)
  BY <1>1, SameOpinions
<1>3. \A c \in pool : O(c) \in {"keep", "drop", "invalidate", "defer"}
  BY FourDecisions
<1>4. \A d : Judged(r, d) = { c \in pool : O(c) = d }
  BY DEF Judged
<1>5. \A c \in pool : O(c) # "defer" => evaluate(facts[c]) = O(c)
  <2> SUFFICES ASSUME NEW c \in pool, O(c) # "defer"
               PROVE  evaluate(facts[c]) = O(c)
    OBVIOUS
  <2>1. \A j \in 1..(next_rule - 1) : rule_evaluate(rules[j], facts[c]) = "defer"
    BY <1>1 DEF ReportInv, PoolIsUndecided
  <2> QED
    BY <1>1, <2>1, FirstOpinionWins DEF TypeOK
<1> HIDE DEF r, O
<1>6. Partition'
  <2> DEFINE K == Judged(r, "keep")
             D == Judged(r, "drop")
             V == Judged(r, "invalidate")
             U == Judged(r, "defer")
  <2>1. /\ K \cup D \cup V \cup U = pool
        /\ K \cap D = {} /\ K \cap V = {} /\ K \cap U = {}
        /\ D \cap V = {} /\ D \cap U = {} /\ V \cap U = {}
    BY <1>3, <1>4
  <2> HIDE DEF K, D, V, U
  <2>2. /\ keep' = keep \cup K /\ drop' = drop \cup D
        /\ invalidate' = invalidate \cup V /\ pool' = U /\ defer' = defer
    BY <1>1 DEF K, D, V, U
  <2> QED
    BY <1>1, <2>1, <2>2 DEF ReportInv, Partition
<1>7. AgreesWithSingle'
  <2>1. \A c : evaluate(facts[c])' = evaluate(facts[c])
    BY <1>1 DEF evaluate
  <2>2. \A c \in keep' : evaluate(facts[c]) = "keep" \/ MayRank(c)
    BY <1>1, <1>4, <1>5 DEF ReportInv, AgreesWithSingle
  <2>3. \A c \in drop' : evaluate(facts[c]) = "drop"
    BY <1>1, <1>4, <1>5 DEF ReportInv, AgreesWithSingle
  <2>4. \A c \in invalidate' : evaluate(facts[c]) = "invalidate"
    BY <1>1, <1>4, <1>5 DEF ReportInv, AgreesWithSingle
  <2>5. \A c \in defer' : evaluate(facts[c]) = "defer"
    BY <1>1 DEF ReportInv, AgreesWithSingle
  <2> QED
    BY <1>2, <2>1, <2>2, <2>3, <2>4, <2>5 DEF AgreesWithSingle
<1>8. PoolIsUndecided'
  <2>1. pool' \subseteq pool /\ \A c \in pool' : rule_evaluate(rules[next_rule], facts[c]) = "defer"
    BY <1>1, <1>4 DEF O, r
  <2>2. 1..(next_rule' - 1) = 1..(next_rule - 1) \cup {next_rule}
    BY <1>1 DEF TypeOK
  <2>3. \A c \in pool', j \in 1..(next_rule' - 1) :
            rule_evaluate(rules[j], facts[c]) = "defer"
    BY <1>1, <2>1, <2>2 DEF ReportInv, PoolIsUndecided
  <2> QED
    BY <1>1, <2>3 DEF PoolIsUndecided
<1>9. NoBatchYet'
  BY <1>1 DEF NoBatchYet
<1> QED
  BY <1>6, <1>7, <1>8, <1>9 DEF ReportInv

(* Who is left when the loop ends has met no opinion: the default is what  *)
(* evaluate says of it too.                                                *)
LEMMA FinishBatchReport ==
    ASSUME TypeOK, ReportInv, FinishBatch
    PROVE  ReportInv'
<1>1. /\ phase = "running" /\ phase' = "done" /\ pool' = {}
      /\ UNCHANGED <<rules, default_decision, next_rule, facts>>
      /\ default_decision \in {"keep", "drop", "invalidate", "defer"}
  BY DecisionsAssumption DEF FinishBatch, TypeOK, RetentionDecision
<1>2. \A c : evaluate(facts[c])' = evaluate(facts[c]) /\ MayRank(c)' = MayRank(c)
  BY <1>1 DEF evaluate, MayRank
<1>3. \A c \in pool : evaluate(facts[c]) = default_decision
  <2> SUFFICES ASSUME NEW c \in pool
               PROVE  evaluate(facts[c]) = default_decision
    OBVIOUS
  <2>1. next_rule = Len(rules) + 1
    BY DEF FinishBatch
  <2>2. \A j \in DOMAIN rules : rule_evaluate(rules[j], facts[c]) = "defer"
    BY <1>1, <2>1 DEF ReportInv, PoolIsUndecided, TypeOK
  <2> QED
    BY <2>2, NoOpinionIsDefault
<1>4. Partition'
  BY <1>1 DEF FinishBatch, ReportInv, Partition
<1>5. AgreesWithSingle'
  <2>1. \A c \in keep' : evaluate(facts[c]) = "keep" \/ MayRank(c)
    BY <1>3 DEF FinishBatch, ReportInv, AgreesWithSingle
  <2>2. \A c \in drop' : evaluate(facts[c]) = "drop"
    BY <1>3 DEF FinishBatch, ReportInv, AgreesWithSingle
  <2>3. \A c \in invalidate' : evaluate(facts[c]) = "invalidate"
    BY <1>3 DEF FinishBatch, ReportInv, AgreesWithSingle
  <2>4. \A c \in defer' : evaluate(facts[c]) = "defer"
    BY <1>3 DEF FinishBatch, ReportInv, AgreesWithSingle
  <2> QED
    BY <1>2, <2>1, <2>2, <2>3, <2>4 DEF AgreesWithSingle
<1>6. PoolIsUndecided' /\ NoBatchYet'
  BY <1>1 DEF PoolIsUndecided, NoBatchYet
<1> QED
  BY <1>4, <1>5, <1>6 DEF ReportInv

(* The strengthening holds in every state.                                 *)
THEOREM ReportCorrect == Spec => []ReportInv
<1>1. Init => ReportInv
  BY DEF Init, ReportInv, Partition, AgreesWithSingle, PoolIsUndecided, NoBatchYet
<1>2. TypeOK /\ ReportInv /\ [Next]_vars => ReportInv'
  <2> SUFFICES ASSUME TypeOK, ReportInv, [Next]_vars
               PROVE  ReportInv'
    OBVIOUS
  <2>1. ASSUME NEW r \in RuleSet, AddRule(r)
        PROVE  ReportInv'
    BY <2>1 DEF AddRule, report, ReportInv, Partition, AgreesWithSingle,
                PoolIsUndecided, NoBatchYet
  <2>2. ASSUME NEW d \in Decisions, SetDefault(d)
        PROVE  ReportInv'
    BY <2>2 DEF SetDefault, report, ReportInv, Partition, AgreesWithSingle,
                PoolIsUndecided, NoBatchYet
  <2>3. CASE BeginBatch
    BY <2>3 DEF BeginBatch, ReportInv, Partition, AgreesWithSingle,
                PoolIsUndecided, NoBatchYet
  <2>4. CASE RankPool
    BY <2>4, RankPoolReport
  <2>5. CASE FilterPool
    BY <2>5, FilterPoolReport
  <2>6. CASE FinishBatch
    BY <2>6, FinishBatchReport
  <2>7. CASE UNCHANGED vars
    <3>1. UNCHANGED <<rules, default_decision, phase, next_rule, facts, pool,
                      keep, drop, invalidate, defer>>
      BY <2>7 DEF vars, report
    <3>2. \A c : evaluate(facts[c])' = evaluate(facts[c]) /\ MayRank(c)' = MayRank(c)
      BY <3>1 DEF evaluate, MayRank
    <3>3. AgreesWithSingle'
      BY <3>1, <3>2 DEF ReportInv, AgreesWithSingle
    <3> QED
      BY <3>1, <3>3 DEF ReportInv, Partition, PoolIsUndecided, NoBatchYet
  <2> QED
    BY <2>1, <2>2, <2>3, <2>4, <2>5, <2>6, <2>7 DEF Next
<1> QED
  BY <1>1, <1>2, TypeCorrect, PTL DEF Spec

(* No candidate is lost or reported twice, for any policy.                 *)
THEOREM BatchIsPartitioned == Spec => []Partition
<1>1. ReportInv => Partition
  BY DEF ReportInv
<1> QED
  BY <1>1, ReportCorrect, PTL

(* Batch and single evaluation agree but for ranking rules.                *)
THEOREM BatchAgreesWithSingle == Spec => []AgreesWithSingle
<1>1. ReportInv => AgreesWithSingle
  BY DEF ReportInv
<1> QED
  BY <1>1, ReportCorrect, PTL

-----------------------------------------------------------------------------
(* A candidate that passes drop_outside_scope has the scope it requires.   *)
LEMMA MatchMeansSameScope ==
    ASSUME NEW required, NEW candidate,
           \A s, t \in required : s = t,
           \A s, t \in candidate : s = t,
           scope_matches(required, candidate)
    PROVE  SameScope(required, candidate)
  BY DEF scope_matches, matches, SameScope, None

(* A policy that begins with drop_outside_scope lets nothing of another    *)
(* scope through, for any rules that follow and any default.               *)
THEOREM ScopeGuardHolds == Spec => []ScopeGuardIsolates
<1>1. TypeOK /\ ReportInv => ScopeGuardIsolates
  <2> SUFFICES ASSUME TypeOK, ReportInv,
                      rules # << >>,
                      rules[1].op = "DropOutsideScope",
                      NEW c \in keep \cup invalidate \cup defer
               PROVE  SameScope(rules[1].required_scope, facts[c].scope)
    BY DEF ScopeGuardIsolates
  <2>1. rules[1] \in RuleSet /\ facts[c] \in CandidateSet /\ 1 \in DOMAIN rules
    BY DEF TypeOK
  <2>2. /\ ~Ranks(rules[1])
        /\ ~Keeps(rules[1], facts[c])
        /\ ~Invalidates(rules[1], facts[c])
    BY DEF Ranks, Keeps, Invalidates
  <2>3. CASE scope_matches(rules[1].required_scope, facts[c].scope)
    BY <2>1, <2>3, MatchMeansSameScope, OptionAssumption
  <2>4. CASE ~scope_matches(rules[1].required_scope, facts[c].scope)
    <3>1. rule_evaluate(rules[1], facts[c]) = "drop"
      <4>1. Drops(rules[1], facts[c])
        BY <2>4 DEF Drops
      <4> QED
        BY <2>2, <4>1 DEF rule_evaluate
    <3>2. evaluate(facts[c]) = "drop"
      BY <2>1, <3>1, FirstOpinionWins DEF TypeOK
    <3>3. ~MayRank(c)
      BY <2>1, <2>2, <3>1 DEF MayRank, TypeOK
    <3> QED
      BY <3>2, <3>3 DEF ReportInv, AgreesWithSingle
  <2> QED
    BY <2>3, <2>4
<1> QED
  BY <1>1, TypeCorrect, ReportCorrect, PTL

-----------------------------------------------------------------------------
(* Power is well defined: for every exponent there is a table of powers.   *)
LEMMA PowerExists ==
    ASSUME NEW b \in Int, NEW n \in Nat
    PROVE  \E p \in [0..n -> Int] : p = [i \in 0..n |-> IF i = 0 THEN 1 ELSE b * p[i - 1]]
<1> DEFINE IsPower(p, m) == p = [i \in 0..m |-> IF i = 0 THEN 1 ELSE b * p[i - 1]]
           P == { m \in Nat : \E p \in [0..m -> Int] : IsPower(p, m) }
<1>1. 0 \in P
  <2> DEFINE p == [i \in 0..0 |-> 1]
  <2>1. p \in [0..0 -> Int] /\ IsPower(p, 0)
    OBVIOUS
  <2> QED
    BY <2>1
<1>2. ASSUME NEW m \in P
      PROVE  m + 1 \in P
  <2>1. PICK p \in [0..m -> Int] : IsPower(p, m)
    OBVIOUS
  <2> DEFINE q == [i \in 0..(m + 1) |-> IF i = m + 1 THEN b * p[m] ELSE p[i]]
  <2>2. q \in [0..(m + 1) -> Int]
    OBVIOUS
  <2>3. ASSUME NEW i \in 0..(m + 1)
        PROVE  q[i] = IF i = 0 THEN 1 ELSE b * q[i - 1]
    BY <2>1, <2>3
  <2>4. IsPower(q, m + 1)
    BY <2>2, <2>3
  <2>5. m + 1 \in Nat
    OBVIOUS
  <2> HIDE DEF q, IsPower
  <2> QED
    BY <2>2, <2>4, <2>5
<1>3. P = Nat
  <2> HIDE DEF P
  <2>1. P \subseteq Nat
    BY DEF P
  <2> QED
    BY <1>1, <1>2, <2>1, NatSetInduction
<1> QED
  BY <1>3

(* And an integer.                                                         *)
LEMMA PowerType ==
    ASSUME NEW b \in Int, NEW n \in Nat
    PROVE  Power(b, n) \in Int
<1> DEFINE IsPower(p) == p = [i \in 0..n |-> IF i = 0 THEN 1 ELSE b * p[i - 1]]
           power == CHOOSE p : IsPower(p)
<1>1. IsPower(power)
  BY PowerExists
<1>2. Power(b, n) = power[n]
  BY DEF Power
<1> HIDE DEF power
<1> DEFINE P == { i \in Nat : i <= n => power[i] \in Int }
<1>3. 0 \in P
  BY <1>1
<1>4. \A i \in P : i + 1 \in P
  BY <1>1
<1>5. P = Nat
  <2> HIDE DEF P
  <2>1. P \subseteq Nat
    BY DEF P
  <2> QED
    BY <1>3, <1>4, <2>1, NatSetInduction
<1> QED
  BY <1>2, <1>5

-----------------------------------------------------------------------------
(* Absent importance is 1.0, and a NaN stands at either end.               *)
ImportanceRange == 0..Scale \cup {NaN, NegZero, NegNaN}

(* The importance a rule reads.                                            *)
LEMMA ImportanceType ==
    ASSUME NEW c \in CandidateSet
    PROVE  Importance(c) \in ImportanceRange
  BY NumbersAssumption, ScaleAssumption DEF Importance, NaN, NegZero, NegNaN, NONE, ImportanceRange

(* salience() is defined for what u64 and clamp let in                     *)
(* (src/retention.rs:112-139).                                             *)
LEMMA SalienceType ==
    ASSUME NEW r \in RuleSet, r.op = "KeepTopBySalience", NEW c \in CandidateSet
    PROVE  Salience(r, c) \in Int
<1> DEFINE h == IF r.half_life = 0 THEN 1 ELSE r.half_life
           reference == IF c.valid_from # NONE THEN c.valid_from ELSE c.written_at
<1>1. r.half_life \in Nat /\ r.as_of \in Nat
  BY NumbersAssumption
<1>2. h \in Nat
  BY <1>1
<1>3. Importance(c) \in Int
  BY ImportanceType, ScaleAssumption DEF ImportanceRange, NaN, NegZero, NegNaN
<1>4. Power(Importance(c), h) \in Int
  BY <1>2, <1>3, PowerType
<1>5. reference = NONE \/ reference \in Nat
  BY NumbersAssumption
<1>6. r.as_of - Age(r, c) \in Nat
  <2> HIDE DEF reference
  <2> QED
    BY <1>1, <1>5 DEF Age, reference
<1>7. Power(2, r.as_of - Age(r, c)) \in Int
  BY <1>6, PowerType
<1> QED
  BY <1>4, <1>7 DEF Salience

(* total_cmp on saliences is a strict weak order, with NaN: no two come    *)
(* before each other, and if c comes before d, any third one comes after c *)
(* or before d (src/retention.rs:526-529).                                 *)
LEMMA SalientWeakOrder ==
    ASSUME NEW r \in RuleSet, r.op = "KeepTopBySalience",
           NEW c \in CandidateSet, NEW d \in CandidateSet, NEW e \in CandidateSet
    PROVE  /\ ~(MoreSalient(r, c, d) /\ MoreSalient(r, d, c))
           /\ MoreSalient(r, c, d) => MoreSalient(r, c, e) \/ MoreSalient(r, e, d)
<1> DEFINE I(x) == Importance(x)
           S(x) == Salience(r, x)
<1>1. /\ I(c) \in ImportanceRange /\ I(d) \in ImportanceRange /\ I(e) \in ImportanceRange
      /\ S(c) \in Int /\ S(d) \in Int /\ S(e) \in Int
  BY ImportanceType, SalienceType
<1>2. \A x, y : MoreSalient(r, x, y) <=>
         IF I(x) \in {NaN, NegNaN} \/ I(y) \in {NaN, NegNaN} THEN I(x) > I(y) ELSE S(x) > S(y)
  BY DEF MoreSalient, IsNaN
<1> HIDE DEF I, S
<1> QED
  BY <1>1, <1>2, ScaleAssumption DEF ImportanceRange, NaN, NegZero, NegNaN

(* Either comparator is one (src/retention.rs:503-507, 526-529).           *)
LEMMA BeforeWeakOrder ==
    ASSUME NEW r \in RuleSet, Ranks(r), facts \in [Ids -> CandidateSet],
           NEW c \in Ids, NEW d \in Ids, NEW e \in Ids
    PROVE  /\ ~(Before(r, c, d) /\ Before(r, d, c))
           /\ Before(r, c, d) => Before(r, c, e) \/ Before(r, e, d)
<1>1. facts[c] \in CandidateSet /\ facts[d] \in CandidateSet /\ facts[e] \in CandidateSet
  OBVIOUS
<1>2. CASE r.op = "KeepMostRecent"
  <2>1. \A x \in {c, d, e} : facts[x].sequence \in Int /\ facts[x].written_at \in Int
    BY <1>1, NumbersAssumption DEF NONE
  <2>2. \A x, y \in {c, d, e} : Before(r, x, y) <=> Newer(facts[x], facts[y])
    BY <1>2 DEF Before
  <2> QED
    BY <2>1, <2>2 DEF Newer
<1>3. CASE r.op = "KeepTopBySalience"
  <2>1. \A x, y : Before(r, x, y) <=> MoreSalient(r, facts[x], facts[y])
    BY <1>3 DEF Before
  <2> QED
    BY <1>1, <1>3, <2>1, SalientWeakOrder
<1> QED
  BY <1>2, <1>3 DEF Ranks

-----------------------------------------------------------------------------
(* What a stable sort by either order makes of current_batch.              *)
SortedPairs(r) == { z \in pool \X pool : Sorted(r, z[1], z[2]) }

(* A stable sort decides every two members of a list.                      *)
LEMMA SortIsTotal ==
    ASSUME TypeOK, PoolIsAList, NEW r \in RuleSet, Ranks(r)
    PROVE  StrictTotalOrder(SortedPairs(r), pool)
<1>1. \A x, y \in pool : <<x, y>> \in SortedPairs(r) <=> Sorted(r, x, y)
  BY DEF SortedPairs
<1>2. \A x, y, z \in pool :
         /\ ~(Before(r, x, y) /\ Before(r, y, x))
         /\ Before(r, x, y) => Before(r, x, z) \/ Before(r, z, y)
  <2>1. pool \subseteq Ids /\ facts \in [Ids -> CandidateSet]
    BY DEF TypeOK
  <2> QED
    BY <2>1, BeforeWeakOrder
<1>3. \A x \in pool : rank[x] \in Nat
  BY DEF TypeOK
<1>4. \A x, y \in pool : x # y => rank[x] # rank[y]
  BY DEF PoolIsAList
<1>5. \A x \in pool : ~Sorted(r, x, x)
  BY <1>2, <1>3 DEF Sorted
<1>6. \A x, y, z \in pool : Sorted(r, x, y) /\ Sorted(r, y, z) => Sorted(r, x, z)
  BY <1>2, <1>3 DEF Sorted
<1>7. \A x, y \in pool : x # y => Sorted(r, x, y) \/ Sorted(r, y, x)
  BY <1>2, <1>3, <1>4 DEF Sorted
<1> QED
  BY <1>1, <1>5, <1>6, <1>7 DEF StrictTotalOrder

(* The position the model counts is the place in that order.               *)
LEMMA PositionIsPlace ==
    ASSUME NEW r, NEW c \in pool
    PROVE  Position(r, c) = Place(SortedPairs(r), pool, c)
<1>1. { d \in pool : Sorted(r, d, c) } = Below(SortedPairs(r), pool, c)
  BY DEF SortedPairs, Below
<1> QED
  BY <1>1 DEF Position, Place

(* The pool is one of finitely many candidates.                            *)
LEMMA PoolIsFinite ==
    ASSUME TypeOK
    PROVE  IsFiniteSet(pool)
  BY FS_Subset, IdsAssumption DEF TypeOK

(* So the positions after the sort are a list in the rule's order.         *)
LEMMA PositionsOrder ==
    ASSUME TypeOK, PoolIsAList, NEW r \in RuleSet, Ranks(r), NEW c \in pool, NEW d \in pool
    PROVE  /\ Position(r, c) \in Nat
           /\ Sorted(r, c, d) <=> Position(r, c) < Position(r, d)
           /\ Position(r, c) = Position(r, d) => c = d
<1>1. IsFiniteSet(pool) /\ StrictTotalOrder(SortedPairs(r), pool)
  BY PoolIsFinite, SortIsTotal
<1>2. <<c, d>> \in SortedPairs(r) <=> Sorted(r, c, d)
  BY DEF SortedPairs
<1>3. Position(r, c) \in Nat
  BY PositionType DEF TypeOK
<1> QED
  BY <1>1, <1>2, <1>3, PlacesOrder, PositionIsPlace

(* Every step leaves current_batch a list.                                 *)
LEMMA ListStep ==
    ASSUME TypeOK, PoolIsAList, [Next]_vars
    PROVE  PoolIsAList'
<1> USE DEF PoolIsAList
<1>1. ASSUME NEW r \in RuleSet, AddRule(r)
      PROVE  PoolIsAList'
  BY <1>1 DEF AddRule
<1>2. ASSUME NEW d \in Decisions, SetDefault(d)
      PROVE  PoolIsAList'
  BY <1>2 DEF SetDefault
<1>3. CASE BeginBatch
  BY <1>3 DEF BeginBatch
<1>4. CASE RankPool
  <2> DEFINE r == rules[next_rule]
  <2>1. r \in RuleSet /\ Ranks(r)
    BY <1>4 DEF RankPool, AtRule, TypeOK
  <2>2. pool' \subseteq pool /\ \A c \in pool' : rank'[c] = Position(r, c)
    BY <1>4 DEF RankPool, TypeOK
  <2> QED
    BY <2>1, <2>2, PositionsOrder
<1>5. CASE FilterPool
  BY <1>5 DEF FilterPool, Judged
<1>6. CASE FinishBatch
  BY <1>6 DEF FinishBatch
<1>7. CASE UNCHANGED vars
  BY <1>7 DEF vars
<1> QED
  BY <1>1, <1>2, <1>3, <1>4, <1>5, <1>6, <1>7 DEF Next

(* No two candidates share a position in current_batch, through any        *)
(* number of sorts that each keep the order of the one before among ties   *)
(* (src/retention.rs:502-542).                                             *)
THEOREM PoolStaysAList == Spec => []PoolIsAList
<1>1. Init => PoolIsAList
  BY DEF Init, PoolIsAList
<1> QED
  BY <1>1, ListStep, TypeCorrect, PTL DEF Spec

(* The smaller of two.                                                     *)
LEMMA MinOfTwo ==
    ASSUME NEW a \in Nat, NEW b \in Nat
    PROVE  Min({a, b}) = IF a < b THEN a ELSE b
<1> DEFINE m == IF a < b THEN a ELSE b
<1>1. m \in {a, b} /\ \A y \in {a, b} : m <= y
  OBVIOUS
<1>2. \A x \in {a, b} : (\A y \in {a, b} : x <= y) => x = m
  OBVIOUS
<1> QED
  BY <1>1, <1>2 DEF Min

(* A smaller position is a place before, in the rule's order and, where it *)
(* has none, in the order of the list before (src/retention.rs:502-542).   *)
LEMMA PositionsFollowBoth ==
    ASSUME TypeOK, PoolIsAList, NEW r \in RuleSet, Ranks(r), NEW c \in pool, NEW d \in pool,
           Position(r, c) < Position(r, d)
    PROVE  GoesFirst(r, c, d)
<1>1. Sorted(r, c, d)
  BY PositionsOrder
<1>2. facts \in [Ids -> CandidateSet] /\ c \in Ids /\ d \in Ids
  BY DEF TypeOK
<1>3. ~(Before(r, c, d) /\ Before(r, d, c))
  BY <1>2, BeforeWeakOrder
<1> QED
  BY <1>1, <1>3 DEF Sorted, GoesFirst

(* Who has a sequence goes before who has none (src/retention.rs:504-505). *)
LEMMA MissingSequenceGoesLast ==
    ASSUME TypeOK, NEW r \in RuleSet, r.op = "KeepMostRecent", NEW c \in Ids, NEW d \in Ids,
           ~Before(r, d, c), facts[d].sequence # NONE
    PROVE  facts[c].sequence # NONE
<1>1. facts[c] \in CandidateSet /\ facts[d] \in CandidateSet
  BY DEF TypeOK
<1>2. facts[d].sequence \in Nat /\ facts[c].sequence \in Nat \cup {NONE}
  BY <1>1, NumbersAssumption
<1> QED
  BY <1>2 DEF Before, Newer, NONE

(* Whatever rules came before, a ranking rule keeps exactly as many as its *)
(* quota and the pool allow, passes over nobody its order puts first or,   *)
(* where it has none, the list before; and passes the others on in order   *)
(* (src/retention.rs:502-542).                                             *)
THEOREM QuotaTakesTheTop == Spec => RankingTakesTheTop
<1> DEFINE r == rules[next_rule]
           kept == keep' \ keep
           Ranking == /\ phase = "running"
                      /\ next_rule \in DOMAIN rules
                      /\ next_rule' # next_rule
                      /\ Ranks(r)
           InOrder == /\ \A c \in kept, d \in pool' :
                            /\ GoesFirst(r, c, d)
                            /\ r.op = "KeepMostRecent" /\ facts[d].sequence # NONE =>
                                  facts[c].sequence # NONE
                      /\ \A c, d \in pool' : rank'[c] < rank'[d] => GoesFirst(r, c, d)
<1>1. TypeOK /\ ReportInv /\ PoolIsAList /\ [Next]_vars
        => [ Ranking =>
               /\ kept \cup pool' = pool
               /\ Cardinality(kept) = Min({r.count, Cardinality(pool)})
               /\ InOrder ]_vars
  <2> SUFFICES ASSUME TypeOK, ReportInv, PoolIsAList, Next, Ranking
               PROVE  /\ kept \cup pool' = pool
                      /\ Cardinality(kept) = Min({r.count, Cardinality(pool)})
                      /\ InOrder
    OBVIOUS
  <2> DEFINE first == { c \in pool : Position(r, c) < r.count }
  <2>1. RankPool
    <3>1. ASSUME NEW x \in RuleSet, AddRule(x)
          PROVE  FALSE
      BY <3>1 DEF AddRule
    <3>2. ASSUME NEW d \in Decisions, SetDefault(d)
          PROVE  FALSE
      BY <3>2 DEF SetDefault
    <3>3. ~BeginBatch
      BY DEF BeginBatch
    <3>4. ~FilterPool
      BY DEF FilterPool
    <3>5. ~FinishBatch
      BY DEF FinishBatch
    <3> QED
      BY <3>1, <3>2, <3>3, <3>4, <3>5 DEF Next
  <2>2. /\ keep' = keep \cup first /\ pool' = pool \ first
        /\ \A c \in pool' : rank'[c] = Position(r, c)
    BY <2>1 DEF RankPool, TypeOK
  <2>3. r \in RuleSet /\ (r.op = "KeepMostRecent" \/ r.op = "KeepTopBySalience")
    BY DEF TypeOK, Ranks
  <2>4. r.count \in Nat
    BY <2>3, NumbersAssumption
  <2>5. kept = first
    <3>1. pool \cap keep = {}
      BY DEF ReportInv, Partition
    <3> QED
      BY <2>2, <3>1
  <2>6. Cardinality(first) = Min({r.count, Cardinality(pool)})
    <3>1. IsFiniteSet(pool) /\ StrictTotalOrder(SortedPairs(r), pool)
      BY <2>3, PoolIsFinite, SortIsTotal
    <3>2. first = { c \in pool : Place(SortedPairs(r), pool, c) < r.count }
      BY PositionIsPlace
    <3>3. Cardinality(first)
            = IF r.count < Cardinality(pool) THEN r.count ELSE Cardinality(pool)
      BY <2>4, <3>1, <3>2, FirstPlaces
    <3>4. Cardinality(pool) \in Nat
      BY <3>1, FS_CardinalityType
    <3> QED
      BY <2>4, <3>3, <3>4, MinOfTwo
  <2>7. ASSUME NEW c \in first, NEW d \in pool \ first
        PROVE  /\ GoesFirst(r, c, d)
               /\ r.op = "KeepMostRecent" /\ facts[d].sequence # NONE =>
                     facts[c].sequence # NONE
    <3>1. Position(r, c) \in Nat /\ Position(r, d) \in Nat
      BY <2>3, PositionsOrder
    <3>2. Position(r, c) < Position(r, d)
      BY <2>4, <3>1
    <3>3. GoesFirst(r, c, d)
      BY <2>3, <3>2, PositionsFollowBoth
    <3>4. c \in Ids /\ d \in Ids
      BY DEF TypeOK
    <3> QED
      BY <2>3, <3>3, <3>4, MissingSequenceGoesLast DEF GoesFirst
  <2>8. ASSUME NEW c \in pool', NEW d \in pool', rank'[c] < rank'[d]
        PROVE  GoesFirst(r, c, d)
    <3>1. c \in pool /\ d \in pool /\ Position(r, c) < Position(r, d)
      BY <2>2, <2>8
    <3> QED
      BY <2>3, <3>1, PositionsFollowBoth
  <2>9. kept \cup pool' = pool
    BY <2>2, <2>5
  <2>10. Cardinality(kept) = Min({r.count, Cardinality(pool)})
    BY <2>5, <2>6
  <2>11. InOrder
    <3> HIDE DEF first
    <3> QED
      BY <2>2, <2>5, <2>7, <2>8
  <2> QED
    BY <2>9, <2>10, <2>11
<1> QED
  BY <1>1, PoolStaysAList, ReportCorrect, TypeCorrect, PTL DEF Spec, RankingTakesTheTop
=============================================================================
