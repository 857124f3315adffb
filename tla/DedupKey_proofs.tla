---------------------------- MODULE DedupKey_proofs ----------------------------
(***************************************************************************)
(* compute_key is injective on entries whose heads and scopes are free of  *)
(* NUL, for texts of any length and any bytes.                             *)
(***************************************************************************)
EXTENDS DedupKey, SequenceTheorems, TLAPS

NulFree(s) == s \in Seq(Nat) /\ \A i \in DOMAIN s : s[i] # NUL

WithNul(s, a) == s \o <<NUL>> \o a

(* What stands before the first NUL of a byte string is determined by it.  *)
LEMMA FirstNul ==
    ASSUME NEW s, NulFree(s), NEW a \in Seq(Nat),
           NEW t, NulFree(t), NEW b \in Seq(Nat),
           WithNul(s, a) = WithNul(t, b)
    PROVE  s = t /\ a = b
<1> DEFINE u == WithNul(s, a)
           v == WithNul(t, b)
<1>1. s \in Seq(Nat) /\ t \in Seq(Nat)
  BY DEF NulFree
<1>2. /\ Len(u) = Len(s) + 1 + Len(a)
      /\ u[Len(s) + 1] = NUL
      /\ \A i \in 1..Len(s) : u[i] = s[i]
      /\ \A i \in 1..Len(a) : u[Len(s) + 1 + i] = a[i]
  BY <1>1 DEF WithNul
<1>3. /\ Len(v) = Len(t) + 1 + Len(b)
      /\ v[Len(t) + 1] = NUL
      /\ \A i \in 1..Len(t) : v[i] = t[i]
      /\ \A i \in 1..Len(b) : v[Len(t) + 1 + i] = b[i]
  BY <1>1 DEF WithNul
<1>4. u = v
  OBVIOUS
<1> HIDE DEF u, v
<1>5. Len(s) = Len(t)
  <2>1. CASE Len(s) < Len(t)
    <3>1. Len(s) + 1 \in 1..Len(t)
      BY <1>1, <2>1
    <3>2. t[Len(s) + 1] = NUL
      BY <1>2, <1>3, <1>4, <3>1
    <3> QED
      BY <1>1, <3>1, <3>2 DEF NulFree
  <2>2. CASE Len(t) < Len(s)
    <3>1. Len(t) + 1 \in 1..Len(s)
      BY <1>1, <2>2
    <3>2. s[Len(t) + 1] = NUL
      BY <1>2, <1>3, <1>4, <3>1
    <3> QED
      BY <1>1, <3>1, <3>2 DEF NulFree
  <2> QED
    BY <1>1, <2>1, <2>2
<1>6. s = t
  <2>1. \A i \in 1..Len(s) : s[i] = t[i]
    BY <1>2, <1>3, <1>4, <1>5
  <2> QED
    BY <1>1, <1>5, <2>1, SeqEqual
<1>7. Len(a) = Len(b)
  BY <1>1, <1>2, <1>3, <1>4, <1>5
<1>8. a = b
  <2>1. \A i \in 1..Len(a) : a[i] = b[i]
    BY <1>2, <1>3, <1>4, <1>5, <1>7
  <2> QED
    BY <1>7, <2>1, SeqEqual
<1> QED
  BY <1>6, <1>8

(* The four separators of compute_key, one after the other.                *)
LEMMA KeyIsInjective ==
    ASSUME NEW e \in Fields, NEW f \in Fields,
           \A h \in Heads : NulFree(h),
           \A scope \in Scopes : NulFree(Unwrapped(scope)),
           Texts \subseteq Seq(Nat),
           compute_key(e) = compute_key(f)
    PROVE  Seen(e) = Seen(f)
<1> DEFINE Tail3(x) == WithNul(Unwrapped(x.scope), x.text)
           Tail2(x) == WithNul(x.role, Tail3(x))
           Tail1(x) == WithNul(x.conversation_id, Tail2(x))
<1>1. \A x \in Fields :
        /\ NulFree(x.kind) /\ NulFree(x.conversation_id) /\ NulFree(x.role)
        /\ NulFree(Unwrapped(x.scope)) /\ x.text \in Seq(Nat)
  BY DEF Fields
<1>2. ASSUME NEW s, NulFree(s), NEW a \in Seq(Nat)
      PROVE  WithNul(s, a) \in Seq(Nat)
  BY <1>2 DEF WithNul, NulFree, NUL
<1>3. \A x \in Fields : /\ Tail3(x) \in Seq(Nat)
                        /\ Tail2(x) \in Seq(Nat)
                        /\ Tail1(x) \in Seq(Nat)
  BY <1>1, <1>2
<1>4. \A x \in Fields : compute_key(x) = WithNul(x.kind, Tail1(x))
  BY DEF compute_key, WithNul
<1>5. e.kind = f.kind /\ Tail1(e) = Tail1(f)
  <2>1. WithNul(e.kind, Tail1(e)) = WithNul(f.kind, Tail1(f))
    BY <1>4
  <2> HIDE DEF Tail1
  <2> QED
    BY <1>1, <1>3, <2>1, FirstNul
<1>6. e.conversation_id = f.conversation_id /\ Tail2(e) = Tail2(f)
  <2> HIDE DEF Tail2
  <2> QED
    BY <1>1, <1>3, <1>5, FirstNul
<1>7. e.role = f.role /\ Tail3(e) = Tail3(f)
  <2> HIDE DEF Tail3
  <2> QED
    BY <1>1, <1>3, <1>6, FirstNul
<1>8. Unwrapped(e.scope) = Unwrapped(f.scope) /\ e.text = f.text
  BY <1>1, <1>7, FirstNul
<1> QED
  BY <1>5, <1>6, <1>7, <1>8 DEF Seen, Fields

(* No two entries that the gate tells apart share a key                    *)
(* (src/dedup.rs:42-43), as long as no kind, conversation, role or scope   *)
(* contains NUL.                                                           *)
THEOREM EntriesAreSeparated ==
    ASSUME \A h \in Heads : NulFree(h),
           \A scope \in Scopes : NulFree(Unwrapped(scope)),
           Texts \subseteq Seq(Nat)
    PROVE  Spec => []KeysSeparateEntries
<1>1. Init => offered \subseteq Fields
  BY DEF Init
<1>2. offered \subseteq Fields /\ [Next]_offered => (offered \subseteq Fields)'
  BY DEF Next, Offer
<1>3. offered \subseteq Fields => KeysSeparateEntries
  BY KeyIsInjective DEF KeysSeparateEntries
<1> QED
  BY <1>1, <1>2, <1>3, PTL DEF Spec
=============================================================================
