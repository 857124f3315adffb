--------------------------------- MODULE Fusion ---------------------------------
(***************************************************************************)
(* reciprocal_rank_fusion of src/fusion.rs: the loop over the lists, one   *)
(* step per item, and the sort after it.  The input is read as it is       *)
(* typed, so every state is the end of some input.                         *)
(*                                                                         *)
(* Scores are exact: the sum of 1/(k + rank), in units of 1/Unit.  k is a  *)
(* positive whole number; the clamp of other values and the rounding of    *)
(* f64 are left out.                                                       *)
(***************************************************************************)
EXTENDS SequencesExt

CONSTANTS
    Items,
    Ks,         \* values of k
    MaxLists,   \* bound: lists
    MaxItems,   \* bound: items of a list
    Unit        \* a common multiple of all k + rank

VARIABLES k, lists, order, scores

vars == <<k, lists, order, scores>>

Init ==
    /\ k \in Ks
    /\ lists = << >>
    /\ order = << >>
    /\ scores = << >>

NextList ==
    /\ Len(lists) < MaxLists
    /\ lists' = Append(lists, << >>)
    /\ UNCHANGED <<k, order, scores>>

(* Mutant: the damping is left out.                                        *)
contribution_undamped(rank) == Unit \div (1 + rank)

contribution(rank) == Unit \div (k + rank)

SeeItem(item) ==
    LET rank == Len(Last(lists))
        found == { slot \in DOMAIN order : order[slot] = item }
    IN  /\ lists # << >>
        /\ rank < MaxItems
        /\ lists' = [lists EXCEPT ![Len(lists)] = Append(@, item)]
        /\ IF found # {}
           THEN /\ scores' = [slot \in DOMAIN scores |->
                       scores[slot] + IF slot \in found THEN contribution(rank) ELSE 0]
                /\ UNCHANGED order
           ELSE /\ order' = Append(order, item)
                /\ scores' = Append(scores, contribution(rank))
        /\ UNCHANGED k

Next == NextList \/ \E item \in Items : SeeItem(item)

(* The items under an order of their slots: the n-th has n - 1 before it.  *)
Arranged(before) ==
    [n \in DOMAIN order |->
        order[CHOOSE s \in DOMAIN order :
                 Cardinality({ t \in DOMAIN order : <<t, s>> \in before }) = n - 1]]

SlotPairs == (DOMAIN order) \X (DOMAIN order)

(* Mutant: the later item wins a tie.                                      *)
fused_late ==
    Arranged({ p \in SlotPairs : \/ scores[p[1]] > scores[p[2]]
                                 \/ scores[p[1]] = scores[p[2]] /\ p[1] > p[2] })

(* The items, best first.                                                  *)
fused ==
    Arranged({ p \in SlotPairs : \/ scores[p[1]] > scores[p[2]]
                                 \/ scores[p[1]] = scores[p[2]] /\ p[1] < p[2] })

-----------------------------------------------------------------------------
(* The lists with an item at a place, or at any.                           *)
ListsAt(item, place) ==
    { i \in DOMAIN lists : place \in DOMAIN lists[i] /\ lists[i][place] = item }

ListsWith(item) == UNION { ListsAt(item, place) : place \in 1..MaxItems }

present == { item \in Items : ListsWith(item) # {} }

(* The sum of 1/(k + rank) over the places of an item: place by place, in  *)
(* how many lists it stands there.                                         *)
Sum(item) ==
    LET upTo[place \in 0..MaxItems] ==
            IF place = 0 THEN 0
            ELSE upTo[place - 1]
                   + Cardinality(ListsAt(item, place)) * (Unit \div (k + place - 1))
    IN  upTo[MaxItems]

(* A place of x comes before every place of y, lists counted in order.     *)
SeenBefore(x, y) ==
    \E p \in 1..MaxItems : \E i \in ListsAt(x, p) :
        \A q \in 1..MaxItems : \A j \in ListsAt(y, q) : i < j \/ (i = j /\ p < q)

Ahead(x, y) ==
    \E i, j \in DOMAIN fused : i < j /\ fused[i] = x /\ fused[j] = y

(* Every item of the input comes out once, and x before y exactly if the   *)
(* sum of 1/(k + rank) over the places of x is greater, or equal and x was *)
(* seen first (src/fusion.rs:39-44): the slots of the hash index, the      *)
(* scores and the order belong together.                                   *)
FusionIsBySums ==
    /\ { fused[n] : n \in DOMAIN fused } = present
    /\ Len(fused) = Cardinality(present)
    /\ \A x, y \in present :
          Ahead(x, y) <=> Sum(x) > Sum(y) \/ (Sum(x) = Sum(y) /\ SeenBefore(x, y))

NoRepeats ==
    \A i \in DOMAIN lists : \A p, q \in DOMAIN lists[i] : lists[i][p] = lists[i][q] => p = q

(* item_in_both_lists_outranks_item_in_one (the test at src/fusion.rs:125) *)
(* for all lists, where k is larger than the number of places in them:     *)
(* agreement between lists counts more than any place in a single one.     *)
AgreementOutranks ==
    NoRepeats /\ k > MaxLists * MaxItems =>
        \A x, y \in present :
            Cardinality(ListsWith(x)) > Cardinality(ListsWith(y)) => Ahead(x, y)
=============================================================================
