------------------------------- MODULE Skyline -------------------------------
(***************************************************************************)
(* The skyline of librz/util/skyline.c: intervals added one over the other *)
(* are kept as a sorted sequence of the parts that are not covered.        *)
(* Addresses are W of them, 0 to W - 1, and computed modulo W as ut64 is   *)
(* modulo 2^64: an interval that reaches the last address ends at 0.       *)
(***************************************************************************)
EXTENDS Integers, Sequences

CONSTANTS
    W,      \* 2^64
    None    \* NULL

WAssumption == W \in Nat \ {0}

Addr == 0..(W - 1)

\* rz_itv_end.
End(itv) == (itv.addr + itv.size) % W

\* rz_itv_include: x is a subset of itv.
Include(itv, x) ==
    /\ itv.addr <= x.addr
    /\ End(itv) = 0 \/ (End(x) # 0 /\ End(x) <= End(itv))

\* rz_itv_overlap.
Overlap(itv, x) ==
    /\ End(x) = 0 \/ itv.addr < End(x)
    /\ End(itv) = 0 \/ x.addr < End(itv)

\* rz_vector_lower_bound over n elements: the search goes up from those in `smaller`.
LowerBound(n, smaller) ==
    LET search[b \in (0..n) \X (0..n)] ==   \* the bounds i and h
          IF b[1] >= b[2] THEN b[1]
          ELSE LET m == b[1] + (b[2] - b[1]) \div 2 IN
                 IF m + 1 \in smaller THEN search[<<m + 1, b[2]>>] ELSE search[<<b[1], m>>]
    IN  search[<<0, n>>]

\* What remains of the parts from `slot` on: those inside the new part are
\* removed, and the start of the next is chopped if it overlaps.
Uncovered(new, rest) ==
    LET k == CHOOSE n \in 0..Len(rest) :
               /\ \A j \in 1..n : Include(new, rest[j])
               /\ n < Len(rest) => ~Include(new, rest[n + 1])
        left == SubSeq(rest, k + 1, Len(rest))
    IN  IF left # <<>> /\ Overlap(new, Head(left))
        THEN <<[addr |-> End(new), size |-> (Head(left).size - (End(new) - Head(left).addr)) % W,
                user |-> Head(left).user]>> \o Tail(left)
        ELSE left

\* rz_skyline_add.
SkylineAdd(sky, itv, user) ==
    LET new == [addr |-> itv.addr, size |-> itv.size, user |-> user]
        slot == LowerBound(Len(sky), {j \in DOMAIN sky : new.addr > sky[j].addr})
        prev == sky[slot]
        cut == slot > 0 /\ End(prev) > new.addr
        inside == cut /\ End(prev) > End(new)
        before == SubSeq(sky, 1, slot)
        rest == SubSeq(sky, slot + 1, Len(sky))
        tail == [addr |-> End(new), size |-> (End(prev) - End(new)) % W, user |-> prev.user]
    IN  (IF cut THEN [before EXCEPT ![slot].size = (new.addr - prev.addr) % W] ELSE before)
        \o <<new>>
        \o (IF inside THEN <<tail>> \o rest ELSE Uncovered(new, rest))

\* A skyline built anew: every interval of a list goes over those before it.
SkylineOf(list) ==
    LET skylines[k \in 0..Len(list)] ==
          IF k = 0 THEN <<>> ELSE SkylineAdd(skylines[k - 1], list[k], list[k].id)
    IN  skylines[Len(list)]

\* rz_skyline_get.
SkylineGet(sky, addr) ==
    LET i == LowerBound(Len(sky), {j \in DOMAIN sky : addr >= End(sky[j]) /\ End(sky[j]) # 0})
    IN  IF i < Len(sky) /\ ((addr + 1) % W = 0 \/ sky[i + 1].addr < addr + 1)
        THEN sky[i + 1].user ELSE None
=============================================================================
