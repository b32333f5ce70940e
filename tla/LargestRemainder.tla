------------------------- MODULE LargestRemainder -------------------------
(***************************************************************************)
(* What allocateWeightedCents (internal/store/store.go) may return: the    *)
(* largest-remainder apportionment of a number of cents over weighted      *)
(* source budgets.  sort.Slice is not stable, so equal remainders may be   *)
(* served in any order: Shares is the SET of the results the code can      *)
(* give, not one of them.                                                  *)
(*                                                                         *)
(* The code works in float64.  Below 2^53 the floor and the order of two   *)
(* different remainders are those of the exact quotients, which differ by  *)
(* at least 1 / TotalWeight; quotients are therefore exact here.           *)
(***************************************************************************)
EXTENDS Integers, FiniteSets, Functions

\* A weight row maps every budget to its weight, 0 standing for "not a source".
Weighted(w) == {s \in DOMAIN w : w[s] > 0}
TotalWeight(w) == SumFunction(w)

\* floor(exact), and the remainder in units of 1 / TotalWeight.
Base(total, w, s) == (total * w[s]) \div TotalWeight(w)
Remainder(total, w, s) == (total * w[s]) % TotalWeight(w)

BaseShares(total, w) == [s \in DOMAIN w |-> Base(total, w, s)]
Leftover(total, w) == total - SumFunction(BaseShares(total, w))

\* Mutant: every share that is not whole is rounded up.
EveryUneven(total, w, Up) == Up = {s \in Weighted(w) : Remainder(total, w, s) > 0}

\* The sources of Up get one cent more than their floor: as many as there are
\* cents left, and none of them with a smaller remainder than one left out.
TopRemainders(total, w, Up) ==
    /\ Cardinality(Up) = Leftover(total, w)
    /\ \A u \in Up, v \in Weighted(w) \ Up :
          Remainder(total, w, u) >= Remainder(total, w, v)

Shares(total, w) ==
    IF total <= 0 \/ Weighted(w) = {}
    THEN {[s \in DOMAIN w |-> 0]}
    ELSE {a \in [DOMAIN w -> 0..total] :
            \E Up \in SUBSET Weighted(w) :
                /\ TopRemainders(total, w, Up)
                /\ a = [s \in DOMAIN w |->
                          Base(total, w, s) + (IF s \in Up THEN 1 ELSE 0)]}

=============================================================================
