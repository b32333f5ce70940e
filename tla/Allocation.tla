---------------------------- MODULE Allocation ----------------------------
(***************************************************************************)
(* allocateWeightedCents (internal/store/store.go) as the loop it is: one  *)
(* pass over the sources that floors each share, an unstable sort of the   *)
(* remainders, and a hand-out loop that gives the cents left one by one.   *)
(* Its result is compared with LargestRemainder, which the payroll modules *)
(* use in its place.                                                       *)
(***************************************************************************)
EXTENDS LargestRemainder, Sequences

CONSTANTS
    Sources,    \* the indices 1..n of the slice of sources
    MaxTotal,   \* bound: the deficit, in cents
    MaxWeight   \* bound: a weight (the API accepts 0..100)

ASSUME AllocationAssumption ==
    /\ MaxTotal \in Nat /\ MaxWeight \in Nat
    /\ IsFiniteSet(Sources) /\ Sources = 1..Cardinality(Sources)

VARIABLES
    totalCents, weight,     \* the arguments
    pc,
    idx,                    \* next source of the flooring pass
    allocations, allocated, \* the result so far, and the sum of the floors
    remainders,             \* the slice remainders: sources by their remainder
    next,                   \* position in remainders of the hand-out loop
    remaining               \* cents not handed out yet

vars == <<totalCents, weight, pc, idx, allocations, allocated, remainders,
          next, remaining>>

Init ==
    /\ totalCents \in 0..MaxTotal
    /\ weight \in [Sources -> 0..MaxWeight]
    /\ pc = "guard"
    /\ idx = 1
    /\ allocations = [s \in Sources |-> 0]
    /\ allocated = 0
    /\ remainders = << >>
    /\ next = 1
    /\ remaining = 0

\* The two early returns, with every allocation zero.
ReturnZero ==
    /\ pc = "guard"
    /\ totalCents <= 0 \/ TotalWeight(weight) <= 0
    /\ pc' = "done"
    /\ UNCHANGED <<totalCents, weight, idx, allocations, allocated, remainders,
                   next, remaining>>

EnterLoop ==
    /\ pc = "guard"
    /\ totalCents > 0 /\ TotalWeight(weight) > 0
    /\ pc' = "floor"
    /\ UNCHANGED <<totalCents, weight, idx, allocations, allocated, remainders,
                   next, remaining>>

\* One turn of the flooring pass; a source of weight 0 is skipped.
FloorSource ==
    /\ pc = "floor" /\ idx \in Sources
    /\ idx' = idx + 1
    /\ LET base == Base(totalCents, weight, idx)
       IN  IF weight[idx] <= 0
           THEN UNCHANGED <<allocations, allocated, remainders>>
           ELSE /\ allocations' = [allocations EXCEPT ![idx] = base]
                /\ allocated' = allocated + base
                /\ remainders' = Append(remainders, idx)
    /\ UNCHANGED <<totalCents, weight, pc, next, remaining>>

\* Mutant: the smallest remainder first.
SortedAscending(order) ==
    \A i, j \in DOMAIN order :
        i < j => Remainder(totalCents, weight, order[i])
                   <= Remainder(totalCents, weight, order[j])

\* sort.Slice by decreasing remainder: any order of the equal ones.
Sorted(order) ==
    \A i, j \in DOMAIN order :
        i < j => Remainder(totalCents, weight, order[i])
                   >= Remainder(totalCents, weight, order[j])

SortRemainders ==
    /\ pc = "floor" /\ idx \notin Sources
    /\ remaining' = totalCents - allocated
    /\ \E order \in [DOMAIN remainders -> Weighted(weight)] :
          /\ IsInjective(order) /\ Sorted(order)
          /\ remainders' = order
    /\ pc' = "handout"
    /\ UNCHANGED <<totalCents, weight, idx, allocations, allocated, next>>

\* One cent to a source; the order starts again after its last source.
HandOut(source) ==
    /\ pc = "handout" /\ remaining > 0
    /\ allocations' = [allocations EXCEPT ![source] = @ + 1]
    /\ remaining' = remaining - 1
    /\ next' = IF next = Len(remainders) THEN 1 ELSE next + 1
    /\ UNCHANGED <<totalCents, weight, pc, idx, allocated, remainders>>

\* Mutants: every cent to the first of the order; cents handed out
\* but never counted down.
HandOutToFirst == HandOut(remainders[1])
HandOutForever ==
    /\ pc = "handout" /\ remaining > 0
    /\ next' = IF next = Len(remainders) THEN 1 ELSE next + 1
    /\ UNCHANGED <<totalCents, weight, pc, idx, allocations, allocated,
                   remainders, remaining>>

HandOutCent == HandOut(remainders[next])

ReturnWhen(enough) ==
    /\ pc = "handout" /\ enough
    /\ pc' = "done"
    /\ UNCHANGED <<totalCents, weight, idx, allocations, allocated, remainders,
                   next, remaining>>

\* Mutant: stops one cent early.
ReturnEarly == ReturnWhen(remaining <= 1)

Return == ReturnWhen(remaining = 0)

\* The caller goes on with the result.
Done == pc = "done" /\ UNCHANGED vars

Step == \/ ReturnZero \/ EnterLoop \/ FloorSource \/ SortRemainders
        \/ HandOutCent \/ Return
Next == Step \/ Done

Spec == Init /\ [][Next]_vars /\ WF_vars(Step)

-----------------------------------------------------------------------------
\* What applyAutoBalanceTx relies on: the loop returns one of the
\* apportionments LargestRemainder allows, whatever order sort.Slice chose.
ReturnsShares ==
    pc = "done" => allocations \in Shares(totalCents, weight)

\* What a user would call a fair split of a deficit, as soon as some source has a weight:
\* the floors and the cents handed out one by one add up to it; a source pays its exact
\* share rounded down or up, so that the hand-out loop, which may wrap around, serves none
\* twice; and a heavier source never pays less than a lighter one, whichever of them the
\* leftover cents went to.
FairShares ==
    LET W == TotalWeight(weight)
    IN  pc = "done" /\ totalCents > 0 /\ W > 0 =>
          /\ SumFunction(allocations) = totalCents
          /\ \A s \in Sources : /\ allocations[s] * W < totalCents * weight[s] + W
                               /\ allocations[s] * W > totalCents * weight[s] - W
          /\ \A s, t \in Sources :
                weight[s] > weight[t] => allocations[s] >= allocations[t]

\* The loop "for remaining > 0 && len(remainders) > 0" ends on every input.
Terminates == <>(pc = "done")

=============================================================================
