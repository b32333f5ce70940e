---------------------------- MODULE MCDashboard ----------------------------
(* Instances of Dashboard: three budgets, two of them in the red. *)
EXTENDS Dashboard

Three == {1, 2, 3}

\* With a credit to budget 2 there are two to draw three cents from: one is left over.
TwoNegatives == <<-3, -1, 4>>

Transfer(from, to) ==
    [budget |-> from, amount |-> 1, credit |-> FALSE, transfer |-> TRUE, transferTo |-> to]
Credit(b) ==
    [budget |-> b, amount |-> 3, credit |-> TRUE, transfer |-> FALSE, transferTo |-> NoBudget]
Pick(negatives, positives) == [negatives |-> negatives, positives |-> positives]
Line(b, cents) == [budget |-> b, cents |-> cents]
Receipt(lines, total, b) == [lines |-> lines, total |-> total, catchAll |-> b]

AllForms ==
    [transaction |-> {Transfer(3, 1), Credit(2)},
     wizard      |-> {Pick({1}, {2, 3}), Pick({1, 2}, {3})},
     receipt     |-> {Receipt(<<Line(3, 1), Line(NoBudget, 1)>>, 2, 2)}]
TransferForms ==
    [transaction |-> {Transfer(3, 1)}, wizard |-> {}, receipt |-> {}]
Owed == {-1}
=============================================================================
