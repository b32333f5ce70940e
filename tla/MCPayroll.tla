----------------------------- MODULE MCPayroll -----------------------------
(***************************************************************************)
(* Small databases for model-checking Payroll: budgets 1, 2 and, in some   *)
(* runs, 3; a half cent is one unit.                                       *)
(***************************************************************************)
EXTENDS Payroll

NoSources == [b \in Budgets |-> Zero]
Row(s, share) == [b \in Budgets |-> IF b = s THEN share ELSE 0]

\* Every live budget is due; `overdrawn` says by how much.
Table(live, weights, overdrawn) ==
    [live |-> live, payroll |-> [b \in Budgets |-> IF b \in live THEN 3 ELSE 0],
     weight |-> weights, balance |-> [b \in Budgets |-> -overdrawn[b]]]

SingleTable == {Table({1}, NoSources, Zero)}

\* Budget 1 is there from the start, or still to be created.
OldOrNewTable == {Table(live, NoSources, Zero) : live \in SUBSET {1}}

\* Budgets 1 and 2 cover each other; both are overdrawn, 2 by two cents and a half.
Mutual == [b \in Budgets |-> IF b = 1 THEN Row(2, 100) ELSE Row(1, 100)]
MutualTables == {Table({1, 2}, Mutual, [b \in Budgets |-> 3 + b])}

\* Budget 1 is covered by 2 and 3 in equal parts, 2 by 3; 1 is overdrawn by two
\* cents and a half and 2 by one.
Shared == [b \in Budgets |-> CASE b = 1 -> [s \in Budgets |-> IF s = 1 THEN 0 ELSE 50]
                               [] b = 2 -> Row(3, 100)
                               [] OTHER -> Zero]
SharedTables ==
    {Table({1, 2, 3}, Shared,
           [b \in Budgets |-> CASE b = 1 -> 5 [] b = 2 -> 2 [] OTHER -> 0])}

\* The same, and budget 1 alone: 2 and 3 are still to be created.
LedgerTables == SharedTables \cup SingleTable

\* What a config request may ask for: nothing, or one source.
RowChoices == {Zero} \cup {Row(s, 100) : s \in {1, 2}}
NoRows == {}

\* An entry changed or removed for half a cent less.
Corrections == {-1}
=============================================================================
