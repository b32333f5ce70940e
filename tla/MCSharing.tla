----------------------------- MODULE MCSharing -----------------------------
(***************************************************************************)
(* Two users and two budgets for model-checking Sharing.                   *)
(***************************************************************************)
EXTENDS Sharing, TLC

CONSTANTS ann, ben, home, car

Symmetric == Permutations(Requests)

Table(who, live, pairs, covered) ==
    [users |-> who, status |-> [b \in Budgets |-> IF b \in live THEN "live" ELSE "unborn"],
     access |-> pairs, sources |-> covered]

\* Both use both budgets; or each has one, the first is covered from the second,
\* and Ben has no say in the first; or Ann is alone with the first.
SmallTables ==
    {Table(Users, Budgets, Users \X Budgets, {}),
     Table(Users, Budgets, {<<ann, home>>, <<ann, car>>, <<ben, car>>}, {<<home, car>>}),
     Table({ann}, {home}, {<<ann, home>>}, {})}
=============================================================================
