------------------------------ MODULE MCScenes ------------------------------
(***************************************************************************)
(* Two small databases for Payroll in one run: a budget that stands alone, *)
(* may be created, changed or deleted, and is paid by two monthly callers  *)
(* and a forced one, each of which calls again; and two budgets that cover *)
(* each other, where a monthly run, a forced one and a change of the       *)
(* sources wait for each other's rows.                                     *)
(***************************************************************************)
EXTENDS MCPayroll

VARIABLE scene

SceneTables == OldOrNewTable \cup MutualTables

SceneInit == Init /\ scene = IF balance = Zero THEN "alone" ELSE "mutual"

Lead == CHOOSE p \in MonthlyCallers : TRUE

SceneCalls(p) ==
    CASE p = Lead -> IF scene = "alone" THEN MaxCalls ELSE 1
      [] p \in MonthlyCallers \ {Lead} -> IF scene = "alone" THEN 1 ELSE 0
      [] p \in ConfigCallers -> IF scene = "alone" THEN 0 ELSE 1
      [] OTHER -> 1

SceneNext ==
    /\ Next /\ UNCHANGED scene
    /\ \A p \in Callers : calls'[p] <= SceneCalls(p)
    /\ scene = "mutual" => ops' = 0
    /\ scene = "alone" => \A b \in Budgets \ {1} : status'[b] = "unborn"

SceneSpec ==
    /\ SceneInit /\ [][SceneNext]_<<vars, scene>>
    /\ \A p \in Callers : WF_vars(Statement(p)) /\ WF_vars(BreakDeadlock(p))
=============================================================================
