--------------------------- MODULE SharingProofs ---------------------------
(***************************************************************************)
(* Proofs about Sharing, for any users, budgets, requests and tables.      *)
(*                                                                         *)
(* TypeOK says which checks a request has passed; Known, that what it asks *)
(* for was once there.  Watched is what the history remembers: a request   *)
(* that could be refused now is on record.  Gone is why only one deletion  *)
(* is confirmed: the budget of a confirmed one is deleted, and a statement *)
(* deletes live budgets only.                                              *)
(***************************************************************************)
EXTENDS Sharing, TLAPS

Known ==
    \A r \in Requests : pc[r] # "idle" =>
        /\ asked[r] \in Askable
        /\ asked[r].user \in users
        /\ \A b \in {asked[r].budget} \cup asked[r].from : status[b] # "unborn"
        /\ pc[r] \in Under => asked[r].kind # "create"
        /\ pc[r] = "found" /\ asked[r].kind = "share" => asked[r].guest \in users

Gone ==
    \A r \in Requests :
        pc[r] = "ok" /\ asked[r].kind = "delete" => status[asked[r].budget] = "deleted"

Watched == \A r \in Requests : pc[r] \in Under /\ Refusable(r) => refusable[r]

IInv == TypeOK /\ Known /\ RowsLive /\ Gone /\ OneDelete /\ Watched /\ AnswersHaveReason

\* A request names a user, a budget, a guest and sources other than the budget.
LEMMA AskableFields ==
    ASSUME NEW q \in Askable
    PROVE  /\ q.user \in Users /\ q.budget \in Budgets /\ q.guest \in Users
           /\ q.from \in SUBSET (Budgets \ {q.budget})
    BY DEF Askable, Ask

LEMMA InitIInv == Init => IInv
<1> SUFFICES ASSUME Init PROVE IInv
    OBVIOUS
<1>1. PICK t \in InitTables : users = t.users /\ status = t.status
                              /\ access = t.access /\ sources = t.sources
    BY DEF Init
<1>2. t \in Tables /\ Whole(t)
    BY TablesAssumption
<1>3. TypeOK /\ RowsLive
    BY <1>1, <1>2 DEF Init, Tables, Whole, TypeOK, RowsLive, Live
<1>4. Known /\ Gone /\ OneDelete /\ Watched /\ AnswersHaveReason
    BY DEF Init, Known, Gone, OneDelete, Watched, AnswersHaveReason, Under
<1> QED
    BY <1>3, <1>4 DEF IInv

-----------------------------------------------------------------------------
(* Types and rows. *)

USE DEF vars, tables, Goto, Answer, Pass, Allowed, Under

\* Types are kept by every step: an answer clears the checks, a passed one is of
\* a budget the request needs.
LEMMA TypeStep == IInv /\ [Next]_vars => TypeOK'
<1> SUFFICES ASSUME IInv, [Next]_vars PROVE TypeOK'
    OBVIOUS
<1> USE DEF IInv
<1>1. ASSUME NEW r \in Requests, Step(r), Watch PROVE TypeOK'
    <2>1. CASE Call(r)
        BY <1>1, <2>1 DEF Call, Watch, TypeOK
    <2>2. CASE CreateBudget(r)
        <3>1. \A u \in Users, b \in Budgets : Ask("create", u, b, u, {}) \in Askable
            BY DEF Askable
        <3> QED
            BY <1>1, <2>2, <3>1 DEF CreateBudget, Watch, TypeOK, Answers
    <2>3. ASSUME pc[r] \in Under
          PROVE  asked[r] \in Askable /\ asked[r].budget \in Needs(asked[r])
                 /\ asked[r].from \subseteq Needs(asked[r]) /\ asked[r].from \subseteq Budgets
                 /\ asked[r].budget \in Budgets /\ asked[r].guest \in Users
        BY <2>3, AskableFields DEF Known, Needs
    <2>4. CASE EnsureAccess(r)
        BY <1>1, <2>3, <2>4 DEF EnsureAccess, Watch, TypeOK, Answers
    <2>5. CASE EnsureSourceAccess(r)
        BY <1>1, <2>3, <2>5 DEF EnsureSourceAccess, Watch, TypeOK, Answers
    <2>6. CASE UpdateBudget(r)
        BY <1>1, <2>6 DEF UpdateBudget, Watch, TypeOK, Answers
    <2>7. CASE CreateTransaction(r)
        BY <1>1, <2>3, <2>7 DEF CreateTransaction, Refer, Watch, TypeOK, Answers
    <2>8. CASE GetOrCreateUser(r)
        BY <1>1, <2>3, <2>8 DEF GetOrCreateUser, Watch, TypeOK
    <2>9. CASE InsertShare(r)
        BY <1>1, <2>3, <2>9 DEF InsertShare, Refer, Watch, TypeOK, Answers
    <2>10. CASE FindGuest(r)
        BY <1>1, <2>10 DEF FindGuest, Watch, TypeOK, Answers
    <2>11. CASE DeleteShare(r)
        BY <1>1, <2>11 DEF DeleteShare, Watch, TypeOK, Answers
    <2>12. CASE UpdateAutoBalanceConfig(r)
        BY <1>1, <2>3, <2>12
        DEF UpdateAutoBalanceConfig, Refer, TargetRows, Watch, TypeOK, Answers
    <2>13. CASE DeleteBudget(r)
        BY <1>1, <2>3, <2>13
        DEF DeleteBudget, Erase, TargetRows, SourceRows, BudgetOf, Watch, TypeOK, Answers
    <2>14. CASE Fail(r)
        BY <1>1, <2>14 DEF Fail, Watch, TypeOK, Answers
    <2> QED
        BY <1>1, <2>1, <2>2, <2>4, <2>5, <2>6, <2>7, <2>8, <2>9, <2>10, <2>11, <2>12,
           <2>13, <2>14 DEF Step
<1>2. CASE UNCHANGED vars
    BY <1>2 DEF TypeOK, Needs
<1> QED
    BY <1>1, <1>2 DEF Next

\* Rows of users stay, ids of budgets are used once, and what was asked for stands.
LEMMA Lasting ==
    IInv /\ [Next]_vars =>
        /\ users \subseteq users'
        /\ \A b \in Budgets : /\ status[b] = "deleted" => status'[b] = "deleted"
                              /\ status[b] # "unborn" => status'[b] # "unborn"
        /\ \A r \in Requests : pc[r] # "idle" => asked'[r] = asked[r] /\ pc'[r] # "idle"
<1> SUFFICES ASSUME IInv, [Next]_vars
             PROVE  /\ users \subseteq users'
                    /\ \A b \in Budgets : /\ status[b] = "deleted" => status'[b] = "deleted"
                                          /\ status[b] # "unborn" => status'[b] # "unborn"
                    /\ \A r \in Requests :
                          pc[r] # "idle" => asked'[r] = asked[r] /\ pc'[r] # "idle"
    OBVIOUS
<1> USE DEF IInv
<1>1. ASSUME NEW r \in Requests, Step(r)
      PROVE  /\ users \subseteq users'
             /\ \A b \in Budgets : /\ status[b] = "deleted" => status'[b] = "deleted"
                                   /\ status[b] # "unborn" => status'[b] # "unborn"
             /\ \A q \in Requests : pc[q] # "idle" => asked'[q] = asked[q] /\ pc'[q] # "idle"
    <2>1. CASE Call(r) \/ CreateBudget(r)
        BY <2>1 DEF Call, CreateBudget, TypeOK
    <2>2. CASE EnsureAccess(r) \/ EnsureSourceAccess(r) \/ UpdateBudget(r) \/ FindGuest(r)
               \/ DeleteShare(r) \/ Fail(r) \/ GetOrCreateUser(r)
        BY <2>2 DEF EnsureAccess, EnsureSourceAccess, UpdateBudget, FindGuest, DeleteShare,
                    Fail, GetOrCreateUser, TypeOK
    <2>3. CASE CreateTransaction(r) \/ InsertShare(r) \/ UpdateAutoBalanceConfig(r)
        BY <2>3 DEF CreateTransaction, InsertShare, UpdateAutoBalanceConfig, Refer, TypeOK
    <2>4. CASE DeleteBudget(r)
        BY <2>4 DEF DeleteBudget, Erase, Live, TypeOK
    <2> QED
        BY <1>1, <2>1, <2>2, <2>3, <2>4 DEF Step
<1>2. CASE UNCHANGED vars
    BY <1>2
<1> QED
    BY <1>1, <1>2 DEF Next

\* What a request asks for was there when it was made, and is remembered.
LEMMA KnownStep == IInv /\ [Next]_vars => Known'
<1> SUFFICES ASSUME IInv, [Next]_vars PROVE Known'
    OBVIOUS
<1>0. \A b \in Budgets : status[b] # "unborn" => status'[b] # "unborn"
    BY Lasting
<1> USE DEF IInv
<1>1. ASSUME NEW r \in Requests, pc'[r] # "idle", pc[r] = "idle"
      PROVE  /\ asked'[r] \in Askable /\ asked'[r].user \in users'
             /\ \A b \in {asked'[r].budget} \cup asked'[r].from : status'[b] # "unborn"
             /\ pc'[r] # "found"
             /\ pc'[r] \in Under => asked'[r].kind # "create"
    <2>1. PICK q \in Requests : Step(q)
        BY <1>1 DEF Next
    <2>2. CASE Call(q)
        BY <1>1, <2>2 DEF Call, TypeOK
    <2>3. CASE CreateBudget(q)
        <3>1. q = r /\ pc'[r] = "ok"
            BY <1>1, <2>3 DEF CreateBudget, TypeOK
        <3>2. PICK u \in users, b \in Budgets :
                  /\ status' = [status EXCEPT ![b] = "live"]
                  /\ asked' = [asked EXCEPT ![r] = Ask("create", u, b, u, {})]
            BY <2>3, <3>1 DEF CreateBudget
        <3>3. Ask("create", u, b, u, {}) \in Askable /\ u \in users'
            BY <2>3 DEF Askable, CreateBudget, TypeOK
        <3> QED
            BY <3>1, <3>2, <3>3 DEF Ask, TypeOK
    <2>4. q # r => pc'[r] = pc[r]
        BY <2>1 DEF Step, Call, CreateBudget, EnsureAccess, EnsureSourceAccess, UpdateBudget,
                    CreateTransaction, GetOrCreateUser, InsertShare, FindGuest, DeleteShare,
                    UpdateAutoBalanceConfig, DeleteBudget, Fail, Refer, TypeOK
    <2>5. q = r => Call(q) \/ CreateBudget(q)
        BY <1>1, <2>1 DEF Step, EnsureAccess, EnsureSourceAccess, UpdateBudget,
                    CreateTransaction, GetOrCreateUser, InsertShare, FindGuest, DeleteShare,
                    UpdateAutoBalanceConfig, DeleteBudget, Fail
    <2> QED
        BY <1>1, <2>2, <2>3, <2>4, <2>5
<1>2. ASSUME NEW r \in Requests, pc[r] # "idle"
      PROVE  /\ pc'[r] \in Under => pc[r] \in Under
             /\ pc'[r] = "found" /\ asked[r].kind = "share" => asked[r].guest \in users'
    <2>1. CASE UNCHANGED vars
        BY <2>1, <1>2 DEF Known
    <2>2. ASSUME NEW q \in Requests, Step(q), q # r PROVE pc'[r] = pc[r]
        BY <2>2 DEF Step, Call, CreateBudget, EnsureAccess, EnsureSourceAccess, UpdateBudget,
                    CreateTransaction, GetOrCreateUser, InsertShare, FindGuest, DeleteShare,
                    UpdateAutoBalanceConfig, DeleteBudget, Fail, Refer, TypeOK
    <2>3. ASSUME Step(r)
          PROVE  /\ pc[r] \in Under
                 /\ pc'[r] = "found" /\ asked[r].kind = "share" => asked[r].guest \in users'
        BY <1>2, <2>3 DEF Step, Call, CreateBudget, EnsureAccess, EnsureSourceAccess, UpdateBudget,
                    CreateTransaction, GetOrCreateUser, InsertShare, FindGuest, DeleteShare,
                    UpdateAutoBalanceConfig, DeleteBudget, Fail, Refer, TypeOK
    <2>4. users \subseteq users'
        BY Lasting
    <2> QED
        BY <1>2, <2>1, <2>2, <2>3, <2>4 DEF Next, Known
<1>3. ASSUME NEW r \in Requests, pc[r] # "idle"
      PROVE  \A b \in {asked[r].budget} \cup asked[r].from : b \in Budgets /\ status'[b] # "unborn"
    <2>1. {asked[r].budget} \cup asked[r].from \subseteq Budgets
        BY <1>3, AskableFields DEF Known
    <2>2. \A b \in {asked[r].budget} \cup asked[r].from : status[b] # "unborn"
        BY <1>3 DEF Known
    <2> QED
        BY <1>0, <2>1, <2>2
<1> QED
    BY <1>1, <1>2, <1>3, Lasting DEF Known

\* Foreign keys hold: a row is inserted while what it refers to is there, and goes
\* with it.
LEMMA RowsStep == IInv /\ [Next]_vars => RowsLive'
<1> SUFFICES ASSUME IInv, [Next]_vars PROVE RowsLive'
    OBVIOUS
<1> USE DEF IInv
<1>1. ASSUME NEW r \in Requests, Step(r) PROVE RowsLive'
    <2>1. CASE CreateBudget(r)
        BY <2>1 DEF CreateBudget, RowsLive, Live, TypeOK
    <2>2. CASE \/ Call(r) \/ EnsureAccess(r) \/ EnsureSourceAccess(r) \/ UpdateBudget(r)
               \/ FindGuest(r) \/ Fail(r)
        BY <2>2 DEF Call, EnsureAccess, EnsureSourceAccess, UpdateBudget, FindGuest, Fail,
                    RowsLive, Live
    <2>3. CASE DeleteShare(r)
        BY <2>3 DEF DeleteShare, RowsLive, Live
    <2>4. CASE GetOrCreateUser(r)
        BY <2>4 DEF GetOrCreateUser, RowsLive, Live
    <2>5. CASE CreateTransaction(r)
        BY <2>5 DEF CreateTransaction, Refer, RowsLive, Live
    <2>6. CASE InsertShare(r)
        BY <2>6 DEF InsertShare, Refer, RowsLive, Live, Known
    <2>7. CASE UpdateAutoBalanceConfig(r)
        <3>1. asked[r].budget \notin asked[r].from
            BY <2>7, AskableFields DEF UpdateAutoBalanceConfig, Known
        <3> QED
            BY <2>7, <3>1 DEF UpdateAutoBalanceConfig, Refer, RowsLive, Live
    <2>8. CASE DeleteBudget(r)
        <3>1. asked[r].budget \in Budgets
            BY <2>8, AskableFields DEF DeleteBudget, Known
        <3> QED
            BY <2>8, <3>1 DEF DeleteBudget, Erase, TargetRows, SourceRows, BudgetOf, RowsLive,
                              Live, TypeOK
    <2> QED
        BY <1>1, <2>1, <2>2, <2>3, <2>4, <2>5, <2>6, <2>7, <2>8 DEF Step
<1>2. CASE UNCHANGED vars
    BY <1>2 DEF RowsLive, Live
<1> QED
    BY <1>1, <1>2 DEF Next

\* A deletion is confirmed while the row is there, and it is the last.
LEMMA DeletionStep == IInv /\ [Next]_vars => Gone' /\ OneDelete'
<1> SUFFICES ASSUME IInv, [Next]_vars PROVE Gone' /\ OneDelete'
    OBVIOUS
<1>0. \A b \in Budgets : status[b] = "deleted" => status'[b] = "deleted"
    BY Lasting
<1> USE DEF IInv
<1>1. ASSUME NEW r \in Requests, pc'[r] = "ok", pc[r] # "ok", asked'[r].kind = "delete"
      PROVE  /\ asked'[r] = asked[r] /\ asked[r].budget \in Budgets
             /\ Live(asked[r].budget) /\ status'[asked[r].budget] = "deleted"
             /\ \A q \in Requests \ {r} : pc'[q] = pc[q] /\ asked'[q] = asked[q]
    <2>1. PICK q \in Requests : Step(q)
        BY <1>1 DEF Next
    <2>2. q = r /\ DeleteBudget(r)
        BY <1>1, <2>1 DEF Step, Call, CreateBudget, EnsureAccess, EnsureSourceAccess, UpdateBudget,
                    CreateTransaction, GetOrCreateUser, InsertShare, FindGuest, DeleteShare,
                    UpdateAutoBalanceConfig, DeleteBudget, Fail, Refer, TypeOK, Ask
    <2>3. asked[r].budget \in Budgets
        BY <2>2, AskableFields DEF DeleteBudget, Known
    <2> QED
        BY <1>1, <2>2, <2>3 DEF DeleteBudget, Erase, TypeOK
<1>2. ASSUME NEW r \in Requests, pc[r] = "ok"
      PROVE  asked'[r] = asked[r] /\ asked[r].budget \in Budgets
    BY <1>2, Lasting, AskableFields DEF Known
<1>3. Gone'
    BY <1>0, <1>1, <1>2 DEF Gone
<1>4. OneDelete'
    BY <1>1, <1>2 DEF Gone, OneDelete, Live
<1> QED
    BY <1>3, <1>4

-----------------------------------------------------------------------------
(* Answers. *)

\* A budget that a request under way needs and that is not there was deleted, and
\* its user lost it then.
LEMMA LateIsRefusable ==
    ASSUME IInv, NEW r \in Requests, pc[r] \in Under, NEW b \in Needs(asked[r]), ~Live(b)
    PROVE  refusable[r] /\ status[b] = "deleted"
<1>1. asked[r] \in Askable /\ asked[r].kind # "create" /\ status[b] # "unborn"
    BY DEF IInv, Known, Needs
<1>2. b \in Budgets
    BY <1>1, AskableFields DEF Needs
<1>3. status[b] = "deleted"
    BY <1>1, <1>2 DEF IInv, TypeOK, Live
<1>4. <<asked[r].user, b>> \notin access
    BY DEF IInv, RowsLive
<1> QED
    BY <1>3, <1>4 DEF IInv, Watched, Refusable

LEMMA WatchedStep == IInv /\ [Next]_vars => Watched'
<1> SUFFICES ASSUME IInv, [Next]_vars PROVE Watched'
    OBVIOUS
<1>1. CASE Watch
    BY <1>1 DEF Watch, Watched
<1>2. CASE UNCHANGED vars
    BY <1>2 DEF IInv, Watched, Refusable, Needs
<1> QED
    BY <1>1, <1>2 DEF Next

\* An answer keeps its reason, and has one when it is given.
LEMMA AnswerStep == IInv /\ [Next]_vars => AnswersHaveReason'
<1> SUFFICES ASSUME IInv, [Next]_vars PROVE AnswersHaveReason'
    OBVIOUS
<1>1. \A r \in Requests : refusable[r] => refusable'[r]
    BY DEF Next, Watch
<1>2. ASSUME NEW r \in Requests, pc[r] \notin Under \cup {"idle"}
      PROVE  /\ pc'[r] = pc[r] /\ asked'[r] = asked[r] /\ asked[r] \in Askable
    <2>1. ASSUME NEW q \in Requests, Step(q) PROVE pc'[r] = pc[r] /\ asked'[r] = asked[r]
        <3>1. q # r
            BY <1>2, <2>1 DEF Step, Call, CreateBudget, EnsureAccess, EnsureSourceAccess,
                    UpdateBudget, CreateTransaction, GetOrCreateUser, InsertShare, FindGuest,
                    DeleteShare, UpdateAutoBalanceConfig, DeleteBudget, Fail
        <3> QED
            BY <2>1, <3>1 DEF Step, Call, CreateBudget, EnsureAccess, EnsureSourceAccess,
                    UpdateBudget, CreateTransaction, GetOrCreateUser, InsertShare, FindGuest,
                    DeleteShare, UpdateAutoBalanceConfig, DeleteBudget, Fail, Refer, IInv, TypeOK
    <2>2. asked[r] \in Askable
        BY <1>2 DEF IInv, Known
    <2> QED
        BY <2>1, <2>2 DEF Next
<1>3. ASSUME NEW r \in Requests, pc[r] \in Under \cup {"idle"}, pc'[r] = "notfound"
      PROVE  refusable[r]
    <2>1. PICK q \in Requests : Step(q)
        BY <1>3 DEF Next
    <2>2. q = r /\ pc[r] \in Under
        BY <1>3, <2>1 DEF Step, Call, CreateBudget, EnsureAccess, EnsureSourceAccess,
                    UpdateBudget, CreateTransaction, GetOrCreateUser, InsertShare, FindGuest,
                    DeleteShare, UpdateAutoBalanceConfig, DeleteBudget, Fail, Refer, IInv, TypeOK
    <2>3. asked[r].budget \in Needs(asked[r]) /\ asked[r].from \subseteq Needs(asked[r])
        BY <2>2 DEF IInv, Known, Needs
    <2>4. CASE EnsureAccess(r) \/ EnsureSourceAccess(r) \/ FindGuest(r)
        BY <1>3, <2>2, <2>3, <2>4
        DEF EnsureAccess, EnsureSourceAccess, FindGuest, HasAccess, Refusable, IInv, Watched,
            TypeOK
    <2>5. CASE UpdateBudget(r) \/ UpdateAutoBalanceConfig(r) \/ DeleteBudget(r)
        <3>1. ~Live(asked[r].budget)
            BY <1>3, <2>5 DEF UpdateBudget, UpdateAutoBalanceConfig, DeleteBudget, Refer, IInv,
                              TypeOK
        <3> QED
            BY <2>2, <2>3, <3>1, LateIsRefusable
    <2>6. CASE Call(r) \/ CreateBudget(r) \/ CreateTransaction(r) \/ GetOrCreateUser(r)
               \/ InsertShare(r) \/ DeleteShare(r) \/ Fail(r)
        BY <1>3, <2>6 DEF Call, CreateBudget, CreateTransaction, GetOrCreateUser, InsertShare,
                    DeleteShare, Fail, Refer, IInv, TypeOK
    <2> QED
        BY <2>1, <2>2, <2>4, <2>5, <2>6 DEF Step
<1>4. ASSUME NEW r \in Requests, pc[r] \in Under \cup {"idle"}, pc'[r] = "error"
      PROVE  /\ asked'[r] = asked[r] /\ refusable[r]
             /\ \E b \in Needs(asked[r]) : b \in Budgets /\ status[b] = "deleted"
    <2>1. PICK q \in Requests : Step(q)
        BY <1>4 DEF Next
    <2>2. /\ q = r /\ pc[r] \in Under /\ asked'[r] = asked[r]
          /\ \E b \in {asked[r].budget} \cup asked[r].from : ~Live(b)
        BY <1>4, <2>1 DEF Step, Call, CreateBudget, EnsureAccess, EnsureSourceAccess,
                    UpdateBudget, CreateTransaction, GetOrCreateUser, InsertShare, FindGuest,
                    DeleteShare, UpdateAutoBalanceConfig, DeleteBudget, Fail, Refer, IInv, TypeOK
    <2>3. PICK b \in {asked[r].budget} \cup asked[r].from : ~Live(b)
        BY <2>2
    <2>4. b \in Needs(asked[r]) /\ b \in Budgets
        BY <2>2, <2>3, AskableFields DEF IInv, Known, Needs
    <2> QED
        BY <2>2, <2>3, <2>4, LateIsRefusable
<1>5. ASSUME NEW r \in Requests, pc'[r] = "error"
      PROVE  refusable'[r] /\ \E b \in Needs(asked'[r]) : status'[b] = "deleted"
    <2>1. CASE pc[r] \in Under \cup {"idle"}
        BY <1>1, <1>4, <1>5, <2>1, Lasting
    <2>2. CASE pc[r] \notin Under \cup {"idle"}
        <3>1. PICK b \in Needs(asked[r]) : status[b] = "deleted"
            BY <1>2, <1>5, <2>2 DEF IInv, AnswersHaveReason
        <3>2. b \in Budgets
            BY <1>2, <2>2, <3>1, AskableFields DEF Needs
        <3> QED
            BY <1>1, <1>2, <1>5, <2>2, <3>1, <3>2, Lasting DEF IInv, AnswersHaveReason
    <2> QED
        BY <2>1, <2>2
<1>6. ASSUME NEW r \in Requests, pc'[r] = "notfound" PROVE refusable'[r]
    BY <1>1, <1>2, <1>3, <1>6 DEF IInv, AnswersHaveReason
<1>7. \A r \in Requests : Needs(asked[r])' = Needs(asked'[r])
    BY DEF Needs
<1> QED
    BY <1>5, <1>6, <1>7 DEF AnswersHaveReason

LEMMA IInvStep == IInv /\ [Next]_vars => IInv'
    BY TypeStep, KnownStep, RowsStep, DeletionStep, WatchedStep, AnswerStep DEF IInv

\* The types of the tables and of the requests.
THEOREM SharingTypes == Spec => []TypeOK
<1>1. IInv => TypeOK
    BY DEF IInv
<1> QED
    BY <1>1, InitIInv, IInvStep, PTL DEF Spec

\* No share, entry or source row outlives its budget.
THEOREM SharesOfLiveBudgets == Spec => []RowsLive
<1>1. IInv => RowsLive
    BY DEF IInv
<1> QED
    BY <1>1, InitIInv, IInvStep, PTL DEF Spec

\* A deletion is confirmed once.
THEOREM DeletedOnce == Spec => []OneDelete
<1>1. IInv => OneDelete
    BY DEF IInv
<1> QED
    BY <1>1, InitIInv, IInvStep, PTL DEF Spec

\* Every 404 and every 500 of an overtaken request has its reason in the request.
THEOREM ReasonedAnswers == Spec => []AnswersHaveReason
<1>1. IInv => AnswersHaveReason
    BY DEF IInv
<1> QED
    BY <1>1, InitIInv, IInvStep, PTL DEF Spec

-----------------------------------------------------------------------------
(* Who decides. *)

\* A request comes to hold the check of a budget only while its user has access.
LEMMA ChecksEarned ==
    IInv /\ [Next]_vars =>
        \A r \in Requests : \A b \in checked'[r] :
            /\ asked'[r] = asked[r]
            /\ b \in checked[r] \/ <<asked[r].user, b>> \in access
<1> SUFFICES ASSUME IInv, [Next]_vars, NEW r \in Requests, NEW b \in checked'[r]
             PROVE  /\ asked'[r] = asked[r]
                    /\ b \in checked[r] \/ <<asked[r].user, b>> \in access
    OBVIOUS
<1>1. CASE UNCHANGED vars
    BY <1>1
<1>2. ASSUME NEW q \in Requests, Step(q)
      PROVE  b \in checked[r] \/ <<asked[r].user, b>> \in access
    <2>1. CASE EnsureAccess(q)
        BY <2>1 DEF EnsureAccess, HasAccess, IInv, TypeOK
    <2>2. CASE EnsureSourceAccess(q)
        BY <2>2 DEF EnsureSourceAccess, HasAccess, IInv, TypeOK
    <2>3. CASE ~EnsureAccess(q) /\ ~EnsureSourceAccess(q)
        <3>1. UNCHANGED checked \/ checked' = [checked EXCEPT ![q] = {}]
            BY <1>2, <2>3 DEF Step, Call, CreateBudget, UpdateBudget, CreateTransaction,
                GetOrCreateUser, InsertShare, FindGuest, DeleteShare, UpdateAutoBalanceConfig,
                DeleteBudget, Fail, Refer
        <3> QED
            BY <3>1 DEF IInv, TypeOK
    <2> QED
        BY <2>1, <2>2, <2>3
<1>3. pc[r] # "idle"
    <2>1. pc[r] = "idle" => checked[r] = {}
        BY DEF IInv, TypeOK
    <2>2. ASSUME NEW q \in Requests, Step(q), pc[r] = "idle"
          PROVE  checked'[r] = {}
        <3>1. CASE EnsureAccess(q) \/ EnsureSourceAccess(q)
            <4>1. q # r
                BY <2>2, <3>1 DEF EnsureAccess, EnsureSourceAccess
            <4> QED
                BY <2>1, <2>2, <3>1, <4>1
                DEF EnsureAccess, EnsureSourceAccess, IInv, TypeOK
        <3>2. CASE ~EnsureAccess(q) /\ ~EnsureSourceAccess(q)
            <4>1. UNCHANGED checked \/ checked' = [checked EXCEPT ![q] = {}]
                BY <2>2, <3>2 DEF Step, Call, CreateBudget, UpdateBudget, CreateTransaction,
                    GetOrCreateUser, InsertShare, FindGuest, DeleteShare,
                    UpdateAutoBalanceConfig, DeleteBudget, Fail, Refer
            <4> QED
                BY <2>1, <2>2, <4>1 DEF IInv, TypeOK
        <3> QED
            BY <3>1, <3>2
    <2> QED
        BY <1>1, <2>1, <2>2 DEF Next
<1> QED
    BY <1>1, <1>2, <1>3, Lasting DEF Next

\* A budget that its last user has left is out of reach.
THEOREM AbandonedStays == Spec => AbandonedForGood
<1>1. IInv /\ [Next]_vars => [\A b \in Budgets : Abandoned(b) =>
          /\ Abandoned(b)' /\ BudgetOf(entries', b) = BudgetOf(entries, b)
          /\ TargetRows(b)' \subseteq TargetRows(b)
          /\ SourceRows(b)' \subseteq SourceRows(b)]_vars
    <2> SUFFICES ASSUME IInv, NEW r \in Requests, Step(r), Watch,
                        NEW b \in Budgets, Abandoned(b)
                 PROVE  /\ Abandoned(b)' /\ BudgetOf(entries', b) = BudgetOf(entries, b)
                        /\ TargetRows(b)' \subseteq TargetRows(b)
                        /\ SourceRows(b)' \subseteq SourceRows(b)
        BY DEF Next
    <2>1. [Next]_vars
        BY DEF Next
    <2>2. \A q \in Requests : b \notin checked'[q]
        <3>1. \A u : <<u, b>> \notin access
            BY DEF Abandoned, BudgetOf
        <3> QED
            BY <2>1, <3>1, ChecksEarned DEF Abandoned
    <2>3. pc[r] \in {"allowed", "found"} => /\ asked[r].budget # b
                                           /\ asked[r].budget \in Budgets
        BY AskableFields DEF IInv, TypeOK, Known, Abandoned
    <2>4. CASE CreateBudget(r)
        BY <2>2, <2>4 DEF CreateBudget, Abandoned, BudgetOf, TargetRows, SourceRows, Live, IInv,
                          TypeOK
    <2>5. CASE \/ Call(r) \/ EnsureAccess(r) \/ EnsureSourceAccess(r) \/ UpdateBudget(r)
               \/ FindGuest(r) \/ GetOrCreateUser(r) \/ Fail(r)
        BY <2>2, <2>5 DEF Call, EnsureAccess, EnsureSourceAccess, UpdateBudget, FindGuest,
                          GetOrCreateUser, Fail, Abandoned, BudgetOf, TargetRows, SourceRows, Live
    <2>6. CASE DeleteShare(r)
        BY <2>2, <2>6 DEF DeleteShare, Abandoned, BudgetOf, TargetRows, SourceRows, Live
    <2>7. CASE CreateTransaction(r) \/ InsertShare(r)
        BY <2>2, <2>3, <2>7 DEF CreateTransaction, InsertShare, Refer, Abandoned, BudgetOf,
                                TargetRows, SourceRows, Live
    <2>8. CASE UpdateAutoBalanceConfig(r)
        <3>1. b \notin asked[r].from
            BY <2>8 DEF UpdateAutoBalanceConfig, Abandoned
        <3> QED
            BY <2>2, <2>3, <2>8, <3>1 DEF UpdateAutoBalanceConfig, Refer, Abandoned, BudgetOf,
                                          TargetRows, SourceRows, Live
    <2>9. CASE DeleteBudget(r)
        BY <2>2, <2>3, <2>9 DEF DeleteBudget, Erase, Abandoned, BudgetOf, TargetRows, SourceRows,
                                Live, IInv, TypeOK
    <2> QED
        BY <2>4, <2>5, <2>6, <2>7, <2>8, <2>9 DEF Step
<1> QED
    BY InitIInv, IInvStep, <1>1, PTL DEF Spec, AbandonedForGood

\* The decisions that can still take effect grow by those of users only.
LEMMA StandingStep == IInv /\ [Next]_vars => Standing' \subseteq access \cup Standing
<1> SUFFICES ASSUME IInv, [Next]_vars, NEW p \in Standing' PROVE p \in access \cup Standing
    OBVIOUS
<1>1. PICK r \in Requests : p \in {asked'[r].user} \X checked'[r]
    BY DEF Standing
<1>2. PICK b \in checked'[r] : p = <<asked'[r].user, b>>
    BY <1>1
<1>3. p = <<asked[r].user, b>> /\ (b \in checked[r] \/ p \in access)
    BY <1>2, ChecksEarned
<1>4. CASE b \in checked[r]
    <2>1. p \in {asked[r].user} \X checked[r]
        BY <1>3, <1>4
    <2> QED
        BY <1>4, <2>1 DEF Standing
<1> QED
    BY <1>3, <1>4

LEMMA StandingHolds ==
    ASSUME NEW r \in Requests, NEW b \in checked[r]
    PROVE  <<asked[r].user, b>> \in Standing
<1>1. <<asked[r].user, b>> \in {asked[r].user} \X checked[r]
    OBVIOUS
<1> QED
    BY <1>1 DEF Standing

\* Every statement is a decision of Membership by a user who was entitled to it.
THEOREM SharingImplementsMembership == Spec => ImplementsMembership
<1>1. Init => Promise!Init
    <2> SUFFICES ASSUME Init PROVE Promise!Init
        OBVIOUS
    <2>1. IInv
        BY InitIInv
    <2>2. Standing = {}
        BY DEF Init, Standing
    <2>3. status \in [Budgets -> {"unborn", "live"}]
        BY TablesAssumption DEF Init, Tables
    <2> QED
        BY <2>1, <2>2, <2>3 DEF Promise!Init, IInv, RowsLive, Live
<1>2. IInv /\ [Next]_vars => [Promise!Next]_(Promise!vars)
    <2> SUFFICES ASSUME IInv, NEW r \in Requests, Step(r), Watch
                 PROVE  Promise!Next
        BY DEF Next, Promise!vars, Standing
    <2> DEFINE q == asked[r]
               seen == <<status, access, sources>>
    <2>1. Standing' \subseteq access \cup Standing
        BY StandingStep DEF Next
    <2>2. pc[r] \in Under => /\ q.user \in Users /\ q.budget \in Budgets /\ q.guest \in Users
                            /\ q.from \in SUBSET (Budgets \ {q.budget})
        BY AskableFields DEF IInv, Known
    <2>3. pc[r] \in {"allowed", "found"} => <<q.user, q.budget>> \in access \cup Standing
        BY StandingHolds DEF IInv, TypeOK
    <2>4. Promise!Decide \/ UNCHANGED seen
        <3>1. CASE CreateBudget(r)
            <4>1. PICK u \in users, b \in Budgets :
                      /\ status[b] = "unborn" /\ status' = [status EXCEPT ![b] = "live"]
                      /\ access' = access \cup {<<u, b>>}
                BY <3>1 DEF CreateBudget
            <4>2. u \in Users /\ Promise!Create(u, b)
                BY <3>1, <4>1 DEF CreateBudget, Promise!Create, IInv, TypeOK
            <4> QED
                BY <4>2 DEF Promise!Decide
        <3>2. CASE InsertShare(r)
            <4>1. UNCHANGED seen \/ Promise!Admit(q.user, q.budget, q.guest)
                BY <2>3, <3>2 DEF InsertShare, Refer, Live, Promise!Admit
            <4> QED
                BY <2>2, <3>2, <4>1 DEF InsertShare, Promise!Decide
        <3>3. CASE DeleteShare(r)
            <4>1. Promise!Dismiss(q.user, q.budget, q.guest)
                BY <2>3, <3>3 DEF DeleteShare, Promise!Dismiss
            <4> QED
                BY <2>2, <3>3, <4>1 DEF DeleteShare, Promise!Decide
        <3>4. CASE UpdateAutoBalanceConfig(r)
            <4>1. \A c \in {q.budget} \cup q.from : <<q.user, c>> \in access \cup Standing
                BY <2>3, <3>4, StandingHolds DEF UpdateAutoBalanceConfig
            <4>2. UNCHANGED seen \/ Promise!Cover(q.user, q.budget, q.from)
                BY <3>4, <4>1 DEF UpdateAutoBalanceConfig, Refer, Live, TargetRows, Promise!Cover,
                                  Promise!Of
            <4> QED
                BY <2>2, <3>4, <4>2 DEF UpdateAutoBalanceConfig, Promise!Decide
        <3>5. CASE DeleteBudget(r)
            <4>1. UNCHANGED seen \/ Promise!Close(q.user, q.budget)
                BY <2>3, <3>5 DEF DeleteBudget, Erase, Live, TargetRows, SourceRows, BudgetOf,
                                  Promise!Close, Promise!Of, Promise!With
            <4> QED
                BY <2>2, <3>5, <4>1 DEF DeleteBudget, Promise!Decide
        <3>6. CASE \/ Call(r) \/ EnsureAccess(r) \/ EnsureSourceAccess(r) \/ UpdateBudget(r)
                   \/ FindGuest(r) \/ GetOrCreateUser(r) \/ Fail(r) \/ CreateTransaction(r)
            BY <3>6 DEF Call, EnsureAccess, EnsureSourceAccess, UpdateBudget, FindGuest,
                        GetOrCreateUser, Fail, CreateTransaction, Refer
        <3> QED
            BY <3>1, <3>2, <3>3, <3>4, <3>5, <3>6 DEF Step
    <2>5. access' \subseteq (access \cup Standing)'
        OBVIOUS
    <2> QED
        BY <2>1, <2>4, <2>5 DEF Promise!Next
<1> QED
    BY InitIInv, IInvStep, <1>1, <1>2, PTL DEF Spec, ImplementsMembership, Promise!Spec
=============================================================================
