-------------------------- MODULE PasskeysProofs --------------------------
(***************************************************************************)
(* Proofs about Passkeys: its types, that the two ceremonies keep the      *)
(* promise of KeyBook, that a session is consumed once, that a ceremony is *)
(* refused for a reason and that a sign count falls only where sign-ins    *)
(* overlap, for any e-mails, ceremonies, restarts and counters.            *)
(*                                                                         *)
(* Two facts carry the refinement.  Owned: a row of passkeys was written   *)
(* by a registration for that e-mail which has ended there, so no          *)
(* credential is stored twice.  EnteredStored: a login that was verified   *)
(* holds a stored credential, which nothing removes.  CountReached is what *)
(* the bound on sign counts in TypeOK needs.  Single is what               *)
(* SessionSingleUse needs, Kept what RefusalHasReason needs and Ahead what *)
(* CountFallsOnlyOvertaken needs.                                          *)
(***************************************************************************)
EXTENDS Passkeys, TLAPS

Started == /\ \A r \in Registrations : pc[r] # "idle" => email[r] \in Emails
           /\ \A c \in device : pc[c] # "idle"

Owned == \A e \in Emails : passkey[e] # NoKey =>
                               email[passkey[e]] = e /\ pc[passkey[e]] = "registered"

EnteredStored ==
    \A l \in Logins :
        /\ pc[l] \in {"signed", "consumed", "verified", "in"} => signed[l] \in device
        /\ pc[l] \in {"verified", "in"} => Stored(signed[l])

CountReached ==
    /\ \A c \in Registrations \ Counting : deviceCount[c] = 0
    /\ \A l \in Logins : signed[l] \in Registrations => count[l] <= deviceCount[signed[l]]

IInv == TypeOK /\ Started /\ Owned /\ EnteredStored /\ CountReached

LEMMA InitIInv == Init => IInv
    BY CeremonyAssumption
    DEF Init, IInv, TypeOK, Started, Owned, EnteredStored, CountReached, Ceremonies,
        RegPhases, LoginPhases

-----------------------------------------------------------------------------
(* Types, then the facts about rows and logins. *)

USE DEF Goto, vars, tables, memory, client, request, Ceremonies, GetOrCreateUser,
        SaveAuthSessionByID, ConsumeAuthSessionByID, UpdatePasskeySignCount

\* Types are kept by every step.  UpdateCounter returns the larger of two counts,
\* neither beyond the authenticator's.
LEMMA TypeStep == IInv /\ [Next]_vars => TypeOK'
<1> SUFFICES ASSUME IInv, [Next]_vars PROVE TypeOK'
    OBVIOUS
<1> USE CeremonyAssumption DEF IInv
<1>1. ASSUME NEW r \in Registrations, Registers(r) PROVE TypeOK'
    <2>1. ASSUME NEW e \in Emails, BeginUser(r, e) PROVE TypeOK'
        BY <2>1 DEF BeginUser, TypeOK, RegPhases
    <2>2. CASE BeginCheck(r)
        BY <2>2 DEF BeginCheck, TypeOK, RegPhases
    <2>3. CASE BeginSave(r)
        <3>1. email[r] \in Emails
            BY <2>3 DEF BeginSave, Started
        <3> QED
            BY <2>3, <3>1 DEF BeginSave, SaveRegistrationSession, Disturb, TypeOK, RegPhases
    <2>4. CASE MakeKey(r)
        BY <2>4 DEF MakeKey, TypeOK, RegPhases
    <2>5. CASE FinishConsume(r)
        <3>1. email[r] \in Emails
            BY <2>5 DEF FinishConsume, Started
        <3> QED
            BY <2>5, <3>1 DEF FinishConsume, ConsumeRegistrationSession, TypeOK, RegPhases
    <2>6. CASE FinishCheck(r)
        BY <2>6 DEF FinishCheck, TypeOK, RegPhases
    <2>7. CASE FinishStore(r)
        <3>1. email[r] \in Emails
            BY <2>7 DEF FinishStore, Started
        <3> QED
            BY <2>7, <3>1 DEF FinishStore, CreatePasskey, TypeOK, RegPhases
    <2> QED
        BY <1>1, <2>1, <2>2, <2>3, <2>4, <2>5, <2>6, <2>7 DEF Registers
<1>2. ASSUME NEW l \in Logins, SignsIn(l) PROVE TypeOK'
    <2>1. CASE LoginBegin(l)
        BY <2>1 DEF LoginBegin, TypeOK, LoginPhases
    <2>2. CASE LoginConsume(l)
        BY <2>2 DEF LoginConsume, TypeOK, LoginPhases
    <2>3. CASE LoginVerify(l)
        <3>1. signed[l] \in Registrations
            BY <2>3 DEF LoginVerify, EnteredStored, TypeOK
        <3>2. UpdateCounter(signCount[signed[l]], count[l]) \in Nat
            BY <3>1 DEF UpdateCounter, TypeOK
        <3> QED
            BY <2>3, <3>2 DEF LoginVerify, TypeOK, LoginPhases
    <2>4. CASE LoginFinish(l)
        <3>1. signed[l] \in Registrations /\ count[l] \in Nat
              /\ count[l] <= deviceCount[signed[l]]
            BY <2>4 DEF LoginFinish, EnteredStored, CountReached, TypeOK
        <3> QED
            BY <2>4, <3>1 DEF LoginFinish, TypeOK, LoginPhases
    <2>5. ASSUME NEW c \in Registrations, Sign(l, c) PROVE TypeOK'
        <3> DEFINE n == IF c \in Counting THEN deviceCount[c] + 1 ELSE 0
        <3>1. n \in Nat /\ deviceCount[c] <= n
            BY DEF CountReached, TypeOK
        <3>2. /\ deviceCount' = [deviceCount EXCEPT ![c] = n]
              /\ count' = [count EXCEPT ![l] = n]
              /\ signed' = [signed EXCEPT ![l] = c]
              /\ pc' = [pc EXCEPT ![l] = "signed"]
              /\ UNCHANGED <<tables, memory, email, device, session, restarts, disturbed>>
            BY <2>5 DEF Sign
        <3> HIDE DEF n
        <3>3. \A d \in Registrations : signCount[d] <= deviceCount'[d]
            BY <3>1, <3>2 DEF TypeOK
        <3> QED
            BY <3>1, <3>2, <3>3 DEF TypeOK, LoginPhases
    <2> QED
        BY <1>2, <2>1, <2>2, <2>3, <2>4, <2>5 DEF SignsIn
<1>3. ASSUME NEW p \in Ceremonies, GiveUp(p) PROVE TypeOK'
    BY <1>3 DEF GiveUp, TypeOK, RegPhases, LoginPhases
<1>4. CASE Restart
    <2>1. \A p \in Ceremonies : pc'[p] = pc[p] \/ pc'[p] = "ended"
        BY <1>4 DEF Restart
    <2>2. pc' \in [Ceremonies -> RegPhases \cup LoginPhases]
        BY <1>4 DEF Restart, TypeOK, RegPhases
    <2> QED
        BY <1>4, <2>1, <2>2 DEF Restart, TypeOK, RegPhases, LoginPhases
<1>5. CASE UNCHANGED vars
    BY <1>5 DEF TypeOK
<1> QED
    BY <1>1, <1>2, <1>3, <1>4, <1>5 DEF Next

\* A registration under way has an e-mail, and so has one that left a credential
\* on an authenticator.
LEMMA StartedStep == IInv /\ [Next]_vars => Started'
<1> SUFFICES ASSUME IInv, [Next]_vars PROVE Started'
    OBVIOUS
<1> USE CeremonyAssumption DEF IInv, Started, TypeOK
<1>1. ASSUME NEW r \in Registrations, Registers(r) PROVE Started'
    BY <1>1 DEF Registers, BeginUser, BeginCheck, BeginSave, MakeKey, FinishConsume,
                FinishCheck, FinishStore, CreatePasskey
<1>2. ASSUME NEW l \in Logins, SignsIn(l) PROVE Started'
    BY <1>2 DEF SignsIn, LoginBegin, LoginConsume, LoginVerify, LoginFinish, Sign
<1>3. ASSUME NEW p \in Ceremonies, GiveUp(p) PROVE Started'
    BY <1>3 DEF GiveUp, InServer, AtClient
<1>4. CASE Restart
    BY <1>4 DEF Restart, InServer
<1>5. CASE UNCHANGED vars
    BY <1>5
<1> QED
    BY <1>1, <1>2, <1>3, <1>4, <1>5 DEF Next

\* A row is only written where there is none, by a registration that then ends.
LEMMA OwnedStep == IInv /\ [Next]_vars => Owned'
<1> SUFFICES ASSUME IInv, [Next]_vars PROVE Owned'
    OBVIOUS
<1> USE CeremonyAssumption DEF IInv, Owned, TypeOK
<1>1. ASSUME NEW r \in Registrations, Registers(r) PROVE Owned'
    <2>1. ASSUME NEW e \in Emails, BeginUser(r, e) PROVE Owned'
        BY <2>1 DEF BeginUser
    <2>2. CASE BeginCheck(r) \/ BeginSave(r) \/ MakeKey(r) \/ FinishConsume(r)
               \/ FinishCheck(r)
        BY <2>2 DEF BeginCheck, BeginSave, MakeKey, FinishConsume, FinishCheck
    <2>3. CASE FinishStore(r)
        BY <2>3 DEF FinishStore, CreatePasskey, Started
    <2> QED
        BY <1>1, <2>1, <2>2, <2>3 DEF Registers
<1>2. ASSUME NEW l \in Logins, SignsIn(l) PROVE Owned'
    BY <1>2 DEF SignsIn, LoginBegin, LoginConsume, LoginVerify, LoginFinish, Sign
<1>3. ASSUME NEW p \in Ceremonies, GiveUp(p) PROVE Owned'
    BY <1>3 DEF GiveUp, InServer, AtClient
<1>4. CASE Restart
    BY <1>4 DEF Restart, InServer
<1>5. CASE UNCHANGED vars
    BY <1>5
<1> QED
    BY <1>1, <1>2, <1>3, <1>4, <1>5 DEF Next

\* No step takes a row of passkeys away or changes it.
LEMMA RowsStay ==
    ASSUME IInv, [Next]_vars
    PROVE  \A e \in Emails : passkey[e] # NoKey => passkey'[e] = passkey[e]
<1> USE CeremonyAssumption DEF IInv, TypeOK
<1>1. ASSUME NEW r \in Registrations, FinishStore(r)
      PROVE  \A e \in Emails : passkey[e] # NoKey => passkey'[e] = passkey[e]
    BY <1>1 DEF FinishStore, CreatePasskey
<1>2. ASSUME NEW r \in Registrations, Registers(r), ~FinishStore(r)
      PROVE  UNCHANGED passkey
    BY <1>2 DEF Registers, BeginUser, BeginCheck, BeginSave, MakeKey, FinishConsume,
                FinishCheck
<1>3. ASSUME NEW l \in Logins, SignsIn(l) PROVE UNCHANGED passkey
    BY <1>3 DEF SignsIn, LoginBegin, LoginConsume, LoginVerify, LoginFinish, Sign
<1>4. ASSUME NEW p \in Ceremonies, GiveUp(p) \/ Restart PROVE UNCHANGED passkey
    BY <1>4 DEF GiveUp, Restart
<1>5. CASE Restart
    BY <1>5 DEF Restart
<1> QED
    BY <1>1, <1>2, <1>3, <1>4, <1>5 DEF Next

\* A login is verified only with a credential that is stored: what the handler
\* loads by the user handle is a row of passkeys as well.
LEMMA EnteredStep == IInv /\ [Next]_vars => EnteredStored'
<1> SUFFICES ASSUME IInv, [Next]_vars PROVE EnteredStored'
    OBVIOUS
<1> USE CeremonyAssumption DEF IInv, TypeOK
<1>1. \A c \in Registrations : Stored(c) => Stored(c)'
    BY RowsStay DEF Stored
<1>2. ASSUME NEW r \in Registrations, Registers(r) PROVE EnteredStored'
    <2>1. /\ UNCHANGED signed /\ device \subseteq device'
          /\ \A l \in Logins : pc'[l] = pc[l]
        BY <1>2 DEF Registers, BeginUser, BeginCheck, BeginSave, MakeKey, FinishConsume,
                    FinishCheck, FinishStore, CreatePasskey
    <2> QED
        BY <1>1, <2>1 DEF EnteredStored
<1>3. ASSUME NEW l \in Logins, SignsIn(l) PROVE EnteredStored'
    <2>1. CASE LoginVerify(l)
        <3>1. signed[l] \in Registrations
            BY <2>1 DEF LoginVerify, EnteredStored
        <3>2. Loaded(signed[l]) = signed[l] => Stored(signed[l])
            <4>1. email[signed[l]] \in Emails
                BY <2>1 DEF LoginVerify, EnteredStored, Started
            <4> QED
                BY <3>1, <4>1 DEF Loaded, Stored
        <3> QED
            BY <1>1, <2>1, <3>1, <3>2 DEF LoginVerify, EnteredStored
    <2>2. ASSUME NEW c \in Registrations, Sign(l, c) PROVE EnteredStored'
        BY <1>1, <2>2 DEF Sign, EnteredStored
    <2>3. CASE LoginBegin(l) \/ LoginConsume(l) \/ LoginFinish(l)
        BY <1>1, <2>3 DEF LoginBegin, LoginConsume, LoginFinish, EnteredStored
    <2> QED
        BY <1>3, <2>1, <2>2, <2>3 DEF SignsIn
<1>4. ASSUME NEW p \in Ceremonies, GiveUp(p) PROVE EnteredStored'
    BY <1>1, <1>4 DEF GiveUp, EnteredStored
<1>5. CASE Restart
    BY <1>1, <1>5 DEF Restart, EnteredStored
<1>6. CASE UNCHANGED vars
    BY <1>1, <1>6 DEF EnteredStored
<1> QED
    BY <1>2, <1>3, <1>4, <1>5, <1>6 DEF Next

\* Signed counts are the authenticator's or less.
LEMMA CountStep == IInv /\ [Next]_vars => CountReached'
<1> SUFFICES ASSUME IInv, [Next]_vars PROVE CountReached'
    OBVIOUS
<1> USE CeremonyAssumption DEF IInv, TypeOK
<1>1. ASSUME NEW r \in Registrations, Registers(r) PROVE CountReached'
    <2>1. UNCHANGED <<deviceCount, signed, count>>
        BY <1>1 DEF Registers, BeginUser, BeginCheck, BeginSave, MakeKey, FinishConsume,
                    FinishCheck, FinishStore, CreatePasskey
    <2> QED
        BY <2>1 DEF CountReached
<1>2. ASSUME NEW l \in Logins, SignsIn(l) PROVE CountReached'
    <2>1. CASE LoginVerify(l)
        <3>1. signed[l] \in Registrations /\ count[l] <= deviceCount[signed[l]]
            BY <2>1 DEF LoginVerify, EnteredStored, CountReached
        <3>2. UpdateCounter(signCount[signed[l]], count[l]) <= deviceCount[signed[l]]
            BY <3>1 DEF UpdateCounter
        <3> QED
            BY <2>1, <3>1, <3>2 DEF LoginVerify, CountReached
    <2>2. ASSUME NEW c \in Registrations, Sign(l, c) PROVE CountReached'
        <3> DEFINE n == IF c \in Counting THEN deviceCount[c] + 1 ELSE 0
        <3>1. n \in Nat /\ deviceCount[c] <= n /\ (c \notin Counting => n = 0)
            BY DEF CountReached
        <3>2. /\ deviceCount' = [deviceCount EXCEPT ![c] = n]
              /\ count' = [count EXCEPT ![l] = n]
              /\ signed' = [signed EXCEPT ![l] = c]
            BY <2>2 DEF Sign
        <3> HIDE DEF n
        <3> QED
            BY <3>1, <3>2 DEF CountReached
    <2>3. CASE LoginBegin(l) \/ LoginConsume(l) \/ LoginFinish(l)
        BY <2>3 DEF LoginBegin, LoginConsume, LoginFinish, CountReached
    <2> QED
        BY <1>2, <2>1, <2>2, <2>3 DEF SignsIn
<1>3. ASSUME NEW p \in Ceremonies, GiveUp(p) \/ Restart PROVE CountReached'
    BY <1>3 DEF GiveUp, Restart, CountReached
<1>4. CASE Restart
    BY <1>4 DEF Restart, CountReached
<1>5. CASE UNCHANGED vars
    BY <1>5 DEF CountReached
<1> QED
    BY <1>1, <1>2, <1>3, <1>4, <1>5 DEF Next

LEMMA IInvStep == IInv /\ [Next]_vars => IInv'
    BY TypeStep, StartedStep, OwnedStep, EnteredStep, CountStep DEF IInv

-----------------------------------------------------------------------------
\* The types of the tables, of the sessions and of every ceremony; a stored sign
\* count is one that the authenticator has reached.
THEOREM PasskeysTypeCorrect == Spec => []TypeOK
<1>1. IInv => TypeOK
    BY DEF IInv
<1> QED
    BY InitIInv, IInvStep, <1>1, PTL DEF Spec

\* A row is written as KeyBook registers one: where there is none, with a credential
\* that no other row has.
LEMMA StoreRegisters ==
    ASSUME IInv, NEW r \in Registrations, FinishStore(r)
    PROVE  \/ Book!Register(email[r], r)
           \/ UNCHANGED <<passkey, [l \in Logins |-> IF pc[l] = "in" THEN signed[l] ELSE NoKey]>>
<1> USE CeremonyAssumption DEF IInv
<1>1. /\ \A l \in Logins : pc'[l] = pc[l]
      /\ UNCHANGED signed
    BY DEF FinishStore, CreatePasskey, TypeOK
<1>2. UNCHANGED [l \in Logins |-> IF pc[l] = "in" THEN signed[l] ELSE NoKey]
    BY <1>1
<1>3. CASE passkey[email[r]] = NoKey
    <2>1. \A other \in Emails : passkey[other] # r
        BY DEF Owned, FinishStore
    <2>2. passkey' = [passkey EXCEPT ![email[r]] = r]
        BY <1>3 DEF FinishStore, CreatePasskey
    <2> QED
        BY <1>2, <1>3, <2>1, <2>2 DEF Book!Register
<1>4. CASE passkey[email[r]] # NoKey
    BY <1>2, <1>4 DEF FinishStore, CreatePasskey
<1> QED
    BY <1>3, <1>4

\* A login that gets its token enters as in KeyBook, with a registered credential.
LEMMA FinishEnters ==
    ASSUME IInv, NEW l \in Logins, LoginFinish(l)
    PROVE  \E e \in Emails : Book!Enter(l, e)
<1> USE CeremonyAssumption DEF IInv
<1>1. PICK e \in Emails : passkey[e] = signed[l]
    BY DEF LoginFinish, EnteredStored, Stored
<1>2. /\ pc[l] = "verified" /\ signed[l] \in Registrations
      /\ pc' = [pc EXCEPT ![l] = "in"] /\ UNCHANGED <<passkey, signed>>
    BY DEF LoginFinish, EnteredStored, TypeOK
<1>3. [k \in Logins |-> IF pc[k] = "in" THEN signed[k] ELSE NoKey]'
        = [[k \in Logins |-> IF pc[k] = "in" THEN signed[k] ELSE NoKey]
             EXCEPT ![l] = passkey[e]]
    BY <1>1, <1>2 DEF TypeOK
<1>4. [k \in Logins |-> IF pc[k] = "in" THEN signed[k] ELSE NoKey][l] = NoKey
    BY <1>2
<1>5. passkey[e] # NoKey
    BY <1>1, <1>2
<1> QED
    BY <1>2, <1>3, <1>4, <1>5 DEF Book!Enter

\* Registration and sign-in implement KeyBook: a credential per e-mail, the first
\* registered one stays, and only registered ones get a token.
THEOREM PasskeysImplementKeyBook == Spec => ImplementsKeyBook
<1>1. Init => Book!Init
    BY CeremonyAssumption DEF Init, Book!Init
<1>2. IInv /\ [Next]_vars => [Book!Next]_(Book!vars)
    <2> SUFFICES ASSUME IInv, [Next]_vars PROVE [Book!Next]_(Book!vars)
        OBVIOUS
    <2> USE CeremonyAssumption
    <2> DEFINE inside == [l \in Logins |-> IF pc[l] = "in" THEN signed[l] ELSE NoKey]
    <2>1. UNCHANGED <<passkey, inside>> => [Book!Next]_(Book!vars)
        BY DEF Book!vars
    <2>2. ASSUME NEW r \in Registrations, FinishStore(r) PROVE [Book!Next]_(Book!vars)
        <3>1. email[r] \in Emails
            BY <2>2 DEF FinishStore, IInv, Started
        <3> QED
            BY <2>1, <2>2, <3>1, StoreRegisters DEF Book!Next
    <2>3. ASSUME NEW l \in Logins, LoginFinish(l) PROVE [Book!Next]_(Book!vars)
        BY <2>3, FinishEnters DEF Book!Next
    <2>4. ASSUME NEW r \in Registrations, Registers(r), ~FinishStore(r)
          PROVE  UNCHANGED <<passkey, inside>>
        <3>1. /\ \A l \in Logins : pc'[l] = pc[l]
              /\ UNCHANGED <<passkey, signed>>
            BY <2>4 DEF Registers, BeginUser, BeginCheck, BeginSave, MakeKey,
                        FinishConsume, FinishCheck, IInv, TypeOK
        <3> QED
            BY <3>1
    <2>5. ASSUME NEW l \in Logins, SignsIn(l), ~LoginFinish(l)
          PROVE  UNCHANGED <<passkey, inside>>
        <3>1. /\ UNCHANGED passkey
              /\ pc[l] # "in" /\ pc'[l] # "in"
              /\ \A k \in Logins \ {l} : pc'[k] = pc[k] /\ signed'[k] = signed[k]
            BY <2>5 DEF SignsIn, LoginBegin, LoginConsume, LoginVerify, Sign, IInv, TypeOK
        <3> QED
            BY <3>1
    <2>6. ASSUME NEW p \in Ceremonies, GiveUp(p) PROVE UNCHANGED <<passkey, inside>>
        <3>1. /\ UNCHANGED <<passkey, signed>>
              /\ \A l \in Logins : (pc[l] = "in") <=> (pc'[l] = "in")
            BY <2>6 DEF GiveUp, InServer, AtClient, IInv, TypeOK
        <3> QED
            BY <3>1
    <2>7. CASE Restart
        <3>1. /\ UNCHANGED <<passkey, signed>>
              /\ \A l \in Logins : (pc[l] = "in") <=> (pc'[l] = "in")
            BY <2>7 DEF Restart, InServer, IInv, TypeOK
        <3> QED
            BY <2>1, <3>1
    <2>8. CASE UNCHANGED vars
        BY <2>1, <2>8
    <2> QED
        BY <2>1, <2>2, <2>3, <2>4, <2>5, <2>6, <2>7, <2>8 DEF Next
<1> QED
    BY InitIInv, IInvStep, <1>1, <1>2, PTL DEF Spec, ImplementsKeyBook, Book!Spec

-----------------------------------------------------------------------------
(* Single use of sessions *)

Early == {"idle", "begun", "clear"}

\* A session that waits is of a registration for that e-mail which has asked for it,
\* and nobody has consumed it; one that was consumed was asked for as well.
Single ==
    /\ \A e \in Emails : regSessions[e] # NoSession =>
          /\ email[regSessions[e]] = e /\ pc[regSessions[e]] \notin Early
          /\ \A q \in Registrations : session[q] # regSessions[e]
    /\ \A q \in Registrations : session[q] # NoSession => pc[session[q]] \notin Early
    /\ SessionSingleUse

LEMMA InitSingle == Init => Single
    BY DEF Init, Single, SessionSingleUse

\* A registration saves its session once and takes at most one, its e-mail's.
LEMMA SingleStep == IInv /\ Single /\ [Next]_vars => Single'
<1> SUFFICES ASSUME IInv, Single, [Next]_vars PROVE Single'
    OBVIOUS
<1> USE CeremonyAssumption DEF IInv, TypeOK, Started
<1>1. ASSUME \A r \in Registrations : pc'[r] \in Early => pc'[r] = pc[r],
             \A r \in Registrations : pc[r] # "idle" => email'[r] = email[r],
             UNCHANGED session,
             UNCHANGED regSessions \/ regSessions' = [e \in Emails |-> NoSession]
      PROVE  Single'
    BY <1>1 DEF Single, SessionSingleUse, Early
<1>2. ASSUME NEW r \in Registrations, Registers(r) PROVE Single'
    <2>1. ASSUME NEW e \in Emails, BeginUser(r, e) PROVE Single'
        BY <2>1 DEF BeginUser, Single, SessionSingleUse, Early
    <2>2. CASE BeginCheck(r)
        BY <2>2 DEF BeginCheck, Single, SessionSingleUse, Early
    <2>3. CASE BeginSave(r)
        <3>1. /\ email[r] \in Emails /\ pc[r] \in Early
              /\ pc' = [pc EXCEPT ![r] = "asked"]
              /\ regSessions' = [regSessions EXCEPT ![email[r]] = r]
              /\ UNCHANGED <<email, session>>
            BY <2>3 DEF BeginSave, SaveRegistrationSession, Early
        <3>2. \A q \in Registrations : session[q] # r
            BY <3>1 DEF Single
        <3> QED
            BY <3>1, <3>2 DEF Single, SessionSingleUse, Early
    <2>4. CASE MakeKey(r)
        BY <1>1, <2>4 DEF MakeKey, Early
    <2>5. CASE FinishConsume(r)
        <3>1. /\ email[r] \in Emails
              /\ session' = [session EXCEPT ![r] = regSessions[email[r]]]
              /\ regSessions' = [regSessions EXCEPT ![email[r]] = NoSession]
              /\ \A q \in Registrations : pc'[q] \in Early => pc'[q] = pc[q]
              /\ UNCHANGED email
            BY <2>5 DEF FinishConsume, ConsumeRegistrationSession, Early
        <3>2. \A e \in Emails : regSessions'[e] # NoSession =>
                  e # email[r] /\ regSessions'[e] = regSessions[e]
            BY <3>1
        <3>3. SessionSingleUse'
            BY <3>1 DEF Single, SessionSingleUse
        <3> QED
            BY <3>1, <3>2, <3>3 DEF Single
    <2>6. CASE FinishCheck(r)
        BY <1>1, <2>6 DEF FinishCheck, Early
    <2>7. CASE FinishStore(r)
        BY <1>1, <2>7 DEF FinishStore, CreatePasskey, Early
    <2> QED
        BY <1>2, <2>1, <2>2, <2>3, <2>4, <2>5, <2>6, <2>7 DEF Registers
<1>3. ASSUME NEW l \in Logins, SignsIn(l) PROVE Single'
    <2>1. /\ \A r \in Registrations : pc'[r] = pc[r]
          /\ UNCHANGED <<regSessions, session, email>>
        BY <1>3 DEF SignsIn, LoginBegin, LoginConsume, LoginVerify, LoginFinish, Sign
    <2> QED
        BY <1>1, <2>1
<1>4. ASSUME NEW p \in Ceremonies, GiveUp(p) PROVE Single'
    BY <1>1, <1>4 DEF GiveUp, Early
<1>5. CASE Restart
    BY <1>1, <1>5 DEF Restart, Early
<1>6. CASE UNCHANGED vars
    BY <1>1, <1>6
<1> QED
    BY <1>2, <1>3, <1>4, <1>5, <1>6 DEF Next

\* The session of a registration is consumed at most once, whatever finish requests
\* arrive together (the test of internal/passkey/store_test.go, for all orders).
THEOREM SessionsUsedOnce == Spec => []SessionSingleUse
<1>1. Single => SessionSingleUse
    BY DEF Single
<1> QED
    BY InitIInv, IInvStep, InitSingle, SingleStep, <1>1, PTL DEF Spec

-----------------------------------------------------------------------------
(* Why a ceremony is refused *)

Open == AtClient \cup {"consumed"}

\* Registrations open for one e-mail at the same time are disturbed, all of them.
Apart ==
    \A q, r \in Registrations :
        q # r /\ email[q] = email[r] /\ pc[q] \in Open /\ pc[r] \in Open => disturbed[q]

\* The user of a registration stays, and while nothing disturbs a ceremony its
\* session waits for its finish, which takes that session and no other.
Kept ==
    /\ Apart
    /\ \A r \in Registrations :
          /\ pc[r] # "idle" => email[r] \in users
          /\ pc[r] \in AtClient /\ ~disturbed[r] => regSessions[email[r]] = r
          /\ pc[r] = "consumed" /\ ~disturbed[r] => session[r] = r
    /\ \A l \in Logins : pc[l] \in AtClient /\ ~disturbed[l] => l \in authSessions

LEMMA InitKept == Init => Kept
    BY DEF Init, Kept, Apart, Open, AtClient, Ceremonies

\* What was disturbed stays so.
LEMMA DisturbedStays ==
    ASSUME IInv, [Next]_vars
    PROVE  \A p \in Ceremonies : disturbed[p] => disturbed'[p]
<1>1. ASSUME NEW r \in Registrations, BeginSave(r)
      PROVE  \A p \in Ceremonies : disturbed[p] => disturbed'[p]
    BY <1>1 DEF BeginSave, Disturb
<1>2. ASSUME NEW r \in Registrations, Registers(r), ~BeginSave(r)
      PROVE  UNCHANGED disturbed
    BY <1>2 DEF Registers, BeginUser, BeginCheck, MakeKey, FinishConsume, FinishCheck,
                FinishStore
<1>3. ASSUME NEW l \in Logins, LoginFinish(l)
      PROVE  \A p \in Ceremonies : disturbed[p] => disturbed'[p]
    BY <1>3 DEF LoginFinish
<1>4. ASSUME NEW l \in Logins, SignsIn(l), ~LoginFinish(l) PROVE UNCHANGED disturbed
    BY <1>4 DEF SignsIn, LoginBegin, LoginConsume, LoginVerify, Sign
<1>5. ASSUME NEW p \in Ceremonies, GiveUp(p) PROVE UNCHANGED disturbed
    BY <1>5 DEF GiveUp
<1>6. CASE Restart
    BY <1>6 DEF Restart
<1>7. CASE UNCHANGED vars
    BY <1>7 DEF vars
<1> QED
    BY <1>1, <1>2, <1>3, <1>4, <1>5, <1>6, <1>7 DEF Next

\* The sessions stay with their ceremonies.
LEMMA KeptStep == IInv /\ Kept /\ [Next]_vars => Kept'
<1> SUFFICES ASSUME IInv, Kept, [Next]_vars PROVE Kept'
    OBVIOUS
<1>0. \A p \in Ceremonies : disturbed[p] => disturbed'[p]
    BY DisturbedStays
<1> USE CeremonyAssumption DEF IInv, TypeOK, Started, Ceremonies
<1>1. ASSUME \A p \in Ceremonies : pc'[p] \in Open =>
                 pc'[p] = pc[p] \/ (pc[p] = "asked" /\ pc'[p] \in AtClient),
             \A r \in Registrations : pc[r] # "idle" => email'[r] = email[r],
             \A r \in Registrations : pc'[r] # "idle" => email'[r] \in users',
             UNCHANGED <<session, regSessions, authSessions>>
      PROVE  Kept'
    BY <1>0, <1>1 DEF Kept, Apart, Open, AtClient
<1>2. ASSUME NEW r \in Registrations, Registers(r) PROVE Kept'
    <2>1. ASSUME NEW e \in Emails, BeginUser(r, e) PROVE Kept'
        <3>1. /\ pc[r] = "idle" /\ pc' = [pc EXCEPT ![r] = "begun"]
              /\ email' = [email EXCEPT ![r] = e] /\ users' = users \cup {e}
              /\ UNCHANGED <<session, regSessions, authSessions>>
            BY <2>1 DEF BeginUser, Goto, GetOrCreateUser, request, memory
        <3> QED
            BY <1>1, <3>1 DEF Kept, Open, AtClient
    <2>2. CASE BeginCheck(r) \/ MakeKey(r) \/ FinishCheck(r) \/ FinishStore(r)
        <3>1. /\ \A p \in Ceremonies \ {r} : pc'[p] = pc[p]
              /\ pc'[r] \in Open => pc[r] = "asked" /\ pc'[r] \in AtClient
              /\ pc[r] # "idle"
              /\ UNCHANGED <<users, email, session, regSessions, authSessions>>
            BY <2>2 DEF BeginCheck, MakeKey, FinishCheck, FinishStore, CreatePasskey,
                        Goto, Open, AtClient, tables, memory, client, request
        <3> QED
            BY <1>1, <3>1 DEF Kept
    <2>3. CASE BeginSave(r)
        <3>1. /\ pc[r] = "clear" /\ pc' = [pc EXCEPT ![r] = "asked"]
              /\ email[r] \in Emails
              /\ regSessions' = [regSessions EXCEPT ![email[r]] = r]
              /\ UNCHANGED <<users, email, session, authSessions>>
            BY <2>3 DEF BeginSave, SaveRegistrationSession, Goto, tables, client, request
        <3>2. \A q \in Registrations \ {r} :
                  email[q] = email[r] /\ pc[q] \in Open => disturbed'[q] /\ disturbed'[r]
            BY <2>3 DEF BeginSave, Disturb, Open
        <3>3. Apart'
            BY <1>0, <3>1, <3>2 DEF Kept, Apart, Open, AtClient
        <3>4. ASSUME NEW q \in Registrations
              PROVE  /\ pc'[q] # "idle" => email'[q] \in users'
                     /\ pc'[q] \in AtClient /\ ~disturbed'[q] => regSessions'[email'[q]] = q
                     /\ pc'[q] = "consumed" /\ ~disturbed'[q] => session'[q] = q
            <4>1. CASE q = r
                BY <3>1, <4>1 DEF Kept
            <4>2. CASE q # r
                <5>1. pc'[q] = pc[q] /\ email'[q] = email[q] /\ session'[q] = session[q]
                    BY <3>1, <4>2
                <5>2. pc[q] \in AtClient /\ ~disturbed'[q] => email[q] # email[r]
                    BY <3>2, <4>2 DEF Open
                <5> QED
                    BY <1>0, <3>1, <5>1, <5>2 DEF Kept
            <4> QED
                BY <4>1, <4>2
        <3> QED
            BY <1>0, <3>1, <3>3, <3>4 DEF Kept
    <2>4. CASE FinishConsume(r)
        <3>1. /\ pc[r] = "made" /\ \A p \in Ceremonies \ {r} : pc'[p] = pc[p]
              /\ email[r] \in Emails
              /\ session' = [session EXCEPT ![r] = regSessions[email[r]]]
              /\ regSessions' = [regSessions EXCEPT ![email[r]] = NoSession]
              /\ pc'[r] \in {"failed", "consumed"}
              /\ UNCHANGED <<users, email, authSessions>>
            BY <2>4 DEF FinishConsume, ConsumeRegistrationSession, Goto, tables, client
        <3>2. Apart'
            BY <1>0, <3>1 DEF Kept, Apart, Open, AtClient
        <3>3. ASSUME NEW q \in Registrations
              PROVE  /\ pc'[q] # "idle" => email'[q] \in users'
                     /\ pc'[q] \in AtClient /\ ~disturbed'[q] => regSessions'[email'[q]] = q
                     /\ pc'[q] = "consumed" /\ ~disturbed'[q] => session'[q] = q
            <4>1. CASE q = r
                BY <1>0, <3>1, <4>1 DEF Kept, AtClient
            <4>2. CASE q # r
                <5>1. pc'[q] = pc[q] /\ email'[q] = email[q] /\ session'[q] = session[q]
                    BY <3>1, <4>2
                <5>2. pc[q] \in AtClient /\ ~disturbed[q] => email[q] # email[r]
                    BY <3>1, <4>2 DEF Kept, Apart, Open, AtClient
                <5> QED
                    BY <1>0, <3>1, <5>1, <5>2 DEF Kept
            <4> QED
                BY <4>1, <4>2
        <3> QED
            BY <1>0, <3>1, <3>2, <3>3 DEF Kept
    <2> QED
        BY <1>2, <2>1, <2>2, <2>3, <2>4 DEF Registers
<1>3. ASSUME NEW l \in Logins, SignsIn(l) PROVE Kept'
    <2>1. CASE LoginBegin(l) \/ LoginConsume(l)
        <3>1. /\ \A p \in Ceremonies \ {l} : pc'[p] = pc[p]
              /\ pc'[l] \in AtClient => l \in authSessions'
              /\ authSessions \ {l} \subseteq authSessions'
              /\ UNCHANGED <<users, email, session, regSessions>>
            BY <2>1 DEF LoginBegin, LoginConsume, SaveAuthSessionByID,
                        ConsumeAuthSessionByID, Goto, AtClient, tables, client, request
        <3> QED
            BY <1>0, <3>1 DEF Kept, Apart
    <2>2. CASE LoginVerify(l) \/ LoginFinish(l) \/ \E c \in Registrations : Sign(l, c)
        <3>1. /\ \A p \in Ceremonies \ {l} : pc'[p] = pc[p]
              /\ pc'[l] \in Open => pc[l] = "asked" /\ pc'[l] \in AtClient
              /\ UNCHANGED <<users, email, session, regSessions, authSessions>>
            BY <2>2 DEF LoginVerify, LoginFinish, Sign, Goto, Open, AtClient, tables, memory,
                        client, request
        <3>2. \A r \in Registrations : pc'[r] # "idle" => email'[r] \in users'
            BY <3>1 DEF Kept
        <3> QED
            BY <1>1, <3>1, <3>2
    <2> QED
        BY <1>3, <2>1, <2>2 DEF SignsIn
<1>4. ASSUME NEW p \in Ceremonies, GiveUp(p) PROVE Kept'
    <2>1. /\ pc' = [pc EXCEPT ![p] = "ended"] /\ pc[p] # "idle"
          /\ UNCHANGED <<users, email, session, regSessions, authSessions>>
        BY <1>4 DEF GiveUp, Goto, InServer, AtClient, tables, memory, client, request
    <2>2. \A r \in Registrations : pc'[r] # "idle" => email'[r] \in users'
        BY <2>1 DEF Kept
    <2> QED
        BY <1>1, <2>1, <2>2 DEF Open, AtClient
<1>5. CASE Restart
    <2>1. /\ \A p \in Ceremonies : pc'[p] = IF pc[p] \in InServer THEN "ended" ELSE pc[p]
          /\ UNCHANGED <<users, email, session>>
        BY <1>5 DEF Restart, tables, client, request
    <2>2. \A p \in Ceremonies : pc[p] \in AtClient => disturbed'[p]
        BY <1>5 DEF Restart
    <2> QED
        BY <2>1, <2>2 DEF Kept, Apart, Open, InServer, AtClient
<1>6. CASE UNCHANGED vars
    <2>1. UNCHANGED <<users, email, session, regSessions, authSessions, pc>>
        BY <1>6 DEF vars, tables, client, memory, request
    <2> QED
        BY <1>0, <2>1 DEF Kept, Apart
<1> QED
    BY <1>2, <1>3, <1>4, <1>5, <1>6 DEF Next

\* A step that refuses a ceremony: a finish without its session or, for a login,
\* without a row for the credential.
LEMMA RefusedFor ==
    ASSUME IInv, Kept, Next, NEW p \in Ceremonies, pc[p] # "failed", pc'[p] = "failed"
    PROVE  disturbed[p] \/ (p \in Logins /\ ~Stored(signed[p]))
<1> USE CeremonyAssumption DEF IInv, TypeOK, Started, Ceremonies
<1>1. ASSUME NEW r \in Registrations, Registers(r) PROVE p \in Registrations /\ disturbed[p]
    <2>1. p = r /\ (FinishConsume(r) \/ FinishCheck(r))
        BY <1>1 DEF Registers, BeginUser, BeginCheck, BeginSave, MakeKey, FinishConsume,
                    FinishCheck, FinishStore, CreatePasskey, Goto
    <2>2. CASE FinishConsume(r)
        <3>1. pc[r] = "made" /\ email[r] \in Emails /\ regSessions[email[r]] = NoSession
            BY <2>1, <2>2 DEF FinishConsume, Goto
        <3> QED
            BY <2>1, <3>1 DEF Kept, AtClient
    <2>3. CASE FinishCheck(r)
        BY <2>1, <2>3 DEF FinishCheck, Goto, Kept
    <2> QED
        BY <2>1, <2>2, <2>3
<1>2. ASSUME NEW l \in Logins, SignsIn(l)
      PROVE  p = l /\ (disturbed[p] \/ ~Stored(signed[p]))
    <2>1. p = l /\ (LoginConsume(l) \/ LoginVerify(l))
        BY <1>2 DEF SignsIn, LoginBegin, LoginConsume, LoginVerify, LoginFinish, Sign, Goto
    <2>2. CASE LoginConsume(l)
        BY <2>1, <2>2 DEF LoginConsume, Goto, Kept, AtClient
    <2>3. CASE LoginVerify(l)
        BY <2>1, <2>3 DEF LoginVerify, Goto, Loaded
    <2> QED
        BY <2>1, <2>2, <2>3
<1>3. ASSUME NEW q \in Ceremonies, GiveUp(q) PROVE FALSE
    BY <1>3 DEF GiveUp, Goto
<1>4. CASE Restart
    BY <1>4 DEF Restart
<1> QED
    BY <1>1, <1>2, <1>3, <1>4 DEF Next

\* A registration that had its e-mail to itself is not refused at its finish, nor
\* is a login with a stored credential, RefusalHasReason of the runs: only a
\* restart or a rival takes a session away.
THEOREM RefusalsHaveReasons == Spec => RefusalHasReason
<1>1. IInv /\ Kept /\ [Next]_vars =>
        [\A p \in Ceremonies :
           pc[p] # "failed" /\ pc'[p] = "failed" =>
               disturbed[p] \/ (p \in Logins /\ ~Stored(signed[p]))]_vars
    BY RefusedFor
<1> QED
    BY InitIInv, IInvStep, InitKept, KeptStep, <1>1, PTL DEF Spec, RefusalHasReason

-----------------------------------------------------------------------------
(* Sign counts *)

\* The row of a verified sign-in has not passed the count it will write, unless
\* another sign-in with the credential came in between.
Ahead == \A l \in Logins :
             pc[l] = "verified" /\ ~disturbed[l] => count[l] >= signCount[signed[l]]

LEMMA InitAhead == Init => Ahead
    BY DEF Init, Ahead, Ceremonies

LEMMA AheadStep == IInv /\ Ahead /\ [Next]_vars => Ahead'
<1> SUFFICES ASSUME IInv, Ahead, [Next]_vars PROVE Ahead'
    OBVIOUS
<1>0. \A p \in Ceremonies : disturbed[p] => disturbed'[p]
    BY DisturbedStays
<1> USE CeremonyAssumption DEF IInv, TypeOK, Ceremonies
<1>1. ASSUME UNCHANGED <<signCount, signed, count>>,
             \A l \in Logins : pc'[l] = "verified" => pc[l] = "verified"
      PROVE  Ahead'
    BY <1>0, <1>1 DEF Ahead
<1>2. ASSUME NEW r \in Registrations, Registers(r) PROVE Ahead'
    <2>1. /\ UNCHANGED <<signCount, signed, count>>
          /\ \A l \in Logins : pc'[l] = pc[l]
        BY <1>2 DEF Registers, BeginUser, BeginCheck, BeginSave, MakeKey, FinishConsume,
                    FinishCheck, FinishStore, CreatePasskey, Goto, tables, client, request
    <2> QED
        BY <1>1, <2>1
<1>3. ASSUME NEW l \in Logins, SignsIn(l) PROVE Ahead'
    <2>1. CASE LoginBegin(l) \/ LoginConsume(l)
        <3>1. /\ UNCHANGED <<signCount, signed, count>>
              /\ \A k \in Logins : pc'[k] = "verified" => pc[k] = "verified"
            BY <2>1 DEF LoginBegin, LoginConsume, Goto, tables, client, request
        <3> QED
            BY <1>1, <3>1
    <2>2. ASSUME NEW c \in Registrations, Sign(l, c) PROVE Ahead'
        <3>1. /\ UNCHANGED signCount /\ pc'[l] = "signed"
              /\ \A k \in Logins \ {l} : /\ pc'[k] = pc[k] /\ signed'[k] = signed[k]
                                         /\ count'[k] = count[k]
            BY <2>2 DEF Sign, Goto, tables
        <3> QED
            BY <1>0, <3>1 DEF Ahead
    <2>3. CASE LoginVerify(l)
        <3>1. /\ UNCHANGED <<signCount, signed>>
              /\ signed[l] \in Registrations
              /\ count' = [count EXCEPT ![l] = UpdateCounter(signCount[signed[l]], @)]
              /\ \A k \in Logins \ {l} : pc'[k] = pc[k]
            BY <2>3 DEF LoginVerify, EnteredStored, Goto, tables, client
        <3>2. count'[l] >= signCount'[signed'[l]]
            BY <3>1 DEF UpdateCounter
        <3> QED
            BY <1>0, <3>1, <3>2 DEF Ahead
    <2>4. CASE LoginFinish(l)
        <3>1. /\ signCount' = [signCount EXCEPT ![signed[l]] = count[l]]
              /\ pc'[l] = "in" /\ \A k \in Logins \ {l} : pc'[k] = pc[k]
              /\ UNCHANGED <<signed, count>>
            BY <2>4 DEF LoginFinish, UpdatePasskeySignCount, Goto, client, request
        <3>2. \A k \in Logins \ {l} :
                  pc[k] = "verified" /\ signed[k] = signed[l] => disturbed'[k]
            BY <2>4 DEF LoginFinish
        <3>3. \A k \in Logins : pc[k] = "verified" => signed[k] \in Registrations
            BY DEF EnteredStored
        <3> QED
            BY <1>0, <3>1, <3>2, <3>3 DEF Ahead
    <2> QED
        BY <1>3, <2>1, <2>2, <2>3, <2>4 DEF SignsIn
<1>4. ASSUME NEW p \in Ceremonies, GiveUp(p) PROVE Ahead'
    <2>1. /\ UNCHANGED <<signCount, signed, count>>
          /\ pc' = [pc EXCEPT ![p] = "ended"]
        BY <1>4 DEF GiveUp, Goto, tables, client, request
    <2> QED
        BY <1>1, <2>1
<1>5. CASE Restart
    <2>1. /\ UNCHANGED <<signCount, signed, count>>
          /\ \A k \in Logins : pc'[k] = "verified" => pc[k] = "verified"
        BY <1>5 DEF Restart, tables, client, request
    <2> QED
        BY <1>1, <2>1
<1>6. CASE UNCHANGED vars
    BY <1>1, <1>6 DEF vars, tables, client, request
<1> QED
    BY <1>2, <1>3, <1>4, <1>5, <1>6 DEF Next

\* A stored sign count falls only where a sign-in writes that was verified before
\* another one with the credential wrote, CountFallsOnlyOvertaken of the runs.
THEOREM CountsFallOnlyOvertaken == Spec => CountFallsOnlyOvertaken
<1> DEFINE Fall == \A c \in Registrations :
                      signCount'[c] < signCount[c] =>
                         \E l \in Logins : /\ signed[l] = c /\ disturbed[l]
                                           /\ pc[l] = "verified" /\ pc'[l] = "in"
<1>1. IInv /\ Ahead /\ [Next]_vars => [Fall]_vars
    <2> SUFFICES ASSUME IInv, Ahead, Next PROVE Fall
        OBVIOUS
    <2> USE CeremonyAssumption DEF IInv, TypeOK, Ceremonies
    <2>1. UNCHANGED signCount => Fall
        OBVIOUS
    <2>2. ASSUME NEW l \in Logins, LoginFinish(l) PROVE Fall
        <3>1. /\ signCount' = [signCount EXCEPT ![signed[l]] = count[l]]
              /\ pc[l] = "verified" /\ pc'[l] = "in" /\ signed[l] \in Registrations
            BY <2>2 DEF LoginFinish, UpdatePasskeySignCount, Goto, EnteredStored
        <3> QED
            BY <3>1 DEF Ahead
    <2>3. ASSUME NEW r \in Registrations, Registers(r) PROVE UNCHANGED signCount
        BY <2>3 DEF Registers, BeginUser, BeginCheck, BeginSave, MakeKey, FinishConsume,
                    FinishCheck, FinishStore, tables
    <2>4. ASSUME NEW l \in Logins, SignsIn(l), ~LoginFinish(l) PROVE UNCHANGED signCount
        BY <2>4 DEF SignsIn, LoginBegin, LoginConsume, LoginVerify, Sign, tables
    <2>5. ASSUME NEW p \in Ceremonies, GiveUp(p) PROVE UNCHANGED signCount
        BY <2>5 DEF GiveUp, tables
    <2>6. Restart => UNCHANGED signCount
        BY DEF Restart, tables
    <2> QED
        BY <2>1, <2>2, <2>3, <2>4, <2>5, <2>6 DEF Next
<1> QED
    BY InitIInv, IInvStep, InitAhead, AheadStep, <1>1, PTL DEF Spec, CountFallsOnlyOvertaken
=============================================================================
