------------------------------ MODULE Passkeys ------------------------------
(***************************************************************************)
(* Passkey registration and sign-in: the four handlers                     *)
(* (internal/server/handlers/api.go), the sessions they keep in memory     *)
(* (internal/passkey/store.go), the statements of internal/store/store.go  *)
(* and the pages Register.tsx and Login.tsx that call them.                *)
(*                                                                         *)
(* A ceremony is one pass through a page: a begin request, the prompt of   *)
(* the authenticator, a finish request.  A registration names the          *)
(* challenge of its begin and the credential made from it, a login the     *)
(* session of its begin.  What the WebAuthn library verifies is external:  *)
(* that the challenge is the session's, and that the credential is one of  *)
(* the user the handler loaded.                                            *)
(***************************************************************************)
EXTENDS Integers

CONSTANTS
    Emails, Registrations, Logins,
    NoKey, NoEmail, NoSession,
    Counting,                \* credentials whose authenticator counts
    MaxCount, MaxRestarts    \* bounds

ASSUME CeremonyAssumption ==
    /\ Registrations \cap Logins = {}
    /\ NoKey \notin Registrations /\ NoEmail \notin Emails
    /\ NoSession \notin Registrations
    /\ Counting \subseteq Registrations
    /\ MaxCount \in Nat /\ MaxRestarts \in Nat

VARIABLES
    users,        \* table users
    passkey,      \* table passkeys: the credential of a user
    signCount,    \* its column sign_count
    regSessions,  \* in memory, by e-mail
    authSessions, \* in memory, by session id
    pc,           \* of every ceremony
    email,        \* email[r]: what the user typed
    session,      \* session[r]: what its finish has consumed
    device,       \* credentials the authenticators hold
    deviceCount,  \* and their signature counters
    signed,       \* signed[l]: the credential the user picked
    count,        \* count[l]: its counter, then the library's verdict on it
    restarts,
    disturbed     \* history: see Disturb, Restart and LoginFinish

tables  == <<users, passkey, signCount>>
memory  == <<regSessions, authSessions>>
client  == <<email, device, deviceCount, signed>>
request == <<session, count>>
vars == <<tables, memory, pc, client, request, restarts, disturbed>>

Ceremonies == Registrations \cup Logins
InServer == {"begun", "clear", "consumed", "verified"}
AtClient == {"asked", "made", "signed"}
RegPhases == {"idle", "begun", "clear", "asked", "made", "consumed", "verified",
              "registered", "conflict", "failed", "ended"}
LoginPhases == {"idle", "asked", "signed", "consumed", "verified", "in", "failed",
                "ended"}

Init ==
    /\ users = {} /\ passkey = [e \in Emails |-> NoKey]
    /\ signCount = [r \in Registrations |-> 0]
    /\ regSessions = [e \in Emails |-> NoSession] /\ authSessions = {}
    /\ pc = [p \in Ceremonies |-> "idle"]
    /\ email = [r \in Registrations |-> NoEmail]
    /\ session = [r \in Registrations |-> NoSession]
    /\ device = {} /\ deviceCount = [r \in Registrations |-> 0]
    /\ signed = [l \in Logins |-> NoKey] /\ count = [l \in Logins |-> 0]
    /\ restarts = 0 /\ disturbed = [p \in Ceremonies |-> FALSE]

Goto(p, phase) == pc' = [pc EXCEPT ![p] = phase]

-----------------------------------------------------------------------------
(* passkeyBegin: GetOrCreateUser, GetPasskeyByUser, SaveRegistrationSession. *)

GetOrCreateUser(e) == users' = users \cup {e}

\* GetPasskeyByUser finds a row.
HasPasskey(e) == passkey[e] # NoKey

BeginUser(r, e) ==
    /\ pc[r] = "idle" /\ Goto(r, "begun")
    /\ email' = [email EXCEPT ![r] = e]
    /\ GetOrCreateUser(e)
    /\ UNCHANGED <<passkey, signCount, memory, device, deviceCount, signed, request,
                   restarts, disturbed>>

BeginCheck(r) ==
    /\ pc[r] = "begun"
    /\ Goto(r, IF HasPasskey(email[r]) THEN "conflict" ELSE "clear")
    /\ UNCHANGED <<tables, memory, client, request, restarts, disturbed>>

\* History: ceremonies that are open for one e-mail at the same time.
Disturb(r) ==
    LET Rivals == {q \in Registrations \ {r} : email[q] = email[r]
                                               /\ pc[q] \in AtClient \cup {"consumed"}}
    IN  disturbed' = [p \in Ceremonies |-> \/ disturbed[p]
                                           \/ p \in Rivals
                                           \/ p = r /\ Rivals # {}]

\* Mutant: one slot for all e-mails.
SaveOnly(e, r) == regSessions' = [other \in Emails |-> IF other = e THEN r ELSE NoSession]

SaveRegistrationSession(e, r) == regSessions' = [regSessions EXCEPT ![e] = r]

BeginSave(r) ==
    /\ pc[r] = "clear" /\ Goto(r, "asked")
    /\ SaveRegistrationSession(email[r], r)
    /\ Disturb(r)
    /\ UNCHANGED <<tables, authSessions, client, request, restarts>>

\* Register.tsx: navigator.credentials.create.
MakeKey(r) ==
    /\ pc[r] = "asked" /\ Goto(r, "made")
    /\ device' = device \cup {r}
    /\ UNCHANGED <<tables, memory, email, deviceCount, signed, request, restarts,
                   disturbed>>

(* passkeyFinish *)

\* Mutant: the session is read and not deleted.
PeekRegistrationSession(e) == UNCHANGED regSessions

ConsumeRegistrationSession(e) == regSessions' = [regSessions EXCEPT ![e] = NoSession]

FinishConsume(r) ==
    /\ pc[r] = "made"
    /\ session' = [session EXCEPT ![r] = regSessions[email[r]]]
    /\ ConsumeRegistrationSession(email[r])
    /\ Goto(r, IF session'[r] = NoSession THEN "failed" ELSE "consumed")
    /\ UNCHANGED <<tables, authSessions, client, count, restarts, disturbed>>

\* GetUserByEmail, GetPasskeyByUser, then the library's FinishRegistration.
FinishCheck(r) ==
    /\ pc[r] = "consumed"
    /\ Goto(r, IF email[r] \notin users THEN "failed"
               ELSE IF HasPasskey(email[r]) THEN "conflict"
               ELSE IF session[r] # r THEN "failed"
               ELSE "verified")
    /\ UNCHANGED <<tables, memory, client, request, restarts, disturbed>>

\* Mutant: INSERT ... ON CONFLICT DO UPDATE.
UpsertPasskey(r) ==
    passkey' = [passkey EXCEPT ![email[r]] = r] /\ Goto(r, "registered")

\* CreatePasskey: user_id is UNIQUE.
CreatePasskey(r) ==
    IF passkey[email[r]] = NoKey
    THEN passkey' = [passkey EXCEPT ![email[r]] = r] /\ Goto(r, "registered")
    ELSE Goto(r, "conflict") /\ UNCHANGED passkey

FinishStore(r) ==
    /\ pc[r] = "verified"
    /\ CreatePasskey(r)
    /\ UNCHANGED <<users, signCount, memory, client, request, restarts, disturbed>>

-----------------------------------------------------------------------------
(* passkeyLoginBegin, the prompt, passkeyLoginFinish. *)

SaveAuthSessionByID(l) == authSessions' = authSessions \cup {l}

LoginBegin(l) ==
    /\ pc[l] = "idle" /\ Goto(l, "asked")
    /\ SaveAuthSessionByID(l)
    /\ UNCHANGED <<tables, regSessions, client, request, restarts, disturbed>>

\* Login.tsx: navigator.credentials.get, with any credential of the site.
Sign(l, c) ==
    LET n == IF c \in Counting THEN deviceCount[c] + 1 ELSE 0
    IN  /\ pc[l] = "asked" /\ Goto(l, "signed")
        /\ c \in device /\ n <= MaxCount
        /\ signed' = [signed EXCEPT ![l] = c]
        /\ deviceCount' = [deviceCount EXCEPT ![c] = n]
        /\ count' = [count EXCEPT ![l] = n]
        /\ UNCHANGED <<tables, memory, email, device, session, restarts, disturbed>>

ConsumeAuthSessionByID(l) == authSessions' = authSessions \ {l}

LoginConsume(l) ==
    /\ pc[l] = "signed"
    /\ ConsumeAuthSessionByID(l)
    /\ Goto(l, IF l \in authSessions THEN "consumed" ELSE "failed")
    /\ UNCHANGED <<tables, regSessions, client, request, restarts, disturbed>>

Stored(c) == \E e \in Emails : passkey[e] = c

\* Mutant: with a user handle, any passkey of the user will do.
LoadedByHandle(c) == IF passkey[email[c]] = NoKey THEN NoKey ELSE c

\* What the login handler loads: the row of the credential, else the passkey of
\* the user the credential was made for.
Loaded(c) == IF Stored(c) THEN c ELSE passkey[email[c]]

\* The library keeps the larger of the stored and the signed count.
UpdateCounter(stored, n) == IF n <= stored THEN stored ELSE n

LoginVerify(l) ==
    LET c == signed[l]
    IN  /\ pc[l] = "consumed"
        /\ Goto(l, IF Loaded(c) = c THEN "verified" ELSE "failed")
        /\ count' = [count EXCEPT ![l] = UpdateCounter(signCount[c], @)]
        /\ UNCHANGED <<tables, memory, client, session, restarts, disturbed>>

\* Mutant: without the WHERE clause.
UpdateEveryRow(c, n) == signCount' = [d \in Registrations |-> n]

UpdatePasskeySignCount(c, n) == signCount' = [signCount EXCEPT ![c] = n]

\* The update and the token.  History: sign-ins overtaken by it.
LoginFinish(l) ==
    /\ pc[l] = "verified" /\ Goto(l, "in")
    /\ UpdatePasskeySignCount(signed[l], count[l])
    /\ disturbed' = [p \in Ceremonies |->
                       \/ disturbed[p]
                       \/ p \in Logins \ {l} /\ pc[p] = "verified"
                          /\ signed[p] = signed[l]]
    /\ UNCHANGED <<users, passkey, memory, client, request, restarts>>

-----------------------------------------------------------------------------
(* A request ends with an error or its client goes away; a user cancels the
   prompt or leaves the page.  Nothing is answered that counts. *)
GiveUp(p) ==
    /\ pc[p] \in InServer \cup AtClient /\ Goto(p, "ended")
    /\ UNCHANGED <<tables, memory, client, request, restarts, disturbed>>

\* The process ends and another takes its place: NewChallengeStore.
Restart ==
    /\ restarts < MaxRestarts /\ restarts' = restarts + 1
    /\ regSessions' = [e \in Emails |-> NoSession] /\ authSessions' = {}
    /\ pc' = [p \in Ceremonies |-> IF pc[p] \in InServer THEN "ended" ELSE pc[p]]
    /\ disturbed' = [p \in Ceremonies |-> disturbed[p] \/ pc[p] \in AtClient]
    /\ UNCHANGED <<tables, client, request>>

Registers(r) == \/ \E e \in Emails : BeginUser(r, e)
                \/ BeginCheck(r) \/ BeginSave(r) \/ MakeKey(r)
                \/ FinishConsume(r) \/ FinishCheck(r) \/ FinishStore(r)

SignsIn(l) == \/ LoginBegin(l) \/ LoginConsume(l) \/ LoginVerify(l) \/ LoginFinish(l)
              \/ \E c \in Registrations : Sign(l, c)

Next == \/ \E r \in Registrations : Registers(r)
        \/ \E l \in Logins : SignsIn(l)
        \/ \E p \in Ceremonies : GiveUp(p)
        \/ Restart

Spec == Init /\ [][Next]_vars

-----------------------------------------------------------------------------
(* Properties *)

\* Types.  A stored sign count is one that the authenticator has reached.
TypeOK ==
    /\ users \subseteq Emails /\ passkey \in [Emails -> Registrations \cup {NoKey}]
    /\ signCount \in [Registrations -> Nat]
    /\ \A c \in Registrations : signCount[c] <= deviceCount[c]
    /\ regSessions \in [Emails -> Registrations \cup {NoSession}]
    /\ authSessions \subseteq Logins
    /\ pc \in [Ceremonies -> RegPhases \cup LoginPhases]
    /\ \A r \in Registrations : pc[r] \in RegPhases
    /\ \A l \in Logins : pc[l] \in LoginPhases
    /\ email \in [Registrations -> Emails \cup {NoEmail}]
    /\ session \in [Registrations -> Registrations \cup {NoSession}]
    /\ device \subseteq Registrations /\ deviceCount \in [Registrations -> Nat]
    /\ signed \in [Logins -> Registrations \cup {NoKey}] /\ count \in [Logins -> Nat]
    /\ restarts \in 0..MaxRestarts /\ disturbed \in [Ceremonies -> BOOLEAN]

\* A session is single-use (internal/passkey/store_test.go), also when two
\* finish requests for one e-mail arrive together: at most one of them gets it.
SessionSingleUse ==
    \A q, r \in Registrations :
        q # r /\ session[q] = session[r] => session[r] = NoSession

\* A registration that had its e-mail to itself is not refused at its finish, nor
\* is a login with the registered credential: only a restart, or another
\* registration that is open for the same e-mail, takes a session away.
RefusalHasReason ==
    [][\A p \in Ceremonies :
         pc[p] # "failed" /\ pc'[p] = "failed" =>
             disturbed[p] \/ (p \in Logins /\ ~Stored(signed[p]))]_vars

\* A stored sign count goes down only where two sign-ins with one credential
\* overlap: the one that writes last had read the row before the other wrote it.
CountFallsOnlyOvertaken ==
    [][\A c \in Registrations :
         signCount'[c] < signCount[c] =>
             \E l \in Logins : /\ signed[l] = c /\ disturbed[l]
                               /\ pc[l] = "verified" /\ pc'[l] = "in"]_vars

\* Registration and sign-in keep the promise of KeyBook.
Book == INSTANCE KeyBook
            WITH Credentials <- Registrations, key <- passkey,
                 inside <- [l \in Logins |-> IF pc[l] = "in" THEN signed[l] ELSE NoKey]

\* One credential per e-mail, the first registered one stays, and a login that
\* gets a token was made with a credential that is registered.
ImplementsKeyBook == Book!Spec
=============================================================================
