------------------------------ MODULE Session -------------------------------
(***************************************************************************)
(* The signed-in state of the browser: the token in the localStorage that  *)
(* all windows share (frontend/src/api/client.ts), the routes and the      *)
(* redirects of each window (App.tsx, components/Layout.tsx), the sign-in  *)
(* of pages/Login.tsx and pages/Register.tsx as the window sees it, and    *)
(* the requests that carry the token (internal/server/middleware/jwt.go).  *)
(*                                                                         *)
(* at[w] is window.location, shown[w] what React has rendered: a           *)
(* navigation changes the first, and Commit, with the effects that follow  *)
(* it, the second.  A window has one sign-in at a time, and the user       *)
(* clicks only on what has settled.                                        *)
(***************************************************************************)
EXTENDS Naturals

CONSTANTS
    Windows, Tokens,
    NoToken, Junk,     \* nothing stored; a value that normalizeToken rejects
    EnvToken,          \* VITE_API_TOKEN, or NoToken
    NoPage,            \* nothing rendered yet
    MaxMoves,          \* bound: what the user does
    MaxMishaps         \* bound: tokens that expire, answers that are errors

ASSUME SessionAssumption ==
    /\ {NoToken, Junk} \cap Tokens = {} /\ NoToken # Junk
    /\ EnvToken \in Tokens \cup {NoToken}
    /\ MaxMoves \in Nat /\ MaxMishaps \in Nat

Protected == {"/dashboard", "/api-keys"}
Entrance == {"/login", "/register"}
Pages == Protected \cup Entrance \cup {"/", "other"}

ASSUME NoPageAssumption == NoPage \notin Pages

VARIABLES
    stored,        \* localStorage['mpb_token']
    news,          \* the windows with a storage event to come
    at, shown,
    authed,        \* authed[w]: the state of App
    bar,           \* bar[w]: the state of Layout
    crossed,       \* history: the windows that an answer sent on before they had settled
    requests,      \* the requests under way
    signing,       \* signing[w]: the sign-in of w
    valid, given,  \* the tokens that JWTAuth accepts; those that were ever made
    moves, mishaps

storage == <<stored, news>>
view == <<at, shown, authed, bar, crossed>>
server == <<valid, given>>
sessionVars == <<storage, view, requests, signing, server, moves, mishaps>>

RequestStates == {"none", "ok", "unauthorized", "error"}
SignInSteps == {"no", "prompt", "sent", "granted", "refused"}
NoSignIn == [stage |-> "no", token |-> NoToken]

Moves == moves < MaxMoves /\ moves' = moves + 1
Mishap == mishaps < MaxMishaps /\ mishaps' = mishaps + 1

-----------------------------------------------------------------------------
(* The token *)

\* authToken and hasAuthToken
Token == IF stored \in Tokens THEN stored ELSE EnvToken
HasToken == Token # NoToken

\* localStorage tells the other windows of a change.
Store(w, value) ==
    /\ stored' = value
    /\ news' = IF value = stored THEN news ELSE news \cup (Windows \ {w})

\* storedToken: reading removes what is no token.
Read(w) == Store(w, IF stored = Junk THEN NoToken ELSE stored)

-----------------------------------------------------------------------------
(* The routes *)

\* Where the page that App renders for this path sends the window.
Redirect(page, in) ==
    CASE page = "/" -> IF in THEN "/dashboard" ELSE "/login"
      [] page \in Protected /\ ~in -> "/login"
      [] page \in Entrance /\ in -> "/dashboard"
      [] OTHER -> page

Rendered(page, in, next) == IF Redirect(page, in) = page THEN next ELSE Redirect(page, in)

\* Mutant: the effects on location.pathname are missing.
Unchecked(w) == authed[w]

\* setAuthed(hasAuthToken())
Checked(w) == HasToken

\* The new location is rendered with the old authed, whose Navigate runs first; then the
\* effects of Layout and App look for the token, and the page is rendered again.
Commit(w) ==
    /\ at[w] # shown[w]
    /\ Read(w)
    /\ shown' = [shown EXCEPT ![w] = at[w]]
    /\ authed' = [authed EXCEPT ![w] = Checked(w)]
    /\ bar' = [bar EXCEPT ![w] = Checked(w)]
    /\ at' = [at EXCEPT ![w] = Rendered(@, Checked(w), Redirect(@, authed[w]))]
    /\ crossed' = crossed \ {w}
    /\ UNCHANGED <<requests, signing, server, moves, mishaps>>

\* The storage event; what is stored then has been read before.
News(w) ==
    /\ w \in news /\ news' = news \ {w} /\ UNCHANGED stored
    /\ authed' = [authed EXCEPT ![w] = HasToken]
    /\ bar' = [bar EXCEPT ![w] = HasToken]
    /\ at' = [at EXCEPT ![w] = Rendered(shown[w], HasToken, @)]
    /\ crossed' = crossed \ {w}
    /\ UNCHANGED <<shown, requests, signing, server, moves, mishaps>>

Still(w) == at[w] = shown[w]

\* A link of the top bar or the tool bar, or Back or Forward, which lead anywhere.
Go(w, page) ==
    /\ Moves /\ Still(w) /\ page # at[w]
    /\ at' = [at EXCEPT ![w] = page]
    /\ UNCHANGED <<storage, shown, authed, bar, crossed, requests, signing, server, mishaps>>

\* An address is typed, or the page reloaded: all that the window was doing is dropped.
Load(w, page) ==
    /\ Moves /\ Read(w)
    /\ at' = [at EXCEPT ![w] = page] /\ shown' = [shown EXCEPT ![w] = NoPage]
    /\ authed' = [authed EXCEPT ![w] = HasToken] /\ bar' = [bar EXCEPT ![w] = FALSE]
    /\ crossed' = crossed \ {w}
    /\ requests' = {r \in requests : r.from # w}
    /\ signing' = [signing EXCEPT ![w] = NoSignIn]
    /\ UNCHANGED <<server, mishaps>>

\* logout of Layout; App hears of it when the path has changed.
Logout(w) ==
    /\ Moves /\ Still(w) /\ bar[w]
    /\ Store(w, NoToken)
    /\ bar' = [bar EXCEPT ![w] = FALSE]
    /\ at' = [at EXCEPT ![w] = "/login"]
    /\ UNCHANGED <<shown, authed, crossed, requests, signing, server, mishaps>>

\* navigate(page) when an answer has come
SentOn(w, page) ==
    /\ at' = [at EXCEPT ![w] = page]
    /\ crossed' = IF Still(w) THEN crossed ELSE crossed \cup {w}

\* request() after a 401: clearToken, then onUnauthorized of App, all in one step, so that
\* the location is /login already when request() looks at it.
Unauthorized(w) ==
    /\ Store(w, NoToken)
    /\ authed' = [authed EXCEPT ![w] = FALSE]
    /\ SentOn(w, "/login")
    /\ UNCHANGED <<shown, bar>>

-----------------------------------------------------------------------------
(* Requests *)

\* A query or a mutation of a protected page, with the token of this moment.
SendRequest(w) ==
    /\ Moves /\ Still(w) /\ shown[w] \in Protected /\ authed[w]
    /\ Read(w)
    /\ requests' = requests \cup {[from |-> w, token |-> Token, no |-> moves', answer |-> "none"]}
    /\ UNCHANGED <<view, signing, server, mishaps>>

\* JWTAuth
Answer(r) ==
    /\ r.answer = "none"
    /\ \E answer \in {"ok", "unauthorized", "error"} :
        /\ requests' = (requests \ {r}) \cup {[r EXCEPT !.answer = answer]}
        /\ (answer = "unauthorized") => r.token \notin valid
        /\ (answer = "ok") => r.token \in valid
        /\ IF answer = "error" THEN Mishap ELSE UNCHANGED mishaps
    /\ UNCHANGED <<storage, view, signing, server, moves>>

\* Mutant: every error ends the session.
EndsOnError(answer) == answer # "ok"

EndsSession(answer) == answer = "unauthorized"

Receive(r) ==
    /\ r.answer # "none" /\ requests' = requests \ {r}
    /\ IF EndsSession(r.answer) THEN Unauthorized(r.from) ELSE UNCHANGED <<storage, view>>
    /\ UNCHANGED <<signing, server, moves, mishaps>>

-----------------------------------------------------------------------------
(* Signing in *)

\* The prompt of Login, of its own at first, or the form of Register.
StartSignIn(w) ==
    /\ Moves /\ shown[w] \in Entrance /\ Still(w) /\ ~authed[w]
    /\ signing[w] = NoSignIn
    /\ signing' = [signing EXCEPT ![w].stage = "prompt"]
    /\ UNCHANGED <<storage, view, requests, server, mishaps>>

\* The user confirms or cancels, wherever the window is by then.
Confirm(w) ==
    /\ signing[w].stage = "prompt"
    /\ \E stage \in {"sent", "no"} : signing' = [signing EXCEPT ![w].stage = stage]
    /\ UNCHANGED <<storage, view, requests, server, moves, mishaps>>

\* finish: a new token (GenerateToken), a 401, or another error.
AnswerSignIn(w) ==
    /\ signing[w].stage = "sent"
    /\ \/ \E t \in Tokens \ given :
            /\ given' = given \cup {t} /\ valid' = valid \cup {t}
            /\ signing' = [signing EXCEPT ![w] = [stage |-> "granted", token |-> t]]
            /\ UNCHANGED mishaps
       \/ \E outcome \in {"refused", "no"} :
            /\ Mishap /\ UNCHANGED server
            /\ signing' = [signing EXCEPT ![w].stage = outcome]
    /\ UNCHANGED <<storage, view, requests, moves>>

\* persistToken and navigate; or the 401 of request().
SignedIn(w) ==
    /\ signing[w].stage \in {"granted", "refused"}
    /\ signing' = [signing EXCEPT ![w] = NoSignIn]
    /\ IF signing[w].stage = "granted"
       THEN /\ Store(w, signing[w].token)
            /\ SentOn(w, "/dashboard")
            /\ UNCHANGED <<shown, authed, bar>>
       ELSE Unauthorized(w)
    /\ UNCHANGED <<requests, server, moves, mishaps>>

\* The token's time is over, or the server has another secret.
Expire(t) ==
    /\ Mishap /\ t \in valid /\ valid' = valid \ {t}
    /\ UNCHANGED <<storage, view, requests, signing, given, moves>>

-----------------------------------------------------------------------------
(* The specification *)

SessionInit ==
    /\ stored \in Tokens \cup {NoToken, Junk} /\ news = {}
    /\ at \in [Windows -> Pages] /\ shown = [w \in Windows |-> NoPage]
    /\ authed = [w \in Windows |-> HasToken] /\ bar = [w \in Windows |-> FALSE]
    /\ crossed = {}
    /\ requests = {} /\ signing = [w \in Windows |-> NoSignIn]
    /\ given = {stored, EnvToken} \cap Tokens /\ valid \in SUBSET given
    /\ moves = 0 /\ mishaps = 0

\* What happens without the user.
Proceed(w) ==
    \/ Commit(w) \/ News(w) \/ AnswerSignIn(w) \/ SignedIn(w)
    \/ \E r \in requests : r.from = w /\ (Answer(r) \/ Receive(r))

SessionNext ==
    \/ \E w \in Windows :
        \/ Proceed(w) \/ Logout(w) \/ SendRequest(w) \/ StartSignIn(w) \/ Confirm(w)
        \/ \E page \in Pages : Go(w, page) \/ Load(w, page)
    \/ \E t \in Tokens : Expire(t)

\* The browser renders, delivers events and answers.
SessionFairness == \A w \in Windows : WF_sessionVars(Proceed(w))

SessionSpec == SessionInit /\ [][SessionNext]_sessionVars /\ SessionFairness

-----------------------------------------------------------------------------
(* Properties *)

SessionTypeOK ==
    /\ stored \in Tokens \cup {NoToken, Junk}
    /\ news \subseteq Windows /\ crossed \subseteq Windows
    /\ at \in [Windows -> Pages] /\ shown \in [Windows -> Pages \cup {NoPage}]
    /\ authed \in [Windows -> BOOLEAN] /\ bar \in [Windows -> BOOLEAN]
    /\ requests \subseteq [from: Windows, token: Tokens \cup {NoToken}, no: 1..MaxMoves,
                           answer: RequestStates]
    /\ signing \in [Windows -> [stage: SignInSteps, token: Tokens \cup {NoToken}]]
    /\ valid \subseteq given /\ given \subseteq Tokens
    /\ moves \in 0..MaxMoves /\ mishaps \in 0..MaxMishaps

\* A stored token that the server accepts is given up only at the user's logout or for a
\* sign-in, or for a 401 to a request that did not carry it: neither a failing server nor
\* another window's navigation costs the session.
TokenGivenUp ==
    \/ \E w \in Windows : Logout(w) \/ SignedIn(w)
    \/ \E r \in requests : r.answer = "unauthorized" /\ r.token # stored /\ Receive(r)

TokenKept ==
    [][(stored \in valid /\ stored' # stored) => TokenGivenUp]_sessionVars

\* In the end every window shows the page of its location, without a redirect to come,
\* and App and the bar agree with the token that is stored: whatever the order of
\* navigations, answers and storage events.  Excepted is a window that an answer navigated
\* while a redirect was being rendered: if it ends on the path it shows, no effect runs,
\* and the page may stay blank or the bar wrong until it moves again.
WindowSettled(w) ==
    /\ Still(w)
    /\ w \in crossed \/ /\ Redirect(at[w], authed[w]) = at[w]
                        /\ authed[w] = HasToken /\ bar[w] = HasToken

SessionSettles == <>[](\A w \in Windows : WindowSettled(w))
=============================================================================
