--------------------------- MODULE ConsoleSession ---------------------------
(***************************************************************************)
(* Signing in to the web console: the gate of App.tsx, the form of         *)
(* auth-page.tsx and the account tab of settings-page.tsx, over request()  *)
(* of lib/api.ts and the requireAuth middleware of internal/api/auth.go.   *)
(*                                                                         *)
(* The browser keeps two things of a session: the HttpOnly cookie, which   *)
(* it attaches by itself and which all tabs share, and the CSRF token in   *)
(* a variable of api.ts, which every write must carry.  Answers set and    *)
(* clear them in whatever order they arrive.  A session is a number; the   *)
(* token of session n is n, and 0 stands for no cookie and no token.       *)
(***************************************************************************)
EXTENDS Naturals, FiniteSets

CONSTANTS Slots,        \* bound: requests of the tab in flight
          Account,      \* requests of the account tab that end every session
          MaxSessions,  \* bound: sessions the server ever issues
          MaxReloads    \* bound: reloads of the tab

ASSUME SessionAssumption ==
    /\ Slots \subseteq Nat \ {0} /\ Slots # {}
    /\ Account \subseteq {"logoutAll", "username", "password"}
    /\ MaxSessions \in Nat /\ MaxReloads \in Nat

VARIABLES
    configured,  \* the administrator account exists
    live,        \* sessions the server still accepts
    issued,      \* sessions the server has issued
    cookie,      \* the session of the hx_session cookie
    csrf,        \* csrfToken of api.ts
    gate,        \* authGate of App
    submitting,  \* the submit that keeps the mounted form busy, 0: none
    flight,      \* per slot: the request in flight
    mixed,       \* ghost: a second login raced the first since the last reload
    reloads      \* reloads so far

session == <<configured, live, issued, cookie, csrf, gate, submitting, flight, mixed, reloads>>

Sessions == 1..MaxSessions
\* "setup" and "login" are {phase: "required"}; "blind" is ready without a username.
Forms == {"setup", "login"}
Gates == Forms \cup {"checking", "ready", "blind"}
AuthKinds == {"status", "setup", "login", "logout"} \cup Account
Kinds == AuthKinds \cup {"read", "write"}
Chain == {"setup", "login", "status"}   \* what submit() awaits, one after another
Answers == {"pending", "open", "stranger", "known", "ok", "unauthorized", "forbidden", "failed"}
Idle == [kind |-> "idle", sess |-> 0, token |-> 0, answer |-> "pending"]

SessionTypeOK ==
    /\ configured \in BOOLEAN /\ mixed \in BOOLEAN
    /\ live \subseteq Sessions
    /\ issued \in 0..MaxSessions
    /\ cookie \in 0..MaxSessions
    /\ csrf \in 0..MaxSessions
    /\ gate \in Gates
    /\ submitting \in Slots \cup {0}
    /\ flight \in [Slots -> [kind : Kinds \cup {"idle"}, sess : 0..MaxSessions,
                             token : 0..MaxSessions, answer : Answers]]
    /\ reloads \in 0..MaxReloads

-----------------------------------------------------------------------------
\* fetch(): the cookie is attached by the browser, the token when there is one.
Request(kind, sess, token) ==
    [kind |-> kind, sess |-> sess, token |-> IF kind \in {"status", "read"} THEN 0 ELSE token,
     answer |-> "pending"]

\* A fresh tab: App is checking and its effect has asked for the status.
OpeningFlight(with) ==
    LET first == CHOOSE s \in Slots : \A t \in Slots : s <= t
    IN  [s \in Slots |-> IF s = first THEN Request("status", with, 0) ELSE Idle]

SessionInit ==
    /\ configured \in BOOLEAN
    /\ live = {} /\ issued = 0 /\ cookie = 0
    /\ csrf = 0 /\ gate = "checking" /\ submitting = 0
    /\ flight = OpeningFlight(0)
    /\ mixed = FALSE /\ reloads = 0

Free(s) == flight[s].kind = "idle"
\* Slots are taken in order, so that equal flights are one state.
NextFree(s) == Free(s) /\ \A t \in Slots : Free(t) => s <= t
Send(s, kind) == flight' = [flight EXCEPT ![s] = Request(kind, cookie, csrf)]

\* setAuthGate: showing a form that was not there mounts it with busy = false.
ShowGate(g) ==
    /\ gate' = g
    /\ submitting' = IF gate \in Forms /\ g \in Forms THEN submitting ELSE 0

\* The 401 handler, requireLogin and the end of handleLogout.
SignOut == csrf' = 0 /\ ShowGate("login")

-----------------------------------------------------------------------------
(* What the administrator and the pages do. *)

\* Mutant of Submit: the button is not disabled while the form is busy.
SubmitTwice(s) ==
    /\ gate \in Forms /\ NextFree(s)
    /\ Send(s, IF gate = "setup" THEN "setup" ELSE "login")
    /\ submitting' = s
    /\ mixed' = (mixed \/ \E t \in Slots : flight[t].kind = "status")
    /\ UNCHANGED <<configured, live, issued, cookie, csrf, gate, reloads>>

\* submit() of the form shown: setup first when the server has no account.
Submit(s) ==
    /\ gate \in Forms /\ submitting = 0 /\ NextFree(s)
    /\ Send(s, IF gate = "setup" THEN "setup" ELSE "login")
    /\ submitting' = s
    /\ mixed' = (mixed \/ \E t \in Slots : flight[t].kind = "status")
    /\ UNCHANGED <<configured, live, issued, cookie, csrf, gate, reloads>>

\* The logout button, offered when there is a username.
ClickLogout(s) ==
    /\ gate = "ready" /\ NextFree(s)
    /\ Send(s, "logout")
    /\ UNCHANGED <<configured, live, issued, cookie, csrf, gate, submitting, mixed, reloads>>

\* logoutAll, changeUsername and changePassword of the account tab.
ClickAccount(s, kind) ==
    /\ gate \in {"ready", "blind"} /\ NextFree(s)
    /\ Send(s, kind)
    /\ UNCHANGED <<configured, live, issued, cookie, csrf, gate, submitting, mixed, reloads>>

\* Any other request of a mounted page.
PageRequest(s, kind) ==
    /\ gate \in {"ready", "blind"} /\ NextFree(s)
    /\ Send(s, kind)
    /\ UNCHANGED <<configured, live, issued, cookie, csrf, gate, submitting, mixed, reloads>>

\* The tab is opened anew: its memory is lost, the cookie is not.
Reload ==
    /\ reloads < MaxReloads
    /\ reloads' = reloads + 1
    /\ csrf' = 0 /\ gate' = "checking" /\ submitting' = 0 /\ mixed' = FALSE
    /\ flight' = OpeningFlight(cookie)
    /\ UNCHANGED <<configured, live, issued, cookie>>

\* Another tab of the browser signs in: the cookie is shared, the token is not.
OtherTabLogin ==
    /\ configured /\ issued < MaxSessions
    /\ issued' = issued + 1
    /\ live' = live \cup {issued'}
    /\ cookie' = issued'
    /\ mixed' = TRUE
    /\ UNCHANGED <<configured, csrf, gate, submitting, flight, reloads>>

-----------------------------------------------------------------------------
(* The server. *)

Pending(s) == flight[s].kind # "idle" /\ flight[s].answer = "pending"
Answer(s, a) == flight' = [flight EXCEPT ![s].answer = a]

\* requireAuth: the answer a guarded request gets before its handler runs.
Refusal(r) ==
    IF ~configured THEN (IF r.kind \in {"username", "password"} THEN "failed" ELSE "none")
    ELSE IF r.sess \notin live THEN "unauthorized"
    ELSE IF r.kind # "read" /\ r.token # r.sess THEN "forbidden" ELSE "none"

ServeStatus(s) ==
    /\ Pending(s) /\ flight[s].kind = "status"
    /\ Answer(s, IF ~configured THEN "open"
                 ELSE IF flight[s].sess \in live THEN "known" ELSE "stranger")
    /\ UNCHANGED <<configured, live, issued, cookie, csrf, gate, submitting, mixed, reloads>>

ServeSetup(s) ==
    /\ Pending(s) /\ flight[s].kind = "setup"
    /\ Answer(s, IF configured THEN "failed" ELSE "ok")
    /\ configured' = TRUE
    /\ UNCHANGED <<live, issued, cookie, csrf, gate, submitting, mixed, reloads>>

\* The answer of a login carries the new session in sess.
ServeLogin(s) ==
    /\ Pending(s) /\ flight[s].kind = "login"
    /\ configured /\ issued < MaxSessions
    /\ issued' = issued + 1
    /\ live' = live \cup {issued'}
    /\ flight' = [flight EXCEPT ![s].answer = "ok", ![s].sess = issued']
    /\ UNCHANGED <<configured, cookie, csrf, gate, submitting, mixed, reloads>>

\* Guarded requests: logout drops its session, an account change drops all.
ServeGuarded(s) ==
    /\ Pending(s) /\ flight[s].kind \notin Chain
    /\ LET r == flight[s] IN
       IF Refusal(r) # "none" THEN Answer(s, Refusal(r)) /\ UNCHANGED live
       ELSE /\ Answer(s, "ok")
            /\ live' = CASE r.kind = "logout" -> live \ {r.sess}
                         [] r.kind \in Account -> {}
                         [] OTHER -> live
    /\ UNCHANGED <<configured, issued, cookie, csrf, gate, submitting, mixed, reloads>>

\* The request or its answer is lost, or the handler rejects it: wrong
\* credentials or setup token, a database error, a proxy in between.
Fail(s) ==
    /\ flight[s].kind # "idle" /\ flight[s].answer # "failed"
    /\ Answer(s, "failed")
    /\ UNCHANGED <<configured, live, issued, cookie, csrf, gate, submitting, mixed, reloads>>

\* A session ends at the server: idle timeout, expiry, logout of another tab.
Expire ==
    /\ \E n \in live : live' = live \ {n}
    /\ UNCHANGED <<configured, issued, cookie, csrf, gate, submitting, flight, mixed, reloads>>

-----------------------------------------------------------------------------
(* The answers, in whatever order they arrive. *)

Answered(s) == flight[s].answer # "pending"
Done(s) == flight' = [flight EXCEPT ![s] = Idle]
server == <<configured, live, issued>>

\* Mutant of ReceiveStatus: refreshAuth() without its catch.
ReceiveStatusUncaught(s) ==
    /\ flight[s].kind = "status" /\ Answered(s)
    /\ CASE flight[s].answer = "open" -> UNCHANGED csrf /\ ShowGate("setup")
         [] flight[s].answer = "stranger" -> SignOut
         [] flight[s].answer = "known" -> csrf' = flight[s].sess /\ ShowGate("ready")
         [] OTHER -> UNCHANGED <<csrf, gate, submitting>>
    /\ Done(s)
    /\ UNCHANGED <<server, cookie, mixed, reloads>>

\* refreshAuth(): the gate follows the status; a failure opens the console
\* without a username.
ReceiveStatus(s) ==
    /\ flight[s].kind = "status" /\ Answered(s)
    /\ CASE flight[s].answer = "open" -> UNCHANGED csrf /\ ShowGate("setup")
         [] flight[s].answer = "stranger" -> SignOut
         [] flight[s].answer = "known" -> csrf' = flight[s].sess /\ ShowGate("ready")
         [] OTHER -> UNCHANGED csrf /\ ShowGate("blind")
    /\ Done(s)
    /\ UNCHANGED <<server, cookie, mixed, reloads>>

\* submit() after authSetup(): it goes on to log in with the same fields.
ReceiveSetup(s) ==
    /\ flight[s].kind = "setup" /\ flight[s].answer = "ok"
    /\ Send(s, "login")
    /\ UNCHANGED <<server, cookie, csrf, gate, submitting, mixed, reloads>>

\* api.login(), then onAuthenticated(): the status is asked for and the form
\* is no longer busy while that answer is on its way.
ReceiveLogin(s) ==
    /\ flight[s].kind = "login" /\ flight[s].answer = "ok"
    /\ cookie' = flight[s].sess
    /\ csrf' = flight[s].sess
    /\ flight' = [flight EXCEPT ![s] = Request("status", flight[s].sess, 0)]
    /\ submitting' = IF submitting = s THEN 0 ELSE submitting
    /\ UNCHANGED <<server, gate, mixed, reloads>>

\* The catch and finally of submit().
ReceiveRefusedSubmit(s) ==
    /\ flight[s].kind \in {"setup", "login"} /\ flight[s].answer = "failed"
    /\ submitting' = IF submitting = s THEN 0 ELSE submitting
    /\ Done(s)
    /\ UNCHANGED <<server, cookie, csrf, gate, mixed, reloads>>

\* handleLogout(): the form is shown whether or not the server logged out.
ReceiveLogout(s) ==
    /\ flight[s].kind = "logout" /\ Answered(s)
    /\ cookie' = IF flight[s].answer = "ok" THEN 0 ELSE cookie
    /\ SignOut
    /\ Done(s)
    /\ UNCHANGED <<server, mixed, reloads>>

\* The account tab signs out only when the server did.
ReceiveAccount(s) ==
    /\ flight[s].kind \in Account /\ Answered(s)
    /\ IF flight[s].answer = "ok" THEN cookie' = 0 /\ SignOut
       ELSE UNCHANGED <<cookie, csrf, gate, submitting>>
    /\ Done(s)
    /\ UNCHANGED <<server, mixed, reloads>>

\* request(): a 401 outside /auth/ calls the handler of App, whoever asked.
ReceivePage(s) ==
    /\ flight[s].kind \in {"read", "write"} /\ Answered(s)
    /\ IF flight[s].answer = "unauthorized" THEN SignOut
       ELSE UNCHANGED <<csrf, gate, submitting>>
    /\ Done(s)
    /\ UNCHANGED <<server, cookie, mixed, reloads>>

-----------------------------------------------------------------------------
Serve(s) == ServeStatus(s) \/ ServeSetup(s) \/ ServeLogin(s) \/ ServeGuarded(s)
Receive(s) ==
    \/ ReceiveStatus(s) \/ ReceiveSetup(s) \/ ReceiveLogin(s) \/ ReceiveRefusedSubmit(s)
    \/ ReceiveLogout(s) \/ ReceiveAccount(s) \/ ReceivePage(s)

SessionNext ==
    \/ \E s \in Slots : Submit(s) \/ ClickLogout(s)
    \/ \E s \in Slots, kind \in Account : ClickAccount(s, kind)
    \/ \E s \in Slots, kind \in {"read", "write"} : PageRequest(s, kind)
    \/ Reload \/ OtherTabLogin \/ Expire
    \/ \E s \in Slots : Serve(s) \/ Fail(s) \/ Receive(s)

SessionSpec == SessionInit /\ [][SessionNext]_session

-----------------------------------------------------------------------------
(* Properties. *)

\* Whoever is shown as signed in has a token to write with: every path that
\* clears csrfToken also shows the form, every path to "ready" brings a token.
ReadyHasToken == gate = "ready" => csrf # 0

\* Unless a second login raced the first (another tab, or a second submit
\* while the status of the first is on its way), the token the next write
\* carries is the one of the session its cookie names: whatever the order in
\* which the answers of logins, logouts, account changes and rejected
\* requests of the previous session arrive, no write is refused for the CSRF
\* token of another session.
TokenOfCookie == ~mixed /\ csrf # 0 /\ cookie # 0 => csrf = cookie

\* Both: the administrator who is shown the console can change things in it.
SignedInCanWrite == ReadyHasToken /\ TokenOfCookie

\* "Checking" ends, and so does the busy state of a form, whatever fails:
\* nobody is locked out of the console by a lost answer.
GateSettles ==
    /\ gate = "checking" ~> gate # "checking"
    /\ \A s \in Slots : submitting = s ~> submitting # s
=============================================================================
