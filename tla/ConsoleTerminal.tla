-------------------------- MODULE ConsoleTerminal --------------------------
(***************************************************************************)
(* The server terminal of the web console, terminal-page.tsx: its          *)
(* connection, the reconnect timer and keepalive of it, and the 2FA status *)
(* the page polls.  ConsoleFiles has the file panel it renders.            *)
(*                                                                         *)
(* App mounts the page at the first visit and keeps it mounted under the   *)
(* other pages; it is unmounted when the console asks for a login.  The    *)
(* socket is a reference that callbacks of older sockets share: wire holds *)
(* what the browser still has to report of each of them.                   *)
(***************************************************************************)
EXTENDS Naturals

CONSTANT Sockets  \* bound: WebSockets whose close event is outstanding

ASSUME TerminalAssumption == Sockets \subseteq Nat \ {0}

VARIABLES
    shown,      \* App is ready: its pages are mounted
    page,       \* the page of App
    visited,    \* terminalMounted of App
    granted,    \* the server holds a valid 2FA verification for the session
    status,     \* what the page knows of it: "unknown", "yes", "no"
    conn,       \* connection
    socket,     \* socketRef, 0: null
    wire,       \* per socket: what the browser has to report of it
    timer,      \* reconnectTimerRef
    keepalive,  \* the socket of keepAliveRef's interval, 0: none
    tab,        \* the tab: the terminal surface exists under "shell" only
    probes,     \* terminalStatus() answers on their way
    strayed     \* ghost: the reconnect timer fired where connect() returns early

app == <<shown, page, visited>>
terminal == <<shown, page, visited, granted, status, conn, socket, wire, timer, keepalive,
              tab, probes, strayed>>

Codes == {"1000", "1006", "1008"}
Probes == [poll : BOOLEAN, says : {"yes", "no"}]

TerminalTypeOK ==
    /\ shown \in BOOLEAN /\ page \in {"terminal", "other"} /\ visited \in BOOLEAN
    /\ granted \in BOOLEAN
    /\ status \in {"unknown", "yes", "no"}
    /\ conn \in {"idle", "connecting", "connected", "reconnecting", "closed"}
    /\ socket \in Sockets \cup {0}
    /\ wire \in [Sockets -> {"none", "dialing", "open", "left"} \cup Codes]
    /\ timer \in BOOLEAN
    /\ keepalive \in Sockets \cup {0}
    /\ tab \in {"shell", "ops", "docker"}
    /\ probes \subseteq Probes
    /\ strayed \in BOOLEAN

-----------------------------------------------------------------------------
Mounted == shown /\ visited
\* containerRef.current: the unlock prompt and the other tabs take its place.
Surface == Mounted /\ tab = "shell" /\ status # "no"

\* Mutant of Ask: what the server does not answer stays unknown.
AskLoose(poll) == probes \cup {[poll |-> poll, says |-> IF granted THEN "yes" ELSE "unknown"]}

\* terminalStatus(): answered with what the server knows now, delivered later.
Ask(poll) == probes \cup {[poll |-> poll, says |-> IF granted THEN "yes" ELSE "no"]}

FreshPage ==
    /\ status' = "unknown" /\ conn' = "idle" /\ socket' = 0 /\ timer' = FALSE
    /\ keepalive' = 0 /\ tab' = "shell" /\ strayed' = FALSE

TerminalInit ==
    /\ shown = TRUE /\ page = "other" /\ visited = FALSE
    /\ granted = FALSE /\ status = "unknown"
    /\ conn = "idle" /\ socket = 0 /\ wire = [i \in Sockets |-> "none"]
    /\ timer = FALSE /\ keepalive = 0 /\ tab = "shell"
    /\ probes = {} /\ strayed = FALSE

-----------------------------------------------------------------------------
(* App and the server. *)

\* navigate(): the first visit of the terminal mounts it.
Navigate(p) ==
    /\ shown /\ p # page
    /\ page' = p
    /\ visited' = (visited \/ p = "terminal")
    /\ IF visited' /\ ~visited THEN FreshPage /\ probes' = Ask(FALSE)
       ELSE UNCHANGED <<status, conn, socket, timer, keepalive, tab, probes, strayed>>
    /\ UNCHANGED <<shown, granted, wire>>

\* The cleanup of the page: timer, interval and socket go, answers are dropped.
Unmount ==
    /\ shown /\ visited
    /\ shown' = FALSE
    /\ FreshPage
    /\ wire' = IF socket # 0 /\ wire[socket] \in {"dialing", "open"}
               THEN [wire EXCEPT ![socket] = "left"] ELSE wire
    /\ probes' = {}
    /\ UNCHANGED <<page, visited, granted>>

\* App is ready again: terminalMounted survived, the page mounts at once.
Remount ==
    /\ ~shown
    /\ shown' = TRUE
    /\ FreshPage /\ probes' = Ask(FALSE)
    /\ UNCHANGED <<page, visited, granted, wire>>

\* The verification lapses, or the sessions are revoked.
Lapse ==
    /\ granted /\ granted' = FALSE
    /\ UNCHANGED <<app, status, conn, socket, wire, timer, keepalive, tab, probes,
                   strayed>>

-----------------------------------------------------------------------------
(* The connection. *)

\* Mutant of Disconnect: the interval of the keepalive is not cleared.
DisconnectAlive ==
    /\ timer' = FALSE /\ UNCHANGED keepalive /\ socket' = 0 /\ conn' = "closed"
    /\ strayed' = FALSE
    /\ wire' = IF socket # 0 /\ wire[socket] \in {"dialing", "open"}
               THEN [wire EXCEPT ![socket] = "left"] ELSE wire

\* disconnect()
Disconnect ==
    /\ timer' = FALSE /\ keepalive' = 0 /\ socket' = 0 /\ conn' = "closed" /\ strayed' = FALSE
    /\ wire' = IF socket # 0 /\ wire[socket] \in {"dialing", "open"}
               THEN [wire EXCEPT ![socket] = "left"] ELSE wire

\* connect() past its early returns: a new socket becomes the current one.
Dial ==
    /\ \E i \in Sockets :
        /\ wire[i] = "none" /\ \A j \in Sockets : wire[j] = "none" => i <= j
        /\ wire' = [wire EXCEPT ![i] = "dialing"]
        /\ socket' = i
    /\ conn' = "connecting"

\* The button; the branch of connect() for an unverified status is behind a
\* disabled button, and a pending timer behind a state that disables it.
ClickConnect ==
    /\ Surface /\ status = "yes" /\ conn \in {"idle", "closed"} /\ socket = 0
    /\ Dial /\ timer' = FALSE
    /\ UNCHANGED <<app, granted, status, keepalive, tab, probes, strayed>>

ClickDisconnect ==
    /\ Surface /\ conn = "connected"
    /\ Disconnect
    /\ UNCHANGED <<app, granted, status, tab, probes>>

\* The timer of scheduleReconnect: it looks at the status and connect() at the
\* surface; where either returns, nothing is scheduled any more.
TimerFires ==
    /\ timer /\ timer' = FALSE
    /\ IF status = "yes" /\ Surface /\ socket = 0
       THEN Dial /\ UNCHANGED strayed
       ELSE strayed' = TRUE /\ UNCHANGED <<conn, socket, wire>>
    /\ UNCHANGED <<app, granted, status, keepalive, tab, probes>>

\* Mutant of IsCurrentSocket: callbacks do not ask whose they are.
AnySocket(i) == TRUE

IsCurrentSocket(i) == socket = i

\* onopen
SocketOpens(i) ==
    /\ wire[i] = "dialing" /\ granted
    /\ wire' = [wire EXCEPT ![i] = "open"]
    /\ IF IsCurrentSocket(i) THEN conn' = "connected" /\ keepalive' = i
       ELSE UNCHANGED <<conn, keepalive>>
    /\ UNCHANGED <<app, granted, status, socket, timer, tab, probes, strayed>>

\* The connection ends under the page: a refused handshake, a network drop or
\* the pong deadline of the keepalive (1006), a revoked session (1008), a
\* clean close in between (1000).
SocketEnds(i, code) ==
    /\ \/ wire[i] = "dialing" /\ code = "1006"
       \/ wire[i] = "open"
    /\ wire' = [wire EXCEPT ![i] = code]
    /\ UNCHANGED <<app, granted, status, conn, socket, timer, keepalive, tab, probes,
                   strayed>>

\* Mutant of SocketClosed: the page says it reconnects and sets no timer.
SocketClosedIdle(i) ==
    /\ wire[i] \in Codes \cup {"left"}
    /\ wire' = [wire EXCEPT ![i] = "none"]
    /\ IF IsCurrentSocket(i)
       THEN /\ keepalive' = 0 /\ socket' = 0
            /\ probes' = Ask(FALSE)
            /\ conn' = (IF wire[i] = "1006" THEN "reconnecting" ELSE "closed")
            /\ UNCHANGED timer /\ strayed' = FALSE
       ELSE UNCHANGED <<conn, socket, timer, keepalive, probes, strayed>>
    /\ UNCHANGED <<app, granted, status, tab>>

\* onclose: an older socket changes nothing, 1000 and 1008 end the session,
\* anything else schedules a reconnect.
SocketClosed(i) ==
    /\ wire[i] \in Codes \cup {"left"}
    /\ wire' = [wire EXCEPT ![i] = "none"]
    /\ IF IsCurrentSocket(i)
       THEN /\ keepalive' = 0 /\ socket' = 0
            /\ probes' = Ask(FALSE)
            /\ IF wire[i] = "1006" THEN conn' = "reconnecting" /\ timer' = TRUE
               ELSE conn' = "closed" /\ UNCHANGED timer
            /\ strayed' = FALSE
       ELSE UNCHANGED <<conn, socket, timer, keepalive, probes, strayed>>
    /\ UNCHANGED <<app, granted, status, tab>>

-----------------------------------------------------------------------------
(* The 2FA status. *)

\* The interval of 30 seconds.
PollStatus ==
    /\ Mounted
    /\ probes' = Ask(TRUE)
    /\ UNCHANGED <<app, granted, status, conn, socket, wire, timer, keepalive, tab,
                   strayed>>

\* An answer arrives; the poll also disconnects a socket left open.
StatusArrives(p) ==
    /\ p \in probes /\ probes' = probes \ {p}
    /\ status' = p.says
    /\ IF p.poll /\ p.says = "no" /\ socket # 0 /\ wire[socket] = "open"
       THEN Disconnect
       ELSE UNCHANGED <<conn, socket, wire, timer, keepalive, strayed>>
    /\ UNCHANGED <<app, granted, tab>>

\* unlockTerminal(): the code is accepted and the status asked for again.
Unlock ==
    /\ Mounted /\ status = "no" /\ tab = "shell"
    /\ granted' = TRUE
    /\ probes' = probes \cup {[poll |-> FALSE, says |-> "yes"]}
    /\ UNCHANGED <<app, status, conn, socket, wire, timer, keepalive, tab, strayed>>

ChooseTab(t) ==
    /\ Mounted /\ tab # t /\ tab' = t
    /\ UNCHANGED <<app, granted, status, conn, socket, wire, timer, keepalive, probes, strayed>>

-----------------------------------------------------------------------------
Tabs == {"shell", "ops", "docker"}
TerminalNext ==
    \/ \E p \in {"terminal", "other"} : Navigate(p)
    \/ Unmount \/ Remount \/ Lapse
    \/ ClickConnect \/ ClickDisconnect \/ TimerFires
    \/ \E i \in Sockets : SocketOpens(i) \/ SocketClosed(i)
    \/ \E i \in Sockets, code \in Codes : SocketEnds(i, code)
    \/ PollStatus \/ Unlock
    \/ \E p \in Probes : StatusArrives(p)
    \/ \E t \in Tabs : ChooseTab(t)

TerminalSpec == TerminalInit /\ [][TerminalNext]_terminal

-----------------------------------------------------------------------------
(* Properties. *)

\* Of all the sockets opened by connects, automatic reconnects, remounts and
\* disconnects that overlap, at most the page's current one is alive: none is
\* left open at the server where nothing would ever close it, and a page that
\* says it is connected has that socket and keeps it alive.
OneSession ==
    /\ \A i \in Sockets : wire[i] \in {"dialing", "open"} => socket = i
    /\ conn = "connected" => socket # 0 /\ keepalive = socket

\* A session the administrator or the server ended stays ended: a closed page
\* has no reconnect timer, no interval and no socket that could revive it.
ClosedIsQuiet == conn \in {"idle", "closed"} => ~timer /\ keepalive = 0 /\ socket = 0

\* Every reconnect the page announces is attempted, unless its timer fires
\* under another tab or without a verification (strayed), where connect()
\* gives up and the page says it is reconnecting for good.
ReconnectEnds == conn = "reconnecting" ~> (conn # "reconnecting" \/ strayed)
=============================================================================
