---------------------------- MODULE ConsoleProofs ----------------------------
(***************************************************************************)
(* Proofs about Console, for any number of requests, sessions, sockets and *)
(* directories: one inductive invariant per part, and the theorems of the  *)
(* console that follow from them.                                          *)
(***************************************************************************)
EXTENDS Console, SequenceTheorems, TLAPS

-----------------------------------------------------------------------------
(* The terminal. *)

\* A timer belongs to a reconnect, and a page that is neither dialing nor
\* connected has no socket; a page that is not mounted is as good as new.
TerminalInv ==
    /\ TerminalTypeOK
    /\ OneSession
    /\ timer => conn = "reconnecting"
    /\ conn \in {"idle", "closed", "reconnecting"} => socket = 0 /\ keepalive = 0
    /\ ~Mounted => conn = "idle"

\* The status the server reports is one the page knows.
LEMMA AskTyped ==
    ASSUME probes \subseteq Probes
    PROVE  /\ Ask(TRUE) \subseteq Probes /\ Ask(FALSE) \subseteq Probes
           /\ probes \cup {[poll |-> FALSE, says |-> "yes"]} \subseteq Probes
<1>1. \A poll \in BOOLEAN, says \in {"yes", "no"} : [poll |-> poll, says |-> says] \in Probes
  BY DEF Probes
<1>2. (IF granted THEN "yes" ELSE "no") \in {"yes", "no"}
  OBVIOUS
<1> QED BY <1>1, <1>2 DEF Ask

LEMMA TerminalStarts == TerminalInit => TerminalInv
  BY TerminalAssumption
  DEF TerminalInit, TerminalInv, TerminalTypeOK, OneSession, Mounted

\* A connect takes a free socket when the page has none.
LEMMA DialSteps ==
    ASSUME TerminalInv, socket = 0, Dial
    PROVE  /\ socket' \in Sockets /\ conn' = "connecting"
           /\ wire' \in [Sockets -> {"none", "dialing", "open", "left"} \cup Codes]
           /\ \A i \in Sockets : wire'[i] \in {"dialing", "open"} => socket' = i
<1>1. PICK i \in Sockets : /\ wire' = [wire EXCEPT ![i] = "dialing"]
                           /\ socket' = i
  BY DEF Dial
<1>2. \A j \in Sockets : wire[j] \notin {"dialing", "open"}
  BY TerminalAssumption DEF TerminalInv, OneSession
<1>3. wire \in [Sockets -> {"none", "dialing", "open", "left"} \cup Codes]
  BY DEF TerminalInv, TerminalTypeOK
<1> QED BY <1>1, <1>2, <1>3 DEF Dial

\* A disconnect leaves the socket to its close event.
LEMMA DisconnectSteps ==
    ASSUME TerminalInv, Disconnect
    PROVE  /\ socket' = 0 /\ keepalive' = 0 /\ timer' = FALSE /\ conn' = "closed"
           /\ strayed' = FALSE
           /\ wire' \in [Sockets -> {"none", "dialing", "open", "left"} \cup Codes]
           /\ \A i \in Sockets : wire'[i] \notin {"dialing", "open"}
  BY TerminalAssumption DEF Disconnect, TerminalInv, TerminalTypeOK, OneSession

LEMMA TerminalStepInv == TerminalInv /\ [TerminalNext]_terminal => TerminalInv'
<1> SUFFICES ASSUME TerminalInv, [TerminalNext]_terminal PROVE TerminalInv'
  OBVIOUS
<1> USE TerminalAssumption DEF TerminalInv, TerminalTypeOK, OneSession, Mounted
<1>1. ASSUME NEW p \in {"terminal", "other"}, Navigate(p) PROVE TerminalInv'
  <2>1. probes' \subseteq Probes
    BY <1>1, AskTyped DEF Navigate
  <2> QED BY <1>1, <2>1 DEF Navigate, FreshPage
<1>2. CASE Unmount
  BY <1>2 DEF Unmount, FreshPage, Codes
<1>3. CASE Remount
  BY <1>3, AskTyped DEF Remount, FreshPage
<1>4. CASE Lapse
  BY <1>4 DEF Lapse, app
<1>5. CASE ClickConnect
  BY <1>5, DialSteps DEF ClickConnect, Surface, app
<1>6. CASE ClickDisconnect
  BY <1>6, DisconnectSteps DEF ClickDisconnect, app
<1>7. CASE TimerFires
  BY <1>7, DialSteps DEF TimerFires, Surface, app
<1>8. ASSUME NEW i \in Sockets, SocketOpens(i) PROVE TerminalInv'
  BY <1>8 DEF SocketOpens, IsCurrentSocket, app
<1>9. ASSUME NEW i \in Sockets, SocketClosed(i) PROVE TerminalInv'
  <2>1. wire' \in [Sockets -> {"none", "dialing", "open", "left"} \cup Codes]
    BY <1>9 DEF SocketClosed
  <2>2. probes' \subseteq Probes
    BY <1>9, AskTyped DEF SocketClosed
  <2>3. CASE socket = i
    BY <1>9, <2>1, <2>2, <2>3 DEF SocketClosed, IsCurrentSocket, Codes, app
  <2>4. CASE socket # i
    BY <1>9, <2>1, <2>2, <2>4 DEF SocketClosed, IsCurrentSocket, Codes, app
  <2> QED BY <2>3, <2>4
<1>10. ASSUME NEW i \in Sockets, NEW code \in Codes, SocketEnds(i, code)
       PROVE  TerminalInv'
  BY <1>10 DEF SocketEnds, Codes, app
<1>11. CASE PollStatus
  BY <1>11, AskTyped DEF PollStatus, app
<1>12. CASE Unlock
  BY <1>12, AskTyped DEF Unlock, app
<1>13. ASSUME NEW p \in Probes, StatusArrives(p) PROVE TerminalInv'
  <2>1. status' \in {"unknown", "yes", "no"} /\ probes' \subseteq Probes
    BY <1>13 DEF StatusArrives, Probes
  <2>2. CASE p.poll /\ p.says = "no" /\ socket # 0 /\ wire[socket] = "open"
    BY <1>13, <2>1, <2>2, DisconnectSteps DEF StatusArrives, app
  <2>3. CASE ~(p.poll /\ p.says = "no" /\ socket # 0 /\ wire[socket] = "open")
    BY <1>13, <2>1, <2>3 DEF StatusArrives, app
  <2> QED BY <2>2, <2>3
<1>14. ASSUME NEW t \in Tabs, ChooseTab(t) PROVE TerminalInv'
  BY <1>14 DEF ChooseTab, Tabs, app
<1>15. CASE UNCHANGED terminal
  BY <1>15 DEF terminal
<1> QED
  BY <1>1, <1>2, <1>3, <1>4, <1>5, <1>6, <1>7, <1>8, <1>9, <1>10, <1>11, <1>12, <1>13,
     <1>14, <1>15 DEF TerminalNext

LEMMA TerminalMoves == ConsoleNext \/ UNCHANGED console => [TerminalNext]_terminal
  BY DEF ConsoleNext, SessionStep, TerminalStep, FilesStep, PagesStep, console

LEMMA TerminalHolds == ConsoleSpec => []TerminalInv
<1>1. ConsoleInit => TerminalInv
  BY TerminalStarts DEF ConsoleInit
<1>2. TerminalInv /\ [ConsoleNext]_console => TerminalInv'
  BY TerminalMoves, TerminalStepInv
<1> QED BY <1>1, <1>2, PTL DEF ConsoleSpec

\* No overlap of connects, automatic reconnects, remounts and disconnects leaves
\* a socket open that is not the page's current one, for any number of sockets.
THEOREM TerminalHasOneSession == ConsoleSpec => []OneSession
<1>1. TerminalInv => OneSession
  BY DEF TerminalInv
<1> QED BY <1>1, TerminalHolds, PTL

\* A terminal that is closed has nothing left that could revive it.
THEOREM ClosedStaysQuiet == ConsoleSpec => []ClosedIsQuiet
<1>1. TerminalInv => ClosedIsQuiet
  BY DEF TerminalInv, ClosedIsQuiet
<1> QED BY <1>1, TerminalHolds, PTL

-----------------------------------------------------------------------------
(* The file panel. *)

\* Unless it is behind, the newest load is of the directory of the path.
FilesInv ==
    /\ FilesTypeOK
    /\ mode = "listing" /\ ~behind => load \in {None, cwd}
    /\ FilesAreOfPath

\* A directory is a sequence of names, and so are its parent and its members.
LEMMA PathSteps ==
    ASSUME NEW p \in Paths
    PROVE  /\ Root \in Paths
           /\ Parent(p) \in Paths \cup {None}
           /\ \A n \in Names : Len(p) < MaxDepth => Append(p, n) \in Paths
<1> USE FilesAssumption
<1>1. PICK k \in 0..MaxDepth : p \in [1..k -> Names]
  BY DEF Paths
<1>2. p \in Seq(Names) /\ Len(p) = k
  BY <1>1
<1>3. Root \in [1..0 -> Names]
  BY DEF Root
<1>4. Root \in Paths
  BY <1>3 DEF Paths
<1>5. Parent(p) \in Paths \cup {None}
  <2>1. CASE k = 0
    BY <1>1, <1>2, <2>1 DEF Parent, Root
  <2>2. CASE k # 0
    <3>1. SubSeq(p, 1, k - 1) \in [1..(k - 1) -> Names]
      <4>1. \A i \in 1..(k - 1) : p[i] \in Names
        BY <1>1
      <4>2. k - 1 \in Int /\ 1 \in Int
        OBVIOUS
      <4>3. /\ SubSeq(p, 1, k - 1) \in Seq(Names)
            /\ Len(SubSeq(p, 1, k - 1)) = IF 1 <= k - 1 THEN (k - 1) - 1 + 1 ELSE 0
        BY <4>1, <4>2, SubSeqProperties
      <4>4. Len(SubSeq(p, 1, k - 1)) = k - 1
        BY <2>2, <4>3
      <4> QED BY <4>3, <4>4, LenProperties
    <3>2. SubSeq(p, 1, k - 1) \in Paths
      BY <1>1, <2>2, <3>1 DEF Paths
    <3> QED BY <1>2, <3>2 DEF Parent
  <2> QED BY <2>1, <2>2
<1>6. ASSUME NEW n \in Names, Len(p) < MaxDepth PROVE Append(p, n) \in Paths
  <2>1. Append(p, n) \in [1..(k + 1) -> Names]
    <3>1. Append(p, n) \in Seq(Names) /\ Len(Append(p, n)) = k + 1
      BY <1>2, <1>6, AppendProperties
    <3> QED BY <3>1, LenProperties
  <2> QED BY <1>1, <1>2, <1>6, <2>1 DEF Paths
<1> QED BY <1>4, <1>5, <1>6

LEMMA NoneIsNoPath == None \notin Paths
  BY FilesAssumption DEF Paths

LEMMA FilesStart == FilesInit => FilesInv
<1>1. Root \in Paths
  <2>1. Root \in [1..0 -> Names]
    BY DEF Root
  <2> QED BY <2>1, FilesAssumption DEF Paths
<1> QED BY <1>1 DEF FilesInit, FilesInv, FilesTypeOK, FilesAreOfPath

\* A new load of a directory, in the path it is asked for.
LEMMA LoadSteps ==
    ASSUME FilesInv, NEW p \in Paths, StartLoad(p), cwd' \in Paths
    PROVE  /\ {list', denied', load'} \subseteq Paths \cup {None} /\ stale' \subseteq Paths
           /\ fetched' \in {"none", "ok", "denied", "error"} /\ behind' \in BOOLEAN
           /\ ~behind' => load' = cwd'
           /\ load' # None
  BY NoneIsNoPath DEF StartLoad, FilesInv, FilesTypeOK

LEMMA MoveSteps == ASSUME FilesInv, NEW p \in Paths, MoveTo(p) PROVE FilesInv'
<1>1. CASE mode = "listing"
  <2>1. /\ StartLoad(p) /\ cwd' = p /\ UNCHANGED <<mode, edit>>
    BY <1>1 DEF MoveTo
  <2> QED BY <2>1, LoadSteps DEF FilesInv, FilesTypeOK, FilesAreOfPath
<1>2. CASE mode # "listing"
  BY <1>2 DEF MoveTo, panel, FilesInv, FilesTypeOK, FilesAreOfPath
<1> QED BY <1>1, <1>2

LEMMA FilesStepInv == FilesInv /\ [FilesNext]_files => FilesInv'
<1> SUFFICES ASSUME FilesInv, [FilesNext]_files PROVE FilesInv'
  OBVIOUS
<1>a. /\ mode \in {"absent", "waiting", "listing"} /\ cwd \in Paths
      /\ {list, denied, load, edit} \subseteq Paths \cup {None} /\ stale \subseteq Paths
      /\ fetched \in {"none", "ok", "denied", "error"} /\ behind \in BOOLEAN
  BY DEF FilesInv, FilesTypeOK
<1>1. ASSUME NEW m \in {"absent", "waiting", "listing"}, SetMode(m) PROVE FilesInv'
  <2>1. CASE m = "absent"
    BY <1>1, <1>a, <2>1 DEF SetMode, FilesInv, FilesTypeOK, FilesAreOfPath
  <2>2. CASE m = "waiting"
    BY <1>1, <1>a, <2>2 DEF SetMode, panel, FilesInv, FilesTypeOK, FilesAreOfPath
  <2>3. CASE m = "listing"
    <3>1. StartLoad(cwd) /\ mode' = m /\ UNCHANGED <<cwd, edit>>
      BY <1>1, <2>3 DEF SetMode
    <3> QED BY <1>a, <3>1, LoadSteps DEF FilesInv, FilesTypeOK, FilesAreOfPath
  <2> QED BY <2>1, <2>2, <2>3
<1>2. CASE FreshPath
  BY <1>2, <1>a, PathSteps DEF FreshPath, panel, FilesInv, FilesTypeOK, FilesAreOfPath
<1>3. ASSUME NEW p \in Paths, ShellMoves(p) PROVE FilesInv'
  BY <1>3, MoveSteps DEF ShellMoves
<1>4. ASSUME NEW n \in Names, EnterDirectory(n) PROVE FilesInv'
  BY <1>4, <1>a, PathSteps, MoveSteps DEF EnterDirectory
<1>5. CASE GoUp
  <2>1. PICK target \in Paths : MoveTo(target)
    BY <1>5, <1>a, PathSteps DEF GoUp
  <2> QED BY <2>1, MoveSteps
<1>6. CASE RefreshFiles
  <2>1. StartLoad(cwd) /\ UNCHANGED <<mode, cwd, edit>>
    BY <1>6 DEF RefreshFiles
  <2> QED BY <1>a, <2>1, LoadSteps DEF FilesInv, FilesTypeOK, FilesAreOfPath
<1>7. ASSUME NEW how \in {"ok", "denied", "error"}, LoadEnds(how) PROVE FilesInv'
  BY <1>7, <1>a, NoneIsNoPath DEF LoadEnds, FilesInv, FilesTypeOK, FilesAreOfPath
<1>8. ASSUME NEW p \in Paths, StaleLoadEnds(p) PROVE FilesInv'
  BY <1>8, <1>a DEF StaleLoadEnds, FilesInv, FilesTypeOK, FilesAreOfPath
<1>9. ASSUME NEW p \in Paths, BeginEdit(p) PROVE FilesInv'
  BY <1>9, <1>a DEF BeginEdit, FilesInv, FilesTypeOK, FilesAreOfPath
<1>10. CASE EndEdit
  <2>1. StartLoad(edit) /\ edit \in Paths /\ edit' = None /\ UNCHANGED <<mode, cwd>>
    BY <1>10, <1>a DEF EndEdit
  <2> QED BY <1>a, <2>1, LoadSteps DEF FilesInv, FilesTypeOK, FilesAreOfPath
<1>11. CASE EditFails
  BY <1>11, <1>a DEF EditFails, FilesInv, FilesTypeOK, FilesAreOfPath
<1>12. CASE UNCHANGED files
  BY <1>12, <1>a DEF files, FilesInv, FilesTypeOK, FilesAreOfPath
<1> QED
  BY <1>1, <1>2, <1>3, <1>4, <1>5, <1>6, <1>7, <1>8, <1>9, <1>10, <1>11, <1>12
  DEF FilesNext

LEMMA FilesMove == ConsoleNext \/ UNCHANGED console => [FilesNext]_files
  BY DEF ConsoleNext, SessionStep, TerminalStep, FilesStep, PagesStep, console

LEMMA FilesHold == ConsoleSpec => []FilesInv
<1>1. ConsoleInit => FilesInv
  BY FilesStart DEF ConsoleInit
<1>2. FilesInv /\ [ConsoleNext]_console => FilesInv'
  BY FilesMove, FilesStepInv
<1> QED BY <1>1, <1>2, PTL DEF ConsoleSpec

\* The panel shows the directory of the path once nothing newer is loading,
\* whatever overlaps, for directories of any depth.
THEOREM PanelShowsItsPath == ConsoleSpec => []FilesAreOfPath
<1>1. FilesInv => FilesAreOfPath
  BY DEF FilesInv
<1> QED BY <1>1, FilesHold, PTL

-----------------------------------------------------------------------------
(* The session. *)

Flights == [kind : Kinds \cup {"idle"}, sess : 0..MaxSessions, token : 0..MaxSessions,
            answer : Answers]

\* Answers that name a session name one the server has issued.
AnswersName ==
    \A s \in Slots :
        /\ flight[s].answer = "known" => flight[s].sess # 0
        /\ flight[s].kind = "login" /\ flight[s].answer = "ok" => flight[s].sess # 0

\* Without a racing login there is one sign-in at a time, from its setup to the
\* status that follows it: the form it was submitted from is shown and busy until
\* the login is answered, and that status is asked for with the tab's cookie.
OneSignIn ==
    ~mixed =>
        /\ \A s, t \in Slots : flight[s].kind \in Chain /\ flight[t].kind \in Chain => s = t
        /\ \A s \in Slots :
            /\ flight[s].kind \in {"setup", "login"} => gate \in Forms /\ submitting = s
            /\ flight[s].kind = "status" /\ cookie # 0 => flight[s].sess = cookie

SessionInv == SessionTypeOK /\ AnswersName /\ OneSignIn /\ SignedInCanWrite

\* What fetch() sends.
LEMMA RequestTyped ==
    ASSUME NEW kind \in Kinds, NEW sess \in 0..MaxSessions, NEW token \in 0..MaxSessions
    PROVE  /\ Request(kind, sess, token) \in Flights
           /\ Request(kind, sess, token).kind = kind
           /\ Request(kind, sess, token).sess = sess
           /\ Request(kind, sess, token).answer = "pending"
  BY SessionAssumption DEF Request, Flights, Answers

LEMMA IdleTyped == Idle \in Flights /\ Idle.kind = "idle" /\ Idle.answer = "pending"
  BY SessionAssumption DEF Idle, Flights, Answers

\* A fresh tab has one request in flight.
LEMMA OpeningTyped ==
    ASSUME NEW with \in 0..MaxSessions
    PROVE  /\ OpeningFlight(with) \in [Slots -> Flights]
           /\ \A s \in Slots : /\ OpeningFlight(with)[s].answer = "pending"
                               /\ OpeningFlight(with)[s].kind \in {"idle", "status"}
                               /\ OpeningFlight(with)[s].kind = "status"
                                     => OpeningFlight(with)[s].sess = with
           /\ \A s, t \in Slots : OpeningFlight(with)[s].kind = "status"
                                  /\ OpeningFlight(with)[t].kind = "status" => s = t
<1> DEFINE first == CHOOSE s \in Slots : \A t \in Slots : s <= t
<1>1. \A s \in Slots : OpeningFlight(with)[s] =
          IF s = first THEN Request("status", with, 0) ELSE Idle
  BY DEF OpeningFlight
<1>2. OpeningFlight(with) \in [Slots -> Flights]
  <2>1. Request("status", with, 0) \in Flights
    BY RequestTyped, SessionAssumption DEF Kinds, AuthKinds
  <2> QED BY <2>1, IdleTyped DEF OpeningFlight
<1>3. /\ Request("status", with, 0).kind = "status"
      /\ Request("status", with, 0).sess = with
      /\ Request("status", with, 0).answer = "pending"
  BY DEF Request
<1> HIDE DEF first
<1> QED BY <1>1, <1>2, <1>3, IdleTyped

LEMMA SessionStarts == SessionInit => SessionInv
<1> SUFFICES ASSUME SessionInit PROVE SessionInv
  OBVIOUS
<1>1. SessionTypeOK
  <2>1. 0 \in 0..MaxSessions /\ 0 \in 0..MaxReloads
    BY SessionAssumption
  <2>2. flight \in [Slots -> Flights]
    BY <2>1, OpeningTyped DEF SessionInit
  <2> QED BY <2>1, <2>2 DEF SessionInit, SessionTypeOK, Gates, Flights
<1>2. AnswersName /\ OneSignIn
  BY OpeningTyped, SessionAssumption DEF SessionInit, AnswersName, OneSignIn, Chain
<1>3. SignedInCanWrite
  BY DEF SessionInit, SignedInCanWrite, ReadyHasToken, TokenOfCookie
<1> QED BY <1>1, <1>2, <1>3 DEF SessionInv

\* Writing one slot, with nothing else of the tab.
LEMMA SlotTyped ==
    ASSUME SessionInv, NEW s \in Slots, NEW r \in Flights, flight' = [flight EXCEPT ![s] = r]
    PROVE  /\ flight' \in [Slots -> Flights]
           /\ flight'[s] = r
           /\ \A t \in Slots \ {s} : flight'[t] = flight[t]
  BY DEF SessionInv, SessionTypeOK, Flights

LEMMA SessionStepInv == SessionInv /\ [SessionNext]_session => SessionInv'
<1> SUFFICES ASSUME SessionInv, [SessionNext]_session PROVE SessionInv'
  OBVIOUS
<1> DEFINE Typed == /\ configured \in BOOLEAN /\ mixed \in BOOLEAN
                    /\ live \subseteq Sessions
                    /\ issued \in 0..MaxSessions /\ cookie \in 0..MaxSessions
                    /\ csrf \in 0..MaxSessions /\ gate \in Gates
                    /\ submitting \in Slots \cup {0} /\ reloads \in 0..MaxReloads
           Signed == AnswersName /\ OneSignIn /\ SignedInCanWrite
<1>a. Typed /\ flight \in [Slots -> Flights]
  BY DEF SessionInv, SessionTypeOK, Flights
<1>b. Typed' /\ flight' \in [Slots -> Flights] /\ Signed' => SessionInv'
  BY DEF SessionInv, SessionTypeOK, Flights
<1>c. 0 \in 0..MaxSessions /\ 0 \notin Slots
  BY SessionAssumption
<1>d. "login" \in Gates /\ "login" \in Forms
  BY DEF Gates, Forms
<1> USE DEF AnswersName, OneSignIn, SignedInCanWrite, ReadyHasToken, TokenOfCookie
<1>1. ASSUME NEW s \in Slots, Submit(s) PROVE SessionInv'
  <2>1. PICK kind \in {"setup", "login"} :
           flight' = [flight EXCEPT ![s] = Request(kind, cookie, csrf)]
    BY <1>1 DEF Submit, Send
  <2>2. /\ Request(kind, cookie, csrf) \in Flights
        /\ Request(kind, cookie, csrf).kind = kind
        /\ Request(kind, cookie, csrf).answer = "pending"
    BY <1>a, RequestTyped DEF Kinds, AuthKinds
  <2>3. /\ flight' \in [Slots -> Flights]
        /\ flight'[s] = Request(kind, cookie, csrf)
        /\ \A t \in Slots \ {s} : flight'[t] = flight[t]
    BY <2>1, <2>2, SlotTyped
  <2>4. Typed'
    BY <1>1, <1>a DEF Submit
  <2>5. Signed'
    BY <1>1, <1>a, <1>c, <2>2, <2>3 DEF Submit, SessionInv, Chain, Forms
  <2> QED BY <1>b, <2>3, <2>4, <2>5
<1>2. ASSUME NEW s \in Slots, NEW kind \in Kinds \ Chain, NextFree(s), Send(s, kind),
             UNCHANGED <<configured, live, issued, cookie, csrf, gate, submitting, mixed,
                         reloads>>
      PROVE  SessionInv'
  <2>1. /\ Request(kind, cookie, csrf) \in Flights
        /\ Request(kind, cookie, csrf).kind = kind
        /\ Request(kind, cookie, csrf).answer = "pending"
    BY <1>a, RequestTyped
  <2>2. /\ flight' \in [Slots -> Flights]
        /\ flight'[s] = Request(kind, cookie, csrf)
        /\ \A t \in Slots \ {s} : flight'[t] = flight[t]
    BY <1>2, <2>1, SlotTyped DEF Send
  <2>3. Typed'
    BY <1>2, <1>a
  <2>4. Signed'
    BY <1>2, <1>a, <2>1, <2>2 DEF SessionInv, Chain
  <2> QED BY <1>b, <2>2, <2>3, <2>4
<1>3. CASE Reload
  <2>1. flight' = OpeningFlight(cookie) /\ flight' \in [Slots -> Flights]
    BY <1>3, <1>a, OpeningTyped DEF Reload
  <2>2. Typed'
    <3>1. reloads' \in 0..MaxReloads
      BY <1>3, <1>a, SessionAssumption DEF Reload
    <3>2. "checking" \in Gates
      BY DEF Gates
    <3> QED BY <1>3, <1>a, <1>c, <3>1, <3>2 DEF Reload
  <2>3. AnswersName' /\ OneSignIn'
    BY <1>3, <1>a, <2>1, OpeningTyped DEF Reload, Chain
  <2>4. SignedInCanWrite'
    BY <1>3 DEF Reload
  <2> QED BY <1>b, <2>1, <2>2, <2>3, <2>4
<1>4. CASE OtherTabLogin
  <2>1. issued' \in Sessions /\ issued' \in 0..MaxSessions
    BY <1>4, <1>a, SessionAssumption DEF OtherTabLogin, Sessions
  <2>2. Typed' /\ flight' = flight /\ gate' = gate /\ csrf' = csrf /\ mixed'
    BY <1>4, <1>a, <2>1 DEF OtherTabLogin
  <2>3. Signed'
    BY <2>2 DEF SessionInv
  <2> QED BY <1>b, <1>a, <2>2, <2>3
<1>5. CASE Expire
  <2>1. Typed' /\ UNCHANGED <<cookie, csrf, gate, submitting, flight, mixed>>
    BY <1>5, <1>a DEF Expire
  <2>2. Signed'
    BY <2>1 DEF SessionInv
  <2> QED BY <1>b, <1>a, <2>1, <2>2
<1>6. ASSUME NEW s \in Slots, Serve(s) \/ Fail(s) PROVE SessionInv'
  <2> DEFINE Served == /\ flight' \in [Slots -> Flights] /\ Typed'
                       /\ \A t \in Slots \ {s} : flight'[t] = flight[t]
                       /\ flight'[s].kind = flight[s].kind
                       /\ flight[s].kind # "login" => flight'[s].sess = flight[s].sess
                       /\ flight'[s].answer = "known" => flight'[s].sess # 0
                       /\ flight[s].kind = "login" /\ flight'[s].answer = "ok"
                             => flight'[s].sess # 0
                       /\ UNCHANGED <<cookie, csrf, gate, submitting, mixed>>
  <2>1. ASSUME NEW a \in Answers, Answer(s, a), a = "known" => flight[s].sess # 0,
               flight[s].kind = "login" => a # "ok"
        PROVE  /\ flight' \in [Slots -> Flights]
               /\ \A t \in Slots \ {s} : flight'[t] = flight[t]
               /\ flight'[s].kind = flight[s].kind /\ flight'[s].sess = flight[s].sess
               /\ flight'[s].answer = a
    BY <1>a, <2>1 DEF Answer, Flights
  <2>2. CASE ServeStatus(s)
    <3>1. PICK a \in {"open", "known", "stranger"} :
              Answer(s, a) /\ (a = "known" => flight[s].sess \in live)
      BY <2>2 DEF ServeStatus
    <3>2. a \in Answers
      BY DEF Answers
    <3>3. flight[s].sess \in live => flight[s].sess # 0
      BY <1>a DEF Sessions
    <3>4. Served
      BY <1>a, <2>1, <2>2, <3>1, <3>2, <3>3 DEF ServeStatus
    <3> QED BY <1>b, <3>4 DEF SessionInv, Chain
  <2>3. CASE ServeSetup(s)
    <3>1. PICK a \in {"failed", "ok"} : Answer(s, a)
      BY <2>3 DEF ServeSetup
    <3>2. a \in Answers
      BY DEF Answers
    <3>3. Served
      BY <1>a, <2>1, <2>3, <3>1, <3>2 DEF ServeSetup
    <3> QED BY <1>b, <3>3 DEF SessionInv, Chain
  <2>4. CASE ServeLogin(s)
    <3>1. /\ issued' \in Sessions /\ issued' \in 0..MaxSessions /\ issued' # 0
      BY <1>a, <2>4, SessionAssumption DEF ServeLogin, Sessions
    <3>2. /\ flight' \in [Slots -> Flights]
          /\ \A t \in Slots \ {s} : flight'[t] = flight[t]
          /\ flight'[s].kind = flight[s].kind /\ flight'[s].sess = issued'
          /\ flight'[s].answer = "ok"
      BY <1>a, <2>4, <3>1 DEF ServeLogin, Flights, Answers
    <3>3. Typed'
      BY <1>a, <2>4, <3>1 DEF ServeLogin
    <3>4. Served
      BY <2>4, <3>1, <3>2, <3>3 DEF ServeLogin, Pending
    <3> QED BY <1>b, <3>4 DEF SessionInv, Chain
  <2>5. CASE ServeGuarded(s)
    <3>1. PICK a \in {"failed", "unauthorized", "forbidden", "ok"} : Answer(s, a)
      BY <2>5 DEF ServeGuarded, Refusal
    <3>2. a \in Answers /\ flight[s].kind # "login"
      BY <2>5 DEF Answers, ServeGuarded, Chain
    <3>3. Typed' /\ UNCHANGED <<cookie, csrf, gate, submitting, mixed>>
      BY <1>a, <2>5 DEF ServeGuarded
    <3>4. Served
      BY <2>1, <3>1, <3>2, <3>3
    <3> QED BY <1>b, <3>4 DEF SessionInv, Chain
  <2>6. CASE Fail(s)
    <3>1. "failed" \in Answers
      BY DEF Answers
    <3>2. Served
      BY <1>a, <2>1, <2>6, <3>1 DEF Fail
    <3> QED BY <1>b, <3>2 DEF SessionInv, Chain
  <2> QED BY <1>6, <2>2, <2>3, <2>4, <2>5, <2>6 DEF Serve
<1>7. ASSUME NEW s \in Slots, Receive(s) PROVE SessionInv'
  <2>1. ASSUME Done(s)
        PROVE  /\ flight' \in [Slots -> Flights]
               /\ flight'[s].kind = "idle" /\ flight'[s].answer = "pending"
               /\ \A t \in Slots \ {s} : flight'[t] = flight[t]
    BY <2>1, IdleTyped, SlotTyped DEF Done
  <2>2. ASSUME NEW g \in Gates, ShowGate(g)
        PROVE  /\ gate' = g /\ gate' \in Gates /\ submitting' \in Slots \cup {0}
               /\ gate \in Forms /\ g \in Forms => submitting' = submitting
    BY <1>a, <2>2 DEF ShowGate
  <2>3. {"setup", "login", "ready", "blind"} \subseteq Gates
    BY DEF Gates, Forms
  <2>4. CASE ReceiveStatus(s)
    <3>1. /\ Typed' /\ UNCHANGED <<cookie, mixed>>
          /\ \/ csrf' = csrf /\ gate' # "ready"
             \/ csrf' = 0 /\ gate' # "ready"
             \/ csrf' = flight[s].sess /\ flight[s].answer = "known"
      BY <1>a, <1>c, <2>2, <2>3, <2>4 DEF ReceiveStatus, SignOut, server, Flights
    <3>2. flight[s].kind = "status" /\ Done(s)
      BY <2>4 DEF ReceiveStatus
    <3>3. Signed'
      BY <2>1, <3>1, <3>2 DEF SessionInv, Chain
    <3> QED BY <1>b, <2>1, <3>1, <3>2, <3>3
  <2>5. CASE ReceiveSetup(s)
    <3>1. /\ Request("login", cookie, csrf) \in Flights
          /\ Request("login", cookie, csrf).kind = "login"
          /\ Request("login", cookie, csrf).answer = "pending"
      BY <1>a, RequestTyped DEF Kinds, AuthKinds
    <3>2. /\ flight' \in [Slots -> Flights]
          /\ flight'[s] = Request("login", cookie, csrf)
          /\ \A t \in Slots \ {s} : flight'[t] = flight[t]
      BY <2>5, <3>1, SlotTyped DEF ReceiveSetup, Send
    <3>3. Typed' /\ UNCHANGED <<cookie, csrf, gate, submitting, mixed>>
      BY <1>a, <2>5 DEF ReceiveSetup, server
    <3>4. Signed'
      BY <2>5, <3>1, <3>2, <3>3 DEF ReceiveSetup, SessionInv, Chain
    <3> QED BY <1>b, <3>2, <3>3, <3>4
  <2>6. CASE ReceiveLogin(s)
    <3> DEFINE n == flight[s].sess
    <3>1. n \in 0..MaxSessions /\ n # 0
      BY <1>a, <2>6 DEF ReceiveLogin, SessionInv, Flights
    <3>2. /\ Request("status", n, 0) \in Flights
          /\ Request("status", n, 0).kind = "status" /\ Request("status", n, 0).sess = n
          /\ Request("status", n, 0).answer = "pending"
      BY <1>c, <3>1, RequestTyped DEF Kinds, AuthKinds
    <3>3. /\ flight' \in [Slots -> Flights]
          /\ flight'[s] = Request("status", n, 0)
          /\ \A t \in Slots \ {s} : flight'[t] = flight[t]
      BY <2>6, <3>2, SlotTyped DEF ReceiveLogin
    <3>4. Typed' /\ cookie' = n /\ csrf' = n /\ UNCHANGED <<gate, mixed>>
      BY <1>a, <2>6, <3>1 DEF ReceiveLogin, server
    <3>5. Signed'
      BY <2>6, <3>1, <3>2, <3>3, <3>4 DEF ReceiveLogin, SessionInv, Chain
    <3> QED BY <1>b, <3>3, <3>4, <3>5
  <2>7. CASE ReceiveRefusedSubmit(s)
    <3>1. /\ Typed' /\ UNCHANGED <<cookie, csrf, gate, mixed>>
          /\ flight[s].kind \in {"setup", "login"} /\ Done(s)
      BY <1>a, <2>7 DEF ReceiveRefusedSubmit, server
    <3>2. Signed'
      BY <2>1, <3>1 DEF SessionInv, Chain
    <3> QED BY <1>b, <2>1, <3>1, <3>2
  <2>8. ASSUME SignOut, Done(s), cookie' \in {cookie, 0}, UNCHANGED <<server, mixed, reloads>>
        PROVE  SessionInv'
    <3>1. /\ csrf' = 0 /\ gate' = "login" /\ Typed'
          /\ gate \in Forms => submitting' = submitting
      BY <1>a, <1>c, <1>d, <2>2, <2>8 DEF SignOut, server
    <3>2. Signed'
      BY <1>d, <2>1, <2>8, <3>1 DEF SessionInv, Chain
    <3> QED BY <1>b, <2>1, <2>8, <3>1, <3>2
  <2>9. ASSUME Done(s), UNCHANGED <<configured, live, issued, cookie, csrf, gate, submitting,
                                    mixed, reloads>>
        PROVE  SessionInv'
    <3>1. Typed'
      BY <1>a, <2>9
    <3>2. Signed'
      BY <2>1, <2>9 DEF SessionInv, Chain
    <3> QED BY <1>b, <2>1, <2>9, <3>1, <3>2
  <2>10. CASE ReceiveLogout(s)
    BY <2>8, <2>10 DEF ReceiveLogout
  <2>11. CASE ReceiveAccount(s)
    BY <2>8, <2>9, <2>11 DEF ReceiveAccount, server
  <2>12. CASE ReceivePage(s)
    BY <2>8, <2>9, <2>12 DEF ReceivePage, server
  <2> QED BY <1>7, <2>4, <2>5, <2>6, <2>7, <2>10, <2>11, <2>12 DEF Receive
<1>8. CASE UNCHANGED session
  <2>1. Typed' /\ UNCHANGED <<cookie, csrf, gate, submitting, flight, mixed>>
    BY <1>8, <1>a DEF session
  <2>2. Signed'
    BY <2>1 DEF SessionInv
  <2> QED BY <1>b, <1>a, <2>1, <2>2
<1>9. ASSUME NEW s \in Slots, ClickLogout(s) PROVE SessionInv'
  <2>1. "logout" \in Kinds \ Chain
    BY DEF Kinds, AuthKinds, Chain
  <2> QED BY <1>2, <1>9, <2>1 DEF ClickLogout
<1>10. ASSUME NEW s \in Slots, NEW kind \in Account, ClickAccount(s, kind) PROVE SessionInv'
  <2>1. kind \in Kinds \ Chain
    BY SessionAssumption DEF Kinds, AuthKinds, Chain
  <2> QED BY <1>2, <1>10, <2>1 DEF ClickAccount
<1>11. ASSUME NEW s \in Slots, NEW kind \in {"read", "write"}, PageRequest(s, kind)
       PROVE  SessionInv'
  <2>1. kind \in Kinds \ Chain
    BY DEF Kinds, Chain
  <2> QED BY <1>2, <1>11, <2>1 DEF PageRequest
<1> QED
  BY <1>1, <1>3, <1>4, <1>5, <1>6, <1>7, <1>8, <1>9, <1>10, <1>11 DEF SessionNext

LEMMA SessionMoves == ConsoleNext \/ UNCHANGED console => [SessionNext]_session
  BY DEF ConsoleNext, SessionStep, TerminalStep, FilesStep, PagesStep, console

LEMMA SessionHolds == ConsoleSpec => []SessionInv
<1>1. ConsoleInit => SessionInv
  BY SessionStarts DEF ConsoleInit, Resting
<1>2. SessionInv /\ [ConsoleNext]_console => SessionInv'
  BY SessionMoves, SessionStepInv
<1> QED BY <1>1, <1>2, PTL DEF ConsoleSpec

\* Whoever is shown as signed in can write, in whatever order the answers of
\* logins, logouts, account changes and rejected requests arrive, for any
\* number of requests and sessions.
THEOREM SignedInWrites == ConsoleSpec => []SignedInCanWrite
<1>1. SessionInv => SignedInCanWrite
  BY DEF SessionInv
<1> QED BY <1>1, SessionHolds, PTL

-----------------------------------------------------------------------------
(* The pages. *)

Revs == 0..(MaxRev + 1)
Handlers == Ops \cup {LoadPage}
TaskRecs ==
    [op : Handlers, phase : {"idle", "sent", "ok", "refused", "second", "asked", "read", "after"},
     sent : Revs, own : BOOLEAN, copy : Copies]
FormRecs ==
    [op : Handlers, dialog : {"no", "modal", "loose", "kept", "inline"}, seen : Revs,
     saving : BOOLEAN]

\* A record has at most one version more than it has had changes.
RowBounded == row.ver <= row.rev + 1 /\ row.rev <= MaxRev

PagesInv == PagesTypeOK /\ RowBounded

\* What the pages can ask for.
AllOps ==
    {LoadPage, RefreshSubscription, CheckSubscription, RefreshSubscriptions, CheckNodes,
     CreateSubscription, SaveSubscription, DeleteSubscription, CheckNode, CheckVisibleNodes,
     ToggleNode, ApplyDataPlane, CreateProxyService, EditProxyService, RemoveService, SaveRules,
     SaveGroupRoutes, CreateChannel, SaveChannel, SaveEndpoint, DeleteChannel, RotateSession,
     CreateProvider, SaveProvider, DeleteProvider, TestProvider, AddAccount, DeleteAccount,
     SweepAccounts, AcknowledgeAlert, SaveAlertSettings, TestAlertSettings, CreateArtifact,
     VerifyArtifact, DeleteArtifact}

Dialogs == {"no", "modal", "loose", "kept", "inline"}

\* The handlers of every page are among them.
LEMMA PageButtons ==
    ASSUME NEW p \in Pages, NEW b \in Page[p].buttons
    PROVE  b.op \in AllOps /\ b.op \in Ops /\ b.dialog \in Dialogs
<1> DEFINE Good(B) == \A c \in B : c.op \in AllOps /\ c.dialog \in Dialogs
<1> USE DEF Button, AllOps, Dialogs
<1>1. Good(SubscriptionsHeader)
  BY DEF SubscriptionsHeader
<1>2. Good(SubscriptionRow)
  BY DEF SubscriptionRow
<1>3. Good(NodesHeader) /\ Good(NodeRow)
  BY DEF NodesHeader, NodeRow
<1>4. Good(RoutingHeader) /\ Good(ServiceRow)
  BY DEF RoutingHeader, ServiceRow
<1>5. Good({Button(SaveGroupRoutes, {}, "inline")})
  OBVIOUS
<1>6. Good({Button(SaveRules, {"loading", "saving"}, "no")})
  OBVIOUS
<1>7. Good(ChannelsTable)
  BY DEF ChannelsTable
<1>8. Good(ProvidersTable)
  BY DEF ProvidersTable
<1>9. Good(AccountsPanel)
  BY DEF AccountsPanel
<1>10. Good(AlertsPanel)
  BY DEF AlertsPanel
<1>11. Good(ArtifactsPanel) /\ Good(ArtifactRow)
  BY DEF ArtifactsPanel, ArtifactRow
<1> HIDE DEF Button, AllOps, Dialogs
<1>12. p \in {"subscriptions", "nodes", "routing", "routes", "rules", "channels", "providers",
              "accounts", "alerts", "artifacts"}
  BY DEF Pages, Page
<1>13. Good(Page[p].buttons)
  BY <1>1, <1>2, <1>3, <1>4, <1>5, <1>6, <1>7, <1>8, <1>9, <1>10, <1>11, <1>12
  DEF Page, PageOf, SubscriptionsPage, NodesPage, RoutingPage, RoutesPanel, RulesPage,
      ChannelsPage, ProvidersPage, AccountsPage, AlertsPage, ArtifactsPage
<1>14. b.op \in Ops
  BY DEF Ops
<1> QED BY <1>13, <1>14

LEMMA PagesMove == ConsoleNext \/ UNCHANGED console => [PagesNext]_pages
  BY DEF ConsoleNext, SessionStep, TerminalStep, FilesStep, PagesStep, console

\* The busy flags a handler sets are flags of the page.
LEMMA KeysTyped == ASSUME NEW op \in Handlers PROVE KeysOf(op) \subseteq Keys
<1>1. "test" \in Keys
  <2>1. \E p \in Pages : \E b \in Page[p].buttons : b.op = CheckNode
    <3>1. "nodes" \in Pages /\ Page["nodes"].buttons = NodesHeader \cup NodeRow
      BY DEF Pages, Page, NodesPage, PageOf
    <3>2. \E b \in NodeRow : b.op = CheckNode
      BY DEF NodeRow, Button
    <3> QED BY <3>1, <3>2
  <2>2. CheckNode \in Ops
    BY <2>1 DEF Ops
  <2>3. CheckNode.key = "test"
    BY DEF CheckNode, Op
  <2> QED BY <2>2, <2>3 DEF Keys
<1>2. op \in Ops \/ KeysOf(op) \subseteq {"batch", "test"} \/ KeysOf(op) = {}
  BY DEF Handlers, KeysOf, LoadPage, Op
<1>3. op \in Ops => op.key \in Keys
  BY DEF Keys
<1>4. "batch" \in Keys
  BY DEF Keys
<1> QED BY <1>1, <1>2, <1>3, <1>4 DEF KeysOf

LEMMA BusyTyped ==
    ASSUME PagesTypeOK, NEW op \in Handlers
    PROVE  /\ SetBusy(op) \subseteq Keys /\ ClearBusy(op) \subseteq Keys
           /\ "loading" \in Keys
  BY KeysTyped DEF PagesTypeOK, SetBusy, ClearBusy, Keys

\* What the server does to a record stays within the bound.
LEMMA ChangeTyped ==
    ASSUME row \in Copies, RowBounded, NEW how, how \in {"edit", "delete"} => row.rev < MaxRev
    PROVE  LET next == Change(how) IN
           next \in Copies /\ next.ver <= next.rev + 1 /\ next.rev <= MaxRev
<1> USE PagesAssumption DEF Copies, RowBounded
<1>1. CASE how = "create"
  BY <1>1 DEF Change
<1>2. CASE how = "edit"
  BY <1>2 DEF Change
<1>3. CASE how = "act"
  <2>1. CASE row.rev < MaxRev
    BY <1>3, <2>1 DEF Change
  <2>2. CASE ~(row.rev < MaxRev)
    BY <1>3, <2>2 DEF Change
  <2> QED BY <2>1, <2>2
<1>4. CASE how = "delete"
  BY <1>4 DEF Change
<1>5. CASE how \notin {"create", "edit", "act", "delete"}
  BY <1>5 DEF Change
<1> QED BY <1>1, <1>2, <1>3, <1>4, <1>5

\* The records of this part, taken apart.
LEMMA PagesTyped ==
    PagesTypeOK <=>
        /\ view \in Pages /\ row \in Copies /\ listed \in Copies /\ again \in Copies
      /\ busy \subseteq Keys
        /\ form \in FormRecs /\ task \in [Tasks -> TaskRecs]
        /\ excused \in BOOLEAN /\ meddled \in BOOLEAN
  BY DEF PagesTypeOK, FormRecs, TaskRecs, Handlers, Revs

LEMMA PagesConstants ==
    /\ Absent \in Copies /\ NoForm \in FormRecs /\ IdleTask \in TaskRecs
    /\ LoadPage \in Handlers /\ IdleTask.phase = "idle"
<1>1. Absent \in Copies /\ 0 \in Revs
  BY PagesAssumption DEF Absent, Copies, Revs
<1>2. LoadPage \in Handlers
  BY DEF Handlers
<1> QED BY <1>1, <1>2 DEF NoForm, FormRecs, IdleTask, TaskRecs

\* A load that has been asked for.
LEMMA AskedTyped ==
    ASSUME NEW op \in Handlers, NEW own \in BOOLEAN
    PROVE  LET r == [IdleTask EXCEPT !.op = op, !.phase = "asked", !.own = own] IN
           r \in TaskRecs /\ r.phase = "asked"
  BY PagesConstants DEF TaskRecs

\* A step that leaves the server alone keeps the invariant, if it keeps the
\* types.
LEMMA QuietStep ==
    ASSUME PagesInv, UNCHANGED <<view, row>>,
           listed' \in Copies, again' \in Copies, busy' \subseteq Keys, form' \in FormRecs,
           task' \in [Tasks -> TaskRecs], excused' \in BOOLEAN, meddled' \in BOOLEAN
    PROVE  PagesInv'
  BY PagesTyped DEF PagesInv, PagesTypeOK, TaskRecs, FormRecs, Handlers, Revs, RowBounded

\* Disowning changes no request.
LEMMA DisownSteps ==
    ASSUME NEW f \in [Tasks -> TaskRecs]
    PROVE  Disowned(f) \in [Tasks -> TaskRecs]
  BY DEF Disowned, TaskRecs

\* A task takes a new record.
LEMMA TaskSteps ==
    ASSUME PagesInv, NEW t \in Tasks, NEW r \in TaskRecs,
           \/ task' = [task EXCEPT ![t] = r]
           \/ task' = Disowned([task EXCEPT ![t] = r])
    PROVE  task' \in [Tasks -> TaskRecs]
<1>1. task \in [Tasks -> TaskRecs]
  BY PagesTyped DEF PagesInv
<1>2. [task EXCEPT ![t] = r] \in [Tasks -> TaskRecs]
  BY <1>1
<1> QED BY <1>2, DisownSteps

\* The handler is called.
LEMMA BeginSteps ==
    ASSUME PagesInv, NEW t \in Tasks, NEW op \in Handlers, NEW seen \in Revs,
           NEW own \in BOOLEAN, Begin(t, op, seen, own)
    PROVE  task' \in [Tasks -> TaskRecs]
<1>1. task \in [Tasks -> TaskRecs] /\ listed.ver \in Revs /\ 0 \in Revs
  BY PagesTyped, PagesAssumption DEF PagesInv, Copies, Revs
<1> DEFINE sent == CASE op.version = "seen" -> seen [] op.version = "listed" -> listed.ver
                     [] OTHER -> 0
           r == [op |-> op, phase |-> "sent", own |-> own, copy |-> Absent, sent |-> sent]
<1>2. sent \in Revs
  BY <1>1
<1>3. task' = [task EXCEPT ![t] = r]
  BY DEF Begin
<1> HIDE DEF sent
<1>4. r \in TaskRecs
  BY <1>2, PagesConstants DEF TaskRecs
<1> HIDE DEF r
<1> QED BY <1>3, <1>4, TaskSteps

LEMMA PagesStart == PagesInit => PagesInv
<1> SUFFICES ASSUME PagesInit PROVE PagesInv
  OBVIOUS
<1>1. /\ view \in Pages /\ listed = Absent /\ again = Absent /\ busy = {"loading"}
      /\ form = NoForm
      /\ row \in {Absent, [ver |-> 1, rev |-> 0]}
      /\ excused = FALSE /\ meddled = FALSE
  BY DEF PagesInit
<1>2. row \in Copies /\ RowBounded
  BY <1>1, PagesAssumption DEF Copies, Absent, RowBounded
<1>3. [IdleTask EXCEPT !.phase = "asked"] \in TaskRecs
      /\ [IdleTask EXCEPT !.phase = "asked"].phase = "asked"
  BY PagesConstants DEF TaskRecs
<1>4. task \in [Tasks -> TaskRecs]
  <2>1. PICK first : task = [t \in Tasks |-> IF t = first THEN [IdleTask EXCEPT !.phase = "asked"]
                                             ELSE IdleTask]
    BY DEF PagesInit
  <2> QED BY <2>1, <1>3, PagesConstants
<1>5. PagesTypeOK
  BY <1>1, <1>2, <1>4, PagesTyped, PagesConstants DEF Keys
<1> QED BY <1>1, <1>2, <1>4, <1>5 DEF PagesInv

LEMMA SucceedSteps ==
    ASSUME PagesInv, NEW t \in Tasks, Succeed(t), UNCHANGED <<view, row>>
    PROVE  PagesInv'
<1> DEFINE r == task[t]
           asked == [IdleTask EXCEPT !.op = r.op, !.phase = "asked", !.own = r.own]
<1>1. /\ r \in TaskRecs /\ r.op \in Handlers /\ r.copy \in Copies /\ r.own \in BOOLEAN
      /\ r.copy.ver \in Revs
      /\ listed \in Copies /\ again \in Copies /\ busy \subseteq Keys /\ form \in FormRecs
      /\ excused \in BOOLEAN /\ meddled \in BOOLEAN /\ PagesTypeOK
  BY PagesTyped DEF PagesInv, TaskRecs, Copies, Revs
<1>2. meddled' \in BOOLEAN
  BY <1>1 DEF Succeed
<1>3. /\ Seen(t) \in FormRecs
      /\ Unsaving(Seen(t), t) \in FormRecs
      /\ NoForm \in FormRecs
  BY <1>1, PagesConstants DEF Seen, Unsaving, FormRecs
<1>4. CASE r.op.ok = "reload"
  <2>1. asked \in TaskRecs /\ asked.phase = "asked"
    BY <1>1, AskedTyped
  <2>2. /\ \/ task' = [task EXCEPT ![t] = asked]
           \/ task' = Disowned([task EXCEPT ![t] = asked])
        /\ MarkLoading /\ form' \in {NoForm, Seen(t)} /\ UNCHANGED <<listed, again, excused>>
    BY <1>4 DEF Succeed
  <2>3. busy' \subseteq Keys
    BY <1>1, <2>2, BusyTyped DEF MarkLoading
  <2> HIDE DEF asked
  <2>4. task' \in [Tasks -> TaskRecs]
    BY <2>1, <2>2, TaskSteps
  <2> QED BY <1>1, <1>2, <1>3, <2>2, <2>3, <2>4, QuietStep
<1>5. CASE r.op.ok # "reload"
  <2>1. /\ \/ task' = [task EXCEPT ![t] = IdleTask]
           \/ task' = Disowned([task EXCEPT ![t] = IdleTask])
        /\ busy' = ClearBusy(r.op) /\ form' \in {NoForm, Unsaving(Seen(t), t)}
        /\ UNCHANGED <<listed, again, excused>> \/ Patch(r)
    BY <1>5 DEF Succeed
  <2>2. listed' \in Copies /\ again' \in Copies /\ excused' \in BOOLEAN
    BY <1>1, <2>1, PagesConstants DEF Patch, Second, ShowCopy
  <2>3. busy' \subseteq Keys
    BY <1>1, <2>1, BusyTyped
  <2>4. task' \in [Tasks -> TaskRecs]
    BY <2>1, TaskSteps, PagesConstants
  <2> QED BY <1>1, <1>2, <1>3, <2>1, <2>2, <2>3, <2>4, QuietStep
<1> QED BY <1>4, <1>5

\* The administrator's steps.
LEMMA UserSteps ==
    ASSUME PagesInv,
           \/ \E t \in Tasks : Load(t) \/ SubmitForm(t)
           \/ \E t \in Tasks, b \in Page[view].buttons : Click(t, b)
           \/ \E b \in Page[view].buttons : OpenDialog(b)
           \/ CloseDialog
    PROVE  PagesInv'
<1>a. /\ view \in Pages /\ row \in Copies /\ listed \in Copies /\ again \in Copies
      /\ busy \subseteq Keys
      /\ form \in FormRecs /\ task \in [Tasks -> TaskRecs]
      /\ excused \in BOOLEAN /\ meddled \in BOOLEAN /\ PagesTypeOK
      /\ listed.ver \in Revs /\ again.ver \in Revs /\ 0 \in Revs
      /\ form.seen \in Revs /\ form.op \in Handlers
  BY PagesTyped, PagesAssumption DEF PagesInv, Copies, Revs, FormRecs
<1>b. \A op : LookedAt(op) \subseteq Revs
  BY <1>a DEF LookedAt
<1>c. \A b \in Page[view].buttons : b.op \in Handlers /\ b.dialog \in Dialogs
  BY <1>a, PageButtons DEF Handlers
\* A handler that has begun keeps the server alone.
<1>d. ASSUME task' \in [Tasks -> TaskRecs], listed' \in Copies, busy' \subseteq Keys,
             form' \in FormRecs, UNCHANGED <<view, row, again, excused, meddled>>
      PROVE  PagesInv'
  BY <1>a, <1>d, QuietStep
<1>1. ASSUME NEW t \in Tasks, Load(t) PROVE PagesInv'
  <2> DEFINE r == [IdleTask EXCEPT !.op = LoadPage, !.phase = "asked", !.own = FALSE]
  <2>1. r \in TaskRecs /\ r.phase = "asked"
    BY PagesConstants, AskedTyped
  <2>2. /\ task' = [task EXCEPT ![t] = r] /\ MarkLoading
        /\ UNCHANGED <<view, row, listed, again, form, excused, meddled>>
    BY <1>1 DEF Load, AskRow
  <2>3. busy' \subseteq Keys
    BY <1>a, <2>2, BusyTyped, PagesConstants DEF MarkLoading
  <2> HIDE DEF r
  <2>4. task' \in [Tasks -> TaskRecs]
    BY <2>1, <2>2, TaskSteps
  <2> QED BY <1>a, <2>2, <2>3, <2>4, QuietStep
<1>2. ASSUME NEW t \in Tasks, SubmitForm(t) PROVE PagesInv'
  <2>1. /\ Begin(t, form.op, form.seen, TRUE) /\ busy' = SetBusy(form.op)
        /\ form' = [form EXCEPT !.saving = (form.op.key = "form")]
        /\ UNCHANGED <<view, row, listed, again, excused, meddled>>
    BY <1>2 DEF SubmitForm
  <2>2. form' \in FormRecs
    BY <1>a, <2>1 DEF FormRecs
  <2> QED BY <1>a, <1>d, <2>1, <2>2, BeginSteps, BusyTyped
<1>3. ASSUME NEW t \in Tasks, NEW b \in Page[view].buttons, Click(t, b) PROVE PagesInv'
  <2>1. PICK seen \in LookedAt(b.op) : Begin(t, b.op, seen, FALSE)
    BY <1>3 DEF Click
  <2>2. /\ busy' = SetBusy(b.op)
        /\ listed' = listed \/ listed' = [listed EXCEPT !.rev = Cleared]
        /\ UNCHANGED <<view, row, again, form, excused, meddled>>
    BY <1>3 DEF Click
  <2>3. listed' \in Copies
    BY <1>a, <2>2, PagesAssumption DEF Copies, Cleared
  <2>4. task' \in [Tasks -> TaskRecs]
    BY <1>b, <1>c, <2>1, BeginSteps
  <2> QED BY <1>a, <1>c, <1>d, <2>2, <2>3, <2>4, BusyTyped
<1>4. ASSUME NEW b \in Page[view].buttons, OpenDialog(b) PROVE PagesInv'
  <2>1. /\ \E seen \in LookedAt(b.op) :
               form' = [op |-> b.op, dialog |-> b.dialog, seen |-> seen, saving |-> FALSE]
        /\ UNCHANGED <<view, row, listed, again, busy, task, excused, meddled>>
    BY <1>4 DEF OpenDialog
  <2>2. form' \in FormRecs
    BY <1>b, <1>c, <2>1 DEF FormRecs, Dialogs
  <2> QED BY <1>a, <2>1, <2>2, QuietStep
<1>5. CASE CloseDialog
  <2>1. form' = NoForm /\ task' = Disowned(task)
        /\ UNCHANGED <<view, row, listed, again, busy, excused, meddled>>
    BY <1>5 DEF CloseDialog
  <2> QED BY <1>a, <2>1, DisownSteps, PagesConstants, QuietStep
<1> QED BY <1>1, <1>2, <1>3, <1>4, <1>5

\* The server's steps: the first accepts a request, or refuses it.
LEMMA ServerSteps ==
    ASSUME PagesInv, \/ \E t \in Tasks : ServeTask(t) \/ Lose(t) \/ ReadRow(t)
                     \/ \E how \in {"edit", "delete"} : Foreign(how)
    PROVE  PagesInv'
<1>a. /\ view \in Pages /\ row \in Copies /\ listed \in Copies /\ again \in Copies
      /\ busy \subseteq Keys
      /\ form \in FormRecs /\ task \in [Tasks -> TaskRecs]
      /\ excused \in BOOLEAN /\ meddled \in BOOLEAN
      /\ RowBounded
  BY PagesTyped DEF PagesInv
<1>b. ASSUME NEW t \in Tasks
      PROVE  /\ Refused(task[t]) \in TaskRecs /\ Refused(task[t]).phase = "refused"
  <2>1. 0 \in Revs
    BY PagesAssumption DEF Revs
  <2> QED BY <1>a, <2>1, PagesConstants DEF Refused, TaskRecs
<1>1. ASSUME NEW t \in Tasks, ServeTask(t) PROVE PagesInv'
  <2> DEFINE r == task[t]
  <2>1. r \in TaskRecs /\ r.op \in Handlers /\ r.phase = "sent"
        /\ UNCHANGED <<view, listed, again, busy, form, excused, meddled>>
    BY <1>1, <1>a DEF ServeTask, TaskRecs
  <2>2. CASE Accepts(r)
    <3> DEFINE copy == IF r.op.verb = "create" /\ row # Absent THEN Absent ELSE row'
               next == [r EXCEPT !.phase = "ok", !.sent = 0, !.copy = copy]
    <3>1. row' = Change(r.op.verb) /\ task' = [task EXCEPT ![t] = next]
      BY <1>1, <2>2 DEF ServeTask
    <3>2. r.op.verb \in {"edit", "delete"} => row.rev < MaxRev
      BY <2>2 DEF Accepts
    <3>3. row' \in Copies /\ RowBounded'
      BY <1>a, <3>1, <3>2, ChangeTyped DEF RowBounded
    <3>4. next \in TaskRecs /\ next.phase = "ok"
      <4>1. copy \in Copies
        BY <3>3, PagesConstants
      <4> HIDE DEF copy
      <4>2. 0 \in Revs
        BY PagesAssumption DEF Revs
      <4> QED BY <2>1, <4>1, <4>2 DEF TaskRecs
    <3> HIDE DEF next
    <3>5. task' \in [Tasks -> TaskRecs]
      BY <1>a, <3>1, <3>4
    <3>6. PagesTypeOK'
      BY <1>a, <2>1, <3>3, <3>5 DEF PagesTypeOK, TaskRecs, FormRecs, Handlers, Revs
    <3> QED BY <3>3, <3>6 DEF PagesInv
  <2>3. CASE ~Accepts(r)
    <3>1. task' = [task EXCEPT ![t] = Refused(r)] /\ UNCHANGED row
      BY <1>1, <2>3 DEF ServeTask
    <3>2. task' \in [Tasks -> TaskRecs]
      BY <1>b, <3>1, TaskSteps
    <3> QED BY <1>a, <2>1, <3>1, <3>2, QuietStep
  <2> QED BY <2>2, <2>3
<1>2. ASSUME NEW t \in Tasks, Lose(t) PROVE PagesInv'
  <2>1. /\ task' = [task EXCEPT ![t] = Refused(task[t])] /\ excused' \in BOOLEAN
        /\ UNCHANGED <<view, row, listed, again, busy, form, meddled>>
    BY <1>2, <1>a DEF Lose
  <2>2. task' \in [Tasks -> TaskRecs]
    BY <1>b, <2>1, TaskSteps
  <2> QED BY <1>a, <2>1, <2>2, QuietStep
<1>3. ASSUME NEW t \in Tasks, ReadRow(t) PROVE PagesInv'
  <2> DEFINE r == [task[t] EXCEPT !.phase = "read", !.copy = row]
  <2>1. /\ task' = [task EXCEPT ![t] = r]
        /\ UNCHANGED <<view, row, listed, again, busy, form, excused, meddled>>
    BY <1>3 DEF ReadRow
  <2>2. r \in TaskRecs /\ r.phase = "read"
    BY <1>a DEF TaskRecs
  <2> HIDE DEF r
  <2>3. task' \in [Tasks -> TaskRecs]
    BY <2>1, <2>2, TaskSteps
  <2> QED BY <1>a, <2>1, <2>3, QuietStep
<1>4. ASSUME NEW how \in {"edit", "delete"}, Foreign(how) PROVE PagesInv'
  <2>1. row' = Change(how) /\ row.rev < MaxRev /\ excused' = TRUE
        /\ UNCHANGED <<view, listed, again, busy, form, task, meddled>>
    BY <1>4 DEF Foreign
  <2>2. row' \in Copies /\ RowBounded'
    BY <1>a, <2>1, ChangeTyped DEF RowBounded
  <2>3. PagesTypeOK'
    BY <1>a, <2>1, <2>2 DEF PagesTypeOK, TaskRecs, FormRecs, Handlers, Revs
  <2> QED BY <1>a, <2>1, <2>2, <2>3 DEF PagesInv
<1> QED BY <1>1, <1>2, <1>3, <1>4

\* The answers' steps.
LEMMA AnswerSteps ==
    ASSUME PagesInv, NEW t \in Tasks,
           \/ ReceiveOk(t) \/ ReceiveRefused(t) \/ AfterEnds(t)
           \/ \E succeeds \in BOOLEAN : SecondEnds(t, succeeds) \/ PageLoadEnds(t, succeeds)
    PROVE  PagesInv'
<1> DEFINE r == task[t]
           Kept == task' \in [Tasks -> TaskRecs]
<1>a. /\ r \in TaskRecs /\ r.op \in Handlers /\ r.copy \in Copies /\ r.own \in BOOLEAN
      /\ row \in Copies /\ listed \in Copies /\ again \in Copies /\ busy \subseteq Keys
      /\ form \in FormRecs
      /\ task \in [Tasks -> TaskRecs]
      /\ excused \in BOOLEAN /\ meddled \in BOOLEAN /\ PagesTypeOK
  BY PagesTyped DEF PagesInv, TaskRecs
<1>b. Unsaving(form, t) \in FormRecs
  BY <1>a DEF Unsaving, FormRecs
<1>c. ASSUME Finish(t) PROVE Kept /\ busy' \subseteq Keys
  <2>1. task' = [task EXCEPT ![t] = IdleTask] /\ busy' = ClearBusy(r.op)
    BY <1>c DEF Finish
  <2> QED BY <1>a, <2>1, BusyTyped, TaskSteps, PagesConstants
<1>d. ASSUME NEW phase \in {"second"}, task' = [task EXCEPT ![t] = [r EXCEPT !.phase = phase]]
      PROVE  Kept
  <2>1. [r EXCEPT !.phase = phase] \in TaskRecs /\ [r EXCEPT !.phase = phase].phase = phase
    BY <1>a DEF TaskRecs
  <2> QED BY <1>d, <2>1, TaskSteps
<1>1. CASE ReceiveOk(t)
  <2>1. CASE r.op.second = "before"
    <3>1. /\ task' = [task EXCEPT ![t] = [r EXCEPT !.phase = "second"]]
          /\ UNCHANGED <<listed, again, busy, form, excused, meddled, view, row>>
      BY <1>1, <2>1 DEF ReceiveOk
    <3> QED BY <1>a, <1>d, <3>1, QuietStep
  <2>2. CASE r.op.second # "before"
    BY <1>1, <2>2, SucceedSteps DEF ReceiveOk
  <2> QED BY <2>1, <2>2
<1>2. ASSUME NEW succeeds \in BOOLEAN, SecondEnds(t, succeeds) PROVE PagesInv'
  <2>1. CASE succeeds
    BY <1>2, <2>1, SucceedSteps DEF SecondEnds
  <2>2. CASE ~succeeds
    <3>1. /\ Finish(t) /\ excused' = TRUE /\ form' = Unsaving(form, t)
          /\ UNCHANGED <<listed, again, meddled, view, row>>
      BY <1>2, <2>2 DEF SecondEnds
    <3> QED BY <1>a, <1>b, <1>c, <3>1, QuietStep
  <2> QED BY <2>1, <2>2
<1>3. CASE ReceiveRefused(t)
  <2>1. CASE r.op.fails = "reload"
    <3> DEFINE asked == [IdleTask EXCEPT !.op = r.op, !.phase = "asked", !.own = r.own]
    <3>1. /\ task' = [task EXCEPT ![t] = asked] /\ MarkLoading
          /\ UNCHANGED <<form, listed, again, excused, meddled, view, row>>
      BY <1>3, <2>1 DEF ReceiveRefused, AskRow
    <3>2. asked \in TaskRecs /\ asked.phase = "asked"
      BY <1>a, AskedTyped
    <3> HIDE DEF asked
    <3>3. Kept
      BY <3>1, <3>2, TaskSteps
    <3>4. busy' \subseteq Keys
      BY <1>a, <3>1, BusyTyped DEF MarkLoading
    <3> QED BY <1>a, <3>1, <3>3, <3>4, QuietStep
  <2>2. CASE r.op.fails # "reload"
    <3>1. /\ Finish(t) /\ form' = Unsaving(form, t)
          /\ UNCHANGED <<listed, again, excused, meddled, view, row>>
      BY <1>3, <2>2 DEF ReceiveRefused
    <3> QED BY <1>a, <1>b, <1>c, <3>1, QuietStep
  <2> QED BY <2>1, <2>2
<1>4. ASSUME NEW succeeds \in BOOLEAN, PageLoadEnds(t, succeeds) PROVE PagesInv'
  <2>1. /\ listed' \in Copies /\ again' \in Copies /\ excused' \in BOOLEAN
        /\ UNCHANGED <<view, row, meddled>>
    BY <1>4, <1>a, PagesConstants DEF PageLoadEnds, ShowCopy
  <2> DEFINE done == [r EXCEPT !.phase = "after", !.copy = Absent]
  <2>2. done \in TaskRecs /\ done.phase = "after"
    BY <1>a, PagesConstants DEF TaskRecs
  <2>3. PICK next \in {done, IdleTask} : \/ task' = [task EXCEPT ![t] = next]
                                         \/ task' = Disowned([task EXCEPT ![t] = next])
    BY <1>4 DEF PageLoadEnds
  <2>4. Kept
    <3> HIDE DEF done
    <3>1. next \in TaskRecs /\ next.phase # "sent"
      BY <2>2, PagesConstants
    <3> QED BY <2>3, <3>1, TaskSteps
  <2>5. busy' \subseteq Keys
    <3>1. busy' \subseteq busy \cup ClearBusy(r.op)
      BY <1>4 DEF PageLoadEnds
    <3> QED BY <1>a, <3>1, BusyTyped
  <2>6. form' \in FormRecs
    BY <1>4, <1>a, <1>b, PagesConstants DEF PageLoadEnds
  <2> QED BY <1>a, <2>1, <2>4, <2>5, <2>6, QuietStep
<1>5. CASE AfterEnds(t)
  <2>1. Finish(t) /\ UNCHANGED <<view, row, listed, again, form, excused, meddled>>
    BY <1>5 DEF AfterEnds
  <2> QED BY <1>a, <1>c, <2>1, QuietStep
<1> QED BY <1>1, <1>2, <1>3, <1>4, <1>5

LEMMA PagesStepInv == PagesInv /\ [PagesNext]_pages => PagesInv'
<1> SUFFICES ASSUME PagesInv, [PagesNext]_pages PROVE PagesInv'
  OBVIOUS
<1>1. CASE PagesNext
  BY <1>1, UserSteps, ServerSteps, AnswerSteps DEF PagesNext, Progress
<1>2. CASE UNCHANGED pages
  BY <1>2 DEF pages, PagesInv, PagesTypeOK, RowBounded, Copies
<1> QED BY <1>1, <1>2

LEMMA PagesHold == ConsoleSpec => []PagesInv
<1>1. ConsoleInit => PagesInv
  BY PagesStart DEF ConsoleInit, Resting
<1>2. PagesInv /\ [ConsoleNext]_console => PagesInv'
  BY PagesMove, PagesStepInv
<1> QED BY <1>1, <1>2, PTL DEF ConsoleSpec

-----------------------------------------------------------------------------
(* The console. *)

\* The types of every part, for every value of the constants.
THEOREM ConsoleTyped == ConsoleSpec => []ConsoleTypeOK
<1>1. ConsoleInit => part \in Parts
  BY DEF ConsoleInit
<1>2. part \in Parts /\ [ConsoleNext]_console => (part \in Parts)'
  BY DEF ConsoleNext, SessionStep, TerminalStep, FilesStep, PagesStep, console
<1>3. part \in Parts /\ SessionInv /\ TerminalInv /\ FilesInv /\ PagesInv => ConsoleTypeOK
  BY DEF ConsoleTypeOK, SessionInv, TerminalInv, FilesInv, PagesInv
<1> QED
  BY <1>1, <1>2, <1>3, SessionHolds, TerminalHolds, FilesHold, PagesHold, PTL DEF ConsoleSpec
=============================================================================
