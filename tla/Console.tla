------------------------------ MODULE Console ------------------------------
(***************************************************************************)
(* The web console: the gate and its session (ConsoleSession), the pages   *)
(* it mounts (ConsolePages), its terminal (ConsoleTerminal) and the file   *)
(* panel of that (ConsoleFiles).                                           *)
(*                                                                         *)
(* What one does to another is an action of the other: a sign-out unmounts *)
(* the terminal (Unmount), a connection renders the panel (SetMode), a     *)
(* page's requests are PageRequest of the session.  They share no          *)
(* variable, so a behaviour moves one of them, part, and the states of the *)
(* console are the sum of theirs, not the product.                         *)
(***************************************************************************)
EXTENDS ConsoleSession, ConsoleTerminal, ConsoleFiles, ConsolePages

VARIABLE part  \* the part of the console that moves

Parts == {"session", "terminal", "files", "pages"}

console == <<part, session, terminal, files, pages>>

\* A part that does not move has one initial state.
Resting(p, init, first) == init /\ (part # p => first)

ConsoleInit ==
    /\ part \in Parts
    /\ Resting("session", SessionInit, configured)
    /\ TerminalInit
    /\ FilesInit
    /\ Resting("pages", PagesInit, view = "rules")

SessionStep == part = "session" /\ SessionNext /\ UNCHANGED <<part, terminal, files, pages>>
TerminalStep == part = "terminal" /\ TerminalNext /\ UNCHANGED <<part, session, files, pages>>
FilesStep == part = "files" /\ FilesNext /\ UNCHANGED <<part, session, terminal, pages>>
PagesStep == part = "pages" /\ PagesNext /\ UNCHANGED <<part, session, terminal, files>>

ConsoleNext == SessionStep \/ TerminalStep \/ FilesStep \/ PagesStep

\* Requests are answered or fail, answers are handled, timers fire.
Fairness ==
    /\ \A s \in Slots :
        /\ WF_console(part = "session" /\ (Serve(s) \/ Fail(s))
                      /\ UNCHANGED <<part, terminal, files, pages>>)
        /\ WF_console(part = "session" /\ Receive(s)
                      /\ UNCHANGED <<part, terminal, files, pages>>)
    /\ WF_console(part = "terminal" /\ TimerFires /\ UNCHANGED <<part, session, files, pages>>)

ConsoleSpec == ConsoleInit /\ [][ConsoleNext]_console /\ Fairness

ConsoleTypeOK ==
    /\ part \in Parts
    /\ SessionTypeOK /\ TerminalTypeOK /\ FilesTypeOK /\ PagesTypeOK

\* GateSettles of a console whose session moves.
ConsoleSettles == part = "session" => GateSettles
=============================================================================
