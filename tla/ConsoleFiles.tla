---------------------------- MODULE ConsoleFiles ----------------------------
(***************************************************************************)
(* The file panel of the server terminal, file-panel.tsx: the listing of   *)
(* the directory the terminal page is in.  The page owns the path, which   *)
(* the shell reports and the panel chooses; it renders the panel in some   *)
(* states of its connection only (ConsoleTerminal), which is here a mode   *)
(* the page sets at any time.  A path is the sequence of its names.        *)
(***************************************************************************)
EXTENDS Naturals, Sequences

CONSTANTS Names,     \* names of directories
          MaxDepth,  \* bound: depth of a directory
          None       \* no directory

ASSUME FilesAssumption ==
    /\ MaxDepth \in Nat
    /\ \A n \in 0..MaxDepth : None \notin [1..n -> Names]

VARIABLES
    mode,     \* the panel: "absent", "waiting" (reconnecting), "listing"
    cwd,      \* the directory of the page, "/" at first
    list,     \* the directory whose listing the panel shows
    denied,   \* failed.path of the panel
    load,     \* the directory of the newest load in flight
    stale,    \* directories of superseded loads in flight
    edit,     \* the directory of a removal or upload in flight
    fetched,  \* how the newest load ended: "none", "ok", "denied", "error"
    behind    \* ghost: that load was the reload of an edit made elsewhere

panel == <<list, denied, load, stale, edit, fetched, behind>>
files == <<mode, cwd, list, denied, load, stale, edit, fetched, behind>>

Paths == UNION {[1..n -> Names] : n \in 0..MaxDepth}
Root == <<>>
Parent(p) == IF p = Root THEN None ELSE SubSeq(p, 1, Len(p) - 1)  \* parentPath()

FilesTypeOK ==
    /\ mode \in {"absent", "waiting", "listing"}
    /\ cwd \in Paths
    /\ {list, denied, load, edit} \subseteq Paths \cup {None}
    /\ stale \subseteq Paths
    /\ fetched \in {"none", "ok", "denied", "error"}
    /\ behind \in BOOLEAN

FilesInit ==
    /\ mode = "absent" /\ cwd = Root
    /\ list = None /\ denied = None /\ load = None /\ stale = {} /\ edit = None
    /\ fetched = "none" /\ behind = FALSE

-----------------------------------------------------------------------------

\* load(target): a new sequence number supersedes the load in flight.
StartLoad(p) ==
    /\ load' = p
    /\ stale' = stale \cup ({load} \ {None})
    /\ behind' = (p # cwd')
    /\ UNCHANGED <<list, denied, fetched>>

\* The page connects, reconnects, closes, changes its tab or hides the panel.
\* Unmounting drops the state; the effect lists the path when it can.
SetMode(m) ==
    /\ m # mode /\ mode' = m /\ UNCHANGED cwd
    /\ CASE m = "absent" ->
              /\ list' = None /\ denied' = None /\ load' = None /\ stale' = {}
              /\ edit' = None /\ fetched' = "none" /\ behind' = FALSE
         [] m = "listing" -> StartLoad(cwd) /\ UNCHANGED edit
         [] m = "waiting" -> mode = "listing" /\ UNCHANGED panel

\* updateCwd(): the effect of the panel lists the new directory.
MoveTo(p) ==
    /\ cwd' = p /\ UNCHANGED mode
    /\ IF mode = "listing" THEN StartLoad(p) /\ UNCHANGED edit ELSE UNCHANGED panel

\* A new page, after a login: it starts at the root.
FreshPath == mode = "absent" /\ cwd' = Root /\ UNCHANGED <<mode, panel>>

\* A cwd frame or an OSC 7 report in the output of the current socket, or a
\* segment of the path shown above the listing.
ShellMoves(p) ==
    /\ mode # "waiting" /\ p # cwd
    /\ MoveTo(p)

\* Entering an entry of the listing: its name is joined to the path shown,
\* which is no longer the listed one while the next listing loads.
EnterDirectory(n) ==
    /\ mode = "listing" /\ list # None /\ Len(cwd) < MaxDepth
    /\ MoveTo(Append(cwd, n))

\* goUp(): the parent of the failed directory, else of the listed one.
GoUp ==
    LET target == IF denied # None THEN Parent(denied)
                  ELSE IF list # None THEN Parent(list) ELSE None
    IN  /\ mode = "listing" /\ target \notin {None, cwd}
        /\ MoveTo(target)

\* The refresh button.
RefreshFiles ==
    /\ mode = "listing"
    /\ UNCHANGED <<mode, cwd>>
    /\ StartLoad(cwd) /\ UNCHANGED edit

\* The newest load ends: a listing, a missing or forbidden directory, or
\* another error after three attempts, which leaves the former listing.
LoadEnds(how) ==
    /\ load # None
    /\ load' = None /\ fetched' = how
    /\ CASE how = "ok" -> list' = load /\ denied' = None
         [] how = "denied" -> list' = None /\ denied' = load
         [] how = "error" -> denied' = None /\ UNCHANGED list
    /\ UNCHANGED <<mode, cwd, stale, edit, behind>>

\* Mutant of StaleLoadEnds: the sequence number is not looked at.
StaleLoadShown(p) ==
    /\ p \in stale /\ stale' = stale \ {p}
    /\ list' = p /\ denied' = None
    /\ UNCHANGED <<mode, cwd, load, edit, fetched, behind>>

\* A superseded load ends: seqRef tells, and its answer is dropped.
StaleLoadEnds(p) ==
    /\ p \in stale /\ stale' = stale \ {p}
    /\ UNCHANGED <<mode, cwd, list, denied, load, edit, fetched, behind>>

\* remove() and onFiles(): the directory is fixed at the click, the path for a
\* removal and the listed directory for an upload.
BeginEdit(p) ==
    /\ mode = "listing" /\ edit = None
    /\ p = cwd \/ p = list
    /\ p # None /\ edit' = p
    /\ UNCHANGED <<mode, cwd, list, denied, load, stale, fetched, behind>>

\* They reload that directory, wherever the panel has gone meanwhile.
EndEdit ==
    /\ edit # None /\ edit' = None
    /\ UNCHANGED <<mode, cwd>>
    /\ StartLoad(edit)

EditFails ==
    /\ edit # None /\ edit' = None
    /\ UNCHANGED <<mode, cwd, list, denied, load, stale, fetched, behind>>

-----------------------------------------------------------------------------
FilesNext ==
    \/ \E m \in {"absent", "waiting", "listing"} : SetMode(m)
    \/ FreshPath
    \/ \E p \in Paths : ShellMoves(p) \/ StaleLoadEnds(p) \/ BeginEdit(p)
    \/ \E n \in Names : EnterDirectory(n)
    \/ GoUp \/ RefreshFiles \/ EndEdit \/ EditFails
    \/ \E how \in {"ok", "denied", "error"} : LoadEnds(how)

FilesSpec == FilesInit /\ [][FilesNext]_files

-----------------------------------------------------------------------------
(* Properties. *)

\* However listings, navigations, reconnects and edits overlap, the panel
\* shows the directory its path names once nothing newer is loading; the
\* exception, behind, is the reload that ends an edit after the administrator
\* has moved on.
FilesAreOfPath ==
    mode = "listing" /\ load = None /\ ~behind =>
        /\ fetched = "ok" => list = cwd
        /\ fetched = "denied" => denied = cwd
=============================================================================
