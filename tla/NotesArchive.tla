---------------------------- MODULE NotesArchive ----------------------------
(***************************************************************************)
(* The decision notes of the repository and the scripts that guard them,   *)
(* .agents/skills/hx-agent-notes/scripts: notes are written, moved between *)
(* lifecycle folders and cited by source; archive-note moves one into the  *)
(* frozen archive and records its hash, the seal, in manifest.json;        *)
(* seal-archive records what is unsealed; verify-all grades a work tree    *)
(* before it is merged, against the commit it is merged into.              *)
(*                                                                         *)
(* People and agents work in one work tree at once, edit by hand what no   *)
(* tool protects, and tools die between two file operations or inside one. *)
(* A hash is the content it is of.                                         *)
(***************************************************************************)
EXTENDS Naturals

CONSTANTS Notes,       \* file names, each in its class
          Lifecycles,  \* config.lifecycles, "implemented" among them
          Cited,       \* notes that source may cite
          Tools,       \* bound: script runs at a time
          Dates,       \* bound: --date, or the day of the run
          MaxText,     \* bound: texts told apart
          None

\* What a file holds: a text (1: the template; 0: any but these, as a file cut
\* short has), where its line "Status: <lifecycle>" stands (in the header, further
\* down, or nowhere), and the date of the seal line below it ("quoted": only the
\* body has a line of that form, as a note about archiving may).
Files == [text : 0..MaxText, status : {"top", "low", "none"},
          seal : Dates \cup {"quoted", None}]
Active == [folder : Lifecycles, file : Files]

ASSUME NotesAssumption ==
    /\ "implemented" \in Lifecycles
    /\ Cited \subseteq Notes
    /\ MaxText \in Nat \ {0}
    /\ "quoted" \notin Dates
    /\ None \notin Dates \cup {"quoted"}
    /\ None \notin 0..MaxText /\ None \notin Files /\ None \notin Active

VARIABLES
    active,    \* per note: its file under a lifecycle folder
    frozen,    \* per note: its file under archived/
    manifest,  \* the seals of manifest.json; torn: it is not valid JSON
    torn,
    cites,     \* per cited note: the folder under which source cites it, or "none"
    diff,      \* kinds of files changed since main, as git diff lists them
    main,      \* the commit merged last: its archive and the seals of it
    tool,      \* per script run: where it is, what it is about to write
    spoilt     \* ghost: notes whose archived file was changed by hand, whose file was
               \* changed by hand under a run, or which a killed run cut short

vars == <<active, frozen, manifest, torn, cites, diff, main, tool, spoilt>>

Archive == [Notes -> Files \cup {None}]
NoSeals == [n \in Notes |-> None]
\* "note" stands for a note of the tree, NOTE-EXEMPT.md, or a file whose text has
\* the exemption label, as the contract AGENTS.md has.
Kinds == {"guarded", "note"}
Idle == [pc |-> "idle", note |-> None, file |-> None, seals |-> NoSeals]
Runs == [pc : {"idle", "checked", "stamped", "moved", "sealing"},
         note : Notes \cup {None}, file : Files \cup {None}, seals : Archive]

NotesTypeOK ==
    /\ active \in [Notes -> Active \cup {None}]
    /\ frozen \in Archive /\ manifest \in Archive /\ torn \in BOOLEAN
    /\ cites \in [Cited -> Lifecycles \cup {"archived", "none"}]
    /\ diff \subseteq Kinds
    /\ main \in [frozen : Archive, seals : Archive]
    /\ tool \in [Tools -> Runs]
    /\ spoilt \subseteq Notes

\* init-agent-notes: the folders and the contract of an empty tree.
Init ==
    /\ active = [n \in Notes |-> None] /\ frozen = NoSeals
    /\ manifest = NoSeals /\ torn = FALSE
    /\ cites = [n \in Cited |-> "none"]
    /\ diff = {"note"}
    /\ main = [frozen |-> NoSeals, seals |-> NoSeals]
    /\ tool = [t \in Tools |-> Idle]
    /\ spoilt = {}

-----------------------------------------------------------------------------
(* Writing notes. *)

\* archive-note has read the note, and will write and move it.
Held(n) == \E t \in Tools : tool[t].note = n /\ tool[t].pc \in {"checked", "stamped"}

\* Nothing keeps people from changing a note under a run.
ByHand(n) == spoilt' = IF Held(n) THEN spoilt \cup {n} ELSE spoilt

\* new-note: from the template of the lifecycle, unless the file exists.  It
\* does not look into the archive.
NewNote(n, l) ==
    /\ active[n] = None
    /\ active' = [active EXCEPT ![n] = [folder |-> l,
                      file |-> [text |-> 1, status |-> "top", seal |-> None]]]
    /\ diff' = {"note"} /\ ByHand(n)
    /\ UNCHANGED <<frozen, manifest, torn, cites, main, tool>>

\* A proposal moves to another lifecycle; its header follows, or is forgotten.
MoveNote(n, l) ==
    /\ active[n] # None /\ active[n].folder \notin {l, "implemented"}
    /\ \E s \in {"top", "none"} :
        active' = [active EXCEPT ![n] = [folder |-> l, file |-> [@.file EXCEPT !.status = s]]]
    /\ diff' = {"note"} /\ ByHand(n)
    /\ UNCHANGED <<frozen, manifest, torn, cites, main, tool>>

\* A note that has no seal line may quote one.
Quote(file) == IF file.seal = None THEN "quoted" ELSE file.seal

\* An implemented note is brought up to date: its header too, or with lines above
\* the status; quoting a seal line, or without the one of a run that died.  Or a
\* note is deleted, which the filter of the coverage gate does not list.
EditNote(n) ==
    /\ active[n] # None
    /\ \/ /\ active[n].folder = "implemented"
          /\ \E s \in {"top", "low"}, seal \in {active[n].file.seal, Quote(active[n].file), None},
                text \in 0..MaxText :
              LET file == [text |-> text, status |-> s, seal |-> seal] IN
              /\ file # active[n].file
              /\ active' = [active EXCEPT ![n] = [folder |-> "implemented", file |-> file]]
          /\ diff' = {"note"}
       \/ active' = [active EXCEPT ![n] = None] /\ UNCHANGED diff
    /\ ByHand(n)
    /\ UNCHANGED <<frozen, manifest, torn, cites, main, tool>>

\* Once a note is among the changes, guarded source adds nothing to tell.
ChangedWith(kind) == IF "note" \in diff THEN diff ELSE {kind}

\* Source cites a note where it is, or drops the citation.
CiteNote(n) ==
    /\ \E where \in {"none"} \cup (IF active[n] # None THEN {active[n].folder} ELSE {})
                    \cup (IF frozen[n] # None THEN {"archived"} ELSE {}) :
        where # cites[n] /\ cites' = [cites EXCEPT ![n] = where]
    /\ diff' = ChangedWith("guarded")
    /\ UNCHANGED <<active, frozen, manifest, torn, main, tool, spoilt>>

\* Guarded source changes, or the contract, which init-agent-notes --force writes.
ChangeFile(kind) ==
    /\ diff' = ChangedWith(kind) /\ diff' # diff
    /\ UNCHANGED <<active, frozen, manifest, torn, cites, main, tool, spoilt>>

\* A frozen note is rewritten or deleted by hand, and its seal forged, removed or
\* left (bound: once between merges).
Tamper(n) ==
    /\ frozen[n] # None /\ n \notin spoilt
    /\ \E file \in {[frozen[n] EXCEPT !.text = 0], None} :
        /\ frozen' = [frozen EXCEPT ![n] = file]
        /\ \E seal \in {file, manifest[n], None} :
            manifest' = IF torn THEN manifest ELSE [manifest EXCEPT ![n] = seal]
    /\ spoilt' = spoilt \cup {n}
    /\ UNCHANGED <<active, torn, cites, diff, main, tool>>

\* git checkout of the archive: what main has comes back, new files stay.
RestoreArchive ==
    /\ frozen' = [n \in Notes |-> IF main.seals[n] # None THEN main.frozen[n] ELSE frozen[n]]
    /\ manifest' = main.seals /\ torn' = FALSE
    /\ UNCHANGED <<active, cites, diff, main, tool, spoilt>>

-----------------------------------------------------------------------------
(* archive-note, one step per file operation. *)

At(t, pc) == tool[t].pc = pc

\* Mutant of Collides: the archive is not looked at.
NeverCollides(n) == FALSE

\* existsSync(archivedPath)
Collides(n) == frozen[n] # None

\* The seal line goes below the status unless some line already is one.
Stamped(file, date) == IF file.seal # None THEN file ELSE [file EXCEPT !.seal = date]

\* Everything up to the report of the inbound references: it only reads.  The
\* status line may stand anywhere.  Of the manifest, the note's own entry does not
\* matter: SealNote sets it.
CheckNote(t, n) ==
    /\ At(t, "idle")
    /\ active[n] # None /\ active[n].folder = "implemented" /\ active[n].file.status # "none"
    /\ ~Collides(n) /\ ~torn
    /\ \E date \in Dates :
        tool' = [tool EXCEPT ![t] = [pc |-> "checked", note |-> n,
                     file |-> Stamped(active[n].file, date),
                     seals |-> [manifest EXCEPT ![n] = None]]]
    /\ UNCHANGED <<active, frozen, manifest, torn, cites, diff, main, spoilt>>

\* Mutant of StampNote: the lines around the seal are not written back.
StampNoteOnly(t) ==
    /\ At(t, "checked")
    /\ active' = [active EXCEPT ![tool[t].note] =
                      [folder |-> "implemented", file |-> [tool[t].file EXCEPT !.text = None]]]
    /\ tool' = [tool EXCEPT ![t].pc = "stamped"]
    /\ diff' = {"note"}
    /\ UNCHANGED <<frozen, manifest, torn, cites, main, spoilt>>

\* writeFileSync(target, updated): the file comes back if another run moved it,
\* and what somebody wrote since it was read is lost.
StampNote(t) ==
    /\ At(t, "checked")
    /\ active' = [active EXCEPT ![tool[t].note] =
                      [folder |-> "implemented", file |-> tool[t].file]]
    /\ tool' = [tool EXCEPT ![t].pc = "stamped"]
    /\ diff' = {"note"}
    /\ UNCHANGED <<frozen, manifest, torn, cites, main, spoilt>>

\* renameSync: it moves and overwrites whatever is there, and throws when another
\* run has moved the file.
MoveToArchive(t) ==
    /\ At(t, "stamped")
    /\ LET n == tool[t].note IN
       IF active[n] # None /\ active[n].folder = "implemented"
       THEN /\ frozen' = [frozen EXCEPT ![n] = active[n].file]
            /\ active' = [active EXCEPT ![n] = None]
            /\ tool' = [tool EXCEPT ![t].pc = "moved", ![t].file = None]
       ELSE tool' = [tool EXCEPT ![t] = Idle] /\ UNCHANGED <<active, frozen>>
    /\ UNCHANGED <<manifest, torn, cites, diff, main, spoilt>>

\* sha256File(archivedPath), which throws when the file is gone, and
\* writeFileSync of the manifest that was read, with that seal added.
SealNote(t) ==
    /\ At(t, "moved")
    /\ LET n == tool[t].note IN
       IF frozen[n] = None THEN UNCHANGED <<manifest, torn>>
       ELSE manifest' = [tool[t].seals EXCEPT ![n] = frozen[n]] /\ torn' = FALSE
    /\ tool' = [tool EXCEPT ![t] = Idle]
    /\ UNCHANGED <<active, frozen, cites, diff, main, spoilt>>

\* seal-archive --write ends with the manifest it has computed.
WriteManifest(t) ==
    /\ At(t, "sealing")
    /\ manifest' = tool[t].seals /\ torn' = FALSE
    /\ tool' = [tool EXCEPT ![t] = Idle]
    /\ UNCHANGED <<active, frozen, cites, diff, main, spoilt>>

\* What is there of a file cut short: it ends above the status, above the seal
\* line, or below it.
Cuts(file) ==
    {[text |-> 0, status |-> "none", seal |-> None],
     [text |-> 0, status |-> file.status, seal |-> None],
     [text |-> 0, status |-> file.status, seal |-> file.seal]}

\* The run is killed, between two operations or inside a writeFileSync, which
\* truncates the file first and creates it when it is gone.
Crash(t) ==
    /\ ~At(t, "idle")
    /\ tool' = [tool EXCEPT ![t] = Idle]
    /\ \/ UNCHANGED <<active, torn, manifest, diff, spoilt>>
       \/ /\ At(t, "checked")
          /\ \E file \in Cuts(tool[t].file) :
              active' = [active EXCEPT ![tool[t].note] =
                             [folder |-> "implemented", file |-> file]]
          /\ diff' = {"note"} /\ spoilt' = spoilt \cup {tool[t].note}
          /\ UNCHANGED <<torn, manifest>>
       \/ /\ tool[t].pc \in {"moved", "sealing"} /\ torn' = TRUE /\ manifest' = NoSeals
          /\ UNCHANGED <<active, diff, spoilt>>
    /\ UNCHANGED <<frozen, cites, main>>

-----------------------------------------------------------------------------
(* The gates. *)

\* verifyArchive() looks for the seal line in the first six lines.
SealSeen(file) == file.status = "top" /\ file.seal \in Dates

\* verifyArchive(): what it reports of the files; writeMode forgives the unsealed.
ArchiveIntact(writeMode) ==
    /\ ~torn
    /\ \A n \in Notes :
        /\ frozen[n] # None =>
              /\ SealSeen(frozen[n])
              /\ (manifest[n] = None /\ writeMode) \/ manifest[n] = frozen[n]
        /\ manifest[n] # None => frozen[n] # None

\* seal-archive --write: the artifacts without a seal get one, unless anything
\* is wrong.  It writes before it looks at the baseline.
SealArchive(t) ==
    /\ At(t, "idle") /\ ArchiveIntact(TRUE)
    /\ \E n \in Notes : frozen[n] # None /\ manifest[n] = None
    /\ tool' = [tool EXCEPT ![t] = [pc |-> "sealing", note |-> None, file |-> None,
                                    seals |-> frozen]]
    /\ UNCHANGED <<active, frozen, manifest, torn, cites, diff, main, spoilt>>

\* verifyManifestAppendOnly() against the manifest git shows of the baseline.
AppendOnly(baseline) == \A n \in Notes : baseline[n] # None => manifest[n] = baseline[n]

\* verify-format: the header is one of the folder.  Its other rules only refuse more.
WellFormed == \A n \in Notes : active[n] # None => active[n].file.status = "top"

\* verify-backlinks: a citation names a note that is where it says.
CitesResolve ==
    \A n \in Cited :
        \/ cites[n] = "none"
        \/ (cites[n] = "archived" /\ frozen[n] # None)
        \/ (active[n] # None /\ active[n].folder = cites[n])

\* verify-coverage: guarded source changes with a note in the same change.
Covered == "guarded" \in diff => "note" \in diff

VerifyAll(baseline) ==
    WellFormed /\ CitesResolve /\ ArchiveIntact(FALSE) /\ AppendOnly(baseline) /\ Covered

\* The pipeline passes on what was pushed, and it is merged.  When git show of the
\* baseline fails, as after a force push, there is nothing to compare with.
Merge ==
    /\ \E baseline \in {main.seals, NoSeals} : VerifyAll(baseline)
    /\ diff # {} \/ main # [frozen |-> frozen, seals |-> manifest]
    /\ main' = [frozen |-> frozen, seals |-> manifest]
    /\ diff' = {} /\ spoilt' = IF \A t \in Tools : At(t, "idle") THEN {} ELSE spoilt
    /\ UNCHANGED <<active, frozen, manifest, torn, cites, tool>>

-----------------------------------------------------------------------------
Next ==
    \/ \E n \in Notes, l \in Lifecycles : NewNote(n, l) \/ MoveNote(n, l)
    \/ \E n \in Notes : EditNote(n) \/ Tamper(n)
    \/ \E n \in Cited : CiteNote(n)
    \/ \E kind \in Kinds : ChangeFile(kind)
    \/ RestoreArchive
    \/ \E t \in Tools, n \in Notes : CheckNote(t, n)
    \/ \E t \in Tools : StampNote(t) \/ MoveToArchive(t) \/ SealNote(t) \/ WriteManifest(t)
                        \/ SealArchive(t) \/ Crash(t)
    \/ Merge

Spec == Init /\ [][Next]_vars

-----------------------------------------------------------------------------
(* Properties. *)

\* However runs overlap, die and are repaired by seal-archive and git checkout, a
\* note that nobody changed by hand under a run or in the archive, and no killed
\* run cut short, keeps its text: the archive has the text that was merged into
\* it, whatever the date of the seal above it; a text that a run has read is in
\* the tree or in the archive; and what was archived has a seal line, or quotes one.
\* (Below a status line that stands too low, the gate does not see the seal.)
TextsKept ==
    \A n \in Notes \ spoilt :
        /\ main.seals[n] # None =>
              frozen[n] # None /\ frozen[n].text = main.frozen[n].text
        /\ frozen[n] # None => frozen[n].seal # None
        /\ \A t \in Tools : tool[t].note = n /\ tool[t].pc \in {"checked", "stamped"} =>
              \/ active[n] # None /\ active[n].file.text = tool[t].file.text
              \/ frozen[n] # None /\ frozen[n].text = tool[t].file.text
=============================================================================
