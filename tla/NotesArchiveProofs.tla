------------------------- MODULE NotesArchiveProofs -------------------------
(***************************************************************************)
(* Proofs about NotesArchive, for any notes, texts, dates and number of    *)
(* script runs at a time.                                                  *)
(***************************************************************************)
EXTENDS NotesArchive, TLAPS

(* The inductive invariant. *)

\* What a run carries from one file operation to the next.
RunsCarry ==
    \A t \in Tools :
        /\ tool[t].pc \in {"checked", "stamped", "moved"} => tool[t].note \in Notes
        /\ tool[t].pc \in {"checked", "stamped"} => tool[t].file \in Files

\* What is merged into the archive has a seal line.
MergedSealed ==
    \A n \in Notes : main.seals[n] # None =>
        main.frozen[n] # None /\ main.frozen[n].seal # None

\* While nobody changes a note under a run, the tree, the archive and the runs on
\* it have one text of it, and a stamped file has a seal line.
HeldAlike ==
    \A t \in Tools :
        LET n == tool[t].note IN
        tool[t].pc \in {"checked", "stamped"} /\ n \notin spoilt =>
            /\ tool[t].file.seal # None
            /\ active[n] # None =>
                  /\ active[n].folder = "implemented"
                  /\ active[n].file.text = tool[t].file.text
                  /\ tool[t].pc = "stamped" => active[n].file.seal # None
            /\ frozen[n] # None => frozen[n].text = tool[t].file.text

TInv == NotesTypeOK /\ RunsCarry
Alike == HeldAlike /\ TextsKept
IInv == TInv /\ MergedSealed /\ Alike

-----------------------------------------------------------------------------
(* Types. *)

\* A stamped file is a file with the text it had and a seal line, or a quoted one.
LEMMA StampedFile ==
    ASSUME NEW file \in Files, NEW date \in Dates
    PROVE  /\ Stamped(file, date) \in Files
           /\ Stamped(file, date).text = file.text
           /\ Stamped(file, date).seal # None
  BY NotesAssumption DEF Stamped, Files

\* A file cut short is a file.
LEMMA CutFiles == ASSUME NEW file \in Files PROVE Cuts(file) \subseteq Files
  BY NotesAssumption DEF Cuts, Files

LEMMA NothingTyped == NoSeals \in Archive /\ Idle \in Runs /\ Idle.pc = "idle"
  BY DEF NoSeals, Archive, Idle, Runs

LEMMA InitTyped == Init => TInv
<1> SUFFICES ASSUME Init PROVE TInv
  OBVIOUS
<1>1. /\ active \in [Notes -> Active \cup {None}]
      /\ frozen \in Archive /\ manifest \in Archive /\ torn \in BOOLEAN
      /\ cites \in [Cited -> Lifecycles \cup {"archived", "none"}]
  BY NothingTyped DEF Init
<1>2. diff \subseteq Kinds /\ spoilt \subseteq Notes
  BY DEF Init, Kinds
<1>3. main \in [frozen : Archive, seals : Archive] /\ tool \in [Tools -> Runs]
  BY NothingTyped DEF Init
<1>4. RunsCarry
  BY NothingTyped DEF Init, RunsCarry
<1> QED
  BY <1>1, <1>2, <1>3, <1>4 DEF TInv, NotesTypeOK

\* A run that becomes one that carries what it should leaves the others as they are.
LEMMA OneRun ==
    ASSUME TInv, NEW t \in Tools, NEW r \in Runs,
           tool' = [tool EXCEPT ![t] = r],
           r.pc \in {"checked", "stamped", "moved"} => r.note \in Notes,
           r.pc \in {"checked", "stamped"} => r.file \in Files
    PROVE  tool' \in [Tools -> Runs] /\ RunsCarry'
  BY DEF TInv, NotesTypeOK, RunsCarry

\* The tree after one note of it is written or removed.
LEMMA OneNote ==
    ASSUME TInv, NEW n \in Notes, NEW a \in Active \cup {None},
           active' = [active EXCEPT ![n] = a]
    PROVE  active' \in [Notes -> Active \cup {None}]
  BY DEF TInv, NotesTypeOK

LEMMA NewNoteTyped ==
    ASSUME TInv, NEW n \in Notes, NEW l \in Lifecycles, NewNote(n, l) PROVE TInv'
<1>1. [folder |-> l, file |-> [text |-> 1, status |-> "top", seal |-> None]] \in Active
  BY NotesAssumption DEF Active, Files
<1>2. active' \in [Notes -> Active \cup {None}]
  BY <1>1, OneNote DEF NewNote
<1> QED BY <1>2 DEF NewNote, ByHand, Kinds, TInv, NotesTypeOK, RunsCarry

LEMMA MoveNoteTyped ==
    ASSUME TInv, NEW n \in Notes, NEW l \in Lifecycles, MoveNote(n, l) PROVE TInv'
<1>1. active[n] \in Active
  BY DEF MoveNote, TInv, NotesTypeOK
<1>2. PICK s \in {"top", "none"} :
        active' = [active EXCEPT ![n] = [folder |-> l, file |-> [@.file EXCEPT !.status = s]]]
  BY DEF MoveNote
<1>3. [folder |-> l, file |-> [active[n].file EXCEPT !.status = s]] \in Active
  BY <1>1 DEF Active, Files
<1>4. active' = [active EXCEPT ![n] =
                     [folder |-> l, file |-> [active[n].file EXCEPT !.status = s]]]
  BY <1>2
<1>5. active' \in [Notes -> Active \cup {None}]
  BY <1>3, <1>4, OneNote
<1> QED BY <1>5 DEF MoveNote, ByHand, Kinds, TInv, NotesTypeOK, RunsCarry

LEMMA EditNoteTyped == ASSUME TInv, NEW n \in Notes, EditNote(n) PROVE TInv'
<1>1. active[n] \in Active
  BY DEF EditNote, TInv, NotesTypeOK
<1>2. \A s \in {"top", "low"}, seal \in {active[n].file.seal, Quote(active[n].file), None},
         text \in 0..MaxText :
        [folder |-> "implemented", file |-> [text |-> text, status |-> s, seal |-> seal]]
            \in Active
  BY <1>1, NotesAssumption DEF Active, Files, Quote
<1>3. PICK a \in Active \cup {None} : active' = [active EXCEPT ![n] = a]
  BY <1>2 DEF EditNote
<1>4. active' \in [Notes -> Active \cup {None}]
  BY <1>3, OneNote
<1> QED BY <1>4 DEF EditNote, ByHand, Kinds, TInv, NotesTypeOK, RunsCarry

LEMMA TamperTyped == ASSUME TInv, NEW n \in Notes, Tamper(n) PROVE TInv'
<1>1. frozen[n] \in Files
  BY DEF Tamper, TInv, NotesTypeOK, Archive
<1>2. [frozen[n] EXCEPT !.text = 0] \in Files
  BY <1>1, NotesAssumption DEF Files
<1>3. PICK file \in {[frozen[n] EXCEPT !.text = 0], None} :
        /\ frozen' = [frozen EXCEPT ![n] = file]
        /\ \E seal \in {file, manifest[n], None} :
            manifest' = IF torn THEN manifest ELSE [manifest EXCEPT ![n] = seal]
  BY DEF Tamper
<1>4. file \in Files \cup {None}
  BY <1>2
<1>5. frozen' \in Archive /\ manifest' \in Archive
  BY <1>3, <1>4 DEF TInv, NotesTypeOK, Archive
<1> QED BY <1>5 DEF Tamper, TInv, NotesTypeOK, RunsCarry

LEMMA CheckNoteTyped ==
    ASSUME TInv, NEW t \in Tools, NEW n \in Notes, CheckNote(t, n) PROVE TInv'
<1>1. active[n].file \in Files
  BY DEF CheckNote, TInv, NotesTypeOK, Active
<1>2. PICK date \in Dates :
        tool' = [tool EXCEPT ![t] = [pc |-> "checked", note |-> n,
                     file |-> Stamped(active[n].file, date),
                     seals |-> [manifest EXCEPT ![n] = None]]]
  BY DEF CheckNote
<1>3. Stamped(active[n].file, date) \in Files
  BY <1>1, StampedFile
<1>4. [manifest EXCEPT ![n] = None] \in Archive
  BY DEF TInv, NotesTypeOK, Archive
<1>5. tool' \in [Tools -> Runs] /\ RunsCarry'
  <2> DEFINE r == [pc |-> "checked", note |-> n, file |-> Stamped(active[n].file, date),
                   seals |-> [manifest EXCEPT ![n] = None]]
  <2>1. r \in Runs /\ r.note \in Notes /\ r.file \in Files
    BY <1>3, <1>4 DEF Runs
  <2>2. tool' = [tool EXCEPT ![t] = r]
    BY <1>2
  <2> HIDE DEF r
  <2> QED BY <2>1, <2>2, OneRun
<1> QED BY <1>5 DEF CheckNote, TInv, NotesTypeOK

LEMMA StampNoteTyped == ASSUME TInv, NEW t \in Tools, StampNote(t) PROVE TInv'
<1>1. tool[t] \in Runs /\ tool[t].note \in Notes /\ tool[t].file \in Files
  BY DEF StampNote, At, TInv, NotesTypeOK, RunsCarry
<1>2. [folder |-> "implemented", file |-> tool[t].file] \in Active
  BY <1>1, NotesAssumption DEF Active
<1>3. active' \in [Notes -> Active \cup {None}]
  BY <1>1, <1>2, OneNote DEF StampNote
<1>4. tool' \in [Tools -> Runs] /\ RunsCarry'
  <2> DEFINE r == [tool[t] EXCEPT !.pc = "stamped"]
  <2>1. r \in Runs /\ r.note \in Notes /\ r.file \in Files
    BY <1>1 DEF Runs
  <2>2. tool' = [tool EXCEPT ![t] = r]
    BY DEF StampNote
  <2> HIDE DEF r
  <2> QED BY <2>1, <2>2, OneRun
<1> QED BY <1>3, <1>4 DEF StampNote, Kinds, TInv, NotesTypeOK

LEMMA MoveToArchiveTyped == ASSUME TInv, NEW t \in Tools, MoveToArchive(t) PROVE TInv'
<1> DEFINE n == tool[t].note
<1>1. tool[t] \in Runs /\ n \in Notes
  BY DEF MoveToArchive, At, TInv, NotesTypeOK, RunsCarry
<1>2. CASE active[n] # None /\ active[n].folder = "implemented"
  <2>1. active[n].file \in Files
    BY <1>1, <1>2 DEF TInv, NotesTypeOK, Active
  <2>2. /\ frozen' = [frozen EXCEPT ![n] = active[n].file]
        /\ active' = [active EXCEPT ![n] = None]
        /\ tool' = [tool EXCEPT ![t].pc = "moved", ![t].file = None]
    BY <1>2 DEF MoveToArchive
  <2>3. frozen' \in Archive /\ active' \in [Notes -> Active \cup {None}]
    BY <1>1, <2>1, <2>2 DEF TInv, NotesTypeOK, Archive
  <2>4. tool' \in [Tools -> Runs] /\ RunsCarry'
    <3> DEFINE r == [tool[t] EXCEPT !.pc = "moved", !.file = None]
    <3>1. r \in Runs /\ r.note \in Notes /\ r.pc = "moved"
      BY <1>1 DEF Runs
    <3>2. tool' = [tool EXCEPT ![t] = r]
      BY <2>2
    <3> HIDE DEF r
    <3> QED BY <3>1, <3>2, OneRun
  <2> QED BY <2>3, <2>4 DEF MoveToArchive, TInv, NotesTypeOK
<1>3. CASE ~(active[n] # None /\ active[n].folder = "implemented")
  <2>1. tool' = [tool EXCEPT ![t] = Idle] /\ UNCHANGED <<active, frozen>>
    BY <1>3 DEF MoveToArchive
  <2>2. tool' \in [Tools -> Runs] /\ RunsCarry'
    BY <2>1, OneRun, NothingTyped
  <2> QED BY <2>1, <2>2 DEF MoveToArchive, TInv, NotesTypeOK
<1> QED BY <1>2, <1>3

LEMMA ManifestTyped ==
    ASSUME TInv, NEW t \in Tools, SealNote(t) \/ WriteManifest(t) PROVE TInv'
<1>1. tool' \in [Tools -> Runs] /\ RunsCarry'
  <2>1. tool' = [tool EXCEPT ![t] = Idle]
    BY DEF SealNote, WriteManifest
  <2> QED BY <2>1, OneRun, NothingTyped
<1>2. manifest' \in Archive /\ torn' \in BOOLEAN
  <2>1. tool[t].seals \in Archive
    BY DEF TInv, NotesTypeOK, Runs
  <2>2. CASE SealNote(t)
    <3> DEFINE n == tool[t].note
    <3>1. n \in Notes /\ frozen[n] \in Files \cup {None}
      BY <2>2 DEF SealNote, At, TInv, NotesTypeOK, RunsCarry, Archive
    <3>2. [tool[t].seals EXCEPT ![n] = frozen[n]] \in Archive
      BY <2>1, <3>1 DEF Archive
    <3> QED BY <2>2, <3>2 DEF SealNote, TInv, NotesTypeOK
  <2>3. CASE WriteManifest(t)
    BY <2>1, <2>3 DEF WriteManifest
  <2> QED BY <2>2, <2>3
<1> QED BY <1>1, <1>2 DEF SealNote, WriteManifest, TInv, NotesTypeOK

LEMMA SealArchiveTyped == ASSUME TInv, NEW t \in Tools, SealArchive(t) PROVE TInv'
<1> DEFINE r == [pc |-> "sealing", note |-> None, file |-> None, seals |-> frozen]
<1>1. r \in Runs /\ r.pc = "sealing"
  BY DEF TInv, NotesTypeOK, Runs
<1>2. tool' = [tool EXCEPT ![t] = r]
  BY DEF SealArchive
<1>3. tool' \in [Tools -> Runs] /\ RunsCarry'
  <2> HIDE DEF r
  <2> QED BY <1>1, <1>2, OneRun
<1> QED BY <1>3 DEF SealArchive, TInv, NotesTypeOK

\* A killed run leaves the tree as it is, or the note it was writing cut short.
LEMMA CrashWrites ==
    ASSUME TInv, NEW t \in Tools, Crash(t)
    PROVE  \/ UNCHANGED <<active, spoilt>>
           \/ /\ tool[t].note \in Notes
              /\ \E file \in Files : active' =
                    [active EXCEPT ![tool[t].note] = [folder |-> "implemented", file |-> file]]
              /\ spoilt' = spoilt \cup {tool[t].note}
<1>1. At(t, "checked") => tool[t].note \in Notes /\ Cuts(tool[t].file) \subseteq Files
  BY CutFiles DEF At, TInv, RunsCarry
<1> QED BY <1>1 DEF Crash

LEMMA CrashTyped == ASSUME TInv, NEW t \in Tools, Crash(t) PROVE TInv'
<1>1. tool' \in [Tools -> Runs] /\ RunsCarry'
  <2>1. tool' = [tool EXCEPT ![t] = Idle]
    BY DEF Crash
  <2> QED BY <2>1, OneRun, NothingTyped
<1>2. active' \in [Notes -> Active \cup {None}] /\ spoilt' \subseteq Notes
  <2>1. \A file \in Files : [folder |-> "implemented", file |-> file] \in Active
    BY NotesAssumption DEF Active
  <2>2. CASE UNCHANGED <<active, spoilt>>
    BY <2>2 DEF TInv, NotesTypeOK
  <2>3. CASE /\ tool[t].note \in Notes
             /\ \E file \in Files : active' =
                    [active EXCEPT ![tool[t].note] = [folder |-> "implemented", file |-> file]]
             /\ spoilt' = spoilt \cup {tool[t].note}
    <3>1. PICK a \in Active : active' = [active EXCEPT ![tool[t].note] = a]
      BY <2>1, <2>3
    <3>2. active' \in [Notes -> Active \cup {None}]
      BY <2>3, <3>1, OneNote
    <3> QED BY <2>3, <3>2 DEF TInv, NotesTypeOK
  <2> QED BY <2>2, <2>3, CrashWrites
<1>3. manifest' \in Archive /\ torn' \in BOOLEAN /\ diff' \subseteq Kinds
  BY NothingTyped DEF Crash, Kinds, TInv, NotesTypeOK
<1> QED BY <1>1, <1>2, <1>3 DEF Crash, TInv, NotesTypeOK

\* Every step keeps the types and what the runs carry.
LEMMA TypeStep == TInv /\ [Next]_vars => TInv'
<1> SUFFICES ASSUME TInv, [Next]_vars PROVE TInv'
  OBVIOUS
<1>1. ASSUME NEW n \in Cited, CiteNote(n) PROVE TInv'
  <2>1. n \in Notes /\ (active[n] # None => active[n].folder \in Lifecycles)
    BY NotesAssumption DEF TInv, NotesTypeOK, Active
  <2>2. cites' \in [Cited -> Lifecycles \cup {"archived", "none"}]
    BY <1>1, <2>1 DEF CiteNote, TInv, NotesTypeOK
  <2> QED BY <1>1, <2>2 DEF CiteNote, ChangedWith, Kinds, TInv, NotesTypeOK, RunsCarry
<1>2. ASSUME NEW kind \in Kinds, ChangeFile(kind) PROVE TInv'
  BY <1>2 DEF ChangeFile, ChangedWith, TInv, NotesTypeOK, RunsCarry
<1>3. CASE RestoreArchive
  BY <1>3 DEF RestoreArchive, Archive, TInv, NotesTypeOK, RunsCarry
<1>4. CASE Merge
  BY <1>4 DEF Merge, TInv, NotesTypeOK, RunsCarry
<1>5. CASE UNCHANGED vars
  BY <1>5 DEF vars, TInv, NotesTypeOK, RunsCarry
<1> QED
  BY <1>1, <1>2, <1>3, <1>4, <1>5, NewNoteTyped, MoveNoteTyped, EditNoteTyped, TamperTyped,
     CheckNoteTyped, StampNoteTyped, MoveToArchiveTyped, ManifestTyped, SealArchiveTyped,
     CrashTyped DEF Next

\* The types hold, for every value of the constants: no crash, concurrent run
\* or hand edit leaves a file or a manifest outside what the scripts read.
THEOREM TypeCorrect == Spec => []NotesTypeOK
<1>1. TInv => NotesTypeOK
  BY DEF TInv
<1> QED
  BY <1>1, InitTyped, TypeStep, PTL DEF Spec

-----------------------------------------------------------------------------
(* The texts. *)

\* What the gate lets through carries its seal line and matches the manifest,
\* whether or not there was a baseline to compare with.
LEMMA GatePasses ==
    ASSUME NEW baseline, VerifyAll(baseline), NEW n \in Notes
    PROVE  /\ frozen[n] # None => frozen[n].seal \in Dates
           /\ manifest[n] # None => frozen[n] # None
  BY DEF VerifyAll, ArchiveIntact, SealSeen

LEMMA MergedStep == MergedSealed /\ [Next]_vars => MergedSealed'
<1> SUFFICES ASSUME MergedSealed, [Next]_vars PROVE MergedSealed'
  OBVIOUS
<1>1. CASE Merge
  <2>1. PICK baseline : VerifyAll(baseline)
    BY <1>1 DEF Merge
  <2> QED BY <1>1, <2>1, GatePasses, NotesAssumption DEF Merge, MergedSealed
<1>2. CASE main' = main
  BY <1>2 DEF MergedSealed
<1> QED
  BY <1>1, <1>2 DEF Next, vars, NewNote, MoveNote, EditNote, Tamper, CiteNote, ChangeFile,
     RestoreArchive, CheckNote, StampNote, MoveToArchive, SealNote, WriteManifest,
     SealArchive, Crash

\* A note is changed by hand: no run holds it, or it is spoilt.
LEMMA ByHandAlike ==
    ASSUME TInv, Alike, NEW n \in Notes, NEW a, active' = [active EXCEPT ![n] = a],
           ByHand(n), UNCHANGED <<frozen, main, tool>>
    PROVE  Alike'
<1>1. \A t \in Tools : tool[t].pc \in {"checked", "stamped"} /\ tool[t].note \notin spoilt'
                          => tool[t].note # n
  BY DEF ByHand, Held
<1>2. spoilt \subseteq spoilt' /\ active \in [Notes -> Active \cup {None}]
  BY DEF ByHand, TInv, NotesTypeOK
<1>3. \A t \in Tools : tool[t].pc \in {"checked", "stamped"} => tool[t].note \in Notes
  BY DEF TInv, RunsCarry
<1>4. HeldAlike'
  BY <1>1, <1>2, <1>3 DEF Alike, HeldAlike
<1>5. TextsKept'
  BY <1>1, <1>2 DEF Alike, TextsKept
<1> QED BY <1>4, <1>5 DEF Alike

\* A spoilt note may hold anything.
LEMMA SpoiltAlike ==
    ASSUME TInv, Alike, NEW n \in Notes, spoilt' = spoilt \cup {n},
           \A m \in Notes \ {n} : active'[m] = active[m] /\ frozen'[m] = frozen[m],
           \A t \in Tools : tool'[t] = tool[t] \/ tool'[t].pc = "idle", main' = main
    PROVE  Alike'
<1>1. \A t \in Tools : tool[t].pc \in {"checked", "stamped"} => tool[t].note \in Notes
  BY DEF TInv, RunsCarry
<1>2. HeldAlike'
  BY <1>1 DEF Alike, HeldAlike
<1>3. TextsKept'
  BY DEF Alike, TextsKept
<1> QED BY <1>2, <1>3 DEF Alike

\* A run that ends changes neither the tree nor the archive.
LEMMA EndAlike ==
    ASSUME Alike, UNCHANGED <<active, frozen, main, spoilt>>,
           \A t \in Tools : tool'[t] = tool[t] \/ tool'[t].pc \in {"idle", "sealing"}
    PROVE  Alike'
<1>1. HeldAlike'
  BY DEF Alike, HeldAlike
<1>2. TextsKept'
  BY DEF Alike, TextsKept
<1> QED BY <1>1, <1>2 DEF Alike

LEMMA CheckNoteAlike ==
    ASSUME TInv, Alike, NEW t \in Tools, NEW n \in Notes, CheckNote(t, n) PROVE Alike'
<1>1. /\ active[n] # None /\ active[n].folder = "implemented" /\ active[n].file \in Files
      /\ frozen[n] = None /\ UNCHANGED <<active, frozen, main, spoilt>>
  BY DEF CheckNote, Collides, TInv, NotesTypeOK, Active
<1>2. /\ tool'[t].pc = "checked" /\ tool'[t].note = n
      /\ tool'[t].file.text = active[n].file.text /\ tool'[t].file.seal # None
      /\ \A u \in Tools \ {t} : tool'[u] = tool[u]
  <2>1. PICK date \in Dates :
          tool' = [tool EXCEPT ![t] = [pc |-> "checked", note |-> n,
                       file |-> Stamped(active[n].file, date),
                       seals |-> [manifest EXCEPT ![n] = None]]]
    BY DEF CheckNote
  <2>2. tool'[t].file = Stamped(active[n].file, date)
    BY <2>1 DEF TInv, NotesTypeOK
  <2> QED BY <1>1, <2>1, <2>2, StampedFile DEF TInv, NotesTypeOK
<1>3. HeldAlike'
  <2>1. ASSUME NEW u \in Tools \ {t} PROVE HeldAlike!(u)'
    BY <1>1, <1>2, <2>1 DEF Alike, HeldAlike
  <2>2. HeldAlike!(t)'
    BY <1>1, <1>2
  <2> QED BY <2>1, <2>2 DEF HeldAlike
<1>4. TextsKept'
  BY <1>1, <1>2 DEF Alike, TextsKept
<1> QED BY <1>3, <1>4 DEF Alike

\* Two runs on a note have read one text of it.
LEMMA OneText ==
    ASSUME TInv, Alike, NEW t \in Tools, NEW u \in Tools,
           tool[t].pc \in {"checked", "stamped"}, tool[u].pc \in {"checked", "stamped"},
           tool[t].note = tool[u].note, tool[t].note \notin spoilt
    PROVE  tool[t].file.text = tool[u].file.text
<1>1. tool[t].note \in Notes \ spoilt
  BY DEF TInv, RunsCarry
<1>2. active[tool[t].note] # None \/ frozen[tool[t].note] # None
  BY <1>1 DEF Alike, TextsKept
<1> QED BY <1>1, <1>2 DEF Alike, HeldAlike

LEMMA StampNoteAlike == ASSUME TInv, Alike, NEW t \in Tools, StampNote(t) PROVE Alike'
<1> DEFINE n == tool[t].note
<1>1. /\ n \in Notes /\ tool[t].file \in Files /\ tool[t] \in Runs /\ tool[t].pc = "checked"
      /\ UNCHANGED <<frozen, main, spoilt>>
  BY DEF StampNote, At, TInv, NotesTypeOK, RunsCarry
<1>2. /\ tool'[t].pc = "stamped" /\ tool'[t].note = n /\ tool'[t].file = tool[t].file
      /\ \A u \in Tools \ {t} : tool'[u] = tool[u]
  BY <1>1 DEF StampNote, TInv, NotesTypeOK, Runs
<1>3. /\ active'[n] = [folder |-> "implemented", file |-> tool[t].file]
      /\ \A m \in Notes \ {n} : active'[m] = active[m]
  BY <1>1 DEF StampNote, TInv, NotesTypeOK
<1>4. /\ active'[n] # None /\ active'[n].folder = "implemented"
      /\ active'[n].file = tool[t].file
  <2>1. active'[n] \in Active
    BY <1>1, <1>3, NotesAssumption DEF Active
  <2> QED BY <1>3, <2>1, NotesAssumption
<1>5. ASSUME NEW u \in Tools, tool'[u].pc \in {"checked", "stamped"}, tool'[u].note \notin spoilt
      PROVE  /\ tool'[u].note \in Notes /\ tool[u].pc \in {"checked", "stamped"}
             /\ tool[u].note = tool'[u].note /\ tool[u].file = tool'[u].file
             /\ tool[u].note = n => tool[u].file.text = tool[t].file.text
             /\ tool[u].file.seal # None
  <2>1. /\ tool[u].pc \in {"checked", "stamped"}
        /\ tool[u].note = tool'[u].note /\ tool[u].file = tool'[u].file
    BY <1>1, <1>2, <1>5
  <2> QED BY <1>1, <1>5, <2>1, OneText DEF TInv, RunsCarry, Alike, HeldAlike
<1>6. HeldAlike'
  <2> SUFFICES ASSUME NEW u \in Tools, tool'[u].pc \in {"checked", "stamped"},
                      tool'[u].note \notin spoilt
               PROVE  HeldAlike!(u)'
    BY <1>1 DEF HeldAlike
  <2>1. CASE tool'[u].note = n
    BY <1>1, <1>4, <1>5, <2>1 DEF Alike, HeldAlike
  <2>2. CASE tool'[u].note # n
    BY <1>1, <1>2, <1>3, <1>5, <2>2 DEF Alike, HeldAlike
  <2> QED BY <2>1, <2>2
<1>7. TextsKept'
  BY <1>1, <1>3, <1>4, <1>5 DEF Alike, TextsKept
<1> QED BY <1>6, <1>7 DEF Alike

LEMMA MoveToArchiveAlike ==
    ASSUME TInv, Alike, NEW t \in Tools, MoveToArchive(t) PROVE Alike'
<1> DEFINE n == tool[t].note
<1>1. /\ n \in Notes /\ tool[t] \in Runs /\ tool[t].pc = "stamped"
      /\ UNCHANGED <<main, spoilt>>
  BY DEF MoveToArchive, At, TInv, NotesTypeOK, RunsCarry
<1>2. CASE active[n] # None /\ active[n].folder = "implemented"
  <2>1. /\ frozen' = [frozen EXCEPT ![n] = active[n].file]
        /\ active' = [active EXCEPT ![n] = None]
        /\ tool' = [tool EXCEPT ![t].pc = "moved", ![t].file = None]
    BY <1>2 DEF MoveToArchive
  <2>2. /\ frozen'[n] = active[n].file /\ frozen'[n] # None /\ active'[n] = None
        /\ \A m \in Notes \ {n} : active'[m] = active[m] /\ frozen'[m] = frozen[m]
    <3>1. active[n].file \in Files
      BY <1>1, <1>2 DEF TInv, NotesTypeOK, Active
    <3> QED BY <1>1, <2>1, <3>1, NotesAssumption DEF TInv, NotesTypeOK, Archive
  <2>3. tool'[t].pc = "moved" /\ \A u \in Tools \ {t} : tool'[u] = tool[u]
    BY <1>1, <2>1 DEF TInv, NotesTypeOK, Runs
  <2>4. n \notin spoilt => /\ active[n].file.text = tool[t].file.text
                           /\ active[n].file.seal # None
                           /\ frozen[n] # None => frozen[n].text = tool[t].file.text
    BY <1>1, <1>2 DEF Alike, HeldAlike
  <2>5. ASSUME NEW u \in Tools, tool'[u].pc \in {"checked", "stamped"},
               tool'[u].note = n, n \notin spoilt
        PROVE  tool'[u].file.text = active[n].file.text
    BY <1>1, <1>2, <2>3, <2>5 DEF Alike, HeldAlike
  <2>6. HeldAlike'
    <3> SUFFICES ASSUME NEW u \in Tools, tool'[u].pc \in {"checked", "stamped"},
                        tool'[u].note \notin spoilt
                 PROVE  HeldAlike!(u)'
      BY <1>1 DEF HeldAlike
    <3>1. u # t /\ tool'[u] = tool[u] /\ tool[u].note \in Notes
      BY <2>3 DEF TInv, RunsCarry
    <3>2. CASE tool[u].note = n
      BY <1>1, <2>2, <2>5, <3>1, <3>2 DEF Alike, HeldAlike
    <3>3. CASE tool[u].note # n
      BY <1>1, <2>2, <3>1, <3>3 DEF Alike, HeldAlike
    <3> QED BY <3>2, <3>3
  <2>7. TextsKept'
    <3> SUFFICES ASSUME NEW m \in Notes \ spoilt PROVE TextsKept!(m)'
      BY <1>1 DEF TextsKept
    <3>1. CASE m = n
      BY <1>1, <2>2, <2>4, <2>5, <3>1 DEF Alike, TextsKept
    <3>2. CASE m # n
      BY <1>1, <2>2, <2>3, <3>2 DEF Alike, TextsKept
    <3> QED BY <3>1, <3>2
  <2> QED BY <2>6, <2>7 DEF Alike
<1>3. CASE ~(active[n] # None /\ active[n].folder = "implemented")
  BY <1>1, <1>3, EndAlike, NothingTyped DEF MoveToArchive, TInv, NotesTypeOK
<1> QED BY <1>2, <1>3

LEMMA MergeAlike == ASSUME TInv, Alike, Merge PROVE Alike'
<1>1. /\ UNCHANGED <<active, frozen, tool>> /\ main'.frozen = frozen /\ main'.seals = manifest
      /\ spoilt' = spoilt \/ \A t \in Tools : tool[t].pc = "idle"
  BY DEF Merge, At
<1>2. PICK baseline : VerifyAll(baseline)
  BY DEF Merge
<1>3. \A n \in Notes : /\ frozen[n] # None => frozen[n].seal # None
                       /\ manifest[n] # None => frozen[n] # None
  BY <1>2, GatePasses, NotesAssumption
<1>4. HeldAlike'
  BY <1>1 DEF Alike, HeldAlike
<1>5. TextsKept'
  BY <1>1, <1>3 DEF Alike, TextsKept
<1> QED BY <1>4, <1>5 DEF Alike

\* Every step keeps the texts of the notes that are not spoilt.
LEMMA AlikeStep == TInv /\ MergedSealed /\ Alike /\ [Next]_vars => Alike'
<1> SUFFICES ASSUME TInv, MergedSealed, Alike, [Next]_vars PROVE Alike'
  OBVIOUS
<1>1. ASSUME NEW n \in Notes, NEW l \in Lifecycles, NewNote(n, l) \/ MoveNote(n, l)
      PROVE  Alike'
  BY <1>1, ByHandAlike DEF NewNote, MoveNote
<1>2. ASSUME NEW n \in Notes, EditNote(n) PROVE Alike'
  <2>1. PICK a : active' = [active EXCEPT ![n] = a]
    BY <1>2 DEF EditNote
  <2> QED BY <1>2, <2>1, ByHandAlike DEF EditNote
<1>3. ASSUME NEW n \in Notes, Tamper(n) PROVE Alike'
  <2>1. PICK file : frozen' = [frozen EXCEPT ![n] = file]
    BY <1>3 DEF Tamper
  <2>2. \A m \in Notes \ {n} : active'[m] = active[m] /\ frozen'[m] = frozen[m]
    BY <1>3, <2>1 DEF Tamper, TInv, NotesTypeOK, Archive
  <2> QED BY <1>3, <2>2, SpoiltAlike DEF Tamper
<1>4. CASE RestoreArchive
  <2>1. \A n \in Notes \ spoilt :
          /\ frozen'[n] # None <=> frozen[n] # None
          /\ frozen[n] # None => frozen'[n].text = frozen[n].text /\ frozen'[n].seal # None
          /\ main.seals[n] # None => frozen'[n] = main.frozen[n]
    BY <1>4 DEF RestoreArchive, MergedSealed, Alike, TextsKept
  <2>2. UNCHANGED <<active, main, tool, spoilt>>
    BY <1>4 DEF RestoreArchive
  <2>3. \A t \in Tools : tool[t].pc \in {"checked", "stamped"} => tool[t].note \in Notes
    BY DEF TInv, RunsCarry
  <2>4. HeldAlike'
    BY <2>1, <2>2, <2>3 DEF Alike, HeldAlike
  <2>5. TextsKept'
    BY <2>1, <2>2 DEF Alike, TextsKept
  <2> QED BY <2>4, <2>5 DEF Alike
<1>5. ASSUME NEW t \in Tools, SealNote(t) \/ WriteManifest(t) \/ SealArchive(t) PROVE Alike'
  <2>1. \A u \in Tools : tool'[u] = tool[u] \/ tool'[u].pc \in {"idle", "sealing"}
    <3>1. CASE SealNote(t) \/ WriteManifest(t)
      BY <3>1, NothingTyped DEF SealNote, WriteManifest, TInv, NotesTypeOK
    <3>2. CASE SealArchive(t)
      BY <3>2 DEF SealArchive, TInv, NotesTypeOK
    <3> QED BY <1>5, <3>1, <3>2
  <2> QED BY <1>5, <2>1, EndAlike DEF SealNote, WriteManifest, SealArchive
<1>6. ASSUME NEW t \in Tools, Crash(t) PROVE Alike'
  <2>1. \A u \in Tools : tool'[u] = tool[u] \/ tool'[u].pc = "idle"
    BY <1>6, NothingTyped DEF Crash, TInv, NotesTypeOK
  <2>2. UNCHANGED <<frozen, main>>
    BY <1>6 DEF Crash
  <2>3. CASE UNCHANGED <<active, spoilt>>
    BY <2>1, <2>2, <2>3, EndAlike
  <2>4. CASE /\ tool[t].note \in Notes
             /\ \E file \in Files : active' =
                    [active EXCEPT ![tool[t].note] = [folder |-> "implemented", file |-> file]]
             /\ spoilt' = spoilt \cup {tool[t].note}
    <3>1. \A m \in Notes \ {tool[t].note} : active'[m] = active[m]
      BY <2>4 DEF TInv, NotesTypeOK
    <3> QED BY <2>1, <2>2, <2>4, <3>1, SpoiltAlike
  <2> QED BY <1>6, <2>3, <2>4, CrashWrites
<1>7. CASE UNCHANGED <<active, frozen, main, tool, spoilt>>
  BY <1>7, EndAlike
<1> QED
  BY <1>1, <1>2, <1>3, <1>4, <1>5, <1>6, <1>7, CheckNoteAlike, StampNoteAlike,
     MoveToArchiveAlike, MergeAlike DEF Next, vars, CiteNote, ChangeFile

\* Overlapping, dying and repairing runs keep the text of every note that nobody
\* changed under them and none cut short, for any number of runs, whether or not
\* the gate found a baseline.
THEOREM RunsKeepTexts == Spec => []TextsKept
<1>1. Init => IInv
  <2>1. Init => MergedSealed /\ Alike
    BY NothingTyped DEF Init, MergedSealed, Alike, HeldAlike, TextsKept, NoSeals
  <2> QED BY <2>1, InitTyped DEF IInv
<1>2. IInv /\ [Next]_vars => IInv'
  BY TypeStep, MergedStep, AlikeStep DEF IInv
<1>3. IInv => TextsKept
  BY DEF IInv, Alike
<1> QED
  BY <1>1, <1>2, <1>3, PTL DEF Spec
=============================================================================
