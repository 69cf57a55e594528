------------------------- MODULE ConfigPublication -------------------------
(***************************************************************************)
(* What the publication of a data-plane configuration promises about the   *)
(* one file a restarted data plane loads, runtime/active.yaml.  Between    *)
(* publications the file does not change.  A publication stages one        *)
(* validated configuration; it ends by confirming it, by putting the       *)
(* former content back, or by giving up, and only after giving up is it    *)
(* unknown which configuration the manager vouches for.                    *)
(*                                                                         *)
(* Dataplane.tla is shown to implement this module.                        *)
(***************************************************************************)
CONSTANTS Configs,      \* the configurations the compiler can produce
          Valid,        \* those the validator (mihomo -t) accepts
          None          \* no file, no configuration

VARIABLES file,         \* content of the active file
          base,         \* the file's content when the open publication began
          staged,       \* the configuration being published, or None
          confirmed     \* the configuration vouched for, or None

vars == <<file, base, staged, confirmed>>

TypeOK ==
    /\ file \in Valid \cup {None}
    /\ base \in Valid \cup {None}
    /\ staged \in Valid \cup {None}
    /\ confirmed \in Configs \cup {None}

Init ==
    /\ file \in Valid \cup {None}
    /\ base = file
    /\ staged = None
    /\ confirmed = None

Begin ==
    /\ staged = None
    /\ staged' \in Valid
    /\ base' = file
    /\ UNCHANGED <<file, confirmed>>

Install ==
    /\ staged # None
    /\ file' = staged
    /\ UNCHANGED <<base, staged, confirmed>>

Commit ==
    /\ staged # None
    /\ file = staged
    /\ staged' = None
    /\ base' = file
    /\ confirmed' = file
    /\ UNCHANGED file

Restore ==
    /\ staged # None
    /\ file' = base
    /\ UNCHANGED <<base, staged, confirmed>>

\* The former content is in place again and still vouched for.
Abort ==
    /\ staged # None
    /\ staged' = None
    /\ file' = base
    /\ UNCHANGED <<base, confirmed>>

\* Neither the new configuration nor the former one could be confirmed.
GiveUp ==
    /\ staged # None
    /\ staged' = None
    /\ file' \in {file, base, staged}
    /\ base' = file'
    /\ confirmed' = None

\* The manager stops vouching for anything outside a publication: it stopped
\* the data plane, or it was restarted and lost its memory.
Forget ==
    /\ staged = None
    /\ confirmed' = None
    /\ UNCHANGED <<file, base, staged>>

Next == Begin \/ Install \/ Commit \/ Restore \/ Abort \/ GiveUp \/ Forget

Spec == Init /\ [][Next]_vars

\* Outside a publication the file is the configuration the manager vouches
\* for: what a restarted data plane loads is what was confirmed.
FileIsConfirmed ==
    staged = None /\ confirmed # None => file = confirmed
=============================================================================
