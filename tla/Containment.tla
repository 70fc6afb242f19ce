---------------------------- MODULE Containment -----------------------------
(***************************************************************************)
(* What the scanner promises about containment, whatever it does in        *)
(* detail: a directory is contained (chmod 000) only by an activation that *)
(* may quarantine and on evidence of that activation; containments come    *)
(* one at a time, each reported to the journal before the next; a report   *)
(* is lost only with the process that owes it, and a lost one can be made  *)
(* up for by a later activation that meets the directory again.            *)
(***************************************************************************)
CONSTANTS
  Dirs,       \* directories that may be contained
  Nobody      \* no directory

VARIABLES
  phase,      \* "off", "watching" (may not quarantine) or "armed"
  suspects,   \* directories with evidence against them in this activation
  contained,  \* directories at 000
  pending,    \* the directory contained and not yet reported, or Nobody
  lost        \* directories whose report died with its process

vars == <<phase, suspects, contained, pending, lost>>

Init ==
  /\ phase = "off"
  /\ suspects = {} /\ contained = {} /\ pending = Nobody /\ lost = {}

Wake(p) ==
  /\ phase = "off" /\ phase' = p
  /\ UNCHANGED <<suspects, contained, pending, lost>>

\* Evidence only grows within an activation.
Suspect ==
  /\ phase # "off"
  /\ suspects \subseteq suspects' /\ suspects' \subseteq Dirs
  /\ UNCHANGED <<phase, contained, pending, lost>>

Contain(d) ==
  /\ phase = "armed" /\ pending = Nobody
  /\ d \in suspects \ contained
  /\ contained' = contained \cup {d}
  /\ pending' = d
  /\ lost' = lost \ {d}
  /\ UNCHANGED <<phase, suspects>>

Report ==
  /\ pending # Nobody /\ pending' = Nobody
  /\ UNCHANGED <<phase, suspects, contained, lost>>

\* A directory that is met again is reported once more.
Recall(d) ==
  /\ phase # "off" /\ pending = Nobody
  /\ d \in suspects \cap lost
  /\ lost' = lost \ {d}
  /\ UNCHANGED <<phase, suspects, contained, pending>>

\* The process ends or is killed; a report it still owes is lost.
Stop ==
  /\ phase # "off" /\ phase' = "off"
  /\ suspects' = {} /\ pending' = Nobody
  /\ lost' = lost \cup ({pending} \ {Nobody})
  /\ UNCHANGED contained

\* The operator's rollback, or the directory is removed.
Release(d) ==
  /\ d \in contained /\ contained' = contained \ {d}
  /\ UNCHANGED <<phase, suspects, pending, lost>>

Next ==
  \/ \E p \in {"watching", "armed"} : Wake(p)
  \/ Suspect \/ Report \/ Stop
  \/ \E d \in Dirs : Contain(d) \/ Recall(d) \/ Release(d)

Spec == Init /\ [][Next]_vars
=============================================================================
