------------------------------ MODULE Severity ------------------------------
(***************************************************************************)
(* The per-tick counters and the severity tier the tick summary is posted  *)
(* with: RunSummary of runtime.rs and Severity of output.rs.               *)
(***************************************************************************)
EXTENDS Naturals

CONSTANT HostRoots      \* paths.scan_roots

RunSummary ==
  [ candidates  : Nat,
    allowlisted : Nat,
    iocMatches  : Nat,
    unknown     : Nat,
    quarantined : Nat,
    skipped     : Nat,
    unreadable  : SUBSET HostRoots ]

\* RunSummary { candidates: n, ..Default::default() }
FreshSummary(n) ==
  [ candidates |-> n, allowlisted |-> 0, iocMatches |-> 0, unknown |-> 0,
    quarantined |-> 0, skipped |-> 0, unreadable |-> {} ]

Tiers == {"Info", "Warn", "Error"}

\* Mutant: skipped candidates do not count as a warning.
FromRunSummaryNoSkips(s) ==
  CASE s.iocMatches > 0 /\ s.quarantined < s.iocMatches -> "Error"
    [] ~(s.iocMatches > 0 /\ s.quarantined < s.iocMatches)
       /\ (s.unreadable # {} \/ s.candidates = 0) -> "Warn"
    [] OTHER -> "Info"

\* Mutant: the warnings are looked at before the errors.
FromRunSummaryWarnFirst(s) ==
  CASE s.unreadable # {} \/ s.skipped > 0 \/ s.candidates = 0 -> "Warn"
    [] s.unreadable = {} /\ s.skipped = 0 /\ s.candidates > 0
       /\ s.iocMatches > 0 /\ s.quarantined < s.iocMatches -> "Error"
    [] OTHER -> "Info"

\* Severity::from_run_summary with tick_err = false. run_once has no early
\* return of an error, so the tick_err = true call of Runtime::run is never
\* reached and has no counterpart here.
FromRunSummary(s) ==
  CASE s.iocMatches > 0 /\ s.quarantined < s.iocMatches -> "Error"
    [] ~(s.iocMatches > 0 /\ s.quarantined < s.iocMatches)
       /\ (s.unreadable # {} \/ s.skipped > 0 \/ s.candidates = 0) -> "Warn"
    [] OTHER -> "Info"
=============================================================================
