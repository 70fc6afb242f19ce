--------------------------- MODULE Runtime_proofs ---------------------------
(***************************************************************************)
(* Proofs of the safety properties of Runtime, for every host, every list  *)
(* of hashes and names, and every number of moves and crashes.             *)
(***************************************************************************)
EXTENDS Runtime, FiniteSetTheorems, TLAPS

USE RuntimeAssumption, SubsystemAssumption

-----------------------------------------------------------------------------
(* Types *)

\* What the scanner reads off a directory is a candidate.
LEMMA CandidateTypes ==
  ASSUME NEW d \in Dirs, NEW s \in DirState, NEW p \in Paths
  PROVE  /\ CollectEntries(d, s) \in Candidate
         /\ HostCandidates(d, s, p) \subseteq Candidate
         /\ OverlayCandidates(d, s, p) \subseteq Candidate
<1>1. NoCandidate \in Candidate /\ IoError \in Candidate
  BY DEF NoCandidate, IoError, Candidate
<1>2. FilesIn(s) \subseteq Files
  BY DEF FilesIn
<1>3. CollectEntries(d, s) \in Candidate
  BY <1>1, <1>2 DEF CollectEntries, Candidate
<1>4. HostCandidates(d, s, p) \subseteq Candidate
  BY <1>1, <1>3 DEF HostCandidates
<1>5. OverlayCandidates(d, s, p) \subseteq Candidate
  BY <1>1, <1>2 DEF OverlayCandidates, Candidate
<1> QED BY <1>3, <1>4, <1>5

\* Only hashes of the matcher are reported, and the verdicts are well formed.
LEMMA VerdictTypes ==
  ASSUME TypeOK, NEW x \in Items
  PROVE  Verdicts(x) \subseteq Verdict
<1>1. \A t \in {"pending", "Skipped", "Allowlisted", "Unknown"} : Plain(t) \in Verdict
  BY DEF Plain, Verdict
<1>2. \A h \in Hashes : IocMatch(h) \in Verdict
  BY DEF IocMatch, Verdict
<1>3. CASE x \in HostRoots
  BY <1>1, <1>3 DEF Verdicts
<1>4. CASE x \notin HostRoots
  <2>1. Hits(DirOf[x], dir[DirOf[x]], cand[x], matcher) \subseteq Hashes
    BY DEF Hits, TypeOK, ProcessTypeOK
  <2> QED BY <1>1, <1>2, <1>4, <2>1 DEF Verdicts, Classify
<1> QED BY <1>3, <1>4

LEMMA ProposalTypes ==
  ASSUME TypeOK, NEW x \in Paths
  PROVE  ProposalKeys(x) \subseteq Names \X (Hashes \cup {NoFile})
<1>1. dir[DirOf[x]] \in DirState /\ NameOf[x] \in Names
  BY DEF TypeOK, HostTypeOK
<1>2. cand[x].entries \subseteq Files
  BY DEF TypeOK, ProcessTypeOK, Candidate, Items
<1> QED BY <1>1, <1>2 DEF ProposalKeys, Hashable, DirState

LEMMA FoundFinite ==
  /\ IsFiniteSet(Found) /\ Cardinality(Found) \in Nat
  /\ Found \subseteq Items
<1>1. Found \subseteq Items
  BY DEF Found
<1> QED BY <1>1, FS_Subset, FS_CardinalityType

LEMMA FreshTypes ==
  /\ NoCandidates \in [Items -> Candidate]
  /\ NoVerdicts \in [Items -> Verdict]
  /\ NoResults \in [Items -> Outcomes \cup {"none"}]
  /\ NothingHeld \in [Dirs -> SUBSET Hashes]
  /\ \A n \in Nat : FreshSummary(n) \in RunSummary
  /\ Absent \in DirState
BY DEF NoCandidates, NoCandidate, Candidate, NoVerdicts, Plain, Verdict, NoResults,
       NothingHeld, FreshSummary, RunSummary, Absent, DirState, Modes

\* The edits of a directory and of the summary stay within their types.
LEMMA DirStateEdits ==
  ASSUME NEW s \in DirState
  PROVE  /\ \A m \in Modes : [s EXCEPT !.mode = m] \in DirState
         /\ \A b \in BOOLEAN : [s EXCEPT !.recent = b] \in DirState
         /\ \A f \in Files, h \in Hashes \cup {NoFile}, b \in BOOLEAN :
              [s EXCEPT !.file[f] = h, !.recent = b] \in DirState
         /\ \A f \in Files, h \in Hashes \cup {NoFile}, m \in Modes :
              [live |-> TRUE, mode |-> m, recent |-> TRUE,
               file |-> [s.file EXCEPT ![f] = h]] \in DirState
BY DEF DirState

LEMMA SummaryEdits ==
  ASSUME NEW s \in RunSummary, NEW n \in Nat, NEW q \in Nat, NEW U \in SUBSET HostRoots
  PROVE  /\ [s EXCEPT !.skipped = n, !.unreadable = U] \in RunSummary
         /\ [s EXCEPT !.iocMatches = n, !.quarantined = q] \in RunSummary
BY DEF RunSummary

LEMMA SummaryTypes ==
  ASSUME TypeOK
  PROVE  /\ sum \in RunSummary
         /\ sum.candidates \in Nat /\ sum.allowlisted \in Nat /\ sum.unknown \in Nat
         /\ sum.skipped \in Nat /\ sum.iocMatches \in Nat /\ sum.quarantined \in Nat
         /\ sum.unreadable \subseteq HostRoots
BY DEF TypeOK, ProcessTypeOK, RunSummary

LEMMA LeaveTypes ==
  ASSUME TypeOK, Leave, moves' \in 0..MaxMoves, crashes' \in 0..MaxCrashes
  PROVE  ProcessTypeOK' /\ ObserverTypeOK'
BY FreshTypes DEF Leave, Goto, TypeOK, ProcessTypeOK, ObserverTypeOK, Phases

LEMMA BootTypes ==
  ASSUME TypeOK, Boot \/ Activate \/ DryRun
  PROVE  TypeOK'
<1> USE DEF Step, host, disk, bounds, observed, memory
<1>1. CASE Activate \/ DryRun
  <2>1. \A d \in Dirs : ContentsOf(dir[d]) \subseteq Hashes
    BY DEF ContentsOf, FilesIn, TypeOK, HostTypeOK, DirState
  <2>2. HostTypeOK' /\ ProcessTypeOK'
    BY <1>1 DEF Activate, DryRun, Begin, TypeOK, HostTypeOK, ProcessTypeOK, Phases
  <2>3. held' \in [Dirs -> SUBSET Hashes]
    BY <1>1, <2>1 DEF Activate, DryRun, Begin
  <2>4. moves' \in 0..MaxMoves /\ crashes' \in 0..MaxCrashes
    <3>1. CASE Activate
      BY <3>1 DEF Activate, TypeOK, ObserverTypeOK
    <3>2. CASE DryRun
      BY <3>2 DEF DryRun, TypeOK, ObserverTypeOK
    <3> QED BY <1>1, <3>1, <3>2
  <2> QED BY <1>1, <2>2, <2>3, <2>4 DEF Activate, DryRun, Begin, TypeOK, ObserverTypeOK
<1>2. CASE LoadMatcher
  <2>1. matcher' \subseteq Hashes
    BY <1>2 DEF LoadMatcher, TypeOK, HostTypeOK
  <2> QED BY <1>2, <2>1
          DEF LoadMatcher, TypeOK, HostTypeOK, ProcessTypeOK, ObserverTypeOK, Phases
<1>3. CASE LoadAllowlist
  <2>1. allow' \subseteq Names
    BY <1>3 DEF LoadAllowlist, TypeOK, HostTypeOK
  <2> QED BY <1>3, <2>1
          DEF LoadAllowlist, TypeOK, HostTypeOK, ProcessTypeOK, ObserverTypeOK, Phases
<1>4. CASE OpenProposals
  BY <1>4 DEF OpenProposals, TypeOK, HostTypeOK, ProcessTypeOK, ObserverTypeOK, Phases
<1>5. CASE BootFails \/ StopBeforePoll
  BY <1>5, LeaveTypes DEF BootFails, StopBeforePoll, TypeOK, HostTypeOK, ObserverTypeOK
<1>6. CASE BeginPoll
  BY <1>6 DEF BeginPoll, TypeOK, HostTypeOK, ProcessTypeOK, ObserverTypeOK, Phases
<1> QED BY <1>1, <1>2, <1>3, <1>4, <1>5, <1>6 DEF Boot

LEMMA WalkTypes ==
  ASSUME TypeOK, Walk \/ Decide
  PROVE  TypeOK'
<1> USE DEF Step, host, disk, bounds, observed
<1>1. ASSUME NEW r \in Roots, Open(r), cand' \in [Items -> Candidate] PROVE TypeOK'
  <2>1. todo' \subseteq Items /\ roots' \subseteq Roots
    BY <1>1 DEF Open, Below, TypeOK, ProcessTypeOK, Items
  <2> QED BY <1>1, <2>1 DEF Open, TypeOK, HostTypeOK, ProcessTypeOK, ObserverTypeOK
<1>2. ASSUME NEW r \in HostRoots, OpenHostRoot(r) PROVE TypeOK'
  <2>1. cand' \in [Items -> Candidate]
    BY <1>2 DEF OpenHostRoot, TypeOK, ProcessTypeOK, IoError, Candidate, Items
  <2> QED BY <1>1, <1>2, <2>1 DEF OpenHostRoot, Roots
<1>6. ASSUME NEW r \in OverlayRoots, OpenLayer(r) PROVE TypeOK'
  BY <1>1, <1>6 DEF OpenLayer, Roots, TypeOK, ProcessTypeOK
<1>7. ASSUME NEW p \in Paths, NEW C \in SUBSET Candidate, Visit(p, C) PROVE TypeOK'
  <2>1. cand' \in [Items -> Candidate]
    BY <1>7 DEF Visit, TypeOK, ProcessTypeOK, Items
  <2> QED BY <1>7, <2>1 DEF Visit, TypeOK, HostTypeOK, ProcessTypeOK, ObserverTypeOK
<1>8. ASSUME NEW p \in Paths, VisitHost(p) \/ VisitOverlay(p) PROVE TypeOK'
  <2>1. dir[DirOf[p]] \in DirState
    BY DEF TypeOK, HostTypeOK
  <2> QED BY <1>7, <1>8, <2>1, CandidateTypes DEF VisitHost, VisitOverlay
<1>3. CASE WalkDone
  BY <1>3, FoundFinite DEF WalkDone, TypeOK, HostTypeOK, ProcessTypeOK, ObserverTypeOK, Phases
<1>4. ASSUME NEW x \in Items, ClassifyItem(x) PROVE TypeOK'
  <2>1. verdict' \in [Items -> Verdict]
    BY <1>4, VerdictTypes DEF ClassifyItem, TypeOK, ProcessTypeOK
  <2> QED BY <1>4, <2>1
          DEF ClassifyItem, TypeOK, HostTypeOK, ProcessTypeOK, ObserverTypeOK
<1>5. CASE ClassifyDone
  <2>1. sum' \in RunSummary
    BY <1>5, FoundFinite, FreshTypes DEF ClassifyDone
  <2> QED BY <1>5, <2>1, FoundFinite
          DEF ClassifyDone, TypeOK, HostTypeOK, ProcessTypeOK, ObserverTypeOK, Phases
<1> QED BY <1>2, <1>3, <1>4, <1>5, <1>6, <1>8 DEF Walk, Decide

LEMMA ActTypes ==
  ASSUME TypeOK, Act
  PROVE  TypeOK'
<1> USE DEF host, disk, bounds, observed, Take, Goto, Step
<1>1. ASSUME NEW x \in Items, ActSkipped(x) PROVE TypeOK'
  <2>1. sum' \in RunSummary
    <3> DEFINE n == sum.skipped + 1
               U == IF x \in HostRoots THEN sum.unreadable \cup {x} ELSE sum.unreadable
    <3>1. sum' = [sum EXCEPT !.skipped = n, !.unreadable = U]
      BY <1>1 DEF ActSkipped
    <3>2. n \in Nat /\ U \in SUBSET HostRoots
      BY SummaryTypes
    <3> HIDE DEF n, U
    <3> QED BY <3>1, <3>2, SummaryEdits, SummaryTypes
  <2> QED BY <1>1, <2>1 DEF ActSkipped, TypeOK, HostTypeOK, ProcessTypeOK, ObserverTypeOK
<1>2. ASSUME NEW x \in Paths, ActAllowlisted(x) PROVE TypeOK'
  <2>1. sum' \in RunSummary
    BY <1>2 DEF ActAllowlisted, TypeOK, ProcessTypeOK, RunSummary
  <2> QED BY <1>2, <2>1 DEF ActAllowlisted, TypeOK, HostTypeOK, ProcessTypeOK, ObserverTypeOK
<1>3. ASSUME NEW x \in Paths, ActQuarantine(x) PROVE TypeOK'
  <2> DEFINE o == Outcome(DirOf[x], dir[DirOf[x]])
  <2>1. o \in Outcomes
    BY DEF Outcome, Outcomes
  <2>2. sum' \in RunSummary
    <3> DEFINE n == sum.iocMatches + 1
               q == IF o = "Applied" THEN sum.quarantined + 1 ELSE sum.quarantined
    <3>1. sum' = [sum EXCEPT !.iocMatches = n, !.quarantined = q]
      BY <1>3 DEF ActQuarantine
    <3>2. n \in Nat /\ q \in Nat
      BY SummaryTypes
    <3> HIDE DEF n, q
    <3> QED BY <3>1, <3>2, SummaryEdits, SummaryTypes
  <2>3. dir' \in [Dirs -> DirState]
    <3>1. DirOf[x] \in Dirs /\ dir \in [Dirs -> DirState]
      BY DEF TypeOK, HostTypeOK
    <3>2. [dir[DirOf[x]] EXCEPT !.mode = "none"] \in DirState
      BY <3>1 DEF DirState, Modes
    <3>3. dir' = dir \/ dir' = [dir EXCEPT ![DirOf[x]] = [dir[DirOf[x]] EXCEPT !.mode = "none"]]
      BY <1>3 DEF ActQuarantine
    <3> QED BY <3>1, <3>2, <3>3
  <2>4. result' \in [Items -> Outcomes \cup {"none"}]
    BY <1>3, <2>1 DEF ActQuarantine, TypeOK, ObserverTypeOK
  <2>8. owed' \subseteq Dirs /\ late' \in Nat
    BY <1>3 DEF ActQuarantine, TypeOK, ObserverTypeOK
  <2>5. HostTypeOK'
    BY <1>3, <2>3 DEF ActQuarantine, TypeOK, HostTypeOK
  <2>6. ProcessTypeOK'
    BY <1>3, <2>1, <2>2 DEF ActQuarantine, TypeOK, ProcessTypeOK, Phases
  <2>7. ObserverTypeOK'
    BY <1>3, <2>4, <2>8 DEF ActQuarantine, TypeOK, ObserverTypeOK
  <2> QED BY <2>5, <2>6, <2>7 DEF TypeOK
<1>4. ASSUME NEW x \in Paths, ActReport(x) PROVE TypeOK'
  <2>1. sum' \in RunSummary
    BY <1>4 DEF ActReport, TypeOK, ProcessTypeOK, RunSummary
  <2> QED BY <1>4, <2>1 DEF ActReport, TypeOK, HostTypeOK, ProcessTypeOK, ObserverTypeOK
<1>5. ASSUME NEW x \in Paths, ActUnknown(x) PROVE TypeOK'
  <2>1. sum' \in RunSummary
    BY <1>5 DEF ActUnknown, TypeOK, ProcessTypeOK, RunSummary
  <2>2. proposals' \subseteq Names \X (Hashes \cup {NoFile})
    BY <1>5, ProposalTypes DEF ActUnknown, TypeOK, HostTypeOK
  <2> QED BY <1>5, <2>1, <2>2
          DEF ActUnknown, TypeOK, HostTypeOK, ProcessTypeOK, ObserverTypeOK
<1>6. CASE Emit
  BY <1>6 DEF Emit, TypeOK, HostTypeOK, ProcessTypeOK, ObserverTypeOK, Phases
<1>7. CASE MatchPushed
  BY <1>7 DEF MatchPushed, TypeOK, HostTypeOK, ProcessTypeOK, ObserverTypeOK, Phases
<1>8. CASE Cancel \/ SummaryPushed
  BY <1>8, LeaveTypes DEF Cancel, SummaryPushed, TypeOK, HostTypeOK, ObserverTypeOK
<1>9. CASE TickDone
  BY <1>9 DEF TickDone, memory, TypeOK, HostTypeOK, ProcessTypeOK, ObserverTypeOK, Phases
<1> QED BY <1>1, <1>2, <1>3, <1>4, <1>5, <1>6, <1>7, <1>8, <1>9 DEF Act

\* What a move of the host leaves alone, and what it does to the directories:
\* none reaches 000, and all of their contents are seen by the observer.
DirMove ==
  \E d \in Dirs :
    \/ \E mode \in {"shared", "private"} :
         Chmod(d, mode) \/ \E h \in Hashes : DropKit(d, mode, h)
    \/ \E f \in Files, h \in Hashes \cup {NoFile} : WriteFile(d, f, h)
    \/ RemoveDir(d) \/ Age(d)

ListMove ==
  \/ \E r \in Roots : ToggleRoot(r)
  \/ \E S \in (SUBSET Names) \cup {Broken} : EditAllowlist(S)
  \/ \E S \in (SUBSET Hashes) \cup {Broken} : EditIocs(S)
  \/ ToggleDisk

LEMMA MoveTypes ==
  ASSUME TypeOK, Move
  PROVE  /\ ProcessTypeOK'
         /\ held' \in [Dirs -> SUBSET Hashes] => ObserverTypeOK'
         /\ proposals' \subseteq Names \X (Hashes \cup {NoFile})
BY DEF Move, memory, TypeOK, HostTypeOK, ProcessTypeOK, ObserverTypeOK

LEMMA HoldingTypes ==
  ASSUME TypeOK, NEW d \in Dirs, NEW S \in SUBSET Hashes, Holding(d, S)
  PROVE  held' \in [Dirs -> SUBSET Hashes]
BY DEF Holding, TypeOK, ObserverTypeOK

LEMMA WorldTypes ==
  ASSUME TypeOK, DirMove \/ ListMove \/ StopRequested \/ Crash
  PROVE  TypeOK'
<1>1. ASSUME NEW d \in Dirs, NEW mode \in {"shared", "private"}, Chmod(d, mode)
      PROVE  TypeOK'
  <2>1. dir' \in [Dirs -> DirState]
    BY <1>1, DirStateEdits DEF Chmod, TypeOK, HostTypeOK, Modes
  <2> QED BY <1>1, <2>1, MoveTypes DEF Chmod, TypeOK, HostTypeOK, ObserverTypeOK
<1>2. ASSUME NEW d \in Dirs, NEW mode \in {"shared", "private"}, NEW h \in Hashes,
             DropKit(d, mode, h)
      PROVE  TypeOK'
  <2>1. \E f \in Files :
          dir' = [dir EXCEPT ![d] = [live |-> TRUE, mode |-> mode, recent |-> TRUE,
                                     file |-> [Absent.file EXCEPT ![f] = h]]]
    BY <1>2 DEF DropKit
  <2>2. PICK s \in DirState : dir' = [dir EXCEPT ![d] = s]
    BY <2>1, FreshTypes, DirStateEdits DEF Modes
  <2>3. dir' \in [Dirs -> DirState]
    BY <2>2 DEF TypeOK, HostTypeOK
  <2> QED BY <1>2, <2>3, MoveTypes, HoldingTypes DEF DropKit, TypeOK, HostTypeOK
<1>3. ASSUME NEW d \in Dirs, NEW f \in Files, NEW h \in Hashes \cup {NoFile},
             WriteFile(d, f, h)
      PROVE  TypeOK'
  <2>1. dir[d] \in DirState
    BY DEF TypeOK, HostTypeOK
  <2>2. Rewritten(dir[d], f, h) \in DirState
    BY <2>1, DirStateEdits DEF Rewritten, DirState
  <2>3. dir' \in [Dirs -> DirState]
    BY <1>3, <2>2 DEF WriteFile, TypeOK, HostTypeOK
  <2> QED BY <1>3, <2>3, MoveTypes, HoldingTypes DEF WriteFile, TypeOK, HostTypeOK
<1>4. ASSUME NEW d \in Dirs, RemoveDir(d) \/ Age(d) PROVE TypeOK'
  <2>1. dir[d] \in DirState
    BY DEF TypeOK, HostTypeOK
  <2>2. dir' \in [Dirs -> DirState]
    <3>1. CASE RemoveDir(d)
      BY <3>1, FreshTypes DEF RemoveDir, TypeOK, HostTypeOK
    <3>2. CASE Age(d)
      BY <3>2, <2>1, DirStateEdits DEF Age, TypeOK, HostTypeOK
    <3> QED BY <1>4, <3>1, <3>2
  <2> QED BY <1>4, <2>2, MoveTypes DEF RemoveDir, Age, TypeOK, HostTypeOK, ObserverTypeOK
<1>5. CASE ListMove
  BY <1>5, MoveTypes
     DEF ListMove, ToggleRoot, EditAllowlist, EditIocs, ToggleDisk, host,
         TypeOK, HostTypeOK, ObserverTypeOK
<1>6. CASE StopRequested
  BY <1>6 DEF StopRequested, host, disk, memory, observed, TypeOK, HostTypeOK,
              ProcessTypeOK, ObserverTypeOK
<1>7. CASE Crash
  <2>1. Leave /\ moves' \in 0..MaxMoves /\ crashes' \in 0..MaxCrashes
    BY <1>7 DEF Crash, TypeOK, ObserverTypeOK
  <2>2. HostTypeOK'
    BY <1>7 DEF Crash, host, disk, TypeOK, HostTypeOK
  <2> QED BY <2>1, <2>2, LeaveTypes DEF TypeOK
<1>8. CASE DirMove
  <2>1. PICK d \in Dirs :
          \/ \E mode \in {"shared", "private"} : Chmod(d, mode)
          \/ \E mode \in {"shared", "private"}, h \in Hashes : DropKit(d, mode, h)
          \/ \E f \in Files, h \in Hashes \cup {NoFile} : WriteFile(d, f, h)
          \/ RemoveDir(d) \/ Age(d)
    BY <1>8 DEF DirMove
  <2> QED BY <2>1, <1>1, <1>2, <1>3, <1>4
<1> QED BY <1>5, <1>6, <1>7, <1>8

\* Every variable keeps its type (TypeOK): cand and verdict stay functions on all
\* items and the summary's list of unreadable roots holds scan roots only.
THEOREM TypeCorrect == Spec => []TypeOK
<1>1. Init => TypeOK
  <2> SUFFICES ASSUME Init PROVE TypeOK
    OBVIOUS
  <2>1. HostTypeOK
    BY FreshTypes DEF Init, HostTypeOK
  <2>2. ProcessTypeOK
    BY FreshTypes DEF Init, ProcessTypeOK, Phases
  <2>3. ObserverTypeOK
    BY FreshTypes DEF Init, ObserverTypeOK
  <2> QED BY <2>1, <2>2, <2>3 DEF TypeOK
<1>2. TypeOK /\ [Next]_vars => TypeOK'
  <2>1. ASSUME TypeOK, Next PROVE TypeOK'
    BY <2>1, BootTypes, WalkTypes, ActTypes, WorldTypes
       DEF Next, Process, World, DirMove, ListMove
  <2>2. ASSUME TypeOK, UNCHANGED vars PROVE TypeOK'
    BY <2>2 DEF vars, host, disk, memory, observed, bounds, TypeOK, HostTypeOK,
                ProcessTypeOK, ObserverTypeOK
  <2> QED BY <2>1, <2>2
<1> QED BY <1>1, <1>2, PTL DEF Spec

-----------------------------------------------------------------------------
(* Safety: the inductive invariants behind the properties, and the theorems that *)
(* the properties hold of every behaviour.                                       *)

Acting == {"act", "emit", "push_match", "push_summary"}

\* The observer has seen every content of a directory, and a verdict of IocMatch
\* names a content it has seen, of the matcher, under a name not in the allowlist.
Evidence ==
  /\ pc # "down" => \A d \in Dirs : ContentsOf(dir[d]) \subseteq held[d]
  /\ pc \notin Acting \cup {"classify"} => verdict = NoVerdicts
  /\ \A x \in Paths : verdict[x].tag = "IocMatch" =>
       /\ verdict[x].sha \in matcher
       /\ verdict[x].sha \in held[DirOf[x]]
       /\ NameOf[x] \notin allow

\* While matches are acted on, only the directory whose event is about to be
\* written can be applied and not journaled.
Journal ==
  /\ pc \notin Acting => result = NoResults
  /\ pc \in Acting /\ pc # "emit" =>
       \A x \in Paths : result[x] = "Applied" => DirOf[x] \notin owed
  /\ pc = "emit" =>
       \A x \in Paths : result[x] = "Applied" /\ DirOf[x] \in owed =>
         DirOf[x] = DirOf[cur] /\ outcome = "Applied"

\* What the classification and the counters say of the candidates handled so far.
Classified ==
  /\ pc \in Acting \cup {"classify"} => todo \subseteq Found
  /\ \A x \in Found : pc \in Acting \/ (pc = "classify" /\ x \notin todo) =>
       (cand[x].skip # "none" => verdict[x].tag = "Skipped")

Counted ==
  pc \in Acting =>
    /\ sum.candidates = Cardinality(Found)
    /\ sum.candidates = sum.allowlisted + sum.iocMatches + sum.unknown
                          + sum.skipped + Cardinality(todo)
    /\ sum.quarantined <= sum.iocMatches
    /\ Cardinality(sum.unreadable) <= sum.skipped
    /\ \A x \in Found \ todo : verdict[x].tag = "Skipped" => sum.skipped > 0
    /\ \A x \in Found \ todo : verdict[x].tag = "IocMatch" /\ result[x] # "Applied"
                                 => sum.quarantined < sum.iocMatches
    /\ \A x \in Items : result[x] = "Failed" => sum.quarantined < sum.iocMatches
    /\ pc = "push_summary" => todo = {}

\* A quarantine counted after the stop request is one whose push is still to come.
Prompt ==
  late > 0 => /\ late = 1 /\ stop
              /\ pc = "push_match" \/ (pc = "emit" /\ outcome = "Applied")

-----------------------------------------------------------------------------
(* The kinds of step, and what each leaves alone *)

Leaving  == BootFails \/ StopBeforePoll \/ Cancel \/ SummaryPushed \/ Crash
Starting == Activate \/ DryRun
Booting  == LoadMatcher \/ LoadAllowlist \/ OpenProposals \/ BeginPoll
Moving   == DirMove \/ ListMove
Handling == \/ \E x \in Items : ActSkipped(x)
            \/ \E x \in Paths : \/ ActAllowlisted(x) \/ ActQuarantine(x)
                                \/ ActReport(x) \/ ActUnknown(x)
            \/ Emit \/ MatchPushed \/ TickDone

LEMMA StepKinds ==
  Next => Leaving \/ Starting \/ Booting \/ Walk \/ Decide \/ Handling \/ Moving
            \/ StopRequested
BY DEF Next, Process, Boot, Act, World, DirMove, ListMove, Leaving, Starting,
       Booting, Moving, Handling

LEMMA LeavingLeaves ==
  ASSUME Leaving
  PROVE  /\ pc' = "down" /\ verdict' = NoVerdicts /\ cand' = NoCandidates
         /\ result' = NoResults /\ late' = 0 /\ todo' = {}
BY DEF Leaving, BootFails, StopBeforePoll, Cancel, SummaryPushed, Crash, Leave, Goto

LEMMA MovingFrame ==
  ASSUME Moving
  PROVE  UNCHANGED <<pc, stop, dry, matcher, allow, roots, todo, cand, verdict, sum,
                     cur, outcome, result, late, owed>>
<1>1. Move
  BY DEF Moving, DirMove, ListMove, Chmod, DropKit, WriteFile, RemoveDir, Age,
         ToggleRoot, EditAllowlist, EditIocs, ToggleDisk
<1> QED BY <1>1 DEF Move, memory

LEMMA StopFrame ==
  ASSUME StopRequested
  PROVE  UNCHANGED <<pc, dir, dry, matcher, allow, roots, todo, cand, verdict, sum,
                     cur, outcome, held, result, late, owed>> /\ pc # "down" /\ ~stop
BY DEF StopRequested, host, memory, observed

\* Every step that handles a candidate starts in an acting phase and ends in one.
LEMMA HandlingFrame ==
  ASSUME Handling
  PROVE  /\ pc \in Acting /\ pc' \in Acting
         /\ UNCHANGED <<stop, matcher, allow, roots, cand, verdict, held, dry>>
<1> USE DEF Acting, Take, Goto, Step, observed
<1>1. ASSUME NEW x \in Items, ActSkipped(x)
      PROVE  pc \in Acting /\ pc' \in Acting
             /\ UNCHANGED <<stop, matcher, allow, roots, cand, verdict, held, dry>>
  BY <1>1 DEF ActSkipped
<1>2. ASSUME NEW x \in Paths,
             ActAllowlisted(x) \/ ActQuarantine(x) \/ ActReport(x) \/ ActUnknown(x)
      PROVE  pc \in Acting /\ pc' \in Acting
             /\ UNCHANGED <<stop, matcher, allow, roots, cand, verdict, held, dry>>
  BY <1>2 DEF ActAllowlisted, ActQuarantine, ActReport, ActUnknown
<1>3. ASSUME Emit \/ MatchPushed \/ TickDone
      PROVE  pc \in Acting /\ pc' \in Acting
             /\ UNCHANGED <<stop, matcher, allow, roots, cand, verdict, held, dry>>
  BY <1>3 DEF Emit, MatchPushed, TickDone, memory
<1> QED BY <1>1, <1>2, <1>3 DEF Handling

-----------------------------------------------------------------------------
(* Evidence *)

LEMMA VerdictEvidence ==
  ASSUME TypeOK, NEW x \in Items, NEW v \in Verdicts(x), v.tag = "IocMatch"
  PROVE  /\ x \in Paths
         /\ v.sha \in matcher
         /\ v.sha \in ContentsOf(dir[DirOf[x]])
         /\ NameOf[x] \notin allow
<1>1. x \notin HostRoots
  BY DEF Verdicts, Plain
<1>2. x \in Paths
  BY <1>1 DEF Items
<1> DEFINE H == Hits(DirOf[x], dir[DirOf[x]], cand[x], matcher)
<1>3. v \in Classify(DirOf[x], dir[DirOf[x]], cand[x], NameOf[x] \in allow, matcher)
  BY <1>1 DEF Verdicts
<1>4. v.tag = "IocMatch" => NameOf[x] \notin allow /\ \E h \in H : v = IocMatch(h)
  BY <1>3 DEF Classify, Plain
<1>5. PICK h \in H : v = IocMatch(h)
  BY <1>4
<1>6. v.sha = h
  BY <1>5 DEF IocMatch
<1>7. h \in matcher /\ h \in ContentsOf(dir[DirOf[x]])
  <2>1. cand[x].entries \subseteq Files
    BY DEF TypeOK, ProcessTypeOK, Candidate
  <2> QED BY <2>1 DEF Hits, Hashable, ContentsOf, FilesIn
<1> QED BY <1>2, <1>4, <1>6, <1>7

\* The observer does not lose sight of a directory while the host changes it.
LEMMA MovingEvidence ==
  ASSUME TypeOK, Moving, pc # "down",
         \A d \in Dirs : ContentsOf(dir[d]) \subseteq held[d]
  PROVE  \A d \in Dirs : /\ held[d] \subseteq held'[d]
                         /\ ContentsOf(dir'[d]) \subseteq held'[d]
<1>1. ASSUME NEW d \in Dirs, NEW mode \in {"shared", "private"}, Chmod(d, mode)
      PROVE  \A e \in Dirs : held'[e] = held[e] /\ ContentsOf(dir'[e]) = ContentsOf(dir[e])
  BY <1>1 DEF Chmod, ContentsOf, FilesIn, TypeOK, HostTypeOK, DirState
<1>2. ASSUME NEW d \in Dirs, NEW mode \in {"shared", "private"}, NEW h \in Hashes,
             DropKit(d, mode, h)
      PROVE  \A e \in Dirs : /\ held[e] \subseteq held'[e]
                             /\ ContentsOf(dir'[e]) \subseteq held'[e]
  <2>1. held' = [held EXCEPT ![d] = @ \cup {h}]
    BY <1>2 DEF DropKit, Holding
  <2>2. PICK f \in Files :
          dir' = [dir EXCEPT ![d] = [live |-> TRUE, mode |-> mode, recent |-> TRUE,
                                     file |-> [Absent.file EXCEPT ![f] = h]]]
    BY <1>2 DEF DropKit
  <2>3. ContentsOf(dir'[d]) \subseteq {h}
    BY <2>2 DEF ContentsOf, FilesIn, Absent, TypeOK, HostTypeOK
  <2>4. \A e \in Dirs \ {d} : ContentsOf(dir'[e]) = ContentsOf(dir[e])
    BY <2>2 DEF TypeOK, HostTypeOK
  <2> QED BY <2>1, <2>3, <2>4 DEF TypeOK, ObserverTypeOK
<1>3. ASSUME NEW d \in Dirs, NEW f \in Files, NEW h \in Hashes \cup {NoFile},
             WriteFile(d, f, h)
      PROVE  \A e \in Dirs : /\ held[e] \subseteq held'[e]
                             /\ ContentsOf(dir'[e]) \subseteq held'[e]
  <2>1. held' = [held EXCEPT ![d] = @ \cup ({h} \ {NoFile})]
    BY <1>3 DEF WriteFile, Holding
  <2>2. dir' = [dir EXCEPT ![d] = Rewritten(dir[d], f, h)]
    BY <1>3 DEF WriteFile
  <2>3. \A g \in Files : Rewritten(dir[d], f, h).file[g] = IF g = f THEN h ELSE dir[d].file[g]
    BY DEF Rewritten, TypeOK, HostTypeOK, DirState
  <2>4. ContentsOf(dir'[d]) \subseteq ContentsOf(dir[d]) \cup ({h} \ {NoFile})
    BY <2>2, <2>3 DEF ContentsOf, FilesIn, TypeOK, HostTypeOK
  <2>5. \A e \in Dirs \ {d} : ContentsOf(dir'[e]) = ContentsOf(dir[e])
    BY <2>2 DEF TypeOK, HostTypeOK
  <2> QED BY <2>1, <2>4, <2>5 DEF TypeOK, ObserverTypeOK
<1>4. ASSUME NEW d \in Dirs, RemoveDir(d) \/ Age(d)
      PROVE  \A e \in Dirs : /\ held[e] \subseteq held'[e]
                             /\ ContentsOf(dir'[e]) \subseteq held'[e]
  <2>1. \A e \in Dirs : ContentsOf(dir'[e]) \subseteq ContentsOf(dir[e])
    BY <1>4 DEF RemoveDir, Age, Absent, ContentsOf, FilesIn, TypeOK, HostTypeOK, DirState
  <2> QED BY <1>4, <2>1 DEF RemoveDir, Age
<1>5. CASE ListMove
  BY <1>5 DEF ListMove, ToggleRoot, EditAllowlist, EditIocs, ToggleDisk, host
<1>6. CASE DirMove
  <2>1. PICK d \in Dirs :
          \/ \E mode \in {"shared", "private"} : Chmod(d, mode)
          \/ \E mode \in {"shared", "private"}, h \in Hashes : DropKit(d, mode, h)
          \/ \E f \in Files, h \in Hashes \cup {NoFile} : WriteFile(d, f, h)
          \/ RemoveDir(d) \/ Age(d)
    BY <1>6 DEF DirMove
  <2> QED BY <2>1, <1>1, <1>2, <1>3, <1>4
<1> QED BY <1>5, <1>6 DEF Moving

LEMMA HandlingContents ==
  ASSUME TypeOK, Handling
  PROVE  \A d \in Dirs : ContentsOf(dir'[d]) = ContentsOf(dir[d])
<1>1. ASSUME NEW x \in Paths, ActQuarantine(x)
      PROVE  \A d \in Dirs : ContentsOf(dir'[d]) = ContentsOf(dir[d])
  <2>1. dir' = dir \/ dir' = [dir EXCEPT ![DirOf[x]].mode = "none"]
    BY <1>1 DEF ActQuarantine
  <2>2. \A d \in Dirs : dir'[d].file = dir[d].file
    BY <2>1 DEF TypeOK, HostTypeOK, DirState
  <2> QED BY <2>2 DEF ContentsOf, FilesIn
<1>2. ASSUME ~\E x \in Paths : ActQuarantine(x)
      PROVE  dir' = dir
  <2>1. ASSUME NEW x \in Items, ActSkipped(x) PROVE dir' = dir
    BY <2>1 DEF ActSkipped, host
  <2>2. ASSUME NEW x \in Paths, ActAllowlisted(x) \/ ActReport(x) \/ ActUnknown(x)
        PROVE  dir' = dir
    BY <2>2 DEF ActAllowlisted, ActReport, ActUnknown, host
  <2>3. ASSUME Emit \/ MatchPushed \/ TickDone PROVE dir' = dir
    BY <2>3 DEF Emit, MatchPushed, TickDone, host
  <2> QED BY <1>2, <2>1, <2>2, <2>3 DEF Handling
<1> QED BY <1>1, <1>2

LEMMA EvidenceStep ==
  ASSUME TypeOK, Evidence, [Next]_vars
  PROVE  Evidence'
<1> USE DEF Acting
<1>1. CASE Leaving
  BY <1>1, LeavingLeaves DEF Evidence, NoVerdicts, Plain, Items
<1>2. CASE Starting
  <2>1. pc = "down" /\ pc' = "load_ioc" /\ held' = [d \in Dirs |-> ContentsOf(dir[d])]
        /\ UNCHANGED <<dir, verdict>>
    BY <1>2 DEF Starting, Activate, DryRun, Begin, Step, host
  <2> QED BY <2>1 DEF Evidence, NoVerdicts, Plain, Items
<1>3. CASE Booting
  <2>1. /\ pc \in {"load_ioc", "load_allow", "open_proposals", "select"}
        /\ pc' \in {"load_allow", "open_proposals", "select", "scan"}
        /\ UNCHANGED <<dir, held, verdict>>
    BY <1>3 DEF Booting, LoadMatcher, LoadAllowlist, OpenProposals, BeginPoll, Step,
                host, memory, observed
  <2> QED BY <2>1 DEF Evidence, NoVerdicts, Plain, Items
<1>4. CASE Walk
  <2>1. pc = "scan" /\ pc' \in {"scan", "classify"}
        /\ UNCHANGED <<dir, held, verdict, matcher, allow>>
    BY <1>4 DEF Walk, OpenHostRoot, OpenLayer, Open, VisitHost,
       VisitOverlay, Visit, WalkDone, Step, host, observed
  <2> QED BY <2>1 DEF Evidence
<1>5. CASE Decide
  <2>1. pc = "classify" /\ pc' \in {"classify", "act"} /\ UNCHANGED <<dir, held, matcher, allow>>
    BY <1>5 DEF Decide, ClassifyItem, ClassifyDone, Step, host, observed
  <2>2. ASSUME NEW x \in Items, ClassifyItem(x) PROVE Evidence'
    <3>1. PICK v \in Verdicts(x) : verdict' = [verdict EXCEPT ![x] = v]
      BY <2>2 DEF ClassifyItem
    <3>2. v.tag = "IocMatch" => /\ v.sha \in matcher /\ v.sha \in held[DirOf[x]]
                                /\ NameOf[x] \notin allow
      <4> SUFFICES ASSUME v.tag = "IocMatch"
                   PROVE  /\ v.sha \in matcher /\ v.sha \in held[DirOf[x]]
                          /\ NameOf[x] \notin allow
        OBVIOUS
      <4>1. /\ x \in Paths /\ v.sha \in matcher /\ NameOf[x] \notin allow
            /\ v.sha \in ContentsOf(dir[DirOf[x]])
        BY VerdictEvidence
      <4>2. ContentsOf(dir[DirOf[x]]) \subseteq held[DirOf[x]]
        BY <2>1, <4>1 DEF Evidence
      <4> QED BY <4>1, <4>2
    <3>3. verdict'[x] = v /\ \A y \in Items \ {x} : verdict'[y] = verdict[y]
      BY <3>1 DEF TypeOK, ProcessTypeOK
    <3> QED BY <2>1, <3>2, <3>3 DEF Evidence, Items
  <2>3. CASE ClassifyDone
    BY <2>1, <2>3 DEF ClassifyDone, Evidence
  <2> QED BY <1>5, <2>2, <2>3 DEF Decide
<1>6. CASE Handling
  BY <1>6, HandlingFrame, HandlingContents DEF Evidence
<1>7. CASE Moving
  <2>1. pc = "down" => verdict = NoVerdicts
    BY DEF Evidence
  <2>2. CASE pc = "down"
    BY <1>7, <2>1, <2>2, MovingFrame DEF Evidence, NoVerdicts, Plain, Items
  <2>3. CASE pc # "down"
    <3>1. \A d \in Dirs : held[d] \subseteq held'[d] /\ ContentsOf(dir'[d]) \subseteq held'[d]
      BY <1>7, <2>3, MovingEvidence DEF Evidence
    <3>2. UNCHANGED <<pc, verdict, matcher, allow>>
      BY <1>7, MovingFrame
    <3>3. \A x \in Paths : held[DirOf[x]] \subseteq held'[DirOf[x]]
      BY <3>1
    <3> QED BY <2>3, <3>1, <3>2, <3>3 DEF Evidence
  <2> QED BY <2>2, <2>3
<1>8. CASE StopRequested
  BY <1>8, StopFrame DEF Evidence
<1>9. CASE UNCHANGED vars
  BY <1>9 DEF vars, host, memory, observed, Evidence
<1> QED BY <1>1, <1>2, <1>3, <1>4, <1>5, <1>6, <1>7, <1>8, <1>9, StepKinds

\* Only ActQuarantine sets a directory to 000.
LEMMA OnlyQuarantine ==
  ASSUME TypeOK, [Next]_vars, NEW d \in Dirs, dir[d].mode # "none", dir'[d].mode = "none"
  PROVE  \E x \in Paths : ActQuarantine(x) /\ DirOf[x] = d
<1>1. CASE Moving
  <2>1. CASE ListMove
    BY <2>1 DEF ListMove, ToggleRoot, EditAllowlist, EditIocs, ToggleDisk, host
  <2>2. ASSUME NEW e \in Dirs, NEW mode \in {"shared", "private"},
               Chmod(e, mode) \/ \E h \in Hashes : DropKit(e, mode, h)
        PROVE  dir'[d].mode # "none"
    <3>1. CASE Chmod(e, mode)
      BY <3>1 DEF Chmod, TypeOK, HostTypeOK, DirState
    <3>2. ASSUME NEW h \in Hashes, DropKit(e, mode, h) PROVE dir'[d].mode # "none"
      <4>1. PICK f \in Files :
              dir' = [dir EXCEPT ![e] = [live |-> TRUE, mode |-> mode, recent |-> TRUE,
                                         file |-> [Absent.file EXCEPT ![f] = h]]]
        BY <3>2 DEF DropKit
      <4> QED BY <4>1 DEF TypeOK, HostTypeOK
    <3> QED BY <2>2, <3>1, <3>2
  <2>3. ASSUME NEW e \in Dirs, NEW f \in Files, NEW h \in Hashes \cup {NoFile},
               WriteFile(e, f, h)
        PROVE  dir'[d].mode # "none"
    <3>1. dir[e] \in DirState /\ Rewritten(dir[e], f, h).mode = dir[e].mode
      BY DEF Rewritten, TypeOK, HostTypeOK, DirState
    <3>2. dir' = [dir EXCEPT ![e] = Rewritten(dir[e], f, h)]
      BY <2>3 DEF WriteFile
    <3> QED BY <3>1, <3>2 DEF TypeOK, HostTypeOK
  <2>4. ASSUME NEW e \in Dirs, RemoveDir(e) \/ Age(e)
        PROVE  dir'[d].mode # "none"
    <3>1. CASE RemoveDir(e)
      BY <3>1 DEF RemoveDir, Absent, TypeOK, HostTypeOK
    <3>2. CASE Age(e)
      BY <3>2 DEF Age, TypeOK, HostTypeOK, DirState
    <3> QED BY <2>4, <3>1, <3>2
  <2> QED BY <1>1, <2>1, <2>2, <2>3, <2>4 DEF Moving, DirMove
<1>2. CASE Handling
  <2>1. ASSUME NEW x \in Items, ActSkipped(x) PROVE dir' = dir
    BY <2>1 DEF ActSkipped, host
  <2>2. ASSUME NEW x \in Paths, ActAllowlisted(x) \/ ActReport(x) \/ ActUnknown(x)
        PROVE  dir' = dir
    BY <2>2 DEF ActAllowlisted, ActReport, ActUnknown, host
  <2>3. ASSUME Emit \/ MatchPushed \/ TickDone PROVE dir' = dir
    BY <2>3 DEF Emit, MatchPushed, TickDone, host
  <2>4. PICK x \in Paths : ActQuarantine(x)
    BY <1>2, <2>1, <2>2, <2>3 DEF Handling
  <2>5. dir' = dir \/ dir' = [dir EXCEPT ![DirOf[x]].mode = "none"]
    BY <2>4 DEF ActQuarantine
  <2>6. DirOf[x] = d
    BY <2>5 DEF TypeOK, HostTypeOK, DirState
  <2> QED BY <2>4, <2>6
<1>3. CASE Leaving \/ Starting \/ Booting \/ Walk \/ Decide \/ StopRequested \/ UNCHANGED vars
  <2>1. dir' = dir
    BY <1>3 DEF Leaving, BootFails, StopBeforePoll, Cancel, SummaryPushed, Crash,
         Starting, Activate, DryRun, Begin, Booting, LoadMatcher, LoadAllowlist,
         OpenProposals, BeginPoll, Walk, OpenHostRoot, OpenLayer, Open, VisitHost,
       VisitOverlay, Visit, WalkDone, Decide,
         ClassifyItem, ClassifyDone, StopRequested, vars, host
  <2> QED BY <2>1
<1> QED BY <1>1, <1>2, <1>3, StepKinds

\* A directory set to 000 was, in this activation, a directory with a content of
\* the loaded IOC list, under a name that is not in the loaded allowlist, of a
\* process that may quarantine (JustifiedQuarantine), for every host and history.
THEOREM QuarantineIsJustified == Spec => JustifiedQuarantine
<1>1. Init => Evidence
  BY DEF Init, Evidence, NoVerdicts, Plain, Acting, Items
<1>2. TypeOK /\ Evidence /\ [Next]_vars => Evidence'
  BY EvidenceStep
<1>3. ASSUME TypeOK, Evidence, [Next]_vars,
             NEW d \in Dirs, dir[d].mode # "none", dir'[d].mode = "none"
      PROVE  /\ QuarantineOn /\ ~dry
             /\ held[d] \cap matcher # {}
             /\ \E p \in Paths : DirOf[p] = d /\ NameOf[p] \notin allow
  <2>1. PICK x \in Paths : ActQuarantine(x) /\ DirOf[x] = d
    BY <1>3, OnlyQuarantine
  <2>2. Quarantining /\ verdict[x].tag = "IocMatch"
    BY <2>1 DEF ActQuarantine, Take
  <2> QED BY <1>3, <2>1, <2>2 DEF Evidence, Quarantining
<1>4. TypeOK /\ Evidence /\ [Next]_vars =>
        [ \A d \in Dirs :
            dir[d].mode # "none" /\ dir'[d].mode = "none" =>
              /\ QuarantineOn /\ ~dry
              /\ held[d] \cap matcher # {}
              /\ \E p \in Paths : DirOf[p] = d /\ NameOf[p] \notin allow ]_vars
  BY <1>3
<1> QED BY <1>1, <1>2, <1>4, TypeCorrect, PTL DEF Spec, JustifiedQuarantine

-----------------------------------------------------------------------------
(* The journal *)

\* Before the first candidate is acted on nothing is quarantined and no result
\* is recorded; ClassifyDone starts the acting.
LEMMA EarlyFrame ==
  ASSUME Starting \/ Booting \/ Walk \/ Decide
  PROVE  /\ pc \notin Acting
         /\ pc' \in Acting => ClassifyDone
         /\ UNCHANGED <<stop, result, late, owed, cur, outcome>>
<1>1. CASE Starting
  BY <1>1 DEF Starting, Activate, DryRun, Begin, Step, Acting
<1>2. CASE Booting
  BY <1>2 DEF Booting, LoadMatcher, LoadAllowlist, OpenProposals, BeginPoll, Step,
              memory, observed, Acting
<1>3. CASE Walk
  BY <1>3 DEF Walk, OpenHostRoot, OpenLayer, Open, VisitHost,
       VisitOverlay, Visit, WalkDone, Step, observed, Acting
<1>4. CASE Decide
  BY <1>4 DEF Decide, ClassifyItem, ClassifyDone, Step, observed, Acting
<1> QED BY <1>1, <1>2, <1>3, <1>4

LEMMA JournalStep ==
  ASSUME TypeOK, Journal, [Next]_vars
  PROVE  Journal'
<1>1. CASE Leaving
  BY <1>1, LeavingLeaves DEF Journal, Acting
<1>2. CASE Starting \/ Booting \/ Walk \/ Decide
  BY <1>2, EarlyFrame DEF Journal, NoResults, ClassifyDone, Step, Acting, Items
<1>3. ASSUME NEW x \in Paths, ActQuarantine(x) PROVE Journal'
  <2> DEFINE o == Outcome(DirOf[x], dir[DirOf[x]])
  <2>1. /\ pc = "act" /\ pc' = "emit" /\ cur' = x /\ outcome' = o
        /\ result' = [result EXCEPT ![x] = o]
        /\ owed' = IF o = "Applied" THEN owed \cup {DirOf[x]} ELSE owed
    BY <1>3 DEF ActQuarantine, Take, Goto
  <2>2. \A y \in Paths : result[y] = "Applied" => DirOf[y] \notin owed
    BY <2>1 DEF Journal, Acting
  <2> HIDE DEF o
  <2>3. ASSUME NEW y \in Paths, result'[y] = "Applied", DirOf[y] \in owed'
        PROVE  DirOf[y] = DirOf[cur'] /\ outcome' = "Applied"
    <3>1. CASE y = x
      BY <2>1, <2>3, <3>1 DEF TypeOK, ObserverTypeOK, Items
    <3>2. CASE y # x
      BY <2>1, <2>2, <2>3, <3>2 DEF TypeOK, ObserverTypeOK, Items
    <3> QED BY <3>1, <3>2
  <2> QED BY <2>1, <2>3 DEF Journal, Acting
<1>4. ASSUME NEW x \in Paths, ActReport(x) PROVE Journal'
  <2>1. /\ pc = "act" /\ pc' = "act" /\ result' = result /\ owed' = owed \ {DirOf[x]}
    BY <1>4 DEF ActReport, Take
  <2> QED BY <2>1 DEF Journal, Acting
<1>5. CASE (\E x \in Items : ActSkipped(x))
           \/ (\E x \in Paths : ActAllowlisted(x) \/ ActUnknown(x))
  <2>1. pc = "act" /\ pc' = "act" /\ UNCHANGED <<result, owed>>
    BY <1>5 DEF ActSkipped, ActAllowlisted, ActUnknown, Take, observed
  <2> QED BY <2>1 DEF Journal, Acting
<1>6. CASE Emit
  <2>1. /\ pc = "emit" /\ pc' \in {"act", "push_match"} /\ result' = result
        /\ owed' = IF outcome = "Failed" THEN owed ELSE owed \ {DirOf[cur]}
    BY <1>6 DEF Emit, Goto
  <2> QED BY <2>1 DEF Journal, Acting
<1>7. CASE MatchPushed \/ TickDone
  <2>1. /\ pc \in {"act", "push_match"} /\ pc' \in {"act", "push_summary"}
        /\ UNCHANGED <<result, owed>>
    BY <1>7 DEF MatchPushed, TickDone, Step, Goto, observed
  <2> QED BY <2>1 DEF Journal, Acting
<1>8. CASE Moving
  BY <1>8, MovingFrame DEF Journal
<1>9. CASE StopRequested
  BY <1>9, StopFrame DEF Journal
<1>10. CASE UNCHANGED vars
  BY <1>10 DEF vars, memory, observed, Journal
<1> QED BY <1>1, <1>2, <1>3, <1>4, <1>5, <1>6, <1>7, <1>8, <1>9, <1>10, StepKinds
        DEF Handling

\* What a tick quarantined is journaled before its match is pushed, before the
\* next candidate and before the summary (JournalFirst).
THEOREM JournalComesFirst == Spec => []JournalFirst
<1>1. Init => Journal
  BY DEF Init, Journal, Acting
<1>2. TypeOK /\ Journal /\ [Next]_vars => Journal'
  BY JournalStep
<1>3. Journal => JournalFirst
  BY DEF Journal, JournalFirst, Acting
<1> QED BY <1>1, <1>2, <1>3, TypeCorrect, PTL DEF Spec

-----------------------------------------------------------------------------
(* The stop request *)

LEMMA PromptStep ==
  ASSUME NtfyOn, TypeOK, Prompt, [Next]_vars
  PROVE  Prompt'
<1> late \in Nat
  BY DEF TypeOK, ObserverTypeOK
<1>1. CASE Leaving
  BY <1>1, LeavingLeaves DEF Prompt
<1>2. CASE Starting \/ Booting \/ Walk \/ Decide
  BY <1>2, EarlyFrame DEF Prompt, Acting
<1>3. ASSUME NEW x \in Paths, ActQuarantine(x) PROVE Prompt'
  <2>1. /\ pc = "act" /\ pc' = "emit" /\ stop' = stop
        /\ late' = IF stop /\ outcome' = "Applied" THEN late + 1 ELSE late
    BY <1>3 DEF ActQuarantine, Take, Goto
  <2>2. late = 0
    BY <2>1 DEF Prompt
  <2> QED BY <2>1, <2>2 DEF Prompt
<1>4. CASE Handling /\ ~\E x \in Paths : ActQuarantine(x)
  <2>1. pc # "push_summary" /\ UNCHANGED <<late, stop>>
    BY <1>4, HandlingFrame DEF Handling, ActSkipped, ActAllowlisted, ActReport, ActUnknown,
                Emit, MatchPushed, TickDone, Take, Step, observed
  <2>2. CASE pc = "emit" /\ outcome = "Applied"
    BY <1>4, <2>1, <2>2 DEF Prompt, Handling, ActSkipped, ActAllowlisted, ActReport,
       ActUnknown, Emit, MatchPushed, TickDone, Take, Step, Goto
  <2>3. CASE pc = "push_match"
    BY <1>4, <2>1, <2>3 DEF Prompt, Handling, ActSkipped, ActAllowlisted, ActReport,
       ActUnknown, Emit, MatchPushed, TickDone, Take, Step
  <2> QED BY <2>1, <2>2, <2>3 DEF Prompt
<1>5. CASE Moving
  BY <1>5, MovingFrame DEF Prompt
<1>6. CASE StopRequested
  BY <1>6, StopFrame DEF Prompt
<1>7. CASE UNCHANGED vars
  BY <1>7 DEF vars, memory, observed, Prompt
<1> QED BY <1>1, <1>2, <1>3, <1>4, <1>5, <1>6, <1>7, StepKinds

\* When pushes are configured, at most one directory is quarantined after a stop
\* request (StopIsPrompt): the push that follows it is where select! gives up.
THEOREM StopsPromptly ==
  ASSUME NtfyOn
  PROVE  Spec => []StopIsPrompt
<1>1. Init => Prompt
  BY DEF Init, Prompt
<1>2. TypeOK /\ Prompt /\ [Next]_vars => Prompt'
  BY PromptStep
<1>3. TypeOK /\ Prompt => StopIsPrompt
  BY DEF Prompt, StopIsPrompt, TypeOK, ObserverTypeOK
<1> QED BY <1>1, <1>2, <1>3, TypeCorrect, PTL DEF Spec

-----------------------------------------------------------------------------
(* The summary *)

LEMMA SkippedVerdict ==
  ASSUME NEW x \in Items, NEW v \in Verdicts(x), cand[x].skip # "none"
  PROVE  v.tag = "Skipped"
<1>1. CASE x \in HostRoots
  BY <1>1 DEF Verdicts, Plain
<1>2. CASE x \notin HostRoots
  <2>1. v \in Classify(DirOf[x], dir[DirOf[x]], cand[x], NameOf[x] \in allow, matcher)
    BY <1>2 DEF Verdicts
  <2> QED BY <2>1 DEF Classify, Plain
<1> QED BY <1>1, <1>2

LEMMA HandlingTodo ==
  ASSUME Handling
  PROVE  todo' \subseteq todo /\ pc' # "classify" /\ cand' = cand /\ Found' = Found
<1> USE DEF Take, Goto, Step, memory, Found
<1>1. ASSUME NEW x \in Items, ActSkipped(x) PROVE todo' \subseteq todo /\ pc' # "classify"
  BY <1>1 DEF ActSkipped
<1>2. ASSUME NEW x \in Paths,
             ActAllowlisted(x) \/ ActQuarantine(x) \/ ActReport(x) \/ ActUnknown(x)
      PROVE  todo' \subseteq todo /\ pc' # "classify"
  BY <1>2 DEF ActAllowlisted, ActQuarantine, ActReport, ActUnknown
<1>3. ASSUME Emit \/ MatchPushed \/ TickDone PROVE todo' \subseteq todo /\ pc' # "classify"
  BY <1>3 DEF Emit, MatchPushed, TickDone
<1> QED BY <1>1, <1>2, <1>3, HandlingFrame DEF Handling

LEMMA ClassifiedStep ==
  ASSUME TypeOK, Classified, [Next]_vars
  PROVE  Classified'
<1> USE DEF Acting
<1>1. CASE Leaving \/ Starting \/ Booting
  <2>1. pc' \notin Acting \cup {"classify"}
    BY <1>1, LeavingLeaves DEF Starting, Activate, DryRun, Begin, Booting, LoadMatcher,
       LoadAllowlist, OpenProposals, BeginPoll, Step
  <2> QED BY <2>1 DEF Classified
<1>2. CASE Walk
  <2>1. pc = "scan" /\ (pc' = "scan" \/ WalkDone)
    BY <1>2 DEF Walk, OpenHostRoot, OpenLayer, Open, VisitHost,
       VisitOverlay, Visit, WalkDone, Step
  <2>2. WalkDone => pc' = "classify" /\ todo' = Found /\ Found' = Found
    BY DEF WalkDone, Step, Found
  <2> QED BY <2>1, <2>2 DEF Classified
<1>3. ASSUME NEW x \in Items, ClassifyItem(x) PROVE Classified'
  <2>1. PICK v \in Verdicts(x) : verdict' = [verdict EXCEPT ![x] = v]
    BY <1>3 DEF ClassifyItem
  <2>2. pc = "classify" /\ pc' = pc /\ cand' = cand /\ todo' = todo \ {x} /\ Found' = Found
    BY <1>3 DEF ClassifyItem, Found
  <2>3. verdict'[x] = v /\ \A y \in Items \ {x} : verdict'[y] = verdict[y]
    BY <2>1 DEF TypeOK, ProcessTypeOK
  <2>4. cand[x].skip # "none" => v.tag = "Skipped"
    BY SkippedVerdict
  <2> QED BY <2>2, <2>3, <2>4, FoundFinite DEF Classified
<1>4. CASE ClassifyDone
  <2>1. /\ pc = "classify" /\ pc' = "act" /\ cand' = cand /\ verdict' = verdict
        /\ todo = {} /\ todo' = Found /\ Found' = Found
    BY <1>4 DEF ClassifyDone, Step, Found
  <2> QED BY <2>1 DEF Classified
<1>5. CASE Handling
  BY <1>5, HandlingFrame, HandlingTodo DEF Classified
<1>6. CASE Moving
  BY <1>6, MovingFrame DEF Classified, Found
<1>7. CASE StopRequested
  BY <1>7, StopFrame DEF Classified, Found
<1>8. CASE UNCHANGED vars
  BY <1>8 DEF vars, memory, Classified, Found
<1> QED BY <1>1, <1>2, <1>3, <1>4, <1>5, <1>6, <1>7, <1>8, StepKinds DEF Decide

\* Taking a candidate off the work list takes one off its size.
LEMMA TakeOne ==
  ASSUME TypeOK, NEW x \in Items, x \in todo
  PROVE  /\ Cardinality(todo) \in Nat /\ Cardinality(todo \ {x}) \in Nat
         /\ Cardinality(todo) = Cardinality(todo \ {x}) + 1
<1>1. IsFiniteSet(todo)
  BY FS_Subset DEF TypeOK, ProcessTypeOK
<1>2. IsFiniteSet(todo \ {x}) /\ Cardinality(todo \ {x}) = Cardinality(todo) - 1
  BY <1>1, FS_RemoveElement
<1> QED BY <1>1, <1>2, FS_CardinalityType

LEMMA UnreadableGrows ==
  ASSUME TypeOK, NEW x \in Items
  PROVE  /\ Cardinality(sum.unreadable) \in Nat
         /\ Cardinality(sum.unreadable \cup {x}) \in Nat
         /\ Cardinality(sum.unreadable \cup {x}) <= Cardinality(sum.unreadable) + 1
<1>1. IsFiniteSet(sum.unreadable)
  BY FS_Subset, SummaryTypes DEF Items
<1>2. /\ IsFiniteSet(sum.unreadable \cup {x})
      /\ Cardinality(sum.unreadable \cup {x}) =
           IF x \in sum.unreadable THEN Cardinality(sum.unreadable)
                                   ELSE Cardinality(sum.unreadable) + 1
  BY <1>1, FS_AddElement
<1> QED BY <1>1, <1>2, FS_CardinalityType

\* What Counted says, of the counters and the results before and after a step.
LEMMA TakenFrame ==
  ASSUME TypeOK, Counted, NEW x \in Items, NEW tag, Take(x, tag), pc' # "push_summary"
  PROVE  /\ pc = "act" /\ Found' = Found /\ todo' = todo \ {x} /\ verdict' = verdict
         /\ verdict[x].tag = tag
         /\ Cardinality(todo) \in Nat /\ Cardinality(todo') \in Nat
         /\ Cardinality(todo) = Cardinality(todo') + 1
         /\ sum.candidates = Cardinality(Found)
         /\ sum.candidates = sum.allowlisted + sum.iocMatches + sum.unknown
                               + sum.skipped + Cardinality(todo)
         /\ sum.quarantined <= sum.iocMatches
         /\ Cardinality(sum.unreadable) <= sum.skipped
         /\ \A y \in Found \ todo : verdict[y].tag = "Skipped" => sum.skipped > 0
         /\ \A y \in Found \ todo : verdict[y].tag = "IocMatch" /\ result[y] # "Applied"
                                      => sum.quarantined < sum.iocMatches
         /\ \A y \in Items : result[y] = "Failed" => sum.quarantined < sum.iocMatches
<1>1. pc = "act" /\ x \in todo /\ todo' = todo \ {x} /\ verdict' = verdict /\ Found' = Found
      /\ verdict[x].tag = tag
  BY DEF Take, IsNext, Found
<1> QED BY <1>1, TakeOne DEF Counted, Acting

LEMMA CountedTake ==
  ASSUME TypeOK, Classified, Counted,
         Handling, ~(Emit \/ MatchPushed \/ TickDone)
  PROVE  Counted'
<1> USE SummaryTypes
<1>1. ASSUME NEW x \in Items, ActSkipped(x) PROVE Counted'
  <2>1. Take(x, "Skipped") /\ pc' = "act" /\ result' = result
    BY <1>1 DEF ActSkipped, Take, observed
  <2>2. /\ sum'.candidates = sum.candidates /\ sum'.allowlisted = sum.allowlisted
        /\ sum'.iocMatches = sum.iocMatches /\ sum'.unknown = sum.unknown
        /\ sum'.quarantined = sum.quarantined /\ sum'.skipped = sum.skipped + 1
        /\ sum'.unreadable = sum.unreadable \/ sum'.unreadable = sum.unreadable \cup {x}
    BY <1>1 DEF ActSkipped, RunSummary
  <2>3. Cardinality(sum'.unreadable) <= sum'.skipped
    <3>1. Cardinality(sum.unreadable) <= sum.skipped
      BY <2>1, TakenFrame
    <3>2. /\ Cardinality(sum.unreadable) \in Nat
          /\ Cardinality(sum.unreadable \cup {x}) <= Cardinality(sum.unreadable) + 1
      BY UnreadableGrows
    <3>3. \/ Cardinality(sum'.unreadable) = Cardinality(sum.unreadable)
          \/ Cardinality(sum'.unreadable) = Cardinality(sum.unreadable \cup {x})
      BY <2>2, Zenon
    <3>4. Cardinality(sum.unreadable \cup {x}) \in Nat
      BY UnreadableGrows
    <3> QED BY <2>2, <3>1, <3>2, <3>3, <3>4
  <2>4. /\ sum'.candidates = Cardinality(Found')
        /\ sum'.candidates = sum'.allowlisted + sum'.iocMatches + sum'.unknown
                               + sum'.skipped + Cardinality(todo')
        /\ sum'.quarantined <= sum'.iocMatches
    BY <2>1, <2>2, TakenFrame
  <2>5. \A y \in Found' \ todo' : verdict'[y].tag = "Skipped" => sum'.skipped > 0
    BY <2>2
  <2>6. \A y \in Found' \ todo' : verdict'[y].tag = "IocMatch" /\ result'[y] # "Applied"
                                     => sum'.quarantined < sum'.iocMatches
    BY <2>1, <2>2, TakenFrame
  <2>7. \A y \in Items : result'[y] = "Failed" => sum'.quarantined < sum'.iocMatches
    BY <2>1, <2>2, TakenFrame
  <2> QED BY <2>1, <2>3, <2>4, <2>5, <2>6, <2>7 DEF Counted
<1>2. ASSUME NEW x \in Paths, ActAllowlisted(x) \/ ActUnknown(x) PROVE Counted'
  <2>1. PICK tag \in {"Allowlisted", "Unknown"} : Take(x, tag)
    BY <1>2 DEF ActAllowlisted, ActUnknown
  <2>2. x \in Items /\ pc' = "act" /\ result' = result
    BY <1>2 DEF ActAllowlisted, ActUnknown, Take, observed, Items
  <2>3. /\ sum'.candidates = sum.candidates
        /\ \/ sum'.allowlisted = sum.allowlisted + 1 /\ sum'.unknown = sum.unknown
           \/ sum'.allowlisted = sum.allowlisted /\ sum'.unknown = sum.unknown + 1
        /\ sum'.iocMatches = sum.iocMatches /\ sum'.quarantined = sum.quarantined
        /\ sum'.skipped = sum.skipped /\ sum'.unreadable = sum.unreadable
    BY <1>2 DEF ActAllowlisted, ActUnknown, RunSummary
  <2> QED BY <2>1, <2>2, <2>3, TakenFrame DEF Counted
<1>3. ASSUME NEW x \in Paths, ActReport(x) PROVE Counted'
  <2>1. Take(x, "IocMatch") /\ x \in Items /\ pc' = "act" /\ result' = result
    BY <1>3 DEF ActReport, Take, Items
  <2>2. /\ sum'.candidates = sum.candidates /\ sum'.allowlisted = sum.allowlisted
        /\ sum'.iocMatches = sum.iocMatches + 1 /\ sum'.unknown = sum.unknown
        /\ sum'.quarantined = sum.quarantined /\ sum'.skipped = sum.skipped
        /\ sum'.unreadable = sum.unreadable
    BY <1>3 DEF ActReport, RunSummary
  <2> QED BY <2>1, <2>2, TakenFrame DEF Counted
<1>4. ASSUME NEW x \in Paths, ActQuarantine(x) PROVE Counted'
  <2> DEFINE o == Outcome(DirOf[x], dir[DirOf[x]])
  <2>1. Take(x, "IocMatch") /\ x \in Items /\ pc' = "emit" /\ result' = [result EXCEPT ![x] = o]
    BY <1>4 DEF ActQuarantine, Take, Goto, Items
  <2>2. /\ sum'.candidates = sum.candidates /\ sum'.allowlisted = sum.allowlisted
        /\ sum'.iocMatches = sum.iocMatches + 1 /\ sum'.unknown = sum.unknown
        /\ sum'.quarantined = IF o = "Applied" THEN sum.quarantined + 1 ELSE sum.quarantined
        /\ sum'.skipped = sum.skipped /\ sum'.unreadable = sum.unreadable
    BY <1>4 DEF ActQuarantine, RunSummary
  <2> HIDE DEF o
  <2>3. result'[x] = o /\ \A y \in Items \ {x} : result'[y] = result[y]
    BY <2>1 DEF TypeOK, ObserverTypeOK
  <2>4. \A y \in Items : result'[y] = "Failed" => sum'.quarantined < sum'.iocMatches
    BY <2>1, <2>2, <2>3, TakenFrame
  <2>5. \A y \in Found \ todo' : verdict[y].tag = "IocMatch" /\ result'[y] # "Applied"
                                   => sum'.quarantined < sum'.iocMatches
    BY <2>1, <2>2, <2>3, TakenFrame, FoundFinite
  <2> QED BY <2>1, <2>2, <2>4, <2>5, TakenFrame DEF Counted
<1> QED BY <1>1, <1>2, <1>3, <1>4 DEF Handling

LEMMA CountedStep ==
  ASSUME TypeOK, Classified, Journal, Counted, [Next]_vars
  PROVE  Counted'
<1>1. CASE Leaving
  BY <1>1, LeavingLeaves DEF Counted, Acting
<1>2. CASE (Starting \/ Booting \/ Walk \/ Decide) /\ ~ClassifyDone
  BY <1>2, EarlyFrame DEF Counted
<1>3. CASE ClassifyDone
  <2>1. /\ pc' = "act" /\ pc = "classify" /\ todo' = Found /\ Found' = Found
        /\ sum' = FreshSummary(Cardinality(Found)) /\ result' = result
    BY <1>3 DEF ClassifyDone, Step, observed, Found
  <2>2. \A y \in Items : result[y] = "none"
    BY <2>1 DEF Journal, NoResults, Acting
  <2> QED BY <2>1, <2>2, FoundFinite, FS_EmptySet DEF Counted, FreshSummary
<1>4. CASE Handling /\ ~(Emit \/ MatchPushed \/ TickDone)
  BY <1>4, CountedTake
<1>5. CASE Emit \/ MatchPushed \/ TickDone
  <2>1. /\ pc \in Acting /\ (pc' = "push_summary" => todo = {})
        /\ UNCHANGED <<todo, cand, verdict, sum, result, Found>>
    BY <1>5 DEF Emit, MatchPushed, TickDone, Step, Goto, memory, observed, Acting, Found
  <2> QED BY <2>1 DEF Counted
<1>6. CASE Moving
  BY <1>6, MovingFrame DEF Counted, Found
<1>7. CASE StopRequested
  BY <1>7, StopFrame DEF Counted, Found
<1>8. CASE UNCHANGED vars
  BY <1>8 DEF vars, memory, observed, Counted, Found
<1> QED BY <1>1, <1>2, <1>3, <1>4, <1>5, <1>6, <1>7, <1>8, StepKinds

\* The inductive invariant of the summary: its counters, the candidates handled
\* so far and the results of their quarantines agree after every step.
THEOREM SummaryIsRight == Spec => [](TypeOK /\ Journal /\ Classified /\ Counted)
<1>1. Init => Journal /\ Classified /\ Counted
  BY DEF Init, Journal, Classified, Counted, Acting
<1>2. TypeOK /\ Journal /\ Classified /\ Counted /\ [Next]_vars
        => (Journal /\ Classified /\ Counted)'
  BY JournalStep, ClassifiedStep, CountedStep
<1> QED BY <1>1, <1>2, TypeCorrect, PTL DEF Spec

\* The counters account for every candidate exactly once, at every point of the
\* tick (Tally).
THEOREM TallyHolds == Spec => []Tally
<1>1. Counted => Tally
  BY DEF Counted, Tally, Acting
<1> QED BY <1>1, SummaryIsRight, PTL

\* An Info summary hides nothing: no root or candidate was skipped, something was
\* found, and every IOC match was quarantined (InfoIsClean).
THEOREM InfoTellsTheTruth == Spec => []InfoIsClean
<1>1. ASSUME TypeOK, Classified, Counted PROVE InfoIsClean
  <2> SUFFICES ASSUME Summarised, FromRunSummary(sum) = "Info"
               PROVE  /\ Found # {}
                      /\ \A x \in Found : cand[x].skip = "none"
                      /\ \A x \in Found : verdict[x].tag = "IocMatch" => result[x] = "Applied"
    BY DEF InfoIsClean
  <2>1. /\ ~(sum.iocMatches > 0 /\ sum.quarantined < sum.iocMatches)
        /\ ~(sum.unreadable # {} \/ sum.skipped > 0 \/ sum.candidates = 0)
    BY DEF FromRunSummary
  <2>2. ~(sum.quarantined < sum.iocMatches) /\ sum.skipped = 0 /\ sum.candidates # 0
    BY <1>1, <2>1, SummaryTypes
  <2>3. pc \in Acting /\ todo = {}
    BY <1>1 DEF Summarised, Counted, Acting
  <2>4. Found # {}
    BY <1>1, <2>2, <2>3, FS_EmptySet DEF Counted
  <2>5. \A x \in Found : cand[x].skip = "none"
    BY <1>1, <2>2, <2>3, SummaryTypes DEF Counted, Classified
  <2>6. \A x \in Found : verdict[x].tag = "IocMatch" => result[x] = "Applied"
    BY <1>1, <2>2, <2>3 DEF Counted
  <2> QED BY <2>4, <2>5, <2>6
<1> QED BY <1>1, SummaryIsRight, PTL

\* A failed quarantine always shows as an Error, whatever else the tick met
\* (FailureIsUrgent).
THEOREM FailureShows == Spec => []FailureIsUrgent
<1>1. ASSUME TypeOK, Counted PROVE FailureIsUrgent
  <2> SUFFICES ASSUME Summarised, NEW x \in Items, result[x] = "Failed"
               PROVE  FromRunSummary(sum) = "Error"
    BY DEF FailureIsUrgent
  <2>1. sum.quarantined < sum.iocMatches
    BY <1>1 DEF Counted, Summarised, Acting
  <2>2. sum.iocMatches > 0
    BY <1>1, <2>1, SummaryTypes
  <2> QED BY <2>1, <2>2 DEF FromRunSummary
<1> QED BY <1>1, SummaryIsRight, PTL
=============================================================================
