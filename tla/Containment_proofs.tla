------------------------- MODULE Containment_proofs -------------------------
(***************************************************************************)
(* The scanner implements Containment: every step of Runtime is, through   *)
(* the mapping given there, a step of Containment or leaves it unchanged.  *)
(***************************************************************************)
EXTENDS Runtime_proofs

USE RuntimeAssumption, SubsystemAssumption

\* What the mapping needs beside Evidence: no list without a load, a match behind
\* every event, a debt behind every quarantine that is not journaled, and nothing
\* at 000 that does not exist.
Debt ==
  /\ \A d \in Dirs : dir[d].mode = "none" => dir[d].live
  /\ pc \in {"down", "load_ioc"} => matcher = {}
  /\ pc = "emit" => cur \in Paths /\ verdict[cur].tag = "IocMatch"
  /\ pc = "emit" /\ outcome = "Applied" => DirOf[cur] \in owed

\* Only a removal takes a directory away, and it leaves no mode behind.
LEMMA ModesStep ==
  ASSUME TypeOK, Debt, [Next]_vars, NEW d \in Dirs, dir'[d].mode = "none"
  PROVE  dir'[d].live
<1>0. dir \in [Dirs -> DirState] /\ (dir[d].mode = "none" => dir[d].live)
  BY DEF TypeOK, HostTypeOK, Debt
<1>1. ASSUME NEW x \in Paths, ActQuarantine(x) PROVE dir'[d].live
  <2>1. dir' = dir \/ (dir[DirOf[x]].live /\ dir' = [dir EXCEPT ![DirOf[x]].mode = "none"])
    BY <1>1 DEF ActQuarantine, Outcome
  <2>2. CASE d = DirOf[x]
    BY <1>0, <2>1, <2>2 DEF DirState
  <2>3. CASE d # DirOf[x]
    BY <1>0, <2>1, <2>3
  <2> QED BY <2>2, <2>3
<1>2. ASSUME NEW e \in Dirs, NEW mode \in {"shared", "private"},
             Chmod(e, mode) \/ \E h \in Hashes : DropKit(e, mode, h)
      PROVE  dir'[d].live
  <2>1. CASE Chmod(e, mode)
    BY <1>0, <2>1 DEF Chmod, DirState
  <2>2. CASE \E h \in Hashes : DropKit(e, mode, h)
    BY <1>0, <2>2 DEF DropKit
  <2> QED BY <1>2, <2>1, <2>2
<1>3. ASSUME NEW e \in Dirs, NEW f \in Files, NEW h \in Hashes \cup {NoFile},
             WriteFile(e, f, h)
      PROVE  dir'[d].live
  <2>1. dir' = [dir EXCEPT ![e] = Rewritten(dir[e], f, h)] /\ dir[e].live
    BY <1>3 DEF WriteFile
  <2>2. Rewritten(dir[e], f, h).live = dir[e].live
    BY <1>0 DEF Rewritten, DirState
  <2> QED BY <1>0, <2>1, <2>2, <1>3
            DEF Rewritten, DirState
<1>4. ASSUME NEW e \in Dirs, RemoveDir(e) \/ Age(e) PROVE dir'[d].live
  BY <1>0, <1>4 DEF RemoveDir, Age, Absent, DirState
<1>5. CASE dir' = dir
  BY <1>0, <1>5
<1>6. CASE Moving
  <2>1. CASE ListMove
    BY <2>1, <1>5 DEF ListMove, ToggleRoot, EditAllowlist, EditIocs, ToggleDisk, host
  <2> QED BY <1>6, <2>1, <1>2, <1>3, <1>4 DEF Moving, DirMove
<1>7. CASE Handling
  <2>1. (~ \E x \in Paths : ActQuarantine(x)) => dir' = dir
    BY <1>7 DEF Handling, ActSkipped, ActAllowlisted, ActReport, ActUnknown, Emit,
                MatchPushed, TickDone, host
  <2> QED BY <1>1, <1>5, <2>1
<1>8. CASE Leaving \/ Starting \/ Booting \/ Walk \/ Decide \/ StopRequested \/ UNCHANGED vars
  <2>1. dir' = dir
    BY <1>8 DEF Leaving, BootFails, StopBeforePoll, Cancel, SummaryPushed, Crash,
         Starting, Activate, DryRun, Begin, Booting, LoadMatcher, LoadAllowlist,
         OpenProposals, BeginPoll, Walk, OpenHostRoot, OpenLayer, Open, VisitHost,
         VisitOverlay, Visit, WalkDone, Decide, ClassifyItem, ClassifyDone,
         StopRequested, vars, host
  <2> QED BY <1>5, <2>1
<1> QED BY <1>6, <1>7, <1>8, StepKinds

LEMMA DebtStep ==
  ASSUME TypeOK, Debt, [Next]_vars
  PROVE  Debt'
<1> DEFINE Owing ==
      /\ pc \in {"down", "load_ioc"} => matcher = {}
      /\ pc = "emit" => cur \in Paths /\ verdict[cur].tag = "IocMatch"
      /\ pc = "emit" /\ outcome = "Applied" => DirOf[cur] \in owed
<1>0. Owing
  BY DEF Debt
<1> SUFFICES Owing'
  BY ModesStep DEF Debt
<1>1. CASE Leaving
  BY <1>1 DEF Leaving, BootFails, StopBeforePoll, Cancel, SummaryPushed, Crash, Leave,
              Goto
<1>2. CASE Starting \/ Booting
  BY <1>0, <1>2 DEF Starting, Activate, DryRun, Begin, Booting, LoadMatcher, LoadAllowlist,
              OpenProposals, BeginPoll, Step
<1>3. CASE Walk \/ Decide
  BY <1>3, EarlyFrame
     DEF Walk, OpenHostRoot, OpenLayer, Open, VisitHost, VisitOverlay, Visit, WalkDone,
         Decide, ClassifyItem, ClassifyDone, Step, Debt, Acting
<1>4. ASSUME NEW x \in Paths, ActQuarantine(x) PROVE Owing'
  BY <1>4 DEF ActQuarantine, Take, Goto
<1>5. CASE Handling /\ ~ \E x \in Paths : ActQuarantine(x)
  <2>1. pc' # "emit"
    BY <1>5 DEF Handling, ActSkipped, ActAllowlisted, ActReport, ActUnknown, Emit,
                MatchPushed, TickDone, Take, Goto, Step
  <2> QED BY <1>5, <2>1, <1>0, HandlingFrame DEF Acting
<1>6. CASE Moving
  BY <1>0, <1>6, MovingFrame
<1>7. CASE StopRequested
  BY <1>0, <1>7, StopFrame
<1>8. CASE UNCHANGED vars
  BY <1>0, <1>8 DEF vars, memory, observed
<1> QED BY <1>1, <1>2, <1>3, <1>4, <1>5, <1>6, <1>7, <1>8, StepKinds

-----------------------------------------------------------------------------
(* One lemma per kind of step *)

\* A step that leaves these alone is not seen by Containment.
LEMMA Unseen ==
  ASSUME UNCHANGED <<pc, dry, held, matcher, dir, cur, outcome, owed>>
  PROVE  UNCHANGED Promise!vars
BY DEF Promise!vars, Phase, Suspects, Contained, Pending, Lost, Quarantining

LEMMA LeavingMaps ==
  ASSUME TypeOK, Debt, Leaving
  PROVE  Promise!Next
<1>1. /\ pc # "down" /\ pc' = "down" /\ matcher' = {}
      /\ UNCHANGED <<dir, owed>>
  BY DEF Leaving, BootFails, StopBeforePoll, Cancel, SummaryPushed, Crash, Leave, Goto,
         host, Step
<1>2. Suspects' = {} /\ Contained' = Contained /\ Phase # "off" /\ Phase' = "off"
  BY <1>1 DEF Suspects, Contained, Phase
<1>3. Pending' = NoItem /\ Lost' = Lost \cup ({Pending} \ {NoItem})
  <2>1. NoItem \notin owed
    BY DEF TypeOK, ObserverTypeOK
  <2> QED BY <1>1, <2>1 DEF Pending, Lost, Debt
<1> QED BY <1>2, <1>3 DEF Promise!Next, Promise!Stop

LEMMA BootMaps ==
  ASSUME TypeOK, Debt, Starting \/ Booting
  PROVE  Promise!Next \/ UNCHANGED Promise!vars
<1>1. CASE Starting
  <2>1. /\ pc = "down" /\ pc' = "load_ioc" /\ matcher = {} /\ matcher' = matcher
        /\ UNCHANGED <<dir, owed>>
    BY <1>1 DEF Starting, Activate, DryRun, Begin, Step, Debt, host
  <2>2. UNCHANGED <<Suspects, Contained, Pending, Lost>>
    BY <2>1 DEF Suspects, Contained, Pending, Lost
  <2>3. Phase = "off" /\ Phase' \in {"watching", "armed"}
    BY <2>1 DEF Phase
  <2> QED BY <2>2, <2>3 DEF Promise!Next, Promise!Wake
<1>2. CASE LoadMatcher
  <2>1. /\ pc = "load_ioc" /\ pc' = "load_allow" /\ matcher = {}
        /\ UNCHANGED <<dir, dry, owed>>
    BY <1>2 DEF LoadMatcher, Step, Debt, host, observed
  <2>2. Phase # "off" /\ UNCHANGED <<Phase, Contained, Pending, Lost>>
    BY <2>1 DEF Phase, Quarantining, Contained, Pending, Lost
  <2>3. Suspects \subseteq Suspects' /\ Suspects' \subseteq Dirs
    BY <2>1 DEF Suspects
  <2> QED BY <2>2, <2>3 DEF Promise!Next, Promise!Suspect
<1>3. CASE LoadAllowlist \/ OpenProposals \/ BeginPoll
  <2>1. /\ pc \notin {"down", "emit"} /\ pc' \notin {"down", "emit"}
        /\ UNCHANGED <<dir, dry, held, matcher, owed>>
    BY <1>3 DEF LoadAllowlist, OpenProposals, BeginPoll, Step, host, memory, observed
  <2> QED BY <2>1 DEF Promise!vars, Phase, Suspects, Contained, Pending, Lost, Quarantining
<1> QED BY <1>1, <1>2, <1>3 DEF Booting

LEMMA PollMaps ==
  ASSUME Walk \/ Decide
  PROVE  UNCHANGED Promise!vars
<1>1. /\ pc \notin {"down", "emit"} /\ pc' \notin {"down", "emit"}
      /\ UNCHANGED <<dir, dry, held, matcher, owed>>
  BY DEF Walk, OpenHostRoot, OpenLayer, Open, VisitHost, VisitOverlay, Visit, WalkDone,
         Decide, ClassifyItem, ClassifyDone, Step, host, observed
<1> QED BY <1>1 DEF Promise!vars, Phase, Suspects, Contained, Pending, Lost, Quarantining

LEMMA HandlingMaps ==
  ASSUME TypeOK, Evidence, Debt, Handling
  PROVE  Promise!Next \/ UNCHANGED Promise!vars
<1> USE DEF Goto, Step
<1>1. /\ pc \in Acting /\ pc' \in Acting
      /\ UNCHANGED <<dry, matcher, held>>
  BY HandlingFrame
<1>2. Phase # "off" /\ UNCHANGED <<Phase, Suspects>>
  BY <1>1 DEF Phase, Quarantining, Suspects, Acting
<1>3. ASSUME NEW x \in Paths, verdict[x].tag = "IocMatch"
      PROVE  DirOf[x] \in Suspects
  BY <1>3 DEF Evidence, Suspects
<1>4. ASSUME NEW x \in Paths, ActQuarantine(x)
      PROVE  Promise!Next \/ UNCHANGED Promise!vars
  <2> DEFINE d == DirOf[x]
  <2>1. /\ pc = "act" /\ pc' = "emit" /\ cur' = x /\ verdict[x].tag = "IocMatch"
        /\ Quarantining /\ d \in Dirs /\ outcome' = Outcome(d, dir[d])
    BY <1>4 DEF ActQuarantine, Take
  <2>2. Pending = NoItem /\ Phase = "armed" /\ Lost = owed
    <3>1. NoItem \notin owed
      BY DEF TypeOK, ObserverTypeOK
    <3> QED BY <2>1, <3>1 DEF Pending, Phase, Lost
  <2>3. CASE Outcome(d, dir[d]) = "Applied"
    <3>1. d \notin Contained
      BY <2>3 DEF Outcome, Contained
    <3>2. dir' = [dir EXCEPT ![d].mode = "none"] /\ owed' = owed \cup {d}
      BY <1>4, <2>3 DEF ActQuarantine
    <3>3. Contained' = Contained \cup {d}
      <4>1. dir \in [Dirs -> DirState]
        BY DEF TypeOK, HostTypeOK
      <4>2. \A e \in Dirs : dir'[e].mode = "none" <=> (e = d \/ dir[e].mode = "none")
        BY <3>2, <4>1, <2>1 DEF DirState
      <4> QED BY <4>2, <2>1 DEF Contained
    <3>4. Pending' = d /\ Lost' = Lost \ {d}
      BY <2>1, <2>2, <2>3, <3>2 DEF Pending, Lost
    <3> QED BY <1>2, <1>3, <2>1, <2>2, <3>1, <3>3, <3>4 DEF Promise!Next, Promise!Contain
  <2>4. CASE Outcome(d, dir[d]) # "Applied"
    <3>1. UNCHANGED <<dir, owed>>
      BY <1>4, <2>4 DEF ActQuarantine
    <3>2. UNCHANGED <<Contained, Pending, Lost>>
      BY <2>1, <2>2, <2>4, <3>1 DEF Contained, Pending, Lost
    <3> QED BY <1>2, <3>2 DEF Promise!vars
  <2> QED BY <2>3, <2>4
<1>5. CASE Emit
  <2>1. /\ pc = "emit" /\ pc' # "emit" /\ UNCHANGED dir
        /\ owed' = IF outcome = "Failed" THEN owed ELSE owed \ {DirOf[cur]}
    BY <1>5 DEF Emit, host
  <2>2. cur \in Paths /\ verdict[cur].tag = "IocMatch" /\ DirOf[cur] \in Dirs \cap Suspects
    BY <2>1, <1>3 DEF Debt, Suspects
  <2>3. NoItem \notin owed /\ NoItem # DirOf[cur]
    BY <2>2 DEF TypeOK, ObserverTypeOK
  <2>4. Pending' = NoItem /\ Lost' = owed' /\ UNCHANGED Contained
    BY <2>1, <2>3 DEF Pending, Lost, Contained
  <2>5. CASE outcome = "Applied"
    <3>1. Pending # NoItem /\ Lost' = Lost
      BY <2>1, <2>3, <2>4, <2>5 DEF Pending, Lost
    <3> QED BY <1>2, <2>4, <3>1 DEF Promise!Next, Promise!Report
  <2>6. CASE outcome # "Applied"
    <3>1. Pending = NoItem /\ Lost = owed
      BY <2>3, <2>6 DEF Pending, Lost
    <3>2. CASE outcome = "Failed" \/ DirOf[cur] \notin owed
      BY <1>2, <2>1, <2>4, <3>1, <3>2 DEF Promise!vars
    <3>3. CASE outcome # "Failed" /\ DirOf[cur] \in owed
      BY <1>2, <2>1, <2>2, <2>4, <3>1, <3>3 DEF Promise!Next, Promise!Recall
    <3> QED BY <3>2, <3>3
  <2> QED BY <2>5, <2>6
<1>6. ASSUME NEW x \in Paths, ActReport(x)
      PROVE  Promise!Next \/ UNCHANGED Promise!vars
  <2>1. /\ pc = "act" /\ pc' = "act" /\ verdict[x].tag = "IocMatch"
        /\ owed' = owed \ {DirOf[x]} /\ UNCHANGED dir
    BY <1>6 DEF ActReport, Take, host
  <2>2. NoItem \notin owed
    BY DEF TypeOK, ObserverTypeOK
  <2>3. /\ Pending = NoItem /\ Pending' = NoItem /\ Lost = owed /\ Lost' = owed'
        /\ UNCHANGED Contained
    BY <2>1, <2>2 DEF Pending, Lost, Contained
  <2>4. CASE DirOf[x] \in owed
    BY <1>2, <1>3, <2>1, <2>3, <2>4 DEF Promise!Next, Promise!Recall
  <2>5. CASE DirOf[x] \notin owed
    BY <1>2, <2>1, <2>3, <2>5 DEF Promise!vars
  <2> QED BY <2>4, <2>5
<1>7. CASE \/ \E x \in Items : ActSkipped(x)
           \/ \E x \in Paths : ActAllowlisted(x) \/ ActUnknown(x)
           \/ MatchPushed \/ TickDone
  <2>1. pc # "emit" /\ pc' # "emit" /\ UNCHANGED <<dir, owed>>
    BY <1>7 DEF ActSkipped, ActAllowlisted, ActUnknown, MatchPushed, TickDone, Take,
                host, observed
  <2> QED BY <1>2, <2>1 DEF Promise!vars, Contained, Pending, Lost
<1> QED BY <1>4, <1>5, <1>6, <1>7 DEF Handling

LEMMA MovingMaps ==
  ASSUME TypeOK, Debt, Moving
  PROVE  Promise!Next \/ UNCHANGED Promise!vars
<1>1. UNCHANGED <<pc, dry, matcher, cur, outcome, owed>>
  BY MovingFrame
<1>2. UNCHANGED <<Phase, Pending, Lost>>
  BY <1>1 DEF Phase, Quarantining, Pending, Lost
<1>3. dir \in [Dirs -> DirState]
  BY DEF TypeOK, HostTypeOK
<1>4. ASSUME NEW d \in Dirs, UNCHANGED held, Contained' \in {Contained, Contained \ {d}}
      PROVE  Promise!Next \/ UNCHANGED Promise!vars
  <2>1. UNCHANGED Suspects
    BY <1>1, <1>4 DEF Suspects
  <2>2. CASE Contained' = Contained
    BY <1>2, <2>1, <2>2 DEF Promise!vars
  <2>3. CASE Contained' # Contained
    <3>0. d \notin Contained => Contained \ {d} = Contained
      OBVIOUS
    <3>1. d \in Contained /\ Contained' = Contained \ {d}
      BY <1>4, <2>3, <3>0
    <3> QED BY <1>2, <2>1, <3>1 DEF Promise!Next, Promise!Release
  <2> QED BY <2>2, <2>3
<1>5. ASSUME UNCHANGED Contained, NEW d \in Dirs, NEW S, Holding(d, S)
      PROVE  Promise!Next \/ UNCHANGED Promise!vars
  <2>1. CASE pc = "down"
    <3>1. UNCHANGED Suspects
      BY <1>1, <1>5, <2>1 DEF Holding, Suspects
    <3> QED BY <1>2, <1>5, <3>1 DEF Promise!vars
  <2>2. CASE pc # "down"
    <3>1. \A e \in Dirs : held[e] \subseteq held'[e]
      BY <1>5, <2>2 DEF Holding, TypeOK, ObserverTypeOK
    <3>2. Suspects \subseteq Suspects' /\ Suspects' \subseteq Dirs /\ Phase # "off"
      BY <1>1, <2>2, <3>1 DEF Suspects, Phase
    <3> QED BY <1>2, <1>5, <3>2 DEF Promise!Next, Promise!Suspect
  <2> QED BY <2>1, <2>2
<1>6. ASSUME NEW d \in Dirs, NEW mode \in {"shared", "private"}, NEW h \in Hashes,
             DropKit(d, mode, h)
      PROVE  Promise!Next \/ UNCHANGED Promise!vars
  <2>1. \A e \in Dirs : dir'[e].mode = "none" <=> dir[e].mode = "none"
    BY <1>3, <1>6 DEF DropKit, Debt
  <2>2. UNCHANGED Contained
    BY <2>1 DEF Contained
  <2> QED BY <1>5, <1>6, <2>2 DEF DropKit
<1>7. ASSUME NEW d \in Dirs, NEW f \in Files, NEW h \in Hashes \cup {NoFile},
             WriteFile(d, f, h)
      PROVE  Promise!Next \/ UNCHANGED Promise!vars
  <2>1. Rewritten(dir[d], f, h).mode = dir[d].mode
    BY <1>3 DEF Rewritten, DirState
  <2>2. \A e \in Dirs : dir'[e].mode = dir[e].mode
    BY <1>3, <1>7, <2>1 DEF WriteFile
  <2>3. UNCHANGED Contained
    BY <2>2 DEF Contained
  <2> QED BY <1>5, <1>7, <2>3 DEF WriteFile
<1>8. ASSUME NEW d \in Dirs,
             \/ \E mode \in {"shared", "private"} : Chmod(d, mode)
             \/ RemoveDir(d) \/ Age(d)
      PROVE  Promise!Next \/ UNCHANGED Promise!vars
  <2>1. UNCHANGED held /\ \A e \in Dirs \ {d} : dir'[e] = dir[e]
    BY <1>3, <1>8 DEF Chmod, RemoveDir, Age
  <2>2. dir'[d].mode # "none" \/ dir'[d].mode = dir[d].mode
    BY <1>3, <1>8 DEF Chmod, RemoveDir, Age, Absent, DirState
  <2>3. Contained' \in {Contained, Contained \ {d}}
    BY <2>1, <2>2 DEF Contained
  <2> QED BY <1>4, <2>1, <2>3
<1>9. CASE ListMove
  <2>1. UNCHANGED <<dir, held>>
    BY <1>9 DEF ListMove, ToggleRoot, EditAllowlist, EditIocs, ToggleDisk, host
  <2> QED BY <1>1, <2>1, Unseen
<1> QED BY <1>6, <1>7, <1>8, <1>9 DEF Moving, DirMove

-----------------------------------------------------------------------------

LEMMA StepMaps ==
  ASSUME TypeOK, Evidence, Debt, [Next]_vars
  PROVE  [Promise!Next]_(Promise!vars)
<1>1. CASE StopRequested
  BY <1>1, Unseen, StopFrame DEF StopRequested, memory
<1>2. CASE UNCHANGED vars
  BY <1>2, Unseen DEF vars, host, memory, observed
<1> QED BY <1>1, <1>2, StepKinds, LeavingMaps, BootMaps, PollMaps, HandlingMaps, MovingMaps

\* Whatever the host, the lists, the operator and the signals do, the daemon
\* contains directories only on evidence of the running activation, one at a
\* time, and loses the report of one only with its process.
THEOREM KeepsItsPromise == Spec => ImplementsContainment
<1>1. Init => Promise!Init /\ Debt
  BY DEF Init, Promise!Init, Phase, Suspects, Contained, Pending, Lost, Debt, Absent
<1>2. Init => Evidence
  BY DEF Init, Evidence, NoVerdicts, Plain, Acting, Items
<1>3. TypeOK /\ Evidence /\ [Next]_vars => Evidence'
  BY EvidenceStep
<1>4. TypeOK /\ Debt /\ [Next]_vars => Debt'
  BY DebtStep
<1>5. TypeOK /\ Evidence /\ Debt /\ [Next]_vars => [Promise!Next]_(Promise!vars)
  BY StepMaps
<1> QED BY <1>1, <1>2, <1>3, <1>4, <1>5, TypeCorrect, PTL
        DEF Spec, ImplementsContainment, Promise!Spec
=============================================================================
