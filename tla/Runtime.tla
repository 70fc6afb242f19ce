------------------------------- MODULE Runtime -------------------------------
(***************************************************************************)
(* The scanner daemon: one process activation per timer tick, from reading *)
(* its lists to the tick summary (Runtime::new, run and run_once), with    *)
(* the host it watches. The process is sequential, but everything it reads *)
(* may change between two of its steps: malware writes and removes files,  *)
(* the operator edits the lists and undoes quarantines, SIGTERM arrives,   *)
(* the process is killed. All of its memory is lost when it exits.         *)
(*                                                                         *)
(* The NTFY pushes are the only points where the process waits and so the  *)
(* only points where a stop request can interrupt a poll that has begun.   *)
(***************************************************************************)
EXTENDS Subsystem, Severity

CONSTANTS
  OverlayRoots,  \* tmp/ of the container layers (overlay_scan.roots)
  Paths,         \* the paths the walks can reach below the roots
  RootOf,        \* Paths -> HostRoots \cup OverlayRoots
  DirOf,         \* Paths -> Dirs
  NameOf,        \* Paths -> Names
  Names,         \* basenames
  AtMaxDepth,    \* host paths at depth scan_maxdepth, never descended into
  Rank,          \* position in the walk's output: host sorted, then overlay
  NoItem,        \* no item in hand
  Broken,        \* a list file that cannot be loaded
  QuarantineOn,  \* actions.quarantine_on_ioc_match
  NtfyOn,        \* actions.ntfy_url is set, to a URL a request can be sent to
  MaxMoves,      \* bound: changes made by the host, operator and signals
  MaxCrashes     \* bound: kills of the process

Roots == HostRoots \cup OverlayRoots
Items == Paths \cup HostRoots      \* what a candidate can stand for

ASSUME RuntimeAssumption ==
  /\ HostRoots \cap OverlayRoots = {}
  /\ Paths \cap HostRoots = {}
  /\ NoItem \notin Items \cup Dirs
  /\ IsFiniteSet(Items)
  /\ RootOf \in [Paths -> Roots]
  /\ DirOf \in [Paths -> Dirs]
  /\ NameOf \in [Paths -> Names]
  /\ AtMaxDepth \subseteq Paths
  /\ Rank \in [Items -> Nat]
  /\ \A x, y \in Items : Rank[x] = Rank[y] => x = y
  /\ QuarantineOn \in BOOLEAN
  /\ NtfyOn \in BOOLEAN
  /\ MaxMoves \in Nat
  /\ MaxCrashes \in Nat

HostPath(p) == RootOf[p] \in HostRoots

VARIABLES
  (* the host *)
  dir,        \* [Dirs -> DirState]
  rootOk,     \* [Roots -> BOOLEAN]: read_dir of the root succeeds
  allowFile,  \* the allowlist file: the basenames its globs match, or Broken
  iocFile,    \* the IOC list file: its hashes, or Broken
  proposals,  \* keys of the proposal file
  writable,   \* the proposal file can be opened and written
  (* the process *)
  pc, dry, stop, matcher, allow,
  roots,      \* roots still to be opened
  todo,       \* items still to be handled in this phase
  cand,       \* [Items -> Candidate]
  verdict,    \* [Items -> Verdict]
  sum,        \* RunSummary
  cur,        \* the item whose quarantine or push is in progress
  outcome,    \* QuarantineOutcome of cur
  (* observers, read by no action *)
  held,       \* contents each directory has had since the activation began
  result,     \* [Items -> Outcomes \cup {"none"}]: how its quarantine went in this tick
  late,       \* quarantines applied since the activation was asked to stop
  owed,       \* directories set to 000 and not yet journaled as IOC match
  (* bounds *)
  moves, crashes

host     == <<dir, rootOk, allowFile, iocFile>>
disk     == <<proposals, writable>>
memory   == <<dry, matcher, allow, roots, todo, cand, verdict, sum, cur, outcome>>
observed == <<held, result, late, owed>>
bounds   == <<moves, crashes>>
vars     == <<host, disk, pc, stop, memory, observed, bounds>>

Phases == {"down", "load_ioc", "load_allow", "open_proposals", "select",
           "scan", "classify", "act", "emit", "push_match", "push_summary"}

NoCandidates == [x \in Items |-> NoCandidate]
NoVerdicts   == [x \in Items |-> Plain("pending")]
NoResults    == [x \in Items |-> "none"]
NothingHeld  == [d \in Dirs |-> {}]

Init ==
  /\ dir = [d \in Dirs |-> Absent]
  /\ rootOk = [r \in Roots |-> TRUE]
  /\ allowFile \in SUBSET Names
  /\ iocFile \in SUBSET Hashes
  /\ proposals = {} /\ writable = TRUE
  /\ pc = "down" /\ dry = FALSE /\ stop = FALSE
  /\ matcher = {} /\ allow = {} /\ roots = {} /\ todo = {}
  /\ cand = NoCandidates /\ verdict = NoVerdicts /\ sum = FreshSummary(0)
  /\ cur = NoItem /\ outcome = "none"
  /\ held = NothingHeld /\ result = NoResults
  /\ late = 0 /\ owed = {}
  /\ moves = 0 /\ crashes = 0

-----------------------------------------------------------------------------
(* Helpers *)

\* The loops over roots and candidates go in the order of the walk's output.
IsNext(x, S) == x \in S /\ \A y \in S : Rank[x] <= Rank[y]

Goto(label) == pc' = label

\* The process exits: nothing of its memory survives.
Leave ==
  /\ Goto("down") /\ dry' = FALSE /\ stop' = FALSE
  /\ matcher' = {} /\ allow' = {} /\ roots' = {} /\ todo' = {}
  /\ cand' = NoCandidates /\ verdict' = NoVerdicts /\ sum' = FreshSummary(0)
  /\ cur' = NoItem /\ outcome' = "none"
  /\ held' = NothingHeld /\ result' = NoResults
  /\ late' = 0
  /\ UNCHANGED owed

Step(from, to) == pc = from /\ pc' = to

-----------------------------------------------------------------------------
(* Boot *)

\* The timer, or Restart=on-failure, starts the service; the operator starts a
\* --dry-run by hand.
Begin(isDry) ==
  /\ Step("down", "load_ioc")
  /\ dry' = isDry
  /\ held' = [d \in Dirs |-> ContentsOf(dir[d])]
  /\ UNCHANGED <<host, disk, stop, matcher, allow, roots, todo, cand, verdict,
                 sum, cur, outcome, result, late, owed>>

Activate == Begin(FALSE) /\ UNCHANGED bounds

DryRun ==
  /\ moves < MaxMoves
  /\ moves' = moves + 1
  /\ Begin(TRUE)
  /\ UNCHANGED crashes

\* Runtime::new: any error of Matcher::load leaves the matcher empty.
LoadMatcher ==
  /\ Step("load_ioc", "load_allow")
  /\ matcher' = IF iocFile = Broken THEN {} ELSE iocFile
  /\ UNCHANGED <<host, disk, stop, dry, allow, roots, todo, cand, verdict, sum,
                 cur, outcome, observed, bounds>>

\* Runtime::new: an allowlist that is missing or may not be opened is empty, one that
\* fails otherwise is fatal.
LoadAllowlist ==
  /\ allowFile # Broken
  /\ Step("load_allow", "open_proposals")
  /\ allow' = allowFile
  /\ UNCHANGED <<host, disk, stop, dry, matcher, roots, todo, cand, verdict,
                 sum, cur, outcome, observed, bounds>>

OpenProposals ==
  /\ writable
  /\ Step("open_proposals", "select")
  /\ UNCHANGED <<host, disk, stop, memory, observed, bounds>>

BootFails ==
  /\ \/ pc = "load_allow" /\ allowFile = Broken
     \/ pc = "open_proposals" /\ ~writable
  /\ Leave
  /\ UNCHANGED <<host, disk, bounds>>

\* The biased select! of Runtime::run looks at the stop request first; a
\* --dry-run calls run_once directly.
BeginPoll ==
  /\ ~stop
  /\ Step("select", "scan")
  /\ roots' = Roots
  /\ UNCHANGED <<host, disk, stop, dry, matcher, allow, todo, cand, verdict,
                 sum, cur, outcome, observed, bounds>>

StopBeforePoll ==
  /\ pc = "select" /\ stop
  /\ Leave
  /\ UNCHANGED <<host, disk, bounds>>

-----------------------------------------------------------------------------
(* Walk *)

Below(r) == {p \in Paths : RootOf[p] = r /\ dir[DirOf[p]].live}

\* The roots are walked one after the other, those of the host first.
Open(r) ==
  /\ pc = "scan" /\ r \in roots /\ todo = {}
  /\ roots' = roots \ {r}
  /\ todo' = IF rootOk[r] THEN Below(r) ELSE {}
  /\ UNCHANGED <<host, disk, pc, stop, dry, matcher, allow, verdict, sum, cur,
                 outcome, observed, bounds>>

\* walk_recursive at a scan root: one that cannot be read is a candidate itself.
OpenHostRoot(r) ==
  /\ Open(r)
  /\ cand' = IF rootOk[r] THEN cand ELSE [cand EXCEPT ![r] = IoError]

\* discover_layers, and walk_overlay at the layer's tmp/: one that cannot be read
\* is only logged.
OpenLayer(r) ==
  /\ roots \cap HostRoots = {}
  /\ Open(r)
  /\ UNCHANGED cand

\* Mutant: the scan window the wrong way round.
HostCandidatesOld(d, s, p) ==
  CASE ~s.live               -> {NoCandidate, IoError}
    [] s.live /\ ~s.recent   -> {CollectEntries(d, s)}
    [] OTHER                 -> {NoCandidate}

\* walk_recursive at a dotdir: a recent one is a candidate, an old one is only
\* descended into. One that vanished since it was listed is passed over, or
\* fails the stat when it vanished after is_dir.
HostCandidates(d, s, p) ==
  CASE ~s.live                 -> {NoCandidate, IoError}
    [] s.live /\ s.recent      -> {CollectEntries(d, s)}
    [] s.live /\ ~s.recent /\ p \notin AtMaxDepth /\ ~Readable(d, s) -> {IoError}
    [] OTHER                   -> {NoCandidate}

\* walk_overlay and walk_overlay_recursive: allowlisted names are dropped here,
\* an unreadable directory yields no candidate, neither the scan window nor
\* MaxFiles applies.
OverlayCandidates(d, s, p) ==
  IF s.live /\ Readable(d, s) /\ NameOf[p] \notin allow
    THEN {[entries |-> FilesIn(s), skip |-> "none"]} ELSE {NoCandidate}

\* One directory of the walk becomes a candidate or is passed over.
Visit(p, candidates) ==
  /\ pc = "scan" /\ p \in todo
  /\ todo' = todo \ {p}
  /\ \E c \in candidates : cand' = [cand EXCEPT ![p] = c]
  /\ UNCHANGED <<host, disk, pc, stop, dry, matcher, allow, roots, verdict, sum,
                 cur, outcome, observed, bounds>>

VisitHost(p) ==
  HostPath(p) /\ Visit(p, HostCandidates(DirOf[p], dir[DirOf[p]], p))

VisitOverlay(p) ==
  ~HostPath(p) /\ Visit(p, OverlayCandidates(DirOf[p], dir[DirOf[p]], p))

Found == {x \in Items : cand[x].skip # "absent"}

WalkDone ==
  /\ roots = {} /\ todo = {}
  /\ Step("scan", "classify")
  /\ todo' = Found
  /\ UNCHANGED <<host, disk, stop, dry, matcher, allow, roots, cand, verdict,
                 sum, cur, outcome, observed, bounds>>

-----------------------------------------------------------------------------
(* Classification: every candidate is classified before the first is acted on *)

Verdicts(x) ==
  IF x \in HostRoots THEN {Plain("Skipped")}
  ELSE Classify(DirOf[x], dir[DirOf[x]], cand[x], NameOf[x] \in allow, matcher)

ClassifyItem(x) ==
  /\ pc = "classify" /\ IsNext(x, todo)
  /\ \E v \in Verdicts(x) : verdict' = [verdict EXCEPT ![x] = v]
  /\ todo' = todo \ {x}
  /\ UNCHANGED <<host, disk, pc, stop, dry, matcher, allow, roots, cand, sum,
                 cur, outcome, held, result, late, owed, bounds>>

ClassifyDone ==
  /\ todo = {}
  /\ Step("classify", "act")
  /\ todo' = Found
  /\ sum' = FreshSummary(Cardinality(Found))
  /\ UNCHANGED <<host, disk, stop, dry, matcher, allow, roots, cand, verdict,
                 cur, outcome, observed, bounds>>

-----------------------------------------------------------------------------
(* Acting on the decisions, in order *)

Take(x, tag) ==
  /\ pc = "act" /\ IsNext(x, todo)
  /\ verdict[x].tag = tag
  /\ todo' = todo \ {x}
  /\ UNCHANGED <<stop, dry, matcher, allow, roots, cand, verdict, bounds>>

\* Mutant: any skipped candidate is taken for an unreadable root.
ActSkippedAsRoot(x) ==
  /\ Take(x, "Skipped")
  /\ sum' = [sum EXCEPT !.skipped = @ + 1, !.unreadable = @ \cup {x}]
  /\ UNCHANGED <<host, disk, pc, cur, outcome, observed>>

ActSkipped(x) ==
  /\ Take(x, "Skipped")
  /\ sum' = [sum EXCEPT !.skipped = @ + 1,
                        !.unreadable = IF x \in HostRoots THEN @ \cup {x} ELSE @]
  /\ UNCHANGED <<host, disk, pc, cur, outcome, observed>>

\* Mutant: an allowlisted candidate is passed over without being counted.
ActAllowlistedUncounted(x) ==
  /\ Take(x, "Allowlisted")
  /\ UNCHANGED <<host, disk, pc, sum, cur, outcome, observed>>

ActAllowlisted(x) ==
  /\ Take(x, "Allowlisted")
  /\ sum' = [sum EXCEPT !.allowlisted = @ + 1]
  /\ UNCHANGED <<host, disk, pc, cur, outcome, observed>>

\* Mutant: --dry-run does not force the quarantine off.
QuarantiningDry == QuarantineOn

Quarantining == QuarantineOn /\ ~dry

\* The quarantine call of an IOC match. Its journal event follows in a step of
\* its own: the process can be killed in between.
ActQuarantine(x) ==
  LET d == DirOf[x]
      o == Outcome(d, dir[d]) IN
  /\ Quarantining
  /\ Take(x, "IocMatch")
  /\ Goto("emit") /\ cur' = x /\ outcome' = o
  /\ dir' = IF o = "Applied" THEN [dir EXCEPT ![d].mode = "none"] ELSE dir
  /\ sum' = [sum EXCEPT !.iocMatches = @ + 1,
                        !.quarantined = IF o = "Applied" THEN @ + 1 ELSE @]
  /\ owed' = IF o = "Applied" THEN owed \cup {d} ELSE owed
  /\ result' = [result EXCEPT ![x] = o]
  /\ late' = IF stop /\ o = "Applied" THEN late + 1 ELSE late
  /\ UNCHANGED <<rootOk, allowFile, iocFile, disk, held>>

\* Mutant: the match is pushed before it is journaled.
EmitAfterPush ==
  /\ pc = "emit"
  /\ IF outcome = "Applied" /\ NtfyOn
       THEN Goto("push_match") /\ UNCHANGED <<cur, outcome, owed>>
       ELSE /\ Goto("act") /\ cur' = NoItem /\ outcome' = "none"
            /\ owed' = owed \ {DirOf[cur]}
  /\ UNCHANGED <<host, disk, stop, dry, matcher, allow, roots, todo, cand,
                 verdict, sum, held, result, late, bounds>>

\* Mutant: a directory that is already 000 is not worth an event.
EmitAppliedOnly ==
  /\ pc = "emit"
  /\ owed' = IF outcome = "Applied" THEN owed \ {DirOf[cur]} ELSE owed
  /\ IF outcome = "Applied" /\ NtfyOn
       THEN Goto("push_match") /\ UNCHANGED <<cur, outcome>>
       ELSE Goto("act") /\ cur' = NoItem /\ outcome' = "none"
  /\ UNCHANGED <<host, disk, stop, dry, matcher, allow, roots, todo, cand,
                 verdict, sum, held, result, late, bounds>>

\* emit_ioc_match or emit_ioc_quarantine_failed; only a quarantine applied by
\* this tick is pushed.
Emit ==
  /\ pc = "emit"
  /\ owed' = IF outcome = "Failed" THEN owed ELSE owed \ {DirOf[cur]}
  /\ IF outcome = "Applied" /\ NtfyOn
       THEN Goto("push_match") /\ UNCHANGED <<cur, outcome>>
       ELSE Goto("act") /\ cur' = NoItem /\ outcome' = "none"
  /\ UNCHANGED <<host, disk, stop, dry, matcher, allow, roots, todo, cand,
                 verdict, sum, held, result, late, bounds>>

\* With quarantine off the match is only journaled.
ActReport(x) ==
  /\ ~Quarantining
  /\ Take(x, "IocMatch")
  /\ sum' = [sum EXCEPT !.iocMatches = @ + 1]
  /\ owed' = owed \ {DirOf[x]}
  /\ UNCHANGED <<host, disk, pc, cur, outcome, held, result, late>>

\* The candidate's first entry is hashed again for the proposal; an entry that
\* is gone by now leaves the hash out.
ProposalKeys(x) ==
  LET d == DirOf[x]
      readable == Hashable(d, dir[d], cand[x]) IN
  {<<NameOf[x], dir[d].file[f]>> : f \in readable}
    \cup (IF readable # cand[x].entries \/ cand[x].entries = {}
            THEN {<<NameOf[x], NoFile>>} ELSE {})

\* Proposer::observe appends unless the key is known; its failure is logged.
ActUnknown(x) ==
  /\ Take(x, "Unknown")
  /\ sum' = [sum EXCEPT !.unknown = @ + 1]
  /\ \E k \in ProposalKeys(x) :
       proposals' = IF writable THEN proposals \cup {k} ELSE proposals
  /\ UNCHANGED <<host, writable, pc, cur, outcome, observed>>

-----------------------------------------------------------------------------
(* The two waiting points, and the end of the tick *)

\* Mutant: the push does not notice a stop request.
MatchPushedDeaf ==
  /\ Step("push_match", "act")
  /\ cur' = NoItem /\ outcome' = "none"
  /\ UNCHANGED <<host, disk, stop, dry, matcher, allow, roots, todo, cand,
                 verdict, sum, observed, bounds>>

\* Mutant: a push that fails is sent again, without end.
MatchPushedRetry ==
  /\ pc = "push_match" /\ ~stop
  /\ UNCHANGED vars

\* The match push answered, failed or timed out: a failure is logged and the
\* loop goes on with the next candidate.
MatchPushed ==
  /\ ~stop
  /\ Step("push_match", "act")
  /\ cur' = NoItem /\ outcome' = "none"
  /\ UNCHANGED <<host, disk, stop, dry, matcher, allow, roots, todo, cand,
                 verdict, sum, observed, bounds>>

\* A stop request makes select! drop the poll at the push it waits in.
Cancel ==
  /\ pc \in {"push_match", "push_summary"} /\ stop /\ NtfyOn
  /\ Leave
  /\ UNCHANGED <<host, disk, bounds>>

\* All candidates handled: the summary is logged, then posted.
TickDone ==
  /\ pc = "act" /\ todo = {}
  /\ Goto("push_summary")
  /\ UNCHANGED <<host, disk, stop, memory, observed, bounds>>

SummaryPushed ==
  /\ pc = "push_summary" /\ (~stop \/ ~NtfyOn)
  /\ Leave
  /\ UNCHANGED <<host, disk, bounds>>

\* SIGTERM or SIGINT, turned into a stop request once the handlers are in place.
\* A --dry-run installs none: there the signal is a Crash.
StopRequested ==
  /\ pc # "down" /\ ~dry /\ ~stop
  /\ moves < MaxMoves /\ moves' = moves + 1
  /\ stop' = TRUE
  /\ UNCHANGED <<host, disk, pc, memory, observed, crashes>>

\* SIGKILL, the OOM killer, a power loss.
Crash ==
  /\ pc # "down"
  /\ crashes < MaxCrashes /\ crashes' = crashes + 1
  /\ Leave
  /\ UNCHANGED <<host, disk, moves>>

-----------------------------------------------------------------------------
(* The host: malware, other users and the operator *)

Move ==
  /\ moves < MaxMoves /\ moves' = moves + 1
  /\ UNCHANGED <<pc, stop, memory, result, late, owed, crashes, proposals>>

\* The observer of contents, while an activation is running.
Holding(d, contents) ==
  held' = IF pc = "down" THEN held ELSE [held EXCEPT ![d] = @ \cup contents]

DropKit(d, mode, h) ==
  /\ ~dir[d].live /\ Move
  /\ \E f \in Files :
       dir' = [dir EXCEPT ![d] = [live |-> TRUE, mode |-> mode, recent |-> TRUE,
                                  file |-> [Absent.file EXCEPT ![f] = h]]]
  /\ Holding(d, {h})
  /\ UNCHANGED <<rootOk, allowFile, iocFile, writable>>

\* Creating or deleting a file renews the directory's mtime; overwriting one
\* does not.
Rewritten(s, f, h) ==
  [s EXCEPT !.file[f] = h,
            !.recent = s.recent \/ h = NoFile \/ s.file[f] = NoFile]

WriteFile(d, f, h) ==
  /\ dir[d].live /\ dir[d].mode # "none" /\ dir[d].file[f] # h /\ Move
  /\ dir' = [dir EXCEPT ![d] = Rewritten(@, f, h)]
  /\ Holding(d, {h} \ {NoFile})
  /\ UNCHANGED <<rootOk, allowFile, iocFile, writable>>

RemoveDir(d) ==
  /\ dir[d].live /\ Move
  /\ dir' = [dir EXCEPT ![d] = Absent]
  /\ UNCHANGED <<rootOk, allowFile, iocFile, writable, held>>

Age(d) ==
  /\ dir[d].live /\ dir[d].recent /\ Move
  /\ dir' = [dir EXCEPT ![d].recent = FALSE]
  /\ UNCHANGED <<rootOk, allowFile, iocFile, writable, held>>

\* chmod 700 or 755 by the owner, or by the operator rolling a quarantine back.
Chmod(d, mode) ==
  /\ dir[d].live /\ dir[d].mode # mode /\ Move
  /\ dir' = [dir EXCEPT ![d].mode = mode]
  /\ UNCHANGED <<rootOk, allowFile, iocFile, writable, held>>

ToggleRoot(r) ==
  /\ Move
  /\ rootOk' = [rootOk EXCEPT ![r] = ~@]
  /\ UNCHANGED <<dir, allowFile, iocFile, writable, held>>

EditAllowlist(S) ==
  /\ Move
  /\ allowFile' = S
  /\ UNCHANGED <<dir, rootOk, iocFile, writable, held>>

EditIocs(S) ==
  /\ Move
  /\ iocFile' = S
  /\ UNCHANGED <<dir, rootOk, allowFile, writable, held>>

ToggleDisk ==
  /\ Move
  /\ writable' = ~writable
  /\ UNCHANGED <<host, held>>

-----------------------------------------------------------------------------
(* Specification *)

Boot == LoadMatcher \/ LoadAllowlist \/ OpenProposals \/ BootFails
        \/ BeginPoll \/ StopBeforePoll

Walk == \/ \E r \in HostRoots : OpenHostRoot(r)
        \/ \E r \in OverlayRoots : OpenLayer(r)
        \/ \E p \in Paths : VisitHost(p) \/ VisitOverlay(p)
        \/ WalkDone

Decide == \/ \E x \in Items : ClassifyItem(x)
          \/ ClassifyDone

Act == \/ \E x \in Items : ActSkipped(x)
       \/ \E x \in Paths : \/ ActAllowlisted(x) \/ ActQuarantine(x)
                           \/ ActReport(x) \/ ActUnknown(x)
       \/ Emit \/ MatchPushed \/ Cancel \/ TickDone \/ SummaryPushed

Process == Boot \/ Walk \/ Decide \/ Act

World ==
  \/ \E d \in Dirs :
       \/ \E mode \in {"shared", "private"} :
            Chmod(d, mode) \/ \E h \in Hashes : DropKit(d, mode, h)
       \/ \E f \in Files, h \in Hashes \cup {NoFile} : WriteFile(d, f, h)
       \/ RemoveDir(d) \/ Age(d)
  \/ \E r \in Roots : ToggleRoot(r)
  \/ \E S \in (SUBSET Names) \cup {Broken} : EditAllowlist(S)
  \/ \E S \in (SUBSET Hashes) \cup {Broken} : EditIocs(S)
  \/ ToggleDisk \/ StopRequested \/ DryRun

Next == Activate \/ Process \/ World \/ Crash

Spec == Init /\ [][Next]_vars

\* The timer always fires again, an exited process is restarted by it, and a
\* running process always gets to its next step: system calls return and every
\* push ends, by its 5 second timeout at the latest.
Fairness == WF_vars(Activate) /\ WF_vars(Process)

FairSpec == Spec /\ Fairness

-----------------------------------------------------------------------------
(* Properties *)

Summarised == pc = "push_summary"

HostTypeOK ==
  /\ dir \in [Dirs -> DirState]
  /\ rootOk \in [Roots -> BOOLEAN]
  /\ allowFile \in (SUBSET Names) \cup {Broken}
  /\ iocFile \in (SUBSET Hashes) \cup {Broken}
  /\ proposals \subseteq Names \X (Hashes \cup {NoFile})
  /\ writable \in BOOLEAN

ProcessTypeOK ==
  /\ pc \in Phases
  /\ dry \in BOOLEAN /\ stop \in BOOLEAN
  /\ matcher \subseteq Hashes /\ allow \subseteq Names
  /\ roots \subseteq Roots /\ todo \subseteq Items
  /\ cand \in [Items -> Candidate]
  /\ verdict \in [Items -> Verdict]
  /\ sum \in RunSummary
  /\ cur \in Paths \cup {NoItem}
  /\ outcome \in Outcomes \cup {"none"}

ObserverTypeOK ==
  /\ held \in [Dirs -> SUBSET Hashes]
  /\ result \in [Items -> Outcomes \cup {"none"}]
  /\ late \in Nat
  /\ owed \subseteq Dirs
  /\ moves \in 0..MaxMoves /\ crashes \in 0..MaxCrashes

\* Every variable has its type: in particular cand and verdict are functions on
\* all items, and no counter of the summary holds a path that is no scan root.
TypeOK == HostTypeOK /\ ProcessTypeOK /\ ObserverTypeOK

\* A directory is set to 000 only by an activation that may quarantine, that has
\* loaded an allowlist without the directory's name, and during which the
\* directory held a content of the loaded IOC list: run_once acts on decisions
\* taken before, while the directory and the files of the lists keep changing.
JustifiedQuarantine ==
  [][ \A d \in Dirs :
        dir[d].mode # "none" /\ dir'[d].mode = "none" =>
          /\ QuarantineOn /\ ~dry
          /\ held[d] \cap matcher # {}
          /\ \E p \in Paths : DirOf[p] = d /\ NameOf[p] \notin allow ]_vars

\* The counters of run_once account for every candidate of the walk exactly
\* once, whatever happens to the directories meanwhile.
Tally ==
  pc \in {"act", "emit", "push_match", "push_summary"} =>
    /\ sum.candidates = sum.allowlisted + sum.iocMatches + sum.unknown
                          + sum.skipped + Cardinality(todo)
    /\ sum.quarantined <= sum.iocMatches
    /\ Cardinality(sum.unreadable) <= sum.skipped

\* A summary posted as Info tells the truth: the walk found something, no scan
\* root and no candidate was left out, and every IOC match was quarantined.
InfoIsClean ==
  Summarised /\ FromRunSummary(sum) = "Info" =>
    /\ Found # {}
    /\ \A x \in Found : cand[x].skip = "none"
    /\ \A x \in Found : verdict[x].tag = "IocMatch" => result[x] = "Applied"

\* A quarantine that failed makes the whole tick an Error, also when other
\* candidates of the tick were skipped or quarantined.
FailureIsUrgent ==
  Summarised /\ (\E x \in Items : result[x] = "Failed") => FromRunSummary(sum) = "Error"

\* Whatever this tick quarantined is in the journal before its match is pushed,
\* before the next candidate is acted on and before the summary goes out.
JournalFirst ==
  pc \in {"act", "push_match", "push_summary"} =>
    \A x \in Paths : result[x] = "Applied" => DirOf[x] \notin owed

\* The directory of a path can still be quarantined: a threat the next poll has
\* everything it needs to find and contain.
Threat(p) ==
  LET s == dir[DirOf[p]] IN
  /\ QuarantineOn /\ writable
  /\ allowFile # Broken /\ iocFile # Broken
  /\ NameOf[p] \notin allowFile
  /\ ContentsOf(s) \cap iocFile # {}
  /\ s.live /\ s.mode # "none"
  /\ Outcome(DirOf[p], s) = "Applied"
  /\ rootOk[RootOf[p]] /\ Readable(DirOf[p], s)
  /\ HostPath(p) => s.recent /\ Cardinality(FilesIn(s)) <= MaxFiles

\* No such threat lasts: the polls contain it, however lists, directories,
\* stops and crashes interfered before (quarantine on match, README "What it does").
ThreatContained == \A p \in Paths : Threat(p) ~> ~Threat(p)

\* A directory quarantined by a process that died before it wrote the journal
\* is journaled by a later poll, as long as it still matches
\* (the AlreadyQuarantined arm of run_once).
StillMatches(p) ==
  LET s == dir[DirOf[p]] IN
  /\ Privileged /\ writable
  /\ allowFile # Broken /\ iocFile # Broken
  /\ NameOf[p] \notin allowFile
  /\ s.live /\ ContentsOf(s) \cap iocFile # {}
  /\ rootOk[RootOf[p]]
  /\ HostPath(p) => s.recent /\ Cardinality(FilesIn(s)) <= MaxFiles

QuarantineJournaled ==
  \A p \in Paths :
    DirOf[p] \in owed /\ StillMatches(p) ~> DirOf[p] \notin owed \/ ~StillMatches(p)

\* An activation is one poll and ends (ARCHITECTURE.md, invariant 2).
ActivationEnds == pc # "down" ~> pc = "down"

\* After a stop request at most one more directory is quarantined: run drops the
\* poll at the next push ("interrupts the poll cleanly inside one activation").
StopIsPrompt == late <= 1

-----------------------------------------------------------------------------
(* Refinement *)

Phase     == IF pc = "down" THEN "off" ELSE IF Quarantining THEN "armed" ELSE "watching"
Suspects  == {d \in Dirs : held[d] \cap matcher # {}}
Contained == {d \in Dirs : dir[d].mode = "none"}

\* The quarantine that is not in the journal yet, and those that never got there.
Pending == IF pc = "emit" /\ outcome = "Applied" THEN DirOf[cur] ELSE NoItem
Lost    == owed \ {Pending}

Promise == INSTANCE Containment WITH
  Nobody <- NoItem, phase <- Phase, suspects <- Suspects, contained <- Contained,
  pending <- Pending, lost <- Lost

\* The daemon does what Containment promises: run_once and everything that goes
\* on around it is, seen from the directories and the journal, a sequence of
\* evidence, containment and report, cut short only by the end of the process.
ImplementsContainment == Promise!Spec

-----------------------------------------------------------------------------
(* What the documents say and the code does not do *)

\* main.rs: --dry-run must not mutate the host.
DryRunLeavesHost == [][dry /\ dry' => proposals' = proposals]_vars
=============================================================================
