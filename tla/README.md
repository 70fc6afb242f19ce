# tmp-watcher: verification project

TLA+ models of the `demon-tmp-dotdir-watcher` daemon (Rust, `src/src/`): a scanner that
a systemd timer starts every few minutes, that looks for hidden directories below
`/tmp`-like roots of the host and of container layers, quarantines those that hold
a file of a known hash by setting them to mode 000, and reports each tick.
TLC checks small instances of the models; TLAPS proves theorems about them for
every instance.

## 1. Inventory

| Component (source) | State it keeps | Operations | Interacts with |
|---|---|---|---|
| **runtime** (`runtime.rs`) | lists and `Proposer` of one activation, counters of one tick | `new`, `run`, `run_once` | calls everything below; `select!` between a poll and the stop request |
| **subsystem** (`subsystem.rs`) | none (functions over the file system) | `walk`, `walk_recursive`, `walk_decision_pipeline`, `classify`, `quarantine` | reads and chmods the host |
| **overlay** (`overlay.rs`) | none | `discover_layers`, `walk_overlay`, `walk_overlay_recursive`, `walk_all_overlays` | reads container layers; its candidates join the host's |
| **ioc / allowlist** (`ioc.rs`, `allowlist.rs`) | the list loaded at boot | `load`, `contains`, `hash_file`, `allows` | files the operator edits at any time |
| **output** (`output.rs`) | none | journal events, `push_tick_summary_with_headers`, `ntfy_push`, `Severity::from_run_summary` | journal; an NTFY server, 5 s timeout, no retry |
| **learn** (`learn.rs`) | known keys, age of the file | `Proposer::new`, `observe`, `rotate` | the proposal file, also written by the next one |
| **cross_host** (`cross_host.rs`, its bin) | hosts seen per key | `Aggregator::new`, `poll_once` | the proposal file; a `Sink` (only the empty `NullSink` exists) |
| **main** (`main.rs`) | the command line | `parse_args`, `--help`, `--validate-config`, `--dry-run`, logging, signal task | loads the configuration, builds and runs the runtime |
| **config** (`config.rs`) | the configuration | `load_config`, `apply_env_overrides`, `validate` | a file the operator edits; the environment |
| **systemd units** (`contrib/`, `packaging/`) | - | timer, `Restart=on-failure`, capability set | start the processes again |

**Hard behaviours.** The daemon is one sequential process; what is hard about it is
everything around it. Every directory, list and file it looks at may change between
two of its steps; candidates are all classified before the first one is acted on;
the only waiting points are the two pushes, so a stop request takes effect there or
nowhere; a kill loses all memory and may separate a chmod from its journal event,
or either from its alert; a request that timed out may still arrive, one that arrived
may go unanswered, and neither is repeated. A container directory is met twice in one
poll, through `diff/` and `merged/`, and quarantining a directory makes what is below
it unreachable, so that the order of the candidates matters. The shipped unit runs
without capabilities: a foreign directory cannot be chmodded, and a directory at 000
can no longer be read by the daemon itself. Two programs and a `--dry-run` share the
proposal file without a lock. What a process runs on comes from a file, defaults, an
environment and arguments in any order, and the file may be edited between two loads.
`PROJECT.json` lists these as hazards, each at its line, with the properties that
cover it or why none does.

**What makes each component correct.**
- *runtime, subsystem*: only directories with evidence seen in this activation and no
  allowlisted name are quarantined; nothing is quarantined silently; the tick's summary
  and its severity agree with what was done; a stop is obeyed; every activation ends;
  every containable threat is contained in the end.
- *the walks of subsystem and overlay*: what lies within the depth is found or the place
  where the view ended is reported; a poll's own quarantines defeat none of its later ones.
- *output*: one alert per quarantine at most, no silent loss, a failed push stops nothing,
  and the operator hears of what stays in quarantine.
- *learn, cross_host*: no line is lost, no key is suppressed that is nowhere, none is proposed
  twice in a file, across rotation, restart, failing calls and a second writer, as far as keys
  can be told apart on file; the count of hosts is a count of hosts.
- *main, config, lists*: limits hold on what the poll really runs on; a flag never ends in
  an armed poll; a validated file runs and a repaired one starts; an unreadable list has
  one defined consequence (an IOC list that cannot be loaded is empty; so is an allowlist
  that is missing or may not be opened, and one that fails otherwise is fatal).

## 2. Modules

| Module | What it is |
|---|---|
| `Severity` | `RunSummary` and the tier `Severity::from_run_summary` gives it |
| `Subsystem` | operators on one directory: `CollectEntries`, `Classify`, `Outcome` (of `quarantine`), and the kernel's permission rules they meet |
| `Runtime` | the daemon with its host: all state, all actions, all properties |
| `Containment` | the abstract promise that `Runtime` implements |
| `Scan` | the two recursive walks on trees of directories, and polls that follow on one another |
| `Alerts` | the pushes, the network and the NTFY server |
| `ProposalFile` | the `Proposer` of `learn.rs` and the `Aggregator` of `cross_host.rs` on one proposal file |
| `Startup` | command line, configuration and environment, from the start of a process to its poll |
| `MCRuntime`, `MCScan`, `MCAlerts`, `MCProposalFile`, `MCStartup` | the instances TLC checks |
| `Runtime_proofs` | type correctness; the inductive invariants and the safety theorems of `Runtime` |
| `Containment_proofs` | `Runtime` implements `Containment` |
| `ProposalFile_proofs`, `ProposalSafety_proofs` | type correctness; the five safety theorems of `ProposalFile` |
| `Alerts_proofs` | type correctness and the three safety theorems of `Alerts` |
| `Startup_proofs` | type correctness, the limits, what flags do, what `--validate-config` promises |
| `Scan_proofs` | type correctness and the four safety theorems of `Scan`, for trees of any size |
| `Induction` | induction and recursion over the naturals in a form the provers can use |

The five specifications are views of one system, each with the detail its questions need,
and are not composed. What passes between them is small and is in both:

- `Startup` ends in `Poll`, which is an activation of `Runtime`; its `--dry-run` is
  `DryRun` there, and a second member of `Proposers` in `ProposalFile`.
- `Runtime` has flat directories and every interleaving of the host with the walk; `Scan`
  has trees, and a host that stands still during a poll.
- `Runtime` has a push as a waiting point and its end; `Alerts` has what becomes of the
  request, and a poll without its boot, lists and overlay layers.
- `Runtime` sees of the proposals only that a key is recorded unless it is known;
  `ProposalFile` sees of the poll only that it meets all unknown keys again. The result of
  `observe` is not used by the poll.

`Severity` and `RunSummary` are shared by `Runtime` and `Alerts`.

### State of `Runtime`

A directory is `[live, mode, recent, file]`: it exists; its mode is `shared` (others
may read it), `private` (its owner only) or `none` (000, a quarantine); its mtime is
within `scan_window_minutes`; `file` gives each file slot a content hash or `NoFile`.
`Privileged` says whether the daemon has the capabilities that let root ignore
modes (the shipped unit's `CapabilityBoundingSet=` is empty, so both values are of
interest) and `Owned` which directories belong to its user. `Readable`, `Hashable`
and `Outcome` follow from these. A *path* is what a walk can reach; two paths may be
one directory (`DirOf`), which is how `diff/` and `merged/` alias.

Process variables keep the code's names where it has them: `matcher`, `allow`
(`allowlist`), `cand` (`candidates`), `verdict` (`decisions`), `sum` (`RunSummary`,
with `unreadable_roots` as a set), `stop` (the watch channel), and `pc` for the place
in the code. `roots` and `todo` are what is left of the loop in progress. The
variables `held`, `result`, `late` and `owed` observe; no guard and no assignment of
another variable reads them.

### Actions of `Runtime`

| Code | Actions |
|---|---|
| timer and restart; `--dry-run` | `Activate`; `DryRun` |
| `Runtime::new` | `LoadMatcher`, `LoadAllowlist`, `OpenProposals`, `BootFails` |
| `run`: biased `select!` | `BeginPoll`, `StopBeforePoll`, `Cancel` |
| `walk`, `walk_recursive` | `OpenHostRoot`, `VisitHost` |
| `walk_all_overlays` | `OpenLayer`, `VisitOverlay` |
| `walk_decision_pipeline`, `classify` | `WalkDone`, `ClassifyItem`, `ClassifyDone` |
| the five arms of `run_once`'s loop | `ActSkipped`, `ActAllowlisted`, `ActQuarantine` + `Emit` + `MatchPushed`, `ActReport`, `ActUnknown` |
| end of `run_once` | `TickDone`, `SummaryPushed` |
| signal task; kill | `StopRequested`; `Crash` |
| malware, users, clock | `DropKit`, `WriteFile`, `RemoveDir`, `Age`, `Chmod`, `ToggleRoot`, `ToggleDisk` |
| operator | `EditAllowlist`, `EditIocs`, `Chmod` (roll-back) |

The grain is one step per system call that another actor's step can separate from
its neighbours: each root and directory of the walk, each candidate of the
classification, each quarantine, and its journal event apart from it. A file's hash
and the directory's listing are read in the steps that use them; the entries a
candidate was listed with are kept and hashed later, as in the code.

Two things the walk does in an order the operating system decides: below a root the
paths are visited in any order (`read_dir` has none), and the roots of the host come
before those of the layers. Decisions and actions go in the order of `Rank`, which is
the sort of `walk` followed by the layers.

### `Containment` and its mapping

The abstract specification has five variables: `phase` ("off", "watching", "armed"),
`suspects` (evidence of this activation), `contained`, `pending` (contained and not yet
reported) and `lost` (reports that died with their process). `Runtime` gives them as

| Abstract | In `Runtime` |
|---|---|
| `phase` | `pc` is down; a poll that may not quarantine; one that may (`Quarantining`) |
| `suspects` | directories that held, in this activation, a content of the loaded list |
| `contained` | directories at 000 |
| `pending` | the directory of `cur`, while `pc = "emit"` and its quarantine was `Applied` |
| `lost` | `owed` without that one |

So `Activate` is `Wake`, `ActQuarantine` is `Contain`, `Emit` is `Report` or (for a directory
met again) `Recall`, exits and kills are `Stop`, the host's and the operator's changes are
`Suspect`, `Release` or nothing; everything else stutters.

### State and actions of `Scan`

A tree is `parent`, with nodes numbered so that siblings are in the order of their names.
`look` is the kind of a basename (no dot; dot and lower case, allowlisted or not; dot and
something else; not UTF-8), `fresh` the host dotdirs within the scan window, `kit` those with
a file of the list, `locked` those at 000. The initial states are all trees of `N` directories,
all kinds, all kits, with and without capabilities, with the container running or not.

| Code | Definition |
|---|---|
| `walk`, `walk_recursive` | `WalkHost`, `HostVisit`, `Blind` |
| `walk_overlay`, `is_lowercase_dotdir`, the allowlist filter | `WalkOverlay`, `Top`, `LocalDepth` |
| `walk_overlay_recursive` | `OverlayVisit`, `WithChildren` |
| `discover_layers`, `walk_all_overlays` | `WalkAllOverlays` |
| `walk_decision_pipeline`, `classify` | `Verdict`, in the step `Walk` |
| the loop of `run_once`, `quarantine` | `Act`, `Quarantine`, `Finish` |
| clock, operator, container engine | `Age`, `RollBack`, `Toggle` |

The walks are recursive functions on the depth: `HostVisit` and `OverlayVisit` are one call of the
recursive function, on a directory, a depth and what the calls one level further down return, and
`OverChildren` is the loop over `read_dir` with its recursive calls. One step walks and classifies, and one
step acts on each candidate, because only the daemon's own quarantines change the tree
while it acts. What a path leads to is decided in `Quarantine`, when it is acted on.
A child that the `merged/` view cannot reach any more would be `Failed` in the code; it is
at 000 already, and `AllContained` asks for no more.

### State and actions of `Alerts`

Directories here are host dotdirs with a kit. `request` and `answer` are the one HTTP request
that can be in progress, `late` the requests given up and still under way. The observers count,
per directory, quarantines (`applied`), alerts on the phone (`alerts`), journaled failures
(`failed`) and pushes that ended with the process (`cut`); `heard` are the directories the
operator heard of since their last quarantine, by an alert or by a summary above Info.

| Code | Actions |
|---|---|
| `run_once`: walk; loop; end | `Activate`; `ActSkipped`, `ActAgain`, `ActQuarantine`; `TickDone` |
| `ntfy_push`, `push_tick_summary_with_headers`: send; 2xx; other status; timeout or broken connection | `Send`; `Answered`; `Refused`; `TimedOut` |
| `select!` in `run`; kill | `Cancel`; `Crash` |
| network and server | `Deliver`, `DeliverLate`, `Lose`, `LoseAnswer`, `LoseLate` |
| host, operator, signal | `Drop`, `Vanish`, `RollBack`; `StopRequested` |

`Answered`, `Refused` and `TimedOut` need `~stop` and `Cancel` needs `stop`: the `select!` is
biased to the stop request, and a stop can only take effect at a push, where the process
waits. A directory that is gone when it is acted on is `Failed`, which here shares the step
`ActAgain` with `AlreadyQuarantined`: both count a match, push nothing, and make the summary
an Error. Container layers are left out: without capabilities a layer directory at 000 is
passed over by the overlay walk (`Scan`), so that `OperatorHears` is about host directories.

### State and actions of `ProposalFile`

The file system is `lines`, which gives each *place* (the proposal file `Live`, or the time
in the name of a rotated one) its lines or `Missing`, with the `mtime` of the live file.
`fd` is the file a process has open: since a rename moves an open file, `Rename` moves the
descriptors with it, and a file replaced under its writer is `Gone`. The proposer keeps the
code's `known` (`dedupe`) and `since` (`file_mtime`), and `todo` is what is left of the
poll; the aggregator's host sets are split into `restored` (the placeholders) and `seen`.
Every call on the file system is a step:

| Code | Actions |
|---|---|
| `Proposer::new`, `with_thresholds` | `Begin` (open), `Load` (read), `Stat` |
| the same, where a read or `metadata` fails without a word | `LoadShort`, `StatFails` |
| `observe` | `Duplicate`, `Observe`, `Write` (append, then remember the key) |
| `should_rotate`, `rotate` | `Check`; `Rename`, `Create` (with the reset of `observe`) |
| `append_entry` | `Open`, `Write` |
| errors, logged by `run_once` | `NotFound` (the file is gone), `CallFails`, `WrittenAfterAll` (the flush) |
| end of the poll; a stop or kill | `Exit`; `Kill` |
| `Aggregator::new`, `poll_once` | `AggBegin`, or `AggBeginShort` where a read fails; `Fetch`, `TakeKey` |
| `append_proposal_entry` | `AggOpen`, `AggWrite` |
| end of the process, with or without an error | `AggExit`, `AggKill` |
| the clock | `Tick` |

Each activation of the daemon is one `Begin` to `Exit`. A `--dry-run` is a second member
of `Proposers`. `Fetch` answers anything, although the binary as shipped installs
`NullSink`, which answers nothing: the model is of `Aggregator` with any `Sink`.

What is proposed is a *candidate*, a directory with a hash; its key is `KeyOf`, and two
directories may have one key, by lines of different lengths. A line has `Width` bytes, and
`Suffix` more with a count, so that the size of a file (`Size`) is compared with
`max_size_bytes` as in the code: before the append, whatever the line to come. How a line
is read back depends on white space: `ReadsAs` is the key `parse_entry` and
`parse_proposal_line` make of a line of a key, the identity but for names with white space,
and `Shifted` are the candidates with white space anywhere in the path, whose count
`parse_proposal_line` does not find.

A write that fails is an error; a read that fails is not. `LoadShort` and `AggBeginShort` stop
at any line, or have not opened the file at all, and the process goes on with what it got.
The observers `unlearned` and `uncounted` note, per file, the keys that were hidden in this way
(or by a flush that fails after the fact); no guard and no assignment of another variable reads
them, and they move and vanish with the file they speak about.

Abstractions: the clock gives dates, mtimes and rotation stamps alike, and a file does not fill
up within one second (the condition on `Rename`), which 10 MB of proposals cannot;
`NoNameLeft` is where that condition meets the clock's bound, and `OutOfNames` has the rotation
fail there. A write is done or not done, never in part.

### State and actions of `Startup`

`file` is what the configuration file says of the fields it has (or that it cannot be read or
parsed, or is white space), `env` the fields the environment overrides. Values are numbers: each
limit and what is just beyond it, 0 and 1 for flags and for "none" and "some". `args`, `cli` and
`cfg` belong to the process; `edited` and `passed` observe.

| Code | Definitions |
|---|---|
| `parse_args` | `Argument` (one turn of its loop), `ParseArgs` |
| `toml::from_str`, serde defaults, `config/default.toml` | `Parse`, `Default`, `Required` |
| `apply_env_overrides`, `set_from_env` | `ApplyEnv`, `Overrides` |
| `load_config`, `Config::validate` | `LoadConfig`, `Valid` |
| `main`: start, `--help`, unknown argument | `Start`, by `StartUnit` or `StartByHand` |
| `main`: load; `--validate-config`; validation; `--dry-run`; logging; poll | `Load`; `Check`; `Validate`; `Reload`, `Disarmed`; `InitLogging`; `Poll` |
| operator | `Set`, `Unset`, `Replace` |

There is one process at a time, and the edits of the file fall between any two of its steps.

### Data that is abstracted

Globs are the set of names they allow; a path's last component is its *name* (`Runtime`) or
the kind of name (`Scan`); a SHA-256 is a model value; `max_files_per_dir` is `MaxFiles`; the
age of a directory is a flag, which the action `Age` clears. In `Runtime` the recursion is the
set of paths below a root that exist when the root is read, and `AtMaxDepth` for the paths
`walk_recursive` does not descend into; `Scan` has the recursion itself. A list that is missing, may
not be opened or is half saved is one of the contents `EditAllowlist` and `EditIocs` give its
file; `Broken` is one whose reading fails. Journal texts and payload layout are left out: a push
of `Runtime` is a waiting point and its end, one of `Alerts` has a tier and the directories it
speaks about.

## 3. Properties

`runtime_safety`, each also proved for every instance (`StopIsPrompt` with pushes configured):
- `TypeOK`;
- `Tally`: counters and candidates not yet handled always add up to the walk's size;
- `InfoIsClean`: a summary posted as Info hides no skipped root or candidate and no
  match that was not quarantined;
- `FailureIsUrgent`: a failed quarantine always makes the tick an Error;
- `JournalFirst`: a quarantine is journaled before its push, the next candidate and
  the summary;
- `StopIsPrompt`: after a stop request at most one more directory is quarantined;
- `JustifiedQuarantine`: a directory goes to 000 only in a poll that may quarantine,
  if in this activation it held a content of the loaded list, and under some path has
  a name the loaded allowlist does not allow;
- `ImplementsContainment`: the daemon and its host implement `Containment`.

`runtime_live`, under fairness:
- `ThreatContained`: a directory that could be found and quarantined does not stay so;
- `QuarantineJournaled`: a quarantine a crash cut off from the journal is reported by a
  later poll (the `AlreadyQuarantined` arm), as long as the directory still matches;
- `ActivationEnds`: every activation, which is one poll, ends.

`scan`, each also proved for every tree:
- `TypeOK`;
- `NothingHiddenSilently`: a recent host dotdir within the depth is a candidate, or below a
  candidate (a recent dotdir, or a directory that could not be read and is reported as
  skipped), or below a name that is not UTF-8;
- `LayerSearched`: every reachable directory at or below a lower-case dotdir of a layer's
  `tmp/`, within the depth, is a candidate in each view of the layer;
- `BoundedWalk`: no candidate is deeper below its root than its configured limit;
- `AllContained`: when a poll ends, every directory in which it found a kit is at 000, so
  none of its own quarantines defeated a later one.

`alerts` (`OperatorHears` under fairness; the others also proved):
- `TypeOK`;
- `AlertedOncePerQuarantine`: never more match alerts on the phone than quarantines;
- `SilenceIsLogged`: a quarantine without an alert has a journaled failure of its push, or a
  stop or kill that cut it off;
- `PollGoesOn`: a push that fails ends no poll;
- `OperatorHears`: the operator hears of every directory that stays at 000 within the scan window.

`proposals_alone` (the daemon without a second writer; `Retried` under fairness, the others
also proved):
- `SizeBounded`: a file goes beyond its limit by its last line at most, failed rotations
  included: up to that line it was below;
- `KnownIsRecorded`: a sole key that is suppressed as a duplicate is in writing in some file. A
  key is *sole* if no line of another key is read back as it;
- `ProposedOncePerFile`: a key is twice in one file only if it is not read back as itself, or
  if a read or a flush that failed has hidden that it is there;
- `AppendOnly`: no line is lost or changed, at its place or at its rotated one;
- `Retried`: every sole key of an unknown candidate is in writing in the end; what a failure or
  a kill left out is proposed by a later activation. The behaviours in which the clock's bound
  stops a rotation (`NoNameLeft`) are left aside: the bound is the model's.

`proposals_shared` (the daemon and the aggregator), all also proved:
- `TypeOK`, and `ProposedOncePerFile` again;
- `CountsGrow`: in one file, the aggregator's count for a key rises from line to line, unless
  the earlier line has white space in its name or path, or a failed read has hidden its count.

The exemptions are what the code does, not what it should do: a key that is not sole can be
suppressed without being anywhere (divergence 5), and the rest is in section 5.

With the aggregator, `KnownIsRecorded`, `AppendOnly` and `SizeBounded` do not hold: a line
written between `rename` and the truncating `File::create` is lost; a failed create next to
a file made by the aggregator lets a second rotation in the same second replace the rotated
file; and the aggregator never rotates. The hazards say so at the lines concerned.

`startup` (`RepairedStarts` under fairness; the others also proved):
- `TypeOK`;
- `WithinLimits`: no poll runs on settings outside the limits, but for a disarmed dry run
  whose file was edited between its two loads;
- `FlagsDisarm`: a process given any flag never polls with quarantine on, whatever the order
  of its arguments;
- `PassedRuns`: the unit does not fail on a file that `--validate-config` passed and nobody
  edited since, save for its log level;
- `RepairedStarts`: once file and environment are sound, the unit gets to its poll.

### Runs and bounds

| Run | Instance | Shows |
|---|---|---|
| `runtime_safety` | no capabilities; host directory of another user, owned container directory; 2 file slots, 2 hashes, `MaxFiles` 1, 3 moves, 1 crash; hashes and file slots are symmetric (no action and no initial state tells them apart) | seven safety properties and the refinement; about 2.6 million states |
| `runtime_live` | with capabilities; 1 slot, 1 hash, 2 moves, 1 crash; fair | the three liveness properties; about 66 000 states |
| `scan` | all trees of 3 directories, depths 2 and 2, `dotdir_only`, 2 moves between polls | the walks and the order of quarantines; about 2.8 million states |
| `alerts` | 2 directories, with and without capabilities, 2 moves, 2 faults, 1 crash; fair | the five properties of the alerts; about 1.3 million states |
| `proposals_alone` | one proposer; a key with two directories, one below a name with white space, and a key with one; lines of 1 and 2 bytes, limit 2 bytes, age 2, clock to 2, 3 faults; fair | the proposer's five properties; about 310 000 states |
| `proposals_shared` | with the aggregator: one key with two directories, 2 hosts, 2 aggregator runs; lines of 1 to 3 bytes, limit 3 bytes, age 1, clock to 1, 2 faults | what still holds with a second writer; about 2.4 million states |
| `startup` | every command line of up to 3 arguments, every override of one field, 2 edits or starts by hand; fair | the five properties of the start; about 310 000 states |
| `dry_run_doc`, `count_doc`, `nested_doc`, `push_doc`, `masked_doc` | one configuration each | divergences 1 to 5 of section 5 |

`MaxMoves` bounds the changes by malware, users, the operator, signals and dry runs
*together*, `MaxCrashes` the kills; both are counted over a whole behaviour, while
activations are not bounded. In `Runtime`, three moves are what the interesting stories need:
a kit is dropped (1), something happens between its classification and its quarantine (2),
and a stop or a second change hits the aftermath (3). One directory under two paths
gives the double quarantine; two files with `MaxFiles` 1 give the skipped directory;
a foreign and an owned directory give `Failed` and `Applied` in one tick. Counters
cannot overflow at the sizes the configuration allows, so they are naturals.

In `Scan`, three directories make a chain that is one deeper than either limit, siblings with
a child, and one directory in each root; a roll-back and an ageing between two polls are what
makes a later walk differ from the first. In `Alerts`, two faults lose an alert and delay
another, or lose an answer after it; two directories put a second push behind a failed one. In
`ProposalFile`, a file is full after one or two lines, exactly at its limit or beyond it, before
the second activation is over, and rotates by age as well. Three faults are a failed create
after a rename, a failed append or a short read after the restart, and a kill in between. With
the aggregator the bounds leave one key, so that batches of several keys are left to the theorem
`CountsRise`, which has any number; its two directories give counts that are read back and
counts that are not. The aggregator runs twice, so that it restores counts once. In `Startup`, three arguments are a flag, its path
and one more; two edits break a file between two loads and repair it.

Every property of a passing run has a mutant: a variant of one action or operator with a
plausible bug, named beside the original in the module (`Mutant: ...`), under which the
property fails in the same run. They are not used by the specifications.

### Fairness

`Fairness` of `Runtime` is weak fairness of `Activate` and of `Process`. `Activate`: the
timer's `OnUnitActiveSec` fires again after every activation, whatever its result, and
`Restart=on-failure` starts a killed one. `Process`: a running process reaches its next
step, since file system calls return and a push ends by its client's 5 second
timeout at the latest. Nothing is assumed about the world: no repair, no edit, no
signal need ever happen. That is why `Threat` and `StillMatches` carry what the daemon
cannot bring about itself (lists that load, a proposal file that can be written, a
readable root, an mtime within the window). The liveness holds although moves
are bounded, since a behaviour that stops moving is among those allowed; crashes are
bounded because a process killed at every activation contains nothing.

`FairSpec` of `ProposalFile` is weak fairness of `Tick` (time passes) and of `Propose`
(the timer starts the daemon, its calls return, with an error or without). Failures are
bounded: `Retried` says that a finite number of them loses no sole key.

`FairSpec` of `Alerts` is weak fairness of `Process` (which has the timer and the 5 second
timeout in it), of `Deliver` and of `Network`: a request that is neither lost nor refused
arrives. Faults are bounded, since an operator whose every message is lost hears nothing.

`FairSpec` of `Startup` is weak fairness of `Process` and of `StartUnit`, which is the timer
and `Restart=on-failure`.

## 4. Proofs

`THEOREM Spec => ...` in all cases, from the assumptions of the modules alone (types of the
constants, disjoint sets, an injective `Rank`), with two exceptions that the theorems name:
`StopsPromptly` needs `NtfyOn`, without which it is false (section 5), and some theorems on
the proposal file need one proposer, or no aggregator.

`Runtime`, from `RuntimeAssumption` and `SubsystemAssumption`:

- `TypeCorrect`: `TypeOK` is inductive by itself; one lemma per group of actions.
- `QuarantineIsJustified` needs `Evidence`: a verdict `IocMatch` in memory, at any time
  until it is acted on, carries a hash of the loaded list that the directory has held,
  and a name outside the loaded allowlist. The property is about a later step than the
  one that saw the file, so it is not inductive.
- `JournalComesFirst` needs `Journal`: what is owed by this tick is at most the item in
  hand, and `pc` is then `emit`.
- `StopsPromptly` needs `Prompt`: `late` is 0 without a stop, and once it is 1 the process
  is at `emit` or at the push that will notice the stop.
- `TallyHolds`, `InfoTellsTheTruth` and `FailureShows` share `SummaryIsRight`: `Classified`
  (who is classified, and a skipped candidate's verdict is `Skipped`) and `Counted`
  (each counter is the number of handled candidates of its kind; quarantined are those
  with result `Applied`). The severity is a function of the counters alone, so only
  this link lets it say something about the candidates.
- `KeepsItsPromise` (`Containment_proofs`): initial states map to initial states, and each
  step to a step of `Containment` or to a stutter. A step maps only where `Evidence` and
  `Debt` hold: no list without a load, a match behind every event, a debt behind every
  quarantine that is not journaled, and nothing at 000 that does not exist.

`ProposalFile`, from `ProposalAssumption`:

- `TypeCorrect`: `TypeOK` is not inductive, because the append extends whatever file is open;
  `OpenFilesExist` is added: an open file is at its place, through renames and replacements.
  That the restored counts are naturals needs `MaxExists`, that a finite set of naturals
  with a member has a maximum.
- `CountsRise`, for any number of proposers and with the aggregator, from `CountInv`: the
  count at hand, and every count that will be made from the batch, is above all counts on
  file that can be read back and were not hidden (`Ahead`), in whichever place the file is by the
  time of the write.
- `NoProposalTwice`, for one proposer with the aggregator, from `OnceInv`: what is at hand is
  not in the file it is meant for, and once the file has been read all its keys are known or
  noted as hidden (`Deduped`). With two proposers it is false: both may read before either writes.
- Both rest on what a step does to the files (`Landed`, `Moved`, `Emptied`, `SameFiles`), which says
  of `unlearned` and `uncounted` that they go with their file and never shrink while it is there.
- `SizeIsBounded`, `NothingForgotten` and `NothingLost`, for one proposer and no aggregator,
  share `AloneInv`: between two of its calls the file has room, is the one it opened, or is
  gone after the rename (`Room`); a rotated file that has the present time in its name
  goes with a live file as young as that (`Stamps`), so that no rename replaces it (`RenameIsFree`).
  What is read back of a sole key was written for that key (`ReadIsRecorded`). The bytes of a
  file are a sum over its lines, defined by recursion: `Sized`, by `Induction`, says that there is
  such a sum, and `AppendFits` that a file with room before a line is within `SizeBounded` after it.

`Alerts`, from `AlertsAssumption` and `NoRequestAssumption`:

- `TypeCorrect` from `Inv`: an answer other than "none" only while the process waits.
- `NoAlertTwice` and `NoSilence` from `SafeInv`: each match request is about one directory
  (`Single`), and for each directory (`Ledger`) the alerts, the requests under way and the
  one in hand are at most its quarantines, and quarantines at most what became of them.
- `FailedPushesEndNoPoll` (an action property) from `LastInv`: a request that is not a
  match's is the summary, and then every candidate has been acted on.

`Startup`, from `StartupAssumption`:

- `LimitsHold` from `LoadedOnce`: as long as nobody edits the file the second load of a dry
  run gives what the first gave, which was validated; afterwards it is disarmed. Until then
  `cfg` may be anything, so `WithinLimits` is not inductive.
- `TypesHold`, `FlagsAlwaysDisarm` and `PassedAlwaysRuns` share `AllInv`. `FlagsDisarm` speaks of
  the arguments a process was given, which only its start sees; `Flags` carries it through the
  process as what main branches on: without an option in `cli` no argument was a flag
  (lemma `FlagsSeen`), and a process with an option is on its way to an exit or has disarmed its
  configuration. `PassedLoads` is what a passed file is worth: it parses and is valid, with the
  environment the unit has, until somebody edits it.
- The lemma behind them, `Parsed`, is about `parse_args` on lists of any length: the options after
  k arguments are those after k - 1 with one more argument. An option is never taken back
  (`ArgumentFlags`), and a flag
  that was taken for another's path comes after that other one.

`Scan`, from `ScanAssumption`, for any number of directories in any tree:

- The tree: ancestors are the parent and its ancestors (`AboveEquation`), a directory has one
  ancestor at each depth (`OnePath`), and is one deeper than its parent (`DepthEquation`).
- The walks: `HostVisitFinds` and `OverlayVisitFinds` say what one call returns if the calls below
  it return what they should; `HostVisits` and `OverlayVisits` that the recursive functions are what
  their equations say, by recursion from the depth limit down; and `WalkHostFinds`,
  `WalkHostReports`, `WalkOverlayFinds` and `WalksFind` what a walk returns: candidates within the
  depth, below readable directories only, with no hole that is not reported.
- `WalkIsBounded`, `NothingIsHidden` and `LayerIsSearched` are these lemmas in the state after a
  `Walk`, where `found` is what the walks return (`WalkedNow`).
- `AllAreContained` needs more, since it is about the end of the loop: `KitsMatch` (who matched has
  a kit), `Handled` (every match whose turn is over is at 000), and the two facts that make the next
  turn succeed. `OwnLocks`: without capabilities nothing above a match was at 000 when the
  walk reached it, so that what is there now was put there in an earlier turn of this poll. `DeepFirst`:
  if a directory above a match had an earlier turn, so had the match itself - the overlay walk
  emits children before their parents, its second view shows nothing the first did not, and on the
  host nothing is found below what was found. So `quarantine` either reaches the match,
  or it is at 000 already. Without `DeepFirst` the property is false: that is the mutant
  `WithChildrenLast`.

`Induction` states induction and recursion with sets and functions where the library has operators
as parameters, which no installed prover can instantiate: `InductionOnSet` says that a set with 0 and
all successors has every natural number, `RecursionOnStep` that a base and a function of steps can be
iterated; `InductionDown` and `RecursionDown` the same from a limit down to 0. The definition
of a recursive function as the choice of one that satisfies its equation then has one to choose.

Model-checked only:
- the liveness properties (`ThreatContained`, `QuarantineJournaled`, `ActivationEnds`,
  `OperatorHears`, `Retried`, `RepairedStarts`): temporal proofs under fairness and `ENABLED`
  are out of TLAPS's reach;
- the violations.

## 5. Where documents and code disagree

Each has a run whose single property states the document's sentence, and which TLC
finds violated by what the code does (paths below `src/`, docs below `src/docs/contracts/`
where no other is given):

1. `dry_run_doc`: `main.rs:160` "`--dry-run` MUST NOT mutate the host". It appends to the
   proposal file.
2. `count_doc`: `tmp-watcher-allowlist-ioc.md:282` `cross_host_count` is the number of unique
   hosts. A restart keeps the number and forgets the hosts, so one that reports again is
   counted again.
3. `nested_doc`: `tmp-watcher-allowlist-ioc.md:144` and `:148` "walk the candidate dotdir, hash
   each regular file", and a match quarantines the parent dotdir. The walk ends at a recent
   dotdir and hashes only the files directly in it.
4. `push_doc`: `output.rs:94` "the daemon does NOT retry inside one poll cycle; the next poll
   retries". Only a fresh quarantine is pushed, so the next poll does not.
5. `masked_doc`: `tmp-watcher-allowlist-ioc.md:433` after a writer error "the next poll cycle
   retries". If the append of `.foo` fails and that of `.foo bar`, with the same hash, does not,
   every later activation reads the second line back as `.foo` and takes it for a duplicate:
   `.foo` is never proposed.

Seen while reading and modelling, without a run of their own:
- `runtime.rs:291`, a stop "interrupts the poll cleanly inside one activation": with `ntfy_url`
  unset a poll never waits and runs to its end;
- `runtime.rs:77`, an unreadable or malformed IOC list "still errors out": `Runtime::new` takes
  every failure for an empty list, as `tmp-watcher-allowlist-ioc.md` says further down, where
  its line 115 has white space in a hash rejected and reported as critical. A token that is
  not 64 characters long is passed over (`ioc.rs:54`), where the same document counts a
  "wrong line length" as malformed;
- an allowlist the daemon may not open counts as empty (`allowlist.rs:45`): names the operator
  allowed are quarantined in that activation, with a warning in the journal;
- `RUNBOOK.md:152` "will not re-quarantine it once it is in the allowlist": a poll under way uses
  the list it loaded;
- `webhook-payload.md:71`, `skipped` counts candidates that errored mid-classification: a hash
  error leaves the candidate `Unknown`;
- `README.md:212` "hashes the first `max_files_per_dir` files": a directory with more is skipped;
  overlay candidates ignore the limit (`ARCHITECTURE.md` invariant 6);
- `overlay.rs:271` "the overlay walker must match the host-side walker": the host takes
  dotdirs with any character after the dot;
- `tmp-watcher-allowlist-ioc.md:419` "rotated at 10 MB or 30 days": the age is that of the last
  append before the activation, not of the file;
- `tmp-watcher-allowlist-ioc.md:413` "the rotated file remains": two rotations in one second, by
  the daemon and a `--dry-run`, leave one rotated file;
- a failed rotation drops the entry, where `tmp-watcher-allowlist-ioc.md:427` has it appended
  to the unrotated file; the aggregator does not rotate, where `:318` says it does; no writer
  takes the `flock` of `:398`;
- `tmp-watcher-allowlist-ioc.md:289` "the `count` is preserved": not that of a line with white space in
  its name or in any directory of its path, which moves the suffix that `parse_proposal_line`
  looks for (`cross_host.rs:216`);
- `Proposer` and `Aggregator` both pass over what they cannot read of the file (`learn.rs:58`,
  `cross_host.rs:80`): keys on file are proposed again, and counts start from less;
- a name with white space is proposed again by every activation; once the unknown directories
  fill a whole file, every poll rotates it;
- `README.md:138` "any missing section falls back to the embedded default": a missing section is
  a parse error; only the overlay settings have defaults. A file of white space is the
  default, one of comments only is not;
- `README.md:184` names the environment variables with `__` between section and field; the code
  reads them with `_`. The warning about one that does not parse is emitted before
  logging is set up;
- `RUNBOOK.md:293` shows `--validate-config` without a path, which validates the embedded default,
  as do `cfg --validate-config` and `cfg --dry-run` (a flag forgets the path before it);
- `--validate-config` passes a log level that then fails every start; `--dry-run` does not
  validate its second load;
- the shipped unit starts with `/etc/tmp-watcher.yaml`, where the documents have `.toml`, and has
  `ProtectSystem=strict` with no write path for `/etc` (the default proposal file: every
  activation would fail in `Proposer::new`) nor for the container layers;
- without capabilities the daemon cannot read a directory it has itself set to 000, so a
  quarantine cut off by a crash stays unreported there: `QuarantineJournaled` is stated for the
  privileged daemon only; on the host its summary says "skipped", in a layer nothing does;
- an mtime in the future puts a host directory outside the scan window; a scan root `/` has no
  file name and is silently not scanned.

## 6. Plan

Done, most important behaviour first:

1. `Severity`, `Subsystem`, `Runtime`; its safety, liveness and document runs; proofs of type
   correctness and of every safety property.
2. `ProposalFile` with its runs, and proofs of type correctness and its five safety properties.
3. `Scan`: the walks on trees of directories, and the order of the overlay's candidates.
4. `Containment`, and `Runtime` shown to implement it, by TLC and by proof.
5. `Alerts` and `Startup`, with proofs of their safety properties.
6. Proofs about what is recursive in the code: `parse_args`, and the walks of `Scan` on every tree.

Every invariant and action property of a passing run is now a theorem. Open: an abstract
specification of what `Alerts` promises and the proof that it is kept; a host that changes during a
walk of `Scan`, one step per directory read, if a smaller tree is still rich enough to check.

## 7. Not modelled, and why

- Glob, TOML, date, hash-list and log-filter syntax, journal wording, payload layout: data or
  pure I/O. The digest itself is a model value.
- The sandboxing directives of the units and systemd's start limit (a unit that fails too often
  in a row is not started again until its timer fires): environment of the program.
- `overlay_quarantine` and `Proposer::flush` have no caller; the `tick_err` arm of `run` is
  unreachable, since `run_once` never returns an error.
- A `--dry-run` at the same time as the daemon, in `Runtime`: the model has one process at a
  time, so a dry run falls between two activations. Its only effect on the daemon is through
  the proposal file, where `ProposalFile` has both at once.
- Symbolic links and hard links below the roots.
- Torn lines in the proposal file (a write that is done in part), and a second file full within
  one second.
- Settings that only pass through `config.rs`: the paths of the lists, the NTFY URL,
  `shutdown_timeout_sec` (which nothing reads).
