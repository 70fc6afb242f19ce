------------------------------- MODULE Startup -------------------------------
(***************************************************************************)
(* From the command line to the poll: parse_args and main (main.rs), the   *)
(* configuration and its environment overrides (config.rs), started by     *)
(* systemd with one argument, the path, and by the operator with any. The  *)
(* operator edits the file while a process is between two of its steps;    *)
(* a process that fails is started again (Restart=on-failure, the timer).  *)
(*                                                                         *)
(* Settings that only pass through (the paths of the lists, the NTFY URL,  *)
(* shutdown_timeout_sec) are left out. A value is a number: of roots, of   *)
(* levels, files and minutes; 0 or 1 for a flag; 0 for a log level that    *)
(* EnvFilter does not parse.                                               *)
(***************************************************************************)
EXTENDS Naturals, SequencesExt

CONSTANTS
  Absent, Malformed, Blank,  \* the file cannot be read, parsed; is white space
  Garbage,                   \* an environment value that does not parse
  NoConfig,                  \* nothing loaded
  MaxArgs,                   \* bound: arguments of a process
  MaxMoves                   \* bound: edits of the file, and starts by hand

ASSUME StartupAssumption == MaxArgs \in Nat /\ MaxMoves \in Nat

OverlayFields == {"overlay_enabled", "overlay_roots", "overlay_maxdepth"}
Required == {"level", "scan_roots", "scan_maxdepth", "scan_window_minutes",
             "max_files_per_dir", "quarantine_on_ioc_match"}
Fields   == Required \cup OverlayFields

\* The values that matter: each limit, and what is just beyond it.
ValuesOf(f) ==
  CASE f \in {"scan_maxdepth", "overlay_maxdepth"} -> {3, 4}
    [] f = "max_files_per_dir"                     -> {10, 11}
    [] OTHER                                       -> {0, 1}

\* config/default.toml, and the serde defaults of the overlay section.
Default == [f \in Fields |-> CASE f \in {"scan_maxdepth", "overlay_maxdepth"} -> 3
                               [] f = "max_files_per_dir"                     -> 10
                               [] OTHER                                       -> 1]

\* What a file says of the fields it has.
Settings(c) == DOMAIN c \subseteq Fields /\ \A f \in DOMAIN c : c[f] \in ValuesOf(f)

\* An environment override of a list or a string takes any value; the others are
\* parsed first.
Raw       == {"level", "scan_roots", "overlay_roots"}
Overrides(f) == ValuesOf(f) \cup IF f \in Raw THEN {} ELSE {Garbage}

Tokens == {"--help", "--validate-config", "--dry-run", "-x", "cfg"}
Cli    == [help : BOOLEAN, validate : BOOLEAN, dry : BOOLEAN, unknown : BOOLEAN,
           path : Tokens \cup {"none"}, wants : BOOLEAN]

VARIABLES
  file,     \* the configuration file "cfg": Settings, Absent, Malformed or Blank
  env,      \* the environment: a function on the fields it overrides
  pc,       \* "down", "load", "validate", "reload", "log" or "poll"
  args,     \* arguments of the process
  cli,      \* what parse_args made of them
  cfg,      \* the configuration loaded, or NoConfig
  exit,     \* exit status of the last process
  (* observers, read by no action *)
  edited,   \* the file was edited since the process loaded it
  passed,   \* the file as it is passed --validate-config
  moves     \* bound

vars == <<file, env, pc, args, cli, cfg, exit, edited, passed, moves>>

NoCli == [help |-> FALSE, validate |-> FALSE, dry |-> FALSE, unknown |-> FALSE,
          path |-> "none", wants |-> FALSE]

Init ==
  /\ file \in {Default, Absent, Blank}
  /\ env \in {<<>>} \cup UNION {[{f} -> Overrides(f)] : f \in Fields}
  /\ pc = "down" /\ args = <<>> /\ cli = NoCli /\ cfg = NoConfig /\ exit = 0
  /\ edited = FALSE /\ passed = FALSE /\ moves = 0

-----------------------------------------------------------------------------
(* parse_args *)

\* One turn of its loop. A flag takes the next argument for its path, whatever that
\* is, and forgets a path given before it.
Argument(c, a) ==
  CASE c.wants                  -> [c EXCEPT !.path = a, !.wants = FALSE]
    [] ~c.wants /\ a = "--help" -> [c EXCEPT !.help = TRUE]
    [] ~c.wants /\ a = "--validate-config" ->
         [c EXCEPT !.validate = TRUE, !.path = "none", !.wants = TRUE]
    [] ~c.wants /\ a = "--dry-run" ->
         [c EXCEPT !.dry = TRUE, !.path = "none", !.wants = TRUE]
    [] ~c.wants /\ a = "cfg"    -> [c EXCEPT !.path = a]
    [] OTHER                    -> [c EXCEPT !.unknown = TRUE]

ParseArgs(given) ==
  LET parsed[i \in 0..Len(given)] ==
        IF i = 0 THEN NoCli ELSE Argument(parsed[i - 1], given[i])
  IN parsed[Len(given)]

-----------------------------------------------------------------------------
(* config.rs *)

\* toml::from_str: only the overlay section has defaults.
Parse(text) ==
  CASE text = Blank -> Default
    [] text \in {Absent, Malformed} -> NoConfig
    [] OTHER -> IF Required \subseteq DOMAIN text
                  THEN [f \in Fields |-> IF f \in DOMAIN text THEN text[f] ELSE Default[f]]
                  ELSE NoConfig

\* Mutant: a value that does not parse is fatal.
ApplyEnvStrict(c) ==
  IF \E f \in DOMAIN env : env[f] = Garbage THEN NoConfig
  ELSE [f \in Fields |-> IF f \in DOMAIN env THEN env[f] ELSE c[f]]

\* A value that does not parse leaves the field as it was.
ApplyEnv(c) ==
  [f \in Fields |-> IF f \in DOMAIN env /\ env[f] # Garbage THEN env[f] ELSE c[f]]

\* load_config: without a path, the embedded default; no other file exists.
LoadConfig(path) ==
  LET c == CASE path = "none" -> Default
             [] path = "cfg"  -> Parse(file)
             [] OTHER         -> NoConfig
  IN IF c = NoConfig THEN NoConfig ELSE ApplyEnv(c)

\* Mutant: the limit itself is one too many.
ValidOffByOne(c) ==
  /\ c["scan_roots"] # 0 /\ c["scan_window_minutes"] # 0
  /\ c["scan_maxdepth"] <= 4 /\ c["max_files_per_dir"] <= 11
  /\ c["overlay_enabled"] = 1 => c["overlay_roots"] # 0 /\ c["overlay_maxdepth"] <= 4

\* Config::validate. The log level is not looked at.
Valid(c) ==
  /\ c["scan_roots"] # 0 /\ c["scan_window_minutes"] # 0
  /\ c["scan_maxdepth"] <= 3 /\ c["max_files_per_dir"] <= 10
  /\ c["overlay_enabled"] = 1 => c["overlay_roots"] # 0 /\ c["overlay_maxdepth"] <= 3

-----------------------------------------------------------------------------
(* main *)

World == <<file, env, moves>>

\* Mutant: the configuration of the process outlives it.
ExitStale(status) ==
  /\ pc' = "down" /\ exit' = status
  /\ args' = <<>> /\ cli' = NoCli /\ edited' = FALSE
  /\ UNCHANGED cfg

Exit(status) ==
  /\ pc' = "down" /\ exit' = status
  /\ args' = <<>> /\ cli' = NoCli /\ cfg' = NoConfig /\ edited' = FALSE

\* Goes on at label with configuration c, or fails with `?`.
GoOn(label, c) ==
  IF c = NoConfig THEN Exit(1)
  ELSE pc' = label /\ cfg' = c /\ UNCHANGED <<args, cli, exit>>

\* --help and an argument that is unknown end the process at once.
Start(given) ==
  LET c == ParseArgs(given) IN
  /\ pc = "down"
  /\ IF c.unknown THEN Exit(2)
     ELSE IF c.help THEN Exit(0)
     ELSE /\ pc' = "load" /\ args' = given /\ cli' = c
          /\ UNCHANGED <<cfg, exit, edited>>
  /\ UNCHANGED <<file, env, passed>>

\* ExecStart of the unit, by the timer or after a failure.
StartUnit == Start(<<"cfg">>) /\ UNCHANGED moves

StartByHand ==
  /\ moves < MaxMoves /\ moves' = moves + 1
  /\ \E given \in BoundedSeq(Tokens, MaxArgs) : Start(given)

Load ==
  /\ pc = "load"
  /\ GoOn("validate", LoadConfig(cli.path))
  /\ edited' = FALSE
  /\ UNCHANGED <<World, passed>>

\* Mutant: --validate-config only loads.
PassesAny == TRUE

Passes == Valid(cfg)

\* --validate-config ends here, with OK or without.
Check ==
  /\ pc = "validate" /\ cli.validate
  /\ Exit(IF Passes THEN 0 ELSE 1)
  /\ passed' = (passed \/ (Passes /\ cli.path = "cfg" /\ ~edited))
  /\ UNCHANGED World

Validate ==
  /\ pc = "validate" /\ ~cli.validate
  /\ IF Valid(cfg) THEN GoOn(IF cli.dry THEN "reload" ELSE "log", cfg) /\ UNCHANGED edited
                   ELSE Exit(1)
  /\ UNCHANGED <<World, passed>>

\* Mutant: the second load brings the file's setting back.
DisarmedNot(c) == c

Disarmed(c) == [c EXCEPT !["quarantine_on_ioc_match"] = 0]

\* --dry-run loads a second time, and does not validate what it gets.
Reload ==
  /\ pc = "reload"
  /\ LET c == LoadConfig(cli.path) IN
       IF c = NoConfig THEN Exit(1)
       ELSE GoOn("log", Disarmed(c)) /\ UNCHANGED edited
  /\ UNCHANGED <<World, passed>>

\* init_logging, init_logging_stderr; then the poll, which is Runtime.
InitLogging ==
  /\ pc = "log"
  /\ IF cfg["level"] = 0 THEN Exit(1) ELSE GoOn("poll", cfg) /\ UNCHANGED edited
  /\ UNCHANGED <<World, passed>>

Poll ==
  /\ pc = "poll"
  /\ Exit(0)
  /\ UNCHANGED <<World, passed>>

-----------------------------------------------------------------------------
(* The operator *)

Edit(text) ==
  /\ text # file
  /\ moves < MaxMoves /\ moves' = moves + 1
  /\ file' = text /\ edited' = (pc # "down") /\ passed' = FALSE
  /\ UNCHANGED <<env, pc, args, cli, cfg, exit>>

IsSettings == file \notin {Absent, Malformed, Blank}

Set(f, v) == IsSettings /\ Edit([g \in DOMAIN file \cup {f} |-> IF g = f THEN v ELSE file[g]])

Unset(f) == IsSettings /\ f \in DOMAIN file /\ Edit([g \in DOMAIN file \ {f} |-> file[g]])

Replace(text) == Edit(text)

-----------------------------------------------------------------------------
(* Specification *)

Process == Load \/ Check \/ Validate \/ Reload \/ InitLogging \/ Poll

Operator ==
  \/ StartByHand
  \/ \E f \in Fields : Unset(f) \/ \E v \in ValuesOf(f) : Set(f, v)
  \/ \E text \in {Absent, Malformed, Blank, Default} : Replace(text)

Next == StartUnit \/ Process \/ Operator

Spec == Init /\ [][Next]_vars

\* A process goes on, and the unit is started again and again.
FairSpec == Spec /\ WF_vars(Process) /\ WF_vars(StartUnit)

-----------------------------------------------------------------------------
(* Properties *)

\* Every variable has its type; there is a configuration from the load to the exit.
TypeOK ==
  /\ IsSettings => Settings(file)
  /\ DOMAIN env \subseteq Fields /\ \A f \in DOMAIN env : env[f] \in Overrides(f)
  /\ pc \in {"down", "load", "validate", "reload", "log", "poll"}
  /\ args \in Seq(Tokens) /\ cli \in Cli
  /\ cfg # NoConfig => Settings(cfg) /\ DOMAIN cfg = Fields
  /\ cfg = NoConfig <=> pc \in {"down", "load"}
  /\ exit \in 0..2
  /\ edited \in BOOLEAN /\ passed \in BOOLEAN /\ moves \in 0..MaxMoves

\* The limits of the documents.
InLimits(c) ==
  /\ c["scan_roots"] > 0 /\ c["scan_maxdepth"] \in 0..3
  /\ c["scan_window_minutes"] > 0 /\ c["max_files_per_dir"] \in 0..10
  /\ c["overlay_enabled"] = 1 =>
       c["overlay_roots"] > 0 /\ c["overlay_maxdepth"] \in 0..3

\* No poll runs on settings outside the limits, whatever file and environment make
\* of them together; except that a dry run may, disarmed, when the file was edited
\* between its two loads (ARCHITECTURE.md, invariant 6; main.rs, --dry-run).
WithinLimits ==
  pc = "poll" /\ ~InLimits(cfg) =>
    edited /\ cli.dry /\ cfg["quarantine_on_ioc_match"] = 0

\* A process one of whose arguments is a flag never polls with quarantine on, in
\* whatever order the arguments come, what file they name and when it is edited
\* (main.rs: --dry-run must not mutate the host).
FlagsDisarm ==
  pc = "poll" /\ cfg["quarantine_on_ioc_match"] = 1 => \A i \in DOMAIN args : args[i] = "cfg"

\* After --validate-config said OK to the file, and until it is edited, the unit
\* does not fail on it, save for its log level, which is not validated.
PassedRuns ==
  [][ passed /\ args = <<"cfg">> /\ ~edited /\ pc # "down" /\ pc' = "down"
        => pc = "poll" \/ (pc = "log" /\ cfg["level"] = 0) ]_vars

\* What the file and the environment come to, if they come to anything.
Effective(f) ==
  IF f \in DOMAIN env /\ env[f] # Garbage THEN env[f]
  ELSE IF IsSettings /\ f \in DOMAIN file THEN file[f] ELSE Default[f]

Sound ==
  /\ file \notin {Absent, Malformed} /\ (IsSettings => Required \subseteq DOMAIN file)
  /\ InLimits([f \in Fields |-> Effective(f)]) /\ Effective("level") # 0

\* Once file and environment are sound, the unit gets to its poll, unless the file
\* is broken again: a value of the environment that does not parse, failures before
\* and runs by hand do not keep it from there (README.md, Restart=on-failure).
RepairedStarts == Sound ~> (pc = "poll" /\ args = <<"cfg">>) \/ ~Sound
=============================================================================
