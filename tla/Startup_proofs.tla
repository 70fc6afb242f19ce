--------------------------- MODULE Startup_proofs ---------------------------
(***************************************************************************)
(* Proofs about Startup: whatever files, environments, arguments and edits *)
(* come together, no poll runs outside the limits.                         *)
(***************************************************************************)
EXTENDS Startup, Induction, TLAPS

USE StartupAssumption

-----------------------------------------------------------------------------
(* parse_args *)

\* What parse_args makes of the first i arguments, for every i.
Parsing(p, given) ==
  p[0] = NoCli /\ \A i \in 1..Len(given) : p[i] = Argument(p[i - 1], given[i])

\* One argument more leaves a command line of the options and the path.
LEMMA ArgumentType ==
  ASSUME NEW c \in Cli, NEW a \in Tokens
  PROVE  Argument(c, a) \in Cli
BY DEF Argument, Cli

\* parse_args goes through the arguments one by one.
LEMMA Parsed ==
  ASSUME NEW given \in Seq(Tokens)
  PROVE  \E p \in [0..Len(given) -> Cli] :
           Parsing(p, given) /\ ParseArgs(given) = p[Len(given)]
<1> DEFINE n == Len(given)
           Turn(p) == [i \in 0..n |-> IF i = 0 THEN NoCli ELSE Argument(p[i - 1], given[i])]
           step == [i \in Nat |-> [c \in Cli |-> IF i \in 1..n THEN Argument(c, given[i])
                                                 ELSE c]]
           parsed == CHOOSE p : p = Turn(p)
<1>1. n \in Nat /\ NoCli \in Cli
  BY DEF NoCli, Cli
<1>2. step \in [Nat -> [Cli -> Cli]]
  BY ArgumentType
<1>3. PICK p \in [0..n -> Cli] : Repeats(p, NoCli, step, n)
  <2> HIDE DEF step, n
  <2> QED
    BY <1>1, <1>2, RecursionOnStep
<1>4. p = Turn(p)
  <2>1. \A i \in 1..n : p[i - 1] \in Cli /\ step[i][p[i - 1]] = Argument(p[i - 1], given[i])
    BY <1>1
  <2>2. \A i \in 0..n : p[i] = IF i = 0 THEN NoCli ELSE Argument(p[i - 1], given[i])
    <3> HIDE DEF n, step
    <3>1. \A i \in 1..n : p[i] = Argument(p[i - 1], given[i])
      BY <1>3, <2>1 DEF Repeats
    <3>2. \A i \in 0..n : i = 0 \/ i \in 1..n
      BY <1>1
    <3> QED
      BY <1>3, <3>1, <3>2 DEF Repeats
  <2> HIDE DEF n, step
  <2> QED
    BY <1>3, <2>2
<1>5. parsed = Turn(parsed)
  BY <1>4
<1>6. ParseArgs(given) = parsed[n]
  BY DEF ParseArgs
<1> HIDE DEF parsed
<1>7. /\ parsed[0] = NoCli
      /\ \A i \in 1..n : parsed[i] = Argument(parsed[i - 1], given[i])
      /\ parsed = [i \in 0..n |-> parsed[i]]
  BY <1>1, <1>5
<1>8. parsed \in [0..n -> Cli]
  <2> DEFINE S == {i \in Nat : i <= n => parsed[i] \in Cli}
  <2>1. 0 \in S
    BY <1>1, <1>7
  <2>2. \A i \in Nat : i \in S => i + 1 \in S
    <3>1. SUFFICES ASSUME NEW i \in Nat, i \in S, i + 1 <= n PROVE parsed[i + 1] \in Cli
      OBVIOUS
    <3>2. i <= n /\ i + 1 \in 1..n /\ given[i + 1] \in Tokens
      BY <1>1, <3>1
    <3>3. parsed[i] \in Cli /\ parsed[i + 1] = Argument(parsed[i], given[i + 1])
      BY <1>7, <3>1, <3>2
    <3> QED
      BY <3>2, <3>3, ArgumentType
  <2> HIDE DEF S
  <2>3. \A i \in Nat : i \in S
    BY <2>1, <2>2, InductionOnSet
  <2> QED
    BY <1>1, <1>7, <2>3 DEF S
<1> QED
  BY <1>6, <1>7, <1>8 DEF Parsing

HasFlag(c) == c.help \/ c.validate \/ c.dry \/ c.unknown

\* No turn forgets a flag, and one that adds none is given the path.
LEMMA ArgumentFlags ==
  ASSUME NEW c \in Cli, NEW a \in Tokens, ~HasFlag(Argument(c, a))
  PROVE  ~HasFlag(c) /\ (~c.wants => a = "cfg" /\ ~Argument(c, a).wants)
BY DEF Argument, HasFlag, Cli, Tokens

\* Without an option at the end, every argument was a path: no argument takes back an option.
LEMMA FlagsSeen ==
  ASSUME NEW given \in Seq(Tokens), ~HasFlag(ParseArgs(given))
  PROVE  \A i \in DOMAIN given : given[i] = "cfg"
<1>1. PICK p \in [0..Len(given) -> Cli] :
        Parsing(p, given) /\ ParseArgs(given) = p[Len(given)]
  BY Parsed
<1> DEFINE n == Len(given)
           S == {i \in Nat : i <= n /\ ~HasFlag(p[i]) =>
                   ~p[i].wants /\ \A j \in 1..i : given[j] = "cfg"}
<1>2. n \in Nat
  OBVIOUS
<1>3. 0 \in S
  BY <1>1 DEF Parsing, NoCli
<1>4. \A i \in Nat : i \in S => i + 1 \in S
  <2> SUFFICES ASSUME NEW i \in Nat, i \in S, i + 1 <= n, ~HasFlag(p[i + 1])
               PROVE  ~p[i + 1].wants /\ \A j \in 1..(i + 1) : given[j] = "cfg"
    OBVIOUS
  <2>1. i <= n /\ i \in 0..n /\ i + 1 \in 1..n
    BY <1>2
  <2>2. p[i] \in Cli /\ given[i + 1] \in Tokens
    BY <2>1
  <2>3. p[i + 1] = Argument(p[i], given[i + 1])
    BY <1>1, <2>1 DEF Parsing
  <2>4. ~HasFlag(p[i]) /\ (~p[i].wants => given[i + 1] = "cfg" /\ ~p[i + 1].wants)
    BY <2>2, <2>3, ArgumentFlags
  <2>5. ~p[i].wants /\ \A j \in 1..i : given[j] = "cfg"
    BY <2>1, <2>4
  <2> QED
    BY <2>4, <2>5
<1> HIDE DEF S
<1>5. n \in S
  BY <1>2, <1>3, <1>4, InductionOnSet
<1> QED
  BY <1>1, <1>5 DEF S

\* What the unit is started with: a path, and no flag.
LEMMA UnitArgs ==
  LET c == ParseArgs(<<"cfg">>) IN c.path = "cfg" /\ ~HasFlag(c)
<1>1. <<"cfg">> \in Seq(Tokens) /\ Len(<<"cfg">>) = 1 /\ <<"cfg">>[1] = "cfg"
  BY DEF Tokens
<1>2. PICK p \in [0..1 -> Cli] : Parsing(p, <<"cfg">>) /\ ParseArgs(<<"cfg">>) = p[1]
  BY <1>1, Parsed
<1>3. p[1] = Argument(NoCli, "cfg")
  BY <1>1, <1>2 DEF Parsing
<1> QED
  BY <1>2, <1>3 DEF Argument, NoCli, HasFlag

-----------------------------------------------------------------------------
(* Configurations *)

IsConfig(c) == c = [f \in Fields |-> c[f]] /\ \A f \in Fields : c[f] \in ValuesOf(f)

\* The embedded default is a whole configuration.
LEMMA DefaultIsConfig == IsConfig(Default)
BY DEF IsConfig, Default, Fields, Required, OverlayFields, ValuesOf

\* What the world outside the process is: a file and an environment.
WorldOK ==
  /\ IsSettings => Settings(file)
  /\ \A f \in DOMAIN env : env[f] \in Overrides(f)

\* A file that parses gives a whole configuration.
LEMMA ParsedIsConfig ==
  ASSUME WorldOK, Parse(file) # NoConfig
  PROVE  IsConfig(Parse(file))
<1>1. CASE file = Blank \/ file \in {Absent, Malformed}
  BY <1>1, DefaultIsConfig DEF Parse
<1>2. CASE IsSettings
  <2> DEFINE c == [f \in Fields |-> IF f \in DOMAIN file THEN file[f] ELSE Default[f]]
  <2>1. Parse(file) = c
    BY <1>2 DEF Parse, IsSettings
  <2>2. \A f \in Fields : c[f] \in ValuesOf(f)
    BY <1>2, DefaultIsConfig DEF WorldOK, Settings, IsConfig
  <2>3. c = [f \in Fields |-> c[f]]
    OBVIOUS
  <2> QED
    BY <2>1, <2>2, <2>3 DEF IsConfig
<1> QED
  BY <1>1, <1>2 DEF IsSettings

\* The environment changes settings and takes none away.
LEMMA OverriddenIsConfig ==
  ASSUME WorldOK, NEW c, IsConfig(c)
  PROVE  IsConfig(ApplyEnv(c))
<1>1. \A f \in Fields : ApplyEnv(c)[f] \in ValuesOf(f)
  BY DEF WorldOK, ApplyEnv, IsConfig, Overrides
<1>2. ApplyEnv(c) = [f \in Fields |-> ApplyEnv(c)[f]]
  BY DEF ApplyEnv
<1> QED
  BY <1>1, <1>2 DEF IsConfig

\* What load_config returns is a whole configuration.
LEMMA LoadedIsConfig ==
  ASSUME WorldOK, NEW path, LoadConfig(path) # NoConfig
  PROVE  IsConfig(LoadConfig(path))
<1> DEFINE c == CASE path = "none" -> Default
                  [] path = "cfg"  -> Parse(file)
                  [] OTHER         -> NoConfig
<1>1. c # NoConfig /\ LoadConfig(path) = ApplyEnv(c)
  BY DEF LoadConfig
<1>2. IsConfig(c)
  BY <1>1, DefaultIsConfig, ParsedIsConfig
<1> HIDE DEF c
<1> QED
  BY <1>1, <1>2, OverriddenIsConfig

\* Config::validate says what the documents say.
LEMMA ValidIsInLimits ==
  ASSUME NEW c, IsConfig(c)
  PROVE  Valid(c) => InLimits(c)
<1>1. /\ c["scan_roots"] \in {0, 1} /\ c["scan_window_minutes"] \in {0, 1}
      /\ c["scan_maxdepth"] \in {3, 4} /\ c["max_files_per_dir"] \in {10, 11}
      /\ c["overlay_roots"] \in {0, 1} /\ c["overlay_maxdepth"] \in {3, 4}
  BY DEF IsConfig, Fields, Required, OverlayFields, ValuesOf
<1> QED
  BY <1>1 DEF Valid, InLimits

\* Disarming changes one setting, and none that validate looks at.
LEMMA DisarmedConfig ==
  ASSUME NEW c, IsConfig(c)
  PROVE  /\ IsConfig(Disarmed(c)) /\ Disarmed(c)["quarantine_on_ioc_match"] = 0
         /\ Valid(c) => Valid(Disarmed(c))
<1> DEFINE q == "quarantine_on_ioc_match"
           d == Disarmed(c)
<1>1. q \in Fields /\ 0 \in ValuesOf(q)
  BY DEF Fields, Required, ValuesOf
<1>2. d = [f \in Fields |-> IF f = q THEN 0 ELSE c[f]]
  BY <1>1 DEF Disarmed, IsConfig
<1>3. \A f \in Fields : d[f] \in ValuesOf(f)
  BY <1>1, <1>2 DEF IsConfig
<1>4. d = [f \in Fields |-> d[f]]
  BY <1>2
<1>5. Valid(c) => Valid(d)
  <2>1. /\ d["scan_roots"] = c["scan_roots"]
        /\ d["scan_window_minutes"] = c["scan_window_minutes"]
        /\ d["scan_maxdepth"] = c["scan_maxdepth"]
        /\ d["max_files_per_dir"] = c["max_files_per_dir"]
        /\ d["overlay_enabled"] = c["overlay_enabled"]
        /\ d["overlay_roots"] = c["overlay_roots"]
        /\ d["overlay_maxdepth"] = c["overlay_maxdepth"]
    BY <1>2 DEF Fields, Required, OverlayFields
  <2> HIDE DEF d
  <2> QED
    BY <2>1 DEF Valid
<1> QED
  BY <1>1, <1>2, <1>3, <1>4, <1>5 DEF IsConfig

-----------------------------------------------------------------------------
(* The invariant *)

\* While the file was not edited, the second load of a dry run gives what the first
\* one gave, which was validated.
LoadedOnce ==
  /\ pc \in {"validate", "reload", "log", "poll"} => IsConfig(cfg)
  /\ pc \in {"validate", "reload"} /\ ~edited => cfg = LoadConfig(cli.path)
  /\ pc = "reload" => Valid(cfg) /\ cli.dry
  /\ pc \in {"log", "poll"} =>
       Valid(cfg) \/ (edited /\ cli.dry /\ cfg["quarantine_on_ioc_match"] = 0)

Inv == WorldOK /\ LoadedOnce

\* The invariant of the limits holds at first.
LEMMA InitInv == Init => Inv
<1> SUFFICES ASSUME Init PROVE Inv
  OBVIOUS
<1>1. IsSettings => Settings(file)
  BY DefaultIsConfig DEF Init, IsSettings, Settings, IsConfig
<1>2. \A f \in DOMAIN env : env[f] \in Overrides(f)
  <2>1. CASE env = <<>>
    BY <2>1
  <2>2. CASE env # <<>>
    <3>1. PICK f \in Fields : env \in [{f} -> Overrides(f)]
      BY <2>2 DEF Init
    <3> QED
      BY <3>1
  <2> QED
    BY <2>1, <2>2
<1>3. LoadedOnce
  BY DEF Init, LoadedOnce
<1> QED
  BY <1>1, <1>2, <1>3 DEF Inv, WorldOK

\* The world is well formed as long as file and environment stay.
LEMMA WorldKept == ASSUME WorldOK, UNCHANGED <<file, env>> PROVE WorldOK'
BY DEF WorldOK, IsSettings, Settings

\* A step of a process, or its start, keeps the invariant of the limits.
LEMMA ProcessStep ==
  ASSUME Inv, Process \/ \E given : Start(given)
  PROVE  Inv'
<1>1. UNCHANGED <<file, env>> /\ WorldOK /\ LoadedOnce
  BY DEF Inv, Process, Start, Load, Check, Validate, Reload, InitLogging, Poll, World
<1>2. WorldOK'
  BY <1>1, WorldKept
<1>3. \A path : LoadConfig(path)' = LoadConfig(path)
  BY <1>1 DEF LoadConfig, Parse, ApplyEnv
<1>4. CASE \E given : Start(given)
  <2>1. pc' \in {"down", "load"}
    BY <1>4 DEF Start, Exit
  <2> QED
    BY <1>2, <2>1 DEF Inv, LoadedOnce
<1>5. CASE Check \/ Poll
  <2>1. pc' = "down"
    BY <1>5 DEF Check, Poll, Exit
  <2> QED
    BY <1>2, <2>1 DEF Inv, LoadedOnce
<1>6. CASE Load
  <2>1. CASE LoadConfig(cli.path) = NoConfig
    <3>1. pc' = "down"
      BY <1>6, <2>1 DEF Load, GoOn, Exit
    <3> QED
      BY <1>2, <3>1 DEF Inv, LoadedOnce
  <2>2. CASE LoadConfig(cli.path) # NoConfig
    <3>1. pc' = "validate" /\ cfg' = LoadConfig(cli.path) /\ cli' = cli
      BY <1>6, <2>2 DEF Load, GoOn
    <3>2. IsConfig(cfg')
      BY <1>1, <2>2, <3>1, LoadedIsConfig
    <3>3. LoadConfig(cli.path)' = LoadConfig(cli.path)
      BY <1>1, <3>1 DEF LoadConfig, Parse, ApplyEnv
    <3> QED
      BY <1>2, <3>1, <3>2, <3>3 DEF Inv, LoadedOnce
  <2> QED
    BY <2>1, <2>2
<1>7. CASE Validate
  <2>1. pc' = "down" \/ (/\ pc = "validate" /\ Valid(cfg) /\ UNCHANGED <<cfg, cli, edited>>
                         /\ pc' = IF cli.dry THEN "reload" ELSE "log")
    BY <1>7 DEF Validate, GoOn, Exit
  <2>2. LoadConfig(cli.path)' = LoadConfig(cli.path) \/ pc' = "down"
    BY <1>1, <2>1 DEF LoadConfig, Parse, ApplyEnv
  <2> QED
    BY <1>1, <1>2, <2>1, <2>2 DEF Inv, LoadedOnce
<1>8. CASE Reload
  <2> DEFINE c == LoadConfig(cli.path)
  <2>1. pc = "reload" /\ (pc' = "down" \/ (/\ c # NoConfig /\ pc' = "log" /\ cfg' = Disarmed(c)
                                          /\ UNCHANGED <<cli, edited>>))
    BY <1>8 DEF Reload, GoOn, Exit
  <2>2. CASE pc' = "down"
    BY <1>2, <2>2 DEF Inv, LoadedOnce
  <2>3. CASE /\ c # NoConfig /\ pc' = "log" /\ cfg' = Disarmed(c) /\ UNCHANGED <<cli, edited>>
    <3>1. IsConfig(c)
      BY <1>1, <2>3, LoadedIsConfig
    <3>2. cli.dry /\ (~edited => Valid(c))
      BY <1>1, <2>1 DEF LoadedOnce
    <3> HIDE DEF c
    <3>3. IsConfig(cfg') /\ cfg'["quarantine_on_ioc_match"] = 0 /\ (~edited => Valid(cfg'))
      BY <2>3, <3>1, <3>2, DisarmedConfig
    <3>4. edited \/ ~edited
      OBVIOUS
    <3> QED
      BY <1>2, <2>3, <3>2, <3>3, <3>4 DEF Inv, LoadedOnce
  <2> QED
    BY <2>1, <2>2, <2>3
<1>9. CASE InitLogging
  <2>1. pc = "log" /\ (pc' = "down" \/ (pc' = "poll" /\ UNCHANGED <<cfg, cli, edited>>))
    BY <1>9 DEF InitLogging, GoOn, Exit
  <2> QED
    BY <1>1, <1>2, <2>1 DEF Inv, LoadedOnce
<1> QED
  BY <1>4, <1>5, <1>6, <1>7, <1>8, <1>9 DEF Process

\* An edit leaves a file whose settings have values, and is noticed.
LEMMA EditStep ==
  ASSUME Inv, NEW text, Edit(text),
         text \notin {Absent, Malformed, Blank} => Settings(text)
  PROVE  Inv'
<1>1. file' = text /\ env' = env /\ UNCHANGED <<pc, cli, cfg>> /\ edited' = (pc # "down")
  BY DEF Edit
<1>2. WorldOK'
  BY <1>1 DEF Inv, WorldOK, IsSettings, Settings
<1>3. LoadedOnce'
  BY <1>1 DEF Inv, LoadedOnce
<1> QED
  BY <1>2, <1>3 DEF Inv

\* An edit keeps the invariant of the limits.
LEMMA OperatorStep == ASSUME Inv, Operator PROVE Inv'
<1>1. CASE StartByHand
  <2>1. \E given : Start(given)
    BY <1>1 DEF StartByHand
  <2> QED
    BY <2>1, ProcessStep
<1>2. ASSUME NEW f \in Fields, Unset(f) PROVE Inv'
  <2> DEFINE text == [g \in DOMAIN file \ {f} |-> file[g]]
  <2>1. Settings(text)
    BY <1>2 DEF Unset, Inv, WorldOK, Settings
  <2>2. Edit(text)
    BY <1>2 DEF Unset
  <2> QED
    BY <2>1, <2>2, EditStep
<1>3. ASSUME NEW f \in Fields, NEW v \in ValuesOf(f), Set(f, v) PROVE Inv'
  <2> DEFINE text == [g \in DOMAIN file \cup {f} |-> IF g = f THEN v ELSE file[g]]
  <2>1. Settings(text)
    BY <1>3 DEF Set, Inv, WorldOK, Settings
  <2>2. Edit(text)
    BY <1>3 DEF Set
  <2> QED
    BY <2>1, <2>2, EditStep
<1>4. ASSUME NEW text \in {Absent, Malformed, Blank, Default}, Replace(text) PROVE Inv'
  <2>1. text \notin {Absent, Malformed, Blank} => Settings(text)
    BY <1>4, DefaultIsConfig DEF Settings, IsConfig
  <2> QED
    BY <1>4, <2>1, EditStep DEF Replace
<1> QED
  BY <1>1, <1>2, <1>3, <1>4 DEF Operator

\* Every step keeps the invariant of the limits.
LEMMA NextInv == Inv /\ [Next]_vars => Inv'
<1> SUFFICES ASSUME Inv, [Next]_vars PROVE Inv'
  OBVIOUS
<1>1. CASE StartUnit
  <2>1. \E given : Start(given)
    BY <1>1 DEF StartUnit
  <2> QED
    BY <2>1, ProcessStep
<1>2. CASE Process
  BY <1>2, ProcessStep
<1>3. CASE Operator
  BY <1>3, OperatorStep
<1>4. CASE UNCHANGED vars
  BY <1>4 DEF vars, Inv, WorldOK, IsSettings, Settings, LoadedOnce, LoadConfig, Parse, ApplyEnv
<1> QED
  BY <1>1, <1>2, <1>3, <1>4 DEF Next

\* No poll runs on settings outside the limits, save for a dry run, disarmed, whose
\* file was edited between its two loads.
THEOREM LimitsHold == Spec => []WithinLimits
<1>1. Inv => WithinLimits
  BY ValidIsInLimits DEF Inv, LoadedOnce, WithinLimits
<1>2. Inv /\ [Next]_vars => Inv'
  BY NextInv
<1> QED
  BY <1>1, <1>2, InitInv, PTL DEF Spec

-----------------------------------------------------------------------------
(* Types, flags and --validate-config *)

\* The types of what a process has.
ProcessTypes ==
  /\ pc \in {"down", "load", "validate", "reload", "log", "poll"}
  /\ args \in Seq(Tokens) /\ cli \in Cli
  /\ cfg = NoConfig <=> pc \in {"down", "load"}
  /\ exit \in 0..2 /\ edited \in BOOLEAN /\ passed \in BOOLEAN

\* What a process has become of its flags: --help and the unknown ended it,
\* --validate-config keeps it from the poll, --dry-run from the quarantine.
Flags ==
  /\ pc # "down" => cli = ParseArgs(args) /\ ~cli.help /\ ~cli.unknown
  /\ pc \in {"reload", "log", "poll"} => ~cli.validate
  /\ pc \in {"log", "poll"} /\ cli.dry => cfg["quarantine_on_ioc_match"] = 0

\* What --validate-config said OK to still loads and is still valid.
PassedLoads == passed => LoadConfig("cfg") # NoConfig /\ Valid(LoadConfig("cfg"))

WorldTypes == DOMAIN env \subseteq Fields /\ moves \in 0..MaxMoves

AllInv == Inv /\ ProcessTypes /\ Flags /\ PassedLoads /\ WorldTypes

\* The invariant gives every variable its type.
LEMMA AllInvTypes == AllInv => TypeOK
<1> SUFFICES ASSUME AllInv PROVE TypeOK
  OBVIOUS
<1>1. cfg # NoConfig => IsConfig(cfg)
  BY DEF AllInv, Inv, LoadedOnce, ProcessTypes
<1>2. IsConfig(cfg) => Settings(cfg) /\ DOMAIN cfg = Fields
  BY DEF IsConfig, Settings
<1>3. IsSettings => Settings(file)
  BY DEF AllInv, Inv, WorldOK
<1>4. DOMAIN env \subseteq Fields /\ \A f \in DOMAIN env : env[f] \in Overrides(f)
  BY DEF AllInv, Inv, WorldOK, WorldTypes
<1> QED
  BY <1>1, <1>2, <1>3, <1>4 DEF AllInv, ProcessTypes, WorldTypes, TypeOK

\* The invariant holds at first.
LEMMA AllInvInit == Init => AllInv
<1> SUFFICES ASSUME Init PROVE AllInv
  OBVIOUS
<1>1. NoCli \in Cli
  BY DEF NoCli, Cli
<1>2. <<>> \in Seq(Tokens) /\ DOMAIN <<>> = {}
  OBVIOUS
<1>3. /\ pc = "down" /\ args = <<>> /\ cli = NoCli /\ cfg = NoConfig /\ exit = 0
      /\ edited = FALSE /\ passed = FALSE /\ moves = 0
  BY DEF Init
<1>4. ProcessTypes
  <2>1. edited \in BOOLEAN /\ passed \in BOOLEAN
    BY <1>3, Zenon
  <2> QED
    BY <1>1, <1>2, <1>3, <2>1 DEF ProcessTypes
<1>5. DOMAIN env \subseteq Fields
  BY <1>2 DEF Init
<1>6. Flags /\ PassedLoads
  BY <1>3 DEF Flags, PassedLoads
<1>7. WorldTypes
  BY <1>3, <1>5 DEF WorldTypes
<1> QED
  BY <1>4, <1>6, <1>7, InitInv DEF AllInv

\* A process that ends leaves nothing behind but its status.
LEMMA ExitKeeps ==
  ASSUME NEW status \in 0..2, Exit(status), passed' \in BOOLEAN
  PROVE  ProcessTypes' /\ Flags'
<1>1. NoCli \in Cli /\ <<>> \in Seq(Tokens)
  BY DEF NoCli, Cli
<1> QED
  BY <1>1 DEF Exit, ProcessTypes, Flags

\* A start brings a command line that was parsed from its arguments.
LEMMA StartKeeps ==
  ASSUME AllInv, NEW given \in Seq(Tokens), Start(given)
  PROVE  ProcessTypes' /\ Flags'
<1> DEFINE c == ParseArgs(given)
<1>1. c \in Cli
  BY Parsed
<1>2. pc = "down" /\ passed' = passed /\ passed \in BOOLEAN
  BY DEF Start, AllInv, ProcessTypes
<1>3. CASE c.unknown \/ c.help
  <2>1. Exit(2) \/ Exit(0)
    BY <1>3 DEF Start
  <2> QED
    BY <1>2, <2>1, ExitKeeps
<1>4. CASE ~c.unknown /\ ~c.help
  <2>1. pc' = "load" /\ args' = given /\ cli' = c /\ UNCHANGED <<cfg, exit, edited>>
    BY <1>4 DEF Start
  <2>2. ProcessTypes'
    BY <1>1, <1>2, <2>1 DEF AllInv, ProcessTypes
  <2>3. Flags'
    BY <1>4, <2>1 DEF Flags
  <2> QED
    BY <2>2, <2>3
<1> QED
  BY <1>1, <1>3, <1>4

\* A step of a process keeps its types and its options.
LEMMA ProcessKeeps ==
  ASSUME AllInv, Process
  PROVE  ProcessTypes' /\ Flags'
<1> USE DEF AllInv
<1>1. CASE Load
  <2>1. passed' \in BOOLEAN /\ edited' = FALSE
    BY <1>1 DEF Load, ProcessTypes
  <2>2. CASE Exit(1)
    BY <2>1, <2>2, ExitKeeps
  <2>3. CASE pc = "load" /\ cfg' # NoConfig /\ pc' = "validate" /\ UNCHANGED <<args, cli, exit>>
    BY <2>1, <2>3 DEF ProcessTypes, Flags
  <2> QED
    BY <1>1, <2>2, <2>3 DEF Load, GoOn
<1>2. CASE Check
  <2>1. passed' \in BOOLEAN
    BY <1>2 DEF Check, ProcessTypes
  <2>2. Exit(0) \/ Exit(1)
    BY <1>2 DEF Check
  <2> QED
    BY <2>1, <2>2, ExitKeeps
<1>3. CASE Validate
  <2>1. passed' \in BOOLEAN
    BY <1>3 DEF Validate, ProcessTypes
  <2>2. CASE Exit(1)
    BY <2>1, <2>2, ExitKeeps
  <2>3. CASE ~Exit(1)
    <3>1. /\ pc = "validate" /\ ~cli.validate /\ cfg # NoConfig
          /\ pc' = IF cli.dry THEN "reload" ELSE "log"
          /\ UNCHANGED <<cfg, args, cli, exit, edited, passed>>
      BY <1>3, <2>3 DEF Validate, GoOn
    <3>2. ProcessTypes'
      BY <3>1 DEF ProcessTypes
    <3>3. Flags'
      BY <3>1 DEF Flags
    <3> QED
      BY <3>2, <3>3
  <2> QED
    BY <2>2, <2>3
<1>4. CASE Reload
  <2>1. passed' \in BOOLEAN
    BY <1>4 DEF Reload, ProcessTypes
  <2>2. CASE Exit(1)
    BY <2>1, <2>2, ExitKeeps
  <2>3. CASE ~Exit(1)
    <3> DEFINE c == LoadConfig(cli.path)
    <3>1. /\ pc = "reload" /\ c # NoConfig /\ cfg' = Disarmed(c) /\ cfg' # NoConfig
          /\ pc' = "log" /\ UNCHANGED <<args, cli, exit, edited, passed>>
      BY <1>4, <2>3 DEF Reload, GoOn
    <3>2. IsConfig(c)
      BY <3>1, LoadedIsConfig DEF Inv
    <3> HIDE DEF c
    <3>3. cfg'["quarantine_on_ioc_match"] = 0
      BY <3>1, <3>2, DisarmedConfig
    <3>4. ProcessTypes'
      BY <3>1 DEF ProcessTypes
    <3>5. Flags'
      BY <3>1, <3>3 DEF Flags
    <3> QED
      BY <3>4, <3>5
  <2> QED
    BY <2>2, <2>3
<1>5. CASE InitLogging
  <2>1. passed' \in BOOLEAN
    BY <1>5 DEF InitLogging, ProcessTypes
  <2>2. CASE Exit(1)
    BY <2>1, <2>2, ExitKeeps
  <2>3. CASE ~Exit(1)
    <3>1. /\ pc = "log" /\ cfg # NoConfig
          /\ pc' = "poll" /\ UNCHANGED <<cfg, args, cli, exit, edited, passed>>
      BY <1>5, <2>3 DEF InitLogging, GoOn
    <3>2. ProcessTypes'
      BY <3>1 DEF ProcessTypes
    <3>3. Flags'
      BY <3>1 DEF Flags
    <3> QED
      BY <3>2, <3>3
  <2> QED
    BY <2>2, <2>3
<1>6. CASE Poll
  <2>1. passed' \in BOOLEAN /\ Exit(0)
    BY <1>6 DEF Poll, ProcessTypes
  <2> QED
    BY <2>1, ExitKeeps
<1> QED
  BY <1>1, <1>2, <1>3, <1>4, <1>5, <1>6 DEF Process

\* --validate-config says OK to the configuration it loaded, which the file still is.
LEMMA PassedKept ==
  ASSUME AllInv, Process \/ \E given : Start(given)
  PROVE  PassedLoads'
<1>1. UNCHANGED <<file, env>>
  BY DEF Process, Start, Load, Check, Validate, Reload, InitLogging, Poll, World
<1>2. LoadConfig("cfg")' = LoadConfig("cfg")
  BY <1>1 DEF LoadConfig, Parse, ApplyEnv
<1>3. CASE passed' = passed
  BY <1>2, <1>3 DEF AllInv, PassedLoads
<1>4. CASE Check
  <2>1. pc = "validate"
    BY <1>4 DEF Check
  <2>2. Passes /\ cli.path = "cfg" /\ ~edited
          => LoadConfig("cfg") # NoConfig /\ Valid(LoadConfig("cfg"))
    BY <2>1 DEF AllInv, Inv, LoadedOnce, ProcessTypes, Passes
  <2>3. passed' => passed \/ (Passes /\ cli.path = "cfg" /\ ~edited)
    BY <1>4 DEF Check
  <2> QED
    BY <1>2, <2>2, <2>3 DEF AllInv, PassedLoads
<1> QED
  BY <1>3, <1>4 DEF Process, Start, Load, Validate, Reload, InitLogging, Poll

\* An edit touches no process, and takes back the word of --validate-config.
LEMMA EditKeeps ==
  ASSUME AllInv, NEW text, Edit(text)
  PROVE  ProcessTypes' /\ Flags' /\ PassedLoads' /\ WorldTypes'
<1>1. UNCHANGED <<env, pc, args, cli, cfg, exit>> /\ edited' = (pc # "down") /\ passed' = FALSE
  BY DEF Edit
<1>2. moves \in 0..MaxMoves /\ moves < MaxMoves /\ moves' = moves + 1
  BY DEF Edit, AllInv, WorldTypes
<1>3. ProcessTypes'
  BY <1>1 DEF AllInv, ProcessTypes
<1>4. Flags'
  BY <1>1 DEF AllInv, Flags
<1> QED
  BY <1>1, <1>2, <1>3, <1>4 DEF AllInv, PassedLoads, WorldTypes

\* A process is started with a list of arguments.
LEMMA StartedWithTokens ==
  ASSUME StartUnit \/ StartByHand
  PROVE  \E given \in Seq(Tokens) : Start(given)
<1>1. \A given \in BoundedSeq(Tokens, MaxArgs) : given \in Seq(Tokens)
  BY DEF BoundedSeq, SeqOf
<1>2. <<"cfg">> \in Seq(Tokens)
  BY DEF Tokens
<1> QED
  BY <1>1, <1>2 DEF StartUnit, StartByHand

\* Every step keeps the invariant.
LEMMA AllInvNext == AllInv /\ [Next]_vars => AllInv'
<1> SUFFICES ASSUME AllInv, [Next]_vars PROVE AllInv'
  OBVIOUS
<1>1. Inv'
  BY NextInv DEF AllInv
<1>2. CASE StartUnit \/ StartByHand
  <2>1. PICK given \in Seq(Tokens) : Start(given)
    BY <1>2, StartedWithTokens
  <2>2. ProcessTypes' /\ Flags' /\ PassedLoads'
    BY <2>1, StartKeeps, PassedKept
  <2>3. WorldTypes'
    BY <1>2, <2>1 DEF StartUnit, StartByHand, Start, AllInv, WorldTypes
  <2> QED
    BY <1>1, <2>2, <2>3 DEF AllInv
<1>3. CASE Process
  <2>1. ProcessTypes' /\ Flags' /\ PassedLoads'
    BY <1>3, ProcessKeeps, PassedKept
  <2>2. WorldTypes'
    BY <1>3 DEF Process, Load, Check, Validate, Reload, InitLogging, Poll, World, AllInv,
                WorldTypes
  <2> QED
    BY <1>1, <2>1, <2>2 DEF AllInv
<1>4. CASE Operator /\ ~StartByHand
  <2>1. \E text : Edit(text)
    BY <1>4 DEF Operator, Unset, Set, Replace
  <2>2. ProcessTypes' /\ Flags' /\ PassedLoads' /\ WorldTypes'
    BY <2>1, EditKeeps
  <2> QED
    BY <1>1, <2>2 DEF AllInv
<1>5. CASE UNCHANGED vars
  <2>1. ProcessTypes' /\ Flags' /\ WorldTypes'
    BY <1>5 DEF vars, AllInv, ProcessTypes, Flags, WorldTypes
  <2>2. PassedLoads'
    BY <1>5 DEF vars, AllInv, PassedLoads, LoadConfig, Parse, ApplyEnv
  <2> QED
    BY <1>1, <2>1, <2>2 DEF AllInv
<1> QED
  BY <1>2, <1>3, <1>4, <1>5 DEF Next, Operator

\* Every variable keeps its type, and there is a configuration exactly from the load
\* to the exit.
THEOREM TypesHold == Spec => []TypeOK
<1>1. AllInv /\ [Next]_vars => AllInv'
  BY AllInvNext
<1> QED
  BY <1>1, AllInvInit, AllInvTypes, PTL DEF Spec

\* A process one of whose arguments is a flag never polls with quarantine on, however
\* many arguments there are.
THEOREM FlagsAlwaysDisarm == Spec => []FlagsDisarm
<1>1. AllInv => FlagsDisarm
  <2> SUFFICES ASSUME AllInv, pc = "poll", cfg["quarantine_on_ioc_match"] = 1
               PROVE  \A i \in DOMAIN args : args[i] = "cfg"
    BY DEF FlagsDisarm
  <2>1. args \in Seq(Tokens) /\ cli = ParseArgs(args) /\ ~HasFlag(cli)
    BY DEF AllInv, ProcessTypes, Flags, HasFlag
  <2> QED
    BY <2>1, FlagsSeen
<1>2. AllInv /\ [Next]_vars => AllInv'
  BY AllInvNext
<1> QED
  BY <1>1, <1>2, AllInvInit, PTL DEF Spec

\* After --validate-config said OK to the file, and until it is edited, the unit does
\* not fail on it, save for its log level.
THEOREM PassedAlwaysRuns == Spec => PassedRuns
<1> DEFINE Fails == pc # "poll" /\ ~(pc = "log" /\ cfg["level"] = 0)
<1>1. ASSUME AllInv, Next, passed, args = <<"cfg">>, ~edited, pc # "down", pc' = "down", Fails
      PROVE  FALSE
  <2>1. cli.path = "cfg" /\ ~cli.validate /\ ~cli.dry
    BY <1>1, UnitArgs DEF AllInv, Flags, HasFlag
  <2>2. LoadConfig(cli.path) # NoConfig /\ Valid(LoadConfig(cli.path))
    BY <1>1, <2>1 DEF AllInv, PassedLoads
  <2>3. CASE StartUnit \/ StartByHand
    BY <1>1, <2>3 DEF StartUnit, StartByHand, Start
  <2>4. CASE Operator /\ ~StartByHand
    <3>1. pc' = pc
      BY <2>4 DEF Operator, Unset, Set, Replace, Edit
    <3> QED
      BY <1>1, <3>1
  <2>5. CASE Load
    BY <1>1, <2>2, <2>5 DEF Load, GoOn
  <2>6. CASE Validate
    <3>1. cfg = LoadConfig(cli.path)
      BY <1>1, <2>6 DEF Validate, AllInv, Inv, LoadedOnce
    <3>2. pc' = IF cli.dry THEN "reload" ELSE "log"
      BY <2>2, <2>6, <3>1 DEF Validate, GoOn
    <3> QED
      BY <1>1, <3>2
  <2>7. CASE Reload
    BY <1>1, <2>1, <2>7 DEF Reload, AllInv, Inv, LoadedOnce
  <2>8. CASE InitLogging
    <3>1. pc = "log" /\ cfg["level"] # 0 /\ cfg # NoConfig
      BY <1>1, <2>8 DEF InitLogging, AllInv, ProcessTypes
    <3> QED
      BY <1>1, <2>8, <3>1 DEF InitLogging, GoOn
  <2>9. CASE Check \/ Poll
    BY <1>1, <2>1, <2>9 DEF Check, Poll
  <2> QED
    BY <1>1, <2>3, <2>4, <2>5, <2>6, <2>7, <2>8, <2>9 DEF Next, Operator, Process
<1>2. AllInv /\ [Next]_vars =>
        [ passed /\ args = <<"cfg">> /\ ~edited /\ pc # "down" /\ pc' = "down"
            => pc = "poll" \/ (pc = "log" /\ cfg["level"] = 0) ]_vars
  BY <1>1
<1>3. AllInv /\ [Next]_vars => AllInv'
  BY AllInvNext
<1> QED
  BY <1>2, <1>3, AllInvInit, PTL DEF Spec, PassedRuns
=============================================================================
