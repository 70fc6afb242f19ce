---------------------------- MODULE ProposalFile ----------------------------
(***************************************************************************)
(* The proposal file and its writers: the Proposer inside every activation *)
(* of the scanner (learn.rs) and the cross-host Aggregator (cross_host.rs),*)
(* a process of its own. They take no lock, so the steps are the calls on  *)
(* the file system, each of which may fail and between any two of which    *)
(* the other process may run or the process itself may be killed. A write  *)
(* or rename that fails is an error; a read that fails is passed over in   *)
(* silence, and leaves the process with less than there is on file.        *)
(***************************************************************************)
EXTENDS Integers, Sequences, FiniteSets, FiniteSetsExt, SequencesExt

CONSTANTS
  Proposers,   \* processes with a Proposer: the daemon, a --dry-run
  Aggregator,  \* the cross-host process
  Keys,        \* (basename, sha256) pairs
  Cands,       \* unknown candidates: a directory with the hash that is proposed
  KeyOf,       \* the key of a candidate
  ReadsAs,     \* the key a line of a key is parsed back as
  Shifted,     \* candidates with white space within the path, which moves the suffix
  Width,       \* bytes of a candidate's line
  Suffix,      \* bytes that the count adds to it
  Hosts,       \* hosts that report to the aggregator's sink
  Live,        \* the place of the proposal file; the rotated ones have a time
  Missing,     \* no file at a place
  Gone,        \* an open file that has been replaced at its place
  Closed, NoLine,
  MaxBytes,    \* max_size_bytes
  MaxAge,      \* max_age_secs
  MaxNow,      \* bound: the clock
  MaxPolls,    \* bound: activations of the aggregator
  MaxFaults,   \* bound: failing calls and kills
  Kills        \* whether there are kills among the faults

Actors == Proposers \cup {Aggregator}
Times  == 0..MaxNow
Places == Times \cup {Live}
Line   == [of : Cands, count : Nat]     \* count 0: no cross_host_count suffix

ASSUME ProposalAssumption ==
  /\ Aggregator \notin Proposers
  /\ KeyOf \in [Cands -> Keys] /\ ReadsAs \in [Keys -> Keys]
  /\ Shifted \subseteq Cands
  /\ Width \in [Cands -> Nat \ {0}] /\ Suffix \in Nat
  /\ IsFiniteSet(Hosts)
  /\ Live \notin Int
  /\ Missing \notin Seq(Line)
  /\ {Closed, Gone} \cap Places = {} /\ Closed # Gone
  /\ NoLine \notin Line
  /\ MaxBytes \in Nat \ {0} /\ MaxAge \in Nat \ {0}
  /\ MaxNow \in Nat /\ MaxPolls \in Nat /\ MaxFaults \in Nat
  /\ Kills \in BOOLEAN

VARIABLES
  (* the file system *)
  lines,    \* [Places -> Seq(Line) \cup {Missing}]
  mtime,    \* of the file at Live
  now,
  (* the processes *)
  pc,       \* [Actors -> Phases]
  line,     \* [Actors -> Line \cup {NoLine}]: the line about to be appended
  fd,       \* [Actors -> Places \cup {Closed, Gone}]: the file opened for it
  known,    \* [Proposers -> SUBSET Keys]: dedupe
  since,    \* [Proposers -> Times]: file_mtime
  todo,     \* [Proposers -> SUBSET Cands]: unknown candidates still to be observed
  restored, \* [Keys -> Nat]: placeholder hosts
  seen,     \* [Keys -> SUBSET Hosts]: the aggregator's state without placeholders
  batch,    \* [Keys -> SUBSET Hosts]: what this poll has still to write
  (* observers: keys on file at a place that a failing read has hidden *)
  unlearned,  \* [Places -> SUBSET Keys]: from a proposer's memory
  uncounted,  \* [Places -> SUBSET Keys]: with their counts, from the aggregator's
  (* bounds *)
  polls, faults

missed   == <<unlearned, uncounted>>
file     == <<lines, mtime, now, missed>>
proposer == <<known, since, todo>>
aggState == <<restored, seen, batch, polls>>
vars     == <<file, pc, line, fd, proposer, aggState, faults>>

Phases == {"down", "load", "stat", "idle", "check", "rename", "create",
           "fetch", "open", "write"}

Init ==
  /\ lines = [p \in Places |-> Missing]
  /\ mtime = 0 /\ now = 0
  /\ pc = [a \in Actors |-> "down"]
  /\ line = [a \in Actors |-> NoLine]
  /\ fd = [a \in Actors |-> Closed]
  /\ known = [w \in Proposers |-> {}]
  /\ since = [w \in Proposers |-> 0]
  /\ todo = [w \in Proposers |-> {}]
  /\ restored = [k \in Keys |-> 0]
  /\ seen = [k \in Keys |-> {}] /\ batch = [k \in Keys |-> {}]
  /\ unlearned = [p \in Places |-> {}] /\ uncounted = [p \in Places |-> {}]
  /\ polls = 0 /\ faults = 0

-----------------------------------------------------------------------------
(* Helpers *)

Goto(a, to) == pc' = [pc EXCEPT ![a] = to]

Step(a, from, to) == pc[a] = from /\ Goto(a, to)

Exists == lines[Live] # Missing

\* open with O_CREAT: a new file is empty, one that exists is left alone.
CreateIfMissing ==
  IF Exists THEN UNCHANGED file
  ELSE /\ lines' = [lines EXCEPT ![Live] = <<>>]
       /\ mtime' = now
       /\ UNCHANGED <<now, missed>>

LinesAt(p) == IF lines[p] = Missing THEN <<>> ELSE lines[p]

\* The key of a line, as it was written.
LineKey(l) == KeyOf[l.of]

Bytes(l) == Width[l.of] + IF l.count = 0 THEN 0 ELSE Suffix

\* The size of a file with these lines.
Size(s) ==
  LET upTo[i \in 0..Len(s)] == IF i = 0 THEN 0 ELSE upTo[i - 1] + Bytes(s[i])
  IN upTo[Len(s)]

\* parse_entry on every line; the suffix of an aggregated one is ignored.
ParsedKeys(s) == {ReadsAs[LineKey(s[i])] : i \in DOMAIN s}

\* parse_proposal_line takes the fifth field of a line for the suffix. White space in
\* the path, of which the name is a part, puts the suffix further behind.
Counted(s, k) ==
  {i \in DOMAIN s : s[i].of \notin Shifted /\ ReadsAs[LineKey(s[i])] = k}

\* The placeholder hosts of a key are as many as the largest count of its lines.
ParsedCount(s, k) == Max({0} \cup {s[i].count : i \in Counted(s, k)})

\* What a call that fails makes of observe: an error, logged by run_once.
GiveUp(w) ==
  /\ Goto(w, "idle")
  /\ line' = [line EXCEPT ![w] = NoLine]
  /\ fd' = [fd EXCEPT ![w] = Closed]
  /\ UNCHANGED <<file, proposer, aggState>>

-----------------------------------------------------------------------------
(* The Proposer *)

\* Mutant: the file is opened with truncation.
BeginTruncating(w) ==
  /\ Step(w, "down", "load")
  /\ lines' = [lines EXCEPT ![Live] = <<>>]
  /\ mtime' = now
  /\ todo' = [todo EXCEPT ![w] = Cands]
  /\ UNCHANGED <<now, missed, line, fd, known, since, aggState, faults>>

\* Mutant: the file is expected to be there.
BeginNoCreate(w) ==
  /\ Step(w, "down", "load")
  /\ todo' = [todo EXCEPT ![w] = Cands]
  /\ UNCHANGED <<file, line, fd, known, since, aggState, faults>>

\* A new activation: every poll meets all unknown candidates again. Where the file
\* cannot be opened there is no activation.
Begin(w) ==
  /\ Step(w, "down", "load")
  /\ CreateIfMissing
  /\ todo' = [todo EXCEPT ![w] = Cands]
  /\ UNCHANGED <<line, fd, known, since, aggState, faults>>

\* Mutant: the keys on file are not read back.
LoadNothing(w) ==
  /\ Step(w, "load", "stat")
  /\ known' = [known EXCEPT ![w] = {}]
  /\ UNCHANGED <<file, line, fd, since, todo, aggState, faults>>

\* A file that is not there any more has no keys.
Load(w) ==
  /\ Step(w, "load", "stat")
  /\ known' = [known EXCEPT ![w] = ParsedKeys(LinesAt(Live))]
  /\ UNCHANGED <<file, line, fd, since, todo, aggState, faults>>

Stat(w) ==
  /\ Step(w, "stat", "idle")
  /\ since' = [since EXCEPT ![w] = IF Exists THEN mtime ELSE now]
  /\ UNCHANGED <<file, line, fd, known, todo, aggState, faults>>

Duplicate(w, c) ==
  /\ pc[w] = "idle" /\ c \in todo[w] /\ KeyOf[c] \in known[w]
  /\ todo' = [todo EXCEPT ![w] = @ \ {c}]
  /\ UNCHANGED <<file, pc, line, fd, known, since, aggState, faults>>

\* Mutant: the key is remembered before it is written.
ObserveRemembering(w, c) ==
  /\ c \in todo[w] /\ KeyOf[c] \notin known[w]
  /\ Step(w, "idle", "check")
  /\ todo' = [todo EXCEPT ![w] = @ \ {c}]
  /\ known' = [known EXCEPT ![w] = @ \cup {KeyOf[c]}]
  /\ line' = [line EXCEPT ![w] = [of |-> c, count |-> 0]]
  /\ UNCHANGED <<file, fd, since, aggState, faults>>

Observe(w, c) ==
  /\ c \in todo[w] /\ KeyOf[c] \notin known[w]
  /\ Step(w, "idle", "check")
  /\ todo' = [todo EXCEPT ![w] = @ \ {c}]
  /\ line' = [line EXCEPT ![w] = [of |-> c, count |-> 0]]
  /\ UNCHANGED <<file, fd, known, since, aggState, faults>>

Old(w) == now - since[w] >= MaxAge

\* Mutant: a file of just the limit is not full yet.
FullLate == Size(lines[Live]) > MaxBytes

Full == Size(lines[Live]) >= MaxBytes

\* should_rotate: the size is that of the file before the append, whatever the length
\* of the line to come; the age is that of file_mtime.
Check(w) ==
  /\ Exists
  /\ Step(w, "check", IF Full \/ Old(w) THEN "rename" ELSE "open")
  /\ UNCHANGED <<file, line, fd, proposer, aggState, faults>>

\* rotate: the file moves, with whoever has it open, to a name made of the time.
\* A file that was there is replaced.
Rename(w) ==
  /\ Exists
  /\ ~Old(w) => lines[now] = Missing   \* no file fills up within one second
  /\ Step(w, "rename", "create")
  /\ lines' = [lines EXCEPT ![now] = lines[Live], ![Live] = Missing]
  /\ fd' = [a \in Actors |-> CASE fd[a] = Live -> now
                               [] fd[a] = now  -> Gone
                               [] OTHER        -> fd[a]]
  /\ unlearned' = [unlearned EXCEPT ![now] = unlearned[Live], ![Live] = {}]
  /\ uncounted' = [uncounted EXCEPT ![now] = uncounted[Live], ![Live] = {}]
  /\ UNCHANGED <<mtime, now, line, proposer, aggState, faults>>

\* File::create truncates what another writer may have created meanwhile.
Create(w) ==
  /\ Step(w, "create", "open")
  /\ lines' = [lines EXCEPT ![Live] = <<>>]
  /\ mtime' = now
  /\ known' = [known EXCEPT ![w] = {}]
  /\ since' = [since EXCEPT ![w] = now]
  /\ unlearned' = [unlearned EXCEPT ![Live] = {}]
  /\ uncounted' = [uncounted EXCEPT ![Live] = {}]
  /\ UNCHANGED <<now, line, fd, todo, aggState, faults>>

\* append_entry opens without creating.
Open(w) ==
  /\ Exists
  /\ Step(w, "open", "write")
  /\ fd' = [fd EXCEPT ![w] = Live]
  /\ UNCHANGED <<file, line, proposer, aggState, faults>>

\* The file is not there: stat, rename or open fails.
NotFound(w) ==
  /\ ~Exists /\ pc[w] \in {"check", "rename", "open"}
  /\ GiveUp(w)
  /\ UNCHANGED faults

\* The line lands in the file that was opened, wherever that is by now.
AppendLine(a) ==
  /\ pc[a] = "write"
  /\ IF fd[a] = Gone THEN UNCHANGED lines
     ELSE lines' = [lines EXCEPT ![fd[a]] = Append(@, line[a])]
  /\ mtime' = IF fd[a] = Live THEN now ELSE mtime
  /\ Goto(a, "idle")
  /\ line' = [line EXCEPT ![a] = NoLine]
  /\ fd' = [fd EXCEPT ![a] = Closed]
  /\ UNCHANGED now

Write(w) ==
  /\ AppendLine(w)
  /\ known' = [known EXCEPT ![w] = @ \cup {LineKey(line[w])}]
  /\ UNCHANGED <<missed, since, todo, aggState, faults>>

\* The poll is over; the memory goes with the process.
Forget(w) ==
  /\ Goto(w, "down")
  /\ line' = [line EXCEPT ![w] = NoLine]
  /\ fd' = [fd EXCEPT ![w] = Closed]
  /\ known' = [known EXCEPT ![w] = {}]
  /\ since' = [since EXCEPT ![w] = 0]
  /\ todo' = [todo EXCEPT ![w] = {}]
  /\ UNCHANGED <<file, aggState>>

Exit(w) ==
  /\ pc[w] = "idle" /\ todo[w] = {}
  /\ Forget(w)
  /\ UNCHANGED faults

\* The clock has reached its bound, and its name is taken.
NoNameLeft(w) == pc[w] = "rename" /\ ~Old(w) /\ now = MaxNow /\ lines[now] # Missing

\* The names within the bound are used up: here the rotation counts as failed.
OutOfNames(w) ==
  /\ NoNameLeft(w)
  /\ GiveUp(w)
  /\ UNCHANGED faults

-----------------------------------------------------------------------------
(* The Aggregator *)

agg == Aggregator

\* Mutant: the counts on file are not restored.
AggBeginFresh ==
  /\ polls < MaxPolls /\ polls' = polls + 1
  /\ Step(agg, "down", "fetch")
  /\ UNCHANGED <<file, line, fd, proposer, restored, seen, batch, faults>>

\* Aggregator::new restores the counts, not the hosts.
AggBegin ==
  /\ polls < MaxPolls /\ polls' = polls + 1
  /\ Step(agg, "down", "fetch")
  /\ restored' = [k \in Keys |-> ParsedCount(LinesAt(Live), k)]
  /\ UNCHANGED <<file, line, fd, proposer, seen, batch, faults>>

\* The sink answers with any observations, grouped by key.
Batches ==
  {b \in [Keys -> SUBSET Hosts] :
     \A k \in Keys : b[k] # {} => \E c \in Cands : KeyOf[c] = k}

Fetch(b) ==
  /\ Step(agg, "fetch", "idle")
  /\ batch' = b
  /\ UNCHANGED <<file, line, fd, proposer, restored, seen, polls, faults>>

\* The keys of the batch come in the order of a hash map. The path of the line is that
\* of the key's first observation, the candidate c.
TakeKey(c) ==
  LET k == KeyOf[c] IN
  /\ batch[k] # {}
  /\ Step(agg, "idle", "open")
  /\ seen' = [seen EXCEPT ![k] = @ \cup batch[k]]
  /\ batch' = [batch EXCEPT ![k] = {}]
  /\ line' = [line EXCEPT ![agg] =
       [of |-> c, count |-> restored[k] + Cardinality(seen'[k])]]
  /\ UNCHANGED <<file, fd, proposer, restored, polls, faults>>

\* append_proposal_entry creates the file when it is missing.
AggOpen ==
  /\ Step(agg, "open", "write")
  /\ CreateIfMissing
  /\ fd' = [fd EXCEPT ![agg] = Live]
  /\ UNCHANGED <<line, proposer, aggState, faults>>

AggWrite ==
  /\ AppendLine(agg)
  /\ UNCHANGED <<missed, proposer, aggState, faults>>

AggForget ==
  /\ Goto(agg, "down")
  /\ line' = [line EXCEPT ![agg] = NoLine]
  /\ fd' = [fd EXCEPT ![agg] = Closed]
  /\ restored' = [k \in Keys |-> 0]
  /\ seen' = [k \in Keys |-> {}] /\ batch' = [k \in Keys |-> {}]
  /\ UNCHANGED <<file, proposer, polls>>

AggExit ==
  /\ pc[agg] = "idle" /\ \A k \in Keys : batch[k] = {}
  /\ AggForget
  /\ UNCHANGED faults

-----------------------------------------------------------------------------
(* Failures and time *)

Fault == faults < MaxFaults /\ faults' = faults + 1

\* Proposer::new passes over a file that cannot be opened for reading and over what
\* comes after a line that cannot be read.
LoadShort(w) ==
  LET all == LinesAt(Live) IN
  /\ Step(w, "load", "stat")
  /\ Fault
  /\ \E n \in 0..(Len(all) - 1) :
       LET read == ParsedKeys(SubSeq(all, 1, n)) IN
       /\ known' = [known EXCEPT ![w] = read]
       /\ unlearned' = [unlearned EXCEPT ![Live] = @ \cup (ParsedKeys(all) \ read)]
  /\ UNCHANGED <<lines, mtime, now, uncounted, line, fd, since, todo, aggState>>

\* A file without metadata counts as new.
StatFails(w) ==
  /\ Step(w, "stat", "idle")
  /\ Fault
  /\ since' = [since EXCEPT ![w] = now]
  /\ UNCHANGED <<file, line, fd, known, todo, aggState>>

\* Mutant: a failed write leaves the file open.
CallFailsOpen(w) ==
  /\ pc[w] \in {"check", "rename", "create", "open", "write"}
  /\ Fault
  /\ Goto(w, "idle")
  /\ line' = [line EXCEPT ![w] = NoLine]
  /\ UNCHANGED <<file, fd, proposer, aggState>>

\* metadata, create_dir_all, rename, create, open or write fails with nothing done.
CallFails(w) ==
  /\ pc[w] \in {"check", "rename", "create", "open", "write"}
  /\ Fault
  /\ GiveUp(w)

\* The flush fails, an error, and the line is written when its BufWriter is dropped.
WrittenAfterAll(w) ==
  /\ AppendLine(w)
  /\ Fault
  /\ unlearned' = [p \in Places |->
       unlearned[p] \cup IF p = fd[w] THEN {LineKey(line[w])} ELSE {}]
  /\ UNCHANGED <<uncounted, proposer, aggState>>

\* A stop request in the middle of a poll, or a kill.
Kill(w) ==
  /\ Kills /\ pc[w] # "down"
  /\ Fault
  /\ Forget(w)

\* Aggregator::new passes over what it cannot read in the same way.
AggBeginShort ==
  LET all == LinesAt(Live) IN
  /\ polls < MaxPolls /\ polls' = polls + 1
  /\ Step(agg, "down", "fetch")
  /\ Fault
  /\ \E n \in 0..(Len(all) - 1) :
       LET read == SubSeq(all, 1, n) IN
       /\ restored' = [k \in Keys |-> ParsedCount(read, k)]
       /\ uncounted' = [uncounted EXCEPT ![Live] = @ \cup
            {k \in Keys : ParsedCount(read, k) # ParsedCount(all, k)}]
  /\ UNCHANGED <<lines, mtime, now, unlearned, line, fd, proposer, seen, batch>>

\* A kill; a sink or a file that fails ends the aggregator as well.
AggKill ==
  /\ pc[agg] # "down"
  /\ Fault
  /\ AggForget

Tick ==
  /\ now < MaxNow
  /\ now' = now + 1
  /\ UNCHANGED <<lines, mtime, missed, pc, line, fd, proposer, aggState, faults>>

-----------------------------------------------------------------------------
(* Specification *)

Propose(w) ==
  \/ Begin(w) \/ Load(w) \/ Stat(w)
  \/ \E c \in Cands : Duplicate(w, c) \/ Observe(w, c)
  \/ Check(w) \/ Rename(w) \/ Create(w) \/ Open(w) \/ Write(w)
  \/ NotFound(w) \/ OutOfNames(w) \/ Exit(w)

Aggregate ==
  \/ AggBegin
  \/ \E b \in Batches : Fetch(b)
  \/ \E c \in Cands : TakeKey(c)
  \/ AggOpen \/ AggWrite \/ AggExit

Trouble(w) ==
  \/ LoadShort(w) \/ StatFails(w) \/ CallFails(w) \/ WrittenAfterAll(w) \/ Kill(w)

Next ==
  \/ \E w \in Proposers : Propose(w) \/ Trouble(w)
  \/ Aggregate \/ AggBeginShort \/ AggKill
  \/ Tick

Spec == Init /\ [][Next]_vars

\* The timer starts the daemon again and again, its calls return, time passes.
FairSpec == Spec /\ WF_vars(Tick) /\ \A w \in Proposers : WF_vars(Propose(w))

-----------------------------------------------------------------------------
(* Properties *)

FileTypeOK ==
  /\ lines \in [Places -> Seq(Line) \cup {Missing}]
  /\ mtime \in Times /\ now \in Times
  /\ unlearned \in [Places -> SUBSET Keys]
  /\ uncounted \in [Places -> SUBSET Keys]

ActorTypeOK ==
  /\ pc \in [Actors -> Phases]
  /\ line \in [Actors -> Line \cup {NoLine}]
  /\ fd \in [Actors -> Places \cup {Closed, Gone}]
  /\ \A a \in Actors :
       /\ line[a] # NoLine <=> pc[a] \in {"check", "rename", "create", "open", "write"}
       /\ fd[a] # Closed <=> pc[a] = "write"

ProposerTypeOK ==
  /\ known \in [Proposers -> SUBSET Keys]
  /\ since \in [Proposers -> Times]
  /\ todo \in [Proposers -> SUBSET Cands]

AggTypeOK ==
  /\ restored \in [Keys -> Nat]
  /\ seen \in [Keys -> SUBSET Hosts]
  /\ batch \in [Keys -> SUBSET Hosts]
  /\ polls \in 0..MaxPolls /\ faults \in 0..MaxFaults

\* Every variable has its type, a line is at hand exactly from the decision to
\* append it to the end of the append, and a file is open only during the write.
TypeOK == FileTypeOK /\ ActorTypeOK /\ ProposerTypeOK /\ AggTypeOK

\* The keys that the lines at a place have in writing.
OnFile(p) == {LineKey(LinesAt(p)[i]) : i \in DOMAIN LinesAt(p)}

Recorded(k) == \E p \in Places : k \in OnFile(p)

\* No line of another key is read back as this one: the name is not another's up to the
\* white space in it, or the hashes differ.
Sole(k) == \A j \in Keys : ReadsAs[j] = k => j = k

\* Without a second writer, a key the proposer takes for a duplicate is in writing, in
\* the proposal file or in a rotated one: whatever fails between the rename, the
\* truncation and the append of observe, no key is suppressed that is nowhere. A key
\* that is not sole has no such promise (see WriterErrorRetried).
KnownIsRecorded ==
  \A w \in Proposers : \A k \in known[w] : Sole(k) => Recorded(k)

\* The daemon proposes a key at most once per file, across its restarts and rotations
\* (contract, "Dedup semantics"), but for two cases: a key that is not read back as
\* itself, for white space in the name, is proposed again by every activation; and a
\* read or a flush that failed may have left a key on file out of the memory.
ProposedOncePerFile ==
  \A p \in Places :
    \A i, j \in DOMAIN LinesAt(p) :
      LET l == LinesAt(p)[i]
          m == LinesAt(p)[j] IN
      /\ LineKey(l) = LineKey(m) /\ l.count = 0 /\ m.count = 0
      /\ ReadsAs[LineKey(l)] = LineKey(l)
      /\ LineKey(l) \notin unlearned[p]
      => i = j

\* Within one file the aggregator's count of a key rises from line to line, across
\* restarts of the aggregator and rotations by the daemon (contract: "the count is honoured
\* across restarts"), but for two cases: the count of a line with white space within its
\* name or path is not read back, and a failed read may have hidden one.
CountsGrow ==
  \A p \in Places :
    \A i, j \in DOMAIN LinesAt(p) :
      LET l == LinesAt(p)[i]
          m == LinesAt(p)[j] IN
      /\ i < j /\ LineKey(l) = LineKey(m)
      /\ ReadsAs[LineKey(l)] = LineKey(l) /\ l.of \notin Shifted
      /\ LineKey(l) \notin uncounted[p]
      /\ l.count > 0 /\ m.count > 0
      => l.count < m.count

\* Without a second writer no line is ever lost or changed: a file only grows,
\* where it is or at its rotated name.
AppendOnly ==
  [][ \A p \in Places : lines[p] # Missing =>
        \E q \in Places : lines'[q] # Missing /\ IsPrefix(lines[p], lines'[q]) ]_vars

\* Without a second writer a file goes beyond its limit by its last line at most: up to
\* there it was below, failed rotations included.
SizeBounded ==
  \A p \in Places : LinesAt(p) # <<>> => Size(Front(LinesAt(p))) < MaxBytes

\* Every sole key of an unknown candidate is in writing in the end: what a failed call, a
\* missing file or a kill left out is proposed by a later activation. This is said of
\* behaviours in which the bound of the clock stops no rotation.
Retried ==
  [](\A w \in Proposers : ~NoNameLeft(w))
    => \A c \in Cands : Sole(KeyOf[c]) => <>Recorded(KeyOf[c])

-----------------------------------------------------------------------------
(* What the contract says and the code does not do *)

\* tmp-watcher-allowlist-ioc.md: cross_host_count is the number of unique hosts
\* that reported the key, so at most that of all hosts there are.
CountsHosts ==
  \A p \in Places : \A i \in DOMAIN LinesAt(p) :
    LinesAt(p)[i].count <= Cardinality(Hosts)

\* tmp-watcher-allowlist-ioc.md: after a writer error "the next poll cycle retries". So no
\* poll passes over an unknown candidate whose key is in no file.
WriterErrorRetried ==
  [][ \A w \in Proposers : \A c \in todo[w] :
        pc[w] = "idle" /\ pc'[w] = "idle" /\ c \notin todo'[w] => Recorded(KeyOf[c]) ]_vars
=============================================================================
