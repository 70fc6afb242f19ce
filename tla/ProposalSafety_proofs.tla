------------------------ MODULE ProposalSafety_proofs ------------------------
(***************************************************************************)
(* The safety properties of ProposalFile: of both writers together, of one *)
(* proposer beside the aggregator, and of the proposer alone.              *)
(***************************************************************************)
EXTENDS ProposalFile_proofs

USE ProposalAssumption

-----------------------------------------------------------------------------
(* What a step does to the files *)

\* What a failed read has hidden stays noted as such.
Hidden(p) == unlearned[p] \subseteq unlearned'[p] /\ uncounted[p] \subseteq uncounted'[p]

Same(p) == LinesAt(p)' = LinesAt(p) /\ Hidden(p)

SameFiles == \A p \in Places : Same(p)

\* The line a process has at hand lands in the file it has open.
Landed(a, p) ==
  /\ fd[a] = p /\ LinesAt(p)' = Append(LinesAt(p), line[a]) /\ Hidden(p)
  /\ \A q \in Places \ {p} : Same(q)

\* The proposal file moves to a name made of the time.
Moved(t) ==
  /\ now = t /\ LinesAt(t)' = LinesAt(Live) /\ LinesAt(Live)' = <<>>
  /\ unlearned'[t] = unlearned[Live] /\ uncounted'[t] = uncounted[Live]
  /\ \A p \in Places \ {t, Live} : Same(p)

Emptied ==
  /\ LinesAt(Live)' = <<>>
  /\ \A p \in Places \ {Live} : Same(p)

LEMMA CreatesNoLines == ASSUME Typed, CreateIfMissing PROVE SameFiles
<1>1. CASE Exists
  BY <1>1 DEF CreateIfMissing, file, missed, SameFiles, Same, Hidden, LinesAt
<1>2. CASE ~Exists
  BY <1>2, EmptyIsFile
  DEF CreateIfMissing, Exists, missed, SameFiles, Same, Hidden, LinesAt, Typed, TypeOK,
      FileTypeOK, Places
<1> QED
  BY <1>1, <1>2

LEMMA AppendLands ==
  ASSUME Typed, NEW a \in Actors, AppendLine(a), \A p \in Places : Hidden(p)
  PROVE  SameFiles \/ \E p \in Places : Landed(a, p)
<1>1. CASE fd[a] = Gone
  BY <1>1 DEF AppendLine, SameFiles, Same, LinesAt
<1>2. CASE fd[a] # Gone
  <2>1. PICK p \in Places : fd[a] = p
    BY <1>2 DEF AppendLine, Typed, TypeOK, ActorTypeOK
  <2>2. line[a] \in Line /\ lines[p] \in Seq(Line) /\ lines[p] # Missing
    BY <2>1 DEF AppendLine, Typed, TypeOK, ActorTypeOK, FileTypeOK, OpenFilesExist
  <2>3. Append(lines[p], line[a]) # Missing
    <3>1. Append(lines[p], line[a]) \in Seq(Line)
      BY <2>2
    <3> QED
      BY <3>1
  <2>4. lines' = [lines EXCEPT ![p] = Append(lines[p], line[a])]
    BY <1>2, <2>1 DEF AppendLine
  <2>5. LinesAt(p)' = Append(LinesAt(p), line[a])
    BY <2>1, <2>2, <2>3, <2>4 DEF LinesAt, Typed, TypeOK, FileTypeOK
  <2>6. \A q \in Places \ {p} : LinesAt(q)' = LinesAt(q)
    BY <2>4 DEF Typed, TypeOK, FileTypeOK, LinesAt
  <2> QED
    BY <2>1, <2>5, <2>6 DEF Landed, Same
<1> QED
  BY <1>1, <1>2

LEMMA RenameMoves ==
  ASSUME Typed, NEW w \in Proposers, Rename(w)
  PROVE  \E t \in Times : Moved(t)
<1>1. PICK t \in Times : t = now
  BY DEF Typed, TypeOK, FileTypeOK
<1>2. t \in Places /\ t # Live /\ lines[Live] # Missing /\ Live \in Places
  BY LiveIsNoTime DEF Places, Rename, Exists
<1>3. /\ lines' = [lines EXCEPT ![t] = lines[Live], ![Live] = Missing]
      /\ unlearned' = [unlearned EXCEPT ![t] = unlearned[Live], ![Live] = {}]
      /\ uncounted' = [uncounted EXCEPT ![t] = uncounted[Live], ![Live] = {}]
  BY <1>1 DEF Rename
<1>4. LinesAt(t)' = LinesAt(Live) /\ LinesAt(Live)' = <<>>
  BY <1>2, <1>3 DEF LinesAt, Typed, TypeOK, FileTypeOK
<1>5. unlearned'[t] = unlearned[Live] /\ uncounted'[t] = uncounted[Live]
  BY <1>2, <1>3 DEF Typed, TypeOK, FileTypeOK
<1>6. \A p \in Places \ {t, Live} : Same(p)
  BY <1>2, <1>3 DEF Same, Hidden, LinesAt, Typed, TypeOK, FileTypeOK
<1> QED
  BY <1>1, <1>4, <1>5, <1>6 DEF Moved

LEMMA CreateEmpties == ASSUME Typed, NEW w \in Proposers, Create(w) PROVE Emptied
BY EmptyIsFile
DEF Create, Emptied, Same, Hidden, LinesAt, Typed, TypeOK, FileTypeOK, Places

-----------------------------------------------------------------------------
(* The counts of the aggregator, beside any number of proposers *)

Plain(k) == ReadsAs[k] = k

\* In a sequence of lines: the counts of a key that are read back are below c; counts
\* rise, but for the hidden keys.
CountsBelow(s, k, c) ==
  \A i \in DOMAIN s : LineKey(s[i]) = k /\ s[i].of \notin Shifted => s[i].count < c

Rises(s, hidden) ==
  \A i, j \in DOMAIN s :
    /\ i < j /\ LineKey(s[i]) = LineKey(s[j])
    /\ Plain(LineKey(s[i])) /\ s[i].of \notin Shifted /\ LineKey(s[i]) \notin hidden
    /\ s[i].count > 0 /\ s[j].count > 0
    => s[i].count < s[j].count

LEMMA AppendCountsBelow ==
  ASSUME NEW s \in Seq(Line), NEW l \in Line, NEW k \in Keys, NEW c \in Nat,
         CountsBelow(s, k, c), LineKey(l) = k => l.count < c
  PROVE  CountsBelow(Append(s, l), k, c)
BY DEF CountsBelow

LEMMA AppendRises ==
  ASSUME NEW s \in Seq(Line), NEW l \in Line, NEW hidden, Rises(s, hidden),
         l.count > 0 /\ Plain(LineKey(l)) /\ LineKey(l) \notin hidden
           => CountsBelow(s, LineKey(l), l.count)
  PROVE  Rises(Append(s, l), hidden)
<1> DEFINE t == Append(s, l)
<1> SUFFICES ASSUME NEW i \in DOMAIN t, NEW j \in DOMAIN t,
                    i < j, LineKey(t[i]) = LineKey(t[j]),
                    Plain(LineKey(t[i])), t[i].of \notin Shifted,
                    LineKey(t[i]) \notin hidden,
                    t[i].count > 0, t[j].count > 0
             PROVE  t[i].count < t[j].count
  BY DEF Rises
<1>1. i \in DOMAIN s /\ t[i] = s[i]
  OBVIOUS
<1>2. CASE j \in DOMAIN s
  <2>1. t[j] = s[j]
    BY <1>2
  <2> QED
    BY <1>1, <1>2, <2>1 DEF Rises
<1>3. CASE j \notin DOMAIN s
  <2>1. t[j] = l
    BY <1>3
  <2> QED
    BY <1>1, <2>1 DEF CountsBelow
<1> QED
  BY <1>2, <1>3

LEMMA EmptyRises ==
  /\ \A hidden : Rises(<<>>, hidden)
  /\ \A k \in Keys, c \in Nat : CountsBelow(<<>>, k, c)
BY DEF Rises, CountsBelow

\* The more is hidden, the less is said.
LEMMA HiddenRises ==
  ASSUME NEW s, NEW hidden, NEW more, hidden \subseteq more, Rises(s, hidden)
  PROVE  Rises(s, more)
BY DEF Rises

\* Where nothing moved, counts go on rising.
LEMMA SameRises ==
  ASSUME SameFiles, \A p \in Places : Rises(LinesAt(p), uncounted[p])
  PROVE  \A p \in Places : Rises(LinesAt(p), uncounted[p])'
<1> SUFFICES ASSUME NEW p \in Places PROVE Rises(LinesAt(p), uncounted[p])'
  OBVIOUS
<1>1. LinesAt(p)' = LinesAt(p) /\ uncounted[p] \subseteq uncounted'[p]
  BY DEF SameFiles, Same, Hidden
<1>2. Rises(LinesAt(p), uncounted'[p])
  BY <1>1, HiddenRises
<1> QED
  BY <1>1, <1>2

\* The daemon's lines have no count, the aggregator's one of at least 1.
CountsByWriter ==
  /\ \A w \in Proposers : line[w] # NoLine => line[w].count = 0
  /\ line[agg] # NoLine => line[agg].count > 0

\* The line the aggregator has at hand is above what a file has for its key.
AheadOf(p) ==
  Plain(LineKey(line[agg])) /\ LineKey(line[agg]) \notin uncounted[p]
    => CountsBelow(LinesAt(p), LineKey(line[agg]), line[agg].count)

\* What the aggregator has still to write is above what is on file, wherever the
\* file is by the time it is written.
Ahead ==
  /\ pc[agg] \in {"down", "fetch"} => \A k \in Keys : batch[k] = {} /\ seen[k] = {}
  /\ \A k \in Keys : batch[k] # {} => seen[k] = {}
  /\ \A k \in Keys :
       Plain(k) /\ k \notin uncounted[Live] /\ (pc[agg] = "fetch" \/ batch[k] # {})
         => CountsBelow(LinesAt(Live), k, restored[k] + 1)
  /\ pc[agg] \in {"open", "write"} => batch[LineKey(line[agg])] = {}
  /\ pc[agg] = "open" => AheadOf(Live)
  /\ \A p \in Places : pc[agg] = "write" /\ fd[agg] = p => AheadOf(p)

CountInv ==
  /\ Typed /\ CountsByWriter /\ Ahead
  /\ \A p \in Places : Rises(LinesAt(p), uncounted[p])

LEMMA InitCount == Init => CountInv
<1> SUFFICES ASSUME Init PROVE CountInv
  OBVIOUS
<1>1. \A p \in Places : LinesAt(p) = <<>>
  BY DEF Init, LinesAt
<1>2. CountsByWriter /\ Ahead
  BY DEF Init, CountsByWriter, Ahead, Actors, agg
<1> QED
  BY <1>1, <1>2, EmptyRises, InitTyped DEF CountInv

AggUntouched ==
  UNCHANGED <<aggState, pc[agg], line[agg], fd[agg]>>

\* What a step of a proposer is to the aggregator and to the files.
LEMMA SameFile == ASSUME UNCHANGED file PROVE SameFiles
BY DEF file, missed, SameFiles, Same, Hidden, LinesAt

\* What is hidden of the keys at any place only grows where a line is written, ...
LEMMA WriteHides ==
  ASSUME Typed, NEW w \in Proposers, Write(w) \/ WrittenAfterAll(w)
  PROVE  \A p \in Places : Hidden(p)
BY DEF Write, WrittenAfterAll, missed, Hidden

\* ... and where a file is not read to its end.
LEMMA LoadHides ==
  ASSUME Typed, NEW w \in Proposers, LoadShort(w)
  PROVE  SameFiles
<1>1. lines' = lines /\ uncounted' = uncounted
  BY DEF LoadShort
<1>2. PICK new : unlearned' = [unlearned EXCEPT ![Live] = unlearned[Live] \cup new]
  BY DEF LoadShort
<1>3. \A p \in Places : unlearned[p] \subseteq unlearned'[p]
  BY <1>2 DEF Typed, TypeOK, FileTypeOK
<1> QED
  BY <1>1, <1>3 DEF SameFiles, Same, Hidden, LinesAt

LEMMA ProposerStep ==
  ASSUME Typed, NEW w \in Proposers, Propose(w) \/ Trouble(w)
  PROVE  \/ SameFiles /\ AggUntouched
         \/ Emptied /\ AggUntouched
         \/ (\E p \in Places : Landed(w, p)) /\ AggUntouched /\ pc[w] = "write"
         \/ /\ \E t \in Times : Moved(t)
            /\ UNCHANGED <<aggState, pc[agg], line[agg]>>
            /\ fd'[agg] = CASE fd[agg] = Live -> now
                             [] fd[agg] = now  -> Gone
                             [] OTHER          -> fd[agg]
<1> USE DEF AggUntouched, agg, Actors
<1>0. w # Aggregator /\ w \in Actors /\ Aggregator \in Actors
  OBVIOUS
<1>t. /\ pc \in [Actors -> Phases] /\ line \in [Actors -> Line \cup {NoLine}]
      /\ fd \in [Actors -> Places \cup {Closed, Gone}]
  BY DEF Typed, TypeOK, ActorTypeOK
<1>1. CASE Begin(w)
  <2>1. SameFiles
    BY <1>1, CreatesNoLines DEF Begin
  <2> QED
    BY <1>0, <1>t, <1>1, <2>1 DEF Begin, Step, Goto
<1>2. CASE Load(w) \/ Stat(w) \/ StatFails(w) \/ Check(w)
  <2>1. UNCHANGED file
    BY <1>2 DEF Load, Stat, StatFails, Check
  <2> QED
    BY <1>0, <1>t, <1>2, <2>1, SameFile DEF Load, Stat, StatFails, Check, Step, Goto, proposer
<1>3. ASSUME NEW c \in Cands, Duplicate(w, c) \/ Observe(w, c)
      PROVE  SameFiles /\ AggUntouched
  <2>1. UNCHANGED file
    BY <1>3 DEF Duplicate, Observe
  <2> QED
    BY <1>0, <1>t, <1>3, <2>1, SameFile DEF Duplicate, Observe, Step, Goto
<1>4. CASE Rename(w)
  BY <1>0, <1>t, <1>4, RenameMoves DEF Rename, Step, Goto
<1>5. CASE Create(w)
  BY <1>0, <1>t, <1>5, CreateEmpties DEF Create, Step, Goto
<1>6. CASE Open(w)
  <2>1. UNCHANGED file
    BY <1>6 DEF Open
  <2> QED
    BY <1>0, <1>t, <1>6, <2>1, SameFile DEF Open, Step, Goto
<1>7. CASE Write(w) \/ WrittenAfterAll(w)
  <2>1. AppendLine(w) /\ UNCHANGED aggState /\ pc[w] = "write"
    BY <1>7 DEF Write, WrittenAfterAll, AppendLine
  <2>2. SameFiles \/ \E p \in Places : Landed(w, p)
    BY <1>0, <1>7, <2>1, WriteHides, AppendLands
  <2> QED
    BY <1>0, <1>t, <2>1, <2>2 DEF AppendLine, Goto
<1>8. CASE NotFound(w) \/ OutOfNames(w) \/ CallFails(w)
  <2>1. GiveUp(w) /\ UNCHANGED file
    BY <1>8 DEF NotFound, OutOfNames, CallFails, GiveUp
  <2> QED
    BY <1>0, <1>t, <2>1, SameFile DEF GiveUp, Goto
<1>9. CASE Exit(w) \/ Kill(w)
  <2>1. Forget(w) /\ UNCHANGED file
    BY <1>9 DEF Exit, Kill, Forget
  <2> QED
    BY <1>0, <1>t, <2>1, SameFile DEF Forget, Goto
<1>10. CASE LoadShort(w)
  <2>1. SameFiles
    BY <1>10, LoadHides
  <2>2. Step(w, "load", "stat") /\ UNCHANGED <<line, fd, aggState>>
    BY <1>10 DEF LoadShort
  <2> QED
    BY <1>0, <1>t, <2>1, <2>2 DEF Step, Goto
<1> QED
  BY <1>1, <1>2, <1>3, <1>4, <1>5, <1>6, <1>7, <1>8, <1>9, <1>10 DEF Propose, Trouble

LEMMA ProposersLines ==
  ASSUME Typed, CountsByWriter, NEW w \in Proposers, Propose(w) \/ Trouble(w)
  PROVE  CountsByWriter'
<1> USE DEF CountsByWriter, agg, Actors
<1>1. line \in [Actors -> Line \cup {NoLine}] /\ w # Aggregator
  BY DEF Typed, TypeOK, ActorTypeOK
<1>2. ASSUME NEW c \in Cands, Duplicate(w, c) \/ Observe(w, c) PROVE CountsByWriter'
  BY <1>1, <1>2 DEF Duplicate, Observe
<1>3. CASE \/ Begin(w) \/ Load(w) \/ Stat(w) \/ Check(w) \/ Rename(w) \/ Create(w)
           \/ Open(w) \/ LoadShort(w) \/ StatFails(w)
  <2>1. line' = line
    BY <1>3 DEF Begin, Load, Stat, Check, Rename, Create, Open, LoadShort, StatFails
  <2> QED
    BY <2>1
<1>4. CASE \/ Write(w) \/ NotFound(w) \/ OutOfNames(w) \/ Exit(w)
           \/ CallFails(w) \/ WrittenAfterAll(w) \/ Kill(w)
  <2>1. line' = [line EXCEPT ![w] = NoLine]
    BY <1>4
    DEF Write, AppendLine, NotFound, OutOfNames, CallFails, GiveUp, Exit, Kill, Forget,
        WrittenAfterAll
  <2> QED
    BY <1>1, <2>1
<1> QED
  BY <1>2, <1>3, <1>4 DEF Propose, Trouble

LEMMA LinesTyped ==
  ASSUME Typed, NEW p \in Places
  PROVE  LinesAt(p) \in Seq(Line)
BY LinesAtType DEF Typed, TypeOK

LEMMA CountPropose ==
  ASSUME CountInv, NEW w \in Proposers, Propose(w) \/ Trouble(w)
  PROVE  Ahead' /\ \A p \in Places : Rises(LinesAt(p), uncounted[p])'
<1> USE DEF agg, Actors
<1>1. /\ Typed /\ Ahead /\ CountsByWriter
      /\ \A p \in Places : Rises(LinesAt(p), uncounted[p])
  BY DEF CountInv
<1>2. /\ restored \in [Keys -> Nat] /\ line \in [Actors -> Line \cup {NoLine}]
      /\ now \in Places /\ Live \in Places /\ now # Live
      /\ pc[agg] \in {"open", "write"} => line[agg] # NoLine
      /\ pc[w] = "write" => line[w] # NoLine
  BY <1>1, LiveIsNoTime DEF Typed, TypeOK, ActorTypeOK, AggTypeOK, FileTypeOK, Places
<1>3. CASE SameFiles /\ AggUntouched
  <2>1. \A p \in Places : Rises(LinesAt(p), uncounted[p])'
    BY <1>1, <1>3, SameRises
  <2>2. Ahead'
    BY <1>1, <1>2, <1>3 DEF SameFiles, Same, Hidden, AggUntouched, Ahead, AheadOf, aggState
  <2> QED
    BY <2>1, <2>2
<1>4. CASE Emptied /\ AggUntouched
  <2>1. \A p \in Places : Same(p) \/ LinesAt(p)' = <<>>
    BY <1>4 DEF Emptied
  <2>2. ASSUME NEW p \in Places PROVE Rises(LinesAt(p), uncounted[p])'
    <3>1. CASE LinesAt(p)' = <<>>
      BY <3>1, EmptyRises
    <3>2. CASE Same(p)
      <4>1. LinesAt(p)' = LinesAt(p) /\ Rises(LinesAt(p), uncounted'[p])
        BY <1>1, <3>2, HiddenRises DEF Same, Hidden
      <4> QED
        BY <4>1
    <3> QED
      BY <2>1, <3>1, <3>2
  <2>3. \A k, c : CountsBelow(LinesAt(Live), k, c)'
    BY <1>4 DEF Emptied, CountsBelow
  <2>4. ASSUME NEW p \in Places, AheadOf(p) PROVE AheadOf(p)'
    BY <1>4, <2>1, <2>3, <2>4
    DEF AggUntouched, AheadOf, CountsBelow, Same, Hidden
  <2>5. Ahead'
    BY <1>1, <1>2, <1>4, <2>3, <2>4 DEF AggUntouched, Ahead, aggState
  <2> QED
    BY <2>2, <2>5
<1>5. ASSUME NEW q \in Places, Landed(w, q), AggUntouched, pc[w] = "write"
      PROVE  Ahead' /\ \A p \in Places : Rises(LinesAt(p), uncounted[p])'
  <2>1. line[w] \in Line /\ line[w].count = 0
    BY <1>1, <1>2, <1>5 DEF CountsByWriter
  <2>0. \A p \in Places : Hidden(p)
    BY <1>5 DEF Landed, Same
  <2>2. ASSUME NEW p \in Places PROVE Rises(LinesAt(p), uncounted[p])'
    <3>1. LinesAt(p) \in Seq(Line) /\ Rises(LinesAt(p), uncounted'[p])
      BY <1>1, <2>0, LinesTyped, HiddenRises DEF Hidden
    <3>2. Rises(Append(LinesAt(p), line[w]), uncounted'[p])
      BY <2>1, <3>1, AppendRises
    <3>3. LinesAt(p)' = LinesAt(p) \/ LinesAt(p)' = Append(LinesAt(p), line[w])
      BY <1>5 DEF Landed, Same
    <3> QED
      BY <3>1, <3>2, <3>3
  <2>3. ASSUME NEW p \in Places, NEW k \in Keys, NEW c \in Nat, c > 0,
               CountsBelow(LinesAt(p), k, c)
        PROVE  CountsBelow(LinesAt(p), k, c)'
    <3>1. LinesAt(p) \in Seq(Line)
      BY <1>1, LinesTyped
    <3>2. CountsBelow(Append(LinesAt(p), line[w]), k, c)
      BY <2>1, <2>3, <3>1, AppendCountsBelow
    <3>3. LinesAt(p)' = LinesAt(p) \/ LinesAt(p)' = Append(LinesAt(p), line[w])
      BY <1>5 DEF Landed, Same
    <3> QED
      BY <2>3, <3>2, <3>3
  <2>4. \A k \in Keys : restored[k] + 1 \in Nat /\ restored[k] + 1 > 0
    BY <1>2
  <2>5. pc[agg] \in {"open", "write"} =>
          LineKey(line[agg]) \in Keys /\ line[agg].count \in Nat /\ line[agg].count > 0
    BY <1>1, <1>2, LineType DEF CountsByWriter
  <2>6. ASSUME NEW p \in Places, AheadOf(p), pc[agg] \in {"open", "write"}
        PROVE  AheadOf(p)'
    BY <1>5, <2>0, <2>3, <2>5, <2>6 DEF AggUntouched, AheadOf, Hidden
  <2>7. \A k \in Keys : CountsBelow(LinesAt(Live), k, restored[k] + 1)
                        => CountsBelow(LinesAt(Live), k, restored[k] + 1)'
    BY <1>2, <1>5, <2>3, <2>4 DEF AggUntouched, aggState
  <2>8. Ahead'
    BY <1>1, <1>2, <1>5, <2>0, <2>6, <2>7 DEF AggUntouched, Ahead, aggState, Hidden
  <2> QED
    BY <2>2, <2>8
<1>6. CASE /\ \E t \in Times : Moved(t)
           /\ UNCHANGED <<aggState, pc[agg], line[agg]>>
           /\ fd'[agg] = CASE fd[agg] = Live -> now
                            [] fd[agg] = now  -> Gone
                            [] OTHER          -> fd[agg]
  <2>1. PICK t \in Times : Moved(t)
    BY <1>6
  <2>2. ASSUME NEW p \in Places PROVE Rises(LinesAt(p), uncounted[p])'
    <3>1. CASE p = Live
      BY <2>1, <3>1, EmptyRises DEF Moved
    <3>2. CASE p = t
      <4>1. LinesAt(p)' = LinesAt(Live) /\ uncounted'[p] = uncounted[Live]
        BY <2>1, <3>2 DEF Moved
      <4> QED
        BY <1>1, <1>2, <4>1
    <3>3. CASE p # Live /\ p # t
      <4>1. LinesAt(p)' = LinesAt(p) /\ Rises(LinesAt(p), uncounted'[p])
        BY <1>1, <2>1, <3>3, HiddenRises DEF Moved, Same, Hidden
      <4> QED
        BY <4>1
    <3> QED
      BY <3>1, <3>2, <3>3
  <2>3. ASSUME NEW p \in Places, pc'[agg] = "write", fd'[agg] = p PROVE AheadOf(p)'
    <3>1. pc[agg] = "write" /\ line'[agg] = line[agg]
      BY <1>6, <2>3
    <3>2. CASE fd[agg] = Live
      <4>1. p = t /\ AheadOf(Live)
        BY <1>1, <1>2, <1>6, <2>1, <2>3, <3>1, <3>2 DEF Ahead, Moved
      <4>2. LinesAt(p)' = LinesAt(Live) /\ uncounted'[p] = uncounted[Live]
        BY <2>1, <4>1 DEF Moved
      <4> QED
        BY <3>1, <4>1, <4>2 DEF AheadOf
    <3>3. CASE fd[agg] # Live
      <4>1. fd[agg] # t /\ p = fd[agg] /\ p # Live /\ AheadOf(p)
        BY <1>1, <1>2, <1>6, <2>1, <2>3, <3>1, <3>3 DEF Ahead, Moved
      <4>2. LinesAt(p)' = LinesAt(p) /\ uncounted[p] \subseteq uncounted'[p]
        BY <2>1, <4>1 DEF Moved, Same, Hidden
      <4> QED
        BY <3>1, <4>1, <4>2 DEF AheadOf
    <3> QED
      BY <3>2, <3>3
  <2>4. \A k, c : CountsBelow(LinesAt(Live), k, c)'
    BY <2>1 DEF Moved, CountsBelow
  <2>5. Ahead'
    BY <1>1, <1>6, <2>3, <2>4 DEF Ahead, AheadOf, aggState
  <2> QED
    BY <2>2, <2>5
<1> QED
  BY <1>1, <1>3, <1>4, <1>5, <1>6, ProposerStep

LEMMA AggregatorsLine ==
  ASSUME Typed, CountsByWriter, Aggregate \/ AggBeginShort \/ AggKill
  PROVE  CountsByWriter'
<1> USE DEF CountsByWriter, agg, Actors
<1>1. /\ line \in [Actors -> Line \cup {NoLine}] /\ Aggregator \notin Proposers
      /\ restored \in [Keys -> Nat] /\ seen \in [Keys -> SUBSET Hosts]
      /\ batch \in [Keys -> SUBSET Hosts]
  BY DEF Typed, TypeOK, ActorTypeOK, AggTypeOK
<1>2. CASE AggBegin \/ AggBeginShort \/ (\E b \in Batches : Fetch(b)) \/ AggOpen
  <2>1. line' = line
    BY <1>2 DEF AggBegin, AggBeginShort, Fetch, AggOpen
  <2> QED
    BY <2>1
<1>3. ASSUME NEW c \in Cands, TakeKey(c) PROVE CountsByWriter'
  <2> DEFINE k == KeyOf[c]
  <2>0. k \in Keys
    OBVIOUS
  <2>1. /\ \A w \in Proposers : line'[w] = line[w]
        /\ line'[agg] = [of |-> c, count |-> restored[k] + Cardinality(seen'[k])]
    BY <1>1, <1>3 DEF TakeKey
  <2>2. seen'[k] \in SUBSET Hosts /\ seen'[k] # {}
    BY <1>1, <1>3 DEF TakeKey
  <2>3. Cardinality(seen'[k]) \in Nat /\ Cardinality(seen'[k]) > 0
    <3>1. IsFiniteSet(seen'[k])
      BY <2>2, FS_Subset
    <3> QED
      BY <2>2, <3>1, FS_EmptySet, FS_CardinalityType
  <2>4. restored[k] \in Nat /\ line'[agg].count = restored[k] + Cardinality(seen'[k])
    BY <1>1, <2>0, <2>1
  <2> QED
    BY <2>1, <2>3, <2>4
<1>4. CASE AggWrite \/ AggExit \/ AggKill
  BY <1>1, <1>4 DEF AggWrite, AppendLine, AggExit, AggKill, AggForget
<1> QED
  BY <1>2, <1>3, <1>4 DEF Aggregate

LEMMA CountAggregate ==
  ASSUME CountInv, Aggregate \/ AggBeginShort \/ AggKill
  PROVE  Ahead' /\ \A p \in Places : Rises(LinesAt(p), uncounted[p])'
<1> USE DEF agg, Actors
<1>1. /\ Typed /\ Ahead /\ CountsByWriter
      /\ \A p \in Places : Rises(LinesAt(p), uncounted[p])
  BY DEF CountInv
<1>2. /\ restored \in [Keys -> Nat] /\ line \in [Actors -> Line \cup {NoLine}]
      /\ seen \in [Keys -> SUBSET Hosts] /\ batch \in [Keys -> SUBSET Hosts]
      /\ pc \in [Actors -> Phases] /\ fd \in [Actors -> Places \cup {Closed, Gone}]
      /\ Live \in Places /\ Aggregator \notin Proposers
  BY <1>1 DEF Typed, TypeOK, ActorTypeOK, AggTypeOK, Places
<1>3. CASE AggBegin \/ AggBeginShort
  <2>0. LinesAt(Live) \in Seq(Line) /\ uncounted \in [Places -> SUBSET Keys]
    BY <1>1, <1>2, LinesTyped DEF Typed, TypeOK, FileTypeOK
  <2>1. /\ SameFiles /\ line' = line
        /\ \A k \in Keys : k \notin uncounted'[Live]
                             => restored'[k] = ParsedCount(LinesAt(Live), k)
    <3>1. CASE AggBegin
      BY <3>1, SameFile DEF AggBegin
    <3>2. CASE AggBeginShort
      <4> DEFINE all == LinesAt(Live)
      <4>1. PICK n \in 0..(Len(all) - 1) :
              LET read == SubSeq(all, 1, n) IN
              /\ restored' = [k \in Keys |-> ParsedCount(read, k)]
              /\ uncounted' = [uncounted EXCEPT ![Live] = @ \cup
                   {k \in Keys : ParsedCount(read, k) # ParsedCount(all, k)}]
        BY <3>2 DEF AggBeginShort
      <4>2. UNCHANGED <<lines, unlearned, line>>
        BY <3>2 DEF AggBeginShort
      <4> HIDE DEF all
      <4>3. \A p \in Places : uncounted[p] \subseteq uncounted'[p]
        BY <2>0, <4>1
      <4>4. uncounted'[Live] =
              uncounted[Live] \cup {k \in Keys : ParsedCount(SubSeq(all, 1, n), k)
                                                  # ParsedCount(all, k)}
        BY <1>2, <2>0, <4>1
      <4>5. ASSUME NEW k \in Keys, k \notin uncounted'[Live]
            PROVE  restored'[k] = ParsedCount(all, k)
        BY <4>1, <4>4, <4>5
      <4>6. SameFiles
        BY <4>2, <4>3 DEF SameFiles, Same, Hidden, LinesAt
      <4> QED
        BY <4>2, <4>5, <4>6 DEF all
    <3> QED
      BY <1>3, <3>1, <3>2
  <2>2. ASSUME NEW k \in Keys, Plain(k), k \notin uncounted'[Live]
        PROVE  CountsBelow(LinesAt(Live), k, restored'[k] + 1)
    <3>1. \A i \in DOMAIN LinesAt(Live) : LinesAt(Live)[i].count \in Nat
      BY <2>0, LineInFile
    <3>2. /\ restored'[k] \in Nat
          /\ \A i \in Counted(LinesAt(Live), k) : LinesAt(Live)[i].count <= restored'[k]
      BY <2>0, <2>1, <2>2, ParsedCountIsMax
    <3>3. \A i \in DOMAIN LinesAt(Live) :
            LineKey(LinesAt(Live)[i]) = k /\ LinesAt(Live)[i].of \notin Shifted
              => i \in Counted(LinesAt(Live), k)
      BY <2>2 DEF Counted, Plain
    <3> QED
      BY <3>1, <3>2, <3>3 DEF CountsBelow
  <2>3. pc'[agg] = "fetch" /\ pc[agg] = "down" /\ UNCHANGED <<seen, batch>>
    BY <1>2, <1>3 DEF AggBegin, AggBeginShort, Step, Goto
  <2>4. LinesAt(Live)' = LinesAt(Live)
    BY <1>2, <2>1 DEF SameFiles, Same
  <2>5. Ahead'
    BY <1>1, <2>1, <2>2, <2>3, <2>4 DEF Ahead
  <2> QED
    BY <1>1, <2>1, <2>5, SameRises
<1>4. ASSUME NEW b \in Batches, Fetch(b)
      PROVE  Ahead' /\ \A p \in Places : Rises(LinesAt(p), uncounted[p])'
  <2>1. SameFiles /\ UNCHANGED <<line, restored, seen>>
    BY <1>4, SameFile DEF Fetch
  <2>2. pc[agg] = "fetch" /\ pc'[agg] = "idle"
    BY <1>2, <1>4 DEF Fetch, Step, Goto
  <2>3. LinesAt(Live)' = LinesAt(Live) /\ uncounted[Live] \subseteq uncounted'[Live]
    BY <1>2, <2>1 DEF SameFiles, Same, Hidden
  <2>4. Ahead'
    BY <1>1, <1>2, <2>1, <2>2, <2>3 DEF Ahead
  <2> QED
    BY <1>1, <2>1, <2>4, SameRises
<1>5. ASSUME NEW c \in Cands, TakeKey(c)
      PROVE  Ahead' /\ \A p \in Places : Rises(LinesAt(p), uncounted[p])'
  <2> DEFINE k == KeyOf[c]
  <2>0. k \in Keys
    OBVIOUS
  <2>1. /\ SameFiles /\ restored' = restored
        /\ pc[agg] = "idle" /\ pc'[agg] = "open"
        /\ batch'[k] = {} /\ \A j \in Keys \ {k} : batch'[j] = batch[j] /\ seen'[j] = seen[j]
        /\ line'[agg] = [of |-> c, count |-> restored[k] + Cardinality(seen'[k])]
    BY <1>2, <1>5, <2>0, SameFile DEF TakeKey, Step, Goto
  <2>2. batch[k] # {} /\ seen[k] = {} /\ seen'[k] = batch[k]
    BY <1>1, <1>2, <1>5, <2>0 DEF TakeKey, Ahead
  <2>3. Cardinality(seen'[k]) \in Nat /\ Cardinality(seen'[k]) > 0
    <3>1. IsFiniteSet(batch[k])
      BY <1>2, <2>0, FS_Subset
    <3> QED
      BY <2>2, <3>1, FS_EmptySet, FS_CardinalityType
  <2>4. /\ LineKey(line'[agg]) = k
        /\ line'[agg].count >= restored[k] + 1 /\ line'[agg].count \in Nat
    BY <1>2, <2>0, <2>1, <2>3 DEF LineKey
  <2>5. LinesAt(Live)' = LinesAt(Live) /\ uncounted[Live] \subseteq uncounted'[Live]
    BY <1>2, <2>1 DEF SameFiles, Same, Hidden
  <2> HIDE DEF k
  <2>6. AheadOf(Live)'
    <3>1. \A i \in DOMAIN LinesAt(Live) : LinesAt(Live)[i].count \in Nat
      BY <1>1, <1>2, LinesTyped, LineInFile
    <3>2. Plain(k) /\ k \notin uncounted[Live]
            => CountsBelow(LinesAt(Live), k, restored[k] + 1)
      BY <1>1, <2>0, <2>2 DEF Ahead
    <3>3. Plain(k) /\ k \notin uncounted[Live]
            => CountsBelow(LinesAt(Live), k, line'[agg].count)
      BY <1>2, <2>0, <2>4, <3>1, <3>2 DEF CountsBelow
    <3> QED
      BY <2>4, <2>5, <3>3 DEF AheadOf
  <2>7. Ahead'
    BY <1>1, <1>2, <2>0, <2>1, <2>2, <2>4, <2>5, <2>6 DEF Ahead
  <2> QED
    BY <1>1, <2>1, <2>7, SameRises
<1>6. CASE AggOpen
  <2>1. SameFiles
    BY <1>1, <1>6, CreatesNoLines DEF AggOpen
  <2>2. /\ pc[agg] = "open" /\ pc'[agg] = "write" /\ fd'[agg] = Live /\ line' = line
        /\ UNCHANGED <<restored, seen, batch>>
    BY <1>2, <1>6 DEF AggOpen, Step, Goto, aggState
  <2>3. LinesAt(Live)' = LinesAt(Live) /\ uncounted[Live] \subseteq uncounted'[Live]
    BY <1>2, <2>1 DEF SameFiles, Same, Hidden
  <2>4. ASSUME NEW p \in Places, fd'[agg] = p PROVE AheadOf(p)'
    <3>1. p = Live /\ AheadOf(Live)
      BY <1>1, <2>2, <2>4 DEF Ahead
    <3> QED
      BY <2>2, <2>3, <3>1 DEF AheadOf
  <2>5. \A k \in Keys :
          Plain(k) /\ k \notin uncounted'[Live] /\ batch'[k] # {}
            => CountsBelow(LinesAt(Live), k, restored[k] + 1)'
    BY <1>1, <2>2, <2>3 DEF Ahead
  <2>6. batch'[LineKey(line'[agg])] = {}
    BY <1>1, <2>2 DEF Ahead
  <2>7. \A k \in Keys : batch'[k] # {} => seen'[k] = {}
    BY <1>1, <2>2 DEF Ahead
  <2>8. Ahead'
    BY <2>2, <2>4, <2>5, <2>6, <2>7 DEF Ahead
  <2> QED
    BY <1>1, <2>1, <2>8, SameRises
<1>7. CASE AggWrite
  <2>1. /\ pc[agg] = "write" /\ pc'[agg] = "idle" /\ line'[agg] = NoLine
        /\ UNCHANGED <<restored, seen, batch>>
    BY <1>2, <1>7 DEF AggWrite, AppendLine, Goto, aggState
  <2>2. \A p \in Places : Hidden(p)
    BY <1>7 DEF AggWrite, missed, Hidden
  <2>3. CASE SameFiles
    <3>1. LinesAt(Live)' = LinesAt(Live) /\ uncounted[Live] \subseteq uncounted'[Live]
      BY <1>2, <2>3 DEF SameFiles, Same, Hidden
    <3>2. Ahead'
      BY <1>1, <1>2, <2>1, <3>1 DEF Ahead
    <3> QED
      BY <1>1, <2>3, <3>2, SameRises
  <2>4. ASSUME NEW q \in Places, Landed(agg, q)
        PROVE  Ahead' /\ \A p \in Places : Rises(LinesAt(p), uncounted[p])'
    <3>1. line[agg] \in Line /\ LineKey(line[agg]) \in Keys /\ line[agg].count \in Nat
      <4>1. line[agg] \in Line
        BY <1>1, <1>2, <2>1 DEF Typed, TypeOK, ActorTypeOK
      <4> QED
        BY <4>1, LineType
    <3>2. ASSUME NEW p \in Places PROVE Rises(LinesAt(p), uncounted[p])'
      <4>1. LinesAt(p) \in Seq(Line) /\ Rises(LinesAt(p), uncounted'[p])
        BY <1>1, <2>2, LinesTyped, HiddenRises DEF Hidden
      <4>2. CASE p # q
        BY <2>4, <4>1, <4>2 DEF Landed, Same
      <4>3. CASE p = q
        <5>1. AheadOf(p) /\ uncounted[p] \subseteq uncounted'[p]
          BY <1>1, <2>1, <2>2, <2>4, <4>3 DEF Landed, Ahead, Hidden
        <5>2. Rises(Append(LinesAt(p), line[agg]), uncounted'[p])
          BY <3>1, <4>1, <5>1, AppendRises DEF AheadOf
        <5> QED
          BY <2>4, <4>3, <5>2 DEF Landed
      <4> QED
        BY <4>2, <4>3
    <3>3. ASSUME NEW k \in Keys, Plain(k), k \notin uncounted'[Live], batch[k] # {}
          PROVE  CountsBelow(LinesAt(Live), k, restored[k] + 1)'
      <4>1. LinesAt(Live) \in Seq(Line) /\ CountsBelow(LinesAt(Live), k, restored[k] + 1)
        BY <1>1, <1>2, <2>2, <3>3, LinesTyped DEF Ahead, Hidden
      <4>2. LineKey(line[agg]) # k
        BY <1>1, <2>1, <3>3 DEF Ahead
      <4>3. CountsBelow(Append(LinesAt(Live), line[agg]), k, restored[k] + 1)
        <5>1. restored[k] + 1 \in Nat
          BY <1>2
        <5> QED
          BY <3>1, <4>1, <4>2, <5>1, AppendCountsBelow
      <4>4. LinesAt(Live)' = LinesAt(Live) \/ LinesAt(Live)' = Append(LinesAt(Live), line[agg])
        BY <1>2, <2>4 DEF Landed, Same
      <4> QED
        BY <2>1, <4>1, <4>3, <4>4
    <3> QED
      BY <1>1, <2>1, <3>2, <3>3 DEF Ahead
  <2> QED
    BY <1>1, <1>7, <2>2, <2>3, <2>4, AppendLands DEF AggWrite
<1>8. CASE AggExit \/ AggKill
  <2>1. AggForget
    BY <1>8 DEF AggExit, AggKill
  <2>2. SameFiles /\ pc'[agg] = "down"
    BY <1>2, <2>1, SameFile DEF AggForget, Goto
  <2>3. \A k \in Keys : batch'[k] = {} /\ seen'[k] = {}
    BY <1>2, <2>1 DEF AggForget
  <2>4. Ahead'
    BY <2>2, <2>3 DEF Ahead
  <2> QED
    BY <1>1, <2>2, <2>4, SameRises
<1> QED
  BY <1>3, <1>4, <1>5, <1>6, <1>7, <1>8 DEF Aggregate

LEMMA NextCount == CountInv /\ [Next]_vars => CountInv'
<1> SUFFICES ASSUME CountInv, [Next]_vars PROVE CountInv'
  OBVIOUS
<1>1. Typed'
  BY NextTyped DEF CountInv
<1>2. ASSUME NEW w \in Proposers, Propose(w) \/ Trouble(w) PROVE CountInv'
  BY <1>1, <1>2, CountPropose, ProposersLines DEF CountInv
<1>3. CASE Aggregate \/ AggBeginShort \/ AggKill
  BY <1>1, <1>3, CountAggregate, AggregatorsLine DEF CountInv
<1>4. CASE Tick \/ UNCHANGED vars
  <2>1. UNCHANGED <<lines, uncounted, pc, line, fd, restored, seen, batch>>
    BY <1>4 DEF Tick, vars, file, missed, aggState
  <2> QED
    BY <1>1, <2>1 DEF CountInv, CountsByWriter, Ahead, AheadOf, LinesAt
<1> QED
  BY <1>2, <1>3, <1>4 DEF Next

\* In one file the aggregator's counts of a key rise from line to line, whatever
\* the daemon, a dry run, failures and kills do to the file between its calls: all but
\* those behind a line with white space in its name or path, and those that a failed
\* read of the file has hidden from Aggregator::new.
THEOREM CountsRise == Spec => []CountsGrow
<1>1. CountInv => CountsGrow
  BY DEF CountInv, Rises, Plain, CountsGrow
<1> QED
  BY <1>1, InitCount, NextCount, PTL DEF Spec

-----------------------------------------------------------------------------
(* One proposer beside the aggregator *)

OneProposer == \A v, w \in Proposers : v = w

\* In a sequence of lines, but for the hidden keys: the daemon has no line for the key;
\* it has no two for one key; its keys are in K.
Fresh(s, k, hidden) ==
  Plain(k) /\ k \notin hidden
    => \A i \in DOMAIN s : s[i].count = 0 => LineKey(s[i]) # k

Unique(s, hidden) ==
  \A i, j \in DOMAIN s :
    /\ LineKey(s[i]) = LineKey(s[j]) /\ s[i].count = 0 /\ s[j].count = 0
    /\ Plain(LineKey(s[i])) /\ LineKey(s[i]) \notin hidden
    => i = j

KeysKnown(s, K, hidden) ==
  \A i \in DOMAIN s :
    s[i].count = 0 /\ Plain(LineKey(s[i])) => LineKey(s[i]) \in K \cup hidden

LEMMA AppendUnique ==
  ASSUME NEW s \in Seq(Line), NEW l \in Line, NEW hidden, Unique(s, hidden),
         l.count = 0 => Fresh(s, LineKey(l), hidden)
  PROVE  Unique(Append(s, l), hidden)
<1> DEFINE t == Append(s, l)
<1> SUFFICES ASSUME NEW i \in DOMAIN t, NEW j \in DOMAIN t, i <= j,
                    LineKey(t[i]) = LineKey(t[j]), t[i].count = 0, t[j].count = 0,
                    Plain(LineKey(t[i])), LineKey(t[i]) \notin hidden
             PROVE  i = j
  BY DEF Unique
<1>1. CASE j \in DOMAIN s
  <2>1. i \in DOMAIN s /\ t[i] = s[i] /\ t[j] = s[j]
    BY <1>1
  <2> QED
    BY <1>1, <2>1 DEF Unique
<1>2. CASE i \in DOMAIN s /\ j \notin DOMAIN s
  <2>1. t[j] = l /\ t[i] = s[i]
    BY <1>2
  <2> QED
    BY <1>2, <2>1 DEF Fresh
<1>3. CASE i \notin DOMAIN s
  BY <1>3
<1> QED
  BY <1>1, <1>2, <1>3

LEMMA AppendOthers ==
  ASSUME NEW s \in Seq(Line), NEW l \in Line, l.count > 0, NEW k, NEW K, NEW hidden
  PROVE  /\ Fresh(s, k, hidden) => Fresh(Append(s, l), k, hidden)
         /\ KeysKnown(s, K, hidden) => KeysKnown(Append(s, l), K, hidden)
BY DEF Fresh, KeysKnown

LEMMA AppendKnown ==
  ASSUME NEW s \in Seq(Line), NEW l \in Line, NEW K, NEW hidden, KeysKnown(s, K, hidden),
         NEW L, K \subseteq L, NEW more, hidden \subseteq more, LineKey(l) \in L \cup more
  PROVE  KeysKnown(Append(s, l), L, more)
BY DEF KeysKnown

LEMMA EmptyUnique ==
  \A hidden : /\ Unique(<<>>, hidden)
              /\ \A k : Fresh(<<>>, k, hidden)
              /\ \A K : KeysKnown(<<>>, K, hidden)
BY DEF Unique, Fresh, KeysKnown

\* The more is hidden, the less is said.
LEMMA HiddenUnique ==
  ASSUME NEW s, NEW hidden, NEW more, hidden \subseteq more
  PROVE  /\ Unique(s, hidden) => Unique(s, more)
         /\ \A k : Fresh(s, k, hidden) => Fresh(s, k, more)
         /\ \A K : KeysKnown(s, K, hidden) => KeysKnown(s, K, more)
BY DEF Unique, Fresh, KeysKnown

\* Where nothing moved, what was said of a file still holds.
LEMMA SameUnique ==
  ASSUME NEW p \in Places, Same(p)
  PROVE  /\ Unique(LinesAt(p), unlearned[p]) => Unique(LinesAt(p), unlearned[p])'
         /\ \A k : Fresh(LinesAt(p), k, unlearned[p])
                     => Fresh(LinesAt(p)', k, unlearned'[p])
         /\ \A K : KeysKnown(LinesAt(p), K, unlearned[p])
                     => KeysKnown(LinesAt(p)', K, unlearned'[p])
<1> DEFINE t == LinesAt(p)
           more == unlearned'[p]
<1>1. LinesAt(p)' = t /\ unlearned[p] \subseteq more
  BY DEF Same, Hidden
<1>2. /\ Unique(t, unlearned[p]) => Unique(t, more)
      /\ \A k : Fresh(t, k, unlearned[p]) => Fresh(t, k, more)
      /\ \A K : KeysKnown(t, K, unlearned[p]) => KeysKnown(t, K, more)
  <2> HIDE DEF t, more
  <2> QED
    BY <1>1, HiddenUnique
<1>3. Unique(LinesAt(p), unlearned[p])' = Unique(t, more)
  BY <1>1
<1> QED
  BY <1>1, <1>2, <1>3

\* What a proposer has at hand is not in the file it is meant for, and what it put
\* there, in this activation or an earlier one, it knows once it has read the file.
Deduped(w) ==
  /\ pc[w] \in {"check", "rename", "create", "open", "write"}
       => Fresh(LinesAt(Live), LineKey(line[w]), unlearned[Live])
  /\ pc[w] = "write" => fd[w] = Live
  /\ pc[w] \notin {"down", "load"} => KeysKnown(LinesAt(Live), known[w], unlearned[Live])

AllUnique == \A p \in Places : Unique(LinesAt(p), unlearned[p])

OnceInv == Typed /\ CountsByWriter /\ AllUnique /\ \A w \in Proposers : Deduped(w)

LEMMA InitOnce == Init => OnceInv
<1> SUFFICES ASSUME Init PROVE OnceInv
  OBVIOUS
<1>1. \A p \in Places : LinesAt(p) = <<>>
  BY DEF Init, LinesAt
<1>2. CountsByWriter /\ \A w \in Proposers : Deduped(w)
  BY DEF Init, CountsByWriter, Deduped, Actors, agg
<1> QED
  BY <1>1, <1>2, EmptyUnique, InitTyped DEF OnceInv, AllUnique

\* What a step of the aggregator is to the proposers and to the files.
LEMMA AggregatorStep ==
  ASSUME Typed, Aggregate \/ AggBeginShort \/ AggKill
  PROVE  /\ UNCHANGED <<known, since>>
         /\ \A w \in Proposers : UNCHANGED <<pc[w], line[w], fd[w]>>
         /\ \/ SameFiles
            \/ pc[agg] = "write" /\ \E p \in Places : Landed(agg, p)
<1> USE DEF agg, Actors
<1>1. /\ pc \in [Actors -> Phases] /\ line \in [Actors -> Line \cup {NoLine}]
      /\ fd \in [Actors -> Places \cup {Closed, Gone}] /\ Aggregator \notin Proposers
      /\ uncounted \in [Places -> SUBSET Keys]
  BY DEF Typed, TypeOK, ActorTypeOK, FileTypeOK
<1>2. CASE AggBegin
  BY <1>1, <1>2, SameFile DEF AggBegin, Step, Goto, proposer
<1>3. ASSUME NEW b \in Batches, Fetch(b)
      PROVE  /\ SameFiles /\ UNCHANGED <<known, since>>
             /\ \A w \in Proposers : UNCHANGED <<pc[w], line[w], fd[w]>>
  BY <1>1, <1>3, SameFile DEF Fetch, Step, Goto, proposer
<1>4. ASSUME NEW c \in Cands, TakeKey(c)
      PROVE  /\ SameFiles /\ UNCHANGED <<known, since>>
             /\ \A w \in Proposers : UNCHANGED <<pc[w], line[w], fd[w]>>
  <2>1. PICK l : line' = [line EXCEPT ![agg] = l]
    BY <1>4 DEF TakeKey
  <2>2. Step(agg, "idle", "open") /\ UNCHANGED <<file, fd, proposer>>
    BY <1>4 DEF TakeKey
  <2> QED
    BY <1>1, <2>1, <2>2, SameFile DEF Step, Goto, proposer
<1>5. CASE AggOpen
  BY <1>1, <1>5, CreatesNoLines DEF AggOpen, Step, Goto, proposer
<1>6. CASE AggWrite
  <2>1. \A p \in Places : Hidden(p)
    BY <1>6 DEF AggWrite, missed, Hidden
  <2> QED
    BY <1>1, <1>6, <2>1, AppendLands DEF AggWrite, AppendLine, Goto, proposer
<1>7. CASE AggExit \/ AggKill
  <2>1. AggForget
    BY <1>7 DEF AggExit, AggKill
  <2> QED
    BY <1>1, <2>1, SameFile DEF AggForget, Goto, proposer
<1>8. CASE AggBeginShort
  <2>1. UNCHANGED <<lines, unlearned, line, fd, proposer>> /\ Step(agg, "down", "fetch")
    BY <1>8 DEF AggBeginShort
  <2>2. PICK new : uncounted' = [uncounted EXCEPT ![Live] = uncounted[Live] \cup new]
    BY <1>8 DEF AggBeginShort
  <2>3. \A p \in Places : uncounted[p] \subseteq uncounted'[p]
    BY <1>1, <2>2
  <2>4. SameFiles
    BY <2>1, <2>3 DEF SameFiles, Same, Hidden, LinesAt
  <2> QED
    BY <1>1, <2>1, <2>4 DEF Step, Goto, proposer
<1> QED
  BY <1>2, <1>3, <1>4, <1>5, <1>6, <1>7, <1>8 DEF Aggregate

LEMMA OnceAggregate ==
  ASSUME OnceInv, Aggregate \/ AggBeginShort \/ AggKill
  PROVE  (\A w \in Proposers : Deduped(w)') /\ AllUnique'
<1> USE DEF agg, Actors
<1>1. Typed /\ CountsByWriter /\ AllUnique
  BY DEF OnceInv
<1>2. Live \in Places /\ Aggregator \in Actors
  BY DEF Places
<1>3. CASE SameFiles
  <2>1. ASSUME NEW w \in Proposers PROVE Deduped(w)'
    <3>1. UNCHANGED <<pc[w], line[w], fd[w], known>> /\ Same(Live)
      BY <1>1, <1>2, <1>3, AggregatorStep DEF SameFiles
    <3>2. Deduped(w) /\ known'[w] = known[w]
      BY <3>1 DEF OnceInv
    <3> QED
      BY <1>2, <3>1, <3>2, SameUnique DEF Deduped
  <2>2. AllUnique'
    BY <1>1, <1>3, SameUnique DEF AllUnique, SameFiles
  <2> QED
    BY <2>1, <2>2
<1>4. ASSUME NEW q \in Places, Landed(agg, q), pc[agg] = "write"
      PROVE  (\A w \in Proposers : Deduped(w)') /\ AllUnique'
  <2>1. line[agg] \in Line /\ line[agg].count > 0
    BY <1>1, <1>2, <1>4 DEF Typed, TypeOK, ActorTypeOK, CountsByWriter
  <2>2. ASSUME NEW p \in Places
        PROVE  /\ unlearned[p] \subseteq unlearned'[p]
               /\ LinesAt(p)' = LinesAt(p) \/ LinesAt(p)' = Append(LinesAt(p), line[agg])
    BY <1>4 DEF Landed, Same, Hidden
  <2>3. ASSUME NEW p \in Places PROVE Unique(LinesAt(p), unlearned[p])'
    <3>1. LinesAt(p) \in Seq(Line) /\ Unique(LinesAt(p), unlearned'[p])
      BY <1>1, <2>2, LinesTyped, HiddenUnique DEF AllUnique
    <3>2. ~(line[agg].count = 0)
      BY <2>1
    <3>3. Unique(Append(LinesAt(p), line[agg]), unlearned'[p])
      BY <2>1, <3>1, <3>2, AppendUnique
    <3> QED
      BY <2>2, <3>1, <3>3
  <2>4. ASSUME NEW w \in Proposers PROVE Deduped(w)'
    <3> DEFINE old == LinesAt(Live)
               new == Append(old, line[agg])
    <3>1. UNCHANGED <<pc[w], line[w], fd[w], known>>
      BY <1>1, AggregatorStep
    <3>2. Deduped(w) /\ old \in Seq(Line) /\ known'[w] = known[w]
      BY <1>1, <1>2, <3>1, LinesTyped DEF OnceInv
    <3>3. /\ \A k : Fresh(old, k, unlearned[Live])
                      => Fresh(old, k, unlearned'[Live]) /\ Fresh(new, k, unlearned'[Live])
          /\ \A K : KeysKnown(old, K, unlearned[Live])
                      => /\ KeysKnown(old, K, unlearned'[Live])
                         /\ KeysKnown(new, K, unlearned'[Live])
      BY <1>2, <2>1, <2>2, <3>2, AppendOthers, HiddenUnique
    <3>4. LinesAt(Live)' = old \/ LinesAt(Live)' = new
      BY <1>2, <2>2
    <3> HIDE DEF old, new
    <3>5. /\ \A k : Fresh(old, k, unlearned[Live])
                      => Fresh(LinesAt(Live)', k, unlearned'[Live])
          /\ \A K : KeysKnown(old, K, unlearned[Live])
                      => KeysKnown(LinesAt(Live)', K, unlearned'[Live])
      BY <3>3, <3>4
    <3> QED
      BY <3>1, <3>2, <3>5 DEF Deduped, old
  <2> QED
    BY <2>3, <2>4 DEF AllUnique
<1> QED
  BY <1>3, <1>4, AggregatorStep, <1>1

\* What a step of a proposer is to the deduplication: the files stay and what it knows
\* of them and has at hand does, or is less; or it is one of those below.
LEMMA QuietStep ==
  ASSUME OnceInv, NEW w \in Proposers, SameFiles,
         \/ pc'[w] \in {"down", "load"}
         \/ /\ pc[w] \notin {"down", "load"} /\ known'[w] = known[w]
            /\ \/ pc'[w] \in {"stat", "idle"}
               \/ /\ pc'[w] \in {"check", "rename", "create", "open"} /\ line'[w] = line[w]
                  /\ pc[w] \in {"check", "rename", "create", "open"}
  PROVE  Deduped(w)' /\ AllUnique'
<1>1. Live \in Places /\ Same(Live) /\ Deduped(w) /\ AllUnique
  BY DEF OnceInv, Places, SameFiles
<1>2. AllUnique'
  BY <1>1, SameUnique DEF AllUnique, SameFiles
<1>3. CASE pc'[w] \in {"down", "load"}
  BY <1>2, <1>3 DEF Deduped
<1>4. CASE pc'[w] \notin {"down", "load"}
  <2>1. KeysKnown(LinesAt(Live)', known'[w], unlearned'[Live])
    BY <1>1, <1>4, SameUnique DEF Deduped
  <2>2. pc'[w] \in {"check", "rename", "create", "open"}
          => Fresh(LinesAt(Live)', LineKey(line'[w]), unlearned'[Live])
    BY <1>1, <1>4, SameUnique DEF Deduped
  <2> QED
    BY <1>2, <1>4, <2>1, <2>2 DEF Deduped
<1> QED
  BY <1>3, <1>4

\* With one proposer, a step of a proposer is a step of this one.
LEMMA OncePropose ==
  ASSUME OnceInv, OneProposer, NEW w \in Proposers, Propose(w) \/ Trouble(w)
  PROVE  Deduped(w)' /\ AllUnique'
<1> USE DEF Actors
<1>1. Typed /\ CountsByWriter /\ Deduped(w) /\ AllUnique
  BY DEF OnceInv
<1>2. /\ pc \in [Actors -> Phases] /\ line \in [Actors -> Line \cup {NoLine}]
      /\ fd \in [Actors -> Places \cup {Closed, Gone}] /\ known \in [Proposers -> SUBSET Keys]
      /\ unlearned \in [Places -> SUBSET Keys]
      /\ fd[w] # Closed <=> pc[w] = "write"
      /\ Live \in Places /\ LinesAt(Live) \in Seq(Line)
  BY <1>1, LinesTyped DEF Typed, TypeOK, ActorTypeOK, ProposerTypeOK, FileTypeOK, Places
<1>3. CASE Begin(w)
  <2>1. SameFiles
    BY <1>1, <1>3, CreatesNoLines DEF Begin
  <2>2. pc'[w] = "load"
    BY <1>2, <1>3 DEF Begin, Step, Goto
  <2> QED
    BY <2>1, <2>2, QuietStep
<1>4. CASE Load(w) \/ LoadShort(w)
  <2> DEFINE all == LinesAt(Live)
  <2>1. SameFiles /\ pc'[w] = "stat"
    <3>1. Load(w) => SameFiles
      BY SameFile DEF Load
    <3> QED
      BY <1>1, <1>2, <1>4, <3>1, LoadHides DEF Load, LoadShort, Step, Goto
  <2>2. ParsedKeys(all) \subseteq known'[w] \cup unlearned'[Live]
    <3>1. CASE Load(w)
      BY <1>2, <3>1 DEF Load
    <3>2. CASE LoadShort(w)
      <4>1. PICK read : /\ known' = [known EXCEPT ![w] = read]
                        /\ unlearned' = [unlearned EXCEPT ![Live] =
                             unlearned[Live] \cup (ParsedKeys(all) \ read)]
        BY <3>2 DEF LoadShort
      <4>2. /\ known'[w] = read
            /\ unlearned'[Live] = unlearned[Live] \cup (ParsedKeys(all) \ read)
        BY <1>2, <4>1
      <4> QED
        BY <4>2
    <3> QED
      BY <1>4, <3>1, <3>2
  <2>3. KeysKnown(all, known'[w], unlearned'[Live])
    BY <2>2 DEF KeysKnown, ParsedKeys, Plain
  <2>4. LinesAt(Live)' = all
    BY <1>2, <2>1 DEF SameFiles, Same
  <2>5. Deduped(w)'
    BY <2>1, <2>3, <2>4 DEF Deduped
  <2>6. AllUnique'
    BY <1>1, <2>1, SameUnique DEF AllUnique, SameFiles
  <2> QED
    BY <2>5, <2>6
<1>5. CASE Stat(w) \/ StatFails(w) \/ Check(w) \/ \E c \in Cands : Duplicate(w, c)
  <2>1. SameFiles
    BY <1>5, SameFile DEF Stat, StatFails, Check, Duplicate
  <2>2. /\ pc[w] \notin {"down", "load"} /\ known' = known
        /\ \/ pc'[w] = "idle"
           \/ /\ pc'[w] \in {"rename", "open"} /\ pc[w] = "check" /\ line' = line
    BY <1>2, <1>5 DEF Stat, StatFails, Check, Duplicate, Step, Goto, proposer
  <2> QED
    BY <2>1, <2>2, QuietStep
<1>6. ASSUME NEW c \in Cands, Observe(w, c) PROVE Deduped(w)' /\ AllUnique'
  <2>1. SameFiles
    BY <1>6, SameFile DEF Observe
  <2>2. /\ pc'[w] = "check" /\ pc[w] = "idle" /\ known'[w] = known[w]
        /\ LineKey(line'[w]) = KeyOf[c] /\ KeyOf[c] \notin known[w]
    BY <1>2, <1>6 DEF Observe, Step, Goto, LineKey
  <2>3. /\ KeysKnown(LinesAt(Live), known[w], unlearned[Live])
        /\ Fresh(LinesAt(Live), KeyOf[c], unlearned[Live])
    BY <1>1, <2>2 DEF Deduped, KeysKnown, Fresh
  <2>4. Same(Live)
    BY <1>2, <2>1 DEF SameFiles
  <2>5. /\ KeysKnown(LinesAt(Live)', known[w], unlearned'[Live])
        /\ Fresh(LinesAt(Live)', KeyOf[c], unlearned'[Live])
    BY <1>2, <2>3, <2>4, SameUnique
  <2>6. Deduped(w)'
    BY <2>2, <2>5 DEF Deduped
  <2>7. AllUnique'
    BY <1>1, <2>1, SameUnique DEF AllUnique, SameFiles
  <2> QED
    BY <2>6, <2>7
<1>7. CASE Rename(w)
  <2>1. PICK t \in Times : Moved(t)
    BY <1>1, <1>7, RenameMoves
  <2>2. ASSUME NEW p \in Places PROVE Unique(LinesAt(p), unlearned[p])'
    <3>1. CASE p = Live
      BY <2>1, <3>1, EmptyUnique DEF Moved
    <3>2. CASE p = t
      <4>1. LinesAt(p)' = LinesAt(Live) /\ unlearned'[p] = unlearned[Live]
        BY <2>1, <3>2 DEF Moved
      <4> QED
        BY <1>1, <1>2, <4>1 DEF AllUnique
    <3>3. CASE p # Live /\ p # t
      BY <1>1, <2>1, <3>3, SameUnique DEF Moved, AllUnique
    <3> QED
      BY <3>1, <3>2, <3>3
  <2>3. pc'[w] = "create" /\ LinesAt(Live)' = <<>>
    BY <1>2, <1>7, <2>1 DEF Rename, Step, Goto, Moved
  <2>4. /\ Fresh(LinesAt(Live)', LineKey(line'[w]), unlearned'[Live])
        /\ KeysKnown(LinesAt(Live)', known'[w], unlearned'[Live])
    BY <2>3 DEF Fresh, KeysKnown
  <2>5. Deduped(w)'
    BY <2>3, <2>4 DEF Deduped
  <2> QED
    BY <2>2, <2>5 DEF AllUnique
<1>8. CASE Create(w)
  <2>1. Emptied /\ pc'[w] = "open"
    BY <1>1, <1>2, <1>8, CreateEmpties DEF Create, Step, Goto
  <2>2. ASSUME NEW p \in Places PROVE Unique(LinesAt(p), unlearned[p])'
    <3>1. CASE p = Live
      BY <2>1, <3>1, EmptyUnique DEF Emptied
    <3>2. CASE p # Live
      BY <1>1, <2>1, <3>2, SameUnique DEF Emptied, AllUnique
    <3> QED
      BY <3>1, <3>2
  <2>3. /\ Fresh(LinesAt(Live)', LineKey(line'[w]), unlearned'[Live])
        /\ KeysKnown(LinesAt(Live)', known'[w], unlearned'[Live])
    <3>1. LinesAt(Live)' = <<>>
      BY <2>1 DEF Emptied
    <3> QED
      BY <3>1 DEF Fresh, KeysKnown
  <2>4. Deduped(w)'
    BY <2>1, <2>3 DEF Deduped
  <2> QED
    BY <2>2, <2>4 DEF AllUnique
<1>9. CASE Open(w)
  <2>1. /\ pc'[w] = "write" /\ pc[w] = "open" /\ fd'[w] = Live
        /\ line' = line /\ known' = known /\ SameFiles
    BY <1>2, <1>9, SameFile DEF Open, Step, Goto, proposer
  <2>2. Same(Live)
    BY <1>2, <2>1 DEF SameFiles
  <2>3. /\ KeysKnown(LinesAt(Live)', known[w], unlearned'[Live])
        /\ Fresh(LinesAt(Live)', LineKey(line[w]), unlearned'[Live])
    BY <1>1, <1>2, <2>1, <2>2, SameUnique DEF Deduped
  <2>4. Deduped(w)'
    BY <2>1, <2>3 DEF Deduped
  <2>5. AllUnique'
    BY <1>1, <2>1, SameUnique DEF AllUnique, SameFiles
  <2> QED
    BY <2>4, <2>5
<1>10. CASE Write(w) \/ WrittenAfterAll(w)
  <2> DEFINE old == LinesAt(Live)
             new == Append(old, line[w])
             k == LineKey(line[w])
  <2>1. /\ AppendLine(w) /\ pc[w] = "write" /\ pc'[w] = "idle" /\ fd[w] = Live
        /\ \A p \in Places : Hidden(p)
    BY <1>1, <1>2, <1>10, WriteHides DEF Write, WrittenAfterAll, AppendLine, Goto, Deduped
  <2>2. known[w] \subseteq known'[w] /\ k \in known'[w] \cup unlearned'[Live]
    <3>1. CASE Write(w)
      <4>1. known'[w] = known[w] \cup {k}
        BY <1>2, <3>1 DEF Write
      <4> QED
        BY <4>1
    <3>2. CASE WrittenAfterAll(w)
      BY <1>2, <2>1, <3>2 DEF WrittenAfterAll, proposer
    <3> QED
      BY <1>10, <3>1, <3>2
  <2>3. line[w] \in Line /\ line[w].count = 0
    BY <1>1, <1>2, <2>1 DEF Typed, TypeOK, ActorTypeOK, CountsByWriter
  <2>4. \/ SameFiles
        \/ LinesAt(Live)' = new /\ \A p \in Places \ {Live} : Same(p)
    BY <1>1, <2>1, AppendLands DEF Landed
  <2>5. unlearned[Live] \subseteq unlearned'[Live]
    BY <1>2, <2>1 DEF Hidden
  <2>6. /\ Unique(old, unlearned[Live]) /\ Fresh(old, k, unlearned[Live])
        /\ KeysKnown(old, known[w], unlearned[Live])
    BY <1>1, <1>2, <2>1 DEF Deduped, AllUnique
  <2>7. Unique(new, unlearned'[Live]) /\ KeysKnown(new, known'[w], unlearned'[Live])
    <3>1. Unique(new, unlearned[Live])
      BY <1>2, <2>3, <2>6, AppendUnique
    <3>2. Unique(new, unlearned'[Live])
      BY <2>5, <3>1, HiddenUnique
    <3>3. KeysKnown(new, known'[w], unlearned'[Live])
      BY <1>2, <2>2, <2>3, <2>5, <2>6, AppendKnown
    <3> QED
      BY <3>2, <3>3
  <2>8. KeysKnown(old, known'[w], unlearned'[Live])
    BY <2>2, <2>5, <2>6 DEF KeysKnown
  <2>9. LinesAt(Live)' = old \/ LinesAt(Live)' = new
    BY <1>2, <2>4 DEF SameFiles, Same
  <2> HIDE DEF old, new, k
  <2>10. KeysKnown(LinesAt(Live)', known'[w], unlearned'[Live])
    BY <2>7, <2>8, <2>9
  <2>11. Deduped(w)'
    BY <2>1, <2>10 DEF Deduped
  <2>12. ASSUME NEW p \in Places PROVE Unique(LinesAt(p), unlearned[p])'
    <3>1. CASE Same(p)
      BY <1>1, <3>1, SameUnique DEF AllUnique
    <3>2. CASE p = Live /\ LinesAt(Live)' = new
      BY <2>7, <3>2
    <3> QED
      BY <2>4, <3>1, <3>2 DEF SameFiles
  <2> QED
    BY <2>11, <2>12 DEF AllUnique
<1>11. CASE NotFound(w) \/ OutOfNames(w) \/ CallFails(w)
  <2>1. GiveUp(w) /\ pc[w] \in {"check", "rename", "create", "open", "write"}
    BY <1>11 DEF NotFound, OutOfNames, NoNameLeft, CallFails
  <2>2. SameFiles /\ pc'[w] = "idle" /\ known' = known
    BY <1>2, <2>1, SameFile DEF GiveUp, Goto, proposer
  <2> QED
    BY <2>1, <2>2, QuietStep
<1>12. CASE Exit(w) \/ Kill(w)
  <2>1. Forget(w)
    BY <1>12 DEF Exit, Kill
  <2>2. SameFiles /\ pc'[w] = "down"
    BY <1>2, <2>1, SameFile DEF Forget, Goto
  <2> QED
    BY <2>2, QuietStep
<1> QED
  BY <1>3, <1>4, <1>5, <1>6, <1>7, <1>8, <1>9, <1>10, <1>11, <1>12 DEF Propose, Trouble

LEMMA NextOnce == ASSUME OneProposer PROVE OnceInv /\ [Next]_vars => OnceInv'
<1> SUFFICES ASSUME OnceInv, [Next]_vars PROVE OnceInv'
  OBVIOUS
<1>1. Typed' /\ Typed
  BY NextTyped DEF OnceInv
<1>2. ASSUME NEW w \in Proposers, Propose(w) \/ Trouble(w) PROVE OnceInv'
  <2>1. \A v \in Proposers : v = w
    BY DEF OneProposer
  <2>2. Deduped(w)' /\ AllUnique'
    BY <1>2, OncePropose
  <2>3. CountsByWriter'
    BY <1>1, <1>2, ProposersLines DEF OnceInv
  <2> QED
    BY <1>1, <2>1, <2>2, <2>3 DEF OnceInv
<1>3. CASE Aggregate \/ AggBeginShort \/ AggKill
  <2>1. CountsByWriter'
    BY <1>1, <1>3, AggregatorsLine DEF OnceInv
  <2> QED
    BY <1>1, <1>3, <2>1, OnceAggregate DEF OnceInv
<1>4. CASE Tick \/ UNCHANGED vars
  <2>1. UNCHANGED <<lines, unlearned, pc, line, fd, known>>
    BY <1>4 DEF Tick, vars, file, missed, proposer
  <2> QED
    BY <1>1, <2>1 DEF OnceInv, AllUnique, CountsByWriter, Deduped, LinesAt
<1> QED
  BY <1>2, <1>3, <1>4 DEF Next

\* The daemon, restarted, killed and failing anywhere, beside an aggregator that writes
\* to the same file, proposes no key twice in one file: but a key whose name has white
\* space, and one that a failed read or flush kept out of the memory of Proposer::new
\* and observe.
THEOREM NoProposalTwice == ASSUME OneProposer PROVE Spec => []ProposedOncePerFile
<1>1. OnceInv => ProposedOncePerFile
  BY DEF OnceInv, AllUnique, Unique, Plain, ProposedOncePerFile
<1>2. OnceInv /\ [Next]_vars => OnceInv'
  BY NextOnce
<1> QED
  BY <1>1, <1>2, InitOnce, PTL DEF Spec

-----------------------------------------------------------------------------
(* The proposer alone *)

Alone == OneProposer /\ MaxPolls = 0

Grown(s, t) == Len(s) <= Len(t) /\ \A i \in DOMAIN s : t[i] = s[i]

\* No file loses or changes a line, at its place or at its new one.
Kept ==
  \A p \in Places : lines[p] # Missing =>
    \E q \in Places : lines'[q] # Missing /\ Grown(lines[p], lines'[q])

LEMMA GrownReflexive == ASSUME NEW s \in Seq(Line) PROVE Grown(s, s)
BY DEF Grown

LEMMA AppendGrows ==
  ASSUME NEW s \in Seq(Line), NEW l \in Line
  PROVE  Grown(s, Append(s, l))
BY DEF Grown

LEMMA GrownIsPrefix ==
  ASSUME NEW s \in Seq(Line), NEW t \in Seq(Line), Grown(s, t)
  PROVE  IsPrefix(s, t)
<1>1. Len(s) \in Nat /\ Len(t) \in Nat /\ Len(s) <= Len(t)
  BY DEF Grown
<1>2. SubSeq(s, 1, Len(s)) = [i \in 1..Len(s) |-> s[i]]
  OBVIOUS
<1>3. SubSeq(t, 1, Len(s)) = [i \in 1..Len(s) |-> t[i]]
  BY <1>1
<1> QED
  BY <1>1, <1>2, <1>3 DEF Grown, IsPrefix

LEMMA KeptRecords ==
  ASSUME Typed, Typed', Kept, NEW k, Recorded(k)
  PROVE  Recorded(k)'
<1>1. PICK p \in Places : k \in OnFile(p)
  BY DEF Recorded
<1>2. PICK i \in DOMAIN LinesAt(p) : k = LineKey(LinesAt(p)[i])
  BY <1>1 DEF OnFile
<1>3. lines[p] # Missing /\ LinesAt(p) = lines[p]
  BY <1>2 DEF LinesAt
<1>4. PICK q \in Places : lines'[q] # Missing /\ Grown(lines[p], lines'[q])
  BY <1>3 DEF Kept
<1>5. lines[p] \in Seq(Line) /\ lines'[q] \in Seq(Line) /\ LinesAt(q)' = lines'[q]
  BY <1>3, <1>4 DEF Typed, TypeOK, FileTypeOK, LinesAt
<1>6. i \in DOMAIN lines'[q] /\ lines'[q][i] = lines[p][i]
  BY <1>2, <1>3, <1>4, <1>5 DEF Grown
<1>7. k \in OnFile(q)'
  BY <1>2, <1>3, <1>5, <1>6 DEF OnFile
<1> QED
  BY <1>7 DEF Recorded

\* f adds up the bytes of the lines of s.
Adding(f, s) == f[0] = 0 /\ \A i \in 1..Len(s) : f[i] = f[i - 1] + Bytes(s[i])

\* Size adds up the bytes of the lines from the first to the last.
LEMMA Sized ==
  ASSUME NEW s \in Seq(Line)
  PROVE  \E f \in [0..Len(s) -> Nat] : Adding(f, s) /\ Size(s) = f[Len(s)]
<1> DEFINE n == Len(s)
           Turn(f) == [i \in 0..n |-> IF i = 0 THEN 0 ELSE f[i - 1] + Bytes(s[i])]
           step == [i \in Nat |-> [x \in Nat |-> IF i \in 1..n THEN x + Bytes(s[i]) ELSE x]]
           added == CHOOSE f : f = Turn(f)
<1>1. n \in Nat /\ \A i \in 1..n : Bytes(s[i]) \in Nat
  BY LineInFile
<1>2. step \in [Nat -> [Nat -> Nat]]
  BY <1>1
<1>3. PICK f \in [0..n -> Nat] : Repeats(f, 0, step, n)
  <2> HIDE DEF step, n
  <2> QED
    BY <1>1, <1>2, RecursionOnStep
<1>4. f = Turn(f)
  <2>1. ASSUME NEW i \in 1..n
        PROVE  f[i - 1] \in Nat /\ step[i][f[i - 1]] = f[i - 1] + Bytes(s[i])
    <3>1. i \in Nat /\ i - 1 \in 0..n
      BY <1>1
    <3>2. f[i - 1] \in Nat
      BY <3>1
    <3>3. step[i] = [x \in Nat |-> x + Bytes(s[i])]
      BY <3>1
    <3> QED
      BY <3>2, <3>3
  <2>2. \A i \in 0..n : f[i] = IF i = 0 THEN 0 ELSE f[i - 1] + Bytes(s[i])
    <3> HIDE DEF n, step
    <3>1. \A i \in 1..n : f[i] = f[i - 1] + Bytes(s[i])
      BY <1>3, <2>1 DEF Repeats
    <3>2. \A i \in 0..n : i = 0 \/ i \in 1..n
      BY <1>1
    <3> QED
      BY <1>3, <3>1, <3>2 DEF Repeats
  <2> HIDE DEF n, step
  <2> QED
    BY <1>3, <2>2
<1>5. added = Turn(added)
  BY <1>4
<1>6. Size(s) = added[n]
  BY DEF Size
<1> HIDE DEF added
<1>7. /\ added[0] = 0
      /\ \A i \in 1..n : added[i] = added[i - 1] + Bytes(s[i])
      /\ added = [i \in 0..n |-> added[i]]
  <2> HIDE DEF n
  <2>1. \A i \in 0..n : added[i] = IF i = 0 THEN 0 ELSE added[i - 1] + Bytes(s[i])
    BY <1>5
  <2>2. 0 \in 0..n /\ \A i \in 1..n : i \in 0..n /\ i # 0
    BY <1>1
  <2>3. added = [i \in 0..n |-> added[i]]
    BY <1>5
  <2> QED
    BY <2>1, <2>2, <2>3
<1>8. added \in [0..n -> Nat]
  <2> DEFINE S == {i \in Nat : i <= n => added[i] \in Nat}
  <2>1. 0 \in S
    BY <1>1, <1>7
  <2>2. \A i \in Nat : i \in S => i + 1 \in S
    <3>1. SUFFICES ASSUME NEW i \in Nat, i \in S, i + 1 <= n PROVE added[i + 1] \in Nat
      OBVIOUS
    <3>2. i <= n /\ i + 1 \in 1..n /\ Bytes(s[i + 1]) \in Nat
      BY <1>1, <3>1
    <3>3. added[i] \in Nat /\ added[i + 1] = added[i] + Bytes(s[i + 1])
      <4>1. added[i] \in Nat /\ (i + 1) - 1 = i
        BY <3>1, <3>2
      <4>2. added[i + 1] = added[(i + 1) - 1] + Bytes(s[i + 1])
        <5> HIDE DEF n
        <5> QED
          BY <1>7, <3>2
      <4> QED
        BY <4>1, <4>2
    <3> QED
      BY <3>2, <3>3
  <2> HIDE DEF S
  <2>3. \A i \in Nat : i \in S
    BY <2>1, <2>2, InductionOnSet
  <2> QED
    BY <1>1, <1>7, <2>3 DEF S
<1> QED
  BY <1>6, <1>7, <1>8 DEF Adding

LEMMA SizeType == ASSUME NEW s \in Seq(Line) PROVE Size(s) \in Nat
BY Sized

LEMMA EmptySize == Size(<<>>) = 0
<1>1. <<>> \in Seq(Line) /\ Len(<<>>) = 0
  OBVIOUS
<1>2. PICK f \in [0..Len(<<>>) -> Nat] : Adding(f, <<>>) /\ Size(<<>>) = f[Len(<<>>)]
  BY <1>1, Sized
<1> QED
  BY <1>1, <1>2 DEF Adding

\* Without its last line, a file is what it was before the line came.
LEMMA FrontOfAppend ==
  ASSUME NEW s \in Seq(Line), NEW l \in Line
  PROVE  Front(Append(s, l)) = s
BY DEF Front

\* A file that has grown to this has not been full before its last line.
Fits(s) == s # <<>> => Size(Front(s)) < MaxBytes

LEMMA AppendFits ==
  ASSUME NEW s \in Seq(Line), NEW l \in Line, Size(s) < MaxBytes
  PROVE  Fits(Append(s, l))
BY FrontOfAppend DEF Fits

\* When a rotated file has the present time in its name, the live file, if there is
\* one, was created or written at this time too. Later names are free.
Stamps ==
  /\ Exists /\ lines[now] # Missing => mtime = now
  /\ \A t \in Times : t > now => lines[t] = Missing

\* What the proposer may rely on between two of its calls: the file still has room,
\* is the one it opened, is gone after a rename, and if it was rotated at this very
\* time, the proposer knows the new file's age.
Room(w) ==
  /\ pc[w] \in {"open", "write"} => Size(LinesAt(Live)) < MaxBytes
  /\ pc[w] = "write" => fd[w] = Live
  /\ pc[w] = "create" => ~Exists
  /\ pc[w] \notin {"down", "load", "stat"} /\ Exists /\ lines[now] # Missing
       => since[w] = now

AloneInv ==
  /\ Typed /\ pc[agg] = "down" /\ Stamps /\ SizeBounded /\ KnownIsRecorded
  /\ \A w \in Proposers : Room(w)

LEMMA InitAlone == Init => AloneInv
<1> SUFFICES ASSUME Init PROVE AloneInv
  OBVIOUS
<1>1. \A p \in Places : LinesAt(p) = <<>>
  BY DEF Init, LinesAt
<1>2. Stamps /\ KnownIsRecorded /\ pc[agg] = "down"
  BY DEF Init, Stamps, Exists, KnownIsRecorded, Actors, agg, Places, Times
<1>3. \A w \in Proposers : Room(w)
  BY DEF Init, Room, Actors
<1> QED
  BY <1>1, <1>2, <1>3, InitTyped DEF AloneInv, SizeBounded

\* A rename never meets a file at its new name.
LEMMA RenameIsFree ==
  ASSUME AloneInv, NEW w \in Proposers, Rename(w)
  PROVE  lines[now] = Missing
<1>1. pc[w] = "rename" /\ Exists /\ (~Old(w) => lines[now] = Missing)
  BY DEF Rename, Step
<1>2. now \in Nat /\ since[w] \in Nat /\ Room(w)
  BY DEF AloneInv, Typed, TypeOK, FileTypeOK, ProposerTypeOK, Times
<1>3. CASE Old(w)
  <2>1. since[w] # now
    BY <1>2, <1>3 DEF Old
  <2> QED
    BY <1>1, <1>2, <2>1 DEF Room
<1> QED
  BY <1>1, <1>3

\* Steps that leave the files alone.
LEMMA StillAlone ==
  ASSUME AloneInv, UNCHANGED <<lines, mtime, now>>
  PROVE  Kept /\ Stamps' /\ SizeBounded'
<1>1. Kept
  BY GrownReflexive DEF Kept, AloneInv, Typed, TypeOK, FileTypeOK
<1> QED
  BY <1>1 DEF AloneInv, Stamps, Exists, SizeBounded, LinesAt

LEMMA FilesAlone ==
  ASSUME AloneInv, NEW w \in Proposers, Propose(w) \/ Trouble(w)
  PROVE  Kept /\ Stamps' /\ SizeBounded'
<1>1. /\ lines \in [Places -> Seq(Line) \cup {Missing}] /\ now \in Times
      /\ now \in Places /\ Live \in Places /\ now # Live /\ Times \subseteq Places
      /\ Stamps /\ Room(w) /\ Typed /\ <<>> \in Seq(Line) /\ <<>> # Missing
      /\ \A p \in Places : Fits(LinesAt(p))
  BY LiveIsNoTime, EmptyIsFile DEF AloneInv, Typed, TypeOK, FileTypeOK, Places, SizeBounded, Fits
<1>2. ASSUME ~Exists, lines' = [lines EXCEPT ![Live] = <<>>], mtime' = now, now' = now
      PROVE  Kept /\ Stamps' /\ SizeBounded'
  <2>1. \A p \in Places : lines[p] # Missing => p # Live /\ lines'[p] = lines[p]
    BY <1>1, <1>2 DEF Exists
  <2>2. Kept
    BY <1>1, <2>1, GrownReflexive DEF Kept
  <2>3. Stamps'
    <3>1. \A t \in Times : lines'[t] = lines[t]
      BY <1>1, <1>2, LiveIsNoTime
    <3> QED
      BY <1>1, <1>2, <3>1 DEF Stamps
  <2>4. \A p \in Places : Fits(LinesAt(p)')
    <3>1. \A p \in Places : LinesAt(p)' = LinesAt(p) \/ LinesAt(p)' = <<>>
      BY <1>1, <1>2 DEF LinesAt
    <3> QED
      BY <1>1, <3>1 DEF Fits
  <2> QED
    BY <2>2, <2>3, <2>4 DEF SizeBounded, Fits
<1>3. CASE Begin(w)
  <2>1. CASE Exists
    BY <1>3, <2>1, StillAlone DEF Begin, CreateIfMissing, file
  <2>2. CASE ~Exists
    BY <1>2, <1>3, <2>2 DEF Begin, CreateIfMissing
  <2> QED
    BY <2>1, <2>2
<1>4. CASE \/ Load(w) \/ Stat(w) \/ Check(w) \/ Open(w) \/ LoadShort(w) \/ StatFails(w)
           \/ \E c \in Cands : Duplicate(w, c) \/ Observe(w, c)
  <2>1. UNCHANGED <<lines, mtime, now>>
    BY <1>4 DEF Load, Stat, Check, Open, LoadShort, StatFails, Duplicate, Observe, file
  <2> QED
    BY <2>1, StillAlone
<1>5. CASE Rename(w)
  <2>1. /\ lines[now] = Missing /\ lines[Live] # Missing /\ now' = now
        /\ lines' = [lines EXCEPT ![now] = lines[Live], ![Live] = Missing]
    BY <1>5, RenameIsFree DEF Rename, Exists
  <2>2. /\ lines'[now] = lines[Live] /\ lines'[Live] = Missing
        /\ \A p \in Places \ {now, Live} : lines'[p] = lines[p]
    BY <1>1, <2>1
  <2>3. Kept
    <3> SUFFICES ASSUME NEW p \in Places, lines[p] # Missing
                 PROVE  \E q \in Places : lines'[q] # Missing /\ Grown(lines[p], lines'[q])
      BY DEF Kept
    <3>1. lines[p] \in Seq(Line)
      BY <1>1
    <3>2. CASE p = Live
      BY <1>1, <2>1, <2>2, <3>1, <3>2, GrownReflexive
    <3>3. CASE p # Live
      BY <2>1, <2>2, <3>1, <3>3, GrownReflexive
    <3> QED
      BY <3>2, <3>3
  <2>4. Stamps'
    BY <1>1, <2>1, <2>2 DEF Stamps, Exists, Times
  <2>5. \A p \in Places : LinesAt(p)' = <<>> \/ \E q \in Places : LinesAt(p)' = LinesAt(q)
    BY <1>1, <2>2 DEF LinesAt
  <2>6. \A p \in Places : Fits(LinesAt(p)')
    BY <1>1, <2>5 DEF Fits
  <2> QED
    BY <2>3, <2>4, <2>6 DEF SizeBounded, Fits
<1>6. CASE Create(w)
  <2>1. ~Exists /\ lines' = [lines EXCEPT ![Live] = <<>>] /\ mtime' = now /\ now' = now
    BY <1>1, <1>6 DEF Create, Step, Room
  <2> QED
    BY <1>2, <2>1
<1>7. CASE Write(w) \/ WrittenAfterAll(w)
  <2>1. /\ fd[w] = Live /\ Size(LinesAt(Live)) < MaxBytes /\ line[w] \in Line
        /\ lines[Live] # Missing /\ lines[Live] \in Seq(Line)
    BY <1>1, <1>7
    DEF Write, WrittenAfterAll, AppendLine, Room, Actors, Typed, TypeOK, ActorTypeOK, OpenFilesExist
  <2>2. /\ lines' = [lines EXCEPT ![Live] = Append(lines[Live], line[w])]
        /\ mtime' = now /\ now' = now
    BY <1>1, <1>7, <2>1 DEF Write, WrittenAfterAll, AppendLine
  <2>3. lines'[Live] = Append(lines[Live], line[w]) /\ lines'[Live] \in Seq(Line)
        /\ \A p \in Places \ {Live} : lines'[p] = lines[p]
    BY <1>1, <2>1, <2>2
  <2>4. lines'[Live] # Missing
    BY <2>3
  <2>5. Kept
    <3>1. Grown(lines[Live], lines'[Live])
      BY <2>1, <2>3, AppendGrows
    <3>2. \A p \in Places \ {Live} : lines[p] # Missing => Grown(lines[p], lines'[p])
      BY <1>1, <2>3, GrownReflexive
    <3> QED
      BY <1>1, <2>3, <2>4, <3>1, <3>2 DEF Kept
  <2>6. Stamps'
    <3>1. \A t \in Times : lines'[t] = lines[t]
      BY <1>1, <2>3, LiveIsNoTime
    <3> QED
      BY <1>1, <2>2, <3>1 DEF Stamps
  <2>7. Fits(LinesAt(Live)')
    <3>1. LinesAt(Live)' = Append(lines[Live], line[w]) /\ LinesAt(Live) = lines[Live]
      BY <2>1, <2>3, <2>4 DEF LinesAt
    <3> QED
      BY <2>1, <3>1, AppendFits
  <2>8. \A p \in Places \ {Live} : LinesAt(p)' = LinesAt(p)
    BY <2>3 DEF LinesAt
  <2> QED
    BY <1>1, <2>5, <2>6, <2>7, <2>8 DEF SizeBounded, Fits
<1>8. CASE NotFound(w) \/ OutOfNames(w) \/ CallFails(w) \/ Exit(w) \/ Kill(w)
  BY <1>8, StillAlone
  DEF NotFound, OutOfNames, CallFails, GiveUp, Exit, Kill, Forget, file
<1> QED
  BY <1>3, <1>4, <1>5, <1>6, <1>7, <1>8 DEF Propose, Trouble

LEMMA RoomAlone ==
  ASSUME AloneInv, NEW w \in Proposers, Propose(w) \/ Trouble(w)
  PROVE  Room(w)'
<1>1. /\ lines \in [Places -> Seq(Line) \cup {Missing}] /\ now \in Times
      /\ Live \in Places /\ now \in Places /\ now # Live
      /\ pc \in [Actors -> Phases] /\ w \in Actors /\ fd \in [Actors -> Places \cup {Closed, Gone}]
      /\ since \in [Proposers -> Times]
      /\ Stamps /\ Room(w) /\ Typed /\ <<>> \in Seq(Line) /\ <<>> # Missing
  BY LiveIsNoTime, EmptyIsFile
  DEF AloneInv, Typed, TypeOK, FileTypeOK, ActorTypeOK, ProposerTypeOK, Places, Actors
<1>2. CASE Begin(w) \/ Load(w) \/ LoadShort(w)
  <2>1. pc'[w] \in {"load", "stat"}
    BY <1>1, <1>2 DEF Begin, Load, LoadShort, Step, Goto
  <2> QED
    BY <2>1 DEF Room
<1>3. CASE Stat(w) \/ StatFails(w)
  <2>1. pc'[w] = "idle" /\ UNCHANGED file /\ (Exists => since'[w] \in {mtime, now})
    BY <1>1, <1>3 DEF Stat, StatFails, Step, Goto
  <2> QED
    BY <1>1, <2>1 DEF Room, Stamps, Exists, file
<1>4. CASE \E c \in Cands : Duplicate(w, c) \/ Observe(w, c)
  <2>1. pc'[w] \in {"idle", "check"} /\ pc[w] = "idle" /\ UNCHANGED <<file, since>>
    BY <1>1, <1>4 DEF Duplicate, Observe, Step, Goto
  <2> QED
    BY <1>1, <2>1 DEF Room, Exists, file
<1>5. CASE Check(w)
  <2>1. /\ pc[w] = "check" /\ UNCHANGED <<file, since>> /\ lines[Live] # Missing
        /\ pc'[w] = IF Full \/ Old(w) THEN "rename" ELSE "open"
    BY <1>1, <1>5 DEF Check, Step, Goto, proposer, Exists
  <2>2. pc'[w] = "open" => Size(LinesAt(Live)) < MaxBytes
    <3>1. Size(lines[Live]) \in Nat
      BY <1>1, <2>1, SizeType
    <3> QED
      BY <1>1, <2>1, <3>1 DEF Full, LinesAt
  <2>3. LinesAt(Live)' = LinesAt(Live)
    BY <2>1 DEF file, LinesAt
  <2> QED
    BY <1>1, <2>1, <2>2, <2>3 DEF Room, Exists, file
<1>6. CASE Rename(w)
  <2>1. pc'[w] = "create" /\ lines'[Live] = Missing
    BY <1>1, <1>6 DEF Rename, Step, Goto
  <2> QED
    BY <2>1 DEF Room, Exists
<1>7. CASE Create(w)
  <2>1. pc'[w] = "open" /\ lines'[Live] = <<>> /\ since'[w] = now /\ now' = now
    BY <1>1, <1>7 DEF Create, Step, Goto
  <2>2. Size(LinesAt(Live)') < MaxBytes
    BY <1>1, <2>1, EmptySize DEF LinesAt
  <2> QED
    BY <2>1, <2>2 DEF Room
<1>8. CASE Open(w)
  <2>1. pc[w] = "open" /\ pc'[w] = "write" /\ fd'[w] = Live /\ UNCHANGED <<file, since>>
    BY <1>1, <1>8 DEF Open, Step, Goto, proposer
  <2> QED
    BY <1>1, <2>1 DEF Room, Exists, LinesAt, file
<1>9. CASE Write(w) \/ WrittenAfterAll(w)
  <2>1. /\ pc[w] = "write" /\ pc'[w] = "idle" /\ fd[w] = Live /\ UNCHANGED <<since, now>>
    BY <1>1, <1>9 DEF Write, WrittenAfterAll, proposer, AppendLine, Goto, Room
  <2>2. lines'[now] = lines[now] /\ lines[Live] # Missing
    BY <1>1, <1>9, <2>1 DEF Write, WrittenAfterAll, proposer, AppendLine, Typed, OpenFilesExist
  <2> QED
    BY <1>1, <2>1, <2>2 DEF Room, Exists
<1>10. CASE NotFound(w) \/ OutOfNames(w) \/ CallFails(w)
  <2>1. /\ pc[w] \in {"check", "rename", "create", "open", "write"} /\ pc'[w] = "idle"
        /\ UNCHANGED <<file, since>>
    BY <1>1, <1>10 DEF NotFound, OutOfNames, NoNameLeft, CallFails, GiveUp, Goto, proposer
  <2> QED
    BY <1>1, <2>1 DEF Room, Exists, file
<1>11. CASE Exit(w) \/ Kill(w)
  <2>1. pc'[w] = "down"
    BY <1>1, <1>11 DEF Exit, Kill, Forget, Goto
  <2> QED
    BY <2>1 DEF Room
<1> QED
  BY <1>2, <1>3, <1>4, <1>5, <1>6, <1>7, <1>8, <1>9, <1>10, <1>11 DEF Propose, Trouble

\* What is read of a file has a sole key in writing.
LEMMA ReadIsRecorded ==
  ASSUME Typed', NEW k, Sole(k), k \in ParsedKeys(LinesAt(Live)')
  PROVE  Recorded(k)'
<1>1. Live \in Places
  BY DEF Places
<1>2. LinesAt(Live)' \in Seq(Line)
  BY <1>1 DEF Typed, TypeOK, FileTypeOK, LinesAt
<1>3. PICK i \in DOMAIN (LinesAt(Live)') : k = ReadsAs[LineKey(LinesAt(Live)'[i])]
  BY DEF ParsedKeys
<1>4. LineKey(LinesAt(Live)'[i]) = k
  BY <1>2, <1>3, LineInFile DEF Sole
<1> QED
  BY <1>1, <1>3, <1>4 DEF Recorded, OnFile

LEMMA KnownAlone ==
  ASSUME AloneInv, NEW w \in Proposers, Propose(w) \/ Trouble(w), OneProposer
  PROVE  KnownIsRecorded'
<1>1. Typed /\ Typed' /\ Kept
  BY NextTyped, FilesAlone DEF AloneInv, Next
<1>2. \A k \in known[w] : Sole(k) => Recorded(k)'
  BY <1>1, KeptRecords DEF AloneInv, KnownIsRecorded
<1>3. known \in [Proposers -> SUBSET Keys] /\ Live \in Places
  BY <1>1 DEF Typed, TypeOK, ProposerTypeOK, Places
<1>4. ASSUME NEW k \in known'[w], Sole(k) PROVE Recorded(k)'
  <2>1. CASE k \in known[w]
    BY <1>2, <1>4, <2>1
  <2>2. CASE Load(w) \/ LoadShort(w)
    <3> DEFINE all == LinesAt(Live)
    <3>1. all \in Seq(Line) /\ LinesAt(Live)' = all
      BY <1>1, <1>3, <2>2, LinesTyped DEF Load, LoadShort, file, LinesAt
    <3>2. k \in ParsedKeys(all)
      <4>1. CASE Load(w)
        BY <1>3, <1>4, <4>1 DEF Load
      <4>2. CASE LoadShort(w)
        <5>1. PICK n \in 0..(Len(all) - 1) :
                known' = [known EXCEPT ![w] = ParsedKeys(SubSeq(all, 1, n))]
          BY <4>2 DEF LoadShort
        <5>2. k \in ParsedKeys(SubSeq(all, 1, n))
          BY <1>3, <1>4, <5>1
        <5> HIDE DEF all
        <5>3. \A i \in DOMAIN SubSeq(all, 1, n) :
                i \in DOMAIN all /\ SubSeq(all, 1, n)[i] = all[i]
          BY <3>1
        <5> QED
          BY <5>2, <5>3 DEF ParsedKeys
      <4> QED
        BY <2>2, <4>1, <4>2
    <3> QED
      BY <1>1, <1>4, <3>1, <3>2, ReadIsRecorded
  <2>3. CASE Write(w) /\ k = LineKey(line[w])
    <3>1. fd[w] = Live /\ lines[Live] \in Seq(Line) /\ line[w] \in Line /\ lines[Live] # Missing
      BY <1>1, <1>3, <2>3
      DEF Write, AppendLine, AloneInv, Room, Typed, TypeOK, ActorTypeOK, FileTypeOK,
          OpenFilesExist, Actors
    <3>2. lines'[Live] = Append(lines[Live], line[w])
      BY <1>1, <1>3, <2>3, <3>1 DEF Write, AppendLine, Typed, TypeOK, FileTypeOK
    <3>3. lines'[Live] # Missing /\ LinesAt(Live)' = Append(lines[Live], line[w])
      <4>1. Append(lines[Live], line[w]) \in Seq(Line)
        BY <3>1
      <4> QED
        BY <3>2, <4>1 DEF LinesAt
    <3>4. \E i \in DOMAIN LinesAt(Live)' : LinesAt(Live)'[i] = line[w]
      BY <3>1, <3>3
    <3> QED
      BY <1>3, <2>3, <3>4 DEF Recorded, OnFile
  <2>4. CASE \/ Begin(w) \/ Stat(w) \/ Check(w) \/ Rename(w) \/ Open(w)
             \/ \E c \in Cands : Duplicate(w, c) \/ Observe(w, c)
             \/ NotFound(w) \/ OutOfNames(w)
             \/ StatFails(w) \/ CallFails(w) \/ WrittenAfterAll(w)
    <3>1. known' = known
      BY <2>4 DEF Begin, Stat, Check, Rename, Open, Duplicate, Observe, NotFound,
                  OutOfNames, StatFails, CallFails, WrittenAfterAll, GiveUp, proposer
    <3> QED
      BY <1>2, <1>4, <3>1
  <2>5. CASE Create(w) \/ Exit(w) \/ Kill(w)
    <3>1. known'[w] = {}
      BY <1>3, <2>5 DEF Create, Exit, Kill, Forget
    <3> QED
      BY <1>4, <3>1
  <2>6. CASE Write(w)
    <3>1. known'[w] = known[w] \cup {LineKey(line[w])}
      BY <1>3, <2>6 DEF Write
    <3> QED
      BY <1>4, <2>1, <2>3, <2>6, <3>1
  <2> QED
    BY <2>1, <2>2, <2>4, <2>5, <2>6 DEF Propose, Trouble
<1> QED
  BY <1>4 DEF KnownIsRecorded, OneProposer, Sole

LEMMA NextAlone ==
  ASSUME Alone
  PROVE  AloneInv /\ [Next]_vars => AloneInv' /\ (Kept \/ UNCHANGED lines)
<1> SUFFICES ASSUME AloneInv, [Next]_vars PROVE AloneInv' /\ (Kept \/ UNCHANGED lines)
  OBVIOUS
<1>1. Typed' /\ Typed /\ pc[agg] = "down"
  BY NextTyped DEF AloneInv
<1>2. ASSUME NEW w \in Proposers, Propose(w) \/ Trouble(w)
      PROVE  AloneInv' /\ Kept
  <2>1. \A v \in Proposers : v = w
    BY DEF Alone, OneProposer
  <2>2. Kept /\ Stamps' /\ SizeBounded' /\ Room(w)' /\ KnownIsRecorded'
    BY <1>2, FilesAlone, RoomAlone, KnownAlone DEF Alone
  <2>3. pc'[agg] = "down"
    BY <1>1, <1>2, ProposerStep DEF AggUntouched
  <2> QED
    BY <1>1, <2>1, <2>2, <2>3 DEF AloneInv
<1>3. ~(Aggregate \/ AggBeginShort \/ AggKill)
  <2>1. polls \in 0..MaxPolls
    BY <1>1 DEF Typed, TypeOK, AggTypeOK
  <2>2. ~AggBegin /\ ~AggBeginShort
    BY <2>1 DEF Alone, AggBegin, AggBeginShort
  <2> QED
    BY <1>1, <2>2
    DEF Aggregate, AggKill, Fetch, TakeKey, AggOpen, AggWrite, AppendLine, AggExit, Step, agg
<1>4. CASE Tick
  <2>1. UNCHANGED <<lines, mtime, pc, fd, known, since>> /\ now' = now + 1 /\ now' \in Times
    BY <1>1, <1>4 DEF Tick, proposer, Typed, TypeOK, FileTypeOK
  <2>2. lines[now'] = Missing /\ \A t \in Times : t > now' => lines[t] = Missing
    BY <1>1, <2>1 DEF AloneInv, Stamps, Times, Typed, TypeOK, FileTypeOK
  <2>3. Stamps' /\ SizeBounded' /\ KnownIsRecorded'
    BY <2>1, <2>2
    DEF AloneInv, Stamps, SizeBounded, KnownIsRecorded, Recorded, OnFile, LinesAt
  <2>4. ASSUME NEW w \in Proposers PROVE Room(w)'
    BY <2>1, <2>2 DEF AloneInv, Room, LinesAt, Exists
  <2> QED
    BY <1>1, <2>1, <2>3, <2>4 DEF AloneInv
<1>5. CASE UNCHANGED vars
  BY <1>1, <1>5
  DEF AloneInv, vars, file, missed, proposer, Stamps, Exists, SizeBounded, KnownIsRecorded,
      Recorded, OnFile, LinesAt, Room
<1> QED
  BY <1>2, <1>3, <1>4, <1>5 DEF Next

\* Without a second writer: a file is below its limit before its last line, however long
\* the lines are, failed rotations and kills included.
THEOREM SizeIsBounded == ASSUME Alone PROVE Spec => []SizeBounded
<1>1. AloneInv => SizeBounded
  BY DEF AloneInv
<1>2. AloneInv /\ [Next]_vars => AloneInv'
  BY NextAlone
<1> QED
  BY <1>1, <1>2, InitAlone, PTL DEF Spec

\* Without a second writer: no key is suppressed as a duplicate that is in no file, if
\* no line of another key is read back as this one.
THEOREM NothingForgotten == ASSUME Alone PROVE Spec => []KnownIsRecorded
<1>1. AloneInv => KnownIsRecorded
  BY DEF AloneInv
<1>2. AloneInv /\ [Next]_vars => AloneInv'
  BY NextAlone
<1> QED
  BY <1>1, <1>2, InitAlone, PTL DEF Spec

\* Without a second writer: no line is lost or changed, since a rename within one
\* second of another, which would replace a rotated file, never comes about.
THEOREM NothingLost == ASSUME Alone PROVE Spec => AppendOnly
<1> DEFINE Body == \A p \in Places : lines[p] # Missing =>
                     \E q \in Places : lines'[q] # Missing /\ IsPrefix(lines[p], lines'[q])
<1>1. ASSUME AloneInv, [Next]_vars PROVE [Body]_vars
  <2>1. Typed /\ Typed' /\ (Kept \/ UNCHANGED lines)
    BY <1>1, NextTyped, NextAlone DEF AloneInv
  <2>2. Kept
    BY <2>1, GrownReflexive DEF Kept, Typed, TypeOK, FileTypeOK
  <2>3. Body
    BY <2>1, <2>2, GrownIsPrefix DEF Kept, Typed, TypeOK, FileTypeOK
  <2> QED
    BY <2>3
<1>2. AloneInv /\ [Next]_vars => AloneInv'
  BY NextAlone
<1> QED
  BY <1>1, <1>2, InitAlone, PTL DEF Spec, AppendOnly
=============================================================================
