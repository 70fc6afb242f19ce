------------------------- MODULE ProposalFile_proofs -------------------------
(***************************************************************************)
(* Proofs about ProposalFile, for every set of proposers, keys and hosts   *)
(* and all limits.                                                         *)
(***************************************************************************)
EXTENDS ProposalFile, Induction, FiniteSetTheorems, WellFoundedInduction, TLAPS

USE ProposalAssumption

-----------------------------------------------------------------------------
(* Data *)

\* A finite set of numbers that is not empty has a largest element: among the sets
\* of the elements above some element there is a minimal one, which is empty.
LEMMA MaxExists ==
  ASSUME NEW S \in SUBSET Nat, IsFiniteSet(S), S # {}
  PROVE  Max(S) \in S /\ \A y \in S : Max(S) >= y
<1> DEFINE Above(x) == {y \in S : y > x}
           T == {Above(x) : x \in S}
<1>1. T \subseteq FiniteSubsetsOf(S) /\ T # {}
  <2>1. \A x \in S : Above(x) \in SUBSET S
    OBVIOUS
  <2> HIDE DEF Above
  <2>2. \A x \in S : IsFiniteSet(Above(x))
    BY <2>1, FS_Subset
  <2>3. \A x \in S : Above(x) \in FiniteSubsetsOf(S)
    BY <2>1, <2>2 DEF FiniteSubsetsOf
  <2>4. T \subseteq FiniteSubsetsOf(S)
    BY <2>3
  <2>5. \A x \in S : Above(x) \in T
    OBVIOUS
  <2> QED BY <2>4, <2>5
<1>2. PICK A \in T : \A B \in T : <<B, A>> \notin StrictSubsetOrdering(S)
  <2> HIDE DEF T
  <2> QED BY <1>1, FS_StrictSubsetOrderingWellFounded, WFMin
<1>3. PICK x \in S : A = Above(x)
  OBVIOUS
<1>4. \A y \in S : x >= y
  <2> SUFFICES ASSUME NEW y \in S, y > x PROVE FALSE
    OBVIOUS
  <2> x \in Nat /\ y \in Nat
    OBVIOUS
  <2>1. Above(y) \subseteq Above(x) /\ y \in Above(x) /\ y \notin Above(y)
    <3>1. \A z \in Above(y) : z \in S /\ z \in Nat /\ z > y
      OBVIOUS
    <3>2. \A z \in S : z > y => z > x
      OBVIOUS
    <3>3. Above(y) \subseteq Above(x)
      BY <3>1, <3>2
    <3> QED BY <3>3
  <2>2. Above(y) \in T /\ Above(y) \in SUBSET S /\ Above(x) \in SUBSET S
    OBVIOUS
  <2> HIDE DEF Above
  <2>3. <<Above(y), Above(x)>> \in StrictSubsetOrdering(S)
    BY <2>1, <2>2 DEF StrictSubsetOrdering
  <2> QED BY <1>2, <1>3, <2>2, <2>3
<1> QED BY <1>4 DEF Max

LEMMA LineType ==
  ASSUME NEW l \in Line
  PROVE  l.of \in Cands /\ LineKey(l) \in Keys /\ l.count \in Nat /\ Bytes(l) \in Nat \ {0}
BY DEF Line, LineKey, Bytes

LEMMA LineInFile ==
  ASSUME NEW s \in Seq(Line), NEW i \in DOMAIN s
  PROVE  /\ s[i] \in Line /\ s[i].of \in Cands /\ s[i].count \in Nat
         /\ LineKey(s[i]) \in Keys /\ Bytes(s[i]) \in Nat
<1>1. s[i] \in Line
  OBVIOUS
<1> QED BY <1>1, LineType

\* The count read back from a file is a number, and none that is read is larger.
LEMMA ParsedCountIsMax ==
  ASSUME NEW s \in Seq(Line), NEW k \in Keys
  PROVE  /\ ParsedCount(s, k) \in Nat
         /\ \A i \in Counted(s, k) : s[i].count <= ParsedCount(s, k)
<1> DEFINE D == Counted(s, k)
           C == {s[i].count : i \in D}
<1>0. D \subseteq DOMAIN s
  BY DEF Counted
<1>1. IsFiniteSet(D)
  <2>1. IsFiniteSet(1..Len(s)) /\ DOMAIN s = 1..Len(s)
    BY FS_Interval
  <2> QED BY <1>0, <2>1, FS_Subset
<1> HIDE DEF D
<1>2. C \subseteq Nat
  BY <1>0, LineInFile
<1>3. IsFiniteSet(C)
  <2> DEFINE f == [i \in D |-> s[i].count]
  <2>1. f \in Surjection(D, C)
    BY DEF Surjection
  <2> QED BY <1>1, <2>1, FS_Surjection
<1>4. IsFiniteSet({0} \cup C) /\ {0} \cup C \subseteq Nat /\ {0} \cup C # {}
  <2>1. IsFiniteSet({0})
    BY FS_Singleton
  <2> HIDE DEF C
  <2>2. IsFiniteSet({0} \cup C)
    BY <1>3, <2>1, FS_Union
  <2>3. {0} \cup C \subseteq Nat /\ {0} \cup C # {}
    BY <1>2
  <2> QED BY <2>2, <2>3
<1>5. Max({0} \cup C) \in {0} \cup C /\ \A c \in {0} \cup C : Max({0} \cup C) >= c
  <2> HIDE DEF C
  <2> QED BY <1>4, MaxExists
<1>6. ParsedCount(s, k) = Max({0} \cup C)
  BY DEF ParsedCount, D
<1>7. \A i \in D : s[i].count \in {0} \cup C
  OBVIOUS
<1>8. ParsedCount(s, k) \in Nat /\ \A c \in {0} \cup C : c \in Nat /\ c <= ParsedCount(s, k)
  <2> HIDE DEF C
  <2> QED BY <1>4, <1>5, <1>6
<1> QED BY <1>7, <1>8 DEF D

\* What is read of a file before a line that cannot be is a file as well.
LEMMA PartIsFile ==
  ASSUME NEW s \in Seq(Line), NEW n \in 0..(Len(s) - 1)
  PROVE  SubSeq(s, 1, n) \in Seq(Line)
OBVIOUS

LEMMA SeenFinite ==
  ASSUME NEW S \in SUBSET Hosts
  PROVE  Cardinality(S) \in Nat
BY FS_Subset, FS_CardinalityType

LEMMA LinesAtType ==
  ASSUME FileTypeOK, NEW p \in Places
  PROVE  LinesAt(p) \in Seq(Line)
BY DEF FileTypeOK, LinesAt

LEMMA ParsedKeysType ==
  ASSUME NEW s \in Seq(Line)
  PROVE  ParsedKeys(s) \subseteq Keys
<1>1. \A i \in DOMAIN s : ReadsAs[LineKey(s[i])] \in Keys
  BY LineInFile
<1> QED BY <1>1 DEF ParsedKeys

-----------------------------------------------------------------------------
(* Types *)

\* A file that a process has open is at its place, or replaced there.
OpenFilesExist == \A a \in Actors : fd[a] \in Places => lines[fd[a]] # Missing

Typed == TypeOK /\ OpenFilesExist

\* What a fresh file holds is a file, and not the sign of a missing one.
LEMMA EmptyIsFile == <<>> \in Seq(Line) /\ <<>> # Missing
<1>1. <<>> \in Seq(Line)
  OBVIOUS
<1> QED BY <1>1, ProposalAssumption

\* The name of the proposal file is not the name of a rotated one.
LEMMA LiveIsNoTime == Live \notin Times
BY ProposalAssumption DEF Times

\* Nothing is there and nothing runs.
LEMMA InitTyped == Init => Typed
<1> SUFFICES ASSUME Init PROVE Typed
  OBVIOUS
<1>1. FileTypeOK
  BY DEF Init, FileTypeOK, Times
<1>2. ActorTypeOK
  BY DEF Init, ActorTypeOK, Phases
<1>3. ProposerTypeOK /\ AggTypeOK
  BY DEF Init, ProposerTypeOK, AggTypeOK, Times
<1>4. OpenFilesExist
  BY DEF Init, OpenFilesExist
<1> QED BY <1>1, <1>2, <1>3, <1>4 DEF Typed, TypeOK

\* One step of a proposer that touches no file and no other process.
LEMMA BootTyped ==
  ASSUME Typed, NEW w \in Proposers,
         Begin(w) \/ Load(w) \/ Stat(w) \/ LoadShort(w) \/ StatFails(w)
  PROVE  Typed'
<1> USE DEF Typed, TypeOK, Step, Goto, Phases, Actors
<1>1. CASE Begin(w)
  <2> USE <1>1 DEF Begin, CreateIfMissing, file, missed, aggState, Exists
  <2>1. FileTypeOK'
    <3>1. <<>> \in Seq(Line)
      OBVIOUS
    <3> QED BY <3>1 DEF FileTypeOK, Places
  <2>2. ActorTypeOK' /\ ProposerTypeOK' /\ AggTypeOK'
    BY DEF ActorTypeOK, ProposerTypeOK, AggTypeOK
  <2>3. OpenFilesExist'
    BY DEF OpenFilesExist, FileTypeOK, Places
  <2> QED BY <2>1, <2>2, <2>3
<1>2. CASE Load(w)
  <2> DEFINE read == ParsedKeys(LinesAt(Live))
  <2>0. read \subseteq Keys
    BY LinesAtType, ParsedKeysType DEF Places
  <2> HIDE DEF read
  <2>1. /\ Step(w, "load", "stat") /\ known' = [known EXCEPT ![w] = read]
        /\ UNCHANGED <<file, line, fd, since, todo, aggState, faults>>
    BY <1>2 DEF Load, read
  <2> USE DEF file, missed, aggState
  <2>2. FileTypeOK' /\ AggTypeOK'
    BY <2>1 DEF FileTypeOK, AggTypeOK
  <2>3. ActorTypeOK'
    BY <2>1 DEF ActorTypeOK
  <2>4. ProposerTypeOK'
    BY <2>0, <2>1 DEF ProposerTypeOK
  <2>5. OpenFilesExist'
    BY <2>1 DEF OpenFilesExist
  <2> QED BY <2>2, <2>3, <2>4, <2>5
<1>3. CASE Stat(w) \/ StatFails(w)
  <2>1. /\ Step(w, "stat", "idle") /\ faults' \in 0..MaxFaults
        /\ \E t \in Times : since' = [since EXCEPT ![w] = t]
        /\ UNCHANGED <<file, line, fd, known, todo, aggState>>
    BY <1>3 DEF Stat, StatFails, Fault, AggTypeOK, FileTypeOK
  <2> USE DEF file, missed, aggState
  <2>2. FileTypeOK' /\ AggTypeOK'
    BY <2>1 DEF FileTypeOK, AggTypeOK
  <2>3. ActorTypeOK'
    BY <2>1 DEF ActorTypeOK
  <2>4. ProposerTypeOK'
    BY <2>1 DEF ProposerTypeOK
  <2>5. OpenFilesExist'
    BY <2>1 DEF OpenFilesExist
  <2> QED BY <2>2, <2>3, <2>4, <2>5
<1>4. CASE LoadShort(w)
  <2> DEFINE all == LinesAt(Live)
  <2>0. all \in Seq(Line) /\ ParsedKeys(all) \subseteq Keys
    BY LinesAtType, ParsedKeysType DEF Places
  <2> HIDE DEF all
  <2>1. PICK n \in 0..(Len(all) - 1) :
          LET read == ParsedKeys(SubSeq(all, 1, n)) IN
          /\ known' = [known EXCEPT ![w] = read]
          /\ unlearned' = [unlearned EXCEPT ![Live] = @ \cup (ParsedKeys(all) \ read)]
    BY <1>4 DEF LoadShort, all
  <2>2. ParsedKeys(SubSeq(all, 1, n)) \subseteq Keys
    BY <2>0, PartIsFile, ParsedKeysType
  <2>3. /\ Step(w, "load", "stat") /\ faults' \in 0..MaxFaults
        /\ UNCHANGED <<lines, mtime, now, uncounted, line, fd, since, todo, aggState>>
    BY <1>4 DEF LoadShort, Fault, AggTypeOK
  <2>4. FileTypeOK'
    BY <2>0, <2>1, <2>3 DEF FileTypeOK
  <2>5. ActorTypeOK' /\ AggTypeOK'
    BY <2>3 DEF ActorTypeOK, AggTypeOK, aggState
  <2>6. ProposerTypeOK'
    BY <2>1, <2>2, <2>3 DEF ProposerTypeOK
  <2>7. OpenFilesExist'
    BY <2>3 DEF OpenFilesExist
  <2> QED BY <2>4, <2>5, <2>6, <2>7
<1> QED BY <1>1, <1>2, <1>3, <1>4

LEMMA ObserveTyped ==
  ASSUME Typed, NEW w \in Proposers, NEW c \in Cands, Duplicate(w, c) \/ Observe(w, c)
  PROVE  Typed'
<1> USE DEF Typed, TypeOK, Step, Goto, Phases, Actors
<1>1. CASE Duplicate(w, c)
  <2> USE <1>1 DEF Duplicate, file, missed, aggState
  <2>1. FileTypeOK' /\ ActorTypeOK' /\ AggTypeOK'
    BY DEF FileTypeOK, ActorTypeOK, AggTypeOK
  <2>2. ProposerTypeOK'
    BY DEF ProposerTypeOK
  <2>3. OpenFilesExist'
    BY DEF OpenFilesExist
  <2> QED BY <2>1, <2>2, <2>3
<1>2. CASE Observe(w, c)
  <2> USE <1>2 DEF Observe, file, missed, aggState
  <2>1. [of |-> c, count |-> 0] \in Line
    BY DEF Line
  <2>2. FileTypeOK' /\ AggTypeOK' /\ ProposerTypeOK'
    BY DEF FileTypeOK, ProposerTypeOK, AggTypeOK
  <2>3. ActorTypeOK'
    BY <2>1 DEF ActorTypeOK
  <2>4. OpenFilesExist'
    BY DEF OpenFilesExist
  <2> QED BY <2>2, <2>3, <2>4
<1> QED BY <1>1, <1>2

LEMMA RotateTyped ==
  ASSUME Typed, NEW w \in Proposers, Check(w) \/ Rename(w) \/ Create(w) \/ Open(w)
  PROVE  Typed'
<1> USE DEF Typed, TypeOK, Step, Goto, Phases, Actors
<1>1. CASE Check(w)
  <2> USE <1>1 DEF Check, file, missed, proposer, aggState
  <2>1. FileTypeOK' /\ ProposerTypeOK' /\ AggTypeOK'
    BY DEF FileTypeOK, ProposerTypeOK, AggTypeOK
  <2>2. ActorTypeOK'
    BY DEF ActorTypeOK
  <2>3. OpenFilesExist'
    BY DEF OpenFilesExist
  <2> QED BY <2>1, <2>2, <2>3
<1>2. CASE Rename(w)
  <2> USE <1>2 DEF Rename, proposer, aggState
  <2>1. now \in Times /\ now \in Places /\ Live \in Places /\ now # Live
    BY DEF FileTypeOK, Places, Times
  <2>2. FileTypeOK' /\ ProposerTypeOK' /\ AggTypeOK'
    BY <2>1 DEF FileTypeOK, ProposerTypeOK, AggTypeOK, Exists
  <2>3. ActorTypeOK'
    <3>1. \A a \in Actors : /\ fd'[a] \in Places \cup {Closed, Gone}
                            /\ fd'[a] # Closed <=> fd[a] # Closed
      BY <2>1 DEF ActorTypeOK
    <3>2. fd' \in [Actors -> Places \cup {Closed, Gone}]
      BY <3>1
    <3> QED BY <3>1, <3>2 DEF ActorTypeOK
  <2>4. OpenFilesExist'
    <3> SUFFICES ASSUME NEW a \in Actors, fd'[a] \in Places
                 PROVE  lines'[fd'[a]] # Missing
      BY DEF OpenFilesExist
    <3>1. CASE fd[a] = Live
      BY <2>1, <3>1 DEF FileTypeOK, Exists
    <3>2. CASE fd[a] = now
      BY <2>1, <3>2
    <3>3. CASE fd[a] # Live /\ fd[a] # now
      BY <2>1, <3>3 DEF FileTypeOK, OpenFilesExist
    <3> QED BY <3>1, <3>2, <3>3
  <2> QED BY <2>2, <2>3, <2>4
<1>3. CASE Create(w)
  <2> USE <1>3 DEF Create, aggState
  <2>1. FileTypeOK'
    <3>1. <<>> \in Seq(Line)
      OBVIOUS
    <3> QED BY <3>1 DEF FileTypeOK, Places
  <2>2. ProposerTypeOK' /\ AggTypeOK'
    BY DEF FileTypeOK, ProposerTypeOK, AggTypeOK
  <2>3. ActorTypeOK'
    BY DEF ActorTypeOK
  <2>4. OpenFilesExist'
    BY EmptyIsFile DEF OpenFilesExist, FileTypeOK, Places
  <2> QED BY <2>1, <2>2, <2>3, <2>4
<1>4. CASE Open(w)
  <2> USE <1>4 DEF Open, file, missed, proposer, aggState
  <2>1. FileTypeOK' /\ ProposerTypeOK' /\ AggTypeOK'
    BY DEF FileTypeOK, ProposerTypeOK, AggTypeOK
  <2>2. ActorTypeOK'
    BY DEF ActorTypeOK, Places
  <2>3. OpenFilesExist'
    <3> SUFFICES ASSUME NEW a \in Actors, fd'[a] \in Places
                 PROVE  lines'[fd'[a]] # Missing
      BY DEF OpenFilesExist
    <3>1. CASE a = w
      BY <3>1 DEF ActorTypeOK, Exists
    <3>2. CASE a # w
      BY <3>2 DEF ActorTypeOK, OpenFilesExist
    <3> QED BY <3>1, <3>2
  <2> QED BY <2>1, <2>2, <2>3
<1> QED BY <1>1, <1>2, <1>3, <1>4

\* An append changes one file and closes it.
LEMMA AppendTyped ==
  ASSUME Typed, NEW a \in Actors, AppendLine(a),
         unlearned' \in [Places -> SUBSET Keys], uncounted' \in [Places -> SUBSET Keys]
  PROVE  FileTypeOK' /\ ActorTypeOK' /\ OpenFilesExist' /\ line[a] \in Line
<1> USE DEF Typed, TypeOK, AppendLine, Goto
<1>1. line[a] \in Line /\ (fd[a] # Gone => fd[a] \in Places)
  BY DEF ActorTypeOK
<1>2. fd[a] # Gone => lines[fd[a]] \in Seq(Line)
  BY <1>1 DEF OpenFilesExist, FileTypeOK
<1>3. fd[a] # Gone => Append(lines[fd[a]], line[a]) \in Seq(Line)
  BY <1>1, <1>2
<1>4. FileTypeOK'
  BY <1>1, <1>3 DEF FileTypeOK
<1>5. ActorTypeOK'
  BY DEF ActorTypeOK, Phases
<1>6. OpenFilesExist'
  <2> SUFFICES ASSUME NEW b \in Actors, fd'[b] \in Places
               PROVE  lines'[fd'[b]] # Missing
    BY DEF OpenFilesExist
  <2>1. b # a /\ fd'[b] = fd[b]
    BY DEF ActorTypeOK
  <2>2. lines[fd[b]] # Missing
    BY <2>1 DEF OpenFilesExist
  <2>3. fd[a] # Gone => Append(lines[fd[a]], line[a]) # Missing
    BY <1>3
  <2> QED BY <2>1, <2>2, <2>3 DEF FileTypeOK
<1> QED BY <1>1, <1>4, <1>5, <1>6

LEMMA WriteTyped ==
  ASSUME Typed, NEW w \in Proposers, Write(w) \/ WrittenAfterAll(w)
  PROVE  Typed'
<1>1. /\ w \in Actors /\ AppendLine(w)
      /\ unlearned \in [Places -> SUBSET Keys] /\ uncounted' = uncounted
      /\ uncounted \in [Places -> SUBSET Keys]
  BY DEF Write, WrittenAfterAll, missed, Actors, Typed, TypeOK, FileTypeOK
<1>2. line[w] \in Line /\ LineKey(line[w]) \in Keys
  <2>1. line[w] \in Line
    BY <1>1 DEF AppendLine, Typed, TypeOK, ActorTypeOK
  <2> QED BY <2>1, LineType
<1>3. unlearned' \in [Places -> SUBSET Keys]
  BY <1>1, <1>2 DEF Write, WrittenAfterAll, missed
<1>4. FileTypeOK' /\ ActorTypeOK' /\ OpenFilesExist'
  BY <1>1, <1>3, AppendTyped
<1>5. ProposerTypeOK' /\ AggTypeOK'
  BY <1>2
  DEF Write, WrittenAfterAll, Fault, Typed, TypeOK, ProposerTypeOK, AggTypeOK, proposer, aggState
<1> QED BY <1>4, <1>5 DEF Typed, TypeOK

\* What ends an observation, and what ends the process.
LEMMA GiveUpTyped ==
  ASSUME Typed, NEW w \in Proposers, faults' \in 0..MaxFaults, GiveUp(w) \/ Forget(w)
  PROVE  Typed'
<1> USE DEF Typed, TypeOK, Goto, Phases, Actors, aggState, file, missed
<1>1. CASE GiveUp(w)
  <2> USE <1>1 DEF GiveUp, proposer
  <2>1. FileTypeOK' /\ ProposerTypeOK' /\ AggTypeOK'
    BY DEF FileTypeOK, ProposerTypeOK, AggTypeOK
  <2>2. ActorTypeOK'
    BY DEF ActorTypeOK
  <2>3. OpenFilesExist'
    BY DEF OpenFilesExist, ActorTypeOK
  <2> QED BY <2>1, <2>2, <2>3
<1>2. CASE Forget(w)
  <2> USE <1>2 DEF Forget
  <2>1. FileTypeOK' /\ ProposerTypeOK' /\ AggTypeOK'
    BY DEF FileTypeOK, ProposerTypeOK, AggTypeOK, Times
  <2>2. ActorTypeOK'
    BY DEF ActorTypeOK
  <2>3. OpenFilesExist'
    BY DEF OpenFilesExist, ActorTypeOK
  <2> QED BY <2>1, <2>2, <2>3
<1> QED BY <1>1, <1>2

LEMMA ProposeTyped ==
  ASSUME Typed, NEW w \in Proposers, Propose(w) \/ Trouble(w)
  PROVE  Typed'
<1>1. ASSUME Begin(w) \/ Load(w) \/ Stat(w) \/ LoadShort(w) \/ StatFails(w) PROVE Typed'
  BY <1>1, BootTyped
<1>2. ASSUME NEW c \in Cands, Duplicate(w, c) \/ Observe(w, c) PROVE Typed'
  BY <1>2, ObserveTyped
<1>3. ASSUME Check(w) \/ Rename(w) \/ Create(w) \/ Open(w) PROVE Typed'
  BY <1>3, RotateTyped
<1>4. ASSUME Write(w) \/ WrittenAfterAll(w) PROVE Typed'
  BY <1>4, WriteTyped
<1>5. ASSUME NotFound(w) \/ OutOfNames(w) \/ Exit(w) PROVE Typed'
  <2>1. faults' \in 0..MaxFaults
    BY <1>5 DEF NotFound, OutOfNames, Exit, Typed, TypeOK, AggTypeOK
  <2> QED BY <1>5, <2>1, GiveUpTyped DEF NotFound, OutOfNames, Exit
<1>6. ASSUME CallFails(w) \/ Kill(w) PROVE Typed'
  <2>1. faults' \in 0..MaxFaults
    BY <1>6 DEF CallFails, Kill, Fault, Typed, TypeOK, AggTypeOK
  <2> QED BY <1>6, <2>1, GiveUpTyped DEF CallFails, Kill
<1> QED BY <1>1, <1>2, <1>3, <1>4, <1>5, <1>6 DEF Propose, Trouble

LEMMA AggregateTyped ==
  ASSUME Typed, Aggregate \/ AggBeginShort \/ AggKill
  PROVE  Typed'
<1> USE DEF Typed, TypeOK, Step, Goto, Phases, Actors, agg
<1>1. CASE AggBegin
  <2> USE <1>1 DEF AggBegin, file, missed, proposer
  <2>1. \A k \in Keys : ParsedCount(LinesAt(Live), k) \in Nat
    BY LinesAtType, ParsedCountIsMax DEF Places
  <2>2. FileTypeOK' /\ ProposerTypeOK'
    BY DEF FileTypeOK, ProposerTypeOK
  <2>3. AggTypeOK'
    BY <2>1 DEF AggTypeOK
  <2>4. ActorTypeOK'
    BY DEF ActorTypeOK
  <2>5. OpenFilesExist'
    BY DEF OpenFilesExist
  <2> QED BY <2>2, <2>3, <2>4, <2>5
<1>2. ASSUME NEW b \in Batches, Fetch(b) PROVE Typed'
  <2> USE <1>2 DEF Fetch, file, missed, proposer
  <2>1. FileTypeOK' /\ ProposerTypeOK' /\ AggTypeOK'
    BY DEF FileTypeOK, ProposerTypeOK, AggTypeOK, Batches
  <2>2. ActorTypeOK'
    BY DEF ActorTypeOK
  <2>3. OpenFilesExist'
    BY DEF OpenFilesExist
  <2> QED BY <2>1, <2>2, <2>3
<1>3. ASSUME NEW c \in Cands, TakeKey(c) PROVE Typed'
  <2> DEFINE k == KeyOf[c]
  <2>0. k \in Keys
    OBVIOUS
  <2> HIDE DEF k
  <2>1. /\ seen' = [seen EXCEPT ![k] = @ \cup batch[k]]
        /\ batch' = [batch EXCEPT ![k] = {}]
        /\ line' = [line EXCEPT ![agg] =
             [of |-> c, count |-> restored[k] + Cardinality(seen'[k])]]
        /\ Step(agg, "idle", "open")
        /\ UNCHANGED <<file, fd, proposer, restored, polls, faults>>
    BY <1>3 DEF TakeKey, k
  <2> USE DEF file, missed, proposer
  <2>2. seen' \in [Keys -> SUBSET Hosts]
    BY <2>0, <2>1 DEF AggTypeOK
  <2>3. Cardinality(seen'[k]) \in Nat /\ restored[k] \in Nat
    BY <2>0, <2>2, SeenFinite DEF AggTypeOK
  <2>4. [of |-> c, count |-> restored[k] + Cardinality(seen'[k])] \in Line
    BY <2>3 DEF Line
  <2>5. FileTypeOK' /\ ProposerTypeOK'
    BY <2>1 DEF FileTypeOK, ProposerTypeOK
  <2>6. AggTypeOK'
    BY <2>0, <2>1, <2>2 DEF AggTypeOK
  <2>7. ActorTypeOK'
    BY <2>1, <2>4 DEF ActorTypeOK
  <2>8. OpenFilesExist'
    BY <2>1 DEF OpenFilesExist
  <2> QED BY <2>5, <2>6, <2>7, <2>8
<1>4. CASE AggOpen
  <2> USE <1>4 DEF AggOpen, CreateIfMissing, Exists, file, missed, proposer, aggState
  <2>1. FileTypeOK'
    <3>1. <<>> \in Seq(Line)
      OBVIOUS
    <3> QED BY <3>1 DEF FileTypeOK, Places
  <2>2. ProposerTypeOK' /\ AggTypeOK'
    BY DEF ProposerTypeOK, AggTypeOK
  <2>3. ActorTypeOK'
    BY DEF ActorTypeOK, Places
  <2>4. lines'[Live] # Missing /\ \A p \in Times : lines'[p] = lines[p]
    <3>1. CASE Exists
      BY <3>1
    <3>2. CASE ~Exists
      BY <3>2, EmptyIsFile, LiveIsNoTime DEF FileTypeOK, Places
    <3> QED BY <3>1, <3>2
  <2>5. OpenFilesExist'
    <3> SUFFICES ASSUME NEW a \in Actors, fd'[a] \in Places
                 PROVE  lines'[fd'[a]] # Missing
      BY DEF OpenFilesExist
    <3>1. CASE fd'[a] = Live
      BY <2>4, <3>1
    <3>2. CASE fd'[a] # Live
      <4>1. fd'[a] = fd[a] /\ fd'[a] \in Times
        BY <3>2 DEF ActorTypeOK, Places
      <4> QED BY <2>4, <4>1 DEF OpenFilesExist, Places
    <3> QED BY <3>1, <3>2
  <2> QED BY <2>1, <2>2, <2>3, <2>5
<1>5. CASE AggWrite
  <2>1. FileTypeOK' /\ ActorTypeOK' /\ OpenFilesExist'
    BY <1>5, AppendTyped DEF AggWrite, missed, FileTypeOK
  <2>2. ProposerTypeOK' /\ AggTypeOK'
    BY <1>5 DEF AggWrite, proposer, aggState, ProposerTypeOK, AggTypeOK
  <2> QED BY <2>1, <2>2
<1>6. CASE AggExit \/ AggKill
  <2>1. AggForget /\ faults' \in 0..MaxFaults
    BY <1>6 DEF AggExit, AggKill, Fault, AggTypeOK
  <2> USE <2>1 DEF AggForget, file, missed, proposer
  <2>2. FileTypeOK' /\ ProposerTypeOK' /\ AggTypeOK'
    BY DEF FileTypeOK, ProposerTypeOK, AggTypeOK
  <2>3. ActorTypeOK'
    BY DEF ActorTypeOK
  <2>4. OpenFilesExist'
    BY DEF OpenFilesExist, ActorTypeOK
  <2> QED BY <2>2, <2>3, <2>4
<1>7. CASE AggBeginShort
  <2> DEFINE all == LinesAt(Live)
  <2>0. all \in Seq(Line)
    BY LinesAtType DEF Places
  <2> HIDE DEF all
  <2>1. PICK n \in 0..(Len(all) - 1) :
          LET read == SubSeq(all, 1, n) IN
          /\ restored' = [k \in Keys |-> ParsedCount(read, k)]
          /\ uncounted' = [uncounted EXCEPT ![Live] = @ \cup
               {k \in Keys : ParsedCount(read, k) # ParsedCount(all, k)}]
    BY <1>7 DEF AggBeginShort, all
  <2>2. \A k \in Keys : ParsedCount(SubSeq(all, 1, n), k) \in Nat
    BY <2>0, PartIsFile, ParsedCountIsMax
  <2> USE <1>7 DEF AggBeginShort, Fault, proposer
  <2>3. FileTypeOK'
    BY <2>1 DEF FileTypeOK
  <2>4. ProposerTypeOK' /\ ActorTypeOK'
    BY DEF ProposerTypeOK, ActorTypeOK
  <2>5. AggTypeOK'
    BY <2>1, <2>2 DEF AggTypeOK
  <2>6. OpenFilesExist'
    BY DEF OpenFilesExist
  <2> QED BY <2>3, <2>4, <2>5, <2>6
<1> QED BY <1>1, <1>2, <1>3, <1>4, <1>5, <1>6, <1>7 DEF Aggregate

LEMMA TickTyped ==
  ASSUME Typed, Tick
  PROVE  Typed'
<1> USE DEF Typed, TypeOK, Tick, missed, proposer, aggState
<1>1. FileTypeOK'
  BY DEF FileTypeOK, Times
<1>2. ActorTypeOK' /\ ProposerTypeOK' /\ AggTypeOK'
  BY DEF ActorTypeOK, ProposerTypeOK, AggTypeOK
<1>3. OpenFilesExist'
  BY DEF OpenFilesExist
<1> QED BY <1>1, <1>2, <1>3

LEMMA NextTyped == Typed /\ [Next]_vars => Typed'
<1> SUFFICES ASSUME Typed, [Next]_vars PROVE Typed'
  OBVIOUS
<1>1. ASSUME NEW w \in Proposers, Propose(w) \/ Trouble(w) PROVE Typed'
  BY <1>1, ProposeTyped
<1>2. CASE Aggregate \/ AggBeginShort \/ AggKill
  BY <1>2, AggregateTyped
<1>3. CASE Tick
  BY <1>3, TickTyped
<1>4. CASE UNCHANGED vars
  BY <1>4 DEF vars, file, missed, proposer, aggState, Typed, TypeOK, FileTypeOK, ActorTypeOK,
              ProposerTypeOK, AggTypeOK, OpenFilesExist
<1> QED BY <1>1, <1>2, <1>3, <1>4 DEF Next

\* However the writers' calls interleave, fail and are cut off by kills, every
\* variable keeps its type, a line is at hand and a file open exactly where observe
\* and append_proposal_entry say, and what is open is a file.
THEOREM TypeCorrect == Spec => []TypeOK
<1>1. Init => Typed
  BY InitTyped
<1>2. Typed /\ [Next]_vars => Typed'
  BY NextTyped
<1>3. Typed => TypeOK
  BY DEF Typed
<1> QED BY <1>1, <1>2, <1>3, PTL DEF Spec
=============================================================================
