---------------------------- MODULE Alerts_proofs ----------------------------
(***************************************************************************)
(* Proofs about Alerts: type correctness, and that no alert is repeated    *)
(* and none is dropped in silence, for any number of directories, faults,  *)
(* crashes and moves.                                                      *)
(***************************************************************************)
EXTENDS Alerts, FiniteSetTheorems, TLAPS

USE AlertsAssumption, NoRequestAssumption

\* Nobody waits for an answer but at the wait.
Waiting == answer # "none" => pc = "wait"

Inv == TypeOK /\ Waiting

-----------------------------------------------------------------------------
(* The data *)

LEMMA IncType ==
  ASSUME NEW f \in [Dirs -> Nat], NEW S
  PROVE  Inc(f, S) \in [Dirs -> Nat]
BY DEF Inc

LEMMA RequestTypes ==
  ASSUME NEW d \in Dirs, NEW s, NEW S \in SUBSET Dirs
  PROVE  /\ Match(d) \in Request
         /\ Summary(s, S) \in Request
BY DEF Match, Summary, Request, FromRunSummary, Tiers

LEMMA FreshType == ASSUME NEW n \in Nat PROVE FreshSummary(n) \in RunSummary
BY DEF FreshSummary, RunSummary

LEMMA KitCount == ASSUME NEW K \in SUBSET Dirs PROVE Cardinality(K) \in Nat
BY FS_Subset, FS_CardinalityType

LEMMA LeaveType == ASSUME Leave PROVE sum' \in RunSummary
BY FreshType DEF Leave

-----------------------------------------------------------------------------
(* Type correctness *)

LEMMA InitInv == Init => Inv
<1> SUFFICES ASSUME Init PROVE Inv
  OBVIOUS
<1>1. sum \in RunSummary
  BY FreshType DEF Init
<1>2. Nowhere \in [Dirs -> Nat]
  BY DEF Nowhere
<1>3. {applied, alerts, failed, cut} \subseteq [Dirs -> Nat]
  BY <1>2 DEF Init
<1>4. moves \in 0..MaxMoves /\ faults \in 0..MaxFaults /\ crashes \in 0..MaxCrashes
  BY DEF Init
<1>5. /\ request \in Request \cup {NoRequest} /\ late \subseteq Request
      /\ request # NoRequest <=> pc \in {"send", "wait"}
  BY DEF Init
<1>6. privileged \in BOOLEAN /\ stop \in BOOLEAN
  BY DEF Init
<1> QED
  BY <1>1, <1>3, <1>4, <1>5, <1>6 DEF Init, Inv, TypeOK, Waiting

LEMMA ActInv ==
  ASSUME Inv, NEW d \in Dirs, ActSkipped(d) \/ ActAgain(d) \/ ActQuarantine(d)
  PROVE  Inv'
<1>1. sum' \in RunSummary
  <2>1. sum \in RunSummary
    BY DEF Inv, TypeOK
  <2>2. CASE ActSkipped(d)
    BY <2>1, <2>2 DEF RunSummary, ActSkipped
  <2>3. CASE ActAgain(d)
    BY <2>1, <2>3 DEF RunSummary, ActAgain
  <2>4. CASE ActQuarantine(d)
    <3> DEFINE once == [sum EXCEPT !.iocMatches = @ + 1]
    <3>1. once \in RunSummary
      BY <2>1 DEF RunSummary
    <3>2. sum' = [once EXCEPT !.quarantined = @ + 1]
      BY <2>4, <2>1 DEF ActQuarantine, RunSummary
    <3> HIDE DEF once
    <3> QED
      BY <3>1, <3>2 DEF RunSummary
  <2> QED
    BY <2>2, <2>3, <2>4
<1>2. applied' \in [Dirs -> Nat]
  BY IncType DEF Inv, TypeOK, ActSkipped, ActAgain, ActQuarantine, Take
<1>3. Match(d) \in Request
  BY RequestTypes
<1>4. CASE ActSkipped(d) \/ ActAgain(d)
  BY <1>1, <1>2, <1>4
  DEF Inv, TypeOK, Waiting, ActSkipped, ActAgain, Take, host, bounds
<1>5. CASE ActQuarantine(d)
  BY <1>1, <1>2, <1>3, <1>5
  DEF Inv, TypeOK, Waiting, ActQuarantine, bounds
<1> QED
  BY <1>4, <1>5

LEMMA PollInv ==
  ASSUME Inv, Activate \/ TickDone \/ Send
  PROVE  Inv'
<1>1. CASE Activate
  <2>1. sum' \in RunSummary
    BY <1>1, KitCount, FreshType DEF Activate, Inv, TypeOK, host
  <2> QED
    BY <1>1, <2>1 DEF Activate, Inv, TypeOK, Waiting, host, network, observed, bounds
<1>2. CASE TickDone
  <2>1. Summary(sum, found) \in Request
    BY RequestTypes, FreshType DEF Inv, TypeOK, Summary, Request, FromRunSummary, Tiers
  <2> QED
    BY <1>2, <2>1 DEF TickDone, Inv, TypeOK, Waiting, host, observed, bounds
<1>3. CASE Send
  BY <1>3 DEF Send, Inv, TypeOK, Waiting, host, observed, bounds
<1> QED
  BY <1>1, <1>2, <1>3

\* What GoOn does to the variables of the process and to its request.
LEMMA GoOnInv ==
  ASSUME Inv, GoOn
  PROVE  /\ stop' \in BOOLEAN /\ pc' \in {"down", "act"}
         /\ blind' \subseteq found' /\ todo' \subseteq found' /\ found' \subseteq Dirs
         /\ sum' \in RunSummary
         /\ request' = NoRequest /\ answer' = "none"
BY LeaveType DEF Inv, TypeOK, GoOn, Leave

LEMMA LateType ==
  ASSUME Inv, pc = "wait", NEW S \in {late, late \cup {request}}
  PROVE  S \subseteq Request
BY DEF Inv, TypeOK

LEMMA PushInv ==
  ASSUME Inv, Answered \/ Refused \/ TimedOut
  PROVE  Inv'
<1>0. /\ GoOn /\ UNCHANGED host /\ pc = "wait"
      /\ late' \in {late, late \cup {request}}
  BY DEF Answered, Refused, TimedOut
<1>1. late' \subseteq Request
  BY <1>0, LateType
<1>2. {applied', alerts', failed', cut'} \subseteq [Dirs -> Nat] /\ heard' \subseteq Dirs
  BY IncType DEF Inv, TypeOK, Answered, Refused, TimedOut, observed
<1>3. moves' \in 0..MaxMoves /\ faults' \in 0..MaxFaults /\ crashes' \in 0..MaxCrashes
  BY DEF Inv, TypeOK, Answered, Refused, TimedOut, bounds
<1>4. privileged' \in BOOLEAN /\ kit' \subseteq Dirs /\ locked' \subseteq kit'
  BY <1>0 DEF Inv, TypeOK, host
<1> QED
  BY <1>0, <1>1, <1>2, <1>3, <1>4, GoOnInv DEF Inv, TypeOK, Waiting

LEMMA EndInv ==
  ASSUME Inv, Cancel \/ Crash
  PROVE  Inv'
<1>0. Abandon /\ UNCHANGED host
  BY DEF Cancel, Crash, Abandon
<1>1. sum' \in RunSummary
  BY <1>0, LeaveType DEF Abandon
<1>2. late' \subseteq Request
  BY <1>0, LateType DEF Abandon, Inv, TypeOK, Waiting
<1>3. {applied', alerts', failed', cut'} \subseteq [Dirs -> Nat] /\ heard' \subseteq Dirs
  BY <1>0, IncType DEF Inv, TypeOK, Abandon
<1>4. moves' \in 0..MaxMoves /\ faults' \in 0..MaxFaults /\ crashes' \in 0..MaxCrashes
  BY DEF Inv, TypeOK, Cancel, Crash, bounds
<1>5. privileged' \in BOOLEAN /\ kit' \subseteq Dirs /\ locked' \subseteq kit'
  BY <1>0 DEF Inv, TypeOK, host
<1>6. /\ pc' = "down" /\ stop' = FALSE
      /\ found' = {} /\ blind' = {} /\ todo' = {}
      /\ request' = NoRequest /\ answer' = "none"
  BY <1>0 DEF Abandon, Leave
<1> QED
  BY <1>1, <1>2, <1>3, <1>4, <1>5, <1>6 DEF Inv, TypeOK, Waiting

LEMMA ArrivesInv ==
  ASSUME Inv, NEW r \in Request, Arrives(r)
  PROVE  /\ {applied', alerts', failed', cut'} \subseteq [Dirs -> Nat]
         /\ heard' \subseteq Dirs
<1>1. r.about \subseteq Dirs
  BY DEF Request
<1> QED
  BY <1>1, IncType DEF Inv, TypeOK, Arrives

LEMMA NetworkInv ==
  ASSUME Inv,
         Deliver \/ LoseAnswer
           \/ (\E o \in {"refused", "none"} : Lose(o))
           \/ (\E r \in late : DeliverLate(r) \/ LoseLate(r))
  PROVE  Inv'
<1>1. CASE Deliver
  <2>1. request \in Request /\ pc = "wait"
    BY <1>1 DEF Deliver, Inv, TypeOK, Waiting
  <2> QED
    BY <1>1, <2>1, ArrivesInv
    DEF Deliver, Arrives, Inv, TypeOK, Waiting, host, process
<1>2. CASE LoseAnswer
  BY <1>2 DEF LoseAnswer, Fault, Inv, TypeOK, Waiting, host, process
<1>3. CASE \E o \in {"refused", "none"} : Lose(o)
  BY <1>3 DEF Lose, Fault, Inv, TypeOK, Waiting, host, process
<1>4. CASE \E r \in late : DeliverLate(r)
  <2>1. PICK r \in late : DeliverLate(r)
    BY <1>4
  <2>2. r \in Request /\ Arrives(r)
    BY <2>1 DEF Inv, TypeOK, DeliverLate
  <2> QED
    BY <2>1, <2>2, ArrivesInv
    DEF DeliverLate, Arrives, Inv, TypeOK, Waiting, host, process
<1>5. CASE \E r \in late : LoseLate(r)
  BY <1>5 DEF LoseLate, Fault, Inv, TypeOK, Waiting, host, process
<1> QED
  BY <1>1, <1>2, <1>3, <1>4, <1>5

LEMMA WorldInv == ASSUME Inv, World PROVE Inv'
<1>1. /\ Move
      /\ stop' \in BOOLEAN /\ kit' \subseteq Dirs /\ locked' \subseteq kit'
  BY DEF World, Drop, Vanish, RollBack, StopRequested, Inv, TypeOK
<1>2. moves' \in 0..MaxMoves
  BY <1>1 DEF Move, Inv, TypeOK
<1> QED
  BY <1>1, <1>2 DEF Move, Inv, TypeOK, Waiting, network, observed

LEMMA NextInv == Inv /\ [Next]_vars => Inv'
<1> SUFFICES ASSUME Inv, [Next]_vars PROVE Inv'
  OBVIOUS
<1>1. CASE Process
  BY <1>1, PollInv, PushInv, EndInv, ActInv DEF Process
<1>2. CASE Network \/ Trouble
  BY <1>2, NetworkInv, EndInv DEF Network, Trouble
<1>3. CASE World
  BY <1>3, WorldInv
<1>4. CASE UNCHANGED vars
  BY <1>4 DEF vars, host, process, network, observed, bounds, Inv, TypeOK, Waiting
<1> QED
  BY <1>1, <1>2, <1>3, <1>4 DEF Next

\* Every variable keeps its type, and there is a request exactly while one is to be
\* sent or awaited, for any number of directories, faults and crashes.
THEOREM TypeCorrect == Spec => []TypeOK
<1>1. Inv => TypeOK
  BY DEF Inv
<1> QED
  BY <1>1, InitInv, NextInv, PTL DEF Spec

LEMMA AlwaysInv == Spec => []Inv
BY InitInv, NextInv, PTL DEF Spec

-----------------------------------------------------------------------------
(* Alerts and quarantines *)

\* A request with the tier of a match is that of one directory.
Single == \A r \in (late \cup {request}) \ {NoRequest} :
            r.tier = "match" => \E e \in Dirs : r = Match(e)

\* Both properties for one directory, with a push in progress named by its request.
Ledger(d) ==
  /\ alerts[d] + (IF Match(d) \in late THEN 1 ELSE 0)
       + (IF request = Match(d) /\ (pc = "send" \/ answer = "pending") THEN 1 ELSE 0)
     <= applied[d]
  /\ applied[d] <= alerts[d] + failed[d] + cut[d]
                     + (IF request = Match(d) /\ answer # "ok" THEN 1 ELSE 0)

SafeInv == Inv /\ \A d \in Dirs : Single /\ Ledger(d)

LEMMA IncValue ==
  ASSUME NEW f \in [Dirs -> Nat], NEW S, NEW d \in Dirs
  PROVE  Inc(f, S)[d] = IF d \in S THEN f[d] + 1 ELSE f[d]
BY DEF Inc

\* Requests tell directories, and matches from summaries, apart.
LEMMA Matches ==
  ASSUME NEW d \in Dirs, NEW e \in Dirs, NEW s, NEW S
  PROVE  /\ Match(d) = Match(e) => d = e
         /\ Match(d).tier = "match"
         /\ Match(d).about = {d}
         /\ Summary(s, S).tier # "match"
         /\ Summary(s, S) # Match(d)
         /\ Match(d) # NoRequest
<1>1. Match(d).tier = "match" /\ Match(d).about = {d} /\ Match(e).about = {e}
  BY DEF Match
<1>2. Summary(s, S).tier # "match"
  BY DEF Summary, FromRunSummary
<1>3. Match(d) \in Request
  BY DEF Match, Request
<1> QED
  BY <1>1, <1>2, <1>3

LEMMA PushingOf ==
  ASSUME Inv, Single, NEW d \in Dirs
  PROVE  d \in Pushing <=> request = Match(d)
BY Matches DEF Pushing, Single

LEMMA ArrivesValue ==
  ASSUME Inv, Single, NEW d \in Dirs, NEW r \in (late \cup {request}) \ {NoRequest},
         Arrives(r)
  PROVE  alerts'[d] = IF r = Match(d) THEN alerts[d] + 1 ELSE alerts[d]
<1>1. CASE r.tier = "match"
  <2>1. PICK e \in Dirs : r = Match(e)
    BY <1>1 DEF Single
  <2>2. d \in r.about <=> r = Match(d)
    BY <2>1, Matches
  <2>3. alerts \in [Dirs -> Nat]
    BY DEF Inv, TypeOK
  <2> QED
    BY <1>1, <2>2, <2>3, IncValue DEF Arrives
<1>2. CASE r.tier # "match"
  BY <1>2, Matches DEF Arrives
<1> QED
  BY <1>1, <1>2

-----------------------------------------------------------------------------
(* The ledger is kept *)

LEMMA Counters ==
  ASSUME Inv, NEW d \in Dirs
  PROVE  applied[d] \in Nat /\ alerts[d] \in Nat /\ failed[d] \in Nat /\ cut[d] \in Nat
BY DEF Inv, TypeOK

LEMMA ActLedger ==
  ASSUME SafeInv, NEW e \in Dirs, ActSkipped(e) \/ ActAgain(e) \/ ActQuarantine(e),
         NEW d \in Dirs
  PROVE  Ledger(d)' /\ Single'
<1>0. Inv /\ Single /\ Ledger(d) /\ request = NoRequest /\ answer = "none"
  BY DEF SafeInv, Inv, TypeOK, Waiting, ActSkipped, ActAgain, ActQuarantine, Take
<1>1. CASE ActSkipped(e) \/ ActAgain(e)
  BY <1>0, <1>1, Matches DEF ActSkipped, ActAgain, Take, Ledger, Single
<1>2. CASE ActQuarantine(e)
  <2>1. applied'[d] = IF d = e THEN applied[d] + 1 ELSE applied[d]
    BY <1>2, IncValue DEF ActQuarantine, SafeInv, Inv, TypeOK
  <2>2. request' = Match(e) /\ (Match(e) = Match(d) <=> d = e)
    BY <1>2, Matches DEF ActQuarantine
  <2>3. Single'
    BY <1>0, <1>2, <2>2 DEF ActQuarantine, Single
  <2>4. Ledger(d)'
    BY <1>0, <1>2, <2>1, <2>2, Counters, Matches DEF ActQuarantine, Ledger
  <2> QED
    BY <2>3, <2>4
<1> QED
  BY <1>1, <1>2

LEMMA PollLedger ==
  ASSUME SafeInv, Activate \/ TickDone \/ Send, NEW d \in Dirs
  PROVE  Ledger(d)' /\ Single'
<1>0. Inv /\ Single /\ Ledger(d)
  BY DEF SafeInv
<1>1. CASE Activate
  BY <1>0, <1>1, Matches DEF Activate, Inv, TypeOK, Ledger, Single, network, observed
<1>2. CASE TickDone
  <2>1. request = NoRequest /\ answer = "none"
    BY <1>0, <1>2 DEF TickDone, Inv, TypeOK, Waiting
  <2>2. request' # Match(d) /\ request'.tier # "match"
    BY <1>2, Matches DEF TickDone
  <2> QED
    BY <1>0, <1>2, <2>1, <2>2, Matches DEF TickDone, Ledger, Single, observed
<1>3. CASE Send
  BY <1>0, <1>3 DEF Send, Inv, TypeOK, Waiting, Ledger, Single, observed
<1> QED
  BY <1>1, <1>2, <1>3

\* A push comes to its end: its request may remain under way if it was pending, and
\* its failure is counted unless the answer was "ok".
LEMMA EndOfPush ==
  ASSUME SafeInv, NEW d \in Dirs,
         request' = NoRequest, answer' = "none", alerts' = alerts, applied' = applied,
         late' = late \/ (answer = "pending" /\ late' = late \cup {request}),
         (IF request = Match(d) /\ answer # "ok"
            THEN failed'[d] + cut'[d] >= failed[d] + cut[d] + 1
            ELSE failed'[d] + cut'[d] >= failed[d] + cut[d]),
         failed'[d] \in Nat, cut'[d] \in Nat
  PROVE  Ledger(d)' /\ Single'
<1>1. NoRequest # Match(d)
  BY Matches
<1>2. Ledger(d)'
  BY <1>1, Counters DEF SafeInv, Ledger
<1>3. Single'
  BY DEF SafeInv, Single
<1> QED
  BY <1>2, <1>3

LEMMA PushLedger ==
  ASSUME SafeInv, Answered \/ Refused \/ TimedOut, NEW d \in Dirs
  PROVE  Ledger(d)' /\ Single'
<1>0. /\ Inv /\ Single /\ GoOn
      /\ alerts' = alerts /\ applied' = applied
      /\ late' = late \/ (answer = "pending" /\ late' = late \cup {request})
  BY DEF SafeInv, Answered, Refused, TimedOut, observed
<1>1. request' = NoRequest /\ answer' = "none"
  BY <1>0, GoOnInv
<1>2. d \in Pushing <=> request = Match(d)
  BY <1>0, PushingOf
<1>3. /\ failed'[d] \in Nat /\ cut'[d] = cut[d] /\ cut[d] \in Nat
      /\ failed'[d] = IF request = Match(d) /\ answer # "ok" THEN failed[d] + 1
                      ELSE failed[d]
  <2>1. failed \in [Dirs -> Nat] /\ cut \in [Dirs -> Nat]
    BY <1>0 DEF Inv, TypeOK
  <2>2. CASE Answered
    BY <2>1, <2>2 DEF Answered, observed
  <2>3. CASE Refused \/ TimedOut
    <3>1. failed' = Inc(failed, Pushing) /\ cut' = cut /\ answer # "ok"
      BY <2>3 DEF Refused, TimedOut
    <3> QED
      BY <1>2, <2>1, <3>1, IncValue
  <2> QED
    BY <2>2, <2>3
<1>4. failed[d] \in Nat
  BY <1>0, Counters
<1> QED
  BY <1>0, <1>1, <1>3, <1>4, EndOfPush

LEMMA EndLedger ==
  ASSUME SafeInv, Cancel \/ Crash, NEW d \in Dirs
  PROVE  Ledger(d)' /\ Single'
<1>0. /\ Inv /\ Single /\ request' = NoRequest /\ answer' = "none"
      /\ alerts' = alerts /\ applied' = applied /\ failed' = failed
      /\ late' = late \/ (answer = "pending" /\ late' = late \cup {request})
      /\ cut' = Inc(cut, Pushing)
  BY DEF SafeInv, Cancel, Crash, Abandon, Leave
<1>1. d \in Pushing <=> request = Match(d)
  BY <1>0, PushingOf
<1>2. cut'[d] = IF request = Match(d) THEN cut[d] + 1 ELSE cut[d]
  BY <1>0, <1>1, IncValue DEF Inv, TypeOK
<1>3. cut[d] \in Nat /\ failed[d] \in Nat
  BY <1>0, Counters
<1> QED
  BY <1>0, <1>2, <1>3, EndOfPush

LEMMA NetworkLedger ==
  ASSUME SafeInv, NEW d \in Dirs,
         Deliver \/ LoseAnswer
           \/ (\E o \in {"refused", "none"} : Lose(o))
           \/ (\E r \in late : DeliverLate(r) \/ LoseLate(r))
  PROVE  Ledger(d)' /\ Single'
<1>0. Inv /\ Single /\ Ledger(d)
  BY DEF SafeInv
<1>1. CASE Deliver
  <2>1. request # NoRequest /\ pc = "wait" /\ answer = "pending"
    BY <1>0, <1>1 DEF Deliver, Inv, TypeOK, Waiting
  <2>2. alerts'[d] = IF request = Match(d) THEN alerts[d] + 1 ELSE alerts[d]
    BY <1>0, <1>1, <2>1, ArrivesValue DEF Deliver
  <2>3. UNCHANGED <<request, late, pc, applied, failed, cut>> /\ answer' = "ok"
    BY <1>1 DEF Deliver, Arrives, process
  <2> QED
    BY <1>0, <2>1, <2>2, <2>3, Counters DEF Ledger, Single
<1>2. CASE LoseAnswer
  BY <1>0, <1>2, Counters DEF LoseAnswer, Fault, Ledger, Single, process
<1>3. CASE \E o \in {"refused", "none"} : Lose(o)
  <2>1. pc = "wait"
    BY <1>0, <1>3 DEF Lose, Inv, Waiting
  <2> QED
    BY <1>0, <1>3, <2>1, Counters DEF Lose, Fault, Ledger, Single, process
<1>4. CASE \E r \in late : DeliverLate(r)
  <2>1. PICK r \in late : DeliverLate(r)
    BY <1>4
  <2>2. r # NoRequest
    BY <1>0 DEF Inv, TypeOK
  <2>3. alerts'[d] = IF r = Match(d) THEN alerts[d] + 1 ELSE alerts[d]
    BY <1>0, <2>1, <2>2, ArrivesValue DEF DeliverLate
  <2>4. UNCHANGED <<request, answer, pc, applied, failed, cut>> /\ late' = late \ {r}
    BY <2>1 DEF DeliverLate, Arrives, process
  <2> QED
    BY <1>0, <2>3, <2>4, Counters DEF Ledger, Single
<1>5. CASE \E r \in late : LoseLate(r)
  BY <1>0, <1>5, Counters DEF LoseLate, Fault, Ledger, Single, process
<1> QED
  BY <1>1, <1>2, <1>3, <1>4, <1>5

LEMMA WorldLedger ==
  ASSUME SafeInv, World, NEW d \in Dirs
  PROVE  Ledger(d)' /\ Single'
<1>1. UNCHANGED <<request, answer, late, pc, applied, alerts, failed, cut>>
  BY DEF World, Drop, Vanish, RollBack, StopRequested, Move, network, observed
<1> QED
  BY <1>1 DEF SafeInv, Ledger, Single

LEMMA InitSafe == Init => SafeInv
<1> SUFFICES ASSUME Init PROVE SafeInv
  OBVIOUS
<1>1. Single
  BY DEF Init, Single
<1>2. ASSUME NEW d \in Dirs PROVE Ledger(d)
  BY Matches DEF Init, Ledger, Nowhere
<1> QED
  BY <1>1, <1>2, InitInv DEF SafeInv

LEMMA NextSafe == SafeInv /\ [Next]_vars => SafeInv'
<1> SUFFICES ASSUME SafeInv, [Next]_vars PROVE SafeInv'
  OBVIOUS
<1>1. Inv'
  BY NextInv DEF SafeInv
<1>2. ASSUME NEW d \in Dirs PROVE Ledger(d)' /\ Single'
  <2>1. CASE Process
    BY <2>1, ActLedger, PollLedger, PushLedger, EndLedger DEF Process
  <2>2. CASE Network \/ Trouble
    BY <2>2, NetworkLedger, EndLedger DEF Network, Trouble
  <2>3. CASE World
    BY <2>3, WorldLedger
  <2>4. CASE UNCHANGED vars
    BY <2>4 DEF SafeInv, Ledger, Single, vars, process, network, observed
  <2> QED
    BY <2>1, <2>2, <2>3, <2>4 DEF Next
<1> QED
  BY <1>1, <1>2 DEF SafeInv

LEMMA SafeInvSafe == SafeInv => AlertedOncePerQuarantine /\ SilenceIsLogged
<1> SUFFICES ASSUME SafeInv, NEW d \in Dirs
    PROVE  /\ alerts[d] + UnderWay(d) <= applied[d]
           /\ applied[d] <= alerts[d] + failed[d] + cut[d]
                              + (IF d \in Pushing /\ answer # "ok" THEN 1 ELSE 0)
  BY DEF AlertedOncePerQuarantine, SilenceIsLogged
<1>1. d \in Pushing <=> request = Match(d)
  BY PushingOf DEF SafeInv
<1> QED
  BY <1>1, Counters DEF SafeInv, Ledger, UnderWay

\* The phone never shows more match alerts for a directory than it was quarantined:
\* no time-out, late arrival, later tick or restart repeats one.
THEOREM NoAlertTwice == Spec => []AlertedOncePerQuarantine
BY InitSafe, NextSafe, SafeInvSafe, PTL DEF Spec

\* Every quarantine has its alert, under way or arrived, or the journal has the
\* failure of its push, or a stop or kill cut it off.
THEOREM NoSilence == Spec => []SilenceIsLogged
BY InitSafe, NextSafe, SafeInvSafe, PTL DEF Spec

-----------------------------------------------------------------------------
(* Failed pushes *)

\* The summary is sent when every candidate has been acted on.
SummaryLast == request # NoRequest /\ request.tier # "match" => todo = {}

LastInv == Inv /\ SummaryLast

LEMMA NextLast == LastInv /\ [Next]_vars => LastInv'
<1> SUFFICES ASSUME LastInv, [Next]_vars PROVE SummaryLast'
  BY NextInv DEF LastInv
<1> USE DEF LastInv, SummaryLast
<1>1. CASE Activate \/ \E d \in Dirs : ActSkipped(d) \/ ActAgain(d)
  BY <1>1 DEF Activate, ActSkipped, ActAgain, Take, network, Inv, TypeOK
<1>2. CASE \E d \in Dirs : ActQuarantine(d)
  BY <1>2 DEF ActQuarantine, Match
<1>3. CASE TickDone \/ Send
  BY <1>3 DEF TickDone, Send
<1>4. CASE Answered \/ Refused \/ TimedOut
  BY <1>4 DEF Answered, Refused, TimedOut, GoOn, Leave
<1>5. CASE Cancel \/ Crash
  BY <1>5 DEF Cancel, Crash, Abandon, Leave
<1>6. CASE Network \/ (Trouble /\ ~Crash)
  BY <1>6 DEF Network, Trouble, Deliver, DeliverLate, Arrives, Lose, LoseAnswer, LoseLate,
              Fault, process
<1>7. CASE World
  BY <1>7 DEF World, Drop, Vanish, RollBack, StopRequested, Move, network
<1>8. CASE UNCHANGED vars
  BY <1>8 DEF vars, process, network
<1> QED
  BY <1>1, <1>2, <1>3, <1>4, <1>5, <1>6, <1>7, <1>8 DEF Next, Process, Trouble

\* What ends a process: the push of its summary, a stop or a kill.
LEMMA OnlyTheSummaryEnds ==
  ASSUME LastInv, Next, pc # "down", pc' = "down", ~stop, crashes' = crashes
  PROVE  todo = {} /\ Pushing = {}
<1>1. CASE Answered \/ Refused \/ TimedOut
  <2>1. request # NoRequest
    BY <1>1 DEF Answered, Refused, TimedOut, LastInv, Inv, TypeOK
  <2>2. request.tier # "match"
    BY <1>1 DEF Answered, Refused, TimedOut, GoOn
  <2> QED
    BY <2>1, <2>2 DEF LastInv, SummaryLast, Pushing
<1>2. CASE Activate \/ TickDone \/ Send
  BY <1>2 DEF Activate, TickDone, Send
<1>3. CASE \E d \in Dirs : ActSkipped(d) \/ ActAgain(d) \/ ActQuarantine(d)
  BY <1>3 DEF ActSkipped, ActAgain, ActQuarantine, Take
<1>4. CASE Cancel
  BY <1>4 DEF Cancel
<1>5. CASE Crash
  BY <1>5 DEF Crash, LastInv, Inv, TypeOK
<1>6. CASE Network \/ (Trouble /\ ~Crash)
  BY <1>6 DEF Network, Trouble, Deliver, DeliverLate, Arrives, Lose, LoseAnswer, LoseLate,
              Fault, process
<1>7. CASE World
  BY <1>7 DEF World, Drop, Vanish, RollBack, StopRequested, Move
<1> QED
  BY <1>1, <1>2, <1>3, <1>4, <1>5, <1>6, <1>7 DEF Next, Process, Trouble

\* Pushes that fail, time out or are refused end no poll: without a stop or a kill
\* the process goes on until every candidate is acted on and its summary is sent.
THEOREM FailedPushesEndNoPoll == Spec => PollGoesOn
<1>1. Init => LastInv
  BY InitInv DEF Init, LastInv, SummaryLast
<1>2. LastInv /\ [Next]_vars =>
        [pc # "down" /\ pc' = "down" /\ ~stop /\ crashes' = crashes
           => todo = {} /\ Pushing = {}]_vars
  BY OnlyTheSummaryEnds
<1> QED
  BY <1>1, <1>2, NextLast, PTL DEF Spec, PollGoesOn
=============================================================================
