------------------------------- MODULE Alerts -------------------------------
(***************************************************************************)
(* What reaches the operator's phone: the NTFY pushes of output.rs and the *)
(* part of run_once that decides on them, with the network in between. A   *)
(* push is one HTTP request with a 5 second timeout and is never repeated. *)
(* Requests and answers get lost or late; the answer of an abandoned       *)
(* request is never read, but the request may still arrive.                *)
(*                                                                         *)
(* The directories are host dotdirs whose files are in the IOC list. What  *)
(* else a poll does is the subject of Runtime.                             *)
(***************************************************************************)
EXTENDS Severity, FiniteSets

CONSTANTS
  Dirs,        \* directories that may hold a kit
  NoRequest,   \* no request
  MaxMoves,    \* bound: changes on the host, and stop requests
  MaxFaults,   \* bound: requests and answers lost, refused or late
  MaxCrashes   \* bound: kills of the process

ASSUME AlertsAssumption ==
  /\ IsFiniteSet(Dirs) /\ HostRoots = {}
  /\ MaxMoves \in Nat /\ MaxFaults \in Nat /\ MaxCrashes \in Nat

\* A push says which tier it has and which directories it speaks about: the one
\* of a match, or those whose counters make up the summary.
Request == [tier : Tiers \cup {"match"}, about : SUBSET Dirs]

Match(d)      == [tier |-> "match", about |-> {d}]
Summary(s, S) == [tier |-> FromRunSummary(s), about |-> S]

ASSUME NoRequestAssumption == NoRequest \notin Request

VARIABLES
  (* the host *)
  privileged,  \* the daemon bypasses permission bits
  kit,         \* directories that hold a kit, within the scan window
  locked,      \* those at 000
  (* the process *)
  pc, stop,
  found,       \* candidates of this tick
  blind,       \* those the walk could not read
  todo,        \* those still to be acted on
  sum,         \* RunSummary
  (* the network *)
  request,     \* the request to be sent or awaited
  answer,      \* "none", "pending", "ok" or "refused"
  late,        \* requests nobody waits for any more, and still under way
  (* observers, read by no action *)
  applied,     \* [Dirs -> Nat]: times the directory was quarantined
  alerts,      \* [Dirs -> Nat]: match alerts on the phone
  failed,      \* [Dirs -> Nat]: failures of its push in the journal
  cut,         \* [Dirs -> Nat]: pushes that ended with the process
  heard,       \* directories the operator heard of since their last quarantine
  (* bounds *)
  moves, faults, crashes

host     == <<privileged, kit, locked>>
process  == <<pc, stop, found, blind, todo, sum>>
network  == <<request, answer, late>>
observed == <<applied, alerts, failed, cut, heard>>
bounds   == <<moves, faults, crashes>>
vars     == <<host, process, network, observed, bounds>>

Nowhere == [d \in Dirs |-> 0]
Inc(f, S) == [d \in Dirs |-> IF d \in S THEN f[d] + 1 ELSE f[d]]

Init ==
  /\ privileged \in BOOLEAN
  /\ kit \in SUBSET Dirs /\ locked = {}
  /\ pc = "down" /\ stop = FALSE
  /\ found = {} /\ blind = {} /\ todo = {} /\ sum = FreshSummary(0)
  /\ request = NoRequest /\ answer = "none" /\ late = {}
  /\ applied = Nowhere /\ alerts = Nowhere /\ failed = Nowhere /\ cut = Nowhere
  /\ heard = {}
  /\ moves = 0 /\ faults = 0 /\ crashes = 0

-----------------------------------------------------------------------------
(* The poll *)

\* The directories a match push in progress is about.
Pushing == IF request # NoRequest /\ request.tier = "match" THEN request.about ELSE {}

Leave ==
  /\ pc' = "down" /\ stop' = FALSE
  /\ found' = {} /\ blind' = {} /\ todo' = {} /\ sum' = FreshSummary(0)
  /\ request' = NoRequest /\ answer' = "none"

\* The walk: a directory at 000 is an unreadable candidate without privileges.
Activate ==
  /\ pc = "down" /\ pc' = "act"
  /\ found' = kit /\ todo' = kit
  /\ blind' = IF privileged THEN {} ELSE kit \cap locked
  /\ sum' = FreshSummary(Cardinality(kit))
  /\ UNCHANGED <<host, stop, network, observed, bounds>>

Take(d) ==
  /\ pc = "act" /\ d \in todo
  /\ todo' = todo \ {d}
  /\ UNCHANGED <<host, stop, found, blind, answer, late, alerts, failed, cut, bounds>>

ActSkipped(d) ==
  /\ d \in blind /\ Take(d)
  /\ sum' = [sum EXCEPT !.skipped = @ + 1]
  /\ UNCHANGED <<pc, request, applied, heard>>

\* Mutant: a directory met again at 000 counts as quarantined.
ActAgainCounted(d) ==
  /\ d \notin blind /\ d \in locked \cup (Dirs \ kit) /\ Take(d)
  /\ sum' = [sum EXCEPT !.iocMatches = @ + 1, !.quarantined = @ + 1]
  /\ UNCHANGED <<pc, request, applied, heard>>

\* Mutant: a directory met again at 000 is pushed again.
ActAgainPushed(d) ==
  /\ d \notin blind /\ d \in locked \cup (Dirs \ kit) /\ Take(d)
  /\ sum' = [sum EXCEPT !.iocMatches = @ + 1]
  /\ pc' = "send" /\ request' = Match(d)
  /\ UNCHANGED <<applied, heard>>

\* AlreadyQuarantined, and Failed for one that is gone: journaled, not pushed.
ActAgain(d) ==
  /\ d \notin blind /\ d \in locked \cup (Dirs \ kit) /\ Take(d)
  /\ sum' = [sum EXCEPT !.iocMatches = @ + 1]
  /\ UNCHANGED <<pc, request, applied, heard>>

ActQuarantine(d) ==
  /\ d \notin blind /\ d \in kit \ locked
  /\ pc = "act" /\ d \in todo /\ todo' = todo \ {d}
  /\ locked' = locked \cup {d}
  /\ sum' = [sum EXCEPT !.iocMatches = @ + 1, !.quarantined = @ + 1]
  /\ pc' = "send" /\ request' = Match(d)
  /\ applied' = Inc(applied, {d}) /\ heard' = heard \ {d}
  /\ UNCHANGED <<privileged, kit, stop, found, blind, answer, late, alerts,
                 failed, cut, bounds>>

TickDone ==
  /\ pc = "act" /\ todo = {}
  /\ pc' = "send" /\ request' = Summary(sum, found)
  /\ UNCHANGED <<host, stop, found, blind, todo, sum, answer, late, observed, bounds>>

-----------------------------------------------------------------------------
(* One push: ntfy_push, push_tick_summary_with_headers *)

Send ==
  /\ pc = "send" /\ pc' = "wait" /\ answer' = "pending"
  /\ UNCHANGED <<host, stop, found, blind, todo, sum, request, late, observed, bounds>>

\* Mutant: the answered request is kept.
GoOnStale ==
  IF request.tier = "match"
    THEN pc' = "act" /\ UNCHANGED <<stop, found, blind, todo, sum, request, answer>>
    ELSE Leave

\* After a match the loop of run_once goes on, whatever came of the push; after
\* the summary the process ends.
GoOn ==
  IF request.tier = "match"
    THEN /\ pc' = "act" /\ request' = NoRequest /\ answer' = "none"
         /\ UNCHANGED <<stop, found, blind, todo, sum>>
    ELSE Leave

\* Mutant: the status of the answer is not looked at.
AnsweredAny ==
  /\ pc = "wait" /\ ~stop /\ answer \in {"ok", "refused"}
  /\ GoOn
  /\ UNCHANGED <<host, late, observed, bounds>>

Answered ==
  /\ pc = "wait" /\ ~stop /\ answer = "ok"
  /\ GoOn
  /\ UNCHANGED <<host, late, observed, bounds>>

\* Mutant: an error of the push ends the poll (`?` in place of `if let Err`).
RefusedAborts ==
  /\ pc = "wait" /\ ~stop /\ answer = "refused"
  /\ Leave
  /\ failed' = Inc(failed, Pushing)
  /\ UNCHANGED <<host, late, applied, alerts, cut, heard, bounds>>

\* An answer other than 2xx is an error: it is journaled.
Refused ==
  /\ pc = "wait" /\ ~stop /\ answer = "refused"
  /\ GoOn
  /\ failed' = Inc(failed, Pushing)
  /\ UNCHANGED <<host, late, applied, alerts, cut, heard, bounds>>

\* Five seconds without an answer, or the connection broke: the request is given
\* up and may still arrive if it was not lost ("pending").
TimedOut ==
  /\ pc = "wait" /\ ~stop /\ answer \in {"pending", "none"}
  /\ answer = "pending" => faults < MaxFaults
  /\ faults' = IF answer = "pending" THEN faults + 1 ELSE faults
  /\ late' = IF answer = "pending" THEN late \cup {request} ELSE late
  /\ GoOn
  /\ failed' = Inc(failed, Pushing)
  /\ UNCHANGED <<host, applied, alerts, cut, heard, moves, crashes>>

\* The process ends in the middle of its tick: a request under way is left to
\* itself, written or not.
Abandon ==
  /\ Leave
  /\ late' \in IF answer = "pending" THEN {late, late \cup {request}} ELSE {late}
  /\ cut' = Inc(cut, Pushing)
  /\ UNCHANGED <<host, applied, alerts, failed, heard>>

\* select! drops the poll at the push it waits in.
Cancel ==
  /\ pc = "wait" /\ stop
  /\ Abandon
  /\ UNCHANGED bounds

Crash ==
  /\ pc # "down"
  /\ crashes < MaxCrashes /\ crashes' = crashes + 1
  /\ Abandon
  /\ UNCHANGED <<moves, faults>>

-----------------------------------------------------------------------------
(* The network and the NTFY server *)

Arrives(r) ==
  /\ alerts' = IF r.tier = "match" THEN Inc(alerts, r.about) ELSE alerts
  /\ heard' = IF r.tier = "Info" THEN heard ELSE heard \cup r.about
  /\ UNCHANGED <<host, process, request, applied, failed, cut, moves, crashes>>

Deliver ==
  /\ answer = "pending" /\ answer' = "ok"
  /\ Arrives(request)
  /\ UNCHANGED <<late, faults>>

DeliverLate(r) ==
  /\ r \in late /\ late' = late \ {r}
  /\ Arrives(r)
  /\ UNCHANGED <<answer, faults>>

Fault ==
  /\ faults < MaxFaults /\ faults' = faults + 1
  /\ UNCHANGED <<host, process, request, applied, failed, cut, moves, crashes>>

\* The server refuses the request, or it gets lost on the way.
Lose(outcome) ==
  /\ answer = "pending" /\ answer' = outcome
  /\ Fault
  /\ UNCHANGED <<late, alerts, heard>>

LoseAnswer ==
  /\ answer = "ok" /\ answer' = "none"
  /\ Fault
  /\ UNCHANGED <<late, alerts, heard>>

LoseLate(r) ==
  /\ r \in late /\ late' = late \ {r}
  /\ Fault
  /\ UNCHANGED <<answer, alerts, heard>>

-----------------------------------------------------------------------------
(* The host *)

Move ==
  /\ moves < MaxMoves /\ moves' = moves + 1
  /\ UNCHANGED <<privileged, pc, found, blind, todo, sum, network, observed, faults,
                 crashes>>

Drop(d) ==
  /\ d \notin kit /\ kit' = kit \cup {d}
  /\ Move /\ UNCHANGED <<locked, stop>>

\* The directory is removed, or leaves the scan window.
Vanish(d) ==
  /\ d \in kit /\ kit' = kit \ {d} /\ locked' = locked \ {d}
  /\ Move /\ UNCHANGED stop

\* The operator undoes the quarantine.
RollBack(d) ==
  /\ d \in locked /\ locked' = locked \ {d}
  /\ Move /\ UNCHANGED <<kit, stop>>

StopRequested ==
  /\ pc # "down" /\ ~stop /\ stop' = TRUE
  /\ Move /\ UNCHANGED <<kit, locked>>

-----------------------------------------------------------------------------
(* Specification *)

Process ==
  \/ Activate \/ TickDone \/ Send \/ Answered \/ Refused \/ TimedOut \/ Cancel
  \/ \E d \in Dirs : ActSkipped(d) \/ ActAgain(d) \/ ActQuarantine(d)

Network == Deliver \/ \E r \in late : DeliverLate(r)

Trouble ==
  \/ \E outcome \in {"refused", "none"} : Lose(outcome)
  \/ LoseAnswer \/ Crash
  \/ \E r \in late : LoseLate(r)

World ==
  \/ \E d \in Dirs : Drop(d) \/ Vanish(d) \/ RollBack(d)
  \/ StopRequested

Next == Process \/ Network \/ Trouble \/ World

Spec == Init /\ [][Next]_vars

\* The timer fires again, the process goes on, and what is neither lost nor
\* refused arrives: a push ends by its timeout at the latest.
FairSpec == Spec /\ WF_vars(Process) /\ WF_vars(Deliver) /\ WF_vars(Network)

-----------------------------------------------------------------------------
(* Properties *)

\* Every variable has its type; there is a request exactly while one is to be
\* sent or awaited.
TypeOK ==
  /\ privileged \in BOOLEAN /\ stop \in BOOLEAN
  /\ kit \subseteq Dirs /\ locked \subseteq kit
  /\ pc \in {"down", "act", "send", "wait"}
  /\ blind \subseteq found /\ todo \subseteq found /\ found \subseteq Dirs
  /\ sum \in RunSummary
  /\ request \in Request \cup {NoRequest} /\ late \subseteq Request
  /\ request # NoRequest <=> pc \in {"send", "wait"}
  /\ answer \in {"none", "pending", "ok", "refused"}
  /\ {applied, alerts, failed, cut} \subseteq [Dirs -> Nat]
  /\ heard \subseteq Dirs
  /\ moves \in 0..MaxMoves /\ faults \in 0..MaxFaults /\ crashes \in 0..MaxCrashes

\* Match alerts for a directory that may still appear on the phone.
UnderWay(d) ==
  (IF Match(d) \in late THEN 1 ELSE 0)
    + (IF d \in Pushing /\ (pc = "send" \/ answer = "pending") THEN 1 ELSE 0)

\* The phone never shows more match alerts for a directory than it was
\* quarantined: pushes that time out and arrive late, ticks that meet the
\* directory again and restarts do not repeat one (output.rs: no retry).
AlertedOncePerQuarantine == \A d \in Dirs : alerts[d] + UnderWay(d) <= applied[d]

\* No quarantine is passed over in silence: its alert is on the phone or under
\* way, or the journal has the failure of its push, or a stop or kill cut it off
\* (ntfy_push: the journal captures the failure regardless of the caller).
SilenceIsLogged ==
  \A d \in Dirs :
    applied[d] <= alerts[d] + failed[d] + cut[d]
                    + (IF d \in Pushing /\ answer # "ok" THEN 1 ELSE 0)

\* A push that fails ends no poll: without a stop or a kill the process goes on
\* until every candidate is acted on and the summary is sent.
PollGoesOn ==
  [][ pc # "down" /\ pc' = "down" /\ ~stop /\ crashes' = crashes
        => todo = {} /\ Pushing = {} ]_vars

\* The operator hears of every directory that stays at 000 and within the scan window
\* (Vanish also takes one out of it): by its own alert, or, when that is lost, by the
\* later summaries, none of which may be an Info.
OperatorHears ==
  \A d \in Dirs : d \in locked \ heard ~> d \in heard \/ d \notin locked

-----------------------------------------------------------------------------
(* What the documents say and the code does not do *)

\* output.rs: the daemon does not retry inside one poll cycle; the next poll
\* retries: the alert of a quarantine that stays in place gets through.
NextPollRetries ==
  \A d \in Dirs :
    d \in locked /\ alerts[d] < applied[d] ~> alerts[d] = applied[d] \/ d \notin locked
=============================================================================
