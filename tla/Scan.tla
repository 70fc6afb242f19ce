-------------------------------- MODULE Scan --------------------------------
(***************************************************************************)
(* What one poll finds in a tree of directories, and in which order it     *)
(* acts on it: the recursive walks of subsystem.rs (scan roots of the      *)
(* host) and overlay.rs (tmp/ of a container layer), the quarantine of     *)
(* what they find, and polls that follow on one another. A quarantine      *)
(* changes what the next one, and the next walk, can reach.                *)
(*                                                                         *)
(* The trees stand still during a poll; Runtime has the interleavings, on  *)
(* flat directories. Nodes are numbered so that a directory comes after    *)
(* its parent and siblings come in the order of their names.               *)
(***************************************************************************)
EXTENDS Naturals, FiniteSets, SequencesExt

CONSTANTS
  N,                \* directories are 1..N
  Host,             \* a scan root of the host
  Tmp,              \* tmp/ of a container layer
  ScanMaxDepth,     \* paths.scan_maxdepth
  OverlayMaxDepth,  \* paths.overlay_scan.maxdepth
  DotdirOnly,       \* paths.overlay_scan.dotdir_only
  MaxMoves          \* bound: changes on the host

ASSUME ScanAssumption ==
  /\ N \in Nat /\ MaxMoves \in Nat
  /\ Host # Tmp /\ {Host, Tmp} \cap (1..N) = {}
  /\ ScanMaxDepth \in 0..3 /\ OverlayMaxDepth \in 0..3
  /\ DotdirOnly \in BOOLEAN

Nodes == 1..N

\* A basename: no leading dot; a dot and a lower-case letter, allowlisted or not;
\* a dot and something else; or one that is not UTF-8.
Looks == {"plain", "dot", "allowed", "Dot", "raw"}

\* A candidate: its directory, the view it was reached through, and what
\* walk_decision_pipeline says of it.
Views == {"host", "diff", "merged"}
Found == [at : Nodes, view : Views, verdict : {"Skipped", "Allowlisted", "IocMatch", "Unknown"}]

VARIABLES
  (* the host *)
  parent,   \* [Nodes -> Nodes \cup {Host, Tmp}]
  look,     \* [Nodes -> Looks]
  fresh,    \* host directories whose mtime is in the scan window
  kit,      \* directories with a file of the IOC list
  locked,   \* directories at 000
  running,  \* the container runs: the layer is seen through merged/ as well
  (* the process *)
  privileged, \* it bypasses permission bits
  pc,       \* "idle" or "act"
  found,    \* Seq(Found): what the walks found
  next,     \* the candidate to be acted on
  (* bound *)
  moves

\* What no action changes.
fixed == <<parent, look, kit, privileged>>
vars == <<fixed, fresh, locked, running, pc, found, next, moves>>

-----------------------------------------------------------------------------
(* The tree *)

\* Proper ancestors of a directory, the root it is below, and its depth there.
Above == LET above[n \in Nodes] ==
               IF parent[n] \in Nodes THEN {parent[n]} \cup above[parent[n]] ELSE {}
         IN above
Below(n)  == {m \in Nodes : n \in Above[m]}
RootOf(n) == parent[CHOOSE a \in Above[n] \cup {n} : parent[a] \notin Nodes]
Depth(n)  == Cardinality(Above[n]) + 1

\* What f finds in the directories of a directory or root, one after the other.
OverChildren(d, f) == FlattenSeq([n \in Nodes |-> IF parent[n] = d THEN f[n] ELSE <<>>])

Dotdir(n)   == look[n] \in {"dot", "allowed", "Dot"}
Readable(n) == privileged \/ n \notin locked

\* classify, for a directory that was reached: without its entries it is skipped.
Verdict(n) ==
  CASE ~Readable(n)                       -> "Skipped"
    [] Readable(n) /\ look[n] = "allowed" -> "Allowlisted"
    [] OTHER -> IF n \in kit THEN "IocMatch" ELSE "Unknown"

Emit(n, view) == <<[at |-> n, view |-> view, verdict |-> Verdict(n)]>>

-----------------------------------------------------------------------------
(* The host: walk, walk_recursive *)

\* Mutant: an unreadable directory is left out.
BlindSilent(n) == <<>>

\* A directory that is descended into and cannot be read becomes a candidate,
\* to be counted as skipped.
Blind(n) == Emit(n, "host")

\* A recent dotdir ends the descent, an old one does not; a name that is not UTF-8
\* ends it without a trace. deeper is what visits one level further down find. The
\* order is the one of the final sort by path.
HostVisit(n, depth, deeper) ==
  CASE look[n] = "raw"           -> <<>>
    [] Dotdir(n) /\ n \in fresh  -> Emit(n, "host")
    [] OTHER ->
         IF depth >= ScanMaxDepth THEN <<>>
         ELSE IF ~Readable(n) THEN Blind(n) ELSE OverChildren(n, deeper)

WalkHost ==
  LET visit[depth \in 0..ScanMaxDepth] ==
        [n \in Nodes |-> HostVisit(n, depth, visit[depth + 1])]
  IN IF ScanMaxDepth = 0 THEN <<>> ELSE OverChildren(Host, visit[1])

-----------------------------------------------------------------------------
(* The container layer: walk_all_overlays, walk_overlay, walk_overlay_recursive *)

\* Mutant: the depth of the top level is not counted.
LocalDepthFull == OverlayMaxDepth

LocalDepth == OverlayMaxDepth - 1

\* Mutant: the parent is emitted before its children.
WithChildrenLast(n, view, children) == Emit(n, view) \o children

\* Mutant: only the innermost directories are candidates.
WithChildrenOnly(n, view, children) ==
  IF children = <<>> THEN Emit(n, view) ELSE children

\* The directory itself comes after what is below it.
WithChildren(n, view, children) == children \o Emit(n, view)

\* is_lowercase_dotdir and the allowlist, for an entry of tmp/ only.
Top(n) ==
  /\ look[n] \notin {"raw", "allowed"}
  /\ DotdirOnly => look[n] = "dot"

OverlayVisit(n, depth, view, deeper) ==
  IF ~Readable(n) THEN <<>>
  ELSE WithChildren(n, view, IF depth < LocalDepth THEN OverChildren(n, deeper) ELSE <<>>)

WalkOverlay(view) ==
  LET visit[depth \in 0..LocalDepth] ==
        [n \in Nodes |-> OverlayVisit(n, depth, view, visit[depth + 1])]
  IN IF OverlayMaxDepth = 0 THEN <<>>
     ELSE OverChildren(Tmp, [n \in Nodes |-> IF Top(n) THEN visit[0][n] ELSE <<>>])

\* discover_layers: diff/ comes before merged/, which exists while the container runs.
WalkAllOverlays ==
  WalkOverlay("diff") \o IF running THEN WalkOverlay("merged") ELSE <<>>

-----------------------------------------------------------------------------
(* The poll *)

Init ==
  /\ parent \in {p \in [Nodes -> Nodes \cup {Host, Tmp}] :
                   \A n \in Nodes : p[n] \in Nodes => p[n] < n}
  /\ look \in [Nodes -> Looks]
  /\ kit \in SUBSET Nodes /\ locked = {}
  /\ fresh \in SUBSET {n \in Nodes : RootOf(n) = Host /\ Dotdir(n)}
  /\ running \in BOOLEAN /\ privileged \in BOOLEAN
  /\ pc = "idle" /\ found = <<>> /\ next = 1 /\ moves = 0

Walk ==
  /\ pc = "idle" /\ pc' = "act"
  /\ found' = WalkHost \o WalkAllOverlays /\ next' = 1
  /\ UNCHANGED <<fixed, fresh, locked, running, moves>>

\* quarantine: the path of a directory below one at 000 no longer leads to it. A
\* directory that is at 000 stays there (AlreadyQuarantined).
Quarantine(n) ==
  IF privileged \/ Above[n] \cap locked = {} THEN locked \cup {n} ELSE locked

Act ==
  /\ pc = "act" /\ next <= Len(found) /\ next' = next + 1
  /\ locked' = IF found[next].verdict = "IocMatch" THEN Quarantine(found[next].at)
               ELSE locked
  /\ UNCHANGED <<fixed, fresh, running, pc, found, moves>>

\* Mutant: the loop starts the next poll where this one ended.
FinishStale ==
  /\ pc = "act" /\ next > Len(found)
  /\ pc' = "idle" /\ found' = <<>>
  /\ UNCHANGED <<fixed, fresh, locked, running, next, moves>>

Finish ==
  /\ pc = "act" /\ next > Len(found)
  /\ pc' = "idle" /\ found' = <<>> /\ next' = 1
  /\ UNCHANGED <<fixed, fresh, locked, running, moves>>

-----------------------------------------------------------------------------
(* The host, between two polls *)

Move ==
  /\ pc = "idle" /\ moves < MaxMoves /\ moves' = moves + 1
  /\ UNCHANGED <<fixed, pc, found, next>>

Age(n) == n \in fresh /\ fresh' = fresh \ {n} /\ Move /\ UNCHANGED <<locked, running>>

\* The operator undoes a quarantine.
RollBack(n) == n \in locked /\ locked' = locked \ {n} /\ Move /\ UNCHANGED <<fresh, running>>

\* The container is started or stopped.
Toggle == running' = ~running /\ Move /\ UNCHANGED <<fresh, locked>>

Next ==
  \/ Walk \/ Act \/ Finish \/ Toggle
  \/ \E n \in Nodes : Age(n) \/ RollBack(n)

Spec == Init /\ [][Next]_vars

-----------------------------------------------------------------------------
(* Properties *)

\* Every variable has its type, and the loop over the candidates stays within them.
TypeOK ==
  /\ look \in [Nodes -> Looks] /\ kit \subseteq Nodes
  /\ \A n \in Nodes : parent[n] \in {Host, Tmp} \cup 1..(n - 1)
  /\ fresh \subseteq Nodes /\ locked \subseteq kit
  /\ running \in BOOLEAN /\ privileged \in BOOLEAN
  /\ pc \in {"idle", "act"}
  /\ found \in Seq(Found)
  /\ next \in 1..(Len(found) + 1)
  /\ moves \in 0..MaxMoves

\* What the walks reported when the poll began.
Walked(view) == {found[i].at : i \in {j \in DOMAIN found : found[j].view = view}}
JustWalked   == pc = "act" /\ next = 1

\* The host walk leaves no recent dotdir within its depth out in silence: it is a
\* candidate, or it is below one (a recent dotdir, or a directory that was reported
\* as unreadable), or below a name that is not UTF-8 (walk_recursive, CR-006).
NothingHiddenSilently ==
  JustWalked =>
    \A n \in fresh :
      Depth(n) <= ScanMaxDepth =>
        \/ ({n} \cup Above[n]) \cap Walked("host") # {}
        \/ \E a \in Above[n] : look[a] = "raw"

\* The overlay walk finds every directory within its depth, whatever its own name
\* and age, that is below or at an entry of tmp/ with a lower-case dotdir name, save
\* those at or below 000; with the container running, it finds each in both views
\* (walk_overlay_recursive: always emit the candidate).
LayerSearched ==
  JustWalked =>
    \A n \in Nodes :
      LET path == {n} \cup Above[n] IN
      /\ RootOf(n) = Tmp /\ Depth(n) <= OverlayMaxDepth
      /\ \E top \in path : parent[top] = Tmp /\ look[top] = "dot"
      /\ \A a \in path : Readable(a)
      => n \in Walked("diff") /\ (running => n \in Walked("merged"))

\* No candidate lies deeper below its root than the limit it was configured with
\* (ARCHITECTURE.md, invariant 6).
BoundedWalk ==
  JustWalked =>
    \A i \in DOMAIN found :
      Depth(found[i].at) <=
        IF found[i].view = "host" THEN ScanMaxDepth ELSE OverlayMaxDepth

\* When the poll ends, every directory in which it found a kit is at 000: none of
\* its own quarantines made a later one impossible, even with a directory and its
\* sub-directories all quarantined through two views.
AllContained ==
  pc = "act" /\ next > Len(found) =>
    \A i \in DOMAIN found : found[i].verdict = "IocMatch" => found[i].at \in locked

-----------------------------------------------------------------------------
(* What the documents say and the code does not do *)

\* The IOC contract: walk the candidate dotdir and hash each regular file; a match
\* quarantines the parent dotdir. So when the poll ends, a kit in a sub-directory of
\* a candidate, within the depth of the scan, is behind a directory at 000.
NestedKitContained ==
  pc = "act" /\ next > Len(found) =>
    \A i \in DOMAIN found : \A n \in Below(found[i].at) \cap kit :
      found[i].verdict = "Unknown" /\ Depth(n) <= ScanMaxDepth
        => ({n} \cup Above[n]) \cap locked # {}
=============================================================================
