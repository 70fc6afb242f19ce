----------------------------- MODULE Subsystem ------------------------------
(***************************************************************************)
(* What the scanner reads off one directory and what it does to it: entry  *)
(* collection, classification and quarantine of subsystem.rs, as operators *)
(* on the state of a directory. A directory is one inode; several paths    *)
(* may lead to it (overlapping scan roots, the diff/ and merged/ views of  *)
(* one container layer).                                                   *)
(***************************************************************************)
EXTENDS Naturals, FiniteSets

CONSTANTS
  Dirs,         \* directories that may appear under a scan root
  Files,        \* file slots of a directory
  Hashes,       \* SHA-256 values file contents can have
  NoFile,       \* an empty file slot
  MaxFiles,     \* allowlist.max_files_per_dir
  Privileged,   \* TRUE: the daemon bypasses permission bits (root with caps)
  Owned         \* directories owned by the daemon's own user

ASSUME SubsystemAssumption ==
  /\ NoFile \notin Hashes
  /\ MaxFiles \in Nat
  /\ Privileged \in BOOLEAN
  /\ Owned \subseteq Dirs
  /\ IsFiniteSet(Files)

\* Permission bits, as far as they matter: readable by everyone, readable by
\* the owner only (chmod 700), or 0o000.
Modes == {"shared", "private", "none"}

DirState ==
  [ live   : BOOLEAN,                      \* the directory exists
    mode   : Modes,
    recent : BOOLEAN,                      \* mtime inside the scan window
    file   : [Files -> Hashes \cup {NoFile}] ]

Absent == [live |-> FALSE, mode |-> "shared", recent |-> FALSE,
           file |-> [f \in Files |-> NoFile]]

FilesIn(s)    == {f \in Files : s.file[f] # NoFile}
ContentsOf(s) == {s.file[f] : f \in FilesIn(s)}

\* The permission check of open(2) and readdir(3) inside the directory.
Readable(d, s) ==
  Privileged \/ s.mode = "shared" \/ (s.mode = "private" /\ d \in Owned)

-----------------------------------------------------------------------------
(* Candidates *)

Candidate ==
  [entries : SUBSET Files, skip : {"absent", "none", "IoError", "TooManyFiles"}]

NoCandidate == [entries |-> {}, skip |-> "absent"]
IoError     == [entries |-> {}, skip |-> "IoError"]

\* collect_entries of a directory. Which files survive the truncation to
\* MaxFiles is not kept: a truncated candidate is skipped as a whole.
CollectEntries(d, s) ==
  IF ~Readable(d, s) THEN IoError
  ELSE [entries |-> FilesIn(s),
        skip    |-> IF Cardinality(FilesIn(s)) > MaxFiles
                      THEN "TooManyFiles" ELSE "none"]

-----------------------------------------------------------------------------
(* Decisions *)

Verdict ==
  [tag : {"pending", "Skipped", "Allowlisted", "IocMatch", "Unknown"},
   sha : Hashes \cup {NoFile}]

Plain(tag)  == [tag |-> tag, sha |-> NoFile]
IocMatch(h) == [tag |-> "IocMatch", sha |-> h]

\* hash_file succeeds on the entries that can still be opened.
Hashable(d, s, c) ==
  {f \in c.entries : s.live /\ Readable(d, s) /\ s.file[f] # NoFile}

\* The entries' hashes that are in the matcher; an entry that cannot be hashed
\* is only logged.
Hits(d, s, c, matcher) == {s.file[f] : f \in Hashable(d, s, c)} \cap matcher

\* classify, for a candidate of directory d. Which of several matching entries
\* comes first, and so which of the hits is reported, is left open.
Classify(d, s, c, allowed, matcher) ==
  LET hits == Hits(d, s, c, matcher) IN
  CASE c.skip # "none"                -> {Plain("Skipped")}
    [] c.skip = "none" /\ allowed     -> {Plain("Allowlisted")}
    [] c.skip = "none" /\ ~allowed /\ hits # {} -> {IocMatch(h) : h \in hits}
    [] OTHER                          -> {Plain("Unknown")}

-----------------------------------------------------------------------------
(* Quarantine *)

Outcomes == {"Applied", "AlreadyQuarantined", "Failed"}

\* quarantine: the stat pre-check, then set_permissions(0o000), which only the
\* owner or a privileged process may do.
Outcome(d, s) ==
  CASE ~s.live                                   -> "Failed"
    [] s.live /\ s.mode = "none"                 -> "AlreadyQuarantined"
    [] s.live /\ s.mode # "none"
       /\ (Privileged \/ d \in Owned)            -> "Applied"
    [] OTHER                                     -> "Failed"
=============================================================================
