--------------------------- MODULE MCProposalFile ---------------------------
(***************************************************************************)
(* Instances of ProposalFile for TLC. Two directories have the key other,  *)
(* one of them below a directory with white space in its name; one has the *)
(* key plain; and one has white space in its own name, so that its line is *)
(* read back as plain.                                                     *)
(***************************************************************************)
EXTENDS ProposalFile, TLC

CONSTANTS plain, other, spaced, a, b, p, s

MCKeyOf ==
  [c \in Cands |-> CASE c \in {a, b} -> other [] c = p -> plain [] c = s -> spaced]

MCReadsAs == [k \in Keys |-> IF k = spaced THEN plain ELSE k]

MCShifted == Cands \cap {b, s}

MCWidth == [c \in Cands |-> IF c = a THEN 1 ELSE 2]

=============================================================================
