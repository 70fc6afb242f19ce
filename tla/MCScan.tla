------------------------------- MODULE MCScan -------------------------------
(***************************************************************************)
(* Instances of Scan for TLC: all trees of N directories below one scan    *)
(* root and the tmp/ of one container layer.                               *)
(***************************************************************************)
EXTENDS Scan
=============================================================================
