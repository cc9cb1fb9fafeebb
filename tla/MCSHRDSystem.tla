---------------------------- MODULE MCSHRDSystem ----------------------------
(***************************************************************************)
(* The model of SHRDSystem for TLC.                                        *)
(***************************************************************************)
EXTENDS SHRDSystem, TLC

\* Versions are only compared, and no property of the runs is a liveness property.
Versions == Permutations(Version)
=============================================================================
