------------------------------- MODULE MCWatch -------------------------------
(* Two clusters for the runs of Watch.                                       *)
EXTENDS Watch

CONSTANTS a, b
=============================================================================
