--------------------------- MODULE MCSynapseJobs ---------------------------
(* A small instance of SynapseJobs: a nucleus job and a coverage job of one *)
(* build, which may overlap.                                                *)
EXTENDS SynapseJobs

CONSTANTS j1, j2, b1

MCBuildOf == [j \in Jobs |-> b1]
=============================================================================
