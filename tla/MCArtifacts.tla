------------------------------ MODULE MCArtifacts ------------------------------
(* A finite instance of Artifacts for TLC. *)
EXTENDS Artifacts
=============================================================================
