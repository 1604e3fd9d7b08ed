----------------------------- MODULE MCSudodevd -----------------------------
(* Instances of Sudodevd for TLC: one removable device and one local disk. *)
EXTENDS Sudodevd

CONSTANTS a, disk0
=============================================================================
