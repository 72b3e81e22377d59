------------------------------- MODULE MCWait -------------------------------
(***************************************************************************)
(* Waits of a build, for TLC.                                              *)
(***************************************************************************)
EXTENDS InterruptibleWait

(* An upload, the wait for the boot (no Predicate), and one more. *)
BuildWaits == <<TRUE, FALSE, TRUE>>
=============================================================================
