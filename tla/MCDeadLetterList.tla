-------------------------- MODULE MCDeadLetterList --------------------------
(***************************************************************************)
(* DeadLetterList on a small instance.                                     *)
(***************************************************************************)
EXTENDS DeadLetterList

CONSTANT s1
=============================================================================
