---------------------------- MODULE MCPublishTask ----------------------------
(***************************************************************************)
(* Small instances of PublishTask for TLC.                                 *)
(***************************************************************************)
EXTENDS PublishTask, TLC

Symmetric == Permutations(Chains)
=============================================================================
