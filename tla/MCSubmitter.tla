----------------------------- MODULE MCSubmitter -----------------------------
(***************************************************************************)
(* Small instances of Submitter for TLC.                                   *)
(***************************************************************************)
EXTENDS SubmitterCalls

CONSTANTS f1, f2

MCFibers     == {f1, f2}
MCOpErrors   == {"EINTR"}
MCLostTimer  == {"ENOENT"}

=============================================================================
