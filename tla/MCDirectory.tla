---------------------------- MODULE MCDirectory ----------------------------
(***************************************************************************)
(* A small instance of Directory for TLC.                                  *)
(***************************************************************************)
EXTENDS Directory

\* A role that may change the directory, and one that may not.
OneOfEach == {"IDENTITY", "OBSERVER"}
=============================================================================
