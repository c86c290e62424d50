-------------------------- MODULE MCFolderBinding --------------------------
(* A small instance of FolderBinding for TLC.                              *)
EXTENDS FolderBinding

CONSTANTS a1, a2, f1, f2, p1, p2
=============================================================================
