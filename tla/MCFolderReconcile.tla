-------------------------- MODULE MCFolderReconcile --------------------------
(***************************************************************************)
(* Two calls of the gateway for one repository.                            *)
(***************************************************************************)
EXTENDS FolderReconcile, TLC

CONSTANTS c1, c2

TwoCalls == {c1, c2}
=============================================================================
