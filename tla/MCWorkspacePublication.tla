----------------------- MODULE MCWorkspacePublication -----------------------
(* Model values for checking WorkspacePublication with TLC. *)
EXTENDS WorkspacePublication, TLC
=============================================================================
