-------------------------- MODULE MCWorkspaceSync --------------------------
(* Small sets of workspaces: negative numbers cannot be written in a cfg.  *)
EXTENDS WorkspaceSync

MCIds == {-1, 1, 2}
MCTwoNormal == {1, 2}
=============================================================================
