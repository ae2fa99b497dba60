-------------------------- MODULE MCWorkspaceStore --------------------------
(* Small instances of WorkspaceStore for TLC.                              *)
EXTENDS WorkspaceStore, TLC

Symmetry == Permutations(Id) \union Permutations(Content)
=============================================================================
