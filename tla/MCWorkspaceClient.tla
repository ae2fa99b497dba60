------------------------- MODULE MCWorkspaceClient -------------------------
(* Small instances of WorkspaceClient for TLC.                             *)
EXTENDS WorkspaceClient

(* What another client writes: an absolute range, and all the columns.     *)
MCOther ==
    [id : Id, favorite : {FALSE},
     content : [time : [mode : {"absolute"}, relative : {None}, count : {None}, start : Start],
                columns : {Column}]]

IdSymmetry == Permutations(Id)
=============================================================================
