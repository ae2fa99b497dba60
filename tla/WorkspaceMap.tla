---------------------------- MODULE WorkspaceMap ----------------------------
(***************************************************************************)
(* What the workspaces store promises: a bounded map that changes one      *)
(* entry at a time, that clients only ever read in a committed version,    *)
(* and that a power failure takes back at most to a version committed      *)
(* since the last time the map was settled on disk.                        *)
(***************************************************************************)
EXTENDS Naturals, FiniteSets

CONSTANTS Id, Content, None, MaxWorkspaces

Version == [Id -> Content \union {None}]
Size(map) == Cardinality({i \in Id : map[i] # None})

VARIABLES
    value,     \* the committed version
    fallback,  \* versions a power failure may bring back
    shown      \* the version the last reader was given

vars == <<value, fallback, shown>>

Empty == [i \in Id |-> None]

Init == value = Empty /\ fallback = {Empty} /\ shown = Empty

Commit ==
    /\ \E i \in Id, content \in Content \union {None} :
          value' = [value EXCEPT ![i] = content]
    /\ Size(value') <= MaxWorkspaces
    /\ fallback' = fallback \union {value'}
    /\ UNCHANGED shown

Settle == fallback' = {value} /\ UNCHANGED <<value, shown>>

Read == shown' = value /\ UNCHANGED <<value, fallback>>

PowerFailure ==
    /\ value' \in fallback
    /\ fallback' = {value'}
    /\ UNCHANGED shown

Next == Commit \/ Settle \/ Read \/ PowerFailure

Spec == Init /\ [][Next]_vars

=============================================================================
