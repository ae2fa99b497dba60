-------------------------- MODULE MCPatternLibrary --------------------------
(* Small instances of PatternLibrary for TLC.                              *)
EXTENDS PatternLibrary, TLC

(* Two names that differ in case only, or not even in that.                *)
MCLower == [n \in Name |-> "x"]

(* One pattern with a configuration; one name twice; two names.            *)
MCFile ==
    LET Of(n, b, c) == [name |-> n, body |-> b, config |-> c]
    IN  {<<Of(n, b, c)>> : n \in Name, b \in Body, c \in Config}
        \union {<<Of(n, b, None), Of(m, b, None)>> : n, m \in Name, b \in Body}

NameSymmetry == Permutations(Name)
=============================================================================
