---------------------------- MODULE MCSearchView ----------------------------
(* Small instances of SearchView for TLC.                                  *)
EXTENDS SearchView

(* A workspace of each source alone, and one that names nothing.           *)
MCSaved ==
    [query : Word, range : {Relative}, sources : {{s} : s \in Source}, order : {"asc"}]
        \union [query : {Empty}, range : {Initial}, sources : {{}}, order : {"desc"}]

SourceSymmetry == Permutations(Source)
=============================================================================
