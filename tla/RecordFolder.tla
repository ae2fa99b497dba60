---------------------------- MODULE RecordFolder ----------------------------
(***************************************************************************)
(* The record folder of handlers/multiline.go, which imports and tailed    *)
(* sources feed with the lines they read, some at a time.                  *)
(***************************************************************************)
EXTENDS Naturals, Sequences, SequencesExt

(* JoinMultilineStrings over a held-back record and the lines after it: a  *)
(* line in opens starts a record, any other line continues the one before  *)
(* it, and the first line always starts one.                               *)
AddLine(records, line, opens) ==
    IF line \in opens \/ records = << >> THEN Append(records, <<line>>)
    ELSE [records EXCEPT ![Len(records)] = Append(@, line)]

Fold(held, lines, opens) ==
    LET records[n \in 0 .. Len(lines)] ==
          IF n = 0 THEN IF held = << >> THEN << >> ELSE <<held>>
          ELSE AddLine(records[n - 1], lines[n], opens)
    IN  records[Len(lines)]

\* Without a folder every line is a record.
Singletons(lines) == [i \in DOMAIN lines |-> <<lines[i]>>]

(* Feed holds the last record back.                                        *)
Closed(folding, held, lines, opens) ==
    IF folding THEN Front(Fold(held, lines, opens)) ELSE Singletons(lines)
HeldBack(folding, held, lines, opens) ==
    IF folding THEN Last(Fold(held, lines, opens)) ELSE held
=============================================================================
