------------------------------ MODULE LiveFeed ------------------------------
(***************************************************************************)
(* What a live subscription promises about the rows it is offered: every   *)
(* batch has one fate.  It is queued and then shown, in the order its      *)
(* source read it, or it is counted as skipped and the count is reported   *)
(* once, at most.  A counted batch is never shown and a shown batch is     *)
(* never counted: the viewer can add the two numbers up.                   *)
(***************************************************************************)
EXTENDS Naturals

CONSTANTS Source, Subscriber, MaxBatches

Batch == Source \X (1 .. MaxBatches)

Fates == {"unseen", "queued", "shown", "counted", "reporting", "told", "unreported"}

VARIABLE fate   \* what became of each batch at each subscriber

Init == fate = [s \in Subscriber |-> [b \in Batch |-> "unseen"]]

Move(s, bs, to) ==
    fate' = [fate EXCEPT ![s] = [b \in Batch |-> IF b \in bs THEN to ELSE @[b]]]

With(s, f) == {b \in Batch : fate[s][b] = f}

Earlier(b, c) == b[1] = c[1] /\ b[2] < c[2]

(* A source offers its batches in order.                                   *)
Offer(s, b) ==
    /\ fate[s][b] = "unseen"
    /\ \A c \in Batch : Earlier(b, c) => fate[s][c] = "unseen"
    /\ \E f \in {"queued", "counted"} : Move(s, {b}, f)

Show(s, b) ==
    /\ fate[s][b] = "queued"
    /\ \A c \in Batch : Earlier(c, b) => fate[s][c] # "queued"
    /\ Move(s, {b}, "shown")

(* A resume takes everything that has been counted so far, and then tells  *)
(* the viewer source by source, unless the viewer cannot be told.          *)
Take(s) == Move(s, With(s, "counted"), "reporting")

Tell(s, src) ==
    \E bs \in SUBSET {b \in With(s, "reporting") : b[1] = src} :
        \E f \in {"told", "unreported"} : Move(s, bs, f)

Next ==
    \E s \in Subscriber :
        \/ \E b \in Batch : Offer(s, b) \/ Show(s, b)
        \/ Take(s)
        \/ \E src \in Source : Tell(s, src)

Spec == Init /\ [][Next]_fate

=============================================================================
