------------------------ MODULE IngestSessionProofs ------------------------
(***************************************************************************)
(* Theorems about IngestSession.                                           *)
(***************************************************************************)
EXTENDS IngestSession, Integers, SequenceTheorems, FiniteSetTheorems, WellFoundedInduction, TLAPS

-----------------------------------------------------------------------------
(* Induction over a set of numbers: the numbers are well ordered.          *)

LEMMA LeastNumber ==
    ASSUME NEW T, T \subseteq Nat, T # {}
    PROVE  \E n \in T : \A m \in T : n <= m
<1> DEFINE R == OpToRel(<, Nat)
<1>1. IsWellFoundedOn(R, Nat)
  BY NatLessThanWellFounded
<1>2. \A x, y \in Nat : <<y, x>> \in R <=> y < x
  BY DEF OpToRel
<1> HIDE DEF R
<1>3. PICK x \in T : \A y \in T : <<y, x>> \notin R
  BY <1>1, WFMin
<1>4. ASSUME NEW y \in T PROVE x <= y
  <2>1. x \in Nat /\ y \in Nat /\ <<y, x>> \notin R
    BY <1>3
  <2> QED
    BY <1>2, <2>1
<1> QED
  BY <1>4

LEMMA SetInduction ==
    ASSUME NEW T, T \subseteq Nat, 0 \in T, \A n \in T : n + 1 \in T
    PROVE  T = Nat
<1> SUFFICES ASSUME T # Nat PROVE FALSE
  OBVIOUS
<1>1. Nat \ T \subseteq Nat /\ Nat \ T # {}
  OBVIOUS
<1>2. PICK n \in Nat \ T : \A m \in Nat \ T : n <= m
  BY <1>1, LeastNumber
<1>3. n - 1 \in T
  BY <1>2
<1> QED
  BY <1>2, <1>3

-----------------------------------------------------------------------------
(* Runs of lines.                                                          *)

(* Lines that follow each other in the file, and the last of them.         *)
End(r) == r[1] + Len(r) - 1
Run(r) == r \in Seq(Line) /\ r # << >> /\ \A i \in 1 .. Len(r) : r[i] = r[1] + i - 1
Before(r, q) == End(r) < q[1]
Apart(r, q) == Before(r, q) \/ Before(q, r)

LEMMA LineIsNat == Line \subseteq Nat \ {0}
BY DEF Line

LEMMA RunLength ==
    ASSUME NEW r, Run(r)
    PROVE  /\ Len(r) \in Nat \ {0} /\ r[1] \in Line /\ r[1] \in Nat \ {0}
           /\ End(r) \in Line /\ End(r) \in Nat \ {0} /\ r[1] <= End(r) /\ r[Len(r)] = End(r)
<1>1. Len(r) \in Nat \ {0} /\ r[1] \in Line /\ r[Len(r)] \in Line
  <2>1. r \in Seq(Line) /\ r # << >>
    BY DEF Run
  <2>2. Len(r) \in Nat \ {0}
    BY <2>1, EmptySeq
  <2> QED
    BY <2>1, <2>2
<1>2. r[Len(r)] = End(r)
  BY <1>1, LineIsNat DEF Run, End
<1>3. r[1] \in Nat \ {0} /\ r[Len(r)] \in Nat \ {0}
  BY <1>1, LineIsNat
<1>4. r[1] <= End(r)
  BY <1>1, <1>3 DEF End
<1> QED
  BY <1>1, <1>2, <1>3, <1>4

LEMMA OneLineRun ==
    ASSUME NEW x \in Line
    PROVE  Run(<<x>>) /\ <<x>>[1] = x /\ End(<<x>>) = x /\ Len(<<x>>) = 1
BY LineIsNat DEF Run, End

(* A run with the next line is a run.                                      *)
LEMMA LongerRun ==
    ASSUME NEW r, Run(r), NEW x \in Line, x = End(r) + 1
    PROVE  Run(Append(r, x)) /\ Append(r, x)[1] = r[1] /\ End(Append(r, x)) = x
<1>1. /\ r \in Seq(Line) /\ Len(r) \in Nat \ {0} /\ r[1] \in Nat
      /\ \A i \in 1 .. Len(r) : r[i] = r[1] + i - 1
  BY RunLength DEF Run
<1> DEFINE q == Append(r, x)
<1>2. /\ q \in Seq(Line) /\ Len(q) = Len(r) + 1
      /\ \A i \in 1 .. Len(r) : q[i] = r[i]
      /\ q[Len(r) + 1] = x
  BY <1>1, AppendProperties
<1> HIDE DEF q
<1>3. x = r[1] + Len(r)
  BY <1>1 DEF End
<1>4. q[1] = r[1] /\ q # << >>
  BY <1>1, <1>2
<1>5. ASSUME NEW i \in 1 .. Len(q) PROVE q[i] = q[1] + i - 1
  BY <1>1, <1>2, <1>3, <1>4
<1>6. End(q) = x
  BY <1>1, <1>2, <1>3, <1>4 DEF End
<1> QED
  BY <1>2, <1>4, <1>5, <1>6 DEF q, Run

-----------------------------------------------------------------------------
(* The records a folder cuts lines into.                                   *)

InOrder(R) == \A k, l \in 1 .. Len(R) : k < l => Before(R[k], R[l])

(* R are the records of the lines a .. d, of which those from c on have    *)
(* been looked at: they are runs that follow each other, each but the      *)
(* first is opened by a line of opens, and no such line is inside of one.  *)
Cut(R, a, d, c, opens) ==
    /\ R \in Seq(Seq(Line)) /\ R # << >>
    /\ \A k \in 1 .. Len(R) : Run(R[k]) /\ a <= R[k][1] /\ End(R[k]) <= d
    /\ InOrder(R)
    /\ R[1][1] = a /\ End(R[Len(R)]) = d
    /\ \A k \in 2 .. Len(R) : R[k][1] \in opens /\ R[k][1] = End(R[k - 1]) + 1
    /\ \A k \in 1 .. Len(R) : \A x \in opens : R[k][1] < x /\ x <= End(R[k]) => x < c
    /\ \A x \in a .. d : \E k \in 1 .. Len(R) : R[k][1] <= x /\ x <= End(R[k])

(* A record that is there already.                                         *)
LEMMA OneRecordCut ==
    ASSUME NEW r, Run(r), NEW opens, NEW c, \A x \in opens : r[1] < x /\ x <= End(r) => x < c
    PROVE  Cut(<<r>>, r[1], End(r), c, opens)
<1> DEFINE R == <<r>>
<1>1. r \in Seq(Line) /\ r[1] \in Nat /\ End(r) \in Nat /\ r[1] <= End(r)
  BY RunLength DEF Run
<1>2. R \in Seq(Seq(Line)) /\ Len(R) = 1 /\ R[1] = r /\ R # << >>
  BY <1>1
<1> HIDE DEF R
<1>3. \A k \in 1 .. Len(R) : k = 1 /\ R[k] = r
  BY <1>2
<1>4. InOrder(R)
  BY <1>3 DEF InOrder
<1>5. \A x \in r[1] .. End(r) : \E k \in 1 .. Len(R) : R[k][1] <= x /\ x <= End(R[k])
  BY <1>1, <1>2
<1>6. 2 .. Len(R) = {}
  BY <1>2
<1>7. Cut(R, r[1], End(r), c, opens)
  BY <1>1, <1>2, <1>3, <1>4, <1>5, <1>6 DEF Cut
<1> QED
  BY <1>7 DEF R

(* What a sequence is that one more element is put after.                  *)
Appends(q, s, e) ==
    /\ q # << >> /\ Len(q) = Len(s) + 1
    /\ \A k \in 1 .. Len(s) : q[k] = s[k]
    /\ q[Len(s) + 1] = e

LEMMA Appended ==
    ASSUME NEW S, NEW s \in Seq(S), NEW e \in S
    PROVE  Append(s, e) \in Seq(S) /\ Appends(Append(s, e), s, e)
  BY AppendProperties DEF Appends

(* A line that opens a record.                                             *)
LEMMA OpenedCut ==
    ASSUME NEW R, NEW a \in Nat, NEW d \in Nat, NEW c \in Nat, NEW opens,
           opens \subseteq Line, Cut(R, a, d, c, opens), d + 1 \in Line, d + 1 \in opens
    PROVE  Cut(Append(R, <<d + 1>>), a, d + 1, c, opens)
<1> DEFINE x == d + 1
           n == Len(R)
           Q == Append(R, <<x>>)
<1>1. Run(<<x>>) /\ <<x>>[1] = x /\ End(<<x>>) = x /\ <<x>> \in Seq(Line)
  BY OneLineRun DEF Run
<1>2. R \in Seq(Seq(Line)) /\ n \in Nat \ {0}
  BY EmptySeq DEF Cut
<1>3. /\ Q \in Seq(Seq(Line)) /\ Q # << >> /\ Len(Q) = n + 1
      /\ \A k \in 1 .. n : Q[k] = R[k]
      /\ Q[n + 1] = <<x>>
  <2>1. Appends(Append(R, <<x>>), R, <<x>>) /\ Append(R, <<x>>) \in Seq(Seq(Line))
    BY <1>1, <1>2, Appended
  <2> QED
    BY <2>1 DEF Appends
<1>4. \A k \in 1 .. n : Run(R[k]) /\ a <= R[k][1] /\ End(R[k]) <= d /\ End(R[k]) \in Nat
  BY RunLength DEF Cut
<1>5. a <= d /\ x \in Nat /\ d < x
  <2>1. R[1][1] = a /\ End(R[1]) <= d /\ Run(R[1])
    BY <1>2, <1>4 DEF Cut
  <2>2. a <= End(R[1]) /\ End(R[1]) \in Nat
    BY <2>1, RunLength
  <2> QED
    BY <2>1, <2>2
<1>6. R[1][1] = a /\ End(R[n]) = d
  BY DEF Cut
<1>7. \A k, l \in 1 .. n : k < l => Before(R[k], R[l])
  BY DEF Cut, InOrder
<1>8. \A k \in 2 .. n : R[k][1] \in opens /\ R[k][1] = End(R[k - 1]) + 1
  BY DEF Cut
<1>9. \A k \in 1 .. n : \A y \in opens : R[k][1] < y /\ y <= End(R[k]) => y < c
  BY DEF Cut
<1>10. \A y \in a .. d : \E k \in 1 .. n : R[k][1] <= y /\ y <= End(R[k])
  BY DEF Cut
<1> HIDE DEF Q, x, n
<1>11. \A k \in 1 .. Len(Q) : k \in 1 .. n \/ k = n + 1
  BY <1>2, <1>3
<1>12. ASSUME NEW k \in 1 .. Len(Q) PROVE Run(Q[k]) /\ a <= Q[k][1] /\ End(Q[k]) <= x
  <2>1. CASE k \in 1 .. n
    <3>1. Q[k] = R[k]
      BY <1>3, <2>1
    <3>2. Run(R[k]) /\ a <= R[k][1] /\ End(R[k]) <= d /\ End(R[k]) \in Nat
      BY <1>4, <2>1
    <3> QED
      BY <1>5, <3>1, <3>2
  <2>2. CASE k = n + 1
    BY <1>1, <1>3, <1>5, <2>2
  <2> QED
    BY <1>11, <2>1, <2>2
<1>13. InOrder(Q)
  <2> SUFFICES ASSUME NEW k \in 1 .. Len(Q), NEW l \in 1 .. Len(Q), k < l
               PROVE  Before(Q[k], Q[l])
    BY DEF InOrder
  <2>1. k \in 1 .. n
    BY <1>2, <1>3
  <2>2. CASE l \in 1 .. n
    BY <1>3, <1>7, <2>1, <2>2
  <2>3. CASE l = n + 1
    <3>1. Q[l] = <<x>> /\ Q[k] = R[k] /\ End(R[k]) <= d /\ End(R[k]) \in Nat
      BY <1>3, <1>4, <2>1, <2>3
    <3> QED
      BY <1>1, <1>5, <3>1 DEF Before
  <2> QED
    BY <1>11, <2>2, <2>3
<1>14. Q[1][1] = a /\ End(Q[Len(Q)]) = x
  BY <1>1, <1>2, <1>3, <1>6
<1>15. ASSUME NEW k \in 2 .. Len(Q) PROVE Q[k][1] \in opens /\ Q[k][1] = End(Q[k - 1]) + 1
  <2>1. CASE k \in 2 .. n
    <3>1. Q[k] = R[k] /\ Q[k - 1] = R[k - 1]
      BY <1>2, <1>3, <2>1
    <3> QED
      BY <1>8, <2>1, <3>1
  <2>2. CASE k = n + 1
    <3>1. Q[k] = <<x>> /\ Q[k - 1] = R[n] /\ End(R[n]) + 1 = x
      BY <1>2, <1>3, <1>6, <2>2 DEF x
    <3> QED
      BY <1>1, <3>1 DEF x
  <2> QED
    BY <1>2, <1>3, <2>1, <2>2
<1>16. ASSUME NEW k \in 1 .. Len(Q), NEW y \in opens, Q[k][1] < y, y <= End(Q[k])
       PROVE  y < c
  <2>1. CASE k \in 1 .. n
    <3>1. Q[k] = R[k]
      BY <1>3, <2>1
    <3> QED
      BY <1>9, <1>16, <2>1, <3>1
  <2>2. CASE k = n + 1
    <3>1. Q[k][1] = x /\ End(Q[k]) = x /\ y \in Nat
      BY <1>1, <1>3, <2>2, LineIsNat
    <3> QED
      BY <1>5, <1>16, <3>1
  <2> QED
    BY <1>11, <2>1, <2>2
<1>17. ASSUME NEW y \in a .. x PROVE \E k \in 1 .. Len(Q) : Q[k][1] <= y /\ y <= End(Q[k])
  <2>1. CASE y \in a .. d
    <3>1. PICK k \in 1 .. n : R[k][1] <= y /\ y <= End(R[k])
      BY <1>10, <2>1
    <3>2. k \in 1 .. Len(Q) /\ Q[k] = R[k]
      BY <1>2, <1>3
    <3> QED
      BY <3>1, <3>2
  <2>2. CASE y = x
    <3>1. n + 1 \in 1 .. Len(Q)
      BY <1>2, <1>3
    <3>2. Q[n + 1][1] = x /\ End(Q[n + 1]) = x
      BY <1>1, <1>3
    <3> QED
      BY <1>5, <2>2, <3>1, <3>2
  <2> QED
    BY <1>5, <2>1, <2>2 DEF x
<1>18. Cut(Q, a, x, c, opens)
  BY <1>3, <1>12, <1>13, <1>14, <1>15, <1>16, <1>17 DEF Cut
<1> QED
  BY <1>18 DEF Q, x

(* A line that continues the last record.                                  *)
LEMMA ContinuedCut ==
    ASSUME NEW R, NEW a \in Nat, NEW d \in Nat, NEW c \in Nat, NEW opens,
           opens \subseteq Line, Cut(R, a, d, c, opens), d + 1 \in Line, d + 1 \notin opens
    PROVE  Cut([R EXCEPT ![Len(R)] = Append(@, d + 1)], a, d + 1, c, opens)
<1> DEFINE x == d + 1
           n == Len(R)
           Q == [R EXCEPT ![n] = Append(@, x)]
<1>1. R \in Seq(Seq(Line)) /\ n \in Nat \ {0}
  BY EmptySeq DEF Cut
<1>2. \A k \in 1 .. n : Run(R[k]) /\ a <= R[k][1] /\ End(R[k]) <= d /\ End(R[k]) \in Nat
                        /\ R[k][1] \in Nat /\ R[k][1] <= End(R[k])
  BY RunLength DEF Cut
<1>3. R[1][1] = a /\ End(R[n]) = d
  BY DEF Cut
<1>4. \A k, l \in 1 .. n : k < l => Before(R[k], R[l])
  BY DEF Cut, InOrder
<1>5. \A k \in 2 .. n : R[k][1] \in opens /\ R[k][1] = End(R[k - 1]) + 1
  BY DEF Cut
<1>6. \A k \in 1 .. n : \A y \in opens : R[k][1] < y /\ y <= End(R[k]) => y < c
  BY DEF Cut
<1>7. \A y \in a .. d : \E k \in 1 .. n : R[k][1] <= y /\ y <= End(R[k])
  BY DEF Cut
<1>8. x \in Nat /\ d < x /\ x \in Line /\ x \notin opens /\ x = d + 1
  OBVIOUS
<1> HIDE DEF x
<1> DEFINE q == Append(R[n], x)
<1>9. Run(q) /\ q[1] = R[n][1] /\ End(q) = x /\ q \in Seq(Line)
  <2>1. Run(R[n]) /\ x = End(R[n]) + 1
    BY <1>1, <1>2, <1>3, <1>8
  <2> QED
    BY <1>8, <2>1, LongerRun DEF Run
<1>10. Q = [k \in 1 .. n |-> IF k = n THEN q ELSE R[k]]
  <2>1. DOMAIN R = 1 .. n /\ n \in 1 .. n
    BY <1>1
  <2> QED
    BY <2>1 DEF q
<1> HIDE DEF q
<1>11. /\ Q \in Seq(Seq(Line)) /\ Q # << >> /\ Len(Q) = n
       /\ \A k \in 1 .. n : k # n => Q[k] = R[k]
       /\ Q[n] = q
  <2>1. \A k \in 1 .. n : R[k] \in Seq(Line)
    BY <1>1
  <2>2. Q \in [1 .. n -> Seq(Line)]
    BY <1>9, <1>10, <2>1
  <2>3. Q \in Seq(Seq(Line)) /\ Len(Q) = n
    <3> HIDE DEF n, Q
    <3> QED
      BY <1>1, <2>2
  <2>4. n \in 1 .. n /\ Q[n] = q /\ \A k \in 1 .. n : k # n => Q[k] = R[k]
    <3> HIDE DEF n, Q
    <3> QED
      BY <1>1, <1>10
  <2> QED
    BY <1>1, <2>3, <2>4
<1> HIDE DEF Q, n
<1>12. \A k \in 1 .. n : Q[k][1] = R[k][1] /\ End(R[k]) <= End(Q[k]) /\ End(Q[k]) <= x /\ Run(Q[k])
  <2> SUFFICES ASSUME NEW k \in 1 .. n
               PROVE  Q[k][1] = R[k][1] /\ End(R[k]) <= End(Q[k]) /\ End(Q[k]) <= x /\ Run(Q[k])
    OBVIOUS
  <2>1. CASE k = n
    BY <1>3, <1>8, <1>9, <1>11, <2>1
  <2>2. CASE k # n
    <3>1. Q[k] = R[k]
      BY <1>11, <2>2
    <3>2. Run(R[k]) /\ End(R[k]) <= d /\ End(R[k]) \in Nat
      BY <1>2
    <3> QED
      BY <1>8, <3>1, <3>2
  <2> QED
    BY <2>1, <2>2
<1>13. InOrder(Q)
  <2> SUFFICES ASSUME NEW k \in 1 .. n, NEW l \in 1 .. n, k < l
               PROVE  Before(Q[k], Q[l])
    BY <1>11 DEF InOrder
  <2>1. k # n /\ Before(R[k], R[l])
    BY <1>1, <1>4
  <2>2. Q[k] = R[k] /\ Q[l][1] = R[l][1]
    BY <1>11, <1>12, <2>1
  <2> QED
    BY <2>1, <2>2 DEF Before
<1>14. Q[1][1] = a /\ End(Q[Len(Q)]) = x
  <2>1. 1 \in 1 .. n
    BY <1>1
  <2> QED
    BY <1>3, <1>9, <1>11, <1>12, <2>1
<1>15. ASSUME NEW k \in 2 .. n PROVE Q[k][1] \in opens /\ Q[k][1] = End(Q[k - 1]) + 1
  <2>1. k \in 1 .. n /\ k - 1 \in 1 .. n /\ k - 1 # n
    BY <1>1
  <2>2. Q[k][1] = R[k][1] /\ Q[k - 1] = R[k - 1]
    BY <1>11, <1>12, <2>1
  <2> QED
    BY <1>5, <2>2
<1>16. ASSUME NEW k \in 1 .. n, NEW y \in opens, Q[k][1] < y, y <= End(Q[k])
       PROVE  y < c
  <2>1. Q[k][1] = R[k][1] /\ y \in Nat /\ y # x
    BY <1>8, <1>12, LineIsNat
  <2>2. CASE k = n
    <3>1. y <= d
      BY <1>8, <1>9, <1>11, <1>16, <2>1, <2>2
    <3> QED
      BY <1>3, <1>6, <1>16, <2>1, <2>2, <3>1
  <2>3. CASE k # n
    BY <1>6, <1>11, <1>16, <2>3
  <2> QED
    BY <2>2, <2>3
<1>17. ASSUME NEW y \in a .. x PROVE \E k \in 1 .. n : Q[k][1] <= y /\ y <= End(Q[k])
  <2>1. CASE y \in a .. d
    <3>1. PICK k \in 1 .. n : R[k][1] <= y /\ y <= End(R[k])
      BY <1>7, <2>1
    <3>2. Q[k][1] = R[k][1] /\ End(R[k]) <= End(Q[k]) /\ End(R[k]) \in Nat /\ End(Q[k]) \in Nat
      BY <1>2, <1>12, RunLength
    <3>3. Q[k][1] <= y /\ y <= End(Q[k])
      BY <3>1, <3>2
    <3> QED
      BY <3>3
  <2>2. CASE y = x
    <3>1. n \in 1 .. n /\ R[n][1] <= End(R[n]) /\ R[n][1] \in Nat
      BY <1>1, <1>2
    <3>2. Q[n][1] = R[n][1] /\ End(Q[n]) = x
      BY <1>9, <1>11
    <3> QED
      BY <1>3, <1>8, <2>2, <3>1, <3>2
  <2> QED
    BY <1>8, <2>1, <2>2
<1>18. \A k \in 1 .. n : a <= Q[k][1]
  BY <1>2, <1>12
<1>19. Cut(Q, a, x, c, opens)
  BY <1>11, <1>12, <1>13, <1>14, <1>15, <1>16, <1>17, <1>18 DEF Cut
<1> QED
  BY <1>19 DEF Q, n, x

LEMMA AddedCut ==
    ASSUME NEW R, NEW a \in Nat, NEW d \in Nat, NEW c \in Nat, NEW opens,
           opens \subseteq Line, Cut(R, a, d, c, opens), d + 1 \in Line
    PROVE  Cut(AddLine(R, d + 1, opens), a, d + 1, c, opens)
<1>1. R # << >>
  BY DEF Cut
<1>2. CASE d + 1 \in opens
  BY <1>2, OpenedCut DEF AddLine
<1>3. CASE d + 1 \notin opens
  BY <1>1, <1>3, ContinuedCut DEF AddLine
<1> QED
  BY <1>2, <1>3

(* The recursive function of Fold: what it is at n, and that it exists.    *)
FoldAt(held, lines, opens, f, n) ==
    IF n = 0 THEN IF held = << >> THEN << >> ELSE <<held>>
    ELSE AddLine(f[n - 1], lines[n], opens)

Folds(held, lines, opens, f, n) == f = [m \in 0 .. n |-> FoldAt(held, lines, opens, f, m)]

LEMMA FoldExists ==
    ASSUME NEW held, NEW lines, NEW opens
    PROVE  \A n \in Nat : \E f : Folds(held, lines, opens, f, n)
<1> DEFINE T == {n \in Nat : \E f : Folds(held, lines, opens, f, n)}
<1>1. 0 \in T
  <2> DEFINE f == [m \in 0 .. 0 |-> IF held = << >> THEN << >> ELSE <<held>>]
  <2>1. Folds(held, lines, opens, f, 0)
    BY DEF Folds, FoldAt
  <2> QED
    BY <2>1
<1>2. ASSUME NEW n \in T PROVE n + 1 \in T
  <2>1. PICK f : Folds(held, lines, opens, f, n)
    OBVIOUS
  <2> DEFINE g == [m \in 0 .. n + 1 |-> IF m <= n THEN f[m] ELSE AddLine(f[n], lines[n + 1], opens)]
  <2>2. n \in Nat
    OBVIOUS
  <2>3. \A m \in 0 .. n : g[m] = f[m]
    BY <2>2
  <2>4. g[n + 1] = AddLine(f[n], lines[n + 1], opens)
    BY <2>2
  <2>5. \A m \in 0 .. n : f[m] = FoldAt(held, lines, opens, f, m)
    BY <2>1 DEF Folds
  <2>6. DOMAIN g = 0 .. n + 1 /\ g = [m \in 0 .. n + 1 |-> g[m]]
    OBVIOUS
  <2> HIDE DEF g
  <2>7. ASSUME NEW m \in 0 .. n + 1 PROVE g[m] = FoldAt(held, lines, opens, g, m)
    <3>1. CASE m = 0
      BY <2>2, <2>3, <2>5, <3>1 DEF FoldAt
    <3>2. CASE m \in 1 .. n
      <4>1. m - 1 \in 0 .. n /\ m \in 0 .. n /\ m # 0
        BY <2>2, <3>2
      <4>2. g[m] = f[m] /\ g[m - 1] = f[m - 1]
        BY <2>3, <4>1
      <4> QED
        BY <2>5, <4>1, <4>2 DEF FoldAt
    <3>3. CASE m = n + 1
      <4>1. m - 1 = n /\ m # 0 /\ g[n] = f[n]
        BY <2>2, <2>3, <3>3
      <4> QED
        BY <2>4, <3>3, <4>1 DEF FoldAt
    <3> QED
      BY <2>2, <3>1, <3>2, <3>3
  <2>8. Folds(held, lines, opens, g, n + 1)
    BY <2>6, <2>7 DEF Folds
  <2> QED
    BY <2>2, <2>8
<1> HIDE DEF T
<1>3. T = Nat
  <2>1. T \subseteq Nat
    BY DEF T
  <2> QED
    BY <1>1, <1>2, <2>1, SetInduction
<1> QED
  BY <1>3 DEF T

LEMMA FoldUnfolds ==
    ASSUME NEW held, NEW lines, NEW opens, Len(lines) \in Nat
    PROVE  \E f : Folds(held, lines, opens, f, Len(lines)) /\ Fold(held, lines, opens) = f[Len(lines)]
<1> DEFINE P(g) == g = [n \in 0 .. Len(lines) |-> FoldAt(held, lines, opens, g, n)]
           f == CHOOSE g : P(g)
<1>1. Fold(held, lines, opens) = f[Len(lines)]
  BY Zenon DEF Fold, FoldAt
<1>2. \E g : P(g)
  <2>1. PICK g : Folds(held, lines, opens, g, Len(lines))
    BY FoldExists
  <2>2. P(g)
    BY <2>1 DEF Folds
  <2> HIDE DEF P
  <2> QED
    BY <2>2
<1> HIDE DEF P
<1>3. P(f)
  BY <1>2
<1> QED
  BY <1>1, <1>3 DEF P, Folds

(* What a folder makes of a record it held back and of the lines after it. *)
LEMMA FoldCuts ==
    ASSUME NEW held, NEW lines, NEW opens,
           held = << >> \/ Run(held), Run(lines), opens \subseteq Line,
           held # << >> => lines[1] = End(held) + 1
    PROVE  Cut(Fold(held, lines, opens), IF held = << >> THEN lines[1] ELSE held[1],
               End(lines), lines[1], opens)
<1> DEFINE N == Len(lines)
           c == lines[1]
           a == IF held = << >> THEN c ELSE held[1]
<1>1. N \in Nat \ {0} /\ c \in Line /\ c \in Nat \ {0} /\ End(lines) = c + N - 1
  BY RunLength DEF End
<1>2. \A n \in 1 .. N : lines[n] = c + n - 1 /\ lines[n] \in Line
  BY DEF Run
<1>3. a \in Nat
  BY <1>1, RunLength
<1>4. PICK f : Folds(held, lines, opens, f, N) /\ Fold(held, lines, opens) = f[N]
  BY <1>1, FoldUnfolds
<1>5. \A n \in 0 .. N : f[n] = FoldAt(held, lines, opens, f, n)
  BY <1>4 DEF Folds
<1> DEFINE P(n) == IF f[n] = << >> THEN n = 0 /\ held = << >> ELSE Cut(f[n], a, c + n - 1, c, opens)
           T == {n \in Nat : n <= N => P(n)}
<1>6. P(0)
  <2>1. f[0] = IF held = << >> THEN << >> ELSE <<held>>
    BY <1>1, <1>5 DEF FoldAt
  <2>2. CASE held = << >>
    BY <2>1, <2>2
  <2>3. CASE held # << >>
    <3>1. Run(held) /\ c = End(held) + 1 /\ a = held[1] /\ End(held) \in Nat
      BY <2>3, RunLength
    <3>2. \A x \in opens : held[1] < x /\ x <= End(held) => x < c
      BY <1>1, <3>1, LineIsNat
    <3>3. Cut(<<held>>, held[1], End(held), c, opens)
      BY <3>1, <3>2, OneRecordCut
    <3>4. c + 0 - 1 = End(held)
      BY <1>1, <3>1
    <3>5. f[0] = <<held>> /\ f[0] # << >>
      BY <2>1, <2>3
    <3> HIDE DEF a, c
    <3> QED
      BY <3>1, <3>3, <3>4, <3>5
  <2> QED
    BY <2>2, <2>3
<1> HIDE DEF a
<1>7. ASSUME NEW n \in 0 .. N - 1, P(n) PROVE P(n + 1)
  <2>1. n + 1 \in 1 .. N /\ n + 1 # 0 /\ (n + 1) - 1 = n
    BY <1>1
  <2>2. f[n + 1] = AddLine(f[n], lines[n + 1], opens) /\ lines[n + 1] = c + n /\ c + n \in Line
    BY <1>1, <1>2, <1>5, <2>1 DEF FoldAt
  <2>3. CASE f[n] = << >>
    <3>1. n = 0 /\ held = << >>
      BY <1>7, <2>3
    <3>2. a = c /\ c + n = c
      BY <1>1, <3>1 DEF a
    <3>3. f[n + 1] = <<<<c>>>>
      BY <2>2, <2>3, <3>2 DEF AddLine
    <3>4. Run(<<c>>) /\ <<c>>[1] = c /\ End(<<c>>) = c
      BY <1>1, OneLineRun
    <3>5. \A x \in opens : c < x /\ x <= c => x < c
      BY <1>1, LineIsNat
    <3>6. Cut(<<<<c>>>>, c, c, c, opens)
      BY <3>4, <3>5, OneRecordCut
    <3>7. c + (n + 1) - 1 = c /\ f[n + 1] # << >>
      BY <1>1, <3>1, <3>3
    <3> HIDE DEF c
    <3> QED
      BY <3>2, <3>3, <3>6, <3>7
  <2>4. CASE f[n] # << >>
    <3>1. Cut(f[n], a, c + n - 1, c, opens) /\ c + n - 1 \in Nat /\ (c + n - 1) + 1 = c + n
      BY <1>1, <1>7, <2>4
    <3>2. Cut(AddLine(f[n], c + n, opens), a, c + n, c, opens)
      <4> DEFINE d == c + n - 1
      <4>1. Cut(f[n], a, d, c, opens) /\ d \in Nat /\ d + 1 = c + n /\ d + 1 \in Line
        BY <2>2, <3>1
      <4> HIDE DEF d
      <4>2. Cut(AddLine(f[n], d + 1, opens), a, d + 1, c, opens)
        BY <1>1, <1>3, <4>1, AddedCut
      <4> QED
        BY <4>1, <4>2
    <3>3. f[n + 1] # << >> /\ c + (n + 1) - 1 = c + n
      BY <1>1, <2>2, <3>2 DEF Cut
    <3> QED
      BY <2>2, <3>2, <3>3
  <2> QED
    BY <2>3, <2>4
<1>8. T = Nat
  <2> HIDE DEF P
  <2>1. T \subseteq Nat /\ 0 \in T
    BY <1>6
  <2>2. ASSUME NEW n \in T PROVE n + 1 \in T
    BY <1>1, <1>7
  <2> HIDE DEF T
  <2> QED
    BY <2>1, <2>2, SetInduction
<1>9. P(N)
  <2> HIDE DEF P
  <2> QED
    BY <1>1, <1>8
<1>10. Cut(f[N], a, c + N - 1, c, opens)
  BY <1>1, <1>9
<1>11. a = IF held = << >> THEN lines[1] ELSE held[1]
  BY DEF a
<1> HIDE DEF c, N
<1>12. Cut(Fold(held, lines, opens), a, End(lines), c, opens)
  BY <1>1, <1>4, <1>10
<1> QED
  BY <1>11, <1>12 DEF c

(* Whether a line is of a run.                                             *)
Holds(r, x) == r # << >> /\ r[1] <= x /\ x <= End(r)

(* What Feed hands on and holds back of the lines a .. d, of which those   *)
(* from c on are new.                                                      *)
Fed(folding1, a, c, d, opens, closed, held) ==
    /\ closed \in Seq(Seq(Line)) /\ held \in Seq(Line)
    /\ \A k \in 1 .. Len(closed) : Run(closed[k]) /\ a <= closed[k][1] /\ End(closed[k]) <= d
    /\ InOrder(closed)
    /\ IF folding1
       THEN /\ Run(held) /\ a <= held[1] /\ End(held) = d
            /\ held[1] = a \/ held[1] \in opens
            /\ \A x \in opens : held[1] < x /\ x <= d => x < c
            /\ \A k \in 1 .. Len(closed) :
                  /\ Before(closed[k], held)
                  /\ closed[k][1] = a \/ closed[k][1] \in opens
                  /\ End(closed[k]) + 1 \in opens
                  /\ \A x \in opens : closed[k][1] < x /\ x <= End(closed[k]) => x < c
       ELSE /\ held = << >>
            /\ \A k \in 1 .. Len(closed) : closed[k][1] = End(closed[k])
    /\ \A x \in a .. d : Holds(held, x) \/ \E k \in 1 .. Len(closed) : Holds(closed[k], x)

LEMMA FeedFolds ==
    ASSUME NEW held, NEW chunk, NEW opens,
           held = << >> \/ Run(held), Run(chunk), opens \subseteq Line,
           held # << >> => chunk[1] = End(held) + 1
    PROVE  Fed(TRUE, IF held = << >> THEN chunk[1] ELSE held[1], chunk[1], End(chunk), opens,
               Closed(TRUE, held, chunk, opens), HeldBack(TRUE, held, chunk, opens))
<1> DEFINE R == Fold(held, chunk, opens)
           a == IF held = << >> THEN chunk[1] ELSE held[1]
           c == chunk[1]
           d == End(chunk)
           n == Len(R)
           C == Closed(TRUE, held, chunk, opens)
           H == HeldBack(TRUE, held, chunk, opens)
<1>1. Cut(R, a, d, c, opens)
  BY FoldCuts
<1>2. a \in Nat /\ d \in Nat
  BY RunLength
<1>3. C = SubSeq(R, 1, n - 1) /\ H = R[n]
  BY DEF Closed, HeldBack, Front, Last
<1> HIDE DEF R, a, c, d, C, H
<1>4. R \in Seq(Seq(Line)) /\ n \in Nat \ {0}
  BY <1>1, EmptySeq DEF Cut
<1> HIDE DEF n
<1>5. n \in 1 .. n /\ \A k \in 1 .. n - 1 : k \in 1 .. n /\ k + 1 \in 2 .. n /\ (k + 1) - 1 = k
  BY <1>4
<1>6. C \in Seq(Seq(Line)) /\ Len(C) = n - 1 /\ \A k \in 1 .. n - 1 : C[k] = R[k]
  <2>1. \A k \in 1 .. n - 1 : R[k] \in Seq(Line)
    BY <1>4 DEF n
  <2>2. n - 1 \in Int /\ (n - 1) - 1 + 1 = n - 1 /\ (1 <= n - 1 \/ n - 1 = 0)
    BY <1>4
  <2>3. SubSeq(R, 1, n - 1) \in Seq(Seq(Line))
        /\ Len(SubSeq(R, 1, n - 1)) = (IF 1 <= n - 1 THEN (n - 1) - 1 + 1 ELSE 0)
        /\ \A i \in 1 .. (n - 1) - 1 + 1 : SubSeq(R, 1, n - 1)[i] = R[1 + i - 1]
    BY <2>1, <2>2, SubSeqProperties
  <2>4. \A k \in 1 .. n - 1 : 1 + k - 1 = k
    BY <2>2
  <2> QED
    BY <1>3, <2>2, <2>3, <2>4
<1>7. \A k \in 1 .. n : Run(R[k]) /\ a <= R[k][1] /\ End(R[k]) <= d
  BY <1>1 DEF Cut, n
<1>8. \A k, l \in 1 .. n : k < l => Before(R[k], R[l])
  BY <1>1 DEF Cut, InOrder, n
<1>9. R[1][1] = a /\ End(R[n]) = d
  BY <1>1 DEF Cut, n
<1>10. \A k \in 2 .. n : R[k][1] \in opens /\ R[k][1] = End(R[k - 1]) + 1
  BY <1>1 DEF Cut, n
<1>11. \A k \in 1 .. n : \A x \in opens : R[k][1] < x /\ x <= End(R[k]) => x < c
  BY <1>1 DEF Cut, n
<1>12. \A x \in a .. d : \E k \in 1 .. n : R[k][1] <= x /\ x <= End(R[k])
  BY <1>1 DEF Cut, n
<1>13. \A k \in 1 .. n : R[k][1] = a \/ R[k][1] \in opens
  BY <1>4, <1>9, <1>10
<1>14. Run(H) /\ a <= H[1] /\ End(H) = d /\ (H[1] = a \/ H[1] \in opens) /\ H \in Seq(Line)
  BY <1>3, <1>5, <1>7, <1>9, <1>13 DEF Run
<1>15. \A x \in opens : H[1] < x /\ x <= d => x < c
  BY <1>3, <1>5, <1>9, <1>11
<1>16. ASSUME NEW k \in 1 .. n - 1
       PROVE  /\ Run(C[k]) /\ a <= C[k][1] /\ End(C[k]) <= d
              /\ Before(C[k], H)
              /\ C[k][1] = a \/ C[k][1] \in opens
              /\ End(C[k]) + 1 \in opens
              /\ \A x \in opens : C[k][1] < x /\ x <= End(C[k]) => x < c
  <2>1. C[k] = R[k] /\ k \in 1 .. n /\ k + 1 \in 2 .. n /\ (k + 1) - 1 = k /\ k < n
    BY <1>4, <1>5, <1>6
  <2>2. End(C[k]) + 1 \in opens
    <3>1. R[k + 1][1] \in opens /\ R[k + 1][1] = End(R[(k + 1) - 1]) + 1
      BY <1>10, <2>1
    <3> QED
      BY <2>1, <3>1
  <2>3. Before(C[k], H)
    BY <1>3, <1>5, <1>8, <2>1
  <2>4. Run(C[k]) /\ a <= C[k][1] /\ End(C[k]) <= d /\ (C[k][1] = a \/ C[k][1] \in opens)
    BY <1>7, <1>13, <2>1
  <2>5. \A x \in opens : C[k][1] < x /\ x <= End(C[k]) => x < c
    BY <1>11, <2>1
  <2> QED
    BY <2>2, <2>3, <2>4, <2>5
<1>17. InOrder(C)
  <2> SUFFICES ASSUME NEW k \in 1 .. n - 1, NEW l \in 1 .. n - 1, k < l PROVE Before(C[k], C[l])
    BY <1>6 DEF InOrder
  <2> QED
    BY <1>5, <1>6, <1>8
<1>18. ASSUME NEW x \in a .. d
       PROVE  Holds(H, x) \/ \E k \in 1 .. n - 1 : Holds(C[k], x)
  <2>1. PICK k \in 1 .. n : R[k][1] <= x /\ x <= End(R[k])
    BY <1>12
  <2>2. Run(R[k]) /\ R[k] # << >>
    BY <1>7 DEF Run
  <2>3. CASE k = n
    BY <1>3, <2>1, <2>2, <2>3 DEF Holds
  <2>4. CASE k # n
    <3>1. k \in 1 .. n - 1
      BY <1>4, <2>4
    <3> QED
      BY <1>6, <2>1, <2>2, <3>1 DEF Holds
  <2> QED
    BY <2>3, <2>4
<1>19. Fed(TRUE, a, c, d, opens, C, H)
  BY <1>6, <1>14, <1>15, <1>16, <1>17, <1>18 DEF Fed
<1> QED
  BY <1>19 DEF a, c, d, C, H

LEMMA FeedSingles ==
    ASSUME NEW chunk, NEW opens, Run(chunk)
    PROVE  Fed(FALSE, chunk[1], chunk[1], End(chunk), opens,
               Closed(FALSE, << >>, chunk, opens), HeldBack(FALSE, << >>, chunk, opens))
<1> DEFINE n == Len(chunk)
           c == chunk[1]
           d == End(chunk)
           C == [i \in 1 .. n |-> <<chunk[i]>>]
<1>1. n \in Nat \ {0} /\ c \in Nat /\ d = c + n - 1 /\ d \in Nat
  BY RunLength DEF End
<1>2. \A i \in 1 .. n : chunk[i] = c + i - 1 /\ chunk[i] \in Line
  BY DEF Run
<1>3. Singletons(chunk) = C
  <2>1. DOMAIN chunk = 1 .. n
    BY DEF Run
  <2> HIDE DEF n
  <2> QED
    BY <2>1 DEF Singletons
<1>31. Closed(FALSE, << >>, chunk, opens) = C /\ HeldBack(FALSE, << >>, chunk, opens) = << >>
  <2> HIDE DEF C
  <2> QED
    BY <1>3 DEF Closed, HeldBack
<1>4. C \in Seq(Seq(Line)) /\ Len(C) = n /\ \A i \in 1 .. n : C[i] = <<chunk[i]>>
  <2>1. \A i \in 1 .. n : <<chunk[i]>> \in Seq(Line)
    BY <1>2
  <2> HIDE DEF n
  <2>2. C \in [1 .. n -> Seq(Line)]
    BY <2>1
  <2>3. C \in Seq(Seq(Line)) /\ DOMAIN C = 1 .. n
    BY <1>1, <2>2
  <2> QED
    BY <1>1, <2>3
<1> HIDE DEF n, c, d, C
<1>5. \A i \in 1 .. n : Run(C[i]) /\ C[i][1] = c + i - 1 /\ End(C[i]) = c + i - 1
  BY <1>2, <1>4, OneLineRun
<1>6. \A i \in 1 .. n : c <= c + i - 1 /\ c + i - 1 <= d
  BY <1>1
<1>7. InOrder(C)
  <2> SUFFICES ASSUME NEW k \in 1 .. n, NEW l \in 1 .. n, k < l PROVE Before(C[k], C[l])
    BY <1>4 DEF InOrder
  <2>1. c + k - 1 < c + l - 1
    BY <1>1
  <2> QED
    BY <1>5, <2>1 DEF Before
<1>8. ASSUME NEW x \in c .. d PROVE \E k \in 1 .. n : Holds(C[k], x)
  <2>1. x - c + 1 \in 1 .. n /\ c + (x - c + 1) - 1 = x
    BY <1>1
  <2>2. Run(C[x - c + 1]) /\ C[x - c + 1][1] = x /\ End(C[x - c + 1]) = x
    BY <1>5, <2>1
  <2>3. Holds(C[x - c + 1], x)
    BY <2>2 DEF Holds, Run
  <2> QED
    BY <2>1, <2>3
<1>9. << >> \in Seq(Line)
  OBVIOUS
<1>10. Fed(FALSE, c, c, d, opens, C, << >>)
  BY <1>4, <1>5, <1>6, <1>7, <1>8, <1>9 DEF Fed
<1> QED
  BY <1>31, <1>10 DEF c, d

-----------------------------------------------------------------------------
(* Where the lines of an upload are.                                       *)

(* The records a handler works on, in order: those that have a number and  *)
(* those that have none yet.                                               *)
Size(w) == Len(w.rows) + Len(w.records)
Piece(w, k) == IF k <= Len(w.rows) THEN w.rows[k].lines ELSE w.records[k - Len(w.rows)]

PiecesInv(s) ==
    \A h \in Handler : LET w == handler[s][h] IN
        /\ \A k \in 1 .. Size(w) : Run(Piece(w, k)) /\ End(Piece(w, k)) <= sent[s]
        /\ \A k, l \in 1 .. Size(w) : k < l => Before(Piece(w, k), Piece(w, l))
        /\ \A g \in Handler \ {h} : \A k \in 1 .. Size(w), l \in 1 .. Size(handler[s][g]) :
              Apart(Piece(w, k), Piece(handler[s][g], l))

DocsInv(s) ==
    \A d \in Stored(s) :
        /\ Run(d.lines) /\ End(d.lines) <= sent[s]
        /\ \A e \in Stored(s) \ {d} : Apart(d.lines, e.lines)
        /\ \A h \in Handler : \A k \in 1 .. Size(handler[s][h]) :
              Apart(d.lines, Piece(handler[s][h], k))

PendingInv(s) ==
    pending[s] # << >> =>
        /\ folding[s] /\ Run(pending[s]) /\ End(pending[s]) <= sent[s]
        /\ \A d \in Stored(s) : Apart(d.lines, pending[s])
        /\ \A h \in Handler : \A k \in 1 .. Size(handler[s][h]) :
              Apart(Piece(handler[s][h], k), pending[s])

ChunkInv(s) ==
    LET chunk == handler[s]["ingest"].chunk
    IN  chunk # << >> =>
            /\ Run(chunk) /\ End(chunk) = sent[s]
            /\ pending[s] # << >> => chunk[1] = End(pending[s]) + 1
            /\ \A d \in Stored(s) : Before(d.lines, chunk)
            /\ \A h \in Handler : \A k \in 1 .. Size(handler[s][h]) :
                  Before(Piece(handler[s][h], k), chunk)

LinesInv(s) == PiecesInv(s) /\ DocsInv(s) /\ PendingInv(s) /\ ChunkInv(s)

-----------------------------------------------------------------------------
(* What the handlers and the client are doing.                             *)

ShapeInv(s) ==
    /\ \A h \in Handler : LET w == handler[s][h] IN
          /\ w.pc # "working" => w.records = << >> /\ w.rows = << >>
          /\ w.chunk # << >> <=> h = "ingest" /\ w.pc \in {"sent", "found"}
    /\ handler[s]["sweep"].pc # "sent"

Waits(s) == client[s] \in {"open", "waiting", "ending", "succeeded"}

ClientInv(s) ==
    /\ client[s] \in {"new", "open", "ending", "succeeded"} => handler[s]["ingest"].pc = "idle"
    /\ client[s] \in {"new", "open", "waiting"} => handler[s]["end"].pc = "idle"
    /\ client[s] = "new" =>
          /\ s \notin live /\ s \notin crashed /\ s \notin cancelled /\ sent[s] = 0
          /\ handler[s]["sweep"].pc = "idle"
    /\ client[s] \in {"ending", "succeeded"} => sent[s] = FileLines
    /\ Waits(s) => s \notin cancelled
    /\ handler[s]["ingest"].pc # "idle" /\ s \notin cancelled => client[s] = "waiting"
    /\ Waits(s) /\ pending[s] # << >> /\ handler[s]["ingest"].chunk = << >> =>
          End(pending[s]) = sent[s]

SessionInv(s) ==
    /\ handler[s]["ingest"].pc \in {"found", "working"} => s \in cancelled \/ (s \in live /\ s \notin stale)
    /\ s \in live => handler[s]["end"].pc \in {"idle", "sent"} /\ handler[s]["sweep"].pc = "idle"
    /\ handler[s]["end"].pc \in {"found", "working"} => handler[s]["sweep"].pc = "idle"
    /\ client[s] = "succeeded" => s \notin live
    /\ pending[s] # << >> =>
          \/ s \in live \union cancelled
          \/ handler[s]["end"].pc = "found" \/ handler[s]["sweep"].pc = "found"


IsRowOf(s, r) == r.session = s /\ r.source = source[s] /\ r.seq <= seq[s]

RowsInv(s) ==
    /\ \A h \in Handler : \A k \in 1 .. Len(handler[s][h].rows) : IsRowOf(s, handler[s][h].rows[k])
    /\ \A d \in Stored(s) : IsRowOf(s, d)

UploadInv(s) == ShapeInv(s) /\ RowsInv(s) /\ ClientInv(s) /\ SessionInv(s) /\ LinesInv(s)

IngestInv == TypeOK /\ \A s \in Session : UploadInv(s)

-----------------------------------------------------------------------------
(* Types.                                                                  *)

HandlerState == [pc : {"idle", "sent", "found", "working"}, chunk : Seq(Line),
                 records : Seq(Seq(Line)), rows : Seq(Row)]

Typed ==
    /\ live \subseteq Session /\ stale \subseteq Session
    /\ seq \in [Session -> Nat]
    /\ pending \in [Session -> Seq(Line)]
    /\ handler \in [Session -> [Handler -> HandlerState]]
    /\ docs \subseteq Row
    /\ restarts \in 0 .. MaxRestarts
    /\ client \in [Session ->
          {"new", "open", "waiting", "ending", "failing", "failed", "succeeded"}]
    /\ source \in [Session -> FileName]
    /\ header \in [Session -> SUBSET Line]
    /\ folding \in [Session -> BOOLEAN]
    /\ sent \in [Session -> 0 .. FileLines]
    /\ cancelled \subseteq Session /\ crashed \subseteq Session
    /\ unsaved \in [Session -> SUBSET Line]
    /\ overwritten \subseteq Row

LEMMA TypedIsTypeOK == TypeOK <=> Typed
BY DEF TypeOK, Typed, HandlerState

LEMMA TypedIsTypeOKNext == TypeOK' <=> Typed'
BY TypedIsTypeOK, PTL

SetPc(w, x) == [w EXCEPT !.pc = x]
SetHandler(s, h, w) == [handler EXCEPT ![s][h] = w]

(* A handler's state is a state, and what its parts are.                   *)
LEMMA StateParts ==
    ASSUME NEW w \in HandlerState
    PROVE  /\ w.pc \in {"idle", "sent", "found", "working"} /\ w.chunk \in Seq(Line)
           /\ w.records \in Seq(Seq(Line)) /\ w.rows \in Seq(Row)
           /\ Len(w.records) \in Nat /\ Len(w.rows) \in Nat /\ Size(w) \in Nat
           /\ \A x \in {"idle", "sent", "found", "working"} :
                 /\ SetPc(w, x) \in HandlerState
                 /\ SetPc(w, x).pc = x
                 /\ SetPc(w, x).chunk = w.chunk
                 /\ SetPc(w, x).records = w.records
                 /\ SetPc(w, x).rows = w.rows
<1>1. /\ w.pc \in {"idle", "sent", "found", "working"} /\ w.chunk \in Seq(Line)
      /\ w.records \in Seq(Seq(Line)) /\ w.rows \in Seq(Row)
  BY DEF HandlerState
<1>2. Len(w.records) \in Nat /\ Len(w.rows) \in Nat /\ Size(w) \in Nat
  <2>1. Len(w.records) \in Nat
    BY <1>1, LenProperties
  <2>2. Len(w.rows) \in Nat
    BY <1>1, LenProperties
  <2>3. \A a, b \in Nat : a + b \in Nat
    OBVIOUS
  <2>4. Size(w) = Len(w.rows) + Len(w.records)
    BY DEF Size
  <2>5. Size(w) \in Nat
    BY <2>1, <2>2, <2>3, <2>4
  <2> QED
    BY <2>1, <2>2, <2>5
<1>3. ASSUME NEW x \in {"idle", "sent", "found", "working"}
      PROVE  /\ SetPc(w, x) \in HandlerState
             /\ SetPc(w, x).pc = x
             /\ SetPc(w, x).chunk = w.chunk
             /\ SetPc(w, x).records = w.records
             /\ SetPc(w, x).rows = w.rows
  BY DEF HandlerState, SetPc
<1> QED
  BY <1>1, <1>2, <1>3

LEMMA RowIsPiece ==
    ASSUME NEW w \in HandlerState, NEW k \in 1 .. Len(w.rows)
    PROVE  k \in 1 .. Size(w) /\ k <= Len(w.rows) /\ Piece(w, k) = w.rows[k].lines
<1> DEFINE n == Len(w.rows)
           m == Len(w.records)
<1>1. n \in Nat /\ m \in Nat
  BY StateParts
<1>2. Size(w) = n + m
  BY DEF Size
<1>3. Piece(w, k) = IF k <= n THEN w.rows[k].lines ELSE w.records[k - n]
  BY DEF Piece
<1>4. k \in 1 .. n
  OBVIOUS
<1>5. n = Len(w.rows)
  OBVIOUS
<1> HIDE DEF n, m
<1>6. k <= n /\ k \in 1 .. n + m
  BY <1>1, <1>4
<1> QED
  BY <1>2, <1>3, <1>5, <1>6

LEMMA IdleState ==
    /\ Idle \in HandlerState /\ Idle.pc = "idle" /\ Idle.chunk = << >>
    /\ Idle.records = << >> /\ Idle.rows = << >> /\ Size(Idle) = 0
<1>1. << >> \in Seq(Line) /\ << >> \in Seq(Seq(Line)) /\ << >> \in Seq(Row)
  OBVIOUS
<1>2. Idle \in HandlerState
  BY <1>1 DEF Idle, HandlerState
<1>3. Idle.pc = "idle" /\ Idle.chunk = << >> /\ Idle.records = << >> /\ Idle.rows = << >>
  BY DEF Idle
<1>4. Size(Idle) = 0
  BY <1>3 DEF Size
<1> QED
  BY <1>2, <1>3, <1>4

LEMMA WorkingState ==
    ASSUME NEW R \in Seq(Seq(Line))
    PROVE  /\ Working(R) \in HandlerState /\ Working(R).pc = "working"
           /\ Working(R).chunk = << >> /\ Working(R).records = R /\ Working(R).rows = << >>
           /\ Size(Working(R)) = Len(R)
           /\ \A k \in 1 .. Len(R) : Piece(Working(R), k) = R[k]
<1> DEFINE w == Working(R)
<1>1. << >> \in Seq(Line) /\ << >> \in Seq(Row)
  OBVIOUS
<1>2. w \in HandlerState
  BY <1>1 DEF Working, HandlerState
<1>3. w.pc = "working" /\ w.chunk = << >> /\ w.records = R /\ w.rows = << >>
  BY DEF Working
<1> HIDE DEF w
<1>4. Len(R) \in Nat /\ Size(w) = Len(R)
  BY <1>3 DEF Size
<1>5. \A k \in 1 .. Len(R) : Piece(w, k) = R[k]
  BY <1>3, <1>4 DEF Piece
<1> QED
  BY <1>2, <1>3, <1>4, <1>5 DEF w

LEMMA SentState ==
    ASSUME NEW c \in Seq(Line)
    PROVE  LET w == [Idle EXCEPT !.pc = "sent", !.chunk = c]
           IN  /\ w \in HandlerState /\ w.pc = "sent" /\ w.chunk = c
               /\ w.records = << >> /\ w.rows = << >> /\ Size(w) = 0
<1> DEFINE w == [Idle EXCEPT !.pc = "sent", !.chunk = c]
<1>1. << >> \in Seq(Seq(Line)) /\ << >> \in Seq(Row)
  OBVIOUS
<1>2. w \in HandlerState
  BY <1>1 DEF Idle, HandlerState
<1>3. w.pc = "sent" /\ w.chunk = c /\ w.records = << >> /\ w.rows = << >>
  BY DEF Idle
<1> HIDE DEF w
<1>4. Size(w) = 0
  BY <1>3 DEF Size
<1> QED
  BY <1>2, <1>3, <1>4 DEF w

(* An action of one handler of one upload leaves the others as they are.   *)
LEMMA OneHandler ==
    ASSUME Typed, NEW s \in Session, NEW h \in Handler, NEW w \in HandlerState,
           handler' = SetHandler(s, h, w)
    PROVE  /\ handler' \in [Session -> [Handler -> HandlerState]]
           /\ handler'[s][h] = w
           /\ \A g \in Handler : g # h => handler'[s][g] = handler[s][g]
           /\ \A t \in Session : t # s => handler'[t] = handler[t]
<1>1. handler \in [Session -> [Handler -> HandlerState]]
  BY DEF Typed
<1>2. handler[s] \in [Handler -> HandlerState]
  BY <1>1
<1>3. handler' = [handler EXCEPT ![s] = [handler[s] EXCEPT ![h] = w]]
  BY DEF SetHandler
<1>4. [handler[s] EXCEPT ![h] = w] \in [Handler -> HandlerState]
  BY <1>2
<1>5. handler' \in [Session -> [Handler -> HandlerState]]
  BY <1>1, <1>3, <1>4
<1>6. handler'[s] = [handler[s] EXCEPT ![h] = w] /\ \A t \in Session :
         t # s => handler'[t] = handler[t]
  BY <1>1, <1>3
<1>7. handler'[s][h] = w /\ \A g \in Handler : g # h => handler'[s][g] = handler[s][g]
  BY <1>2, <1>6
<1> QED
  BY <1>5, <1>6, <1>7

LEMMA Handlers ==
    /\ "ingest" \in Handler /\ "end" \in Handler /\ "sweep" \in Handler
    /\ \A h \in Handler : h = "ingest" \/ h = "end" \/ h = "sweep"
    /\ "ingest" # "end" /\ "ingest" # "sweep" /\ "end" # "sweep"
BY DEF Handler

LEMMA WholeFileIsRun ==
    ASSUME NEW a \in Nat, NEW n \in Nat \ {0}, a + n <= FileLines
    PROVE  LET c == SubSeq(WholeFile, a + 1, a + n)
           IN  Run(c) /\ c[1] = a + 1 /\ End(c) = a + n
<1> DEFINE c == SubSeq(WholeFile, a + 1, a + n)
           m == a + 1
           l == a + n
<1>1. FileLines \in Nat
  BY FileLinesAssumption
<1>2. m \in Int /\ l \in Int /\ m <= l /\ l - m + 1 = n /\ m = a + 1 /\ l = a + n
  OBVIOUS
<1>3. \A i \in m .. l : WholeFile[i] = i /\ i \in Line
  BY <1>1, <1>2 DEF WholeFile, Line
<1> HIDE DEF m, l
<1>4. /\ SubSeq(WholeFile, m, l) \in Seq(Line)
      /\ Len(SubSeq(WholeFile, m, l)) = (IF m <= l THEN l - m + 1 ELSE 0)
      /\ \A i \in 1 .. l - m + 1 : SubSeq(WholeFile, m, l)[i] = WholeFile[m + i - 1]
  BY <1>2, <1>3, SubSeqProperties
<1>5. c \in Seq(Line) /\ Len(c) = n /\ \A i \in 1 .. n : c[i] = WholeFile[m + i - 1]
  BY <1>2, <1>4 DEF m, l
<1> HIDE DEF c
<1>6. ASSUME NEW i \in 1 .. n PROVE c[i] = a + i
  <2>1. m + i - 1 = a + i /\ m + i - 1 \in m .. l
    BY <1>2
  <2> QED
    BY <1>3, <1>5, <2>1
<1>7. c[1] = a + 1 /\ c # << >>
  BY <1>5, <1>6
<1>8. End(c) = a + n
  BY <1>5, <1>7 DEF End
<1>9. \A i \in 1 .. Len(c) : c[i] = c[1] + i - 1
  BY <1>5, <1>6, <1>7
<1>10. Run(c)
  BY <1>5, <1>7, <1>9 DEF Run
<1> QED
  BY <1>7, <1>8, <1>10 DEF c

-----------------------------------------------------------------------------
(* Steps that leave the lines of an upload where they are, or lose some.   *)

KeptRecords(s) ==
    /\ folding'[s] = folding[s]
    /\ sent[s] \in Nat /\ sent'[s] \in Nat /\ sent[s] <= sent'[s]
    /\ Stored(s)' \subseteq Stored(s)
    /\ \A h \in Handler :
          \/ Size(handler'[s][h]) = 0
          \/ /\ Size(handler'[s][h]) = Size(handler[s][h])
             /\ \A k \in 1 .. Size(handler[s][h]) :
                   Piece(handler'[s][h], k) = Piece(handler[s][h], k)
    /\ pending'[s] \in {<< >>, pending[s]}

Kept(s) ==
    /\ KeptRecords(s)
    /\ sent'[s] = sent[s]
    /\ handler'[s]["ingest"].chunk \in {<< >>, handler[s]["ingest"].chunk}

LEMMA SentIsNat ==
    ASSUME Typed, NEW s \in Session
    PROVE  sent[s] \in Nat /\ sent[s] <= FileLines
BY FileLinesAssumption DEF Typed

LEMMA PieceKept ==
    ASSUME NEW s \in Session, KeptRecords(s)
    PROVE  \A h \in Handler : \A k \in 1 .. Size(handler'[s][h]) :
              /\ k \in 1 .. Size(handler[s][h])
              /\ Piece(handler'[s][h], k) = Piece(handler[s][h], k)
<1> SUFFICES ASSUME NEW h \in Handler, NEW k \in 1 .. Size(handler'[s][h])
               PROVE  /\ k \in 1 .. Size(handler[s][h])
                      /\ Piece(handler'[s][h], k) = Piece(handler[s][h], k)
    OBVIOUS
<1>1. Size(handler'[s][h]) # 0
    OBVIOUS
<1>2. Size(handler'[s][h]) = Size(handler[s][h])
    BY <1>1 DEF KeptRecords
<1>3. k \in 1 .. Size(handler[s][h])
    BY <1>2
<1> QED
    BY <1>1, <1>3 DEF KeptRecords

LEMMA KeptRecordsInv ==
    ASSUME NEW s \in Session, KeptRecords(s), LinesInv(s)
    PROVE  PiecesInv(s)' /\ DocsInv(s)' /\ PendingInv(s)'
<1>1. \A h \in Handler : \A k \in 1 .. Size(handler'[s][h]) :
         /\ k \in 1 .. Size(handler[s][h])
         /\ Piece(handler'[s][h], k) = Piece(handler[s][h], k)
  BY PieceKept
<1>2. folding'[s] = folding[s] /\ Stored(s)' \subseteq Stored(s)
      /\ (pending'[s] = << >> \/ pending'[s] = pending[s])
  BY DEF KeptRecords
<1>7. \A r : Run(r) /\ End(r) <= sent[s] => End(r) <= sent'[s]
  BY RunLength DEF KeptRecords
<1>3. PiecesInv(s)'
  <2> SUFFICES ASSUME NEW h \in Handler
               PROVE  /\ \A k \in 1 .. Size(handler'[s][h]) :
                            Run(Piece(handler'[s][h], k)) /\ End(Piece(handler'[s][h], k)) <= sent'[s]
                      /\ \A k, l \in 1 .. Size(handler'[s][h]) :
                            k < l => Before(Piece(handler'[s][h], k), Piece(handler'[s][h], l))
                      /\ \A g \in Handler \ {h} :
                            \A k \in 1 .. Size(handler'[s][h]), l \in 1 .. Size(handler'[s][g]) :
                               Apart(Piece(handler'[s][h], k), Piece(handler'[s][g], l))
    BY DEF PiecesInv
  <2>1. /\ \A k \in 1 .. Size(handler[s][h]) :
               Run(Piece(handler[s][h], k)) /\ End(Piece(handler[s][h], k)) <= sent[s]
        /\ \A k, l \in 1 .. Size(handler[s][h]) :
               k < l => Before(Piece(handler[s][h], k), Piece(handler[s][h], l))
        /\ \A g \in Handler \ {h} :
               \A k \in 1 .. Size(handler[s][h]), l \in 1 .. Size(handler[s][g]) :
                  Apart(Piece(handler[s][h], k), Piece(handler[s][g], l))
    BY DEF LinesInv, PiecesInv
  <2> QED
    BY <1>1, <1>2, <2>1, <1>7
<1>4. DocsInv(s)'
  <2>1. DocsInv(s)
    BY DEF LinesInv
  <2> SUFFICES ASSUME NEW d \in Stored(s)'
               PROVE  /\ Run(d.lines) /\ End(d.lines) <= sent'[s]
                      /\ \A e \in Stored(s)' \ {d} : Apart(d.lines, e.lines)
                      /\ \A h \in Handler : \A k \in 1 .. Size(handler'[s][h]) :
                            Apart(d.lines, Piece(handler'[s][h], k))
    BY DEF DocsInv
  <2>2. d \in Stored(s)
    BY <1>2
  <2>3. /\ Run(d.lines) /\ End(d.lines) <= sent[s]
        /\ \A e \in Stored(s) \ {d} : Apart(d.lines, e.lines)
        /\ \A h \in Handler : \A k \in 1 .. Size(handler[s][h]) :
              Apart(d.lines, Piece(handler[s][h], k))
    BY <2>1, <2>2 DEF DocsInv
  <2> QED
    BY <1>1, <1>2, <2>3, <1>7
<1>5. PendingInv(s)'
  <2>1. PendingInv(s)
    BY DEF LinesInv
  <2> SUFFICES ASSUME pending'[s] # << >>
               PROVE  /\ folding'[s] /\ Run(pending'[s]) /\ End(pending'[s]) <= sent'[s]
                      /\ \A d \in Stored(s)' : Apart(d.lines, pending'[s])
                      /\ \A h \in Handler : \A k \in 1 .. Size(handler'[s][h]) :
                            Apart(Piece(handler'[s][h], k), pending'[s])
    BY DEF PendingInv
  <2>2. pending'[s] = pending[s] /\ pending[s] # << >>
    BY <1>2
  <2>3. /\ folding[s] /\ Run(pending[s]) /\ End(pending[s]) <= sent[s]
        /\ \A d \in Stored(s) : Apart(d.lines, pending[s])
        /\ \A h \in Handler : \A k \in 1 .. Size(handler[s][h]) :
              Apart(Piece(handler[s][h], k), pending[s])
    BY <2>1, <2>2 DEF PendingInv
  <2> QED
    BY <1>1, <1>2, <2>2, <2>3, <1>7
<1> QED
  BY <1>3, <1>4, <1>5

LEMMA KeptLines ==
    ASSUME NEW s \in Session, Kept(s), LinesInv(s)
    PROVE  LinesInv(s)'
<1>1. \A h \in Handler : \A k \in 1 .. Size(handler'[s][h]) :
         /\ k \in 1 .. Size(handler[s][h])
         /\ Piece(handler'[s][h], k) = Piece(handler[s][h], k)
  BY PieceKept DEF Kept
<1>2. sent'[s] = sent[s] /\ Stored(s)' \subseteq Stored(s)
      /\ (pending'[s] = << >> \/ pending'[s] = pending[s])
      /\ (handler'[s]["ingest"].chunk = << >>
             \/ handler'[s]["ingest"].chunk = handler[s]["ingest"].chunk)
  BY DEF Kept, KeptRecords
<1>5. PiecesInv(s)' /\ DocsInv(s)' /\ PendingInv(s)'
  BY KeptRecordsInv DEF Kept
<1>6. ChunkInv(s)'
  <2>1. ChunkInv(s)
    BY DEF LinesInv
  <2> SUFFICES ASSUME handler'[s]["ingest"].chunk # << >>
               PROVE  LET chunk == handler'[s]["ingest"].chunk
                      IN  /\ Run(chunk) /\ End(chunk) = sent'[s]
                          /\ pending'[s] # << >> => chunk[1] = End(pending'[s]) + 1
                          /\ \A d \in Stored(s)' : Before(d.lines, chunk)
                          /\ \A h \in Handler : \A k \in 1 .. Size(handler'[s][h]) :
                                Before(Piece(handler'[s][h], k), chunk)
    BY DEF ChunkInv
  <2> DEFINE c == handler[s]["ingest"].chunk
  <2>2. handler'[s]["ingest"].chunk = c /\ c # << >>
    BY <1>2
  <2>3. /\ Run(c) /\ End(c) = sent[s]
        /\ pending[s] # << >> => c[1] = End(pending[s]) + 1
        /\ \A d \in Stored(s) : Before(d.lines, c)
        /\ \A h \in Handler : \A k \in 1 .. Size(handler[s][h]) : Before(Piece(handler[s][h], k), c)
    BY <2>1, <2>2 DEF ChunkInv
  <2> HIDE DEF c
  <2> QED
    BY <1>1, <1>2, <2>2, <2>3
<1> QED
  BY <1>5, <1>6 DEF LinesInv

LEMMA RowsKept ==
    ASSUME NEW s \in Session, RowsInv(s), source' = source, seq' = seq,
           Stored(s)' \subseteq Stored(s),
           \A h \in Handler : \A k \in 1 .. Len(handler'[s][h].rows) :
              k \in 1 .. Len(handler[s][h].rows) /\ handler'[s][h].rows[k] = handler[s][h].rows[k]
    PROVE  RowsInv(s)'
<1>1. ASSUME NEW h \in Handler, NEW k \in 1 .. Len(handler'[s][h].rows), NEW r,
             r = handler'[s][h].rows[k]
      PROVE  r.session = s /\ r.source = source'[s] /\ r.seq <= seq'[s]
  <2>1. IsRowOf(s, handler[s][h].rows[k]) /\ r = handler[s][h].rows[k]
    BY <1>1 DEF RowsInv
  <2> QED
    BY <2>1 DEF IsRowOf
<1>2. ASSUME NEW d \in Stored(s)' PROVE d.session = s /\ d.source = source'[s] /\ d.seq <= seq'[s]
  BY DEF RowsInv, IsRowOf
<1> QED
  BY <1>1, <1>2 DEF RowsInv, IsRowOf

(* An upload that a step does not concern.                                 *)
Same(s) ==
    /\ handler'[s] = handler[s] /\ pending'[s] = pending[s] /\ seq'[s] = seq[s]
    /\ sent'[s] = sent[s] /\ client'[s] = client[s] /\ unsaved'[s] = unsaved[s]
    /\ source'[s] = source[s] /\ header'[s] = header[s] /\ folding'[s] = folding[s]
    /\ s \in live' <=> s \in live
    /\ s \in stale' <=> s \in stale
    /\ s \in cancelled' <=> s \in cancelled
    /\ s \in crashed' <=> s \in crashed
    /\ Stored(s)' \subseteq Stored(s)

LEMMA SameUpload ==
    ASSUME Typed, NEW s \in Session, Same(s), UploadInv(s)
    PROVE  UploadInv(s)'
<1>1. LinesInv(s)'
  <2>1. Kept(s)
    BY SentIsNat DEF Same, Kept, KeptRecords
  <2> QED
    BY <2>1, KeptLines DEF UploadInv
<1>2. ShapeInv(s)'
  BY DEF UploadInv, ShapeInv, Same
<1>3. RowsInv(s)'
  BY DEF UploadInv, RowsInv, Same, IsRowOf
<1>4. ClientInv(s)'
  BY DEF UploadInv, ClientInv, Same, Waits
<1>5. SessionInv(s)'
  BY DEF UploadInv, SessionInv, Same
<1> QED
  BY <1>1, <1>2, <1>3, <1>4, <1>5 DEF UploadInv

-----------------------------------------------------------------------------
(* What the steps of an upload do to the others.                           *)

LEMMA StoredRows ==
    ASSUME Typed, NEW s \in Session, RowsInv(s), NEW h \in Handler
    PROVE  /\ ToSet(handler[s][h].rows) \subseteq Row
           /\ \A r \in ToSet(handler[s][h].rows) :
                 IsRowOf(s, r) /\ \E k \in 1 .. Len(handler[s][h].rows) : r = handler[s][h].rows[k]
<1>1. handler[s][h] \in HandlerState
  BY DEF Typed
<1> DEFINE q == handler[s][h].rows
<1>2. q \in Seq(Row)
  BY <1>1, StateParts
<1>3. \A k \in 1 .. Len(q) : IsRowOf(s, q[k])
  BY DEF RowsInv
<1> HIDE DEF q
<1>4. \A r \in ToSet(q) : \E k \in 1 .. Len(q) : r = q[k]
  BY <1>2 DEF ToSet
<1>5. ToSet(q) \subseteq Row
  BY <1>2, <1>4
<1> QED
  BY <1>3, <1>4, <1>5 DEF q

LEMMA OthersSame ==
    ASSUME Typed, NEW s \in Session, UploadInv(s),
           \/ ClientNext(s) \/ ServerNext(s)
           \/ \E h \in {"ingest", "end"} : LoseRequest(s, h),
           NEW t \in Session, t # s
    PROVE  Same(t)
<1>1. \A h \in Handler : handler[s][h] \in HandlerState
  BY DEF Typed
<1>2. /\ seq \in [Session -> Nat] /\ pending \in [Session -> Seq(Line)]
      /\ client \in [Session -> {"new", "open", "waiting", "ending", "failing", "failed", "succeeded"}]
      /\ sent \in [Session -> 0 .. FileLines] /\ unsaved \in [Session -> SUBSET Line]
      /\ handler \in [Session -> [Handler -> HandlerState]]
  BY DEF Typed
<1>3. docs' = docs => Stored(t)' = Stored(t)
  BY DEF Stored
<1>4. CASE StartUpload(s)
  BY <1>2, <1>3, <1>4 DEF StartUpload, Same, historyVars
<1>5. CASE SendChunk(s)
  BY <1>2, <1>3, <1>5 DEF SendChunk, Same, historyVars
<1>6. CASE EndUpload(s)
  BY <1>2, <1>3, <1>6 DEF EndUpload, Same, historyVars
<1>7. CASE CloseFailed(s)
  BY <1>2, <1>3, <1>7 DEF CloseFailed, Same, historyVars
<1>8. CASE StopWaiting(s)
  BY <1>2, <1>3, <1>8 DEF StopWaiting, Same, memoryVars
<1>9. CASE LookUp(s)
  BY <1>2, <1>3, <1>9 DEF LookUp, Same, historyVars, Finish, Answered
<1>10. CASE Feed(s)
  BY <1>2, <1>3, <1>10 DEF Feed, Same, historyVars, Finish, Answered
<1>11. CASE EndSession(s)
  BY <1>2, <1>3, <1>11 DEF EndSession, Same, historyVars, Finish, Answered
<1>12. CASE GoStale(s)
  BY <1>2, <1>3, <1>12 DEF GoStale, Same, historyVars, uploadVars
<1>13. ASSUME NEW h \in Handler, Flush(s, h) PROVE Same(t)
  BY <1>2, <1>3, <1>13 DEF Flush, Same, historyVars, Finish, Answered
<1>14. ASSUME NEW h \in Handler, PostProcess(s, h) PROVE Same(t)
  BY <1>2, <1>3, <1>14 DEF PostProcess, Same, historyVars, uploadVars
<1>15. ASSUME NEW h \in Handler, Store(s, h) PROVE Same(t)
  <2>1. Stored(t)' \subseteq Stored(t)
    <3>1. PICK written \in SUBSET ToSet(handler[s][h].rows) : Put(written)
      BY <1>15 DEF Store
    <3>2. \A r \in written : r.session = s
      BY <3>1, StoredRows DEF UploadInv, IsRowOf
    <3>3. docs' \subseteq docs \union written
      BY <3>1 DEF Put
    <3> QED
      BY <3>2, <3>3 DEF Stored
  <2>2. /\ handler'[t] = handler[t] /\ client'[t] = client[t] /\ unsaved'[t] = unsaved[t]
        /\ UNCHANGED <<live, stale, seq, pending, restarts, source, header, folding, sent,
                       cancelled, crashed>>
    BY <1>2, <1>15 DEF Store, Finish, Answered
  <2> QED
    BY <2>1, <2>2 DEF Same
<1>16. ASSUME NEW h \in {"ingest", "end"}, LoseRequest(s, h) PROVE Same(t)
  BY <1>2, <1>3, <1>16 DEF LoseRequest, Same, historyVars
<1> QED
  BY <1>4, <1>5, <1>6, <1>7, <1>8, <1>9, <1>10, <1>11, <1>12, <1>13, <1>14, <1>15, <1>16
     DEF ClientNext, ServerNext

-----------------------------------------------------------------------------
(* The steps of an upload.                                                 *)

(* A handler of a session comes to a step, or is done.                     *)
PcSet(s, h, x) == [handler EXCEPT ![s][h].pc = x]
IdleSet(s, h) == [handler EXCEPT ![s][h] = Idle]

LEMMA PcChange ==
    ASSUME Typed, NEW s \in Session, NEW h \in Handler,
           NEW x \in {"idle", "sent", "found", "working"},
           handler' = PcSet(s, h, x)
    PROVE  /\ handler' \in [Session -> [Handler -> HandlerState]]
           /\ handler'[s][h].pc = x
           /\ \A g \in Handler : g # h => handler'[s][g] = handler[s][g]
           /\ \A g \in Handler :
                 /\ handler'[s][g].chunk = handler[s][g].chunk
                 /\ handler'[s][g].records = handler[s][g].records
                 /\ handler'[s][g].rows = handler[s][g].rows
                 /\ Size(handler'[s][g]) = Size(handler[s][g])
                 /\ \A k \in 1 .. Size(handler[s][g]) :
                       Piece(handler'[s][g], k) = Piece(handler[s][g], k)
<1> DEFINE w == SetPc(handler[s][h], x)
<1>1. handler[s][h] \in HandlerState
  BY DEF Typed
<1>2. /\ w \in HandlerState /\ w.pc = x /\ w.chunk = handler[s][h].chunk
      /\ w.records = handler[s][h].records /\ w.rows = handler[s][h].rows
  <2> DEFINE v == handler[s][h]
  <2>1. v \in HandlerState
    BY <1>1
  <2> HIDE DEF v
  <2>2. /\ SetPc(v, x) \in HandlerState /\ SetPc(v, x).pc = x /\ SetPc(v, x).chunk = v.chunk
        /\ SetPc(v, x).records = v.records /\ SetPc(v, x).rows = v.rows
    BY <2>1, StateParts
  <2> QED
    BY <2>2 DEF v
<1>3. handler' = SetHandler(s, h, w)
  BY DEF PcSet, SetPc, SetHandler
<1> HIDE DEF w
<1>4. /\ handler' \in [Session -> [Handler -> HandlerState]]
      /\ handler'[s][h] = w
      /\ \A g \in Handler : g # h => handler'[s][g] = handler[s][g]
  BY <1>2, <1>3, OneHandler
<1>5. Size(w) = Size(handler[s][h]) /\ \A k : Piece(w, k) = Piece(handler[s][h], k)
  BY <1>2 DEF Size, Piece
<1> QED
  BY <1>2, <1>4, <1>5

LEMMA StartUploadSteps ==
    ASSUME Typed, NEW s \in Session, UploadInv(s), StartUpload(s)
    PROVE  Typed' /\ UploadInv(s)'
<1>1. Typed'
  BY DEF Typed, StartUpload, historyVars
<1> USE DEF StartUpload, historyVars, UploadInv
<1>2. client'[s] = "open" /\ client[s] = "new" /\ Stored(s)' = Stored(s)
  BY DEF Typed, Stored
<1>3. LinesInv(s)'
  BY KeptLines, SentIsNat DEF Kept, KeptRecords, Stored
<1>4. ShapeInv(s)' /\ RowsInv(s)'
  BY <1>2 DEF ShapeInv, RowsInv, IsRowOf
<1>5. pending[s] = << >>
  <2>1. SUFFICES ASSUME pending[s] # << >> PROVE FALSE
    OBVIOUS
  <2>2. Run(pending[s]) /\ End(pending[s]) <= sent[s] /\ sent[s] = 0
    BY <1>2, <2>1 DEF LinesInv, PendingInv, ClientInv
  <2>3. End(pending[s]) \in Nat \ {0}
    BY <2>2, RunLength
  <2> QED
    BY <2>2, <2>3
<1>6. ClientInv(s)'
  BY <1>2, <1>5 DEF ClientInv, Waits
<1>7. SessionInv(s)'
  BY <1>2, <1>5 DEF SessionInv, ClientInv
<1> QED
  BY <1>1, <1>3, <1>4, <1>6, <1>7

LEMMA EndRequestSteps ==
    ASSUME Typed, NEW s \in Session, UploadInv(s), EndUpload(s) \/ CloseFailed(s)
    PROVE  Typed' /\ UploadInv(s)'
<1>1. handler' = [handler EXCEPT ![s]["end"].pc = "sent"]
      /\ UNCHANGED <<pending, docs, folding, sent>>
  BY DEF EndUpload, CloseFailed
<1>2. /\ handler' \in [Session -> [Handler -> HandlerState]]
      /\ handler'[s]["end"].pc = "sent"
      /\ \A g \in Handler : g # "end" => handler'[s][g] = handler[s][g]
      /\ \A g \in Handler :
            /\ handler'[s][g].chunk = handler[s][g].chunk
            /\ handler'[s][g].records = handler[s][g].records
            /\ handler'[s][g].rows = handler[s][g].rows
            /\ Size(handler'[s][g]) = Size(handler[s][g])
            /\ \A k \in 1 .. Size(handler[s][g]) : Piece(handler'[s][g], k) = Piece(handler[s][g], k)
  <2>1. handler' = PcSet(s, "end", "sent")
    BY <1>1 DEF PcSet
  <2> QED
    BY <2>1, PcChange, Handlers
<1>4. Stored(s)' = Stored(s)
  BY <1>1 DEF Stored
<1>5. LinesInv(s)'
  <2>1. UNCHANGED <<pending, folding, sent>>
    BY <1>1
  <2>2. KeptRecords(s)
    BY <1>2, <1>4, <2>1, SentIsNat DEF KeptRecords
  <2>3. Kept(s) /\ LinesInv(s)
    BY <1>2, <2>1, <2>2, Handlers DEF Kept, UploadInv
  <2> QED
    BY <2>3, KeptLines
<1>6. handler[s]["end"].pc = "idle" /\ handler'[s]["ingest"] = handler[s]["ingest"]
      /\ handler'[s]["sweep"] = handler[s]["sweep"]
  BY <1>2, Handlers DEF EndUpload, CloseFailed
<1>11. ShapeInv(s)'
  <2>1. ShapeInv(s)
    BY DEF UploadInv
  <2>2. ASSUME NEW g \in Handler
        PROVE  /\ handler'[s][g].pc # "working" =>
                     handler'[s][g].records = << >> /\ handler'[s][g].rows = << >>
               /\ handler'[s][g].chunk # << >> <=>
                     g = "ingest" /\ handler'[s][g].pc \in {"sent", "found"}
    <3>1. CASE g = "end"
      BY <1>2, <1>6, <2>1, <3>1 DEF ShapeInv
    <3>2. CASE g # "end"
      <4>1. handler'[s][g] = handler[s][g]
        BY <1>2, <3>2
      <4> QED
        BY <2>1, <4>1 DEF ShapeInv
    <3> QED
      BY <3>1, <3>2
  <2> QED
    BY <1>6, <2>1, <2>2 DEF ShapeInv
<1> USE DEF EndUpload, CloseFailed, historyVars, UploadInv
<1>3. Typed'
  BY <1>2 DEF Typed
<1>7. RowsInv(s)'
  <2>2. \A g \in Handler : handler'[s][g].rows = handler[s][g].rows
    BY <1>2
  <2> QED
    BY <1>4, <2>2 DEF RowsInv, IsRowOf
<1>8. \/ client[s] = "open" /\ client'[s] = "ending" /\ sent[s] = FileLines
      \/ client[s] = "failing" /\ client'[s] = "failed"
  BY DEF Typed
<1>9. ClientInv(s)'
  BY <1>2, <1>6, <1>8 DEF ClientInv, Waits
<1>10. SessionInv(s)'
  BY <1>2, <1>6, <1>8 DEF SessionInv
<1> QED
  BY <1>3, <1>5, <1>7, <1>9, <1>10, <1>11

LEMMA StopWaitingSteps ==
    ASSUME Typed, NEW s \in Session, UploadInv(s), StopWaiting(s)
    PROVE  Typed' /\ UploadInv(s)'
<1> USE DEF StopWaiting, memoryVars, UploadInv
<1>1. Typed'
  BY DEF Typed
<1>2. Stored(s)' = Stored(s)
  BY DEF Stored
<1>3. LinesInv(s)'
  BY <1>2, KeptLines, SentIsNat DEF Kept, KeptRecords
<1>4. ShapeInv(s)' /\ RowsInv(s)'
  BY <1>2 DEF ShapeInv, RowsInv, IsRowOf
<1>5. client[s] \in {"open", "waiting", "ending"} /\ client'[s] = "failing"
      /\ cancelled' = IF client[s] = "waiting" THEN cancelled \union {s} ELSE cancelled
  BY DEF Typed
<1>6. ClientInv(s)'
  BY <1>5 DEF ClientInv, Waits
<1>7. SessionInv(s)'
  BY <1>5 DEF SessionInv
<1> QED
  BY <1>1, <1>3, <1>4, <1>6, <1>7

LEMMA GoStaleSteps ==
    ASSUME Typed, NEW s \in Session, UploadInv(s), GoStale(s)
    PROVE  Typed' /\ UploadInv(s)'
<1> USE DEF GoStale, uploadVars, historyVars, UploadInv
<1>1. Typed'
  BY DEF Typed
<1>2. Stored(s)' = Stored(s)
  BY DEF Stored
<1>3. LinesInv(s)'
  BY <1>2, KeptLines, SentIsNat DEF Kept, KeptRecords
<1>4. ShapeInv(s)' /\ RowsInv(s)'
  BY <1>2 DEF ShapeInv, RowsInv, IsRowOf
<1>5. ClientInv(s)'
  BY DEF ClientInv, Waits
<1>6. SessionInv(s)'
  BY DEF SessionInv
<1> QED
  BY <1>1, <1>3, <1>4, <1>5, <1>6

LEMMA IdleChange ==
    ASSUME Typed, NEW s \in Session, NEW h \in Handler, handler' = IdleSet(s, h)
    PROVE  /\ handler' \in [Session -> [Handler -> HandlerState]]
           /\ handler'[s][h].pc = "idle" /\ handler'[s][h].chunk = << >>
           /\ handler'[s][h].records = << >> /\ handler'[s][h].rows = << >>
           /\ Size(handler'[s][h]) = 0
           /\ \A g \in Handler : g # h => handler'[s][g] = handler[s][g]
           /\ handler'[s]["ingest"].chunk \in {<< >>, handler[s]["ingest"].chunk}
<1>1. handler' = SetHandler(s, h, Idle)
  BY DEF IdleSet, SetHandler
<1>2. /\ handler' \in [Session -> [Handler -> HandlerState]]
      /\ handler'[s][h] = Idle
      /\ \A g \in Handler : g # h => handler'[s][g] = handler[s][g]
  BY <1>1, OneHandler, IdleState
<1> QED
  BY <1>2, IdleState, Handlers

LEMMA LoseRequestSteps ==
    ASSUME Typed, NEW s \in Session, UploadInv(s), NEW h \in {"ingest", "end"}, LoseRequest(s, h)
    PROVE  Typed' /\ UploadInv(s)'
<1>1. h \in Handler /\ h # "sweep" /\ handler' = IdleSet(s, h)
      /\ UNCHANGED <<pending, docs, folding, sent>>
  BY DEF Handler, LoseRequest, IdleSet
<1>2. /\ handler' \in [Session -> [Handler -> HandlerState]]
      /\ handler'[s][h].pc = "idle" /\ handler'[s][h].chunk = << >>
      /\ handler'[s][h].records = << >> /\ handler'[s][h].rows = << >>
      /\ Size(handler'[s][h]) = 0
      /\ \A g \in Handler : g # h => handler'[s][g] = handler[s][g]
      /\ handler'[s]["ingest"].chunk \in {<< >>, handler[s]["ingest"].chunk}
  BY <1>1, IdleChange
<1>4. Stored(s)' = Stored(s)
  BY <1>1 DEF Stored
<1>5. LinesInv(s)'
  <2>1. UNCHANGED <<pending, folding, sent>>
    BY <1>1
  <2>2. \A g \in Handler : g = h \/ handler'[s][g] = handler[s][g]
    BY <1>2
  <2>3. KeptRecords(s)
    BY <1>2, <1>4, <2>1, <2>2, SentIsNat DEF KeptRecords
  <2>4. Kept(s) /\ LinesInv(s)
    BY <1>2, <2>1, <2>3 DEF Kept, UploadInv
  <2> QED
    BY <2>4, KeptLines
<1>10. ShapeInv(s)'
  <2>1. ShapeInv(s)
    BY DEF UploadInv
  <2>2. ASSUME NEW g \in Handler
        PROVE  /\ handler'[s][g].pc # "working" =>
                     handler'[s][g].records = << >> /\ handler'[s][g].rows = << >>
               /\ handler'[s][g].chunk # << >> <=>
                     g = "ingest" /\ handler'[s][g].pc \in {"sent", "found"}
    <3>1. CASE g = h
      BY <1>2, <3>1
    <3>2. CASE g # h
      <4>1. handler'[s][g] = handler[s][g]
        BY <1>2, <3>2
      <4> QED
        BY <2>1, <4>1 DEF ShapeInv
    <3> QED
      BY <3>1, <3>2
  <2>3. handler'[s]["sweep"] = handler[s]["sweep"]
    BY <1>1, <1>2, Handlers
  <2> QED
    BY <2>1, <2>2, <2>3 DEF ShapeInv
<1> USE DEF LoseRequest, historyVars, UploadInv
<1>3. Typed'
  BY <1>2 DEF Typed
<1>6. RowsInv(s)'
  <2>2. \A g \in Handler : \A k \in 1 .. Len(handler'[s][g].rows) :
          k \in 1 .. Len(handler[s][g].rows) /\ handler'[s][g].rows[k] = handler[s][g].rows[k]
    BY <1>2
  <2> QED
    BY <1>4, <2>2 DEF RowsInv, IsRowOf
<1>7. handler[s][h].pc = "sent"
      /\ client'[s] = IF client[s] \in {"waiting", "ending"} THEN "failing" ELSE client[s]
  BY DEF Typed
<1>8. ClientInv(s)'
  <2>1. CASE h = "ingest"
    BY <1>2, <1>7, <2>1, Handlers DEF ClientInv, Waits
  <2>2. CASE h = "end"
    BY <1>2, <1>7, <2>2, Handlers DEF ClientInv, Waits
  <2> QED
    BY <2>1, <2>2
<1>9. SessionInv(s)'
  <2>1. CASE h = "ingest"
    BY <1>2, <1>7, <2>1, Handlers DEF SessionInv
  <2>2. CASE h = "end"
    BY <1>2, <1>7, <2>2, Handlers DEF SessionInv
  <2> QED
    BY <2>1, <2>2
<1> QED
  BY <1>3, <1>5, <1>6, <1>8, <1>9, <1>10

LEMMA LookUpSteps ==
    ASSUME Typed, NEW s \in Session, UploadInv(s), LookUp(s)
    PROVE  Typed' /\ UploadInv(s)'
<1> USE DEF historyVars, UploadInv
<1>1. handler[s]["ingest"].pc = "sent" /\ Stored(s)' = Stored(s)
  BY DEF LookUp, Stored
<1>2. CASE s \in live
  <2>1. handler' = [handler EXCEPT ![s]["ingest"].pc = "found"] /\ stale' = stale \ {s}
        /\ UNCHANGED <<client, live, seq, pending, docs, restarts, source, header, folding, sent,
                       cancelled, crashed, unsaved, overwritten>>
    BY <1>2 DEF LookUp
  <2>2. /\ handler' \in [Session -> [Handler -> HandlerState]]
        /\ handler'[s]["ingest"].pc = "found"
        /\ \A g \in Handler : g # "ingest" => handler'[s][g] = handler[s][g]
        /\ \A g \in Handler :
              /\ handler'[s][g].chunk = handler[s][g].chunk
              /\ handler'[s][g].records = handler[s][g].records
              /\ handler'[s][g].rows = handler[s][g].rows
              /\ Size(handler'[s][g]) = Size(handler[s][g])
              /\ \A k \in 1 .. Size(handler[s][g]) :
                    Piece(handler'[s][g], k) = Piece(handler[s][g], k)
    <3>1. handler' = PcSet(s, "ingest", "found")
      BY <2>1 DEF PcSet
    <3> QED
      BY <3>1, PcChange, Handlers
  <2>3. Typed'
    BY <2>1, <2>2 DEF Typed
  <2>4. LinesInv(s)'
    <3>1. Kept(s)
      BY <1>1, <2>1, <2>2, Handlers, SentIsNat DEF Kept, KeptRecords
    <3> QED
      BY <3>1, KeptLines
  <2>5. ShapeInv(s)' /\ RowsInv(s)'
    BY <1>1, <2>1, <2>2, Handlers DEF ShapeInv, RowsInv, IsRowOf
  <2>6. ClientInv(s)'
    BY <1>1, <2>1, <2>2, Handlers DEF ClientInv, Waits
  <2>7. SessionInv(s)'
    BY <1>1, <1>2, <2>1, <2>2, Handlers DEF SessionInv
  <2> QED
    BY <2>3, <2>4, <2>5, <2>6, <2>7
<1>3. CASE s \notin live
  <2>1. handler' = [handler EXCEPT ![s]["ingest"] = Idle] /\ Answered(s, "ingest", FALSE)
        /\ UNCHANGED <<stale, live, seq, pending, docs, restarts, source, header, folding, sent,
                       cancelled, crashed, unsaved, overwritten>>
    BY <1>3 DEF LookUp, Finish
  <2>2. /\ handler' \in [Session -> [Handler -> HandlerState]]
        /\ handler'[s]["ingest"].pc = "idle" /\ handler'[s]["ingest"].chunk = << >>
        /\ handler'[s]["ingest"].records = << >> /\ handler'[s]["ingest"].rows = << >>
        /\ Size(handler'[s]["ingest"]) = 0
        /\ \A g \in Handler : g # "ingest" => handler'[s][g] = handler[s][g]
    <3>1. handler' = IdleSet(s, "ingest")
      BY <2>1 DEF IdleSet
    <3> QED
      BY <3>1, IdleChange, Handlers
  <2>3. client' \in [Session ->
              {"new", "open", "waiting", "ending", "failing", "failed", "succeeded"}]
        /\ client'[s] = IF client[s] = "waiting" THEN "failing" ELSE client[s]
    BY <2>1 DEF Answered, Typed
  <2>4. Typed'
    BY <2>1, <2>2, <2>3 DEF Typed
  <2>5. LinesInv(s)'
    <3>1. Kept(s)
      BY <1>1, <2>1, <2>2, SentIsNat DEF Kept, KeptRecords
    <3> QED
      BY <3>1, KeptLines
  <2>6. ShapeInv(s)'
    BY <1>1, <2>2, Handlers DEF ShapeInv
  <2>7. RowsInv(s)'
    <3>1. \A g \in Handler : \A k \in 1 .. Len(handler'[s][g].rows) :
            k \in 1 .. Len(handler[s][g].rows) /\ handler'[s][g].rows[k] = handler[s][g].rows[k]
      BY <2>2
    <3> QED
      BY <1>1, <2>1, <3>1 DEF RowsInv, IsRowOf
  <2>8. ClientInv(s)'
    BY <1>1, <2>1, <2>2, <2>3, Handlers DEF ClientInv, Waits
  <2>9. SessionInv(s)'
    BY <1>1, <1>3, <2>1, <2>2, <2>3, Handlers DEF SessionInv
  <2> QED
    BY <2>4, <2>5, <2>6, <2>7, <2>8, <2>9
<1> QED
  BY <1>2, <1>3

LEMMA EndSessionSteps ==
    ASSUME Typed, NEW s \in Session, UploadInv(s), EndSession(s)
    PROVE  Typed' /\ UploadInv(s)'
<1> USE DEF historyVars, UploadInv
<1>1. handler[s]["end"].pc = "sent" /\ Stored(s)' = Stored(s) /\ live' = live \ {s}
  BY DEF EndSession, Stored
<1>2. CASE s \in live
  <2>1. handler' = [handler EXCEPT ![s]["end"].pc = "found"]
        /\ UNCHANGED <<client, stale, seq, pending, docs, restarts, source, header, folding, sent,
                       cancelled, crashed, unsaved, overwritten>>
    BY <1>2 DEF EndSession
  <2>2. /\ handler' \in [Session -> [Handler -> HandlerState]]
        /\ handler'[s]["end"].pc = "found"
        /\ \A g \in Handler : g # "end" => handler'[s][g] = handler[s][g]
        /\ \A g \in Handler :
              /\ handler'[s][g].chunk = handler[s][g].chunk
              /\ handler'[s][g].records = handler[s][g].records
              /\ handler'[s][g].rows = handler[s][g].rows
              /\ Size(handler'[s][g]) = Size(handler[s][g])
              /\ \A k \in 1 .. Size(handler[s][g]) :
                    Piece(handler'[s][g], k) = Piece(handler[s][g], k)
    <3>1. handler' = PcSet(s, "end", "found")
      BY <2>1 DEF PcSet
    <3> QED
      BY <3>1, PcChange, Handlers
  <2>3. Typed'
    BY <1>1, <2>1, <2>2 DEF Typed
  <2>4. LinesInv(s)'
    <3>1. Kept(s)
      BY <1>1, <2>1, <2>2, Handlers, SentIsNat DEF Kept, KeptRecords
    <3> QED
      BY <3>1, KeptLines
  <2>5. ShapeInv(s)' /\ RowsInv(s)'
    BY <1>1, <2>1, <2>2, Handlers DEF ShapeInv, RowsInv, IsRowOf
  <2>6. ClientInv(s)'
    BY <1>1, <2>1, <2>2, Handlers DEF ClientInv, Waits
  <2>7. SessionInv(s)'
    BY <1>1, <1>2, <2>1, <2>2, Handlers DEF SessionInv, ClientInv
  <2> QED
    BY <2>3, <2>4, <2>5, <2>6, <2>7
<1>3. CASE s \notin live
  <2>1. handler' = [handler EXCEPT ![s]["end"] = Idle] /\ Answered(s, "end", TRUE)
        /\ UNCHANGED <<stale, seq, pending, docs, restarts, source, header, folding, sent,
                       cancelled, crashed, unsaved, overwritten>>
    BY <1>3 DEF EndSession, Finish
  <2>2. /\ handler' \in [Session -> [Handler -> HandlerState]]
        /\ handler'[s]["end"].pc = "idle" /\ handler'[s]["end"].chunk = << >>
        /\ handler'[s]["end"].records = << >> /\ handler'[s]["end"].rows = << >>
        /\ Size(handler'[s]["end"]) = 0
        /\ \A g \in Handler : g # "end" => handler'[s][g] = handler[s][g]
    <3>1. handler' = IdleSet(s, "end")
      BY <2>1 DEF IdleSet
    <3> QED
      BY <3>1, IdleChange, Handlers
  <2>3. client' \in [Session ->
              {"new", "open", "waiting", "ending", "failing", "failed", "succeeded"}]
        /\ client'[s] = IF client[s] = "ending" THEN "succeeded" ELSE client[s]
    BY <2>1 DEF Answered, Typed
  <2>4. Typed'
    BY <1>1, <2>1, <2>2, <2>3 DEF Typed
  <2>5. LinesInv(s)'
    <3>1. Kept(s)
      BY <1>1, <2>1, <2>2, Handlers, SentIsNat DEF Kept, KeptRecords
    <3> QED
      BY <3>1, KeptLines
  <2>6. ShapeInv(s)'
    BY <1>1, <2>2, Handlers DEF ShapeInv
  <2>7. RowsInv(s)'
    <3>1. \A g \in Handler : \A k \in 1 .. Len(handler'[s][g].rows) :
            k \in 1 .. Len(handler[s][g].rows) /\ handler'[s][g].rows[k] = handler[s][g].rows[k]
      BY <2>2
    <3> QED
      BY <1>1, <2>1, <3>1 DEF RowsInv, IsRowOf
  <2>8. ClientInv(s)'
    BY <1>1, <2>1, <2>2, <2>3, Handlers DEF ClientInv, Waits
  <2>9. SessionInv(s)'
    BY <1>1, <1>3, <2>1, <2>2, <2>3, Handlers DEF SessionInv
  <2> QED
    BY <2>4, <2>5, <2>6, <2>7, <2>8, <2>9
<1> QED
  BY <1>2, <1>3

LEMMA SendChunkSteps ==
    ASSUME Typed, NEW s \in Session, UploadInv(s), SendChunk(s)
    PROVE  Typed' /\ UploadInv(s)'
<1> USE DEF historyVars, UploadInv
<1>1. client[s] = "open" /\ client' = [client EXCEPT ![s] = "waiting"] /\ Stored(s)' = Stored(s)
      /\ UNCHANGED <<live, stale, seq, pending, docs, restarts, source, header, folding,
                     cancelled, crashed, unsaved, overwritten>>
  BY DEF SendChunk, Stored
<1>2. PICK n \in 1 .. FileLines - sent[s] :
         /\ sent' = [sent EXCEPT ![s] = @ + n]
         /\ handler' = [handler EXCEPT ![s]["ingest"] =
               [Idle EXCEPT !.pc = "sent", !.chunk = SubSeq(WholeFile, sent[s] + 1, sent[s] + n)]]
  BY DEF SendChunk
<1> DEFINE a == sent[s]
           c == SubSeq(WholeFile, a + 1, a + n)
           w == [Idle EXCEPT !.pc = "sent", !.chunk = c]
<1>3. a \in Nat /\ n \in Nat \ {0} /\ a + n <= FileLines /\ a + n \in Nat /\ FileLines \in Nat
  BY SentIsNat, FileLinesAssumption
<1>4. Run(c) /\ c[1] = a + 1 /\ End(c) = a + n
  <2> HIDE DEF a
  <2> QED
    BY <1>3, WholeFileIsRun
<1>5. sent' \in [Session -> 0 .. FileLines] /\ sent'[s] = a + n
  <2>1. sent \in [Session -> 0 .. FileLines] /\ a + n \in 0 .. FileLines
    BY <1>3 DEF Typed
  <2> QED
    BY <1>2, <2>1
<1> HIDE DEF c
<1>6. c \in Seq(Line) /\ c # << >>
  BY <1>4 DEF Run
<1>7. /\ w \in HandlerState /\ w.pc = "sent" /\ w.chunk = c
      /\ w.records = << >> /\ w.rows = << >> /\ Size(w) = 0
  BY <1>6, SentState
<1>8. handler' = SetHandler(s, "ingest", w)
  BY <1>2 DEF SetHandler, c
<1> HIDE DEF w
<1>9. /\ handler' \in [Session -> [Handler -> HandlerState]]
      /\ handler'[s]["ingest"] = w
      /\ \A g \in Handler : g # "ingest" => handler'[s][g] = handler[s][g]
  BY <1>7, <1>8, OneHandler, Handlers
<1>10. client' \in [Session ->
             {"new", "open", "waiting", "ending", "failing", "failed", "succeeded"}]
       /\ client'[s] = "waiting"
  BY <1>1 DEF Typed
<1>11. Typed'
  BY <1>1, <1>5, <1>9, <1>10 DEF Typed
<1>12. handler[s]["ingest"].pc = "idle" /\ handler[s]["ingest"].chunk = << >>
  BY <1>1, Handlers DEF ClientInv, ShapeInv
<1>13. KeptRecords(s)
  <2>1. sent[s] \in Nat /\ sent'[s] \in Nat /\ sent[s] <= sent'[s]
    BY <1>3, <1>5
  <2>2. \A h \in Handler : Size(handler'[s][h]) = 0 \/ handler'[s][h] = handler[s][h]
    BY <1>7, <1>9
  <2>3. folding'[s] = folding[s] /\ pending'[s] = pending[s] /\ Stored(s)' = Stored(s)
    BY <1>1
  <2> QED
    BY <2>1, <2>2, <2>3 DEF KeptRecords
<1>14. PiecesInv(s)' /\ DocsInv(s)' /\ PendingInv(s)'
  BY <1>13, KeptRecordsInv
<1>15. ChunkInv(s)'
  <2>1. \A r : Run(r) /\ End(r) <= a => Before(r, c)
    BY <1>3, <1>4, RunLength DEF Before
  <2>2. pending[s] # << >> => c[1] = End(pending[s]) + 1
    BY <1>1, <1>4, <1>12 DEF ClientInv, Waits
  <2>3. \A d \in Stored(s) : Before(d.lines, c)
    BY <2>1 DEF LinesInv, DocsInv
  <2>4. ASSUME NEW h \in Handler, NEW k \in 1 .. Size(handler'[s][h])
        PROVE  Before(Piece(handler'[s][h], k), c)
    <3>1. k \in 1 .. Size(handler[s][h]) /\ Piece(handler'[s][h], k) = Piece(handler[s][h], k)
      BY <1>13, PieceKept
    <3>2. Run(Piece(handler[s][h], k)) /\ End(Piece(handler[s][h], k)) <= a
      BY <3>1 DEF LinesInv, PiecesInv
    <3> QED
      BY <2>1, <3>1, <3>2
  <2>5. handler'[s]["ingest"].chunk = c /\ pending'[s] = pending[s] /\ Stored(s)' = Stored(s)
        /\ sent'[s] = End(c)
    BY <1>1, <1>4, <1>5, <1>7, <1>9
  <2> HIDE DEF a
  <2> QED
    BY <1>4, <2>2, <2>3, <2>4, <2>5 DEF ChunkInv
<1>16. LinesInv(s)'
  BY <1>14, <1>15 DEF LinesInv
<1>17. ShapeInv(s)'
  BY <1>6, <1>7, <1>9, Handlers DEF ShapeInv
<1>18. RowsInv(s)'
  <2>1. \A g \in Handler : \A k \in 1 .. Len(handler'[s][g].rows) :
          k \in 1 .. Len(handler[s][g].rows) /\ handler'[s][g].rows[k] = handler[s][g].rows[k]
    BY <1>7, <1>9
  <2>2. source' = source /\ seq' = seq /\ Stored(s)' = Stored(s)
    BY <1>1
  <2>3. RowsInv(s)
    OBVIOUS
  <2> QED
    BY <2>1, <2>2, <2>3, RowsKept
<1>19. ClientInv(s)'
  BY <1>1, <1>6, <1>7, <1>9, <1>10, <1>12, Handlers DEF ClientInv, Waits
<1>20. SessionInv(s)'
  BY <1>1, <1>7, <1>9, <1>10, Handlers DEF SessionInv
<1> QED
  BY <1>11, <1>16, <1>17, <1>18, <1>19, <1>20

-----------------------------------------------------------------------------
(* A folder hands lines to a handler.                                      *)

Inside(r, a, d) == Run(r) /\ a <= r[1] /\ End(r) <= d
Outside(r, a, d) == End(r) < a \/ d < r[1]

LEMMA OutsideIsApart ==
    ASSUME NEW a \in Nat, NEW d \in Nat, NEW r, NEW q, Run(r), Outside(r, a, d), Inside(q, a, d)
    PROVE  Apart(r, q) /\ Apart(q, r)
<1>1. End(r) \in Nat /\ r[1] \in Nat /\ End(q) \in Nat /\ q[1] \in Nat
  BY RunLength DEF Inside
<1> QED
  BY <1>1 DEF Apart, Before, Outside, Inside

(* The lines a .. d, in which only the folder and the chunk have lines,    *)
(* become the pieces C of handler h and the record H in the folder.        *)
Handed(s, h, a, d, C, H) ==
    /\ a \in Nat /\ d \in Nat /\ d <= sent[s] /\ sent[s] \in Nat
    /\ \A e \in Stored(s) : Outside(e.lines, a, d)
    /\ \A g \in Handler : g # h =>
          \A k \in 1 .. Size(handler[s][g]) : Outside(Piece(handler[s][g], k), a, d)
    /\ \A k \in 1 .. Len(C) : Inside(C[k], a, d)
    /\ InOrder(C)
    /\ H # << >> => folding[s] /\ Inside(H, a, d) /\ \A k \in 1 .. Len(C) : Before(C[k], H)
    /\ Size(handler'[s][h]) = Len(C) /\ \A k \in 1 .. Len(C) : Piece(handler'[s][h], k) = C[k]
    /\ \A g \in Handler : g # h => handler'[s][g] = handler[s][g]
    /\ pending'[s] = H
    /\ Stored(s)' = Stored(s) /\ sent' = sent /\ folding' = folding

LEMMA HandedLines ==
    ASSUME NEW s \in Session, LinesInv(s), NEW h \in Handler, NEW a, NEW d, NEW C, NEW H,
           Handed(s, h, a, d, C, H)
    PROVE  PiecesInv(s)' /\ DocsInv(s)' /\ PendingInv(s)'
<1> USE DEF Handed
<1>1. \A r : Inside(r, a, d) => Run(r) /\ End(r) <= sent[s]
  BY RunLength DEF Inside
<1>2. \A g \in Handler : g # h => handler'[s][g] = handler[s][g]
  OBVIOUS
<1>3. \A k \in 1 .. Size(handler'[s][h]) : Piece(handler'[s][h], k) = C[k] /\ Inside(C[k], a, d)
  OBVIOUS
<1>4. \A r, q : Run(r) /\ Outside(r, a, d) /\ Inside(q, a, d) => Apart(r, q) /\ Apart(q, r)
  BY OutsideIsApart
<1>5. PiecesInv(s) /\ DocsInv(s)
  BY DEF LinesInv
<1>6. ASSUME NEW g \in Handler
      PROVE  /\ \A k \in 1 .. Size(handler'[s][g]) :
                   Run(Piece(handler'[s][g], k)) /\ End(Piece(handler'[s][g], k)) <= sent'[s]
             /\ \A k, l \in 1 .. Size(handler'[s][g]) :
                   k < l => Before(Piece(handler'[s][g], k), Piece(handler'[s][g], l))
             /\ \A f \in Handler \ {g} :
                   \A k \in 1 .. Size(handler'[s][g]), l \in 1 .. Size(handler'[s][f]) :
                      Apart(Piece(handler'[s][g], k), Piece(handler'[s][f], l))
  <2>1. CASE g = h
    <3>1. \A k \in 1 .. Size(handler'[s][g]) :
             Run(Piece(handler'[s][g], k)) /\ End(Piece(handler'[s][g], k)) <= sent'[s]
      BY <1>1, <1>3, <2>1
    <3>2. \A k, l \in 1 .. Size(handler'[s][g]) :
             k < l => Before(Piece(handler'[s][g], k), Piece(handler'[s][g], l))
      BY <2>1 DEF InOrder
    <3>3. ASSUME NEW f \in Handler \ {g}, NEW k \in 1 .. Size(handler'[s][g]),
                 NEW l \in 1 .. Size(handler'[s][f])
          PROVE  Apart(Piece(handler'[s][g], k), Piece(handler'[s][f], l))
      <4>1. handler'[s][f] = handler[s][f]
        BY <1>2, <2>1
      <4>2. Run(Piece(handler[s][f], l)) /\ Outside(Piece(handler[s][f], l), a, d)
        BY <1>5, <2>1, <4>1 DEF PiecesInv
      <4> QED
        BY <1>3, <1>4, <2>1, <4>1, <4>2
    <3> QED
      BY <3>1, <3>2, <3>3
  <2>2. CASE g # h
    <3>1. handler'[s][g] = handler[s][g]
      BY <1>2, <2>2
    <3>2. /\ \A k \in 1 .. Size(handler[s][g]) :
                Run(Piece(handler[s][g], k)) /\ End(Piece(handler[s][g], k)) <= sent[s]
          /\ \A k, l \in 1 .. Size(handler[s][g]) :
                k < l => Before(Piece(handler[s][g], k), Piece(handler[s][g], l))
      BY <1>5 DEF PiecesInv
    <3>3. ASSUME NEW f \in Handler \ {g}, NEW k \in 1 .. Size(handler'[s][g]),
                 NEW l \in 1 .. Size(handler'[s][f])
          PROVE  Apart(Piece(handler'[s][g], k), Piece(handler'[s][f], l))
      <4>1. CASE f = h
        <5>1. Run(Piece(handler[s][g], k)) /\ Outside(Piece(handler[s][g], k), a, d)
          BY <2>2, <3>1, <3>2
        <5> QED
          BY <1>3, <1>4, <3>1, <4>1, <5>1
      <4>2. CASE f # h
        BY <1>2, <1>5, <3>1, <4>2 DEF PiecesInv
      <4> QED
        BY <4>1, <4>2
    <3> QED
      BY <3>1, <3>2, <3>3
  <2> QED
    BY <2>1, <2>2
<1>7. PiecesInv(s)'
  BY <1>6 DEF PiecesInv
<1>8. ASSUME NEW e \in Stored(s)
      PROVE  /\ Run(e.lines) /\ End(e.lines) <= sent'[s]
             /\ \A f \in Stored(s) \ {e} : Apart(e.lines, f.lines)
             /\ \A g \in Handler : \A k \in 1 .. Size(handler'[s][g]) :
                   Apart(e.lines, Piece(handler'[s][g], k))
  <2>1. /\ Run(e.lines) /\ End(e.lines) <= sent'[s]
        /\ \A f \in Stored(s) \ {e} : Apart(e.lines, f.lines)
    BY <1>5 DEF DocsInv
  <2>2. ASSUME NEW g \in Handler, NEW k \in 1 .. Size(handler'[s][g])
        PROVE  Apart(e.lines, Piece(handler'[s][g], k))
    <3>1. CASE g = h
      BY <1>3, <1>4, <2>1, <3>1
    <3>2. CASE g # h
      BY <1>2, <1>5, <3>2 DEF DocsInv
    <3> QED
      BY <3>1, <3>2
  <2> QED
    BY <2>1, <2>2
<1>9. DocsInv(s)'
  BY <1>8 DEF DocsInv
<1>10. ASSUME pending'[s] # << >>
       PROVE  /\ folding'[s] /\ Run(pending'[s]) /\ End(pending'[s]) <= sent'[s]
              /\ \A e \in Stored(s)' : Apart(e.lines, pending'[s])
              /\ \A g \in Handler : \A k \in 1 .. Size(handler'[s][g]) :
                    Apart(Piece(handler'[s][g], k), pending'[s])
  <2>1. H # << >> /\ pending'[s] = H /\ Inside(H, a, d) /\ folding'[s]
    BY <1>10
  <2>2. Run(H) /\ End(H) <= sent'[s]
    BY <1>1, <2>1
  <2>3. \A e \in Stored(s)' : Apart(e.lines, H)
    BY <1>4, <1>8, <2>1
  <2>4. ASSUME NEW g \in Handler, NEW k \in 1 .. Size(handler'[s][g])
        PROVE  Apart(Piece(handler'[s][g], k), H)
    <3>1. CASE g = h
      BY <1>3, <2>1, <3>1 DEF Apart
    <3>2. CASE g # h
      <4>1. Run(Piece(handler[s][g], k)) /\ Outside(Piece(handler[s][g], k), a, d)
        BY <1>2, <1>5, <3>2 DEF PiecesInv
      <4> QED
        BY <1>2, <1>4, <2>1, <3>2, <4>1
    <3> QED
      BY <3>1, <3>2
  <2> QED
    BY <2>1, <2>2, <2>3, <2>4
<1>11. PendingInv(s)'
  BY <1>10 DEF PendingInv
<1> QED
  BY <1>7, <1>9, <1>11

LEMMA WorkingChange ==
    ASSUME Typed, NEW s \in Session, NEW h \in Handler, NEW R \in Seq(Seq(Line)),
           handler' = SetHandler(s, h, Working(R))
    PROVE  /\ handler' \in [Session -> [Handler -> HandlerState]]
           /\ handler'[s][h].pc = "working" /\ handler'[s][h].chunk = << >>
           /\ handler'[s][h].records = R /\ handler'[s][h].rows = << >>
           /\ Size(handler'[s][h]) = Len(R)
           /\ \A k \in 1 .. Len(R) : Piece(handler'[s][h], k) = R[k]
           /\ \A g \in Handler : g # h => handler'[s][g] = handler[s][g]
<1>2. /\ handler' \in [Session -> [Handler -> HandlerState]]
      /\ handler'[s][h] = Working(R)
      /\ \A g \in Handler : g # h => handler'[s][g] = handler[s][g]
  BY OneHandler, WorkingState
<1> QED
  BY <1>2, WorkingState

LEMMA EmptyFlushSteps ==
    ASSUME Typed, NEW s \in Session, UploadInv(s), NEW h \in Handler, Flush(s, h),
           pending[s] = << >>
    PROVE  Typed' /\ UploadInv(s)'
<1> USE DEF historyVars, UploadInv
<1>1. h # "ingest" /\ handler[s][h].pc = "found" /\ Stored(s)' = Stored(s)
      /\ pending' = [pending EXCEPT ![s] = << >>] /\ Answered(s, h, TRUE)
      /\ handler' = [handler EXCEPT ![s][h] = Idle]
      /\ UNCHANGED <<live, stale, seq, docs, restarts, source, header, folding, sent,
                     cancelled, crashed, unsaved, overwritten>>
  BY DEF Flush, Stored, Finish
<1>2. /\ handler' \in [Session -> [Handler -> HandlerState]]
      /\ handler'[s][h].pc = "idle" /\ handler'[s][h].chunk = << >>
      /\ handler'[s][h].records = << >> /\ handler'[s][h].rows = << >>
      /\ Size(handler'[s][h]) = 0
      /\ \A g \in Handler : g # h => handler'[s][g] = handler[s][g]
  <2>1. handler' = [handler EXCEPT ![s][h] = Idle]
    BY <1>1
  <2> QED
    <3>1. handler' = IdleSet(s, h)
      BY <2>1 DEF IdleSet
    <3> QED
      BY <3>1, IdleChange
<1>3. client' \in [Session ->
            {"new", "open", "waiting", "ending", "failing", "failed", "succeeded"}]
      /\ client'[s] = IF h = "end" /\ client[s] = "ending" THEN "succeeded" ELSE client[s]
  BY <1>1 DEF Answered, Typed
<1>4. pending' \in [Session -> Seq(Line)] /\ pending'[s] = << >>
  BY <1>1 DEF Typed
<1>5. Typed'
  BY <1>1, <1>2, <1>3, <1>4 DEF Typed
<1>6. LinesInv(s)'
  <2>1. \A g \in Handler : Size(handler'[s][g]) = 0 \/ handler'[s][g] = handler[s][g]
    BY <1>2
  <2>2. sent' = sent /\ folding' = folding /\ Stored(s)' = Stored(s)
        /\ handler'[s]["ingest"] = handler[s]["ingest"]
    BY <1>1, <1>2, Handlers
  <2>3. Kept(s)
    BY <1>4, <2>1, <2>2, SentIsNat DEF Kept, KeptRecords
  <2> QED
    BY <2>3, KeptLines
<1>7. ShapeInv(s)'
  BY <1>1, <1>2, Handlers DEF ShapeInv
<1>8. RowsInv(s)'
  <2>1. \A g \in Handler : \A k \in 1 .. Len(handler'[s][g].rows) :
          k \in 1 .. Len(handler[s][g].rows) /\ handler'[s][g].rows[k] = handler[s][g].rows[k]
    BY <1>2
  <2>2. source' = source /\ seq' = seq /\ Stored(s)' = Stored(s)
    BY <1>1
  <2>3. RowsInv(s)
    OBVIOUS
  <2> QED
    BY <2>1, <2>2, <2>3, RowsKept
<1>9. h = "end" \/ h = "sweep"
  BY <1>1, Handlers
<1>10. ClientInv(s)'
  <2>1. CASE h = "end"
    BY <1>1, <1>2, <1>3, <1>4, <2>1, Handlers DEF ClientInv, Waits
  <2>2. CASE h = "sweep"
    BY <1>1, <1>2, <1>3, <1>4, <2>2, Handlers DEF ClientInv, Waits
  <2> QED
    BY <1>9, <2>1, <2>2
<1>11. SessionInv(s)'
  <2>1. CASE h = "end"
    BY <1>1, <1>2, <1>3, <1>4, <2>1, Handlers DEF SessionInv
  <2>2. CASE h = "sweep"
    BY <1>1, <1>2, <1>3, <1>4, <2>2, Handlers DEF SessionInv
  <2> QED
    BY <1>9, <2>1, <2>2
<1> QED
  BY <1>5, <1>6, <1>7, <1>8, <1>10, <1>11

LEMMA FlushHands ==
    ASSUME Typed, NEW s \in Session, UploadInv(s), NEW h \in Handler, Flush(s, h),
           pending[s] # << >>
    PROVE  Handed(s, h, pending[s][1], End(pending[s]), <<pending[s]>>, << >>)
<1> DEFINE r == pending[s]
           C == <<r>>
<1>1. /\ Run(r) /\ End(r) <= sent[s]
      /\ \A d \in Stored(s) : Apart(d.lines, r)
      /\ \A g \in Handler : \A k \in 1 .. Size(handler[s][g]) : Apart(Piece(handler[s][g], k), r)
  BY DEF UploadInv, LinesInv, PendingInv
<1>2. r \in Seq(Line) /\ r # << >> /\ r[1] \in Nat /\ End(r) \in Nat /\ sent[s] \in Nat
      /\ C \in Seq(Seq(Line)) /\ Len(C) = 1 /\ C[1] = r
  BY <1>1, RunLength, SentIsNat DEF Run
<1>3. handler' = SetHandler(s, h, Working(C))
  BY DEF Flush, SetHandler
<1>4. pending'[s] = << >> /\ Stored(s)' = Stored(s) /\ sent' = sent /\ folding' = folding
  BY DEF Flush, Stored, Typed
<1> HIDE DEF C
<1>5. /\ Size(handler'[s][h]) = Len(C) /\ \A k \in 1 .. Len(C) : Piece(handler'[s][h], k) = C[k]
      /\ \A g \in Handler : g # h => handler'[s][g] = handler[s][g]
  BY <1>2, <1>3, WorkingChange
<1> HIDE DEF r
<1>6. Inside(r, r[1], End(r))
  BY <1>1, <1>2 DEF Inside
<1>7. \A k \in 1 .. Len(C) : Inside(C[k], r[1], End(r))
  BY <1>2, <1>6
<1>8. InOrder(C)
  BY <1>2 DEF InOrder
<1>9. Handed(s, h, r[1], End(r), C, << >>)
  BY <1>1, <1>2, <1>4, <1>5, <1>7, <1>8 DEF Handed, Outside, Apart, Before
<1> QED
  BY <1>9 DEF C, r

LEMMA FlushSteps ==
    ASSUME Typed, NEW s \in Session, UploadInv(s), NEW h \in Handler, Flush(s, h),
           pending[s] # << >>
    PROVE  Typed' /\ UploadInv(s)'
<1> DEFINE r == pending[s]
           C == <<r>>
<1> USE DEF historyVars, UploadInv
<1>1. h # "ingest" /\ handler[s][h].pc = "found" /\ Stored(s)' = Stored(s)
      /\ pending' = [pending EXCEPT ![s] = << >>]
      /\ handler' = SetHandler(s, h, Working(C))
      /\ UNCHANGED <<client, live, stale, seq, docs, restarts, source, header, folding, sent,
                     cancelled, crashed, unsaved, overwritten>>
  BY DEF Flush, Stored, SetHandler
<1>2. /\ Run(r) /\ r \in Seq(Line) /\ r # << >>
  BY DEF LinesInv, PendingInv, Run
<1>3. C \in Seq(Seq(Line)) /\ Len(C) = 1 /\ C[1] = r
  BY <1>2
<1>4. Handed(s, h, r[1], End(r), C, << >>)
  BY FlushHands
<1> HIDE DEF C
<1>5. /\ handler' \in [Session -> [Handler -> HandlerState]]
      /\ handler'[s][h].pc = "working" /\ handler'[s][h].chunk = << >>
      /\ handler'[s][h].records = C /\ handler'[s][h].rows = << >>
      /\ Size(handler'[s][h]) = Len(C)
      /\ \A k \in 1 .. Len(C) : Piece(handler'[s][h], k) = C[k]
      /\ \A g \in Handler : g # h => handler'[s][g] = handler[s][g]
  BY <1>1, <1>3, WorkingChange
<1>6. pending' \in [Session -> Seq(Line)] /\ pending'[s] = << >>
  BY <1>1 DEF Typed
<1>7. Typed'
  BY <1>1, <1>5, <1>6 DEF Typed
<1>8. PiecesInv(s)' /\ DocsInv(s)' /\ PendingInv(s)'
  BY <1>4, HandedLines
<1>9. ChunkInv(s)'
  <2> DEFINE c == handler[s]["ingest"].chunk
  <2>1. handler'[s]["ingest"].chunk = c
    BY <1>1, <1>5, Handlers
  <2> SUFFICES ASSUME c # << >>
               PROVE  /\ Run(c) /\ End(c) = sent'[s]
                      /\ pending'[s] # << >> => c[1] = End(pending'[s]) + 1
                      /\ \A d \in Stored(s)' : Before(d.lines, c)
                      /\ \A g \in Handler : \A k \in 1 .. Size(handler'[s][g]) :
                            Before(Piece(handler'[s][g], k), c)
    BY <2>1 DEF ChunkInv
  <2>2. /\ Run(c) /\ End(c) = sent[s] /\ c[1] = End(r) + 1
        /\ \A d \in Stored(s) : Before(d.lines, c)
        /\ \A g \in Handler : \A k \in 1 .. Size(handler[s][g]) : Before(Piece(handler[s][g], k), c)
    BY <1>2 DEF LinesInv, ChunkInv
  <2> HIDE DEF c, r
  <2>3. Before(r, c)
    BY <1>2, <2>2, RunLength DEF Before
  <2>4. ASSUME NEW g \in Handler, NEW k \in 1 .. Size(handler'[s][g])
        PROVE  Before(Piece(handler'[s][g], k), c)
    <3>1. CASE g = h
      <4>1. k = 1 /\ Piece(handler'[s][g], k) = r
        BY <1>3, <1>5, <3>1
      <4> QED
        BY <2>3, <4>1
    <3>2. CASE g # h
      BY <1>5, <2>2, <3>2
    <3> QED
      BY <3>1, <3>2
  <2>5. sent'[s] = sent[s] /\ Stored(s)' = Stored(s)
    BY <1>1
  <2> QED
    BY <1>6, <2>2, <2>4, <2>5
<1>10. LinesInv(s)'
  BY <1>8, <1>9 DEF LinesInv
<1>11. ShapeInv(s)'
  BY <1>1, <1>5, Handlers DEF ShapeInv
<1>12. RowsInv(s)'
  <2>1. \A g \in Handler : \A k \in 1 .. Len(handler'[s][g].rows) :
          k \in 1 .. Len(handler[s][g].rows) /\ handler'[s][g].rows[k] = handler[s][g].rows[k]
    BY <1>5
  <2>2. source' = source /\ seq' = seq /\ Stored(s)' = Stored(s)
    BY <1>1
  <2>3. RowsInv(s)
    OBVIOUS
  <2> QED
    BY <2>1, <2>2, <2>3, RowsKept
<1>13. h = "end" \/ h = "sweep"
  BY <1>1, Handlers
<1>14. ClientInv(s)'
  <2>1. CASE h = "end"
    BY <1>1, <1>5, <1>6, <2>1, Handlers DEF ClientInv, Waits
  <2>2. CASE h = "sweep"
    BY <1>1, <1>5, <1>6, <2>2, Handlers DEF ClientInv, Waits
  <2> QED
    BY <1>13, <2>1, <2>2
<1>15. SessionInv(s)'
  <2>1. CASE h = "end"
    BY <1>1, <1>5, <1>6, <2>1, Handlers DEF SessionInv
  <2>2. CASE h = "sweep"
    BY <1>1, <1>5, <1>6, <2>2, Handlers DEF SessionInv
  <2> QED
    BY <1>13, <2>1, <2>2
<1> QED
  BY <1>7, <1>10, <1>11, <1>12, <1>14, <1>15

(* What Feed makes of the lines it gets, and the lines they are.           *)
FedFrom(s) == IF pending[s] = << >> THEN handler[s]["ingest"].chunk[1] ELSE pending[s][1]
FedClosed(s) == Closed(folding[s], pending[s], handler[s]["ingest"].chunk, header[s])
FedHeld(s) == HeldBack(folding[s], pending[s], handler[s]["ingest"].chunk, header[s])

LEMMA FeedFeeds ==
    ASSUME Typed, NEW s \in Session, UploadInv(s), handler[s]["ingest"].pc = "found"
    PROVE  /\ Run(handler[s]["ingest"].chunk) /\ End(handler[s]["ingest"].chunk) = sent[s]
           /\ FedFrom(s) \in Nat /\ FedFrom(s) <= handler[s]["ingest"].chunk[1]
           /\ pending[s] # << >> => Run(pending[s])
           /\ pending[s] # << >> => handler[s]["ingest"].chunk[1] = End(pending[s]) + 1
           /\ Fed(folding[s], FedFrom(s), handler[s]["ingest"].chunk[1], sent[s], header[s],
                  FedClosed(s), FedHeld(s))
<1> DEFINE c == handler[s]["ingest"].chunk
           p == pending[s]
           o == header[s]
<1>1. c # << >>
  BY Handlers DEF UploadInv, ShapeInv
<1>2. Run(c) /\ End(c) = sent[s] /\ (p # << >> => c[1] = End(p) + 1)
  BY <1>1 DEF UploadInv, LinesInv, ChunkInv
<1>3. p # << >> => Run(p) /\ folding[s]
  BY DEF UploadInv, LinesInv, PendingInv
<1>4. o \subseteq Line /\ folding[s] \in BOOLEAN
  BY DEF Typed
<1>5. c[1] \in Nat
  BY <1>2, RunLength
<1>6. FedFrom(s) = IF p = << >> THEN c[1] ELSE p[1]
  BY DEF FedFrom
<1>7. FedFrom(s) \in Nat /\ FedFrom(s) <= c[1]
  <2> HIDE DEF c, p
  <2>1. CASE p = << >>
    BY <1>5, <1>6, <2>1
  <2>2. CASE p # << >>
    <3>1. p[1] \in Nat /\ End(p) \in Nat /\ p[1] <= End(p) /\ c[1] = End(p) + 1
      BY <1>2, <1>3, <2>2, RunLength
    <3> QED
      BY <1>6, <2>2, <3>1
  <2> QED
    BY <2>1, <2>2
<1>8. FedClosed(s) = Closed(folding[s], p, c, o) /\ FedHeld(s) = HeldBack(folding[s], p, c, o)
  BY DEF FedClosed, FedHeld
<1> HIDE DEF c, p, o
<1>9. Fed(folding[s], FedFrom(s), c[1], End(c), o, FedClosed(s), FedHeld(s))
  <2>1. CASE folding[s] = TRUE
    <3>1. p = << >> \/ Run(p)
      BY <1>3
    <3>2. Fed(TRUE, IF p = << >> THEN c[1] ELSE p[1], c[1], End(c), o,
              Closed(TRUE, p, c, o), HeldBack(TRUE, p, c, o))
      BY <1>2, <1>4, <3>1, FeedFolds
    <3> QED
      BY <1>6, <1>8, <2>1, <3>2
  <2>2. CASE folding[s] = FALSE
    <3>1. p = << >>
      BY <1>3, <2>2
    <3>2. Fed(FALSE, c[1], c[1], End(c), o, Closed(FALSE, << >>, c, o), HeldBack(FALSE, << >>, c, o))
      BY <1>2, FeedSingles
    <3> QED
      BY <1>6, <1>8, <2>2, <3>1, <3>2
  <2> QED
    BY <1>4, <2>1, <2>2
<1> QED
  BY <1>2, <1>3, <1>7, <1>9 DEF c, p, o

LEMMA FeedHandler ==
    ASSUME Typed, NEW s \in Session, UploadInv(s), Feed(s)
    PROVE  /\ handler' \in [Session -> [Handler -> HandlerState]]
           /\ handler'[s]["ingest"].pc = IF FedClosed(s) = << >> THEN "idle" ELSE "working"
           /\ handler'[s]["ingest"].chunk = << >>
           /\ handler'[s]["ingest"].records = FedClosed(s) /\ handler'[s]["ingest"].rows = << >>
           /\ Size(handler'[s]["ingest"]) = Len(FedClosed(s))
           /\ \A k \in 1 .. Len(FedClosed(s)) : Piece(handler'[s]["ingest"], k) = FedClosed(s)[k]
           /\ \A g \in Handler : g # "ingest" => handler'[s][g] = handler[s][g]
           /\ client' \in [Session ->
                 {"new", "open", "waiting", "ending", "failing", "failed", "succeeded"}]
           /\ client'[s] = IF FedClosed(s) = << >> /\ client[s] = "waiting" THEN "open" ELSE client[s]
           /\ pending' \in [Session -> Seq(Line)] /\ pending'[s] = FedHeld(s)
<1> DEFINE C == FedClosed(s)
           H == FedHeld(s)
<1>1. C \in Seq(Seq(Line)) /\ H \in Seq(Line)
  BY FeedFeeds DEF Feed, Fed
<1>2. pending' = [pending EXCEPT ![s] = H]
  BY DEF Feed, FedHeld
<1>3. pending' \in [Session -> Seq(Line)] /\ pending'[s] = H
  BY <1>1, <1>2 DEF Typed
<1>4. CASE C = << >>
  <2>1. handler' = [handler EXCEPT ![s]["ingest"] = Idle] /\ Answered(s, "ingest", TRUE)
    BY <1>4 DEF Feed, FedClosed, Finish
  <2>2. /\ handler' \in [Session -> [Handler -> HandlerState]]
        /\ handler'[s]["ingest"].pc = "idle" /\ handler'[s]["ingest"].chunk = << >>
        /\ handler'[s]["ingest"].records = << >> /\ handler'[s]["ingest"].rows = << >>
        /\ Size(handler'[s]["ingest"]) = 0
        /\ \A g \in Handler : g # "ingest" => handler'[s][g] = handler[s][g]
    <3>1. handler' = IdleSet(s, "ingest")
      BY <2>1 DEF IdleSet
    <3> QED
      BY <3>1, IdleChange, Handlers
  <2>3. client' \in [Session ->
              {"new", "open", "waiting", "ending", "failing", "failed", "succeeded"}]
        /\ client'[s] = IF client[s] = "waiting" THEN "open" ELSE client[s]
    BY <2>1 DEF Answered, Typed
  <2>4. Len(C) = 0
    BY <1>4
  <2> HIDE DEF C, H
  <2> QED
    BY <1>3, <1>4, <2>2, <2>3, <2>4 DEF C, H
<1>5. CASE C # << >>
  <2>1. handler' = SetHandler(s, "ingest", Working(C)) /\ client' = client
    BY <1>5 DEF Feed, FedClosed, SetHandler
  <2> HIDE DEF C, H
  <2>2. /\ handler' \in [Session -> [Handler -> HandlerState]]
        /\ handler'[s]["ingest"].pc = "working" /\ handler'[s]["ingest"].chunk = << >>
        /\ handler'[s]["ingest"].records = C /\ handler'[s]["ingest"].rows = << >>
        /\ Size(handler'[s]["ingest"]) = Len(C)
        /\ \A k \in 1 .. Len(C) : Piece(handler'[s]["ingest"], k) = C[k]
        /\ \A g \in Handler : g # "ingest" => handler'[s][g] = handler[s][g]
    BY <1>1, <2>1, WorkingChange, Handlers
  <2>3. client \in [Session ->
              {"new", "open", "waiting", "ending", "failing", "failed", "succeeded"}]
    BY DEF Typed
  <2> QED
    BY <1>3, <1>5, <2>1, <2>2, <2>3 DEF C, H
<1> QED
  BY <1>4, <1>5

LEMMA FeedHands ==
    ASSUME Typed, NEW s \in Session, UploadInv(s), Feed(s)
    PROVE  Handed(s, "ingest", FedFrom(s), sent[s], FedClosed(s), FedHeld(s))
<1> DEFINE a == FedFrom(s)
           d == sent[s]
           c == handler[s]["ingest"].chunk
           p == pending[s]
           C == FedClosed(s)
           H == FedHeld(s)
<1>1. /\ Run(c) /\ End(c) = d /\ a \in Nat /\ a <= c[1]
      /\ p # << >> => Run(p)
      /\ p # << >> => c[1] = End(p) + 1
      /\ Fed(folding[s], a, c[1], d, header[s], C, H)
  BY FeedFeeds DEF Feed
<1>2. c # << >>
  BY <1>1 DEF Run
<1>3. /\ \A e \in Stored(s) : Run(e.lines) /\ Before(e.lines, c)
      /\ p # << >> => \A e \in Stored(s) : Apart(e.lines, p)
  BY <1>2 DEF UploadInv, LinesInv, ChunkInv, DocsInv, PendingInv
<1>4. \A g \in Handler : \A k \in 1 .. Size(handler[s][g]) :
         /\ Run(Piece(handler[s][g], k)) /\ Before(Piece(handler[s][g], k), c)
         /\ p # << >> => Apart(Piece(handler[s][g], k), p)
  BY <1>2 DEF UploadInv, LinesInv, ChunkInv, PiecesInv, PendingInv
<1>5. d \in Nat
  BY SentIsNat
<1>6. a = IF p = << >> THEN c[1] ELSE p[1]
  BY DEF FedFrom
<1>7. /\ Size(handler'[s]["ingest"]) = Len(C)
      /\ \A k \in 1 .. Len(C) : Piece(handler'[s]["ingest"], k) = C[k]
      /\ \A g \in Handler : g # "ingest" => handler'[s][g] = handler[s][g]
      /\ pending'[s] = H
  BY FeedHandler
<1>8. Stored(s)' = Stored(s) /\ sent' = sent /\ folding' = folding /\ folding[s] \in BOOLEAN
  BY DEF Feed, Stored, Typed
<1> HIDE DEF a, d, c, p, C, H
<1>9. ASSUME NEW r, Run(r), Before(r, c), p # << >> => Apart(r, p)
      PROVE  Outside(r, a, d)
  <2>1. r[1] \in Nat /\ End(r) \in Nat /\ r[1] <= End(r) /\ c[1] \in Nat
    BY <1>1, <1>9, RunLength
  <2>2. CASE p = << >>
    BY <1>6, <1>9, <2>2 DEF Outside, Before
  <2>3. CASE p # << >>
    <3>1. Run(p) /\ End(p) \in Nat /\ p[1] \in Nat /\ c[1] = End(p) + 1
      BY <1>1, <2>3, RunLength
    <3>2. End(r) < p[1]
      BY <1>9, <2>1, <2>3, <3>1 DEF Apart, Before
    <3> QED
      BY <1>6, <2>3, <3>2 DEF Outside
  <2> QED
    BY <2>2, <2>3
<1>10. \A k \in 1 .. Len(C) : Inside(C[k], a, d)
  BY <1>1 DEF Fed, Inside
<1>11. InOrder(C)
  BY <1>1 DEF Fed
<1>12. H # << >> => folding[s] /\ Inside(H, a, d) /\ \A k \in 1 .. Len(C) : Before(C[k], H)
  BY <1>1, <1>5, <1>8 DEF Fed, Inside
<1>13. \A e \in Stored(s) : Outside(e.lines, a, d)
  BY <1>3, <1>9
<1>14. \A g \in Handler : \A k \in 1 .. Size(handler[s][g]) : Outside(Piece(handler[s][g], k), a, d)
  BY <1>4, <1>9
<1>15. d = sent[s]
  BY DEF d
<1>16. Handed(s, "ingest", a, d, C, H)
  BY <1>1, <1>5, <1>7, <1>8, <1>10, <1>11, <1>12, <1>13, <1>14, <1>15 DEF Handed
<1> QED
  BY <1>16 DEF a, d, C, H

LEMMA FeedSteps ==
    ASSUME Typed, NEW s \in Session, UploadInv(s), Feed(s)
    PROVE  Typed' /\ UploadInv(s)'
<1>1. handler[s]["ingest"].pc = "found" /\ Stored(s)' = Stored(s)
      /\ UNCHANGED <<live, stale, seq, docs, restarts, source, header, folding, sent,
                     cancelled, crashed, unsaved, overwritten>>
  BY DEF Feed, Stored, historyVars
<1> DEFINE C == FedClosed(s)
           H == FedHeld(s)
<1>2. /\ handler' \in [Session -> [Handler -> HandlerState]]
      /\ handler'[s]["ingest"].pc = IF C = << >> THEN "idle" ELSE "working"
      /\ handler'[s]["ingest"].chunk = << >>
      /\ handler'[s]["ingest"].records = C /\ handler'[s]["ingest"].rows = << >>
      /\ \A g \in Handler : g # "ingest" => handler'[s][g] = handler[s][g]
      /\ client' \in [Session ->
            {"new", "open", "waiting", "ending", "failing", "failed", "succeeded"}]
      /\ client'[s] = IF C = << >> /\ client[s] = "waiting" THEN "open" ELSE client[s]
      /\ pending' \in [Session -> Seq(Line)] /\ pending'[s] = H
  BY FeedHandler
<1>3. H # << >> => End(H) = sent[s]
  <2>1. Fed(folding[s], FedFrom(s), handler[s]["ingest"].chunk[1], sent[s], header[s], C, H)
    BY <1>1, FeedFeeds
  <2>2. folding[s] \in BOOLEAN
    BY DEF Typed
  <2> HIDE DEF C, H
  <2> QED
    BY <2>1, <2>2 DEF Fed
<1>4. PiecesInv(s)' /\ DocsInv(s)' /\ PendingInv(s)'
  <2>1. LinesInv(s)
    BY DEF UploadInv
  <2> QED
    BY <2>1, FeedHands, HandedLines, Handlers
<1> USE DEF UploadInv
<1> HIDE DEF C, H
<1>5. Typed'
  BY <1>1, <1>2 DEF Typed
<1>6. LinesInv(s)'
  BY <1>2, <1>4 DEF LinesInv, ChunkInv
<1>7. ShapeInv(s)'
  <2>1. ShapeInv(s)
    OBVIOUS
  <2>2. /\ handler'[s]["ingest"].pc \in {"idle", "working"} /\ handler'[s]["ingest"].chunk = << >>
        /\ handler'[s]["ingest"].pc # "working" => handler'[s]["ingest"].records = << >>
        /\ handler'[s]["ingest"].rows = << >>
        /\ \A g \in Handler : g # "ingest" => handler'[s][g] = handler[s][g]
    BY <1>2
  <2> HIDE DEF UploadInv
  <2> QED
    BY <2>1, <2>2, Handlers DEF ShapeInv
<1>8. RowsInv(s)'
  <2>1. \A g \in Handler : \A k \in 1 .. Len(handler'[s][g].rows) :
          k \in 1 .. Len(handler[s][g].rows) /\ handler'[s][g].rows[k] = handler[s][g].rows[k]
    <3>1. \A g \in Handler : handler'[s][g].rows = << >> \/ handler'[s][g] = handler[s][g]
      BY <1>2
    <3> QED
      BY <3>1
  <2>2. source' = source /\ seq' = seq /\ Stored(s)' = Stored(s)
    BY <1>1
  <2>3. RowsInv(s)
    OBVIOUS
  <2> QED
    BY <2>1, <2>2, <2>3, RowsKept
<1>9. handler'[s]["end"] = handler[s]["end"] /\ handler'[s]["sweep"] = handler[s]["sweep"]
  BY <1>2, Handlers
<1>10. ClientInv(s)'
  BY <1>1, <1>2, <1>3, <1>9 DEF ClientInv, Waits
<1>11. SessionInv(s)'
  BY <1>1, <1>2, <1>9 DEF SessionInv, ClientInv
<1> QED
  BY <1>5, <1>6, <1>7, <1>8, <1>10, <1>11

(* A record gets its number.                                               *)
Numbered(s, h) ==
    [session |-> s, source |-> source[s], seq |-> seq[s] + 1, lines |-> Head(handler[s][h].records)]

WithNumber(w, r) == [w EXCEPT !.records = Tail(w.records), !.rows = Append(w.rows, r)]

LEMMA NumberedPieces ==
    ASSUME NEW w \in HandlerState, w.records # << >>, NEW r \in Row, r.lines = Head(w.records),
              NEW v,
           v = WithNumber(w, r)
    PROVE  /\ v \in HandlerState /\ v.pc = w.pc /\ v.chunk = w.chunk
           /\ v.records = Tail(w.records)
           /\ v.records \in Seq(Seq(Line)) /\ v.rows \in Seq(Row)
           /\ Len(v.rows) = Len(w.rows) + 1
           /\ \A k \in 1 .. Len(w.rows) : v.rows[k] = w.rows[k]
           /\ v.rows[Len(w.rows) + 1] = r
           /\ Size(v) = Size(w) /\ \A k \in 1 .. Size(w) : Piece(v, k) = Piece(w, k)
<1> DEFINE R == w.records
           Q == w.rows
           n == Len(Q)
           m == Len(R)
<1>1. R \in Seq(Seq(Line)) /\ Q \in Seq(Row) /\ n \in Nat /\ m \in Nat
  BY StateParts
<1>2. R # << >>
  OBVIOUS
<1> HIDE DEF R, Q
<1>3. Tail(R) \in Seq(Seq(Line)) /\ Len(Tail(R)) = m - 1 /\ m # 0 /\ Head(R) = R[1]
      /\ \A k \in 1 .. m - 1 : Tail(R)[k] = R[k + 1]
  <2>1. R # << >> /\ R \in Seq(Seq(Line))
    BY <1>1, <1>2
  <2>2. Head(R) = R[1] /\ Tail(R) \in Seq(Seq(Line)) /\ Len(Tail(R)) = Len(R) - 1
        /\ \A i \in 1 .. Len(Tail(R)) : Tail(R)[i] = R[i + 1]
    BY <2>1, HeadTailProperties
  <2>3. m # 0
    BY <2>1, EmptySeq
  <2> QED
    BY <2>2, <2>3
<1>4. /\ Append(Q, r) \in Seq(Row) /\ Len(Append(Q, r)) = n + 1
      /\ \A k \in 1 .. n : Append(Q, r)[k] = Q[k]
      /\ Append(Q, r)[n + 1] = r
  BY <1>1, AppendProperties
<1>50. R = w.records /\ Q = w.rows
  BY DEF R, Q
<1>51. v.records = Tail(R) /\ v.rows = Append(Q, r) /\ v.pc = w.pc /\ v.chunk = w.chunk
  BY <1>50 DEF WithNumber, HandlerState
<1>5. v.records = Tail(R) /\ v.rows = Append(Q, r) /\ w.records = R /\ w.rows = Q /\ r.lines = R[1]
  BY <1>3, <1>50, <1>51
<1>52. v \in HandlerState
  <2> DEFINE A == Tail(R)
             B == Append(Q, r)
  <2>1. A \in Seq(Seq(Line)) /\ B \in Seq(Row)
    BY <1>3, <1>4
  <2>2. v = [w EXCEPT !.records = A, !.rows = B]
    BY <1>50 DEF WithNumber
  <2> HIDE DEF A, B
  <2> QED
    BY <2>1, <2>2 DEF HandlerState
<1>6. Size(v) = n + m /\ Size(w) = n + m
  <2>1. Size(v) = Len(v.rows) + Len(v.records) /\ Size(w) = Len(w.rows) + Len(w.records)
    BY DEF Size
  <2> QED
    BY <1>1, <1>3, <1>4, <1>5, <2>1
<1>7. ASSUME NEW k \in 1 .. n + m PROVE Piece(v, k) = Piece(w, k)
  <2>1. Piece(v, k) = IF k <= Len(v.rows) THEN v.rows[k].lines ELSE v.records[k - Len(v.rows)]
    BY DEF Piece
  <2>2. Piece(w, k) = IF k <= Len(w.rows) THEN w.rows[k].lines ELSE w.records[k - Len(w.rows)]
    BY DEF Piece
  <2>3. Len(v.rows) = n + 1 /\ Len(w.rows) = n
    BY <1>4, <1>5
  <2>4. CASE k <= n
    BY <1>1, <1>4, <1>5, <2>1, <2>2, <2>3, <2>4
  <2>5. CASE k = n + 1
    <3>1. ~(k <= n) /\ k <= n + 1 /\ k - n = 1
      BY <1>1, <2>5
    <3>2. Piece(v, k) = r.lines
      BY <1>4, <1>5, <2>1, <2>3, <2>5, <3>1
    <3>3. Piece(w, k) = R[1]
      BY <1>5, <2>2, <2>3, <3>1
    <3> QED
      BY <1>5, <3>2, <3>3
  <2>6. CASE k > n + 1
    <3>1. ~(k <= n) /\ ~(k <= n + 1) /\ k - (n + 1) \in 1 .. m - 1 /\ (k - (n + 1)) + 1 = k - n
      BY <1>1, <2>6
    <3>2. Piece(v, k) = Tail(R)[k - (n + 1)]
      BY <1>5, <2>1, <2>3, <3>1
    <3>3. Piece(w, k) = R[k - n]
      BY <1>5, <2>2, <2>3, <3>1
    <3> QED
      BY <1>3, <3>1, <3>2, <3>3
  <2>7. n \in Nat /\ m \in Nat
    BY <1>1
  <2> HIDE DEF n, m
  <2>8. k <= n \/ k = n + 1 \/ k > n + 1
    BY <2>7
  <2> QED
    BY <2>4, <2>5, <2>6, <2>8
<1> HIDE DEF n, m
<1>8. Len(w.rows) = n
  BY DEF n, Q
<1> QED
  BY <1>3, <1>4, <1>5, <1>51, <1>52, <1>6, <1>7, <1>8

LEMMA PostProcessHandler ==
    ASSUME Typed, NEW s \in Session, NEW h \in Handler, PostProcess(s, h)
    PROVE  /\ handler' \in [Session -> [Handler -> HandlerState]]
           /\ handler'[s][h].pc = "working" /\ handler'[s][h].chunk = handler[s][h].chunk
           /\ handler'[s][h].records = Tail(handler[s][h].records)
           /\ Len(handler'[s][h].rows) = Len(handler[s][h].rows) + 1
           /\ \A k \in 1 .. Len(handler[s][h].rows) : handler'[s][h].rows[k] = handler[s][h].rows[k]
           /\ handler'[s][h].rows[Len(handler[s][h].rows) + 1] = Numbered(s, h)
           /\ Size(handler'[s][h]) = Size(handler[s][h])
           /\ \A k \in 1 .. Size(handler[s][h]) : Piece(handler'[s][h], k) = Piece(handler[s][h], k)
           /\ \A g \in Handler : g # h => handler'[s][g] = handler[s][g]
<1> DEFINE w == handler[s][h]
           r == Numbered(s, h)
           v == [w EXCEPT !.records = Tail(w.records), !.rows = Append(w.rows, r)]
<1>1. w \in HandlerState
  BY DEF Typed
<1>2. w.pc = "working" /\ w.records # << >>
  BY DEF PostProcess
<1>3. r \in Row /\ r.lines = Head(w.records)
  <2>1. w.records \in Seq(Seq(Line))
    BY <1>1, StateParts
  <2> DEFINE R == w.records
             q == Head(w.records)
  <2>2. q \in Seq(Line)
    <3>1. R \in Seq(Seq(Line)) /\ R # << >>
      BY <1>2, <2>1
    <3> HIDE DEF R
    <3>2. Head(R) \in Seq(Line)
      BY <3>1, HeadTailProperties
    <3> QED
      BY <3>2 DEF R
  <2>3. source[s] \in FileName /\ seq[s] + 1 \in Nat
    BY DEF Typed
  <2>4. r = [session |-> s, source |-> source[s], seq |-> seq[s] + 1, lines |-> q]
    BY DEF Numbered
  <2> HIDE DEF q, r
  <2>5. r \in Row /\ r.lines = q
    BY <2>2, <2>3, <2>4 DEF Row
  <2> QED
    BY <2>5 DEF q
<1>4. handler' = SetHandler(s, h, v)
  BY DEF PostProcess, SetHandler, Numbered
<1> HIDE DEF r, w
<1>5. v = WithNumber(w, r)
  BY DEF WithNumber
<1> HIDE DEF v
<1>6. /\ v \in HandlerState /\ v.pc = w.pc /\ v.chunk = w.chunk
      /\ v.records = Tail(w.records)
      /\ Len(v.rows) = Len(w.rows) + 1
      /\ \A k \in 1 .. Len(w.rows) : v.rows[k] = w.rows[k]
      /\ v.rows[Len(w.rows) + 1] = r
      /\ Size(v) = Size(w) /\ \A k \in 1 .. Size(w) : Piece(v, k) = Piece(w, k)
  BY <1>1, <1>2, <1>3, <1>5, NumberedPieces
<1>7. v \in HandlerState
  BY <1>6
<1>8. /\ handler' \in [Session -> [Handler -> HandlerState]]
      /\ handler'[s][h] = v
      /\ \A g \in Handler : g # h => handler'[s][g] = handler[s][g]
  BY <1>4, <1>7, OneHandler
<1> QED
  BY <1>2, <1>5, <1>6, <1>8 DEF r, w

LEMMA PostProcessSteps ==
    ASSUME Typed, NEW s \in Session, UploadInv(s), NEW h \in Handler, PostProcess(s, h)
    PROVE  Typed' /\ UploadInv(s)'
<1>1. /\ handler' \in [Session -> [Handler -> HandlerState]]
      /\ handler'[s][h].pc = "working" /\ handler'[s][h].chunk = handler[s][h].chunk
      /\ Len(handler'[s][h].rows) = Len(handler[s][h].rows) + 1
      /\ \A k \in 1 .. Len(handler[s][h].rows) : handler'[s][h].rows[k] = handler[s][h].rows[k]
      /\ handler'[s][h].rows[Len(handler[s][h].rows) + 1] = Numbered(s, h)
      /\ Size(handler'[s][h]) = Size(handler[s][h])
      /\ \A k \in 1 .. Size(handler[s][h]) : Piece(handler'[s][h], k) = Piece(handler[s][h], k)
      /\ \A g \in Handler : g # h => handler'[s][g] = handler[s][g]
  BY PostProcessHandler
<1>2. handler[s][h].pc = "working" /\ Stored(s)' = Stored(s) /\ seq' = [seq EXCEPT ![s] = @ + 1]
      /\ UNCHANGED <<client, live, stale, pending, docs, restarts, source, header, folding, sent,
                     cancelled, crashed, unsaved, overwritten>>
  BY DEF PostProcess, Stored, uploadVars, historyVars
<1>3. seq' \in [Session -> Nat] /\ seq'[s] = seq[s] + 1 /\ seq[s] \in Nat
  BY <1>2 DEF Typed
<1>4. Typed'
  BY <1>1, <1>2, <1>3 DEF Typed
<1> USE DEF UploadInv
<1>5. \A g \in Handler : handler'[s][g].pc = handler[s][g].pc
                         /\ handler'[s][g].chunk = handler[s][g].chunk
  BY <1>1, <1>2
<1>6. LinesInv(s)'
  <2>1. \A g \in Handler :
           /\ Size(handler'[s][g]) = Size(handler[s][g])
           /\ \A k \in 1 .. Size(handler[s][g]) : Piece(handler'[s][g], k) = Piece(handler[s][g], k)
    BY <1>1
  <2>2. sent' = sent /\ folding' = folding /\ Stored(s)' = Stored(s) /\ pending' = pending
    BY <1>2
  <2>3. handler'[s]["ingest"].chunk = handler[s]["ingest"].chunk
    BY <1>5, Handlers
  <2>4. Kept(s)
    BY <2>1, <2>2, <2>3, SentIsNat DEF Kept, KeptRecords
  <2> QED
    BY <2>4, KeptLines
<1>7. ShapeInv(s)'
  <2>1. \A g \in Handler : g # h => handler'[s][g] = handler[s][g]
    BY <1>1
  <2>2. ShapeInv(s) /\ handler'[s][h].pc = "working"
    BY <1>1
  <2> HIDE DEF UploadInv
  <2> QED
    BY <1>5, <2>1, <2>2, Handlers DEF ShapeInv
<1>8. RowsInv(s)'
  <2>1. ASSUME NEW r, r.session = s, r.source = source[s], r.seq <= seq[s], r.seq \in Nat
        PROVE  r.seq <= seq'[s] /\ r.source = source'[s]
    BY <1>2, <1>3, <2>1
  <2>2. ASSUME NEW d \in Stored(s)
        PROVE  d.session = s /\ d.source = source'[s] /\ d.seq <= seq'[s]
    <3>1. IsRowOf(s, d) /\ d.seq \in Nat
      BY DEF RowsInv, Typed, Stored, Row
    <3> QED
      BY <2>1, <3>1 DEF IsRowOf
  <2>3. ASSUME NEW g \in Handler, NEW k \in 1 .. Len(handler[s][g].rows), NEW r,
               r = handler[s][g].rows[k]
        PROVE  r.session = s /\ r.source = source'[s] /\ r.seq <= seq'[s]
    <3>1. IsRowOf(s, r)
      BY <2>3 DEF RowsInv
    <3>2. handler[s][g] \in HandlerState
      BY DEF Typed
    <3>3. handler[s][g].rows \in Seq(Row)
      BY <3>2, StateParts
    <3>4. r.seq \in Nat
      <4> DEFINE q == handler[s][g].rows
      <4>1. q \in Seq(Row) /\ k \in 1 .. Len(q) /\ r = q[k]
        BY <2>3, <3>3
      <4> HIDE DEF q
      <4>2. r \in Row
        BY <4>1
      <4> QED
        BY <4>2 DEF Row
    <3> QED
      BY <2>1, <3>1, <3>4 DEF IsRowOf
  <2> DEFINE n == Len(handler[s][h].rows)
             x == Numbered(s, h)
  <2>4. x.session = s /\ x.source = source'[s] /\ x.seq <= seq'[s]
    BY <1>2, <1>3 DEF Numbered
  <2>5. n \in Nat /\ Len(handler'[s][h].rows) = n + 1
    <3>1. handler[s][h] \in HandlerState
      BY DEF Typed
    <3> QED
      BY <1>1, <3>1, StateParts
  <2>6. ASSUME NEW g \in Handler, NEW k \in 1 .. Len(handler'[s][g].rows), NEW r,
               r = handler'[s][g].rows[k]
        PROVE  r.session = s /\ r.source = source'[s] /\ r.seq <= seq'[s]
    <3>1. CASE g # h
      <4>1. handler'[s][g] = handler[s][g]
        BY <1>1, <3>1
      <4> QED
        BY <2>3, <2>6, <4>1
    <3>2. CASE g = h /\ k = n + 1
      <4>1. r = x
        BY <1>1, <2>6, <3>2
      <4> QED
        BY <2>4, <4>1
    <3>3. CASE g = h /\ k # n + 1
      <4>1. k \in 1 .. n
        BY <2>5, <3>3
      <4>2. r = handler[s][h].rows[k]
        BY <1>1, <2>6, <3>3, <4>1
      <4> QED
        BY <2>3, <4>1, <4>2
    <3> QED
      BY <3>1, <3>2, <3>3
  <2>7. Stored(s)' = Stored(s)
    BY <1>2
  <2> QED
    BY <2>2, <2>6, <2>7 DEF RowsInv, IsRowOf
<1>9. /\ handler'[s]["ingest"].pc = handler[s]["ingest"].pc
      /\ handler'[s]["end"].pc = handler[s]["end"].pc
      /\ handler'[s]["sweep"].pc = handler[s]["sweep"].pc
      /\ handler'[s]["ingest"].chunk = handler[s]["ingest"].chunk
  BY <1>5, Handlers
<1>10. ClientInv(s)'
  BY <1>2, <1>9 DEF ClientInv, Waits
<1>11. SessionInv(s)'
  BY <1>2, <1>9 DEF SessionInv
<1> QED
  BY <1>4, <1>6, <1>7, <1>8, <1>10, <1>11

(* What Store leaves of the upload whose rows it takes.                    *)
LEMMA StoreLines ==
    ASSUME Typed, NEW s \in Session, UploadInv(s), NEW h \in Handler,
           handler[s][h].chunk = << >>,
           NEW written \in SUBSET ToSet(handler[s][h].rows),
           Stored(s)' \subseteq Stored(s) \union written,
           Size(handler'[s][h]) = 0, handler'[s][h].chunk = << >>,
           \A g \in Handler : g # h => handler'[s][g] = handler[s][g],
           pending'[s] = pending[s], sent'[s] = sent[s], folding'[s] = folding[s]
    PROVE  LinesInv(s)'
<1> DEFINE w == handler[s][h]
<1>1. PiecesInv(s) /\ DocsInv(s) /\ PendingInv(s) /\ ChunkInv(s)
  BY DEF UploadInv, LinesInv
<1>2. \A d \in written : \E k \in 1 .. Size(w) : d.lines = Piece(w, k) /\ k <= Len(w.rows) /\ d = w.rows[k]
  <2> SUFFICES ASSUME NEW d \in written
               PROVE  \E k \in 1 .. Size(w) : d.lines = Piece(w, k) /\ k <= Len(w.rows) /\ d = w.rows[k]
    OBVIOUS
  <2>1. RowsInv(s)
    BY DEF UploadInv
  <2>2. PICK k \in 1 .. Len(w.rows) : d = w.rows[k]
    BY <2>1, StoredRows
  <2>3. w \in HandlerState
    BY DEF Typed
  <2> HIDE DEF w
  <2>5. k \in 1 .. Size(w) /\ k <= Len(w.rows) /\ Piece(w, k) = w.rows[k].lines
    BY <2>3, RowIsPiece
  <2>6. Piece(w, k) = d.lines
    BY <2>2, <2>5
  <2> QED
    BY <2>2, <2>5, <2>6
<1>3. \A g \in Handler : \A k \in 1 .. Size(handler'[s][g]) :
         g # h /\ handler'[s][g] = handler[s][g]
  OBVIOUS
<1>4. PiecesInv(s)'
  <2> SUFFICES ASSUME NEW g \in Handler
               PROVE  /\ \A k \in 1 .. Size(handler'[s][g]) :
                            Run(Piece(handler'[s][g], k)) /\ End(Piece(handler'[s][g], k)) <= sent'[s]
                      /\ \A k, l \in 1 .. Size(handler'[s][g]) :
                            k < l => Before(Piece(handler'[s][g], k), Piece(handler'[s][g], l))
                      /\ \A f \in Handler \ {g} :
                            \A k \in 1 .. Size(handler'[s][g]), l \in 1 .. Size(handler'[s][f]) :
                               Apart(Piece(handler'[s][g], k), Piece(handler'[s][f], l))
    BY DEF PiecesInv
  <2>1. /\ \A k \in 1 .. Size(handler[s][g]) :
              Run(Piece(handler[s][g], k)) /\ End(Piece(handler[s][g], k)) <= sent[s]
        /\ \A k, l \in 1 .. Size(handler[s][g]) :
              k < l => Before(Piece(handler[s][g], k), Piece(handler[s][g], l))
        /\ \A f \in Handler \ {g} :
              \A k \in 1 .. Size(handler[s][g]), l \in 1 .. Size(handler[s][f]) :
                 Apart(Piece(handler[s][g], k), Piece(handler[s][f], l))
    BY <1>1 DEF PiecesInv
  <2> QED
    BY <1>3, <2>1
<1>5. \A k \in 1 .. Size(w) :
         /\ Run(Piece(w, k)) /\ End(Piece(w, k)) <= sent[s]
         /\ \A e \in Stored(s) : Apart(Piece(w, k), e.lines)
         /\ \A l \in 1 .. Size(w) : k # l => Apart(Piece(w, k), Piece(w, l))
         /\ \A g \in Handler : g # h =>
               \A l \in 1 .. Size(handler[s][g]) : Apart(Piece(w, k), Piece(handler[s][g], l))
         /\ pending[s] # << >> => Apart(Piece(w, k), pending[s])
  <2> SUFFICES ASSUME NEW k \in 1 .. Size(w)
               PROVE  /\ Run(Piece(w, k)) /\ End(Piece(w, k)) <= sent[s]
                      /\ \A e \in Stored(s) : Apart(Piece(w, k), e.lines)
                      /\ \A l \in 1 .. Size(w) : k # l => Apart(Piece(w, k), Piece(w, l))
                      /\ \A g \in Handler : g # h =>
                            \A l \in 1 .. Size(handler[s][g]) :
                               Apart(Piece(w, k), Piece(handler[s][g], l))
                      /\ pending[s] # << >> => Apart(Piece(w, k), pending[s])
    OBVIOUS
  <2>1. \A e \in Stored(s) : Apart(Piece(w, k), e.lines)
    BY <1>1 DEF DocsInv, Apart
  <2>2. ASSUME NEW l \in 1 .. Size(w), k # l PROVE Apart(Piece(w, k), Piece(w, l))
    <3>1. k < l \/ l < k
      BY <2>2
    <3> QED
      BY <1>1, <3>1 DEF PiecesInv, Apart
  <2>3. Run(Piece(w, k)) /\ End(Piece(w, k)) <= sent[s]
    BY <1>1 DEF PiecesInv
  <2>4. \A g \in Handler : g # h =>
           \A l \in 1 .. Size(handler[s][g]) : Apart(Piece(w, k), Piece(handler[s][g], l))
    BY <1>1 DEF PiecesInv
  <2>5. pending[s] # << >> => Apart(Piece(w, k), pending[s])
    BY <1>1 DEF PendingInv
  <2> QED
    BY <2>1, <2>2, <2>3, <2>4, <2>5
<1> HIDE DEF w
<1>6. ASSUME NEW d \in Stored(s)'
      PROVE  /\ Run(d.lines) /\ End(d.lines) <= sent[s]
             /\ \A e \in Stored(s)' \ {d} : Apart(d.lines, e.lines)
             /\ \A g \in Handler : g # h =>
                   \A l \in 1 .. Size(handler[s][g]) : Apart(d.lines, Piece(handler[s][g], l))
             /\ pending[s] # << >> => Apart(d.lines, pending[s])
  <2>1. CASE d \in Stored(s)
    <3>1. /\ Run(d.lines) /\ End(d.lines) <= sent[s]
          /\ \A e \in Stored(s) \ {d} : Apart(d.lines, e.lines)
          /\ \A g \in Handler : \A l \in 1 .. Size(handler[s][g]) :
                Apart(d.lines, Piece(handler[s][g], l))
          /\ \A l \in 1 .. Size(w) : Apart(d.lines, Piece(w, l))
          /\ pending[s] # << >> => Apart(d.lines, pending[s])
      BY <1>1, <2>1 DEF DocsInv, PendingInv, w
    <3> QED
      BY <1>2, <3>1
  <2>2. CASE d \in written
    <3>1. PICK k \in 1 .. Size(w) : d.lines = Piece(w, k) /\ k <= Len(w.rows) /\ d = w.rows[k]
      BY <1>2, <2>2
    <3>2. ASSUME NEW e \in Stored(s)' \ {d} PROVE Apart(d.lines, e.lines)
      <4>1. CASE e \in Stored(s)
        BY <1>5, <3>1, <4>1
      <4>2. CASE e \in written
        <5>1. PICK l \in 1 .. Size(w) : e.lines = Piece(w, l) /\ l <= Len(w.rows) /\ e = w.rows[l]
          BY <1>2, <4>2
        <5>2. k # l
          BY <3>1, <5>1
        <5> QED
          BY <1>5, <3>1, <5>1, <5>2
      <4> QED
        BY <4>1, <4>2
    <3>3. /\ Run(d.lines) /\ End(d.lines) <= sent[s]
          /\ \A g \in Handler : g # h =>
                \A l \in 1 .. Size(handler[s][g]) : Apart(d.lines, Piece(handler[s][g], l))
          /\ pending[s] # << >> => Apart(d.lines, pending[s])
      BY <1>5, <3>1
    <3> QED
      BY <3>2, <3>3
  <2> QED
    BY <2>1, <2>2
<1>7. DocsInv(s)'
  <2> SUFFICES ASSUME NEW d \in Stored(s)'
               PROVE  /\ Run(d.lines) /\ End(d.lines) <= sent'[s]
                      /\ \A e \in Stored(s)' \ {d} : Apart(d.lines, e.lines)
                      /\ \A g \in Handler : \A k \in 1 .. Size(handler'[s][g]) :
                            Apart(d.lines, Piece(handler'[s][g], k))
    BY DEF DocsInv
  <2> QED
    BY <1>3, <1>6
<1>8. PendingInv(s)'
  <2> SUFFICES ASSUME pending'[s] # << >>
               PROVE  /\ folding'[s] /\ Run(pending'[s]) /\ End(pending'[s]) <= sent'[s]
                      /\ \A d \in Stored(s)' : Apart(d.lines, pending'[s])
                      /\ \A g \in Handler : \A k \in 1 .. Size(handler'[s][g]) :
                            Apart(Piece(handler'[s][g], k), pending'[s])
    BY DEF PendingInv
  <2>1. /\ folding[s] /\ Run(pending[s]) /\ End(pending[s]) <= sent[s]
        /\ \A g \in Handler : \A k \in 1 .. Size(handler[s][g]) :
              Apart(Piece(handler[s][g], k), pending[s])
    BY <1>1 DEF PendingInv
  <2> QED
    BY <1>3, <1>6, <2>1
<1>9. ChunkInv(s)'
  <2> DEFINE c == handler[s]["ingest"].chunk
  <2>1. handler'[s]["ingest"].chunk = c
    BY Handlers
  <2> SUFFICES ASSUME c # << >>
               PROVE  /\ Run(c) /\ End(c) = sent'[s]
                      /\ pending'[s] # << >> => c[1] = End(pending'[s]) + 1
                      /\ \A d \in Stored(s)' : Before(d.lines, c)
                      /\ \A g \in Handler : \A k \in 1 .. Size(handler'[s][g]) :
                            Before(Piece(handler'[s][g], k), c)
    BY <2>1 DEF ChunkInv
  <2>2. /\ Run(c) /\ End(c) = sent[s]
        /\ pending[s] # << >> => c[1] = End(pending[s]) + 1
        /\ \A d \in Stored(s) : Before(d.lines, c)
        /\ \A g \in Handler : \A k \in 1 .. Size(handler[s][g]) : Before(Piece(handler[s][g], k), c)
        /\ \A k \in 1 .. Size(w) : Before(Piece(w, k), c)
    BY <1>1 DEF ChunkInv, w
  <2> HIDE DEF c
  <2>3. \A d \in Stored(s)' : Before(d.lines, c)
    BY <1>2, <2>2
  <2> QED
    BY <1>3, <2>2, <2>3
<1> QED
  BY <1>4, <1>7, <1>8, <1>9 DEF LinesInv

LEMMA StoreSteps ==
    ASSUME Typed, NEW s \in Session, UploadInv(s), NEW h \in Handler, Store(s, h)
    PROVE  Typed' /\ UploadInv(s)'
<1> DEFINE rows == ToSet(handler[s][h].rows)
<1>1. PICK written \in SUBSET rows :
         /\ Put(written)
         /\ unsaved' = [unsaved EXCEPT ![s] = @ \union LinesOf(rows \ written)]
         /\ Finish(s, h, h # "ingest" \/ written = rows)
  BY DEF Store
<1>2. handler[s][h].pc = "working" /\ handler[s][h].records = << >>
      /\ UNCHANGED <<live, stale, seq, pending, restarts, source, header, folding, sent,
                     cancelled, crashed>>
  BY DEF Store
<1>3. RowsInv(s)
  BY DEF UploadInv
<1>4. rows \subseteq Row /\ \A r \in rows : IsRowOf(s, r)
  BY <1>3, StoredRows
<1>5. docs' \subseteq Row /\ overwritten' \subseteq Row /\ Stored(s)' \subseteq Stored(s) \union written
  <2> HIDE DEF rows
  <2>1. docs \subseteq Row /\ overwritten \subseteq Row
    BY DEF Typed
  <2>2. docs' \subseteq docs \union written /\ overwritten' \subseteq overwritten \union docs
    BY <1>1 DEF Put
  <2> QED
    BY <1>4, <2>1, <2>2 DEF Stored
<1>6. unsaved' \in [Session -> SUBSET Line]
  <2>1. LinesOf(rows \ written) \subseteq Line
    <3> HIDE DEF rows
    <3>1. \A r \in rows : r.lines \in Seq(Line)
      BY <1>4 DEF Row
    <3>2. \A q \in Seq(Line) : ToSet(q) \subseteq Line
      BY DEF ToSet
    <3> QED
      BY <3>1, <3>2 DEF LinesOf
  <2>2. unsaved \in [Session -> SUBSET Line]
    BY DEF Typed
  <2> HIDE DEF rows
  <2> DEFINE L == LinesOf(rows \ written)
  <2>3. unsaved' = [unsaved EXCEPT ![s] = @ \union L]
    BY <1>1
  <2> HIDE DEF L
  <2> QED
    BY <2>1, <2>2, <2>3 DEF L
<1>7. /\ handler' \in [Session -> [Handler -> HandlerState]]
      /\ handler'[s][h].pc = "idle" /\ handler'[s][h].chunk = << >>
      /\ handler'[s][h].records = << >> /\ handler'[s][h].rows = << >>
      /\ Size(handler'[s][h]) = 0
      /\ \A g \in Handler : g # h => handler'[s][g] = handler[s][g]
  <2>1. handler' = [handler EXCEPT ![s][h] = Idle]
    BY <1>1 DEF Finish
  <2> QED
    <3>1. handler' = IdleSet(s, h)
      BY <2>1 DEF IdleSet
    <3> QED
      BY <3>1, IdleChange
<1>8. client' \in [Session ->
            {"new", "open", "waiting", "ending", "failing", "failed", "succeeded"}]
      /\ \/ h = "ingest" /\ client[s] = "waiting" /\ client'[s] \in {"open", "failing"}
         \/ h = "end" /\ client[s] = "ending" /\ client'[s] = "succeeded"
         \/ /\ client'[s] = client[s]
            /\ ~(h = "ingest" /\ client[s] = "waiting") /\ ~(h = "end" /\ client[s] = "ending")
  <2> HIDE DEF rows
  <2> DEFINE ok == h # "ingest" \/ written = rows
  <2>1. Answered(s, h, ok)
    BY <1>1 DEF Finish
  <2> HIDE DEF ok
  <2>2. client \in [Session ->
            {"new", "open", "waiting", "ending", "failing", "failed", "succeeded"}]
    BY DEF Typed
  <2> QED
    BY <2>1, <2>2 DEF Answered
<1> HIDE DEF rows
<1>9. Typed'
  BY <1>2, <1>5, <1>6, <1>7, <1>8 DEF Typed
<1>10. LinesInv(s)'
  <2>1. handler[s][h].chunk = << >>
    BY <1>2 DEF UploadInv, ShapeInv
  <2>2. pending'[s] = pending[s] /\ sent'[s] = sent[s] /\ folding'[s] = folding[s]
    BY <1>2
  <2>3. written \in SUBSET ToSet(handler[s][h].rows)
    BY DEF rows
  <2> QED
    BY <1>5, <1>7, <2>1, <2>2, <2>3, StoreLines
<1> USE DEF UploadInv
<1>11. ShapeInv(s)'
  <2>1. ShapeInv(s)
    OBVIOUS
  <2> HIDE DEF UploadInv
  <2> QED
    BY <1>7, <2>1, Handlers DEF ShapeInv
<1>12. RowsInv(s)'
  <2>1. source' = source /\ seq' = seq
    BY <1>2
  <2>2. \A g \in Handler : \A k \in 1 .. Len(handler'[s][g].rows) :
           handler'[s][g] = handler[s][g]
    <3>1. \A g \in Handler : handler'[s][g].rows = << >> \/ handler'[s][g] = handler[s][g]
      BY <1>7
    <3> QED
      BY <3>1
  <2>3. \A g \in Handler : \A k \in 1 .. Len(handler[s][g].rows) : IsRowOf(s, handler[s][g].rows[k])
    BY <1>3 DEF RowsInv
  <2>4. \A d \in Stored(s)' : IsRowOf(s, d)
    BY <1>3, <1>4, <1>5 DEF RowsInv
  <2>5. ASSUME NEW g \in Handler, NEW k \in 1 .. Len(handler'[s][g].rows), NEW r,
               r = handler'[s][g].rows[k]
        PROVE  r.session = s /\ r.source = source'[s] /\ r.seq <= seq'[s]
    <3>1. handler'[s][g] = handler[s][g]
      BY <2>2
    <3>2. IsRowOf(s, r)
      BY <2>3, <2>5, <3>1
    <3> QED
      BY <2>1, <3>2 DEF IsRowOf
  <2>6. \A d \in Stored(s)' : d.session = s /\ d.source = source'[s] /\ d.seq <= seq'[s]
    BY <2>1, <2>4 DEF IsRowOf
  <2> HIDE DEF UploadInv
  <2> QED
    BY <2>5, <2>6 DEF RowsInv, IsRowOf
<1>13. h = "ingest" \/ h = "end" \/ h = "sweep"
  BY Handlers
<1>14. ClientInv(s)'
  <2>1. CASE h = "ingest"
    <3>1. handler[s]["ingest"].chunk = << >>
      BY <1>2, <2>1 DEF ShapeInv
    <3> QED
      BY <1>2, <1>7, <1>8, <2>1, <3>1, Handlers DEF ClientInv, Waits
  <2>2. CASE h = "end"
    BY <1>2, <1>7, <1>8, <2>2, Handlers DEF ClientInv, Waits
  <2>3. CASE h = "sweep"
    BY <1>2, <1>7, <1>8, <2>3, Handlers DEF ClientInv, Waits
  <2> QED
    BY <1>13, <2>1, <2>2, <2>3
<1>15. SessionInv(s)'
  <2>1. CASE h = "ingest"
    BY <1>2, <1>7, <1>8, <2>1, Handlers DEF SessionInv
  <2>2. CASE h = "end"
    BY <1>2, <1>7, <1>8, <2>2, Handlers DEF SessionInv
  <2>3. CASE h = "sweep"
    BY <1>2, <1>7, <1>8, <2>3, Handlers DEF SessionInv
  <2> QED
    BY <1>13, <2>1, <2>2, <2>3
<1> QED
  BY <1>9, <1>10, <1>11, <1>12, <1>14, <1>15

-----------------------------------------------------------------------------
(* The steps of all uploads at once.                                       *)

LEMMA ExpireSteps ==
    ASSUME Typed, \A s \in Session : UploadInv(s), ExpireStaleSessions
    PROVE  Typed' /\ \A s \in Session : UploadInv(s)'
<1>1. /\ \A s \in Session : handler[s]["sweep"].pc = "idle"
      /\ live' = live \ stale
      /\ handler' = [s \in Session |->
            IF s \in live \cap stale THEN [handler[s] EXCEPT !["sweep"].pc = "found"]
            ELSE handler[s]]
      /\ UNCHANGED <<stale, seq, pending, docs, restarts, client, source, header, folding, sent,
                     cancelled, crashed, unsaved, overwritten>>
  BY DEF ExpireStaleSessions, uploadVars, historyVars
<1>2. ASSUME NEW s \in Session
      PROVE  /\ handler'[s] \in [Handler -> HandlerState]
             /\ s \in live \cap stale => handler'[s]["sweep"].pc = "found"
             /\ s \notin live \cap stale => handler'[s] = handler[s]
             /\ handler'[s]["ingest"] = handler[s]["ingest"] /\ handler'[s]["end"] = handler[s]["end"]
             /\ \A g \in Handler :
                   /\ handler'[s][g].chunk = handler[s][g].chunk
                   /\ handler'[s][g].records = handler[s][g].records
                   /\ handler'[s][g].rows = handler[s][g].rows
  <2>1. handler[s] \in [Handler -> HandlerState]
    BY DEF Typed
  <2>2. CASE s \in live \cap stale
    <3> DEFINE w == SetPc(handler[s]["sweep"], "found")
    <3>1. handler[s]["sweep"] \in HandlerState
      BY <2>1, Handlers
    <3>2. /\ w \in HandlerState /\ w.pc = "found" /\ w.chunk = handler[s]["sweep"].chunk
          /\ w.records = handler[s]["sweep"].records /\ w.rows = handler[s]["sweep"].rows
      BY <3>1, StateParts
    <3>3. handler'[s] = [handler[s] EXCEPT !["sweep"] = w]
      BY <1>1, <2>2 DEF SetPc
    <3> HIDE DEF w
    <3> QED
      BY <2>1, <2>2, <3>2, <3>3, Handlers
  <2>3. CASE s \notin live \cap stale
    <3>1. handler'[s] = handler[s]
      BY <1>1, <2>3
    <3> QED
      BY <2>1, <2>3, <3>1
  <2> QED
    BY <2>2, <2>3
<1>3. handler' \in [Session -> [Handler -> HandlerState]]
  <2>1. handler' = [s \in Session |-> handler'[s]]
    BY <1>1
  <2> QED
    BY <1>2, <2>1
<1>4. Typed'
  BY <1>1, <1>3 DEF Typed
<1>5. ASSUME NEW s \in Session PROVE UploadInv(s)'
  <2>1. UploadInv(s)
    OBVIOUS
  <2>2. Stored(s)' = Stored(s)
    BY <1>1 DEF Stored
  <2>3. UNCHANGED <<stale, seq, pending, client, source, folding, sent, cancelled, crashed>>
        /\ live' = live \ stale
    BY <1>1
  <2>4. LinesInv(s)'
    <3>1. \A g \in Handler :
             /\ Size(handler'[s][g]) = Size(handler[s][g])
             /\ \A k \in 1 .. Size(handler[s][g]) : Piece(handler'[s][g], k) = Piece(handler[s][g], k)
      BY <1>2 DEF Size, Piece
    <3>2. Kept(s)
      BY <1>2, <2>2, <2>3, <3>1, SentIsNat DEF Kept, KeptRecords
    <3> QED
      BY <2>1, <3>2, KeptLines DEF UploadInv
  <2>5. ShapeInv(s)'
    <3>1. ShapeInv(s) /\ handler[s]["sweep"].pc = "idle"
      BY <1>1, <2>1 DEF UploadInv
    <3>2. handler'[s]["sweep"].pc \in {"idle", "found"}
      BY <1>2, <3>1
    <3>3. \A g \in Handler :
             /\ handler'[s][g].chunk = handler[s][g].chunk
             /\ handler'[s][g].records = handler[s][g].records
             /\ handler'[s][g].rows = handler[s][g].rows
             /\ g # "sweep" => handler'[s][g].pc = handler[s][g].pc
      BY <1>2, Handlers
    <3>4. handler[s]["sweep"].chunk = << >> /\ handler[s]["sweep"].records = << >>
          /\ handler[s]["sweep"].rows = << >>
      BY <3>1, Handlers DEF ShapeInv
    <3> QED
      BY <3>1, <3>2, <3>3, <3>4, Handlers DEF ShapeInv
  <2>6. RowsInv(s)'
    <3>1. RowsInv(s) /\ source' = source /\ seq' = seq
      BY <2>1, <2>3 DEF UploadInv
    <3>2. \A g \in Handler : \A k \in 1 .. Len(handler'[s][g].rows) :
             k \in 1 .. Len(handler[s][g].rows) /\ handler'[s][g].rows[k] = handler[s][g].rows[k]
      BY <1>2
    <3> QED
      BY <2>2, <3>1, <3>2, RowsKept
  <2>7. ClientInv(s)'
    <3>1. client[s] = "new" => s \notin live \cap stale
      BY <2>1 DEF UploadInv, ClientInv
    <3> QED
      BY <1>2, <2>1, <2>3, <3>1 DEF UploadInv, ClientInv, Waits
  <2>8. SessionInv(s)'
    <3>1. handler[s]["sweep"].pc = "idle"
      BY <1>1
    <3>2. CASE s \in live \cap stale
      BY <1>2, <2>1, <2>3, <3>1, <3>2 DEF UploadInv, SessionInv
    <3>3. CASE s \notin live \cap stale
      BY <1>2, <2>1, <2>3, <3>1, <3>3 DEF UploadInv, SessionInv
    <3> QED
      BY <3>2, <3>3
  <2> QED
    BY <2>4, <2>5, <2>6, <2>7, <2>8 DEF UploadInv
<1> QED
  BY <1>4, <1>5

LEMMA CrashSteps ==
    ASSUME Typed, \A s \in Session : UploadInv(s), Crash
    PROVE  Typed' /\ \A s \in Session : UploadInv(s)'
<1>1. /\ restarts < MaxRestarts /\ restarts' = restarts + 1
      /\ live' = {}
      /\ pending' = [s \in Session |-> << >>]
      /\ handler' = [s \in Session |-> [h \in Handler |-> Idle]]
      /\ client' = [s \in Session |->
            IF client[s] \in {"waiting", "ending"} THEN "failing" ELSE client[s]]
      /\ crashed' = crashed \union {s \in Session : client[s] # "new"}
      /\ UNCHANGED <<stale, seq, docs, source, header, folding, sent, cancelled, unsaved,
                     overwritten>>
  BY DEF Crash
<1>2. \A s \in Session : \A h \in Handler : handler'[s][h] = Idle
  BY <1>1
<1>3. handler' \in [Session -> [Handler -> HandlerState]]
  BY <1>1, IdleState
<1>4. pending' \in [Session -> Seq(Line)]
  BY <1>1
<1>5. client' \in [Session ->
            {"new", "open", "waiting", "ending", "failing", "failed", "succeeded"}]
  BY <1>1 DEF Typed
<1>6. restarts' \in 0 .. MaxRestarts
  BY <1>1, MaxRestartsAssumption DEF Typed
<1>7. Typed'
  BY <1>1, <1>3, <1>4, <1>5, <1>6 DEF Typed
<1>8. ASSUME NEW s \in Session PROVE UploadInv(s)'
  <2>1. UploadInv(s)
    OBVIOUS
  <2>2. Stored(s)' = Stored(s)
    BY <1>1 DEF Stored
  <2>3. \A g \in Handler : /\ Size(handler'[s][g]) = 0 /\ handler'[s][g].pc = "idle"
                           /\ handler'[s][g].chunk = << >> /\ handler'[s][g].records = << >>
                           /\ handler'[s][g].rows = << >>
    BY <1>2, IdleState
  <2>4. UNCHANGED <<stale, seq, source, folding, sent, cancelled>> /\ live' = {}
        /\ pending'[s] = << >>
        /\ client'[s] = (IF client[s] \in {"waiting", "ending"} THEN "failing" ELSE client[s])
        /\ (s \in crashed' <=> s \in crashed \/ client[s] # "new")
    BY <1>1
  <2>5. LinesInv(s)'
    <3>1. Kept(s)
      BY <2>2, <2>3, <2>4, SentIsNat, Handlers DEF Kept, KeptRecords
    <3> QED
      BY <2>1, <3>1, KeptLines DEF UploadInv
  <2>6. ShapeInv(s)'
    BY <2>3, Handlers DEF ShapeInv
  <2>7. RowsInv(s)'
    <3>1. RowsInv(s) /\ source' = source /\ seq' = seq
      BY <2>1, <2>4 DEF UploadInv
    <3>2. \A g \in Handler : \A k \in 1 .. Len(handler'[s][g].rows) :
             k \in 1 .. Len(handler[s][g].rows) /\ handler'[s][g].rows[k] = handler[s][g].rows[k]
      BY <2>3
    <3> QED
      BY <2>2, <3>1, <3>2, RowsKept
  <2>8. ClientInv(s)'
    BY <2>1, <2>3, <2>4, Handlers DEF UploadInv, ClientInv, Waits
  <2>9. SessionInv(s)'
    BY <2>3, <2>4, Handlers DEF SessionInv
  <2> QED
    BY <2>5, <2>6, <2>7, <2>8, <2>9 DEF UploadInv
<1> QED
  BY <1>7, <1>8

-----------------------------------------------------------------------------
(* The invariant.                                                          *)

(* A step of one upload, and what it is for the others.                    *)
LEMMA UploadSteps ==
    ASSUME Typed, NEW s \in Session, UploadInv(s),
           \/ ClientNext(s) \/ ServerNext(s)
           \/ \E h \in {"ingest", "end"} : LoseRequest(s, h)
    PROVE  Typed' /\ UploadInv(s)'
<1>1. CASE ClientNext(s)
  BY <1>1, StartUploadSteps, SendChunkSteps, EndRequestSteps, StopWaitingSteps DEF ClientNext
<1>2. CASE \E h \in {"ingest", "end"} : LoseRequest(s, h)
  BY <1>2, LoseRequestSteps
<1>3. CASE ServerNext(s)
  <2>1. ASSUME NEW h \in Handler, Flush(s, h) PROVE Typed' /\ UploadInv(s)'
    BY <2>1, FlushSteps, EmptyFlushSteps
  <2>2. ASSUME NEW h \in Handler, PostProcess(s, h) PROVE Typed' /\ UploadInv(s)'
    BY <2>2, PostProcessSteps
  <2>3. ASSUME NEW h \in Handler, Store(s, h) PROVE Typed' /\ UploadInv(s)'
    BY <2>3, StoreSteps
  <2>4. CASE LookUp(s) \/ Feed(s) \/ EndSession(s) \/ GoStale(s)
    BY <2>4, LookUpSteps, FeedSteps, EndSessionSteps, GoStaleSteps
  <2> QED
    BY <1>3, <2>1, <2>2, <2>3, <2>4 DEF ServerNext
<1> QED
  BY <1>1, <1>2, <1>3

LEMMA IngestInit == Init => IngestInv
<1> SUFFICES ASSUME Init PROVE IngestInv
  OBVIOUS
<1> USE DEF Init
<1>1. handler \in [Session -> [Handler -> HandlerState]]
  BY IdleState
<1>2. Typed
  <2>1. FileLines \in Nat /\ 0 \in 0 .. FileLines /\ 0 \in 0 .. MaxRestarts
    BY FileLinesAssumption, MaxRestartsAssumption
  <2> QED
    BY <1>1, <2>1 DEF Typed
<1>3. ASSUME NEW s \in Session PROVE UploadInv(s)
  <2>1. \A h \in Handler :
           /\ Size(handler[s][h]) = 0 /\ handler[s][h].pc = "idle"
           /\ handler[s][h].chunk = << >> /\ handler[s][h].records = << >>
           /\ handler[s][h].rows = << >>
    BY IdleState
  <2>2. Stored(s) = {} /\ pending[s] = << >> /\ sent[s] = 0 /\ client[s] = "new" /\ live = {}
        /\ cancelled = {} /\ crashed = {}
    BY DEF Stored
  <2> HIDE DEF Init
  <2>3. LinesInv(s)
    <3>1. PiecesInv(s)
      BY <2>1 DEF PiecesInv
    <3>2. DocsInv(s) /\ PendingInv(s) /\ ChunkInv(s)
      BY <2>1, <2>2, Handlers DEF DocsInv, PendingInv, ChunkInv
    <3> QED
      BY <3>1, <3>2 DEF LinesInv
  <2>4. ShapeInv(s)
    BY <2>1, Handlers DEF ShapeInv
  <2>5. RowsInv(s)
    <3>1. \A h \in Handler : 1 .. Len(handler[s][h].rows) = {}
      BY <2>1
    <3> QED
      BY <2>2, <3>1 DEF RowsInv
  <2>6. ClientInv(s) /\ SessionInv(s)
    BY <2>1, <2>2, Handlers DEF ClientInv, SessionInv, Waits
  <2> QED
    BY <2>3, <2>4, <2>5, <2>6 DEF UploadInv
<1> QED
  BY <1>2, <1>3, TypedIsTypeOK DEF IngestInv

LEMMA IngestNext == IngestInv /\ [Next]_vars => IngestInv'
<1> SUFFICES ASSUME Typed, \A s \in Session : UploadInv(s), [Next]_vars
             PROVE  Typed' /\ \A s \in Session : UploadInv(s)'
  BY TypedIsTypeOK, TypedIsTypeOKNext DEF IngestInv
<1>1. CASE UNCHANGED vars
  <2>1. Typed'
    BY <1>1 DEF vars, memoryVars, uploadVars, historyVars, Typed
  <2>2. ASSUME NEW s \in Session PROVE UploadInv(s)'
    <3>1. Same(s)
      BY <1>1 DEF vars, memoryVars, uploadVars, historyVars, Same, Stored
    <3> QED
      BY <3>1, SameUpload
  <2> QED
    BY <2>1, <2>2
<1>2. ASSUME NEW s \in Session,
             \/ ClientNext(s) \/ ServerNext(s)
             \/ \E h \in {"ingest", "end"} : LoseRequest(s, h)
      PROVE  Typed' /\ \A t \in Session : UploadInv(t)'
  <2>1. Typed' /\ UploadInv(s)'
    BY <1>2, UploadSteps
  <2>2. ASSUME NEW t \in Session, t # s PROVE UploadInv(t)'
    <3>1. Same(t)
      BY <1>2, <2>2, OthersSame
    <3> QED
      BY <3>1, SameUpload
  <2> QED
    BY <2>1, <2>2
<1>3. CASE ExpireStaleSessions
  BY <1>3, ExpireSteps
<1>4. CASE Crash
  BY <1>4, CrashSteps
<1> QED
  BY <1>1, <1>2, <1>3, <1>4 DEF Next

THEOREM IngestStays == Spec => []IngestInv
BY IngestInit, IngestNext, PTL DEF Spec

(* A session that is over, by /ingest/end or by the sweep, and whose       *)
(* handlers have returned holds no record back, for uploads of any length  *)
(* and any number of them.                                                 *)
THEOREM NothingIsLeftBehind == Spec => []NoRecordLeftBehind
<1>1. IngestInv => NoRecordLeftBehind
  <2> SUFFICES ASSUME IngestInv, NEW s \in Session, s \notin live \union cancelled,
                      \A h \in Handler : handler[s][h].pc = "idle"
               PROVE  pending[s] = << >>
    BY DEF NoRecordLeftBehind
  <2>1. SessionInv(s)
    BY DEF IngestInv, UploadInv
  <2> QED
    BY <2>1, Handlers DEF SessionInv
<1> QED
  BY <1>1, IngestStays, PTL

-----------------------------------------------------------------------------
(* Sequences in which no line is twice.                                    *)

Has(q, x) == \E i \in 1 .. Len(q) : q[i] = x
OnceEach(q) == q \in Seq(Line) /\ IsInjective(q)
NoneShared(q, r) == \A x \in Line : ~(Has(q, x) /\ Has(r, x))

LEMMA OnceEachOf ==
    ASSUME NEW q \in Seq(Line)
    PROVE  /\ Len(q) \in Nat /\ \A x : Has(q, x) => x \in Line
           /\ OnceEach(q) <=> \A i, j \in 1 .. Len(q) : q[i] = q[j] => i = j
<1>1. DOMAIN q = 1 .. Len(q) /\ Len(q) \in Nat
  OBVIOUS
<1>2. \A x : Has(q, x) => x \in Line
  BY DEF Has
<1> QED
  BY <1>1, <1>2 DEF OnceEach, IsInjective

LEMMA ConcatOnceEach ==
    ASSUME NEW q, NEW r, OnceEach(q), OnceEach(r), NoneShared(q, r)
    PROVE  OnceEach(q \o r) /\ \A x : Has(q \o r, x) => Has(q, x) \/ Has(r, x)
<1> DEFINE m == Len(q)
           n == Len(r)
           c == q \o r
<1>1. q \in Seq(Line) /\ r \in Seq(Line)
  BY DEF OnceEach
<1>2. /\ m \in Nat /\ n \in Nat
      /\ \A i, j \in 1 .. m : q[i] = q[j] => i = j
      /\ \A i, j \in 1 .. n : r[i] = r[j] => i = j
  BY <1>1, OnceEachOf
<1>3. /\ c \in Seq(Line) /\ Len(c) = m + n
      /\ \A i \in 1 .. m + n : c[i] = IF i <= m THEN q[i] ELSE r[i - m]
  BY <1>1, ConcatProperties
<1>4. \A i \in 1 .. m, j \in 1 .. n : q[i] # r[j]
  <2> SUFFICES ASSUME NEW i \in 1 .. m, NEW j \in 1 .. n, q[i] = r[j] PROVE FALSE
    OBVIOUS
  <2>1. Has(q, q[i]) /\ Has(r, q[i]) /\ q[i] \in Line
    BY <1>1 DEF Has
  <2> QED
    BY <2>1 DEF NoneShared
<1> HIDE DEF m, n, c
<1>5. ASSUME NEW i \in 1 .. m + n
      PROVE  \/ i \in 1 .. m /\ c[i] = q[i]
             \/ i > m /\ i - m \in 1 .. n /\ c[i] = r[i - m]
  <2>1. c[i] = IF i <= m THEN q[i] ELSE r[i - m]
    BY <1>3
  <2>2. i <= m \/ i > m
    BY <1>2
  <2>3. CASE i <= m
    BY <1>2, <2>1, <2>3
  <2>4. CASE i > m
    <3>1. ~(i <= m) /\ i - m \in 1 .. n
      BY <1>2, <2>4
    <3>2. c[i] = r[i - m]
      BY <2>1, <3>1
    <3> QED
      BY <2>4, <3>1, <3>2
  <2> QED
    BY <2>2, <2>3, <2>4
<1>6. ASSUME NEW i \in 1 .. m + n, NEW j \in 1 .. m + n, c[i] = c[j]
      PROVE  i = j
  <2>1. CASE i \in 1 .. m /\ j \in 1 .. m
    BY <1>2, <1>5, <1>6, <2>1
  <2>2. CASE i > m /\ j > m
    <3>1. i - m \in 1 .. n /\ j - m \in 1 .. n /\ r[i - m] = r[j - m]
      BY <1>2, <1>5, <1>6, <2>2
    <3>2. i - m = j - m
      BY <1>2, <3>1
    <3> QED
      BY <1>2, <3>2
  <2>3. CASE i \in 1 .. m /\ j > m
    <3>1. j - m \in 1 .. n /\ q[i] = r[j - m]
      BY <1>2, <1>5, <1>6, <2>3
    <3> QED
      BY <1>4, <2>3, <3>1
  <2>4. CASE i > m /\ j \in 1 .. m
    <3>1. i - m \in 1 .. n /\ q[j] = r[i - m]
      BY <1>2, <1>5, <1>6, <2>4
    <3> QED
      BY <1>4, <2>4, <3>1
  <2> QED
    BY <1>2, <1>5, <2>1, <2>2, <2>3, <2>4
<1>7. OnceEach(c)
  BY <1>3, <1>6, OnceEachOf
<1>8. ASSUME NEW x, Has(c, x) PROVE Has(q, x) \/ Has(r, x)
  <2>1. PICK i \in 1 .. m + n : c[i] = x
    BY <1>3, <1>8 DEF Has
  <2> QED
    BY <1>5, <2>1 DEF Has, m, n
<1> QED
  BY <1>7, <1>8 DEF c

(* The recursive function of FlattenSeq.                                   *)
FlattenAt(S, f, n) == IF n = 1 THEN S[n] ELSE f[n - 1] \o S[n]
Flattens(S, f, n) == f = [m \in 1 .. n |-> FlattenAt(S, f, m)]

LEMMA FlattenExists ==
    ASSUME NEW S
    PROVE  \A n \in Nat : \E f : Flattens(S, f, n)
<1> DEFINE T == {n \in Nat : \E f : Flattens(S, f, n)}
<1>1. 0 \in T
  <2> DEFINE f == [m \in 1 .. 0 |-> S]
  <2>1. Flattens(S, f, 0)
    BY DEF Flattens
  <2> QED
    BY <2>1
<1>2. ASSUME NEW n \in T PROVE n + 1 \in T
  <2>1. PICK f : Flattens(S, f, n)
    OBVIOUS
  <2> DEFINE g == [m \in 1 .. n + 1 |-> IF m <= n THEN f[m] ELSE FlattenAt(S, f, m)]
  <2>2. n \in Nat
    OBVIOUS
  <2>3. \A m \in 1 .. n : g[m] = f[m]
    BY <2>2
  <2>4. g[n + 1] = FlattenAt(S, f, n + 1)
    BY <2>2
  <2>5. \A m \in 1 .. n : f[m] = FlattenAt(S, f, m)
    BY <2>1 DEF Flattens
  <2>6. DOMAIN g = 1 .. n + 1 /\ g = [m \in 1 .. n + 1 |-> g[m]]
    OBVIOUS
  <2> HIDE DEF g
  <2>7. ASSUME NEW m \in 1 .. n + 1 PROVE g[m] = FlattenAt(S, g, m)
    <3>1. CASE m = 1
      <4>1. FlattenAt(S, g, m) = S[m] /\ FlattenAt(S, f, m) = S[m]
        BY <3>1 DEF FlattenAt
      <4>2. m \in 1 .. n \/ m = n + 1
        BY <2>2
      <4> QED
        BY <2>3, <2>4, <2>5, <4>1, <4>2
    <3>2. CASE m # 1
      <4>1. m - 1 \in 1 .. n
        BY <2>2, <3>2
      <4>2. g[m - 1] = f[m - 1]
        BY <2>3, <4>1
      <4>3. FlattenAt(S, g, m) = FlattenAt(S, f, m)
        BY <3>2, <4>2 DEF FlattenAt
      <4>4. m \in 1 .. n \/ m = n + 1
        BY <2>2
      <4> QED
        BY <2>3, <2>4, <2>5, <4>3, <4>4
    <3> QED
      BY <3>1, <3>2
  <2>8. Flattens(S, g, n + 1)
    BY <2>6, <2>7 DEF Flattens
  <2> QED
    BY <2>2, <2>8
<1> HIDE DEF T
<1>3. T = Nat
  <2>1. T \subseteq Nat
    BY DEF T
  <2> QED
    BY <1>1, <1>2, <2>1, SetInduction
<1> QED
  BY <1>3 DEF T

LEMMA FlattenUnfolds ==
    ASSUME NEW S, Len(S) \in Nat, Len(S) # 0
    PROVE  \E f : Flattens(S, f, Len(S)) /\ FlattenSeq(S) = f[Len(S)]
<1> DEFINE P(g) == g = [n \in 1 .. Len(S) |-> FlattenAt(S, g, n)]
           f == CHOOSE g : P(g)
<1>1. FlattenSeq(S) = f[Len(S)]
  BY Zenon DEF FlattenSeq, FlattenAt
<1>2. \E g : P(g)
  <2>1. PICK g : Flattens(S, g, Len(S))
    BY FlattenExists
  <2>2. P(g)
    BY <2>1 DEF Flattens
  <2> HIDE DEF P
  <2> QED
    BY <2>2
<1> HIDE DEF P
<1>3. P(f)
  BY <1>2
<1> QED
  BY <1>1, <1>3 DEF P, Flattens

(* Sequences that share nothing, put one after the other.                  *)
LEMMA FlattenOnceEach ==
    ASSUME NEW S \in Seq(Seq(Line)), \A k \in 1 .. Len(S) : OnceEach(S[k]),
           \A k, l \in 1 .. Len(S) : k < l => NoneShared(S[k], S[l])
    PROVE  /\ OnceEach(FlattenSeq(S))
           /\ \A x : Has(FlattenSeq(S), x) => \E k \in 1 .. Len(S) : Has(S[k], x)
<1> DEFINE N == Len(S)
<1>1. N \in Nat
  OBVIOUS
<1>2. CASE N = 0
  <2>1. FlattenSeq(S) = S
    BY <1>2 DEF FlattenSeq
  <2>2. S = << >>
    BY <1>2, EmptySeq
  <2>3. << >> \in Seq(Line) /\ Len(<< >>) = 0
    OBVIOUS
  <2>4. OnceEach(<< >>)
    <3>1. DOMAIN << >> = {}
      OBVIOUS
    <3>2. IsInjective(<< >>)
      BY <3>1 DEF IsInjective
    <3> QED
      BY <2>3, <3>2 DEF OnceEach
  <2>5. \A x : ~Has(<< >>, x)
    BY <2>3 DEF Has
  <2> QED
    BY <2>1, <2>2, <2>4, <2>5
<1>3. CASE N # 0
  <2>1. PICK f : Flattens(S, f, N) /\ FlattenSeq(S) = f[N]
    BY <1>1, <1>3, FlattenUnfolds
  <2>2. \A n \in 1 .. N : f[n] = FlattenAt(S, f, n)
    BY <2>1 DEF Flattens
  <2> DEFINE P(n) == OnceEach(f[n]) /\ \A x : Has(f[n], x) => \E k \in 1 .. n : Has(S[k], x)
             T == {n \in Nat : n < N => P(n + 1)}
  <2>3. P(1)
    <3>1. f[1] = S[1] /\ 1 \in 1 .. N
      BY <1>1, <1>3, <2>2 DEF FlattenAt
    <3> QED
      BY <3>1
  <2>4. ASSUME NEW n \in 1 .. N - 1, P(n) PROVE P(n + 1)
    <3>1. n + 1 \in 1 .. N /\ n + 1 # 1 /\ (n + 1) - 1 = n /\ n \in 1 .. n + 1 /\ n \in Nat
          /\ \A k \in 1 .. n : k < n + 1 /\ k \in 1 .. N /\ k \in 1 .. n + 1
      BY <1>1
    <3>2. f[n + 1] = f[n] \o S[n + 1]
      BY <2>2, <3>1 DEF FlattenAt
    <3>3. OnceEach(f[n]) /\ OnceEach(S[n + 1])
      BY <2>4, <3>1
    <3>4. NoneShared(f[n], S[n + 1])
      <4> SUFFICES ASSUME NEW x \in Line, Has(f[n], x), Has(S[n + 1], x) PROVE FALSE
        BY DEF NoneShared
      <4>1. PICK k \in 1 .. n : Has(S[k], x)
        BY <2>4
      <4>2. NoneShared(S[k], S[n + 1])
        BY <3>1
      <4> QED
        BY <4>1, <4>2 DEF NoneShared
    <3>5. OnceEach(f[n + 1]) /\ \A x : Has(f[n + 1], x) => Has(f[n], x) \/ Has(S[n + 1], x)
      BY <3>2, <3>3, <3>4, ConcatOnceEach
    <3>6. ASSUME NEW x, Has(f[n + 1], x) PROVE \E k \in 1 .. n + 1 : Has(S[k], x)
      <4>1. CASE Has(f[n], x)
        <5>1. PICK k \in 1 .. n : Has(S[k], x)
          BY <2>4, <4>1
        <5> QED
          BY <3>1, <5>1
      <4>2. CASE Has(S[n + 1], x)
        <5>1. n + 1 \in 1 .. n + 1
          BY <3>1
        <5> QED
          BY <4>2, <5>1
      <4> QED
        BY <3>5, <3>6, <4>1, <4>2
    <3> QED
      BY <3>5, <3>6
  <2> HIDE DEF P
  <2>5. T = Nat
    <3>1. 0 \in T
      BY <2>3
    <3>2. ASSUME NEW n \in T PROVE n + 1 \in T
      <4>1. CASE n + 1 < N
        <5>1. n + 1 \in 1 .. N - 1 /\ n < N
          BY <1>1, <4>1
        <5> QED
          BY <2>4, <5>1
      <4>2. CASE ~(n + 1 < N)
        BY <4>2
      <4> QED
        BY <4>1, <4>2
    <3>3. T \subseteq Nat
      OBVIOUS
    <3> HIDE DEF T
    <3> QED
      BY <3>1, <3>2, <3>3, SetInduction
  <2>6. N - 1 \in Nat /\ N - 1 < N /\ (N - 1) + 1 = N
    BY <1>1, <1>3
  <2>7. P(N)
    <3>1. N - 1 \in T
      BY <2>5, <2>6
    <3> QED
      BY <2>6, <3>1
  <2> QED
    BY <2>1, <2>7 DEF P
<1> QED
  BY <1>2, <1>3

-----------------------------------------------------------------------------
(* The places of an upload's lines.                                        *)

LEMMA RunOnceEach ==
    ASSUME NEW r, Run(r)
    PROVE  OnceEach(r) /\ \A x : Has(r, x) => x \in Line /\ r[1] <= x /\ x <= End(r)
<1>1. r \in Seq(Line) /\ Len(r) \in Nat \ {0} /\ r[1] \in Nat
      /\ \A i \in 1 .. Len(r) : r[i] = r[1] + i - 1
  BY RunLength DEF Run
<1>2. \A i, j \in 1 .. Len(r) : r[i] = r[j] => i = j
  BY <1>1
<1>3. OnceEach(r)
  BY <1>1, <1>2, OnceEachOf
<1>4. ASSUME NEW x, Has(r, x) PROVE x \in Line /\ r[1] <= x /\ x <= End(r)
  <2>1. PICK i \in 1 .. Len(r) : r[i] = x
    BY <1>4 DEF Has
  <2>2. x = r[1] + i - 1 /\ x \in Line
    BY <1>1, <2>1
  <2> QED
    BY <1>1, <2>2 DEF End
<1> QED
  BY <1>3, <1>4

LEMMA EmptyOnceEach == OnceEach(<< >>) /\ \A x : ~Has(<< >>, x)
<1>1. DOMAIN << >> = {} /\ << >> \in Seq(Line) /\ Len(<< >>) = 0
  OBVIOUS
<1>2. IsInjective(<< >>)
  BY <1>1 DEF IsInjective
<1> QED
  BY <1>1, <1>2 DEF OnceEach, Has

LEMMA ApartShareNothing ==
    ASSUME NEW r, NEW q, Run(r), Run(q), Apart(r, q)
    PROVE  NoneShared(r, q) /\ NoneShared(q, r)
<1> SUFFICES ASSUME NEW x \in Line, Has(r, x), Has(q, x) PROVE FALSE
  BY DEF NoneShared
<1>1. r[1] <= x /\ x <= End(r) /\ q[1] <= x /\ x <= End(q)
  BY RunOnceEach
<1>2. x \in Nat /\ r[1] \in Nat /\ q[1] \in Nat /\ End(r) \in Nat /\ End(q) \in Nat
  BY LineIsNat, RunLength
<1>3. End(r) < q[1] \/ End(q) < r[1]
  BY DEF Apart, Before
<1> QED
  BY <1>1, <1>2, <1>3

LEMMA RunsOnceEach ==
    ASSUME NEW S \in Seq(Seq(Line)), \A k \in 1 .. Len(S) : Run(S[k]),
           \A k, l \in 1 .. Len(S) : k < l => Apart(S[k], S[l])
    PROVE  /\ OnceEach(FlattenSeq(S))
           /\ \A x : Has(FlattenSeq(S), x) => \E k \in 1 .. Len(S) : Has(S[k], x)
<1>1. \A k \in 1 .. Len(S) : OnceEach(S[k])
  BY RunOnceEach
<1>2. \A k, l \in 1 .. Len(S) : k < l => NoneShared(S[k], S[l])
  BY ApartShareNothing
<1> QED
  BY <1>1, <1>2, FlattenOnceEach

(* The lines of a set of runs that share nothing, in any order.            *)
LEMMA SetOnceEach ==
    ASSUME NEW D, \A r \in D : Run(r), \A r, q \in D : r # q => Apart(r, q)
    PROVE  /\ OnceEach(FlattenSeq(SetToSeq(D)))
           /\ \A x : Has(FlattenSeq(SetToSeq(D)), x) => \E r \in D : Has(r, x)
<1> DEFINE f == [r \in D |-> End(r)]
           n == Cardinality(D)
           S == SetToSeq(D)
<1>1. IsFiniteSet(D)
  <2>1. f \in [D -> Line]
    BY RunLength
  <2>2. ASSUME NEW r \in D, NEW q \in D, f[r] = f[q] PROVE r = q
    <3>1. End(r) = End(q) /\ r[1] \in Nat /\ q[1] \in Nat /\ End(r) \in Nat /\ r[1] <= End(r)
          /\ q[1] <= End(q)
      BY <2>2, RunLength
    <3>2. ~Apart(r, q)
      BY <3>1 DEF Apart, Before
    <3> QED
      BY <3>2
  <2>3. f \in Injection(D, Line)
    BY <2>1, <2>2 DEF Injection, IsInjective
  <2>4. FileLines \in Int /\ IsFiniteSet(Line)
    BY FileLinesAssumption, FS_Interval DEF Line
  <2> QED
    BY <2>3, <2>4, FS_Injection
<1>2. n \in Nat /\ ExistsBijection(1 .. n, D)
  BY <1>1, FS_CardinalityType
<1>3. S \in [1 .. n -> D] /\ IsInjective(S)
  <2>1. PICK b : b \in Bijection(1 .. n, D)
    BY <1>2 DEF ExistsBijection
  <2>2. b \in [1 .. n -> D] /\ IsInjective(b)
    BY <2>1 DEF Bijection, Injection
  <2> DEFINE P(g) == g \in [1 .. n -> D] /\ IsInjective(g)
  <2>3. S = CHOOSE g : P(g)
    BY Zenon DEF SetToSeq
  <2>4. P(b)
    BY <2>2
  <2> HIDE DEF P, S
  <2>5. P(S)
    BY <2>3, <2>4
  <2> QED
    BY <2>5 DEF P
<1> HIDE DEF n, S
<1>4. D \subseteq Seq(Line)
  BY DEF Run
<1>5. S \in Seq(Seq(Line)) /\ Len(S) = n
  BY <1>2, <1>3, <1>4
<1>6. \A k \in 1 .. n : S[k] \in D
  BY <1>3
<1>7. \A k, l \in 1 .. n : k < l => S[k] # S[l]
  BY <1>2, <1>3 DEF IsInjective
<1>8. \A k, l \in 1 .. n : k < l => Apart(S[k], S[l])
  BY <1>6, <1>7
<1>9. /\ OnceEach(FlattenSeq(S))
      /\ \A x : Has(FlattenSeq(S), x) => \E k \in 1 .. n : Has(S[k], x)
  BY <1>5, <1>6, <1>8, RunsOnceEach
<1>10. \A x : Has(FlattenSeq(S), x) => \E r \in D : Has(r, x)
  BY <1>6, <1>9
<1> QED
  BY <1>9, <1>10 DEF S

(* The lines a handler has.                                                *)
Content(w) ==
    w.chunk \o FlattenSeq(w.records) \o FlattenSeq([k \in DOMAIN w.rows |-> w.rows[k].lines])

LEMMA PieceOfRecords ==
    ASSUME NEW w \in HandlerState, NEW k \in 1 .. Len(w.records)
    PROVE  Len(w.rows) + k \in 1 .. Size(w) /\ ~(Len(w.rows) + k <= Len(w.rows))
           /\ Piece(w, Len(w.rows) + k) = w.records[k]
<1> DEFINE n == Len(w.rows)
           m == Len(w.records)
<1>1. n \in Nat /\ m \in Nat
  BY StateParts
<1>2. Size(w) = n + m
  BY DEF Size
<1>3. Piece(w, n + k) = IF n + k <= n THEN w.rows[n + k].lines ELSE w.records[(n + k) - n]
  BY DEF Piece
<1>4. k \in 1 .. m
  OBVIOUS
<1> HIDE DEF n, m
<1>6. n + k \in 1 .. n + m /\ ~(n + k <= n) /\ (n + k) - n = k
  BY <1>1, <1>4
<1>7. Piece(w, n + k) = w.records[k]
  BY <1>3, <1>6
<1> QED
  BY <1>2, <1>6, <1>7 DEF n
Carries(w, x) == Has(w.chunk, x) \/ \E k \in 1 .. Size(w) : Has(Piece(w, k), x)

LEMMA ContentOnceEach ==
    ASSUME NEW w \in HandlerState, w.chunk = << >> \/ Run(w.chunk),
           \A k \in 1 .. Size(w) : Run(Piece(w, k)),
           \A k, l \in 1 .. Size(w) : k < l => Before(Piece(w, k), Piece(w, l)),
           w.chunk # << >> => \A k \in 1 .. Size(w) : Before(Piece(w, k), w.chunk)
    PROVE  OnceEach(Content(w)) /\ \A x : Has(Content(w), x) => Carries(w, x)
<1> DEFINE n == Len(w.rows)
           m == Len(w.records)
           L == [k \in DOMAIN w.rows |-> w.rows[k].lines]
           A == w.chunk
           B == FlattenSeq(w.records)
           C == FlattenSeq(L)
<1>1. n \in Nat /\ m \in Nat /\ w.rows \in Seq(Row) /\ w.records \in Seq(Seq(Line))
      /\ Size(w) = n + m
  BY StateParts DEF Size
<1>2. \A k \in 1 .. n : k \in 1 .. Size(w) /\ Piece(w, k) = w.rows[k].lines
  BY RowIsPiece
<1>3. \A k \in 1 .. m : n + k \in 1 .. Size(w) /\ Piece(w, n + k) = w.records[k]
  BY PieceOfRecords
<1>4. L \in Seq(Seq(Line)) /\ Len(L) = n /\ \A k \in 1 .. n : L[k] = Piece(w, k)
  <2>1. DOMAIN w.rows = 1 .. n /\ \A k \in 1 .. n : w.rows[k] \in Row
    BY <1>1
  <2>2. L = [k \in 1 .. n |-> w.rows[k].lines]
    BY <2>1
  <2>3. \A k \in 1 .. n : w.rows[k].lines \in Seq(Line)
    BY <2>1 DEF Row
  <2> HIDE DEF L, n
  <2>4. L \in [1 .. n -> Seq(Line)]
    BY <2>2, <2>3
  <2>5. L \in Seq(Seq(Line)) /\ DOMAIN L = 1 .. n
    BY <1>1, <2>4
  <2>6. Len(L) = n
    BY <1>1, <2>5
  <2>7. \A k \in 1 .. n : L[k] = w.rows[k].lines
    BY <2>2
  <2> QED
    BY <1>2, <2>5, <2>6, <2>7
<1>5. OnceEach(A) /\ \A x : Has(A, x) => w.chunk # << >> /\ Run(w.chunk)
  BY RunOnceEach, EmptyOnceEach
<1> HIDE DEF L, n, m
<1>6. OnceEach(B) /\ \A x : Has(B, x) => \E k \in 1 .. m : Has(w.records[k], x)
  <2>1. \A k \in 1 .. m : Run(w.records[k])
    BY <1>3
  <2>2. ASSUME NEW k \in 1 .. m, NEW l \in 1 .. m, k < l PROVE Apart(w.records[k], w.records[l])
    <3>1. n + k < n + l
      BY <1>1, <2>2
    <3>2. Before(Piece(w, n + k), Piece(w, n + l))
      BY <1>3, <3>1
    <3> QED
      BY <1>3, <3>2 DEF Apart
  <2> QED
    BY <1>1, <2>1, <2>2, RunsOnceEach DEF m
<1>7. OnceEach(C) /\ \A x : Has(C, x) => \E k \in 1 .. n : Has(L[k], x)
  <2>1. \A k \in 1 .. n : Run(L[k])
    BY <1>2, <1>4
  <2>2. ASSUME NEW k \in 1 .. n, NEW l \in 1 .. n, k < l PROVE Apart(L[k], L[l])
    <3>1. Before(Piece(w, k), Piece(w, l))
      BY <1>2, <2>2
    <3> QED
      BY <1>4, <3>1 DEF Apart
  <2> QED
    BY <1>4, <2>1, <2>2, RunsOnceEach
<1>8. \A x : Has(B, x) => \E k \in 1 .. m : Has(Piece(w, n + k), x)
  BY <1>3, <1>6
<1>9. \A x : Has(C, x) => \E k \in 1 .. n : Has(Piece(w, k), x)
  BY <1>4, <1>7
<1> HIDE DEF A, B, C
<1>10. NoneShared(A, B)
  <2> SUFFICES ASSUME NEW x \in Line, Has(A, x), Has(B, x) PROVE FALSE
    BY DEF NoneShared
  <2>1. PICK k \in 1 .. m : Has(Piece(w, n + k), x)
    BY <1>8
  <2>2. Run(Piece(w, n + k)) /\ Run(w.chunk) /\ Before(Piece(w, n + k), w.chunk)
    BY <1>3, <1>5
  <2>3. NoneShared(w.chunk, Piece(w, n + k))
    BY <2>2, ApartShareNothing DEF Apart
  <2> QED
    BY <2>1, <2>3 DEF NoneShared, A
<1>11. NoneShared(A, C)
  <2> SUFFICES ASSUME NEW x \in Line, Has(A, x), Has(C, x) PROVE FALSE
    BY DEF NoneShared
  <2>1. PICK k \in 1 .. n : Has(Piece(w, k), x)
    BY <1>9
  <2>2. Run(Piece(w, k)) /\ Run(w.chunk) /\ Before(Piece(w, k), w.chunk)
    BY <1>2, <1>5
  <2>3. NoneShared(w.chunk, Piece(w, k))
    BY <2>2, ApartShareNothing DEF Apart
  <2> QED
    BY <2>1, <2>3 DEF NoneShared, A
<1>12. NoneShared(B, C)
  <2> SUFFICES ASSUME NEW x \in Line, Has(B, x), Has(C, x) PROVE FALSE
    BY DEF NoneShared
  <2>1. PICK k \in 1 .. m : Has(Piece(w, n + k), x)
    BY <1>8
  <2>2. PICK l \in 1 .. n : Has(Piece(w, l), x)
    BY <1>9
  <2>3. l < n + k
    BY <1>1
  <2>4. Before(Piece(w, l), Piece(w, n + k)) /\ Run(Piece(w, l)) /\ Run(Piece(w, n + k))
    BY <1>2, <1>3, <2>3
  <2>5. NoneShared(Piece(w, l), Piece(w, n + k))
    BY <2>4, ApartShareNothing DEF Apart
  <2> QED
    BY <2>1, <2>2, <2>5 DEF NoneShared
<1> DEFINE AB == A \o B
<1>13. OnceEach(AB) /\ \A x : Has(AB, x) => Has(A, x) \/ Has(B, x)
  BY <1>5, <1>6, <1>10, ConcatOnceEach DEF A
<1> HIDE DEF AB
<1>14. NoneShared(AB, C)
  BY <1>11, <1>12, <1>13 DEF NoneShared
<1>15. OnceEach(AB \o C) /\ \A x : Has(AB \o C, x) => Has(AB, x) \/ Has(C, x)
  BY <1>7, <1>13, <1>14, ConcatOnceEach DEF C
<1>16. \A x : Has(AB \o C, x) => Carries(w, x)
  BY <1>2, <1>3, <1>8, <1>9, <1>13, <1>15 DEF Carries, A
<1> QED
  BY <1>15, <1>16 DEF Content, AB, A, B, C, L

Collected(s) == FlattenSeq(SetToSeq({d.lines : d \in Stored(s)}))

LEMMA PlacesAre ==
    ASSUME NEW s \in Session, pending[s] \in Seq(Line), Collected(s) \in Seq(Line),
           \A h \in Handler : Content(handler[s][h]) \in Seq(Line)
    PROVE  /\ Places(s) \in Seq(Seq(Line)) /\ Len(Places(s)) = 5
           /\ Places(s)[1] = pending[s] /\ Places(s)[2] = Collected(s)
           /\ Places(s)[3] = Content(handler[s]["ingest"])
           /\ Places(s)[4] = Content(handler[s]["end"])
           /\ Places(s)[5] = Content(handler[s]["sweep"])
<1> DEFINE c == [h \in Handler |-> Content(handler[s][h])]
           names == <<"ingest", "end", "sweep">>
           q == [i \in 1 .. 3 |-> c[names[i]]]
           p == <<pending[s], Collected(s)>>
<1>1. Places(s) = p \o q
  <2>1. \A i \in 1 .. 3 : names[i] \in Handler
    BY DEF Handler
  <2>2. \A h \in Handler : c[h] = Content(handler[s][h])
    OBVIOUS
  <2> HIDE DEF c
  <2>3. q = [i \in 1 .. 3 |-> Content(handler[s][names[i]])]
    BY <2>1, <2>2
  <2> QED
    BY <2>3, Zenon DEF Places, Collected, Content
<1>2. \A h \in Handler : c[h] \in Seq(Line) /\ c[h] = Content(handler[s][h])
  OBVIOUS
<1> HIDE DEF c
<1>3. p \in Seq(Seq(Line)) /\ Len(p) = 2 /\ p[1] = pending[s] /\ p[2] = Collected(s)
  OBVIOUS
<1>4. q[1] = c["ingest"] /\ q[2] = c["end"] /\ q[3] = c["sweep"]
  OBVIOUS
<1>5. q \in [1 .. 3 -> Seq(Line)]
  BY <1>2 DEF Handler
<1> HIDE DEF p, q
<1>6. q \in Seq(Seq(Line)) /\ Len(q) = 3
  <2>1. \A n \in Nat : \A f \in [1 .. n -> Seq(Line)] : f \in Seq(Seq(Line)) /\ Len(f) = n
    OBVIOUS
  <2> QED
    BY <1>5, <2>1
<1> DEFINE r == p \o q
<1>7. r \in Seq(Seq(Line)) /\ Len(r) = Len(p) + Len(q)
      /\ \A i \in 1 .. Len(p) + Len(q) : r[i] = IF i <= Len(p) THEN p[i] ELSE q[i - Len(p)]
  <2>1. p \in Seq(Seq(Line)) /\ q \in Seq(Seq(Line))
    BY <1>3, <1>6
  <2> QED
    BY <2>1, ConcatProperties
<1> HIDE DEF r
<1>8. Len(r) = 5 /\ \A i \in 1 .. 5 : r[i] = IF i <= 2 THEN p[i] ELSE q[i - 2]
  BY <1>3, <1>6, <1>7
<1>9. r[1] = p[1] /\ r[2] = p[2]
  BY <1>8
<1>10. r[3] = q[1] /\ r[4] = q[2] /\ r[5] = q[3]
  <2>1. 3 - 2 = 1 /\ 4 - 2 = 2 /\ 5 - 2 = 3
    OBVIOUS
  <2> QED
    BY <1>8, <2>1
<1>11. Places(s) = r
  BY <1>1 DEF r
<1> QED
  BY <1>2, <1>3, <1>4, <1>7, <1>8, <1>9, <1>10, <1>11, Handlers

(* No line of an upload is in two places.                                  *)
LEMMA PlacesOnceEach ==
    ASSUME IngestInv, NEW s \in Session
    PROVE  IsInjective(FlattenSeq(Places(s)))
<1> DEFINE D == {d.lines : d \in Stored(s)}
           P == Places(s)
           W(h) == handler[s][h]
<1>1. /\ Typed /\ ShapeInv(s) /\ LinesInv(s)
      /\ \A h \in Handler : W(h) \in HandlerState
      /\ pending[s] \in Seq(Line)
  BY TypedIsTypeOK DEF IngestInv, UploadInv, Typed
<1>2. /\ \A r \in D : Run(r) /\ \E d \in Stored(s) : d.lines = r
      /\ \A r, q \in D : r # q => Apart(r, q)
  BY <1>1 DEF LinesInv, DocsInv
<1>3. /\ OnceEach(Collected(s))
      /\ \A x : Has(Collected(s), x) => \E r \in D : Has(r, x)
  <2> HIDE DEF D
  <2>1. /\ OnceEach(FlattenSeq(SetToSeq(D)))
        /\ \A x : Has(FlattenSeq(SetToSeq(D)), x) => \E r \in D : Has(r, x)
    BY <1>2, SetOnceEach
  <2> QED
    BY <2>1 DEF Collected, D
<1>4. OnceEach(pending[s]) /\ \A x : Has(pending[s], x) => pending[s] # << >> /\ Run(pending[s])
  <2>1. pending[s] = << >> \/ Run(pending[s])
    BY <1>1 DEF LinesInv, PendingInv
  <2> QED
    BY <2>1, RunOnceEach, EmptyOnceEach
<1>5. ASSUME NEW h \in Handler
      PROVE  /\ W(h).chunk = << >> \/ Run(W(h).chunk)
             /\ W(h).chunk # << >> => h = "ingest"
             /\ \A k \in 1 .. Size(W(h)) : Run(Piece(W(h), k))
             /\ W(h).chunk # << >> => \A g \in Handler : \A k \in 1 .. Size(W(g)) :
                   Before(Piece(W(g), k), W(h).chunk)
             /\ \A k, l \in 1 .. Size(W(h)) : k < l => Before(Piece(W(h), k), Piece(W(h), l))
             /\ \A g \in Handler \ {h} : \A k \in 1 .. Size(W(h)), l \in 1 .. Size(W(g)) :
                   Apart(Piece(W(h), k), Piece(W(g), l))
  <2>1. W(h).chunk # << >> => h = "ingest"
    BY <1>1 DEF ShapeInv
  <2>2. /\ \A k \in 1 .. Size(W(h)) : Run(Piece(W(h), k))
        /\ \A k, l \in 1 .. Size(W(h)) : k < l => Before(Piece(W(h), k), Piece(W(h), l))
        /\ \A g \in Handler \ {h} : \A k \in 1 .. Size(W(h)), l \in 1 .. Size(W(g)) :
              Apart(Piece(W(h), k), Piece(W(g), l))
    BY <1>1 DEF LinesInv, PiecesInv
  <2>3. W(h).chunk # << >> =>
           /\ Run(W(h).chunk)
           /\ \A g \in Handler : \A k \in 1 .. Size(W(g)) : Before(Piece(W(g), k), W(h).chunk)
    BY <1>1, <2>1 DEF LinesInv, ChunkInv
  <2> QED
    BY <2>1, <2>2, <2>3
<1>6. ASSUME NEW h \in Handler
      PROVE  /\ OnceEach(Content(W(h)))
             /\ \A x : Has(Content(W(h)), x) => Carries(W(h), x)
  BY <1>1, <1>5, ContentOnceEach
<1>7. ASSUME NEW d \in Stored(s), NEW x \in Line, Has(d.lines, x)
      PROVE  ~Has(pending[s], x) /\ \A h \in Handler : ~Carries(W(h), x)
  <2>1. Run(d.lines) /\ \A h \in Handler : \A k \in 1 .. Size(W(h)) : Apart(d.lines, Piece(W(h), k))
    BY <1>1 DEF LinesInv, DocsInv
  <2>2. ~Has(pending[s], x)
    <3> SUFFICES ASSUME Has(pending[s], x) PROVE FALSE
      OBVIOUS
    <3>1. pending[s] # << >> /\ Run(pending[s])
      BY <1>4
    <3>2. Apart(d.lines, pending[s])
      BY <1>1, <3>1 DEF LinesInv, PendingInv
    <3> QED
      BY <1>7, <2>1, <3>1, <3>2, ApartShareNothing DEF NoneShared
  <2>3. ASSUME NEW h \in Handler, Carries(W(h), x) PROVE FALSE
    <3>1. CASE Has(W(h).chunk, x)
      <4>1. W(h).chunk # << >>
        BY <3>1, EmptyOnceEach
      <4>2. h = "ingest" /\ Run(W(h).chunk)
        BY <1>5, <4>1
      <4>3. Before(d.lines, W(h).chunk)
        BY <1>1, <4>1, <4>2 DEF LinesInv, ChunkInv
      <4> QED
        BY <1>7, <2>1, <3>1, <4>2, <4>3, ApartShareNothing DEF NoneShared, Apart
    <3>2. CASE \E k \in 1 .. Size(W(h)) : Has(Piece(W(h), k), x)
      <4>1. PICK k \in 1 .. Size(W(h)) : Has(Piece(W(h), k), x)
        BY <3>2
      <4>2. Run(Piece(W(h), k)) /\ Apart(d.lines, Piece(W(h), k))
        BY <1>5, <2>1
      <4> QED
        BY <1>7, <2>1, <4>1, <4>2, ApartShareNothing DEF NoneShared
    <3> QED
      BY <2>3, <3>1, <3>2 DEF Carries
  <2> QED
    BY <2>2, <2>3
<1>8. ASSUME NEW x \in Line, NEW h \in Handler, Has(pending[s], x), Carries(W(h), x)
      PROVE  FALSE
  <2>1. pending[s] # << >> /\ Run(pending[s])
    BY <1>4, <1>8
  <2>2. CASE Has(W(h).chunk, x)
    <3>1. W(h).chunk # << >>
      BY <2>2, EmptyOnceEach
    <3>2. h = "ingest" /\ Run(W(h).chunk)
      BY <1>5, <3>1
    <3>3. W(h).chunk[1] = End(pending[s]) + 1
      BY <1>1, <2>1, <3>1, <3>2 DEF LinesInv, ChunkInv
    <3>4. Before(pending[s], W(h).chunk)
      <4>1. End(pending[s]) \in Nat
        BY <2>1, RunLength
      <4> QED
        BY <3>3, <4>1 DEF Before
    <3> QED
      BY <1>8, <2>1, <2>2, <3>2, <3>4, ApartShareNothing DEF NoneShared, Apart
  <2>3. CASE \E k \in 1 .. Size(W(h)) : Has(Piece(W(h), k), x)
    <3>1. PICK k \in 1 .. Size(W(h)) : Has(Piece(W(h), k), x)
      BY <2>3
    <3>2. Run(Piece(W(h), k)) /\ Apart(Piece(W(h), k), pending[s])
      BY <1>1, <1>5, <2>1 DEF LinesInv, PendingInv
    <3> QED
      BY <1>8, <2>1, <3>1, <3>2, ApartShareNothing DEF NoneShared
  <2> QED
    BY <1>8, <2>2, <2>3 DEF Carries
<1>9. ASSUME NEW x \in Line, NEW h \in Handler, NEW g \in Handler, g # h,
             Carries(W(h), x), Carries(W(g), x)
      PROVE  FALSE
  <2>1. ASSUME NEW a \in Handler, NEW b \in Handler, a # b, Has(W(a).chunk, x), Carries(W(b), x)
        PROVE  FALSE
    <3>1. W(a).chunk # << >>
      BY <2>1, EmptyOnceEach
    <3>2. a = "ingest" /\ Run(W(a).chunk)
      BY <1>5, <3>1
    <3>3. ~Has(W(b).chunk, x)
      BY <1>5, <2>1, <3>2, EmptyOnceEach
    <3>4. PICK k \in 1 .. Size(W(b)) : Has(Piece(W(b), k), x)
      BY <2>1, <3>3 DEF Carries
    <3>5. Run(Piece(W(b), k))
      BY <1>5
    <3>6. Before(Piece(W(b), k), W(a).chunk)
      BY <1>5, <3>1
    <3> QED
      BY <2>1, <3>2, <3>4, <3>5, <3>6, ApartShareNothing DEF NoneShared, Apart
  <2>2. ~Has(W(h).chunk, x) /\ ~Has(W(g).chunk, x)
    BY <1>9, <2>1
  <2>3. PICK k \in 1 .. Size(W(h)) : Has(Piece(W(h), k), x)
    BY <1>9, <2>2 DEF Carries
  <2>4. PICK l \in 1 .. Size(W(g)) : Has(Piece(W(g), l), x)
    BY <1>9, <2>2 DEF Carries
  <2>5. Run(Piece(W(h), k)) /\ Run(Piece(W(g), l))
    BY <1>5
  <2>6. Apart(Piece(W(h), k), Piece(W(g), l))
    BY <1>5, <1>9
  <2> QED
    BY <2>3, <2>4, <2>5, <2>6, ApartShareNothing DEF NoneShared
<1> DEFINE CW(h) == Content(W(h))
<1> HIDE DEF D, W
<1>10. /\ P \in Seq(Seq(Line)) /\ Len(P) = 5
       /\ P[1] = pending[s] /\ P[2] = Collected(s)
       /\ P[3] = CW("ingest") /\ P[4] = CW("end") /\ P[5] = CW("sweep")
  BY <1>1, <1>3, <1>6, PlacesAre DEF OnceEach, W
<1> HIDE DEF P
<1>11. \A h \in Handler : OnceEach(CW(h)) /\ \A x : Has(CW(h), x) => Carries(W(h), x)
  BY <1>6
<1> HIDE DEF CW
<1>12. NoneShared(pending[s], Collected(s))
       /\ \A h \in Handler : NoneShared(pending[s], CW(h)) /\ NoneShared(Collected(s), CW(h))
  <2>1. ASSUME NEW x \in Line, Has(Collected(s), x)
        PROVE  ~Has(pending[s], x) /\ \A h \in Handler : ~Carries(W(h), x)
    <3>1. PICK d \in Stored(s) : Has(d.lines, x)
      BY <1>2, <1>3, <2>1
    <3> QED
      BY <1>7, <3>1
  <2> QED
    BY <1>8, <1>11, <2>1 DEF NoneShared
<1>13. \A h, g \in Handler : g # h => NoneShared(CW(h), CW(g))
  BY <1>9, <1>11 DEF NoneShared
<1>14. \A k \in 1 .. 5 : OnceEach(P[k])
  <2>1. \A k \in 1 .. 5 : k = 1 \/ k = 2 \/ k = 3 \/ k = 4 \/ k = 5
    OBVIOUS
  <2> QED
    BY <1>3, <1>4, <1>10, <1>11, <2>1, Handlers
<1>15. \A k, l \in 1 .. 5 : k < l => NoneShared(P[k], P[l])
  <2>1. \A k, l \in 1 .. 5 : k < l =>
           \/ k = 1 /\ l = 2
           \/ k = 1 /\ l \in {3, 4, 5}
           \/ k = 2 /\ l \in {3, 4, 5}
           \/ k = 3 /\ l = 4
           \/ k = 3 /\ l = 5
           \/ k = 4 /\ l = 5
    OBVIOUS
  <2>2. NoneShared(P[1], P[2]) /\ \A l \in {3, 4, 5} : NoneShared(P[1], P[l]) /\ NoneShared(P[2], P[l])
    BY <1>10, <1>12, Handlers
  <2>3. NoneShared(P[3], P[4]) /\ NoneShared(P[3], P[5]) /\ NoneShared(P[4], P[5])
    BY <1>10, <1>13, Handlers
  <2> QED
    BY <2>1, <2>2, <2>3
<1>16. OnceEach(FlattenSeq(P))
  BY <1>10, <1>14, <1>15, FlattenOnceEach
<1> QED
  BY <1>16 DEF OnceEach, P

(* No line of an upload is in two places at once or in two documents, for  *)
(* any number of uploads, of any length, in any chunks, with any crashes.  *)
THEOREM LinesAreOnceEach == Spec => []EachLineOnce
<1>1. IngestInv => EachLineOnce
  BY PlacesOnceEach DEF EachLineOnce
<1> QED
  BY <1>1, IngestStays, PTL

-----------------------------------------------------------------------------
(* Numbers.                                                                *)

(* No two records of an upload have one number.                            *)
NumbersInv(s) ==
    /\ \A h \in Handler : LET rows == handler[s][h].rows IN
          /\ \A k, l \in 1 .. Len(rows) : k < l => rows[k].seq < rows[l].seq
          /\ \A g \in Handler \ {h} : \A k \in 1 .. Len(rows), l \in 1 .. Len(handler[s][g].rows) :
                rows[k].seq # handler[s][g].rows[l].seq
          /\ \A d \in Stored(s) : \A k \in 1 .. Len(rows) : d.seq # rows[k].seq
    /\ \A d \in Stored(s) : \A e \in Stored(s) \ {d} : d.seq # e.seq

LEMMA NumbersAre ==
    ASSUME Typed, NEW s \in Session, RowsInv(s)
    PROVE  /\ seq[s] \in Nat
           /\ \A d \in Stored(s) : d.seq \in Nat /\ d.seq <= seq[s]
           /\ \A h \in Handler : /\ handler[s][h].rows \in Seq(Row)
                                 /\ Len(handler[s][h].rows) \in Nat
           /\ \A h \in Handler : \A k \in 1 .. Len(handler[s][h].rows) :
                 handler[s][h].rows[k].seq \in Nat /\ handler[s][h].rows[k].seq <= seq[s]
<1>1. seq[s] \in Nat /\ docs \subseteq Row /\ \A h \in Handler : handler[s][h] \in HandlerState
  BY DEF Typed
<1>2. \A r \in Row : r.seq \in Nat
  BY DEF Row
<1>3. \A d \in Stored(s) : d.seq \in Nat /\ d.seq <= seq[s]
  BY <1>1, <1>2 DEF RowsInv, IsRowOf, Stored
<1>4. \A h \in Handler : handler[s][h].rows \in Seq(Row) /\ Len(handler[s][h].rows) \in Nat
  BY <1>1, StateParts
<1>5. ASSUME NEW h \in Handler, NEW k \in 1 .. Len(handler[s][h].rows)
      PROVE  handler[s][h].rows[k].seq \in Nat /\ handler[s][h].rows[k].seq <= seq[s]
  <2> DEFINE q == handler[s][h].rows
  <2>1. q \in Seq(Row) /\ k \in 1 .. Len(q) /\ IsRowOf(s, q[k])
    BY <1>4 DEF RowsInv
  <2> HIDE DEF q
  <2>2. q[k] \in Row
    BY <2>1
  <2>3. q[k].seq \in Nat /\ q[k].seq <= seq[s]
    BY <1>2, <2>1, <2>2 DEF IsRowOf
  <2> QED
    BY <2>3 DEF q
<1> QED
  BY <1>1, <1>3, <1>4, <1>5

(* A step that numbers nothing and stores nothing.                         *)
Stays(s) ==
    /\ Stored(s)' \subseteq Stored(s)
    /\ \A g \in Handler : handler'[s][g].rows = << >> \/ handler'[s][g].rows = handler[s][g].rows

LEMMA StaysNumbered ==
    ASSUME NEW s \in Session, Stays(s), NumbersInv(s)
    PROVE  NumbersInv(s)'
<1>1. \A g \in Handler : \A k \in 1 .. Len(handler'[s][g].rows) :
         handler'[s][g].rows = handler[s][g].rows
  BY DEF Stays
<1>2. Stored(s)' \subseteq Stored(s)
  BY DEF Stays
<1>3. ASSUME NEW h \in Handler, NEW k \in 1 .. Len(handler'[s][h].rows)
      PROVE  /\ \A l \in 1 .. Len(handler'[s][h].rows) : k < l =>
                   handler'[s][h].rows[k].seq < handler'[s][h].rows[l].seq
             /\ \A g \in Handler \ {h} : \A l \in 1 .. Len(handler'[s][g].rows) :
                   handler'[s][h].rows[k].seq # handler'[s][g].rows[l].seq
             /\ \A d \in Stored(s) : d.seq # handler'[s][h].rows[k].seq
  <2>1. handler'[s][h].rows = handler[s][h].rows
    BY <1>1
  <2> DEFINE q == handler[s][h].rows
  <2>2. k \in 1 .. Len(q) /\ handler'[s][h].rows = q
    BY <2>1
  <2>3. /\ \A l \in 1 .. Len(q) : k < l => q[k].seq < q[l].seq
        /\ \A d \in Stored(s) : d.seq # q[k].seq
    BY <2>2 DEF NumbersInv
  <2>4. ASSUME NEW g \in Handler \ {h}, NEW l \in 1 .. Len(handler'[s][g].rows)
        PROVE  q[k].seq # handler'[s][g].rows[l].seq
    <3>1. handler'[s][g].rows = handler[s][g].rows
      BY <1>1
    <3> QED
      BY <2>2, <3>1 DEF NumbersInv
  <2> HIDE DEF q
  <2> QED
    BY <2>2, <2>3, <2>4
<1>4. \A d \in Stored(s) : \A e \in Stored(s) \ {d} : d.seq # e.seq
  BY DEF NumbersInv
<1> QED
  BY <1>2, <1>3, <1>4 DEF NumbersInv

LEMMA QuietSteps ==
    ASSUME Typed, NEW s \in Session, UploadInv(s),
           \/ ClientNext(s) \/ LookUp(s) \/ Feed(s) \/ EndSession(s) \/ GoStale(s)
           \/ \E h \in Handler : Flush(s, h)
           \/ \E h \in {"ingest", "end"} : LoseRequest(s, h)
           \/ ExpireStaleSessions \/ Crash \/ UNCHANGED vars
    PROVE  Stays(s) /\ overwritten' = overwritten /\ source' = source
<1>1. docs' = docs => Stored(s)' = Stored(s)
  BY DEF Stored
<1>2. handler \in [Session -> [Handler -> HandlerState]]
  BY DEF Typed
<1>3. handler[s] \in [Handler -> HandlerState]
  BY <1>2
<1>4. Idle.rows = << >> /\ \A R : Working(R).rows = << >>
  BY DEF Idle, Working
<1>5. ASSUME NEW h \in Handler, NEW w, handler' = [handler EXCEPT ![s][h] = w], w.rows = << >>
      PROVE  \A g \in Handler : handler'[s][g].rows = << >> \/ handler'[s][g].rows = handler[s][g].rows
  <2>1. handler'[s] = [handler[s] EXCEPT ![h] = w]
    BY <1>2, <1>5
  <2>2. \A g \in Handler : handler'[s][g] = IF g = h THEN w ELSE handler[s][g]
    BY <1>3, <2>1
  <2> QED
    BY <1>5, <2>2
<1>6. ASSUME NEW h \in Handler, NEW x \in {"idle", "sent", "found", "working"},
             handler' = [handler EXCEPT ![s][h].pc = x]
      PROVE  \A g \in Handler : handler'[s][g].rows = handler[s][g].rows
  <2>1. handler' = PcSet(s, h, x)
    BY <1>6 DEF PcSet
  <2> QED
    BY <2>1, PcChange, Handlers
<1>7. ASSUME StartUpload(s) \/ StopWaiting(s) \/ GoStale(s) \/ UNCHANGED vars
      PROVE  Stays(s) /\ overwritten' = overwritten /\ source' = source
  BY <1>1, <1>7 DEF StartUpload, StopWaiting, GoStale, memoryVars, uploadVars, historyVars, vars,
        Stays
<1>8. ASSUME SendChunk(s) PROVE Stays(s) /\ overwritten' = overwritten /\ source' = source
  <2>1. PICK c : handler' = [handler EXCEPT ![s]["ingest"] = [Idle EXCEPT !.pc = "sent", !.chunk = c]]
    BY <1>8 DEF SendChunk
  <2>2. [Idle EXCEPT !.pc = "sent", !.chunk = c].rows = << >>
    BY DEF Idle
  <2>3. docs' = docs /\ overwritten' = overwritten /\ source' = source
    BY <1>8 DEF SendChunk, historyVars
  <2> QED
    BY <1>1, <1>5, <2>1, <2>2, <2>3, Handlers DEF Stays
<1>9. ASSUME EndUpload(s) \/ CloseFailed(s)
      PROVE  Stays(s) /\ overwritten' = overwritten /\ source' = source
  <2>1. handler' = [handler EXCEPT ![s]["end"].pc = "sent"]
        /\ docs' = docs /\ overwritten' = overwritten /\ source' = source
    BY <1>9 DEF EndUpload, CloseFailed, historyVars
  <2> QED
    BY <1>1, <1>6, <2>1, Handlers DEF Stays
<1>10. ASSUME NEW h \in {"ingest", "end"}, LoseRequest(s, h)
       PROVE  Stays(s) /\ overwritten' = overwritten /\ source' = source
  <2>1. handler' = [handler EXCEPT ![s][h] = Idle] /\ h \in Handler
        /\ docs' = docs /\ overwritten' = overwritten /\ source' = source
    BY <1>10, Handlers DEF LoseRequest, historyVars
  <2> QED
    BY <1>1, <1>4, <1>5, <2>1 DEF Stays
<1>11. ASSUME LookUp(s) PROVE Stays(s) /\ overwritten' = overwritten /\ source' = source
  <2>1. docs' = docs /\ overwritten' = overwritten /\ source' = source
    BY <1>11 DEF LookUp, historyVars
  <2>2. \/ handler' = [handler EXCEPT ![s]["ingest"].pc = "found"]
        \/ handler' = [handler EXCEPT ![s]["ingest"] = Idle]
    BY <1>11 DEF LookUp, Finish
  <2> QED
    BY <1>1, <1>4, <1>5, <1>6, <2>1, <2>2, Handlers DEF Stays
<1>12. ASSUME EndSession(s) PROVE Stays(s) /\ overwritten' = overwritten /\ source' = source
  <2>1. docs' = docs /\ overwritten' = overwritten /\ source' = source
    BY <1>12 DEF EndSession, historyVars
  <2>2. \/ handler' = [handler EXCEPT ![s]["end"].pc = "found"]
        \/ handler' = [handler EXCEPT ![s]["end"] = Idle]
    BY <1>12 DEF EndSession, Finish
  <2> QED
    BY <1>1, <1>4, <1>5, <1>6, <2>1, <2>2, Handlers DEF Stays
<1>13. ASSUME Feed(s) PROVE Stays(s) /\ overwritten' = overwritten /\ source' = source
  <2>1. docs' = docs /\ overwritten' = overwritten /\ source' = source
    BY <1>13 DEF Feed, historyVars
  <2>2. \/ handler' = [handler EXCEPT ![s]["ingest"] = Idle]
        \/ \E R : handler' = [handler EXCEPT ![s]["ingest"] = Working(R)]
    BY <1>13 DEF Feed, Finish
  <2> QED
    BY <1>1, <1>4, <1>5, <2>1, <2>2, Handlers DEF Stays
<1>14. ASSUME NEW h \in Handler, Flush(s, h)
       PROVE  Stays(s) /\ overwritten' = overwritten /\ source' = source
  <2>1. docs' = docs /\ overwritten' = overwritten /\ source' = source
    BY <1>14 DEF Flush, historyVars
  <2>2. \/ handler' = [handler EXCEPT ![s][h] = Idle]
        \/ \E R : handler' = [handler EXCEPT ![s][h] = Working(R)]
    BY <1>14 DEF Flush, Finish
  <2> QED
    BY <1>1, <1>4, <1>5, <2>1, <2>2 DEF Stays
<1>15. ASSUME ExpireStaleSessions PROVE Stays(s) /\ overwritten' = overwritten /\ source' = source
  <2>1. docs' = docs /\ overwritten' = overwritten /\ source' = source
    BY <1>15 DEF ExpireStaleSessions, historyVars, uploadVars
  <2>2. handler'[s] = IF s \in live \cap stale THEN [handler[s] EXCEPT !["sweep"].pc = "found"]
                      ELSE handler[s]
    BY <1>15 DEF ExpireStaleSessions
  <2>3. \A g \in Handler : handler'[s][g].rows = handler[s][g].rows
    <3>1. CASE s \in live \cap stale
      <4>1. handler'[s] = [handler[s] EXCEPT !["sweep"] = SetPc(handler[s]["sweep"], "found")]
        BY <2>2, <3>1 DEF SetPc
      <4>2. SetPc(handler[s]["sweep"], "found").rows = handler[s]["sweep"].rows
        BY <1>3, StateParts, Handlers
      <4> QED
        BY <1>3, <4>1, <4>2
    <3>2. CASE s \notin live \cap stale
      BY <2>2, <3>2
    <3> QED
      BY <3>1, <3>2
  <2> QED
    BY <1>1, <2>1, <2>3 DEF Stays
<1>16. ASSUME Crash PROVE Stays(s) /\ overwritten' = overwritten /\ source' = source
  <2>1. docs' = docs /\ overwritten' = overwritten /\ source' = source
        /\ \A g \in Handler : handler'[s][g] = Idle
    BY <1>16 DEF Crash
  <2> QED
    BY <1>1, <1>4, <2>1 DEF Stays
<1> QED
  BY <1>7, <1>8, <1>9, <1>10, <1>11, <1>12, <1>13, <1>14, <1>15, <1>16 DEF ClientNext

LEMMA PostProcessNumbers ==
    ASSUME Typed, NEW s \in Session, UploadInv(s), NumbersInv(s), NEW h \in Handler,
           PostProcess(s, h)
    PROVE  NumbersInv(s)'
<1> DEFINE q == handler[s][h].rows
           p == handler'[s][h].rows
           n == Len(q)
           x == Numbered(s, h)
<1>1. /\ Len(p) = n + 1 /\ \A k \in 1 .. n : p[k] = q[k]
      /\ p[n + 1] = x
      /\ \A g \in Handler : g # h => handler'[s][g] = handler[s][g]
  BY PostProcessHandler
<1>2. Stored(s)' = Stored(s)
  BY DEF PostProcess, Stored
<1>3. x.seq = seq[s] + 1
  BY DEF Numbered
<1>4. /\ seq[s] \in Nat
      /\ \A d \in Stored(s) : d.seq \in Nat /\ d.seq <= seq[s]
      /\ \A g \in Handler : \A k \in 1 .. Len(handler[s][g].rows) :
            handler[s][g].rows[k].seq \in Nat /\ handler[s][g].rows[k].seq <= seq[s]
      /\ n \in Nat
  BY NumbersAre DEF UploadInv
<1>5. /\ \A k, l \in 1 .. n : k < l => q[k].seq < q[l].seq
      /\ \A g \in Handler \ {h} : \A k \in 1 .. n, l \in 1 .. Len(handler[s][g].rows) :
            q[k].seq # handler[s][g].rows[l].seq
      /\ \A d \in Stored(s) : \A k \in 1 .. n : d.seq # q[k].seq
  BY DEF NumbersInv
<1>6. \A k \in 1 .. n : q[k].seq \in Nat /\ q[k].seq < x.seq
  BY <1>3, <1>4
<1>7. \A d \in Stored(s) : d.seq # x.seq
  BY <1>3, <1>4
<1>8. \A g \in Handler : \A k \in 1 .. Len(handler[s][g].rows) : handler[s][g].rows[k].seq # x.seq
  BY <1>3, <1>4
<1> HIDE DEF q, n, x, p
<1>9. \A k \in 1 .. n + 1 : (k \in 1 .. n /\ p[k] = q[k]) \/ (k = n + 1 /\ p[k] = x)
  <2> SUFFICES ASSUME NEW k \in 1 .. n + 1
               PROVE  (k \in 1 .. n /\ p[k] = q[k]) \/ (k = n + 1 /\ p[k] = x)
    OBVIOUS
  <2>1. k \in 1 .. n \/ k = n + 1
    BY <1>4
  <2> QED
    BY <1>1, <2>1
<1>10. \A k, l \in 1 .. n + 1 : k < l => p[k].seq < p[l].seq
  <2> SUFFICES ASSUME NEW k \in 1 .. n + 1, NEW l \in 1 .. n + 1, k < l PROVE p[k].seq < p[l].seq
    OBVIOUS
  <2>1. k \in 1 .. n /\ p[k] = q[k]
    BY <1>1, <1>4
  <2>2. CASE l \in 1 .. n
    BY <1>1, <1>5, <2>1, <2>2
  <2>3. CASE l = n + 1
    BY <1>1, <1>6, <2>1, <2>3
  <2> QED
    BY <1>4, <2>2, <2>3
<1>11. \A d \in Stored(s) : \A k \in 1 .. n + 1 : d.seq # p[k].seq
  BY <1>5, <1>7, <1>9
<1>12. ASSUME NEW g \in Handler \ {h}, NEW l \in 1 .. Len(handler[s][g].rows), NEW k \in 1 .. n + 1
       PROVE  p[k].seq # handler[s][g].rows[l].seq
  BY <1>5, <1>8, <1>9
<1>13. ASSUME NEW g \in Handler
       PROVE  /\ \A k, l \in 1 .. Len(handler'[s][g].rows) : k < l =>
                    handler'[s][g].rows[k].seq < handler'[s][g].rows[l].seq
              /\ \A d \in Stored(s)' : \A k \in 1 .. Len(handler'[s][g].rows) :
                    d.seq # handler'[s][g].rows[k].seq
  <2>1. CASE g = h
    BY <1>1, <1>2, <1>10, <1>11, <2>1 DEF p
  <2>2. CASE g # h
    <3>1. handler'[s][g] = handler[s][g]
      BY <1>1, <2>2
    <3> QED
      BY <1>2, <3>1 DEF NumbersInv
  <2> QED
    BY <2>1, <2>2
<1>14. ASSUME NEW g \in Handler, NEW f \in Handler \ {g},
              NEW k \in 1 .. Len(handler'[s][g].rows), NEW l \in 1 .. Len(handler'[s][f].rows)
       PROVE  handler'[s][g].rows[k].seq # handler'[s][f].rows[l].seq
  <2>1. CASE g = h
    <3>1. handler'[s][f] = handler[s][f] /\ handler'[s][g].rows = p
      BY <1>1, <2>1 DEF p
    <3>2. k \in 1 .. n + 1
      BY <1>1, <3>1
    <3> QED
      BY <1>12, <2>1, <3>1, <3>2
  <2>2. CASE f = h
    <3>1. handler'[s][g] = handler[s][g] /\ handler'[s][f].rows = p
      BY <1>1, <2>2 DEF p
    <3>2. l \in 1 .. n + 1
      BY <1>1, <3>1
    <3> QED
      BY <1>12, <2>2, <3>1, <3>2
  <2>3. CASE g # h /\ f # h
    <3>1. handler'[s][g] = handler[s][g] /\ handler'[s][f] = handler[s][f]
      BY <1>1, <2>3
    <3> QED
      BY <3>1 DEF NumbersInv
  <2> QED
    BY <2>1, <2>2, <2>3
<1>15. \A d \in Stored(s)' : \A e \in Stored(s)' \ {d} : d.seq # e.seq
  BY <1>2 DEF NumbersInv
<1> QED
  BY <1>13, <1>14, <1>15 DEF NumbersInv

LEMMA StoreNumbers ==
    ASSUME Typed, NEW s \in Session, UploadInv(s), NumbersInv(s), NEW h \in Handler, Store(s, h)
    PROVE  NumbersInv(s)'
<1> DEFINE q == handler[s][h].rows
<1>1. PICK written \in SUBSET ToSet(q) : Put(written)
  BY DEF Store
<1>2. handler'[s][h].rows = << >> /\ \A g \in Handler : g # h => handler'[s][g] = handler[s][g]
  <2>1. handler' = [handler EXCEPT ![s][h] = Idle]
    BY DEF Store, Finish
  <2> QED
    <3>1. handler' = IdleSet(s, h)
      BY <2>1 DEF IdleSet
    <3> QED
      BY <3>1, IdleChange
<1>3. \A r \in written : r.session = s /\ \E k \in 1 .. Len(q) : r = q[k]
  BY StoredRows DEF UploadInv, IsRowOf
<1>4. Stored(s)' \subseteq Stored(s) \union written
  <2>1. docs' \subseteq docs \union written
    BY <1>1 DEF Put
  <2> QED
    BY <2>1 DEF Stored
<1>5. /\ \A g \in Handler \ {h} : \A k \in 1 .. Len(q), l \in 1 .. Len(handler[s][g].rows) :
            q[k].seq # handler[s][g].rows[l].seq
      /\ \A d \in Stored(s) : \A k \in 1 .. Len(q) : d.seq # q[k].seq
      /\ \A k, l \in 1 .. Len(q) : k < l => q[k].seq < q[l].seq
  BY DEF NumbersInv
<1>50. \A k \in 1 .. Len(q) : q[k].seq \in Nat
  BY NumbersAre DEF UploadInv
<1>51. Len(q) \in Nat
  BY NumbersAre DEF UploadInv
<1> HIDE DEF q
<1>6. \A d \in Stored(s) \union written : \A e \in (Stored(s) \union written) \ {d} : d.seq # e.seq
  <2> SUFFICES ASSUME NEW d \in Stored(s) \union written,
                      NEW e \in (Stored(s) \union written) \ {d}
               PROVE  d.seq # e.seq
    OBVIOUS
  <2>1. CASE d \in Stored(s) /\ e \in Stored(s)
    BY <2>1 DEF NumbersInv
  <2>2. CASE d \in Stored(s) /\ e \in written
    BY <1>3, <1>5, <2>2
  <2>3. CASE d \in written /\ e \in Stored(s)
    BY <1>3, <1>5, <2>3
  <2>4. CASE d \in written /\ e \in written
    <3>1. PICK k \in 1 .. Len(q) : d = q[k]
      BY <1>3, <2>4
    <3>2. PICK l \in 1 .. Len(q) : e = q[l]
      BY <1>3, <2>4
    <3>3. k # l
      BY <3>1, <3>2
    <3>4. k < l \/ l < k
      BY <1>51, <3>3
    <3>5. q[k].seq < q[l].seq \/ q[l].seq < q[k].seq
      BY <1>5, <3>4
    <3> QED
      BY <1>50, <3>1, <3>2, <3>5
  <2> QED
    BY <2>1, <2>2, <2>3, <2>4
<1>7. ASSUME NEW g \in Handler
      PROVE  /\ \A k, l \in 1 .. Len(handler'[s][g].rows) : k < l =>
                   handler'[s][g].rows[k].seq < handler'[s][g].rows[l].seq
             /\ \A d \in Stored(s)' : \A k \in 1 .. Len(handler'[s][g].rows) :
                   d.seq # handler'[s][g].rows[k].seq
             /\ \A f \in Handler \ {g} :
                   \A k \in 1 .. Len(handler'[s][g].rows), l \in 1 .. Len(handler'[s][f].rows) :
                      handler'[s][g].rows[k].seq # handler'[s][f].rows[l].seq
  <2>1. CASE g = h
    <3>1. 1 .. Len(handler'[s][g].rows) = {}
      BY <1>2, <2>1
    <3> QED
      BY <3>1
  <2>2. CASE g # h
    <3> DEFINE p == handler[s][g].rows
    <3>1. handler'[s][g].rows = p
      BY <1>2, <2>2
    <3>2. \A k, l \in 1 .. Len(p) : k < l => p[k].seq < p[l].seq
      BY DEF NumbersInv
    <3>3. \A d \in Stored(s) : \A k \in 1 .. Len(p) : d.seq # p[k].seq
      BY DEF NumbersInv
    <3>4. \A k \in 1 .. Len(q), l \in 1 .. Len(p) : q[k].seq # p[l].seq
      BY <1>5, <2>2
    <3>5. \A d \in Stored(s)' : \A k \in 1 .. Len(p) : d.seq # p[k].seq
      BY <1>3, <1>4, <3>3, <3>4
    <3>6. ASSUME NEW f \in Handler \ {g}, NEW k \in 1 .. Len(p),
                    NEW l \in 1 .. Len(handler'[s][f].rows)
          PROVE  p[k].seq # handler'[s][f].rows[l].seq
      <4>1. f # h
        BY <1>2
      <4>2. handler'[s][f].rows = handler[s][f].rows
        BY <1>2, <4>1
      <4> QED
        BY <4>2 DEF NumbersInv
    <3> HIDE DEF p
    <3> QED
      BY <3>1, <3>2, <3>5, <3>6
  <2> QED
    BY <2>1, <2>2
<1>8. \A d \in Stored(s)' : \A e \in Stored(s)' \ {d} : d.seq # e.seq
  BY <1>4, <1>6
<1> QED
  BY <1>7, <1>8 DEF NumbersInv

(* Files that are uploaded under one name get the same numbers.            *)
DistinctNames == \A s, t \in Session : source[s] = source[t] => s = t

UniqueInv == (\A s \in Session : NumbersInv(s)) /\ (DistinctNames => overwritten = {})

LEMMA StoreKeepsOthers ==
    ASSUME Typed, \A s \in Session : UploadInv(s), \A s \in Session : NumbersInv(s), DistinctNames,
           NEW s \in Session, NEW h \in Handler, Store(s, h)
    PROVE  overwritten' = overwritten
<1> DEFINE q == handler[s][h].rows
<1>1. PICK written \in SUBSET ToSet(q) : Put(written)
  BY DEF Store
<1>2. \A r \in written : IsRowOf(s, r) /\ \E k \in 1 .. Len(q) : r = q[k]
  BY StoredRows DEF UploadInv
<1>3. ASSUME NEW d \in docs, NEW r \in written, DocID(d) = DocID(r) PROVE FALSE
  <2>1. d.source = r.source /\ d.seq = r.seq
    BY <1>3 DEF DocID
  <2>2. d.session \in Session
    BY DEF Typed, Row
  <2>3. d \in Stored(d.session)
    BY DEF Stored
  <2>4. d.source = source[d.session]
    BY <2>2, <2>3 DEF UploadInv, RowsInv, IsRowOf
  <2>5. r.source = source[s]
    BY <1>2 DEF IsRowOf
  <2>6. d.session = s
    BY <2>1, <2>2, <2>4, <2>5 DEF DistinctNames
  <2>7. PICK k \in 1 .. Len(q) : r = q[k]
    BY <1>2
  <2>8. NumbersInv(s) /\ d \in Stored(s)
    BY <2>3, <2>6
  <2>9. d.seq # q[k].seq
    BY <2>8 DEF NumbersInv
  <2> QED
    BY <2>1, <2>7, <2>9
<1>4. {d \in docs : \E r \in written : DocID(d) = DocID(r)} = {}
  BY <1>3
<1> QED
  BY <1>1, <1>4 DEF Put

LEMMA UniqueNext ==
    ASSUME Typed, \A s \in Session : UploadInv(s), UniqueInv, [Next]_vars
    PROVE  UniqueInv'
<1>1. CASE \E s \in Session, h \in Handler : Store(s, h)
  <2>1. PICK s \in Session, h \in Handler : Store(s, h)
    BY <1>1
  <2>2. source' = source
    BY <2>1 DEF Store
  <2>3. NumbersInv(s)'
    BY <2>1, StoreNumbers DEF UniqueInv
  <2>4. ASSUME NEW t \in Session, t # s PROVE NumbersInv(t)'
    <3>1. ServerNext(s)
      BY <2>1 DEF ServerNext
    <3>2. Same(t)
      BY <2>4, <3>1, OthersSame
    <3>3. Stays(t)
      BY <3>2 DEF Same, Stays
    <3> QED
      BY <3>3, StaysNumbered DEF UniqueInv
  <2>5. DistinctNames' => overwritten' = {}
    BY <2>1, <2>2, StoreKeepsOthers DEF UniqueInv, DistinctNames
  <2> QED
    BY <2>3, <2>4, <2>5 DEF UniqueInv
<1>2. CASE \E s \in Session, h \in Handler : PostProcess(s, h)
  <2>1. PICK s \in Session, h \in Handler : PostProcess(s, h)
    BY <1>2
  <2>2. source' = source /\ overwritten' = overwritten
    BY <2>1 DEF PostProcess, uploadVars, historyVars
  <2>3. NumbersInv(s)'
    BY <2>1, PostProcessNumbers DEF UniqueInv
  <2>4. ASSUME NEW t \in Session, t # s PROVE NumbersInv(t)'
    <3>1. ServerNext(s)
      BY <2>1 DEF ServerNext
    <3>2. Same(t)
      BY <2>4, <3>1, OthersSame
    <3>3. Stays(t)
      BY <3>2 DEF Same, Stays
    <3> QED
      BY <3>3, StaysNumbered DEF UniqueInv
  <2> QED
    BY <2>2, <2>3, <2>4 DEF UniqueInv, DistinctNames
<1>3. ASSUME NEW s \in Session,
             \/ ClientNext(s) \/ LookUp(s) \/ Feed(s) \/ EndSession(s) \/ GoStale(s)
             \/ \E h \in Handler : Flush(s, h)
             \/ \E h \in {"ingest", "end"} : LoseRequest(s, h)
      PROVE  UniqueInv'
  <2>1. Stays(s) /\ overwritten' = overwritten /\ source' = source
    BY <1>3, QuietSteps
  <2>2. NumbersInv(s)'
    BY <2>1, StaysNumbered DEF UniqueInv
  <2>3. ASSUME NEW t \in Session, t # s PROVE NumbersInv(t)'
    <3>1. \/ ClientNext(s) \/ ServerNext(s)
          \/ \E h \in {"ingest", "end"} : LoseRequest(s, h)
      BY <1>3 DEF ServerNext
    <3>2. Same(t)
      BY <2>3, <3>1, OthersSame
    <3>3. Stays(t)
      BY <3>2 DEF Same, Stays
    <3> QED
      BY <3>3, StaysNumbered DEF UniqueInv
  <2> QED
    BY <2>1, <2>2, <2>3 DEF UniqueInv, DistinctNames
<1>4. CASE ExpireStaleSessions \/ Crash \/ UNCHANGED vars
  <2>1. \A s \in Session : Stays(s)
    BY <1>4, QuietSteps
  <2>2. \A s \in Session : NumbersInv(s)'
    BY <2>1, StaysNumbered DEF UniqueInv
  <2>3. overwritten' = overwritten /\ source' = source
    BY <1>4 DEF ExpireStaleSessions, Crash, vars, historyVars, uploadVars
  <2> QED
    BY <2>2, <2>3 DEF UniqueInv, DistinctNames
<1>5. \/ \E s \in Session : ClientNext(s) \/ ServerNext(s)
      \/ \E s \in Session, h \in {"ingest", "end"} : LoseRequest(s, h)
      \/ ExpireStaleSessions \/ Crash \/ UNCHANGED vars
  BY DEF Next
<1>6. ASSUME NEW s \in Session, ServerNext(s) PROVE UniqueInv'
  BY <1>1, <1>2, <1>3, <1>6 DEF ServerNext
<1> QED
  BY <1>3, <1>4, <1>5, <1>6

LEMMA UniqueInit == Init => UniqueInv
<1> SUFFICES ASSUME Init PROVE UniqueInv
  OBVIOUS
<1>1. \A s \in Session : Stored(s) = {} /\ \A h \in Handler : handler[s][h].rows = << >>
  BY DEF Init, Stored, Idle
<1>2. \A s \in Session : NumbersInv(s)
  BY <1>1 DEF NumbersInv
<1>3. overwritten = {}
  BY DEF Init
<1> QED
  BY <1>2, <1>3 DEF UniqueInv

(* Names do not change.                                                    *)
LEMMA NamesStay == DistinctNames /\ [Next]_vars => DistinctNames'
<1> SUFFICES ASSUME [Next]_vars PROVE source' = source
  BY DEF DistinctNames
<1> USE DEF historyVars, uploadVars, memoryVars
<1>1. ASSUME NEW s \in Session, ClientNext(s) PROVE source' = source
  BY <1>1 DEF ClientNext, StartUpload, SendChunk, EndUpload, CloseFailed, StopWaiting
<1>2. ASSUME NEW s \in Session, ServerNext(s) PROVE source' = source
  BY <1>2 DEF ServerNext, LookUp, Feed, EndSession, GoStale, Flush, PostProcess, Store
<1> QED
  BY <1>1, <1>2 DEF Next, LoseRequest, ExpireStaleSessions, Crash, vars

THEOREM NumbersStay == Spec => []UniqueInv
<1>1. IngestInv /\ UniqueInv /\ [Next]_vars => UniqueInv'
  BY UniqueNext, TypedIsTypeOK DEF IngestInv
<1> QED
  BY <1>1, UniqueInit, IngestStays, PTL DEF Spec

(* When no two uploads have a file of one name, every line of an upload is *)
(* in one place and no document replaces another line's document: the      *)
(* sequence number alone keeps the documents of an upload apart.           *)
THEOREM UploadsAreConsistent == Spec /\ DistinctNames => []Consistent
<1>1. IngestInv /\ UniqueInv /\ DistinctNames /\ EachLineOnce => Consistent
  BY DEF IngestInv, UniqueInv, Consistent, NothingOverwritten
<1> QED
  BY <1>1, NamesStay, NumbersStay, IngestStays, LinesAreOnceEach, PTL DEF Spec

-----------------------------------------------------------------------------
(* An upload that can still succeed: nothing it sent is lost.              *)

Good(s) ==
    /\ s \notin crashed
    /\ \/ s \in live /\ client[s] \in {"open", "waiting"}
       \/ sent[s] = FileLines /\ client[s] \in {"open", "ending", "succeeded"}

(* A record begins where the file or a record does, and goes on to where   *)
(* the next one begins.                                                    *)
Begun(r, opens) ==
    /\ r[1] = 1 \/ r[1] \in opens
    /\ \A x \in opens : ~(r[1] < x /\ x <= End(r))
Complete(r, folding1, opens) ==
    IF folding1 THEN Begun(r, opens) /\ (End(r) = FileLines \/ End(r) + 1 \in opens)
    ELSE r[1] = End(r)

RecordsInv(s) ==
    /\ \A d \in Stored(s) : Complete(d.lines, folding[s], header[s])
    /\ \A h \in Handler : \A k \in 1 .. Size(handler[s][h]) :
          Complete(Piece(handler[s][h], k), folding[s], header[s])

SequenceInv(s) ==
    /\ \A d, e \in Stored(s) : d.seq < e.seq => Before(d.lines, e.lines)
    /\ \A h \in Handler : \A k \in 1 .. Len(handler[s][h].rows) :
          \A d \in Stored(s) : d.seq < handler[s][h].rows[k].seq

(* One handler at a time has records, and they come after what is stored.  *)
TurnsInv(s) ==
    \A h \in Handler : \A k \in 1 .. Size(handler[s][h]) :
        /\ \A g \in Handler \ {h} : Size(handler[s][g]) = 0
        /\ \A d \in Stored(s) : Before(d.lines, Piece(handler[s][h], k))
        /\ pending[s] # << >> => Before(Piece(handler[s][h], k), pending[s])

HeldInv(s) ==
    /\ pending[s] # << >> =>
          Begun(pending[s], header[s]) /\ \A d \in Stored(s) : Before(d.lines, pending[s])
    /\ s \in live /\ folding[s] /\ pending[s] = << >> =>
          IF handler[s]["ingest"].chunk = << >> THEN sent[s] = 0
          ELSE handler[s]["ingest"].chunk[1] = 1

OrderInv(s) == RecordsInv(s) /\ SequenceInv(s) /\ TurnsInv(s) /\ HeldInv(s)

Found(s, x) ==
    \/ x \in unsaved[s]
    \/ Holds(pending[s], x)
    \/ Holds(handler[s]["ingest"].chunk, x)
    \/ \E d \in Stored(s) : Holds(d.lines, x)
    \/ \E h \in Handler : \E k \in 1 .. Size(handler[s][h]) : Holds(Piece(handler[s][h], k), x)

AllInv(s) == \A x \in 1 .. sent[s] : Found(s, x)

GoodInv(s) == Good(s) => OrderInv(s) /\ AllInv(s)

-----------------------------------------------------------------------------
(* A step that leaves the lines of an upload where they are.               *)
KeepsPieces(s) ==
    /\ folding'[s] = folding[s] /\ header'[s] = header[s] /\ sent'[s] = sent[s]
    /\ pending'[s] = pending[s] /\ unsaved'[s] = unsaved[s] /\ Stored(s)' = Stored(s)
    /\ handler'[s]["ingest"].chunk = handler[s]["ingest"].chunk
    /\ \A g \in Handler :
          /\ Size(handler'[s][g]) = Size(handler[s][g])
          /\ \A k \in 1 .. Size(handler[s][g]) : Piece(handler'[s][g], k) = Piece(handler[s][g], k)
    /\ s \in live' => s \in live

KeepsLines(s) == KeepsPieces(s) /\ \A g \in Handler : handler'[s][g].rows = handler[s][g].rows

LEMMA KeepsTurns ==
    ASSUME NEW s \in Session, KeepsPieces(s), OrderInv(s), AllInv(s)
    PROVE  RecordsInv(s)' /\ TurnsInv(s)' /\ HeldInv(s)' /\ AllInv(s)'
<1> USE DEF KeepsPieces
<1>1. /\ \A g \in Handler : Size(handler'[s][g]) = Size(handler[s][g])
      /\ \A g \in Handler : \A k \in 1 .. Size(handler[s][g]) :
            Piece(handler'[s][g], k) = Piece(handler[s][g], k)
  OBVIOUS
<1>2. RecordsInv(s)'
  BY <1>1 DEF OrderInv, RecordsInv
<1>3. TurnsInv(s)'
  BY <1>1 DEF OrderInv, TurnsInv
<1>4. HeldInv(s)'
  BY DEF OrderInv, HeldInv
<1>5. AllInv(s)'
  <2>1. ASSUME NEW x \in 1 .. sent[s] PROVE Found(s, x)'
    <3>1. Found(s, x)
      BY DEF AllInv
    <3> QED
      BY <1>1, <3>1 DEF Found
  <2> QED
    BY <2>1 DEF AllInv
<1> QED
  BY <1>2, <1>3, <1>4, <1>5

LEMMA KeepsOrder ==
    ASSUME NEW s \in Session, KeepsLines(s), OrderInv(s), AllInv(s)
    PROVE  OrderInv(s)' /\ AllInv(s)'
<1>1. SequenceInv(s)'
  BY DEF OrderInv, SequenceInv, KeepsLines, KeepsPieces
<1>2. KeepsPieces(s)
  BY DEF KeepsLines
<1> QED
  BY <1>1, <1>2, KeepsTurns DEF OrderInv

LEMMA KeepsGood ==
    ASSUME NEW s \in Session, KeepsLines(s), Good(s)' => Good(s), GoodInv(s)
    PROVE  GoodInv(s)'
BY KeepsOrder DEF GoodInv

(* Handler states of equal records are equal to a handler.                 *)
LEMMA EqualRecords ==
    ASSUME NEW w, NEW v, w.rows = v.rows, w.records = v.records
    PROVE  Size(w) = Size(v) /\ \A k \in 1 .. Size(v) : Piece(w, k) = Piece(v, k)
BY DEF Size, Piece

LEMMA NoRecords ==
    ASSUME NEW w, w.rows = << >>, w.records = << >>
    PROVE  Size(w) = 0
<1>1. Len(<< >>) = 0
  OBVIOUS
<1> QED
  BY <1>1 DEF Size

(* An upload that begins has no lines anywhere.                            *)
LEMMA StartIsGood ==
    ASSUME Typed, NEW s \in Session, UploadInv(s), StartUpload(s)
    PROVE  GoodInv(s)'
<1>1. client[s] = "new" /\ pending' = pending /\ handler' = handler /\ docs' = docs /\ sent' = sent
  BY DEF StartUpload
<1>2. sent[s] = 0
  BY <1>1 DEF UploadInv, ClientInv
<1>3. Stored(s) = {}
  <2>1. ASSUME NEW d \in Stored(s) PROVE FALSE
    <3>1. Run(d.lines) /\ End(d.lines) <= 0
      BY <1>2 DEF UploadInv, LinesInv, DocsInv
    <3> QED
      BY <3>1, RunLength
  <2> QED
    BY <2>1
<1>4. \A h \in Handler : \A k \in 1 .. Size(handler[s][h]) : FALSE
  <2> SUFFICES ASSUME NEW h \in Handler, NEW k \in 1 .. Size(handler[s][h]) PROVE FALSE
    OBVIOUS
  <2>1. Run(Piece(handler[s][h], k)) /\ End(Piece(handler[s][h], k)) <= 0
    BY <1>2 DEF UploadInv, LinesInv, PiecesInv
  <2> QED
    BY <2>1, RunLength
<1>5. pending[s] = << >>
  <2> SUFFICES ASSUME pending[s] # << >> PROVE FALSE
    OBVIOUS
  <2>1. Run(pending[s]) /\ End(pending[s]) <= 0
    BY <1>2 DEF UploadInv, LinesInv, PendingInv
  <2> QED
    BY <2>1, RunLength
<1>6. handler[s]["ingest"].chunk = << >>
  <2>1. handler[s]["ingest"].pc = "idle"
    BY <1>1 DEF UploadInv, ClientInv
  <2> QED
    BY <2>1 DEF UploadInv, ShapeInv, Handler
<1>7. \A h \in Handler : \A k \in 1 .. Len(handler[s][h].rows) : FALSE
  <2> SUFFICES ASSUME NEW h \in Handler, NEW k \in 1 .. Len(handler[s][h].rows) PROVE FALSE
    OBVIOUS
  <2>1. handler[s][h] \in HandlerState
    BY DEF Typed
  <2> QED
    BY <1>4, <2>1, RowIsPiece
<1>8. Stored(s)' = {}
  BY <1>1, <1>3 DEF Stored
<1>9. /\ RecordsInv(s)' /\ SequenceInv(s)' /\ TurnsInv(s)'
  BY <1>1, <1>4, <1>7, <1>8 DEF RecordsInv, SequenceInv, TurnsInv
<1>10. HeldInv(s)'
  BY <1>1, <1>2, <1>5, <1>6 DEF HeldInv
<1>11. AllInv(s)'
  BY <1>1, <1>2 DEF AllInv
<1> QED
  BY <1>9, <1>10, <1>11 DEF GoodInv, OrderInv

LEMMA SendChunkIsGood ==
    ASSUME Typed, NEW s \in Session, UploadInv(s), SendChunk(s), GoodInv(s)
    PROVE  GoodInv(s)'
<1>1. client[s] = "open" /\ client' = [client EXCEPT ![s] = "waiting"] /\ Stored(s)' = Stored(s)
      /\ UNCHANGED <<live, stale, seq, pending, docs, restarts, source, header, folding,
                     cancelled, crashed, unsaved, overwritten>>
  BY DEF SendChunk, Stored, historyVars
<1>2. PICK n \in 1 .. FileLines - sent[s] :
         /\ sent' = [sent EXCEPT ![s] = @ + n]
         /\ handler' = [handler EXCEPT ![s]["ingest"] =
               [Idle EXCEPT !.pc = "sent", !.chunk = SubSeq(WholeFile, sent[s] + 1, sent[s] + n)]]
  BY DEF SendChunk
<1> DEFINE a == sent[s]
           c == SubSeq(WholeFile, a + 1, a + n)
           w == [Idle EXCEPT !.pc = "sent", !.chunk = c]
<1>3. a \in Nat /\ n \in Nat \ {0} /\ a + n <= FileLines /\ a + n \in Nat /\ FileLines \in Nat
  BY SentIsNat, FileLinesAssumption
<1>4. Run(c) /\ c[1] = a + 1 /\ End(c) = a + n
  <2> HIDE DEF a
  <2> QED
    BY <1>3, WholeFileIsRun
<1>5. sent'[s] = a + n
  BY <1>2, <1>3 DEF Typed
<1> HIDE DEF c
<1>6. c \in Seq(Line) /\ c # << >>
  BY <1>4 DEF Run
<1>7. /\ w \in HandlerState /\ w.pc = "sent" /\ w.chunk = c
      /\ w.records = << >> /\ w.rows = << >> /\ Size(w) = 0
  BY <1>6, SentState
<1>8. handler' = SetHandler(s, "ingest", w)
  BY <1>2 DEF SetHandler, c
<1> HIDE DEF w
<1>9. /\ handler'[s]["ingest"] = w
      /\ \A g \in Handler : g # "ingest" => handler'[s][g] = handler[s][g]
  BY <1>7, <1>8, OneHandler, Handlers
<1>10. client'[s] = "waiting"
  BY <1>1 DEF Typed
<1>11. handler[s]["ingest"].pc = "idle" /\ handler[s]["ingest"].chunk = << >>
       /\ handler[s]["ingest"].records = << >> /\ handler[s]["ingest"].rows = << >>
  BY <1>1, Handlers DEF UploadInv, ClientInv, ShapeInv
<1>12. \A g \in Handler : handler'[s][g].rows = handler[s][g].rows
                          /\ handler'[s][g].records = handler[s][g].records
  BY <1>7, <1>9, <1>11
<1>13. \A g \in Handler : Size(handler'[s][g]) = Size(handler[s][g])
  BY <1>12, EqualRecords
<1>14. \A g \in Handler : \A k \in 1 .. Size(handler[s][g]) :
          Piece(handler'[s][g], k) = Piece(handler[s][g], k)
  BY <1>12, EqualRecords
<1> SUFFICES ASSUME Good(s)' PROVE OrderInv(s)' /\ AllInv(s)'
  BY DEF GoodInv
<1>15. OrderInv(s) /\ AllInv(s)
  <2>1. Good(s)
    BY <1>1, <1>10 DEF Good
  <2> QED
    BY <2>1 DEF GoodInv
<1>16. /\ pending'[s] = pending[s] /\ folding'[s] = folding[s] /\ header'[s] = header[s]
       /\ unsaved'[s] = unsaved[s] /\ live' = live /\ Stored(s)' = Stored(s)
       /\ handler'[s]["ingest"].chunk = c
  BY <1>1, <1>7, <1>9
<1>17. RecordsInv(s)'
  BY <1>13, <1>14, <1>15, <1>16 DEF OrderInv, RecordsInv
<1>18. SequenceInv(s)'
  BY <1>12, <1>15, <1>16 DEF OrderInv, SequenceInv
<1>19. TurnsInv(s)'
  BY <1>13, <1>14, <1>15, <1>16 DEF OrderInv, TurnsInv
<1>20. HeldInv(s)'
  <2>1. HeldInv(s)
    BY <1>15 DEF OrderInv
  <2>2. s \in live /\ folding[s] /\ pending[s] = << >> => c[1] = 1
    BY <1>3, <1>4, <1>11, <2>1 DEF HeldInv
  <2> QED
    BY <1>6, <1>16, <2>1, <2>2 DEF HeldInv
<1>21. AllInv(s)'
  <2> SUFFICES ASSUME NEW x \in 1 .. sent'[s] PROVE Found(s, x)'
    BY DEF AllInv
  <2>1. x \in Nat
    OBVIOUS
  <2>2. CASE x <= a
    <3>1. x \in 1 .. sent[s]
      BY <1>3, <2>1, <2>2
    <3>2. Found(s, x)
      BY <1>15, <3>1 DEF AllInv
    <3>3. ~Holds(handler[s]["ingest"].chunk, x)
      BY <1>11 DEF Holds
    <3> QED
      BY <1>13, <1>14, <1>16, <3>2, <3>3 DEF Found
  <2>3. CASE ~(x <= a)
    <3>1. a + 1 <= x /\ x <= a + n
      <4> HIDE DEF a
      <4> QED
        BY <1>3, <1>5, <2>1, <2>3
    <3>2. Holds(c, x)
      BY <1>4, <1>6, <3>1 DEF Holds
    <3> QED
      BY <1>16, <3>2 DEF Found
  <2> QED
    BY <2>2, <2>3
<1> QED
  BY <1>17, <1>18, <1>19, <1>20, <1>21 DEF OrderInv

-----------------------------------------------------------------------------
(* Steps that leave the lines of an upload where they are.                 *)

LEMMA SameRecords ==
    ASSUME NEW s \in Session,
           \A g \in Handler : handler'[s][g].rows = handler[s][g].rows
                             /\ handler'[s][g].records = handler[s][g].records,
           handler'[s]["ingest"].chunk = handler[s]["ingest"].chunk,
           folding'[s] = folding[s], header'[s] = header[s], sent'[s] = sent[s],
           pending'[s] = pending[s], unsaved'[s] = unsaved[s], Stored(s)' = Stored(s),
           s \in live' => s \in live
    PROVE  KeepsLines(s)
<1>1. \A g \in Handler :
         /\ Size(handler'[s][g]) = Size(handler[s][g])
         /\ \A k \in 1 .. Size(handler[s][g]) : Piece(handler'[s][g], k) = Piece(handler[s][g], k)
  BY EqualRecords
<1> QED
  BY <1>1 DEF KeepsLines, KeepsPieces

LEMMA SameIsGood ==
    ASSUME NEW s \in Session, Same(s), Stored(s)' = Stored(s), GoodInv(s)
    PROVE  GoodInv(s)'
<1>1. KeepsLines(s)
  BY SameRecords DEF Same
<1>2. Good(s)' => Good(s)
  BY DEF Same, Good
<1> QED
  BY <1>1, <1>2, KeepsGood

LEMMA EndRequestIsGood ==
    ASSUME Typed, NEW s \in Session, UploadInv(s), EndUpload(s) \/ CloseFailed(s), GoodInv(s)
    PROVE  GoodInv(s)'
<1>1. handler' = [handler EXCEPT ![s]["end"].pc = "sent"] /\ Stored(s)' = Stored(s)
      /\ UNCHANGED <<live, pending, header, folding, sent, crashed, unsaved>>
      /\ \/ client[s] = "open" /\ client'[s] = "ending"
         \/ client'[s] = "failed"
  BY DEF EndUpload, CloseFailed, historyVars, Stored, Typed
<1>2. \A g \in Handler :
         /\ handler'[s][g].chunk = handler[s][g].chunk
         /\ handler'[s][g].records = handler[s][g].records
         /\ handler'[s][g].rows = handler[s][g].rows
  <2>1. handler' = PcSet(s, "end", "sent")
    BY <1>1 DEF PcSet
  <2> QED
    BY <2>1, PcChange, Handlers
<1>3. KeepsLines(s)
  BY <1>1, <1>2, Handlers, SameRecords
<1>4. Good(s)' => Good(s)
  BY <1>1 DEF Good
<1> QED
  BY <1>3, <1>4, KeepsGood

LEMMA StopWaitingIsGood ==
    ASSUME Typed, NEW s \in Session, StopWaiting(s) PROVE GoodInv(s)'
<1>1. client'[s] = "failing"
  BY DEF StopWaiting, Typed
<1> QED
  BY <1>1 DEF GoodInv, Good

LEMMA GoStaleIsGood ==
    ASSUME Typed, NEW s \in Session, GoStale(s), GoodInv(s) PROVE GoodInv(s)'
<1>1. UNCHANGED <<live, pending, handler, header, folding, sent, crashed, unsaved, client>>
      /\ Stored(s)' = Stored(s)
  BY DEF GoStale, historyVars, uploadVars, Stored
<1>2. KeepsLines(s)
  BY <1>1, SameRecords
<1>3. Good(s)' => Good(s)
  BY <1>1 DEF Good
<1> QED
  BY <1>2, <1>3, KeepsGood

LEMMA LoseRequestIsGood ==
    ASSUME Typed, NEW s \in Session, UploadInv(s), NEW h \in {"ingest", "end"}, LoseRequest(s, h),
           GoodInv(s)
    PROVE  GoodInv(s)'
<1>1. handler[s][h].pc = "sent" /\ handler' = [handler EXCEPT ![s][h] = Idle]
      /\ client'[s] = (IF client[s] \in {"waiting", "ending"} THEN "failing" ELSE client[s])
      /\ UNCHANGED <<live, pending, header, folding, sent, crashed, unsaved>>
      /\ Stored(s)' = Stored(s)
  BY DEF LoseRequest, historyVars, Stored, Typed
<1>2. CASE h = "ingest"
  <2>1. client'[s] \notin {"open", "waiting", "ending", "succeeded"}
    BY <1>1, <1>2, Handlers DEF UploadInv, ClientInv, Waits
  <2> QED
    BY <2>1 DEF GoodInv, Good
<1>3. CASE h = "end"
  <2>0. handler' = [handler EXCEPT ![s]["end"] = Idle]
    BY <1>1, <1>3
  <2>1. /\ handler'[s]["end"].records = << >> /\ handler'[s]["end"].rows = << >>
        /\ \A g \in Handler : g # "end" => handler'[s][g] = handler[s][g]
    <3>1. handler' = IdleSet(s, "end")
      BY <2>0 DEF IdleSet
    <3> QED
      BY <3>1, IdleChange, Handlers
  <2>2. handler[s]["end"].records = << >> /\ handler[s]["end"].rows = << >>
    BY <1>1, <1>3, Handlers DEF UploadInv, ShapeInv
  <2>3. KeepsLines(s)
    BY <1>1, <2>1, <2>2, Handlers, SameRecords
  <2>4. Good(s)' => Good(s)
    BY <1>1 DEF Good
  <2> QED
    BY <2>3, <2>4, KeepsGood
<1> QED
  BY <1>2, <1>3

LEMMA LookUpIsGood ==
    ASSUME Typed, NEW s \in Session, UploadInv(s), LookUp(s), GoodInv(s)
    PROVE  GoodInv(s)'
<1>1. handler[s]["ingest"].pc = "sent" /\ Stored(s)' = Stored(s)
      /\ UNCHANGED <<live, pending, header, folding, sent, crashed, unsaved>>
  BY DEF LookUp, historyVars, Stored
<1>2. CASE s \in live
  <2>1. handler' = [handler EXCEPT ![s]["ingest"].pc = "found"] /\ client' = client
    BY <1>2 DEF LookUp
  <2>2. \A g \in Handler :
           /\ handler'[s][g].chunk = handler[s][g].chunk
           /\ handler'[s][g].records = handler[s][g].records
           /\ handler'[s][g].rows = handler[s][g].rows
    <3>1. handler' = PcSet(s, "ingest", "found")
      BY <2>1 DEF PcSet
    <3> QED
      BY <3>1, PcChange, Handlers
  <2>3. KeepsLines(s)
    BY <1>1, <2>2, Handlers, SameRecords
  <2>4. Good(s)' => Good(s)
    BY <1>1, <2>1 DEF Good
  <2> QED
    BY <2>3, <2>4, KeepsGood
<1>3. CASE s \notin live
  <2>1. client'[s] = IF client[s] = "waiting" THEN "failing" ELSE client[s]
    BY <1>3 DEF LookUp, Finish, Answered, Typed
  <2>2. client'[s] \notin {"open", "waiting", "ending", "succeeded"}
    BY <1>1, <2>1, Handlers DEF UploadInv, ClientInv, Waits
  <2> QED
    BY <2>2 DEF GoodInv, Good
<1> QED
  BY <1>2, <1>3

LEMMA EndSessionIsGood ==
    ASSUME Typed, NEW s \in Session, UploadInv(s), EndSession(s), GoodInv(s)
    PROVE  GoodInv(s)'
<1>1. handler[s]["end"].pc = "sent" /\ Stored(s)' = Stored(s) /\ live' = live \ {s}
      /\ UNCHANGED <<pending, header, folding, sent, crashed, unsaved>>
  BY DEF EndSession, historyVars, Stored
<1>2. CASE s \in live
  <2>1. handler' = [handler EXCEPT ![s]["end"].pc = "found"] /\ client' = client
    BY <1>2 DEF EndSession
  <2>2. \A g \in Handler :
           /\ handler'[s][g].chunk = handler[s][g].chunk
           /\ handler'[s][g].records = handler[s][g].records
           /\ handler'[s][g].rows = handler[s][g].rows
    <3>1. handler' = PcSet(s, "end", "found")
      BY <2>1 DEF PcSet
    <3> QED
      BY <3>1, PcChange, Handlers
  <2>3. KeepsLines(s)
    BY <1>1, <2>2, Handlers, SameRecords
  <2>4. Good(s)' => Good(s)
    BY <1>1, <2>1 DEF Good
  <2> QED
    BY <2>3, <2>4, KeepsGood
<1>3. CASE s \notin live
  <2>1. handler' = [handler EXCEPT ![s]["end"] = Idle]
        /\ client'[s] = IF client[s] = "ending" THEN "succeeded" ELSE client[s]
    BY <1>3 DEF EndSession, Finish, Answered, Typed
  <2>2. /\ handler'[s]["end"].records = << >> /\ handler'[s]["end"].rows = << >>
        /\ \A g \in Handler : g # "end" => handler'[s][g] = handler[s][g]
    <3>1. handler' = IdleSet(s, "end")
      BY <2>1 DEF IdleSet
    <3> QED
      BY <3>1, IdleChange, Handlers
  <2>3. handler[s]["end"].records = << >> /\ handler[s]["end"].rows = << >>
    BY <1>1, Handlers DEF UploadInv, ShapeInv
  <2>4. KeepsLines(s)
    BY <1>1, <2>2, <2>3, Handlers, SameRecords
  <2>5. Good(s)' => Good(s)
    BY <1>1, <2>1 DEF Good
  <2> QED
    BY <2>4, <2>5, KeepsGood
<1> QED
  BY <1>2, <1>3

LEMMA EmptyFlushIsGood ==
    ASSUME Typed, NEW s \in Session, UploadInv(s), NEW h \in Handler, Flush(s, h),
           pending[s] = << >>, GoodInv(s)
    PROVE  GoodInv(s)'
<1>1. h # "ingest" /\ handler[s][h].pc = "found" /\ Stored(s)' = Stored(s)
      /\ handler' = [handler EXCEPT ![s][h] = Idle]
      /\ client'[s] = (IF h = "end" /\ client[s] = "ending" THEN "succeeded" ELSE client[s])
      /\ UNCHANGED <<live, header, folding, sent, crashed, unsaved>>
  BY DEF Flush, Stored, Finish, historyVars, Answered, Typed
<1>2. pending'[s] = pending[s]
  BY DEF Flush, Typed
<1>3. /\ handler'[s][h].records = << >> /\ handler'[s][h].rows = << >>
      /\ \A g \in Handler : g # h => handler'[s][g] = handler[s][g]
  <2>1. handler' = IdleSet(s, h)
    BY <1>1 DEF IdleSet
  <2> QED
    BY <2>1, IdleChange
<1>4. handler[s][h].records = << >> /\ handler[s][h].rows = << >>
  BY <1>1 DEF UploadInv, ShapeInv
<1>5. KeepsLines(s)
  BY <1>1, <1>2, <1>3, <1>4, Handlers, SameRecords
<1>6. Good(s)' => Good(s)
  BY <1>1 DEF Good
<1> QED
  BY <1>5, <1>6, KeepsGood

LEMMA ExpireIsGood ==
    ASSUME Typed, NEW s \in Session, ExpireStaleSessions, GoodInv(s)
    PROVE  GoodInv(s)'
<1>1. UNCHANGED <<pending, header, folding, sent, crashed, unsaved, client>>
      /\ Stored(s)' = Stored(s) /\ live' \subseteq live
  BY DEF ExpireStaleSessions, historyVars, uploadVars, Stored
<1>2. handler'[s] = handler[s] \/ handler'[s] = [handler[s] EXCEPT !["sweep"].pc = "found"]
  BY DEF ExpireStaleSessions
<1>3. \A g \in Handler :
         /\ handler'[s][g].chunk = handler[s][g].chunk
         /\ handler'[s][g].records = handler[s][g].records
         /\ handler'[s][g].rows = handler[s][g].rows
  <2> SUFFICES ASSUME NEW g \in Handler, handler'[s] = [handler[s] EXCEPT !["sweep"].pc = "found"]
               PROVE  /\ handler'[s][g].chunk = handler[s][g].chunk
                      /\ handler'[s][g].records = handler[s][g].records
                      /\ handler'[s][g].rows = handler[s][g].rows
    BY <1>2
  <2>1. handler[s] \in [Handler -> HandlerState]
    BY DEF Typed
  <2> QED
    BY <2>1 DEF HandlerState
<1>4. KeepsLines(s)
  BY <1>1, <1>3, Handlers, SameRecords
<1>5. Good(s)' => Good(s)
  BY <1>1 DEF Good
<1> QED
  BY <1>4, <1>5, KeepsGood

LEMMA CrashIsGood ==
    ASSUME Typed, NEW s \in Session, Crash PROVE GoodInv(s)'
<1>1. s \notin crashed' => client'[s] = "new"
  BY DEF Crash, Typed
<1> QED
  BY <1>1 DEF GoodInv, Good

-----------------------------------------------------------------------------
(* A folder hands lines to a handler.                                      *)

LEMMA HandedIsGood ==
    ASSUME Typed, NEW s \in Session, UploadInv(s), OrderInv(s), AllInv(s),
           NEW h \in Handler, NEW a, NEW d, NEW C, NEW H, Handed(s, h, a, d, C, H),
           header'[s] = header[s], unsaved'[s] = unsaved[s], s \in live' => s \in live,
           handler'[s][h].rows = << >>,
           \A g \in Handler : Size(handler[s][g]) = 0,
           \A k \in 1 .. Len(C) : Complete(C[k], folding[s], header[s]),
           H # << >> => Begun(H, header[s]),
           \A e \in Stored(s) : End(e.lines) < a,
           s \in live /\ folding[s] => H # << >>,
           \A x \in a .. d : Holds(H, x) \/ \E k \in 1 .. Len(C) : Holds(C[k], x),
           \A x \in Line : Holds(pending[s], x) \/ Holds(handler[s]["ingest"].chunk, x) =>
              x \in a .. d
    PROVE  OrderInv(s)' /\ AllInv(s)'
<1>1. /\ a \in Nat /\ d \in Nat /\ sent[s] \in Nat
      /\ \A k \in 1 .. Len(C) : Run(C[k]) /\ a <= C[k][1]
      /\ H # << >> => Run(H) /\ a <= H[1] /\ \A k \in 1 .. Len(C) : Before(C[k], H)
      /\ Size(handler'[s][h]) = Len(C) /\ \A k \in 1 .. Len(C) : Piece(handler'[s][h], k) = C[k]
      /\ \A g \in Handler : g # h => handler'[s][g] = handler[s][g]
      /\ pending'[s] = H
      /\ Stored(s)' = Stored(s) /\ sent' = sent /\ folding' = folding
  BY DEF Handed, Inside
<1>2. \A e \in Stored(s) : End(e.lines) \in Nat
  BY RunLength DEF UploadInv, LinesInv, DocsInv
<1>3. \A r : Run(r) /\ a <= r[1] => \A e \in Stored(s) : Before(e.lines, r)
  BY <1>1, <1>2, RunLength DEF Before
<1>4. \A g \in Handler : \A k \in 1 .. Size(handler'[s][g]) :
         g = h /\ k \in 1 .. Len(C) /\ Piece(handler'[s][g], k) = C[k]
  <2> SUFFICES ASSUME NEW g \in Handler, NEW k \in 1 .. Size(handler'[s][g])
               PROVE  g = h /\ k \in 1 .. Len(C) /\ Piece(handler'[s][g], k) = C[k]
    OBVIOUS
  <2>1. CASE g = h
    BY <1>1, <2>1
  <2>2. CASE g # h
    <3>1. Size(handler'[s][g]) = 0
      BY <1>1, <2>2
    <3> QED
      BY <3>1
  <2> QED
    BY <2>1, <2>2
<1>5. \A g \in Handler : \A k \in 1 .. Len(handler'[s][g].rows) : FALSE
  <2> SUFFICES ASSUME NEW g \in Handler, NEW k \in 1 .. Len(handler'[s][g].rows) PROVE FALSE
    OBVIOUS
  <2>1. g # h
    <3>1. \A i \in 1 .. Len(<< >>) : FALSE
      OBVIOUS
    <3> QED
      BY <3>1
  <2>2. k \in 1 .. Len(handler[s][g].rows) /\ handler[s][g] \in HandlerState
    BY <1>1, <2>1 DEF Typed
  <2>3. k \in 1 .. Size(handler[s][g])
    BY <2>2, RowIsPiece
  <2> QED
    BY <2>3
<1>6. RecordsInv(s)'
  BY <1>1, <1>4 DEF OrderInv, RecordsInv
<1>7. SequenceInv(s)'
  BY <1>1, <1>5 DEF OrderInv, SequenceInv
<1>8. TurnsInv(s)'
  <2> SUFFICES ASSUME NEW g \in Handler, NEW k \in 1 .. Size(handler'[s][g])
               PROVE  /\ \A f \in Handler \ {g} : Size(handler'[s][f]) = 0
                      /\ \A e \in Stored(s)' : Before(e.lines, Piece(handler'[s][g], k))
                      /\ pending'[s] # << >> => Before(Piece(handler'[s][g], k), pending'[s])
    BY DEF TurnsInv
  <2>1. g = h /\ k \in 1 .. Len(C) /\ Piece(handler'[s][g], k) = C[k]
    BY <1>4
  <2>2. Run(C[k]) /\ a <= C[k][1] /\ (H # << >> => Before(C[k], H))
    BY <1>1, <2>1
  <2> QED
    BY <1>1, <1>3, <2>1, <2>2
<1>9. HeldInv(s)'
  BY <1>1, <1>3 DEF HeldInv
<1>10. AllInv(s)'
  <2> SUFFICES ASSUME NEW x \in 1 .. sent[s] PROVE Found(s, x)'
    BY <1>1 DEF AllInv
  <2>1. Found(s, x)
    BY DEF AllInv
  <2>2. x \in Line
    BY SentIsNat, FileLinesAssumption DEF Line
  <2>3. CASE x \in a .. d
    <3>1. Holds(H, x) \/ \E k \in 1 .. Len(C) : Holds(C[k], x)
      BY <2>3
    <3> QED
      BY <1>1, <3>1 DEF Found
  <2>4. CASE x \notin a .. d
    <3>1. ~Holds(pending[s], x) /\ ~Holds(handler[s]["ingest"].chunk, x)
      BY <2>2, <2>4
    <3>2. \A g \in Handler : \A k \in 1 .. Size(handler[s][g]) : FALSE
      OBVIOUS
    <3> QED
      BY <1>1, <2>1, <3>1, <3>2 DEF Found
  <2> QED
    BY <2>3, <2>4
<1> QED
  BY <1>6, <1>7, <1>8, <1>9, <1>10 DEF OrderInv

LEMMA FlushIsGood ==
    ASSUME Typed, NEW s \in Session, UploadInv(s), NEW h \in Handler, Flush(s, h),
           pending[s] # << >>, GoodInv(s)
    PROVE  GoodInv(s)'
<1> DEFINE r == pending[s]
           C == <<r>>
<1>1. h # "ingest" /\ handler[s][h].pc = "found" /\ client' = client
      /\ handler' = SetHandler(s, h, Working(C))
      /\ UNCHANGED <<live, header, folding, sent, crashed, unsaved>>
  BY DEF Flush, historyVars, SetHandler
<1>2. Handed(s, h, r[1], End(r), C, << >>)
  BY FlushHands
<1>3. Run(r) /\ End(r) <= sent[s] /\ folding[s]
  BY DEF UploadInv, LinesInv, PendingInv
<1>4. r \in Seq(Line) /\ r[1] \in Nat /\ End(r) \in Nat /\ sent[s] \in Nat
      /\ C \in Seq(Seq(Line)) /\ Len(C) = 1 /\ C[1] = r
  BY <1>3, RunLength, SentIsNat DEF Run
<1>5. handler'[s][h].rows = << >>
  <2> HIDE DEF C
  <2> QED
    BY <1>1, <1>4, WorkingChange
<1> SUFFICES ASSUME Good(s)' PROVE OrderInv(s)' /\ AllInv(s)'
  BY DEF GoodInv
<1>6. OrderInv(s) /\ AllInv(s)
  BY <1>1 DEF GoodInv, Good
<1>7. s \notin live
  BY <1>1, Handlers DEF UploadInv, SessionInv
<1>8. sent[s] = FileLines /\ handler[s]["ingest"].pc = "idle" /\ handler[s]["ingest"].chunk = << >>
      /\ Waits(s)
  BY <1>1, <1>7, Handlers DEF UploadInv, ClientInv, ShapeInv, Good, Waits
<1>9. End(r) = FileLines
  BY <1>8 DEF UploadInv, ClientInv
<1>10. Begun(r, header[s]) /\ \A e \in Stored(s) : Before(e.lines, r)
  BY <1>6 DEF OrderInv, HeldInv
<1>11. \A g \in Handler : handler[s][g].pc # "working"
  <2>1. handler[s]["end"].pc # "working" /\ handler[s]["sweep"].pc # "working"
    BY <1>1, Handlers DEF UploadInv, SessionInv
  <2> QED
    BY <1>8, <2>1, Handlers
<1>12. \A g \in Handler : Size(handler[s][g]) = 0
  <2>1. \A g \in Handler : handler[s][g].rows = << >> /\ handler[s][g].records = << >>
    BY <1>11 DEF UploadInv, ShapeInv
  <2> QED
    BY <2>1, NoRecords
<1> HIDE DEF C
<1>13. \A k \in 1 .. Len(C) : Complete(C[k], folding[s], header[s])
  BY <1>3, <1>4, <1>9, <1>10 DEF Complete
<1>14. \A e \in Stored(s) : End(e.lines) < r[1]
  BY <1>10 DEF Before
<1>15. \A x \in r[1] .. End(r) : \E k \in 1 .. Len(C) : Holds(C[k], x)
  BY <1>4 DEF Holds
<1>16. \A x \in Line : Holds(r, x) \/ Holds(handler[s]["ingest"].chunk, x) => x \in r[1] .. End(r)
  BY <1>4, <1>8, LineIsNat DEF Holds
<1> HIDE DEF r
<1>17. pending[s] = r
  BY DEF r
<1> DEFINE b == End(r)
           f == r[1]
<1>18. /\ Handed(s, h, f, b, C, << >>)
       /\ \A e \in Stored(s) : End(e.lines) < f
       /\ \A x \in f .. b : Holds(<< >>, x) \/ \E k \in 1 .. Len(C) : Holds(C[k], x)
       /\ \A x \in Line :
             Holds(pending[s], x) \/ Holds(handler[s]["ingest"].chunk, x) => x \in f .. b
  BY <1>2, <1>14, <1>15, <1>16, <1>17
<1> HIDE DEF b, f
<1> DEFINE H == << >>
<1>19. H # << >> => Begun(H, header[s])
  OBVIOUS
<1>20. Handed(s, h, f, b, C, H)
       /\ \A x \in f .. b : Holds(H, x) \/ \E k \in 1 .. Len(C) : Holds(C[k], x)
  BY <1>18
<1> HIDE DEF H
<1> QED
  BY <1>1, <1>5, <1>6, <1>7, <1>12, <1>13, <1>18, <1>19, <1>20, HandedIsGood

LEMMA FeedIsGood ==
    ASSUME Typed, NEW s \in Session, UploadInv(s), Feed(s), GoodInv(s)
    PROVE  GoodInv(s)'
<1> DEFINE p == pending[s]
           q == handler[s]["ingest"].chunk
           a == FedFrom(s)
           d == sent[s]
           C == FedClosed(s)
           H == FedHeld(s)
           opens == header[s]
<1>1. handler[s]["ingest"].pc = "found" /\ Stored(s)' = Stored(s)
      /\ UNCHANGED <<live, header, folding, sent, crashed, unsaved>>
  BY DEF Feed, historyVars, Stored
<1>2. client'[s] = (IF C = << >> /\ client[s] = "waiting" THEN "open" ELSE client[s])
      /\ handler'[s]["ingest"].rows = << >>
  BY FeedHandler
<1>3. Handed(s, "ingest", a, d, C, H)
  BY FeedHands
<1>4. /\ Run(q) /\ End(q) = d /\ a \in Nat /\ a <= q[1]
      /\ p # << >> => Run(p) /\ q[1] = End(p) + 1
      /\ Fed(folding[s], a, q[1], d, opens, C, H)
  BY <1>1, FeedFeeds
<1>5. a = (IF p = << >> THEN q[1] ELSE p[1])
  BY DEF FedFrom
<1> HIDE DEF a, C, H
<1> SUFFICES ASSUME Good(s)' PROVE OrderInv(s)' /\ AllInv(s)'
  BY DEF GoodInv
<1>6. Waits(s) /\ s \notin crashed
  BY <1>1, <1>2 DEF Good, Waits
<1>7. s \in live /\ client[s] = "waiting"
  BY <1>1, <1>6, Handlers DEF UploadInv, ClientInv, SessionInv
<1>8. OrderInv(s) /\ AllInv(s)
  BY <1>6, <1>7 DEF GoodInv, Good
<1>9. \A g \in Handler : handler[s][g].pc # "working"
  <2>1. handler[s]["end"].pc # "working" /\ handler[s]["sweep"].pc # "working"
    BY <1>7 DEF UploadInv, SessionInv
  <2> QED
    BY <1>1, <2>1, Handlers
<1>10. \A g \in Handler : Size(handler[s][g]) = 0
  <2>1. \A g \in Handler : handler[s][g].rows = << >> /\ handler[s][g].records = << >>
    BY <1>9 DEF UploadInv, ShapeInv
  <2> QED
    BY <2>1, NoRecords
<1>11. q # << >> /\ q[1] \in Nat /\ d \in Nat /\ q[1] <= d
  BY <1>4, RunLength DEF Run
<1>12. \A e \in Stored(s) : End(e.lines) < a
  <2>1. CASE p = << >>
    <3>1. \A e \in Stored(s) : Before(e.lines, q)
      BY <1>11 DEF UploadInv, LinesInv, ChunkInv
    <3> QED
      BY <1>5, <2>1, <3>1 DEF Before
  <2>2. CASE p # << >>
    <3>1. \A e \in Stored(s) : Before(e.lines, p)
      BY <1>8, <2>2 DEF OrderInv, HeldInv
    <3> QED
      BY <1>5, <2>2, <3>1 DEF Before
  <2> QED
    BY <2>1, <2>2
<1>13. opens \subseteq Nat
  BY LineIsNat DEF Typed
<1>14. p # << >> => Begun(p, opens) /\ p[1] \in Nat /\ End(p) \in Nat
  BY <1>4, <1>8, RunLength DEF OrderInv, HeldInv
<1>15. folding[s] /\ p = << >> => a = 1
  BY <1>5, <1>7, <1>8, <1>11 DEF OrderInv, HeldInv
<1>16. folding[s] => a = 1 \/ a \in opens
  BY <1>5, <1>14, <1>15 DEF Begun
<1>17. \A x \in opens : a < x => ~(x < q[1])
  <2> SUFFICES ASSUME NEW x \in opens, a < x, x < q[1] PROVE FALSE
    OBVIOUS
  <2>1. x \in Nat
    BY <1>13
  <2>2. p # << >>
    BY <1>4, <1>5, <1>11, <2>1
  <2>3. p[1] < x /\ x <= End(p)
    BY <1>4, <1>5, <1>11, <1>14, <2>1, <2>2
  <2> QED
    BY <1>14, <2>2, <2>3 DEF Begun
<1>18. /\ \A k \in 1 .. Len(C) : Run(C[k]) /\ a <= C[k][1] /\ End(C[k]) <= d
       /\ folding[s] => /\ Run(H) /\ a <= H[1] /\ End(H) = d
                        /\ H[1] = a \/ H[1] \in opens
                        /\ \A x \in opens : H[1] < x /\ x <= d => x < q[1]
                        /\ \A k \in 1 .. Len(C) :
                              /\ C[k][1] = a \/ C[k][1] \in opens
                              /\ End(C[k]) + 1 \in opens
                              /\ \A x \in opens : C[k][1] < x /\ x <= End(C[k]) => x < q[1]
       /\ ~folding[s] => H = << >> /\ \A k \in 1 .. Len(C) : C[k][1] = End(C[k])
       /\ \A x \in a .. d : Holds(H, x) \/ \E k \in 1 .. Len(C) : Holds(C[k], x)
  BY <1>4 DEF Fed
<1>19. \A r : Run(r) /\ a <= r[1] /\ (r[1] = a \/ r[1] \in opens) /\ folding[s]
              /\ (\A x \in opens : r[1] < x /\ x <= End(r) => x < q[1])
              => Begun(r, opens)
  <2> SUFFICES ASSUME NEW r, Run(r), a <= r[1], r[1] = a \/ r[1] \in opens, folding[s],
                      \A x \in opens : r[1] < x /\ x <= End(r) => x < q[1]
               PROVE  Begun(r, opens)
    OBVIOUS
  <2>1. r[1] \in Nat
    BY RunLength
  <2>2. r[1] = 1 \/ r[1] \in opens
    BY <1>16
  <2>3. ASSUME NEW x \in opens, r[1] < x, x <= End(r) PROVE FALSE
    <3>1. x \in Nat /\ x < q[1]
      BY <1>13, <2>3
    <3>2. a < x
      BY <1>4, <2>1, <2>3, <3>1
    <3> QED
      BY <1>17, <3>1, <3>2
  <2> QED
    BY <2>2, <2>3 DEF Begun
<1>20. H # << >> => Begun(H, opens)
  BY <1>18, <1>19
<1>21. \A k \in 1 .. Len(C) : Complete(C[k], folding[s], opens)
  <2> SUFFICES ASSUME NEW k \in 1 .. Len(C) PROVE Complete(C[k], folding[s], opens)
    OBVIOUS
  <2>1. CASE folding[s]
    <3>1. Begun(C[k], opens)
      BY <1>18, <1>19, <2>1
    <3>2. End(C[k]) + 1 \in opens
      BY <1>18, <2>1
    <3> QED
      BY <2>1, <3>1, <3>2 DEF Complete
  <2>2. CASE ~folding[s]
    BY <1>18, <2>2 DEF Complete
  <2> QED
    BY <2>1, <2>2
<1>22. folding[s] => H # << >>
  BY <1>18 DEF Run
<1>23. \A x \in Line : Holds(p, x) \/ Holds(q, x) => x \in a .. d
  <2> SUFFICES ASSUME NEW x \in Line, Holds(p, x) \/ Holds(q, x) PROVE x \in a .. d
    OBVIOUS
  <2>1. x \in Nat
    BY LineIsNat
  <2>2. CASE Holds(p, x)
    <3>1. p # << >> /\ p[1] <= x /\ x <= End(p)
      BY <2>2 DEF Holds
    <3> QED
      BY <1>4, <1>5, <1>11, <1>14, <2>1, <3>1
  <2>3. CASE Holds(q, x)
    BY <1>4, <1>11, <2>1, <2>3 DEF Holds
  <2> QED
    BY <2>2, <2>3
<1>24. "ingest" \in Handler
  BY Handlers
<1>25. /\ \A k \in 1 .. Len(C) : Complete(C[k], folding[s], header[s])
       /\ H # << >> => Begun(H, header[s])
       /\ \A x \in Line :
             Holds(pending[s], x) \/ Holds(handler[s]["ingest"].chunk, x) => x \in a .. d
  BY <1>20, <1>21, <1>23
<1>26. \A x \in a .. d : Holds(H, x) \/ \E k \in 1 .. Len(C) : Holds(C[k], x)
  BY <1>18
<1>27. UNCHANGED <<live, header, unsaved>>
  BY <1>1
<1> HIDE DEF p, q, opens, d
<1> QED
  BY <1>2, <1>3, <1>8, <1>10, <1>12, <1>22, <1>24, <1>25, <1>26, <1>27, HandedIsGood

-----------------------------------------------------------------------------
(* Records are numbered and stored.                                        *)

LEMMA PostProcessIsGood ==
    ASSUME Typed, NEW s \in Session, UploadInv(s), NEW h \in Handler, PostProcess(s, h), GoodInv(s)
    PROVE  GoodInv(s)'
<1> DEFINE w == handler[s][h]
           v == handler'[s][h]
           n == Len(w.rows)
<1>1. UNCHANGED <<live, pending, header, folding, sent, crashed, unsaved, client>>
      /\ Stored(s)' = Stored(s)
  BY DEF PostProcess, uploadVars, historyVars, Stored
<1>2. /\ v.chunk = w.chunk
      /\ Len(v.rows) = n + 1
      /\ \A k \in 1 .. n : v.rows[k] = w.rows[k]
      /\ v.rows[n + 1] = Numbered(s, h)
      /\ Size(v) = Size(w)
      /\ \A k \in 1 .. Size(w) : Piece(v, k) = Piece(w, k)
      /\ \A g \in Handler : g # h => handler'[s][g] = handler[s][g]
  BY PostProcessHandler
<1>3. n \in Nat /\ seq[s] \in Nat /\ Numbered(s, h).seq = seq[s] + 1
      /\ \A e \in Stored(s) : e.seq \in Nat /\ e.seq <= seq[s]
  <2>1. RowsInv(s)
    BY DEF UploadInv
  <2>2. Numbered(s, h).seq = seq[s] + 1
    BY DEF Numbered
  <2> QED
    BY <2>1, <2>2, NumbersAre
<1> HIDE DEF w, v, n
<1>4. \A g \in Handler :
         /\ Size(handler'[s][g]) = Size(handler[s][g])
         /\ \A k \in 1 .. Size(handler[s][g]) : Piece(handler'[s][g], k) = Piece(handler[s][g], k)
         /\ handler'[s][g].chunk = handler[s][g].chunk
  <2> SUFFICES ASSUME NEW g \in Handler
               PROVE  /\ Size(handler'[s][g]) = Size(handler[s][g])
                      /\ \A k \in 1 .. Size(handler[s][g]) :
                            Piece(handler'[s][g], k) = Piece(handler[s][g], k)
                      /\ handler'[s][g].chunk = handler[s][g].chunk
    OBVIOUS
  <2>1. CASE g = h
    BY <1>2, <2>1 DEF w, v
  <2>2. CASE g # h
    BY <1>2, <2>2
  <2> QED
    BY <2>1, <2>2
<1>5. KeepsPieces(s)
  BY <1>1, <1>4, Handlers DEF KeepsPieces
<1> SUFFICES ASSUME Good(s)' PROVE OrderInv(s)' /\ AllInv(s)'
  BY DEF GoodInv
<1>6. OrderInv(s) /\ AllInv(s)
  BY <1>1 DEF GoodInv, Good
<1>7. SequenceInv(s)'
  <2>1. SequenceInv(s)
    BY <1>6 DEF OrderInv
  <2>2. ASSUME NEW g \in Handler, NEW k \in 1 .. Len(handler'[s][g].rows), NEW e \in Stored(s)
        PROVE  e.seq < handler'[s][g].rows[k].seq
    <3>1. CASE g # h
      BY <1>2, <2>1, <3>1 DEF SequenceInv
    <3>2. CASE g = h
      <4>1. k \in 1 .. n + 1
        BY <1>2, <3>2 DEF v
      <4>2. CASE k = n + 1
        <5>1. handler'[s][g].rows[k].seq = seq[s] + 1
          BY <1>2, <1>3, <3>2, <4>2 DEF v
        <5>2. e.seq \in Nat /\ e.seq <= seq[s]
          BY <1>3
        <5> QED
          BY <1>3, <5>1, <5>2
      <4>3. CASE k # n + 1
        <5>1. k \in 1 .. n
          BY <1>3, <4>1, <4>3
        <5>2. handler'[s][g].rows[k] = handler[s][g].rows[k] /\ k \in 1 .. Len(handler[s][g].rows)
          BY <1>2, <3>2, <5>1 DEF v, w, n
        <5> QED
          BY <2>1, <5>2 DEF SequenceInv
      <4> QED
        BY <4>2, <4>3
    <3> QED
      BY <3>1, <3>2
  <2> QED
    BY <1>1, <2>1, <2>2 DEF SequenceInv
<1> QED
  BY <1>5, <1>6, <1>7, KeepsTurns DEF OrderInv

(* A line of a run is among its lines.                                     *)
LEMMA HeldByRun ==
    ASSUME NEW r, Run(r), NEW x \in Nat, Holds(r, x) PROVE x \in ToSet(r)
<1> DEFINE i == x - r[1] + 1
<1>1. r \in Seq(Line) /\ Len(r) \in Nat /\ r[1] \in Nat /\ r[1] <= x /\ x <= r[1] + Len(r) - 1
      /\ \A k \in 1 .. Len(r) : r[k] = r[1] + k - 1
  BY RunLength DEF Run, Holds, End
<1>2. i \in 1 .. Len(r) /\ r[1] + i - 1 = x
  BY <1>1
<1> HIDE DEF i
<1>3. r[i] = x /\ i \in DOMAIN r
  BY <1>1, <1>2
<1> QED
  BY <1>3 DEF ToSet

(* Where Store puts the rows of a handler.                                 *)
StoredAre(s, h, written) ==
    /\ written \subseteq ToSet(handler[s][h].rows)
    /\ Stored(s)' = Stored(s) \union written
    /\ unsaved'[s] = unsaved[s] \union LinesOf(ToSet(handler[s][h].rows) \ written)
    /\ handler[s][h].records = << >> /\ handler[s][h].chunk = << >>
    /\ Size(handler'[s][h]) = 0 /\ handler'[s][h].rows = << >> /\ handler'[s][h].chunk = << >>
    /\ \A g \in Handler : g # h => handler'[s][g] = handler[s][g]

LEMMA StorePuts ==
    ASSUME Typed, \A t \in Session : UploadInv(t), \A t \in Session : NumbersInv(t), DistinctNames,
           overwritten = {}, NEW s \in Session, NEW h \in Handler, Store(s, h)
    PROVE  (\E written : StoredAre(s, h, written))
           /\ \A t \in Session : t # s => Stored(t)' = Stored(t)
<1>1. PICK written \in SUBSET ToSet(handler[s][h].rows) :
         /\ Put(written)
         /\ unsaved' = [unsaved EXCEPT ![s] = @ \union LinesOf(ToSet(handler[s][h].rows) \ written)]
         /\ handler' = [handler EXCEPT ![s][h] = Idle]
  BY DEF Store, Finish
<1>2. overwritten' = {}
  BY StoreKeepsOthers
<1>3. docs' = docs \union written
  BY <1>1, <1>2 DEF Put
<1>4. \A r \in written : r.session = s
  BY StoredRows DEF UploadInv, IsRowOf
<1>5. Stored(s)' = Stored(s) \union written /\ \A t \in Session : t # s => Stored(t)' = Stored(t)
  BY <1>3, <1>4 DEF Stored
<1>6. unsaved'[s] = unsaved[s] \union LinesOf(ToSet(handler[s][h].rows) \ written)
  <2> DEFINE L == LinesOf(ToSet(handler[s][h].rows) \ written)
  <2>1. unsaved' = [unsaved EXCEPT ![s] = @ \union L]
    BY <1>1
  <2> HIDE DEF L
  <2>2. unsaved'[s] = unsaved[s] \union L
    BY <2>1 DEF Typed
  <2> QED
    BY <2>2 DEF L
<1>7. handler[s][h].records = << >> /\ handler[s][h].chunk = << >>
  BY DEF Store, UploadInv, ShapeInv
<1>8. /\ Size(handler'[s][h]) = 0 /\ handler'[s][h].rows = << >> /\ handler'[s][h].chunk = << >>
      /\ \A g \in Handler : g # h => handler'[s][g] = handler[s][g]
  <2>1. handler' = IdleSet(s, h)
    BY <1>1 DEF IdleSet
  <2> QED
    BY <2>1, IdleChange
<1>9. StoredAre(s, h, written)
  BY <1>1, <1>5, <1>6, <1>7, <1>8 DEF StoredAre
<1> QED
  BY <1>5, <1>9

LEMMA StoredIsGood ==
    ASSUME Typed, NEW s \in Session, UploadInv(s), NumbersInv(s), OrderInv(s), AllInv(s),
           NEW h \in Handler, NEW written, StoredAre(s, h, written),
           UNCHANGED <<live, pending, header, folding, sent>>
    PROVE  OrderInv(s)' /\ AllInv(s)'
<1> DEFINE w == handler[s][h]
<1>1. RecordsInv(s) /\ SequenceInv(s) /\ TurnsInv(s) /\ HeldInv(s)
  BY DEF OrderInv
<1>2. /\ w \in HandlerState /\ RowsInv(s) /\ w.records = << >> /\ w.chunk = << >>
      /\ w.rows \in Seq(Row) /\ Len(w.rows) \in Nat /\ Size(w) \in Nat
  <2>1. w \in HandlerState
    BY DEF Typed
  <2>2. w.rows \in Seq(Row) /\ Len(w.rows) \in Nat /\ Size(w) \in Nat
    BY <2>1, StateParts
  <2> QED
    BY <2>1, <2>2 DEF UploadInv, StoredAre
<1>3. Size(w) = Len(w.rows)
  <2>1. Len(w.records) = 0
    BY <1>2
  <2> HIDE DEF w
  <2> QED
    BY <1>2, <2>1 DEF Size
<1>4. \A k \in 1 .. Size(w) : Piece(w, k) = w.rows[k].lines /\ w.rows[k] \in ToSet(w.rows)
                             /\ k \in 1 .. Len(w.rows) /\ Run(w.rows[k].lines)
  <2> SUFFICES ASSUME NEW k \in 1 .. Size(w)
               PROVE  Piece(w, k) = w.rows[k].lines /\ w.rows[k] \in ToSet(w.rows)
                      /\ k \in 1 .. Len(w.rows) /\ Run(w.rows[k].lines)
    OBVIOUS
  <2>1. Run(Piece(w, k))
    BY DEF UploadInv, LinesInv, PiecesInv
  <2>2. k \in 1 .. Len(w.rows)
    BY <1>3
  <2>3. w.rows[k] \in ToSet(w.rows)
    BY <1>2, <2>2 DEF ToSet
  <2>4. Piece(w, k) = w.rows[k].lines
    BY <1>2, <2>2, RowIsPiece
  <2> QED
    BY <2>1, <2>2, <2>3, <2>4
<1>5. \A r \in written : \E k \in 1 .. Size(w) : r = w.rows[k] /\ r.lines = Piece(w, k)
  <2> SUFFICES ASSUME NEW r \in written
               PROVE  \E k \in 1 .. Size(w) : r = w.rows[k] /\ r.lines = Piece(w, k)
    OBVIOUS
  <2>1. r \in ToSet(w.rows)
    BY DEF StoredAre
  <2>2. PICK k \in 1 .. Len(w.rows) : r = w.rows[k]
    BY <1>2, <2>1, StoredRows
  <2> QED
    BY <1>3, <1>4, <2>2
<1>6. \A g \in Handler : \A k \in 1 .. Size(handler'[s][g]) :
         /\ g # h /\ handler'[s][g] = handler[s][g] /\ k \in 1 .. Size(handler[s][g])
         /\ Size(w) = 0 /\ Stored(s)' = Stored(s)
  <2> SUFFICES ASSUME NEW g \in Handler, NEW k \in 1 .. Size(handler'[s][g])
               PROVE  /\ g # h /\ handler'[s][g] = handler[s][g] /\ k \in 1 .. Size(handler[s][g])
                      /\ Size(w) = 0 /\ Stored(s)' = Stored(s)
    OBVIOUS
  <2>1. g # h
    BY DEF StoredAre
  <2>2. handler'[s][g] = handler[s][g] /\ k \in 1 .. Size(handler[s][g])
    BY <2>1 DEF StoredAre
  <2>3. Size(w) = 0
    BY <1>1, <2>1, <2>2 DEF TurnsInv
  <2>4. written = {}
    BY <1>5, <2>3
  <2> QED
    BY <2>1, <2>2, <2>3, <2>4 DEF StoredAre
<1>7. \A g \in Handler : \A k \in 1 .. Len(handler'[s][g].rows) :
         /\ handler'[s][g] = handler[s][g] /\ k \in 1 .. Len(handler[s][g].rows)
         /\ Stored(s)' = Stored(s)
  <2> SUFFICES ASSUME NEW g \in Handler, NEW k \in 1 .. Len(handler'[s][g].rows)
               PROVE  /\ handler'[s][g] = handler[s][g] /\ k \in 1 .. Len(handler[s][g].rows)
                      /\ Stored(s)' = Stored(s)
    OBVIOUS
  <2>1. g # h
    <3>1. \A i \in 1 .. Len(<< >>) : FALSE
      OBVIOUS
    <3> QED
      BY <3>1 DEF StoredAre
  <2>2. handler'[s][g] = handler[s][g] /\ k \in 1 .. Len(handler[s][g].rows)
        /\ handler[s][g] \in HandlerState
    BY <2>1 DEF StoredAre, Typed
  <2>3. k \in 1 .. Size(handler'[s][g])
    BY <2>2, RowIsPiece
  <2> QED
    BY <1>6, <2>2, <2>3
<1>8. Stored(s)' = Stored(s) \union written
  BY DEF StoredAre
<1> HIDE DEF w
<1>9. RecordsInv(s)'
  <2>1. ASSUME NEW e \in Stored(s)' PROVE Complete(e.lines, folding[s], header[s])
    <3>1. CASE e \in Stored(s)
      BY <1>1, <3>1 DEF RecordsInv
    <3>2. CASE e \in written
      BY <1>1, <1>5, <3>2 DEF RecordsInv, w
    <3> QED
      BY <1>8, <3>1, <3>2
  <2>2. ASSUME NEW g \in Handler, NEW k \in 1 .. Size(handler'[s][g])
        PROVE  Complete(Piece(handler'[s][g], k), folding[s], header[s])
    BY <1>1, <1>6 DEF RecordsInv
  <2> QED
    BY <2>1, <2>2 DEF RecordsInv
<1>10. SequenceInv(s)'
  <2>1. ASSUME NEW d \in Stored(s)', NEW e \in Stored(s)', d.seq < e.seq
        PROVE  Before(d.lines, e.lines)
    <3>0. /\ \A c \in Stored(s) : c.seq \in Nat
          /\ \A k \in 1 .. Len(w.rows) : w.rows[k].seq \in Nat
      BY <1>2, NumbersAre DEF w
    <3>1. CASE d \in Stored(s) /\ e \in Stored(s)
      BY <1>1, <2>1, <3>1 DEF SequenceInv
    <3>2. CASE d \in Stored(s) /\ e \in written
      BY <1>1, <1>5, <3>2 DEF TurnsInv, w
    <3>3. CASE d \in written /\ e \in Stored(s)
      <4>1. PICK k \in 1 .. Size(w) : d = w.rows[k]
        BY <1>5, <3>3
      <4>2. k \in 1 .. Len(w.rows)
        BY <1>3
      <4>3. e.seq < w.rows[k].seq
        BY <1>1, <3>3, <4>2 DEF SequenceInv, w
      <4>4. e.seq \in Nat /\ d.seq \in Nat
        BY <3>0, <3>3, <4>1, <4>2
      <4> QED
        BY <2>1, <4>1, <4>3, <4>4
    <3>4. CASE d \in written /\ e \in written
      <4>1. PICK k \in 1 .. Size(w) : d = w.rows[k] /\ d.lines = Piece(w, k)
        BY <1>5, <3>4
      <4>2. PICK l \in 1 .. Size(w) : e = w.rows[l] /\ e.lines = Piece(w, l)
        BY <1>5, <3>4
      <4>3. k \in 1 .. Len(w.rows) /\ l \in 1 .. Len(w.rows) /\ k \in Nat /\ l \in Nat
        BY <1>3
      <4>4. d.seq \in Nat /\ e.seq \in Nat
        BY <3>0, <4>1, <4>2, <4>3
      <4>5. l < k => w.rows[l].seq < w.rows[k].seq
        BY <4>3 DEF NumbersInv, w
      <4>6. k < l
        BY <2>1, <4>1, <4>2, <4>3, <4>4, <4>5
      <4> QED
        BY <4>1, <4>2, <4>6 DEF UploadInv, LinesInv, PiecesInv, w
    <3> QED
      BY <1>8, <3>1, <3>2, <3>3, <3>4
  <2>2. ASSUME NEW g \in Handler, NEW k \in 1 .. Len(handler'[s][g].rows), NEW d \in Stored(s)'
        PROVE  d.seq < handler'[s][g].rows[k].seq
    <3>1. /\ handler'[s][g] = handler[s][g] /\ k \in 1 .. Len(handler[s][g].rows)
          /\ Stored(s)' = Stored(s)
      BY <1>7
    <3> QED
      BY <1>1, <3>1 DEF SequenceInv
  <2> QED
    BY <2>1, <2>2 DEF SequenceInv
<1>11. TurnsInv(s)'
  <2> SUFFICES ASSUME NEW g \in Handler, NEW k \in 1 .. Size(handler'[s][g])
               PROVE  /\ \A f \in Handler \ {g} : Size(handler'[s][f]) = 0
                      /\ \A e \in Stored(s)' : Before(e.lines, Piece(handler'[s][g], k))
                      /\ pending'[s] # << >> => Before(Piece(handler'[s][g], k), pending'[s])
    BY DEF TurnsInv
  <2>1. /\ g # h /\ handler'[s][g] = handler[s][g] /\ k \in 1 .. Size(handler[s][g])
        /\ Stored(s)' = Stored(s)
    BY <1>6
  <2>2. \A f \in Handler \ {g} : Size(handler[s][f]) = 0
    BY <1>1, <2>1 DEF TurnsInv
  <2>3. \A f \in Handler \ {g} : Size(handler'[s][f]) = 0
    BY <2>2 DEF StoredAre
  <2>4. /\ \A e \in Stored(s) : Before(e.lines, Piece(handler[s][g], k))
        /\ pending[s] # << >> => Before(Piece(handler[s][g], k), pending[s])
    BY <1>1, <2>1 DEF TurnsInv
  <2> QED
    BY <2>1, <2>3, <2>4
<1>12. HeldInv(s)'
  <2>1. handler'[s]["ingest"].chunk = handler[s]["ingest"].chunk
    BY Handlers DEF StoredAre
  <2>2. ASSUME pending[s] # << >>, NEW e \in Stored(s)' PROVE Before(e.lines, pending[s])
    <3>1. CASE e \in Stored(s)
      BY <1>1, <2>2, <3>1 DEF HeldInv
    <3>2. CASE e \in written
      BY <1>1, <1>5, <2>2, <3>2 DEF TurnsInv, w
    <3> QED
      BY <1>8, <3>1, <3>2
  <2> QED
    BY <1>1, <2>1, <2>2 DEF HeldInv
<1>13. AllInv(s)'
  <2> SUFFICES ASSUME NEW x \in 1 .. sent[s] PROVE Found(s, x)'
    BY DEF AllInv
  <2>1. Found(s, x)
    BY DEF AllInv
  <2>2. handler'[s]["ingest"].chunk = handler[s]["ingest"].chunk
    BY Handlers DEF StoredAre
  <2>3. unsaved[s] \subseteq unsaved'[s] /\ Stored(s) \subseteq Stored(s)'
    BY DEF StoredAre
  <2>4. ASSUME NEW k \in 1 .. Size(w), Holds(Piece(w, k), x) PROVE Found(s, x)'
    <3> DEFINE r == w.rows[k]
    <3>1. r \in ToSet(w.rows) /\ Piece(w, k) = r.lines /\ Run(r.lines)
      BY <1>4
    <3> HIDE DEF r
    <3>2. CASE r \in written
      <4>1. r \in Stored(s)' /\ Holds(r.lines, x)
        BY <1>8, <2>4, <3>1, <3>2
      <4> QED
        BY <4>1 DEF Found
    <3>3. CASE r \notin written
      <4>1. x \in Nat /\ Holds(r.lines, x)
        BY <2>4, <3>1
      <4>2. x \in ToSet(r.lines)
        BY <3>1, <4>1, HeldByRun
      <4>3. x \in LinesOf(ToSet(w.rows) \ written)
        BY <3>1, <3>3, <4>2 DEF LinesOf
      <4>4. x \in unsaved'[s]
        BY <4>3 DEF StoredAre, w
      <4> QED
        BY <4>4 DEF Found
    <3> QED
      BY <3>2, <3>3
  <2>5. ASSUME NEW g \in Handler, g # h, NEW k \in 1 .. Size(handler[s][g]),
               Holds(Piece(handler[s][g], k), x)
        PROVE  Found(s, x)'
    <3>1. handler'[s][g] = handler[s][g]
      BY <2>5 DEF StoredAre
    <3> QED
      BY <2>5, <3>1 DEF Found
  <2>6. CASE x \in unsaved[s] \/ Holds(pending[s], x) \/ Holds(handler[s]["ingest"].chunk, x)
             \/ \E d \in Stored(s) : Holds(d.lines, x)
    BY <2>2, <2>3, <2>6 DEF Found
  <2>7. CASE \E g \in Handler : \E k \in 1 .. Size(handler[s][g]) :
           Holds(Piece(handler[s][g], k), x)
    <3>1. PICK g \in Handler : \E k \in 1 .. Size(handler[s][g]) : Holds(Piece(handler[s][g], k), x)
      BY <2>7
    <3> QED
      BY <2>4, <2>5, <3>1 DEF w
  <2> QED
    BY <2>1, <2>6, <2>7 DEF Found
<1> QED
  BY <1>9, <1>10, <1>11, <1>12, <1>13 DEF OrderInv

LEMMA StoreIsGood ==
    ASSUME Typed, \A t \in Session : UploadInv(t), \A t \in Session : NumbersInv(t), DistinctNames,
           overwritten = {}, NEW s \in Session, NEW h \in Handler, Store(s, h), GoodInv(s)
    PROVE  GoodInv(s)'
<1>1. PICK written : StoredAre(s, h, written)
  BY StorePuts
<1>2. UNCHANGED <<live, pending, header, folding, sent, crashed>> /\ handler[s][h].pc = "working"
  BY DEF Store
<1>3. \/ client'[s] = client[s]
      \/ h = "ingest" /\ client[s] = "waiting"
      \/ h = "end" /\ client[s] = "ending" /\ client'[s] = "succeeded"
  BY DEF Store, Finish, Answered, Typed
<1>4. Good(s)' => Good(s)
  <2>1. h = "ingest" /\ client[s] = "waiting" => s \in live
    BY <1>2, Handlers DEF UploadInv, ClientInv, SessionInv, Waits
  <2> QED
    BY <1>2, <1>3, <2>1 DEF Good
<1> QED
  BY <1>1, <1>2, <1>4, StoredIsGood DEF GoodInv

-----------------------------------------------------------------------------
(* Every step keeps what an upload that can succeed has sent.              *)

LEMMA OthersKeepStored ==
    ASSUME Typed, \A t \in Session : UploadInv(t), \A t \in Session : NumbersInv(t), DistinctNames,
           overwritten = {}, NEW s \in Session,
           \/ ClientNext(s) \/ ServerNext(s)
           \/ \E h \in {"ingest", "end"} : LoseRequest(s, h),
           NEW t \in Session, t # s
    PROVE  Stored(t)' = Stored(t)
<1>1. CASE \E h \in Handler : Store(s, h)
  BY <1>1, StorePuts
<1>2. CASE ~\E h \in Handler : Store(s, h)
  <2>1. docs' = docs
    <3>1. CASE ClientNext(s)
      BY <3>1 DEF ClientNext, StartUpload, SendChunk, EndUpload, CloseFailed, StopWaiting
    <3>2. CASE ServerNext(s)
      BY <1>2, <3>2 DEF ServerNext, LookUp, Feed, EndSession, GoStale, Flush, PostProcess
    <3>3. CASE \E h \in {"ingest", "end"} : LoseRequest(s, h)
      BY <3>3 DEF LoseRequest
    <3> QED
      BY <3>1, <3>2, <3>3
  <2> QED
    BY <2>1 DEF Stored
<1> QED
  BY <1>1, <1>2

LEMMA UploadIsGood ==
    ASSUME Typed, \A t \in Session : UploadInv(t), \A t \in Session : NumbersInv(t), DistinctNames,
           overwritten = {}, NEW s \in Session, GoodInv(s),
           \/ ClientNext(s) \/ ServerNext(s)
           \/ \E h \in {"ingest", "end"} : LoseRequest(s, h)
    PROVE  GoodInv(s)'
<1>1. CASE ClientNext(s)
  BY <1>1, StartIsGood, SendChunkIsGood, EndRequestIsGood, StopWaitingIsGood DEF ClientNext
<1>2. CASE ServerNext(s)
  BY <1>2, LookUpIsGood, FeedIsGood, EndSessionIsGood, GoStaleIsGood, EmptyFlushIsGood,
     FlushIsGood, PostProcessIsGood, StoreIsGood
     DEF ServerNext
<1>3. CASE \E h \in {"ingest", "end"} : LoseRequest(s, h)
  BY <1>3, LoseRequestIsGood
<1> QED
  BY <1>1, <1>2, <1>3

LEMMA GoodNext ==
    ASSUME Typed, \A s \in Session : UploadInv(s), \A s \in Session : NumbersInv(s), DistinctNames,
           overwritten = {}, \A s \in Session : GoodInv(s), [Next]_vars
    PROVE  \A s \in Session : GoodInv(s)'
<1>1. ASSUME NEW s \in Session,
             \/ ClientNext(s) \/ ServerNext(s)
             \/ \E h \in {"ingest", "end"} : LoseRequest(s, h),
             NEW t \in Session
      PROVE  GoodInv(t)'
  <2>1. CASE t = s
    BY <1>1, <2>1, UploadIsGood
  <2>2. CASE t # s
    <3>1. Same(t)
      BY <1>1, <2>2, OthersSame
    <3>2. Stored(t)' = Stored(t)
      BY <1>1, <2>2, OthersKeepStored
    <3> QED
      BY <3>1, <3>2, SameIsGood
  <2> QED
    BY <2>1, <2>2
<1>2. CASE ExpireStaleSessions
  BY <1>2, ExpireIsGood
<1>3. CASE Crash
  BY <1>3, CrashIsGood
<1>4. CASE UNCHANGED vars
  <2>1. ASSUME NEW s \in Session PROVE GoodInv(s)'
    <3>1. Same(s) /\ Stored(s)' = Stored(s)
      BY <1>4 DEF vars, memoryVars, uploadVars, historyVars, Same, Stored
    <3> QED
      BY <3>1, SameIsGood
  <2> QED
    BY <2>1
<1> QED
  BY <1>1, <1>2, <1>3, <1>4 DEF Next

-----------------------------------------------------------------------------
(* The records of an upload that succeeded are those of its file.          *)

LEMMA EqualRuns ==
    ASSUME NEW r, NEW q, Run(r), Run(q), r[1] = q[1], End(r) = End(q)
    PROVE  r = q
<1>1. /\ r \in Seq(Line) /\ q \in Seq(Line) /\ Len(r) \in Nat /\ Len(q) \in Nat /\ r[1] \in Nat
      /\ \A i \in 1 .. Len(r) : r[i] = r[1] + i - 1
      /\ \A i \in 1 .. Len(q) : q[i] = q[1] + i - 1
  BY RunLength DEF Run
<1>2. Len(r) = Len(q)
  BY <1>1 DEF End
<1>3. \A i \in 1 .. Len(r) : r[i] = q[i]
  BY <1>1, <1>2
<1> QED
  BY <1>1, <1>2, <1>3

LEMMA FileIsRun == Run(WholeFile) /\ WholeFile[1] = 1 /\ End(WholeFile) = FileLines
                   /\ Len(WholeFile) = FileLines /\ \A i \in Line : WholeFile[i] = i
<1>1. FileLines \in Nat \ {0}
  BY FileLinesAssumption
<1>2. \A n \in Nat : \A f \in [1 .. n -> Line] : f \in Seq(Line) /\ Len(f) = n
  OBVIOUS
<1>3. WholeFile \in [1 .. FileLines -> Line]
  BY DEF WholeFile, Line
<1>4. WholeFile \in Seq(Line) /\ Len(WholeFile) = FileLines
  BY <1>1, <1>2, <1>3
<1>5. \A i \in 1 .. FileLines : WholeFile[i] = i
  BY DEF WholeFile
<1>6. WholeFile[1] = 1
  BY <1>1, <1>5
<1> QED
  BY <1>1, <1>4, <1>5, <1>6 DEF Run, End, Line

LEMMA CompleteIsRecord ==
    ASSUME NEW s \in Session, Typed, NEW r, Run(r), Complete(r, folding[s], header[s])
    PROVE  r \in ToSet(FileRecords(s))
<1> DEFINE opens == header[s]
<1>0. opens \subseteq Line /\ FileLines \in Nat \ {0}
  BY FileLinesAssumption DEF Typed
<1>1. /\ r \in Seq(Line) /\ r[1] \in Line /\ r[1] \in Nat \ {0} /\ End(r) \in Line
      /\ End(r) \in Nat \ {0} /\ r[1] <= End(r) /\ End(r) <= FileLines /\ r[1] <= FileLines
  BY <1>0, RunLength DEF Run, Line
<1>2. CASE folding[s]
  <2> DEFINE R == Fold(<< >>, WholeFile, opens)
             N == Len(R)
  <2> HIDE DEF opens
  <2>1. Cut(R, 1, FileLines, 1, opens)
    <3> DEFINE held == << >>
    <3>1. held = << >> \/ Run(held)
      OBVIOUS
    <3>2. held # << >> => WholeFile[1] = End(held) + 1
      OBVIOUS
    <3>3. Cut(Fold(held, WholeFile, opens), IF held = << >> THEN WholeFile[1] ELSE held[1],
              End(WholeFile), WholeFile[1], opens)
      <4> HIDE DEF held
      <4> QED
        BY <1>0, <3>1, <3>2, FileIsRun, FoldCuts
    <3> QED
      BY <3>3, FileIsRun
  <2> HIDE DEF R
  <2>2. /\ R \in Seq(Seq(Line)) /\ N \in Nat
        /\ \A k \in 1 .. N : Run(R[k]) /\ 1 <= R[k][1] /\ End(R[k]) <= FileLines
        /\ End(R[N]) = FileLines
        /\ \A k \in 2 .. N : R[k][1] \in opens /\ R[k][1] = End(R[k - 1]) + 1
        /\ \A k \in 1 .. N : \A x \in opens : ~(R[k][1] < x /\ x <= End(R[k]))
        /\ \A x \in 1 .. FileLines : \E k \in 1 .. N : R[k][1] <= x /\ x <= End(R[k])
    <3>1. \A x \in opens : ~(x < 1)
      BY <1>0, LineIsNat
    <3>2. /\ R \in Seq(Seq(Line))
          /\ \A k \in 1 .. N : Run(R[k]) /\ 1 <= R[k][1] /\ End(R[k]) <= FileLines
          /\ End(R[N]) = FileLines
          /\ \A k \in 2 .. N : R[k][1] \in opens /\ R[k][1] = End(R[k - 1]) + 1
          /\ \A k \in 1 .. N : \A x \in opens : R[k][1] < x /\ x <= End(R[k]) => x < 1
          /\ \A x \in 1 .. FileLines : \E k \in 1 .. N : R[k][1] <= x /\ x <= End(R[k])
      BY <2>1 DEF Cut
    <3>3. N \in Nat
      BY <3>2
    <3> HIDE DEF N
    <3> QED
      BY <3>1, <3>2, <3>3
  <2>3. PICK k \in 1 .. N : R[k][1] <= r[1] /\ r[1] <= End(R[k])
    <3>1. r[1] \in 1 .. FileLines
      BY <1>1 DEF Line
    <3> QED
      BY <2>2, <3>1
  <2> DEFINE q == R[k]
  <2>4. Run(q) /\ q[1] \in Nat /\ End(q) \in Nat /\ End(q) <= FileLines /\ q[1] <= r[1]
        /\ \A x \in opens : ~(q[1] < x /\ x <= End(q))
    <3>1. Run(q) /\ End(q) <= FileLines /\ \A x \in opens : ~(q[1] < x /\ x <= End(q))
      BY <2>2
    <3> QED
      BY <2>3, <3>1, RunLength
  <2>5. End(q) = FileLines \/ End(q) + 1 \in opens
    <3>1. CASE k = N
      BY <2>2, <3>1
    <3>2. CASE k # N
      <4>1. k + 1 \in 2 .. N /\ k + 1 - 1 = k
        BY <2>2, <2>3, <3>2
      <4>2. R[k + 1][1] \in opens /\ R[k + 1][1] = End(R[k + 1 - 1]) + 1
        BY <2>2, <4>1
      <4> QED
        BY <4>1, <4>2
    <3> QED
      BY <3>1, <3>2
  <2>6. /\ r[1] = 1 \/ r[1] \in opens
        /\ \A x \in opens : ~(r[1] < x /\ x <= End(r))
        /\ End(r) = FileLines \/ End(r) + 1 \in opens
    BY <1>2 DEF Complete, Begun, opens
  <2>7. r[1] <= End(q)
    BY <2>3
  <2>8. q \in ToSet(R)
    <3>1. k \in DOMAIN R
      BY <2>2, <2>3
    <3> QED
      BY <3>1 DEF ToSet
  <2> HIDE DEF q
  <2>9. q[1] \in Nat \ {0}
    BY <2>4, RunLength
  <2>10. q[1] = r[1]
    <3> SUFFICES ASSUME q[1] # r[1] PROVE FALSE
      OBVIOUS
    <3>1. q[1] < r[1]
      BY <1>1, <2>4
    <3>2. r[1] # 1
      BY <1>1, <2>9, <3>1
    <3> QED
      BY <2>4, <2>6, <2>7, <3>1, <3>2
  <2>11. ~(End(q) < End(r))
    <3> SUFFICES ASSUME End(q) < End(r) PROVE FALSE
      OBVIOUS
    <3>1. End(q) # FileLines
      BY <1>0, <1>1, <2>4
    <3>2. End(q) + 1 \in opens
      BY <2>5, <3>1
    <3>3. r[1] < End(q) + 1 /\ End(q) + 1 <= End(r)
      BY <1>1, <2>4, <2>7
    <3> QED
      BY <2>6, <3>2, <3>3
  <2>12. ~(End(r) < End(q))
    <3> SUFFICES ASSUME End(r) < End(q) PROVE FALSE
      OBVIOUS
    <3>1. End(r) # FileLines
      BY <1>0, <1>1, <2>4
    <3>2. End(r) + 1 \in opens
      BY <2>6, <3>1
    <3>3. q[1] < End(r) + 1 /\ End(r) + 1 <= End(q)
      BY <1>1, <2>4, <2>10
    <3> QED
      BY <2>4, <3>2, <3>3
  <2>13. End(q) = End(r)
    BY <1>1, <2>4, <2>11, <2>12
  <2>14. q = r
    BY <2>4, <2>10, <2>13, EqualRuns
  <2> QED
    BY <1>2, <2>8, <2>14 DEF FileRecords, R, opens
<1>3. CASE ~folding[s]
  <2> DEFINE x == r[1]
             S == Singletons(WholeFile)
  <2>1. End(r) = x
    BY <1>3 DEF Complete
  <2>2. r = <<x>>
    BY <1>1, <2>1, OneLineRun, EqualRuns
  <2>3. x \in DOMAIN WholeFile /\ WholeFile[x] = x
    BY <1>1, FileIsRun DEF WholeFile, Line
  <2> HIDE DEF x
  <2>4. x \in DOMAIN S /\ S[x] = <<x>>
    BY <2>3 DEF Singletons
  <2> HIDE DEF S
  <2>5. <<x>> \in ToSet(S)
    BY <2>4 DEF ToSet
  <2> QED
    BY <1>3, <2>2, <2>5 DEF FileRecords, S
<1> QED
  BY <1>2, <1>3

LEMMA SuccessIsComplete ==
    ASSUME IngestInv, NoRecordLeftBehind, \A s \in Session : GoodInv(s)
    PROVE  SuccessStoresTheFile
<1> SUFFICES ASSUME NEW s \in Session, client[s] = "succeeded", s \notin crashed
             PROVE  /\ \A d \in Stored(s) : d.lines \in ToSet(FileRecords(s))
                    /\ \A d, e \in Stored(s) : d.seq < e.seq => Last(d.lines) < e.lines[1]
                    /\ (\A h \in Handler : handler[s][h].pc = "idle") =>
                          LinesOf(Stored(s)) \union unsaved[s] = Line
  BY DEF SuccessStoresTheFile
<1>1. Typed /\ UploadInv(s)
  BY TypedIsTypeOK DEF IngestInv
<1>2. sent[s] = FileLines /\ s \notin cancelled /\ s \notin live
  BY <1>1 DEF UploadInv, ClientInv, SessionInv, Waits
<1>3. OrderInv(s) /\ AllInv(s)
  BY <1>2 DEF GoodInv, Good
<1>4. \A d \in Stored(s) : Run(d.lines)
  BY <1>1 DEF UploadInv, LinesInv, DocsInv
<1>5. \A d \in Stored(s) : d.lines \in ToSet(FileRecords(s))
  BY <1>1, <1>3, <1>4, CompleteIsRecord DEF OrderInv, RecordsInv
<1>6. \A d, e \in Stored(s) : d.seq < e.seq => Last(d.lines) < e.lines[1]
  <2> SUFFICES ASSUME NEW d \in Stored(s), NEW e \in Stored(s), d.seq < e.seq
               PROVE  Last(d.lines) < e.lines[1]
    OBVIOUS
  <2>1. Before(d.lines, e.lines)
    BY <1>3 DEF OrderInv, SequenceInv
  <2>2. Last(d.lines) = End(d.lines)
    BY <1>4, RunLength DEF Last
  <2> QED
    BY <2>1, <2>2 DEF Before
<1>7. ASSUME \A h \in Handler : handler[s][h].pc = "idle"
      PROVE  LinesOf(Stored(s)) \union unsaved[s] = Line
  <2>1. pending[s] = << >>
    BY <1>2, <1>7 DEF NoRecordLeftBehind
  <2>2. handler[s]["ingest"].chunk = << >>
    BY <1>1, <1>7, Handlers DEF UploadInv, ShapeInv
  <2>3. \A h \in Handler : Size(handler[s][h]) = 0
    <3>1. \A h \in Handler : handler[s][h].rows = << >> /\ handler[s][h].records = << >>
      BY <1>1, <1>7 DEF UploadInv, ShapeInv
    <3> QED
      BY <3>1, NoRecords
  <2>4. ASSUME NEW x \in Line PROVE x \in LinesOf(Stored(s)) \union unsaved[s]
    <3>1. x \in 1 .. sent[s] /\ x \in Nat
      BY <1>2, LineIsNat DEF Line
    <3>2. Found(s, x)
      BY <1>3, <3>1 DEF AllInv
    <3>3. x \in unsaved[s] \/ \E d \in Stored(s) : Holds(d.lines, x)
      BY <2>1, <2>2, <2>3, <3>2 DEF Found, Holds
    <3>4. CASE \E d \in Stored(s) : Holds(d.lines, x)
      <4>1. PICK d \in Stored(s) : Holds(d.lines, x)
        BY <3>4
      <4>2. x \in ToSet(d.lines)
        BY <1>4, <3>1, <4>1, HeldByRun
      <4> QED
        BY <4>2 DEF LinesOf
    <3> QED
      BY <3>3, <3>4
  <2>5. LinesOf(Stored(s)) \subseteq Line
    <3>1. \A d \in Stored(s) : ToSet(d.lines) \subseteq Line
      <4>1. \A q \in Seq(Line) : ToSet(q) \subseteq Line
        BY DEF ToSet
      <4> QED
        BY <1>4, <4>1 DEF Run
    <3> QED
      BY <3>1 DEF LinesOf
  <2>6. unsaved[s] \subseteq Line
    BY <1>1 DEF Typed
  <2> QED
    BY <2>4, <2>5, <2>6
<1> QED
  BY <1>5, <1>6, <1>7

AllGood == \A s \in Session : GoodInv(s)

(* When no two uploads have a file of one name, an upload that reports     *)
(* success on a server that did not crash under it has stored exactly the  *)
(* records of its file, cut at the headers and numbered in file order,     *)
(* whatever the chunks, the order of the handlers and the sweep, but for   *)
(* what a failing store did not take.                                      *)
THEOREM SuccessIsStored == Spec /\ DistinctNames => []SuccessStoresTheFile
<1>1. Init => AllGood
  BY DEF Init, AllGood, GoodInv, Good
<1>2. IngestInv /\ UniqueInv /\ DistinctNames /\ AllGood /\ [Next]_vars => AllGood'
  <2> SUFFICES ASSUME IngestInv, UniqueInv, DistinctNames, AllGood, [Next]_vars PROVE AllGood'
    OBVIOUS
  <2>1. Typed /\ (\A s \in Session : UploadInv(s)) /\ (\A s \in Session : NumbersInv(s))
        /\ overwritten = {}
    BY TypedIsTypeOK DEF IngestInv, UniqueInv
  <2>2. \A s \in Session : GoodInv(s)
    BY DEF AllGood
  <2>3. \A s \in Session : GoodInv(s)'
    BY <2>1, <2>2, GoodNext
  <2> QED
    BY <2>3 DEF AllGood
<1>3. IngestInv /\ NoRecordLeftBehind /\ AllGood => SuccessStoresTheFile
  BY SuccessIsComplete DEF AllGood
<1> QED
  BY <1>1, <1>2, <1>3, NamesStay, NumbersStay, IngestStays, NothingIsLeftBehind, PTL DEF Spec

=============================================================================
