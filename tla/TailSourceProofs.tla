--------------------------- MODULE TailSourceProofs ---------------------------
(***************************************************************************)
(* Theorems about TailSource: for any number of lines and files and any    *)
(* length of a batch, what followFile and readStdin read is read once and  *)
(* in order, no line or record is put together from two files, and nothing *)
(* that was read disappears on its way to the store.                       *)
(***************************************************************************)
EXTENDS TailSource, Integers, SequenceTheorems, FiniteSetTheorems, WellFoundedInduction, TLAPS

-----------------------------------------------------------------------------
(* Induction over a set of numbers: the numbers are well ordered.          *)

LEMMA LeastNumber ==
    ASSUME NEW T, T \subseteq Nat, T # {}
    PROVE  \E n \in T : \A m \in T : n <= m
<1> DEFINE R == OpToRel(<, Nat)
<1>1. IsWellFoundedOn(R, Nat)
  BY NatLessThanWellFounded
<1>2. \A x, y \in Nat : <<y, x>> \in R <=> y < x
  BY DEF OpToRel
<1> HIDE DEF R
<1>3. PICK x \in T : \A y \in T : <<y, x>> \notin R
  BY <1>1, WFMin
<1>4. ASSUME NEW y \in T PROVE x <= y
  <2>1. x \in Nat /\ y \in Nat /\ <<y, x>> \notin R
    BY <1>3
  <2> QED
    BY <1>2, <2>1
<1> QED
  BY <1>4

LEMMA SetInduction ==
    ASSUME NEW T, T \subseteq Nat, 0 \in T, \A n \in T : n + 1 \in T
    PROVE  T = Nat
<1> SUFFICES ASSUME T # Nat PROVE FALSE
  OBVIOUS
<1>1. Nat \ T \subseteq Nat /\ Nat \ T # {}
  OBVIOUS
<1>2. PICK n \in Nat \ T : \A m \in Nat \ T : n <= m
  BY <1>1, LeastNumber
<1>3. n - 1 \in T
  BY <1>2
<1> QED
  BY <1>2, <1>3

-----------------------------------------------------------------------------
(* A sequence of sequences put one after the other.                        *)

(* The recursive function of FlattenSeq.                                   *)
FlattenAt(S, f, n) == IF n = 1 THEN S[n] ELSE f[n - 1] \o S[n]
Flattens(S, f, n) == f = [m \in 1 .. n |-> FlattenAt(S, f, m)]

LEMMA FlattenExists ==
    ASSUME NEW S
    PROVE  \A n \in Nat : \E f : Flattens(S, f, n)
<1> DEFINE T == {n \in Nat : \E f : Flattens(S, f, n)}
<1>1. 0 \in T
  <2> DEFINE f == [m \in 1 .. 0 |-> S]
  <2>1. Flattens(S, f, 0)
    BY DEF Flattens
  <2> QED
    BY <2>1
<1>2. ASSUME NEW n \in T PROVE n + 1 \in T
  <2>1. PICK f : Flattens(S, f, n)
    OBVIOUS
  <2> DEFINE g == [m \in 1 .. n + 1 |-> IF m <= n THEN f[m] ELSE FlattenAt(S, f, m)]
  <2>2. n \in Nat
    OBVIOUS
  <2>3. \A m \in 1 .. n : g[m] = f[m]
    BY <2>2
  <2>4. g[n + 1] = FlattenAt(S, f, n + 1)
    BY <2>2
  <2>5. \A m \in 1 .. n : f[m] = FlattenAt(S, f, m)
    BY <2>1 DEF Flattens
  <2>6. DOMAIN g = 1 .. n + 1 /\ g = [m \in 1 .. n + 1 |-> g[m]]
    OBVIOUS
  <2> HIDE DEF g
  <2>7. ASSUME NEW m \in 1 .. n + 1 PROVE g[m] = FlattenAt(S, g, m)
    <3>1. CASE m = 1
      <4>1. FlattenAt(S, g, m) = S[m] /\ FlattenAt(S, f, m) = S[m]
        BY <3>1 DEF FlattenAt
      <4>2. m \in 1 .. n \/ m = n + 1
        BY <2>2
      <4> QED
        BY <2>3, <2>4, <2>5, <4>1, <4>2
    <3>2. CASE m # 1
      <4>1. m - 1 \in 1 .. n
        BY <2>2, <3>2
      <4>2. g[m - 1] = f[m - 1]
        BY <2>3, <4>1
      <4>3. FlattenAt(S, g, m) = FlattenAt(S, f, m)
        BY <3>2, <4>2 DEF FlattenAt
      <4>4. m \in 1 .. n \/ m = n + 1
        BY <2>2
      <4> QED
        BY <2>3, <2>4, <2>5, <4>3, <4>4
    <3> QED
      BY <3>1, <3>2
  <2>8. Flattens(S, g, n + 1)
    BY <2>6, <2>7 DEF Flattens
  <2> QED
    BY <2>2, <2>8
<1> HIDE DEF T
<1>3. T = Nat
  <2>1. T \subseteq Nat
    BY DEF T
  <2> QED
    BY <1>1, <1>2, <2>1, SetInduction
<1> QED
  BY <1>3 DEF T

LEMMA FlattenUnfolds ==
    ASSUME NEW S, Len(S) \in Nat, Len(S) # 0
    PROVE  \E f : Flattens(S, f, Len(S)) /\ FlattenSeq(S) = f[Len(S)]
<1> DEFINE P(g) == g = [n \in 1 .. Len(S) |-> FlattenAt(S, g, n)]
           f == CHOOSE g : P(g)
<1>1. FlattenSeq(S) = f[Len(S)]
  BY Zenon DEF FlattenSeq, FlattenAt
<1>2. \E g : P(g)
  <2>1. PICK g : Flattens(S, g, Len(S))
    BY FlattenExists
  <2>2. P(g)
    BY <2>1 DEF Flattens
  <2> HIDE DEF P
  <2> QED
    BY <2>2
<1> HIDE DEF P
<1>3. P(f)
  BY <1>2
<1> QED
  BY <1>1, <1>3 DEF P, Flattens


(* Two such functions agree for as long as their sequences do.             *)
LEMMA FlattenPrefix ==
    ASSUME NEW T, NEW S, NEW U, NEW n \in Nat, NEW m \in Nat, n <= m, NEW f, NEW g,
           Flattens(S, f, n), Flattens(U, g, m),
           \A i \in 1 .. n : S[i] \in Seq(T) /\ U[i] = S[i]
    PROVE  \A i \in 1 .. n : f[i] = g[i] /\ f[i] \in Seq(T)
<1> DEFINE A == {i \in Nat : i \in 1 .. n => f[i] = g[i] /\ f[i] \in Seq(T)}
<1>1. 0 \in A
  OBVIOUS
<1>2. ASSUME NEW i \in A PROVE i + 1 \in A
  <2> SUFFICES ASSUME i + 1 \in 1 .. n PROVE f[i + 1] = g[i + 1] /\ f[i + 1] \in Seq(T)
    OBVIOUS
  <2> DEFINE k == i + 1
  <2>1. k \in 1 .. n /\ k \in 1 .. m /\ i \in Nat /\ k - 1 = i /\ (k # 1 => i \in 1 .. n)
    OBVIOUS
  <2>2. f[k] = FlattenAt(S, f, k) /\ g[k] = FlattenAt(U, g, k)
    BY <2>1 DEF Flattens
  <2>3. U[k] = S[k] /\ S[k] \in Seq(T)
    BY <2>1
  <2>4. k # 1 => f[k - 1] = g[k - 1] /\ f[k - 1] \in Seq(T)
    BY <2>1
  <2> HIDE DEF k
  <2>5. f[k] = g[k]
    BY <2>2, <2>3, <2>4 DEF FlattenAt
  <2>6. CASE k = 1
    BY <2>2, <2>3, <2>5, <2>6 DEF FlattenAt, k
  <2>7. CASE k # 1
    <3>1. f[k] = f[k - 1] \o S[k]
      BY <2>2, <2>7 DEF FlattenAt
    <3>2. f[k] \in Seq(T)
      BY <2>3, <2>4, <2>7, <3>1, ConcatProperties
    <3> QED
      BY <2>5, <3>2 DEF k
  <2> QED
    BY <2>6, <2>7
<1> HIDE DEF A
<1>3. A = Nat
  <2>1. A \subseteq Nat
    BY DEF A
  <2> QED
    BY <1>1, <1>2, <2>1, SetInduction
<1> QED
  BY <1>3 DEF A

Associates(a, b, c) == (a \o b) \o c = a \o (b \o c)

LEMMA Associate ==
    ASSUME NEW T, NEW a \in Seq(T), NEW b \in Seq(T), NEW c \in Seq(T)
    PROVE  Associates(a, b, c)
BY ConcatAssociative DEF Associates

LEMMA FlattenEmpty == FlattenSeq(<< >>) = << >>
BY DEF FlattenSeq

LEMMA FlattenType ==
    ASSUME NEW T, NEW S \in Seq(Seq(T))
    PROVE  FlattenSeq(S) \in Seq(T)
<1>1. CASE S = << >>
  <2>1. << >> \in Seq(T)
    OBVIOUS
  <2> QED
    BY <1>1, <2>1, FlattenEmpty
<1>2. CASE S # << >>
  <2>1. Len(S) \in Nat /\ Len(S) # 0 /\ Len(S) \in 1 .. Len(S) /\ \A i \in 1 .. Len(S) : S[i] \in Seq(T)
    BY <1>2
  <2>2. PICK n : n = Len(S)
    OBVIOUS
  <2>3. PICK f : Flattens(S, f, n) /\ FlattenSeq(S) = f[n]
    BY <2>1, <2>2, FlattenUnfolds
  <2>4. n \in Nat /\ n <= n /\ n \in 1 .. n /\ \A i \in 1 .. n : S[i] \in Seq(T) /\ S[i] = S[i]
    BY <2>1, <2>2
  <2>5. \A i \in 1 .. n : f[i] = f[i] /\ f[i] \in Seq(T)
    BY <2>3, <2>4, FlattenPrefix
  <2> QED
    BY <2>3, <2>4, <2>5
<1> QED
  BY <1>1, <1>2

LEMMA FlattenAppend ==
    ASSUME NEW T, NEW S \in Seq(Seq(T)), NEW x \in Seq(T)
    PROVE  FlattenSeq(Append(S, x)) = FlattenSeq(S) \o x
<1>1. PICK U : U = Append(S, x)
  OBVIOUS
<1>2. PICK n : n = Len(S)
  OBVIOUS
<1>3. /\ n \in Nat /\ Len(U) = n + 1 /\ U[n + 1] = x /\ U \in Seq(Seq(T))
      /\ \A i \in 1 .. n : S[i] \in Seq(T) /\ U[i] = S[i]
  <2>1. S \in Seq(Seq(T)) /\ x \in Seq(T)
    OBVIOUS
  <2>2. n \in Nat /\ \A i \in 1 .. n : S[i] \in Seq(T)
    BY <1>2
  <2> QED
    BY <1>1, <1>2, <2>1, <2>2, AppendProperties
<1>4. PICK g : Flattens(U, g, n + 1) /\ FlattenSeq(U) = g[n + 1]
  <2>1. Len(U) \in Nat /\ Len(U) # 0
    BY <1>3
  <2>2. \E g : Flattens(U, g, Len(U)) /\ FlattenSeq(U) = g[Len(U)]
    BY <2>1, FlattenUnfolds
  <2> QED
    BY <1>3, <2>2
<1>5. g[n + 1] = FlattenAt(U, g, n + 1)
  <2>1. n + 1 \in 1 .. n + 1
    BY <1>3
  <2> QED
    BY <1>4, <2>1 DEF Flattens
<1>6. CASE n = 0
  <2>1. FlattenSeq(U) = x
    BY <1>3, <1>4, <1>5, <1>6 DEF FlattenAt
  <2>2. S = << >>
    BY <1>2, <1>6, EmptySeq
  <2>3. << >> \o x = x
    BY ConcatEmptySeq
  <2> QED
    BY <1>1, <2>1, <2>2, <2>3, FlattenEmpty
<1>7. CASE n # 0
  <2>1. PICK f : Flattens(S, f, n) /\ FlattenSeq(S) = f[n]
    BY <1>2, <1>3, <1>7, FlattenUnfolds
  <2>2. n + 1 \in Nat /\ n <= n + 1 /\ n \in 1 .. n /\ n + 1 # 1 /\ (n + 1) - 1 = n
    BY <1>3, <1>7
  <2>3. \A i \in 1 .. n : f[i] = g[i] /\ f[i] \in Seq(T)
    BY <1>3, <1>4, <2>1, <2>2, FlattenPrefix
  <2>4. f[n] = g[n]
    BY <2>2, <2>3
  <2>5. g[n + 1] = g[n] \o x
    BY <1>3, <1>5, <2>2 DEF FlattenAt
  <2> QED
    BY <1>1, <1>4, <2>1, <2>4, <2>5
<1> QED
  BY <1>6, <1>7

LEMMA FlattenOne ==
    ASSUME NEW T, NEW x \in Seq(T)
    PROVE  FlattenSeq(<<x>>) = x
<1>1. << >> \in Seq(Seq(T)) /\ Append(<< >>, x) = <<x>>
  OBVIOUS
<1>2. FlattenSeq(<<x>>) = FlattenSeq(<< >>) \o x
  BY <1>1, FlattenAppend
<1>3. << >> \o x = x
  BY ConcatEmptySeq
<1> QED
  BY <1>2, <1>3, FlattenEmpty

LEMMA FlattenConcat ==
    ASSUME NEW T, NEW S \in Seq(Seq(T)), NEW U \in Seq(Seq(T))
    PROVE  FlattenSeq(S \o U) = FlattenSeq(S) \o FlattenSeq(U)
<1> DEFINE A == {n \in Nat : \A V \in Seq(Seq(T)) :
                    Len(V) = n => FlattenSeq(S \o V) = FlattenSeq(S) \o FlattenSeq(V)}
<1>1. 0 \in A
  <2> SUFFICES ASSUME NEW V \in Seq(Seq(T)), Len(V) = 0
               PROVE  FlattenSeq(S \o V) = FlattenSeq(S) \o FlattenSeq(V)
    OBVIOUS
  <2>1. V = << >> /\ S \o << >> = S
    BY ConcatEmptySeq
  <2>2. FlattenSeq(S) \in Seq(T)
    BY FlattenType
  <2>3. FlattenSeq(S) \o << >> = FlattenSeq(S)
    BY <2>2, ConcatEmptySeq
  <2> QED
    BY <2>1, <2>3, FlattenEmpty
<1>2. ASSUME NEW n \in A PROVE n + 1 \in A
  <2> SUFFICES ASSUME NEW V \in Seq(Seq(T)), Len(V) = n + 1
               PROVE  FlattenSeq(S \o V) = FlattenSeq(S) \o FlattenSeq(V)
    OBVIOUS
  <2>1. n \in Nat /\ V # << >>
    OBVIOUS
  <2>2. PICK W \in Seq(Seq(T)), x \in Seq(T) : V = Append(W, x)
    BY <2>1, SequenceEmptyOrAppend
  <2>3. Len(W) = n /\ Len(W) \in Nat
    <3>1. Len(Append(W, x)) = Len(W) + 1 /\ Len(W) \in Nat
      BY AppendProperties
    <3> QED
      BY <2>1, <2>2, <3>1
  <2>4. FlattenSeq(S \o W) = FlattenSeq(S) \o FlattenSeq(W)
    BY <2>3
  <2> HIDE DEF A
  <2>5. S \o W \in Seq(Seq(T)) /\ <<x>> \in Seq(Seq(T))
    BY ConcatProperties
  <2>6. S \o V = Append(S \o W, x)
    <3>1. V = W \o <<x>>
      BY <2>2, AppendIsConcat
    <3>2. (S \o W) \o <<x>> = S \o (W \o <<x>>)
      <4>1. Associates(S, W, <<x>>)
        BY <2>2, <2>5, Associate
      <4> QED
        BY <4>1 DEF Associates
    <3>3. Append(S \o W, x) = (S \o W) \o <<x>>
      BY <2>5, AppendIsConcat
    <3> QED
      BY <3>1, <3>2, <3>3
  <2>7. FlattenSeq(S \o V) = FlattenSeq(S \o W) \o x
    BY <2>5, <2>6, FlattenAppend
  <2>8. FlattenSeq(V) = FlattenSeq(W) \o x
    BY <2>2, FlattenAppend
  <2>9. FlattenSeq(S) \in Seq(T) /\ FlattenSeq(W) \in Seq(T)
    BY FlattenType
  <2>10. (FlattenSeq(S) \o FlattenSeq(W)) \o x = FlattenSeq(S) \o (FlattenSeq(W) \o x)
    <3>1. Associates(FlattenSeq(S), FlattenSeq(W), x)
      BY <2>2, <2>9, Associate
    <3> QED
      BY <3>1 DEF Associates
  <2> QED
    BY <2>4, <2>7, <2>8, <2>10
<1> HIDE DEF A
<1>3. A = Nat
  <2>1. A \subseteq Nat
    BY DEF A
  <2> QED
    BY <1>1, <1>2, <2>1, SetInduction
<1>4. Len(U) \in Nat
  OBVIOUS
<1> QED
  BY <1>3, <1>4 DEF A

(* A sequence of which every element is a sequence of its own.             *)
LEMMA FlattenSingletons ==
    ASSUME NEW T, NEW U \in Seq(T)
    PROVE  Singletons(U) \in Seq(Seq(T)) /\ FlattenSeq(Singletons(U)) = U
<1> DEFINE A == {n \in Nat : \A V \in Seq(T) :
                    Len(V) = n => Singletons(V) \in Seq(Seq(T)) /\ FlattenSeq(Singletons(V)) = V}
<1>1. 0 \in A
  <2> SUFFICES ASSUME NEW V \in Seq(T), Len(V) = 0
               PROVE  Singletons(V) \in Seq(Seq(T)) /\ FlattenSeq(Singletons(V)) = V
    OBVIOUS
  <2>1. V = << >> /\ DOMAIN V = 1 .. 0
    BY EmptySeq
  <2>2. Singletons(V) = << >> /\ << >> \in Seq(Seq(T))
    BY <2>1 DEF Singletons
  <2> QED
    BY <2>1, <2>2, FlattenEmpty
<1>2. ASSUME NEW n \in A PROVE n + 1 \in A
  <2> SUFFICES ASSUME NEW V \in Seq(T), Len(V) = n + 1
               PROVE  Singletons(V) \in Seq(Seq(T)) /\ FlattenSeq(Singletons(V)) = V
    OBVIOUS
  <2>1. n \in Nat /\ V # << >>
    OBVIOUS
  <2>2. PICK W \in Seq(T), x \in T : V = Append(W, x)
    BY <2>1, SequenceEmptyOrAppend
  <2>3. Len(W) = n /\ Len(W) \in Nat
    <3>1. Len(Append(W, x)) = Len(W) + 1 /\ Len(W) \in Nat
      BY AppendProperties
    <3> QED
      BY <2>1, <2>2, <3>1
  <2>4. Singletons(W) \in Seq(Seq(T)) /\ FlattenSeq(Singletons(W)) = W
    BY <2>3
  <2> HIDE DEF A
  <2>5. <<x>> \in Seq(T)
    OBVIOUS
  <2>6. Append(Singletons(W), <<x>>) \in Seq(Seq(T))
    BY <2>4, <2>5, AppendProperties
  <2>7. Singletons(V) = Append(Singletons(W), <<x>>)
    <3>1. DOMAIN V = 1 .. n + 1 /\ DOMAIN W = 1 .. n
      BY <2>3
    <3>2. Len(Singletons(W)) = n /\ \A i \in 1 .. n : Singletons(W)[i] = <<W[i]>>
      <4>1. DOMAIN Singletons(W) = 1 .. n /\ DOMAIN Singletons(W) = 1 .. Len(Singletons(W))
        BY <2>4, <3>1, LenProperties DEF Singletons
      <4>2. Len(Singletons(W)) \in Nat
        BY <2>4, LenProperties
      <4> QED
        BY <2>1, <3>1, <4>1, <4>2 DEF Singletons
    <3>3. PICK Y : Y = Append(Singletons(W), <<x>>)
      OBVIOUS
    <3>4. /\ Y \in Seq(Seq(T)) /\ Len(Y) = n + 1 /\ Y[n + 1] = <<x>>
          /\ \A i \in 1 .. n : Y[i] = Singletons(W)[i]
      BY <2>4, <2>5, <3>2, <3>3, AppendProperties
    <3>5. V[n + 1] = x /\ \A i \in 1 .. n : V[i] = W[i]
      BY <2>2, <2>3, AppendProperties
    <3>6. ASSUME NEW i \in 1 .. n + 1 PROVE Y[i] = <<V[i]>>
      <4>1. CASE i = n + 1
        BY <3>4, <3>5, <4>1
      <4>2. CASE i \in 1 .. n
        BY <3>2, <3>4, <3>5, <4>2
      <4> QED
        BY <2>1, <4>1, <4>2
    <3>7. Y = [i \in 1 .. n + 1 |-> Y[i]]
      BY <3>4, LenProperties
    <3> QED
      BY <3>1, <3>3, <3>6, <3>7 DEF Singletons
  <2>8. FlattenSeq(Singletons(V)) = W \o <<x>>
    BY <2>4, <2>5, <2>7, FlattenAppend
  <2>9. V = W \o <<x>>
    BY <2>2, AppendIsConcat
  <2> QED
    BY <2>6, <2>7, <2>8, <2>9
<1> HIDE DEF A
<1>3. A = Nat
  <2>1. A \subseteq Nat
    BY DEF A
  <2> QED
    BY <1>1, <1>2, <2>1, SetInduction
<1>4. Len(U) \in Nat
  OBVIOUS
<1> QED
  BY <1>3, <1>4 DEF A

(* The recursive function of Fold: what it is at n, and that it exists.    *)
FoldAt(hold, lines, opens, f, n) ==
    IF n = 0 THEN IF hold = << >> THEN << >> ELSE <<hold>>
    ELSE AddLine(f[n - 1], lines[n], opens)

Folds(hold, lines, opens, f, n) == f = [m \in 0 .. n |-> FoldAt(hold, lines, opens, f, m)]

LEMMA FoldExists ==
    ASSUME NEW hold, NEW lines, NEW opens
    PROVE  \A n \in Nat : \E f : Folds(hold, lines, opens, f, n)
<1> DEFINE T == {n \in Nat : \E f : Folds(hold, lines, opens, f, n)}
<1>1. 0 \in T
  <2> DEFINE f == [m \in 0 .. 0 |-> IF hold = << >> THEN << >> ELSE <<hold>>]
  <2>1. Folds(hold, lines, opens, f, 0)
    BY DEF Folds, FoldAt
  <2> QED
    BY <2>1
<1>2. ASSUME NEW n \in T PROVE n + 1 \in T
  <2>1. PICK f : Folds(hold, lines, opens, f, n)
    OBVIOUS
  <2> DEFINE g == [m \in 0 .. n + 1 |-> IF m <= n THEN f[m] ELSE AddLine(f[n], lines[n + 1], opens)]
  <2>2. n \in Nat
    OBVIOUS
  <2>3. \A m \in 0 .. n : g[m] = f[m]
    BY <2>2
  <2>4. g[n + 1] = AddLine(f[n], lines[n + 1], opens)
    BY <2>2
  <2>5. \A m \in 0 .. n : f[m] = FoldAt(hold, lines, opens, f, m)
    BY <2>1 DEF Folds
  <2>6. DOMAIN g = 0 .. n + 1 /\ g = [m \in 0 .. n + 1 |-> g[m]]
    OBVIOUS
  <2> HIDE DEF g
  <2>7. ASSUME NEW m \in 0 .. n + 1 PROVE g[m] = FoldAt(hold, lines, opens, g, m)
    <3>1. CASE m = 0
      BY <2>2, <2>3, <2>5, <3>1 DEF FoldAt
    <3>2. CASE m \in 1 .. n
      <4>1. m - 1 \in 0 .. n /\ m \in 0 .. n /\ m # 0
        BY <2>2, <3>2
      <4>2. g[m] = f[m] /\ g[m - 1] = f[m - 1]
        BY <2>3, <4>1
      <4> QED
        BY <2>5, <4>1, <4>2 DEF FoldAt
    <3>3. CASE m = n + 1
      <4>1. m - 1 = n /\ m # 0 /\ g[n] = f[n]
        BY <2>2, <2>3, <3>3
      <4> QED
        BY <2>4, <3>3, <4>1 DEF FoldAt
    <3> QED
      BY <2>2, <3>1, <3>2, <3>3
  <2>8. Folds(hold, lines, opens, g, n + 1)
    BY <2>6, <2>7 DEF Folds
  <2> QED
    BY <2>2, <2>8
<1> HIDE DEF T
<1>3. T = Nat
  <2>1. T \subseteq Nat
    BY DEF T
  <2> QED
    BY <1>1, <1>2, <2>1, SetInduction
<1> QED
  BY <1>3 DEF T

LEMMA FoldUnfolds ==
    ASSUME NEW hold, NEW lines, NEW opens, Len(lines) \in Nat
    PROVE  \E f : Folds(hold, lines, opens, f, Len(lines)) /\ Fold(hold, lines, opens) = f[Len(lines)]
<1> DEFINE P(g) == g = [n \in 0 .. Len(lines) |-> FoldAt(hold, lines, opens, g, n)]
           f == CHOOSE g : P(g)
<1>1. Fold(hold, lines, opens) = f[Len(lines)]
  BY Zenon DEF Fold, FoldAt
<1>2. \E g : P(g)
  <2>1. PICK g : Folds(hold, lines, opens, g, Len(lines))
    BY FoldExists
  <2>2. P(g)
    BY <2>1 DEF Folds
  <2> HIDE DEF P
  <2> QED
    BY <2>2
<1> HIDE DEF P
<1>3. P(f)
  BY <1>2
<1> QED
  BY <1>1, <1>3 DEF P, Folds

Appended(T, s, x) ==
    /\ Append(s, x) \in Seq(T)
    /\ Append(s, x) # << >>
    /\ Len(Append(s, x)) = Len(s) + 1
    /\ \A i \in 1 .. Len(s) : Append(s, x)[i] = s[i]
    /\ Append(s, x)[Len(s) + 1] = x

LEMMA Appends == ASSUME NEW T, NEW s \in Seq(T), NEW x \in T PROVE Appended(T, s, x)
BY AppendProperties DEF Appended

LEMMA AddLineKeeps ==
    ASSUME NEW T, NEW R \in Seq(Seq(T)), NEW x \in T, NEW opens
    PROVE  /\ AddLine(R, x, opens) \in Seq(Seq(T)) /\ AddLine(R, x, opens) # << >>
           /\ FlattenSeq(AddLine(R, x, opens)) = FlattenSeq(R) \o <<x>>
<1>1. <<x>> \in Seq(T)
  OBVIOUS
<1>2. CASE x \in opens \/ R = << >>
  <2>1. AddLine(R, x, opens) = Append(R, <<x>>)
    BY <1>2 DEF AddLine
  <2>2. Append(R, <<x>>) \in Seq(Seq(T)) /\ Append(R, <<x>>) # << >>
    <3>1. PICK v \in Seq(T) : v = <<x>>
      BY <1>1
    <3>2. Appended(Seq(T), R, v)
      BY Appends
    <3> QED
      BY <3>1, <3>2 DEF Appended
  <2> QED
    BY <1>1, <2>1, <2>2, FlattenAppend
<1>3. CASE ~(x \in opens \/ R = << >>)
  <2>1. PICK W \in Seq(Seq(T)), w \in Seq(T) : R = Append(W, w)
    BY <1>3, SequenceEmptyOrAppend
  <2>2. PICK n : n = Len(W)
    OBVIOUS
  <2>3. n \in Nat /\ Len(R) = n + 1 /\ R[n + 1] = w /\ \A i \in 1 .. n : R[i] = W[i]
    BY <2>1, <2>2, AppendProperties
  <2>4. Append(w, x) \in Seq(T) /\ Append(w, x) = w \o <<x>>
    BY AppendProperties, AppendIsConcat
  <2>5. PICK Y : Y = Append(W, Append(w, x))
    OBVIOUS
  <2>6. /\ Y \in Seq(Seq(T)) /\ Len(Y) = n + 1 /\ Y[n + 1] = Append(w, x) /\ Y # << >>
        /\ \A i \in 1 .. n : Y[i] = W[i]
    <3>1. W \in Seq(Seq(T)) /\ Append(w, x) \in Seq(T)
      BY <2>1, <2>4
    <3>2. PICK v : v = Append(w, x)
      OBVIOUS
    <3>3. W \in Seq(Seq(T)) /\ v \in Seq(T) /\ Y = Append(W, v)
      BY <2>5, <3>1, <3>2
    <3>4. Appended(Seq(T), W, v)
      BY <3>3, Appends
    <3> QED
      BY <2>2, <3>2, <3>3, <3>4 DEF Appended
  <2>7. PICK Z : Z = [R EXCEPT ![n + 1] = Append(w, x)]
    OBVIOUS
  <2>8. /\ Z \in Seq(Seq(T)) /\ Len(Z) = n + 1
        /\ \A i \in 1 .. n + 1 : Z[i] = IF i = n + 1 THEN Append(w, x) ELSE R[i]
    <3>1. n + 1 \in 1 .. Len(R)
      BY <2>3
    <3> QED
      BY <2>3, <2>4, <2>7, <3>1, ExceptSeq
  <2>9. ASSUME NEW i \in 1 .. Len(Y) PROVE Y[i] = Z[i]
    <3>1. i \in 1 .. n + 1 /\ (i = n + 1 \/ (i \in 1 .. n /\ i # n + 1))
      BY <2>3, <2>6
    <3> QED
      BY <2>3, <2>6, <2>8, <3>1
  <2>10. Y = Z
    BY <2>6, <2>8, <2>9, SeqEqual
  <2>11. AddLine(R, x, opens) = Z
    BY <1>3, <2>3, <2>7 DEF AddLine
  <2>12. FlattenSeq(Y) = FlattenSeq(W) \o (w \o <<x>>)
    BY <2>4, <2>5, FlattenAppend
  <2>13. FlattenSeq(R) = FlattenSeq(W) \o w
    BY <2>1, FlattenAppend
  <2>14. FlattenSeq(W) \in Seq(T)
    BY FlattenType
  <2>15. (FlattenSeq(W) \o w) \o <<x>> = FlattenSeq(W) \o (w \o <<x>>)
    <3>1. Associates(FlattenSeq(W), w, <<x>>)
      BY <1>1, <2>14, Associate
    <3> QED
      BY <3>1 DEF Associates
  <2> QED
    BY <2>6, <2>10, <2>11, <2>12, <2>13, <2>15
<1> QED
  BY <1>2, <1>3

(* One element more of a sequence.                                         *)
LEMMA OneMore ==
    ASSUME NEW T, NEW U \in Seq(T), NEW n \in Nat, n + 1 \in 1 .. Len(U)
    PROVE  /\ SubSeq(U, 1, n) \in Seq(T) /\ SubSeq(U, 1, n + 1) \in Seq(T)
           /\ SubSeq(U, 1, n + 1) = SubSeq(U, 1, n) \o <<U[n + 1]>>
<1>1. PICK m : m = n + 1
  OBVIOUS
<1>2. m \in 1 .. Len(U) /\ 1 \in 1 .. Len(U) /\ m \in 1 .. Len(U) /\ m - 1 = n /\ m \in Int /\ n \in Int
  BY <1>1
<1>3. SubSeq(U, 1, m) = SubSeq(U, 1, m - 1) \o <<U[m]>>
  BY <1>2, SubSeqRecursiveSecond
<1>4. (\A i \in 1 .. n : U[i] \in T) /\ (\A i \in 1 .. m : U[i] \in T)
  BY <1>1, <1>2
<1>5. SubSeq(U, 1, n) \in Seq(T) /\ SubSeq(U, 1, m) \in Seq(T)
  BY <1>2, <1>4, SubSeqProperties
<1> QED
  BY <1>1, <1>2, <1>3, <1>5

(* A folder keeps every line, in order.                                    *)
LEMMA FoldKeeps ==
    ASSUME NEW T, NEW hold \in Seq(T), NEW lines \in Seq(T), lines # << >>, NEW opens
    PROVE  /\ Fold(hold, lines, opens) \in Seq(Seq(T)) /\ Fold(hold, lines, opens) # << >>
           /\ FlattenSeq(Fold(hold, lines, opens)) = hold \o lines
<1>1. PICK N : N = Len(lines)
  OBVIOUS
<1>2. N \in Nat /\ N # 0
  BY <1>1, EmptySeq
<1>3. PICK f : Folds(hold, lines, opens, f, N) /\ Fold(hold, lines, opens) = f[N]
  BY <1>1, <1>2, FoldUnfolds
<1> DEFINE Good(n) == /\ f[n] \in Seq(Seq(T)) /\ (n # 0 => f[n] # << >>)
                      /\ FlattenSeq(f[n]) = hold \o SubSeq(lines, 1, n)
           A == {n \in Nat : n <= N => Good(n)}
<1>4. 0 \in A
  <2>1. f[0] = IF hold = << >> THEN << >> ELSE <<hold>>
    BY <1>2, <1>3 DEF Folds, FoldAt
  <2>2. SubSeq(lines, 1, 0) = << >>
    BY SubSeqEmpty
  <2>3. hold \o << >> = hold
    BY ConcatEmptySeq
  <2>4. f[0] \in Seq(Seq(T))
    BY <2>1
  <2>5. FlattenSeq(f[0]) = hold
    <3>1. CASE hold = << >>
      BY <2>1, <3>1, FlattenEmpty
    <3>2. CASE hold # << >>
      BY <2>1, <3>2, FlattenOne
    <3> QED
      BY <3>1, <3>2
  <2> QED
    BY <2>2, <2>3, <2>4, <2>5
<1>5. ASSUME NEW n \in A PROVE n + 1 \in A
  <2> SUFFICES ASSUME n + 1 <= N PROVE Good(n + 1)
    OBVIOUS
  <2>1. n \in Nat /\ n <= N
    BY <1>2
  <2>2. Good(n)
    BY <2>1
  <2>3. f[n + 1] = AddLine(f[n], lines[n + 1], opens)
    <3>1. n + 1 \in 0 .. N /\ n + 1 # 0 /\ (n + 1) - 1 = n
      BY <2>1
    <3> QED
      BY <1>3, <3>1 DEF Folds, FoldAt
  <2>4. n + 1 \in 1 .. Len(lines) /\ n + 1 \in 1 .. N
    BY <1>1, <1>2, <2>1
  <2>5. lines[n + 1] \in T
    BY <2>4, ElementOfSeq
  <2>6. /\ f[n + 1] \in Seq(Seq(T)) /\ f[n + 1] # << >>
        /\ FlattenSeq(f[n + 1]) = (hold \o SubSeq(lines, 1, n)) \o <<lines[n + 1]>>
    <3>1. PICK R : R = f[n]
      OBVIOUS
    <3>2. R \in Seq(Seq(T)) /\ FlattenSeq(R) = hold \o SubSeq(lines, 1, n) /\ f[n + 1] = AddLine(R, lines[n + 1], opens)
      BY <2>2, <2>3, <3>1
    <3> HIDE DEF Good, A
    <3>3. /\ AddLine(R, lines[n + 1], opens) \in Seq(Seq(T)) /\ AddLine(R, lines[n + 1], opens) # << >>
          /\ FlattenSeq(AddLine(R, lines[n + 1], opens)) = FlattenSeq(R) \o <<lines[n + 1]>>
      BY <2>5, <3>2, AddLineKeeps
    <3> QED
      BY <3>2, <3>3
  <2>7. SubSeq(lines, 1, n) \in Seq(T) /\ SubSeq(lines, 1, n + 1) = SubSeq(lines, 1, n) \o <<lines[n + 1]>>
    BY <2>1, <2>4, OneMore
  <2>8. <<lines[n + 1]>> \in Seq(T)
    BY <2>5
  <2>9. (hold \o SubSeq(lines, 1, n)) \o <<lines[n + 1]>> = hold \o (SubSeq(lines, 1, n) \o <<lines[n + 1]>>)
    <3>1. PICK u : u = SubSeq(lines, 1, n)
      OBVIOUS
    <3>2. PICK v : v = <<lines[n + 1]>>
      OBVIOUS
    <3>3. hold \in Seq(T) /\ u \in Seq(T) /\ v \in Seq(T)
      BY <2>7, <2>8, <3>1, <3>2
    <3> HIDE DEF Good, A
    <3>4. (hold \o u) \o v = hold \o (u \o v)
      <4>1. Associates(hold, u, v)
        BY <3>3, Associate
      <4> QED
        BY <4>1 DEF Associates
    <3> QED
      BY <3>1, <3>2, <3>4
  <2> QED
    BY <2>6, <2>7, <2>9
<1> HIDE DEF A
<1>6. A = Nat
  <2>1. A \subseteq Nat
    BY DEF A
  <2> QED
    BY <1>4, <1>5, <2>1, SetInduction
<1>7. Good(N)
  <2>1. N \in Nat /\ N <= N
    BY <1>2
  <2> QED
    BY <1>6, <2>1 DEF A
<1>8. SubSeq(lines, 1, N) = lines
  BY <1>1, SubSeqFull
<1> QED
  BY <1>2, <1>3, <1>7, <1>8

(* All but the last, and the last, of a sequence.                          *)
LEMMA FrontAndLast ==
    ASSUME NEW T, NEW S \in Seq(T), S # << >>
    PROVE  Front(S) \in Seq(T) /\ Last(S) \in T /\ S = Append(Front(S), Last(S))
<1>1. PICK W \in Seq(T), w \in T : S = Append(W, w)
  BY SequenceEmptyOrAppend
<1>2. PICK n : n = Len(W)
  OBVIOUS
<1>3. n \in Nat /\ Len(S) = n + 1 /\ S[n + 1] = w /\ \A i \in 1 .. n : S[i] = W[i]
  BY <1>1, <1>2, AppendProperties
<1>4. Last(S) = w
  BY <1>3 DEF Last
<1>5. Front(S) = SubSeq(S, 1, n)
  BY <1>3 DEF Front
<1>6. \A i \in 1 .. n : S[i] \in T
  BY <1>3
<1>7. PICK Y : Y = SubSeq(S, 1, n)
  OBVIOUS
<1>8. Y \in Seq(T) /\ Len(Y) = n /\ \A i \in 1 .. n : Y[i] = S[i]
  <2>1. /\ SubSeq(S, 1, n) \in Seq(T) /\ Len(SubSeq(S, 1, n)) = IF 1 <= n THEN n - 1 + 1 ELSE 0
        /\ \A i \in 1 .. n - 1 + 1 : SubSeq(S, 1, n)[i] = S[1 + i - 1]
    <3>1. n \in Int /\ 1 \in Int
      BY <1>3
    <3> QED
      BY <1>6, <3>1, SubSeqProperties
  <2>2. n - 1 + 1 = n /\ (~(1 <= n) => n = 0) /\ \A i \in 1 .. n : 1 + i - 1 = i
    BY <1>3
  <2> QED
    BY <1>7, <2>1, <2>2
<1>9. Y = W
  BY <1>2, <1>3, <1>8, SeqEqual
<1> QED
  BY <1>1, <1>4, <1>5, <1>7, <1>9

Keeps(T, folds, hold, lines, opens) ==
    /\ Closed(folds, hold, lines, opens) \in Seq(Seq(T))
    /\ HeldBack(folds, hold, lines, opens) \in Seq(T)
    /\ ~folds => HeldBack(folds, hold, lines, opens) = << >>
    /\ FlattenSeq(Closed(folds, hold, lines, opens)) \o HeldBack(folds, hold, lines, opens) = hold \o lines

LEMMA FolderKeeps ==
    ASSUME NEW T, NEW hold \in Seq(T), NEW lines \in Seq(T), lines # << >>, NEW opens,
           NEW folds \in BOOLEAN, ~folds => hold = << >>
    PROVE  Keeps(T, folds, hold, lines, opens)
<1> USE DEF Keeps
<1>1. CASE folds
  <2>1. PICK S : S = Fold(hold, lines, opens)
    OBVIOUS
  <2>2. S \in Seq(Seq(T)) /\ S # << >> /\ FlattenSeq(S) = hold \o lines
    BY <2>1, FoldKeeps
  <2>3. Front(S) \in Seq(Seq(T)) /\ Last(S) \in Seq(T) /\ S = Append(Front(S), Last(S))
    BY <2>2, FrontAndLast
  <2>4. FlattenSeq(S) = FlattenSeq(Front(S)) \o Last(S)
    BY <2>3, FlattenAppend
  <2> QED
    BY <1>1, <2>1, <2>2, <2>3, <2>4 DEF Closed, HeldBack
<1>2. CASE ~folds
  <2>1. Singletons(lines) \in Seq(Seq(T)) /\ FlattenSeq(Singletons(lines)) = lines
    BY FlattenSingletons
  <2>2. lines \o << >> = lines /\ << >> \o lines = lines
    BY ConcatEmptySeq
  <2> QED
    BY <1>2, <2>1, <2>2 DEF Closed, HeldBack
<1> QED
  BY <1>1, <1>2

-----------------------------------------------------------------------------
(* The recursive function of Split: what it is at n, and that it exists.   *)
SplitAt(buf, f, n) == IF n = 0 THEN [lines |-> << >>, rest |-> << >>] ELSE AddPiece(f[n - 1], buf[n])
Splits(buf, f, n) == f = [m \in 0 .. n |-> SplitAt(buf, f, m)]

LEMMA SplitExists ==
    ASSUME NEW buf
    PROVE  \A n \in Nat : \E f : Splits(buf, f, n)
<1> DEFINE A == {n \in Nat : \E f : Splits(buf, f, n)}
<1>1. 0 \in A
  <2> DEFINE f == [m \in 0 .. 0 |-> [lines |-> << >>, rest |-> << >>]]
  <2>1. Splits(buf, f, 0)
    BY DEF Splits, SplitAt
  <2> QED
    BY <2>1
<1>2. ASSUME NEW n \in A PROVE n + 1 \in A
  <2>1. PICK f : Splits(buf, f, n)
    OBVIOUS
  <2> DEFINE g == [m \in 0 .. n + 1 |-> IF m <= n THEN f[m] ELSE AddPiece(f[n], buf[n + 1])]
  <2>2. n \in Nat
    OBVIOUS
  <2>3. \A m \in 0 .. n : g[m] = f[m]
    BY <2>2
  <2>4. g[n + 1] = AddPiece(f[n], buf[n + 1])
    BY <2>2
  <2>5. \A m \in 0 .. n : f[m] = SplitAt(buf, f, m)
    BY <2>1 DEF Splits
  <2>6. DOMAIN g = 0 .. n + 1 /\ g = [m \in 0 .. n + 1 |-> g[m]]
    OBVIOUS
  <2> HIDE DEF g
  <2>7. ASSUME NEW m \in 0 .. n + 1 PROVE g[m] = SplitAt(buf, g, m)
    <3>1. CASE m = 0
      BY <2>2, <2>3, <2>5, <3>1 DEF SplitAt
    <3>2. CASE m \in 1 .. n
      <4>1. m - 1 \in 0 .. n /\ m \in 0 .. n /\ m # 0
        BY <2>2, <3>2
      <4>2. g[m] = f[m] /\ g[m - 1] = f[m - 1]
        BY <2>3, <4>1
      <4> QED
        BY <2>5, <4>1, <4>2 DEF SplitAt
    <3>3. CASE m = n + 1
      <4>1. m - 1 = n /\ m # 0 /\ g[n] = f[n]
        BY <2>2, <2>3, <3>3
      <4> QED
        BY <2>4, <3>3, <4>1 DEF SplitAt
    <3> QED
      BY <2>2, <3>1, <3>2, <3>3
  <2>8. Splits(buf, g, n + 1)
    BY <2>6, <2>7 DEF Splits
  <2> QED
    BY <2>2, <2>8
<1> HIDE DEF A
<1>3. A = Nat
  <2>1. A \subseteq Nat
    BY DEF A
  <2> QED
    BY <1>1, <1>2, <2>1, SetInduction
<1> QED
  BY <1>3 DEF A

LEMMA SplitUnfolds ==
    ASSUME NEW buf, Len(buf) \in Nat
    PROVE  \E f : Splits(buf, f, Len(buf)) /\ Split(buf) = f[Len(buf)]
<1> DEFINE P(g) == g = [n \in 0 .. Len(buf) |-> SplitAt(buf, g, n)]
           f == CHOOSE g : P(g)
<1>1. Split(buf) = f[Len(buf)]
  BY Zenon DEF Split, SplitAt
<1>2. \E g : P(g)
  <2>1. PICK g : Splits(buf, g, Len(buf))
    BY SplitExists
  <2>2. P(g)
    BY <2>1 DEF Splits
  <2> HIDE DEF P
  <2> QED
    BY <2>2
<1> HIDE DEF P
<1>3. P(f)
  BY <1>2
<1> QED
  BY <1>1, <1>3 DEF P, Splits

HalfLine(T) == Seq({p \in T : p.ends = FALSE})

OnePieceMore(T, ls, rs, p) ==
    \E ms \in Seq(Seq(T)), qs \in HalfLine(T) :
        /\ AddPiece([lines |-> ls, rest |-> rs], p) = [lines |-> ms, rest |-> qs]
        /\ FlattenSeq(ms) \o qs = (FlattenSeq(ls) \o rs) \o <<p>>

LEMMA AddPieceKeeps ==
    ASSUME NEW T, T \subseteq Piece, NEW ls \in Seq(Seq(T)), NEW rs \in HalfLine(T), NEW p \in T
    PROVE  OnePieceMore(T, ls, rs, p)
<1>1. rs \in Seq(T) /\ FlattenSeq(ls) \in Seq(T) /\ <<p>> \in Seq(T)
  <2>1. rs \in Seq({q \in T : q.ends = FALSE}) /\ {q \in T : q.ends = FALSE} \subseteq T
    BY DEF HalfLine
  <2> QED
    BY <2>1, SeqMonotonic, FlattenType
<1>2. Append(rs, p) \in Seq(T) /\ Append(rs, p) = rs \o <<p>>
  BY <1>1, AppendProperties, AppendIsConcat
<1>3. (FlattenSeq(ls) \o rs) \o <<p>> = FlattenSeq(ls) \o (rs \o <<p>>)
  <2>1. Associates(FlattenSeq(ls), rs, <<p>>)
    BY <1>1, Associate
  <2> QED
    BY <2>1 DEF Associates
<1>4. p.ends \in BOOLEAN
  BY DEF Piece
<1>5. CASE p.ends
  <2>1. AddPiece([lines |-> ls, rest |-> rs], p) = [lines |-> Append(ls, Append(rs, p)), rest |-> << >>]
    BY <1>5 DEF AddPiece
  <2>2. Append(ls, Append(rs, p)) \in Seq(Seq(T)) /\ << >> \in HalfLine(T)
    BY <1>2, AppendProperties DEF HalfLine
  <2>3. FlattenSeq(Append(ls, Append(rs, p))) = FlattenSeq(ls) \o (rs \o <<p>>)
    BY <1>2, FlattenAppend
  <2>4. FlattenSeq(ls) \o (rs \o <<p>>) \in Seq(T)
    BY <1>1, ConcatProperties
  <2>5. (FlattenSeq(ls) \o (rs \o <<p>>)) \o << >> = FlattenSeq(ls) \o (rs \o <<p>>)
    BY <2>4, ConcatEmptySeq
  <2>6. FlattenSeq(Append(ls, Append(rs, p))) \o << >> = (FlattenSeq(ls) \o rs) \o <<p>>
    BY <1>3, <2>3, <2>5
  <2> QED
    BY <2>1, <2>2, <2>6 DEF OnePieceMore
<1>6. CASE p.ends = FALSE
  <2>1. AddPiece([lines |-> ls, rest |-> rs], p) = [lines |-> ls, rest |-> Append(rs, p)]
    BY <1>6 DEF AddPiece
  <2>2. Append(rs, p) \in HalfLine(T)
    <3>1. rs \in Seq({q \in T : q.ends = FALSE}) /\ p \in {q \in T : q.ends = FALSE}
      BY <1>6 DEF HalfLine
    <3> QED
      BY <3>1, AppendProperties DEF HalfLine
  <2> QED
    BY <1>2, <1>3, <2>1, <2>2 DEF OnePieceMore
<1> QED
  BY <1>4, <1>5, <1>6

(* What is read is cut into the lines it completes and half a line.        *)
LEMMA SplitKeeps ==
    ASSUME NEW T, T \subseteq Piece, NEW buf \in Seq(T)
    PROVE  \E ms \in Seq(Seq(T)), qs \in HalfLine(T) :
              Split(buf) = [lines |-> ms, rest |-> qs] /\ FlattenSeq(ms) \o qs = buf
<1>1. PICK N : N = Len(buf)
  OBVIOUS
<1>2. N \in Nat
  BY <1>1
<1>3. PICK f : Splits(buf, f, N) /\ Split(buf) = f[N]
  BY <1>1, <1>2, SplitUnfolds
<1> DEFINE Good(n) == \E ms \in Seq(Seq(T)), qs \in HalfLine(T) :
                         f[n] = [lines |-> ms, rest |-> qs] /\ FlattenSeq(ms) \o qs = SubSeq(buf, 1, n)
           A == {n \in Nat : n <= N => Good(n)}
<1>4. 0 \in A
  <2>1. f[0] = [lines |-> << >>, rest |-> << >>]
    BY <1>2, <1>3 DEF Splits, SplitAt
  <2>2. SubSeq(buf, 1, 0) = << >> /\ << >> \in Seq(Seq(T)) /\ << >> \in HalfLine(T) /\ << >> \o << >> = << >>
    BY SubSeqEmpty, ConcatEmptySeq DEF HalfLine
  <2>3. FlattenSeq(<< >>) \o << >> = SubSeq(buf, 1, 0)
    BY <2>2, FlattenEmpty
  <2>4. Good(0)
    BY <2>1, <2>2, <2>3
  <2> HIDE DEF Good
  <2> QED
    BY <2>4
<1>5. ASSUME NEW n \in A PROVE n + 1 \in A
  <2> HIDE DEF Good
  <2> SUFFICES ASSUME n + 1 <= N PROVE Good(n + 1)
    OBVIOUS
  <2> USE DEF Good
  <2>1. n \in Nat /\ n <= N
    BY <1>2
  <2>2. PICK ls \in Seq(Seq(T)), rs \in HalfLine(T) :
           f[n] = [lines |-> ls, rest |-> rs] /\ FlattenSeq(ls) \o rs = SubSeq(buf, 1, n)
    BY <2>1
  <2> HIDE DEF A
  <2>3. f[n + 1] = AddPiece(f[n], buf[n + 1])
    <3>1. n + 1 \in 0 .. N /\ n + 1 # 0 /\ (n + 1) - 1 = n
      BY <2>1
    <3> QED
      BY <1>3, <3>1 DEF Splits, SplitAt
  <2>4. n + 1 \in 1 .. Len(buf)
    BY <1>1, <1>2, <2>1
  <2>5. buf[n + 1] \in T
    BY <2>4, ElementOfSeq
  <2>p. PICK p : p = buf[n + 1]
    OBVIOUS
  <2>6. PICK ms \in Seq(Seq(T)), qs \in HalfLine(T) :
           /\ AddPiece([lines |-> ls, rest |-> rs], buf[n + 1]) = [lines |-> ms, rest |-> qs]
           /\ FlattenSeq(ms) \o qs = (FlattenSeq(ls) \o rs) \o <<buf[n + 1]>>
    <3> HIDE DEF Good
    <3>1. p \in T
      BY <2>5, <2>p
    <3>a. T \subseteq Piece /\ ls \in Seq(Seq(T)) /\ rs \in HalfLine(T)
      BY <2>2
    <3>2. OnePieceMore(T, ls, rs, p)
      BY <3>1, <3>a, AddPieceKeeps
    <3> QED
      BY <2>p, <3>2 DEF OnePieceMore
  <2>7. SubSeq(buf, 1, n + 1) = SubSeq(buf, 1, n) \o <<buf[n + 1]>>
    BY <2>1, <2>4, OneMore
  <2>8. f[n + 1] = [lines |-> ms, rest |-> qs] /\ FlattenSeq(ms) \o qs = SubSeq(buf, 1, n + 1)
    BY <2>2, <2>3, <2>6, <2>7
  <2> QED
    BY <2>8
<1> HIDE DEF A
<1>6. A = Nat
  <2>1. A \subseteq Nat
    BY DEF A
  <2> QED
    BY <1>4, <1>5, <2>1, SetInduction
<1>7. Good(N)
  <2>1. N \in Nat /\ N <= N
    BY <1>2
  <2> HIDE DEF Good
  <2> QED
    BY <1>6, <2>1 DEF A
<1>8. SubSeq(buf, 1, N) = buf
  BY <1>1, SubSeqFull
<1> QED
  BY <1>3, <1>7, <1>8

-----------------------------------------------------------------------------
(* The inductive invariant.                                                *)

PlaceOf(p) == 2 * p.line + (IF p.ends THEN 1 ELSE 0)
Increasing(s) == \A i, j \in 1 .. Len(s) : i < j => PlaceOf(s[i]) < PlaceOf(s[j])
AtMost(s, m) == \A i \in 1 .. Len(s) : PlaceOf(s[i]) <= m
\* What s holds was written before what q holds from a on.
Precede(s, q, a) == \A i \in 1 .. Len(s) : \A j \in 1 .. Len(q) : a < j => PlaceOf(s[i]) < PlaceOf(q[j])

\* The pieces of the lines that were written to a file.
HomePiece(f) == {p \in Piece : p.line <= written /\ home[p.line] = f}

\* The place of the last piece written.
Top == IF inLine THEN 2 * written ELSE 2 * written + 1

ReadPieces == FlattenSeq(taken) \o pending

(* The path names the newest file or none, and half a line is of the open one.              *)
WriterInv ==
    /\ path \in {0, files} /\ out <= files
    /\ inLine => written > 0 /\ home[written] = out
    /\ kind = "stdin" => ~inLine /\ \A k \in Number : home[k] = 0

(* A file holds pieces that were written to it, in order, and an older one earlier ones.    *)
ContentInv ==
    \A f \in File :
        /\ content[f] \in Seq(HomePiece(f))
        /\ Increasing(content[f]) /\ AtMost(content[f], Top)
        /\ Len(content[f]) < Top
        /\ out < f => content[f] = << >>
        /\ \A g \in File : f < g => Precede(content[f], content[g], 0)

(* Which file is open and which one os.Stat named, at each place of the goroutine.          *)
FileInv ==
    /\ fd <= files /\ (kind = "stdin" => fd = 0)
    /\ pc = "opening" => fd = 0 /\ taken = << >>
    /\ fd = 0 => pending = << >> /\ (kind = "file" => pc \in {"opening", "finished"})
    /\ pc \in {"opening", "reading", "reopening"} => kind = "file"
    /\ pc \in {"opening", "reopening"} => held = << >>
    /\ pc = "draining" => kind = "stdin" /\ batch = << >>
    /\ kind = "file" => batch = << >> /\ offered = 0
    /\ ~overtaken /\ kind = "file" /\ pc \in {"selecting", "reading"} => fd = info
    /\ ~overtaken /\ pc = "reopening" => info = files

\* What was read precedes what is left to read, of this file and of later ones.
OrderInv ==
    ~overtaken =>
        /\ Increasing(ReadPieces) /\ AtMost(ReadPieces, Top)
        /\ kind = "file" =>
              \A g \in File :
                 /\ fd < g => Precede(ReadPieces, content[g], 0)
                 /\ fd = g => Precede(ReadPieces, content[g], offset)
                 /\ fd = g /\ Len(content[g]) < offset => Precede(ReadPieces, content[g], 0)
                 /\ pc = "reopening" /\ info = g => Precede(ReadPieces, content[g], 0)
        /\ kind = "stdin" =>
              /\ offered \in {0, scanned}
              /\ AtMost(ReadPieces, IF offered = 0 THEN 2 * scanned + 1 ELSE 2 * scanned - 1)

(* What is on its way is of the open file, and each record of a single one.                 *)
HomeInv ==
    /\ pending \in Seq(HomePiece(fd))
    /\ held \in Seq(Seq(HomePiece(fd))) /\ batch \in Seq(Seq(HomePiece(fd)))
    /\ \A k \in DOMAIN handed : \E f \in {0} \union File : handed[k] \in Seq(Seq(HomePiece(f)))

(* Every line taken is in a record, held back or in the batch, and which can be at the end. *)
EndInv ==
    /\ pc = "finished" <=> status # "running"
    /\ status = "stopped" => held = << >> /\ (batch = << >> \/ (kind = "stdin" /\ stopping))
    /\ ~folding => held = << >>
    /\ taken = FlattenSeq(handed) \o held \o batch
    /\ kind = "stdin" /\ status = "running" => refused = {}
    /\ kind = "stdin" /\ status = "stopped" => refused \subseteq {Len(handed)}

IInv == TypeOK /\ WriterInv /\ ContentInv /\ FileInv /\ OrderInv /\ HomeInv /\ EndInv
LEMMA PlaceIsNat == \A p \in Piece : PlaceOf(p) \in Nat
<1> SUFFICES ASSUME NEW p \in Piece PROVE PlaceOf(p) \in Nat
  OBVIOUS
<1>1. p.line \in Nat
  BY MaxLinesAssumption DEF Piece, Number
<1> QED
  BY <1>1 DEF PlaceOf

\* What precedes s, and is of places up to m, precedes c.
StillPrecede(s, c, m) ==
    \A q \in Seq(Piece) : \A a \in Nat : Precede(q, s, a) /\ AtMost(q, m) => Precede(q, c, a)

PieceMore(T, s, m, c) ==
    /\ c \in Seq(T) /\ Len(c) = Len(s) + 1 /\ Increasing(c) /\ AtMost(c, m + 1)
    /\ StillPrecede(s, c, m)

(* One piece more, of a later place.                                       *)
LEMMA AppendInOrder ==
    ASSUME NEW T, T \subseteq Piece, NEW s \in Seq(T), NEW p \in T, NEW m \in Nat, NEW c,
           Increasing(s), AtMost(s, m), PlaceOf(p) = m + 1, c = Append(s, p)
    PROVE  PieceMore(T, s, m, c)
<1>1. PICK n : n = Len(s)
  OBVIOUS
<1>2. /\ n \in Nat /\ Len(c) = n + 1 /\ c[n + 1] = p /\ c \in Seq(T)
      /\ \A i \in 1 .. n : c[i] = s[i] /\ s[i] \in T
  <2>1. /\ Append(s, p) \in Seq(T) /\ Len(Append(s, p)) = Len(s) + 1 /\ Append(s, p)[Len(s) + 1] = p
        /\ \A i \in 1 .. Len(s) : Append(s, p)[i] = s[i]
    BY AppendProperties
  <2>2. Len(s) \in Nat /\ \A i \in 1 .. Len(s) : s[i] \in T
    OBVIOUS
  <2> QED
    BY <1>1, <2>1, <2>2
<1>3. \A i \in 1 .. n + 1 : i \in 1 .. n \/ i = n + 1
  BY <1>2
<1>4. \A i \in 1 .. n : PlaceOf(c[i]) \in Nat /\ PlaceOf(c[i]) <= m /\ PlaceOf(c[i]) = PlaceOf(s[i])
  BY <1>1, <1>2, PlaceIsNat DEF AtMost
<1>5. AtMost(c, m + 1)
  <2> SUFFICES ASSUME NEW i \in 1 .. n + 1 PROVE PlaceOf(c[i]) <= m + 1
    BY <1>2 DEF AtMost
  <2>1. CASE i \in 1 .. n
    <3>1. PlaceOf(c[i]) \in Nat /\ PlaceOf(c[i]) <= m
      BY <1>4, <2>1
    <3>2. PICK x : x = PlaceOf(c[i])
      OBVIOUS
    <3>3. x \in Nat /\ x <= m
      BY <3>1, <3>2
    <3>4. x <= m + 1
      BY <3>3
    <3> QED
      BY <3>2, <3>4
  <2>2. CASE i = n + 1
    BY <1>2, <2>2
  <2> QED
    BY <1>3, <2>1, <2>2
<1>6. Increasing(c)
  <2> SUFFICES ASSUME NEW i \in 1 .. n + 1, NEW j \in 1 .. n + 1, i < j
               PROVE  PlaceOf(c[i]) < PlaceOf(c[j])
    BY <1>2 DEF Increasing
  <2>1. i \in 1 .. n
    BY <1>2, <1>3
  <2>2. CASE j \in 1 .. n
    <3>1. PlaceOf(s[i]) < PlaceOf(s[j])
      BY <1>1, <2>1, <2>2 DEF Increasing
    <3> QED
      BY <1>4, <2>1, <2>2, <3>1
  <2>3. CASE j = n + 1
    BY <1>2, <1>4, <2>1, <2>3
  <2> QED
    BY <1>3, <2>2, <2>3
<1>7. ASSUME NEW q \in Seq(Piece), NEW a \in Nat, Precede(q, s, a), AtMost(q, m)
      PROVE  Precede(q, c, a)
  <2> SUFFICES ASSUME NEW i \in 1 .. Len(q), NEW j \in 1 .. n + 1, a < j
               PROVE  PlaceOf(q[i]) < PlaceOf(c[j])
    BY <1>2 DEF Precede
  <2>1. CASE j \in 1 .. n
    <3>1. PlaceOf(q[i]) < PlaceOf(s[j])
      BY <1>1, <1>7, <2>1 DEF Precede
    <3> QED
      BY <1>4, <2>1, <3>1
  <2>2. CASE j = n + 1
    <3>1. PlaceOf(q[i]) <= m
      BY <1>7 DEF AtMost
    <3>2. PlaceOf(q[i]) \in Nat
      BY PlaceIsNat
    <3> QED
      BY <1>2, <2>2, <3>1, <3>2
  <2> QED
    BY <1>3, <2>1, <2>2
<1> QED
  BY <1>1, <1>2, <1>5, <1>6, <1>7 DEF PieceMore, StillPrecede

LEMMA NothingInOrder ==
    /\ Increasing(<< >>) /\ (\A m : AtMost(<< >>, m))
    /\ \A q, a : Precede(q, << >>, a) /\ Precede(<< >>, q, a)
BY DEF Increasing, AtMost, Precede

(* What one sequence holds, and then what another does.                    *)
JoinOrder(s, q, c) ==
    /\ c \in Seq(Piece)
    /\ Increasing(s) /\ Increasing(q) /\ Precede(s, q, 0) => Increasing(c)
    /\ \A m : AtMost(s, m) /\ AtMost(q, m) => AtMost(c, m)
    /\ \A d, a : Precede(s, d, a) /\ Precede(q, d, a) => Precede(c, d, a)
    /\ Increasing(c) => Increasing(s)
    /\ \A m : AtMost(c, m) => AtMost(s, m)
    /\ \A d, a : Precede(c, d, a) => Precede(s, d, a)

LEMMA JoinInOrder ==
    ASSUME NEW s \in Seq(Piece), NEW q \in Seq(Piece), NEW c, c = s \o q
    PROVE  JoinOrder(s, q, c)
<1>1. PICK n : n = Len(s)
  OBVIOUS
<1>2. PICK k : k = Len(q)
  OBVIOUS
<1>3. /\ n \in Nat /\ k \in Nat /\ c \in Seq(Piece) /\ Len(c) = n + k
      /\ \A i \in 1 .. n + k : c[i] = IF i <= n THEN s[i] ELSE q[i - n]
  <2>1. /\ s \o q \in Seq(Piece) /\ Len(s \o q) = Len(s) + Len(q)
        /\ \A i \in 1 .. Len(s) + Len(q) : (s \o q)[i] = IF i <= Len(s) THEN s[i] ELSE q[i - Len(s)]
    BY ConcatProperties
  <2>2. Len(s) \in Nat /\ Len(q) \in Nat
    OBVIOUS
  <2> QED
    BY <1>1, <1>2, <2>1, <2>2
<1>4. \A i \in 1 .. n + k : \/ i \in 1 .. n /\ c[i] = s[i]
                            \/ i - n \in 1 .. k /\ c[i] = q[i - n] /\ i > n
  BY <1>3
<1>5. \A i \in 1 .. n : i \in 1 .. n + k /\ c[i] = s[i]
  BY <1>3
<1>6. ASSUME NEW m, AtMost(s, m), AtMost(q, m) PROVE AtMost(c, m)
  <2> SUFFICES ASSUME NEW i \in 1 .. n + k PROVE PlaceOf(c[i]) <= m
    BY <1>3 DEF AtMost
  <2>1. CASE i \in 1 .. n /\ c[i] = s[i]
    BY <1>1, <1>6, <2>1 DEF AtMost
  <2>2. CASE i - n \in 1 .. k /\ c[i] = q[i - n]
    BY <1>2, <1>6, <2>2 DEF AtMost
  <2> QED
    BY <1>4, <2>1, <2>2
<1>7. ASSUME NEW d, NEW a, Precede(s, d, a), Precede(q, d, a) PROVE Precede(c, d, a)
  <2> SUFFICES ASSUME NEW i \in 1 .. n + k, NEW j \in 1 .. Len(d), a < j
               PROVE  PlaceOf(c[i]) < PlaceOf(d[j])
    BY <1>3 DEF Precede
  <2>1. CASE i \in 1 .. n /\ c[i] = s[i]
    BY <1>1, <1>7, <2>1 DEF Precede
  <2>2. CASE i - n \in 1 .. k /\ c[i] = q[i - n]
    BY <1>2, <1>7, <2>2 DEF Precede
  <2> QED
    BY <1>4, <2>1, <2>2
<1>8. ASSUME Increasing(s), Increasing(q), Precede(s, q, 0) PROVE Increasing(c)
  <2> SUFFICES ASSUME NEW i \in 1 .. n + k, NEW j \in 1 .. n + k, i < j
               PROVE  PlaceOf(c[i]) < PlaceOf(c[j])
    BY <1>3 DEF Increasing
  <2>1. CASE j \in 1 .. n /\ c[j] = s[j]
    <3>1. i \in 1 .. n /\ c[i] = s[i]
      BY <1>3, <1>5, <2>1
    <3> QED
      BY <1>1, <1>8, <2>1, <3>1 DEF Increasing
  <2>2. CASE j - n \in 1 .. k /\ c[j] = q[j - n] /\ j > n
    <3>1. CASE i \in 1 .. n /\ c[i] = s[i]
      <4>1. 0 < j - n
        BY <1>3, <2>2
      <4> QED
        BY <1>1, <1>2, <1>8, <2>2, <3>1, <4>1 DEF Precede
    <3>2. CASE i - n \in 1 .. k /\ c[i] = q[i - n]
      <4>1. i - n < j - n
        BY <1>3
      <4> QED
        BY <1>2, <1>8, <2>2, <3>2, <4>1 DEF Increasing
    <3> QED
      BY <1>4, <3>1, <3>2
  <2> QED
    BY <1>4, <2>1, <2>2
<1>9. Increasing(c) => Increasing(s)
  BY <1>1, <1>3, <1>5 DEF Increasing
<1>10. \A m : AtMost(c, m) => AtMost(s, m)
  BY <1>1, <1>3, <1>5 DEF AtMost
<1>11. \A d, a : Precede(c, d, a) => Precede(s, d, a)
  BY <1>1, <1>3, <1>5 DEF Precede
<1> QED
  BY <1>3, <1>6, <1>7, <1>8, <1>9, <1>10, <1>11 DEF JoinOrder

(* What is read of a file, at an offset.                                   *)
ReadOrder(T, c, o, n, q) ==
    /\ q \in Seq(T) /\ Increasing(q) /\ Precede(q, c, o + n)
    /\ \A m : AtMost(c, m) => AtMost(q, m)
    /\ \A s : Precede(s, c, o) => Precede(s, q, 0) /\ Precede(s, c, o + n)
    /\ \A d, a : Precede(c, d, a) => Precede(q, d, a)

PartIs(T, c, a, b, s) ==
    /\ s \in Seq(T)
    /\ Len(s) = IF a <= b THEN b - a + 1 ELSE 0
    /\ \A i \in 1 .. b - a + 1 : s[i] = c[a + i - 1]

LEMMA PartOf ==
    ASSUME NEW T, NEW c, NEW a \in Int, NEW b \in Int, \A i \in a .. b : c[i] \in T
    PROVE  PartIs(T, c, a, b, SubSeq(c, a, b))
BY SubSeqProperties DEF PartIs

LEMMA ReadInPlace ==
    ASSUME NEW T, T \subseteq Piece, NEW c \in Seq(T), NEW o \in Nat, NEW n \in Nat, o + n <= Len(c),
           Increasing(c), NEW q, q = SubSeq(c, o + 1, o + n)
    PROVE  ReadOrder(T, c, o, n, q)
<1>1. PICK L : L = Len(c)
  OBVIOUS
<1>2. L \in Nat /\ o + n <= L /\ \A i \in 1 .. L : c[i] \in T
  BY <1>1
<1>3. /\ q \in Seq(T) /\ Len(q) = n
      /\ \A i \in 1 .. n : q[i] = c[o + i] /\ o + i \in 1 .. L /\ o < o + i
  <2>1. PICK a : a = o + 1
    OBVIOUS
  <2>2. PICK b : b = o + n
    OBVIOUS
  <2>3. a \in Int /\ b \in Int /\ \A i \in a .. b : c[i] \in T
    BY <1>2, <2>1, <2>2
  <2>4. /\ SubSeq(c, a, b) \in Seq(T) /\ Len(SubSeq(c, a, b)) = (IF a <= b THEN b - a + 1 ELSE 0)
        /\ \A i \in 1 .. b - a + 1 : SubSeq(c, a, b)[i] = c[a + i - 1]
    <3>1. PartIs(T, c, a, b, SubSeq(c, a, b))
      BY <2>3, PartOf
    <3> QED
      BY <3>1 DEF PartIs
  <2>5. b - a + 1 = n /\ (~(a <= b) => n = 0)
    BY <2>1, <2>2
  <2>6. \A i \in 1 .. n : a + i - 1 = o + i /\ o + i \in 1 .. L /\ o < o + i
    BY <1>2, <2>1
  <2>7. q = SubSeq(c, a, b)
    BY <2>1, <2>2
  <2> QED
    BY <2>4, <2>5, <2>6, <2>7
<1>4. Increasing(q)
  <2> SUFFICES ASSUME NEW i \in 1 .. n, NEW j \in 1 .. n, i < j
               PROVE  PlaceOf(q[i]) < PlaceOf(q[j])
    BY <1>3 DEF Increasing
  <2>1. o + i < o + j
    OBVIOUS
  <2> QED
    BY <1>1, <1>3, <2>1 DEF Increasing
<1>5. Precede(q, c, o + n)
  <2> SUFFICES ASSUME NEW i \in 1 .. n, NEW j \in 1 .. L, o + n < j
               PROVE  PlaceOf(q[i]) < PlaceOf(c[j])
    BY <1>1, <1>3 DEF Precede
  <2>1. o + i < j
    BY <1>2
  <2> QED
    BY <1>1, <1>3, <2>1 DEF Increasing
<1>6. \A m : AtMost(c, m) => AtMost(q, m)
  BY <1>1, <1>3 DEF AtMost
<1>7. ASSUME NEW s, Precede(s, c, o) PROVE Precede(s, q, 0) /\ Precede(s, c, o + n)
  <2>1. Precede(s, q, 0)
    BY <1>1, <1>3, <1>7 DEF Precede
  <2>2. \A j \in 1 .. L : o + n < j => o < j
    BY <1>2
  <2>3. Precede(s, c, o + n)
    BY <1>1, <1>7, <2>2 DEF Precede
  <2> QED
    BY <2>1, <2>3
<1>8. \A d, a : Precede(c, d, a) => Precede(q, d, a)
  BY <1>1, <1>3 DEF Precede
<1> QED
  BY <1>3, <1>4, <1>5, <1>6, <1>7, <1>8 DEF ReadOrder

LEMMA AtMostMore ==
    ASSUME NEW s \in Seq(Piece), NEW m \in Int, NEW n \in Int, m <= n, AtMost(s, m)
    PROVE  AtMost(s, n)
<1> SUFFICES ASSUME NEW i \in 1 .. Len(s) PROVE PlaceOf(s[i]) <= n
  BY DEF AtMost
<1>1. PlaceOf(s[i]) \in Nat /\ PlaceOf(s[i]) <= m
  BY PlaceIsNat DEF AtMost
<1> QED
  BY <1>1

-----------------------------------------------------------------------------
(* The program that writes, and the log rotation.                          *)

LEMMA HomeIsPiece == ASSUME NEW f PROVE HomePiece(f) \subseteq Piece
BY DEF HomePiece

LEMMA TopIsNat == TypeOK => Top \in Nat /\ Top \in Int /\ written \in Nat
BY MaxLinesAssumption DEF TypeOK, Top

(* A piece that is written has its place after every other one; what was   *)
(* written to a file is still of that file.                                *)
WrittenPiece == [line |-> written', ends |-> inLine]

LEMMA WriteAddsPiece ==
    ASSUME TypeOK, WriterInv, Write
    PROVE  /\ PlaceOf(WrittenPiece) = Top + 1 /\ Top' = Top + 1
           /\ content' = [content EXCEPT ![out] = Append(@, WrittenPiece)]
           /\ \A f : HomePiece(f) \subseteq HomePiece(f)' /\ (f = out => WrittenPiece \in HomePiece(f)')
           /\ written' \in Number /\ written <= written' /\ home' \in [Number -> {0} \union File]
           /\ inLine' = ~inLine /\ home'[written'] = out
<1>1. /\ inLine \/ written < MaxLines
      /\ written' = IF inLine THEN written ELSE written + 1
      /\ home' = [home EXCEPT ![written'] = out]
      /\ inLine' = ~inLine
      /\ content' = [content EXCEPT ![out] = Append(@, WrittenPiece)]
  BY DEF Write, WrittenPiece
<1>2. /\ written \in 0 .. MaxLines /\ inLine \in BOOLEAN /\ home \in [Number -> {0} \union File] /\ out \in File
      /\ inLine => written > 0 /\ home[written] = out
  BY DEF TypeOK, WriterInv
<1>3. written' \in Number /\ written <= written' /\ written \in Nat /\ written' \in Nat
  BY <1>1, <1>2, MaxLinesAssumption DEF Number
<1>4. home' \in [Number -> {0} \union File] /\ home'[written'] = out
  BY <1>1, <1>2, <1>3
<1>5. WrittenPiece \in Piece
  BY <1>2, <1>3 DEF WrittenPiece, Piece
<1>6. ASSUME NEW f, f = out PROVE WrittenPiece \in HomePiece(f)'
  <2>1. WrittenPiece.line = written'
    BY DEF WrittenPiece
  <2> QED
    BY <1>3, <1>4, <1>5, <1>6, <2>1 DEF HomePiece
<1>7. PlaceOf(WrittenPiece) = Top + 1 /\ Top' = Top + 1
  <2>1. WrittenPiece.line = written' /\ WrittenPiece.ends = inLine
    BY DEF WrittenPiece
  <2>2. PlaceOf(WrittenPiece) = 2 * written' + (IF inLine THEN 1 ELSE 0)
    BY <2>1 DEF PlaceOf
  <2>3. Top = (IF inLine THEN 2 * written ELSE 2 * written + 1)
    BY DEF Top
  <2>4. Top' = (IF inLine' THEN 2 * written' ELSE 2 * written' + 1)
    BY DEF Top
  <2> HIDE DEF WrittenPiece, Top
  <2>5. CASE inLine
    BY <1>1, <1>3, <2>2, <2>3, <2>4, <2>5
  <2>6. CASE ~inLine
    <3>1. PlaceOf(WrittenPiece) = 2 * written' /\ Top = 2 * written + 1 /\ Top' = 2 * written' /\ written' = written + 1
      <4>1. inLine'
        BY <1>1, <2>6
      <4>2. Top' = 2 * written'
        BY <2>4, <4>1
      <4>3. Top = 2 * written + 1
        BY <2>3, <2>6
      <4>4. PlaceOf(WrittenPiece) = 2 * written' + 0
        BY <2>2, <2>6
      <4>5. 2 * written' + 0 = 2 * written'
        BY <1>3
      <4>6. written' = written + 1
        BY <1>1, <2>6
      <4> QED
        BY <4>2, <4>3, <4>4, <4>5, <4>6
    <3> QED
      BY <1>3, <3>1
  <2> QED
    BY <2>5, <2>6
<1>8. ASSUME NEW f PROVE HomePiece(f) \subseteq HomePiece(f)'
  <2> SUFFICES ASSUME NEW p \in HomePiece(f) PROVE p \in HomePiece(f)'
    OBVIOUS
  <2>1. p \in Piece /\ p.line <= written /\ home[p.line] = f /\ p.line \in Number
    BY DEF HomePiece, Piece
  <2>2. p.line <= written'
    BY <1>3, <2>1 DEF Number
  <2>3. home'[p.line] = f
    <3>1. CASE inLine
      <4>1. home' = home
        BY <1>1, <1>2, <1>3, <3>1
      <4> QED
        BY <2>1, <4>1
    <3>2. CASE ~inLine
      <4>1. p.line # written'
        BY <1>1, <1>3, <2>1, <3>2 DEF Number
      <4> QED
        BY <1>1, <1>2, <2>1, <4>1
    <3> QED
      BY <3>1, <3>2
  <2> QED
    BY <2>1, <2>2, <2>3 DEF HomePiece
<1> QED
  BY <1>1, <1>3, <1>4, <1>6, <1>7, <1>8

LEMMA WriteWrites ==
    ASSUME TypeOK, WriterInv, ContentInv, Write
    PROVE  \A f \in File :
              /\ f # out => content'[f] = content[f]
              /\ f = out =>
                    /\ Len(content'[f]) = Len(content[f]) + 1 /\ content'[f] \in Seq(HomePiece(f)')
                    /\ Increasing(content'[f]) /\ AtMost(content'[f], Top')
                    /\ StillPrecede(content[f], content'[f], Top)
<1>1. PICK p : p = WrittenPiece
  OBVIOUS
<1>2. PICK m : m = Top
  OBVIOUS
<1>3. out \in File /\ content \in [File -> Seq(Piece)]
  BY DEF TypeOK
<1>4. content' = [content EXCEPT ![out] = Append(@, p)] /\ PlaceOf(p) = m + 1 /\ Top' = m + 1
  BY <1>1, <1>2, WriteAddsPiece
<1>5. m \in Nat
  BY <1>2, TopIsNat
<1>6. ASSUME NEW f \in File, f # out PROVE content'[f] = content[f]
  BY <1>3, <1>4, <1>6
<1>7. ASSUME NEW f \in File, f = out
      PROVE  /\ Len(content'[f]) = Len(content[f]) + 1 /\ content'[f] \in Seq(HomePiece(f)')
             /\ Increasing(content'[f]) /\ AtMost(content'[f], Top')
             /\ StillPrecede(content[f], content'[f], Top)
  <2>1. PICK T : T = HomePiece(f)'
    OBVIOUS
  <2>2. PICK s : s = content[f]
    OBVIOUS
  <2>3. PICK c : c = content'[f]
    OBVIOUS
  <2>4. c = Append(s, p)
    BY <1>3, <1>4, <1>7, <2>2, <2>3
  <2>5. T \subseteq Piece
    BY <2>1 DEF HomePiece
  <2>6. Increasing(s) /\ AtMost(s, m) /\ s \in Seq(HomePiece(f))
    BY <1>2, <2>2 DEF ContentInv
  <2>7. HomePiece(f) \subseteq T /\ p \in T
    BY <1>1, <1>7, <2>1, WriteAddsPiece
  <2>8. s \in Seq(T)
    BY <2>6, <2>7, SeqMonotonic
  <2>9. /\ c \in Seq(T) /\ Len(c) = Len(s) + 1 /\ Increasing(c) /\ AtMost(c, m + 1)
        /\ StillPrecede(s, c, m)
    <3>1. /\ T \subseteq Piece /\ s \in Seq(T) /\ p \in T /\ m \in Nat /\ Increasing(s) /\ AtMost(s, m)
          /\ PlaceOf(p) = m + 1 /\ c = Append(s, p)
      BY <1>4, <1>5, <2>4, <2>5, <2>6, <2>7, <2>8
    <3>2. PieceMore(T, s, m, c)
      BY <3>1, AppendInOrder
    <3> QED
      BY <3>2 DEF PieceMore
  <2> QED
    BY <1>2, <1>4, <2>1, <2>2, <2>3, <2>9
<1> QED
  BY <1>6, <1>7

LEMMA WriteContent ==
    ASSUME TypeOK, WriterInv, ContentInv, Write
    PROVE  ContentInv'
<1>1. out \in File /\ out \in Nat /\ out' = out /\ Top \in Nat /\ Top' = Top + 1 /\ File \subseteq Nat
  <2>1. Top' = Top + 1
    BY WriteAddsPiece
  <2>2. out \in File /\ out' = out
    BY DEF TypeOK, Write
  <2>3. File \subseteq Nat
    BY MaxFilesAssumption DEF File
  <2> QED
    BY <2>1, <2>2, <2>3, TopIsNat
<1>2. ASSUME NEW f \in File
      PROVE  /\ content'[f] \in Seq(Piece)
             /\ content'[f] \in Seq(HomePiece(f)')
             /\ Increasing(content'[f]) /\ AtMost(content'[f], Top')
             /\ Len(content'[f]) < Top'
             /\ out' < f => content'[f] = << >>
  <2>1. /\ content[f] \in Seq(HomePiece(f)) /\ Increasing(content[f]) /\ AtMost(content[f], Top)
        /\ Len(content[f]) < Top /\ (out < f => content[f] = << >>) /\ Len(content[f]) \in Nat
        /\ content[f] \in Seq(Piece)
    BY DEF ContentInv, TypeOK
  <2>2. HomePiece(f)' \subseteq Piece
    BY DEF HomePiece
  <2>3. CASE f = out
    <3>1. content'[f] \in Seq(HomePiece(f)') /\ Len(content'[f]) = Len(content[f]) + 1
      BY <2>3, WriteWrites
    <3>2. content'[f] \in Seq(Piece)
      BY <2>2, <3>1, SeqMonotonic
    <3>3. Increasing(content'[f]) /\ AtMost(content'[f], Top')
      BY <2>3, WriteWrites
    <3>4. Len(content'[f]) < Top' /\ ~(out' < f)
      BY <1>1, <2>1, <2>3, <3>1
    <3> QED
      BY <3>1, <3>2, <3>3, <3>4
  <2>4. CASE f # out
    <3>1. content'[f] = content[f]
      BY <2>4, WriteWrites
    <3>2. HomePiece(f) \subseteq HomePiece(f)'
      BY WriteAddsPiece
    <3>3. content'[f] \in Seq(HomePiece(f)')
      BY <2>1, <3>1, <3>2, SeqMonotonic
    <3>4. PICK m : m = Top
      OBVIOUS
    <3>5. PICK s : s = content[f]
      OBVIOUS
    <3>6. m \in Int /\ m + 1 \in Int /\ m <= m + 1 /\ AtMost(s, m) /\ s \in Seq(Piece)
      BY <1>1, <2>1, <3>4, <3>5
    <3>7. AtMost(s, m + 1)
      BY <3>6, AtMostMore
    <3>8. AtMost(content'[f], Top')
      BY <1>1, <3>1, <3>4, <3>5, <3>7
    <3>9. Len(content'[f]) < Top'
      BY <1>1, <2>1, <3>1
    <3> QED
      BY <1>1, <2>1, <3>1, <3>3, <3>8, <3>9
  <2> QED
    BY <2>3, <2>4
<1>3. ASSUME NEW f \in File, NEW g \in File, f < g PROVE Precede(content'[f], content'[g], 0)
  <2>1. Precede(content[f], content[g], 0) /\ AtMost(content[f], Top) /\ content[f] \in Seq(Piece)
    BY <1>3 DEF ContentInv, TypeOK
  <2>2. CASE f = out
    <3>1. out < g /\ g # out
      BY <1>1, <1>3, <2>2
    <3>2. content'[g] = << >>
      BY <3>1, WriteWrites DEF ContentInv
    <3> QED
      BY <3>2, NothingInOrder
  <2>3. CASE f # out /\ g = out
    <3>1. content'[f] = content[f]
      BY <2>3, WriteWrites
    <3>2. PICK s : s = content[f]
      OBVIOUS
    <3>3. s \in Seq(Piece) /\ Precede(s, content[g], 0) /\ AtMost(s, Top) /\ 0 \in Nat
      BY <2>1, <3>2
    <3>4. StillPrecede(content[g], content'[g], Top)
      BY <2>3, WriteWrites
    <3>5. Precede(s, content'[g], 0)
      BY <3>3, <3>4 DEF StillPrecede
    <3> QED
      BY <3>1, <3>2, <3>5
  <2>4. CASE f # out /\ g # out
    BY <2>1, <2>4, WriteWrites
  <2> QED
    BY <2>2, <2>3, <2>4
<1> QED
  BY <1>2, <1>3 DEF ContentInv

LEMMA TruncateContent ==
    ASSUME TypeOK, ContentInv, Truncate
    PROVE  ContentInv'
<1>1. /\ path \in File /\ content' = [content EXCEPT ![path] = << >>]
      /\ out' = out /\ written' = written /\ home' = home /\ inLine' = inLine
  BY DEF TypeOK, Truncate
<1>2. Top' = Top /\ \A f : HomePiece(f)' = HomePiece(f)
  BY <1>1 DEF Top, HomePiece
<1>3. /\ content'[path] = << >> /\ \A f \in File : f # path => content'[f] = content[f]
  BY <1>1 DEF TypeOK
<1>4. ASSUME NEW f \in File
      PROVE  /\ content'[f] \in Seq(HomePiece(f)')
             /\ Increasing(content'[f]) /\ AtMost(content'[f], Top')
             /\ Len(content'[f]) < Top'
             /\ out' < f => content'[f] = << >>
  <2>1. /\ content[f] \in Seq(HomePiece(f)) /\ Increasing(content[f]) /\ AtMost(content[f], Top)
        /\ Len(content[f]) < Top /\ (out < f => content[f] = << >>) /\ Len(content[f]) \in Nat
    BY DEF ContentInv, TypeOK
  <2>2. CASE f = path
    <3>1. content'[f] = << >>
      BY <1>3, <2>2
    <3>2. << >> \in Seq(HomePiece(f)') /\ Len(<< >>) = 0
      BY EmptySeq
    <3>3. 0 < Top
      BY <2>1, TopIsNat
    <3> QED
      BY <1>2, <3>1, <3>2, <3>3, NothingInOrder
  <2>3. CASE f # path
    BY <1>1, <1>2, <1>3, <2>1, <2>3
  <2> QED
    BY <2>2, <2>3
<1>5. ASSUME NEW f \in File, NEW g \in File, f < g PROVE Precede(content'[f], content'[g], 0)
  <2>1. Precede(content[f], content[g], 0)
    BY <1>5 DEF ContentInv
  <2>2. CASE f = path \/ g = path
    BY <1>3, <2>2, NothingInOrder
  <2>3. CASE f # path /\ g # path
    BY <1>3, <2>1, <2>3
  <2> QED
    BY <2>2, <2>3
<1> QED
  BY <1>4, <1>5 DEF ContentInv

\* What ContentInv is about stays as it is.
LEMMA SameContent ==
    ASSUME TypeOK, ContentInv, content' = content, home' = home, inLine' = inLine,
           written' = written, out' \in File, out <= out'
    PROVE  ContentInv'
<1>1. Top' = Top /\ \A f : HomePiece(f)' = HomePiece(f)
  BY DEF Top, HomePiece
<1>2. ASSUME NEW f \in File, out' < f PROVE content[f] = << >>
  <2>1. out < f
    BY <1>2, MaxFilesAssumption DEF TypeOK, File
  <2> QED
    BY <2>1 DEF ContentInv
<1> QED
  BY <1>1, <1>2 DEF ContentInv

LEMMA SendLineContent ==
    ASSUME TypeOK, WriterInv, ContentInv, SendLine
    PROVE  ContentInv'
<1>1. /\ written' = written + 1 /\ content' = content /\ home' = home /\ inLine' = inLine /\ out' = out
      /\ written \in Nat /\ ~inLine
  BY MaxLinesAssumption DEF SendLine, TypeOK, WriterInv
<1>2. \A f : HomePiece(f) \subseteq HomePiece(f)'
  <2> SUFFICES ASSUME NEW f, NEW p \in HomePiece(f) PROVE p \in HomePiece(f)'
    OBVIOUS
  <2>1. p \in Piece /\ p.line <= written /\ home[p.line] = f /\ p.line \in Nat
    BY MaxLinesAssumption DEF HomePiece, Piece, Number
  <2>2. p.line <= written'
    BY <1>1, <2>1
  <2> QED
    BY <1>1, <2>1, <2>2 DEF HomePiece
<1>3. Top \in Nat /\ Top' = Top + 2
  BY <1>1 DEF Top
<1>4. ASSUME NEW f \in File
      PROVE  /\ content'[f] \in Seq(HomePiece(f)')
             /\ AtMost(content'[f], Top')
             /\ Len(content'[f]) < Top'
  <2>1. /\ content[f] \in Seq(HomePiece(f)) /\ AtMost(content[f], Top)
        /\ Len(content[f]) < Top /\ Len(content[f]) \in Nat /\ content[f] \in Seq(Piece)
    BY DEF ContentInv, TypeOK
  <2>2. content[f] \in Seq(HomePiece(f)')
    BY <1>2, <2>1, SeqMonotonic
  <2>3. PICK s : s = content[f]
    OBVIOUS
  <2>4. PICK m : m = Top
    OBVIOUS
  <2>5. s \in Seq(Piece) /\ m \in Int /\ m + 2 \in Int /\ m <= m + 2 /\ AtMost(s, m)
    BY <1>3, <2>1, <2>3, <2>4
  <2>6. AtMost(s, m + 2)
    BY <2>5, AtMostMore
  <2>7. AtMost(content'[f], Top')
    BY <1>1, <1>3, <2>3, <2>4, <2>6
  <2>8. Len(content'[f]) < Top'
    BY <1>1, <1>3, <2>1
  <2> QED
    BY <1>1, <2>2, <2>7, <2>8
<1> QED
  BY <1>1, <1>4 DEF ContentInv

-----------------------------------------------------------------------------
(* Lines are folded and stored.                                            *)

\* What processing lines of T, or flushing the folder, does.
Stores(T, lines, accepted) ==
    \E records \in Seq(Seq(T)) :
        /\ handed' = handed \o records
        /\ held' \in Seq(T) /\ (~folding => held' = << >>)
        /\ FlattenSeq(handed') \o held' = (FlattenSeq(handed) \o held) \o lines
        /\ accepted => refused' = refused
        /\ refused' \subseteq refused \union DOMAIN handed'

\* What it works on.
Storable(T) ==
    /\ T \subseteq Line /\ held \in Seq(T) /\ handed \in Seq(Seq(Line))
    /\ folding \in BOOLEAN /\ (~folding => held = << >>)

Join(T, U, S, R) ==
    /\ R \in Seq(Seq(U)) /\ S \o R \in Seq(Seq(U)) /\ Len(S \o R) = Len(S) + Len(R)
    /\ FlattenSeq(S \o R) = FlattenSeq(S) \o FlattenSeq(R)
    /\ FlattenSeq(S) \in Seq(U) /\ FlattenSeq(R) \in Seq(U) /\ FlattenSeq(R) \in Seq(T)
    /\ DOMAIN (S \o R) = 1 .. Len(S) + Len(R)

LEMMA RecordsJoin ==
    ASSUME NEW T, NEW U, T \subseteq U, NEW S \in Seq(Seq(U)), NEW R \in Seq(Seq(T))
    PROVE  Join(T, U, S, R)
<1>1. Seq(T) \subseteq Seq(U)
  <2> SUFFICES ASSUME NEW x \in Seq(T) PROVE x \in Seq(U)
    OBVIOUS
  <2> QED
    BY SeqMonotonic
<1>2. R \in Seq(Seq(U))
  BY <1>1, SeqMonotonic
<1>3. S \o R \in Seq(Seq(U)) /\ Len(S \o R) = Len(S) + Len(R)
  BY <1>2, ConcatProperties
<1>4. FlattenSeq(S \o R) = FlattenSeq(S) \o FlattenSeq(R)
  BY <1>2, FlattenConcat
<1>5. FlattenSeq(S) \in Seq(U) /\ FlattenSeq(R) \in Seq(U)
  BY <1>2, FlattenType
<1>6. FlattenSeq(R) \in Seq(T)
  BY FlattenType
<1>7. DOMAIN (S \o R) = 1 .. Len(S \o R)
  BY <1>3, LenProperties
<1> QED
  BY <1>2, <1>3, <1>4, <1>5, <1>6, <1>7 DEF Join

LEMMA ProcessLinesStores ==
    ASSUME NEW T, Storable(T), NEW lines \in Seq(T), NEW accepted \in BOOLEAN,
           ProcessLines(lines, accepted)
    PROVE  Stores(T, lines, accepted)
<1>1. /\ T \subseteq Line /\ held \in Seq(T) /\ handed \in Seq(Seq(Line))
      /\ folding \in BOOLEAN /\ (~folding => held = << >>)
  BY DEF Storable
<1>2. PICK opens : opens = Opens(lines)
  OBVIOUS
<1>3. PICK records : records = IF lines = << >> THEN << >> ELSE Closed(folding, held, lines, opens)
  OBVIOUS
<1>4. /\ held' = IF lines = << >> THEN held ELSE HeldBack(folding, held, lines, opens)
      /\ handed' = handed \o records
      /\ refused' = IF accepted THEN refused ELSE refused \union Len(handed) + 1 .. Len(handed')
  BY <1>2, <1>3 DEF ProcessLines
<1>5. /\ records \in Seq(Seq(T)) /\ held' \in Seq(T) /\ (~folding => held' = << >>)
      /\ FlattenSeq(records) \o held' = held \o lines
  <2>1. CASE lines = << >>
    <3>1. records = << >> /\ held' = held /\ << >> \in Seq(Seq(T))
      BY <1>3, <1>4, <2>1
    <3>2. << >> \o held = held /\ held \o << >> = held
      BY <1>1, ConcatEmptySeq
    <3> QED
      BY <1>1, <2>1, <3>1, <3>2, FlattenEmpty
  <2>2. CASE lines # << >>
    <3>1. PICK h : h = held
      OBVIOUS
    <3>2. PICK fo : fo = folding
      OBVIOUS
    <3>3. records = Closed(fo, h, lines, opens) /\ held' = HeldBack(fo, h, lines, opens)
      BY <1>3, <1>4, <2>2, <3>1, <3>2
    <3>4. h \in Seq(T) /\ fo \in BOOLEAN /\ (~fo => h = << >>)
      BY <1>1, <3>1, <3>2
    <3>5. Keeps(T, fo, h, lines, opens)
      BY <2>2, <3>4, FolderKeeps
    <3> QED
      BY <3>1, <3>2, <3>3, <3>5 DEF Keeps
  <2> QED
    BY <2>1, <2>2
<1>6. /\ FlattenSeq(handed \o records) = FlattenSeq(handed) \o FlattenSeq(records)
      /\ FlattenSeq(handed) \in Seq(Line) /\ FlattenSeq(records) \in Seq(Line)
      /\ DOMAIN (handed \o records) = 1 .. Len(handed) + Len(records)
      /\ Len(handed \o records) = Len(handed) + Len(records)
  <2>1. PICK S : S = handed
    OBVIOUS
  <2>2. S \in Seq(Seq(Line)) /\ T \subseteq Line /\ records \in Seq(Seq(T))
    BY <1>1, <1>5, <2>1
  <2>3. Join(T, Line, S, records)
    BY <2>2, RecordsJoin
  <2> QED
    BY <2>1, <2>3 DEF Join
<1>7. held' \in Seq(Line) /\ held \in Seq(Line) /\ lines \in Seq(Line)
  BY <1>1, <1>5, SeqMonotonic
<1>8. FlattenSeq(handed') \o held' = (FlattenSeq(handed) \o held) \o lines
  <2>1. PICK a : a = FlattenSeq(handed)
    OBVIOUS
  <2>2. PICK b : b = FlattenSeq(records)
    OBVIOUS
  <2>3. PICK c : c = held'
    OBVIOUS
  <2>4. PICK h : h = held
    OBVIOUS
  <2>5. a \in Seq(Line) /\ b \in Seq(Line) /\ c \in Seq(Line) /\ h \in Seq(Line) /\ lines \in Seq(Line)
    BY <1>6, <1>7, <2>1, <2>2, <2>3, <2>4
  <2>6. (a \o b) \o c = a \o (b \o c) /\ (a \o h) \o lines = a \o (h \o lines)
    <3>1. Associates(a, b, c)
      BY <2>5, Associate
    <3>2. Associates(a, h, lines)
      BY <2>5, Associate
    <3> QED
      BY <3>1, <3>2 DEF Associates
  <2>7. b \o c = h \o lines /\ FlattenSeq(handed') = a \o b
    BY <1>4, <1>5, <1>6, <2>1, <2>2, <2>3, <2>4
  <2> QED
    BY <2>1, <2>3, <2>4, <2>6, <2>7
<1>9. refused' \subseteq refused \union DOMAIN handed' /\ (accepted => refused' = refused)
  <2>1. Len(handed) \in Nat /\ Len(records) \in Nat
    BY <1>1, <1>5, LenProperties
  <2>2. DOMAIN handed' = 1 .. Len(handed) + Len(records) /\ Len(handed') = Len(handed) + Len(records)
    BY <1>4, <1>6
  <2>3. PICK n : n = Len(handed)
    OBVIOUS
  <2>4. PICK k : k = Len(records)
    OBVIOUS
  <2>5. n + 1 .. n + k \subseteq 1 .. n + k
    BY <2>1, <2>3, <2>4
  <2>6. Len(handed) + 1 .. Len(handed') \subseteq DOMAIN handed'
    BY <2>2, <2>3, <2>4, <2>5
  <2> QED
    BY <1>4, <2>6
<1> QED
  BY <1>4, <1>5, <1>8, <1>9 DEF Stores

LEMMA FlushStores ==
    ASSUME NEW T, Storable(T), NEW accepted \in BOOLEAN, FlushMultiline(accepted)
    PROVE  /\ Stores(T, << >>, accepted) /\ held' = << >>
           /\ refused' \subseteq refused \union {Len(handed')}
<1>1. /\ T \subseteq Line /\ held \in Seq(T) /\ handed \in Seq(Seq(Line))
  BY DEF Storable
<1>2. /\ held = << >> => accepted
      /\ held' = << >>
      /\ handed' = IF held # << >> THEN Append(handed, held) ELSE handed
      /\ refused' = IF accepted THEN refused ELSE refused \union {Len(handed')}
  BY DEF FlushMultiline
<1>3. PICK records : records = IF held # << >> THEN <<held>> ELSE << >>
  OBVIOUS
<1>4. PICK h : h = held
  OBVIOUS
<1>5. PICK S : S = handed
  OBVIOUS
<1>6. PICK a : a = FlattenSeq(S)
  OBVIOUS
<1>7. h \in Seq(T) /\ S \in Seq(Seq(Line)) /\ h \in Seq(Line) /\ a \in Seq(Line)
  <2>1. h \in Seq(T) /\ S \in Seq(Seq(Line))
    BY <1>1, <1>4, <1>5
  <2> QED
    BY <1>1, <1>6, <2>1, SeqMonotonic, FlattenType
<1>8. records \in Seq(Seq(T)) /\ << >> \in Seq(T)
  BY <1>3, <1>4, <1>7
<1>9. handed' = S \o records
  <2>1. CASE h # << >>
    <3>1. Append(S, h) = S \o <<h>>
      BY <1>7, AppendIsConcat
    <3> QED
      BY <1>2, <1>3, <1>4, <1>5, <2>1, <3>1
  <2>2. CASE h = << >>
    <3>1. S \o << >> = S
      BY <1>7, ConcatEmptySeq
    <3> QED
      BY <1>2, <1>3, <1>4, <1>5, <2>2, <3>1
  <2> QED
    BY <2>1, <2>2
<1>10. FlattenSeq(records) = h
  BY <1>3, <1>4, <1>7, FlattenOne, FlattenEmpty
<1>11. FlattenSeq(S \o records) = a \o h
  <2>1. FlattenSeq(S \o records) = FlattenSeq(S) \o FlattenSeq(records)
    <3>1. Join(T, Line, S, records)
      BY <1>1, <1>7, <1>8, RecordsJoin
    <3> QED
      BY <3>1 DEF Join
  <2> QED
    BY <1>6, <1>10, <2>1
<1>12. FlattenSeq(handed') \o << >> = (FlattenSeq(handed) \o held) \o << >>
  BY <1>4, <1>5, <1>6, <1>9, <1>11
<1>13. held # << >> => Len(handed') \in DOMAIN handed'
  <2>1. SUFFICES ASSUME held # << >> PROVE Len(handed') \in DOMAIN handed'
    OBVIOUS
  <2>2. handed' = Append(S, h)
    BY <1>2, <1>4, <1>5, <2>1
  <2>3. Append(S, h) \in Seq(Seq(Line)) /\ Len(Append(S, h)) = Len(S) + 1 /\ Len(S) \in Nat
    BY <1>7, AppendProperties
  <2>4. DOMAIN Append(S, h) = 1 .. Len(Append(S, h))
    BY <2>3, LenProperties
  <2> QED
    BY <2>2, <2>3, <2>4
<1>14. refused' \subseteq refused \union DOMAIN handed' /\ (accepted => refused' = refused)
  BY <1>2, <1>13
<1> QED
  BY <1>2, <1>5, <1>8, <1>9, <1>12, <1>14 DEF Stores

\* The lines of a file.
HomeLine(f) == Seq(HomePiece(f))

LEMMA HomeLineIsLine == \A f : HomeLine(f) \subseteq Line
<1> SUFFICES ASSUME NEW f, NEW x \in Seq(HomePiece(f)) PROVE x \in Seq(Piece)
  BY DEF HomeLine, Line
<1> QED
  BY HomeIsPiece, SeqMonotonic

LEMMA CanStore == IInv => Storable(HomeLine(fd))
<1> SUFFICES ASSUME IInv PROVE Storable(HomeLine(fd))
  OBVIOUS
<1>1. held \in Seq(HomeLine(fd)) /\ handed \in Seq(Seq(Line)) /\ folding \in BOOLEAN /\ (~folding => held = << >>)
  BY DEF IInv, TypeOK, HomeInv, EndInv, HomeLine
<1> QED
  BY <1>1, HomeLineIsLine DEF Storable

(* The state after lines of the open file are stored.                      *)
StoredWell ==
    /\ held' \in Seq(HomeLine(fd)) /\ held' \in Seq(Line) /\ handed' \in Seq(Seq(Line))
    /\ \A k \in DOMAIN handed' : \E f \in {0} \union File : handed'[k] \in Seq(HomeLine(f))
    /\ ~folding => held' = << >>
    /\ refused' \subseteq DOMAIN handed'

LEMMA StoresWell ==
    ASSUME IInv, NEW lines, NEW accepted, Stores(HomeLine(fd), lines, accepted)
    PROVE  StoredWell
<1>1. PICK T : T = HomeLine(fd)
  OBVIOUS
<1>2. PICK records \in Seq(Seq(T)) :
        /\ handed' = handed \o records
        /\ held' \in Seq(T) /\ (~folding => held' = << >>)
        /\ refused' \subseteq refused \union DOMAIN handed'
  BY <1>1 DEF Stores
<1>3. T \subseteq Line
  BY <1>1, HomeLineIsLine
<1>4. PICK S : S = handed
  OBVIOUS
<1>5. S \in Seq(Seq(Line)) /\ refused \subseteq DOMAIN S
  BY <1>4 DEF IInv, TypeOK
<1>6. held' \in Seq(Line)
  BY <1>2, <1>3, SeqMonotonic
<1>7. /\ S \o records \in Seq(Seq(Line)) /\ DOMAIN (S \o records) = 1 .. Len(S) + Len(records)
      /\ DOMAIN S = 1 .. Len(S) /\ Len(S) \in Nat /\ Len(records) \in Nat
  <2>1. S \o records \in Seq(Seq(Line)) /\ DOMAIN (S \o records) = 1 .. Len(S) + Len(records)
    <3>1. Join(T, Line, S, records)
      BY <1>2, <1>3, <1>5, RecordsJoin
    <3> QED
      BY <3>1 DEF Join
  <2>2. DOMAIN S = 1 .. Len(S) /\ Len(S) \in Nat /\ Len(records) \in Nat
    BY <1>2, <1>5, LenProperties
  <2> QED
    BY <2>1, <2>2
<1>8. PICK n : n = Len(S)
  OBVIOUS
<1>9. PICK m : m = Len(records)
  OBVIOUS
<1>10. 1 .. n \subseteq 1 .. n + m /\ n \in Nat /\ m \in Nat
  BY <1>7, <1>8, <1>9
<1>11. refused' \subseteq DOMAIN handed'
  BY <1>2, <1>4, <1>5, <1>7, <1>8, <1>9, <1>10
<1>12. \A i \in 1 .. n + m : (S \o records)[i] = IF i <= n THEN S[i] ELSE records[i - n]
  <2>1. records \in Seq(Seq(Line))
    <3>1. Join(T, Line, S, records)
      BY <1>2, <1>3, <1>5, RecordsJoin
    <3> QED
      BY <3>1 DEF Join
  <2>2. S \in Seq(Seq(Line))
    BY <1>5
  <2> QED
    BY <1>8, <1>9, <2>1, <2>2, ConcatProperties
<1>13. ASSUME NEW k \in DOMAIN handed' PROVE \E f \in {0} \union File : handed'[k] \in Seq(HomeLine(f))
  <2>1. k \in 1 .. n + m /\ handed'[k] = IF k <= n THEN S[k] ELSE records[k - n]
    BY <1>2, <1>4, <1>7, <1>8, <1>9, <1>12
  <2>2. CASE k <= n
    <3>1. k \in DOMAIN handed /\ handed'[k] = handed[k]
      BY <1>4, <1>7, <1>8, <1>10, <2>1, <2>2
    <3> QED
      BY <3>1 DEF IInv, HomeInv, HomeLine
  <2>3. CASE ~(k <= n)
    <3>1. k - n \in 1 .. m
      BY <1>10, <2>1, <2>3
    <3>2. records[k - n] \in Seq(T)
      BY <1>2, <1>9, <3>1, ElementOfSeq
    <3>3. fd \in {0} \union File
      BY DEF IInv, TypeOK
    <3> QED
      BY <1>1, <2>1, <2>3, <3>2, <3>3
  <2> QED
    BY <2>2, <2>3
<1> QED
  BY <1>1, <1>2, <1>4, <1>6, <1>7, <1>11, <1>13 DEF StoredWell

-----------------------------------------------------------------------------
(* What is read of a file, and of stdin.                                   *)

ReadsPieces(n, accepted) ==
    \E lines \in Seq(HomeLine(fd)), q \in Seq(HomePiece(fd)) :
        /\ q = SubSeq(content[fd], offset + 1, offset + n)
        /\ ProcessLines(lines, accepted) /\ taken' = taken \o lines
        /\ pending' \in Seq(HomePiece(fd)) /\ pending' \in Seq([line : Number, ends : {FALSE}])
        /\ FlattenSeq(lines) \o pending' = pending \o q

LEMMA ReadReads ==
    ASSUME IInv, NEW n \in Nat, NEW accepted, Read(n, accepted)
    PROVE  ReadsPieces(n, accepted) /\ fd \in File /\ kind = "file"
<1>1. kind = "file" /\ fd \in File
  BY DEF IInv, FileInv, TypeOK, Read
<1>2. PICK T : T = HomePiece(fd)
  OBVIOUS
<1>3. T \subseteq Piece
  BY <1>2, HomeIsPiece
<1>4. PICK c : c = content[fd]
  OBVIOUS
<1>5. c \in Seq(T) /\ Increasing(c) /\ offset \in Nat /\ offset + n <= Len(c)
  BY <1>1, <1>2, <1>4, MaxLinesAssumption DEF IInv, ContentInv, TypeOK, Read
<1>6. PICK o : o = offset
  OBVIOUS
<1>7. PICK q : q = SubSeq(c, o + 1, o + n)
  OBVIOUS
<1>8. q \in Seq(T)
  <2>1. o \in Nat /\ o + n <= Len(c)
    BY <1>5, <1>6
  <2> QED
    BY <1>3, <1>5, <1>7, <2>1, ReadInPlace DEF ReadOrder
<1>9. pending \in Seq(T)
  BY <1>2 DEF IInv, HomeInv
<1>10. PICK buf : buf = pending \o q
  OBVIOUS
<1>11. buf \in Seq(T)
  BY <1>8, <1>9, <1>10, ConcatProperties
<1>12. PICK ms \in Seq(Seq(T)), qs \in HalfLine(T) :
         Split(buf) = [lines |-> ms, rest |-> qs] /\ FlattenSeq(ms) \o qs = buf
  BY <1>3, <1>11, SplitKeeps
<1>13. /\ pending' = Split(buf).rest /\ taken' = taken \o Split(buf).lines
       /\ ProcessLines(Split(buf).lines, accepted)
  BY <1>4, <1>6, <1>7, <1>10 DEF Read
<1>14. pending' = qs /\ taken' = taken \o ms /\ ProcessLines(ms, accepted)
  BY <1>12, <1>13
<1>15. qs \in Seq(T) /\ qs \in Seq([line : Number, ends : {FALSE}])
  <2>1. {p \in T : p.ends = FALSE} \subseteq T /\ qs \in Seq({p \in T : p.ends = FALSE})
    BY <1>12 DEF HalfLine
  <2>2. {p \in T : p.ends = FALSE} \subseteq [line : Number, ends : {FALSE}]
    <3> SUFFICES ASSUME NEW p \in T, p.ends = FALSE PROVE p \in [line : Number, ends : {FALSE}]
      OBVIOUS
    <3>1. p \in Piece
      BY <1>3
    <3> QED
      BY <3>1 DEF Piece
  <2>3. qs \in Seq(T)
    BY <2>1, SeqMonotonic
  <2> QED
    BY <2>1, <2>2, <2>3, SeqMonotonic
<1>16. ms \in Seq(HomeLine(fd))
  BY <1>2, <1>12 DEF HomeLine
<1> QED
  BY <1>1, <1>2, <1>4, <1>6, <1>7, <1>8, <1>10, <1>12, <1>14, <1>15, <1>16 DEF ReadsPieces

(* The pieces read are what was read before and what is read now.          *)
LEMMA ReadPiecesType == IInv => ReadPieces \in Seq(Piece) /\ FlattenSeq(taken) \in Seq(Piece) /\ pending \in Seq(Piece)
<1> SUFFICES ASSUME IInv PROVE ReadPieces \in Seq(Piece) /\ FlattenSeq(taken) \in Seq(Piece) /\ pending \in Seq(Piece)
  OBVIOUS
<1>1. taken \in Seq(Seq(Piece))
  BY DEF IInv, TypeOK, Line
<1>2. PICK t : t = taken
  OBVIOUS
<1>3. FlattenSeq(t) \in Seq(Piece)
  BY <1>1, <1>2, FlattenType
<1>4. pending \in Seq(HomePiece(fd)) /\ HomePiece(fd) \subseteq Piece
  BY HomeIsPiece DEF IInv, HomeInv
<1>5. pending \in Seq(Piece)
  BY <1>4, SeqMonotonic
<1>6. FlattenSeq(taken) \o pending \in Seq(Piece)
  BY <1>2, <1>3, <1>5, ConcatProperties
<1> QED
  BY <1>2, <1>3, <1>5, <1>6 DEF ReadPieces

LinesAndRest(ts, ls, p, r, q) == FlattenSeq(ts \o ls) \o r = (FlattenSeq(ts) \o p) \o q

LEMMA LinesThenRest ==
    ASSUME NEW ts \in Seq(Line), NEW ls \in Seq(Line), NEW p \in Seq(Piece), NEW r \in Seq(Piece), NEW q \in Seq(Piece),
           FlattenSeq(ls) \o r = p \o q
    PROVE  LinesAndRest(ts, ls, p, r, q)
<1>1. ts \in Seq(Seq(Piece)) /\ ls \in Seq(Seq(Piece))
  BY DEF Line
<1>2. FlattenSeq(ts \o ls) = FlattenSeq(ts) \o FlattenSeq(ls)
  BY <1>1, FlattenConcat
<1>3. FlattenSeq(ts) \in Seq(Piece) /\ FlattenSeq(ls) \in Seq(Piece)
  BY <1>1, FlattenType
<1>4. PICK a : a = FlattenSeq(ts)
  OBVIOUS
<1>5. PICK b : b = FlattenSeq(ls)
  OBVIOUS
<1>6. a \in Seq(Piece) /\ b \in Seq(Piece)
  BY <1>3, <1>4, <1>5
<1>7. Associates(a, b, r) /\ Associates(a, p, q)
  BY <1>6, Associate
<1> QED
  BY <1>2, <1>4, <1>5, <1>7 DEF LinesAndRest, Associates

LEMMA ReadGrows ==
    ASSUME IInv, NEW n \in Nat, NEW accepted, Read(n, accepted)
    PROVE  /\ taken' \in Seq(Line) /\ ReadPieces' = ReadPieces \o SubSeq(content[fd], offset + 1, offset + n)
<1>1. ReadsPieces(n, accepted)
  BY ReadReads
<1>2. PICK lines \in Seq(HomeLine(fd)), q \in Seq(HomePiece(fd)) :
        /\ q = SubSeq(content[fd], offset + 1, offset + n)
        /\ taken' = taken \o lines /\ pending' \in Seq(HomePiece(fd))
        /\ FlattenSeq(lines) \o pending' = pending \o q
  BY <1>1 DEF ReadsPieces
<1>3. HomePiece(fd) \subseteq Piece /\ HomeLine(fd) \subseteq Line
  BY HomeIsPiece, HomeLineIsLine
<1>4. q \in Seq(Piece) /\ pending' \in Seq(Piece) /\ lines \in Seq(Line)
  BY <1>2, <1>3, SeqMonotonic
<1>5. taken \in Seq(Line) /\ pending \in Seq(Piece)
  BY ReadPiecesType DEF IInv, TypeOK
<1>6. PICK ts : ts = taken
  OBVIOUS
<1>7. PICK p : p = pending
  OBVIOUS
<1>8. PICK r : r = pending'
  OBVIOUS
<1>9. FlattenSeq(ts \o lines) \o r = (FlattenSeq(ts) \o p) \o q
  <2>1. ts \in Seq(Line) /\ p \in Seq(Piece) /\ r \in Seq(Piece) /\ q \in Seq(Piece) /\ lines \in Seq(Line)
        /\ FlattenSeq(lines) \o r = p \o q
    BY <1>2, <1>4, <1>5, <1>6, <1>7, <1>8
  <2>2. LinesAndRest(ts, lines, p, r, q)
    BY <2>1, LinesThenRest
  <2> QED
    BY <2>2 DEF LinesAndRest
<1>10. ts \o lines \in Seq(Line)
  BY <1>4, <1>5, <1>6, ConcatProperties
<1> QED
  BY <1>2, <1>6, <1>7, <1>8, <1>9, <1>10 DEF ReadPieces

LEMMA WholeLinePlaces ==
    ASSUME NEW k \in Number
    PROVE  /\ WholeLine(k) \in Line /\ Increasing(WholeLine(k)) /\ AtMost(WholeLine(k), 2 * k + 1)
           /\ Len(WholeLine(k)) = 2 /\ PlaceOf(WholeLine(k)[1]) = 2 * k /\ PlaceOf(WholeLine(k)[2]) = 2 * k + 1
           /\ WholeLine(k)[1].line = k /\ WholeLine(k)[2].line = k
<1>1. k \in Nat
  BY MaxLinesAssumption DEF Number
<1>2. PICK w : w = WholeLine(k)
  OBVIOUS
<1>3. /\ Len(w) = 2 /\ w[1] = [line |-> k, ends |-> FALSE] /\ w[2] = [line |-> k, ends |-> TRUE]
  BY <1>2 DEF WholeLine
<1>4. w[1] \in Piece /\ w[2] \in Piece
  BY <1>3 DEF Piece
<1>5. w \in Seq(Piece)
  BY <1>2, <1>3, <1>4 DEF WholeLine
<1>6. PlaceOf(w[1]) = 2 * k /\ PlaceOf(w[2]) = 2 * k + 1 /\ w[1].line = k /\ w[2].line = k
  BY <1>1, <1>3 DEF PlaceOf
<1>7. \A i \in 1 .. 2 : i = 1 \/ i = 2
  OBVIOUS
<1>8. AtMost(w, 2 * k + 1)
  <2> SUFFICES ASSUME NEW i \in 1 .. 2 PROVE PlaceOf(w[i]) <= 2 * k + 1
    BY <1>3 DEF AtMost
  <2> QED
    BY <1>1, <1>6, <1>7
<1>9. Increasing(w)
  <2> SUFFICES ASSUME NEW i \in 1 .. 2, NEW j \in 1 .. 2, i < j PROVE PlaceOf(w[i]) < PlaceOf(w[j])
    BY <1>3 DEF Increasing
  <2>1. i = 1 /\ j = 2
    BY <1>7
  <2> QED
    BY <1>1, <1>6, <2>1
<1> QED
  BY <1>2, <1>3, <1>5, <1>6, <1>8, <1>9 DEF Line

LEMMA ReceiveReceives ==
    ASSUME IInv, NEW accepted, Receive(accepted)
    PROVE  /\ kind = "stdin" /\ offered \in Number /\ fd = 0
           /\ WholeLine(offered) \in HomeLine(fd) /\ Append(batch, WholeLine(offered)) \in Seq(HomeLine(fd))
           /\ Append(batch, WholeLine(offered)) \in Seq(Line) /\ Append(batch, WholeLine(offered)) = batch \o <<WholeLine(offered)>>
           /\ taken' \in Seq(Line) /\ taken' = taken \o <<WholeLine(offered)>>
           /\ ReadPieces' = ReadPieces \o WholeLine(offered)
<1>1. kind = "stdin" /\ fd = 0 /\ pending = << >> /\ offered # 0
  BY DEF IInv, TypeOK, FileInv, Receive
<1>2. offered \in Number /\ offered <= written /\ home[offered] = 0
  <2>1. offered \in 0 .. scanned /\ scanned \in 0 .. written /\ written \in 0 .. MaxLines
    BY DEF IInv, TypeOK
  <2>2. offered \in Number /\ offered <= written
    BY <1>1, <2>1, MaxLinesAssumption DEF Number
  <2> QED
    BY <1>1, <2>2 DEF IInv, WriterInv
<1>3. PICK k : k = offered
  OBVIOUS
<1>4. PICK w : w = WholeLine(k)
  OBVIOUS
<1>5. w \in Seq(Piece) /\ Len(w) = 2 /\ w[1].line = k /\ w[2].line = k /\ w \in Line
  BY <1>2, <1>3, <1>4, WholeLinePlaces DEF Line
<1>6. w \in HomeLine(0)
  <2>1. w[1] \in Piece /\ w[2] \in Piece
    <3>1. 1 \in 1 .. Len(w) /\ 2 \in 1 .. Len(w)
      BY <1>5
    <3> QED
      BY <1>5, <3>1, ElementOfSeq
  <2>2. w[1] \in HomePiece(0) /\ w[2] \in HomePiece(0)
    BY <1>2, <1>3, <1>5, <2>1 DEF HomePiece
  <2>3. w = <<w[1], w[2]>>
    BY <1>4 DEF WholeLine
  <2>4. <<w[1], w[2]>> \in Seq(HomePiece(0))
    BY <2>2
  <2> QED
    BY <2>3, <2>4 DEF HomeLine
<1>7. batch \in Seq(HomeLine(0)) /\ batch \in Seq(Line) /\ taken \in Seq(Line)
  BY <1>1 DEF IInv, HomeInv, TypeOK, HomeLine
<1>8. PICK b : b = batch
  OBVIOUS
<1>9. PICK t : t = taken
  OBVIOUS
<1>10. b \in Seq(HomeLine(0)) /\ b \in Seq(Line) /\ t \in Seq(Line)
  BY <1>7, <1>8, <1>9
<1>11. Append(b, w) \in Seq(HomeLine(0))
  BY <1>6, <1>10, AppendProperties
<1>12. Append(b, w) \in Seq(Line)
  BY <1>5, <1>10, AppendProperties
<1>13. Append(t, w) \in Seq(Line)
  BY <1>5, <1>10, AppendProperties
<1>14. Append(t, w) = t \o <<w>>
  BY <1>5, <1>10, AppendIsConcat
<1>15. Append(b, w) = b \o <<w>>
  BY <1>5, <1>10, AppendIsConcat
<1>16. taken' = Append(t, w) /\ pending' = pending
  BY <1>3, <1>4, <1>9 DEF Receive, fileVars
<1>17. FlattenSeq(Append(t, w)) = FlattenSeq(t) \o w
  <2>1. t \in Seq(Seq(Piece)) /\ w \in Seq(Piece)
    BY <1>5, <1>10 DEF Line
  <2> QED
    BY <2>1, FlattenAppend
<1>18. ReadPieces' = ReadPieces \o w
  <2>1. FlattenSeq(t) \in Seq(Piece)
    BY <1>9, ReadPiecesType
  <2>2. FlattenSeq(t) \o w \in Seq(Piece)
    BY <1>5, <2>1, ConcatProperties
  <2>3. FlattenSeq(t) \o << >> = FlattenSeq(t)
    BY <2>1, ConcatEmptySeq
  <2>4. (FlattenSeq(t) \o w) \o << >> = FlattenSeq(t) \o w
    BY <2>2, ConcatEmptySeq
  <2> QED
    BY <1>1, <1>9, <1>16, <1>17, <2>3, <2>4 DEF ReadPieces
<1> QED
  BY <1>1, <1>2, <1>3, <1>4, <1>6, <1>8, <1>9, <1>11, <1>12, <1>13, <1>14, <1>15, <1>16, <1>18

-----------------------------------------------------------------------------
(* What is taken is on its way or stored.                                  *)

\* The lines that the folder was given.
Given == FlattenSeq(handed) \o held

LEMMA GivenType == IInv => Given \in Seq(Line) /\ batch \in Seq(Line) /\ taken \in Seq(Line) /\ taken = Given \o batch
<1> SUFFICES ASSUME IInv
             PROVE  Given \in Seq(Line) /\ batch \in Seq(Line) /\ taken \in Seq(Line) /\ taken = Given \o batch
  OBVIOUS
<1>1. PICK S : S = handed
  OBVIOUS
<1>2. S \in Seq(Seq(Line)) /\ held \in Seq(Line) /\ batch \in Seq(Line) /\ taken \in Seq(Line)
  BY <1>1 DEF IInv, TypeOK
<1>3. FlattenSeq(S) \in Seq(Line)
  BY <1>2, FlattenType
<1>4. FlattenSeq(S) \o held \in Seq(Line)
  BY <1>2, <1>3, ConcatProperties
<1>5. taken = (FlattenSeq(handed) \o held) \o batch
  BY DEF IInv, EndInv
<1> QED
  BY <1>1, <1>2, <1>4, <1>5 DEF Given

LEMMA NoLines == \A a \in Seq(Line) : a \o << >> = a
<1> SUFFICES ASSUME NEW a \in Seq(Line) PROVE a \o << >> = a
  OBVIOUS
<1> QED
  BY ConcatEmptySeq

LEMMA StoresGiven ==
    ASSUME NEW T, NEW lines, NEW accepted, Stores(T, lines, accepted)
    PROVE  Given' = Given \o lines
BY DEF Stores, Given

LEMMA TickRotatedStores ==
    ASSUME IInv, NEW accepted \in BOOLEAN, TickRotated(accepted)
    PROVE  StoredWell /\ taken' = Given' \o batch' /\ held' = << >>
<1>1. Storable(HomeLine(fd)) /\ FlushMultiline(accepted) /\ batch' = batch /\ taken' = taken
  BY CanStore DEF TickRotated, stdinVars
<1>2. PICK T : T = HomeLine(fd)
  OBVIOUS
<1>3. Stores(T, << >>, accepted) /\ held' = << >>
  BY <1>1, <1>2, FlushStores
<1>4. Given' = Given \o << >>
  BY <1>3, StoresGiven
<1>5. Given' = Given
  BY <1>4, GivenType, NoLines
<1> QED
  BY <1>1, <1>2, <1>3, <1>5, StoresWell, GivenType

LEMMA FinishFlushedStores ==
    ASSUME IInv, NEW accepted \in BOOLEAN, FinishFlushed(accepted)
    PROVE  /\ StoredWell /\ taken' = Given' \o batch' /\ held' = << >>
           /\ refused' \subseteq refused \union {Len(handed')}
<1>1. Storable(HomeLine(fd)) /\ FlushMultiline(accepted) /\ batch' = batch /\ taken' = taken
  BY CanStore DEF FinishFlushed, stdinVars
<1>2. PICK T : T = HomeLine(fd)
  OBVIOUS
<1>3. Stores(T, << >>, accepted) /\ held' = << >> /\ refused' \subseteq refused \union {Len(handed')}
  BY <1>1, <1>2, FlushStores
<1>4. Given' = Given \o << >>
  BY <1>3, StoresGiven
<1>5. Given' = Given
  BY <1>4, GivenType, NoLines
<1> QED
  BY <1>1, <1>2, <1>3, <1>5, StoresWell, GivenType

LEMMA LinesStored ==
    ASSUME IInv, NEW accepted \in BOOLEAN, NEW lines \in Seq(HomeLine(fd)), ProcessLines(lines, accepted)
    PROVE  StoredWell /\ Given' = Given \o lines /\ (accepted => refused' = refused)
<1>1. PICK T : T = HomeLine(fd)
  OBVIOUS
<1>2. Storable(T) /\ lines \in Seq(T)
  BY <1>1, CanStore
<1>3. Stores(T, lines, accepted)
  BY <1>2, ProcessLinesStores
<1>4. StoredWell
  BY <1>1, <1>3, StoresWell
<1>5. Given' = Given \o lines
  BY <1>3, StoresGiven
<1>6. accepted => refused' = refused
  BY <1>3 DEF Stores
<1> QED
  BY <1>4, <1>5, <1>6

LEMMA ReadStores ==
    ASSUME IInv, NEW n \in Nat, NEW accepted \in BOOLEAN, Read(n, accepted)
    PROVE  StoredWell /\ taken' = Given' \o batch' /\ (accepted => refused' = refused)
<1>1. ReadsPieces(n, accepted) /\ kind = "file"
  BY ReadReads
<1>2. PICK lines \in Seq(HomeLine(fd)) : ProcessLines(lines, accepted) /\ taken' = taken \o lines
  BY <1>1 DEF ReadsPieces
<1>3. StoredWell /\ Given' = Given \o lines /\ (accepted => refused' = refused)
  BY <1>2, LinesStored
<1>4. batch = << >> /\ batch' = batch
  BY <1>1 DEF IInv, FileInv, Read, stdinVars
<1>5. lines \in Seq(Line)
  BY <1>2, HomeLineIsLine, SeqMonotonic
<1>6. Given \o lines \in Seq(Line)
  BY <1>5, GivenType, ConcatProperties
<1>7. Given \o << >> = Given
  BY GivenType, NoLines
<1>8. (Given \o lines) \o << >> = Given \o lines
  BY <1>6, NoLines
<1>9. taken = Given
  BY <1>4, <1>7, GivenType
<1> QED
  BY <1>2, <1>3, <1>4, <1>8, <1>9

LEMMA NothingStored ==
    ASSUME IInv, held' = held, handed' = handed, refused' = refused
    PROVE  StoredWell
<1>1. held \in Seq(HomeLine(fd)) /\ held \in Seq(Line) /\ handed \in Seq(Seq(Line)) /\ (~folding => held = << >>)
      /\ refused \subseteq DOMAIN handed
  BY DEF IInv, HomeInv, TypeOK, EndInv, HomeLine
<1>2. \A k \in DOMAIN handed : \E f \in {0} \union File : handed[k] \in Seq(HomeLine(f))
  BY DEF IInv, HomeInv, HomeLine
<1> QED
  BY <1>1, <1>2 DEF StoredWell

LEMMA ReceiveStores ==
    ASSUME IInv, NEW accepted \in BOOLEAN, Receive(accepted)
    PROVE  /\ StoredWell /\ taken' = Given' \o batch' /\ (accepted => refused' = refused)
           /\ batch' \in Seq(Line) /\ Len(batch') < BatchLines /\ batch' \in Seq(HomeLine(fd))
<1>1. PICK w : w = WholeLine(offered)
  OBVIOUS
<1>2. PICK lines : lines = Append(batch, w)
  OBVIOUS
<1>3. /\ w \in HomeLine(fd) /\ lines \in Seq(HomeLine(fd)) /\ lines \in Seq(Line) /\ lines = batch \o <<w>>
      /\ taken' = taken \o <<w>>
  BY <1>1, <1>2, ReceiveReceives
<1>4. <<w>> \in Seq(Line)
  BY <1>3, HomeLineIsLine
<1>5. taken' = Given \o lines
  <2>1. (Given \o batch) \o <<w>> = Given \o (batch \o <<w>>)
    <3>1. Associates(Given, batch, <<w>>)
      BY <1>4, GivenType, Associate
    <3> QED
      BY <3>1 DEF Associates
  <2> QED
    BY <1>3, <2>1, GivenType
<1>6. CASE Len(lines) >= BatchLines
  <2>1. ProcessLines(lines, accepted) /\ batch' = << >>
    BY <1>1, <1>2, <1>6 DEF Receive, FlushBatch
  <2>2. StoredWell /\ Given' = Given \o lines /\ (accepted => refused' = refused)
    BY <1>3, <2>1, LinesStored
  <2>3. Given \o lines \in Seq(Line)
    BY <1>3, GivenType, ConcatProperties
  <2>4. (Given \o lines) \o << >> = Given \o lines
    BY <2>3, NoLines
  <2>5. << >> \in Seq(Line) /\ << >> \in Seq(HomeLine(fd)) /\ Len(<< >>) < BatchLines
    BY EmptySeq, BatchLinesAssumption
  <2> QED
    BY <1>5, <2>1, <2>2, <2>4, <2>5
<1>7. CASE ~(Len(lines) >= BatchLines)
  <2>1. batch' = lines /\ held' = held /\ handed' = handed /\ refused' = refused
    BY <1>1, <1>2, <1>7 DEF Receive
  <2>2. Given' = Given
    BY <2>1 DEF Given
  <2>3. Len(lines) < BatchLines
    BY <1>3, <1>7, BatchLinesAssumption
  <2> QED
    BY <1>3, <1>5, <2>1, <2>2, <2>3, NothingStored
<1> QED
  BY <1>6, <1>7

LEMMA BatchStores ==
    ASSUME IInv, NEW accepted \in BOOLEAN, TickBatch(accepted) \/ EndOfInput(accepted)
    PROVE  StoredWell /\ taken' = Given' \o batch' /\ (accepted => refused' = refused) /\ batch' = << >>
<1>1. ProcessLines(batch, accepted) /\ batch' = << >> /\ taken' = taken
  BY DEF TickBatch, EndOfInput, FlushBatch
<1>2. batch \in Seq(HomeLine(fd))
  BY DEF IInv, HomeInv, HomeLine
<1>3. PICK lines : lines = batch
  OBVIOUS
<1>4. lines \in Seq(HomeLine(fd)) /\ ProcessLines(lines, accepted)
  BY <1>1, <1>2, <1>3
<1>5. StoredWell /\ Given' = Given \o lines /\ (accepted => refused' = refused)
  BY <1>4, LinesStored
<1>6. (Given \o batch) \o << >> = Given \o batch
  BY GivenType, NoLines
<1> QED
  BY <1>1, <1>3, <1>5, <1>6, GivenType

-----------------------------------------------------------------------------
(* Each part of the invariant, over a step.                                *)

LEMMA InitHolds == Init => IInv
<1> SUFFICES ASSUME Init PROVE IInv
  OBVIOUS
<1> USE DEF Init
<1>1. 1 \in File /\ 0 \in Nat /\ MaxLines \in Nat /\ BatchLines \in Nat \ {0}
  BY MaxLinesAssumption, MaxFilesAssumption, BatchLinesAssumption DEF File
<1>2. \A T : << >> \in Seq(T)
  BY EmptySeq
<1>3. TypeOK
  <2>1. header \subseteq Number /\ folding \in BOOLEAN
    BY DEF Number
  <2>2. content \in [File -> Seq(Piece)] /\ home \in [Number -> {0} \union File]
    BY <1>2
  <2>3. /\ pending \in Seq([line : Number, ends : {FALSE}]) /\ batch \in Seq(Line) /\ held \in Seq(Line)
        /\ handed \in Seq(Seq(Line)) /\ taken \in Seq(Line) /\ refused \subseteq DOMAIN handed /\ Len(batch) < BatchLines
    BY <1>1, <1>2, EmptySeq
  <2>4. written \in 0 .. MaxLines /\ offset \in 0 .. 2 * MaxLines
    BY <1>1
  <2>5. /\ kind \in {"file", "stdin"} /\ status \in {"running", "stopped", "error"} /\ cut \in {"no", "yes", "missed"}
        /\ pc \in {"opening", "selecting", "reopening", "reading", "draining", "finished"}
    OBVIOUS
  <2>6. /\ inLine \in BOOLEAN /\ closed \in BOOLEAN /\ eof \in BOOLEAN
        /\ stopping \in BOOLEAN /\ requestDone \in BOOLEAN /\ overtaken \in BOOLEAN
    OBVIOUS
  <2>7. scanned \in 0 .. written /\ offered \in 0 .. scanned /\ before \in 0 .. written
    BY <1>1
  <2>8. files \in File /\ out \in File /\ path \in {0} \union File /\ fd \in {0} \union File /\ info \in {0} \union File
    BY <1>1
  <2> HIDE DEF Init
  <2> QED
    BY <2>1, <2>2, <2>3, <2>4, <2>5, <2>6, <2>7, <2>8 DEF TypeOK
<1>4. WriterInv
  BY DEF WriterInv
<1>5. ContentInv
  <2>1. ASSUME NEW f \in File
        PROVE  /\ content[f] \in Seq(HomePiece(f)) /\ Increasing(content[f]) /\ AtMost(content[f], Top)
               /\ Len(content[f]) < Top /\ content[f] = << >>
    <3>1. content[f] = << >> /\ Top = 1
      BY DEF Top
    <3> QED
      BY <1>2, <3>1, EmptySeq, NothingInOrder
  <2> QED
    BY <2>1, NothingInOrder DEF ContentInv
<1>6. FileInv
  BY DEF FileInv
<1>7. ReadPieces = << >>
  BY FlattenEmpty, ConcatEmptySeq, <1>2 DEF ReadPieces
<1>8. OrderInv
  BY <1>7, NothingInOrder DEF OrderInv
<1>9. HomeInv
  <2>1. handed = << >> /\ DOMAIN << >> = {}
    OBVIOUS
  <2> QED
    BY <1>2, <2>1 DEF HomeInv
<1>10. EndInv
  <2>1. FlattenSeq(handed) \o held \o batch = << >>
    BY <1>2, FlattenEmpty, ConcatEmptySeq
  <2>2. pc = "finished" <=> status # "running"
    OBVIOUS
  <2> QED
    BY <2>1, <2>2 DEF EndInv
<1> HIDE DEF Init
<1> QED
  BY <1>3, <1>4, <1>5, <1>6, <1>8, <1>9, <1>10 DEF IInv

LEMMA SameHome ==
    ASSUME IInv, StoredWell, written' = written, home' = home, fd' = fd,
           pending' \in Seq(HomePiece(fd)), batch' \in Seq(HomeLine(fd))
    PROVE  HomeInv'
<1>1. HomePiece(fd)' = HomePiece(fd) /\ \A f : HomePiece(f)' = HomePiece(f)
  BY DEF HomePiece
<1> QED
  BY <1>1 DEF HomeInv, StoredWell, HomeLine

LEMMA MoreHome ==
    ASSUME IInv, UNCHANGED <<fd, pending, held, batch, handed>>, \A f : HomePiece(f) \subseteq HomePiece(f)'
    PROVE  HomeInv'
<1>1. PICK d : d = fd
  OBVIOUS
<1>2. HomePiece(d)' = HomePiece(fd)'
  BY <1>1 DEF HomePiece
<1>3. ASSUME NEW f PROVE Seq(HomePiece(f)) \subseteq Seq(HomePiece(f)') /\ Seq(Seq(HomePiece(f))) \subseteq Seq(Seq(HomePiece(f)'))
  <2>1. Seq(HomePiece(f)) \subseteq Seq(HomePiece(f)')
    <3> SUFFICES ASSUME NEW x \in Seq(HomePiece(f)) PROVE x \in Seq(HomePiece(f)')
      OBVIOUS
    <3> QED
      BY SeqMonotonic
  <2>2. ASSUME NEW x \in Seq(Seq(HomePiece(f))) PROVE x \in Seq(Seq(HomePiece(f)'))
    BY <2>1, SeqMonotonic
  <2> QED
    BY <2>1, <2>2
<1>4. /\ pending' \in Seq(HomePiece(d)') /\ held' \in Seq(Seq(HomePiece(d)')) /\ batch' \in Seq(Seq(HomePiece(d)'))
  BY <1>1, <1>3 DEF IInv, HomeInv
<1>5. ASSUME NEW k \in DOMAIN handed' PROVE \E f \in {0} \union File : handed'[k] \in Seq(Seq(HomePiece(f)'))
  <2>1. PICK f \in {0} \union File : handed[k] \in Seq(Seq(HomePiece(f)))
    BY DEF IInv, HomeInv
  <2> QED
    BY <1>3, <2>1
<1> QED
  BY <1>2, <1>4, <1>5 DEF HomeInv

\* The open file changes when the source holds nothing of another one.
LEMMA OtherHome ==
    ASSUME IInv, UNCHANGED <<held, batch, handed, written, home>>, pending' = << >>, held = << >>, batch = << >>
    PROVE  HomeInv'
<1>1. \A T : << >> \in Seq(T)
  BY EmptySeq
<1>2. \A f : HomePiece(f)' = HomePiece(f)
  BY DEF HomePiece
<1> QED
  BY <1>1, <1>2 DEF IInv, HomeInv

LEMMA GivenBack == ASSUME IInv PROVE taken = << >> => held = << >> /\ batch = << >>
<1> SUFFICES ASSUME taken = << >> PROVE held = << >> /\ batch = << >>
  OBVIOUS
<1>1. FlattenSeq(handed) \in Seq(Line) /\ held \in Seq(Line) /\ batch \in Seq(Line) /\ Given \in Seq(Line)
  <2>1. PICK S : S = handed
    OBVIOUS
  <2>2. S \in Seq(Seq(Line))
    BY <2>1 DEF IInv, TypeOK
  <2>3. FlattenSeq(S) \in Seq(Line)
    BY <2>2, FlattenType
  <2> QED
    BY <2>1, <2>3, GivenType DEF IInv, TypeOK
<1>2. Given = << >> /\ batch = << >>
  <2>1. Given \o batch = << >>
    BY GivenType
  <2> QED
    BY <1>1, <2>1, ConcatEqualIffEmpty
<1>3. held = << >>
  <2>1. FlattenSeq(handed) \o held = << >>
    BY <1>2 DEF Given
  <2> QED
    BY <1>1, <2>1, ConcatEqualIffEmpty
<1> QED
  BY <1>2, <1>3

LEMMA HomeStep == IInv /\ Next => HomeInv'
<1> SUFFICES ASSUME IInv, Next PROVE HomeInv'
  OBVIOUS
<1>0. pending \in Seq(HomePiece(fd)) /\ batch \in Seq(HomeLine(fd)) /\ << >> \in Seq(HomeLine(fd))
  BY EmptySeq DEF IInv, HomeInv, HomeLine
<1>1. CASE Write
  <2>1. \A f : HomePiece(f) \subseteq HomePiece(f)'
    BY <1>1, WriteAddsPiece DEF IInv
  <2> QED
    BY <1>1, <2>1, MoreHome DEF Write, fileVars, stdinVars, recordVars
<1>2. CASE SendLine
  <2>1. ASSUME NEW f PROVE HomePiece(f) \subseteq HomePiece(f)'
    <3> SUFFICES ASSUME NEW p \in HomePiece(f) PROVE p \in HomePiece(f)'
      OBVIOUS
    <3>1. p \in Piece /\ p.line <= written /\ home[p.line] = f /\ p.line \in Nat
      BY MaxLinesAssumption DEF HomePiece, Piece, Number
    <3>2. written \in Nat /\ written' = written + 1 /\ home' = home
      BY <1>2, TopIsNat DEF IInv, SendLine
    <3>3. p.line <= written'
      BY <3>1, <3>2
    <3> QED
      BY <3>1, <3>2, <3>3 DEF HomePiece
  <2> QED
    BY <1>2, <2>1, MoreHome DEF SendLine, fileVars, stdinVars, recordVars
<1>3. CASE MoveAway \/ CreateFile \/ ReopenLog \/ Truncate \/ CloseStream \/ Disconnect \/ Stop
           \/ Scan \/ ScannerEnds
  <2>1. UNCHANGED <<fd, pending, held, batch, handed, refused, written, home>>
    BY <1>3 DEF MoveAway, CreateFile, ReopenLog, Truncate, CloseStream, Disconnect, Stop, Scan, ScannerEnds,
         writerVars, fileVars, stdinVars, recordVars
  <2> QED
    BY <1>0, <2>1, NothingStored, SameHome
<1>4. CASE Tick \/ GiveUp \/ EndOfFile \/ ReadFails
  <2>1. UNCHANGED <<fd, pending, held, batch, handed, refused, written, home>>
    BY <1>4 DEF Tick, GiveUp, EndOfFile, ReadFails, writerVars, fileVars, stdinVars, recordVars
  <2> QED
    BY <1>0, <2>1, NothingStored, SameHome
<1>5. CASE OpenTailFile
  <2>1. pending = << >> /\ held = << >> /\ batch = << >>
    BY <1>5, GivenBack DEF IInv, FileInv, OpenTailFile
  <2>2. pending' = pending /\ UNCHANGED <<held, batch, handed, written, home>>
    BY <1>5 DEF OpenTailFile, fileVars, writerVars, recordVars, stdinVars
  <2> QED
    BY <2>1, <2>2, OtherHome
<1>6. CASE OpenExistingTailFile
  <2>1. held = << >> /\ batch = << >>
    BY <1>6 DEF IInv, FileInv, OpenExistingTailFile
  <2>2. pending' = << >> /\ UNCHANGED <<held, batch, handed, written, home>>
    BY <1>6 DEF OpenExistingTailFile, writerVars, recordVars, stdinVars
  <2> QED
    BY <2>1, <2>2, OtherHome
<1>7. ASSUME NEW accepted \in BOOLEAN, TickRotated(accepted) \/ FinishFlushed(accepted) PROVE HomeInv'
  <2>1. StoredWell
    BY <1>7, TickRotatedStores, FinishFlushedStores
  <2>2. UNCHANGED <<fd, pending, batch, written, home>>
    BY <1>7 DEF TickRotated, FinishFlushed, writerVars, fileVars, stdinVars
  <2> QED
    BY <1>0, <2>1, <2>2, SameHome
<1>8. ASSUME NEW accepted \in BOOLEAN, NEW n \in 1 .. 2 * MaxLines, Read(n, accepted) PROVE HomeInv'
  <2>1. n \in Nat
    BY MaxLinesAssumption
  <2>2. StoredWell /\ pending' \in Seq(HomePiece(fd))
    BY <1>8, <2>1, ReadStores, ReadReads DEF ReadsPieces
  <2>3. UNCHANGED <<fd, batch, written, home>>
    BY <1>8 DEF Read, writerVars, stdinVars
  <2> QED
    BY <1>0, <2>2, <2>3, SameHome
<1>9. ASSUME NEW accepted \in BOOLEAN, Receive(accepted) PROVE HomeInv'
  <2>1. StoredWell /\ batch' \in Seq(HomeLine(fd))
    BY <1>9, ReceiveStores
  <2>2. UNCHANGED <<fd, pending, written, home>>
    BY <1>9 DEF Receive, writerVars, fileVars
  <2> QED
    BY <1>0, <2>1, <2>2, SameHome
<1>10. ASSUME NEW accepted \in BOOLEAN, TickBatch(accepted) \/ EndOfInput(accepted) PROVE HomeInv'
  <2>1. StoredWell /\ batch' = << >>
    BY <1>10, BatchStores
  <2>2. UNCHANGED <<fd, pending, written, home>>
    BY <1>10 DEF TickBatch, EndOfInput, writerVars, fileVars
  <2> QED
    BY <1>0, <2>1, <2>2, SameHome
<1> QED
  BY <1>1, <1>2, <1>3, <1>4, <1>5, <1>6, <1>7, <1>8, <1>9, <1>10
  DEF Next, Rotate, Client, FollowFile, ReadStdin

LEMMA ContentStep == IInv /\ Next => ContentInv'
<1> SUFFICES ASSUME IInv, Next PROVE ContentInv'
  OBVIOUS
<1>1. TypeOK /\ WriterInv /\ ContentInv
  BY DEF IInv
<1>2. CASE Write
  BY <1>1, <1>2, WriteContent
<1>3. CASE SendLine
  BY <1>1, <1>3, SendLineContent
<1>4. CASE Truncate
  BY <1>1, <1>4, TruncateContent
<1>5. CASE ReopenLog
  <2>1. path \in File /\ path = files /\ out <= files /\ out' = path
    BY <1>1, <1>5 DEF ReopenLog, WriterInv, TypeOK
  <2>2. content' = content /\ home' = home /\ inLine' = inLine /\ written' = written
    BY <1>5 DEF ReopenLog
  <2> QED
    BY <1>1, <2>1, <2>2, SameContent
<1>6. CASE MoveAway \/ CreateFile
  <2>1. UNCHANGED <<content, home, inLine, written, out>>
    BY <1>6 DEF MoveAway, CreateFile
  <2>2. out \in File /\ out <= out
    BY <1>1, MaxFilesAssumption DEF TypeOK, File
  <2> QED
    BY <1>1, <2>1, <2>2, SameContent
<1>7. ASSUME UNCHANGED <<content, home, inLine, written, out>> PROVE ContentInv'
  <2>1. out \in File /\ out <= out
    BY <1>1, MaxFilesAssumption DEF TypeOK, File
  <2> QED
    BY <1>1, <1>7, <2>1, SameContent
<1>8. CASE CloseStream \/ Disconnect \/ Stop
  BY <1>7, <1>8 DEF CloseStream, Disconnect, Stop, writerVars
<1>9. CASE FollowFile \/ ReadStdin \/ \E accepted \in BOOLEAN : FinishFlushed(accepted)
  <2>1. UNCHANGED writerVars
    BY <1>9 DEF FollowFile, ReadStdin, OpenTailFile, Tick, OpenExistingTailFile, GiveUp, EndOfFile, ReadFails,
         TickRotated, Read, Scan, ScannerEnds, Receive, TickBatch, EndOfInput, FinishFlushed
  <2> QED
    BY <1>7, <2>1 DEF writerVars
<1> QED
  BY <1>2, <1>3, <1>4, <1>5, <1>6, <1>8, <1>9 DEF Next, Rotate, Client

LEMMA WriterStep == IInv /\ Next => WriterInv'
<1> SUFFICES ASSUME IInv, Next PROVE WriterInv'
  OBVIOUS
<1>1. TypeOK /\ WriterInv
  BY DEF IInv
<1>2. ASSUME UNCHANGED <<path, files, out, inLine, written, home, kind>> PROVE WriterInv'
  BY <1>1, <1>2 DEF WriterInv
<1>3. kind' = kind
  BY DEF Next, Rotate, Client, FollowFile, ReadStdin, Write, MoveAway, CreateFile, ReopenLog, Truncate, SendLine,
     CloseStream, Disconnect, Stop, OpenTailFile, Tick, OpenExistingTailFile, GiveUp, EndOfFile, ReadFails,
     TickRotated, Read, Scan, ScannerEnds, Receive, TickBatch, EndOfInput, FinishFlushed, sourceVars
<1>4. CASE Write
  <2>1. path' = path /\ files' = files /\ out' = out /\ kind = "file"
    BY <1>4 DEF Write
  <2>2. home'[written'] = out /\ written' \in Number
    BY <1>1, <1>4, WriteAddsPiece
  <2>3. written' > 0
    BY <2>2, MaxLinesAssumption DEF Number
  <2> QED
    BY <1>1, <1>3, <2>1, <2>2, <2>3 DEF WriterInv
<1>5. CASE SendLine
  <2>1. kind = "stdin" /\ UNCHANGED <<path, files, out, inLine, home>>
    BY <1>5 DEF SendLine
  <2> QED
    BY <1>1, <1>3, <2>1 DEF WriterInv
<1>6. CASE MoveAway
  BY <1>1, <1>3, <1>6 DEF MoveAway, WriterInv
<1>7. CASE CreateFile
  <2>1. out <= files' /\ path' = files'
    BY <1>1, <1>7, MaxFilesAssumption DEF CreateFile, WriterInv, TypeOK, File
  <2> QED
    BY <1>1, <1>3, <1>7, <2>1 DEF CreateFile, WriterInv
<1>8. CASE ReopenLog
  <2>1. path = files /\ out' = path /\ out' <= files
    BY <1>1, <1>8, MaxFilesAssumption DEF ReopenLog, WriterInv, TypeOK, File
  <2> QED
    BY <1>1, <1>3, <1>8, <2>1 DEF ReopenLog, WriterInv
<1>9. CASE Truncate
  BY <1>2, <1>3, <1>9 DEF Truncate
<1>10. CASE CloseStream \/ Disconnect \/ Stop
  BY <1>2, <1>3, <1>10 DEF CloseStream, Disconnect, Stop, writerVars
<1>11. CASE FollowFile \/ ReadStdin \/ \E accepted \in BOOLEAN : FinishFlushed(accepted)
  <2>1. UNCHANGED writerVars
    BY <1>11 DEF FollowFile, ReadStdin, OpenTailFile, Tick, OpenExistingTailFile, GiveUp, EndOfFile, ReadFails,
         TickRotated, Read, Scan, ScannerEnds, Receive, TickBatch, EndOfInput, FinishFlushed
  <2> QED
    BY <1>2, <1>3, <2>1 DEF writerVars
<1> QED
  BY <1>4, <1>5, <1>6, <1>7, <1>8, <1>9, <1>10, <1>11 DEF Next, Rotate, Client

LEMMA FileStep == IInv /\ Next => FileInv'
<1> SUFFICES ASSUME IInv, Next PROVE FileInv'
  OBVIOUS
<1>1. TypeOK /\ WriterInv /\ FileInv
  BY DEF IInv
<1>2. ASSUME UNCHANGED <<fd, files, kind, pc, taken, pending, held, batch, offered, overtaken, info>> PROVE FileInv'
  BY <1>1, <1>2 DEF FileInv
<1>3. CASE Write \/ MoveAway \/ ReopenLog \/ Truncate \/ SendLine \/ CloseStream \/ Disconnect \/ Stop
  <2>1. UNCHANGED <<fd, files, kind, pc, taken, pending, held, batch, offered, overtaken, info>>
    BY <1>3 DEF Write, MoveAway, ReopenLog, Truncate, SendLine, CloseStream, Disconnect, Stop,
         sourceVars, writerVars, fileVars, stdinVars, recordVars, historyVars, controlVars
  <2> QED
    BY <1>2, <2>1
<1>4. CASE CreateFile
  <2>1. /\ UNCHANGED <<fd, kind, pc, taken, pending, held, batch, offered, info>>
        /\ files' = files + 1 /\ overtaken' = (overtaken \/ pc = "reopening")
    BY <1>4 DEF CreateFile, sourceVars, fileVars, stdinVars, recordVars, controlVars
  <2>2. fd <= files'
    BY <1>1, <2>1, MaxFilesAssumption DEF FileInv, TypeOK, File
  <2> QED
    BY <1>1, <2>1, <2>2 DEF FileInv
<1>5. CASE OpenTailFile
  <2>1. held = << >> /\ pending = << >> /\ kind = "file" /\ batch = << >> /\ offered = 0
    BY <1>1, <1>5 DEF FileInv, OpenTailFile
  <2>2. UNCHANGED <<files, kind, taken, pending, held, batch, offered, overtaken>>
    BY <1>5 DEF OpenTailFile, sourceVars, writerVars, stdinVars, recordVars, fileVars
  <2>3. CASE path = 0
    <3>1. pc' = "finished" /\ fd' = fd /\ info' = info
      BY <1>5, <2>3 DEF OpenTailFile, Finish, fileVars
    <3> QED
      BY <1>1, <2>1, <2>2, <3>1 DEF FileInv
  <2>4. CASE path # 0
    <3>1. pc' = "selecting" /\ fd' = path /\ info' = path
      BY <1>5, <2>4 DEF OpenTailFile
    <3>2. path <= files
      BY <1>1, <2>4, MaxFilesAssumption DEF WriterInv, TypeOK, File
    <3> QED
      BY <1>1, <2>1, <2>2, <2>4, <3>1, <3>2 DEF FileInv
  <2> QED
    BY <2>3, <2>4
<1>6. CASE Tick \/ GiveUp \/ EndOfFile \/ ReadFails
  <2>1. /\ UNCHANGED <<fd, files, kind, taken, pending, held, batch, offered, overtaken, info>>
        /\ \/ pc = "selecting" /\ pc' = "reading" /\ kind = "file"
           \/ pc = "reopening" /\ pc' = "finished"
           \/ pc = "reading" /\ pc' \in {"selecting", "finished"}
    BY <1>6 DEF Tick, GiveUp, EndOfFile, ReadFails, Finish,
         sourceVars, writerVars, fileVars, stdinVars, recordVars, historyVars
  <2> QED
    BY <1>1, <2>1 DEF FileInv
<1>7. CASE OpenExistingTailFile
  <2>1. /\ UNCHANGED <<files, kind, taken, held, batch, offered, overtaken, info>>
        /\ pc = "reopening" /\ pc' = "reading" /\ fd' = path /\ path # 0 /\ pending' = << >>
    BY <1>7 DEF OpenExistingTailFile, sourceVars, writerVars, stdinVars, recordVars
  <2>2. path = files /\ path <= files
    BY <1>1, <2>1, MaxFilesAssumption DEF WriterInv, TypeOK, File
  <2> QED
    BY <1>1, <2>1, <2>2 DEF FileInv
<1>8. ASSUME NEW accepted \in BOOLEAN, TickRotated(accepted) PROVE FileInv'
  <2>1. /\ UNCHANGED <<files, kind, taken, batch, offered, overtaken, fd, pending>>
        /\ pc = "selecting" /\ pc' = "reopening" /\ kind = "file" /\ info' = path /\ path # 0
    BY <1>8 DEF TickRotated, FileChanged, sourceVars, writerVars, stdinVars, historyVars
  <2>2. held' = << >>
    BY <1>8, TickRotatedStores
  <2>3. path = files
    BY <1>1, <2>1 DEF WriterInv
  <2> QED
    BY <1>1, <2>1, <2>2, <2>3 DEF FileInv
<1>9. ASSUME NEW accepted \in BOOLEAN, NEW n \in 1 .. 2 * MaxLines, Read(n, accepted) PROVE FileInv'
  <2>1. /\ UNCHANGED <<files, kind, batch, offered, overtaken, fd, info>>
        /\ pc = "reading" /\ pc' \in {"reading", "finished"}
    BY <1>9 DEF Read, Finish, sourceVars, writerVars, stdinVars
  <2>2. fd # 0
    BY <1>1, <2>1 DEF FileInv
  <2> QED
    BY <1>1, <2>1, <2>2 DEF FileInv
<1>10. CASE Scan \/ ScannerEnds
  <2>1. UNCHANGED <<fd, files, kind, pc, taken, pending, held, batch, overtaken, info>> /\ kind = "stdin"
    BY <1>10 DEF Scan, ScannerEnds, sourceVars, writerVars, fileVars, recordVars, historyVars, controlVars
  <2> QED
    BY <1>1, <2>1 DEF FileInv
<1>11. ASSUME NEW accepted \in BOOLEAN, Receive(accepted) \/ TickBatch(accepted) PROVE FileInv'
  <2>1. /\ UNCHANGED <<files, kind, overtaken, fd, info, pending>>
        /\ pc = "selecting" /\ pc' \in {"selecting", "finished"}
    BY <1>11 DEF Receive, TickBatch, Finish, sourceVars, writerVars, fileVars, historyVars
  <2>2. kind = "stdin"
    <3>1. offered # 0 \/ batch # << >>
      BY <1>11 DEF Receive, TickBatch
    <3> QED
      BY <1>1, <3>1 DEF FileInv, TypeOK
  <2> QED
    BY <1>1, <2>1, <2>2 DEF FileInv
<1>12. ASSUME NEW accepted \in BOOLEAN, EndOfInput(accepted) PROVE FileInv'
  <2>1. /\ UNCHANGED <<files, kind, overtaken, fd, info, pending>>
        /\ pc = "selecting" /\ pc' \in {"draining", "finished"} /\ kind = "stdin" /\ batch' = << >>
    BY <1>12 DEF EndOfInput, FlushBatch, Finish, sourceVars, writerVars, fileVars, historyVars
  <2> QED
    BY <1>1, <2>1 DEF FileInv
<1>13. ASSUME NEW accepted \in BOOLEAN, FinishFlushed(accepted) PROVE FileInv'
  <2>1. /\ UNCHANGED <<files, kind, overtaken, fd, info, pending, batch, offered>>
        /\ pc' = "finished"
    BY <1>13 DEF FinishFlushed, Finish, sourceVars, writerVars, fileVars, historyVars, stdinVars
  <2> QED
    BY <1>1, <2>1 DEF FileInv
<1> QED
  BY <1>3, <1>4, <1>5, <1>6, <1>7, <1>8, <1>9, <1>10, <1>11, <1>12, <1>13
  DEF Next, Rotate, Client, FollowFile, ReadStdin

LEMMA SameOrder ==
    ASSUME IInv, UNCHANGED <<taken, pending, inLine, written, kind, fd, content, offset, info, offered, scanned>>,
           overtaken => overtaken', pc' = "reopening" => pc = "reopening"
    PROVE  OrderInv'
<1>1. ReadPieces' = ReadPieces /\ Top' = Top
  BY DEF ReadPieces, Top
<1> QED
  BY <1>1 DEF IInv, OrderInv

\* What OrderInv says of the files.
ReadFirst ==
    kind = "file" =>
      \A g \in File :
         /\ fd < g => Precede(ReadPieces, content[g], 0)
         /\ fd = g => Precede(ReadPieces, content[g], offset)
         /\ fd = g /\ Len(content[g]) < offset => Precede(ReadPieces, content[g], 0)
         /\ pc = "reopening" /\ info = g => Precede(ReadPieces, content[g], 0)

LEMMA OrderParts ==
    IInv /\ ~overtaken => Increasing(ReadPieces) /\ AtMost(ReadPieces, Top) /\ ReadFirst
BY DEF IInv, OrderInv, ReadFirst

LEMMA FileOrder ==
    ASSUME kind' = "file", ~overtaken' => Increasing(ReadPieces)' /\ AtMost(ReadPieces, Top)' /\ ReadFirst'
    PROVE  OrderInv'
<1>1. kind' # "stdin"
  OBVIOUS
<1> QED
  BY <1>1 DEF OrderInv, ReadFirst

LEMMA AtMostTop ==
    ASSUME NEW s \in Seq(Piece), NEW m, NEW n, m \in Nat, n \in Nat, m <= n, AtMost(s, m)
    PROVE  AtMost(s, n)
BY AtMostMore

LEMMA WriteOrder == ASSUME IInv, Write PROVE OrderInv'
<1>1. TypeOK /\ WriterInv /\ ContentInv
  BY DEF IInv
<1>2. UNCHANGED <<taken, pending, kind, fd, offset, info, overtaken, pc>> /\ kind = "file"
  BY DEF Write, sourceVars, fileVars, recordVars, historyVars, controlVars
<1>3. SUFFICES ASSUME ~overtaken PROVE Increasing(ReadPieces)' /\ AtMost(ReadPieces, Top)' /\ ReadFirst'
  BY <1>2, FileOrder
<1>4. PICK R : R = ReadPieces
  OBVIOUS
<1>5. PICK m : m = Top
  OBVIOUS
<1>6. ReadPieces' = R
  BY <1>2, <1>4 DEF ReadPieces
<1>7. R \in Seq(Piece) /\ Increasing(R) /\ AtMost(R, m) /\ m \in Nat /\ Top' = m + 1
  BY <1>1, <1>3, <1>4, <1>5, ReadPiecesType, OrderParts, TopIsNat, WriteAddsPiece
<1>8. AtMost(R, m + 1)
  <2>1. m + 1 \in Nat /\ m <= m + 1
    BY <1>7
  <2> QED
    BY <1>7, <2>1, AtMostTop
<1>9. ASSUME NEW g \in File, NEW a \in Nat, Precede(R, content[g], a) PROVE Precede(R, content'[g], a)
  <2>1. CASE g = out
    <3>1. StillPrecede(content[g], content'[g], Top)
      BY <1>1, <2>1, WriteWrites
    <3> QED
      BY <1>5, <1>7, <1>9, <3>1 DEF StillPrecede
  <2>2. CASE g # out
    BY <1>1, <1>9, <2>2, WriteWrites
  <2> QED
    BY <2>1, <2>2
<1>10. ASSUME NEW g \in File, Len(content'[g]) < offset PROVE Len(content[g]) < offset
  <2>1. Len(content[g]) \in Nat /\ offset \in Nat
    BY <1>1, MaxLinesAssumption DEF TypeOK
  <2>2. Len(content'[g]) = Len(content[g]) \/ Len(content'[g]) = Len(content[g]) + 1
    BY <1>1, WriteWrites
  <2> QED
    BY <1>10, <2>1, <2>2
<1>11. 0 \in Nat /\ offset \in Nat
  BY <1>1, MaxLinesAssumption DEF TypeOK
<1>12. ReadFirst
  BY <1>3, OrderParts
<1>13. ReadFirst'
  <2> SUFFICES ASSUME NEW g \in File
               PROVE  /\ fd < g => Precede(R, content'[g], 0)
                      /\ fd = g => Precede(R, content'[g], offset)
                      /\ fd = g /\ Len(content'[g]) < offset => Precede(R, content'[g], 0)
                      /\ pc = "reopening" /\ info = g => Precede(R, content'[g], 0)
    BY <1>2, <1>6 DEF ReadFirst
  <2>1. /\ fd < g => Precede(R, content[g], 0)
        /\ fd = g => Precede(R, content[g], offset)
        /\ fd = g /\ Len(content[g]) < offset => Precede(R, content[g], 0)
        /\ pc = "reopening" /\ info = g => Precede(R, content[g], 0)
    BY <1>2, <1>4, <1>12 DEF ReadFirst
  <2> QED
    BY <1>9, <1>10, <1>11, <2>1
<1> QED
  BY <1>6, <1>7, <1>8, <1>13

LEMMA TruncateOrder == ASSUME IInv, Truncate PROVE OrderInv'
<1>1. /\ UNCHANGED <<taken, pending, kind, fd, offset, info, overtaken, pc, inLine, written>> /\ kind = "file"
      /\ content' = [content EXCEPT ![path] = << >>]
  BY DEF Truncate, sourceVars, fileVars, recordVars, historyVars, controlVars
<1>2. SUFFICES ASSUME ~overtaken PROVE Increasing(ReadPieces)' /\ AtMost(ReadPieces, Top)' /\ ReadFirst'
  BY <1>1, FileOrder
<1>3. ReadPieces' = ReadPieces /\ Top' = Top
  BY <1>1 DEF ReadPieces, Top
<1>4. Increasing(ReadPieces) /\ AtMost(ReadPieces, Top) /\ ReadFirst
  BY <1>2, OrderParts
<1>5. ReadFirst'
  <2> SUFFICES ASSUME NEW g \in File
               PROVE  /\ fd < g => Precede(ReadPieces, content'[g], 0)
                      /\ fd = g => Precede(ReadPieces, content'[g], offset)
                      /\ fd = g /\ Len(content'[g]) < offset => Precede(ReadPieces, content'[g], 0)
                      /\ pc = "reopening" /\ info = g => Precede(ReadPieces, content'[g], 0)
    BY <1>1, <1>3 DEF ReadFirst
  <2>1. content'[g] = << >> \/ content'[g] = content[g]
    BY <1>1 DEF IInv, TypeOK
  <2>2. CASE content'[g] = << >>
    BY <2>2, NothingInOrder
  <2>3. CASE content'[g] = content[g]
    BY <1>1, <1>4, <2>3 DEF ReadFirst
  <2> QED
    BY <2>1, <2>2, <2>3
<1> QED
  BY <1>3, <1>4, <1>5

LEMMA TickRotatedOrder == ASSUME IInv, NEW accepted, TickRotated(accepted) PROVE OrderInv'
<1>1. /\ UNCHANGED <<taken, pending, kind, fd, offset, overtaken, inLine, written, content>> /\ kind = "file"
      /\ pc = "selecting" /\ pc' = "reopening" /\ info' = path /\ path # 0
      /\ Len(content[path]) < offset \/ path # info
  BY DEF TickRotated, FileChanged, sourceVars, writerVars, historyVars
<1>2. SUFFICES ASSUME ~overtaken PROVE Increasing(ReadPieces)' /\ AtMost(ReadPieces, Top)' /\ ReadFirst'
  BY <1>1, FileOrder
<1>3. ReadPieces' = ReadPieces /\ Top' = Top
  BY <1>1 DEF ReadPieces, Top
<1>4. Increasing(ReadPieces) /\ AtMost(ReadPieces, Top) /\ ReadFirst
  BY <1>2, OrderParts
<1>5. fd = info /\ fd <= files /\ path = files /\ path \in File /\ fd \in Nat /\ path \in Nat
  BY <1>1, <1>2, MaxFilesAssumption DEF IInv, FileInv, WriterInv, TypeOK, File
<1>6. Precede(ReadPieces, content[path], 0)
  <2>1. CASE path # info
    <3>1. fd < path
      BY <1>5, <2>1
    <3> QED
      BY <1>1, <1>4, <1>5, <3>1 DEF ReadFirst
  <2>2. CASE path = info /\ Len(content[path]) < offset
    BY <1>1, <1>4, <1>5, <2>2 DEF ReadFirst
  <2> QED
    BY <1>1, <2>1, <2>2
<1>7. ReadFirst'
  <2> SUFFICES ASSUME NEW g \in File
               PROVE  /\ fd < g => Precede(ReadPieces, content[g], 0)
                      /\ fd = g => Precede(ReadPieces, content[g], offset)
                      /\ fd = g /\ Len(content[g]) < offset => Precede(ReadPieces, content[g], 0)
                      /\ path = g => Precede(ReadPieces, content[g], 0)
    BY <1>1, <1>3 DEF ReadFirst
  <2> QED
    BY <1>1, <1>4, <1>6 DEF ReadFirst
<1> QED
  BY <1>3, <1>4, <1>7

LEMMA OpenExistingOrder == ASSUME IInv, OpenExistingTailFile PROVE OrderInv'
<1>1. /\ UNCHANGED <<taken, kind, info, overtaken, inLine, written, content>> /\ kind = "file"
      /\ pc = "reopening" /\ pc' = "reading" /\ fd' = path /\ path # 0 /\ offset' = 0 /\ pending' = << >>
  BY DEF IInv, FileInv, OpenExistingTailFile, sourceVars, writerVars, recordVars
<1>2. SUFFICES ASSUME ~overtaken PROVE Increasing(ReadPieces)' /\ AtMost(ReadPieces, Top)' /\ ReadFirst'
  BY <1>1, FileOrder
<1>3. PICK R : R = ReadPieces
  OBVIOUS
<1>4. PICK s : s = FlattenSeq(taken)
  OBVIOUS
<1>5. PICK p : p = pending
  OBVIOUS
<1>6. R = s \o p /\ s \in Seq(Piece) /\ p \in Seq(Piece)
  BY <1>3, <1>4, <1>5, ReadPiecesType DEF ReadPieces
<1>7. JoinOrder(s, p, R)
  BY <1>6, JoinInOrder
<1>8. ReadPieces' = s
  <2>1. s \o << >> = s
    BY <1>6, ConcatEmptySeq
  <2> QED
    BY <1>1, <1>4, <2>1 DEF ReadPieces
<1>9. Increasing(R) /\ AtMost(R, Top) /\ ReadFirst
  BY <1>2, <1>3, OrderParts
<1>10. info = path /\ path = files /\ path \in File
  BY <1>1, <1>2 DEF IInv, FileInv, WriterInv, TypeOK
<1>11. Precede(R, content[path], 0)
  BY <1>1, <1>3, <1>9, <1>10 DEF ReadFirst
<1>12. Increasing(s) /\ AtMost(s, Top) /\ Precede(s, content[path], 0)
  BY <1>7, <1>9, <1>11 DEF JoinOrder
<1>13. Top' = Top
  BY <1>1 DEF Top
<1>14. ReadFirst'
  <2> SUFFICES ASSUME NEW g \in File
               PROVE  /\ path < g => Precede(s, content[g], 0)
                      /\ path = g => Precede(s, content[g], 0)
    BY <1>1, <1>8 DEF ReadFirst
  <2>1. CASE path < g
    <3>1. out < g
      BY <1>10, <2>1, MaxFilesAssumption DEF IInv, WriterInv, TypeOK, File
    <3>2. content[g] = << >>
      BY <3>1 DEF IInv, ContentInv
    <3> QED
      BY <1>12, <3>2, NothingInOrder
  <2> QED
    BY <1>12, <2>1
<1> QED
  BY <1>8, <1>12, <1>13, <1>14

LEMMA ReadOrdered ==
    ASSUME IInv, NEW n \in Nat, NEW accepted, Read(n, accepted)
    PROVE  OrderInv'
<1>1. /\ UNCHANGED <<kind, fd, info, overtaken, inLine, written, content>> /\ kind = "file" /\ fd \in File
      /\ pc = "reading" /\ pc' \in {"reading", "finished"} /\ offset' = offset + n /\ offset + n <= Len(content[fd])
  <2>1. kind = "file" /\ fd \in File
    BY ReadReads
  <2> QED
    BY <2>1 DEF Read, Finish, sourceVars, writerVars
<1>2. SUFFICES ASSUME ~overtaken PROVE Increasing(ReadPieces)' /\ AtMost(ReadPieces, Top)' /\ ReadFirst'
  BY <1>1, FileOrder
<1>3. PICK R : R = ReadPieces
  OBVIOUS
<1>4. PICK c : c = content[fd]
  OBVIOUS
<1>5. PICK o : o = offset
  OBVIOUS
<1>6. PICK q : q = SubSeq(c, o + 1, o + n)
  OBVIOUS
<1>7. PICK N : N = R \o q
  OBVIOUS
<1>8. ReadPieces' = N
  BY <1>3, <1>4, <1>5, <1>6, <1>7, ReadGrows
<1>9. PICK T : T = HomePiece(fd)
  OBVIOUS
<1>10. /\ T \subseteq Piece /\ c \in Seq(T) /\ Increasing(c) /\ AtMost(c, Top) /\ o \in Nat /\ o + n <= Len(c)
       /\ Len(c) \in Nat /\ R \in Seq(Piece)
  <2>1. T \subseteq Piece /\ R \in Seq(Piece)
    BY <1>3, <1>9, HomeIsPiece, ReadPiecesType
  <2>2. c \in Seq(T) /\ Increasing(c) /\ AtMost(c, Top)
    BY <1>1, <1>4, <1>9 DEF IInv, ContentInv
  <2>3. o \in Nat /\ o + n <= Len(c)
    BY <1>1, <1>4, <1>5, MaxLinesAssumption DEF IInv, TypeOK
  <2> QED
    BY <2>1, <2>2, <2>3
<1>11. ReadOrder(T, c, o, n, q)
  BY <1>6, <1>10, ReadInPlace
<1>12. q \in Seq(Piece)
  BY <1>10, <1>11, SeqMonotonic DEF ReadOrder
<1>13. JoinOrder(R, q, N)
  BY <1>7, <1>10, <1>12, JoinInOrder
<1>14. Increasing(R) /\ AtMost(R, Top) /\ ReadFirst
  BY <1>2, <1>3, OrderParts
<1>15. Precede(R, c, o) /\ \A g \in File : fd < g => Precede(R, content[g], 0)
  BY <1>1, <1>3, <1>4, <1>5, <1>14 DEF ReadFirst
<1>16. Precede(R, q, 0) /\ Precede(R, c, o + n) /\ Increasing(q) /\ AtMost(q, Top) /\ Precede(q, c, o + n)
  BY <1>10, <1>11, <1>15 DEF ReadOrder
<1>17. Increasing(N) /\ AtMost(N, Top) /\ Precede(N, c, o + n)
  BY <1>13, <1>14, <1>16 DEF JoinOrder
<1>18. ASSUME NEW g \in File, fd < g PROVE Precede(N, content[g], 0)
  <2>1. Precede(c, content[g], 0)
    BY <1>1, <1>4, <1>18 DEF IInv, ContentInv
  <2>2. Precede(q, content[g], 0)
    BY <1>11, <2>1 DEF ReadOrder
  <2> QED
    BY <1>13, <1>15, <1>18, <2>2 DEF JoinOrder
<1>19. Top' = Top
  BY <1>1 DEF Top
<1>20. ReadFirst'
  <2> SUFFICES ASSUME NEW g \in File
               PROVE  /\ fd < g => Precede(N, content[g], 0)
                      /\ fd = g => Precede(N, content[g], offset + n)
                      /\ ~(fd = g /\ Len(content[g]) < offset + n)
    BY <1>1, <1>8 DEF ReadFirst
  <2>1. fd = g => ~(Len(content[g]) < offset + n)
    BY <1>4, <1>5, <1>10
  <2> QED
    BY <1>4, <1>5, <1>17, <1>18, <2>1
<1> QED
  BY <1>8, <1>17, <1>19, <1>20

LEMMA ReceiveOrder == ASSUME IInv, NEW accepted, Receive(accepted) PROVE OrderInv'
<1>1. UNCHANGED <<kind, overtaken, inLine, written, scanned>> /\ offered' = 0
  BY DEF Receive, sourceVars, writerVars, historyVars
<1>2. kind = "stdin" /\ offered \in Number /\ ReadPieces' = ReadPieces \o WholeLine(offered)
  BY ReceiveReceives
<1>3. SUFFICES ASSUME ~overtaken
               PROVE  Increasing(ReadPieces)' /\ AtMost(ReadPieces, Top)' /\ AtMost(ReadPieces', 2 * scanned + 1)
  <2>1. kind' # "file"
    BY <1>1, <1>2
  <2> QED
    BY <1>1, <1>3, <2>1 DEF OrderInv
<1>4. PICK R : R = ReadPieces
  OBVIOUS
<1>5. PICK k : k = offered
  OBVIOUS
<1>6. PICK w : w = WholeLine(k)
  OBVIOUS
<1>7. PICK N : N = R \o w
  OBVIOUS
<1>8. ReadPieces' = N
  BY <1>2, <1>4, <1>5, <1>6, <1>7
<1>9. k = scanned /\ k \in Nat /\ k > 0 /\ k <= written /\ written \in Nat /\ Top = 2 * written + 1 /\ Top' = Top
  <2>1. offered \in {0, scanned}
    BY <1>2, <1>3 DEF IInv, OrderInv
  <2>2. offered # 0 /\ offered \in Nat
    BY <1>2, MaxLinesAssumption DEF Number
  <2>3. offered = scanned /\ scanned \in 0 .. written /\ written \in Nat
    BY <2>1, <2>2, TopIsNat DEF IInv, TypeOK
  <2>4. ~inLine
    BY <1>2 DEF IInv, WriterInv
  <2>5. Top = 2 * written + 1 /\ Top' = Top
    BY <1>1, <2>4 DEF Top
  <2> QED
    BY <1>5, <2>2, <2>3, <2>5
<1>10. R \in Seq(Piece) /\ Increasing(R) /\ AtMost(R, 2 * k - 1)
  <2>1. R \in Seq(Piece) /\ Increasing(R)
    BY <1>3, <1>4, OrderParts, ReadPiecesType
  <2>2. AtMost(ReadPieces, IF offered = 0 THEN 2 * scanned + 1 ELSE 2 * scanned - 1)
    BY <1>2, <1>3 DEF IInv, OrderInv
  <2>3. offered # 0
    BY <1>5, <1>9
  <2> QED
    BY <1>4, <1>9, <2>1, <2>2, <2>3
<1>11. /\ w \in Seq(Piece) /\ Increasing(w) /\ AtMost(w, 2 * k + 1)
       /\ Len(w) = 2 /\ PlaceOf(w[1]) = 2 * k /\ PlaceOf(w[2]) = 2 * k + 1
  BY <1>2, <1>5, <1>6, WholeLinePlaces DEF Line
<1>12. Precede(R, w, 0)
  <2> SUFFICES ASSUME NEW i \in 1 .. Len(R), NEW j \in 1 .. 2 PROVE PlaceOf(R[i]) < PlaceOf(w[j])
    BY <1>11 DEF Precede
  <2>1. PICK x : x = PlaceOf(R[i])
    OBVIOUS
  <2>2. x \in Nat /\ x <= 2 * k - 1
    BY <1>10, <2>1, PlaceIsNat DEF AtMost
  <2>3. x < 2 * k /\ x < 2 * k + 1
    BY <1>9, <2>2
  <2>4. j = 1 \/ j = 2
    OBVIOUS
  <2> QED
    BY <1>11, <2>1, <2>3, <2>4
<1>13. JoinOrder(R, w, N)
  BY <1>7, <1>10, <1>11, JoinInOrder
<1>14. PICK b : b = 2 * k + 1
  OBVIOUS
<1>15. PICK a : a = 2 * k - 1
  OBVIOUS
<1>16. a \in Nat /\ b \in Nat /\ a <= b /\ Top \in Nat /\ b <= Top /\ AtMost(R, a) /\ AtMost(w, b)
  BY <1>9, <1>10, <1>11, <1>14, <1>15
<1>17. AtMost(R, b)
  BY <1>10, <1>16, AtMostTop
<1>18. Increasing(N) /\ AtMost(N, b) /\ N \in Seq(Piece)
  BY <1>10, <1>11, <1>12, <1>13, <1>16, <1>17 DEF JoinOrder
<1>19. AtMost(N, Top)
  BY <1>16, <1>18, AtMostTop
<1> QED
  BY <1>8, <1>9, <1>14, <1>18, <1>19

LEMMA ScanOrder == ASSUME IInv, Scan \/ ScannerEnds PROVE OrderInv'
<1>1. UNCHANGED <<taken, pending, kind, overtaken, inLine, written>> /\ kind = "stdin"
  BY DEF Scan, ScannerEnds, sourceVars, writerVars, fileVars, historyVars, recordVars
<1>2. SUFFICES ASSUME ~overtaken
               PROVE  /\ Increasing(ReadPieces)' /\ AtMost(ReadPieces, Top)' /\ offered' \in {0, scanned'}
                      /\ AtMost(ReadPieces', IF offered' = 0 THEN 2 * scanned' + 1 ELSE 2 * scanned' - 1)
  <2>1. kind' # "file"
    BY <1>1
  <2> QED
    BY <1>1, <1>2, <2>1 DEF OrderInv
<1>3. ReadPieces' = ReadPieces /\ Top' = Top
  BY <1>1 DEF ReadPieces, Top
<1>4. PICK R : R = ReadPieces
  OBVIOUS
<1>5. PICK k : k = scanned
  OBVIOUS
<1>6. R \in Seq(Piece) /\ Increasing(R) /\ AtMost(R, Top) /\ k \in Nat
  BY <1>2, <1>4, <1>5, ReadPiecesType, OrderParts, TopIsNat DEF IInv, TypeOK
<1>7. offered \in {0, k} /\ AtMost(R, IF offered = 0 THEN 2 * k + 1 ELSE 2 * k - 1)
  BY <1>1, <1>2, <1>4, <1>5 DEF IInv, OrderInv
<1>8. CASE Scan
  <2>1. offered = 0 /\ scanned' = k + 1 /\ offered' = k + 1
    BY <1>5, <1>8 DEF Scan
  <2>2. 2 * (k + 1) - 1 = 2 * k + 1 /\ k + 1 # 0
    BY <1>6
  <2> QED
    BY <1>3, <1>4, <1>6, <1>7, <2>1, <2>2
<1>9. CASE ScannerEnds
  <2>1. offered' = 0 /\ scanned' = k
    BY <1>5, <1>9 DEF ScannerEnds
  <2>2. AtMost(R, 2 * k + 1)
    <3>1. CASE offered = 0
      BY <1>7, <3>1
    <3>2. CASE offered # 0
      <4>1. PICK a : a = 2 * k - 1
        OBVIOUS
      <4>2. PICK b : b = 2 * k + 1
        OBVIOUS
      <4>3. a \in Int /\ b \in Int /\ a <= b /\ AtMost(R, a)
        BY <1>6, <1>7, <3>2, <4>1, <4>2
      <4>4. AtMost(R, b)
        BY <1>6, <4>3, AtMostMore
      <4> QED
        BY <4>2, <4>4
    <3> QED
      BY <3>1, <3>2
  <2> QED
    BY <1>3, <1>4, <1>6, <2>1, <2>2
<1> QED
  BY <1>8, <1>9

LEMMA SendLineOrder == ASSUME IInv, SendLine PROVE OrderInv'
<1>1. UNCHANGED <<taken, pending, kind, overtaken, inLine, offered, scanned>> /\ kind = "stdin" /\ written' = written + 1
  BY DEF SendLine, sourceVars, fileVars, historyVars, recordVars, stdinVars
<1>2. SUFFICES ASSUME ~overtaken PROVE AtMost(ReadPieces, Top')
  <2>1. kind' # "file" /\ ReadPieces' = ReadPieces
    BY <1>1 DEF ReadPieces
  <2> QED
    BY <1>1, <1>2, <2>1 DEF IInv, OrderInv
<1>3. PICK R : R = ReadPieces
  OBVIOUS
<1>4. R \in Seq(Piece) /\ AtMost(R, Top)
  BY <1>2, <1>3, ReadPiecesType, OrderParts
<1>5. Top \in Nat /\ Top' \in Nat /\ Top <= Top'
  <2>1. written \in Nat /\ ~inLine
    BY <1>1, TopIsNat DEF IInv, WriterInv
  <2> QED
    BY <1>1, <2>1 DEF Top
<1> QED
  BY <1>3, <1>4, <1>5, AtMostTop

LEMMA OrderStep == IInv /\ Next => OrderInv'
<1> SUFFICES ASSUME IInv, Next PROVE OrderInv'
  OBVIOUS
<1>1. CASE Write
  BY <1>1, WriteOrder
<1>2. CASE Truncate
  BY <1>2, TruncateOrder
<1>3. CASE SendLine
  BY <1>3, SendLineOrder
<1>4. CASE MoveAway \/ ReopenLog \/ CloseStream \/ Disconnect \/ Stop
  <2>1. UNCHANGED <<taken, pending, inLine, written, kind, fd, content, offset, info, offered, scanned, pc, overtaken>>
    BY <1>4 DEF MoveAway, ReopenLog, CloseStream, Disconnect, Stop,
         sourceVars, writerVars, fileVars, stdinVars, recordVars, historyVars, controlVars
  <2> QED
    BY <2>1, SameOrder
<1>13. CASE CreateFile
  <2>1. UNCHANGED <<taken, pending, inLine, written, kind, fd, content, offset, info, offered, scanned, pc>>
    BY <1>13 DEF CreateFile, sourceVars, writerVars, fileVars, stdinVars, recordVars, controlVars
  <2>2. overtaken' = (overtaken \/ pc = "reopening")
    BY <1>13 DEF CreateFile
  <2>3. overtaken => overtaken'
    BY Zenon, <2>2
  <2> QED
    BY <2>1, <2>3, SameOrder
<1>5. CASE Tick \/ GiveUp \/ EndOfFile \/ ReadFails
  <2>1. /\ UNCHANGED <<taken, pending, inLine, written, kind, fd, content, offset, info, offered, scanned, overtaken>>
        /\ pc' # "reopening"
    BY <1>5 DEF Tick, GiveUp, EndOfFile, ReadFails, Finish, sourceVars, writerVars, fileVars, stdinVars, recordVars, historyVars
  <2> QED
    BY <2>1, SameOrder
<1>6. CASE OpenTailFile
  <2>1. taken = << >> /\ pending = << >> /\ kind = "file"
    BY <1>6 DEF IInv, FileInv, OpenTailFile
  <2>2. taken' = taken /\ pending' = pending /\ kind' = kind
    BY <1>6 DEF OpenTailFile, recordVars, fileVars, sourceVars
  <2>3. ReadPieces' = << >>
    <3>1. << >> \o << >> = << >>
      BY ConcatEmptySeq, EmptySeq
    <3> QED
      BY <2>1, <2>2, <3>1, FlattenEmpty DEF ReadPieces
  <2>4. Increasing(ReadPieces)' /\ AtMost(ReadPieces, Top)' /\ ReadFirst'
    BY <2>3, NothingInOrder DEF ReadFirst
  <2> QED
    BY <2>1, <2>2, <2>4, FileOrder
<1>7. CASE OpenExistingTailFile
  BY <1>7, OpenExistingOrder
<1>8. ASSUME NEW accepted \in BOOLEAN, TickRotated(accepted) PROVE OrderInv'
  BY <1>8, TickRotatedOrder
<1>9. ASSUME NEW accepted \in BOOLEAN, NEW n \in 1 .. 2 * MaxLines, Read(n, accepted) PROVE OrderInv'
  <2>1. n \in Nat
    BY MaxLinesAssumption
  <2> QED
    BY <1>9, <2>1, ReadOrdered
<1>10. CASE Scan \/ ScannerEnds
  BY <1>10, ScanOrder
<1>11. ASSUME NEW accepted \in BOOLEAN, Receive(accepted) PROVE OrderInv'
  BY <1>11, ReceiveOrder
<1>12. ASSUME NEW accepted \in BOOLEAN, TickBatch(accepted) \/ EndOfInput(accepted) \/ FinishFlushed(accepted)
       PROVE  OrderInv'
  <2>1. /\ UNCHANGED <<taken, pending, inLine, written, kind, fd, content, offset, info, offered, scanned, overtaken>>
        /\ pc' = "reopening" => pc = "reopening"
    BY <1>12 DEF TickBatch, EndOfInput, FinishFlushed, Finish, sourceVars, writerVars, fileVars, stdinVars, recordVars, historyVars
  <2> QED
    BY <2>1, SameOrder
<1> QED
  BY <1>1, <1>2, <1>3, <1>4, <1>13, <1>5, <1>6, <1>7, <1>8, <1>9, <1>10, <1>11, <1>12
  DEF Next, Rotate, Client, FollowFile, ReadStdin

LEMMA EndStep == IInv /\ Next => EndInv'
<1> SUFFICES ASSUME IInv, Next PROVE EndInv'
  OBVIOUS
<1>1. TypeOK /\ EndInv /\ FileInv
  BY DEF IInv
<1>2. ASSUME UNCHANGED <<pc, status, held, batch, kind, folding, taken, handed, refused>>, stopping => stopping'
      PROVE EndInv'
  BY <1>1, <1>2 DEF EndInv
<1>3. CASE Write \/ MoveAway \/ CreateFile \/ ReopenLog \/ Truncate \/ SendLine \/ CloseStream \/ Disconnect
           \/ Scan \/ ScannerEnds
  <2>1. UNCHANGED <<pc, status, held, batch, kind, folding, taken, handed, refused, stopping>>
    BY <1>3 DEF Write, MoveAway, CreateFile, ReopenLog, Truncate, SendLine, CloseStream, Disconnect, Scan, ScannerEnds,
         sourceVars, stdinVars, recordVars, controlVars
  <2> QED
    BY <1>2, <2>1
<1>4. CASE Stop
  <2>1. UNCHANGED <<pc, status, held, batch, kind, folding, taken, handed, refused>> /\ stopping' = TRUE
    BY <1>4 DEF Stop, sourceVars, stdinVars, recordVars
  <2> QED
    BY <1>2, <2>1
\* A step after which the source runs or has failed, with what it stores unchanged.
<1>5. CASE OpenTailFile \/ Tick \/ OpenExistingTailFile \/ GiveUp \/ EndOfFile \/ ReadFails
  <2>1. /\ UNCHANGED <<held, batch, kind, folding, taken, handed, refused, stopping>> /\ pc # "finished"
        /\ \/ pc' # "finished" /\ status' = status
           \/ pc' = "finished" /\ status' = "error"
    BY <1>5 DEF OpenTailFile, Tick, OpenExistingTailFile, GiveUp, EndOfFile, ReadFails, Finish,
         sourceVars, stdinVars, recordVars
  <2>2. status = "running"
    BY <1>1, <2>1 DEF EndInv
  <2> QED
    BY <1>1, <2>1, <2>2 DEF EndInv
\* A step that stores lines, and ends the source if the store refuses them.
<1>6. ASSUME NEW accepted \in BOOLEAN, StoredWell, taken' = Given' \o batch', accepted => refused' = refused,
             UNCHANGED <<kind, folding, stopping>>, pc # "finished",
             \/ accepted /\ pc' # "finished" /\ status' = status
             \/ ~accepted /\ pc' = "finished" /\ status' = "error"
      PROVE  EndInv'
  <2>1. status = "running"
    BY <1>1, <1>6 DEF EndInv
  <2>2. taken' = FlattenSeq(handed') \o held' \o batch' /\ (~folding => held' = << >>)
    BY <1>6 DEF Given, StoredWell
  <2>3. kind = "stdin" => refused = {}
    BY <1>1, <2>1 DEF EndInv
  <2>4. status' \in {"running", "error"} /\ (pc' = "finished" <=> status' # "running")
    BY <1>6, <2>1
  <2>5. kind' = "stdin" /\ status' = "running" => refused' = {}
    BY <1>6, <2>1, <2>3
  <2> QED
    BY <1>6, <2>2, <2>4, <2>5 DEF EndInv
<1>7. ASSUME NEW accepted \in BOOLEAN, NEW n \in 1 .. 2 * MaxLines, Read(n, accepted) PROVE EndInv'
  <2>1. n \in Nat
    BY MaxLinesAssumption
  <2>2. StoredWell /\ taken' = Given' \o batch' /\ (accepted => refused' = refused)
    BY <1>7, <2>1, ReadStores
  <2>3. /\ UNCHANGED <<kind, folding, stopping>> /\ pc # "finished"
        /\ \/ accepted /\ pc' # "finished" /\ status' = status
           \/ ~accepted /\ pc' = "finished" /\ status' = "error"
    BY <1>7 DEF Read, Finish, sourceVars
  <2> QED
    BY <1>6, <2>2, <2>3
<1>8. ASSUME NEW accepted \in BOOLEAN, Receive(accepted) PROVE EndInv'
  <2>1. StoredWell /\ taken' = Given' \o batch' /\ (accepted => refused' = refused)
    BY <1>8, ReceiveStores
  <2>2. /\ UNCHANGED <<kind, folding, stopping>> /\ pc # "finished"
        /\ \/ accepted /\ pc' # "finished" /\ status' = status
           \/ ~accepted /\ pc' = "finished" /\ status' = "error"
    BY <1>8 DEF Receive, Finish, sourceVars
  <2> QED
    BY <1>6, <2>1, <2>2
<1>9. ASSUME NEW accepted \in BOOLEAN, TickBatch(accepted) \/ EndOfInput(accepted) PROVE EndInv'
  <2>1. StoredWell /\ taken' = Given' \o batch' /\ (accepted => refused' = refused)
    BY <1>9, BatchStores
  <2>2. /\ UNCHANGED <<kind, folding, stopping>> /\ pc # "finished"
        /\ \/ accepted /\ pc' # "finished" /\ status' = status
           \/ ~accepted /\ pc' = "finished" /\ status' = "error"
    BY <1>9 DEF TickBatch, EndOfInput, Finish, sourceVars
  <2> QED
    BY <1>6, <2>1, <2>2
<1>10. ASSUME NEW accepted \in BOOLEAN, TickRotated(accepted) PROVE EndInv'
  <2>1. StoredWell /\ taken' = Given' \o batch'
    BY <1>10, TickRotatedStores
  <2>2. taken' = FlattenSeq(handed') \o held' \o batch' /\ (~folding => held' = << >>)
    BY <2>1 DEF Given, StoredWell
  <2>3. UNCHANGED <<kind, folding, stopping, status>> /\ pc # "finished" /\ pc' # "finished" /\ kind = "file"
    BY <1>10 DEF TickRotated, sourceVars
  <2>4. status = "running"
    BY <1>1, <2>3 DEF EndInv
  <2> QED
    BY <2>2, <2>3, <2>4 DEF EndInv
<1>11. ASSUME NEW accepted \in BOOLEAN, FinishFlushed(accepted) PROVE EndInv'
  <2>1. StoredWell /\ taken' = Given' \o batch' /\ held' = << >> /\ refused' \subseteq refused \union {Len(handed')}
    BY <1>11, FinishFlushedStores
  <2>2. taken' = FlattenSeq(handed') \o held' \o batch' /\ (~folding => held' = << >>)
    BY <2>1 DEF Given, StoredWell
  <2>3. /\ UNCHANGED <<kind, folding, stopping, batch>> /\ pc' = "finished" /\ status' \in {"stopped", "error"}
        /\ (pc = "selecting" /\ stopping) \/ pc = "draining"
    BY <1>11 DEF FinishFlushed, Finish, sourceVars, stdinVars
  <2>4. status = "running"
    BY <1>1, <2>3 DEF EndInv
  <2>5. kind = "stdin" => refused = {}
    BY <1>1, <2>4 DEF EndInv
  <2>6. batch = << >> \/ (kind = "stdin" /\ stopping)
    BY <1>1, <2>3 DEF FileInv, TypeOK
  <2>7. kind = "stdin" => refused' \subseteq {Len(handed')}
    BY <2>1, <2>5
  <2> QED
    BY <2>1, <2>2, <2>3, <2>6, <2>7 DEF EndInv
<1> QED
  BY <1>3, <1>4, <1>5, <1>7, <1>8, <1>9, <1>10, <1>11
  DEF Next, Rotate, Client, FollowFile, ReadStdin

LEMMA TypeStep == IInv /\ Next => TypeOK'
<1> SUFFICES ASSUME IInv, Next PROVE TypeOK'
  OBVIOUS
<1>1. TypeOK /\ FileInv /\ WriterInv /\ ContentInv
  BY DEF IInv
<1>0. MaxLines \in Nat /\ MaxFiles \in Nat /\ \A T : << >> \in Seq(T)
  BY MaxLinesAssumption, MaxFilesAssumption, EmptySeq
<1>2. CASE Write
  <2>1. written' \in Number /\ home' \in [Number -> {0} \union File] /\ inLine' = ~inLine
        /\ content' = [content EXCEPT ![out] = Append(@, WrittenPiece)] /\ written <= written'
    BY <1>1, <1>2, WriteAddsPiece
  <2>2. WrittenPiece \in Piece
    BY <1>1, <2>1 DEF WrittenPiece, Piece, TypeOK
  <2>3. content' \in [File -> Seq(Piece)]
    <3>1. \A f \in File : Append(content[f], WrittenPiece) \in Seq(Piece)
      BY <1>1, <2>2, AppendProperties DEF TypeOK
    <3> QED
      BY <1>1, <2>1, <3>1 DEF TypeOK
  <2>4. written' \in 0 .. MaxLines /\ scanned \in 0 .. written' /\ before \in 0 .. written'
    BY <1>0, <1>1, <2>1 DEF TypeOK, Number
  <2>5. inLine' \in BOOLEAN
    BY Zenon, <2>1
  <2>6. UNCHANGED <<sourceVars, files, path, out, closed, fileVars, stdinVars, recordVars, historyVars, controlVars>>
    BY <1>2 DEF Write
  <2> QED
    BY <1>1, <2>1, <2>3, <2>4, <2>5, <2>6
    DEF TypeOK, sourceVars, fileVars, stdinVars, recordVars, historyVars, controlVars
<1>3. CASE MoveAway
  BY <1>1, <1>3 DEF TypeOK, MoveAway, sourceVars, fileVars, stdinVars, recordVars, historyVars, controlVars
<1>4. CASE CreateFile
  <2>1. files' \in File /\ path' \in {0} \union File
    BY <1>0, <1>1, <1>4 DEF TypeOK, CreateFile, File
  <2>2. overtaken' = (overtaken \/ pc = "reopening")
    BY <1>4 DEF CreateFile
  <2>3. overtaken' \in BOOLEAN
    BY Zenon, <2>2
  <2>4. UNCHANGED <<sourceVars, written, content, home, out, inLine, closed, fileVars, stdinVars, recordVars, before, cut, controlVars>>
    BY <1>4 DEF CreateFile
  <2> QED
    BY <1>1, <2>1, <2>3, <2>4 DEF TypeOK, sourceVars, fileVars, stdinVars, recordVars, controlVars
<1>5. CASE ReopenLog
  BY <1>1, <1>5 DEF TypeOK, ReopenLog, sourceVars, fileVars, stdinVars, recordVars, historyVars, controlVars
<1>6. CASE Truncate
  <2>1. content' \in [File -> Seq(Piece)]
    BY <1>0, <1>1, <1>6 DEF TypeOK, Truncate
  <2>2. cut' \in {"no", "yes", "missed"}
    BY <1>1, <1>6 DEF TypeOK, Truncate
  <2>3. UNCHANGED <<sourceVars, written, home, files, path, out, inLine, closed, fileVars, stdinVars, recordVars, before, overtaken, controlVars>>
    BY <1>6 DEF Truncate
  <2> QED
    BY <1>1, <2>1, <2>2, <2>3 DEF TypeOK, sourceVars, fileVars, stdinVars, recordVars, controlVars
<1>7. CASE SendLine
  <2>1. written' \in 0 .. MaxLines /\ scanned \in 0 .. written' /\ before \in 0 .. written'
    BY <1>0, <1>1, <1>7 DEF TypeOK, SendLine
  <2>2. UNCHANGED <<sourceVars, content, home, files, path, out, inLine, closed, fileVars, stdinVars, recordVars, historyVars, controlVars>>
    BY <1>7 DEF SendLine
  <2> QED
    BY <1>1, <2>1, <2>2 DEF TypeOK, sourceVars, fileVars, stdinVars, recordVars, historyVars, controlVars
<1>8. CASE CloseStream \/ Disconnect
  <2>1. closed' \in BOOLEAN /\ requestDone' \in BOOLEAN
    <3>1. CASE CloseStream
      <4>1. closed' = TRUE /\ requestDone' = requestDone
        BY <3>1 DEF CloseStream, controlVars
      <4> QED
        BY <1>1, <4>1 DEF TypeOK
    <3>2. CASE Disconnect
      <4>1. requestDone' = TRUE /\ closed' = closed
        BY <3>2 DEF Disconnect, writerVars
      <4> QED
        BY <1>1, <4>1 DEF TypeOK
    <3> QED
      BY <1>8, <3>1, <3>2
  <2>2. UNCHANGED <<sourceVars, written, content, home, files, path, out, inLine, fileVars,
                    stdinVars, recordVars, historyVars, pc, stopping, status>>
    BY <1>8 DEF CloseStream, Disconnect, writerVars, controlVars
  <2> QED
    BY <1>1, <2>1, <2>2 DEF TypeOK, sourceVars, fileVars, stdinVars, recordVars, historyVars
<1>9. CASE Stop
  <2>1. requestDone' = (requestDone \/ kind = "stdin") /\ stopping' = TRUE
    BY <1>9 DEF Stop
  <2>2. requestDone' \in BOOLEAN
    BY Zenon, <2>1
  <2>3. UNCHANGED <<sourceVars, writerVars, fileVars, stdinVars, recordVars, historyVars, pc, status>>
    BY <1>9 DEF Stop
  <2> QED
    BY <1>1, <2>1, <2>2, <2>3 DEF TypeOK, sourceVars, writerVars, fileVars, stdinVars, recordVars, historyVars
<1>10. CASE OpenTailFile
  <2>1. UNCHANGED <<sourceVars, writerVars, stdinVars, recordVars, overtaken, cut, stopping, requestDone>> /\ before' = written
    BY <1>10 DEF OpenTailFile
  <2>2. before' \in 0 .. written
    BY <1>0, <1>1, <2>1 DEF TypeOK
  <2>3. pending' = pending /\ fd' \in {0} \union File /\ info' \in {0} \union File
    BY <1>1, <1>10 DEF TypeOK, OpenTailFile, fileVars
  <2>4. /\ pc' \in {"opening", "selecting", "reopening", "reading", "draining", "finished"}
        /\ status' \in {"running", "stopped", "error"}
    BY <1>1, <1>10 DEF TypeOK, OpenTailFile, Finish
  <2>5. offset' \in 0 .. 2 * MaxLines
    <3>1. CASE path = 0
      BY <1>1, <1>10, <3>1 DEF TypeOK, OpenTailFile, fileVars
    <3>2. CASE path # 0
      <4>1. path \in File /\ offset' = Len(content[path])
        BY <1>1, <1>10, <3>2 DEF TypeOK, OpenTailFile
      <4>2. Len(content[path]) \in Nat /\ Len(content[path]) < Top
        BY <1>1, <4>1 DEF TypeOK, ContentInv
      <4>3. Top <= 2 * MaxLines + 1 /\ Top \in Nat
        BY <1>0, <1>1 DEF TypeOK, Top
      <4> QED
        BY <1>0, <4>1, <4>2, <4>3
    <3> QED
      BY <3>1, <3>2
  <2> QED
    BY <1>1, <2>1, <2>2, <2>3, <2>4, <2>5 DEF TypeOK, sourceVars, writerVars, stdinVars, recordVars
<1>11. CASE Tick \/ GiveUp \/ EndOfFile \/ ReadFails
  <2>1. UNCHANGED <<sourceVars, writerVars, fileVars, stdinVars, recordVars, before, overtaken, stopping, requestDone>>
    BY <1>11 DEF Tick, GiveUp, EndOfFile, ReadFails, historyVars
  <2>2. /\ pc' \in {"opening", "selecting", "reopening", "reading", "draining", "finished"}
        /\ status' \in {"running", "stopped", "error"} /\ cut' \in {"no", "yes", "missed"}
    BY <1>1, <1>11 DEF TypeOK, Tick, GiveUp, EndOfFile, ReadFails, Finish, historyVars
  <2> QED
    BY <1>1, <2>1, <2>2 DEF TypeOK, sourceVars, writerVars, fileVars, stdinVars, recordVars
<1>12. CASE OpenExistingTailFile
  <2>1. UNCHANGED <<sourceVars, writerVars, info, stdinVars, recordVars, before, overtaken, stopping, requestDone, status>>
    BY <1>12 DEF OpenExistingTailFile
  <2>2. /\ pc' = "reading" /\ cut' \in {"no", "yes", "missed"} /\ fd' = path /\ offset' = 0 /\ pending' = << >>
    BY <1>1, <1>12 DEF TypeOK, OpenExistingTailFile
  <2>3. offset' \in 0 .. 2 * MaxLines /\ pending' \in Seq([line : Number, ends : {FALSE}])
    BY <1>0, <2>2
  <2> QED
    BY <1>1, <2>1, <2>2, <2>3 DEF TypeOK, sourceVars, writerVars, stdinVars, recordVars
<1>13. ASSUME NEW accepted \in BOOLEAN, TickRotated(accepted) PROVE TypeOK'
  <2>1. UNCHANGED <<sourceVars, writerVars, fd, offset, pending, stdinVars, taken, historyVars, stopping, requestDone, status>>
        /\ info' = path /\ pc' = "reopening"
    BY <1>13 DEF TickRotated
  <2>2. StoredWell
    BY <1>13, TickRotatedStores
  <2> QED
    BY <1>1, <2>1, <2>2 DEF TypeOK, StoredWell, sourceVars, writerVars, stdinVars, historyVars
<1>14. ASSUME NEW accepted \in BOOLEAN, NEW n \in 1 .. 2 * MaxLines, Read(n, accepted) PROVE TypeOK'
  <2>1. UNCHANGED <<sourceVars, writerVars, fd, info, stdinVars, before, overtaken, stopping, requestDone>>
    BY <1>14 DEF Read
  <2>2. /\ pc' \in {"opening", "selecting", "reopening", "reading", "draining", "finished"}
        /\ status' \in {"running", "stopped", "error"} /\ cut' \in {"no", "yes", "missed"}
    BY <1>1, <1>14 DEF TypeOK, Read, Finish
  <2>3. n \in Nat
    BY <1>0
  <2>4. StoredWell
    BY <1>14, <2>3, ReadStores
  <2>5. taken' \in Seq(Line)
    BY <1>14, <2>3, ReadGrows
  <2>6. pending' \in Seq([line : Number, ends : {FALSE}]) /\ fd \in File
    BY <1>14, <2>3, ReadReads DEF ReadsPieces
  <2>7. offset' \in 0 .. 2 * MaxLines
    <3>1. offset' = offset + n /\ offset + n <= Len(content[fd]) /\ offset \in Nat
      BY <1>0, <1>1, <1>14 DEF TypeOK, Read
    <3>2. Len(content[fd]) \in Nat /\ Len(content[fd]) < Top
      BY <1>1, <2>6 DEF TypeOK, ContentInv
    <3>3. Top <= 2 * MaxLines + 1 /\ Top \in Nat
      BY <1>0, <1>1 DEF TypeOK, Top
    <3>4. PICK L : L = Len(content[fd])
      OBVIOUS
    <3>5. L <= 2 * MaxLines /\ offset + n <= L /\ L \in Nat
      BY <1>0, <3>1, <3>2, <3>3, <3>4
    <3> QED
      BY <1>0, <2>3, <3>1, <3>5
  <2>8. home' \in [Number -> {0} \union File] /\ before' \in 0 .. written' /\ batch' \in Seq(Line)
        /\ Len(batch') < BatchLines /\ content' \in [File -> Seq(Piece)] /\ header' \subseteq Number
    BY <1>1, <2>1 DEF TypeOK, sourceVars, writerVars, stdinVars
  <2>9. held' \in Seq(Line) /\ handed' \in Seq(Seq(Line)) /\ refused' \subseteq DOMAIN handed'
    BY <2>4 DEF StoredWell
  <2>10. /\ kind' \in {"file", "stdin"} /\ folding' \in BOOLEAN /\ written' \in 0 .. MaxLines /\ files' \in File
         /\ path' \in {0} \union File /\ out' \in File /\ inLine' \in BOOLEAN /\ closed' \in BOOLEAN
         /\ eof' \in BOOLEAN /\ fd' \in {0} \union File /\ info' \in {0} \union File
         /\ scanned' \in 0 .. written' /\ offered' \in 0 .. scanned'
         /\ stopping' \in BOOLEAN /\ requestDone' \in BOOLEAN /\ overtaken' \in BOOLEAN
    BY <1>1, <2>1 DEF TypeOK, sourceVars, writerVars, stdinVars
  <2> QED
    BY <2>2, <2>5, <2>6, <2>7, <2>8, <2>9, <2>10 DEF TypeOK
<1>15. CASE Scan \/ ScannerEnds
  <2>1. UNCHANGED <<sourceVars, writerVars, fileVars, batch, recordVars, historyVars, controlVars>>
    BY <1>15 DEF Scan, ScannerEnds
  <2>2. scanned' \in 0 .. written /\ offered' \in 0 .. scanned'
    BY <1>0, <1>1, <1>15 DEF TypeOK, Scan, ScannerEnds
  <2>3. eof' \in BOOLEAN
    BY <1>1, <1>15 DEF TypeOK, Scan, ScannerEnds
  <2> QED
    BY <1>1, <2>1, <2>2, <2>3 DEF TypeOK, sourceVars, writerVars, fileVars, recordVars, historyVars, controlVars
<1>16. ASSUME NEW accepted \in BOOLEAN, Receive(accepted) PROVE TypeOK'
  <2>1. UNCHANGED <<sourceVars, writerVars, fileVars, scanned, eof, historyVars, stopping, requestDone>> /\ offered' = 0
    BY <1>16 DEF Receive
  <2>2. /\ pc' \in {"opening", "selecting", "reopening", "reading", "draining", "finished"}
        /\ status' \in {"running", "stopped", "error"}
    BY <1>1, <1>16 DEF TypeOK, Receive, Finish
  <2>3. StoredWell /\ batch' \in Seq(Line) /\ Len(batch') < BatchLines
    BY <1>16, ReceiveStores
  <2>4. taken' \in Seq(Line)
    BY <1>16, ReceiveReceives
  <2>5. offered' \in 0 .. scanned
    BY <1>0, <1>1, <2>1 DEF TypeOK
  <2> QED
    BY <1>1, <2>1, <2>2, <2>3, <2>4, <2>5 DEF TypeOK, StoredWell, sourceVars, writerVars, fileVars, historyVars
<1>17. ASSUME NEW accepted \in BOOLEAN, TickBatch(accepted) \/ EndOfInput(accepted) PROVE TypeOK'
  <2>1. UNCHANGED <<sourceVars, writerVars, fileVars, scanned, offered, eof, taken, historyVars, stopping, requestDone>>
    BY <1>17 DEF TickBatch, EndOfInput
  <2>2. /\ pc' \in {"opening", "selecting", "reopening", "reading", "draining", "finished"}
        /\ status' \in {"running", "stopped", "error"}
    BY <1>1, <1>17 DEF TypeOK, TickBatch, EndOfInput, Finish
  <2>3. StoredWell /\ batch' = << >>
    BY <1>17, BatchStores
  <2>4. batch' \in Seq(Line) /\ Len(batch') < BatchLines
    BY <1>0, <2>3, BatchLinesAssumption, EmptySeq
  <2> QED
    BY <1>1, <2>1, <2>2, <2>3, <2>4 DEF TypeOK, StoredWell, sourceVars, writerVars, fileVars, historyVars
<1>18. ASSUME NEW accepted \in BOOLEAN, FinishFlushed(accepted) PROVE TypeOK'
  <2>1. UNCHANGED <<sourceVars, writerVars, fileVars, stdinVars, taken, historyVars, stopping, requestDone>>
        /\ pc' = "finished" /\ status' \in {"stopped", "error"}
    BY <1>18 DEF FinishFlushed, Finish
  <2>2. StoredWell
    BY <1>18, FinishFlushedStores
  <2> QED
    BY <1>1, <2>1, <2>2 DEF TypeOK, StoredWell, sourceVars, writerVars, fileVars, stdinVars, historyVars
<1> QED
  BY <1>2, <1>3, <1>4, <1>5, <1>6, <1>7, <1>8, <1>9, <1>10, <1>11, <1>12, <1>13, <1>14, <1>15, <1>16, <1>17, <1>18
  DEF Next, Rotate, Client, FollowFile, ReadStdin

-----------------------------------------------------------------------------
(* The theorems.                                                           *)

(* The invariant is inductive: each step of Next keeps each part of it.                     *)
LEMMA Inductive == Spec => []IInv
<1>1. IInv /\ UNCHANGED vars => IInv'
  <2> SUFFICES ASSUME IInv, UNCHANGED vars PROVE IInv'
    OBVIOUS
  <2> USE DEF vars, sourceVars, writerVars, fileVars, stdinVars, recordVars, historyVars, controlVars
  <2>1. TypeOK'
    BY DEF IInv, TypeOK
  <2>2. WriterInv' /\ FileInv' /\ EndInv'
    BY DEF IInv, WriterInv, FileInv, EndInv
  <2>3. HomePiece(fd)' = HomePiece(fd) /\ \A f : HomePiece(f)' = HomePiece(f)
    BY DEF HomePiece
  <2>4. HomeInv'
    BY <2>3 DEF IInv, HomeInv
  <2>5. Top' = Top /\ ReadPieces' = ReadPieces
    BY DEF Top, ReadPieces
  <2>6. ContentInv' /\ OrderInv'
    BY <2>3, <2>5 DEF IInv, ContentInv, OrderInv
  <2> QED
    BY <2>1, <2>2, <2>4, <2>6 DEF IInv
<1>2. IInv /\ [Next]_vars => IInv'
  BY <1>1, TypeStep, WriterStep, ContentStep, FileStep, OrderStep, HomeStep, EndStep DEF IInv
<1> QED
  BY <1>2, InitHolds, PTL DEF Spec

(* Every piece is read once and in the order it was written: splitCompleteLines, the reopening *)
(* of a rotated file and the half line kept between reads lose and repeat none.                *)
THEOREM TailReadsInOrder == Spec => []ReadInOrder
<1>1. IInv => ReadInOrder
  <2> SUFFICES ASSUME IInv, ~overtaken PROVE ReadInOrder
    BY DEF ReadInOrder
  <2>1. Increasing(ReadPieces) /\ ReadPieces \in Seq(Piece)
    BY ReadPiecesType DEF IInv, OrderInv
  <2>2. DOMAIN ReadPieces = 1 .. Len(ReadPieces)
    BY <2>1, LenProperties
  <2> QED
    BY <2>1, <2>2 DEF ReadInOrder, ReadPieces, Increasing, PlaceOf
<1> QED
  BY <1>1, Inductive, PTL

(* No line and no record is put together from what two files hold.         *)
LEMMA LinesOfOneFile ==
    ASSUME IInv, NEW f, NEW record \in Seq(Seq(HomePiece(f)))
    PROVE  Cardinality({home[piece.line] : piece \in ToSet(FlattenSeq(record))}) <= 1
<1>1. PICK s : s = FlattenSeq(record)
  OBVIOUS
<1>2. s \in Seq(HomePiece(f))
  BY <1>1, FlattenType
<1>3. \A piece \in ToSet(s) : home[piece.line] = f
  <2> SUFFICES ASSUME NEW i \in DOMAIN s PROVE home[s[i].line] = f
    BY DEF ToSet
  <2>1. s[i] \in HomePiece(f)
    BY <1>2
  <2> QED
    BY <2>1 DEF HomePiece
<1>4. PICK H : H = {home[piece.line] : piece \in ToSet(s)}
  OBVIOUS
<1>5. H \subseteq {f}
  BY <1>3, <1>4
<1>6. IsFiniteSet({f}) /\ Cardinality({f}) = 1
  BY FS_Singleton
<1>7. IsFiniteSet(H) /\ Cardinality(H) <= Cardinality({f})
  BY <1>5, <1>6, FS_Subset
<1> QED
  BY <1>1, <1>4, <1>6, <1>7

(* A rotation separates: no record holds lines of two files, whatever followFile and the    *)
(* folder kept when the file was replaced; and the books of the source balance.             *)
THEOREM TailIsConsistent == Spec => []Consistent
<1>1. IInv => NothingSpansFiles
  <2> SUFFICES ASSUME IInv, NEW record \in ToSet(handed) \union {held}
               PROVE  Cardinality({home[piece.line] : piece \in ToSet(FlattenSeq(record))}) <= 1
    BY DEF NothingSpansFiles
  <2>1. PICK f : record \in Seq(Seq(HomePiece(f)))
    BY DEF IInv, HomeInv, ToSet
  <2> QED
    BY <2>1, LinesOfOneFile
<1>2. IInv => Consistent
  BY <1>1 DEF IInv, Consistent
<1> QED
  BY <1>2, Inductive, PTL

(* What was read was given to the store, or is still on its way; a source that stops of     *)
(* itself leaves nothing on its way, and only the last record of a stdin source can be      *)
(* refused without ending the source in an error.                                           *)
THEOREM WhatIsTakenIsStored == Spec => []TakenIsStored
<1>1. IInv => TakenIsStored
  <2> SUFFICES ASSUME IInv PROVE TakenIsStored
    OBVIOUS
  <2>1. status = "stopped" /\ (kind = "file" \/ ~stopping) => held \o batch = << >>
    <3> SUFFICES ASSUME status = "stopped", kind = "file" \/ ~stopping PROVE held \o batch = << >>
      OBVIOUS
    <3>1. held = << >> /\ batch = << >>
      BY DEF IInv, EndInv
    <3>2. << >> \o << >> = << >>
      BY ConcatEmptySeq, EmptySeq
    <3> QED
      BY <3>1, <3>2
  <2> QED
    BY <2>1 DEF IInv, EndInv, TakenIsStored
<1> QED
  BY <1>1, Inductive, PTL

=============================================================================
