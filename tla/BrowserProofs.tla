---------------------------- MODULE BrowserProofs ----------------------------
(***************************************************************************)
(* Theorems about two pages of the browser: the import (ImportWizard) and  *)
(* the live view, its rows and its pause flag (LiveView).                  *)
(***************************************************************************)
EXTENDS LiveView, ImportWizard, Integers, SequenceTheorems, FiniteSetTheorems, WellFoundedInduction, TLAPS

-----------------------------------------------------------------------------
(* The numbers are well ordered.                                           *)

LEMMA LeastNumber ==
    ASSUME NEW T, T \subseteq Nat, T # {}
    PROVE  \E n \in T : \A m \in T : n <= m
<1> DEFINE R == OpToRel(<, Nat)
<1>1. IsWellFoundedOn(R, Nat)
  BY NatLessThanWellFounded
<1>2. \A x, y \in Nat : <<y, x>> \in R <=> y < x
  BY DEF OpToRel
<1> HIDE DEF R
<1>3. PICK x \in T : \A y \in T : <<y, x>> \notin R
  BY <1>1, WFMin
<1>4. ASSUME NEW y \in T PROVE x <= y
  <2>1. x \in Nat /\ y \in Nat /\ <<y, x>> \notin R
    BY <1>3
  <2> QED
    BY <1>2, <2>1
<1> QED
  BY <1>4

-----------------------------------------------------------------------------
(* The import page.  The inductive invariant.                              *)

(* A detection run, a pattern being tried and an upload, as they are made.                   *)
RunShape(r) ==
    /\ r = [id |-> r.id, todo |-> r.todo, here |-> r.here, unread |-> r.unread, hung |-> r.hung]
    /\ r.todo \in Seq(File) /\ r.todo # << >> /\ r.here \in BOOLEAN /\ r.hung \in BOOLEAN
TrialShape(c) ==
    /\ c = [id |-> c.id, file |-> c.file, pattern |-> c.pattern]
    /\ c.file \in File /\ c.pattern \in Pattern
UploadShape == [todo : Seq(File) \ {<< >>}, here : BOOLEAN, aborted : BOOLEAN]

RunsInv == IsFiniteSet(runs) /\ \A r \in runs : RunShape(r)
WizardRequestsInv ==
    /\ IsFiniteSet(changes) /\ \A c \in changes : TrialShape(c)
    /\ IsFiniteSet(previews) /\ \A q \in previews : q.file \in File
    /\ saving # None => saving \in Seq(File)

(* A file that is not in the list is new; a file keeps the promises, where listed are the    *)
(* files in the list, sawn those the user has confirmed, awaited those something comes to.   *)
Promise(f, rec, listed, sawn, awaited) ==
    /\ rec \in ImportFile
    /\ f \notin listed => rec = NewFile
    /\ rec.status = "detected" => rec.rows = rec.pattern
    /\ rec.layout \in {"ambiguous", "missing"} /\ rec.confirmed => f \in sawn
    /\ rec.status = "detecting" => f \in awaited

Promises(table, listed, sawn, awaited) ==
    /\ DOMAIN table = File
    /\ \A f \in File : Promise(f, table[f], listed, sawn, awaited)

Awaited == {f \in File : \/ \E r \in runs : f \in ToSet(r.todo)
                         \/ \E c \in changes : c.file = f}

PromiseInv == Promises(file, Listed, seen, Awaited)

ListInv ==
    /\ files \in Seq(File) /\ IsInjective(files) /\ Listed \subseteq 1 .. used
    /\ used \in 0 .. MaxFiles
    /\ activeFile \in Listed \union {None}
    /\ seen \subseteq 1 .. used

(* The import goes on from the dialog, and then there is no upload; otherwise one at a time. *)
UploadOrder ==
    /\ saving # None => dialog
    /\ dialog => uploads = << >> /\ step = 2
    /\ uploads # << >> => uploading /\ step = 2
    /\ Len(uploads) <= 1

UploadInv == uploads \in Seq(UploadShape) /\ (~late => UploadOrder)

FlagInv ==
    /\ page \in BOOLEAN /\ redetect \in BOOLEAN /\ allDetecting \in BOOLEAN /\ reading \in BOOLEAN
    /\ dialog \in BOOLEAN /\ dialogShown \in BOOLEAN /\ uploading \in BOOLEAN /\ late \in BOOLEAN
    /\ step \in 1 .. 3

CountInv ==
    /\ work \in 0 .. MaxWork
    /\ Cardinality(runs) + Cardinality(changes) + Cardinality(previews) + Len(uploads) <= work

WizardInv == RunsInv /\ WizardRequestsInv /\ PromiseInv /\ ListInv /\ UploadInv /\ FlagInv /\ CountInv

-----------------------------------------------------------------------------
(* The record of a file.                                                   *)

LEMMA NewFileType == NewFile \in ImportFile
BY DEF NewFile, ImportFile

LEMMA NewPromises ==
    ASSUME NEW f, NEW listed, NEW sawn, NEW awaited
    PROVE  Promise(f, NewFile, listed, sawn, awaited)
BY NewFileType DEF Promise, NewFile

LEMMA MorePromises ==
    ASSUME NEW table, NEW listed, NEW sawn, NEW awaited, NEW more, NEW seenNow, NEW awaitedNow,
           Promises(table, listed, sawn, awaited),
           listed \subseteq more, sawn \subseteq seenNow, awaited \subseteq awaitedNow
    PROVE  Promises(table, more, seenNow, awaitedNow)
BY DEF Promises, Promise

(* One file more or less is marked as uploading or done.                   *)
LEMMA UploadPromise ==
    ASSUME NEW f, NEW rec, NEW listed, NEW sawn, NEW awaited, Promise(f, rec, listed, sawn, awaited), f \in listed,
           NEW u \in {"pending", "uploading", "success", "failed"}
    PROVE  Promise(f, [rec EXCEPT !.upload = u], listed, sawn, awaited)
BY DEF Promise, ImportFile

LEMMA DetectingPromise ==
    ASSUME NEW f, NEW rec, NEW listed, NEW sawn, NEW awaited, NEW awaitedNow,
           Promise(f, rec, listed, sawn, awaited), f \in listed, f \in awaitedNow
    PROVE  Promise(f, [rec EXCEPT !.status = "detecting"], listed, sawn, awaitedNow)
BY DEF Promise, ImportFile

(* One file changes.                                                       *)
LEMMA OnePromise ==
    ASSUME NEW table, NEW listed, NEW sawn, NEW awaited, NEW seenNow, NEW awaitedNow, NEW f, NEW rec,
           Promises(table, listed, sawn, awaited),
           f \in listed => Promise(f, rec, listed, seenNow, awaitedNow),
           sawn \ {f} \subseteq seenNow, awaited \ {f} \subseteq awaitedNow
    PROVE  Promises([table EXCEPT ![f] = IF f \in listed THEN rec ELSE table[f]], listed, seenNow, awaitedNow)
<1> DEFINE now == [table EXCEPT ![f] = IF f \in listed THEN rec ELSE table[f]]
<1>1. DOMAIN now = File
  BY DEF Promises
<1>2. ASSUME NEW g \in File PROVE Promise(g, now[g], listed, seenNow, awaitedNow)
  <2>1. Promise(g, table[g], listed, sawn, awaited)
    BY DEF Promises
  <2>2. CASE g = f /\ f \in listed
    BY <2>2 DEF Promises
  <2>3. CASE g = f /\ f \notin listed
    <3>1. now[g] = NewFile
      BY <2>1, <2>3 DEF Promises, Promise
    <3> QED
      BY <3>1, NewPromises
  <2>4. CASE g # f
    <3>1. now[g] = table[g]
      BY <2>4 DEF Promises
    <3> QED
      BY <2>1, <2>4, <3>1 DEF Promise
  <2> QED
    BY <2>2, <2>3, <2>4
<1> QED
  BY <1>1, <1>2 DEF Promises

LEMMA EditPromise ==
    ASSUME NEW f, NEW rec, NEW listed, NEW sawn, NEW awaited, Promise(f, rec, listed, sawn, awaited), f \in listed,
           NEW e \in BOOLEAN, NEW c \in BOOLEAN, NEW now, c => f \in now
    PROVE  Promise(f, [rec EXCEPT !.edited = e, !.confirmed = c], listed, now, awaited)
<1>1. PICK r : r = [rec EXCEPT !.edited = e, !.confirmed = c]
  OBVIOUS
<1>2. r \in ImportFile
  BY <1>1 DEF Promise, ImportFile
<1>3. r.status = rec.status /\ r.rows = rec.rows /\ r.pattern = rec.pattern /\ (r.confirmed => c)
  BY <1>1 DEF Promise, ImportFile
<1>4. Promise(f, r, listed, now, awaited)
  BY <1>2, <1>3 DEF Promise
<1> QED
  BY <1>1, <1>4

LEMMA ConfirmPromise ==
    ASSUME NEW f, NEW rec, NEW listed, NEW sawn, NEW awaited, Promise(f, rec, listed, sawn, awaited), f \in listed,
           NEW c \in BOOLEAN, NEW now, c => f \in now
    PROVE  Promise(f, [rec EXCEPT !.confirmed = c], listed, now, awaited)
<1>1. PICK r : r = [rec EXCEPT !.confirmed = c]
  OBVIOUS
<1>2. r \in ImportFile
  BY <1>1 DEF Promise, ImportFile
<1>3. r.status = rec.status /\ r.rows = rec.rows /\ r.pattern = rec.pattern /\ (r.confirmed => c)
  BY <1>1 DEF Promise, ImportFile
<1>4. Promise(f, r, listed, now, awaited)
  BY <1>2, <1>3 DEF Promise
<1> QED
  BY <1>1, <1>4

-----------------------------------------------------------------------------
(* Sequences and finite sets.                                              *)

Removed(s, i, r) ==
    /\ Len(r) = Len(s) - 1
    /\ \A j \in 1 .. Len(r) : r[j] = IF j < i THEN s[j] ELSE s[j + 1]

LEMMA RemoveAtRemoves ==
    ASSUME NEW T, NEW s \in Seq(T), NEW i \in 1 .. Len(s)
    PROVE  RemoveAt(s, i) \in Seq(T) /\ Removed(s, i, RemoveAt(s, i))
<1>1. PICK L : L = Len(s)
  OBVIOUS
<1>2. L \in Nat /\ i \in Nat /\ 1 <= i /\ i <= L /\ \A j \in 1 .. L : s[j] \in T
  BY <1>1
<1>3. PICK a : a = SubSeq(s, 1, i - 1)
  OBVIOUS
<1>4. PICK b : b = SubSeq(s, i + 1, L)
  OBVIOUS
<1>5. a \in Seq(T) /\ Len(a) = i - 1 /\ \A j \in 1 .. i - 1 : a[j] = s[j]
  <2>1. PICK n : n = i - 1
    OBVIOUS
  <2>2. n \in Nat /\ 1 \in Int /\ n \in Int /\ \A j \in 1 .. n : s[j] \in T
    BY <1>2, <2>1
  <2>3. /\ SubSeq(s, 1, n) \in Seq(T) /\ Len(SubSeq(s, 1, n)) = (IF 1 <= n THEN n - 1 + 1 ELSE 0)
        /\ \A j \in 1 .. n - 1 + 1 : SubSeq(s, 1, n)[j] = s[1 + j - 1]
    BY <2>2, SubSeqProperties
  <2>4. n - 1 + 1 = n /\ (~(1 <= n) => n = 0) /\ \A j \in 1 .. n : 1 + j - 1 = j
    BY <2>2
  <2> QED
    BY <1>3, <2>1, <2>3, <2>4
<1>6. b \in Seq(T) /\ Len(b) = L - i /\ \A j \in 1 .. L - i : b[j] = s[i + j]
  <2>1. PICK m : m = i + 1
    OBVIOUS
  <2>2. m \in Int /\ L \in Int /\ \A j \in m .. L : s[j] \in T
    BY <1>2, <2>1
  <2>3. /\ SubSeq(s, m, L) \in Seq(T) /\ Len(SubSeq(s, m, L)) = (IF m <= L THEN L - m + 1 ELSE 0)
        /\ \A j \in 1 .. L - m + 1 : SubSeq(s, m, L)[j] = s[m + j - 1]
    BY <2>2, SubSeqProperties
  <2>4. L - m + 1 = L - i /\ (~(m <= L) => L - i = 0) /\ \A j \in 1 .. L - i : m + j - 1 = i + j
    BY <1>2, <2>1
  <2> QED
    BY <1>4, <2>1, <2>3, <2>4
<1>7. RemoveAt(s, i) = a \o b
  BY <1>1, <1>3, <1>4 DEF RemoveAt
<1>8. PICK c : c = a \o b
  OBVIOUS
<1>9. /\ c \in Seq(T) /\ Len(c) = Len(a) + Len(b)
      /\ \A j \in 1 .. Len(a) + Len(b) : c[j] = IF j <= Len(a) THEN a[j] ELSE b[j - Len(a)]
  <2>1. Len(a) \in Nat /\ Len(b) \in Nat
    BY <1>5, <1>6
  <2> QED
    BY <1>5, <1>6, <1>8, <2>1, ConcatProperties
<1>10. Len(c) = L - 1
  BY <1>2, <1>5, <1>6, <1>9
<1>11. ASSUME NEW j \in 1 .. L - 1 PROVE c[j] = IF j < i THEN s[j] ELSE s[j + 1]
  <2>1. j \in 1 .. Len(a) + Len(b)
    BY <1>2, <1>5, <1>6
  <2>2. CASE j < i
    <3>1. j <= Len(a) /\ j \in 1 .. i - 1
      BY <1>2, <1>5, <2>2
    <3> QED
      BY <1>5, <1>9, <2>1, <2>2, <3>1
  <2>3. CASE ~(j < i)
    <3>1. ~(j <= Len(a)) /\ j - Len(a) \in 1 .. L - i /\ i + (j - Len(a)) = j + 1
      BY <1>2, <1>5, <2>3
    <3> QED
      BY <1>6, <1>9, <2>1, <2>3, <3>1
  <2> QED
    BY <2>2, <2>3
<1> QED
  BY <1>1, <1>7, <1>8, <1>9, <1>10, <1>11 DEF Removed

(* What is in the list is what was in it but the one that is taken away.   *)
LEMMA RemovedOthers ==
    ASSUME NEW T, NEW s \in Seq(T), IsInjective(s), NEW i \in 1 .. Len(s), NEW r \in Seq(T), Removed(s, i, r)
    PROVE  IsInjective(r) /\ ToSet(r) = ToSet(s) \ {s[i]}
<1>1. PICK L : L = Len(s)
  OBVIOUS
<1>2. /\ L \in Nat /\ i \in Nat /\ 1 <= i /\ i <= L /\ DOMAIN s = 1 .. L
      /\ DOMAIN r = 1 .. L - 1 /\ Len(r) = L - 1
  BY <1>1 DEF Removed
<1>3. \A j \in 1 .. L - 1 : r[j] = IF j < i THEN s[j] ELSE s[j + 1]
  BY <1>1, <1>2 DEF Removed
<1>4. DEFINE from(j) == IF j < i THEN j ELSE j + 1
<1>5. \A j \in 1 .. L - 1 : r[j] = s[from(j)] /\ from(j) \in 1 .. L /\ from(j) # i
  BY <1>2, <1>3
<1>6. \A j, k \in 1 .. L - 1 : from(j) = from(k) => j = k
  BY <1>2
<1>7. \A j, k \in 1 .. L : s[j] = s[k] => j = k
  BY <1>2 DEF IsInjective
<1>8. \A j \in 1 .. L : j # i => \E k \in 1 .. L - 1 : from(k) = j
  <2> SUFFICES ASSUME NEW j \in 1 .. L, j # i PROVE \E k \in 1 .. L - 1 : from(k) = j
    OBVIOUS
  <2>1. CASE j < i
    <3>1. j \in 1 .. L - 1 /\ from(j) = j
      BY <1>2, <2>1
    <3> QED
      BY <3>1
  <2>2. CASE ~(j < i)
    <3>1. PICK k : k = j - 1
      OBVIOUS
    <3>2. k \in 1 .. L - 1 /\ ~(k < i) /\ k + 1 = j
      BY <1>2, <2>2, <3>1
    <3> QED
      BY <3>2
  <2> QED
    BY <2>1, <2>2
<1> HIDE DEF from
<1>9. IsInjective(r)
  <2> SUFFICES ASSUME NEW j \in 1 .. L - 1, NEW k \in 1 .. L - 1, r[j] = r[k] PROVE j = k
    BY <1>2 DEF IsInjective
  <2>1. from(j) = from(k)
    BY <1>5, <1>7
  <2> QED
    BY <1>6, <2>1
<1>10. \A x : x \in ToSet(r) => x \in ToSet(s) \ {s[i]}
  <2> SUFFICES ASSUME NEW j \in 1 .. L - 1 PROVE r[j] \in ToSet(s) \ {s[i]}
    BY <1>2 DEF ToSet
  <2>1. s[from(j)] # s[i]
    BY <1>2, <1>5, <1>7
  <2> QED
    BY <1>2, <1>5, <2>1 DEF ToSet
<1>11. \A x : x \in ToSet(s) \ {s[i]} => x \in ToSet(r)
  <2> SUFFICES ASSUME NEW j \in 1 .. L, s[j] # s[i] PROVE s[j] \in ToSet(r)
    BY <1>2 DEF ToSet
  <2>1. PICK k \in 1 .. L - 1 : from(k) = j
    BY <1>8
  <2> QED
    BY <1>2, <1>5, <2>1 DEF ToSet
<1> QED
  BY <1>9, <1>10, <1>11

(* What is picked of a set is no more.                                     *)
LEMMA ImageIsFinite ==
    ASSUME NEW S, IsFiniteSet(S), NEW h, DOMAIN h = S
    PROVE  IsFiniteSet({h[x] : x \in S}) /\ Cardinality({h[x] : x \in S}) <= Cardinality(S)
<1>1. PICK T : T = {h[x] : x \in S}
  OBVIOUS
<1>2. PICK g : g = [x \in S |-> h[x]]
  OBVIOUS
<1>3. g \in Surjection(S, T)
  BY <1>1, <1>2 DEF Surjection
<1> QED
  BY <1>1, <1>3, FS_Surjection

-----------------------------------------------------------------------------
(* Detection runs begin and go on.                                         *)

(* The runs of the next state, and the work done for them.                 *)
RunsAfter ==
    /\ RunsInv' /\ allDetecting' \in BOOLEAN
    /\ work' \in 0 .. MaxWork
    /\ Cardinality(runs') + work <= Cardinality(runs) + work'

LEMMA AwaitedIs ==
    \A f \in File : f \in Awaited <=> (\E r \in runs : f \in ToSet(r.todo)) \/ (\E c \in changes : c.file = f)
BY DEF Awaited

LEMMA CardinalityIsNat == WizardInv => /\ Cardinality(runs) \in Nat /\ Cardinality(changes) \in Nat
                                       /\ Cardinality(previews) \in Nat /\ Len(uploads) \in Nat /\ work \in Nat
<1> SUFFICES ASSUME WizardInv
             PROVE  /\ Cardinality(runs) \in Nat /\ Cardinality(changes) \in Nat
                    /\ Cardinality(previews) \in Nat /\ Len(uploads) \in Nat /\ work \in Nat
  OBVIOUS
<1>1. IsFiniteSet(runs) /\ IsFiniteSet(changes) /\ IsFiniteSet(previews) /\ uploads \in Seq(UploadShape) /\ work \in Nat
  BY BoundsAssumption DEF WizardInv, RunsInv, WizardRequestsInv, UploadInv, CountInv
<1>2. Len(uploads) \in Nat
  BY <1>1
<1> QED
  BY <1>1, <1>2, FS_CardinalityType

LEMMA StartRunKeeps ==
    ASSUME WizardInv, NEW listed \in Seq(File), listed # << >>, NEW base,
           Promises(base, ToSet(listed), seen', Awaited), StartRun(listed, base), changes' = changes
    PROVE  RunsAfter /\ Promises(file', ToSet(listed), seen', Awaited')
<1>1. PICK n : n = Fresh(runs)
  OBVIOUS
<1>u. PICK u : u = {f \in ToSet(listed) : ~base[f].read}
  OBVIOUS
<1>2. PICK r : r = [id |-> n, todo |-> listed, here |-> TRUE, unread |-> u, hung |-> FALSE]
  OBVIOUS
<1>3. /\ runs' = runs \union {r} /\ allDetecting' = TRUE
      /\ work < MaxWork /\ work' = work + 1
      /\ file' = [f \in File |-> IF f \in ToSet(listed) THEN [base[f] EXCEPT !.status = "detecting"] ELSE base[f]]
  BY <1>1, <1>u, <1>2 DEF StartRun, NewRun, Work
<1>4. RunShape(r) /\ r.todo = listed
  BY <1>2 DEF RunShape
<1>5. IsFiniteSet(runs) /\ \A x \in runs : RunShape(x)
  BY DEF WizardInv, RunsInv
<1>6. IsFiniteSet(runs') /\ Cardinality(runs') = IF r \in runs THEN Cardinality(runs) ELSE Cardinality(runs) + 1
  BY <1>3, <1>5, FS_AddElement
<1>7. RunsInv'
  BY <1>3, <1>4, <1>5, <1>6 DEF RunsInv
<1>8. work' \in 0 .. MaxWork /\ Cardinality(runs') + work <= Cardinality(runs) + work'
  BY <1>3, <1>6, CardinalityIsNat, BoundsAssumption
<1>9. RunsAfter
  BY <1>3, <1>7, <1>8 DEF RunsAfter
<1>10. \A f \in File : f \in Awaited \/ f \in ToSet(listed) => f \in Awaited'
  BY <1>3, <1>4 DEF Awaited
<1>11. ASSUME NEW f \in File PROVE Promise(f, file'[f], ToSet(listed), seen', Awaited')
  <2>1. Promise(f, base[f], ToSet(listed), seen', Awaited)
    BY DEF Promises
  <2>2. CASE f \in ToSet(listed)
    <3>1. file'[f] = [base[f] EXCEPT !.status = "detecting"] /\ f \in Awaited'
      BY <1>3, <1>10, <2>2
    <3> QED
      BY <2>1, <2>2, <3>1, DetectingPromise
  <2>3. CASE f \notin ToSet(listed)
    <3>1. file'[f] = base[f] /\ (f \in Awaited => f \in Awaited')
      BY <1>3, <1>10, <2>3
    <3> QED
      BY <2>1, <3>1 DEF Promise
  <2> QED
    BY <2>2, <2>3
<1>12. DOMAIN file' = File
  BY <1>3
<1> QED
  BY <1>9, <1>11, <1>12 DEF Promises

LEMMA SameRuns ==
    ASSUME WizardInv, UNCHANGED <<runs, allDetecting, work>>
    PROVE  RunsAfter
<1>1. allDetecting \in BOOLEAN /\ work \in 0 .. MaxWork /\ RunsInv
  BY DEF WizardInv, FlagInv, CountInv
<1>2. Cardinality(runs) \in Nat /\ work \in Nat
  BY CardinalityIsNat
<1>3. RunsInv'
  BY <1>1 DEF RunsInv
<1> QED
  BY <1>1, <1>2, <1>3 DEF RunsAfter

LEMMA MountKeeps ==
    ASSUME WizardInv, NEW listed \in Seq(File), NEW base,
           Promises(base, ToSet(listed), seen', Awaited), MountAnalyzing(listed, base), changes' = changes
    PROVE  RunsAfter /\ Promises(file', ToSet(listed), seen', Awaited') /\ redetect' \in BOOLEAN
<1>1. redetect' = FALSE
  BY DEF MountAnalyzing
<1>2. CASE listed # << >> /\ StartRun(listed, base)
  BY <1>1, <1>2, StartRunKeeps
<1>3. CASE listed = << >> /\ allDetecting' = FALSE /\ file' = base /\ UNCHANGED <<runs, work>>
  <2>1. RunsInv /\ work \in 0 .. MaxWork
    BY DEF WizardInv, CountInv
  <2>2. RunsInv' /\ Cardinality(runs) \in Nat /\ work \in Nat
    BY <1>3, <2>1, CardinalityIsNat DEF RunsInv
  <2>3. Awaited' = Awaited
    BY <1>3 DEF Awaited
  <2>a. Cardinality(runs') + work <= Cardinality(runs) + work' /\ work' \in 0 .. MaxWork
    BY <1>3, <2>1, <2>2, BoundsAssumption
  <2>b. allDetecting' \in BOOLEAN
    BY Zenon, <1>3
  <2>4. RunsAfter
    BY <2>2, <2>a, <2>b DEF RunsAfter
  <2>5. Promises(file', ToSet(listed), seen', Awaited')
    BY <1>3, <2>3
  <2> QED
    BY <1>1, <2>4, <2>5
<1> QED
  BY <1>2, <1>3 DEF MountAnalyzing

LEMMA UnmountKeeps ==
    ASSUME WizardInv, UnmountAnalyzing, changes' = changes, work' \in 0 .. MaxWork, work <= work'
    PROVE  /\ RunsAfter /\ Awaited' = Awaited /\ redetect' \in BOOLEAN
           /\ Cardinality(runs') <= Cardinality(runs)
<1>1. RunsInv /\ redetect \in BOOLEAN /\ allDetecting \in BOOLEAN
  BY DEF WizardInv, FlagInv
<1>2. redetect' \in BOOLEAN
  BY Zenon, <1>1 DEF UnmountAnalyzing
<1>3. allDetecting' \in BOOLEAN
  BY Zenon, <1>1 DEF UnmountAnalyzing
<1>4. Cardinality(runs) \in Nat /\ work \in Nat
  BY CardinalityIsNat
<1>5. CASE ~Analyzing
  <2>1. runs' = runs
    BY <1>5 DEF UnmountAnalyzing
  <2>2. RunsInv' /\ Awaited' = Awaited
    BY <1>1, <2>1 DEF RunsInv, Awaited
  <2>3. Cardinality(runs') + work <= Cardinality(runs) + work' /\ Cardinality(runs') <= Cardinality(runs)
    BY <1>4, <2>1, BoundsAssumption
  <2> QED
    BY <1>2, <1>3, <2>2, <2>3 DEF RunsAfter
<1>6. CASE Analyzing
  <2>1. PICK h : h = [r \in runs |-> [r EXCEPT !.here = FALSE]]
    OBVIOUS
  <2>2. runs' = {h[r] : r \in runs} /\ DOMAIN h = runs
    BY <1>6, <2>1 DEF UnmountAnalyzing
  <2>3. \A r \in runs : RunShape(h[r]) /\ h[r].todo = r.todo
    <3> SUFFICES ASSUME NEW r \in runs PROVE RunShape(h[r]) /\ h[r].todo = r.todo
      OBVIOUS
    <3>1. RunShape(r) /\ h[r] = [r EXCEPT !.here = FALSE]
      BY <1>1, <2>1 DEF RunsInv
    <3>2. PICK i, t, b, u, g : r = [id |-> i, todo |-> t, here |-> b, unread |-> u, hung |-> g]
      BY <3>1 DEF RunShape
    <3>3. /\ h[r] = [id |-> i, todo |-> t, here |-> FALSE, unread |-> u, hung |-> g]
          /\ r.todo = t /\ r.hung = g
      BY <3>1, <3>2
    <3>4. t \in Seq(File) /\ t # << >> /\ g \in BOOLEAN
      BY <3>1, <3>3 DEF RunShape
    <3> QED
      BY <3>3, <3>4 DEF RunShape
  <2>4. IsFiniteSet(runs') /\ Cardinality(runs') <= Cardinality(runs)
    BY <1>1, <2>2, ImageIsFinite DEF RunsInv
  <2>5. RunsInv'
    BY <2>2, <2>3, <2>4 DEF RunsInv
  <2>6. Awaited' = Awaited
    BY <2>2, <2>3 DEF Awaited
  <2>7. Cardinality(runs') \in Nat
    BY <2>4, FS_CardinalityType
  <2>8. Cardinality(runs') + work <= Cardinality(runs) + work'
    BY <1>4, <2>4, <2>7, BoundsAssumption
  <2> QED
    BY <1>2, <1>3, <2>4, <2>5, <2>6, <2>8 DEF RunsAfter
<1> QED
  BY <1>5, <1>6

-----------------------------------------------------------------------------
(* What each action does to the runs, to the promises and to the count of requests.         *)

Kept == /\ RunsInv' /\ allDetecting' \in BOOLEAN /\ redetect' \in BOOLEAN
        /\ CountInv' /\ PromiseInv'

Requests == Cardinality(changes) + Cardinality(previews) + Len(uploads)

LEMMA RequestsIsNat == WizardInv => /\ Requests \in Nat /\ Cardinality(runs) \in Nat /\ work \in Nat
                                    /\ Cardinality(runs) + Requests <= work
<1> SUFFICES ASSUME WizardInv PROVE /\ Requests \in Nat /\ Cardinality(runs) \in Nat /\ work \in Nat
                                    /\ Cardinality(runs) + Requests <= work
  OBVIOUS
<1>1. /\ Cardinality(runs) \in Nat /\ Cardinality(changes) \in Nat /\ Cardinality(previews) \in Nat
      /\ Len(uploads) \in Nat /\ work \in Nat
  BY CardinalityIsNat
<1>2. Cardinality(runs) + Cardinality(changes) + Cardinality(previews) + Len(uploads) <= work
  BY DEF WizardInv, CountInv
<1> QED
  BY <1>1, <1>2 DEF Requests

LEMMA RunsCount ==
    ASSUME WizardInv, RunsAfter, redetect' \in BOOLEAN, UNCHANGED <<changes, previews, uploads>>,
           Promises(file', Listed', seen', Awaited')
    PROVE  Kept
<1>1. /\ Cardinality(runs) \in Nat /\ Cardinality(changes) \in Nat /\ Cardinality(previews) \in Nat
      /\ Len(uploads) \in Nat /\ work \in Nat
  BY CardinalityIsNat
<1>2. Cardinality(runs) + Cardinality(changes) + Cardinality(previews) + Len(uploads) <= work
  BY DEF WizardInv, CountInv
<1>3. IsFiniteSet(runs') /\ work' \in 0 .. MaxWork /\ Cardinality(runs') + work <= Cardinality(runs) + work'
  BY DEF RunsAfter, RunsInv
<1>4. Cardinality(runs') \in Nat
  BY <1>3, FS_CardinalityType
<1>a. work' \in Nat
  BY <1>3, BoundsAssumption
<1>5. Cardinality(runs') + Cardinality(changes) + Cardinality(previews) + Len(uploads) <= work'
  <2>1. PICK R, C, P, U, W \in Nat : /\ R = Cardinality(runs) /\ C = Cardinality(changes)
                                    /\ P = Cardinality(previews) /\ U = Len(uploads) /\ W = work
    BY <1>1
  <2>2. PICK RR, WW \in Nat : RR = Cardinality(runs') /\ WW = work'
    BY <1>4, <1>a
  <2>3. R + C + P + U <= W /\ RR + W <= R + WW
    BY <1>2, <1>3, <2>1, <2>2
  <2>4. RR + C + P + U <= WW
    BY <2>3
  <2> QED
    BY <2>1, <2>2, <2>4
<1>6. CountInv'
  BY <1>3, <1>5 DEF CountInv
<1> QED
  BY <1>6 DEF Kept, RunsAfter, PromiseInv

(* Nothing of it changes but the files.                                    *)
LEMMA SameCount ==
    ASSUME WizardInv, UNCHANGED <<runs, changes, previews, uploads, work, allDetecting, redetect>>,
           Promises(file', Listed', seen', Awaited)
    PROVE  Kept
<1>1. RunsAfter
  BY SameRuns
<1>2. redetect' \in BOOLEAN
  BY DEF WizardInv, FlagInv
<1>3. Awaited' = Awaited
  BY DEF Awaited
<1> QED
  BY <1>1, <1>2, <1>3, RunsCount

LEMMA PromisesNow == WizardInv => /\ Promises(file, Listed, seen, Awaited) /\ files \in Seq(File)
                                  /\ redetect \in BOOLEAN /\ allDetecting \in BOOLEAN
BY DEF WizardInv, PromiseInv, ListInv, FlagInv

LEMMA RedetectKept == WizardInv /\ (Redetect \/ RedetectFires) => Kept
<1> SUFFICES ASSUME WizardInv, Redetect \/ RedetectFires PROVE Kept
  OBVIOUS
<1>1. /\ StartRun(files, file) /\ files # << >>
      /\ UNCHANGED <<changes, previews, uploads, files, seen>> /\ redetect' \in {redetect, FALSE}
  BY DEF Redetect, RedetectFires, Usable, Analyzing, requestVars
<1>2. Promises(file, ToSet(files), seen', Awaited) /\ files \in Seq(File) /\ redetect \in BOOLEAN
  BY <1>1, PromisesNow DEF Listed
<1>3. redetect' \in BOOLEAN
  BY <1>1, <1>2
<1>4. RunsAfter /\ Promises(file', ToSet(files), seen', Awaited')
  BY <1>1, <1>2, StartRunKeeps
<1>5. Listed' = ToSet(files)
  BY <1>1 DEF Listed
<1> QED
  BY <1>1, <1>3, <1>4, <1>5, RunsCount

LEMMA SetMultilineKept == WizardInv /\ SetMultiline => Kept
<1> SUFFICES ASSUME WizardInv, SetMultiline PROVE Kept
  OBVIOUS
<1>1. /\ UNCHANGED <<runs, changes, previews, uploads, work, allDetecting, file, files, seen>>
      /\ redetect' = TRUE
  BY DEF SetMultiline, importVars, requestVars
<1>2. RunsAfter
  BY <1>1, SameRuns
<1>3. Awaited' = Awaited /\ Listed' = Listed
  BY <1>1 DEF Awaited, Listed
<1>4. Promises(file', Listed', seen', Awaited')
  BY <1>1, <1>3, PromisesNow
<1> QED
  BY <1>1, <1>2, <1>4, RunsCount

(* The analysing step is there again, or the files change nothing.         *)
LEMMA MountKept ==
    ASSUME WizardInv, MountAnalyzing(files', file), Listed \subseteq Listed', files' \in Seq(File),
           UNCHANGED <<changes, previews, uploads, seen>>
    PROVE  Kept
<1>1. Promises(file, Listed, seen, Awaited)
  BY PromisesNow
<1>2. Promises(file, Listed', seen', Awaited)
  BY <1>1, MorePromises
<1>3. Listed' = ToSet(files')
  BY DEF Listed
<1>4. RunsAfter /\ Promises(file', ToSet(files'), seen', Awaited') /\ redetect' \in BOOLEAN
  BY <1>2, <1>3, MountKeeps
<1> QED
  BY <1>3, <1>4, RunsCount

LEMMA SameKept ==
    ASSUME WizardInv, UNCHANGED <<runs, changes, previews, uploads, work, allDetecting, redetect, file>>,
           Listed \subseteq Listed', seen \subseteq seen'
    PROVE  Kept
<1>1. Promises(file, Listed', seen', Awaited)
  BY PromisesNow, MorePromises
<1> QED
  BY <1>1, SameCount

LEMMA WorkedRuns ==
    ASSUME WizardInv, UNCHANGED <<runs, allDetecting>>, work' = work \/ Work
    PROVE  RunsAfter
<1>1. RunsInv /\ allDetecting \in BOOLEAN /\ work \in 0 .. MaxWork
  BY DEF WizardInv, FlagInv, CountInv
<1>2. Cardinality(runs) \in Nat /\ work \in Nat /\ MaxWork \in Nat
  BY CardinalityIsNat, BoundsAssumption
<1>3. work' \in 0 .. MaxWork /\ work <= work'
  BY <1>1, <1>2 DEF Work
<1>4. Cardinality(runs') + work <= Cardinality(runs) + work'
  BY <1>2, <1>3
<1>5. RunsInv'
  BY <1>1 DEF RunsInv
<1> QED
  BY <1>1, <1>3, <1>4, <1>5 DEF RunsAfter

-----------------------------------------------------------------------------
(* The list of files.                                                      *)

LEMMA AddFilesAdds ==
    ASSUME WizardInv, NEW n \in File, AddFiles(n)
    PROVE  /\ files' \in Seq(File) /\ IsInjective(files') /\ Listed' \subseteq 1 .. used'
           /\ Listed \subseteq Listed' /\ used' \in 0 .. MaxFiles /\ used <= used'
<1>1. PICK a : a = files
  OBVIOUS
<1>2. PICK u : u = used
  OBVIOUS
<1>3. PICK L : L = Len(a)
  OBVIOUS
<1>4. PICK b : b = [i \in 1 .. n |-> u + i]
  OBVIOUS
<1>5. a \in Seq(File) /\ IsInjective(a) /\ ToSet(a) \subseteq 1 .. u /\ u \in 0 .. MaxFiles
  BY <1>1, <1>2 DEF WizardInv, ListInv, Listed
<1>6. MaxFiles \in Nat /\ n \in Nat /\ u \in Nat /\ u + n <= MaxFiles /\ files' = a \o b /\ used' = u + n
  BY <1>1, <1>2, <1>4, <1>5, BoundsAssumption DEF AddFiles, File
<1>7. L \in Nat /\ DOMAIN a = 1 .. L /\ \A i \in 1 .. L : a[i] \in 1 .. u
  BY <1>3, <1>5 DEF ToSet
<1>8. b \in Seq(File) /\ Len(b) = n /\ \A i \in 1 .. n : b[i] = u + i
  BY <1>4, <1>6 DEF File
<1>9. PICK c : c = a \o b
  OBVIOUS
<1>10. /\ c \in Seq(File) /\ Len(c) = L + n
       /\ \A i \in 1 .. L + n : c[i] = IF i <= L THEN a[i] ELSE b[i - L]
  BY <1>3, <1>5, <1>8, <1>9, ConcatProperties
<1>11. DOMAIN c = 1 .. L + n /\ \A i \in 1 .. L + n : c[i] = IF i <= L THEN a[i] ELSE u + (i - L)
  <2>1. \A i \in 1 .. L + n : ~(i <= L) => i - L \in 1 .. n
    BY <1>6, <1>7
  <2> QED
    BY <1>8, <1>10, <2>1
<1>12. IsInjective(c)
  <2> SUFFICES ASSUME NEW i \in 1 .. L + n, NEW j \in 1 .. L + n, c[i] = c[j] PROVE i = j
    BY <1>11 DEF IsInjective
  <2>1. \A k, l \in 1 .. L : a[k] = a[l] => k = l
    BY <1>5, <1>7 DEF IsInjective
  <2>2. CASE i <= L /\ j <= L
    BY <1>6, <1>7, <1>11, <2>1, <2>2
  <2>3. CASE i <= L /\ ~(j <= L)
    <3>1. a[i] \in 1 .. u /\ a[i] = u + (j - L) /\ j - L >= 1
      BY <1>6, <1>7, <1>11, <2>3
    <3> QED
      BY <1>6, <1>7, <3>1
  <2>4. CASE ~(i <= L) /\ j <= L
    <3>1. a[j] \in 1 .. u /\ a[j] = u + (i - L) /\ i - L >= 1
      BY <1>6, <1>7, <1>11, <2>4
    <3> QED
      BY <1>6, <1>7, <3>1
  <2>5. CASE ~(i <= L) /\ ~(j <= L)
    <3>1. u + (i - L) = u + (j - L)
      BY <1>11, <2>5
    <3> QED
      BY <1>6, <1>7, <3>1
  <2> QED
    BY <2>2, <2>3, <2>4, <2>5
<1>13. ASSUME NEW i \in 1 .. L + n PROVE c[i] \in 1 .. u + n
  <2>1. CASE i <= L
    <3>1. c[i] \in 1 .. u
      BY <1>6, <1>7, <1>11, <2>1
    <3> QED
      BY <1>6, <3>1
  <2>2. CASE ~(i <= L)
    BY <1>6, <1>7, <1>11, <2>2
  <2> QED
    BY <2>1, <2>2
<1>14. ToSet(c) \subseteq 1 .. u + n
  BY <1>11, <1>13 DEF ToSet
<1>15. ToSet(a) \subseteq ToSet(c)
  <2> SUFFICES ASSUME NEW i \in 1 .. L PROVE a[i] \in ToSet(c)
    BY <1>7 DEF ToSet
  <2>1. i \in 1 .. L + n /\ i <= L
    BY <1>6, <1>7
  <2> QED
    BY <1>11, <2>1 DEF ToSet
<1>16. files' = c /\ files = a
  BY <1>1, <1>6, <1>9
<1>17. Listed' = ToSet(c) /\ Listed = ToSet(a)
  BY <1>16 DEF Listed
<1>18. u + n \in 0 .. MaxFiles /\ u <= u + n
  BY <1>6
<1> QED
  BY <1>2, <1>6, <1>10, <1>12, <1>14, <1>15, <1>16, <1>17, <1>18

LEMMA RemoveFileRemoves ==
    ASSUME WizardInv, NEW f \in File, RemoveFile(f)
    PROVE  /\ files' \in Seq(File) /\ IsInjective(files') /\ Listed' = Listed \ {f}
<1>1. PICK i \in DOMAIN files : files[i] = f /\ files' = RemoveAt(files, i)
  BY DEF RemoveFile
<1>2. files \in Seq(File) /\ IsInjective(files)
  BY DEF WizardInv, ListInv
<1>3. i \in 1 .. Len(files)
  BY <1>1, <1>2
<1>4. PICK r : r = RemoveAt(files, i)
  OBVIOUS
<1>5. r \in Seq(File) /\ Removed(files, i, r)
  BY <1>2, <1>3, <1>4, RemoveAtRemoves
<1>6. IsInjective(r) /\ ToSet(r) = ToSet(files) \ {files[i]}
  BY <1>2, <1>3, <1>5, RemovedOthers
<1>7. files' = r
  BY <1>1, <1>4
<1>8. Listed' = ToSet(r) /\ Listed = ToSet(files)
  BY <1>7 DEF Listed
<1> QED
  BY <1>1, <1>5, <1>6, <1>7, <1>8

(* The steps that leave the list alone; ResetStore empties it.             *)
LEMMA SameList ==
    ASSUME WizardInv, UNCHANGED <<files, used>>, activeFile' \in Listed \union {None}, seen' \subseteq 1 .. used
    PROVE  ListInv'
<1>1. ListInv
  BY DEF WizardInv
<1>2. Listed' = Listed
  BY DEF Listed
<1>3. files' = files /\ used' = used
  OBVIOUS
<1> QED
  BY <1>1, <1>2, <1>3 DEF ListInv

LEMMA EmptyList == ASSUME WizardInv, ResetStore, UNCHANGED used PROVE ListInv' /\ Listed' = {}
<1>1. files' = << >> /\ activeFile' = None /\ seen' = {} /\ used' = used
  BY DEF ResetStore
<1>2. Listed' = {}
  BY <1>1 DEF Listed, ToSet
<1>3. << >> \in Seq(File) /\ IsInjective(<< >>)
  BY DEF IsInjective
<1>4. used \in 0 .. MaxFiles
  BY DEF WizardInv, ListInv
<1> QED
  BY <1>1, <1>2, <1>3, <1>4 DEF ListInv

LEMMA MinIsIn == ASSUME NEW S, S \subseteq Nat, S # {} PROVE Min(S) \in S
<1>1. \E n \in S : \A m \in S : n =< m
  BY LeastNumber
<1> QED
  BY <1>1 DEF Min

(* What the end of a run chooses is in the list.                           *)
LEMMA ChosenIsListed ==
    ASSUME WizardInv, NEW f, NEW upd, ChooseActive(f, upd)
    PROVE  activeFile' \in Listed \union {None}
<1>1. files \in Seq(File) /\ activeFile \in Listed \union {None}
  BY DEF WizardInv, ListInv
<1>2. PICK L : L = Len(files)
  OBVIOUS
<1>3. L \in Nat /\ DOMAIN files = 1 .. L
  BY <1>1, <1>2
<1>4. PICK D : D = {i \in 1 .. L : upd[files[i]].layout \in {"ambiguous", "missing"}}
  OBVIOUS
<1>5. PICK F : F = {i \in 1 .. L : upd[files[i]].status = "failed"}
  OBVIOUS
<1>6. activeFile' = IF \E g \in Listed : upd[g].layout \in {"ambiguous", "missing"}
                THEN files[IF D # {} THEN Min(D) ELSE 0]
                ELSE IF \E g \in Listed : upd[g].status = "failed"
                THEN files[IF F # {} THEN Min(F) ELSE 0]
                ELSE IF files # << >> THEN files[1] ELSE activeFile
  BY <1>2, <1>4, <1>5 DEF ChooseActive, SelectInSeq
<1>7. ASSUME NEW S, S \subseteq 1 .. L, S # {} PROVE files[Min(S)] \in Listed
  <2>a. S \subseteq Nat
    BY <1>3, <1>7
  <2>1. Min(S) \in S
    BY <1>7, <2>a, MinIsIn
  <2> QED
    BY <1>3, <1>7, <2>1 DEF Listed, ToSet
<1>8. CASE \E g \in Listed : upd[g].layout \in {"ambiguous", "missing"}
  <2>1. D # {} /\ D \subseteq 1 .. L
    BY <1>3, <1>4, <1>8 DEF Listed, ToSet
  <2> QED
    BY <1>6, <1>7, <1>8, <2>1
<1>9. CASE /\ ~\E g \in Listed : upd[g].layout \in {"ambiguous", "missing"}
           /\ \E g \in Listed : upd[g].status = "failed"
  <2>1. F # {} /\ F \subseteq 1 .. L
    BY <1>3, <1>5, <1>9 DEF Listed, ToSet
  <2> QED
    BY <1>6, <1>7, <1>9, <2>1
<1>10. CASE /\ ~\E g \in Listed : upd[g].layout \in {"ambiguous", "missing"}
            /\ ~\E g \in Listed : upd[g].status = "failed"
  <2>1. activeFile' = IF files # << >> THEN files[1] ELSE activeFile
    BY <1>6, <1>10
  <2>2. files # << >> => 1 \in 1 .. L
    BY <1>1, <1>2
  <2> QED
    BY <1>1, <1>3, <2>1, <2>2 DEF Listed, ToSet
<1> QED
  BY <1>8, <1>9, <1>10

LEMMA ListStep == WizardInv /\ WizardNext => ListInv'
<1> SUFFICES ASSUME WizardInv, WizardNext PROVE ListInv'
  OBVIOUS
<1>0. ListInv /\ activeFile \in Listed \union {None} /\ seen \subseteq 1 .. used /\ Listed \subseteq 1 .. used
  BY DEF WizardInv, ListInv
<1>1. CASE UNCHANGED <<files, used, activeFile, seen>>
  BY <1>0, <1>1, SameList
<1>2. ASSUME NEW n \in File, AddFiles(n) PROVE ListInv'
  <2>1. activeFile' = activeFile /\ seen' = seen
    BY <1>2 DEF AddFiles
  <2>2. /\ files' \in Seq(File) /\ IsInjective(files') /\ Listed' \subseteq 1 .. used'
        /\ Listed \subseteq Listed' /\ used' \in 0 .. MaxFiles /\ used <= used'
    BY <1>2, AddFilesAdds
  <2>3. seen' \subseteq 1 .. used'
    <3>1. used \in Int /\ used' \in Int
      BY <1>0, <2>2, BoundsAssumption DEF ListInv
    <3> QED
      BY <1>0, <2>1, <2>2, <3>1
  <2> QED
    BY <1>0, <2>1, <2>2, <2>3 DEF ListInv
<1>3. ASSUME NEW f \in File, RemoveFile(f) PROVE ListInv'
  <2>1. activeFile' = (IF activeFile = f THEN None ELSE activeFile) /\ seen' = seen /\ used' = used
    BY <1>3 DEF RemoveFile
  <2>2. files' \in Seq(File) /\ IsInjective(files') /\ Listed' = Listed \ {f}
    BY <1>3, RemoveFileRemoves
  <2>3. activeFile' \in Listed' \union {None}
    BY <1>0, <2>1, <2>2
  <2> QED
    BY <1>0, <2>1, <2>2, <2>3 DEF ListInv
<1>4. ASSUME NEW r \in runs, NEW p \in Pattern \union {None}, NEW verdict \in Verdict \union {None},
             DetectionAnswered(r, p, verdict)
      PROVE  ListInv'
  <2>1. UNCHANGED <<files, used>> /\ seen' \subseteq seen
    BY <1>4 DEF DetectionAnswered
  <2>2. activeFile' = activeFile \/ \E f, upd : ChooseActive(f, upd)
    BY <1>4 DEF DetectionAnswered
  <2>3. activeFile' \in Listed \union {None}
    BY <1>0, <2>2, ChosenIsListed
  <2> QED
    BY <1>0, <2>1, <2>3, SameList
<1>5. CASE PatchOverride \/ ResetOverrides \/ Confirm
  <2>1. UNCHANGED <<files, used, activeFile>> /\ activeFile # None /\ seen' \subseteq seen \union {activeFile}
    BY <1>5 DEF PatchOverride, ResetOverrides, Confirm, ToolbarShown
  <2> QED
    BY <1>0, <2>1, SameList
<1>6. CASE ApplyToAll
  <2>1. UNCHANGED <<files, used, activeFile>> /\ seen' \subseteq seen \union Listed
    BY <1>6 DEF ApplyToAll
  <2> QED
    BY <1>0, <2>1, SameList
<1>7. ASSUME NEW q \in previews, NEW verdict \in Verdict \union {None}, PreviewAnswered(q, verdict) PROVE ListInv'
  <2>1. UNCHANGED <<files, used, activeFile>> /\ seen' \subseteq seen
    BY <1>7 DEF PreviewAnswered
  <2> QED
    BY <1>0, <2>1, SameList
<1>8. CASE Back
  <2>1. ResetStore /\ UNCHANGED used
    BY <1>8 DEF Back
  <2> QED
    BY <2>1, EmptyList
<1>9. CASE LeaveSummary
  <2>1. ResetStore /\ UNCHANGED used
    BY <1>9 DEF LeaveSummary, UnmountImport
  <2> QED
    BY <2>1, EmptyList
<1>10. ASSUME NEW empty \in BOOLEAN, PreviewRead(empty) PROVE ListInv'
  BY <1>1, <1>10 DEF PreviewRead
<1>11. ASSUME NEW f \in File, NEW p \in Pattern, ChangePattern(f, p) PROVE ListInv'
  BY <1>1, <1>11 DEF ChangePattern
<1>12. ASSUME NEW c \in changes, NEW ok \in BOOLEAN, ChangeAnswered(c, ok) PROVE ListInv'
  BY <1>1, <1>12 DEF ChangeAnswered
<1>13. ASSUME NEW ok \in BOOLEAN, PatternSaved(ok) PROVE ListInv'
  BY <1>1, <1>13 DEF PatternSaved
<1>14. ASSUME NEW i \in DOMAIN uploads, NEW ok \in BOOLEAN, FileUploaded(i, ok) PROVE ListInv'
  BY <1>1, <1>14 DEF FileUploaded
<1>15. CASE NextFromFiles \/ Redetect \/ SetMultiline \/ RedetectFires \/ Preview \/ (\E r \in runs : ReadFails(r))
  BY <1>1, <1>15 DEF NextFromFiles, Redetect, SetMultiline, RedetectFires, Preview, ReadFails, importVars
<1>16. CASE NextFromPatterns \/ SavePattern \/ CloseDialog \/ CancelUpload
  BY <1>1, <1>16 DEF NextFromPatterns, SavePattern, CloseDialog, CancelUpload, importVars
<1>17. CASE Leave
  BY <1>1, <1>17 DEF Leave, UnmountImport, importVars
<1>18. CASE Return
  BY <1>1, <1>18 DEF Return
<1> QED
  BY <1>2, <1>3, <1>4, <1>5, <1>6, <1>7, <1>8, <1>9, <1>10, <1>11, <1>12, <1>13, <1>14, <1>15, <1>16, <1>17, <1>18
     DEF WizardNext, FirstStep, Detection, Review, Upload

-----------------------------------------------------------------------------
(* The steps of the first page and of the return to it.                    *)

LEMMA AddFilesKept == ASSUME WizardInv, NEW n \in File, AddFiles(n) PROVE Kept
<1>1. Listed \subseteq Listed' /\ files' \in Seq(File)
  BY AddFilesAdds
<1>2. UNCHANGED <<changes, previews, uploads, seen>>
  BY DEF AddFiles, requestVars
<1>3. MountAnalyzing(files', file) \/ UNCHANGED <<runs, allDetecting, redetect, work, file>>
  BY DEF AddFiles, detectVars
<1>4. CASE MountAnalyzing(files', file)
  BY <1>1, <1>2, <1>4, MountKept
<1>5. CASE UNCHANGED <<runs, allDetecting, redetect, work, file>>
  BY <1>1, <1>2, <1>5, SameKept
<1> QED
  BY <1>3, <1>4, <1>5

LEMMA SameFilesKept ==
    ASSUME WizardInv, UNCHANGED <<files, changes, previews, uploads, seen>>,
           MountAnalyzing(files, file) \/ UNCHANGED <<runs, allDetecting, redetect, work, file>>
    PROVE  Kept
<1>1. files' = files /\ files \in Seq(File) /\ Listed' = Listed
  BY PromisesNow DEF Listed
<1>2. CASE MountAnalyzing(files, file)
  <2>1. MountAnalyzing(files', file)
    BY <1>1, <1>2
  <2> QED
    BY <1>1, <2>1, MountKept
<1>3. CASE UNCHANGED <<runs, allDetecting, redetect, work, file>>
  BY <1>1, <1>3, SameKept
<1> QED
  BY <1>2, <1>3

LEMMA PreviewReadKept == ASSUME WizardInv, NEW empty \in BOOLEAN, PreviewRead(empty) PROVE Kept
BY SameFilesKept DEF PreviewRead, detectVars, requestVars

LEMMA NextFromFilesKept == WizardInv /\ NextFromFiles => Kept
BY SameFilesKept DEF NextFromFiles, requestVars

LEMMA ReturnKept == WizardInv /\ Return => Kept
BY SameFilesKept DEF Return, detectVars, requestVars

LEMMA SavePatternKept == WizardInv /\ SavePattern => Kept
BY SameFilesKept DEF SavePattern, importVars, detectVars, requestVars

LEMMA RemoveFileKept == ASSUME WizardInv, NEW f \in File, RemoveFile(f) PROVE Kept
<1>1. /\ UNCHANGED <<runs, changes, previews, uploads, work, allDetecting, redetect, seen>>
      /\ file' = [file EXCEPT ![f] = NewFile]
  BY DEF RemoveFile, detectVars, requestVars
<1>2. Listed' = Listed \ {f}
  BY RemoveFileRemoves
<1>3. Promises(file, Listed, seen, Awaited)
  BY PromisesNow
<1>4. ASSUME NEW g \in File PROVE Promise(g, file'[g], Listed', seen', Awaited)
  <2>1. CASE g = f
    <3>1. file'[g] = NewFile
      BY <1>1, <1>3, <2>1 DEF Promises
    <3> QED
      BY <3>1, NewPromises
  <2>2. CASE g # f
    <3>1. file'[g] = file[g] /\ Promise(g, file[g], Listed, seen, Awaited)
      BY <1>1, <1>3, <2>2 DEF Promises
    <3> QED
      BY <1>1, <1>2, <2>2, <3>1 DEF Promise
  <2> QED
    BY <2>1, <2>2
<1>5. DOMAIN file' = File
  BY <1>1, <1>3 DEF Promises
<1>6. Promises(file', Listed', seen', Awaited)
  BY <1>4, <1>5 DEF Promises
<1> QED
  BY <1>1, <1>6, SameCount

-----------------------------------------------------------------------------
(* One file changes: a pattern or a timestamp is tried, edited, confirmed. *)

(* Where rec is what updateFile writes of f.                               *)
LEMMA OneFileKept ==
    ASSUME WizardInv, UNCHANGED <<runs, changes, previews, uploads, allDetecting, redetect, files>>,
           work' = work \/ Work,
           NEW f, NEW rec, file' = Updated(f, rec), f \in Listed => Promise(f, rec, Listed, seen', Awaited),
           seen \ {f} \subseteq seen'
    PROVE  Kept
<1>1. Promises(file, Listed, seen, Awaited) /\ redetect' \in BOOLEAN
  BY PromisesNow
<1>2. Promises([file EXCEPT ![f] = IF f \in Listed THEN rec ELSE file[f]], Listed, seen', Awaited)
  BY <1>1, OnePromise
<1>3. Promises(file', Listed, seen', Awaited)
  BY <1>2 DEF Updated
<1>4. Listed' = Listed /\ Awaited' = Awaited
  BY DEF Listed, Awaited
<1>5. RunsAfter
  BY WorkedRuns
<1> QED
  BY <1>1, <1>3, <1>4, <1>5, RunsCount

LEMMA FilePromise ==
    ASSUME WizardInv, NEW f \in Listed
    PROVE  f \in File /\ file[f] \in ImportFile /\ Promise(f, file[f], Listed, seen, Awaited)
<1>1. f \in File
  BY DEF WizardInv, ListInv, Listed, ToSet
<1> QED
  BY <1>1, PromisesNow DEF Promises, Promise

LEMMA ActiveIsListed == WizardInv /\ ToolbarShown => activeFile \in Listed
BY DEF WizardInv, ListInv, ToolbarShown

LEMMA OverridesKept == WizardInv /\ (PatchOverride \/ ResetOverrides) => Kept
<1> SUFFICES ASSUME WizardInv, PatchOverride \/ ResetOverrides PROVE Kept
  OBVIOUS
<1>1. activeFile \in Listed
  BY ActiveIsListed DEF PatchOverride, ResetOverrides
<1>2. /\ UNCHANGED <<runs, changes, previews, uploads, allDetecting, redetect, files>>
      /\ (work' = work \/ Work) /\ seen' = seen \ {activeFile}
  BY DEF PatchOverride, ResetOverrides, detectVars, requestVars
<1>3. activeFile \in File /\ Promise(activeFile, file[activeFile], Listed, seen, Awaited) /\ DOMAIN file = File
  BY <1>1, FilePromise, PromisesNow DEF Promises
<1>4. \E e \in BOOLEAN : file' = [file EXCEPT ![activeFile] = [@ EXCEPT !.edited = e, !.confirmed = FALSE]]
  BY DEF PatchOverride, ResetOverrides
<1>5. PICK e \in BOOLEAN : file' = [file EXCEPT ![activeFile] = [@ EXCEPT !.edited = e, !.confirmed = FALSE]]
  BY <1>4
<1>6. PICK rec : rec = [file[activeFile] EXCEPT !.edited = e, !.confirmed = FALSE]
  OBVIOUS
<1>7. file' = Updated(activeFile, rec)
  BY <1>1, <1>3, <1>5, <1>6 DEF Updated
<1>8. Promise(activeFile, rec, Listed, seen', Awaited)
  BY <1>1, <1>3, <1>6, EditPromise
<1> QED
  BY <1>2, <1>7, <1>8, OneFileKept

LEMMA ConfirmKept == WizardInv /\ Confirm => Kept
<1> SUFFICES ASSUME WizardInv, Confirm PROVE Kept
  OBVIOUS
<1>1. activeFile \in Listed
  BY ActiveIsListed DEF Confirm
<1>2. /\ UNCHANGED <<runs, changes, previews, uploads, allDetecting, redetect, files, work>>
      /\ seen' = seen \union {activeFile}
  BY DEF Confirm, detectVars, requestVars
<1>3. activeFile \in File /\ Promise(activeFile, file[activeFile], Listed, seen, Awaited) /\ DOMAIN file = File
  BY <1>1, FilePromise, PromisesNow DEF Promises
<1>4. file' = [file EXCEPT ![activeFile] = [@ EXCEPT !.confirmed = TRUE]]
  BY DEF Confirm
<1>5. PICK rec : rec = [file[activeFile] EXCEPT !.confirmed = TRUE]
  OBVIOUS
<1>6. file' = Updated(activeFile, rec)
  BY <1>1, <1>3, <1>4, <1>5 DEF Updated
<1>7. activeFile \in seen'
  BY <1>2
<1>8. Promise(activeFile, rec, Listed, seen', Awaited)
  BY <1>1, <1>3, <1>5, <1>7, ConfirmPromise
<1> QED
  BY <1>2, <1>6, <1>8, OneFileKept


(* The edits of the active file go to the others.                          *)
LEMMA ApplyToAllKept == WizardInv /\ ApplyToAll => Kept
<1> SUFFICES ASSUME WizardInv, ApplyToAll PROVE Kept
  OBVIOUS
<1>1. activeFile \in Listed
  BY ActiveIsListed DEF ApplyToAll
<1>2. UNCHANGED <<runs, changes, previews, uploads, work, allDetecting, redetect, files>>
  BY DEF ApplyToAll, detectVars, requestVars
<1>3. PICK others : others = Listed \ {activeFile}
  OBVIOUS
<1>4. PICK e, c : e = file[activeFile].edited /\ c = file[activeFile].confirmed
  OBVIOUS
<1>5. e \in BOOLEAN /\ c \in BOOLEAN
  BY <1>1, <1>4, FilePromise DEF ImportFile
<1>6. file' = [f \in File |-> IF f \in others
                              THEN [file[f] EXCEPT !.edited = e,
                                                   !.confirmed = c /\ file[f].layout # "missing"]
                              ELSE file[f]]
  BY <1>3, <1>4 DEF ApplyToAll
<1>7. seen' = {f \in seen : f \notin others}
              \union (IF c THEN {f \in others : file[f].layout # "missing"} ELSE {})
  BY <1>3, <1>4 DEF ApplyToAll
<1>8. ASSUME NEW f \in File PROVE Promise(f, file'[f], Listed, seen', Awaited)
  <2>1. CASE f \in others
    <3>1. f \in Listed /\ Promise(f, file[f], Listed, seen, Awaited)
      BY <1>3, <2>1, FilePromise
    <3>2. PICK d \in BOOLEAN : d <=> c /\ file[f].layout # "missing"
      OBVIOUS
    <3>3. file'[f] = [file[f] EXCEPT !.edited = e, !.confirmed = c /\ file[f].layout # "missing"]
      BY <1>6, <2>1
    <3>4. d = (c /\ file[f].layout # "missing")
      BY Zenon, <1>5, <3>2
    <3>5. file'[f] = [file[f] EXCEPT !.edited = e, !.confirmed = d]
      BY <3>3, <3>4
    <3>6. d => f \in seen'
      BY <1>7, <2>1, <3>2
    <3>7. Promise(f, [file[f] EXCEPT !.edited = e, !.confirmed = d], Listed, seen', Awaited)
      BY Zenon, <1>5, <3>1, <3>2, <3>6, EditPromise
    <3> QED
      BY Zenon, <3>5, <3>7
  <2>2. CASE f \notin others
    <3>1. file'[f] = file[f] /\ Promise(f, file[f], Listed, seen, Awaited)
      BY <1>6, <2>2, PromisesNow DEF Promises
    <3>2. f \in seen => f \in seen'
      BY <1>7, <2>2
    <3> QED
      BY <3>1, <3>2 DEF Promise
  <2> QED
    BY <2>1, <2>2
<1>9. DOMAIN file' = File /\ Listed' = Listed
  BY <1>2, <1>6 DEF Listed
<1>10. Promises(file', Listed', seen', Awaited)
  BY <1>8, <1>9 DEF Promises
<1> QED
  BY <1>2, <1>10, SameCount

-----------------------------------------------------------------------------
(* Requests: what is tried, and its answer.                                *)

LEMMA WorkGrows == WizardInv /\ (work' = work \/ Work) => work' \in 0 .. MaxWork /\ work' \in Nat /\ work <= work'
BY CardinalityIsNat, BoundsAssumption DEF WizardInv, CountInv, Work

LEMMA CountKept ==
    ASSUME WizardInv, RunsInv', allDetecting' \in BOOLEAN, redetect' \in BOOLEAN, work' \in 0 .. MaxWork,
           Cardinality(changes') \in Nat, Cardinality(previews') \in Nat, Len(uploads') \in Nat,
           Cardinality(runs') + Requests' + work <= Cardinality(runs) + Requests + work',
           Promises(file', Listed', seen', Awaited')
    PROVE  Kept
<1>1. /\ Cardinality(runs) \in Nat /\ Requests \in Nat /\ work \in Nat
      /\ Cardinality(runs) + Requests <= work
  BY RequestsIsNat
<1>2. Cardinality(runs') \in Nat
  BY FS_CardinalityType DEF RunsInv
<1>3. Requests' = Cardinality(changes') + Cardinality(previews') + Len(uploads')
  BY DEF Requests
<1>4. work' \in Nat
  BY BoundsAssumption
<1>5. Cardinality(runs') + Requests' <= work'
  <2>0. Requests' \in Nat
    BY <1>3
  <2>1. PICK R, Q, W, RR, QQ, WW \in Nat :
            /\ R = Cardinality(runs) /\ Q = Requests /\ W = work
            /\ RR = Cardinality(runs') /\ QQ = Requests' /\ WW = work'
    BY <1>1, <1>2, <1>4, <2>0
  <2>2. R + Q <= W /\ RR + QQ + W <= R + Q + WW
    BY <1>1, <2>1
  <2>3. RR + QQ <= WW
    BY <2>2
  <2> QED
    BY <2>1, <2>3
<1>6. Cardinality(runs') + Cardinality(changes') + Cardinality(previews') + Len(uploads') <= work'
  <2>1. PICK RR, CC, PP, UU \in Nat : /\ RR = Cardinality(runs') /\ CC = Cardinality(changes')
                                     /\ PP = Cardinality(previews') /\ UU = Len(uploads')
    BY <1>2
  <2>2. RR + (CC + PP + UU) <= work'
    BY <1>3, <1>5, <2>1
  <2>3. RR + CC + PP + UU <= work'
    BY <1>4, <2>2
  <2> QED
    BY <2>1, <2>3
<1>7. CountInv'
  BY <1>6 DEF CountInv
<1> QED
  BY <1>7 DEF Kept, PromiseInv

LEMMA SameRunsInv ==
    ASSUME WizardInv, UNCHANGED <<runs, allDetecting, redetect>>
    PROVE  RunsInv' /\ allDetecting' \in BOOLEAN /\ redetect' \in BOOLEAN
BY DEF WizardInv, RunsInv, FlagInv

LEMMA RequestKept ==
    ASSUME WizardInv, UNCHANGED <<runs, allDetecting, redetect, uploads, files>>,
           work' = work \/ Work,
           Cardinality(changes') \in Nat, Cardinality(previews') \in Nat,
           Cardinality(changes') + Cardinality(previews') + work
               <= Cardinality(changes) + Cardinality(previews) + work',
           Promises(file', Listed, seen', Awaited')
    PROVE  Kept
<1>1. Listed' = Listed
  BY DEF Listed
<1>2. /\ Cardinality(runs) \in Nat /\ Cardinality(changes) \in Nat
      /\ Cardinality(previews) \in Nat /\ Len(uploads) \in Nat /\ work \in Nat
  BY CardinalityIsNat
<1>3. RunsInv' /\ allDetecting' \in BOOLEAN /\ redetect' \in BOOLEAN
  BY SameRunsInv
<1>4. work' \in 0 .. MaxWork /\ work' \in Nat
  BY WorkGrows
<1>5. Requests' = Cardinality(changes') + Cardinality(previews') + Len(uploads)
  BY DEF Requests
<1>6. Cardinality(runs') + Requests' + work <= Cardinality(runs) + Requests + work'
  <2>1. PICK R, C, P, U, W \in Nat : /\ R = Cardinality(runs) /\ C = Cardinality(changes)
                                    /\ P = Cardinality(previews) /\ U = Len(uploads) /\ W = work
    BY <1>2
  <2>2. PICK CC, PP, WW \in Nat : CC = Cardinality(changes') /\ PP = Cardinality(previews') /\ WW = work'
    BY <1>4
  <2>3. CC + PP + W <= C + P + WW
    BY <2>1, <2>2
  <2>4. R + (CC + PP + U) + W <= R + (C + P + U) + WW
    BY <2>3
  <2>5. Cardinality(runs') = R /\ Requests' = CC + PP + U /\ Requests = C + P + U
    BY <1>5, <2>1, <2>2 DEF Requests
  <2> QED
    BY <2>1, <2>2, <2>4, <2>5
<1> QED
  BY <1>1, <1>2, <1>3, <1>4, <1>6, CountKept

LEMMA PreviewKept == WizardInv /\ Preview => Kept
<1> SUFFICES ASSUME WizardInv, Preview PROVE Kept
  OBVIOUS
<1>1. UNCHANGED <<runs, allDetecting, redetect, uploads, files, file, changes, seen>> /\ Work
  BY DEF Preview, detectVars
<1>2. PICK q : previews' = previews \union {q}
  BY DEF Preview
<1>3. IsFiniteSet(previews)
  BY DEF WizardInv, WizardRequestsInv
<1>4. /\ Cardinality(previews') = IF q \in previews THEN Cardinality(previews) ELSE Cardinality(previews) + 1
      /\ IsFiniteSet(previews')
  BY <1>2, <1>3, FS_AddElement
<1>5. Cardinality(changes) \in Nat /\ Cardinality(previews) \in Nat /\ work \in Nat /\ work' = work + 1
  BY <1>1, CardinalityIsNat DEF Work
<1>6. Cardinality(previews') \in Nat /\ Cardinality(changes') = Cardinality(changes)
  BY <1>1, <1>4, FS_CardinalityType
<1>7. /\ Cardinality(changes') \in Nat
      /\ Cardinality(changes') + Cardinality(previews') + work
             <= Cardinality(changes) + Cardinality(previews) + work'
  BY <1>4, <1>5, <1>6
<1>8. Awaited' = Awaited
  BY <1>1 DEF Awaited
<1>9. Promises(file', Listed, seen', Awaited')
  BY <1>1, <1>8, PromisesNow
<1> QED
  BY <1>1, <1>6, <1>7, <1>9, RequestKept

LEMMA InferencePromise ==
    ASSUME NEW f, NEW rec, NEW listed, NEW sawn, NEW awaited, Promise(f, rec, listed, sawn, awaited), f \in listed,
           NEW verdict \in Verdict, NEW now
    PROVE  Promise(f, WithInference(rec, verdict), listed, now, awaited)
<1>0. PICK b \in BOOLEAN : b = (verdict = "exact")
  BY Zenon
<1>1. PICK r : r = [rec EXCEPT !.layout = verdict, !.confirmed = b]
  OBVIOUS
<1>2. r \in ImportFile
  BY <1>1 DEF Promise, ImportFile
<1>3. r.status = rec.status /\ r.rows = rec.rows /\ r.pattern = rec.pattern /\ r.layout = verdict /\ r.confirmed = b
  BY <1>1 DEF Promise, ImportFile
<1>4. r.confirmed => r.layout = "exact"
  BY <1>0, <1>3
<1>5. Promise(f, r, listed, now, awaited)
  BY <1>2, <1>3, <1>4 DEF Promise
<1> QED
  BY <1>0, <1>1, <1>5 DEF WithInference

LEMMA PreviewAnsweredKept ==
    ASSUME WizardInv, NEW q \in previews, NEW verdict \in Verdict \union {None}, PreviewAnswered(q, verdict)
    PROVE  Kept
<1>1. /\ UNCHANGED <<runs, allDetecting, redetect, uploads, files, changes, work>>
      /\ previews' = previews \ {q}
  BY DEF PreviewAnswered, detectVars
<1>2. IsFiniteSet(previews)
  BY DEF WizardInv, WizardRequestsInv
<1>3. IsFiniteSet(previews') /\ Cardinality(previews') = Cardinality(previews) - 1
  BY <1>1, <1>2, FS_RemoveElement
<1>4. Cardinality(changes) \in Nat /\ Cardinality(previews) \in Nat /\ work \in Nat
  BY CardinalityIsNat
<1>5. Cardinality(previews') \in Nat
  BY <1>3, FS_CardinalityType
<1>6. /\ Cardinality(changes') \in Nat
      /\ Cardinality(changes') + Cardinality(previews') + work
             <= Cardinality(changes) + Cardinality(previews) + work'
  BY <1>1, <1>3, <1>4, <1>5
<1>7. Awaited' = Awaited
  BY <1>1 DEF Awaited
<1>8. Promises(file', Listed, seen', Awaited)
  <2>1. Promises(file, Listed, seen, Awaited)
    BY PromisesNow
  <2>2. CASE verdict = None
    BY <2>1, <2>2 DEF PreviewAnswered
  <2>3. CASE verdict # None
    <3>1. PICK rec : rec = WithInference(file[q.file], verdict)
      OBVIOUS
    <3>2. file' = Updated(q.file, rec) /\ seen' = seen \ {q.file} /\ verdict \in Verdict
      BY <2>3, <3>1 DEF PreviewAnswered
    <3>3. q.file \in Listed => Promise(q.file, rec, Listed, seen', Awaited)
      BY <3>1, <3>2, FilePromise, InferencePromise
    <3>4. Promises([file EXCEPT ![q.file] = IF q.file \in Listed THEN rec ELSE file[q.file]], Listed, seen', Awaited)
      BY <2>1, <3>2, <3>3, OnePromise
    <3> QED
      BY <3>2, <3>4 DEF Updated
  <2> QED
    BY <2>2, <2>3
<1> QED
  BY <1>1, <1>5, <1>6, <1>7, <1>8, RequestKept

LEMMA ChangePatternKept ==
    ASSUME WizardInv, NEW f \in File, NEW p \in Pattern, ChangePattern(f, p)
    PROVE  Kept /\ IsFiniteSet(changes') /\ \A d \in changes' : TrialShape(d)
<1>1. UNCHANGED <<runs, allDetecting, redetect, uploads, files, previews, seen>> /\ Work /\ f \in Listed
  BY DEF ChangePattern, detectVars
<1>2. PICK n : n = Fresh(changes)
  OBVIOUS
<1>3. PICK c : c = [id |-> n, file |-> f, pattern |-> p]
  OBVIOUS
<1>4. changes' = changes \union {c} /\ file' = [file EXCEPT ![f].status = "detecting"]
  BY <1>2, <1>3 DEF ChangePattern
<1>5. c.file = f /\ TrialShape(c)
  BY <1>3 DEF TrialShape
<1>6. IsFiniteSet(changes) /\ \A d \in changes : TrialShape(d)
  BY DEF WizardInv, WizardRequestsInv
<1>7. /\ Cardinality(changes') = IF c \in changes THEN Cardinality(changes) ELSE Cardinality(changes) + 1
      /\ IsFiniteSet(changes')
  BY <1>4, <1>6, FS_AddElement
<1>8. Cardinality(changes) \in Nat /\ Cardinality(previews) \in Nat /\ work \in Nat /\ work' = work + 1
  BY <1>1, CardinalityIsNat DEF Work
<1>9. Cardinality(changes') \in Nat /\ Cardinality(previews') = Cardinality(previews)
  BY <1>1, <1>7, FS_CardinalityType
<1>10. /\ Cardinality(previews') \in Nat
       /\ Cardinality(changes') + Cardinality(previews') + work
              <= Cardinality(changes) + Cardinality(previews) + work'
  BY <1>7, <1>8, <1>9
<1>11. Awaited \subseteq Awaited' /\ f \in Awaited'
  BY <1>1, <1>4, <1>5 DEF Awaited
<1>12. Promises(file', Listed, seen', Awaited')
  <2>1. Promises(file, Listed, seen, Awaited) /\ Promise(f, file[f], Listed, seen, Awaited)
    BY PromisesNow DEF Promises
  <2>2. PICK rec : rec = [file[f] EXCEPT !.status = "detecting"]
    OBVIOUS
  <2>3. Promise(f, rec, Listed, seen', Awaited')
    BY <1>1, <1>11, <2>1, <2>2, DetectingPromise
  <2>4. Promises([file EXCEPT ![f] = IF f \in Listed THEN rec ELSE file[f]], Listed, seen', Awaited')
    BY <1>1, <1>11, <2>1, <2>3, OnePromise
  <2>5. file' = [file EXCEPT ![f] = IF f \in Listed THEN rec ELSE file[f]]
    BY <1>1, <1>4, <2>2
  <2> QED
    BY <2>4, <2>5
<1>13. Kept
  BY <1>1, <1>9, <1>10, <1>12, RequestKept
<1>14. \A d \in changes' : TrialShape(d)
  BY <1>4, <1>5, <1>6
<1> QED
  BY <1>7, <1>13, <1>14

(* A pattern was tried: it is written down, and its rows if it fits.       *)
LEMMA TriedPromise ==
    ASSUME NEW f, NEW rec, NEW listed, NEW sawn, NEW awaited, Promise(f, rec, listed, sawn, awaited), f \in listed,
           NEW p \in Pattern, NEW ok \in BOOLEAN, NEW now
    PROVE  Promise(f, [rec EXCEPT !.pattern = p, !.custom = (p = Custom),
                                  !.rows = IF ok THEN p ELSE @,
                                  !.status = IF ok THEN "detected" ELSE "failed"], listed, sawn, now)
<1>0. PICK b \in BOOLEAN : b = (p = Custom)
  BY Zenon
<1>1. PICK s : s = IF ok THEN "detected" ELSE "failed"
  OBVIOUS
<1>2. PICK w : w = IF ok THEN p ELSE rec.rows
  OBVIOUS
<1>3. PICK r : r = [rec EXCEPT !.pattern = p, !.custom = b, !.rows = w, !.status = s]
  OBVIOUS
<1>4. rec \in ImportFile
  BY DEF Promise
<1>5. rec.rows \in Pattern \union {None} /\ w \in Pattern \union {None}
  BY <1>2, <1>4 DEF ImportFile
<1>6. r \in ImportFile
  BY <1>1, <1>3, <1>4, <1>5 DEF ImportFile
<1>7. r.status = s /\ r.pattern = p /\ r.rows = w /\ r.layout = rec.layout /\ r.confirmed = rec.confirmed
  BY <1>3, <1>4 DEF ImportFile
<1>8. Promise(f, r, listed, sawn, now)
  BY <1>1, <1>2, <1>6, <1>7 DEF Promise
<1>9. [rec EXCEPT !.pattern = p, !.custom = (p = Custom), !.rows = IF ok THEN p ELSE @,
                  !.status = IF ok THEN "detected" ELSE "failed"]
      = [rec EXCEPT !.pattern = p, !.custom = (p = Custom), !.rows = w, !.status = s]
  BY <1>1, <1>2, <1>4 DEF ImportFile
<1>10. [rec EXCEPT !.pattern = p, !.custom = (p = Custom), !.rows = w, !.status = s] = r
  BY Zenon, <1>0, <1>3
<1> QED
  BY Zenon, <1>8, <1>9, <1>10

LEMMA ChangeAnsweredKept ==
    ASSUME WizardInv, NEW c \in changes, NEW ok \in BOOLEAN, ChangeAnswered(c, ok)
    PROVE  Kept /\ IsFiniteSet(changes') /\ changes' \subseteq changes
<1>1. UNCHANGED <<runs, allDetecting, redetect, uploads, files, previews, seen, work>> /\ changes' = changes \ {c}
  BY DEF ChangeAnswered, detectVars
<1>2. IsFiniteSet(changes) /\ TrialShape(c)
  BY DEF WizardInv, WizardRequestsInv
<1>3. IsFiniteSet(changes') /\ Cardinality(changes') = Cardinality(changes) - 1
  BY <1>1, <1>2, FS_RemoveElement
<1>4. Cardinality(changes) \in Nat /\ Cardinality(previews) \in Nat /\ work \in Nat
  BY CardinalityIsNat
<1>5. Cardinality(changes') \in Nat
  BY <1>3, FS_CardinalityType
<1>6. /\ Cardinality(previews') \in Nat
      /\ Cardinality(changes') + Cardinality(previews') + work
             <= Cardinality(changes) + Cardinality(previews) + work'
  BY <1>1, <1>3, <1>4, <1>5
<1>7. PICK f, p : f = c.file /\ p = c.pattern
  OBVIOUS
<1>8. f \in File /\ p \in Pattern
  BY <1>2, <1>7 DEF TrialShape
<1>9. Awaited \ {f} \subseteq Awaited'
  BY <1>1, <1>7 DEF Awaited
<1>10. PICK rec : rec = [file[f] EXCEPT !.pattern = p, !.custom = (p = Custom), !.rows = IF ok THEN p ELSE @,
                                        !.status = IF ok THEN "detected" ELSE "failed"]
  OBVIOUS
<1>11. file' = Updated(f, rec)
  BY <1>7, <1>10 DEF ChangeAnswered
<1>12. ASSUME f \in Listed PROVE Promise(f, rec, Listed, seen, Awaited')
  <2>1. Promise(f, file[f], Listed, seen, Awaited)
    BY <1>12, FilePromise
  <2>2. PICK now : now = Awaited'
    OBVIOUS
  <2>3. PICK was : was = file[f]
    OBVIOUS
  <2>4. Promise(f, was, Listed, seen, Awaited)
    BY <2>1, <2>3
  <2>5. Promise(f, [was EXCEPT !.pattern = p, !.custom = (p = Custom), !.rows = IF ok THEN p ELSE @,
                               !.status = IF ok THEN "detected" ELSE "failed"], Listed, seen, now)
    BY Zenon, <1>8, <1>12, <2>4, TriedPromise
  <2> QED
    BY Zenon, <1>10, <2>2, <2>3, <2>5
<1>13. Promises([file EXCEPT ![f] = IF f \in Listed THEN rec ELSE file[f]], Listed, seen, Awaited')
  BY <1>9, <1>12, PromisesNow, OnePromise
<1>14. Promises(file', Listed, seen', Awaited')
  BY <1>1, <1>11, <1>13 DEF Updated
<1>15. Kept
  BY <1>1, <1>5, <1>6, <1>14, RequestKept
<1> QED
  BY <1>1, <1>3, <1>15

-----------------------------------------------------------------------------
(* One file of a run is done.                                              *)

LEMMA FoundPromise ==
    ASSUME NEW f, NEW rec, NEW listed, NEW sawn, NEW awaited, Promise(f, rec, listed, sawn, awaited), f \in listed,
           NEW p \in Pattern, NEW now
    PROVE  Promise(f, [rec EXCEPT !.pattern = p, !.rows = p, !.status = "detected", !.read = TRUE], listed, sawn, now)
<1>1. PICK r : r = [rec EXCEPT !.pattern = p, !.rows = p, !.status = "detected", !.read = TRUE]
  OBVIOUS
<1>2. r \in ImportFile
  BY <1>1 DEF Promise, ImportFile
<1>3. r.status = "detected" /\ r.pattern = p /\ r.rows = p /\ r.layout = rec.layout /\ r.confirmed = rec.confirmed
  BY <1>1 DEF Promise, ImportFile
<1>4. Promise(f, r, listed, sawn, now)
  BY <1>2, <1>3 DEF Promise
<1> QED
  BY <1>1, <1>4

LEMMA NotFoundPromise ==
    ASSUME NEW f, NEW rec, NEW listed, NEW sawn, NEW awaited, Promise(f, rec, listed, sawn, awaited), f \in listed,
           NEW known \in BOOLEAN, NEW now
    PROVE  Promise(f, [rec EXCEPT !.pattern = Custom, !.custom = TRUE, !.status = "failed",
                               !.read = known], listed, sawn, now)
<1>1. PICK r : r = [rec EXCEPT !.pattern = Custom, !.custom = TRUE, !.status = "failed",
                               !.read = known]
  OBVIOUS
<1>2. r \in ImportFile
  BY <1>1 DEF Promise, ImportFile, Pattern
<1>3. r.status = "failed" /\ r.layout = rec.layout /\ r.confirmed = rec.confirmed
  BY <1>1 DEF Promise, ImportFile
<1>4. Promise(f, r, listed, sawn, now)
  BY <1>2, <1>3 DEF Promise
<1> QED
  BY <1>1, <1>4

LEMMA AnsweredPromise ==
    ASSUME WizardInv, NEW r \in runs, NEW p \in Pattern \union {None}, NEW verdict \in Verdict \union {None},
           DetectionAnswered(r, p, verdict), NEW now, Awaited \ {Head(r.todo)} \subseteq now
    PROVE  Promises(file', Listed, seen', now)
<1>1. PICK f : f = Head(r.todo)
  OBVIOUS
<1>2. PICK found : found = [file[f] EXCEPT !.pattern = p, !.rows = p, !.status = "detected", !.read = TRUE]
  OBVIOUS
<1>k. PICK known : known = (file[f].read \/ p = Custom)
  OBVIOUS
<1>3. PICK lost : lost = [file[f] EXCEPT !.pattern = Custom, !.custom = TRUE, !.status = "failed",
                                         !.read = known]
  OBVIOUS
<1>4. PICK rec : rec = IF p \notin Named THEN lost ELSE IF verdict = None THEN found ELSE WithInference(found, verdict)
  OBVIOUS
<1>5. file' = Updated(f, rec)
  BY <1>1, <1>2, <1>k, <1>3, <1>4 DEF DetectionAnswered
<1>6. /\ p \notin Named => verdict = None
      /\ seen' = IF verdict = None THEN seen ELSE seen \ {f}
  BY <1>1 DEF DetectionAnswered
<1>7. Promises(file, Listed, seen, Awaited)
  BY PromisesNow
<1>8. ASSUME f \in Listed PROVE Promise(f, rec, Listed, seen', now)
  <2>1. Promise(f, file[f], Listed, seen, Awaited)
    BY <1>8, FilePromise
  <2>2. CASE p \notin Named
    <3>0. known \in BOOLEAN
      BY Zenon, <1>k
    <3>1. Promise(f, lost, Listed, seen, now)
      BY <1>3, <1>8, <2>1, <3>0, NotFoundPromise
    <3> QED
      BY <1>4, <1>6, <2>2, <3>1
  <2>3. CASE p \in Named
    <3>1. p \in Pattern
      BY <2>3 DEF Pattern
    <3>2. Promise(f, found, Listed, seen, now)
      BY <1>2, <1>8, <2>1, <3>1, FoundPromise
    <3>3. CASE verdict = None
      BY <1>4, <1>6, <2>3, <3>2, <3>3
    <3>4. CASE verdict # None
      <4>1. verdict \in Verdict
        BY <3>4
      <4>2. Promise(f, WithInference(found, verdict), Listed, seen', now)
        BY <1>8, <3>2, <4>1, InferencePromise
      <4> QED
        BY <1>4, <2>3, <3>4, <4>2
    <3> QED
      BY <3>3, <3>4
  <2> QED
    BY <2>2, <2>3
<1>9. seen \ {f} \subseteq seen' /\ Awaited \ {f} \subseteq now
  BY <1>1, <1>6
<1>10. Promises([file EXCEPT ![f] = IF f \in Listed THEN rec ELSE file[f]], Listed, seen', now)
  BY <1>7, <1>8, <1>9, OnePromise
<1> QED
  BY <1>5, <1>10 DEF Updated

LEMMA TailOf ==
    ASSUME NEW T, NEW s \in Seq(T), s # << >>
    PROVE  /\ Tail(s) \in Seq(T) /\ Len(s) > 1 => Tail(s) # << >>
           /\ \A x : x \in ToSet(s) => x = Head(s) \/ x \in ToSet(Tail(s))
           /\ \A x : x \in ToSet(s) /\ Len(s) = 1 => x = Head(s)
<1>1. PICK L : L = Len(s)
  OBVIOUS
<1>2. PICK t : t = Tail(s)
  OBVIOUS
<1>3. L \in Nat /\ L > 0 /\ DOMAIN s = 1 .. L
  BY <1>1
<1>4. t \in Seq(T) /\ Len(t) = L - 1 /\ \A i \in 1 .. L - 1 : t[i] = s[i + 1]
  BY <1>1, <1>2
<1>5. DOMAIN t = 1 .. L - 1
  BY <1>4
<1>6. ASSUME NEW x \in ToSet(s) PROVE x = Head(s) \/ (L > 1 /\ x \in ToSet(t))
  <2>1. PICK i \in 1 .. L : s[i] = x
    BY <1>3 DEF ToSet
  <2>2. CASE i = 1
    BY <2>1, <2>2
  <2>3. CASE i # 1
    <3>1. i - 1 \in 1 .. L - 1 /\ (i - 1) + 1 = i /\ L > 1
      BY <1>3, <2>1, <2>3
    <3>2. t[i - 1] = x
      BY <1>4, <2>1, <3>1
    <3> QED
      BY <1>5, <3>1, <3>2 DEF ToSet
  <2> QED
    BY <2>2, <2>3
<1>7. L > 1 => t # << >>
  BY <1>3, <1>4
<1> QED
  BY <1>1, <1>2, <1>3, <1>4, <1>6, <1>7

LEMMA DetectionAnsweredKept ==
    ASSUME WizardInv, NEW r \in runs, NEW p \in Pattern \union {None}, NEW verdict \in Verdict \union {None},
           DetectionAnswered(r, p, verdict)
    PROVE  Kept
<1>1. UNCHANGED <<redetect, files, changes, previews, uploads, work>>
  BY DEF DetectionAnswered, requestVars
<1>2. IsFiniteSet(runs) /\ \A x \in runs : RunShape(x)
  BY DEF WizardInv, RunsInv
<1>s. /\ r = [id |-> r.id, todo |-> r.todo, here |-> r.here, unread |-> r.unread, hung |-> r.hung]
      /\ r.todo \in Seq(File) /\ r.todo # << >> /\ r.here \in BOOLEAN /\ r.hung \in BOOLEAN
  BY <1>2 DEF RunShape
<1>i. PICK id : id = r.id
  OBVIOUS
<1>t. PICK t : t = r.todo
  OBVIOUS
<1>h. PICK here : here = r.here
  OBVIOUS
<1>u. PICK u : u = r.unread
  OBVIOUS
<1>g. PICK hang : hang = r.hung
  OBVIOUS
<1>3. r = [id |-> id, todo |-> t, here |-> here, unread |-> u, hung |-> hang]
  BY <1>s, <1>i, <1>t, <1>h, <1>u, <1>g
<1>4. r.todo = t /\ t \in Seq(File) /\ t # << >> /\ here \in BOOLEAN /\ hang \in BOOLEAN
  BY <1>s, <1>t, <1>h, <1>g
<1>5. PICK others : others = runs \ {r}
  OBVIOUS
<1>6. IsFiniteSet(others) /\ Cardinality(others) = Cardinality(runs) - 1
  BY <1>2, <1>5, FS_RemoveElement
<1>7. Cardinality(runs) \in Nat /\ work \in Nat /\ redetect \in BOOLEAN /\ allDetecting \in BOOLEAN
  BY CardinalityIsNat, PromisesNow
<1>8. work' \in 0 .. MaxWork /\ redetect' \in BOOLEAN /\ Listed' = Listed
  BY <1>1, <1>7 DEF WizardInv, CountInv, Listed
<1>9. allDetecting' \in BOOLEAN
  <2>1. allDetecting' = allDetecting \/ allDetecting' = (allDetecting /\ ~r.here)
    BY DEF DetectionAnswered
  <2> QED
    BY Zenon, <1>7, <2>1
<1>10. CASE Len(r.todo) > 1 /\ runs' = (runs \ {r}) \union {[r EXCEPT !.todo = Tail(r.todo), !.unread = r.unread \ {Head(r.todo)}]}
  <2>a. PICK w : w = Tail(t)
    OBVIOUS
  <2>v. PICK v : v = r.unread \ {Head(r.todo)}
    OBVIOUS
  <2>1. PICK s : s = [id |-> id, todo |-> w, here |-> here, unread |-> v, hung |-> hang]
    OBVIOUS
  <2>2. [r EXCEPT !.todo = w, !.unread = v] = s
    <3>1. PICK x : x = [r EXCEPT !.todo = w]
      OBVIOUS
    <3>2. x = [id |-> id, todo |-> w, here |-> here, unread |-> u, hung |-> hang]
      BY <1>3, <3>1
    <3>3. [x EXCEPT !.unread = v] = s
      BY <2>1, <3>2
    <3>4. [r EXCEPT !.todo = w, !.unread = v] = [[r EXCEPT !.todo = w] EXCEPT !.unread = v]
      OBVIOUS
    <3> QED
      BY Zenon, <3>1, <3>3, <3>4
  <2>b. runs' = others \union {[r EXCEPT !.todo = w, !.unread = v]}
    BY Zenon, <1>4, <1>5, <1>10, <2>a, <2>v
  <2>3. runs' = others \union {s} /\ s.todo = Tail(t)
    BY <2>1, <2>2, <2>a, <2>b
  <2>4. Tail(t) \in Seq(File) /\ Tail(t) # << >>
    BY <1>4, <1>10, TailOf
  <2>5. RunShape(s)
    BY <1>4, <2>a, <2>1, <2>4 DEF RunShape
  <2>c. /\ IsFiniteSet(others \union {s})
        /\ Cardinality(others \union {s}) = IF s \in others THEN Cardinality(others) ELSE Cardinality(others) + 1
    BY <1>6, FS_AddElement
  <2>6. IsFiniteSet(runs') /\ Cardinality(runs') <= Cardinality(runs)
    BY <1>6, <1>7, <2>3, <2>c
  <2>7. RunsInv'
    BY <1>2, <1>5, <2>3, <2>5, <2>6 DEF RunsInv
  <2>8. Cardinality(runs') \in Nat
    BY <2>6, FS_CardinalityType
  <2>9. Cardinality(runs') + work <= Cardinality(runs) + work'
    BY <1>1, <1>7, <2>6, <2>8
  <2>10. RunsAfter
    BY <1>8, <1>9, <2>7, <2>9 DEF RunsAfter
  <2>11. ASSUME NEW g \in Awaited, g # Head(t) PROVE g \in Awaited'
    <3>1. g \in File /\ ((\E x \in runs : g \in ToSet(x.todo)) \/ (\E c \in changes : c.file = g))
      BY DEF Awaited
    <3>2. CASE \E c \in changes : c.file = g
      BY <1>1, <3>1, <3>2 DEF Awaited
    <3>3. ASSUME NEW x \in runs, g \in ToSet(x.todo) PROVE \E y \in runs' : g \in ToSet(y.todo)
      <4>1. CASE x = r
        <5>1. g \in ToSet(Tail(t))
          BY <1>4, <2>11, <3>3, <4>1, TailOf
        <5> QED
          BY <2>3, <5>1
      <4>2. CASE x # r
        BY <1>5, <2>3, <3>3, <4>2
      <4> QED
        BY <4>1, <4>2
    <3> QED
      BY <3>1, <3>2, <3>3 DEF Awaited
  <2>12. Awaited \ {Head(r.todo)} \subseteq Awaited'
    BY <1>4, <2>11
  <2>13. Promises(file', Listed', seen', Awaited')
    BY <1>8, <2>12, AnsweredPromise
  <2> QED
    BY <1>1, <1>8, <2>10, <2>13, RunsCount
<1>11. CASE Len(r.todo) = 1 /\ runs' = runs \ {r}
  <2>1. RunsInv'
    BY <1>2, <1>5, <1>6, <1>11 DEF RunsInv
  <2>2. Cardinality(runs') + work <= Cardinality(runs) + work'
    BY <1>1, <1>5, <1>6, <1>7, <1>11
  <2>3. RunsAfter
    BY <1>8, <1>9, <2>1, <2>2 DEF RunsAfter
  <2>4. ASSUME NEW g \in Awaited, g # Head(t) PROVE g \in Awaited'
    <3>1. g \in File /\ ((\E x \in runs : g \in ToSet(x.todo)) \/ (\E c \in changes : c.file = g))
      BY DEF Awaited
    <3>2. g \notin ToSet(r.todo)
      BY <1>4, <1>11, <2>4, TailOf
    <3> QED
      BY <1>1, <1>11, <3>1, <3>2 DEF Awaited
  <2>5. Awaited \ {Head(r.todo)} \subseteq Awaited'
    BY <1>4, <2>4
  <2>6. Promises(file', Listed', seen', Awaited')
    BY <1>8, <2>5, AnsweredPromise
  <2> QED
    BY <1>1, <1>8, <2>3, <2>6, RunsCount
<1> QED
  BY <1>10, <1>11 DEF DetectionAnswered

LEMMA ReadFailsKept == ASSUME WizardInv, NEW r \in runs, ReadFails(r) PROVE Kept
<1>1. UNCHANGED <<redetect, allDetecting, files, file, seen, changes, previews, uploads>> /\ Work
  BY DEF ReadFails, importVars, requestVars
<1>2. IsFiniteSet(runs) /\ \A x \in runs : RunShape(x)
  BY DEF WizardInv, RunsInv
<1>s. /\ r = [id |-> r.id, todo |-> r.todo, here |-> r.here, unread |-> r.unread, hung |-> r.hung]
      /\ r.todo \in Seq(File) /\ r.todo # << >> /\ r.here \in BOOLEAN /\ r.hung \in BOOLEAN
  BY <1>2 DEF RunShape
<1>i. PICK id : id = r.id
  OBVIOUS
<1>t. PICK t : t = r.todo
  OBVIOUS
<1>h. PICK here : here = r.here
  OBVIOUS
<1>u. PICK u : u = r.unread
  OBVIOUS
<1>g. PICK hang : hang = r.hung
  OBVIOUS
<1>3. r = [id |-> id, todo |-> t, here |-> here, unread |-> u, hung |-> hang]
  BY <1>s, <1>i, <1>t, <1>h, <1>u, <1>g
<1>4. r.todo = t /\ t \in Seq(File) /\ t # << >> /\ here \in BOOLEAN
  BY <1>s, <1>t, <1>h, <1>g
<1>5. PICK others : others = runs \ {r}
  OBVIOUS
<1>y. PICK yes : yes = TRUE
  OBVIOUS
<1>6. PICK s : s = [id |-> id, todo |-> t, here |-> here, unread |-> {}, hung |-> yes]
  OBVIOUS
<1>7. runs' = others \union {s} /\ s.todo = t /\ RunShape(s)
  <2>0. PICK x : x = [r EXCEPT !.unread = {}]
    OBVIOUS
  <2>1. [r EXCEPT !.unread = {}, !.hung = yes] = s
    <3>1. x = [id |-> id, todo |-> t, here |-> here, unread |-> {}, hung |-> hang]
      BY <1>3, <2>0
    <3>2. [x EXCEPT !.hung = yes] = s
      BY <1>6, <3>1
    <3>3. [r EXCEPT !.unread = {}, !.hung = yes] = [[r EXCEPT !.unread = {}] EXCEPT !.hung = yes]
      OBVIOUS
    <3> QED
      BY Zenon, <2>0, <3>2, <3>3
  <2>2. runs' = others \union {[r EXCEPT !.unread = {}, !.hung = yes]}
    BY Zenon, <1>5, <1>y DEF ReadFails
  <2>3. runs' = others \union {s}
    BY Zenon, <2>1, <2>2
  <2> QED
    BY <1>4, <1>6, <1>y, <2>3 DEF RunShape
<1>8. IsFiniteSet(others) /\ Cardinality(others) = Cardinality(runs) - 1
  BY <1>2, <1>5, FS_RemoveElement
<1>9. /\ IsFiniteSet(others \union {s})
      /\ Cardinality(others \union {s}) = IF s \in others THEN Cardinality(others) ELSE Cardinality(others) + 1
  BY <1>8, FS_AddElement
<1>10. Cardinality(runs) \in Nat /\ work \in Nat /\ redetect \in BOOLEAN /\ allDetecting \in BOOLEAN
  BY CardinalityIsNat, PromisesNow
<1>11. IsFiniteSet(runs') /\ Cardinality(runs') <= Cardinality(runs) /\ Cardinality(runs') \in Nat
  BY <1>7, <1>8, <1>9, <1>10, FS_CardinalityType
<1>12. RunsInv'
  BY <1>2, <1>5, <1>7, <1>11 DEF RunsInv
<1>w. work' \in 0 .. MaxWork /\ work' \in Nat /\ work <= work'
  BY <1>1, WorkGrows
<1>13. redetect' \in BOOLEAN /\ allDetecting' \in BOOLEAN /\ Listed' = Listed
  BY <1>1, <1>10 DEF Listed
<1>14. RunsAfter
  BY <1>1, <1>w, <1>10, <1>11, <1>12, <1>13 DEF RunsAfter
<1>15. Awaited \subseteq Awaited'
  <2>1. \A x \in runs : \E y \in runs' : y.todo = x.todo
    BY <1>4, <1>5, <1>7
  <2> QED
    BY <1>1, <2>1 DEF Awaited
<1>16. Promises(file', Listed', seen', Awaited')
  <2>1. Promises(file, Listed, seen, Awaited)
    BY PromisesNow
  <2> QED
    BY <1>1, <1>13, <1>15, <2>1, MorePromises
<1> QED
  BY <1>1, <1>w, <1>10, <1>11, <1>13, <1>14, <1>16, RunsCount

-----------------------------------------------------------------------------
(* Uploads begin, go on, are aborted and end.                              *)

LEMMA UploadsKept ==
    ASSUME WizardInv, RunsAfter, redetect' \in BOOLEAN, UNCHANGED <<changes, previews>>, Len(uploads') \in Nat,
           Cardinality(runs') + Len(uploads') + work <= Cardinality(runs) + Len(uploads) + work',
           Promises(file', Listed', seen', Awaited')
    PROVE  Kept
<1>1. RunsInv' /\ allDetecting' \in BOOLEAN /\ work' \in 0 .. MaxWork
  BY DEF RunsAfter
<1>2. /\ Cardinality(runs) \in Nat /\ Cardinality(changes) \in Nat
      /\ Cardinality(previews) \in Nat /\ Len(uploads) \in Nat /\ work \in Nat
  BY CardinalityIsNat
<1>3. Cardinality(runs') \in Nat /\ work' \in Nat
  BY <1>1, FS_CardinalityType, BoundsAssumption DEF RunsInv
<1>4. Requests' = Cardinality(changes) + Cardinality(previews) + Len(uploads')
  BY DEF Requests
<1>5. Cardinality(runs') + Requests' + work <= Cardinality(runs) + Requests + work'
  BY <1>2, <1>3, <1>4 DEF Requests
<1>6. Cardinality(changes') \in Nat /\ Cardinality(previews') \in Nat
  BY <1>2
<1> QED
  BY <1>1, <1>5, <1>6, CountKept

(* The end of a step that unmounts.                                        *)
LEMMA UnmountKept ==
    ASSUME WizardInv, UnmountAnalyzing, UNCHANGED <<changes, previews>>, Len(uploads') \in Nat,
           work' \in 0 .. MaxWork, work <= work', Len(uploads') + work <= Len(uploads) + work',
           Promises(file', Listed', seen', Awaited)
    PROVE  Kept
<1>1. RunsAfter /\ Awaited' = Awaited /\ redetect' \in BOOLEAN /\ Cardinality(runs') <= Cardinality(runs)
  BY UnmountKeeps
<1>2. Cardinality(runs) \in Nat /\ Len(uploads) \in Nat /\ work \in Nat /\ work' \in Nat
  BY CardinalityIsNat, BoundsAssumption
<1>3. Cardinality(runs') \in Nat
  BY <1>1, FS_CardinalityType DEF RunsAfter, RunsInv
<1>4. Cardinality(runs') + Len(uploads') + work <= Cardinality(runs) + Len(uploads) + work'
  BY <1>1, <1>2, <1>3
<1> QED
  BY <1>1, <1>4, UploadsKept

LEMMA UploadsType == WizardInv => uploads \in Seq(UploadShape) /\ Len(uploads) \in Nat
                                  /\ work \in 0 .. MaxWork /\ work \in Nat
BY CardinalityIsNat DEF WizardInv, UploadInv, CountInv

(* What begins an upload, of these files.                                  *)
Begun(listed) ==
    /\ uploads' \in Seq(UploadShape) /\ Len(uploads') = Len(uploads) + 1 /\ uploading' = TRUE

LEMMA ProceedBegins ==
    ASSUME WizardInv, NEW listed \in Seq(File), listed # << >>, Proceed(listed)
    PROVE  Begun(listed)
<1>1. PICK u : u = [todo |-> listed, here |-> page, aborted |-> FALSE]
  OBVIOUS
<1>2. uploads' = Append(uploads, u) /\ uploading' = TRUE
  BY <1>1 DEF Proceed
<1>3. page \in BOOLEAN
  BY DEF WizardInv, FlagInv
<1>4. listed \in Seq(File) \ {<< >>}
  OBVIOUS
<1>5. u \in UploadShape
  BY <1>1, <1>3, <1>4 DEF UploadShape
<1> QED
  BY <1>2, <1>5, UploadsType DEF Begun

LEMMA ProceedKept ==
    ASSUME WizardInv, NEW listed \in Seq(File), Proceed(listed), UNCHANGED <<files, changes, previews, seen>>
    PROVE  Kept
<1>1. CASE listed = << >>
  <2>1. UNCHANGED <<runs, changes, previews, uploads, work, allDetecting, redetect, file, files, seen>>
    BY <1>1 DEF Proceed, detectVars
  <2>2. Listed' = Listed
    BY <2>1 DEF Listed
  <2> QED
    BY <2>1, <2>2, SameKept
<1>2. CASE listed # << >>
  <2>1. /\ Work /\ UnmountAnalyzing
        /\ file' = Updated(listed[1], [file[listed[1]] EXCEPT !.upload = "uploading"])
    BY <1>2 DEF Proceed
  <2>2. Len(uploads') = Len(uploads) + 1 /\ Len(uploads) \in Nat
    BY <1>2, ProceedBegins, UploadsType DEF Begun
  <2>3. work' \in 0 .. MaxWork /\ work <= work' /\ work' = work + 1 /\ work \in Nat
    BY <2>1, WorkGrows, UploadsType DEF Work
  <2>4. Len(uploads') + work <= Len(uploads) + work' /\ Len(uploads') \in Nat
    BY <2>2, <2>3
  <2>5. PICK f : f = listed[1]
    OBVIOUS
  <2>6. PICK rec : rec = [file[f] EXCEPT !.upload = "uploading"]
    OBVIOUS
  <2>7. f \in Listed => Promise(f, rec, Listed, seen, Awaited)
    BY <2>6, FilePromise, UploadPromise
  <2>8. Promises([file EXCEPT ![f] = IF f \in Listed THEN rec ELSE file[f]], Listed, seen, Awaited)
    BY <2>7, PromisesNow, OnePromise
  <2>9. file' = [file EXCEPT ![f] = IF f \in Listed THEN rec ELSE file[f]]
    BY <2>1, <2>5, <2>6 DEF Updated
  <2>10. Listed' = Listed
    BY DEF Listed
  <2>11. Promises(file', Listed', seen', Awaited)
    BY <2>8, <2>9, <2>10
  <2> QED
    BY <2>1, <2>3, <2>4, <2>11, UnmountKept
<1> QED
  BY <1>1, <1>2

LEMMA NextFromPatternsKept == WizardInv /\ NextFromPatterns => Kept
<1> SUFFICES ASSUME WizardInv, NextFromPatterns PROVE Kept
  OBVIOUS
<1>1. UNCHANGED <<files, changes, previews, seen>> /\ files \in Seq(File)
  BY PromisesNow DEF NextFromPatterns, requestVars
<1>2. Proceed(files) \/ UNCHANGED <<runs, allDetecting, redetect, work, file, uploads>>
  BY DEF NextFromPatterns, detectVars
<1> QED
  BY <1>1, <1>2, ProceedKept, SameFilesKept

LEMMA CloseDialogKept == WizardInv /\ CloseDialog => Kept
<1> SUFFICES ASSUME WizardInv, CloseDialog PROVE Kept
  OBVIOUS
<1>1. UNCHANGED <<files, changes, previews, seen>> /\ files \in Seq(File) /\ Proceed(files)
  BY PromisesNow DEF CloseDialog, requestVars
<1> QED
  BY <1>1, ProceedKept

LEMMA PatternSavedKept == ASSUME WizardInv, NEW ok \in BOOLEAN, PatternSaved(ok) PROVE Kept
<1>1. UNCHANGED <<files, changes, previews, seen>> /\ saving \in Seq(File)
  BY DEF WizardInv, WizardRequestsInv, PatternSaved, requestVars
<1>2. Proceed(saving) \/ UNCHANGED <<runs, allDetecting, redetect, work, file, uploads>>
  BY DEF PatternSaved, detectVars
<1> QED
  BY <1>1, <1>2, ProceedKept, SameFilesKept

(* The end of an upload is noted for one upload at most.                   *)
LEMMA AbortOne ==
    ASSUME NEW s \in Seq(UploadShape), NEW k
    PROVE  [s EXCEPT ![k].aborted = TRUE] \in Seq(UploadShape) /\ Len([s EXCEPT ![k].aborted = TRUE]) = Len(s)
<1>1. PICK L : L = Len(s)
  OBVIOUS
<1>2. L \in Nat /\ DOMAIN s = 1 .. L
  BY <1>1
<1>3. \A i \in 1 .. L : s[i] \in UploadShape
  BY <1>1
<1>4. PICK t : t = [s EXCEPT ![k].aborted = TRUE]
  OBVIOUS
<1>5. t = [i \in 1 .. L |-> IF i = k THEN [s[i] EXCEPT !.aborted = TRUE] ELSE s[i]]
  BY <1>2, <1>4
<1>6. \A i \in 1 .. L : t[i] \in UploadShape
  BY <1>3, <1>5 DEF UploadShape
<1>7. t \in Seq(UploadShape) /\ Len(t) = L
  BY <1>2, <1>5, <1>6
<1> QED
  BY <1>1, <1>4, <1>7

LEMMA AbortedType == WizardInv => Aborted \in Seq(UploadShape) /\ Len(Aborted) = Len(uploads)
<1> SUFFICES ASSUME WizardInv PROVE Aborted \in Seq(UploadShape) /\ Len(Aborted) = Len(uploads)
  OBVIOUS
<1>1. Aborted = uploads \/ \E k : Aborted = [uploads EXCEPT ![k].aborted = TRUE]
  BY Zenon DEF Aborted
<1> QED
  BY <1>1, AbortOne, UploadsType

LEMMA CancelUploadKept == WizardInv /\ CancelUpload => Kept
<1> SUFFICES ASSUME WizardInv, CancelUpload PROVE Kept
  OBVIOUS
<1>1. /\ UNCHANGED <<runs, allDetecting, redetect, work, file, files, changes, previews, seen>>
      /\ uploads' = Aborted
  BY DEF CancelUpload, importVars, detectVars, requestVars
<1>2. RunsAfter /\ redetect' \in BOOLEAN
  BY <1>1, SameRuns, PromisesNow
<1>3. Len(uploads') = Len(uploads) /\ Len(uploads) \in Nat /\ Cardinality(runs) \in Nat /\ work \in Nat
  BY <1>1, AbortedType, CardinalityIsNat
<1>4. /\ Cardinality(runs') + Len(uploads') + work <= Cardinality(runs) + Len(uploads) + work'
      /\ Len(uploads') \in Nat
  BY <1>1, <1>3
<1>5. Promises(file', Listed', seen', Awaited')
  BY <1>1, PromisesNow DEF Listed, Awaited
<1> QED
  BY <1>1, <1>2, <1>4, <1>5, UploadsKept

(* The marks an upload makes keep the promises.                            *)
MarkedIn(table, upd) ==
    /\ DOMAIN upd = File
    /\ \A f \in File : upd[f] = table[f] \/ /\ f \in Listed
                                            /\ \E u \in {"pending", "uploading", "success", "failed"} :
                                                   upd[f] = [table[f] EXCEPT !.upload = u]

LEMMA MarkedPromises ==
    ASSUME WizardInv, NEW upd, MarkedIn(file, upd)
    PROVE  Promises(upd, Listed, seen, Awaited)
<1>1. ASSUME NEW f \in File PROVE Promise(f, upd[f], Listed, seen, Awaited)
  <2>1. Promise(f, file[f], Listed, seen, Awaited)
    BY PromisesNow DEF Promises
  <2>2. CASE upd[f] = file[f]
    BY <2>1, <2>2
  <2>3. ASSUME f \in Listed, NEW u \in {"pending", "uploading", "success", "failed"},
               upd[f] = [file[f] EXCEPT !.upload = u]
        PROVE  Promise(f, upd[f], Listed, seen, Awaited)
    <3>1. Promise(f, [file[f] EXCEPT !.upload = u], Listed, seen, Awaited)
      BY Zenon, <2>1, <2>3, UploadPromise
    <3> QED
      BY Zenon, <2>3, <3>1
  <2> QED
    BY <2>2, <2>3 DEF MarkedIn
<1> QED
  BY <1>1 DEF Promises, MarkedIn

(* A file of an upload is done: what is left, and the upload ends or goes on.                *)
LEMMA FileUploadedIs ==
    ASSUME WizardInv, NEW i \in DOMAIN uploads, NEW ok \in BOOLEAN, FileUploaded(i, ok)
    PROVE  \E upd, rest :
               /\ MarkedIn(file, upd)
               /\ \/ FinishImport(i, upd)
                  \/ /\ rest \in Seq(File) /\ rest # << >>
                     /\ uploads' = [uploads EXCEPT ![i].todo = rest]
                     /\ file' = upd /\ UNCHANGED <<step, uploading, detectVars, work>>
<1>1. PICK u : u = uploads[i]
  OBVIOUS
<1>2. PICK rest : rest = IF u.aborted THEN << >> ELSE Tail(u.todo)
  OBVIOUS
<1>3. PICK result : result = IF ok THEN "success" ELSE "failed"
  OBVIOUS
<1>4. PICK upd : upd = [f \in File |->
                           IF f \notin Listed \/ f \notin ToSet(u.todo) THEN file[f]
                           ELSE IF f = Head(u.todo) THEN [file[f] EXCEPT !.upload = result]
                           ELSE IF rest = << >> THEN [file[f] EXCEPT !.upload = "failed"]
                           ELSE IF f = Head(rest) THEN [file[f] EXCEPT !.upload = "uploading"]
                           ELSE file[f]]
  OBVIOUS
<1>5. \/ rest = << >> /\ FinishImport(i, upd)
      \/ /\ rest # << >>
         /\ uploads' = [uploads EXCEPT ![i].todo = rest]
         /\ file' = upd
         /\ UNCHANGED <<step, uploading, detectVars, work>>
  BY Zenon, <1>1, <1>2, <1>3, <1>4 DEF FileUploaded
<1>6. u \in UploadShape
  BY <1>1, UploadsType
<1>7. u.todo \in Seq(File) /\ u.todo # << >>
  BY <1>6 DEF UploadShape
<1>8. Tail(u.todo) \in Seq(File)
  BY <1>7, TailOf
<1>9. rest # << >> => rest \in Seq(File)
  BY <1>2, <1>8
<1>10. MarkedIn(file, upd)
  <2>1. PICK h1, h2, t : h1 = Head(u.todo) /\ h2 = Head(rest) /\ t = ToSet(u.todo)
    OBVIOUS
  <2>2. upd = [f \in File |->
                  IF f \notin Listed \/ f \notin t THEN file[f]
                  ELSE IF f = h1 THEN [file[f] EXCEPT !.upload = result]
                  ELSE IF rest = << >> THEN [file[f] EXCEPT !.upload = "failed"]
                  ELSE IF f = h2 THEN [file[f] EXCEPT !.upload = "uploading"]
                  ELSE file[f]]
    BY <1>4, <2>1
  <2>3. result \in {"pending", "uploading", "success", "failed"}
    BY <1>3
  <2> QED
    BY <2>2, <2>3 DEF MarkedIn
<1> QED
  BY <1>5, <1>9, <1>10

LEMMA UploadsChange ==
    ASSUME WizardInv, NEW i \in DOMAIN uploads
    PROVE  /\ RemoveAt(uploads, i) \in Seq(UploadShape) /\ Len(RemoveAt(uploads, i)) = Len(uploads) - 1
           /\ \A rest : rest \in Seq(File) /\ rest # << >>
                 => /\ [uploads EXCEPT ![i].todo = rest] \in Seq(UploadShape)
                    /\ Len([uploads EXCEPT ![i].todo = rest]) = Len(uploads)
<1>1. uploads \in Seq(UploadShape) /\ i \in 1 .. Len(uploads)
  BY UploadsType
<1>2. RemoveAt(uploads, i) \in Seq(UploadShape) /\ Len(RemoveAt(uploads, i)) = Len(uploads) - 1
  BY <1>1, RemoveAtRemoves DEF Removed
<1>3. ASSUME NEW rest \in Seq(File) \ {<< >>}
      PROVE  /\ [uploads EXCEPT ![i].todo = rest] \in Seq(UploadShape)
             /\ Len([uploads EXCEPT ![i].todo = rest]) = Len(uploads)
  <2>1. PICK v : v = [uploads[i] EXCEPT !.todo = rest]
    OBVIOUS
  <2>a. uploads[i] \in UploadShape
    BY <1>1
  <2>2. v \in UploadShape
    BY <2>1, <2>a DEF UploadShape
  <2>3. [uploads EXCEPT ![i].todo = rest] = [uploads EXCEPT ![i] = v]
    BY <1>1, <2>1
  <2>4. [uploads EXCEPT ![i] = v] \in Seq(UploadShape) /\ Len([uploads EXCEPT ![i] = v]) = Len(uploads)
    BY <1>1, <2>2
  <2> QED
    BY <2>3, <2>4
<1> QED
  BY <1>2, <1>3

LEMMA FileUploadedKept ==
    ASSUME WizardInv, NEW i \in DOMAIN uploads, NEW ok \in BOOLEAN, FileUploaded(i, ok)
    PROVE  Kept
<1>1. UNCHANGED <<files, changes, previews, seen>>
  BY DEF FileUploaded, requestVars
<1>2. PICK upd, rest :
               /\ MarkedIn(file, upd)
               /\ \/ FinishImport(i, upd)
                  \/ /\ rest \in Seq(File) /\ rest # << >>
                     /\ uploads' = [uploads EXCEPT ![i].todo = rest]
                     /\ file' = upd /\ UNCHANGED <<step, uploading, detectVars, work>>
  BY FileUploadedIs
<1>3. Promises(upd, Listed, seen, Awaited) /\ Listed' = Listed
  BY <1>1, <1>2, MarkedPromises DEF Listed
<1>4. Len(uploads) \in Nat /\ Cardinality(runs) \in Nat /\ work \in Nat /\ work \in 0 .. MaxWork
  BY CardinalityIsNat, UploadsType
<1>5. CASE FinishImport(i, upd)
  <2>1. Len(uploads') = Len(uploads) - 1 /\ uploads' \in Seq(UploadShape)
    BY <1>5, UploadsChange DEF FinishImport
  <2>2. Len(uploads') \in Nat
    BY <2>1
  <2>3. CASE MountAnalyzing(files, upd)
    <3>1. files \in Seq(File) /\ Promises(upd, ToSet(files), seen', Awaited)
      BY <1>1, <1>3, PromisesNow DEF Listed
    <3>2. RunsAfter /\ Promises(file', ToSet(files), seen', Awaited') /\ redetect' \in BOOLEAN
      BY <1>1, <2>3, <3>1, MountKeeps
    <3>3. Promises(file', Listed', seen', Awaited')
      BY <1>3, <3>2 DEF Listed
    <3>4. Cardinality(runs') \in Nat /\ work' \in Nat /\ Cardinality(runs') + work <= Cardinality(runs) + work'
      BY <3>2, FS_CardinalityType, BoundsAssumption DEF RunsAfter, RunsInv
    <3>5. Cardinality(runs') + Len(uploads') + work <= Cardinality(runs) + Len(uploads) + work'
      BY <1>4, <2>1, <2>2, <3>4
    <3> QED
      BY <1>1, <2>2, <3>2, <3>3, <3>5, UploadsKept
  <2>4. CASE file' = upd /\ UNCHANGED <<detectVars, work>>
    <3>1. UNCHANGED <<runs, allDetecting, redetect, work>>
      BY <2>4 DEF detectVars
    <3>2. RunsAfter /\ redetect' \in BOOLEAN
      BY <3>1, SameRuns, PromisesNow
    <3>3. Promises(file', Listed', seen', Awaited')
      BY <1>1, <1>3, <2>4, <3>1 DEF Awaited
    <3>4. Cardinality(runs') + Len(uploads') + work <= Cardinality(runs) + Len(uploads) + work'
      BY <1>4, <2>1, <2>2, <3>1
    <3> QED
      BY <1>1, <2>2, <3>2, <3>3, <3>4, UploadsKept
  <2>5. CASE file' = upd /\ UnmountAnalyzing /\ UNCHANGED work
    <3>1. work' \in 0 .. MaxWork /\ work <= work' /\ Len(uploads') + work <= Len(uploads) + work'
      BY <1>4, <2>1, <2>2, <2>5
    <3>2. Promises(file', Listed', seen', Awaited)
      BY <1>1, <1>3, <2>5
    <3> QED
      BY <1>1, <2>2, <2>5, <3>1, <3>2, UnmountKept
  <2> QED
    BY <1>5, <2>3, <2>4, <2>5 DEF FinishImport
<1>6. CASE /\ rest \in Seq(File) /\ rest # << >>
           /\ uploads' = [uploads EXCEPT ![i].todo = rest]
           /\ file' = upd /\ UNCHANGED <<step, uploading, detectVars, work>>
  <2>1. UNCHANGED <<runs, allDetecting, redetect, work>>
    BY <1>6 DEF detectVars
  <2>2. RunsAfter /\ redetect' \in BOOLEAN
    BY <2>1, SameRuns, PromisesNow
  <2>3. Promises(file', Listed', seen', Awaited')
    BY <1>1, <1>3, <1>6, <2>1 DEF Awaited
  <2>4. Len(uploads') = Len(uploads)
    BY <1>6, UploadsChange
  <2>5. Cardinality(runs') + Len(uploads') + work <= Cardinality(runs) + Len(uploads) + work' /\ Len(uploads') \in Nat
    BY <1>4, <2>1, <2>4
  <2> QED
    BY <1>1, <2>2, <2>3, <2>5, UploadsKept
<1> QED
  BY <1>2, <1>5, <1>6

-----------------------------------------------------------------------------
(* Ways out.                                                               *)

LEMMA ResetPromises == ASSUME ResetStore, NEW awaited PROVE Promises(file', Listed', seen', awaited)
BY NewPromises DEF ResetStore, Promises

LEMMA BackKept == WizardInv /\ Back => Kept
<1> SUFFICES ASSUME WizardInv, Back PROVE Kept
  OBVIOUS
<1>1. ResetStore /\ UnmountAnalyzing /\ UNCHANGED <<changes, previews, uploads, work>>
  BY DEF Back, requestVars
<1>2. /\ Len(uploads') \in Nat /\ work' \in 0 .. MaxWork /\ work <= work'
      /\ Len(uploads') + work <= Len(uploads) + work'
  BY <1>1, UploadsType
<1> QED
  BY <1>1, <1>2, ResetPromises, UnmountKept

LEMMA LeftUploads ==
    ASSUME WizardInv, UnmountImport
    PROVE  uploads' \in Seq(UploadShape) /\ Len(uploads') = Len(uploads)
<1>1. PICK a : a = Aborted
  OBVIOUS
<1>2. a \in Seq(UploadShape) /\ Len(a) = Len(uploads)
  BY <1>1, AbortedType
<1>3. PICK L : L = Len(uploads)
  OBVIOUS
<1>4. L \in Nat /\ DOMAIN uploads = 1 .. L
  BY <1>3, UploadsType
<1>5. uploads' = [i \in 1 .. L |-> [a[i] EXCEPT !.here = FALSE]]
  BY <1>1, <1>4 DEF UnmountImport
<1>6. \A i \in 1 .. L : a[i] \in UploadShape
  BY <1>2, <1>3
<1>7. \A i \in 1 .. L : uploads'[i] \in UploadShape
  BY <1>5, <1>6 DEF UploadShape
<1>8. uploads' \in Seq(UploadShape) /\ Len(uploads') = L
  BY <1>4, <1>5, <1>7
<1> QED
  BY <1>3, <1>8

LEMMA UnmountImportKept ==
    ASSUME WizardInv, UnmountImport, Promises(file', Listed', seen', Awaited)
    PROVE  Kept
<1>1. UnmountAnalyzing /\ UNCHANGED <<changes, previews, work>>
  BY DEF UnmountImport, requestVars
<1>2. /\ Len(uploads') \in Nat /\ work' \in 0 .. MaxWork /\ work <= work'
      /\ Len(uploads') + work <= Len(uploads) + work'
  BY <1>1, LeftUploads, UploadsType
<1> QED
  BY <1>1, <1>2, UnmountKept

LEMMA LeaveKept == WizardInv /\ (Leave \/ LeaveSummary) => Kept
<1> SUFFICES ASSUME WizardInv, Leave \/ LeaveSummary PROVE Kept
  OBVIOUS
<1>1. CASE Leave
  <2>1. UnmountImport /\ UNCHANGED <<file, files, seen>>
    BY <1>1 DEF Leave, importVars
  <2>2. Promises(file', Listed', seen', Awaited)
    BY <2>1, PromisesNow DEF Listed
  <2> QED
    BY <2>1, <2>2, UnmountImportKept
<1>2. CASE LeaveSummary
  BY <1>2, ResetPromises, UnmountImportKept DEF LeaveSummary
<1> QED
  BY <1>1, <1>2

-----------------------------------------------------------------------------
(* The requests keep their shape.                                          *)

LEMMA RequestsStep == WizardInv /\ WizardNext => WizardRequestsInv'
<1> SUFFICES ASSUME WizardInv, WizardNext PROVE WizardRequestsInv'
  OBVIOUS
<1>0. /\ IsFiniteSet(changes) /\ IsFiniteSet(previews) /\ files \in Seq(File)
      /\ \A c \in changes : TrialShape(c)
      /\ \A q \in previews : q.file \in File
      /\ saving # None => saving \in Seq(File)
  BY PromisesNow DEF WizardInv, WizardRequestsInv
<1>1. CASE UNCHANGED <<changes, previews, saving>>
  BY <1>0, <1>1 DEF WizardRequestsInv
<1>2. ASSUME NEW f \in File, NEW p \in Pattern, ChangePattern(f, p) PROVE WizardRequestsInv'
  <2>1. IsFiniteSet(changes') /\ \A d \in changes' : TrialShape(d)
    BY <1>2, ChangePatternKept
  <2>2. UNCHANGED <<previews, saving>>
    BY <1>2 DEF ChangePattern, dialogVars
  <2> QED
    BY <1>0, <2>1, <2>2 DEF WizardRequestsInv
<1>3. ASSUME NEW c \in changes, NEW ok \in BOOLEAN, ChangeAnswered(c, ok) PROVE WizardRequestsInv'
  <2>1. IsFiniteSet(changes') /\ changes' \subseteq changes
    BY <1>3, ChangeAnsweredKept
  <2>2. UNCHANGED <<previews, saving>>
    BY <1>3 DEF ChangeAnswered, dialogVars
  <2> QED
    BY <1>0, <2>1, <2>2 DEF WizardRequestsInv
<1>4. CASE Preview
  <2>1. PICK n : n = Fresh(previews)
    OBVIOUS
  <2>2. PICK q : q = [id |-> n, file |-> activeFile]
    OBVIOUS
  <2>3. previews' = previews \union {q} /\ q.file = activeFile
    BY <1>4, <2>1, <2>2 DEF Preview
  <2>4. activeFile \in File
    BY <1>4, ActiveIsListed, FilePromise DEF Preview
  <2>5. IsFiniteSet(previews')
    BY <1>0, <2>3, FS_AddElement
  <2>6. UNCHANGED <<changes, saving>>
    BY <1>4 DEF Preview, dialogVars
  <2> QED
    BY <1>0, <2>3, <2>4, <2>5, <2>6 DEF WizardRequestsInv
<1>5. ASSUME NEW q \in previews, NEW verdict \in Verdict \union {None}, PreviewAnswered(q, verdict) PROVE WizardRequestsInv'
  <2>1. UNCHANGED <<changes, saving>> /\ previews' = previews \ {q}
    BY <1>5 DEF PreviewAnswered, dialogVars
  <2>2. IsFiniteSet(previews')
    BY <1>0, <2>1, FS_RemoveElement
  <2> QED
    BY <1>0, <2>1, <2>2 DEF WizardRequestsInv
<1>6. CASE SavePattern
  BY <1>0, <1>6 DEF SavePattern, requestVars, WizardRequestsInv
<1>7. ASSUME NEW ok \in BOOLEAN, PatternSaved(ok) PROVE WizardRequestsInv'
  BY <1>0, <1>7 DEF PatternSaved, requestVars, WizardRequestsInv
<1>8. CASE FirstStep
  BY <1>1, <1>8 DEF FirstStep, AddFiles, RemoveFile, PreviewRead, NextFromFiles, requestVars, dialogVars
<1>9. CASE Redetect \/ SetMultiline \/ RedetectFires \/ (\E r \in runs : ReadFails(r))
  BY <1>1, <1>9 DEF Redetect, SetMultiline, RedetectFires, ReadFails, requestVars, dialogVars
<1>15. ASSUME NEW r \in runs, NEW p \in Pattern \union {None}, NEW verdict \in Verdict \union {None},
              DetectionAnswered(r, p, verdict)
       PROVE  WizardRequestsInv'
  BY <1>1, <1>15 DEF DetectionAnswered, requestVars, dialogVars
<1>10. CASE PatchOverride \/ ResetOverrides \/ Confirm \/ ApplyToAll
  BY <1>1, <1>10 DEF PatchOverride, ResetOverrides, Confirm, ApplyToAll, requestVars, dialogVars
<1>11. CASE NextFromPatterns \/ CloseDialog \/ CancelUpload
  BY <1>1, <1>11 DEF NextFromPatterns, CloseDialog, CancelUpload, requestVars, dialogVars
<1>12. ASSUME NEW i \in DOMAIN uploads, NEW ok \in BOOLEAN, FileUploaded(i, ok) PROVE WizardRequestsInv'
  BY <1>1, <1>12 DEF FileUploaded, requestVars, dialogVars
<1>13. CASE Back \/ Leave \/ LeaveSummary
  BY <1>1, <1>13 DEF Back, Leave, LeaveSummary, UnmountImport, requestVars, dialogVars
<1>14. CASE Return
  BY <1>1, <1>14 DEF Return, requestVars, dialogVars
<1> QED
  BY <1>2, <1>3, <1>4, <1>5, <1>6, <1>7, <1>8, <1>9, <1>10, <1>11, <1>12, <1>13, <1>14, <1>15
     DEF WizardNext, Detection, Review, Upload

-----------------------------------------------------------------------------
(* The uploads, and the order of the import.                               *)

LEMMA NoMoreUploads == ASSUME NEW s \in Seq(UploadShape) PROVE s = << >> <=> Len(s) = 0
OBVIOUS

LEMMA OrderedUploads ==
    WizardInv => /\ late \in BOOLEAN /\ uploads \in Seq(UploadShape) /\ Len(uploads) \in Nat
                 /\ (~late => UploadOrder) /\ (uploads = << >> <=> Len(uploads) = 0)
BY UploadsType, NoMoreUploads DEF WizardInv, UploadInv, FlagInv

(* The order holds while nothing of it changes but the step, which leads on.                 *)
LEMMA SameOrder ==
    ASSUME WizardInv, UNCHANGED <<uploads, late, saving, dialog, uploading>>, step' \in {step, 2}
    PROVE  UploadInv'
BY OrderedUploads DEF UploadInv, UploadOrder

(* An upload begins only from the dialog, or when there is none.           *)
LEMMA ProceedOrder ==
    ASSUME WizardInv, NEW listed \in Seq(File), Proceed(listed), step' = step,
           late' \in BOOLEAN, ~late' => /\ ~late /\ uploads = << >> /\ step = 2
                                        /\ saving' = None /\ ~dialog'
    PROVE  UploadInv'
<1>1. CASE listed = << >>
  <2>1. uploads' = uploads /\ uploading' = uploading
    BY <1>1 DEF Proceed
  <2> QED
    BY <2>1, OrderedUploads DEF UploadInv, UploadOrder
<1>2. CASE listed # << >>
  <2>1. uploads' \in Seq(UploadShape) /\ Len(uploads') = Len(uploads) + 1 /\ uploading' = TRUE
    BY <1>2, ProceedBegins DEF Begun
  <2>2. uploads = << >> => Len(uploads') = 1
    BY <2>1, OrderedUploads
  <2> QED
    BY <2>1, <2>2 DEF UploadInv, UploadOrder
<1> QED
  BY <1>1, <1>2

LEMMA DialogOrder == ASSUME WizardInv, NextFromPatterns \/ SavePattern \/ CloseDialog PROVE UploadInv'
<1>0. files \in Seq(File) /\ late \in BOOLEAN /\ dialog \in BOOLEAN
  BY PromisesNow, OrderedUploads DEF WizardInv, FlagInv
<1>1. CASE NextFromPatterns
  <2>1. Usable /\ UNCHANGED <<step, saving, late>> /\ step = 2 /\ ~dialog /\ ~uploading
    BY <1>1 DEF NextFromPatterns, Usable, Analyzing
  <2>2. ~late => uploads = << >> /\ saving = None
    BY <2>1, OrderedUploads DEF UploadOrder
  <2>3. CASE dialog' = TRUE /\ UNCHANGED <<uploading, uploads>>
    BY <2>1, <2>2, <2>3, OrderedUploads DEF UploadInv, UploadOrder
  <2>4. CASE Proceed(files) /\ UNCHANGED dialog
    <3>1. late' \in BOOLEAN
      BY Zenon, <1>0, <2>1
    <3>2. ~late' => ~late /\ uploads = << >> /\ step = 2 /\ saving' = None /\ ~dialog'
      BY <2>1, <2>2, <2>4
    <3> QED
      BY <1>0, <2>1, <2>4, <3>1, <3>2, ProceedOrder
  <2> QED
    BY <1>1, <2>3, <2>4 DEF NextFromPatterns
<1>2. CASE SavePattern
  <2>1. dialog /\ UNCHANGED <<step, uploading, uploads, dialog, late>>
    BY <1>2 DEF SavePattern, importVars
  <2> QED
    BY <2>1, OrderedUploads DEF UploadInv, UploadOrder
<1>3. CASE CloseDialog
  <2>1. /\ dialog /\ dialog' = FALSE /\ late' = (late \/ saving # None) /\ Proceed(files)
        /\ UNCHANGED <<step, saving>>
    BY <1>3 DEF CloseDialog
  <2>2. late' \in BOOLEAN
    BY Zenon, <1>0, <2>1
  <2>3. ~late' => ~late /\ saving = None
    BY <2>1
  <2>4. ~late' => ~late /\ uploads = << >> /\ step = 2 /\ saving' = None /\ ~dialog'
    BY <2>1, <2>3, OrderedUploads DEF UploadOrder
  <2> QED
    BY <1>0, <2>1, <2>2, <2>4, ProceedOrder
<1> QED
  BY <1>1, <1>2, <1>3

LEMMA SavedOrder == ASSUME WizardInv, NEW ok \in BOOLEAN, PatternSaved(ok) PROVE UploadInv'
<1>1. saving # None /\ saving' = None /\ UNCHANGED <<step, late>> /\ saving \in Seq(File)
  BY DEF PatternSaved, WizardInv, WizardRequestsInv
<1>2. ~late => dialog /\ uploads = << >> /\ step = 2
  BY <1>1, OrderedUploads DEF UploadOrder
<1>3. CASE dialog' = FALSE /\ Proceed(saving)
  <2>1. late' \in BOOLEAN
    BY Zenon, <1>1, OrderedUploads
  <2>2. ~late' => ~late /\ uploads = << >> /\ step = 2 /\ saving' = None /\ ~dialog'
    BY <1>1, <1>2, <1>3
  <2> QED
    BY <1>1, <1>3, <2>1, <2>2, ProceedOrder
<1>4. CASE UNCHANGED <<dialog, uploading, uploads>>
  BY <1>1, <1>2, <1>4, OrderedUploads DEF UploadInv, UploadOrder
<1> QED
  BY <1>3, <1>4 DEF PatternSaved

LEMMA UploadedOrder ==
    ASSUME WizardInv, NEW i \in DOMAIN uploads, NEW ok \in BOOLEAN, FileUploaded(i, ok)
    PROVE  UploadInv'
<1>1. PICK upd, rest :
               /\ MarkedIn(file, upd)
               /\ \/ FinishImport(i, upd)
                  \/ /\ rest \in Seq(File) /\ rest # << >>
                     /\ uploads' = [uploads EXCEPT ![i].todo = rest]
                     /\ file' = upd /\ UNCHANGED <<step, uploading, detectVars, work>>
  BY FileUploadedIs
<1>2. UNCHANGED <<dialog, saving, late>>
  BY DEF FileUploaded, dialogVars
<1>3. uploads # << >> /\ Len(uploads) \in Nat
  <2>1. i \in 1 .. Len(uploads)
    BY OrderedUploads
  <2> QED
    BY <2>1, OrderedUploads
<1>4. ~late => /\ ~dialog /\ saving = None /\ uploading /\ step = 2 /\ Len(uploads) <= 1
  BY <1>3, OrderedUploads DEF UploadOrder
<1>5. CASE FinishImport(i, upd)
  <2>1. uploads' \in Seq(UploadShape) /\ Len(uploads') = Len(uploads) - 1
    BY <1>5, UploadsChange DEF FinishImport
  <2>2. ~late => uploads' = << >> /\ Len(uploads') = 0
    BY <1>3, <1>4, <2>1, NoMoreUploads
  <2> QED
    BY <1>2, <1>4, <2>1, <2>2 DEF UploadInv, UploadOrder
<1>6. CASE /\ rest \in Seq(File) /\ rest # << >>
           /\ uploads' = [uploads EXCEPT ![i].todo = rest]
           /\ UNCHANGED <<step, uploading>>
  <2>1. uploads' \in Seq(UploadShape) /\ Len(uploads') = Len(uploads)
    BY <1>6, UploadsChange
  <2> QED
    BY <1>2, <1>4, <1>6, <2>1 DEF UploadInv, UploadOrder
<1> QED
  BY <1>1, <1>5, <1>6

LEMMA WayOutOrder == ASSUME WizardInv, CancelUpload \/ Back \/ Leave \/ LeaveSummary PROVE UploadInv'
<1>0. /\ uploads \in Seq(UploadShape) /\ Len(uploads) \in Nat /\ (uploads = << >> <=> Len(uploads) = 0)
      /\ late \in BOOLEAN /\ (~late => UploadOrder)
  BY OrderedUploads
<1>1. CASE CancelUpload
  <2>1. uploads' = Aborted /\ UNCHANGED <<step, uploading, dialog, saving, late>>
    BY <1>1 DEF CancelUpload, importVars, dialogVars
  <2>2. uploads' \in Seq(UploadShape) /\ Len(uploads') = Len(uploads)
    BY <2>1, AbortedType
  <2>3. uploads' = << >> <=> uploads = << >>
    BY <1>0, <2>2, NoMoreUploads
  <2> QED
    BY <1>0, <2>1, <2>2, <2>3 DEF UploadInv, UploadOrder
<1>2. CASE Back
  <2>1. ~dialog /\ ~uploading /\ UNCHANGED <<uploads, dialog, saving, late>>
    BY <1>2 DEF Back, dialogVars
  <2> QED
    BY <1>0, <2>1 DEF UploadInv, UploadOrder
<1>3. ASSUME UnmountImport
      PROVE  /\ uploads' \in Seq(UploadShape) /\ (uploads' = << >> <=> uploads = << >>) /\ Len(uploads') = Len(uploads)
             /\ dialog' = FALSE /\ (~late' => ~late /\ saving = None /\ saving' = None)
  <2>1. uploads' \in Seq(UploadShape) /\ Len(uploads') = Len(uploads)
    BY <1>3, LeftUploads
  <2>2. uploads' = << >> <=> uploads = << >>
    BY <1>0, <2>1, NoMoreUploads
  <2>3. dialog' = FALSE /\ (~late' => ~late /\ saving = None /\ saving' = None)
    BY <1>3 DEF UnmountImport
  <2> QED
    BY <2>1, <2>2, <2>3
<1>4. CASE Leave
  <2>1. UnmountImport /\ UNCHANGED <<step, uploading>>
    BY <1>4 DEF Leave, importVars
  <2> QED
    BY <1>0, <1>3, <2>1 DEF UploadInv, UploadOrder
<1>5. CASE LeaveSummary
  <2>1. UnmountImport /\ step = 3
    BY <1>5 DEF LeaveSummary
  <2>2. ~late => uploads = << >>
    BY <1>0, <2>1 DEF UploadOrder
  <2> QED
    BY <1>0, <1>3, <2>1, <2>2 DEF UploadInv, UploadOrder
<1> QED
  BY <1>1, <1>2, <1>4, <1>5

LEMMA UploadStep == WizardInv /\ WizardNext => UploadInv'
<1> SUFFICES ASSUME WizardInv, WizardNext PROVE UploadInv'
  OBVIOUS
<1>1. CASE UNCHANGED <<uploads, dialogVars, uploading>> /\ step' \in {step, 2}
  BY <1>1, SameOrder DEF dialogVars
<1>2. CASE FirstStep
  BY <1>1, <1>2 DEF FirstStep, AddFiles, RemoveFile, PreviewRead, NextFromFiles
<1>3. CASE Redetect \/ SetMultiline \/ RedetectFires \/ (\E r \in runs : ReadFails(r))
  BY <1>1, <1>3 DEF Redetect, SetMultiline, RedetectFires, ReadFails, importVars
<1>4. ASSUME NEW r \in runs, NEW p \in Pattern \union {None}, NEW verdict \in Verdict \union {None},
             DetectionAnswered(r, p, verdict)
      PROVE  UploadInv'
  BY <1>1, <1>4 DEF DetectionAnswered
<1>5. ASSUME NEW f \in File, NEW p \in Pattern, ChangePattern(f, p) PROVE UploadInv'
  BY <1>1, <1>5 DEF ChangePattern
<1>6. ASSUME NEW c \in changes, NEW ok \in BOOLEAN, ChangeAnswered(c, ok) PROVE UploadInv'
  BY <1>1, <1>6 DEF ChangeAnswered
<1>7. CASE PatchOverride \/ ResetOverrides \/ Confirm
  BY <1>1, <1>7 DEF PatchOverride, ResetOverrides, Confirm
<1>8. CASE ApplyToAll \/ Preview
  BY <1>1, <1>8 DEF ApplyToAll, Preview
<1>9. ASSUME NEW q \in previews, NEW verdict \in Verdict \union {None}, PreviewAnswered(q, verdict) PROVE UploadInv'
  BY <1>1, <1>9 DEF PreviewAnswered
<1>10. CASE Return
  BY <1>1, <1>10 DEF Return
<1> QED
  BY <1>2, <1>3, <1>4, <1>5, <1>6, <1>7, <1>8, <1>9, <1>10, DialogOrder, SavedOrder, UploadedOrder, WayOutOrder
     DEF WizardNext, Detection, Review, Upload

-----------------------------------------------------------------------------
(* The flags, and all of it.                                               *)

FlagsNow ==
    /\ page' \in BOOLEAN /\ reading' \in BOOLEAN /\ dialog' \in BOOLEAN /\ dialogShown' \in BOOLEAN
    /\ uploading' \in BOOLEAN /\ late' \in BOOLEAN /\ step' \in 1 .. 3

LEMMA Flags ==
    ASSUME WizardInv,
           page' = page \/ page' = TRUE \/ page' = FALSE,
           reading' = reading \/ reading' = TRUE \/ reading' = FALSE,
           dialog' = dialog \/ dialog' = TRUE \/ dialog' = FALSE,
           dialogShown' = dialogShown \/ dialogShown' = TRUE \/ dialogShown' = FALSE,
           uploading' = uploading \/ uploading' = TRUE \/ uploading' = FALSE,
           late' = late \/ late' = (late \/ saving # None),
           step' \in {step, 1, 2, 3}
    PROVE  FlagsNow
<1>1. /\ page \in BOOLEAN /\ reading \in BOOLEAN /\ dialog \in BOOLEAN /\ dialogShown \in BOOLEAN
      /\ uploading \in BOOLEAN /\ late \in BOOLEAN /\ step \in 1 .. 3
  BY DEF WizardInv, FlagInv
<1>2. page' \in BOOLEAN /\ reading' \in BOOLEAN
  BY Zenon, <1>1
<1>3. dialog' \in BOOLEAN /\ dialogShown' \in BOOLEAN
  BY Zenon, <1>1
<1>4. uploading' \in BOOLEAN
  BY Zenon, <1>1
<1>5. late' \in BOOLEAN
  BY Zenon, <1>1
<1>6. step' \in 1 .. 3
  BY <1>1
<1> QED
  BY <1>2, <1>3, <1>4, <1>5, <1>6 DEF FlagsNow

LEMMA FlagStep == WizardInv /\ WizardNext => FlagsNow
<1> SUFFICES ASSUME WizardInv, WizardNext PROVE FlagsNow
  OBVIOUS
<1>1. CASE /\ UNCHANGED <<page, dialogVars, uploading>> /\ step' \in {step, 2}
           /\ reading' = reading \/ reading' = TRUE \/ reading' = FALSE
  BY <1>1, Flags DEF dialogVars
<1>2. CASE FirstStep
  BY <1>1, <1>2 DEF FirstStep, AddFiles, RemoveFile, PreviewRead, NextFromFiles
<1>3. CASE Redetect \/ SetMultiline \/ RedetectFires \/ (\E r \in runs : ReadFails(r))
  BY <1>1, <1>3 DEF Redetect, SetMultiline, RedetectFires, ReadFails, importVars
<1>4. ASSUME NEW r \in runs, NEW p \in Pattern \union {None}, NEW verdict \in Verdict \union {None},
             DetectionAnswered(r, p, verdict)
      PROVE  FlagsNow
  BY <1>1, <1>4 DEF DetectionAnswered
<1>5. ASSUME NEW f \in File, NEW p \in Pattern, ChangePattern(f, p) PROVE FlagsNow
  BY <1>1, <1>5 DEF ChangePattern
<1>6. ASSUME NEW c \in changes, NEW ok \in BOOLEAN, ChangeAnswered(c, ok) PROVE FlagsNow
  BY <1>1, <1>6 DEF ChangeAnswered
<1>7. CASE PatchOverride \/ ResetOverrides \/ Confirm
  BY <1>1, <1>7 DEF PatchOverride, ResetOverrides, Confirm
<1>8. CASE ApplyToAll \/ Preview
  BY <1>1, <1>8 DEF ApplyToAll, Preview
<1>9. ASSUME NEW q \in previews, NEW verdict \in Verdict \union {None}, PreviewAnswered(q, verdict) PROVE FlagsNow
  BY <1>1, <1>9 DEF PreviewAnswered
<1>10. ASSUME NEW listed, Proceed(listed) PROVE uploading' = uploading \/ uploading' = TRUE
  BY <1>10 DEF Proceed
<1>11. CASE NextFromPatterns
  BY <1>10, <1>11, Flags DEF NextFromPatterns
<1>12. CASE SavePattern
  BY <1>12, Flags DEF SavePattern, importVars
<1>13. CASE CloseDialog
  BY <1>10, <1>13, Flags DEF CloseDialog
<1>14. CASE CancelUpload
  BY <1>1, <1>14 DEF CancelUpload, importVars
<1>15. ASSUME NEW ok \in BOOLEAN, PatternSaved(ok) PROVE FlagsNow
  BY <1>10, <1>15, Flags DEF PatternSaved
<1>16. ASSUME NEW i \in DOMAIN uploads, NEW ok \in BOOLEAN, FileUploaded(i, ok) PROVE FlagsNow
  <2>1. PICK upd, rest :
               /\ MarkedIn(file, upd)
               /\ \/ FinishImport(i, upd)
                  \/ /\ rest \in Seq(File) /\ rest # << >>
                     /\ uploads' = [uploads EXCEPT ![i].todo = rest]
                     /\ file' = upd /\ UNCHANGED <<step, uploading, detectVars, work>>
    BY <1>16, FileUploadedIs
  <2>2. UNCHANGED <<page, reading, dialog, dialogShown, late>>
    BY <1>16 DEF FileUploaded, dialogVars
  <2>3. (uploading' = uploading \/ uploading' = FALSE) /\ step' \in {step, 3}
    BY <2>1 DEF FinishImport
  <2> QED
    BY <2>2, <2>3, Flags
<1>17. CASE Back
  BY <1>17, Flags DEF Back, ResetStore, dialogVars
<1>18. CASE Leave
  BY <1>18, Flags DEF Leave, UnmountImport, importVars
<1>19. CASE LeaveSummary
  BY <1>19, Flags DEF LeaveSummary, ResetStore, UnmountImport
<1>20. CASE Return
  BY <1>20, Flags DEF Return, dialogVars
<1> QED
  BY <1>2, <1>3, <1>4, <1>5, <1>6, <1>7, <1>8, <1>9, <1>11, <1>12, <1>13, <1>14, <1>15, <1>16, <1>17, <1>18,
     <1>19, <1>20
     DEF WizardNext, Detection, Review, Upload

LEMMA KeptStep == WizardInv /\ WizardNext => Kept
BY AddFilesKept, RemoveFileKept, PreviewReadKept, NextFromFilesKept, RedetectKept, SetMultilineKept,
   DetectionAnsweredKept, ReadFailsKept, ChangePatternKept, ChangeAnsweredKept, OverridesKept, ConfirmKept, ApplyToAllKept,
   PreviewKept, PreviewAnsweredKept, NextFromPatternsKept, SavePatternKept, CloseDialogKept, CancelUploadKept,
   PatternSavedKept, FileUploadedKept, BackKept, LeaveKept, ReturnKept
   DEF WizardNext, FirstStep, Detection, Review, Upload

LEMMA WizardInvInit == WizardInit => WizardInv
<1> SUFFICES ASSUME WizardInit PROVE WizardInv
  OBVIOUS
<1>1. Listed = {}
  BY DEF WizardInit, Listed, ToSet
<1>2. Cardinality({}) = 0 /\ IsFiniteSet({}) /\ Len(<< >>) = 0
  BY FS_EmptySet
<1>3. RunsInv /\ WizardRequestsInv
  BY <1>2 DEF WizardInit, RunsInv, WizardRequestsInv
<1>4. PromiseInv
  BY NewPromises DEF WizardInit, PromiseInv, Promises
<1>5. ListInv
  BY <1>1, BoundsAssumption DEF WizardInit, ListInv, IsInjective
<1>6. UploadInv
  BY DEF WizardInit, UploadInv, UploadOrder
<1>7. FlagInv
  <2>1. /\ page \in BOOLEAN /\ redetect \in BOOLEAN /\ allDetecting \in BOOLEAN /\ reading \in BOOLEAN
        /\ dialog \in BOOLEAN /\ dialogShown \in BOOLEAN /\ uploading \in BOOLEAN /\ late \in BOOLEAN
    BY Zenon DEF WizardInit
  <2>2. step \in 1 .. 3
    BY DEF WizardInit
  <2> QED
    BY <2>1, <2>2 DEF FlagInv
<1>8. CountInv
  BY <1>2, BoundsAssumption DEF WizardInit, CountInv
<1> QED
  BY <1>3, <1>4, <1>5, <1>6, <1>7, <1>8 DEF WizardInv

LEMMA WizardInvStep == WizardInv /\ [WizardNext]_wizardVars => WizardInv'
<1> SUFFICES ASSUME WizardInv, [WizardNext]_wizardVars PROVE WizardInv'
  OBVIOUS
<1>1. CASE WizardNext
  <2>1. Kept /\ ListInv' /\ WizardRequestsInv' /\ UploadInv' /\ FlagsNow
    BY <1>1, KeptStep, ListStep, RequestsStep, UploadStep, FlagStep
  <2>2. FlagInv'
    BY <2>1 DEF Kept, FlagsNow, FlagInv
  <2> QED
    BY <2>1, <2>2 DEF Kept, WizardInv
<1>2. CASE UNCHANGED wizardVars
  <2>1. UNCHANGED <<page, step, files, file, used, activeFile, redetect, allDetecting, reading, runs, changes, previews,
                    work, dialog, dialogShown, saving, uploading, uploads, seen, late>>
    BY <1>2 DEF wizardVars, importVars, detectVars, requestVars, dialogVars
  <2>2. Awaited' = Awaited /\ Listed' = Listed
    BY <2>1 DEF Awaited, Listed
  <2>3. RunsInv' /\ WizardRequestsInv'
    BY <2>1 DEF WizardInv, RunsInv, WizardRequestsInv
  <2>4. PromiseInv' /\ ListInv'
    BY <2>1, <2>2 DEF WizardInv, PromiseInv, ListInv
  <2>5. UploadInv' /\ CountInv'
    BY <2>1 DEF WizardInv, UploadInv, UploadOrder, CountInv
  <2>6. FlagInv'
    BY Zenon, <2>1 DEF WizardInv, FlagInv
  <2> QED
    BY <2>3, <2>4, <2>5, <2>6 DEF WizardInv
<1> QED
  BY <1>1, <1>2

LEMMA WizardInvHolds == WizardSpec => []WizardInv
BY WizardInvInit, WizardInvStep, PTL DEF WizardSpec

-----------------------------------------------------------------------------
(* The theorems.                                                           *)

(* A file reported as matched shows the rows of the pattern it will be imported with,        *)
(* however the answers of FileAnalyzingStep.tsx come in.                                     *)
THEOREM RowsAreOfThePattern == WizardSpec => []RowsMatchPattern
<1>1. WizardInv => RowsMatchPattern
  BY FilePromise DEF RowsMatchPattern, Promise
<1> QED
  BY <1>1, WizardInvHolds, PTL

(* Doubtful timestamps count as confirmed only when the user has seen just these             *)
(* (setFileTimestampInference and applyTimestampToAllFiles of useImportStore.ts).            *)
THEOREM ConfirmedIsSeen == WizardSpec => []ConfirmedWasSeen
<1>1. WizardInv => ConfirmedWasSeen
  BY FilePromise DEF ConfirmedWasSeen, Promise
<1> QED
  BY <1>1, WizardInvHolds, PTL

(* What is marked as being analysed is awaited, but for the files of a run that waits for    *)
(* ever for lines that could not be read.                                                    *)
THEOREM DetectingEnds == WizardSpec => []DetectingIsAwaited
<1>1. WizardInv => DetectingIsAwaited
  BY FilePromise DEF DetectingIsAwaited, Stranded, Promise, Awaited
<1> QED
  BY <1>1, WizardInvHolds, PTL

(* The wizard keeps its types and its list, and uploads by one upload at a time while the    *)
(* dialog does not go away as it saves.                                                      *)
THEOREM WizardIsConsistent == WizardSpec => []WizardConsistent
<1>1. ASSUME WizardInv PROVE WizardConsistent
  <2>1. \A f \in File : file[f] \in ImportFile
    BY <1>1, PromisesNow DEF Promises, Promise
  <2>2. ASSUME NEW i \in DOMAIN uploads PROVE uploads[i].todo # << >>
    <3>1. uploads[i] \in UploadShape
      BY <1>1, <2>2, UploadsType
    <3> QED
      BY <3>1 DEF UploadShape
  <2>3. OneUpload
    BY <1>1, OrderedUploads DEF OneUpload, UploadOrder
  <2>4. {page, redetect, allDetecting, reading, dialog, dialogShown, uploading, late} \subseteq BOOLEAN
    BY Zenon, <1>1 DEF WizardInv, FlagInv
  <2>5. /\ step \in 1 .. 3 /\ work \in 0 .. MaxWork
        /\ Cardinality(runs) + Cardinality(changes) + Cardinality(previews) + Len(uploads) <= work
    BY <1>1 DEF WizardInv, FlagInv, CountInv
  <2>6. /\ files \in Seq(File) /\ IsInjective(files) /\ Listed \subseteq 1 .. used
        /\ activeFile \in Listed \union {None} /\ seen \subseteq 1 .. used
    BY <1>1 DEF WizardInv, ListInv
  <2> QED
    BY <2>1, <2>2, <2>3, <2>4, <2>5, <2>6 DEF WizardConsistent, WizardTypeOK
<1> QED
  BY <1>1, WizardInvHolds, PTL

-----------------------------------------------------------------------------
(* The live view.                                                          *)

USE RowLimitAssumption, WireCapacityAssumption, MaxConnectionsAssumption, MaxRowsAssumption

-----------------------------------------------------------------------------
(* Sequences of rows.                                                      *)

LEMMA ReverseOf ==
    ASSUME NEW S, NEW s \in Seq(S)
    PROVE  /\ Reverse(s) \in Seq(S)
           /\ Len(Reverse(s)) = Len(s)
           /\ \A i \in 1 .. Len(s) : Reverse(s)[i] = s[Len(s) - i + 1]
BY DEF Reverse

(* The rows of an event are numbered after those received.                 *)
LEMMA Numbered ==
    ASSUME NEW n \in Nat, NEW m \in Nat
    PROVE  LET new == [i \in 1 .. n |-> m + i]
           IN  /\ new \in Seq(1 .. m + n)
               /\ Len(new) = n
               /\ \A i \in 1 .. n : new[i] = m + i
OBVIOUS

(* What a sequence is that joins two.                                      *)
Joins(q, s, t) ==
    /\ Len(q) = Len(s) + Len(t)
    /\ \A i \in 1 .. Len(s) + Len(t) : q[i] = IF i <= Len(s) THEN s[i] ELSE t[i - Len(s)]

LEMMA Joined ==
    ASSUME NEW S, NEW s \in Seq(S), NEW t \in Seq(S)
    PROVE  s \o t \in Seq(S) /\ Joins(s \o t, s, t)
BY ConcatProperties DEF Joins

(* What is left of a sequence whose head is cut off.                       *)
LEMMA CutHead ==
    ASSUME NEW S, NEW s \in Seq(S), NEW n \in 0 .. Len(s)
    PROVE  /\ SubSeq(s, n + 1, Len(s)) \in Seq(S)
           /\ Len(SubSeq(s, n + 1, Len(s))) = Len(s) - n
           /\ \A i \in 1 .. Len(s) - n : SubSeq(s, n + 1, Len(s))[i] = s[n + i]
<1>1. n + 1 \in Int /\ Len(s) \in Int /\ \A i \in n + 1 .. Len(s) : s[i] \in S
  OBVIOUS
<1> QED
  BY <1>1, SubSeqProperties

LEMMA CutTail ==
    ASSUME NEW S, NEW s \in Seq(S), NEW n \in 0 .. Len(s)
    PROVE  /\ SubSeq(s, 1, n) \in Seq(S)
           /\ Len(SubSeq(s, 1, n)) = n
           /\ \A i \in 1 .. n : SubSeq(s, 1, n)[i] = s[i]
<1>1. \A i \in 1 .. n : s[i] \in S
  OBVIOUS
<1> QED
  BY <1>1, SubSeqProperties

-----------------------------------------------------------------------------
(* Types.                                                                  *)

(* A status event says that a source runs, or that it does not.            *)
WireSays ==
    \A i \in 1 .. Len(wire) : wire[i].name = "source_status" =>
       wire[i].status \in {"started", "stopped"}

Typed == TypeOK /\ WireSays

LEMMA InitTyped == Init => Typed
<1> SUFFICES ASSUME Init PROVE Typed
  OBVIOUS
<1>1. \A S : << >> \in Seq(S) /\ Len(<< >>) = 0
  OBVIOUS
<1>2. WireSays
  BY <1>1 DEF Init, WireSays
<1>3. /\ active \subseteq Source /\ over \subseteq Source /\ unannounced \subseteq Source
      /\ opened \in 0 .. MaxConnections /\ conn \in 0 .. opened /\ subscriber \in 0 .. opened
  BY DEF Init
<1>5. /\ hubPaused \in BOOLEAN /\ hubSkipped \in Nat
      /\ mounted \in BOOLEAN /\ raf \in BOOLEAN /\ connected \in BOOLEAN /\ paused \in BOOLEAN
      /\ timer \in {"null", "armed", "fired"}
  BY DEF Init
<1>6. /\ received \in Nat /\ told \in Nat /\ skippedCount \in Nat
      /\ statuses \in [Source -> {"none", "started", "stopped"}]
      /\ unsure \in BOOLEAN
  BY DEF Init
<1>4. /\ wire \in Seq(Event) /\ Len(wire) <= WireCapacity
      /\ pendingRows \in Seq(1 .. received) /\ Len(pendingRows) <= RowLimit
      /\ rows \in Seq(1 .. received) /\ Len(rows) <= RowLimit
  <2>1. Len(<< >>) <= WireCapacity /\ Len(<< >>) <= RowLimit
    BY <1>1
  <2>2. << >> \in Seq(Event) /\ << >> \in Seq(1 .. received)
    BY <1>1
  <2> QED
    BY <2>1, <2>2 DEF Init
<1> QED
  BY <1>2, <1>3, <1>4, <1>5, <1>6 DEF Init, Typed, TypeOK

LEMMA SentTyped ==
    ASSUME Typed, NEW e \in Event, Send(e),
           e.name = "source_status" => e.status \in {"started", "stopped"}
    PROVE  wire' \in Seq(Event) /\ Len(wire') <= WireCapacity /\ WireSays'
<1>1. wire \in Seq(Event) /\ Len(wire) \in Nat /\ Len(wire) <= WireCapacity
  BY DEF Typed, TypeOK
<1>2. CASE Takes
  <2>1. wire' = Append(wire, e) /\ Len(wire) < WireCapacity
    BY <1>2 DEF Send, Takes
  <2>2. /\ wire' \in Seq(Event) /\ Len(wire') = Len(wire) + 1
        /\ \A i \in 1 .. Len(wire) : wire'[i] = wire[i]
        /\ wire'[Len(wire) + 1] = e
    BY <1>1, <2>1, AppendProperties
  <2>3. WireSays'
    BY <1>1, <2>2 DEF Typed, WireSays
  <2> QED
    BY <1>1, <2>1, <2>2, <2>3
<1>3. CASE ~Takes
  BY <1>1, <1>3 DEF Send, Typed, WireSays
<1> QED
  BY <1>2, <1>3

(* The event that is received, and those that stay on their way.           *)
LEMMA HeadTyped ==
    ASSUME Typed, wire # << >>, wire' = Tail(wire)
    PROVE  /\ Head(wire) \in Event
           /\ Head(wire).name = "source_status" => Head(wire).status \in {"started", "stopped"}
           /\ wire' \in Seq(Event) /\ Len(wire') <= WireCapacity /\ WireSays'
<1>1. wire \in Seq(Event) /\ Len(wire) \in Nat \ {0} /\ Len(wire) <= WireCapacity
  BY EmptySeq DEF Typed, TypeOK
<1>2. /\ Head(wire) \in Event /\ Head(wire) = wire[1]
      /\ wire' \in Seq(Event) /\ Len(wire') = Len(wire) - 1
      /\ \A i \in 1 .. Len(wire') : wire'[i] = wire[i + 1]
  BY <1>1, HeadTailProperties
<1>3. WireSays'
  BY <1>1, <1>2 DEF Typed, WireSays
<1> QED
  BY <1>1, <1>2, <1>3 DEF Typed, WireSays

(* How many of k rows are too many.                                        *)
Overflow(k) == IF k > RowLimit THEN k - RowLimit ELSE 0

(* The rows that wait, after more have come.                               *)
LEMMA AppendedPending ==
    ASSUME Typed, NEW n \in Nat,
           AppendPendingRows([i \in 1 .. n |-> received + i]), received' = received + n,
           NEW lost \in Nat, lost = Overflow(Len(pendingRows) + n)
    PROVE  /\ pendingRows' \in Seq(1 .. received')
           /\ Len(pendingRows') = Len(pendingRows) + n - lost
           /\ \A i \in 1 .. Len(pendingRows) + n - lost :
                 pendingRows'[i] = IF lost + i <= Len(pendingRows) THEN pendingRows[lost + i]
                                   ELSE received + (lost + i - Len(pendingRows))
           /\ skippedCount' = skippedCount + lost
<1> DEFINE new == [i \in 1 .. n |-> received + i]
           all == pendingRows \o new
<1>1. received \in Nat /\ pendingRows \in Seq(1 .. received) /\ Len(pendingRows) \in Nat
      /\ Len(pendingRows) <= RowLimit
  BY DEF Typed, TypeOK
<1>2. new \in Seq(1 .. received') /\ Len(new) = n /\ \A i \in 1 .. n : new[i] = received + i
  BY <1>1, Numbered
<1> HIDE DEF new
<1>3. pendingRows \in Seq(1 .. received')
  BY <1>1, SeqMonotonic
<1>4. /\ all \in Seq(1 .. received') /\ Len(all) = Len(pendingRows) + n
      /\ \A i \in 1 .. Len(pendingRows) + n :
            all[i] = IF i <= Len(pendingRows) THEN pendingRows[i] ELSE new[i - Len(pendingRows)]
  <2>1. all \in Seq(1 .. received') /\ Joins(all, pendingRows, new)
    BY <1>2, <1>3, Joined
  <2>2. Len(new) = n
    BY <1>2
  <2> HIDE DEF all
  <2> QED
    BY <2>1, <2>2 DEF Joins
<1>5. pendingRows' = SubSeq(all, lost + 1, Len(all)) /\ skippedCount' = skippedCount + lost
  BY <1>4 DEF AppendPendingRows, new, Overflow
<1> HIDE DEF all
<1>6. lost \in 0 .. Len(all)
  BY <1>1, <1>4 DEF Overflow
<1>7. /\ pendingRows' \in Seq(1 .. received') /\ Len(pendingRows') = Len(all) - lost
      /\ \A i \in 1 .. Len(all) - lost : pendingRows'[i] = all[lost + i]
  BY <1>4, <1>5, <1>6, CutHead
<1>8. Len(pendingRows) \in Nat /\ Len(all) = Len(pendingRows) + n
  BY <1>1, <1>4
<1>9. ASSUME NEW i \in 1 .. Len(pendingRows) + n - lost
      PROVE  pendingRows'[i] = IF lost + i <= Len(pendingRows) THEN pendingRows[lost + i]
                               ELSE received + (lost + i - Len(pendingRows))
  <2> DEFINE j == lost + i
  <2>1. i \in Int /\ lost \in Int /\ j \in 1 .. Len(pendingRows) + n /\ pendingRows'[i] = all[j]
    <3>1. i \in 1 .. Len(all) - lost
      BY <1>8
    <3>2. i \in Int /\ lost \in Int /\ j \in 1 .. Len(pendingRows) + n
      BY <1>6, <1>8
    <3> QED
      BY <1>7, <3>1, <3>2
  <2>2. j = lost + i
    OBVIOUS
  <2> HIDE DEF j
  <2>3. CASE j <= Len(pendingRows)
    <3>1. all[j] = pendingRows[j]
      BY <1>4, <2>1, <2>3
    <3> QED
      BY <2>1, <2>2, <2>3, <3>1
  <2>4. CASE ~(j <= Len(pendingRows))
    <3>1. all[j] = new[j - Len(pendingRows)]
      BY <1>4, <2>1, <2>4
    <3>2. j - Len(pendingRows) \in 1 .. n
      BY <1>1, <2>1, <2>4
    <3>3. new[j - Len(pendingRows)] = received + (j - Len(pendingRows))
      BY <1>2, <3>2
    <3> QED
      BY <2>1, <2>2, <2>4, <3>1, <3>3
  <2> QED
    BY <2>3, <2>4
<1>10. Len(pendingRows') = Len(pendingRows) + n - lost
  BY <1>7, <1>8
<1> QED
  BY <1>5, <1>7, <1>9, <1>10

(* The table, after the rows that waited have been drawn.                  *)
LEMMA AppendedRows ==
    ASSUME Typed, AppendRows(pendingRows)
    PROVE  LET all == Len(pendingRows) + Len(rows)
               n == IF all < RowLimit THEN all ELSE RowLimit
           IN  /\ rows' \in Seq(1 .. received)
               /\ Len(rows') = n
               /\ \A i \in 1 .. n :
                     rows'[i] = IF i <= Len(pendingRows)
                                THEN pendingRows[Len(pendingRows) - i + 1]
                                ELSE rows[i - Len(pendingRows)]
               /\ skippedCount' = skippedCount + (all - n)
<1> DEFINE new == Reverse(pendingRows)
           all == new \o rows
           n == IF Len(all) < RowLimit THEN Len(all) ELSE RowLimit
<1>1. /\ received \in Nat /\ skippedCount \in Nat
      /\ pendingRows \in Seq(1 .. received) /\ Len(pendingRows) \in Nat
      /\ rows \in Seq(1 .. received) /\ Len(rows) \in Nat
  BY DEF Typed, TypeOK
<1>2. /\ new \in Seq(1 .. received) /\ Len(new) = Len(pendingRows)
      /\ \A i \in 1 .. Len(pendingRows) : new[i] = pendingRows[Len(pendingRows) - i + 1]
  BY <1>1, ReverseOf
<1>3. /\ rows' = SubSeq(all, 1, n)
      /\ skippedCount' = IF Len(all) > RowLimit THEN skippedCount + (Len(all) - RowLimit)
                         ELSE skippedCount
  BY DEF AppendRows
<1> HIDE DEF new
<1>4. /\ all \in Seq(1 .. received) /\ Len(all) = Len(pendingRows) + Len(rows)
      /\ \A i \in 1 .. Len(pendingRows) + Len(rows) :
            all[i] = IF i <= Len(pendingRows) THEN new[i] ELSE rows[i - Len(pendingRows)]
  <2>1. new \in Seq(1 .. received) /\ rows \in Seq(1 .. received)
    BY <1>1, <1>2
  <2>2. /\ new \o rows \in Seq(1 .. received) /\ Len(new \o rows) = Len(new) + Len(rows)
        /\ \A i \in 1 .. Len(new) + Len(rows) :
              (new \o rows)[i] = IF i <= Len(new) THEN new[i] ELSE rows[i - Len(new)]
    BY <2>1, ConcatProperties
  <2> QED
    BY <1>2, <2>2
<1> HIDE DEF all
<1>5. n \in 0 .. Len(all)
  BY <1>1, <1>4
<1>6. rows' \in Seq(1 .. received) /\ Len(rows') = n /\ \A i \in 1 .. n : rows'[i] = all[i]
  BY <1>3, <1>4, <1>5, CutTail
<1>7. n = IF Len(pendingRows) + Len(rows) < RowLimit THEN Len(pendingRows) + Len(rows) ELSE RowLimit
  BY <1>4
<1> HIDE DEF n
<1>8. ASSUME NEW i \in 1 .. n
      PROVE  rows'[i] = IF i <= Len(pendingRows) THEN pendingRows[Len(pendingRows) - i + 1]
                        ELSE rows[i - Len(pendingRows)]
  <2>1. i \in 1 .. Len(pendingRows) + Len(rows) /\ rows'[i] = all[i]
    BY <1>1, <1>4, <1>5, <1>6
  <2>2. CASE i <= Len(pendingRows)
    <3>1. all[i] = new[i] /\ i \in 1 .. Len(pendingRows)
      BY <1>1, <1>4, <2>1, <2>2
    <3> QED
      BY <1>2, <2>1, <2>2, <3>1
  <2>3. CASE ~(i <= Len(pendingRows))
    <3>1. all[i] = rows[i - Len(pendingRows)]
      BY <1>4, <2>1, <2>3
    <3> QED
      BY <2>1, <2>3, <3>1
  <2> QED
    BY <2>2, <2>3
<1>9. skippedCount' = skippedCount + (Len(pendingRows) + Len(rows) - n)
  <2>1. Len(all) > RowLimit => n = RowLimit
    BY <1>1, <1>4, <1>7
  <2>2. ~(Len(all) > RowLimit) => n = Len(all)
    BY <1>1, <1>4, <1>7
  <2> QED
    BY <1>1, <1>3, <1>4, <2>1, <2>2
<1> QED
  BY <1>1, <1>4, <1>5, <1>6, <1>7, <1>8, <1>9

(* The hub's steps keep the types.                                         *)
LEMMA HubTyped == ASSUME Typed, Hub PROVE Typed'
<1>1. PICK src \in Source :
         \/ AddSource(src) \/ AnnounceSource(src) \/ EndSource(src)
         \/ \E n \in 1 .. MaxRows : PublishRows(src, n)
  BY DEF Hub
<1>2. CASE AddSource(src)
  BY <1>2 DEF AddSource, Typed, TypeOK, WireSays, connectionVars, streamVars, storeVars,
              historyVars
<1>3. CASE AnnounceSource(src)
  <2>1. StatusEvent(src, "started") \in Event /\ StatusEvent(src, "started").status = "started"
    BY DEF StatusEvent, Event
  <2>2. wire' \in Seq(Event) /\ Len(wire') <= WireCapacity /\ WireSays'
    BY <1>3, <2>1, SentTyped DEF AnnounceSource
  <2> QED
    BY <1>3, <2>2 DEF AnnounceSource, Typed, TypeOK, streamVars, storeVars, historyVars
<1>4. CASE EndSource(src)
  <2>1. StatusEvent(src, "stopped") \in Event /\ StatusEvent(src, "stopped").status = "stopped"
    BY DEF StatusEvent, Event
  <2>2. wire' \in Seq(Event) /\ Len(wire') <= WireCapacity /\ WireSays'
    BY <1>4, <2>1, SentTyped DEF EndSource
  <2> QED
    BY <1>4, <2>2 DEF EndSource, Typed, TypeOK, streamVars, storeVars, historyVars
<1>5. ASSUME NEW n \in 1 .. MaxRows, PublishRows(src, n) PROVE Typed'
  <2>1. RowsEvent(src, n) \in Event /\ RowsEvent(src, n).name = "rows"
    BY DEF RowsEvent, Event
  <2>2. wire' \in Seq(Event) /\ Len(wire') <= WireCapacity /\ WireSays'
    BY <1>5, <2>1, SentTyped DEF PublishRows
  <2>3. hubSkipped' \in Nat
    BY <1>5 DEF PublishRows, Typed, TypeOK
  <2> QED
    BY <1>5, <2>2, <2>3
    DEF PublishRows, Typed, TypeOK, sourceVars, streamVars, storeVars, historyVars
<1> QED
  BY <1>1, <1>2, <1>3, <1>4, <1>5

(* A status that the store takes is one of its values.                     *)
LEMMA StatusesTyped ==
    ASSUME Typed, NEW S, NEW st \in {"started", "stopped"}, SetSourceStatus(S, st)
    PROVE  statuses' \in [Source -> {"none", "started", "stopped"}]
BY DEF Typed, TypeOK, SetSourceStatus

(* An event that is taken keeps the types.                                 *)
LEMMA ReceiveTyped == ASSUME Typed, Receive PROVE Typed'
<1> DEFINE e == Head(wire)
<1>1. /\ wire # << >> /\ wire' = Tail(wire)
      /\ UNCHANGED <<sourceVars, opened, conn, hubPaused, hubSkipped, mounted, raf, paused, rows,
                     requests, unsure>>
      /\ \/ e.name = "hello" /\ HandleHello(e)
         \/ e.name = "rows" /\ HandleRows(e)
         \/ e.name = "skipped" /\ HandleSkipped(e)
         \/ e.name = "source_status" /\ HandleSourceStatus(e)
  BY DEF Receive
<1>2. /\ e \in Event /\ (e.name = "source_status" => e.status \in {"started", "stopped"})
      /\ wire' \in Seq(Event) /\ Len(wire') <= WireCapacity /\ WireSays'
  BY <1>1, HeadTyped
<1>3. e.count \in Nat
  BY <1>2 DEF Event
<1> HIDE DEF e
<1>4. /\ received \in Nat /\ told \in Nat /\ skippedCount \in Nat
      /\ Len(pendingRows) \in Nat /\ Len(pendingRows) <= RowLimit /\ Len(rows) <= RowLimit
      /\ timer \in {"null", "armed", "fired"} /\ connected \in BOOLEAN
      /\ conn \in 0 .. opened /\ subscriber \in 0 .. opened
      /\ statuses \in [Source -> {"none", "started", "stopped"}]
  BY DEF Typed, TypeOK
<1>7. pendingRows \in Seq(1 .. received) /\ rows \in Seq(1 .. received)
  BY DEF Typed, TypeOK
<1>5. /\ received' \in Nat /\ told' \in Nat /\ skippedCount' \in Nat
      /\ pendingRows' \in Seq(1 .. received') /\ Len(pendingRows') <= RowLimit
      /\ received <= received'
      /\ timer' \in {"null", "armed", "fired"} /\ connected' \in BOOLEAN
      /\ subscriber' \in 0 .. opened
      /\ statuses' \in [Source -> {"none", "started", "stopped"}]
  <2>1. CASE HandleHello(e)
    <3>1. statuses' \in [Source -> {"none", "started", "stopped"}]
      BY <2>1, StatusesTyped DEF HandleHello
    <3> QED
      BY <1>4, <1>7, <2>1, <3>1 DEF HandleHello
  <2>2. CASE HandleRows(e)
    <3>1. statuses' \in [Source -> {"none", "started", "stopped"}]
      BY <2>2, StatusesTyped DEF HandleRows
    <3>2. received' = received + e.count
      BY <2>2 DEF HandleRows
    <3>3. AppendPendingRows([i \in 1 .. e.count |-> received + i])
      BY <2>2 DEF HandleRows
    <3>4. PICK lost \in Nat : lost = Overflow(Len(pendingRows) + e.count)
      BY <1>3, <1>4 DEF Overflow
    <3>5. /\ pendingRows' \in Seq(1 .. received')
          /\ Len(pendingRows') = Len(pendingRows) + e.count - lost
          /\ skippedCount' = skippedCount + lost
      BY <1>3, <3>2, <3>3, <3>4, AppendedPending
    <3>9. Len(pendingRows') = Len(pendingRows) + e.count - lost
      BY <3>5, Zenon
    <3>10. pendingRows' \in Seq(1 .. received') /\ skippedCount' = skippedCount + lost
      BY <3>5, Zenon
    <3>11. skippedCount' = skippedCount + lost
      BY <3>10, Zenon
    <3>12. /\ Len(pendingRows) \in Nat /\ e.count \in Nat
           /\ received \in Nat /\ skippedCount \in Nat
      BY <1>3, <1>4, Zenon
    <3>6. Len(pendingRows') <= RowLimit
      <4> DEFINE k == Len(pendingRows) + e.count
      <4>1. k \in Nat
        BY <3>12
      <4>2. Len(pendingRows') = k - lost
        BY <3>9, <3>12
      <4>3. lost = IF k > RowLimit THEN k - RowLimit ELSE 0
        BY <3>4 DEF Overflow
      <4> HIDE DEF k
      <4> QED
        BY <4>1, <4>2, <4>3
    <3>7. UNCHANGED <<connected, subscriber, told>> /\ timer' \in {"null", "armed", "fired"}
      BY <1>4, <2>2 DEF HandleRows
    <3>8. received' \in Nat /\ received <= received' /\ skippedCount' \in Nat
      BY <3>2, <3>11, <3>12
    <3> QED
      BY <1>4, <3>1, <3>6, <3>7, <3>8, <3>10
  <2>3. CASE HandleSkipped(e)
    <3>1. skippedCount' \in Nat /\ told' \in Nat
      <4>1. skippedCount' = skippedCount + e.count /\ told' = told + e.count
        BY <2>3 DEF HandleSkipped
      <4>2. skippedCount \in Nat /\ told \in Nat /\ e.count \in Nat
        BY <1>3, <1>4, Zenon
      <4> QED
        BY <4>1, <4>2
    <3>2. UNCHANGED <<pendingRows, timer, connected, subscriber, statuses, received>>
      BY <2>3 DEF HandleSkipped
    <3> QED
      BY <1>4, <1>7, <3>1, <3>2
  <2>4. CASE e.name = "source_status" /\ HandleSourceStatus(e)
    <3>1. statuses' \in [Source -> {"none", "started", "stopped"}]
      BY <1>2, <2>4, StatusesTyped DEF HandleSourceStatus
    <3> QED
      BY <1>4, <1>7, <2>4, <3>1 DEF HandleSourceStatus
  <2> QED
    BY <1>1, <2>1, <2>2, <2>3, <2>4
<1>6. rows' \in Seq(1 .. received') /\ Len(rows') <= RowLimit
  <2>1. received \in Nat /\ received' \in Nat /\ received <= received'
    BY <1>4, <1>5
  <2>2. rows \in Seq(1 .. received')
    BY <1>7, <2>1, SeqMonotonic
  <2> QED
    BY <1>1, <1>4, <2>2
<1> QED
  BY <1>1, <1>2, <1>5, <1>6 DEF Typed, TypeOK, sourceVars

(* The table keeps its type and limit when the rows that wait are drawn.   *)
LEMMA DrawnTyped ==
    ASSUME Typed, AppendRows(pendingRows), pendingRows' = << >>, UNCHANGED received
    PROVE  /\ rows' \in Seq(1 .. received') /\ Len(rows') <= RowLimit
           /\ skippedCount' \in Nat
           /\ pendingRows' \in Seq(1 .. received') /\ Len(pendingRows') <= RowLimit
<1> DEFINE all == Len(pendingRows) + Len(rows)
           n == IF all < RowLimit THEN all ELSE RowLimit
<1>1. /\ rows' \in Seq(1 .. received) /\ Len(rows') = n
      /\ skippedCount' = skippedCount + (all - n)
  BY AppendedRows
<1>2. skippedCount \in Nat /\ all \in Nat
  BY DEF Typed, TypeOK
<1>3. all - n \in Nat /\ n <= RowLimit
  BY <1>2
<1>4. << >> \in Seq(1 .. received) /\ Len(<< >>) <= RowLimit
  OBVIOUS
<1> QED
  BY <1>1, <1>2, <1>3, <1>4

(* The steps of a connection and of the page keep the types.               *)
LEMMA PageTyped ==
    ASSUME Typed, Connect \/ Disconnect \/ Mount \/ Unmount \/ Flush \/ Frame
    PROVE  Typed'
<1>1. CASE Connect
  <2> DEFINE hello == [name |-> "hello", sources |-> active, count |-> 0, status |-> ""]
  <2>1. hello \in Event /\ hello.name = "hello"
    BY DEF Typed, TypeOK, Event
  <2>2. wire' = <<hello>>
    BY <1>1 DEF Connect
  <2> HIDE DEF hello
  <2>3. wire' \in Seq(Event) /\ Len(wire') = 1 /\ wire'[1] = hello
    BY <2>1, <2>2
  <2>4. WireSays'
    BY <2>1, <2>3 DEF WireSays
  <2>5. Len(wire') <= WireCapacity
    BY <2>3
  <2>6. opened' \in 0 .. MaxConnections /\ conn' \in 0 .. opened' /\ subscriber' \in 0 .. opened'
    <3>1. opened \in 0 .. MaxConnections /\ subscriber \in 0 .. opened
      BY DEF Typed, TypeOK
    <3>2. /\ opened < MaxConnections /\ opened' = opened + 1 /\ conn' = opened + 1
          /\ subscriber' = subscriber
      BY <1>1 DEF Connect
    <3> QED
      BY <3>1, <3>2
  <2> QED
    BY <1>1, <2>3, <2>4, <2>5, <2>6 DEF Connect, Typed, TypeOK, sourceVars, streamVars
<1>2. ASSUME wire' = << >>
      PROVE  wire' \in Seq(Event) /\ Len(wire') <= WireCapacity /\ WireSays'
  <2>1. << >> \in Seq(Event) /\ Len(<< >>) = 0
    OBVIOUS
  <2> QED
    BY <1>2, <2>1 DEF WireSays
<1>3. CASE Disconnect
  <2>1. wire' \in Seq(Event) /\ Len(wire') <= WireCapacity /\ WireSays'
    BY <1>2, <1>3 DEF Disconnect
  <2>2. conn' \in 0 .. opened'
    BY <1>3 DEF Disconnect, Typed, TypeOK
  <2> QED
    BY <2>1, <2>2, <1>3 DEF Disconnect, Typed, TypeOK, sourceVars, streamVars, historyVars
<1>4. CASE Mount
  BY <1>4 DEF Mount, Typed, TypeOK, WireSays, sourceVars, connectionVars, storeVars, historyVars
<1>5. CASE Unmount
  <2>1. /\ rows' \in Seq(1 .. received') /\ Len(rows') <= RowLimit
        /\ skippedCount' \in Nat
        /\ pendingRows' \in Seq(1 .. received') /\ Len(pendingRows') <= RowLimit
    BY <1>5, DrawnTyped DEF Unmount, historyVars
  <2>2. statuses' \in [Source -> {"none", "started", "stopped"}]
    BY <1>5, StatusesTyped DEF Unmount
  <2>3. conn' \in 0 .. opened' /\ subscriber' \in 0 .. opened'
    BY <1>5 DEF Unmount, Typed, TypeOK
  <2> QED
    BY <1>2, <1>5, <2>1, <2>2, <2>3 DEF Unmount, Typed, TypeOK, sourceVars, historyVars
<1>6. CASE Flush
  BY <1>6 DEF Flush, Typed, TypeOK, WireSays, sourceVars, connectionVars, storeVars, historyVars
<1>7. CASE Frame
  <2>1. /\ rows' \in Seq(1 .. received') /\ Len(rows') <= RowLimit
        /\ skippedCount' \in Nat
        /\ pendingRows' \in Seq(1 .. received') /\ Len(pendingRows') <= RowLimit
    BY <1>7, DrawnTyped DEF Frame, historyVars
  <2> QED
    BY <1>7, <2>1 DEF Frame, Typed, TypeOK, WireSays, sourceVars, connectionVars, historyVars
<1> QED
  BY <1>1, <1>3, <1>4, <1>5, <1>6, <1>7

Request == [op : {"pause", "resume"}, of : 1 .. MaxConnections, at : {"sent", "done"},
            alone : BOOLEAN]

(* The pause button and the hub's answers to it keep the types.            *)
LEMMA PauseTyped == ASSUME Typed, PauseButton PROVE Typed'
<1>1. requests \subseteq Request
  BY DEF Typed, TypeOK, Request
<1>2. CASE TogglePause
  <2>1. subscriber \in 1 .. MaxConnections
    BY <1>2 DEF TogglePause, Typed, TypeOK
  <2>2. requests' \subseteq Request
    <3> DEFINE mine == [op |-> IF paused THEN "resume" ELSE "pause", of |-> subscriber,
                        at |-> "sent", alone |-> requests = {}]
    <3>1. mine \in Request
      BY <2>1 DEF Request
    <3>2. \A r \in requests : [r EXCEPT !.alone = FALSE] \in Request
      BY <1>1 DEF Request
    <3>3. requests' = {[r EXCEPT !.alone = FALSE] : r \in requests} \union {mine}
      BY <1>2 DEF TogglePause
    <3> HIDE DEF mine
    <3> QED
      BY <3>1, <3>2, <3>3
  <2>3. unsure' \in BOOLEAN
    BY <1>2 DEF TogglePause, Typed, TypeOK
  <2>4. UNCHANGED <<sourceVars, connectionVars, streamVars, storeVars, received, told>>
    BY <1>2 DEF TogglePause
  <2>5. WireSays'
    BY <2>4 DEF Typed, WireSays, connectionVars
  <2> QED
    BY <2>2, <2>3, <2>4, <2>5 DEF Typed, TypeOK, Request, sourceVars, connectionVars, streamVars,
                                  storeVars
<1>3. ASSUME NEW r \in requests, HandleControl(r) PROVE Typed'
  <2>1. requests' \subseteq Request
    BY <1>1, <1>3 DEF HandleControl, Request
  <2>2. /\ hubPaused' \in BOOLEAN /\ hubSkipped' \in Nat
        /\ wire' \in Seq(Event) /\ Len(wire') <= WireCapacity /\ WireSays'
    <3>1. CASE HubPauses(r)
      BY <3>1 DEF HubPauses, Typed, TypeOK, WireSays
    <3>2. CASE HubResumes(r) /\ UNCHANGED wire
      BY <3>2 DEF HubResumes, Typed, TypeOK, WireSays
    <3>3. CASE HubResumes(r) /\ Len(wire) < WireCapacity
                            /\ wire' = Append(wire, SkippedEvent(hubSkipped))
      <4>1. wire \in Seq(Event) /\ Len(wire) \in Nat
        BY DEF Typed, TypeOK
      <4>2. SkippedEvent(hubSkipped) \in Event /\ SkippedEvent(hubSkipped).name = "skipped"
        BY DEF Typed, TypeOK, SkippedEvent, Event
      <4>3. /\ wire' \in Seq(Event) /\ Len(wire') = Len(wire) + 1
            /\ \A i \in 1 .. Len(wire) : wire'[i] = wire[i]
            /\ wire'[Len(wire) + 1] = SkippedEvent(hubSkipped)
        BY <3>3, <4>1, <4>2, AppendProperties
      <4>4. WireSays'
        BY <4>1, <4>2, <4>3 DEF Typed, WireSays
      <4>5. hubPaused' = FALSE /\ hubSkipped' = 0
        BY <3>3 DEF HubResumes
      <4>6. Len(wire') <= WireCapacity
        BY <3>3, <4>1, <4>3
      <4> QED
        BY <4>3, <4>4, <4>5, <4>6
    <3> QED
      BY <1>3, <3>1, <3>2, <3>3 DEF HandleControl, HubResumes
  <2> QED
    BY <1>3, <2>1, <2>2
    DEF HandleControl, Typed, TypeOK, Request, sourceVars, streamVars, storeVars, historyVars
<1>4. ASSUME NEW r \in requests, ControlFails(r) PROVE Typed'
  <2>1. requests' \subseteq Request /\ unsure' \in BOOLEAN
    BY <1>1, <1>4 DEF ControlFails, Typed, TypeOK
  <2> QED
    BY <1>4, <2>1 DEF ControlFails, Typed, TypeOK, WireSays, Request, sourceVars, connectionVars,
                      streamVars, storeVars
<1>5. ASSUME NEW r \in requests, ControlAnswered(r) PROVE Typed'
  <2>1. requests' \subseteq Request /\ unsure' \in BOOLEAN /\ paused' \in BOOLEAN
    BY <1>1, <1>5 DEF ControlAnswered, Typed, TypeOK
  <2> QED
    BY <1>5, <2>1 DEF ControlAnswered, Typed, TypeOK, WireSays, Request, sourceVars,
                      connectionVars, streamVars
<1> QED
  BY <1>2, <1>3, <1>4, <1>5 DEF PauseButton

LEMMA StepTyped == ASSUME Typed, [Next]_vars PROVE Typed'
<1>1. CASE UNCHANGED vars
  BY <1>1 DEF Typed, TypeOK, WireSays, vars, sourceVars, connectionVars, streamVars, storeVars,
              historyVars
<1>2. CASE Next
  BY <1>2, HubTyped, ReceiveTyped, PageTyped, PauseTyped DEF Next
<1> QED
  BY <1>1, <1>2

-----------------------------------------------------------------------------
(* The rows of the view.                                                   *)

(* The rows that wait are the latest received.                             *)
PendingLatest ==
    \A i \in 1 .. Len(pendingRows) : pendingRows[i] = received - Len(pendingRows) + i

(* The table holds the latest of those received before the rows that wait. *)
RowsBehind ==
    \A i \in 1 .. Len(rows) : rows[i] = received - Len(pendingRows) + 1 - i

ViewInv == PendingLatest /\ (RowsBehind \/ Len(pendingRows) = RowLimit)

(* What is known of the requests in flight: a request that is alone is the *)
(* only one; its answer, when the hub has given it, says what the hub's    *)
(* flag is; and while the flags are sure to agree every request is alone.  *)
RequestsInv ==
    /\ \A r \in requests :
          /\ r.of <= opened
          /\ r.alone => requests = {r}
          /\ r.alone /\ r.at = "done" /\ r.of = conn => hubPaused = (r.op = "pause")
          /\ ~unsure => r.alone
          /\ ~unsure /\ conn # 0 /\ r.at = "done" => r.of = conn
    /\ ~unsure /\ conn # 0 /\ (\A r \in requests : r.at = "sent") => paused = hubPaused

ViewIInv == Typed /\ RowsShownOrCounted /\ ViewInv /\ RequestsInv

(* What a step does to the rows and to their count.                        *)
LEMMA RowSteps ==
    ASSUME [Next]_vars
    PROVE  \/ UNCHANGED <<pendingRows, rows, skippedCount, received, told>>
           \/ wire # << >> /\ HandleSkipped(Head(wire)) /\ UNCHANGED rows
           \/ wire # << >> /\ HandleRows(Head(wire)) /\ UNCHANGED rows
           \/ AppendRows(pendingRows) /\ pendingRows' = << >> /\ UNCHANGED <<received, told>>
<1> DEFINE Still == UNCHANGED <<pendingRows, rows, skippedCount, received, told>>
<1>1. CASE UNCHANGED vars
  BY <1>1 DEF vars, streamVars, storeVars, historyVars
<1>2. ASSUME Hub PROVE Still
  BY <1>2 DEF Hub, AddSource, AnnounceSource, EndSource, PublishRows, streamVars, storeVars,
              historyVars
<1>3. ASSUME Connect \/ Disconnect \/ Mount \/ Flush PROVE Still
  BY <1>3 DEF Connect, Disconnect, Mount, Flush, streamVars, storeVars, historyVars
<1>4. ASSUME PauseButton PROVE Still
  BY <1>4 DEF PauseButton, TogglePause, HandleControl, ControlFails, ControlAnswered, streamVars,
              storeVars, historyVars
<1>5. CASE Unmount \/ Frame
  BY <1>5 DEF Unmount, Frame, historyVars
<1>6. CASE Receive
  BY <1>6 DEF Receive, HandleHello, HandleSourceStatus
<1> QED
  BY <1>1, <1>2, <1>3, <1>4, <1>5, <1>6 DEF Next

LEMMA HeadCount == ASSUME Typed, wire # << >> PROVE Head(wire).count \in Nat
<1>1. wire \in Seq(Event)
  BY DEF Typed, TypeOK
<1>2. Head(wire) \in Event
  BY <1>1, HeadTailProperties
<1> QED
  BY <1>2 DEF Event

(* No row goes uncounted.                                                  *)
LEMMA StepCounted ==
    ASSUME Typed, RowsShownOrCounted, [Next]_vars PROVE RowsShownOrCounted'
<1>1. /\ Len(rows) \in Nat /\ Len(pendingRows) \in Nat /\ skippedCount \in Nat
      /\ received \in Nat /\ told \in Nat
      /\ Len(rows) + Len(pendingRows) + skippedCount = received + told
  BY DEF Typed, TypeOK, RowsShownOrCounted
<1>2. wire # << >> => Head(wire).count \in Nat
  BY HeadCount
<1>3. CASE UNCHANGED <<pendingRows, rows, skippedCount, received, told>>
  BY <1>1, <1>3 DEF RowsShownOrCounted
<1>4. CASE wire # << >> /\ HandleSkipped(Head(wire)) /\ UNCHANGED rows
  <2> DEFINE n == Head(wire).count
  <2>1. /\ n \in Nat /\ skippedCount' = skippedCount + n /\ told' = told + n
        /\ UNCHANGED <<rows, pendingRows, received>>
    BY <1>2, <1>4 DEF HandleSkipped
  <2> HIDE DEF n
  <2> QED
    BY <1>1, <2>1 DEF RowsShownOrCounted
<1>5. CASE wire # << >> /\ HandleRows(Head(wire)) /\ UNCHANGED rows
  <2> DEFINE n == Head(wire).count
  <2>1. PICK lost \in Nat : lost = Overflow(Len(pendingRows) + n)
    BY <1>1, <1>2, <1>5 DEF Overflow
  <2>2. /\ AppendPendingRows([i \in 1 .. n |-> received + i]) /\ received' = received + n
        /\ told' = told /\ n \in Nat
    BY <1>2, <1>5 DEF HandleRows
  <2> HIDE DEF n
  <2>3. Len(pendingRows') = Len(pendingRows) + n - lost /\ skippedCount' = skippedCount + lost
    BY <2>1, <2>2, AppendedPending
  <2>4. Len(rows') = Len(rows)
    BY <1>5
  <2> QED
    <3>1. received' = received + n /\ told' = told /\ n \in Nat /\ lost \in Nat
      BY <2>1, <2>2
    <3>2. Len(rows') + Len(pendingRows') + skippedCount' = received' + told'
      BY <1>1, <2>3, <2>4, <3>1
    <3> QED
      BY <3>2 DEF RowsShownOrCounted
<1>6. CASE AppendRows(pendingRows) /\ pendingRows' = << >> /\ UNCHANGED <<received, told>>
  <2> DEFINE all == Len(pendingRows) + Len(rows)
             n == IF all < RowLimit THEN all ELSE RowLimit
  <2>1. Len(rows') = n /\ skippedCount' = skippedCount + (all - n)
    BY <1>6, AppendedRows
  <2>2. n \in Nat /\ all \in Nat /\ all = Len(pendingRows) + Len(rows)
    BY <1>1
  <2>3. Len(pendingRows') = 0
    BY <1>6
  <2> HIDE DEF n, all
  <2> QED
    BY <1>1, <1>6, <2>1, <2>2, <2>3 DEF RowsShownOrCounted
<1> QED
  BY <1>3, <1>4, <1>5, <1>6, RowSteps

(* The rows stay in order and without a gap.                               *)
LEMMA StepView ==
    ASSUME Typed, ViewInv, [Next]_vars PROVE ViewInv'
<1>1. /\ Len(rows) \in Nat /\ Len(pendingRows) \in Nat /\ received \in Nat
      /\ Len(pendingRows) <= RowLimit
  BY DEF Typed, TypeOK
<1>2. wire # << >> => Head(wire).count \in Nat
  BY HeadCount
<1>3. CASE UNCHANGED <<pendingRows, rows, received>>
  BY <1>3 DEF ViewInv, PendingLatest, RowsBehind
<1>4. CASE wire # << >> /\ HandleRows(Head(wire)) /\ UNCHANGED rows
  <2> DEFINE n == Head(wire).count
             m == Len(pendingRows)
  <2>1. PICK lost \in Nat : lost = Overflow(m + n)
    BY <1>1, <1>2, <1>4 DEF Overflow
  <2>2. /\ AppendPendingRows([i \in 1 .. n |-> received + i]) /\ received' = received + n
        /\ rows' = rows /\ n \in Nat /\ m \in Nat
    BY <1>1, <1>2, <1>4 DEF HandleRows
  <2> HIDE DEF n
  <2>3. /\ Len(pendingRows') = m + n - lost
        /\ \A i \in 1 .. m + n - lost :
              pendingRows'[i] = IF lost + i <= m THEN pendingRows[lost + i]
                                ELSE received + (lost + i - m)
    BY <2>1, <2>2, AppendedPending
  <2>4. \A j \in 1 .. m : pendingRows[j] = received - m + j
    BY DEF ViewInv, PendingLatest
  <2>5. RowsBehind => \A i \in 1 .. Len(rows) : rows[i] = received - m + 1 - i
    BY DEF RowsBehind
  <2>6. m <= RowLimit /\ (m + n > RowLimit => lost = m + n - RowLimit)
                     /\ (~(m + n > RowLimit) => lost = 0)
    BY <1>1, <2>1, <2>2 DEF Overflow
  <2>7. RowsBehind \/ m = RowLimit
    BY DEF ViewInv
  <2> HIDE DEF m
  <2>8. ASSUME NEW i \in 1 .. Len(pendingRows')
        PROVE  pendingRows'[i] = received' - Len(pendingRows') + i
    <3>1. i \in 1 .. m + n - lost /\ i \in Int /\ Len(pendingRows') = m + n - lost
      BY <2>3
    <3>5. received' = received + n /\ n \in Nat /\ m \in Nat /\ lost \in Nat /\ received \in Nat
      BY <1>1, <2>1, <2>2
    <3>2. pendingRows'[i] = IF lost + i <= m THEN pendingRows[lost + i]
                            ELSE received + (lost + i - m)
      BY <2>3, <3>1
    <3>3. CASE lost + i <= m
      <4>1. lost + i \in 1 .. m
        BY <2>1, <2>2, <3>1, <3>3
      <4>2. pendingRows[lost + i] = received - m + (lost + i)
        BY <2>4, <4>1
      <4> QED
        BY <3>1, <3>2, <3>3, <3>5, <4>2
    <3>4. CASE ~(lost + i <= m)
      BY <3>1, <3>2, <3>4, <3>5
    <3> QED
      BY <3>3, <3>4
  <2>9. PendingLatest'
    BY <2>8 DEF PendingLatest
  <2>10. CASE m + n > RowLimit
    BY <2>1, <2>2, <2>3, <2>6, <2>9, <2>10 DEF ViewInv
  <2>11. CASE ~(m + n > RowLimit)
    <3>1. Len(pendingRows') = m + n
      BY <2>2, <2>3, <2>6, <2>11
    <3>2. CASE RowsBehind
      <4>1. RowsBehind'
        BY <1>1, <2>2, <2>5, <3>1, <3>2 DEF RowsBehind
      <4> QED
        BY <2>9, <4>1 DEF ViewInv
    <3>3. CASE m = RowLimit
      BY <2>2, <2>9, <2>11, <3>1, <3>3 DEF ViewInv
    <3> QED
      BY <2>7, <3>2, <3>3
  <2> QED
    BY <2>10, <2>11
<1>5. CASE AppendRows(pendingRows) /\ pendingRows' = << >> /\ UNCHANGED received
  <2> DEFINE m == Len(pendingRows)
             all == m + Len(rows)
             n == IF all < RowLimit THEN all ELSE RowLimit
  <2>1. /\ Len(rows') = n
        /\ \A i \in 1 .. n : rows'[i] = IF i <= m THEN pendingRows[m - i + 1] ELSE rows[i - m]
    BY <1>5, AppendedRows
  <2>2. n \in Nat /\ n <= m + Len(rows) /\ n <= RowLimit /\ m \in Nat
    BY <1>1
  <2>3. Len(pendingRows') = 0 /\ received' = received
    BY <1>5
  <2>4. \A j \in 1 .. m : pendingRows[j] = received - m + j
    BY DEF ViewInv, PendingLatest
  <2>5. RowsBehind => \A i \in 1 .. Len(rows) : rows[i] = received - m + 1 - i
    BY DEF RowsBehind
  <2>6. RowsBehind \/ m = RowLimit
    BY DEF ViewInv
  <2> HIDE DEF n, all, m
  <2>7. PendingLatest'
    BY <2>3 DEF PendingLatest
  <2>8. ASSUME NEW i \in 1 .. n
        PROVE  rows'[i] = received - 0 + 1 - i
    <3>1. CASE i <= m
      <4>1. m - i + 1 \in 1 .. m /\ rows'[i] = pendingRows[m - i + 1]
        BY <2>1, <2>2, <3>1
      <4>2. pendingRows[m - i + 1] = received - m + (m - i + 1)
        BY <2>4, <4>1
      <4> QED
        BY <1>1, <2>2, <4>1, <4>2
    <3>2. CASE ~(i <= m)
      <4>1. i - m \in 1 .. Len(rows) /\ rows'[i] = rows[i - m] /\ RowsBehind
        BY <1>1, <2>1, <2>2, <2>6, <3>2
      <4>2. rows[i - m] = received - m + 1 - (i - m)
        BY <2>5, <4>1
      <4> QED
        BY <1>1, <2>2, <4>1, <4>2
    <3> QED
      BY <3>1, <3>2
  <2>9. RowsBehind'
    BY <2>1, <2>3, <2>8 DEF RowsBehind
  <2> QED
    BY <2>7, <2>9 DEF ViewInv
<1> QED
  BY <1>3, <1>4, <1>5, RowSteps DEF HandleSkipped

(* The invariant says that the view has no gap.                            *)
LEMMA ViewIsGapless == ASSUME Typed, ViewInv PROVE GaplessView
<1> DEFINE back == Reverse(rows)
           all == back \o pendingRows
           m == Len(pendingRows)
           k == Len(rows)
<1>1. /\ received \in Nat /\ m \in Nat /\ k \in Nat
      /\ rows \in Seq(1 .. received) /\ pendingRows \in Seq(1 .. received)
  BY DEF Typed, TypeOK
<1>2. back \in Seq(1 .. received) /\ Len(back) = k /\ \A i \in 1 .. k : back[i] = rows[k - i + 1]
  BY <1>1, ReverseOf
<1> HIDE DEF back
<1>3. /\ all \in Seq(1 .. received) /\ Len(all) = k + m
      /\ \A i \in 1 .. k + m : all[i] = IF i <= k THEN back[i] ELSE pendingRows[i - k]
  <2>1. /\ back \o pendingRows \in Seq(1 .. received)
        /\ Len(back \o pendingRows) = Len(back) + Len(pendingRows)
        /\ \A i \in 1 .. Len(back) + Len(pendingRows) :
              (back \o pendingRows)[i] = IF i <= Len(back) THEN back[i] ELSE pendingRows[i - Len(back)]
    BY <1>1, <1>2, ConcatProperties
  <2> QED
    BY <1>2, <2>1
<1> HIDE DEF all
<1>4. \A i \in 1 .. m : pendingRows[i] = received - m + i
  BY DEF ViewInv, PendingLatest
<1>5. CASE m = RowLimit
  <2>1. \A i \in DOMAIN pendingRows : pendingRows[i] = received - Len(pendingRows) + i
    <3>1. DOMAIN pendingRows = 1 .. m
      BY <1>1
    <3> QED
      BY <1>4, <3>1
  <2> QED
    BY <1>5, <2>1 DEF GaplessView
<1>6. CASE RowsBehind
  <2>1. \A i \in 1 .. k : rows[i] = received - m + 1 - i
    BY <1>6 DEF RowsBehind
  <2> HIDE DEF k, m
  <2>2. ASSUME NEW i \in 1 .. k + m PROVE all[i] = received - (k + m) + i
    <3>1. CASE i <= k
      <4>1. i \in 1 .. k /\ k - i + 1 \in 1 .. k
        BY <1>1, <3>1
      <4>2. rows[k - i + 1] = received - m + 1 - (k - i + 1)
        BY <2>1, <4>1
      <4>3. all[i] = rows[k - i + 1]
        BY <1>2, <1>3, <3>1, <4>1
      <4> QED
        BY <1>1, <4>1, <4>2, <4>3
    <3>2. CASE ~(i <= k)
      <4>1. i - k \in 1 .. m /\ all[i] = pendingRows[i - k]
        BY <1>1, <1>3, <3>2
      <4>2. pendingRows[i - k] = received - m + (i - k)
        BY <1>4, <4>1
      <4> QED
        BY <1>1, <4>1, <4>2
    <3> QED
      BY <3>1, <3>2
  <2>3. DOMAIN all = 1 .. k + m /\ Len(all) = k + m
    BY <1>3
  <2>4. \A i \in DOMAIN all : all[i] = received - Len(all) + i
    BY <2>2, <2>3
  <2> QED
    BY <2>4 DEF GaplessView, all, back
<1> QED
  BY <1>5, <1>6 DEF ViewInv

-----------------------------------------------------------------------------
(* The pause flag.                                                         *)

(* What a step does to the flags and to the requests.                      *)
LEMMA RequestSteps ==
    ASSUME [Next]_vars
    PROVE  \/ UNCHANGED <<opened, conn, hubPaused, paused, requests, unsure>>
           \/ conn' = 0 /\ UNCHANGED <<opened, hubPaused, paused, requests, unsure>>
           \/ Connect \/ PauseButton
<1> DEFINE Still == UNCHANGED <<opened, conn, hubPaused, paused, requests, unsure>>
<1>1. CASE UNCHANGED vars
  BY <1>1 DEF vars, connectionVars, storeVars, historyVars
<1>2. ASSUME Hub PROVE Still
  BY <1>2 DEF Hub, AddSource, AnnounceSource, EndSource, PublishRows, connectionVars, storeVars,
              historyVars
<1>3. ASSUME Mount \/ Receive \/ Flush \/ Frame PROVE Still
  BY <1>3 DEF Mount, Receive, Flush, Frame, connectionVars, storeVars, historyVars
<1>4. CASE Disconnect \/ Unmount
  BY <1>4 DEF Disconnect, Unmount, storeVars, historyVars
<1> QED
  BY <1>1, <1>2, <1>3, <1>4 DEF Next

LEMMA StepRequests ==
    ASSUME Typed, RequestsInv, [Next]_vars PROVE RequestsInv'
<1>1. /\ requests \subseteq Request /\ opened \in Nat /\ conn \in 0 .. opened
      /\ subscriber \in 0 .. opened /\ unsure \in BOOLEAN /\ paused \in BOOLEAN
      /\ hubPaused \in BOOLEAN
  BY DEF Typed, TypeOK, Request
<1>2. \A r \in requests : r.of \in Nat \ {0}
  BY <1>1 DEF Request
<1>3. CASE UNCHANGED <<opened, conn, hubPaused, paused, requests, unsure>>
  BY <1>3 DEF RequestsInv
<1>4. CASE conn' = 0 /\ UNCHANGED <<opened, hubPaused, paused, requests, unsure>>
  BY <1>2, <1>4 DEF RequestsInv
<1>5. CASE Connect
  <2>1. /\ opened' = opened + 1 /\ conn' = opened + 1 /\ hubPaused' = FALSE
        /\ unsure' = (unsure \/ paused \/ requests # {})
        /\ requests' = requests /\ paused' = paused
    BY <1>5 DEF Connect
  <2>2. ASSUME NEW r \in requests'
        PROVE  r.of < conn' /\ r.of <= opened' /\ unsure' /\ (r.alone => requests' = {r})
    <3>1. r \in requests /\ r.of \in Nat /\ r.of <= opened
      BY <1>2, <2>1 DEF RequestsInv
    <3>2. r.of < conn' /\ r.of <= opened'
      BY <1>1, <2>1, <3>1
    <3>3. unsure'
      BY <2>1, <3>1
    <3>4. r.alone => requests' = {r}
      BY <2>1, <3>1 DEF RequestsInv
    <3> QED
      BY <3>2, <3>3, <3>4
  <2>3. ~unsure' => paused' = hubPaused'
    BY <1>1, <2>1
  <2> QED
    BY <1>1, <1>2, <2>1, <2>2, <2>3 DEF RequestsInv
<1>6. CASE TogglePause
  <2> DEFINE mine == [op |-> IF paused THEN "resume" ELSE "pause", of |-> subscriber,
                      at |-> "sent", alone |-> requests = {}]
  <2>1. /\ requests' = {[r EXCEPT !.alone = FALSE] : r \in requests} \union {mine}
        /\ unsure' = (unsure \/ requests # {})
        /\ UNCHANGED <<opened, conn, hubPaused, paused>>
    BY <1>6 DEF TogglePause, connectionVars, storeVars
  <2>2. mine.of <= opened /\ mine.at = "sent" /\ (mine.alone <=> requests = {})
    <3>1. mine.of = subscriber /\ mine.at = "sent" /\ mine.alone = (requests = {})
      OBVIOUS
    <3> HIDE DEF mine
    <3>2. mine.of <= opened
      BY <1>1, <3>1
    <3> QED
      BY <3>1, <3>2
  <2> HIDE DEF mine
  <2>3. CASE requests = {}
    <3>1. requests' = {mine} /\ unsure' = unsure
      BY <1>1, <2>1, <2>3
    <3>2. ~unsure /\ conn # 0 => paused = hubPaused
      BY <2>3 DEF RequestsInv
    <3> QED
      BY <2>1, <2>2, <2>3, <3>1, <3>2 DEF RequestsInv
  <2>4. CASE requests # {}
    <3>1. unsure' = TRUE
      BY <1>1, <2>1, <2>4
    <3>2. ASSUME NEW r \in requests' PROVE r.of <= opened' /\ ~r.alone
      <4>1. CASE r = mine
        BY <2>1, <2>2, <2>4, <4>1
      <4>2. CASE r # mine
        <5>1. PICK q \in requests : r = [q EXCEPT !.alone = FALSE]
          BY <2>1, <4>2
        <5>2. q.of <= opened /\ r.of = q.of /\ r.alone = FALSE
          BY <1>1, <5>1 DEF Request, RequestsInv
        <5> QED
          BY <2>1, <5>2
      <4> QED
        BY <4>1, <4>2
    <3> QED
      BY <3>1, <3>2 DEF RequestsInv
  <2> QED
    BY <2>3, <2>4
<1>7. ASSUME NEW r \in requests, HandleControl(r) PROVE RequestsInv'
  <2> DEFINE d == [r EXCEPT !.at = "done"]
  <2>1. /\ r.at = "sent" /\ r.of = conn /\ requests' = (requests \ {r}) \union {d}
        /\ UNCHANGED <<opened, conn, paused, unsure>>
        /\ hubPaused' = (r.op = "pause")
    BY <1>7 DEF HandleControl, HubPauses, HubResumes, storeVars, historyVars
  <2>2. d.at = "done" /\ d.of = r.of /\ d.op = r.op /\ d.alone = r.alone
    BY <1>1 DEF Request
  <2> HIDE DEF d
  <2>3. CASE r.alone
    <3>1. requests = {r} /\ requests' = {d}
      BY <2>1, <2>3 DEF RequestsInv
    <3>2. r.of <= opened /\ conn # 0
      BY <1>2, <2>1 DEF RequestsInv
    <3> QED
      BY <2>1, <2>2, <2>3, <3>1, <3>2 DEF RequestsInv
  <2>4. CASE ~r.alone
    <3>1. unsure = TRUE
      BY <1>1, <2>4 DEF RequestsInv
    <3>2. ASSUME NEW q \in requests' PROVE q.of <= opened /\ ~q.alone
      BY <2>1, <2>2, <2>4 DEF RequestsInv
    <3> QED
      BY <2>1, <3>1, <3>2 DEF RequestsInv
  <2> QED
    BY <2>3, <2>4
<1>8. ASSUME NEW r \in requests, ControlFails(r) PROVE RequestsInv'
  <2>1. /\ requests' = requests \ {r} /\ unsure' = (unsure \/ r.at = "done")
        /\ UNCHANGED <<opened, conn, hubPaused, paused>>
    BY <1>8 DEF ControlFails, connectionVars, storeVars
  <2>2. ASSUME NEW q \in requests'
        PROVE  q.of <= opened /\ ~q.alone /\ unsure'
    BY <1>1, <2>1 DEF RequestsInv
  <2>3. ~unsure' /\ conn # 0 => paused = hubPaused
    <3> SUFFICES ASSUME ~unsure', conn # 0 PROVE paused = hubPaused
      OBVIOUS
    <3>1. ~unsure /\ r.at # "done"
      BY <1>1, <2>1
    <3>2. r.at = "sent" /\ requests = {r}
      BY <1>1, <3>1 DEF Request, RequestsInv
    <3> QED
      BY <3>1, <3>2 DEF RequestsInv
  <2> QED
    BY <2>1, <2>2, <2>3 DEF RequestsInv
<1>9. ASSUME NEW r \in requests, ControlAnswered(r) PROVE RequestsInv'
  <2>1. /\ r.at = "done" /\ requests' = requests \ {r} /\ paused' = (r.op = "pause")
        /\ unsure' = (unsure /\ ~(r.alone /\ r.of = conn))
        /\ UNCHANGED <<opened, conn, hubPaused>>
    BY <1>9 DEF ControlAnswered, connectionVars
  <2>2. CASE r.alone /\ r.of = conn
    <3>1. requests' = {} /\ hubPaused = (r.op = "pause")
      BY <2>1, <2>2 DEF RequestsInv
    <3> QED
      BY <2>1, <3>1 DEF RequestsInv
  <2>3. CASE ~(r.alone /\ r.of = conn)
    <3>1. unsure' = unsure
      BY <1>1, <2>1, <2>3
    <3>2. ASSUME NEW q \in requests'
          PROVE  q.of <= opened /\ ~q.alone /\ unsure'
      BY <1>1, <2>1, <3>1 DEF RequestsInv
    <3>3. ~unsure /\ conn # 0 => FALSE
      BY <2>1, <2>3 DEF RequestsInv
    <3> QED
      BY <2>1, <3>1, <3>2, <3>3 DEF RequestsInv
  <2> QED
    BY <2>2, <2>3
<1> QED
  BY <1>3, <1>4, <1>5, <1>6, <1>7, <1>8, <1>9, RequestSteps DEF PauseButton

-----------------------------------------------------------------------------
(* The theorems.                                                           *)

LEMMA ViewInvariant == Spec => []ViewIInv
<1>1. Init => ViewIInv
  <2> SUFFICES ASSUME Init PROVE ViewIInv
    OBVIOUS
  <2>1. Typed
    BY InitTyped
  <2>2. Len(rows) = 0 /\ Len(pendingRows) = 0
    BY DEF Init
  <2>3. RowsShownOrCounted
    BY <2>2 DEF Init, RowsShownOrCounted
  <2>4. ViewInv
    BY <2>2 DEF ViewInv, PendingLatest, RowsBehind
  <2>5. RequestsInv
    BY DEF Init, RequestsInv
  <2> QED
    BY <2>1, <2>3, <2>4, <2>5 DEF ViewIInv
<1>2. ViewIInv /\ [Next]_vars => ViewIInv'
  BY StepTyped, StepCounted, StepView, StepRequests DEF ViewIInv
<1> QED
  BY <1>1, <1>2, PTL DEF Spec

(* useLogStream.ts and useLiveLogStore.ts: the view's state keeps its      *)
(* types and limits, and every row received is shown, waits to be drawn or *)
(* is in the skipped count.                                                *)
THEOREM ViewIsConsistent == Spec => []Consistent
<1>1. ViewIInv => Consistent
  BY DEF ViewIInv, Typed, Consistent
<1> QED
  BY <1>1, ViewInvariant, PTL

(* appendPendingRows and appendRows: however rows, flushes and frames      *)
(* interleave, the table and the rows that wait are the latest received,   *)
(* in order and without a gap.                                             *)
THEOREM ViewHasNoGap == Spec => []GaplessView
<1>1. ViewIInv => GaplessView
  BY ViewIsGapless DEF ViewIInv
<1> QED
  BY <1>1, ViewInvariant, PTL

(* The pause button: with no request in flight, and unless the page has    *)
(* reason to be unsure, it shows the flag of its hub's subscriber.         *)
THEOREM PauseFlagIsRight == Spec => []PauseFlagIsTheHubs
<1>1. ViewIInv => PauseFlagIsTheHubs
  BY DEF ViewIInv, RequestsInv, PauseFlagIsTheHubs
<1> QED
  BY <1>1, ViewInvariant, PTL

=============================================================================
