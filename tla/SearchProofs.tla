---------------------------- MODULE SearchProofs ----------------------------
(***************************************************************************)
(* Proofs about the two ends of a search: the storage that it reads        *)
(* (LogStorage) and the view that asks for it (SearchView).                *)
(*                                                                         *)
(* For the storage, the first part says what each step does to the request *)
(* that takes it (the lemmas named ...Begun and ...Typed), to the other    *)
(* requests (Steps, Moves) and to the store (Grows).  The parts of the     *)
(* inductive invariant IInv follow, one property after the other.          *)
(*                                                                         *)
(* For the view, ViewInv is the inductive invariant; a lemma named ...Keeps*)
(* shows it for one action, and RenderingKeepsSearches for the effect that *)
(* most of them end with.                                                  *)
(***************************************************************************)
EXTENDS LogStorage, SearchView, TLAPS

-----------------------------------------------------------------------------
(* Types.                                                                  *)

LEMMA DayTyped == TypeOK => \A r \in Row : DayOf(r) \in Day
  BY DEF TypeOK, DayOf, DateOf, Day

LEMMA IdleTyped == Idle \in Request /\ Idle.day \in Day
<1>1. Day # {}
  BY RowTimeAssumption DEF Day
<1> QED
  BY <1>1 DEF Idle, Request

LEMMA BackTyped ==
    ASSUME NEW q \in Request
    PROVE  /\ BackToWalk(q) \in Request
           /\ BackToWalk(q).op = q.op /\ BackToWalk(q).pc = "next"
           /\ BackToWalk(q).todo = q.todo /\ BackToWalk(q).handle = "none"
           /\ BackToWalk(q).rows = q.rows /\ BackToWalk(q).seen = q.seen
           /\ BackToWalk(q).skipped = q.skipped
<1>1. Idle.day \in Day
  BY IdleTyped
<1> QED
  BY <1>1 DEF BackToWalk, Request

(* A request that begins.                                                  *)
LEMMA StoreBegun ==
    ASSUME NEW w \in Worker, NEW rows \in SUBSET Row, TypeOK, BeginStore(w, rows)
    PROVE  /\ worker[w].op = "none"
           /\ worker' \in [Worker -> Request]
           /\ worker'[w].op = "store" /\ worker'[w].pc = "next"
           /\ worker'[w].handle = "none" /\ worker'[w].seen = {}
           /\ worker'[w].rows = rows /\ worker'[w].todo = {DayOf(r) : r \in rows}
           /\ worker'[w].skipped = {}
           /\ \A v \in Worker \ {w} : worker'[v] = worker[v]
<1> DEFINE rs == rows
           ds == {DayOf(r) : r \in rows}
           q == [Idle EXCEPT !.op = "store", !.pc = "next", !.rows = rs, !.todo = ds]
<1>1. rs \in SUBSET Row /\ ds \in SUBSET Day
  BY DayTyped
<1>2. Begin(w, "store", rs, ds)
  BY DEF BeginStore
<1> HIDE DEF rs, ds
<1>3. q \in Request /\ q.op = "store" /\ q.pc = "next" /\ q.handle = "none" /\ q.rows = rs
      /\ q.todo = ds /\ q.seen = {} /\ q.skipped = {}
  BY <1>1, IdleTyped DEF Idle, Request
<1>4. worker' = [worker EXCEPT ![w] = q] /\ worker[w].op = "none"
  BY <1>2 DEF Begin
<1> HIDE DEF q
<1>5. worker' \in [Worker -> Request] /\ worker'[w] = q
      /\ \A v \in Worker \ {w} : worker'[v] = worker[v]
  BY <1>3, <1>4 DEF TypeOK
<1> QED
  BY <1>3, <1>4, <1>5 DEF rs, ds

LEMMA DeleteBegun ==
    ASSUME NEW w \in Worker, NEW rows \in SUBSET Row, TypeOK, BeginDelete(w, rows)
    PROVE  /\ worker[w].op = "none"
           /\ worker' \in [Worker -> Request]
           /\ worker'[w].op = "delete" /\ worker'[w].pc = "next"
           /\ worker'[w].handle = "none" /\ worker'[w].seen = {}
           /\ worker'[w].rows = rows /\ worker'[w].todo = shards
           /\ worker'[w].skipped = {}
           /\ \A v \in Worker \ {w} : worker'[v] = worker[v]
<1> DEFINE rs == rows
           ds == shards
           q == [Idle EXCEPT !.op = "delete", !.pc = "next", !.rows = rs, !.todo = ds]
<1>1. rs \in SUBSET Row /\ ds \in SUBSET Day
  BY DEF TypeOK
<1>2. Begin(w, "delete", rs, ds)
  BY DEF BeginDelete
<1> HIDE DEF rs, ds
<1>3. q \in Request /\ q.op = "delete" /\ q.pc = "next" /\ q.handle = "none" /\ q.rows = rs
      /\ q.todo = ds /\ q.seen = {} /\ q.skipped = {}
  BY <1>1, IdleTyped DEF Idle, Request
<1>4. worker' = [worker EXCEPT ![w] = q] /\ worker[w].op = "none"
  BY <1>2 DEF Begin
<1> HIDE DEF q
<1>5. worker' \in [Worker -> Request] /\ worker'[w] = q
      /\ \A v \in Worker \ {w} : worker'[v] = worker[v]
  BY <1>3, <1>4 DEF TypeOK
<1> QED
  BY <1>3, <1>4, <1>5 DEF rs, ds

LEMMA InfoBegun ==
    ASSUME NEW w \in Worker, NEW forced \in BOOLEAN, TypeOK, BeginInfo(w, forced)
    PROVE  /\ worker[w].op = "none"
           /\ worker' \in [Worker -> Request]
           /\ worker'[w].op = "info" /\ worker'[w].pc = "next"
           /\ worker'[w].handle = "none" /\ worker'[w].seen = {}
           /\ worker'[w].rows = {} /\ worker'[w].todo = shards
           /\ worker'[w].skipped = {}
           /\ \A v \in Worker \ {w} : worker'[v] = worker[v]
<1> DEFINE rs == {}
           ds == shards
           q == [Idle EXCEPT !.op = "info", !.pc = "next", !.rows = rs, !.todo = ds]
<1>1. rs \in SUBSET Row /\ ds \in SUBSET Day
  BY DEF TypeOK
<1>2. Begin(w, "info", rs, ds)
  BY DEF BeginInfo
<1> HIDE DEF rs, ds
<1>3. q \in Request /\ q.op = "info" /\ q.pc = "next" /\ q.handle = "none" /\ q.rows = rs
      /\ q.todo = ds /\ q.seen = {} /\ q.skipped = {}
  BY <1>1, IdleTyped DEF Idle, Request
<1>4. worker' = [worker EXCEPT ![w] = q] /\ worker[w].op = "none"
  BY <1>2 DEF Begin
<1> HIDE DEF q
<1>5. worker' \in [Worker -> Request] /\ worker'[w] = q
      /\ \A v \in Worker \ {w} : worker'[v] = worker[v]
  BY <1>3, <1>4 DEF TypeOK
<1> QED
  BY <1>3, <1>4, <1>5 DEF rs, ds

LEMMA SearchBegun ==
    ASSUME NEW w \in Worker, TypeOK, BeginSearch(w)
    PROVE  /\ worker[w].op = "none"
           /\ worker' \in [Worker -> Request]
           /\ worker'[w].op = "search" /\ worker'[w].pc = "next"
           /\ worker'[w].handle = "none" /\ worker'[w].seen = {}
           /\ worker'[w].rows = acked \ removed /\ worker'[w].todo = shards
           /\ worker'[w].skipped = {}
           /\ \A v \in Worker \ {w} : worker'[v] = worker[v]
<1> DEFINE rs == acked \ removed
           ds == shards
           q == [Idle EXCEPT !.op = "search", !.pc = "next", !.rows = rs, !.todo = ds]
<1>1. rs \in SUBSET Row /\ ds \in SUBSET Day
  BY DEF TypeOK
<1>2. Begin(w, "search", rs, ds)
  BY DEF BeginSearch
<1> HIDE DEF rs, ds
<1>3. q \in Request /\ q.op = "search" /\ q.pc = "next" /\ q.handle = "none" /\ q.rows = rs
      /\ q.todo = ds /\ q.seen = {} /\ q.skipped = {}
  BY <1>1, IdleTyped DEF Idle, Request
<1>4. worker' = [worker EXCEPT ![w] = q] /\ worker[w].op = "none"
  BY <1>2 DEF Begin
<1> HIDE DEF q
<1>5. worker' \in [Worker -> Request] /\ worker'[w] = q
      /\ \A v \in Worker \ {w} : worker'[v] = worker[v]
  BY <1>3, <1>4 DEF TypeOK
<1> QED
  BY <1>3, <1>4, <1>5 DEF rs, ds

(* A request that fails ends, or skips the day.                            *)
LEMMA FailTyped ==
    ASSUME NEW w \in Worker, TypeOK, Fail(w)
    PROVE  /\ worker' \in [Worker -> Request]
           /\ worker[w].op # "info" => worker'[w] = Idle
           /\ worker[w].op = "info" =>
                 /\ worker'[w].op = "info" /\ worker'[w].pc = "next"
                 /\ worker'[w].handle = "none"
                 /\ worker'[w].rows = worker[w].rows /\ worker'[w].todo = worker[w].todo
                 /\ worker'[w].seen = worker[w].seen
                 /\ worker'[w].skipped = worker[w].skipped \union {worker[w].day}
           /\ \A v \in Worker \ {w} : worker'[v] = worker[v]
<1>1. worker[w] \in Request
  BY DEF TypeOK
<1>2. CASE worker[w].op # "info"
  BY <1>2, IdleTyped DEF Fail, TypeOK
<1>3. CASE worker[w].op = "info"
  <2> DEFINE b == BackToWalk(worker[w])
             q == [b EXCEPT !.skipped = worker[w].skipped \union {worker[w].day}]
  <2>1. b \in Request /\ b.op = worker[w].op /\ b.pc = "next" /\ b.handle = "none"
        /\ b.rows = worker[w].rows /\ b.todo = worker[w].todo /\ b.seen = worker[w].seen
    BY <1>1, BackTyped
  <2>2. worker[w].skipped \union {worker[w].day} \in SUBSET Day
    BY <1>1 DEF Request
  <2>3. worker' = [worker EXCEPT ![w] = q]
    BY <1>3 DEF Fail
  <2> HIDE DEF b
  <2>4. q \in Request /\ q.op = "info" /\ q.pc = "next" /\ q.handle = "none"
        /\ q.rows = worker[w].rows /\ q.todo = worker[w].todo /\ q.seen = worker[w].seen
        /\ q.skipped = worker[w].skipped \union {worker[w].day}
    BY <2>1, <2>2, <1>3 DEF Request
  <2> HIDE DEF q
  <2> QED
    BY <1>3, <2>3, <2>4 DEF TypeOK
<1> QED
  BY <1>2, <1>3

(* A request that goes back to its walk having seen more.                  *)
LEMMA SeenTyped ==
    ASSUME NEW w \in Worker, TypeOK, NEW more \in SUBSET (Row \union Day),
           worker' = [worker EXCEPT ![w] =
                         [BackToWalk(worker[w]) EXCEPT !.seen = worker[w].seen \union more]]
    PROVE  /\ worker' \in [Worker -> Request]
           /\ worker'[w].op = worker[w].op /\ worker'[w].pc = "next"
           /\ worker'[w].handle = "none"
           /\ worker'[w].rows = worker[w].rows /\ worker'[w].todo = worker[w].todo
           /\ worker'[w].seen = worker[w].seen \union more
           /\ worker'[w].skipped = worker[w].skipped
           /\ \A v \in Worker \ {w} : worker'[v] = worker[v]
<1>1. worker[w] \in Request
  BY DEF TypeOK
<1> DEFINE b == BackToWalk(worker[w])
           q == [b EXCEPT !.seen = worker[w].seen \union more]
<1>2. b \in Request /\ b.op = worker[w].op /\ b.pc = "next" /\ b.handle = "none"
      /\ b.rows = worker[w].rows /\ b.todo = worker[w].todo /\ b.skipped = worker[w].skipped
  BY <1>1, BackTyped
<1>3. worker[w].seen \union more \in SUBSET (Row \union Day)
  BY <1>1 DEF Request
<1>4. worker' = [worker EXCEPT ![w] = q]
  OBVIOUS
<1> HIDE DEF b
<1>5. q \in Request /\ q.op = worker[w].op /\ q.pc = "next" /\ q.handle = "none"
      /\ q.rows = worker[w].rows /\ q.todo = worker[w].todo
      /\ q.seen = worker[w].seen \union more /\ q.skipped = worker[w].skipped
  BY <1>2, <1>3 DEF Request
<1> HIDE DEF q
<1> QED
  BY <1>4, <1>5 DEF TypeOK

LEMMA DeleteTyped ==
    ASSUME NEW w \in Worker, TypeOK, DeleteDay(w)
    PROVE  /\ worker' \in [Worker -> Request]
           /\ worker[w].op = "delete" /\ worker[w].pc = "use"
           /\ worker'[w].op = "delete" /\ worker'[w].pc = "next"
           /\ worker'[w].handle = "none"
           /\ worker'[w].rows = worker[w].rows /\ worker'[w].todo = worker[w].todo
           /\ worker'[w].seen = worker[w].seen \union (RowsOf({worker[w].day}) \cap worker[w].rows)
           /\ worker'[w].skipped = worker[w].skipped
           /\ \A v \in Worker \ {w} : worker'[v] = worker[v]
<1> DEFINE more == RowsOf({worker[w].day}) \cap worker[w].rows
<1>1. more \in SUBSET (Row \union Day)
  BY DEF TypeOK, RowsOf, Request
<1>2. /\ worker[w].op = "delete" /\ worker[w].pc = "use"
      /\ worker' = [worker EXCEPT ![w] =
                        [BackToWalk(worker[w]) EXCEPT !.seen = worker[w].seen \union more]]
  BY DEF DeleteDay, Using
<1> HIDE DEF more
<1>3. /\ worker' \in [Worker -> Request]
      /\ worker'[w].op = worker[w].op /\ worker'[w].pc = "next"
      /\ worker'[w].handle = "none"
      /\ worker'[w].rows = worker[w].rows /\ worker'[w].todo = worker[w].todo
      /\ worker'[w].seen = worker[w].seen \union more
      /\ worker'[w].skipped = worker[w].skipped
      /\ \A v \in Worker \ {w} : worker'[v] = worker[v]
  BY <1>1, <1>2, SeenTyped
<1> QED
  BY <1>2, <1>3 DEF more

LEMMA CountTyped ==
    ASSUME NEW w \in Worker, TypeOK, CountDay(w)
    PROVE  /\ worker' \in [Worker -> Request]
           /\ worker[w].op = "info" /\ worker[w].pc = "use"
           /\ worker'[w].op = "info" /\ worker'[w].pc = "next"
           /\ worker'[w].handle = "none"
           /\ worker'[w].rows = worker[w].rows /\ worker'[w].todo = worker[w].todo
           /\ worker'[w].seen = worker[w].seen \union (RowsOf({worker[w].day}))
           /\ worker'[w].skipped = worker[w].skipped
           /\ \A v \in Worker \ {w} : worker'[v] = worker[v]
<1> DEFINE more == RowsOf({worker[w].day})
<1>1. more \in SUBSET (Row \union Day)
  BY DEF TypeOK, RowsOf, Request
<1>2. /\ worker[w].op = "info" /\ worker[w].pc = "use"
      /\ worker' = [worker EXCEPT ![w] =
                        [BackToWalk(worker[w]) EXCEPT !.seen = worker[w].seen \union more]]
  BY DEF CountDay, Using
<1> HIDE DEF more
<1>3. /\ worker' \in [Worker -> Request]
      /\ worker'[w].op = worker[w].op /\ worker'[w].pc = "next"
      /\ worker'[w].handle = "none"
      /\ worker'[w].rows = worker[w].rows /\ worker'[w].todo = worker[w].todo
      /\ worker'[w].seen = worker[w].seen \union more
      /\ worker'[w].skipped = worker[w].skipped
      /\ \A v \in Worker \ {w} : worker'[v] = worker[v]
  BY <1>1, <1>2, SeenTyped
<1> QED
  BY <1>2, <1>3 DEF more

LEMMA OpensTyped ==
    ASSUME NEW w \in Worker, TypeOK, SearchOpens(w)
    PROVE  /\ worker' \in [Worker -> Request]
           /\ worker[w].op = "search" /\ worker[w].pc = "use"
           /\ worker'[w].op = "search" /\ worker'[w].pc = "next"
           /\ worker'[w].handle = "none"
           /\ worker'[w].rows = worker[w].rows /\ worker'[w].todo = worker[w].todo
           /\ worker'[w].seen = worker[w].seen \union ({worker[w].day})
           /\ worker'[w].skipped = worker[w].skipped
           /\ \A v \in Worker \ {w} : worker'[v] = worker[v]
<1> DEFINE more == {worker[w].day}
<1>1. more \in SUBSET (Row \union Day)
  BY DEF TypeOK, RowsOf, Request
<1>2. /\ worker[w].op = "search" /\ worker[w].pc = "use"
      /\ worker' = [worker EXCEPT ![w] =
                        [BackToWalk(worker[w]) EXCEPT !.seen = worker[w].seen \union more]]
  BY DEF SearchOpens
<1> HIDE DEF more
<1>3. /\ worker' \in [Worker -> Request]
      /\ worker'[w].op = worker[w].op /\ worker'[w].pc = "next"
      /\ worker'[w].handle = "none"
      /\ worker'[w].rows = worker[w].rows /\ worker'[w].todo = worker[w].todo
      /\ worker'[w].seen = worker[w].seen \union more
      /\ worker'[w].skipped = worker[w].skipped
      /\ \A v \in Worker \ {w} : worker'[v] = worker[v]
  BY <1>1, <1>2, SeenTyped
<1> QED
  BY <1>2, <1>3 DEF more

(* A request that ends.                                                    *)
LEMMA EndTyped ==
    ASSUME NEW w \in Worker, TypeOK, worker' = [worker EXCEPT ![w] = Idle]
    PROVE  /\ worker' \in [Worker -> Request]
           /\ worker'[w] = Idle
           /\ \A v \in Worker \ {w} : worker'[v] = worker[v]
  BY IdleTyped DEF TypeOK

LEMMA LookUpTyped ==
    ASSUME NEW w \in Worker, NEW d \in Day, TypeOK, LookUpIndex(w, d)
    PROVE  /\ worker' \in [Worker -> Request]
           /\ worker'[w].op = worker[w].op /\ worker'[w].day = d
           /\ d \in index => worker'[w].pc = "use" /\ worker'[w].handle = "open"
           /\ d \notin index => worker'[w].pc = "open" /\ worker'[w].handle = "none"
           /\ worker'[w].rows = worker[w].rows /\ worker'[w].todo = worker[w].todo \ {d}
           /\ worker'[w].seen = worker[w].seen /\ worker'[w].skipped = worker[w].skipped
           /\ \A v \in Worker \ {w} : worker'[v] = worker[v]
<1>1. worker[w] \in Request
  BY DEF TypeOK
<1> QED
  BY <1>1 DEF LookUpIndex, TypeOK, Request

LEMMA OpenTyped ==
    ASSUME NEW w \in Worker, TypeOK, OpenIndex(w)
    PROVE  /\ worker' \in [Worker -> Request]
           /\ worker'[w].op = worker[w].op /\ worker'[w].day = worker[w].day
           /\ worker'[w].pc = "use" /\ worker'[w].handle = "open"
           /\ worker'[w].rows = worker[w].rows /\ worker'[w].todo = worker[w].todo
           /\ worker'[w].seen = worker[w].seen /\ worker'[w].skipped = worker[w].skipped
           /\ \A v \in Worker \ {w} : worker'[v] = worker[v]
<1>1. worker[w] \in Request
  BY DEF TypeOK
<1> QED
  BY <1>1 DEF OpenIndex, TypeOK, Request

LEMMA StoreTyped ==
    ASSUME NEW w \in Worker, TypeOK, StoreDay(w)
    PROVE  /\ worker' \in [Worker -> Request]
           /\ worker'[w].op = "store" /\ worker'[w].pc = "next"
           /\ worker'[w].handle = "none"
           /\ worker'[w].rows = worker[w].rows /\ worker'[w].todo = worker[w].todo
           /\ worker'[w].seen = worker[w].seen
           /\ \A v \in Worker \ {w} : worker'[v] = worker[v]
<1>1. worker[w] \in Request /\ worker[w].op = "store"
  BY DEF TypeOK, StoreDay, Using
<1> DEFINE q == BackToWalk(worker[w])
<1>2. worker' = [worker EXCEPT ![w] = q]
  BY DEF StoreDay
<1>3. q \in Request /\ q.op = "store" /\ q.pc = "next" /\ q.handle = "none"
      /\ q.rows = worker[w].rows /\ q.todo = worker[w].todo /\ q.seen = worker[w].seen
  BY <1>1, BackTyped
<1> HIDE DEF q
<1> QED
  BY <1>2, <1>3 DEF TypeOK

LEMMA ReadTyped ==
    ASSUME NEW w \in Worker, TypeOK, SearchReads(w)
    PROVE  /\ worker' \in [Worker -> Request]
           /\ worker'[w].op = "search" /\ worker'[w].pc = "answered"
           /\ worker'[w].handle = worker[w].handle /\ worker'[w].day = worker[w].day
           /\ worker'[w].rows = worker[w].rows /\ worker'[w].todo = {}
           /\ worker'[w].seen = RowsOf(index \cap worker[w].seen)
           /\ \A v \in Worker \ {w} : worker'[v] = worker[v]
<1>1. worker[w] \in Request
  BY DEF TypeOK
<1>2. RowsOf(index \cap worker[w].seen) \in SUBSET (Row \union Day)
  BY DEF TypeOK, RowsOf
<1> QED
  BY <1>1, <1>2 DEF SearchReads, WalkEnds, TypeOK, Request

(* Closing indexes takes the handles of days from the requests.            *)
LEMMA ClosedTyped ==
    ASSUME NEW days, TypeOK
    PROVE  /\ Closed(days) \in [Worker -> Request]
           /\ \A v \in Worker :
                 /\ Closed(days)[v].op = worker[v].op /\ Closed(days)[v].pc = worker[v].pc
                 /\ Closed(days)[v].day = worker[v].day
                 /\ Closed(days)[v].todo = worker[v].todo
                 /\ Closed(days)[v].rows = worker[v].rows
                 /\ Closed(days)[v].seen = worker[v].seen
                 /\ Closed(days)[v].skipped = worker[v].skipped
                 /\ Closed(days)[v].handle = "open" =>
                       worker[v].handle = "open" /\ worker[v].day \notin days
<1>1. \A v \in Worker : worker[v] \in Request
  BY DEF TypeOK
<1> QED
  BY <1>1 DEF Closed, Request

(* What Clear leaves of its own request.                                   *)
LEMMA ClearTyped ==
    ASSUME NEW w \in Worker, NEW days, NEW gone, TypeOK, Clear(w, days, gone)
    PROVE  /\ worker' \in [Worker -> Request]
           /\ \/ worker'[w] = Idle
              \/ /\ gone = shards
                 /\ worker'[w].op = "clear" /\ worker'[w].pc = "next"
                 /\ worker'[w].handle = "none" /\ worker'[w].todo = {}
                 /\ worker'[w].seen = docs
           /\ \A v \in Worker \ {w} : worker'[v] = Closed(days)[v]
<1> DEFINE c == Closed(days)
           q == IF days = index /\ gone = shards
                THEN [Idle EXCEPT !.op = "clear", !.pc = "next", !.seen = docs] ELSE Idle
<1>1. c \in [Worker -> Request]
  BY ClosedTyped
<1>2. worker' = [c EXCEPT ![w] = q]
  BY DEF Clear
<1>3. q \in Request
  BY IdleTyped DEF Idle, Request, TypeOK
<1>4. \/ q = Idle
      \/ gone = shards /\ q.op = "clear" /\ q.pc = "next" /\ q.handle = "none"
         /\ q.todo = {} /\ q.seen = docs
  BY DEF Idle
<1> HIDE DEF c, q
<1>5. worker' \in [Worker -> Request] /\ worker'[w] = q
      /\ \A v \in Worker \ {w} : worker'[v] = c[v]
  BY <1>1, <1>2, <1>3
<1> QED
  BY <1>4, <1>5 DEF c

-----------------------------------------------------------------------------
(* Where a request is: a day is in hand or ahead, an open handle is in the *)
(* map, a clear has done its work, and only a search sees days.            *)
InHand(w) == worker[w].pc \in {"open", "use"}
Ahead(w, d) == d \in worker[w].todo \/ (InHand(w) /\ worker[w].day = d)

Shape(w) ==
    /\ worker[w].op = "none" <=> worker[w].pc = "idle"
    /\ worker[w].pc = "answered" => worker[w].op = "search"
    /\ InHand(w) => worker[w].day \notin worker[w].todo
    /\ worker[w].handle = "open" => worker[w].pc = "use" /\ worker[w].day \in index
    /\ worker[w].op = "clear" => worker[w].pc = "next" /\ worker[w].todo = {}
    /\ worker[w].op \in {"delete", "clear", "info"} => worker[w].seen \subseteq Row

Shaped == \A w \in Worker : Shape(w)

LEMMA IdleShape == Idle.op = "none" /\ Idle.pc = "idle" /\ Idle.handle = "none" /\ Idle.todo = {}
                   /\ Idle.rows = {} /\ Idle.seen = {}
  BY DEF Idle

LEMMA InitShaped == Init => Shaped
  BY IdleShape DEF Init, Shaped, Shape, InHand

(* What a step leaves of the other requests keeps its shape.               *)
LEMMA ShapeKept ==
    ASSUME NEW v \in Worker, Shape(v), worker'[v] = worker[v], index \subseteq index'
    PROVE  Shape(v)'
  BY DEF Shape, InHand

LEMMA ShapePreserved == TypeOK /\ Shaped /\ [Next]_vars => Shaped'
<1> SUFFICES ASSUME TypeOK, Shaped, [Next]_vars, NEW v \in Worker PROVE Shape(v)'
  BY DEF Shaped
<1>1. Shape(v)
  BY DEF Shaped
<1>2. ASSUME NEW w \in Worker, WorkerNext(w) PROVE Shape(v)'
  <2>1. ASSUME NEW rows \in SUBSET Row, BeginStore(w, rows) PROVE Shape(v)'
    <3>1. index \subseteq index' /\ \A u \in Worker \ {w} : worker'[u] = worker[u]
      BY <2>1, StoreBegun DEF BeginStore
    <3>2. CASE v = w
      BY <1>1, <2>1, <3>1, <3>2, StoreBegun DEF BeginStore, Shape, InHand
    <3> QED
      BY <1>1, <3>1, <3>2, ShapeKept
  <2>2. ASSUME NEW rows \in SUBSET Row, BeginDelete(w, rows) PROVE Shape(v)'
    <3>1. index \subseteq index' /\ \A u \in Worker \ {w} : worker'[u] = worker[u]
      BY <2>2, DeleteBegun DEF BeginDelete
    <3>2. CASE v = w
      BY <1>1, <2>2, <3>1, <3>2, DeleteBegun DEF BeginDelete, Shape, InHand
    <3> QED
      BY <1>1, <3>1, <3>2, ShapeKept
  <2>3. ASSUME NEW forced \in BOOLEAN, BeginInfo(w, forced) PROVE Shape(v)'
    <3>1. index \subseteq index' /\ \A u \in Worker \ {w} : worker'[u] = worker[u]
      BY <2>3, InfoBegun DEF BeginInfo
    <3>2. CASE v = w
      BY <1>1, <2>3, <3>1, <3>2, InfoBegun DEF BeginInfo, Shape, InHand
    <3> QED
      BY <1>1, <3>1, <3>2, ShapeKept
  <2>4. CASE BeginSearch(w)
    <3>1. index \subseteq index' /\ \A u \in Worker \ {w} : worker'[u] = worker[u]
      BY <2>4, SearchBegun DEF BeginSearch
    <3>2. CASE v = w
      BY <1>1, <2>4, <3>1, <3>2, SearchBegun DEF BeginSearch, Shape, InHand
    <3> QED
      BY <1>1, <3>1, <3>2, ShapeKept
  <2>5. ASSUME NEW d \in Day, LookUpIndex(w, d) PROVE Shape(v)'
    <3>1. /\ index' = index /\ worker[w].pc = "next" /\ d \in worker[w].todo
          /\ \A u \in Worker \ {w} : worker'[u] = worker[u]
      BY <2>5, LookUpTyped DEF LookUpIndex
    <3>2. CASE v = w
      BY <1>1, <2>5, <3>1, <3>2, LookUpTyped DEF Shape, InHand
    <3> QED
      BY <1>1, <3>1, <3>2, ShapeKept
  <2>6. CASE OpenIndex(w)
    <3>1. /\ index' = index \union {worker[w].day} /\ worker[w].pc = "open"
          /\ \A u \in Worker \ {w} : worker'[u] = worker[u]
      BY <2>6, OpenTyped DEF OpenIndex
    <3>2. CASE v = w
      BY <1>1, <2>6, <3>1, <3>2, OpenTyped DEF Shape, InHand
    <3> QED
      BY <1>1, <3>1, <3>2, ShapeKept
  <2>7. CASE OpenFails(w) \/ UseFails(w)
    <3>1. index \subseteq index' /\ \A u \in Worker \ {w} : worker'[u] = worker[u]
      BY <2>7, FailTyped DEF OpenFails, UseFails
    <3>2. CASE v = w
      BY <1>1, <2>7, <3>1, <3>2, FailTyped, IdleShape DEF OpenFails, UseFails, Shape, InHand
    <3> QED
      BY <1>1, <3>1, <3>2, ShapeKept
  <2>8. CASE StoreDay(w)
    <3>1. index \subseteq index' /\ \A u \in Worker \ {w} : worker'[u] = worker[u]
      BY <2>8, StoreTyped DEF StoreDay
    <3>2. CASE v = w
      BY <1>1, <2>8, <3>1, <3>2, StoreTyped DEF StoreDay, Shape, InHand
    <3> QED
      BY <1>1, <3>1, <3>2, ShapeKept
  <2>9. CASE DeleteDay(w)
    <3>1. index \subseteq index' /\ \A u \in Worker \ {w} : worker'[u] = worker[u]
      BY <2>9, DeleteTyped DEF DeleteDay
    <3>2. CASE v = w
      BY <1>1, <2>9, <3>1, <3>2, DeleteTyped DEF RowsOf, Shape, InHand, TypeOK
    <3> QED
      BY <1>1, <3>1, <3>2, ShapeKept
  <2>10. CASE CountDay(w)
    <3>1. index \subseteq index' /\ \A u \in Worker \ {w} : worker'[u] = worker[u]
      BY <2>10, CountTyped DEF CountDay
    <3>2. CASE v = w
      BY <1>1, <2>10, <3>1, <3>2, CountTyped DEF RowsOf, Shape, InHand, TypeOK
    <3> QED
      BY <1>1, <3>1, <3>2, ShapeKept
  <2>11. CASE SearchOpens(w)
    <3>1. index \subseteq index' /\ \A u \in Worker \ {w} : worker'[u] = worker[u]
      BY <2>11, OpensTyped DEF SearchOpens
    <3>2. CASE v = w
      BY <1>1, <2>11, <3>1, <3>2, OpensTyped DEF RowsOf, Shape, InHand, TypeOK
    <3> QED
      BY <1>1, <3>1, <3>2, ShapeKept
  <2>12. CASE AnswerChange(w) \/ FillCache(w) \/ InfoFails(w) \/ AnswerSearch(w)
    <3>1. index \subseteq index' /\ \A u \in Worker \ {w} : worker'[u] = worker[u]
      BY <2>12, EndTyped DEF AnswerChange, FillCache, InfoFails, AnswerSearch
    <3>2. CASE v = w
      BY <1>1, <2>12, <3>1, <3>2, EndTyped, IdleShape
      DEF AnswerChange, FillCache, InfoFails, AnswerSearch, Shape, InHand
    <3> QED
      BY <1>1, <3>1, <3>2, ShapeKept
  <2>13. CASE SearchReads(w)
    <3>1. index \subseteq index' /\ \A u \in Worker \ {w} : worker'[u] = worker[u]
      BY <2>13, ReadTyped DEF SearchReads, WalkEnds
    <3>2. CASE v = w
      BY <1>1, <2>13, <3>1, <3>2, ReadTyped DEF SearchReads, WalkEnds, Shape, InHand
    <3> QED
      BY <1>1, <3>1, <3>2, ShapeKept
  <2>14. ASSUME NEW days \in SUBSET index, NEW gone \in SUBSET shards, Clear(w, days, gone)
         PROVE  Shape(v)'
    <3>1. index' = index \ days
      BY <2>14 DEF Clear, CloseAndRemove
    <3>2. CASE v = w
      BY <2>14, <3>2, ClearTyped, IdleShape DEF Shape, InHand, TypeOK
    <3>3. CASE v # w
      BY <1>1, <2>14, <3>1, <3>3, ClearTyped, ClosedTyped DEF Shape, InHand
    <3> QED
      BY <3>2, <3>3
  <2> QED
    BY <1>2, <2>1, <2>2, <2>3, <2>4, <2>5, <2>6, <2>7, <2>8, <2>9, <2>10, <2>11, <2>12, <2>13,
       <2>14 DEF WorkerNext
<1>3. ASSUME NEW days \in SUBSET shards, NEW gone \in SUBSET shards,
             PruneOlderThan(days, gone) PROVE Shape(v)'
  BY <1>1, <1>3, ClosedTyped DEF PruneOlderThan, CloseAndRemove, Shape, InHand
<1>4. ASSUME NEW opened \in SUBSET shards, Restart(opened) PROVE Shape(v)'
  BY <1>4, IdleShape DEF Restart, Shape, InHand
<1>5. CASE Tick \/ UNCHANGED vars
  BY <1>1, <1>5 DEF Tick, vars, memoryVars, Shape, InHand
<1> QED
  BY <1>2, <1>3, <1>4, <1>5 DEF Next

-----------------------------------------------------------------------------
(* The types, with the shape: only rows get counted or dropped.            *)
TypedAndShaped == TypeOK /\ Shaped

LEMMA InitTyped == Init => TypedAndShaped
<1> SUFFICES ASSUME Init PROVE TypeOK
  BY InitShaped DEF TypedAndShaped
<1>1. worker \in [Worker -> Request]
  BY IdleTyped DEF Init
<1>2. restarts \in 0 .. MaxRestarts
  BY MaxRestartsAssumption DEF Init
<1>3. cache \in [valid : BOOLEAN, rows : SUBSET Row] /\ handles \in [Day -> Nat]
  BY DEF Init, NoCache
<1>4. pruned \subseteq Row \X Time
  BY DEF Init
<1> QED
  BY <1>1, <1>2, <1>3, <1>4 DEF Init, TypeOK

LEMMA TypePreserved == TypedAndShaped /\ [Next]_vars => TypedAndShaped'
<1> SUFFICES ASSUME TypeOK, Shaped, [Next]_vars PROVE TypeOK'
  BY ShapePreserved DEF TypedAndShaped
<1>1. ASSUME NEW w \in Worker, WorkerNext(w) PROVE TypeOK'
  <2> USE DEF diskVars, historyVars
  <2>0. Shape(w) /\ worker[w] \in Request
    BY DEF Shaped, TypeOK
  <2>1. ASSUME NEW rows \in SUBSET Row, BeginStore(w, rows) PROVE TypeOK'
    BY <2>1, StoreBegun DEF BeginStore, TypeOK
  <2>2. ASSUME NEW rows \in SUBSET Row, BeginDelete(w, rows) PROVE TypeOK'
    BY <2>2, DeleteBegun DEF BeginDelete, TypeOK
  <2>3. ASSUME NEW forced \in BOOLEAN, BeginInfo(w, forced) PROVE TypeOK'
    <3>1. cache' \in [valid : BOOLEAN, rows : SUBSET Row] /\ overtaken' \in BOOLEAN
      <4>1. CASE InvalidateInfoCache
        <5>1. cache' \in [valid : BOOLEAN, rows : SUBSET Row]
          BY <4>1 DEF InvalidateInfoCache, NoCache
        <5>2. overtaken' \in BOOLEAN
          BY <4>1, Zenon DEF InvalidateInfoCache
        <5> QED
          BY <5>1, <5>2
      <4>2. CASE UNCHANGED <<cache, overtaken>>
        BY <4>2 DEF TypeOK
      <4> QED
        BY <2>3, <4>1, <4>2 DEF BeginInfo
    <3>2. worker' \in [Worker -> Request]
      BY <2>3, InfoBegun
    <3> QED
      BY <2>3, <3>1, <3>2 DEF BeginInfo, TypeOK
  <2>4. CASE BeginSearch(w)
    BY <2>4, SearchBegun DEF BeginSearch, TypeOK
  <2>5. ASSUME NEW d \in Day, LookUpIndex(w, d) PROVE TypeOK'
    BY <2>5, LookUpTyped DEF LookUpIndex, TypeOK
  <2>6. CASE OpenIndex(w)
    <3>1. worker[w].day \in Day
      BY <2>0 DEF Request
    <3>2. handles' \in [Day -> Nat]
      BY <2>6, <3>1 DEF OpenIndex, TypeOK
    <3>3. worker' \in [Worker -> Request]
      BY <2>6, OpenTyped
    <3> QED
      BY <2>6, <3>1, <3>2, <3>3 DEF OpenIndex, TypeOK
  <2>7. CASE OpenFails(w) \/ UseFails(w)
    BY <2>7, FailTyped DEF OpenFails, UseFails, TypeOK
  <2>8. CASE StoreDay(w)
    BY <2>8, StoreTyped DEF StoreDay, TypeOK, Request
  <2>9. CASE DeleteDay(w)
    BY <2>9, DeleteTyped DEF DeleteDay, RowsOf, TypeOK
  <2>10. CASE CountDay(w)
    BY <2>10, CountTyped DEF CountDay, TypeOK
  <2>11. CASE SearchOpens(w)
    BY <2>11, OpensTyped DEF SearchOpens, TypeOK
  <2>12. CASE AnswerChange(w)
    <3>1. worker[w].rows \subseteq Row
      BY <2>0 DEF Request
    <3>2. worker[w].op # "store" => worker[w].seen \subseteq Row
      BY <2>0, <2>12 DEF Shape, AnswerChange, WalkEnds
    <3> QED
      BY <2>12, <3>1, <3>2, EndTyped DEF AnswerChange, InvalidateInfoCache, NoCache, TypeOK
  <2>13. CASE FillCache(w)
    <3>1. worker[w].seen \subseteq Row /\ worker[w].skipped \subseteq Day
      BY <2>0, <2>13 DEF Shape, FillCache, WalkEnds, Request
    <3> QED
      BY <2>13, <3>1, EndTyped DEF FillCache, TypeOK
  <2>14. CASE InfoFails(w) \/ AnswerSearch(w)
    BY <2>14, EndTyped DEF InfoFails, AnswerSearch, TypeOK
  <2>15. CASE SearchReads(w)
    BY <2>15, ReadTyped DEF SearchReads, TypeOK
  <2>16. ASSUME NEW days \in SUBSET index, NEW gone \in SUBSET shards, Clear(w, days, gone)
         PROVE  TypeOK'
    <3>1. gone # {} => days = index
      BY <2>16 DEF Clear
    <3> QED
      BY <2>16, <3>1, ClearTyped DEF Clear, CloseAndRemove, RowsOf, TypeOK
  <2> QED
    BY <1>1, <2>1, <2>2, <2>3, <2>4, <2>5, <2>6, <2>7, <2>8, <2>9, <2>10, <2>11, <2>12, <2>13,
       <2>14, <2>15, <2>16 DEF WorkerNext
<1>2. ASSUME NEW days \in SUBSET shards, NEW gone \in SUBSET shards,
             PruneOlderThan(days, gone) PROVE TypeOK'
  <2>1. worker' \in [Worker -> Request]
    BY <1>2, ClosedTyped DEF PruneOlderThan
  <2>2. pruned' \subseteq Row \X Time
    BY <1>2 DEF PruneOlderThan, RowsOf, TypeOK
  <2> QED
    BY <1>2, <2>1, <2>2 DEF PruneOlderThan, CloseAndRemove, RowsOf, TypeOK
<1>3. ASSUME NEW opened \in SUBSET shards, Restart(opened) PROVE TypeOK'
  <2>1. worker' \in [Worker -> Request] /\ handles' \in [Day -> Nat]
    BY <1>3, IdleTyped DEF Restart
  <2>2. restarts' \in 0 .. MaxRestarts
    BY <1>3, MaxRestartsAssumption DEF Restart, TypeOK
  <2>3. cache' \in [valid : BOOLEAN, rows : SUBSET Row] /\ overtaken' \in BOOLEAN
    BY <1>3 DEF Restart, NoCache
  <2> QED
    BY <1>3, <2>1, <2>2, <2>3 DEF Restart, diskVars, TypeOK
<1>4. CASE Tick
  BY <1>4, MaxTimeAssumption DEF Tick, Time, diskVars, memoryVars, historyVars, TypeOK
<1>5. CASE UNCHANGED vars
  BY <1>5 DEF vars, diskVars, memoryVars, historyVars, TypeOK
<1> QED
  BY <1>1, <1>2, <1>3, <1>4, <1>5 DEF Next

(* A shard is opened once at a time and the map knows of it.               *)
LEMMA HandlesPreserved == TypeOK /\ OneHandlePerShard /\ [Next]_vars => OneHandlePerShard'
<1> SUFFICES ASSUME TypeOK, OneHandlePerShard, [Next]_vars PROVE OneHandlePerShard'
  OBVIOUS
<1>1. ASSUME NEW w \in Worker, WorkerNext(w) PROVE OneHandlePerShard'
  <2>1. CASE OpenIndex(w)
    BY <2>1 DEF OpenIndex, OneHandlePerShard, TypeOK
  <2>2. ASSUME NEW days \in SUBSET index, NEW gone \in SUBSET shards, Clear(w, days, gone)
         PROVE  OneHandlePerShard'
    BY <2>2 DEF Clear, CloseAndRemove, OneHandlePerShard, TypeOK
  <2>3. CASE UNCHANGED <<index, handles>>
    BY <2>3 DEF OneHandlePerShard
  <2> QED
    BY <1>1, <2>1, <2>2, <2>3
    DEF WorkerNext, BeginStore, BeginDelete, BeginInfo, BeginSearch, LookUpIndex, OpenFails,
        UseFails, StoreDay, DeleteDay, CountDay, SearchOpens, AnswerChange, FillCache,
        InfoFails, SearchReads, AnswerSearch
<1>2. ASSUME NEW days \in SUBSET shards, NEW gone \in SUBSET shards,
             PruneOlderThan(days, gone) PROVE OneHandlePerShard'
  BY <1>2 DEF PruneOlderThan, CloseAndRemove, OneHandlePerShard, TypeOK
<1>3. ASSUME NEW opened \in SUBSET shards, Restart(opened) PROVE OneHandlePerShard'
  BY <1>3 DEF Restart, OneHandlePerShard, TypeOK
<1>4. CASE Tick \/ UNCHANGED vars
  BY <1>4 DEF Tick, vars, memoryVars, OneHandlePerShard
<1> QED
  BY <1>1, <1>2, <1>3, <1>4 DEF Next

-----------------------------------------------------------------------------
(* What a step does to the store and to a request.                         *)
Kept == docs \union removed

(* A request that another step leaves where it is; its index may be closed. *)
Same(v) ==
    /\ worker'[v].op = worker[v].op /\ worker'[v].pc = worker[v].pc
    /\ worker'[v].day = worker[v].day /\ worker'[v].todo = worker[v].todo
    /\ worker'[v].rows = worker[v].rows /\ worker'[v].seen = worker[v].seen
    /\ worker'[v].skipped = worker[v].skipped

(* A step is one of the request's own, a restart, or leaves it alone.      *)
LEMMA Steps ==
    ASSUME TypeOK, [Next]_vars, NEW v \in Worker
    PROVE  WorkerNext(v) \/ worker'[v] = Idle \/ Same(v)
<1>1. ASSUME NEW w \in Worker, WorkerNext(w), w # v PROVE Same(v)
  <2>1. ASSUME NEW rows \in SUBSET Row, BeginStore(w, rows) PROVE Same(v)
    BY <1>1, <2>1, StoreBegun DEF Same
  <2>2. ASSUME NEW rows \in SUBSET Row, BeginDelete(w, rows) PROVE Same(v)
    BY <1>1, <2>2, DeleteBegun DEF Same
  <2>3. ASSUME NEW forced \in BOOLEAN, BeginInfo(w, forced) PROVE Same(v)
    BY <1>1, <2>3, InfoBegun DEF Same
  <2>4. CASE BeginSearch(w)
    BY <1>1, <2>4, SearchBegun DEF Same
  <2>5. ASSUME NEW d \in Day, LookUpIndex(w, d) PROVE Same(v)
    BY <1>1, <2>5, LookUpTyped DEF Same
  <2>6. CASE OpenIndex(w)
    BY <1>1, <2>6, OpenTyped DEF Same
  <2>7. CASE OpenFails(w) \/ UseFails(w)
    BY <1>1, <2>7, FailTyped DEF OpenFails, UseFails, Same
  <2>8. CASE StoreDay(w)
    BY <1>1, <2>8, StoreTyped DEF Same
  <2>9. CASE DeleteDay(w)
    BY <1>1, <2>9, DeleteTyped DEF Same
  <2>10. CASE CountDay(w)
    BY <1>1, <2>10, CountTyped DEF Same
  <2>11. CASE SearchOpens(w)
    BY <1>1, <2>11, OpensTyped DEF Same
  <2>12. CASE AnswerChange(w) \/ FillCache(w) \/ InfoFails(w) \/ AnswerSearch(w)
    BY <1>1, <2>12, EndTyped DEF AnswerChange, FillCache, InfoFails, AnswerSearch, Same
  <2>13. CASE SearchReads(w)
    BY <1>1, <2>13, ReadTyped DEF Same
  <2>14. ASSUME NEW days \in SUBSET index, NEW gone \in SUBSET shards, Clear(w, days, gone)
         PROVE  Same(v)
    BY <1>1, <2>14, ClearTyped, ClosedTyped DEF Same
  <2> QED
    BY <1>1, <2>1, <2>2, <2>3, <2>4, <2>5, <2>6, <2>7, <2>8, <2>9, <2>10, <2>11, <2>12, <2>13,
       <2>14 DEF WorkerNext
<1>2. ASSUME NEW days \in SUBSET shards, NEW gone \in SUBSET shards,
             PruneOlderThan(days, gone) PROVE Same(v)
  BY <1>2, ClosedTyped DEF PruneOlderThan, Same
<1>3. ASSUME NEW opened \in SUBSET shards, Restart(opened) PROVE worker'[v] = Idle
  BY <1>3 DEF Restart
<1>4. CASE Tick \/ UNCHANGED vars
  BY <1>4 DEF Tick, vars, memoryVars, Same
<1> QED
  BY <1>1, <1>2, <1>3, <1>4 DEF Next

(* A request's own step ends it or is one of its operation.                *)
Moved(w) ==
    \/ worker'[w] = Idle
    \/ \E d \in Day : LookUpIndex(w, d)
    \/ OpenIndex(w)
    \/ /\ worker'[w].op = "store"
       /\ (\E rows \in SUBSET Row : BeginStore(w, rows)) \/ StoreDay(w)
    \/ /\ worker'[w].op = "delete"
       /\ (\E rows \in SUBSET Row : BeginDelete(w, rows)) \/ DeleteDay(w)
    \/ /\ worker'[w].op = "clear" /\ worker'[w].seen = docs
       /\ \E days \in SUBSET index : Clear(w, days, shards)
    \/ /\ worker'[w].op = "search"
       /\ BeginSearch(w) \/ SearchOpens(w) \/ SearchReads(w)
    \/ /\ worker'[w].op = "info"
       /\ \/ \E forced \in BOOLEAN : BeginInfo(w, forced)
          \/ CountDay(w) \/ OpenFails(w) \/ UseFails(w)

LEMMA Moves == ASSUME TypeOK, NEW w \in Worker, WorkerNext(w) PROVE Moved(w)
<1> USE DEF Moved
<1>1. ASSUME NEW rows \in SUBSET Row, BeginStore(w, rows) PROVE Moved(w)
  BY <1>1, StoreBegun
<1>2. ASSUME NEW rows \in SUBSET Row, BeginDelete(w, rows) PROVE Moved(w)
  BY <1>2, DeleteBegun
<1>3. ASSUME NEW forced \in BOOLEAN, BeginInfo(w, forced) PROVE Moved(w)
  BY <1>3, InfoBegun
<1>4. CASE BeginSearch(w)
  BY <1>4, SearchBegun
<1>5. CASE OpenFails(w) \/ UseFails(w)
  <2>1. Fail(w)
    BY <1>5 DEF OpenFails, UseFails
  <2> QED
    BY <1>5, <2>1, FailTyped
<1>6. CASE StoreDay(w)
  BY <1>6, StoreTyped
<1>7. CASE DeleteDay(w)
  BY <1>7, DeleteTyped
<1>8. CASE CountDay(w)
  BY <1>8, CountTyped
<1>9. CASE SearchOpens(w)
  BY <1>9, OpensTyped
<1>10. CASE AnswerChange(w) \/ FillCache(w) \/ InfoFails(w) \/ AnswerSearch(w)
  BY <1>10, EndTyped DEF AnswerChange, FillCache, InfoFails, AnswerSearch
<1>11. CASE SearchReads(w)
  BY <1>11, ReadTyped
<1>12. ASSUME NEW days \in SUBSET index, NEW gone \in SUBSET shards, Clear(w, days, gone)
       PROVE  Moved(w)
  BY <1>12, ClearTyped
<1> QED
  BY <1>1, <1>2, <1>3, <1>4, <1>5, <1>6, <1>7, <1>8, <1>9, <1>10, <1>11, <1>12 DEF WorkerNext

(* Nothing that was sent, stored or removed is forgotten, and only a Store *)
(* call adds to the store; timestamps are fixed.                           *)
Growing ==
    /\ time' = time /\ sent \subseteq sent' /\ acked \subseteq acked'
    /\ removed \subseteq removed' /\ Kept \subseteq Kept'
    /\ halfRemoved \subseteq halfRemoved'
    /\ Kept' = Kept \/ \E w \in Worker : StoreDay(w)

LEMMA Grows == ASSUME TypeOK, [Next]_vars PROVE Growing
<1> USE DEF diskVars, historyVars, memoryVars, Kept, Growing
<1>1. ASSUME NEW w \in Worker, WorkerNext(w) PROVE Growing
  <2>1. ASSUME NEW rows \in SUBSET Row, BeginStore(w, rows) PROVE Growing
    BY <2>1 DEF BeginStore
  <2>2. CASE StoreDay(w)
    BY <2>2 DEF StoreDay
  <2>3. CASE DeleteDay(w)
    BY <2>3 DEF DeleteDay, RowsOf
  <2>4. CASE AnswerChange(w)
    BY <2>4 DEF AnswerChange
  <2>5. ASSUME NEW days \in SUBSET index, NEW gone \in SUBSET shards, Clear(w, days, gone)
         PROVE  Growing
    BY <2>5 DEF Clear, CloseAndRemove, RowsOf
  <2>6. CASE UNCHANGED <<time, sent, acked, removed, docs, halfRemoved>>
    BY <2>6
  <2> QED
    BY <1>1, <2>1, <2>2, <2>3, <2>4, <2>5, <2>6
    DEF WorkerNext, BeginDelete, BeginInfo, BeginSearch, LookUpIndex, OpenIndex, OpenFails,
        UseFails, CountDay, SearchOpens, FillCache, InfoFails, SearchReads, AnswerSearch
<1>2. ASSUME NEW days \in SUBSET shards, NEW gone \in SUBSET shards,
             PruneOlderThan(days, gone) PROVE Growing
  BY <1>2 DEF PruneOlderThan, CloseAndRemove, RowsOf
<1>3. CASE (\E opened \in SUBSET shards : Restart(opened)) \/ Tick \/ UNCHANGED vars
  BY <1>3 DEF Restart, Tick, vars
<1> QED
  BY <1>1, <1>2, <1>3 DEF Next

-----------------------------------------------------------------------------
(* AckedIsStored.                                                          *)

(* A Store call's rows are new, and the days behind it hold them.          *)
Storing(w) ==
    worker[w].op = "store" =>
        /\ worker[w].rows \subseteq sent
        /\ \A r \in worker[w].rows : Ahead(w, DayOf(r)) <=> r \notin Kept

(* No row is handed to two calls.                                          *)
Apart ==
    \A v, w \in Worker :
        v # w /\ worker[v].op = "store" /\ worker[w].op = "store" =>
            worker[v].rows \cap worker[w].rows = {}

Books ==
    /\ Kept \subseteq sent
    /\ docs \cap removed = {}
    /\ \A r \in docs : DayOf(r) \in shards
    /\ AckedIsStored
    /\ Apart
    /\ \A w \in Worker : Storing(w)

LEMMA InitBooks == Init => Books
  BY IdleShape DEF Init, Books, Kept, AckedIsStored, Apart, Storing

(* Looking up and opening an index is about the same days and rows.        *)
LEMMA AheadKept ==
    ASSUME TypeOK, NEW w \in Worker, Shape(w),
           (\E d \in Day : LookUpIndex(w, d)) \/ OpenIndex(w)
    PROVE  /\ worker'[w].op = worker[w].op /\ worker'[w].rows = worker[w].rows
           /\ worker'[w].seen = worker[w].seen /\ worker'[w].skipped = worker[w].skipped
           /\ time' = time /\ docs' = docs /\ removed' = removed /\ Kept' = Kept
           /\ \A d \in Day : Ahead(w, d)' <=> Ahead(w, d)
<1>1. ASSUME NEW d \in Day, LookUpIndex(w, d)
      PROVE  /\ worker'[w].op = worker[w].op /\ worker'[w].rows = worker[w].rows
             /\ worker'[w].seen = worker[w].seen /\ worker'[w].skipped = worker[w].skipped
             /\ time' = time /\ docs' = docs /\ removed' = removed /\ Kept' = Kept
             /\ \A e \in Day : Ahead(w, e)' <=> Ahead(w, e)
  <2>1. worker[w].pc = "next" /\ d \in worker[w].todo
        /\ time' = time /\ docs' = docs /\ removed' = removed
    BY <1>1 DEF LookUpIndex, diskVars, historyVars
  <2>2. worker'[w].pc \in {"use", "open"} /\ worker'[w].day = d
        /\ worker'[w].todo = worker[w].todo \ {d}
    BY <1>1, LookUpTyped
  <2> QED
    BY <1>1, <2>1, <2>2, LookUpTyped DEF Ahead, InHand, Kept
<1>2. CASE OpenIndex(w)
  <2>1. worker[w].pc = "open" /\ time' = time /\ docs' = docs /\ removed' = removed
    BY <1>2 DEF OpenIndex, historyVars
  <2> QED
    BY <1>2, <2>1, OpenTyped DEF Ahead, InHand, Kept
<1> QED
  BY <1>1, <1>2

LEMMA StoringPreserved ==
    ASSUME TypeOK, Shaped, Books, [Next]_vars, NEW v \in Worker PROVE Storing(v)'
<1> SUFFICES ASSUME worker'[v].op = "store"
             PROVE  /\ worker'[v].rows \subseteq sent'
                    /\ \A r \in worker'[v].rows : Ahead(v, DayOf(r))' <=> r \notin Kept'
  BY DEF Storing
<1>1. Shape(v) /\ Storing(v) /\ Growing /\ worker[v] \in Request
  BY Grows DEF Shaped, Books, TypeOK
<1>2. \A r \in Row : DayOf(r)' = DayOf(r) /\ DayOf(r) \in Day
  BY <1>1, DayTyped DEF DayOf, Growing
<1>3. worker[v].rows \subseteq Row
  BY <1>1 DEF Request
<1> DEFINE P ==
      /\ worker'[v].rows \subseteq sent'
      /\ \A r \in worker'[v].rows : Ahead(v, DayOf(r))' <=> r \notin Kept'
<1>4. ASSUME NEW rows \in SUBSET Row, BeginStore(v, rows) PROVE P
  <2>1. sent' = sent \union rows /\ rows \cap sent = {} /\ Kept' = Kept
    BY <1>4 DEF BeginStore, diskVars, Kept
  <2>2. worker'[v].rows = rows /\ worker'[v].todo = {DayOf(r) : r \in rows}
    BY <1>4, StoreBegun
  <2> QED
    BY <1>2, <2>1, <2>2 DEF Ahead, Books
<1>5. CASE (\E d \in Day : LookUpIndex(v, d)) \/ OpenIndex(v)
  BY <1>1, <1>2, <1>3, <1>5, AheadKept DEF Storing, Growing
<1>6. CASE StoreDay(v)
  <2>1. /\ worker[v].op = "store" /\ worker[v].pc = "use"
        /\ Kept' = Kept \union {r \in worker[v].rows : DayOf(r) = worker[v].day}
    BY <1>6 DEF StoreDay, Using, Kept, historyVars
  <2>2. worker'[v].rows = worker[v].rows /\ worker'[v].todo = worker[v].todo
        /\ worker'[v].pc = "next"
    BY <1>6, StoreTyped
  <2>3. worker[v].day \notin worker[v].todo
    BY <1>1, <2>1 DEF Shape, InHand
  <2>4. worker[v].rows \subseteq sent
        /\ \A r \in worker[v].rows : Ahead(v, DayOf(r)) <=> r \notin Kept
    BY <1>1, <2>1 DEF Storing
  <2>5. ASSUME NEW r \in worker[v].rows PROVE Ahead(v, DayOf(r))' <=> r \notin Kept'
    BY <1>2, <1>3, <2>1, <2>2, <2>3, <2>4 DEF Ahead, InHand
  <2> QED
    BY <1>1, <2>2, <2>4, <2>5 DEF Growing
<1>7. CASE Same(v) /\ ~WorkerNext(v)
  <2>1. ASSUME NEW w \in Worker, StoreDay(w), NEW r \in worker[v].rows
        PROVE  r \in Kept' <=> r \in Kept
    <3>1. w # v
      BY <1>7, <2>1 DEF WorkerNext
    <3>2. worker[w].op = "store" /\ worker[v].op = "store"
          /\ Kept' = Kept \union {s \in worker[w].rows : DayOf(s) = worker[w].day}
      BY <1>7, <2>1 DEF StoreDay, Using, Kept, historyVars, Same
    <3> QED
      BY <3>1, <3>2 DEF Books, Apart
  <2>2. \A r \in worker[v].rows : r \in Kept' <=> r \in Kept
    BY <1>1, <2>1 DEF Growing
  <2> QED
    BY <1>1, <1>2, <1>3, <1>7, <2>2 DEF Same, Storing, Ahead, InHand, Growing
<1>8. worker'[v] # Idle
  BY IdleShape
<1> QED
  BY <1>4, <1>5, <1>6, <1>7, <1>8, Steps, Moves DEF Moved

LEMMA ApartPreserved == ASSUME TypeOK, Books, [Next]_vars PROVE Apart'
<1> SUFFICES ASSUME NEW v \in Worker, NEW w \in Worker, v # w,
                    worker'[v].op = "store", worker'[w].op = "store"
             PROVE  worker'[v].rows \cap worker'[w].rows = {}
  BY DEF Apart
<1>1. ASSUME NEW u \in Worker, worker'[u].op = "store"
      PROVE  \/ worker[u].op = "store" /\ worker'[u].rows = worker[u].rows
             \/ \E rows \in SUBSET Row : BeginStore(u, rows) /\ worker'[u].rows = rows
  <2>1. worker'[u] # Idle
    BY <1>1, IdleShape
  <2>2. CASE Same(u)
    BY <1>1, <2>2 DEF Same
  <2>3. ASSUME NEW d \in Day, LookUpIndex(u, d)
        PROVE  worker[u].op = "store" /\ worker'[u].rows = worker[u].rows
    BY <1>1, <2>3, LookUpTyped
  <2>4. CASE OpenIndex(u)
    BY <1>1, <2>4, OpenTyped
  <2>5. CASE StoreDay(u)
    BY <2>5, StoreTyped DEF StoreDay, Using
  <2>6. ASSUME NEW rows \in SUBSET Row, BeginStore(u, rows) PROVE worker'[u].rows = rows
    BY <2>6, StoreBegun
  <2> QED
    BY <1>1, <2>1, <2>2, <2>3, <2>4, <2>5, <2>6, Steps, Moves DEF Moved
<1>2. ASSUME NEW u \in Worker, NEW x \in Worker, u # x, NEW rows \in SUBSET Row,
             BeginStore(u, rows), worker'[u].rows = rows, worker'[x].op = "store"
      PROVE  worker'[u].rows \cap worker'[x].rows = {}
  <2>1. worker'[x] = worker[x]
    BY <1>2, StoreBegun
  <2>2. rows \cap sent = {}
    BY <1>2 DEF BeginStore
  <2> QED
    BY <1>2, <2>1, <2>2 DEF Books, Storing
<1> QED
  BY <1>1, <1>2 DEF Books, Apart

(* Removing whole shards moves their rows from the store to the removed.   *)
LEMMA RemovingKeeps ==
    ASSUME TypeOK, Books, NEW days, NEW gone, CloseAndRemove(days, gone), time' = time
    PROVE  /\ docs' = docs \ RowsOf(gone) /\ removed' = removed \union RowsOf(gone)
           /\ RowsOf(gone) \subseteq docs /\ Kept' = Kept
           /\ docs' \cap removed' = {}
           /\ \A r \in docs' : DayOf(r)' \in shards'
<1>1. /\ docs' = docs \ RowsOf(gone) /\ removed' = removed \union RowsOf(gone)
      /\ shards' = shards \ gone
  BY DEF CloseAndRemove
<1>2. RowsOf(gone) = {r \in docs : DayOf(r) \in gone} /\ \A r : DayOf(r)' = DayOf(r)
  BY DEF RowsOf, DayOf
<1> QED
  BY <1>1, <1>2 DEF Kept, Books

LEMMA BooksPreserved == TypeOK /\ Shaped /\ Books /\ [Next]_vars => Books'
<1> SUFFICES ASSUME TypeOK, Shaped, Books, [Next]_vars PROVE Books'
  OBVIOUS
<1> DEFINE P ==
      /\ Kept' \subseteq sent'
      /\ docs' \cap removed' = {}
      /\ \A r \in docs' : DayOf(r)' \in shards'
      /\ acked' \subseteq Kept'
<1>1. Growing /\ \A r : DayOf(r)' = DayOf(r)
  BY Grows DEF Growing, DayOf
<1>2. /\ Kept \subseteq sent /\ docs \cap removed = {} /\ acked \subseteq Kept
      /\ \A r \in docs : DayOf(r) \in shards
  BY DEF Books, AckedIsStored, Kept
<1>3. ASSUME NEW w \in Worker, WorkerNext(w) PROVE P
  <2>1. ASSUME NEW rows \in SUBSET Row, BeginStore(w, rows) PROVE P
    BY <1>1, <1>2, <2>1 DEF BeginStore, diskVars, Kept
  <2>2. CASE OpenIndex(w)
    BY <1>1, <1>2, <2>2 DEF OpenIndex, historyVars, Kept
  <2>3. CASE StoreDay(w)
    <3>1. /\ worker[w].op = "store" /\ worker[w].pc = "use" /\ worker[w].handle = "open"
          /\ docs' = docs \union {r \in worker[w].rows : DayOf(r) = worker[w].day}
          /\ removed' = removed /\ sent' = sent /\ acked' = acked /\ shards' = shards
      BY <2>3 DEF StoreDay, Using, historyVars
    <3>2. worker[w].day \in shards
      BY <3>1 DEF Shaped, Shape, TypeOK
    <3>3. /\ worker[w].rows \subseteq sent
          /\ \A r \in worker[w].rows : DayOf(r) = worker[w].day => r \notin Kept
      BY <3>1 DEF Books, Storing, Ahead, InHand
    <3> QED
      BY <1>1, <1>2, <3>1, <3>2, <3>3 DEF Kept
  <2>4. CASE DeleteDay(w)
    BY <1>1, <1>2, <2>4 DEF DeleteDay, RowsOf, Kept
  <2>5. CASE AnswerChange(w)
    <3>1. docs' = docs /\ removed' = removed /\ sent' = sent /\ shards' = shards
      BY <2>5 DEF AnswerChange, diskVars
    <3>2. ASSUME worker[w].op = "store" PROVE worker[w].rows \subseteq Kept
      <4>1. worker[w].todo = {} /\ worker[w].pc = "next"
        BY <2>5 DEF AnswerChange, WalkEnds
      <4> QED
        BY <3>2, <4>1 DEF Books, Storing, Ahead, InHand
    <3>3. acked' \subseteq Kept
      BY <1>2, <2>5, <3>2 DEF AnswerChange
    <3> QED
      BY <1>1, <1>2, <3>1, <3>3 DEF Kept
  <2>6. ASSUME NEW days \in SUBSET index, NEW gone \in SUBSET shards, Clear(w, days, gone)
         PROVE  P
    <3>1. CloseAndRemove(days, gone) /\ time' = time /\ sent' = sent /\ acked' = acked
      BY <2>6 DEF Clear
    <3> QED
      BY <1>2, <3>1, RemovingKeeps
  <2>7. CASE UNCHANGED <<sent, acked, removed, docs, shards>>
    BY <1>1, <1>2, <2>7 DEF Kept
  <2> QED
    BY <1>3, <2>1, <2>2, <2>3, <2>4, <2>5, <2>6, <2>7
    DEF WorkerNext, BeginDelete, BeginInfo, BeginSearch, LookUpIndex, OpenFails,
        UseFails, CountDay, SearchOpens, FillCache, InfoFails, SearchReads, AnswerSearch,
        diskVars, historyVars
<1>4. ASSUME NEW days \in SUBSET shards, NEW gone \in SUBSET shards,
             PruneOlderThan(days, gone) PROVE P
  <2>1. CloseAndRemove(days, gone) /\ time' = time /\ sent' = sent /\ acked' = acked
    BY <1>4 DEF PruneOlderThan
  <2> QED
    BY <1>2, <2>1, RemovingKeeps
<1>5. ASSUME UNCHANGED <<sent, acked, removed, docs, shards>> PROVE P
  BY <1>1, <1>2, <1>5 DEF Kept
<1>6. ASSUME (\E opened \in SUBSET shards : Restart(opened)) \/ Tick \/ UNCHANGED vars
      PROVE  P
  BY <1>5, <1>6 DEF Restart, Tick, vars, diskVars, historyVars
<1> HIDE DEF P
<1>7. P
  BY <1>3, <1>4, <1>6 DEF Next
<1> USE DEF P
<1> QED
  BY <1>7, ApartPreserved, StoringPreserved DEF Books, AckedIsStored, Kept

-----------------------------------------------------------------------------
(* SearchFindsAcked.                                                       *)

(* What a search still has to find, and the days it counts on being open.  *)
Wanted(w) == {r \in worker[w].rows \ removed : DayOf(r) \notin halfRemoved}
Opened(w, d) == d \in worker[w].seen \/ (worker[w].pc = "use" /\ worker[w].day = d)

Searching(w) ==
    worker[w].op = "search" =>
        /\ worker[w].rows \subseteq Kept
        /\ worker[w].pc = "answered" => Wanted(w) \subseteq worker[w].seen
        /\ worker[w].pc # "answered" => \A r \in Wanted(w) :
              /\ Ahead(w, DayOf(r)) \/ DayOf(r) \in worker[w].seen
              /\ Opened(w, DayOf(r)) => DayOf(r) \in index

SearchesFind == \A w \in Worker : Searching(w)

LEMMA InitSearches == Init => SearchesFind
  BY IdleShape DEF Init, SearchesFind, Searching

(* The index of a day is closed by a removal of the day's rows or of half  *)
(* of the day, or by a restart.                                            *)
LEMMA IndexStays ==
    ASSUME TypeOK, [Next]_vars, NEW d \in index,
           ~ \E opened \in SUBSET shards : Restart(opened)
    PROVE  d \in index' \/ d \in halfRemoved' \/ RowsOf({d}) \subseteq removed'
<1>1. ASSUME NEW days, NEW gone, CloseAndRemove(days, gone)
      PROVE  d \in index' \/ d \in halfRemoved' \/ RowsOf({d}) \subseteq removed'
  BY <1>1 DEF CloseAndRemove, RowsOf
<1>2. ASSUME NEW w \in Worker, WorkerNext(w), index' # index
      PROVE  d \in index' \/ \E days, gone : CloseAndRemove(days, gone)
  BY <1>2 DEF WorkerNext, BeginStore, BeginDelete, BeginInfo, BeginSearch, LookUpIndex,
              OpenIndex, OpenFails, UseFails, StoreDay, DeleteDay, CountDay, SearchOpens,
              AnswerChange, FillCache, InfoFails, SearchReads, AnswerSearch, Clear
<1>3. CASE (\E days, gone \in SUBSET shards : PruneOlderThan(days, gone))
  BY <1>1, <1>3 DEF PruneOlderThan
<1>4. CASE Tick \/ UNCHANGED vars
  BY <1>4 DEF Tick, vars, memoryVars
<1> QED
  BY <1>1, <1>2, <1>3, <1>4 DEF Next

LEMMA SearchingPreserved ==
    ASSUME TypeOK, Shaped, Books, SearchesFind, [Next]_vars, NEW v \in Worker
    PROVE  Searching(v)'
<1> SUFFICES ASSUME worker'[v].op = "search" PROVE Searching(v)'
  BY DEF Searching
<1>1. /\ Shape(v) /\ Searching(v) /\ worker[v] \in Request
      /\ Growing /\ \A r : DayOf(r)' = DayOf(r)
  BY Grows DEF Shaped, SearchesFind, TypeOK, Growing, DayOf
<1>2. worker[v].rows \subseteq Row /\ \A r \in Row : DayOf(r) \in Day
  BY <1>1, DayTyped DEF Request
<1>3. CASE BeginSearch(v)
  <2>1. /\ worker'[v].pc = "next" /\ worker'[v].seen = {}
        /\ worker'[v].rows = acked \ removed /\ worker'[v].todo = shards
    BY <1>3, SearchBegun
  <2>2. \A r \in acked \ removed : r \in docs /\ DayOf(r) \in shards
    BY DEF Books, AckedIsStored
  <2>3. docs \subseteq Kept /\ Kept \subseteq Kept'
    BY <1>1 DEF Growing, Kept
  <2> QED
    BY <1>1, <2>1, <2>2, <2>3 DEF Searching, Wanted, Ahead, Opened, InHand
<1>4. CASE (\E d \in Day : LookUpIndex(v, d)) \/ OpenIndex(v)
  <2>1. /\ worker[v].op = "search" /\ worker[v].rows = worker'[v].rows
        /\ worker'[v].seen = worker[v].seen /\ worker[v].pc # "answered"
        /\ \A d \in Day : Ahead(v, d)' <=> Ahead(v, d)
    BY <1>1, <1>4, AheadKept DEF LookUpIndex, OpenIndex
  <2>2. worker'[v].pc # "answered"
    BY <1>4, LookUpTyped, OpenTyped
  <2>3. Wanted(v)' \subseteq Wanted(v)
    BY <1>1, <2>1 DEF Wanted, Growing
  <2>4. index \subseteq index' /\ (worker'[v].pc = "use" => worker'[v].day \in index')
    BY <1>4, LookUpTyped, OpenTyped DEF LookUpIndex, OpenIndex
  <2> QED
    BY <1>1, <1>2, <2>1, <2>2, <2>3, <2>4 DEF Searching, Wanted, Opened, Growing
<1>5. CASE SearchOpens(v)
  <2>1. /\ worker[v].op = "search" /\ worker[v].pc = "use" /\ worker'[v].pc = "next"
        /\ worker'[v].rows = worker[v].rows /\ worker'[v].todo = worker[v].todo
        /\ worker'[v].seen = worker[v].seen \union {worker[v].day}
        /\ index' = index
    BY <1>5, OpensTyped DEF SearchOpens
  <2>2. Wanted(v)' \subseteq Wanted(v)
    BY <1>1, <2>1 DEF Wanted, Growing
  <2> QED
    BY <1>1, <2>1, <2>2 DEF Searching, Ahead, InHand, Opened, Growing
<1>6. CASE SearchReads(v)
  <2>1. /\ worker[v].op = "search" /\ worker[v].pc = "next" /\ worker[v].todo = {}
        /\ worker'[v].pc = "answered" /\ worker'[v].rows = worker[v].rows
        /\ worker'[v].seen = RowsOf(index \cap worker[v].seen)
    BY <1>6, ReadTyped DEF SearchReads, WalkEnds
  <2>2. Wanted(v)' \subseteq Wanted(v) /\ Wanted(v) \subseteq docs
    BY <1>1, <2>1 DEF Wanted, Growing, Searching, Kept
  <2>3. \A r \in Wanted(v) : DayOf(r) \in worker[v].seen /\ DayOf(r) \in index
    BY <1>1, <2>1 DEF Searching, Ahead, InHand, Opened
  <2> QED
    BY <1>1, <2>1, <2>2, <2>3 DEF Searching, RowsOf, Growing
<1>7. CASE Same(v)
  <2>1. ~ \E opened \in SUBSET shards : Restart(opened)
    BY <1>7, IdleShape DEF Restart, Same
  <2>2. Wanted(v)' \subseteq Wanted(v) /\ Wanted(v) \subseteq docs
    BY <1>1, <1>7 DEF Wanted, Growing, Searching, Same, Kept
  <2>3. ASSUME NEW r \in Wanted(v)', DayOf(r) \in index PROVE DayOf(r) \in index'
    <3>1. r \in docs /\ r \notin removed' /\ DayOf(r) \notin halfRemoved'
      BY <1>1, <2>2, <2>3 DEF Wanted
    <3> QED
      BY <2>1, <2>3, <3>1, IndexStays DEF RowsOf
  <2>4. \A d : (Ahead(v, d)' <=> Ahead(v, d)) /\ (Opened(v, d)' <=> Opened(v, d))
    BY <1>7 DEF Same, Ahead, InHand, Opened
  <2>5. /\ worker[v].op = "search" /\ worker'[v].rows = worker[v].rows
        /\ worker'[v].pc = worker[v].pc /\ worker'[v].seen = worker[v].seen
    BY <1>7 DEF Same
  <2> QED
    BY <1>1, <2>2, <2>3, <2>4, <2>5 DEF Searching, Growing
<1>8. worker'[v] # Idle
  BY IdleShape
<1> QED
  BY <1>3, <1>4, <1>5, <1>6, <1>7, <1>8, Steps, Moves DEF Moved

-----------------------------------------------------------------------------
(* CacheIsFresh.                                                           *)

(* A deletion is answered for what is gone.                                *)
Dropping(w) == worker[w].op \in {"delete", "clear"} => worker[w].seen \subseteq removed

(* A count that no answered change overtook has every row or will have it. *)
Counting(w) ==
    worker[w].op = "info" /\ ~overtaken =>
        /\ \A r \in acked \ removed :
              Ahead(w, DayOf(r)) \/ DayOf(r) \in worker[w].skipped \/ r \in worker[w].seen
        /\ worker[w].seen \cap dropped = {}

Counts ==
    /\ dropped \subseteq removed
    /\ CacheIsFresh
    /\ \A w \in Worker : Dropping(w) /\ Counting(w)

LEMMA InitCounts == Init => Counts
  BY IdleShape DEF Init, Counts, CacheIsFresh, NoCache, Dropping, Counting

LEMMA DroppingPreserved ==
    ASSUME TypeOK, Shaped, Books, Counts, [Next]_vars, NEW v \in Worker
    PROVE  Dropping(v)'
<1> SUFFICES ASSUME worker'[v].op \in {"delete", "clear"}
             PROVE  worker'[v].seen \subseteq removed'
  BY DEF Dropping
<1>1. Dropping(v) /\ Growing
  BY Grows DEF Counts
<1>2. ASSUME NEW rows \in SUBSET Row, BeginDelete(v, rows)
      PROVE  worker'[v].seen \subseteq removed'
  BY <1>2, DeleteBegun
<1>3. CASE (\E d \in Day : LookUpIndex(v, d)) \/ OpenIndex(v)
  <2>1. worker'[v].op = worker[v].op /\ worker'[v].seen = worker[v].seen
    BY <1>3, LookUpTyped, OpenTyped
  <2> QED
    BY <1>1, <2>1 DEF Dropping, Growing
<1>4. CASE DeleteDay(v)
  <2>1. /\ worker[v].op = "delete"
        /\ worker'[v].seen = worker[v].seen \union (RowsOf({worker[v].day}) \cap worker[v].rows)
    BY <1>4, DeleteTyped
  <2>2. removed' = removed \union (RowsOf({worker[v].day}) \cap worker[v].rows)
    BY <1>4 DEF DeleteDay
  <2> QED
    BY <1>1, <2>1, <2>2 DEF Dropping
<1>5. ASSUME NEW days \in SUBSET index, Clear(v, days, shards), worker'[v].seen = docs
      PROVE  worker'[v].seen \subseteq removed'
  <2>1. removed' = removed \union RowsOf(shards)
    BY <1>5 DEF Clear, CloseAndRemove
  <2> QED
    BY <1>5, <2>1 DEF Books, RowsOf
<1>6. CASE Same(v)
  BY <1>1, <1>6 DEF Same, Dropping, Growing
<1>7. worker'[v] # Idle
  BY IdleShape
<1> QED
  BY <1>2, <1>3, <1>4, <1>5, <1>6, <1>7, Steps, Moves DEF Moved

(* No change is answered beside a count that is not overtaken.             *)
LEMMA NotOvertaken ==
    ASSUME TypeOK, [Next]_vars, NEW v \in Worker, worker[v].op = "info", ~overtaken',
           worker'[v] # Idle
    PROVE  ~overtaken /\ acked' = acked /\ dropped' = dropped
<1>1. ~InvalidateInfoCache
  <2>1. SUFFICES ASSUME overtaken' = \E w \in Worker : Filling(w) PROVE FALSE
    BY DEF InvalidateInfoCache
  <2>2. Filling(v)
    BY DEF Filling
  <2> QED
    BY <2>1, <2>2, Zenon
<1>2. CASE UNCHANGED <<overtaken, acked, dropped>>
  BY <1>2
<1>3. ASSUME NEW w \in Worker, WorkerNext(w) PROVE UNCHANGED <<overtaken, acked, dropped>>
  BY <1>1, <1>3
  DEF WorkerNext, BeginStore, BeginDelete, BeginInfo, BeginSearch, LookUpIndex,
      OpenIndex, OpenFails, UseFails, StoreDay, DeleteDay, CountDay, SearchOpens,
      AnswerChange, FillCache, InfoFails, SearchReads, AnswerSearch, Clear, historyVars
<1>4. ASSUME NEW opened \in SUBSET shards PROVE ~Restart(opened)
  BY DEF Restart
<1>5. ASSUME NEW days \in SUBSET shards, NEW gone \in SUBSET shards,
             PruneOlderThan(days, gone) PROVE UNCHANGED <<overtaken, acked, dropped>>
  BY <1>5 DEF PruneOlderThan
<1>6. CASE Tick \/ UNCHANGED vars
  BY <1>2, <1>6 DEF Tick, vars, historyVars
<1> QED
  BY <1>2, <1>3, <1>4, <1>5, <1>6 DEF Next

LEMMA CountingPreserved ==
    ASSUME TypeOK, Shaped, Books, Counts, [Next]_vars, NEW v \in Worker
    PROVE  Counting(v)'
<1> SUFFICES ASSUME worker'[v].op = "info", ~overtaken' PROVE Counting(v)'
  BY DEF Counting
<1>1. /\ Shape(v) /\ Counting(v) /\ worker[v] \in Request
      /\ Growing /\ \A r : DayOf(r)' = DayOf(r)
      /\ worker'[v] # Idle
  BY Grows, IdleShape DEF Shaped, Counts, TypeOK, Growing, DayOf
<1>2. acked \subseteq Row /\ \A r \in Row : DayOf(r) \in Day
  BY DayTyped DEF TypeOK
<1>3. acked \ removed \subseteq docs /\ docs \cap dropped = {}
      /\ \A r \in docs : DayOf(r) \in shards
  BY DEF Books, AckedIsStored, Counts
<1>4. ASSUME NEW forced \in BOOLEAN, BeginInfo(v, forced) PROVE Counting(v)'
  <2>1. worker'[v].seen = {} /\ worker'[v].todo = shards
    BY <1>4, InfoBegun
  <2>2. acked' = acked /\ removed' = removed
    BY <1>4 DEF BeginInfo
  <2> QED
    BY <1>1, <1>3, <2>1, <2>2 DEF Counting, Ahead
<1>5. ASSUME worker[v].op = "info"
      PROVE  /\ acked' = acked /\ dropped' = dropped
             /\ worker[v].seen \cap dropped = {}
             /\ \A r \in acked' \ removed' :
                   \/ Ahead(v, DayOf(r)) \/ DayOf(r) \in worker[v].skipped
                   \/ r \in worker[v].seen
  BY <1>1, <1>5, NotOvertaken DEF Counting, Growing
<1>6. CASE (\E d \in Day : LookUpIndex(v, d)) \/ OpenIndex(v)
  BY <1>1, <1>2, <1>5, <1>6, AheadKept DEF Counting
<1>7. CASE CountDay(v)
  <2>1. /\ worker[v].op = "info" /\ worker[v].pc = "use" /\ worker'[v].todo = worker[v].todo
        /\ worker'[v].skipped = worker[v].skipped
        /\ worker'[v].seen = worker[v].seen \union RowsOf({worker[v].day})
    BY <1>7, CountTyped
  <2> QED
    BY <1>1, <1>3, <1>5, <2>1 DEF Counting, Ahead, InHand, RowsOf, Growing
<1>8. CASE OpenFails(v) \/ UseFails(v)
  <2>1. Fail(v)
    BY <1>8 DEF OpenFails, UseFails
  <2>2. /\ worker[v].op = "info" /\ worker'[v].todo = worker[v].todo
        /\ worker'[v].seen = worker[v].seen
        /\ worker'[v].skipped = worker[v].skipped \union {worker[v].day}
    BY <1>1, <2>1, FailTyped
  <2> QED
    BY <1>1, <1>5, <2>2 DEF Counting, Ahead, InHand
<1>9. CASE Same(v)
  <2>1. worker[v].op = "info"
    BY <1>9 DEF Same
  <2> QED
    BY <1>1, <1>5, <1>9, <2>1 DEF Counting, Same, Ahead, InHand
<1> QED
  BY <1>1, <1>4, <1>6, <1>7, <1>8, <1>9, Steps, Moves DEF Moved

LEMMA CountsPreserved == TypeOK /\ Shaped /\ Books /\ Counts /\ [Next]_vars => Counts'
<1> SUFFICES ASSUME TypeOK, Shaped, Books, Counts, [Next]_vars
             PROVE  dropped' \subseteq removed' /\ CacheIsFresh'
  BY DroppingPreserved, CountingPreserved DEF Counts
<1> DEFINE P == dropped' \subseteq removed' /\ CacheIsFresh'
<1>1. Growing /\ \A r : DayOf(r)' = DayOf(r)
  BY Grows DEF Growing, DayOf
<1>2. dropped \subseteq removed /\ CacheIsFresh
  BY DEF Counts
<1>3. CASE UNCHANGED <<cache, overtaken, acked, dropped, uncounted>>
  BY <1>1, <1>2, <1>3 DEF CacheIsFresh, Growing
<1>4. CASE cache' = NoCache /\ dropped' = dropped
  BY <1>1, <1>2, <1>4 DEF CacheIsFresh, NoCache, Growing
<1>5. ASSUME NEW w \in Worker, WorkerNext(w) PROVE P
  <2>1. CASE AnswerChange(w)
    <3>1. cache' = NoCache /\ removed' = removed
      BY <2>1 DEF AnswerChange, InvalidateInfoCache
    <3>2. worker[w].op # "store" => worker[w].seen \subseteq removed
      BY <2>1 DEF AnswerChange, WalkEnds, Counts, Dropping
    <3> QED
      BY <1>2, <2>1, <3>1, <3>2 DEF AnswerChange, CacheIsFresh, NoCache
  <2>2. CASE FillCache(w)
    <3>1. /\ worker[w].op = "info" /\ worker[w].pc = "next" /\ worker[w].todo = {}
          /\ cache' = [valid |-> TRUE, rows |-> worker[w].seen]
          /\ uncounted' = worker[w].skipped /\ overtaken' = overtaken
          /\ acked' = acked /\ dropped' = dropped /\ removed' = removed
      BY <2>2 DEF FillCache, WalkEnds
    <3>2. Counting(w)
      BY DEF Counts
    <3> QED
      BY <1>1, <1>2, <3>1, <3>2 DEF CacheIsFresh, Counting, Ahead, InHand
  <2>3. ASSUME NEW forced \in BOOLEAN, BeginInfo(w, forced) PROVE P
    BY <1>3, <1>4, <2>3 DEF BeginInfo, InvalidateInfoCache
  <2> QED
    BY <1>3, <1>5, <2>1, <2>2, <2>3
    DEF WorkerNext, BeginStore, BeginDelete, BeginSearch, LookUpIndex,
        OpenIndex, OpenFails, UseFails, StoreDay, DeleteDay, CountDay, SearchOpens,
        InfoFails, SearchReads, AnswerSearch, Clear, historyVars
<1>6. ASSUME NEW days \in SUBSET shards, NEW gone \in SUBSET shards,
             PruneOlderThan(days, gone) PROVE P
  BY <1>3, <1>6 DEF PruneOlderThan
<1>7. CASE (\E opened \in SUBSET shards : Restart(opened))
  BY <1>4, <1>7 DEF Restart
<1>8. CASE Tick \/ UNCHANGED vars
  BY <1>3, <1>8 DEF Tick, vars, memoryVars, historyVars
<1> QED
  BY <1>5, <1>6, <1>7, <1>8 DEF Next

-----------------------------------------------------------------------------
(* PrunedIsOld.                                                            *)

(* An instant is less than a day after the start of its day.               *)
LEMMA DayBegins ==
    ASSUME NEW t \in Int, NEW D \in Nat \ {0}
    PROVE  t \div D \in Int /\ t < (t \div D) * D + D
<1>1. t = D * (t \div D) + (t % D)
  OBVIOUS
<1>2. t % D \in 0 .. (D - 1) /\ t \div D \in Int
  OBVIOUS
<1> QED
  BY <1>1, <1>2

(* An expired day is older than the window, but for the day itself.        *)
LEMMA ExpiredIsOld ==
    ASSUME TypeOK, NEW r \in Row, Expired(DayOf(r))
    PROVE  AgeByName(r, now) > (RetentionDays - 1) * DayTicks
<1> DEFINE local == time[r].at + time[r].zone
<1>1. local \in Int /\ now \in Nat
  <2>1. time[r] \in RowTime /\ now \in Time
    BY DEF TypeOK
  <2>2. time[r] \in [at : Nat, zone : Int]
    BY <2>1, RowTimeAssumption, Zenon
  <2>3. now \in Nat
    BY <2>1 DEF Time
  <2> QED
    BY <2>2, <2>3
<1>2. DayOf(r) = local \div DayTicks
  BY DEF DayOf, DateOf
<1>3. AgeByName(r, now) = now - local
  BY DEF AgeByName
<1> HIDE DEF local
<1>4. DayOf(r) \in Int /\ local < DayOf(r) * DayTicks + DayTicks
  BY <1>1, <1>2, DayBegins, DayTicksAssumption
<1>5. DayOf(r) * DayTicks + RetentionDays * DayTicks < now
  BY DEF Expired
<1>6. DayOf(r) * DayTicks \in Int /\ RetentionDays * DayTicks \in Nat /\ DayTicks \in Nat
  BY <1>4, DayTicksAssumption, RetentionDaysAssumption
<1>7. (RetentionDays - 1) * DayTicks = RetentionDays * DayTicks - DayTicks
  BY DayTicksAssumption, RetentionDaysAssumption
<1> QED
  BY <1>1, <1>3, <1>4, <1>5, <1>6, <1>7

LEMMA PrunedPreserved == TypeOK /\ PrunedIsOld /\ [Next]_vars => PrunedIsOld'
<1> SUFFICES ASSUME TypeOK, PrunedIsOld, [Next]_vars PROVE PrunedIsOld'
  OBVIOUS
<1>1. time' = time
  BY Grows DEF Growing
<1>2. ASSUME pruned' = pruned PROVE PrunedIsOld'
  BY <1>1, <1>2 DEF PrunedIsOld, AgeByName
<1>3. ASSUME NEW w \in Worker, WorkerNext(w) PROVE pruned' = pruned
  BY <1>3
  DEF WorkerNext, BeginStore, BeginDelete, BeginInfo, BeginSearch, LookUpIndex,
      OpenIndex, OpenFails, UseFails, StoreDay, DeleteDay, CountDay, SearchOpens,
      AnswerChange, FillCache, InfoFails, SearchReads, AnswerSearch, Clear, historyVars
<1>4. ASSUME NEW days \in SUBSET shards, NEW gone \in SUBSET shards,
             PruneOlderThan(days, gone) PROVE PrunedIsOld'
  <2>1. /\ pruned' = pruned \union {<<r, now>> : r \in RowsOf(gone)}
        /\ \A d \in gone : Expired(d)
    BY <1>4 DEF PruneOlderThan
  <2>2. ASSUME NEW r \in RowsOf(gone)
        PROVE  AgeByName(r, now) > (RetentionDays - 1) * DayTicks
    BY <2>1, <2>2, ExpiredIsOld DEF RowsOf, TypeOK
  <2>3. \A r, t : AgeByName(r, t)' = AgeByName(r, t)
    BY <1>1 DEF AgeByName
  <2> QED
    BY <2>1, <2>2, <2>3 DEF PrunedIsOld
<1>5. CASE (\E opened \in SUBSET shards : Restart(opened)) \/ Tick \/ UNCHANGED vars
  BY <1>2, <1>5 DEF Restart, Tick, vars, historyVars
<1> QED
  BY <1>2, <1>3, <1>4, <1>5 DEF Next

-----------------------------------------------------------------------------
(* The inductive invariant.                                                *)
IInv ==
    /\ TypedAndShaped
    /\ OneHandlePerShard
    /\ Books
    /\ SearchesFind
    /\ Counts
    /\ PrunedIsOld

LEMMA InitIInv == Init => IInv
<1>1. Init => OneHandlePerShard /\ PrunedIsOld
  BY DEF Init, OneHandlePerShard, PrunedIsOld
<1> QED
  BY <1>1, InitTyped, InitBooks, InitSearches, InitCounts DEF IInv

LEMMA NextIInv == IInv /\ [Next]_vars => IInv'
<1>1. SearchesFind /\ TypeOK /\ Shaped /\ Books /\ [Next]_vars => SearchesFind'
  BY SearchingPreserved DEF SearchesFind
<1> QED
  BY <1>1, TypePreserved, HandlesPreserved, BooksPreserved, CountsPreserved, PrunedPreserved
  DEF IInv, TypedAndShaped

LEMMA StorageInvariant == Spec => []IInv
  BY InitIInv, NextIInv, PTL DEF Spec

(* The map of indexes, the directories and the handles agree: whatever the *)
(* requests, no shard is opened twice at a time (getOrCreateIndex).        *)
THEOREM StorageStaysConsistent == Spec => []Consistent
<1>1. IInv => Consistent
  BY DEF IInv, TypedAndShaped, Consistent
<1> QED
  BY <1>1, StorageInvariant, PTL

(* A row whose Store call was answered is kept until it is removed, though *)
(* indexes are closed under calls in flight.                               *)
THEOREM AckedStaysStored == Spec => []AckedIsStored
<1>1. IInv => AckedIsStored
  BY DEF IInv, Books
<1> QED
  BY <1>1, StorageInvariant, PTL

(* A search finds what was answered for before it began.                   *)
THEOREM SearchesFindAcked == Spec => []SearchFindsAcked
<1>1. IInv => SearchFindsAcked
  <2>1. SUFFICES ASSUME IInv, NEW w \in Worker, worker[w].pc = "answered"
                 PROVE  {r \in worker[w].rows \ removed : DayOf(r) \notin halfRemoved}
                           \subseteq worker[w].seen
    BY DEF SearchFindsAcked
  <2>2. Shape(w) /\ Searching(w)
    BY <2>1 DEF IInv, TypedAndShaped, Shaped, SearchesFind
  <2> QED
    BY <2>1, <2>2 DEF Shape, Searching, Wanted
<1> QED
  BY <1>1, StorageInvariant, PTL

(* The statistics cache is fresh unless a fill was overtaken.              *)
THEOREM CacheStaysFresh == Spec => []CacheIsFresh
<1>1. IInv => CacheIsFresh
  BY DEF IInv, Counts
<1> QED
  BY <1>1, StorageInvariant, PTL

(* Retention takes no row younger than the day before the window, plus     *)
(* what the row's zone is ahead of UTC.                                    *)
THEOREM PrunedStaysOld == Spec => []PrunedIsOld
<1>1. IInv => PrunedIsOld
  BY DEF IInv
<1> QED
  BY <1>1, StorageInvariant, PTL

-----------------------------------------------------------------------------
(* The log view: what makes its invariants inductive.                      *)

(* The parameters on screen have been searched for.                        *)
AskedInv == (home /\ hasSearched /\ ~live) => asked = params

(* The rows of the viewer's last search are those it asked for.            *)
ShownInv ==
    (home /\ asked # None /\ search = None /\ ~error /\ refresh = None)
        => shown # None /\ (shown.by = "viewer" => shown.params = asked)

(* A search in flight is the one that was asked for, and it is Home's.     *)
InFlightInv ==
    /\ (home /\ search # None /\ asked # None) => search.params = asked
    /\ ~home => search = None

(* The spinner: a search that the table's did not interfere with has it.   *)
SpinnerInv ==
    /\ (refresh # None /\ search # None) => ~search.alone
    /\ (search # None /\ search.alone /\ asked # None) => loading
    /\ loading => search # None \/ refresh # None

SearchesInv == AskedInv /\ ShownInv /\ InFlightInv /\ SpinnerInv

(* The page is one of a search that finds the most rows.                   *)
RowInv == (params.page - 1) * params.size < MaxRows

(* What is written to the history: a place alone, or Home with parameters. *)
WrittenUrl ==
    [page : {"home", "elsewhere"}, query : {None}, range : {None}]
        \union [page : {"home"}, query : Query, range : Span]

HistoryInv ==
    /\ urls \in Seq(WrittenUrl) /\ Len(urls) \in 1 .. MaxUrls /\ at \in DOMAIN urls
    /\ home => urls[at].page = "home"

ParamsInv ==
    /\ params \in Param /\ asked \in Param \union {None}
    /\ search \in [params : Param, alone : BOOLEAN] \union {None}
    /\ refresh \in [params : Param, here : BOOLEAN] \union {None}
    /\ deleting \in [params : Param, here : BOOLEAN] \union {None}
    /\ RowInv

FlagsInv ==
    /\ home \in BOOLEAN /\ live \in BOOLEAN /\ hasSearched \in BOOLEAN /\ firstLoad \in BOOLEAN
    /\ clearing \in BOOLEAN /\ loading \in BOOLEAN /\ error \in BOOLEAN
    /\ urlTimer \in BOOLEAN /\ tick \in BOOLEAN /\ draft \in BOOLEAN /\ narrowed \in BOOLEAN

DataInv ==
    /\ shown \in [params : Param, by : {"viewer", "table"}] \union {None}
    /\ total \in 0 .. MaxRows
    /\ cold \in {"push", "sync", "info", "done"}
    /\ names \in (SUBSET Source) \union {None}
    /\ infos \in Nat /\ work \in 0 .. MaxWork

RestInv == FlagsInv /\ DataInv

ViewInv ==
    /\ ParamsInv /\ RestInv /\ HistoryInv
    /\ SearchesInv /\ UrlDescribesView /\ AllSourcesStay

USE DEF searchVars, resultVars, urlVars, tableVars, infoVars, flagVars, timerVars

(* Parameters that can be searched for.                                    *)
Fits(p) == p \in Param /\ (p.page - 1) * p.size < MaxRows

(* No object is null.                                                      *)
LEMMA NoneIsNoObject ==
    /\ \A p \in Param : p # None
    /\ \A r \in [params : Param, alone : BOOLEAN] : r # None
    /\ \A r \in [params : Param, here : BOOLEAN] : r # None
    /\ \A r \in [params : Param, by : {"viewer", "table"}] : r # None
    /\ \A S \in SUBSET Source : S # None
    /\ \A q \in Query : q # None
BY NullAssumption, QueryAssumption, Zenon DEF Query

LEMMA Bounds ==
    /\ MaxRows \in Nat /\ MaxRows > 0 /\ MaxUrls \in Nat /\ MaxUrls > 1 /\ MaxWork \in Nat
    /\ Sizes \subseteq Nat \ {0} /\ DefaultSize \in Sizes
    /\ Empty \in Query /\ Initial \in Span /\ Relative \in Span
BY ViewBoundsAssumption, SizeAssumption, RangeAssumption DEF Query, Span

(* The fields of parameters.                                               *)
LEMMA ParamFields ==
    ASSUME NEW p \in Param
    PROVE  /\ p.query \in Query /\ p.range \in Span /\ p.sources \in SUBSET Source
           /\ p.order \in {"asc", "desc"} /\ p.size \in Sizes /\ p.page \in 1 .. MaxRows
           /\ p.size \in Nat /\ p.size > 0 /\ p.page \in Nat /\ p.page > 0
<1>1. /\ p.query \in Query /\ p.range \in Span /\ p.sources \in SUBSET Source
      /\ p.order \in {"asc", "desc"} /\ p.size \in Sizes /\ p.page \in 1 .. MaxRows
  BY DEF Param
<1>2. p.size \in Nat \ {0}
  BY <1>1, Bounds
<1> QED
  BY <1>1, <1>2, Bounds

(* The first page can always be searched for.                              *)
LEMMA FirstPageFits ==
    ASSUME NEW p \in Param, p.page = 1
    PROVE  Fits(p)
<1>1. PICK size \in Nat : size = p.size
  BY ParamFields
<1>2. (p.page - 1) * size = 0
  BY <1>1
<1> QED
  BY <1>1, <1>2, Bounds DEF Fits

(* What is searched for does not matter to the page.                       *)
LEMMA SamePageFits ==
    ASSUME NEW p, Fits(p), NEW q \in Param, q.page = p.page, q.size = p.size
    PROVE  Fits(q)
BY Zenon DEF Fits

(* The parameters after a change of some fields.                           *)
LEMMA ChangedQuery ==
    ASSUME NEW p \in Param, NEW q \in Query
    PROVE  [p EXCEPT !.query = q, !.page = 1] \in Param
<1>1. 1 \in 1 .. MaxRows
  BY Bounds
<1> QED
  BY <1>1 DEF Param

LEMMA ChangedRange ==
    ASSUME NEW p \in Param, NEW range \in Span, NEW page \in 1 .. MaxRows
    PROVE  [p EXCEPT !.range = range, !.page = page] \in Param
BY DEF Param

LEMMA ChangedSources ==
    ASSUME NEW p, Fits(p), NEW S \in SUBSET Source
    PROVE  Fits([p EXCEPT !.sources = S])
<1>1. [p EXCEPT !.sources = S] \in Param
  BY DEF Fits, Param
<1>2. /\ [p EXCEPT !.sources = S].page = p.page
      /\ [p EXCEPT !.sources = S].size = p.size
  BY DEF Fits, Param
<1> QED
  BY <1>1, <1>2, SamePageFits, Zenon

(* The sources that are selected when the server's change.                 *)
LEMMA NextSourcesType ==
    ASSUME NEW old, NEW new \in SUBSET Source, NEW selected \in SUBSET Source
    PROVE  NextSources(old, new, selected) \in SUBSET Source
BY DEF NextSources

LEMMA WithSourcesFits ==
    ASSUME NEW old, NEW new \in SUBSET Source, NEW p, Fits(p)
    PROVE  /\ Fits(WithSources(old, new, p))
           /\ WithSources(old, new, p).query = p.query
           /\ WithSources(old, new, p).range = p.range
           /\ WithSources(old, new, p).sources = NextSources(old, new, p.sources)
<1> DEFINE S == NextSources(old, new, p.sources)
<1>1. S \in SUBSET Source
  BY NextSourcesType, ParamFields DEF Fits
<1>2. WithSources(old, new, p) = [p EXCEPT !.sources = S]
  BY DEF WithSources
<1> HIDE DEF S
<1>3. Fits([p EXCEPT !.sources = S])
  BY <1>1, ChangedSources
<1>4. /\ [p EXCEPT !.sources = S].query = p.query
      /\ [p EXCEPT !.sources = S].range = p.range
      /\ [p EXCEPT !.sources = S].sources = S
  BY DEF Fits, Param
<1> QED
  BY <1>2, <1>3, <1>4, Zenon DEF S

(* The parameters of an address.                                           *)
LEMMA WrittenFields ==
    ASSUME NEW url \in WrittenUrl
    PROVE  /\ url = [page |-> url.page, query |-> url.query, range |-> url.range]
           /\ url.query # None => url.page = "home" /\ url.query \in Query /\ url.range \in Span
BY DEF WrittenUrl

LEMMA SyncedFits ==
    ASSUME NEW p, Fits(p), NEW url \in WrittenUrl
    PROVE  /\ Fits(Synced(p, url))
           /\ Synced(p, url).sources = p.sources
           /\ (url.query # None /\ Synced(p, url).query = url.query) => Entry(Synced(p, url)) = url
<1>1. CASE url.query = None
  BY <1>1, Zenon DEF Synced
<1>2. CASE url.query # None
  <2>1. /\ url = [page |-> url.page, query |-> url.query, range |-> url.range]
        /\ url.page = "home" /\ url.query \in Query /\ url.range \in Span
    BY <1>2, WrittenFields
  <2>2. PICK query \in Query : query = IF url.query # Empty THEN url.query ELSE p.query
    BY <2>1, ParamFields DEF Fits
  <2>3. Synced(p, url) = [p EXCEPT !.query = query, !.range = url.range]
    BY <1>2, <2>2 DEF Synced
  <2>4. PICK range \in Span : range = url.range
    BY <2>1
  <2> DEFINE new == [p EXCEPT !.query = query, !.range = range]
  <2>5. /\ new \in Param /\ new.page = p.page /\ new.size = p.size /\ new.sources = p.sources
        /\ new.query = query /\ new.range = range
    BY DEF Fits, Param
  <2>6. Synced(p, url) = new
    BY <2>3, <2>4
  <2> HIDE DEF new
  <2>7. Fits(new)
    BY <2>5, SamePageFits, Zenon
  <2>8. new.query = url.query => Entry(new) = url
    BY <2>1, <2>4, <2>5 DEF Entry
  <2> QED
    BY <2>5, <2>6, <2>7, <2>8, Zenon
<1> QED
  BY <1>1, <1>2

LEMMA ClearedFits == Cleared \in Param /\ Fits(Cleared)
<1>1. Cleared \in Param /\ Cleared.page = 1
  BY Bounds DEF Cleared, Param
<1> QED
  BY <1>1, FirstPageFits

(* An entry is an address.                                                 *)
LEMMA EntriesAreWritten ==
    /\ \A p \in Param : Entry(p) \in WrittenUrl /\ Entry(p).page = "home"
    /\ \A page \in {"home", "elsewhere"} :
         /\ Plain(page) \in WrittenUrl /\ Plain(page).page = page /\ Plain(page).query = None
<1>1. \A p \in Param : Entry(p) \in WrittenUrl /\ Entry(p).page = "home"
  BY DEF Entry, WrittenUrl, Param
<1>2. \A page \in {"home", "elsewhere"} :
         /\ Plain(page) \in WrittenUrl /\ Plain(page).page = page /\ Plain(page).query = None
  BY DEF Plain, WrittenUrl
<1> QED
  BY <1>1, <1>2

-----------------------------------------------------------------------------
(* The address.                                                            *)

(* The last n elements of a sequence.                                      *)
LEMMA LastElements ==
    ASSUME NEW S, NEW s \in Seq(S), NEW n \in 1 .. Len(s)
    PROVE  /\ SubSeq(s, Len(s) - n + 1, Len(s)) \in Seq(S)
           /\ Len(SubSeq(s, Len(s) - n + 1, Len(s))) = n
           /\ SubSeq(s, Len(s) - n + 1, Len(s))[n] = s[Len(s)]
<1>1. PICK m \in Nat : m = Len(s)
  OBVIOUS
<1>2. PICK a \in Nat : a = (m - n) + 1
  BY <1>1
<1>3. a > 0 /\ a <= m /\ (m - a) + 1 = n /\ (a + n) - 1 = m
  BY <1>1, <1>2
<1>4. Len(s) - n + 1 = a
  BY <1>1, <1>2
<1>5. /\ SubSeq(s, a, m) \in Seq(S) /\ Len(SubSeq(s, a, m)) = (m - a) + 1
      /\ SubSeq(s, a, m)[n] = s[(a + n) - 1]
  BY <1>1, <1>3
<1> QED
  BY <1>1, <1>3, <1>4, <1>5

(* What pushState leaves: the entries before, and the new one last.        *)
Pushed(i, new) ==
    /\ urls' \in Seq(WrittenUrl) /\ Len(urls') \in 1 .. MaxUrls /\ at' \in DOMAIN urls'
    /\ new = <<>> => urls' = urls /\ at' = i
    /\ new # <<>> => urls'[at'] = new[Len(new)]

LEMMA PushingKeepsTheHistory ==
    ASSUME HistoryInv, NEW i \in DOMAIN urls, NEW new \in Seq(WrittenUrl), PushOn(i, new)
    PROVE  Pushed(i, new)
<1>1. CASE new = <<>>
  <2>1. urls' = urls /\ at' = i
    BY <1>1, Zenon DEF PushOn
  <2> QED
    BY <1>1, <2>1 DEF Pushed, HistoryInv
<1>2. CASE new # <<>>
  <2> DEFINE all == SubSeq(urls, 1, i) \o new
             n == IF Len(all) < MaxUrls THEN Len(all) ELSE MaxUrls
  <2>1. urls' = SubSeq(all, Len(all) - n + 1, Len(all)) /\ at' = n
    BY <1>2, Zenon DEF PushOn
  <2>2. /\ SubSeq(urls, 1, i) \in Seq(WrittenUrl) /\ Len(SubSeq(urls, 1, i)) = i
        /\ i \in Nat /\ i > 0
    BY DEF HistoryInv
  <2>3. Len(new) \in Nat /\ Len(new) > 0
    BY <1>2
  <2>4. all \in Seq(WrittenUrl) /\ Len(all) = i + Len(new)
    BY <2>2
  <2>5. all[Len(all)] = new[Len(new)]
    BY <2>2, <2>3
  <2> HIDE DEF all
  <2>6. n \in 1 .. MaxUrls /\ n <= Len(all)
    BY <2>2, <2>3, <2>4, Bounds
  <2> HIDE DEF n
  <2>7. /\ urls' \in Seq(WrittenUrl) /\ Len(urls') = n
        /\ urls'[n] = all[Len(all)]
    <3>1. n \in 1 .. Len(all)
      BY <2>2, <2>3, <2>4, <2>6
    <3> QED
      BY <2>1, <2>4, <3>1, LastElements
  <2>8. at' \in DOMAIN urls' /\ Len(urls') \in 1 .. MaxUrls /\ urls'[at'] = new[Len(new)]
    <3>1. at' = n /\ n \in 1 .. MaxUrls
      BY <2>1, <2>6
    <3>2. DOMAIN urls' = 1 .. n /\ n \in 1 .. n
      BY <2>6, <2>7
    <3> QED
      BY <2>5, <2>7, <3>1, <3>2
  <2> QED
    BY <1>2, <2>7, <2>8, Zenon DEF Pushed
<1> QED
  BY <1>1, <1>2

(* One address, or two, are pushed.                                        *)
LEMMA PushingOne ==
    ASSUME HistoryInv, NEW i \in DOMAIN urls, NEW url \in WrittenUrl, PushOn(i, <<url>>)
    PROVE  /\ urls' \in Seq(WrittenUrl) /\ Len(urls') \in 1 .. MaxUrls /\ at' \in DOMAIN urls'
           /\ urls'[at'] = url
<1>1. <<url>> \in Seq(WrittenUrl) /\ <<url>> # <<>> /\ <<url>>[Len(<<url>>)] = url
  OBVIOUS
<1>2. Pushed(i, <<url>>)
  BY <1>1, PushingKeepsTheHistory, Zenon
<1> QED
  BY <1>1, <1>2, Zenon DEF Pushed

LEMMA PushingTwo ==
    ASSUME HistoryInv, NEW i \in DOMAIN urls, NEW first \in WrittenUrl, NEW url \in WrittenUrl,
           PushOn(i, <<first, url>>)
    PROVE  /\ urls' \in Seq(WrittenUrl) /\ Len(urls') \in 1 .. MaxUrls /\ at' \in DOMAIN urls'
           /\ urls'[at'] = url
<1>1. /\ <<first, url>> \in Seq(WrittenUrl) /\ <<first, url>> # <<>>
      /\ <<first, url>>[Len(<<first, url>>)] = url
  OBVIOUS
<1>2. Pushed(i, <<first, url>>)
  BY <1>1, PushingKeepsTheHistory, Zenon
<1> QED
  BY <1>1, <1>2, Zenon DEF Pushed

LEMMA PushingNone ==
    ASSUME NEW i, PushOn(i, <<>>)
    PROVE  urls' = urls /\ at' = i
BY Zenon DEF PushOn

(* The address at hand.                                                    *)
LEMMA AddressAtHand ==
    ASSUME HistoryInv
    PROVE  /\ at \in DOMAIN urls
           /\ \A i \in DOMAIN urls : urls[i] \in WrittenUrl
BY DEF HistoryInv

-----------------------------------------------------------------------------
(* Searching.                                                              *)

(* A search in flight is the same search after the table's has changed.    *)
LEMMA SharedSearch ==
    ASSUME ParamsInv
    PROVE  /\ Shared \in [params : Param, alone : BOOLEAN] \union {None}
           /\ Shared = None <=> search = None
           /\ search # None => /\ Shared.params = search.params
                               /\ Shared.alone <=> (search.alone /\ refresh' = None)
<1>1. CASE search = None
  BY <1>1, Zenon DEF Shared
<1>2. CASE search # None
  <2>1. search \in [params : Param, alone : BOOLEAN]
    BY <1>2 DEF ParamsInv
  <2>2. PICK b \in BOOLEAN : b <=> (search.alone /\ refresh' = None)
    OBVIOUS
  <2>3. Shared = [search EXCEPT !.alone = (search.alone /\ refresh' = None)]
    BY <1>2, Zenon DEF Shared
  <2>4. Shared \in [params : Param, alone : BOOLEAN]
    BY <2>1, <2>3
  <2>5. Shared.params = search.params /\ (Shared.alone <=> (search.alone /\ refresh' = None))
    BY <2>1, <2>3
  <2> QED
    BY <1>2, <2>4, <2>5, NoneIsNoObject, Zenon
<1> QED
  BY <1>1, <1>2

(* What an effect leaves, for parameters p.                                *)
Rendered(p) ==
    /\ params' = p
    /\ asked' \in Param \union {None}
    /\ search' \in [params : Param, alone : BOOLEAN] \union {None}
    /\ loading' \in BOOLEAN /\ error' \in BOOLEAN
    /\ SearchesInv'

LEMMA RenderingKeepsSearches ==
    ASSUME ParamsInv, RestInv, SearchesInv,
           NEW p \in Param, NEW before \in Param \union {None},
           NEW forced \in BOOLEAN, NEW load \in BOOLEAN, NEW err \in BOOLEAN,
           Render(before, p, forced, load, err),
           home => home',
           ~forced => /\ before = asked
                      /\ home' = home
                      /\ (loading => load)
                      /\ refresh' # None \/ (refresh' = refresh /\ shown' = shown /\ err = error),
           load => refresh' # None \/ (loading /\ refresh' = refresh)
    PROVE  Rendered(p)
<1> DEFINE due == home' /\ hasSearched' /\ ~live' /\ (forced \/ before # p)
<1>1. /\ params' = p
      /\ asked' = IF due THEN p ELSE IF forced /\ home' THEN None ELSE before
      /\ search' = IF due THEN [params |-> p, alone |-> refresh' = None] ELSE Shared
      /\ loading' = (due \/ load)
      /\ error' = (~due /\ err)
  BY Zenon DEF Render
<1>2. /\ Shared \in [params : Param, alone : BOOLEAN] \union {None}
      /\ Shared = None <=> search = None
      /\ search # None => /\ Shared.params = search.params
                          /\ Shared.alone <=> (search.alone /\ refresh' = None)
  BY SharedSearch
<1>3. CASE due
  <2>1. asked' = p /\ search' = [params |-> p, alone |-> refresh' = None] /\ loading' = TRUE
        /\ error' = FALSE
    BY <1>1, <1>3, Zenon
  <2>2. search' \in [params : Param, alone : BOOLEAN] /\ search'.params = p
        /\ (search'.alone <=> refresh' = None)
    BY <2>1
  <2>3. search' # None /\ home'
    BY <1>3, <2>2, NoneIsNoObject
  <2>4. SearchesInv'
    BY <1>1, <2>1, <2>2, <2>3
    DEF SearchesInv, AskedInv, ShownInv, InFlightInv, SpinnerInv
  <2> QED
    BY <1>1, <2>1, <2>2, <2>4, Zenon DEF Rendered
<1>4. CASE ~due
  <2>1. /\ asked' = IF forced /\ home' THEN None ELSE before
        /\ search' = Shared /\ loading' = load /\ error' = err
    <3>1. /\ asked' = IF forced /\ home' THEN None ELSE before
          /\ search' = Shared
      BY <1>1, <1>4, Zenon
    <3>2. loading' = load /\ error' = err
      <4>1. (due \/ load) = load /\ (~due /\ err) = err
        BY <1>4
      <4> HIDE DEF due
      <4> QED
        BY <1>1, <4>1
    <3> QED
      BY <3>1, <3>2
  <2>2. AskedInv'
    BY <1>1, <1>4, <2>1 DEF AskedInv
  <2>3. ShownInv'
    BY <1>2, <2>1 DEF SearchesInv, ShownInv
  <2>4. InFlightInv'
    BY <1>2, <2>1 DEF SearchesInv, InFlightInv
  <2>5. SpinnerInv'
    BY <1>2, <2>1 DEF SearchesInv, InFlightInv, SpinnerInv
  <2>6. /\ asked' \in Param \union {None}
        /\ loading' \in BOOLEAN /\ error' \in BOOLEAN
    BY <2>1
  <2> QED
    BY <1>1, <1>2, <2>1, <2>2, <2>3, <2>4, <2>5, <2>6, Zenon DEF Rendered, SearchesInv
<1> QED
  BY <1>3, <1>4

-----------------------------------------------------------------------------
(* What the actions have in common.                                        *)

LEMMA WorkIsBounded ==
    ASSUME RestInv, Work
    PROVE  work' \in 0 .. MaxWork
BY Bounds DEF RestInv, FlagsInv, DataInv, Work

(* An effect on Home, or away from it, after a change of the parameters.   *)
LEMMA RerenderingKeeps ==
    ASSUME ViewInv, NEW p, Fits(p), NEW forced \in BOOLEAN, Rerender(p, forced),
           UNCHANGED <<home, shown, tableVars>>
    PROVE  Rendered(p) /\ ParamsInv'
<1>1. Render(asked, p, forced, loading, error)
  BY Zenon DEF Rerender
<1>2. /\ ParamsInv /\ RestInv /\ SearchesInv /\ p \in Param
      /\ asked \in Param \union {None} /\ loading \in BOOLEAN /\ error \in BOOLEAN
  BY DEF ViewInv, ParamsInv, RestInv, FlagsInv, DataInv, Fits
<1>3. Rendered(p)
  BY <1>1, <1>2, RenderingKeepsSearches
<1>4. ParamsInv'
  BY <1>2, <1>3 DEF Rendered, ParamsInv, RowInv, Fits
<1> QED
  BY <1>3, <1>4

(* Nothing is searched for.                                                *)
LEMMA SearchesStay ==
    ASSUME ViewInv, UNCHANGED <<home, live, hasSearched, searchVars, shown, refresh>>
    PROVE  SearchesInv'
BY DEF ViewInv, SearchesInv, AskedInv, ShownInv, InFlightInv, SpinnerInv

LEMMA ParamsStay ==
    ASSUME ViewInv, UNCHANGED <<params, asked, search, refresh>>,
           deleting' \in [params : Param, here : BOOLEAN] \union {None}
    PROVE  ParamsInv'
BY DEF ViewInv, ParamsInv, RowInv

LEMMA HistoryStays ==
    ASSUME ViewInv, UNCHANGED urlVars, home' => home
    PROVE  HistoryInv'
BY DEF ViewInv, HistoryInv

(* The address and the parameters still name the same.                     *)
LEMMA AddressStays ==
    ASSUME ViewInv, UNCHANGED <<home, urlVars>>, Entry(params') = Entry(params),
           urlTimer => urlTimer', draft => draft', cold' = cold
    PROVE  UrlDescribesView'
BY DEF ViewInv, UrlDescribesView

(* The address is new.                                                     *)
LEMMA AddressIsNew ==
    ASSUME urls'[at'] = Entry(params')
    PROVE  UrlDescribesView'
BY DEF UrlDescribesView

(* The same sources are selected.                                          *)
LEMMA SourcesStay ==
    ASSUME ViewInv, UNCHANGED <<home, names, narrowed>>, params'.sources = params.sources
    PROVE  AllSourcesStay'
BY DEF ViewInv, AllSourcesStay

(* Parameters that the effect alone notices.                               *)
LEMMA ChoosingKeeps ==
    ASSUME ViewInv, NEW p, Fits(p), Choose(p), draft' \in BOOLEAN, narrowed' \in BOOLEAN,
           draft' \/ (~draft /\ Entry(p) = Entry(params)),
           \/ narrowed'
           \/ p.sources = names
           \/ ~narrowed /\ p.sources = params.sources
    PROVE  ViewInv'
<1>1. /\ Rerender(p, FALSE) /\ Work
      /\ UNCHANGED <<home, live, resultVars, urlVars, tableVars, infoVars, flagVars, timerVars>>
  BY DEF Choose
<1>2. Rendered(p) /\ ParamsInv'
  BY <1>1, RerenderingKeeps
<1>3. params' = p /\ loading' \in BOOLEAN /\ error' \in BOOLEAN /\ SearchesInv'
  BY <1>2 DEF Rendered
<1>4. RestInv'
  <2>1. work' \in 0 .. MaxWork
    BY <1>1, WorkIsBounded DEF ViewInv
  <2>2. FlagsInv'
    BY <1>1, <1>3, <2>1 DEF ViewInv, RestInv, FlagsInv
  <2>3. DataInv'
    BY <1>1, <1>3, <2>1 DEF ViewInv, RestInv, DataInv
  <2> QED
    BY <2>2, <2>3 DEF RestInv
<1>5. HistoryInv'
  BY <1>1, HistoryStays
<1>6. UrlDescribesView'
  BY <1>1, <1>3 DEF ViewInv, UrlDescribesView
<1>7. AllSourcesStay'
  BY <1>1, <1>3 DEF ViewInv, AllSourcesStay
<1> QED
  BY <1>2, <1>3, <1>4, <1>5, <1>6, <1>7 DEF ViewInv

(* Parameters that are searched for and written to the address.            *)
LEMMA TriggeringKeeps ==
    ASSUME ViewInv, NEW p, Fits(p), NEW q \in Param, Entry(q) = Entry(p),
           NEW new, new = <<Entry(q)>> \/ new = <<Entry(q), Entry(q)>>,
           Trigger(p, new),
           UNCHANGED <<home, live, resultVars, tableVars, infoVars, firstLoad, urlTimer>>,
           cold' \in {cold, "done"}, tick' \in BOOLEAN, narrowed' \in BOOLEAN,
           work' \in 0 .. MaxWork,
           \/ home /\ names # None /\ ~narrowed' => p.sources = names
           \/ narrowed' = narrowed /\ p.sources = params.sources
    PROVE  ViewInv'
<1>1. Rerender(p, TRUE) /\ PushOn(at, new) /\ hasSearched' = TRUE /\ draft' = FALSE
  BY DEF Trigger
<1>2. Rendered(p) /\ ParamsInv'
  BY <1>1, RerenderingKeeps
<1>3. params' = p /\ loading' \in BOOLEAN /\ error' \in BOOLEAN /\ SearchesInv'
  BY <1>2 DEF Rendered
<1>4. RestInv'
  <2>1. FlagsInv'
    BY <1>1, <1>3 DEF ViewInv, RestInv, FlagsInv
  <2>2. DataInv'
    BY <1>1, <1>3 DEF ViewInv, RestInv, DataInv
  <2> QED
    BY <2>1, <2>2 DEF RestInv
<1>5. Entry(q) \in WrittenUrl /\ Entry(q).page = "home" /\ HistoryInv /\ at \in DOMAIN urls
  BY EntriesAreWritten, AddressAtHand DEF ViewInv
<1>6. /\ urls' \in Seq(WrittenUrl) /\ Len(urls') \in 1 .. MaxUrls /\ at' \in DOMAIN urls'
      /\ urls'[at'] = Entry(q)
  <2>1. CASE new = <<Entry(q)>>
    BY <1>1, <1>5, <2>1, PushingOne, Zenon
  <2>2. CASE new = <<Entry(q), Entry(q)>>
    BY <1>1, <1>5, <2>2, PushingTwo, Zenon
  <2> QED
    BY <2>1, <2>2
<1>7. HistoryInv'
  BY <1>5, <1>6 DEF HistoryInv
<1>8. UrlDescribesView'
  BY <1>3, <1>6, AddressIsNew
<1>9. AllSourcesStay'
  BY <1>3 DEF ViewInv, AllSourcesStay
<1> QED
  BY <1>2, <1>3, <1>4, <1>7, <1>8, <1>9 DEF ViewInv

-----------------------------------------------------------------------------
(* What the user does on Home.                                             *)

LEMMA SearchForKeeps ==
    ASSUME ViewInv, NEW q \in Query, SearchFor(q)
    PROVE  ViewInv'
<1> DEFINE p == [params EXCEPT !.query = q, !.page = 1]
           new == IF q # params.query THEN <<Entry(p), Entry(p)>> ELSE <<Entry(p)>>
<1>1. p \in Param /\ p.page = 1 /\ p.sources = params.sources
  <2>1. params \in Param
    BY DEF ViewInv, ParamsInv
  <2>2. p \in Param
    BY <2>1, ChangedQuery
  <2> QED
    BY <2>1, <2>2 DEF Param
<1>2. /\ Work /\ Trigger(p, new)
      /\ UNCHANGED <<home, live, resultVars, tableVars, infoVars, firstLoad, timerVars, narrowed>>
  BY DEF SearchFor
<1>3. new = <<Entry(p)>> \/ new = <<Entry(p), Entry(p)>>
  OBVIOUS
<1> HIDE DEF p, new
<1>4. Fits(p)
  BY <1>1, FirstPageFits
<1>5. /\ work' \in 0 .. MaxWork /\ tick' \in BOOLEAN /\ narrowed' \in BOOLEAN
      /\ narrowed' = narrowed /\ p.sources = params.sources
      /\ urlTimer' = urlTimer /\ cold' = cold
  BY <1>1, <1>2, WorkIsBounded DEF ViewInv, RestInv, FlagsInv, DataInv
<1> QED
  BY <1>1, <1>2, <1>3, <1>4, <1>5, TriggeringKeeps

LEMMA ClearSearchKeeps ==
    ASSUME ViewInv, ClearSearch
    PROVE  ViewInv'
<1>1. PICK p : p = [params EXCEPT !.query = Empty, !.page = 1]
  OBVIOUS
<1>2. params \in Param
  BY DEF ViewInv, ParamsInv
<1>3. p \in Param
  BY <1>1, <1>2, Bounds, ChangedQuery
<1>4. p.page = 1 /\ p.sources = params.sources
  BY <1>1, <1>2 DEF Param
<1>5. Fits(p)
  BY <1>3, <1>4, FirstPageFits
<1>6. /\ Work /\ urlTimer' = TRUE /\ Rerender(p, FALSE)
      /\ UNCHANGED <<home, live, resultVars, urlVars, tableVars, infoVars, flagVars, tick, cold,
                     draft, narrowed>>
  BY <1>1 DEF ClearSearch
<1>7. Rendered(p) /\ ParamsInv'
  BY <1>5, <1>6, RerenderingKeeps
<1>8. params' = p /\ loading' \in BOOLEAN /\ error' \in BOOLEAN /\ SearchesInv'
  BY <1>7 DEF Rendered
<1>9. RestInv'
  <2>1. FlagsInv'
    BY <1>6, <1>8, WorkIsBounded DEF ViewInv, RestInv, FlagsInv
  <2>2. DataInv'
    BY <1>6, <1>8, WorkIsBounded DEF ViewInv, RestInv, DataInv
  <2> QED
    BY <2>1, <2>2 DEF RestInv
<1>10. HistoryInv'
  BY <1>6, HistoryStays
<1>11. UrlDescribesView'
  BY <1>6 DEF UrlDescribesView
<1>12. AllSourcesStay'
  BY <1>4, <1>6, <1>8, SourcesStay
<1> QED
  BY <1>7, <1>8, <1>9, <1>10, <1>11, <1>12 DEF ViewInv

(* The address takes the parameters, whatever they are.                    *)
LEMMA WritingTheAddressKeeps ==
    ASSUME ViewInv, PushOn(at, <<Entry(params)>>), draft' = FALSE,
           urlTimer' \in BOOLEAN, tick' \in BOOLEAN, cold' \in {"push", "sync", "info", "done"},
           UNCHANGED <<home, live, searchVars, resultVars, tableVars, infoVars, flagVars,
                       narrowed, work>>
    PROVE  ViewInv'
<1>1. /\ HistoryInv /\ at \in DOMAIN urls
      /\ Entry(params) \in WrittenUrl /\ Entry(params).page = "home"
  BY EntriesAreWritten, AddressAtHand DEF ViewInv, ParamsInv
<1>2. /\ urls' \in Seq(WrittenUrl) /\ Len(urls') \in 1 .. MaxUrls /\ at' \in DOMAIN urls'
      /\ urls'[at'] = Entry(params)
  BY <1>1, PushingOne
<1>3. HistoryInv'
  BY <1>1, <1>2 DEF HistoryInv
<1>4. UrlDescribesView'
  BY <1>2, AddressIsNew
<1>5. ParamsInv' /\ SearchesInv'
  BY ParamsStay, SearchesStay DEF ViewInv, ParamsInv
<1>6. RestInv'
  <2>1. FlagsInv'
    BY DEF ViewInv, RestInv, FlagsInv
  <2>2. DataInv'
    BY DEF ViewInv, RestInv, DataInv
  <2> QED
    BY <2>1, <2>2 DEF RestInv
<1>7. AllSourcesStay'
  BY SourcesStay
<1> QED
  BY <1>3, <1>4, <1>5, <1>6, <1>7 DEF ViewInv

LEMMA UrlTimerKeeps ==
    ASSUME ViewInv, UrlTimer
    PROVE  ViewInv'
<1>1. /\ PushOn(at, <<Entry(params)>>) /\ draft' = FALSE /\ urlTimer' = FALSE
      /\ UNCHANGED <<home, live, searchVars, resultVars, tableVars, infoVars, flagVars, tick,
                     cold, narrowed, work>>
  BY DEF UrlTimer
<1>2. urlTimer' \in BOOLEAN /\ tick' \in BOOLEAN /\ cold' \in {"push", "sync", "info", "done"}
  BY <1>1 DEF ViewInv, RestInv, FlagsInv, DataInv
<1> QED
  BY <1>1, <1>2, WritingTheAddressKeeps

LEMMA ColdPushKeeps ==
    ASSUME ViewInv, ColdPush
    PROVE  ViewInv'
<1>1. /\ PushOn(at, <<Entry(params)>>) /\ draft' = FALSE /\ cold' = "done"
      /\ UNCHANGED <<home, live, searchVars, resultVars, tableVars, infoVars, flagVars, urlTimer,
                     tick, narrowed, work>>
  BY DEF ColdPush
<1>2. urlTimer' \in BOOLEAN /\ tick' \in BOOLEAN /\ cold' \in {"push", "sync", "info", "done"}
  BY <1>1 DEF ViewInv, RestInv, FlagsInv, DataInv
<1> QED
  BY <1>1, <1>2, WritingTheAddressKeeps

LEMMA ChooseSourcesKeeps ==
    ASSUME ViewInv, NEW S \in SUBSET Source, ChooseSources(S)
    PROVE  ViewInv'
<1>1. Fits(params)
  BY DEF ViewInv, ParamsInv, RowInv, Fits
<1>2. PICK p : p = [params EXCEPT !.sources = S]
  OBVIOUS
<1>3. Fits(p)
  BY <1>1, <1>2, ChangedSources
<1>4. p.sources = S /\ Entry(p) = Entry(params)
  BY <1>1, <1>2 DEF Fits, Param, Entry
<1>5. draft' = draft /\ Choose(p) /\ narrowed' = (S # names)
  BY <1>2 DEF ChooseSources
<1>6. /\ urlVars' = urlVars /\ home' = home
  BY <1>5 DEF Choose
<1>7. draft' \in BOOLEAN /\ narrowed' \in BOOLEAN
  BY <1>5 DEF ViewInv, RestInv, FlagsInv, DataInv
<1> QED
  BY <1>3, <1>4, <1>5, <1>7, ChoosingKeeps DEF ViewInv, RestInv, FlagsInv, DataInv

(* The last page holds a row.                                              *)
LEMMA LastPageHasRows ==
    ASSUME NEW n \in Nat, NEW size \in Nat, size > 0, NEW page \in Nat, page <= Pages(n, size)
    PROVE  (page - 1) * size < n
<1>1. PICK a \in Nat : a = (n + size) - 1
  OBVIOUS
<1>2. PICK d \in Int : d = a \div size
  OBVIOUS
<1>3. d * size <= a /\ Pages(n, size) = d
  <2>1. size * (a \div size) + (a % size) = a /\ a % size \in 0 .. (size - 1)
    OBVIOUS
  <2> QED
    BY <1>1, <1>2, <2>1 DEF Pages
<1>4. page * size <= d * size
  BY <1>2, <1>3
<1>5. (page - 1) * size = page * size - size
  OBVIOUS
<1> QED
  BY <1>1, <1>3, <1>4, <1>5

LEMMA ChoosePageKeeps ==
    ASSUME ViewInv, NEW n \in 1 .. MaxRows, ChoosePage(n)
    PROVE  ViewInv'
<1>1. Fits(params)
  BY DEF ViewInv, ParamsInv, RowInv, Fits
<1>2. PICK p : p = [params EXCEPT !.page = n]
  OBVIOUS
<1>3. /\ p \in Param /\ p.page = n /\ p.size = params.size /\ p.sources = params.sources
      /\ Entry(p) = Entry(params)
  BY <1>1, <1>2 DEF Fits, Param, Entry
<1>4. (n - 1) * params.size < MaxRows
  <2>1. PICK page \in Nat, size \in Nat : page = params.page /\ size = params.size
    BY <1>1, ParamFields DEF Fits
  <2>2. page > 0 /\ size > 0 /\ (page - 1) * size < MaxRows /\ n \in Nat /\ n > 0
        /\ MaxRows \in Nat
    BY <1>1, <2>1, ParamFields, Bounds DEF Fits
  <2>3. \/ page > 1 /\ n \in {1, page - 1}
        \/ page < Pages(total, size) /\ n \in {page + 1, Pages(total, size)}
    BY <2>1, Zenon DEF ChoosePage
  <2>4. CASE page > 1 /\ n \in {1, page - 1}
    <3>1. (n - 1) * size <= (page - 1) * size
      BY <2>2, <2>4
    <3>2. (n - 1) * size \in Int /\ (page - 1) * size \in Int
      BY <2>2
    <3> QED
      BY <2>1, <2>2, <3>1, <3>2
  <2>5. CASE page < Pages(total, size) /\ n \in {page + 1, Pages(total, size)}
    <3>1. total \in Nat /\ total <= MaxRows
      BY <2>2 DEF ViewInv, RestInv, FlagsInv, DataInv
    <3>2. n <= Pages(total, size)
      <4>1. Pages(total, size) \in Int
        BY <2>2, <3>1 DEF Pages
      <4> QED
        BY <2>1, <2>5, <4>1
    <3>3. (n - 1) * size < total
      BY <2>2, <3>1, <3>2, LastPageHasRows
    <3>4. (n - 1) * size \in Int
      BY <2>2
    <3> QED
      BY <2>1, <2>2, <3>1, <3>3, <3>4
  <2> QED
    BY <2>3, <2>4, <2>5
<1>5. Fits(p)
  BY <1>3, <1>4 DEF Fits
<1>6. UNCHANGED <<draft, narrowed>> /\ Choose(p)
  BY <1>2 DEF ChoosePage
<1>7. draft' \in BOOLEAN /\ narrowed' \in BOOLEAN
  BY <1>6 DEF ViewInv, RestInv, FlagsInv, DataInv
<1> QED
  BY <1>3, <1>5, <1>6, <1>7, ChoosingKeeps

(* The page of a row begins no later than the row.                         *)
LEMMA PageOfARow ==
    ASSUME NEW row \in Nat, NEW size \in Nat, size > 0
    PROVE  /\ PageOf(row, size) \in Nat /\ PageOf(row, size) > 0 /\ PageOf(row, size) <= row + 1
           /\ (PageOf(row, size) - 1) * size <= row
<1>1. PICK d \in Nat : d = row \div size
  OBVIOUS
<1>2. d * size <= row
  <2>1. size * (row \div size) + (row % size) = row /\ row % size \in 0 .. (size - 1)
    OBVIOUS
  <2> QED
    BY <1>1, <2>1
<1>3. d <= d * size
  BY <1>1
<1>4. PageOf(row, size) = d + 1
  BY <1>1 DEF PageOf
<1>5. (PageOf(row, size) - 1) * size = d * size
  BY <1>4
<1>6. d * size \in Nat
  OBVIOUS
<1> QED
  BY <1>2, <1>3, <1>4, <1>5, <1>6

LEMMA ChooseSizeKeeps ==
    ASSUME ViewInv, NEW size \in Sizes, ChooseSize(size)
    PROVE  ViewInv'
<1>1. Fits(params)
  BY DEF ViewInv, ParamsInv, RowInv, Fits
<1>2. PICK row \in Nat : row = (params.page - 1) * params.size
  <2>1. PICK m \in Nat, k \in Nat : m = params.page - 1 /\ k = params.size
    BY <1>1, ParamFields DEF Fits
  <2>2. m * k \in Nat
    OBVIOUS
  <2> QED
    BY <2>1, <2>2
<1>3. row < MaxRows /\ MaxRows \in Nat
  BY <1>1, <1>2, Bounds DEF Fits
<1>4. size \in Nat /\ size > 0
  BY Bounds
<1>5. PICK page \in Nat : page = PageOf(row, size)
  BY <1>4, PageOfARow
<1>6. page \in 1 .. MaxRows
  <2>1. page > 0 /\ page <= row + 1
    BY <1>4, <1>5, PageOfARow
  <2> QED
    BY <1>3, <2>1
<1>7. (page - 1) * size < MaxRows
  <2>1. (page - 1) * size <= row
    BY <1>4, <1>5, PageOfARow
  <2>2. (page - 1) * size \in Int
    BY <1>4
  <2> QED
    BY <1>3, <2>1, <2>2
<1>8. PICK p : p = [params EXCEPT !.size = size, !.page = page]
  OBVIOUS
<1>9. /\ p \in Param /\ p.page = page /\ p.size = size /\ p.sources = params.sources
      /\ Entry(p) = Entry(params)
  BY <1>1, <1>6, <1>8 DEF Fits, Param, Entry
<1>10. Fits(p)
  BY <1>7, <1>9 DEF Fits
<1>11. UNCHANGED <<draft, narrowed>> /\ Choose(p)
  <2>1. params \in Param
    BY <1>1 DEF Fits
  <2>2. [params EXCEPT !.size = size, !.page = PageOf((@ - 1) * params.size, size)]
          = [params EXCEPT !.size = size, !.page = page]
    BY <1>2, <1>5, <2>1 DEF Param
  <2> QED
    BY <1>8, <2>2, Zenon DEF ChooseSize
<1>12. draft' \in BOOLEAN /\ narrowed' \in BOOLEAN
  BY <1>11 DEF ViewInv, RestInv, FlagsInv, DataInv
<1> QED
  BY <1>9, <1>10, <1>11, <1>12, ChoosingKeeps

LEMMA SortKeeps ==
    ASSUME ViewInv, Sort
    PROVE  ViewInv'
<1>1. params \in Param
  BY DEF ViewInv, ParamsInv
<1>2. PICK order \in {"asc", "desc"} : order = IF params.order = "asc" THEN "desc" ELSE "asc"
  OBVIOUS
<1>3. PICK p : p = [params EXCEPT !.order = order, !.page = 1]
  OBVIOUS
<1>4. 1 \in 1 .. MaxRows
  BY Bounds
<1>5. p \in Param /\ p.page = 1 /\ p.sources = params.sources /\ Entry(p) = Entry(params)
  BY <1>1, <1>3, <1>4 DEF Param, Entry
<1>6. Fits(p)
  BY <1>5, FirstPageFits
<1>7. UNCHANGED <<draft, narrowed>> /\ Choose(p)
  BY <1>2, <1>3 DEF Sort
<1>8. draft' \in BOOLEAN /\ narrowed' \in BOOLEAN
  BY <1>7 DEF ViewInv, RestInv, FlagsInv, DataInv
<1> QED
  BY <1>5, <1>6, <1>7, <1>8, ChoosingKeeps

LEMMA ChooseAbsoluteKeeps ==
    ASSUME ViewInv, NEW range \in Absolute, ChooseAbsolute(range)
    PROVE  ViewInv'
<1>1. Fits(params)
  BY DEF ViewInv, ParamsInv, RowInv, Fits
<1>2. PICK p : p = [params EXCEPT !.range = range]
  OBVIOUS
<1>3. /\ p \in Param /\ p.page = params.page /\ p.size = params.size
      /\ p.sources = params.sources
  BY <1>1, <1>2 DEF Fits, Param, Span
<1>4. Fits(p)
  BY <1>1, <1>3, SamePageFits, Zenon
<1>5. narrowed' = narrowed /\ Choose(p) /\ draft' = TRUE
  BY <1>2 DEF ChooseAbsolute
<1>6. draft' \in BOOLEAN /\ narrowed' \in BOOLEAN
  BY <1>5 DEF ViewInv, RestInv, FlagsInv, DataInv
<1> QED
  BY <1>3, <1>4, <1>5, <1>6, ChoosingKeeps

LEMMA ChooseRelativeKeeps ==
    ASSUME ViewInv, ChooseRelative
    PROVE  ViewInv'
<1>1. Fits(params)
  BY DEF ViewInv, ParamsInv, RowInv, Fits
<1>2. PICK p : p = [params EXCEPT !.range = Relative]
  OBVIOUS
<1>3. /\ p \in Param /\ p.page = params.page /\ p.size = params.size
      /\ p.sources = params.sources
  BY <1>1, <1>2, Bounds DEF Fits, Param
<1>4. Fits(p)
  BY <1>1, <1>3, SamePageFits, Zenon
<1>5. /\ Work /\ PushOn(at, <<Entry(p)>>) /\ draft' = FALSE /\ Rerender(p, TRUE)
      /\ UNCHANGED <<home, live, resultVars, tableVars, infoVars, flagVars, timerVars, narrowed>>
  BY <1>2, Zenon DEF ChooseRelative
<1>6. Rendered(p) /\ ParamsInv'
  BY <1>4, <1>5, RerenderingKeeps
<1>7. params' = p /\ loading' \in BOOLEAN /\ error' \in BOOLEAN /\ SearchesInv'
  BY <1>6 DEF Rendered
<1>8. /\ HistoryInv /\ at \in DOMAIN urls
      /\ Entry(p) \in WrittenUrl /\ Entry(p).page = "home"
  BY <1>3, EntriesAreWritten, AddressAtHand DEF ViewInv
<1>9. /\ urls' \in Seq(WrittenUrl) /\ Len(urls') \in 1 .. MaxUrls /\ at' \in DOMAIN urls'
      /\ urls'[at'] = Entry(p)
  BY <1>5, <1>8, PushingOne
<1>10. HistoryInv'
  BY <1>8, <1>9 DEF HistoryInv
<1>11. UrlDescribesView'
  BY <1>7, <1>9, AddressIsNew
<1>12. AllSourcesStay'
  BY <1>3, <1>5, <1>7, SourcesStay
<1>13. RestInv'
  <2>1. work' \in 0 .. MaxWork
    BY <1>5, WorkIsBounded DEF ViewInv
  <2>2. /\ draft' = FALSE
        /\ UNCHANGED <<home, live, resultVars, clearing, infoVars, flagVars, timerVars, narrowed>>
    BY <1>5
  <2>3. FlagsInv'
    BY <1>7, <2>2 DEF ViewInv, RestInv, FlagsInv
  <2>4. DataInv'
    BY <2>1, <2>2 DEF ViewInv, RestInv, DataInv
  <2> QED
    BY <2>3, <2>4 DEF RestInv
<1> QED
  BY <1>6, <1>7, <1>10, <1>11, <1>12, <1>13 DEF ViewInv

LEMMA SearchInKeeps ==
    ASSUME ViewInv, NEW range \in Span, NEW page \in Nat, page \in {params.page, 1},
           SearchIn(range, page)
    PROVE  ViewInv'
<1>1. Fits(params)
  BY DEF ViewInv, ParamsInv, RowInv, Fits
<1>2. PICK p : p = [params EXCEPT !.range = range, !.page = page]
  OBVIOUS
<1>3. page \in 1 .. MaxRows
  BY <1>1, ParamFields, Bounds DEF Fits
<1>4. /\ p \in Param /\ p.page = page /\ p.size = params.size
      /\ p.sources = params.sources
  BY <1>1, <1>2, <1>3 DEF Fits, Param
<1>5. Fits(p)
  <2>1. CASE page = 1
    BY <1>4, <2>1, FirstPageFits
  <2>2. CASE page = params.page
    BY <1>1, <1>4, <2>2, SamePageFits, Zenon
  <2> QED
    BY <2>1, <2>2
<1>6. /\ Work /\ Trigger(p, <<Entry(p)>>)
      /\ UNCHANGED <<home, live, resultVars, tableVars, infoVars, firstLoad, timerVars, narrowed>>
  BY <1>2, Zenon DEF SearchIn
<1>7. /\ work' \in 0 .. MaxWork /\ tick' \in BOOLEAN /\ narrowed' \in BOOLEAN
      /\ narrowed' = narrowed /\ urlTimer' = urlTimer /\ cold' = cold
  BY <1>6, WorkIsBounded DEF ViewInv, RestInv, FlagsInv, DataInv
<1> QED
  BY <1>4, <1>5, <1>6, <1>7, TriggeringKeeps

LEMMA ApplyKeeps ==
    ASSUME ViewInv, Apply
    PROVE  ViewInv'
<1>1. params.range \in Span /\ params.page \in Nat
  BY ParamFields DEF ViewInv, ParamsInv
<1>2. SearchIn(params.range, params.page)
  BY DEF Apply
<1> QED
  BY <1>1, <1>2, SearchInKeeps

LEMMA ZoomKeeps ==
    ASSUME ViewInv, NEW range \in Absolute, Zoom(range)
    PROVE  ViewInv'
<1>1. range \in Span /\ params.page \in Nat
  BY ParamFields DEF ViewInv, ParamsInv, Span
<1>2. SearchIn(range, params.page)
  BY DEF Zoom
<1> QED
  BY <1>1, <1>2, SearchInKeeps

LEMMA FitRangeToDataKeeps ==
    ASSUME ViewInv, NEW range \in Absolute, FitRangeToData(range)
    PROVE  ViewInv'
<1>1. range \in Span /\ 1 \in Nat
  BY DEF Span
<1>2. SearchIn(range, 1)
  BY DEF FitRangeToData
<1> QED
  BY <1>1, <1>2, SearchInKeeps

LEMMA OpenWorkspaceKeeps ==
    ASSUME ViewInv, NEW view \in Saved, OpenWorkspace(view)
    PROVE  ViewInv'
<1>1. params \in Param /\ names \in (SUBSET Source) \union {None}
  BY DEF ViewInv, ParamsInv, RestInv, FlagsInv, DataInv
<1>2. /\ view.query \in Query /\ view.range \in Span /\ view.sources \in SUBSET Source
      /\ view.order \in {"asc", "desc"}
  BY SavedAssumption
<1>3. PICK p : p = [params EXCEPT !.query = view.query, !.range = view.range,
                                  !.sources = view.sources, !.order = view.order, !.page = 1]
  OBVIOUS
<1>4. 1 \in 1 .. MaxRows
  BY Bounds
<1>5. p \in Param /\ p.page = 1
  BY <1>1, <1>2, <1>3, <1>4 DEF Param
<1>6. Fits(p)
  BY <1>5, FirstPageFits
<1>7. PICK known : known = IF names = None THEN p ELSE WithSources(names, names, p)
  OBVIOUS
<1>8. Fits(known) /\ Entry(known) = Entry(p)
  <2>1. CASE names = None
    BY <1>6, <1>7, <2>1, Zenon
  <2>2. CASE names # None
    <3>1. /\ Fits(WithSources(names, names, p))
          /\ WithSources(names, names, p).query = p.query
          /\ WithSources(names, names, p).range = p.range
      BY <1>1, <1>6, <2>2, WithSourcesFits
    <3> QED
      BY <1>7, <2>2, <3>1, Zenon DEF Entry
  <2> QED
    BY <2>1, <2>2
<1>9. /\ Work /\ home /\ Trigger(known, <<Entry(p)>>)
      /\ UNCHANGED <<home, live, resultVars, tableVars, infoVars, firstLoad, timerVars>>
      /\ narrowed' = (names # None /\ known.sources # names)
  BY <1>3, <1>7, Zenon DEF OpenWorkspace
<1>10. /\ work' \in 0 .. MaxWork /\ tick' \in BOOLEAN /\ narrowed' \in BOOLEAN
       /\ (home /\ names # None /\ ~narrowed') => known.sources = names
       /\ urlTimer' = urlTimer /\ cold' = cold
  BY <1>9, WorkIsBounded DEF ViewInv, RestInv, FlagsInv, DataInv
<1> QED
  BY <1>5, <1>8, <1>9, <1>10, TriggeringKeeps

LEMMA LiveChangesKeeps ==
    ASSUME ViewInv, LiveChanges
    PROVE  ViewInv'
<1>1. Fits(params)
  BY DEF ViewInv, ParamsInv, RowInv, Fits
<1>2. /\ Work /\ live' = ~live /\ Rerender(params, FALSE)
      /\ UNCHANGED <<home, resultVars, urlVars, tableVars, infoVars, flagVars, timerVars, draft,
                     narrowed>>
  BY DEF LiveChanges
<1>3. Rendered(params) /\ ParamsInv'
  BY <1>1, <1>2, RerenderingKeeps
<1>4. params' = params /\ loading' \in BOOLEAN /\ error' \in BOOLEAN /\ SearchesInv'
  BY <1>3 DEF Rendered
<1>5. RestInv'
  <2>1. FlagsInv'
    BY <1>2, <1>4, WorkIsBounded DEF ViewInv, RestInv, FlagsInv
  <2>2. DataInv'
    BY <1>2, <1>4, WorkIsBounded DEF ViewInv, RestInv, DataInv
  <2> QED
    BY <2>1, <2>2 DEF RestInv
<1>6. HistoryInv' /\ UrlDescribesView' /\ AllSourcesStay'
  BY <1>2, <1>4, HistoryStays, AddressStays, SourcesStay
<1> QED
  BY <1>3, <1>4, <1>5, <1>6 DEF ViewInv

-----------------------------------------------------------------------------
(* Deleting and clearing.                                                  *)

LEMMA TableStepsKeep ==
    ASSUME ViewInv, DeleteLogs \/ DeleteFails \/ ClearLogs \/ ClearFails
    PROVE  ViewInv'
<1>1. /\ UNCHANGED <<home, live, searchVars, resultVars, urlVars, refresh, infoVars, flagVars,
                     timerVars, draft, narrowed>>
      /\ Work \/ work' = work
      /\ clearing' \in BOOLEAN
      /\ deleting' \in {deleting, None, [params |-> params, here |-> TRUE]}
  BY DEF DeleteLogs, DeleteFails, ClearLogs, ClearFails, ViewInv, RestInv, FlagsInv, DataInv
<1>2. deleting' \in [params : Param, here : BOOLEAN] \union {None}
  <2>1. [params |-> params, here |-> TRUE] \in [params : Param, here : BOOLEAN]
    BY DEF ViewInv, ParamsInv
  <2> QED
    BY <1>1, <2>1 DEF ViewInv, ParamsInv
<1>3. ParamsInv' /\ SearchesInv' /\ HistoryInv' /\ UrlDescribesView' /\ AllSourcesStay'
  BY <1>1, <1>2, ParamsStay, SearchesStay, HistoryStays, AddressStays, SourcesStay
<1>4. RestInv'
  <2>1. work' \in 0 .. MaxWork
    BY <1>1, WorkIsBounded DEF ViewInv, RestInv, FlagsInv, DataInv
  <2>2. FlagsInv'
    BY <1>1, <2>1 DEF ViewInv, RestInv, FlagsInv
  <2>3. DataInv'
    BY <1>1, <2>1 DEF ViewInv, RestInv, DataInv
  <2> QED
    BY <2>2, <2>3 DEF RestInv
<1> QED
  BY <1>3, <1>4 DEF ViewInv

(* When all the sources that there were are selected, all the new ones are.*)
LEMMA NoticingKeepsAll ==
    ASSUME ViewInv, NEW S \in SUBSET Source, Notice(S)
    PROVE  /\ Fits(Noticed(S))
           /\ Entry(Noticed(S)) = Entry(params)
           /\ names' = S
           /\ narrowed' \in BOOLEAN
           /\ (home /\ ~narrowed') => Noticed(S).sources = S
<1>1. Fits(params) /\ names \in (SUBSET Source) \union {None} /\ params.sources \in SUBSET Source
  BY ParamFields DEF ViewInv, ParamsInv, RestInv, FlagsInv, DataInv, RowInv, Fits
<1>2. /\ names' = S
      /\ narrowed' = IF home /\ names = None THEN Noticed(S).sources # S ELSE narrowed
  BY DEF Notice
<1>3. narrowed' \in BOOLEAN
  BY <1>2 DEF ViewInv, RestInv, FlagsInv, DataInv
<1>4. CASE ~home
  BY <1>1, <1>2, <1>3, <1>4, Zenon DEF Noticed
<1>5. CASE home
  <2>1. Noticed(S) = WithSources(names, S, params)
    BY <1>5, Zenon DEF Noticed
  <2>2. /\ Fits(Noticed(S))
        /\ Noticed(S).query = params.query /\ Noticed(S).range = params.range
        /\ Noticed(S).sources = NextSources(names, S, params.sources)
    BY <1>1, <2>1, WithSourcesFits
  <2>3. Entry(Noticed(S)) = Entry(params)
    BY <2>2, Zenon DEF Entry
  <2>4. ASSUME ~narrowed'
        PROVE  Noticed(S).sources = S
    <3>1. CASE names = None
      BY <1>2, <1>5, <2>4, <3>1, Zenon
    <3>2. CASE names # None
      <4>1. ~narrowed
        BY <1>2, <2>4, <3>2
      <4>2. params.sources = names
        BY <1>5, <3>2, <4>1 DEF ViewInv, AllSourcesStay
      <4>3. NextSources(names, S, params.sources) = S
        BY <3>2, <4>2 DEF NextSources
      <4> QED
        BY <2>2, <4>3, Zenon
    <3> QED
      BY <3>1, <3>2
  <2> QED
    BY <1>2, <1>3, <2>2, <2>3, <2>4, Zenon
<1> QED
  BY <1>4, <1>5

LEMMA LogsDeletedKeeps ==
    ASSUME ViewInv, NEW S \in SUBSET Source, LogsDeleted(S)
    PROVE  ViewInv'
<1>1. /\ deleting # None /\ deleting' = None /\ refresh' = deleting
      /\ Notice(S)
      /\ UNCHANGED <<home, live, resultVars, urlVars, clearing, infos, flagVars, timerVars, draft,
                     work>>
      /\ Render(asked, Noticed(S), FALSE, TRUE, FALSE)
  BY DEF LogsDeleted
<1>2. PICK p : p = Noticed(S)
  OBVIOUS
<1>3. /\ Fits(p) /\ Entry(p) = Entry(params) /\ names' = S /\ narrowed' \in BOOLEAN
      /\ (home /\ ~narrowed') => p.sources = S
  BY <1>1, <1>2, NoticingKeepsAll
<1>4. /\ ParamsInv /\ RestInv /\ SearchesInv /\ p \in Param /\ home \in BOOLEAN
      /\ asked \in Param \union {None}
  BY <1>3 DEF ViewInv, ParamsInv, RestInv, FlagsInv, DataInv, Fits
<1>5. Rendered(p)
  <2>1. Render(asked, p, FALSE, TRUE, FALSE) /\ refresh' # None /\ home' = home
    BY <1>1, <1>2
  <2> QED
    BY <1>4, <2>1, RenderingKeepsSearches
<1>6. /\ params' = p /\ loading' \in BOOLEAN /\ error' \in BOOLEAN /\ SearchesInv'
      /\ asked' \in Param \union {None}
      /\ search' \in [params : Param, alone : BOOLEAN] \union {None}
  BY <1>5 DEF Rendered
<1>7. ParamsInv'
  BY <1>1, <1>3, <1>4, <1>6 DEF ParamsInv, RowInv, Fits
<1>8. RestInv'
  <2>1. FlagsInv'
    BY <1>1, <1>3, <1>6 DEF ViewInv, RestInv, FlagsInv
  <2>2. DataInv'
    BY <1>1, <1>3, <1>6 DEF ViewInv, RestInv, DataInv
  <2> QED
    BY <2>1, <2>2 DEF RestInv
<1>9. HistoryInv' /\ UrlDescribesView'
  BY <1>1, <1>3, <1>6, HistoryStays, AddressStays
<1>10. AllSourcesStay'
  BY <1>1, <1>3, <1>6 DEF AllSourcesStay
<1> QED
  BY <1>6, <1>7, <1>8, <1>9, <1>10 DEF ViewInv

LEMMA InfoArrivesKeeps ==
    ASSUME ViewInv, NEW S \in SUBSET Source, InfoArrives(S)
    PROVE  ViewInv'
<1>1. /\ infos > 0 /\ infos' = infos - 1 /\ Notice(S)
      /\ UNCHANGED <<home, live, resultVars, urlVars, tableVars, flagVars, timerVars, draft, work>>
      /\ Rerender(Noticed(S), FALSE)
  BY DEF InfoArrives
<1>2. PICK p : p = Noticed(S)
  OBVIOUS
<1>3. /\ Fits(p) /\ Entry(p) = Entry(params) /\ names' = S /\ narrowed' \in BOOLEAN
      /\ (home /\ ~narrowed') => p.sources = S
  BY <1>1, <1>2, NoticingKeepsAll
<1>4. Rendered(p) /\ ParamsInv'
  BY <1>1, <1>2, <1>3, RerenderingKeeps
<1>5. params' = p /\ loading' \in BOOLEAN /\ error' \in BOOLEAN /\ SearchesInv'
  BY <1>4 DEF Rendered
<1>6. RestInv'
  <2>1. FlagsInv'
    BY <1>1, <1>3, <1>5 DEF ViewInv, RestInv, FlagsInv
  <2>2. DataInv'
    BY <1>1, <1>3, <1>5 DEF ViewInv, RestInv, DataInv
  <2> QED
    BY <2>1, <2>2 DEF RestInv
<1>7. HistoryInv' /\ UrlDescribesView'
  BY <1>1, <1>3, <1>5, HistoryStays, AddressStays
<1>8. AllSourcesStay'
  BY <1>1, <1>3, <1>5 DEF AllSourcesStay
<1> QED
  BY <1>4, <1>5, <1>6, <1>7, <1>8 DEF ViewInv

LEMMA LogsClearedKeeps ==
    ASSUME ViewInv, NEW S \in SUBSET Source, LogsCleared(S)
    PROVE  ViewInv'
<1>1. PICK p : p = IF home THEN WithSources(names, S, Cleared) ELSE Cleared
  OBVIOUS
<1>2. /\ clearing' = FALSE /\ names' = S /\ narrowed' = (home /\ p.sources # S)
      /\ shown' = None /\ total' = 0 /\ hasSearched' = home /\ firstLoad' = ~home
      /\ IF home THEN PushOn(at, <<Entry(p)>>) /\ draft' = FALSE ELSE UNCHANGED <<urls, at, draft>>
      /\ UNCHANGED <<home, live, refresh, deleting, infos, timerVars, work>>
      /\ Render(asked, p, TRUE, FALSE, FALSE)
  BY <1>1, Zenon DEF LogsCleared
<1>3. Fits(p) /\ p \in Param
  <2>1. CASE home
    BY <1>1, <2>1, ClearedFits, WithSourcesFits DEF Fits
  <2>2. CASE ~home
    BY <1>1, <2>2, ClearedFits
  <2> QED
    BY <2>1, <2>2
<1>4. ParamsInv /\ RestInv /\ SearchesInv /\ asked \in Param \union {None} /\ home \in BOOLEAN
  BY DEF ViewInv, ParamsInv, RestInv, FlagsInv, DataInv
<1>5. Rendered(p)
  <2>1. home' = home /\ Render(asked, p, TRUE, FALSE, FALSE)
    BY <1>2
  <2> QED
    BY <1>3, <1>4, <2>1, RenderingKeepsSearches
<1>6. /\ params' = p /\ loading' \in BOOLEAN /\ error' \in BOOLEAN /\ SearchesInv'
      /\ asked' \in Param \union {None}
      /\ search' \in [params : Param, alone : BOOLEAN] \union {None}
  BY <1>5 DEF Rendered
<1>7. ParamsInv'
  BY <1>2, <1>3, <1>4, <1>6 DEF ParamsInv, RowInv, Fits
<1>8. RestInv'
  <2>1. total' \in 0 .. MaxRows
    BY <1>2, Bounds
  <2>2. /\ narrowed' \in BOOLEAN /\ hasSearched' \in BOOLEAN /\ firstLoad' \in BOOLEAN
        /\ draft' \in BOOLEAN
    BY <1>2, <1>4 DEF RestInv, FlagsInv, DataInv
  <2>3. FlagsInv'
    BY <1>2, <1>4, <1>6, <2>1, <2>2 DEF RestInv, FlagsInv
  <2>4. DataInv'
    BY <1>2, <1>4, <1>6, <2>1, <2>2 DEF RestInv, DataInv
  <2> QED
    BY <2>3, <2>4 DEF RestInv
<1>9. HistoryInv' /\ UrlDescribesView'
  <2>1. CASE home
    <3>1. /\ HistoryInv /\ at \in DOMAIN urls
          /\ Entry(p) \in WrittenUrl /\ Entry(p).page = "home"
      BY <1>3, EntriesAreWritten, AddressAtHand DEF ViewInv
    <3>2. /\ urls' \in Seq(WrittenUrl) /\ Len(urls') \in 1 .. MaxUrls /\ at' \in DOMAIN urls'
          /\ urls'[at'] = Entry(p)
      BY <1>2, <2>1, <3>1, PushingOne
    <3>3. HistoryInv'
      BY <3>1, <3>2 DEF HistoryInv
    <3> QED
      BY <1>6, <3>2, <3>3, AddressIsNew
  <2>2. CASE ~home
    <3>1. HistoryInv'
      BY <1>2, <2>2, HistoryStays
    <3> QED
      BY <1>2, <2>2, <3>1 DEF UrlDescribesView
  <2> QED
    BY <2>1, <2>2
<1>10. AllSourcesStay'
  BY <1>2, <1>6 DEF AllSourcesStay
<1> QED
  BY <1>6, <1>7, <1>8, <1>9, <1>10 DEF ViewInv

-----------------------------------------------------------------------------
(* Leaving and coming back.                                                *)

(* Home is gone, and with it its searches.                                 *)
LEMMA UnmountingKeeps ==
    ASSUME ViewInv, home, Unmount, UNCHANGED <<params, asked, error, shown>>
    PROVE  /\ ParamsInv' /\ SearchesInv' /\ loading' \in BOOLEAN /\ home' = FALSE
           /\ UrlDescribesView' /\ AllSourcesStay'
<1>1. PICK mine \in BOOLEAN : mine = (refresh # None /\ refresh.here)
  OBVIOUS
<1>2. /\ home' = FALSE /\ search' = None
      /\ refresh' = IF mine THEN None ELSE refresh
      /\ deleting' = IF deleting = None THEN None ELSE [deleting EXCEPT !.here = FALSE]
      /\ loading' = (loading /\ search = None /\ ~mine)
  BY <1>1, Zenon DEF Unmount
<1>3. deleting' \in [params : Param, here : BOOLEAN] \union {None}
  BY <1>2 DEF ViewInv, ParamsInv
<1>4. ParamsInv'
  BY <1>2, <1>3 DEF ViewInv, ParamsInv, RowInv
<1>5. SearchesInv'
  BY <1>2 DEF ViewInv, SearchesInv, AskedInv, ShownInv, InFlightInv, SpinnerInv
<1>6. loading' \in BOOLEAN
  BY <1>2 DEF ViewInv, RestInv, FlagsInv, DataInv
<1> QED
  BY <1>2, <1>4, <1>5, <1>6 DEF UrlDescribesView, AllSourcesStay

LEMMA LeaveKeeps ==
    ASSUME ViewInv, Leave
    PROVE  ViewInv'
<1>1. /\ home /\ Work /\ PushOn(at, <<Plain("elsewhere")>>) /\ Unmount
      /\ UNCHANGED <<live, params, asked, error, resultVars, clearing, infoVars, flagVars,
                     timerVars, draft, narrowed>>
  BY DEF Leave
<1>2. /\ ParamsInv' /\ SearchesInv' /\ loading' \in BOOLEAN /\ home' = FALSE
      /\ UrlDescribesView' /\ AllSourcesStay'
  BY <1>1, UnmountingKeeps
<1>3. RestInv'
  <2>1. work' \in 0 .. MaxWork
    BY <1>1, WorkIsBounded DEF ViewInv
  <2>2. UNCHANGED <<live, error, resultVars, clearing, infoVars, flagVars, timerVars, draft,
                    narrowed>>
    BY <1>1
  <2>3. FlagsInv'
    BY <1>2, <2>2 DEF ViewInv, RestInv, FlagsInv
  <2>4. DataInv'
    BY <2>1, <2>2 DEF ViewInv, RestInv, DataInv
  <2> QED
    BY <2>3, <2>4 DEF RestInv
<1>4. HistoryInv'
  <2>1. HistoryInv /\ at \in DOMAIN urls /\ Plain("elsewhere") \in WrittenUrl
    BY EntriesAreWritten, AddressAtHand DEF ViewInv
  <2>2. urls' \in Seq(WrittenUrl) /\ Len(urls') \in 1 .. MaxUrls /\ at' \in DOMAIN urls'
    BY <1>1, <2>1, PushingOne
  <2> QED
    BY <1>2, <2>2 DEF HistoryInv
<1> QED
  BY <1>2, <1>3, <1>4 DEF ViewInv

(* Home is there again, at an address of Home.                             *)
LEMMA MountingKeeps ==
    ASSUME ViewInv, ~home, NEW p, Fits(p), NEW searched \in BOOLEAN, NEW i \in DOMAIN urls,
           NEW new, Mount(i, new, p, searched),
           \/ new = <<Plain("home")>>
           \/ /\ new = <<>> /\ urls[i].page = "home"
              /\ (urls[i].query # None /\ ~draft') => Entry(p) = urls[i],
           UNCHANGED <<live, resultVars, tableVars, names, urlTimer, cold>>,
           tick' \in BOOLEAN, draft' \in BOOLEAN, work' \in 0 .. MaxWork
    PROVE  ViewInv'
<1>1. PICK known : known = IF names = None THEN p ELSE WithSources(None, names, p)
  OBVIOUS
<1>2. /\ home' = TRUE
      /\ hasSearched' = (searched \/ firstLoad)
      /\ firstLoad' = FALSE
      /\ PushOn(i, IF firstLoad THEN Append(new, Entry(known)) ELSE new)
      /\ infos' = IF names = None THEN infos + 1 ELSE infos
      /\ narrowed' = (names # None /\ known.sources # names)
      /\ Render(None, known, TRUE, loading, error)
  BY <1>1, Zenon DEF Mount
<1>3. names \in (SUBSET Source) \union {None} /\ firstLoad \in BOOLEAN
  BY DEF ViewInv, RestInv, FlagsInv, DataInv
<1>4. Fits(known) /\ known \in Param /\ Entry(known) = Entry(p)
  <2>1. CASE names = None
    BY <1>1, <2>1, Zenon DEF Fits
  <2>2. CASE names # None
    <3>1. /\ Fits(WithSources(None, names, p))
          /\ WithSources(None, names, p).query = p.query
          /\ WithSources(None, names, p).range = p.range
      BY <1>3, <2>2, WithSourcesFits
    <3> QED
      BY <1>1, <2>2, <3>1, Zenon DEF Entry, Fits
  <2> QED
    BY <2>1, <2>2
<1>5. Rendered(known)
  <2>1. ParamsInv /\ RestInv /\ SearchesInv /\ loading \in BOOLEAN /\ error \in BOOLEAN
    BY DEF ViewInv, RestInv, FlagsInv, DataInv
  <2>2. Render(None, known, TRUE, loading, error) /\ home' = TRUE /\ refresh' = refresh
    BY <1>2
  <2> QED
    BY <1>4, <2>1, <2>2, RenderingKeepsSearches
<1>6. /\ params' = known /\ loading' \in BOOLEAN /\ error' \in BOOLEAN /\ SearchesInv'
      /\ asked' \in Param \union {None}
      /\ search' \in [params : Param, alone : BOOLEAN] \union {None}
  BY <1>5 DEF Rendered
<1>7. ParamsInv'
  BY <1>4, <1>6 DEF ViewInv, ParamsInv, RowInv, Fits
<1>8. RestInv'
  <2>1. /\ home' = TRUE /\ hasSearched' \in BOOLEAN /\ firstLoad' = FALSE
        /\ narrowed' \in BOOLEAN /\ infos' \in Nat
    BY <1>2, <1>3 DEF ViewInv, RestInv, FlagsInv, DataInv
  <2>2. FlagsInv'
    BY <1>6, <2>1 DEF ViewInv, RestInv, FlagsInv
  <2>3. DataInv'
    BY <1>6, <2>1 DEF ViewInv, RestInv, DataInv
  <2> QED
    BY <2>2, <2>3 DEF RestInv
<1>9. AllSourcesStay'
  BY <1>2, <1>6 DEF AllSourcesStay
<1>10. HistoryInv' /\ UrlDescribesView'
  <2>1. /\ HistoryInv /\ urls[i] \in WrittenUrl
        /\ Entry(known) \in WrittenUrl /\ Entry(known).page = "home"
        /\ Plain("home") \in WrittenUrl /\ Plain("home").page = "home"
        /\ Plain("home").query = None
    BY <1>4, EntriesAreWritten, AddressAtHand DEF ViewInv
  <2>2. CASE new = <<>> /\ ~firstLoad
    <3>1. urls' = urls /\ at' = i
      <4>1. PushOn(i, <<>>)
        BY <1>2, <2>2
      <4> QED
        BY <4>1, PushingNone
    <3>2. urls[i].page = "home" /\ ((urls[i].query # None /\ ~draft') => Entry(p) = urls[i])
      BY <2>2
    <3>3. HistoryInv'
      BY <2>1, <3>1, <3>2 DEF HistoryInv
    <3>4. UrlDescribesView'
      BY <1>4, <1>6, <3>1, <3>2 DEF UrlDescribesView
    <3> QED
      BY <3>3, <3>4
  <2>3. CASE new # <<>> /\ ~firstLoad
    <3>1. PushOn(i, <<Plain("home")>>)
      BY <1>2, <2>3
    <3>2. /\ urls' \in Seq(WrittenUrl) /\ Len(urls') \in 1 .. MaxUrls /\ at' \in DOMAIN urls'
          /\ urls'[at'] = Plain("home")
      BY <2>1, <3>1, PushingOne
    <3> QED
      BY <2>1, <3>2 DEF HistoryInv, UrlDescribesView
  <2>4. CASE firstLoad
    <3>1. PICK all : all = Append(new, Entry(known))
      OBVIOUS
    <3>2. new \in Seq(WrittenUrl)
      <4>1. PICK url \in WrittenUrl : url = Plain("home")
        BY <2>1
      <4>2. <<url>> \in Seq(WrittenUrl) /\ <<>> \in Seq(WrittenUrl)
        OBVIOUS
      <4> QED
        BY <4>1, <4>2, Zenon
    <3>3. all \in Seq(WrittenUrl) /\ all # <<>> /\ all[Len(all)] = Entry(known)
      <4>1. PICK url \in WrittenUrl : url = Entry(known)
        BY <2>1
      <4>2. all = Append(new, url)
        BY <3>1, <4>1
      <4> QED
        BY <3>2, <4>1, <4>2
    <3>4. Pushed(i, all)
      BY <1>2, <2>1, <2>4, <3>1, <3>3, PushingKeepsTheHistory
    <3>5. /\ urls' \in Seq(WrittenUrl) /\ Len(urls') \in 1 .. MaxUrls /\ at' \in DOMAIN urls'
          /\ urls'[at'] = Entry(known)
      BY <3>3, <3>4, Zenon DEF Pushed
    <3>6. UrlDescribesView'
      BY <1>6, <3>5, AddressIsNew
    <3> QED
      BY <2>1, <3>5, <3>6 DEF HistoryInv
  <2> QED
    BY <1>3, <2>2, <2>3, <2>4
<1> QED
  BY <1>6, <1>7, <1>8, <1>9, <1>10 DEF ViewInv

LEMMA ReturnHomeKeeps ==
    ASSUME ViewInv, ReturnHome
    PROVE  ViewInv'
<1>1. /\ ~home /\ Work /\ Mount(at, <<Plain("home")>>, params, hasSearched)
      /\ UNCHANGED <<live, resultVars, tableVars, names, timerVars, draft>>
  BY DEF ReturnHome
<1>2. /\ Fits(params) /\ hasSearched \in BOOLEAN /\ tick' \in BOOLEAN /\ draft' \in BOOLEAN
      /\ at \in DOMAIN urls
  BY <1>1 DEF ViewInv, ParamsInv, RestInv, FlagsInv, DataInv, RowInv, HistoryInv, Fits
<1>3. work' \in 0 .. MaxWork
  BY <1>1, WorkIsBounded DEF ViewInv
<1> QED
  BY <1>1, <1>2, <1>3, MountingKeeps

LEMMA ImportDoneKeeps ==
    ASSUME ViewInv, ImportDone
    PROVE  ViewInv'
<1>1. /\ ~home /\ Work /\ params' = Cleared /\ hasSearched' = FALSE /\ firstLoad' = TRUE
      /\ total' = 0 /\ infos' = infos + 1
      /\ UNCHANGED <<home, live, asked, search, loading, error, shown, urlVars, tableVars, names,
                     timerVars, draft, narrowed>>
  BY DEF ImportDone
<1>2. ParamsInv'
  BY <1>1, ClearedFits DEF ViewInv, ParamsInv, RowInv, Fits
<1>3. SearchesInv'
  BY <1>1 DEF ViewInv, SearchesInv, AskedInv, ShownInv, InFlightInv, SpinnerInv
<1>4. RestInv'
  <2>1. work' \in 0 .. MaxWork
    BY <1>1, WorkIsBounded DEF ViewInv
  <2>2. total' \in 0 .. MaxRows
    BY <1>1, Bounds
  <2>3. FlagsInv'
    BY <1>1 DEF ViewInv, RestInv, FlagsInv
  <2>4. DataInv'
    BY <1>1, <2>1, <2>2 DEF ViewInv, RestInv, DataInv
  <2> QED
    BY <2>3, <2>4 DEF RestInv
<1>5. HistoryInv'
  BY <1>1, HistoryStays
<1> QED
  BY <1>1, <1>2, <1>3, <1>4, <1>5 DEF ViewInv, UrlDescribesView, AllSourcesStay

-----------------------------------------------------------------------------
(* Through the history, and a load of the page.                            *)

LEMMA NavigateKeeps ==
    ASSUME ViewInv, NEW i \in DOMAIN urls, Navigate(i)
    PROVE  ViewInv'
<1>1. PICK url : url = urls[i]
  OBVIOUS
<1>2. PICK p : p = Synced(params, url)
  OBVIOUS
<1>3. PICK searched \in BOOLEAN : searched = (hasSearched /\ p = params)
  BY DEF ViewInv, RestInv, FlagsInv
<1>4. url \in WrittenUrl /\ Fits(params)
  BY <1>1, AddressAtHand DEF ViewInv, ParamsInv, RowInv, Fits
<1>5. /\ Fits(p) /\ p.sources = params.sources
      /\ (url.query # None /\ p.query = url.query) => Entry(p) = url
  BY <1>2, <1>4, SyncedFits
<1>6. /\ Work
      /\ UNCHANGED <<live, resultVars, urlTimer, cold>>
      /\ tick' = (tick \/ p # params)
      /\ \/ /\ home /\ url.page = "home"
            /\ at' = i
            /\ hasSearched' = searched
            /\ draft' = IF url.query = None THEN draft ELSE p.query # url.query
            /\ UNCHANGED <<home, urls, tableVars, infoVars, firstLoad, narrowed>>
            /\ Rerender(p, url.range = Relative)
         \/ /\ home /\ url.page # "home"
            /\ at' = i
            /\ Unmount
            /\ UNCHANGED <<urls, params, asked, error, clearing, infoVars, flagVars, draft,
                           narrowed>>
         \/ /\ ~home /\ url.page = "home"
            /\ draft' = IF url.query = None THEN draft ELSE p.query # url.query
            /\ UNCHANGED <<tableVars, names>>
            /\ Mount(i, <<>>, p, searched)
         \/ /\ ~home /\ url.page # "home"
            /\ at' = i
            /\ UNCHANGED <<home, urls, searchVars, tableVars, infoVars, flagVars, draft,
                           narrowed>>
  BY <1>1, <1>2, <1>3, Zenon DEF Navigate
<1>7. work' \in 0 .. MaxWork /\ tick' \in BOOLEAN
  BY <1>6, WorkIsBounded DEF ViewInv, RestInv, FlagsInv
<1>8. CASE /\ home /\ url.page = "home"
           /\ at' = i
           /\ hasSearched' = searched
           /\ draft' = IF url.query = None THEN draft ELSE p.query # url.query
           /\ UNCHANGED <<home, urls, tableVars, infoVars, firstLoad, narrowed>>
           /\ Rerender(p, url.range = Relative)
  <2>1. PICK forced \in BOOLEAN : forced = (url.range = Relative)
    OBVIOUS
  <2>2. Rendered(p) /\ ParamsInv'
    BY <1>5, <1>6, <1>8, <2>1, RerenderingKeeps
  <2>3. params' = p /\ loading' \in BOOLEAN /\ error' \in BOOLEAN /\ SearchesInv'
    BY <2>2 DEF Rendered
  <2>4. draft' \in BOOLEAN
    BY <1>8 DEF ViewInv, RestInv, FlagsInv
  <2>5. FlagsInv'
    BY <1>3, <1>6, <1>7, <1>8, <2>3, <2>4 DEF ViewInv, RestInv, FlagsInv
  <2>6. DataInv'
    BY <1>6, <1>7, <1>8 DEF ViewInv, RestInv, DataInv
  <2>7. HistoryInv'
    BY <1>1, <1>8 DEF ViewInv, HistoryInv
  <2>8. UrlDescribesView'
    BY <1>1, <1>5, <1>8, <2>3 DEF UrlDescribesView
  <2>9. AllSourcesStay'
    BY <1>5, <1>8, <2>3, SourcesStay
  <2> QED
    BY <2>2, <2>3, <2>5, <2>6, <2>7, <2>8, <2>9 DEF ViewInv, RestInv
<1>9. CASE /\ home /\ url.page # "home"
           /\ at' = i
           /\ Unmount
           /\ UNCHANGED <<urls, params, asked, error, clearing, infoVars, flagVars, draft,
                          narrowed>>
  <2>1. /\ ParamsInv' /\ SearchesInv' /\ loading' \in BOOLEAN /\ home' = FALSE
        /\ UrlDescribesView' /\ AllSourcesStay'
    BY <1>6, <1>9, UnmountingKeeps
  <2>2. FlagsInv'
    BY <1>6, <1>7, <1>9, <2>1 DEF ViewInv, RestInv, FlagsInv
  <2>3. DataInv'
    BY <1>6, <1>7, <1>9 DEF ViewInv, RestInv, DataInv
  <2>4. HistoryInv'
    BY <1>9, <2>1 DEF ViewInv, HistoryInv
  <2> QED
    BY <2>1, <2>2, <2>3, <2>4 DEF ViewInv, RestInv
<1>10. CASE /\ ~home /\ url.page = "home"
            /\ draft' = IF url.query = None THEN draft ELSE p.query # url.query
            /\ UNCHANGED <<tableVars, names>>
            /\ Mount(i, <<>>, p, searched)
  <2>1. draft' \in BOOLEAN
    BY <1>10 DEF ViewInv, RestInv, FlagsInv
  <2>2. (urls[i].query # None /\ ~draft') => Entry(p) = urls[i]
    BY <1>1, <1>5, <1>10
  <2> QED
    BY <1>1, <1>5, <1>6, <1>7, <1>10, <2>1, <2>2, MountingKeeps
<1>11. CASE /\ ~home /\ url.page # "home"
            /\ at' = i
            /\ UNCHANGED <<home, urls, searchVars, tableVars, infoVars, flagVars, draft,
                           narrowed>>
  <2>1. ParamsInv' /\ SearchesInv'
    BY <1>6, <1>11, ParamsStay, SearchesStay DEF ViewInv, ParamsInv
  <2>2. FlagsInv'
    BY <1>6, <1>7, <1>11 DEF ViewInv, RestInv, FlagsInv
  <2>3. DataInv'
    BY <1>6, <1>7, <1>11 DEF ViewInv, RestInv, DataInv
  <2>4. HistoryInv' /\ UrlDescribesView' /\ AllSourcesStay'
    BY <1>11 DEF ViewInv, HistoryInv, UrlDescribesView, AllSourcesStay
  <2> QED
    BY <2>1, <2>2, <2>3, <2>4 DEF ViewInv, RestInv
<1> QED
  BY <1>6, <1>8, <1>9, <1>10, <1>11

LEMMA SyncTimerKeeps ==
    ASSUME ViewInv, SyncTimer
    PROVE  ViewInv'
<1>1. Fits(params)
  BY DEF ViewInv, ParamsInv, RowInv, Fits
<1>2. /\ tick' = FALSE /\ hasSearched' = TRUE /\ Rerender(params, TRUE)
      /\ UNCHANGED <<home, live, resultVars, urlVars, tableVars, infoVars, firstLoad, urlTimer, cold,
                     draft, narrowed, work>>
  BY DEF SyncTimer
<1>3. Rendered(params) /\ ParamsInv'
  BY <1>1, <1>2, RerenderingKeeps
<1>4. params' = params /\ loading' \in BOOLEAN /\ error' \in BOOLEAN /\ SearchesInv'
  BY <1>3 DEF Rendered
<1>5. FlagsInv' /\ DataInv'
  <2>1. FlagsInv'
    BY <1>2, <1>4 DEF ViewInv, RestInv, FlagsInv
  <2>2. DataInv'
    BY <1>2 DEF ViewInv, RestInv, DataInv
  <2> QED
    BY <2>1, <2>2
<1>6. HistoryInv' /\ UrlDescribesView' /\ AllSourcesStay'
  BY <1>2, <1>4, HistoryStays, AddressStays, SourcesStay
<1> QED
  BY <1>3, <1>4, <1>5, <1>6 DEF ViewInv, RestInv

LEMMA ReloadKeeps ==
    ASSUME ViewInv, Reload
    PROVE  ViewInv'
<1>1. PICK there \in BOOLEAN : there = (urls[at].page = "home")
  OBVIOUS
<1>2. /\ Work /\ home' = there /\ live' = FALSE
      /\ refresh' = None /\ deleting' = None /\ clearing' = FALSE
      /\ shown' = None
      /\ names' = None /\ infos' = IF there THEN 1 ELSE 0
      /\ hasSearched' = (hasSearched \/ (there /\ firstLoad))
      /\ firstLoad' = (firstLoad /\ ~there)
      /\ IF there /\ firstLoad THEN PushOn(at, <<Entry(params)>>) ELSE UNCHANGED urlVars
      /\ urlTimer' = FALSE /\ tick' = FALSE
      /\ cold' = CASE urls[at].query = None -> "push"
                   [] urls[at].query = Empty -> "sync"
                   [] OTHER -> "info"
      /\ params' = params
      /\ search' = IF there /\ hasSearched' THEN [params |-> params, alone |-> TRUE] ELSE None
      /\ asked' = IF search' = None THEN None ELSE params
      /\ loading' = (search' # None)
      /\ error' = FALSE
      /\ narrowed' = FALSE
      /\ UNCHANGED <<total, draft>>
  BY <1>1, Zenon DEF Reload
<1>3. params \in Param /\ RowInv
  BY DEF ViewInv, ParamsInv
<1>4. cold' \in {"push", "sync", "info"}
  BY <1>2
<1>5. /\ search' \in [params : Param, alone : BOOLEAN] \union {None}
      /\ search' # None <=> (home' /\ hasSearched')
      /\ search' # None => search'.params = params /\ search'.alone
  <2>1. CASE there /\ hasSearched'
    <3>1. search' = [params |-> params, alone |-> TRUE]
      BY <1>2, <2>1
    <3>2. search' \in [params : Param, alone : BOOLEAN]
      BY <1>3, <3>1
    <3>3. search' # None
      BY <3>2, NoneIsNoObject
    <3> QED
      BY <1>2, <2>1, <3>1, <3>2, <3>3
  <2>2. CASE ~(there /\ hasSearched')
    <3>1. search' = None /\ home' = there
      BY <1>2, <2>2
    <3> QED
      BY <2>2, <3>1
  <2> QED
    BY <2>1, <2>2
<1>6. ParamsInv'
  BY <1>2, <1>3, <1>5 DEF ParamsInv, RowInv
<1>7. SearchesInv'
  <2>1. /\ asked' = IF search' = None THEN None ELSE params
        /\ loading' = (search' # None)
        /\ params' = params /\ refresh' = None /\ home' = there
    BY <1>2
  <2> QED
    BY <1>5, <2>1 DEF SearchesInv, AskedInv, ShownInv, InFlightInv, SpinnerInv
<1>8. FlagsInv'
  BY <1>1, <1>2 DEF ViewInv, RestInv, FlagsInv
<1>9. DataInv'
  <2>1. work' \in 0 .. MaxWork /\ infos' \in Nat
    BY <1>1, <1>2, WorkIsBounded DEF ViewInv
  <2>2. shown' = None /\ names' = None /\ total' = total
    BY <1>2
  <2> QED
    BY <1>4, <2>1, <2>2 DEF ViewInv, RestInv, DataInv
<1>10. HistoryInv'
  <2>1. /\ HistoryInv /\ at \in DOMAIN urls
        /\ Entry(params) \in WrittenUrl /\ Entry(params).page = "home"
    BY <1>3, EntriesAreWritten, AddressAtHand DEF ViewInv
  <2>2. CASE there /\ firstLoad
    <3>1. /\ urls' \in Seq(WrittenUrl) /\ Len(urls') \in 1 .. MaxUrls /\ at' \in DOMAIN urls'
          /\ urls'[at'] = Entry(params)
      BY <1>2, <2>1, <2>2, PushingOne
    <3> QED
      BY <2>1, <3>1 DEF HistoryInv
  <2>3. CASE ~(there /\ firstLoad)
    <3>1. urls' = urls /\ at' = at /\ home' = there
      BY <1>2, <2>3
    <3> QED
      BY <1>1, <2>1, <3>1 DEF HistoryInv
  <2> QED
    BY <2>2, <2>3
<1>11. UrlDescribesView'
  BY <1>4 DEF UrlDescribesView
<1>12. AllSourcesStay'
  BY <1>2 DEF AllSourcesStay
<1> QED
  BY <1>6, <1>7, <1>8, <1>9, <1>10, <1>11, <1>12 DEF ViewInv, RestInv

(* The timers of the module after a load.                                  *)
LEMMA ColdSyncKeeps ==
    ASSUME ViewInv, ColdSync
    PROVE  ViewInv'
<1>1. PICK url : url = urls[at]
  OBVIOUS
<1>2. PICK p : p = Synced(params, url)
  OBVIOUS
<1>3. url \in WrittenUrl /\ Fits(params)
  BY <1>1, AddressAtHand DEF ViewInv, ParamsInv, RowInv, Fits
<1>4. /\ Fits(p) /\ p.sources = params.sources
      /\ (url.query # None /\ p.query = url.query) => Entry(p) = url
  BY <1>2, <1>3, SyncedFits
<1>5. PICK forced \in BOOLEAN : forced = (url.range = Relative)
  OBVIOUS
<1>6. /\ cold' = "done"
      /\ tick' = (tick \/ p # params)
      /\ hasSearched' = (hasSearched /\ p = params)
      /\ draft' = IF url.query = None THEN draft ELSE p.query # url.query
      /\ UNCHANGED <<home, live, resultVars, urlVars, tableVars, infoVars, firstLoad, urlTimer,
                     narrowed, work>>
      /\ Rerender(p, forced)
  BY <1>1, <1>2, <1>5, Zenon DEF ColdSync
<1>7. Rendered(p) /\ ParamsInv'
  BY <1>4, <1>6, RerenderingKeeps
<1>8. params' = p /\ loading' \in BOOLEAN /\ error' \in BOOLEAN /\ SearchesInv'
  BY <1>7 DEF Rendered
<1>9. FlagsInv'
  <2>1. tick' \in BOOLEAN /\ hasSearched' \in BOOLEAN /\ draft' \in BOOLEAN
    BY <1>6 DEF ViewInv, RestInv, FlagsInv
  <2>2. UNCHANGED <<home, live, clearing, firstLoad, urlTimer, narrowed>>
    BY <1>6
  <2> QED
    BY <1>8, <2>1, <2>2 DEF ViewInv, RestInv, FlagsInv
<1>10. DataInv'
  BY <1>6 DEF ViewInv, RestInv, DataInv
<1>11. HistoryInv' /\ AllSourcesStay'
  BY <1>4, <1>6, <1>8, HistoryStays, SourcesStay
<1>12. UrlDescribesView'
  BY <1>1, <1>4, <1>6, <1>8 DEF UrlDescribesView
<1> QED
  BY <1>7, <1>8, <1>9, <1>10, <1>11, <1>12 DEF ViewInv, RestInv

LEMMA ColdSearchKeeps ==
    ASSUME ViewInv, ColdSearch
    PROVE  ViewInv'
<1>1. PICK p : p = Synced(params, urls[at])
  OBVIOUS
<1>2. urls[at] \in WrittenUrl /\ Fits(params)
  BY AddressAtHand DEF ViewInv, ParamsInv, RowInv, Fits
<1>3. Fits(p) /\ p \in Param /\ p.sources = params.sources
  BY <1>1, <1>2, SyncedFits DEF Fits
<1>4. /\ cold' = "done"
      /\ tick' = (tick \/ p # params)
      /\ UNCHANGED <<home, live, resultVars, tableVars, infoVars, firstLoad, urlTimer, narrowed,
                     work>>
      /\ Trigger(p, <<Entry(p)>>)
  BY <1>1, Zenon DEF ColdSearch
<1>5. /\ tick' \in BOOLEAN /\ narrowed' \in BOOLEAN /\ work' \in 0 .. MaxWork
      /\ narrowed' = narrowed /\ cold' \in {cold, "done"}
  BY <1>4 DEF ViewInv, RestInv, FlagsInv, DataInv
<1> QED
  BY <1>3, <1>4, <1>5, TriggeringKeeps

LEMMA ColdClearKeeps ==
    ASSUME ViewInv, ColdClear
    PROVE  ViewInv'
<1>1. Fits(params)
  BY DEF ViewInv, ParamsInv, RowInv, Fits
<1>2. PICK p : p = [params EXCEPT !.query = Empty]
  OBVIOUS
<1>3. /\ p \in Param /\ p.page = params.page /\ p.size = params.size
      /\ p.sources = params.sources
      /\ params.query = Empty => p = params
  BY <1>1, <1>2, Bounds DEF Fits, Param
<1>4. Fits(p)
  BY <1>1, <1>3, SamePageFits, Zenon
<1>5. /\ cold' = "done"
      /\ urlTimer' = (urlTimer \/ params.query # Empty)
      /\ draft' = (draft \/ params.query = Empty)
      /\ UNCHANGED <<home, live, resultVars, urlVars, tableVars, infoVars, flagVars, tick, narrowed,
                     work>>
      /\ Rerender(p, FALSE)
  BY <1>2, Zenon DEF ColdClear
<1>6. Rendered(p) /\ ParamsInv'
  BY <1>4, <1>5, RerenderingKeeps
<1>7. params' = p /\ loading' \in BOOLEAN /\ error' \in BOOLEAN /\ SearchesInv'
  BY <1>6 DEF Rendered
<1>8. FlagsInv'
  <2>1. urlTimer' \in BOOLEAN /\ draft' \in BOOLEAN
    BY <1>5 DEF ViewInv, RestInv, FlagsInv
  <2>2. UNCHANGED <<home, live, clearing, hasSearched, firstLoad, tick, narrowed>>
    BY <1>5
  <2> QED
    BY <1>7, <2>1, <2>2 DEF ViewInv, RestInv, FlagsInv
<1>9. DataInv'
  BY <1>5 DEF ViewInv, RestInv, DataInv
<1>10. HistoryInv' /\ AllSourcesStay'
  BY <1>3, <1>5, <1>7, HistoryStays, SourcesStay
<1>11. UrlDescribesView'
  BY <1>5 DEF UrlDescribesView
<1> QED
  BY <1>6, <1>7, <1>8, <1>9, <1>10, <1>11 DEF ViewInv, RestInv

-----------------------------------------------------------------------------
(* What the server answers.                                                *)

LEMMA SearchEndsKeeps ==
    ASSUME ViewInv, (\E n \in 0 .. MaxRows : SearchAnswered(n)) \/ SearchFails
    PROVE  ViewInv'
<1>1. /\ search # None /\ search' = None /\ loading' = FALSE
      /\ \/ /\ shown' = [params |-> search.params, by |-> "viewer"]
            /\ total' \in 0 .. MaxRows /\ error' = error
         \/ UNCHANGED resultVars /\ error' = TRUE
      /\ UNCHANGED <<home, live, params, asked, urlVars, tableVars, infoVars, flagVars, timerVars,
                     draft, narrowed, work>>
  BY DEF SearchAnswered, SearchFails
<1>2. search.params \in Param
  BY <1>1 DEF ViewInv, ParamsInv
<1>3. shown' \in [params : Param, by : {"viewer", "table"}] \union {None} /\ total' \in 0 .. MaxRows
  BY <1>1, <1>2 DEF ViewInv, RestInv, DataInv
<1>4. ParamsInv'
  BY <1>1 DEF ViewInv, ParamsInv, RowInv
<1>5. SearchesInv'
  <2>1. AskedInv' /\ InFlightInv' /\ SpinnerInv'
    BY <1>1 DEF ViewInv, SearchesInv, AskedInv, InFlightInv, SpinnerInv
  <2>2. ShownInv'
    <3>1. CASE error' = TRUE
      BY <3>1 DEF ShownInv
    <3>2. CASE shown' = [params |-> search.params, by |-> "viewer"]
      <4>1. shown' \in [params : Param, by : {"viewer", "table"}]
        BY <1>2, <3>2
      <4>2. shown' # None
        BY <4>1, NoneIsNoObject
      <4> QED
        BY <1>1, <3>2, <4>2 DEF ViewInv, SearchesInv, InFlightInv, ShownInv
    <3> QED
      BY <1>1, <3>1, <3>2
  <2> QED
    BY <2>1, <2>2 DEF SearchesInv
<1>6. FlagsInv'
  BY <1>1 DEF ViewInv, RestInv, FlagsInv
<1>7. DataInv'
  BY <1>1, <1>3 DEF ViewInv, RestInv, DataInv
<1>8. HistoryInv' /\ UrlDescribesView' /\ AllSourcesStay'
  BY <1>1, HistoryStays, AddressStays, SourcesStay
<1> QED
  BY <1>4, <1>5, <1>6, <1>7, <1>8 DEF ViewInv, RestInv

LEMMA RefreshEndsKeeps ==
    ASSUME ViewInv, (\E n \in 0 .. MaxRows : RefreshAnswered(n)) \/ RefreshFails
    PROVE  ViewInv'
<1>1. /\ refresh # None /\ refresh' = None /\ loading' = FALSE
      /\ \/ /\ shown' = [params |-> refresh.params, by |-> "table"]
            /\ total' \in 0 .. MaxRows /\ error' = error
         \/ UNCHANGED resultVars /\ error' = TRUE
      /\ UNCHANGED <<home, live, params, asked, search, urlVars, deleting, clearing, infoVars,
                     flagVars, timerVars, draft, narrowed, work>>
  BY DEF RefreshAnswered, RefreshFails
<1>2. refresh.params \in Param
  BY <1>1 DEF ViewInv, ParamsInv
<1>3. shown' \in [params : Param, by : {"viewer", "table"}] \union {None} /\ total' \in 0 .. MaxRows
  BY <1>1, <1>2 DEF ViewInv, RestInv, DataInv
<1>4. ParamsInv'
  BY <1>1 DEF ViewInv, ParamsInv, RowInv
<1>5. SearchesInv'
  <2>1. AskedInv' /\ InFlightInv' /\ SpinnerInv'
    BY <1>1 DEF ViewInv, SearchesInv, AskedInv, InFlightInv, SpinnerInv
  <2>2. ShownInv'
    <3>1. CASE error' = TRUE
      BY <3>1 DEF ShownInv
    <3>2. CASE shown' = [params |-> refresh.params, by |-> "table"]
      <4>1. shown' \in [params : Param, by : {"viewer", "table"}]
        BY <1>2, <3>2
      <4>2. shown' # None
        BY <4>1, NoneIsNoObject
      <4> QED
        BY <3>2, <4>2 DEF ShownInv
    <3> QED
      BY <1>1, <3>1, <3>2
  <2> QED
    BY <2>1, <2>2 DEF SearchesInv
<1>6. FlagsInv'
  BY <1>1 DEF ViewInv, RestInv, FlagsInv
<1>7. DataInv'
  BY <1>1, <1>3 DEF ViewInv, RestInv, DataInv
<1>8. HistoryInv' /\ UrlDescribesView' /\ AllSourcesStay'
  BY <1>1, HistoryStays, AddressStays, SourcesStay
<1> QED
  BY <1>4, <1>5, <1>6, <1>7, <1>8 DEF ViewInv, RestInv

-----------------------------------------------------------------------------
(* The theorems of the log view.                                           *)

LEMMA ViewInvInit ==
    ASSUME ViewInit
    PROVE  ViewInv
<1>1. PICK first : first = [query |-> Empty, range |-> Initial, sources |-> {}, order |-> "desc",
                            size |-> DefaultSize, page |-> 1]
  OBVIOUS
<1>2. /\ home = TRUE /\ live = FALSE
      /\ params = first /\ asked = first
      /\ hasSearched = TRUE /\ firstLoad = FALSE
      /\ search = [params |-> first, alone |-> TRUE]
      /\ refresh = None /\ deleting = None /\ clearing = FALSE
      /\ shown = None /\ total = 0
      /\ loading = TRUE /\ error = FALSE
      /\ urls = <<Plain("home"), Entry(first)>> /\ at = 2
      /\ urlTimer = FALSE /\ tick = FALSE /\ cold = "push"
      /\ names = None /\ infos = 1
      /\ draft = FALSE /\ narrowed = FALSE
      /\ work = 0
  BY <1>1, Zenon DEF ViewInit
<1>3. first \in Param /\ first.page = 1
  <2>1. 1 \in 1 .. MaxRows /\ {} \in SUBSET Source
    BY Bounds
  <2> QED
    BY <1>1, <2>1, Bounds DEF Param
<1>4. Fits(first)
  BY <1>3, FirstPageFits
<1>5. /\ search \in [params : Param, alone : BOOLEAN]
      /\ search.params = first /\ search.alone /\ search # None
  <2>1. search \in [params : Param, alone : BOOLEAN] /\ search.params = first /\ search.alone
    BY <1>2, <1>3
  <2> QED
    BY <2>1, NoneIsNoObject
<1>6. ParamsInv
  BY <1>2, <1>4, <1>5 DEF ParamsInv, RowInv, Fits
<1>7. SearchesInv
  <2>1. /\ home = TRUE /\ params = first /\ asked = first /\ refresh = None /\ loading = TRUE
    BY <1>2
  <2> QED
    BY <1>5, <2>1 DEF SearchesInv, AskedInv, ShownInv, InFlightInv, SpinnerInv
<1>8. FlagsInv /\ DataInv
  <2>1. FlagsInv
    BY <1>2 DEF FlagsInv
  <2>2. DataInv
    BY <1>2, Bounds DEF DataInv
  <2> QED
    BY <2>1, <2>2
<1>9. HistoryInv
  <2>1. PICK plain \in WrittenUrl, entry \in WrittenUrl :
          plain = Plain("home") /\ entry = Entry(first) /\ entry.page = "home"
    BY <1>3, EntriesAreWritten
  <2>2. urls = <<plain, entry>>
    BY <1>2, <2>1
  <2>3. urls \in Seq(WrittenUrl) /\ Len(urls) = 2 /\ urls[2] = entry
    BY <2>2
  <2> QED
    BY <1>2, <2>1, <2>3, Bounds DEF HistoryInv
<1>10. UrlDescribesView /\ AllSourcesStay
  BY <1>2 DEF UrlDescribesView, AllSourcesStay
<1> QED
  BY <1>6, <1>7, <1>8, <1>9, <1>10 DEF ViewInv, RestInv

LEMMA ViewInvNext ==
    ASSUME ViewInv, [ViewNext]_viewVars
    PROVE  ViewInv'
<1>1. CASE \/ \E q \in Query : SearchFor(q)
           \/ ClearSearch \/ UrlTimer
           \/ \E S \in SUBSET Source : ChooseSources(S)
           \/ \E n \in 1 .. MaxRows : ChoosePage(n)
           \/ \E size \in Sizes \ {params.size} : ChooseSize(size)
           \/ Sort
  BY <1>1, SearchForKeeps, ClearSearchKeeps, UrlTimerKeeps, ChooseSourcesKeeps, ChoosePageKeeps,
     ChooseSizeKeeps, SortKeeps
<1>2. CASE \/ \E range \in Absolute : ChooseAbsolute(range)
           \/ ChooseRelative \/ Apply
           \/ \E range \in Absolute : Zoom(range)
           \/ \E range \in Absolute : FitRangeToData(range)
           \/ \E view \in Saved : OpenWorkspace(view)
           \/ LiveChanges
  BY <1>2, ChooseAbsoluteKeeps, ChooseRelativeKeeps, ApplyKeeps, ZoomKeeps, FitRangeToDataKeeps,
     OpenWorkspaceKeeps, LiveChangesKeeps
<1>3. CASE \/ DeleteLogs \/ DeleteFails
           \/ \E S \in SUBSET Source : LogsDeleted(S)
           \/ ClearLogs \/ ClearFails
           \/ \E S \in SUBSET Source : LogsCleared(S)
  BY <1>3, TableStepsKeep, LogsDeletedKeeps, LogsClearedKeeps
<1>4. CASE \/ Leave \/ ReturnHome \/ ImportDone
           \/ \E i \in DOMAIN urls : Navigate(i)
           \/ SyncTimer \/ Reload
           \/ ColdPush \/ ColdSync \/ ColdSearch \/ ColdClear
  BY <1>4, LeaveKeeps, ReturnHomeKeeps, ImportDoneKeeps, NavigateKeeps, SyncTimerKeeps,
     ReloadKeeps, ColdPushKeeps, ColdSyncKeeps, ColdSearchKeeps, ColdClearKeeps
<1>5. CASE \/ \E n \in 0 .. MaxRows : SearchAnswered(n)
           \/ SearchFails
           \/ \E n \in 0 .. MaxRows : RefreshAnswered(n)
           \/ RefreshFails
           \/ \E S \in SUBSET Source : InfoArrives(S)
  BY <1>5, SearchEndsKeeps, RefreshEndsKeeps, InfoArrivesKeeps
<1>6. CASE UNCHANGED viewVars
  <2> USE DEF viewVars
  <2>1. ParamsInv' /\ SearchesInv' /\ HistoryInv' /\ UrlDescribesView' /\ AllSourcesStay'
    BY <1>6, ParamsStay, SearchesStay, HistoryStays, AddressStays, SourcesStay
    DEF ViewInv, ParamsInv
  <2>2. FlagsInv' /\ DataInv'
    BY <1>6 DEF ViewInv, RestInv, FlagsInv, DataInv
  <2> QED
    BY <2>1, <2>2 DEF ViewInv, RestInv
<1> QED
  BY <1>1, <1>2, <1>3, <1>4, <1>5, <1>6, Zenon DEF ViewNext

LEMMA ViewInvHolds == ViewSpec => []ViewInv
<1>1. ViewInit => ViewInv
  BY ViewInvInit
<1>2. ViewInv /\ [ViewNext]_viewVars => ViewInv'
  BY ViewInvNext
<1> QED
  BY <1>1, <1>2, PTL DEF ViewSpec

LEMMA InvImpliesConsistent ==
    ASSUME ViewInv
    PROVE  ViewConsistent
<1>1. ViewTypeOK
  <2>1. urls \in Seq(Url)
    <3>1. WrittenUrl \subseteq Url
      BY DEF WrittenUrl, Url
    <3> QED
      BY <3>1 DEF ViewInv, HistoryInv
  <2>2. /\ {home, live, hasSearched, firstLoad, clearing, loading, error} \subseteq BOOLEAN
        /\ {urlTimer, tick, draft, narrowed} \subseteq BOOLEAN
    BY DEF ViewInv, RestInv, FlagsInv
  <2>3. /\ shown \in [params : Param, by : {"viewer", "table"}] \union {None}
        /\ total \in 0 .. MaxRows
        /\ cold \in {"push", "sync", "info", "done"}
        /\ names \in (SUBSET Source) \union {None}
        /\ infos \in Nat /\ work \in 0 .. MaxWork
    BY DEF ViewInv, RestInv, DataInv
  <2>4. /\ params \in Param /\ asked \in Param \union {None}
        /\ search \in [params : Param, alone : BOOLEAN] \union {None}
        /\ {refresh, deleting} \subseteq [params : Param, here : BOOLEAN] \union {None}
    BY DEF ViewInv, ParamsInv
  <2>5. Len(urls) \in 1 .. MaxUrls /\ at \in DOMAIN urls
    BY DEF ViewInv, HistoryInv
  <2> QED
    BY <2>1, <2>2, <2>3, <2>4, <2>5, Zenon DEF ViewTypeOK
<1>2. LoadingIsSearching
  BY NoneIsNoObject
  DEF ViewInv, ParamsInv, SearchesInv, AskedInv, InFlightInv, SpinnerInv, LoadingIsSearching
<1> QED
  BY <1>1, <1>2 DEF ViewConsistent

LEMMA InvImpliesShown ==
    ASSUME ViewInv
    PROVE  ShownIsAsked
BY NoneIsNoObject DEF ViewInv, ParamsInv, SearchesInv, AskedInv, ShownInv, ShownIsAsked

(* When no search is in flight, the rows on screen that the viewer has     *)
(* searched for are those of the parameters beside them, whatever was      *)
(* changed, aborted, deleted or navigated to meanwhile (useSearchLogs.ts). *)
THEOREM RowsAreOfTheSearch == ViewSpec => []ShownIsAsked
<1>1. ViewInv => ShownIsAsked
  BY InvImpliesShown
<1> QED
  BY <1>1, ViewInvHolds, PTL

(* No page and no search is out of range, and the spinner of the table     *)
(* tells of a search (useLogResultStore.ts, LogViewerTable.tsx).           *)
THEOREM ViewStaysConsistent == ViewSpec => []ViewConsistent
<1>1. ViewInv => ViewConsistent
  BY InvImpliesConsistent
<1> QED
  BY <1>1, ViewInvHolds, PTL

(* The address names the query and the range that are searched for         *)
(* (useSearchQueryParams.ts), along every path through the history.        *)
THEOREM AddressDescribesView == ViewSpec => []UrlDescribesView
<1>1. ViewInv => UrlDescribesView
  BY DEF ViewInv
<1> QED
  BY <1>1, ViewInvHolds, PTL

(* Who has left out no source searches all, those that come later too      *)
(* (SidebarPanel.tsx).                                                     *)
THEOREM NewSourcesAreSearched == ViewSpec => []AllSourcesStay
<1>1. ViewInv => AllSourcesStay
  BY DEF ViewInv
<1> QED
  BY <1>1, ViewInvHolds, PTL

=============================================================================
