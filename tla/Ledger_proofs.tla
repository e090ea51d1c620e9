----------------------------- MODULE Ledger_proofs -----------------------------
(***************************************************************************)
(* Proofs about Ledger, for any meetings, jobs, proposals and bounds.  The *)
(* folds are characterised for every log: what a loop over the rows has    *)
(* collected after each of them.  The induction over the rows is that of   *)
(* Reaches, a fact about sets of numbers.                                  *)
(***************************************************************************)
EXTENDS Ledger, SequenceTheorems, FiniteSetTheorems, WellFoundedInduction, TLAPS

-----------------------------------------------------------------------------
(* Sets of numbers.                                                        *)

(* A set of numbers that is not empty has a first member. *)
LEMMA HasFirst ==
  ASSUME NEW S \in SUBSET Nat, S # {}
  PROVE  \E m \in S : \A j \in S : m <= j
<1>1. PICK m \in S : \A j \in S : ~(<<j, m>> \in OpToRel(<, Nat))
  BY NatLessThanWellFounded, WFMin
<1>2. \A j \in S : ~(j < m)
  BY <1>1 DEF OpToRel
<1> QED
  BY <1>2

(* A bounded one has a last member. *)
LEMMA HasLast ==
  ASSUME NEW N \in Nat, NEW S \in SUBSET (0..N), S # {}
  PROVE  \E m \in S : \A j \in S : j <= m
<1> DEFINE mirrored == {k \in Nat : \E j \in S : k = N - j}
<1>1. PICK m \in mirrored : \A j \in mirrored : m <= j
  <2>1. \A j \in S : N - j \in mirrored
    OBVIOUS
  <2>2. mirrored # {} /\ mirrored \in SUBSET Nat
    BY <2>1
  <2> HIDE DEF mirrored
  <2> QED
    BY <2>2, HasFirst
<1>2. \A j \in S : m <= N - j
  BY <1>1
<1>3. N - m \in S
  BY <1>1
<1> QED
  BY <1>2, <1>3

(* Induction: what holds at 0 and is passed on holds up to N. *)
LEMMA Reaches ==
  ASSUME NEW N \in Nat, NEW S, 0 \in S, \A n \in 0..(N - 1) : n \in S => n + 1 \in S
  PROVE  \A n \in 0..N : n \in S
<1> SUFFICES ASSUME (0..N) \ S # {}
             PROVE  FALSE
  OBVIOUS
<1>1. PICK m \in (0..N) \ S : \A j \in (0..N) \ S : m <= j
  <2>1. (0..N) \ S \in SUBSET Nat
    OBVIOUS
  <2> QED
    BY <2>1, HasFirst
<1>2. m # 0 /\ m - 1 \in 0..(N - 1)
  BY <1>1
<1>3. m - 1 \in S
  BY <1>1, <1>2
<1> QED
  BY <1>1, <1>2, <1>3

(* What Max and Min choose. *)
LEMMA MaxIsLast ==
  ASSUME NEW N \in Nat, NEW S \in SUBSET (0..N), S # {}
  PROVE  Max(S) \in S /\ \A j \in S : j <= Max(S)
<1>1. \E m \in S : \A j \in S : m >= j
  BY HasLast
<1> QED
  BY <1>1 DEF Max

LEMMA MinIsFirst ==
  ASSUME NEW S \in SUBSET Nat, S # {}
  PROVE  Min(S) \in S /\ \A j \in S : Min(S) <= j
<1>1. \E m \in S : \A j \in S : m <= j
  BY HasFirst
<1> QED
  BY <1>1 DEF Min

-----------------------------------------------------------------------------
(* Loops.  A loop is a function of the number of rows it has read.         *)

IsStep(A, N, step) == \A i \in 1..N : \A x \in A : step[i][x] \in A

IsLoop(A, N, start, step, f) ==
  /\ f \in [0..N -> A]
  /\ f[0] = start
  /\ \A i \in 1..N : f[i] = step[i][f[i - 1]]

LEMMA LoopGrows ==
  ASSUME NEW A, NEW n \in Nat, NEW start \in A, NEW step, IsStep(A, n + 1, step),
         NEW f, IsLoop(A, n, start, step, f)
  PROVE  \E g : IsLoop(A, n + 1, start, step, g)
<1> DEFINE g == [i \in 0..(n + 1) |-> IF i = n + 1 THEN step[n + 1][f[n]] ELSE f[i]]
<1>1. step[n + 1][f[n]] \in A
  <2>1. n + 1 \in 1..(n + 1) /\ f[n] \in A
    BY DEF IsLoop
  <2> QED
    BY <2>1 DEF IsStep
<1>2. g \in [0..(n + 1) -> A]
  BY <1>1 DEF IsLoop
<1>3. g[0] = start
  BY DEF IsLoop
<1>4. ASSUME NEW i \in 1..(n + 1)
      PROVE  g[i] = step[i][g[i - 1]]
  <2>1. CASE i = n + 1
    <3>1. g[i - 1] = f[n] /\ g[i] = step[n + 1][f[n]]
      BY <2>1
    <3> QED
      BY <2>1, <3>1
  <2>2. CASE i # n + 1
    <3>1. i \in 1..n /\ g[i] = f[i] /\ g[i - 1] = f[i - 1]
      BY <2>2
    <3> QED
      BY <3>1 DEF IsLoop
  <2> QED
    BY <2>1, <2>2
<1> HIDE DEF g
<1> QED
  BY <1>2, <1>3, <1>4 DEF IsLoop

LEMMA LoopExists ==
  ASSUME NEW A, NEW N \in Nat, NEW start \in A, NEW step, IsStep(A, N, step)
  PROVE  \E f : IsLoop(A, N, start, step, f)
<1> DEFINE Reached == {n \in 0..N : \E f : IsLoop(A, n, start, step, f)}
<1>1. 0 \in Reached
  <2> DEFINE f == [i \in 0..0 |-> start]
  <2>1. IsLoop(A, 0, start, step, f)
    BY DEF IsLoop
  <2> HIDE DEF f
  <2> QED
    BY <2>1
<1>2. ASSUME NEW n \in 0..(N - 1), n \in Reached
      PROVE  n + 1 \in Reached
  <2>1. PICK f : IsLoop(A, n, start, step, f)
    BY <1>2
  <2>2. n \in Nat /\ n + 1 \in 0..N
    OBVIOUS
  <2>3. IsStep(A, n + 1, step)
    BY DEF IsStep
  <2>4. \E g : IsLoop(A, n + 1, start, step, g)
    BY <2>1, <2>2, <2>3, LoopGrows
  <2> QED
    BY <2>2, <2>4
<1>3. N \in Reached
  <2> HIDE DEF Reached
  <2> QED
    BY <1>1, <1>2, Reaches
<1> QED
  BY <1>3

-----------------------------------------------------------------------------
(* upsert_by_id and remove_by_id.                                          *)

(* One row of the new list replaces the row of its id, or is the last.     *)
IsUpserted(new, items, row) ==
  /\ new \in Seq(RowType)
  /\ \/ /\ Len(new) = Len(items) /\ \E i \in 1..Len(items) : items[i].id = row.id
        /\ \A i \in 1..Len(items) :
             new[i] = IF items[i].id = row.id THEN row ELSE items[i]
     \/ /\ Len(new) = Len(items) + 1 /\ \A i \in 1..Len(items) : items[i].id # row.id
        /\ \A i \in 1..Len(items) : new[i] = items[i]
        /\ new[Len(items) + 1] = row

LEMMA UpsertIs ==
  ASSUME NEW items \in Seq(RowType), NEW row \in RowType
  PROVE  IsUpserted(Upsert(items, row), items, row)
<1>1. DOMAIN items = 1..Len(items) /\ \A i \in 1..Len(items) : items[i] \in RowType
  BY LenProperties, ElementOfSeq
<1>2. CASE \E i \in DOMAIN items : items[i].id = row.id
  <2> DEFINE new == [i \in 1..Len(items) |-> IF items[i].id = row.id THEN row ELSE items[i]]
  <2>1. Upsert(items, row) = new
    BY <1>1, <1>2 DEF Upsert
  <2>2. new \in Seq(RowType) /\ Len(new) = Len(items)
    BY <1>1
  <2> QED
    BY <1>1, <1>2, <2>1, <2>2 DEF IsUpserted
<1>3. CASE ~\E i \in DOMAIN items : items[i].id = row.id
  <2>1. Upsert(items, row) = Append(items, row)
    BY <1>3 DEF Upsert
  <2>2. /\ Append(items, row) \in Seq(RowType)
        /\ Len(Append(items, row)) = Len(items) + 1
        /\ \A i \in 1..Len(items) : Append(items, row)[i] = items[i]
        /\ Append(items, row)[Len(items) + 1] = row
    BY AppendProperties
  <2>3. \A i \in 1..Len(items) : items[i].id # row.id
    BY <1>1, <1>3
  <2> QED
    BY <2>1, <2>2, <2>3 DEF IsUpserted
<1> QED
  BY <1>2, <1>3

LEMMA RemoveIs ==
  ASSUME NEW items \in Seq(RowType), NEW id
  PROVE  /\ RemoveById(items, id) \in Seq(RowType)
         /\ \/ /\ RemoveById(items, id) = items
               /\ \A i \in 1..Len(items) : items[i].id # id
            \/ \E k \in 1..Len(items) :
                 /\ items[k].id = id
                 /\ Len(RemoveById(items, id)) = Len(items) - 1
                 /\ \A i \in 1..(Len(items) - 1) :
                      RemoveById(items, id)[i] = IF i < k THEN items[i] ELSE items[i + 1]
<1> DEFINE hits == {i \in DOMAIN items : items[i].id = id}
<1>1. /\ DOMAIN items = 1..Len(items) /\ Len(items) \in Nat
      /\ \A i \in 1..Len(items) : items[i] \in RowType
  BY LenProperties, ElementOfSeq
<1>2. CASE hits = {}
  <2>1. RemoveById(items, id) = items
    BY <1>2 DEF RemoveById
  <2> QED
    BY <1>1, <1>2, <2>1
<1>3. CASE hits # {}
  <2>1. PICK k \in hits : RemoveById(items, id) = RemoveAt(items, k)
    <3>1. (CHOOSE i \in hits : TRUE) \in hits
      BY <1>3
    <3>2. RemoveById(items, id) = RemoveAt(items, CHOOSE i \in hits : TRUE)
      BY <1>3 DEF RemoveById
    <3> QED
      BY <3>1, <3>2
  <2>2. k \in 1..Len(items) /\ items[k].id = id
    BY <1>1
  <2> DEFINE before == SubSeq(items, 1, k - 1)
             behind == SubSeq(items, k + 1, Len(items))
  <2>3. /\ before \in Seq(RowType) /\ Len(before) = k - 1
        /\ \A i \in 1..(k - 1) : before[i] = items[i]
    <3>1. \A i \in 1..(k - 1) : items[i] \in RowType
      BY <1>1, <2>2
    <3> QED
      BY <2>2, <3>1, SubSeqProperties
  <2>4. /\ behind \in Seq(RowType) /\ Len(behind) = Len(items) - k
        /\ \A i \in 1..(Len(items) - k) : behind[i] = items[k + i]
    <3>1. \A i \in (k + 1)..Len(items) : items[i] \in RowType
      BY <1>1, <2>2
    <3>2. /\ behind \in Seq(RowType)
          /\ Len(behind) = IF k + 1 <= Len(items) THEN Len(items) - (k + 1) + 1 ELSE 0
          /\ \A i \in 1..(Len(items) - (k + 1) + 1) : behind[i] = items[k + 1 + i - 1]
      BY <1>1, <2>2, <3>1, SubSeqProperties
    <3> QED
      BY <1>1, <2>2, <3>2
  <2>5. RemoveById(items, id) = before \o behind
    BY <2>1 DEF RemoveAt
  <2> HIDE DEF before, behind
  <2>6. /\ before \o behind \in Seq(RowType)
        /\ Len(before \o behind) = Len(items) - 1
        /\ \A i \in 1..(Len(items) - 1) :
             (before \o behind)[i] = IF i <= k - 1 THEN before[i] ELSE behind[i - (k - 1)]
    <3>1. /\ before \o behind \in Seq(RowType)
          /\ Len(before \o behind) = Len(before) + Len(behind)
          /\ \A i \in 1..(Len(before) + Len(behind)) :
               (before \o behind)[i] = IF i <= Len(before) THEN before[i]
                                      ELSE behind[i - Len(before)]
      BY <2>3, <2>4, ConcatProperties
    <3>2. Len(before) = k - 1 /\ Len(before) + Len(behind) = Len(items) - 1
      BY <1>1, <2>2, <2>3, <2>4
    <3> QED
      BY <3>1, <3>2
  <2>7. ASSUME NEW i \in 1..(Len(items) - 1)
        PROVE  (before \o behind)[i] = IF i < k THEN items[i] ELSE items[i + 1]
    <3>1. CASE i < k
      BY <1>1, <2>2, <2>3, <2>6, <3>1
    <3>2. CASE ~(i < k)
      <4>1. i - (k - 1) \in 1..(Len(items) - k) /\ k + (i - (k - 1)) = i + 1
        BY <1>1, <2>2, <3>2
      <4>2. (before \o behind)[i] = behind[i - (k - 1)] /\ ~(i <= k - 1)
        BY <1>1, <2>2, <2>6, <3>2
      <4>3. behind[i - (k - 1)] = items[i + 1]
        BY <2>4, <4>1
      <4> QED
        BY <3>2, <4>2, <4>3
    <3> QED
      BY <3>1, <3>2
  <2> QED
    BY <2>2, <2>5, <2>6, <2>7
<1> QED
  BY <1>2, <1>3

-----------------------------------------------------------------------------
(* What the loop of the collections with ids collects.                     *)

CollectStep(rows, kept, ended, items, i) ==
  IF i \in ended THEN RemoveById(items, rows[i].id)
  ELSE IF i \in kept THEN Upsert(items, rows[i])
  ELSE items

IsCollecting(rows, kept, ended, f) ==
  /\ f \in [0..Len(rows) -> Seq(RowType)]
  /\ f[0] = <<>>
  /\ \A i \in 1..Len(rows) : f[i] = CollectStep(rows, kept, ended, f[i - 1], i)

LEMMA StepIsTyped ==
  ASSUME NEW rows \in Seq(RowType), NEW kept, NEW ended,
         NEW items \in Seq(RowType), NEW i \in 1..Len(rows)
  PROVE  CollectStep(rows, kept, ended, items, i) \in Seq(RowType)
<1>1. rows[i] \in RowType
  BY ElementOfSeq
<1>2. /\ RemoveById(items, rows[i].id) \in Seq(RowType)
      /\ Upsert(items, rows[i]) \in Seq(RowType)
  BY <1>1, RemoveIs, UpsertIs DEF IsUpserted
<1> QED
  BY <1>2 DEF CollectStep

LEMMA CollectedIsALoop ==
  ASSUME NEW rows \in Seq(RowType), NEW kept, NEW ended
  PROVE  \E f : IsCollecting(rows, kept, ended, f) /\ Collected(rows, kept, ended) = f[Len(rows)]
<1> DEFINE N == Len(rows)
           Items == Seq(RowType)
           step == [i \in 1..N |->
                     [items \in Items |-> CollectStep(rows, kept, ended, items, i)]]
           IsAfter(f) ==
             f = [i \in 0..Len(rows) |->
                    IF i = 0 THEN <<>>
                    ELSE IF i \in ended THEN RemoveById(f[i - 1], rows[i].id)
                    ELSE IF i \in kept THEN Upsert(f[i - 1], rows[i])
                    ELSE f[i - 1]]
           after == CHOOSE f : IsAfter(f)
<1>1. N \in Nat /\ <<>> \in Items
  BY LenProperties, EmptySeq
<1>2. \E f : IsAfter(f)
  <2>1. \A i \in 1..N : \A items \in Items :
          /\ step[i][items] = CollectStep(rows, kept, ended, items, i)
          /\ step[i][items] \in Items
    BY StepIsTyped
  <2>2. PICK f : IsLoop(Items, N, <<>>, step, f)
    <3> DEFINE nil == <<>>
    <3>1. nil \in Items /\ IsStep(Items, N, step)
      BY <1>1, <2>1 DEF IsStep
    <3> HIDE DEF N, Items, step, nil
    <3>2. \E f : IsLoop(Items, N, nil, step, f)
      BY <1>1, <3>1, LoopExists
    <3> QED
      BY <3>2 DEF nil
  <2>3. \A i \in 1..N : f[i - 1] \in Items
    <3> HIDE DEF Items
    <3> QED
      BY <1>1, <2>2 DEF IsLoop
  <2>4. \A i \in 1..N : f[i] = CollectStep(rows, kept, ended, f[i - 1], i)
    <3> HIDE DEF Items, step
    <3> QED
      BY <2>1, <2>2, <2>3 DEF IsLoop
  <2>5. IsAfter(f)
    <3>1. \A i \in 0..N : i = 0 \/ i \in 1..N
      BY <1>1
    <3> HIDE DEF Items
    <3> QED
      BY <1>1, <2>2, <2>4, <3>1 DEF CollectStep, IsLoop
  <2> QED
    BY <2>5
<1>3. IsAfter(after)
  <2> HIDE DEF IsAfter
  <2> QED
    BY <1>2
<1>4. Collected(rows, kept, ended) = after[Len(rows)]
  BY DEF Collected
<1> HIDE DEF after
<1>5. /\ after[0] = <<>>
      /\ \A i \in 1..N : after[i] = CollectStep(rows, kept, ended, after[i - 1], i)
  <2>1. \A i \in 1..N : i \in 0..N /\ i # 0
    BY <1>1
  <2>2. 0 \in 0..N
    BY <1>1
  <2> QED
    BY <1>3, <2>1, <2>2 DEF CollectStep
<1>6. \A i \in 0..N : after[i] \in Items
  <2> DEFINE Fine == {i \in 0..N : after[i] \in Items}
  <2>1. 0 \in Fine
    <3>1. 0 \in 0..N
      BY <1>1
    <3> HIDE DEF Items
    <3> QED
      BY <1>1, <1>5, <3>1
  <2>2. \A n \in 0..(N - 1) : n \in Fine => n + 1 \in Fine
    <3> SUFFICES ASSUME NEW n \in 0..(N - 1), n \in Fine
                 PROVE  n + 1 \in Fine
      OBVIOUS
    <3>1. n + 1 \in 1..N /\ n + 1 \in 0..N /\ (n + 1) - 1 = n
      BY <1>1
    <3>2. after[n + 1] = CollectStep(rows, kept, ended, after[n], n + 1)
      BY <1>5, <3>1
    <3> QED
      BY <3>1, <3>2, StepIsTyped
  <2> HIDE DEF Fine
  <2>3. \A n \in 0..N : n \in Fine
    BY <1>1, <2>1, <2>2, Reaches
  <2> QED
    BY <2>3 DEF Fine
<1>7. after \in [0..N -> Items]
  <2>1. after = [i \in 0..N |-> after[i]]
    BY <1>3
  <2> HIDE DEF IsAfter, Items, N
  <2> QED
    BY <1>6, <2>1
<1> QED
  BY <1>4, <1>5, <1>7 DEF IsCollecting

(* The rows of an id, among the first n, that no later one of them ended.  *)
Alive(rows, kept, ended, n, id) ==
  {k \in kept : /\ k <= n /\ rows[k].id = id
               /\ \A d \in ended : k < d /\ d <= n => rows[d].id # id}

(* After n rows: the newest row of each id that is alive, in the order in  *)
(* which the ids came to life.                                             *)
Collects(rows, kept, ended, n, items) ==
  /\ \A i \in 1..Len(items) :
       \E k \in Alive(rows, kept, ended, n, items[i].id) :
         items[i] = rows[k] /\ \A l \in Alive(rows, kept, ended, n, items[i].id) : l <= k
  /\ \A id : Alive(rows, kept, ended, n, id) # {} =>
       \E i \in 1..Len(items) : items[i].id = id
  /\ \A i, j \in 1..Len(items) : i < j =>
       \E k \in Alive(rows, kept, ended, n, items[i].id) :
         \A l \in Alive(rows, kept, ended, n, items[j].id) : k < l

(* The rows that a loop reads are rows of the log; none both adds and ends. *)
ArePlaces(N, kept, ended) ==
  kept \subseteq 1..N /\ ended \subseteq 1..N /\ kept \cap ended = {}

AliveIsNext(rows, kept, ended, n, m) ==
  /\ m \in ended => Alive(rows, kept, ended, m, rows[m].id) = {}
  /\ m \in kept =>
       Alive(rows, kept, ended, m, rows[m].id)
         = Alive(rows, kept, ended, n, rows[m].id) \cup {m}
  /\ \A x : x # rows[m].id \/ m \notin kept \cup ended =>
       Alive(rows, kept, ended, m, x) = Alive(rows, kept, ended, n, x)

LEMMA AliveAfter ==
  ASSUME NEW rows, NEW N \in Nat, NEW n \in 0..(N - 1),
         NEW kept, NEW ended, ArePlaces(N, kept, ended)
  PROVE  AliveIsNext(rows, kept, ended, n, n + 1)
<1> DEFINE m == n + 1
<1>1. /\ \A k \in kept : k \in Nat /\ (k <= m <=> k <= n \/ k = m)
      /\ \A d \in ended : d \in Nat /\ (d <= m <=> d <= n \/ d = m)
  BY DEF ArePlaces
<1>2. ASSUME m \in ended
      PROVE  Alive(rows, kept, ended, m, rows[m].id) = {}
  <2> SUFFICES ASSUME NEW k \in Alive(rows, kept, ended, m, rows[m].id)
               PROVE  FALSE
    OBVIOUS
  <2>1. k \in kept /\ k <= m /\ k # m
    BY <1>2 DEF Alive, ArePlaces
  <2>2. k < m
    BY <1>1, <2>1
  <2> QED
    BY <1>2, <2>2 DEF Alive
<1>3. ASSUME NEW x, m \in ended => x # rows[m].id,
             m \in kept => x # rows[m].id
      PROVE  Alive(rows, kept, ended, m, x) = Alive(rows, kept, ended, n, x)
  <2>1. ASSUME NEW k \in Alive(rows, kept, ended, m, x)
        PROVE  k \in Alive(rows, kept, ended, n, x)
    BY <1>1, <1>3 DEF Alive
  <2>2. ASSUME NEW k \in Alive(rows, kept, ended, n, x)
        PROVE  k \in Alive(rows, kept, ended, m, x)
    BY <1>1, <1>3 DEF Alive
  <2> QED
    BY <2>1, <2>2
<1>4. ASSUME m \in kept
      PROVE  Alive(rows, kept, ended, m, rows[m].id)
               = Alive(rows, kept, ended, n, rows[m].id) \cup {m}
  <2>1. m \notin ended
    BY <1>4 DEF ArePlaces
  <2>2. ASSUME NEW k \in Alive(rows, kept, ended, m, rows[m].id), k # m
        PROVE  k \in Alive(rows, kept, ended, n, rows[m].id)
    BY <1>1, <2>2 DEF Alive
  <2>3. ASSUME NEW k \in Alive(rows, kept, ended, n, rows[m].id)
        PROVE  k \in Alive(rows, kept, ended, m, rows[m].id)
    BY <1>1, <2>1 DEF Alive
  <2>4. m \in Alive(rows, kept, ended, m, rows[m].id)
    BY <1>1, <1>4 DEF Alive
  <2> QED
    BY <2>2, <2>3, <2>4
<1> QED
  BY <1>2, <1>3, <1>4 DEF AliveIsNext

LEMMA CollectsRemoved ==
  ASSUME NEW rows \in Seq(RowType),
         NEW kept, NEW ended, ArePlaces(Len(rows), kept, ended),
         NEW n \in 0..(Len(rows) - 1),
         NEW items \in Seq(RowType), Collects(rows, kept, ended, n, items),
         n + 1 \in ended
  PROVE  Collects(rows, kept, ended, n + 1, RemoveById(items, rows[n + 1].id))
<1> DEFINE id == rows[n + 1].id
           new == RemoveById(items, id)
           A(x) == Alive(rows, kept, ended, n, x)
           B(x) == Alive(rows, kept, ended, n + 1, x)
<1>1. /\ new \in Seq(RowType) /\ Len(items) \in Nat /\ Len(rows) \in Nat
      /\ \/ new = items /\ \A i \in 1..Len(items) : items[i].id # id
         \/ \E k \in 1..Len(items) :
              /\ items[k].id = id /\ Len(new) = Len(items) - 1
              /\ \A i \in 1..(Len(items) - 1) :
                   new[i] = IF i < k THEN items[i] ELSE items[i + 1]
  BY RemoveIs, LenProperties
<1>2. B(id) = {} /\ \A x : x # id => B(x) = A(x)
  <2> HIDE DEF new
  <2>1. AliveIsNext(rows, kept, ended, n, n + 1)
    BY <1>1, AliveAfter
  <2> QED
    BY <2>1 DEF AliveIsNext
<1>3. \A x : x # id => B(x) = A(x)
  BY <1>2
<1>4. \A i, j \in 1..Len(items) : i < j => items[i].id # items[j].id
  <2> SUFFICES ASSUME NEW i \in 1..Len(items), NEW j \in 1..Len(items), i < j,
                      items[i].id = items[j].id
               PROVE  FALSE
    OBVIOUS
  <2>1. PICK k \in A(items[i].id) : \A l \in A(items[j].id) : k < l
    BY DEF Collects
  <2>2. k \in Nat
    BY <1>1 DEF Alive, ArePlaces
  <2> QED
    BY <2>1, <2>2
<1>5. PICK from \in [1..Len(new) -> 1..Len(items)] :
        /\ \A i \in 1..Len(new) : new[i] = items[from[i]] /\ items[from[i]].id # id
        /\ \A i, j \in 1..Len(new) : i < j => from[i] < from[j]
        /\ \A i \in 1..Len(items) : items[i].id # id =>
             \E j \in 1..Len(new) : from[j] = i
  <2>1. CASE new = items /\ \A i \in 1..Len(items) : items[i].id # id
    <3> DEFINE from == [i \in 1..Len(new) |-> i]
    <3>1. /\ from \in [1..Len(new) -> 1..Len(items)]
          /\ \A i \in 1..Len(new) : from[i] = i
      BY <2>1
    <3> HIDE DEF from, new
    <3> QED
      BY <1>1, <2>1, <3>1
  <2>2. ASSUME NEW k \in 1..Len(items), items[k].id = id, Len(new) = Len(items) - 1,
               \A i \in 1..(Len(items) - 1) :
                 new[i] = IF i < k THEN items[i] ELSE items[i + 1]
        PROVE  \E from \in [1..Len(new) -> 1..Len(items)] :
                 /\ \A i \in 1..Len(new) : new[i] = items[from[i]] /\ items[from[i]].id # id
                 /\ \A i, j \in 1..Len(new) : i < j => from[i] < from[j]
                 /\ \A i \in 1..Len(items) : items[i].id # id =>
                      \E j \in 1..Len(new) : from[j] = i
    <3> DEFINE from == [i \in 1..Len(new) |-> IF i < k THEN i ELSE i + 1]
    <3> HIDE DEF new
    <3>1. from \in [1..Len(new) -> 1..Len(items)]
      BY <1>1, <2>2
    <3>2. \A i \in 1..Len(new) : from[i] = IF i < k THEN i ELSE i + 1
      OBVIOUS
    <3> HIDE DEF from
    <3>3. \A i \in 1..Len(new) : new[i] = items[from[i]] /\ from[i] # k
      BY <1>1, <2>2, <3>2
    <3>4. \A i \in 1..Len(new) : items[from[i]].id # id
      <4> SUFFICES ASSUME NEW i \in 1..Len(new)
                   PROVE  items[from[i]].id # id
        OBVIOUS
      <4>1. from[i] \in 1..Len(items) /\ from[i] # k
        BY <3>1, <3>3
      <4>2. from[i] < k \/ k < from[i]
        BY <1>1, <4>1
      <4> QED
        BY <1>4, <2>2, <4>1, <4>2
    <3>5. \A i, j \in 1..Len(new) : i < j => from[i] < from[j]
      BY <1>1, <2>2, <3>2
    <3>6. \A i \in 1..Len(items) : items[i].id # id => \E j \in 1..Len(new) : from[j] = i
      <4> SUFFICES ASSUME NEW i \in 1..Len(items), i # k
                   PROVE  \E j \in 1..Len(new) : from[j] = i
        BY <2>2
      <4>1. CASE i < k
        <5>1. i \in 1..Len(new) /\ from[i] = i
          BY <1>1, <2>2, <3>2, <4>1
        <5> QED
          BY <5>1
      <4>2. CASE k < i
        <5>1. i - 1 \in 1..Len(new) /\ from[i - 1] = i
          BY <1>1, <2>2, <3>2, <4>2
        <5> QED
          BY <5>1
      <4> QED
        BY <1>1, <4>1, <4>2
    <3> QED
      BY <3>1, <3>3, <3>4, <3>5, <3>6
  <2> HIDE DEF new
  <2> QED
    BY <1>1, <2>1, <2>2
<1> HIDE DEF new
<1>6. \A i \in 1..Len(new) : from[i] \in 1..Len(items) /\ B(new[i].id) = A(items[from[i]].id)
  BY <1>3, <1>5
<1> HIDE DEF A, B
<1>7. \A i \in 1..Len(new) : \E k \in B(new[i].id) :
        new[i] = rows[k] /\ \A l \in B(new[i].id) : l <= k
  <2> SUFFICES ASSUME NEW i \in 1..Len(new)
               PROVE  \E k \in B(new[i].id) :
                        new[i] = rows[k] /\ \A l \in B(new[i].id) : l <= k
    OBVIOUS
  <2>1. PICK k \in A(items[from[i]].id) :
          items[from[i]] = rows[k] /\ \A l \in A(items[from[i]].id) : l <= k
    BY <1>6 DEF Collects, A
  <2> QED
    BY <1>5, <1>6, <2>1
<1>8. \A x : B(x) # {} => \E i \in 1..Len(new) : new[i].id = x
  <2> SUFFICES ASSUME NEW x, B(x) # {}
               PROVE  \E i \in 1..Len(new) : new[i].id = x
    OBVIOUS
  <2>1. x # id /\ A(x) # {}
    BY <1>2, <1>3
  <2>2. PICK i \in 1..Len(items) : items[i].id = x
    BY <2>1 DEF Collects, A
  <2>3. PICK j \in 1..Len(new) : from[j] = i
    BY <1>5, <2>1, <2>2
  <2> QED
    BY <1>5, <2>2, <2>3
<1>9. \A i, j \in 1..Len(new) : i < j =>
        \E k \in B(new[i].id) : \A l \in B(new[j].id) : k < l
  <2> SUFFICES ASSUME NEW i \in 1..Len(new), NEW j \in 1..Len(new), i < j
               PROVE  \E k \in B(new[i].id) : \A l \in B(new[j].id) : k < l
    OBVIOUS
  <2>1. from[i] < from[j] /\ from[i] \in 1..Len(items) /\ from[j] \in 1..Len(items)
    BY <1>5, <1>6
  <2>2. \A p, q \in 1..Len(items) : p < q =>
          \E k \in A(items[p].id) : \A l \in A(items[q].id) : k < l
    BY DEF Collects, A
  <2>3. PICK k \in A(items[from[i]].id) : \A l \in A(items[from[j]].id) : k < l
    <3> HIDE DEF A
    <3> QED
      BY <2>1, <2>2
  <2> QED
    BY <1>6, <2>3
<1> QED
  BY <1>7, <1>8, <1>9 DEF Collects, B, new

LEMMA CollectsUpserted ==
  ASSUME NEW rows \in Seq(RowType),
         NEW kept, NEW ended, ArePlaces(Len(rows), kept, ended),
         NEW n \in 0..(Len(rows) - 1),
         NEW items \in Seq(RowType), Collects(rows, kept, ended, n, items),
         n + 1 \in kept
  PROVE  Collects(rows, kept, ended, n + 1, Upsert(items, rows[n + 1]))
<1> DEFINE row == rows[n + 1]
           new == Upsert(items, row)
           A(x) == Alive(rows, kept, ended, n, x)
           B(x) == Alive(rows, kept, ended, n + 1, x)
<1>1. /\ Len(rows) \in Nat /\ Len(items) \in Nat /\ row \in RowType
      /\ n + 1 \in 1..Len(rows)
  <2>1. n + 1 \in 1..Len(rows) /\ Len(rows) \in Nat /\ Len(items) \in Nat
    BY LenProperties
  <2> QED
    BY <2>1, ElementOfSeq
<1>2. /\ new \in Seq(RowType)
      /\ \/ /\ Len(new) = Len(items) /\ \E i \in 1..Len(items) : items[i].id = row.id
            /\ \A i \in 1..Len(items) :
                 new[i] = IF items[i].id = row.id THEN row ELSE items[i]
         \/ /\ Len(new) = Len(items) + 1 /\ \A i \in 1..Len(items) : items[i].id # row.id
            /\ \A i \in 1..Len(items) : new[i] = items[i]
            /\ new[Len(items) + 1] = row
  <2>1. IsUpserted(Upsert(items, row), items, row)
    BY <1>1, UpsertIs
  <2> QED
    BY <2>1 DEF IsUpserted
<1>3. B(row.id) = A(row.id) \cup {n + 1} /\ \A x : x # row.id => B(x) = A(x)
  <2> HIDE DEF new
  <2>1. AliveIsNext(rows, kept, ended, n, n + 1)
    BY <1>1, AliveAfter
  <2> QED
    BY <2>1 DEF AliveIsNext
<1>4. \A x : \A k \in A(x) : k \in Nat /\ k <= n
  BY DEF Alive, ArePlaces
<1>5. \A i \in 1..Len(items) : items[i].id = row.id \/ new[i] = items[i]
  BY <1>2
<1>6. \A i \in 1..Len(new) :
        \/ i \in 1..Len(items) /\ items[i].id = row.id /\ new[i] = row
        \/ i \in 1..Len(items) /\ items[i].id # row.id /\ new[i] = items[i]
        \/ i = Len(items) + 1 /\ new[i] = row /\ A(row.id) = {}
  <2> SUFFICES ASSUME NEW i \in 1..Len(new), i \notin 1..Len(items)
               PROVE  i = Len(items) + 1 /\ new[i] = row /\ A(row.id) = {}
    BY <1>1, <1>2
  <2> HIDE DEF new
  <2>1. i = Len(items) + 1 /\ new[i] = row /\ \A j \in 1..Len(items) : items[j].id # row.id
    BY <1>1, <1>2
  <2>2. A(row.id) = {}
    BY <2>1 DEF Collects
  <2> QED
    BY <2>1, <2>2
<1>7. /\ 1..Len(items) \subseteq 1..Len(new)
      /\ (\A j \in 1..Len(items) : items[j].id # row.id) =>
           Len(items) + 1 \in 1..Len(new) /\ new[Len(items) + 1] = row
  <2> HIDE DEF new, row
  <2> QED
    BY <1>1, <1>2
<1> HIDE DEF new
<1>8. \A i \in 1..Len(new) : \E k \in B(new[i].id) :
        new[i] = rows[k] /\ \A l \in B(new[i].id) : l <= k
  <2> SUFFICES ASSUME NEW i \in 1..Len(new)
               PROVE  \E k \in B(new[i].id) :
                        new[i] = rows[k] /\ \A l \in B(new[i].id) : l <= k
    OBVIOUS
  <2>1. CASE new[i] = row
    <3>1. \A l \in B(new[i].id) : l <= n + 1
      BY <1>3, <1>4, <2>1
    <3>2. n + 1 \in B(new[i].id)
      BY <1>3, <2>1
    <3> HIDE DEF B
    <3> QED
      BY <2>1, <3>1, <3>2
  <2>2. CASE i \in 1..Len(items) /\ items[i].id # row.id /\ new[i] = items[i]
    <3>1. B(new[i].id) = A(items[i].id)
      BY <1>3, <2>2
    <3>2. PICK k \in A(items[i].id) :
            items[i] = rows[k] /\ \A l \in A(items[i].id) : l <= k
      BY <2>2 DEF Collects
    <3> HIDE DEF A, B
    <3> QED
      BY <2>2, <3>1, <3>2
  <2> QED
    BY <1>6, <2>1, <2>2
<1>9. \A x : B(x) # {} => \E i \in 1..Len(new) : new[i].id = x
  <2> SUFFICES ASSUME NEW x, B(x) # {}
               PROVE  \E i \in 1..Len(new) : new[i].id = x
    OBVIOUS
  <2>1. CASE x = row.id
    <3>1. CASE \E j \in 1..Len(items) : items[j].id = row.id
      BY <1>6, <1>7, <2>1, <3>1
    <3>2. CASE \A j \in 1..Len(items) : items[j].id # row.id
      BY <1>7, <2>1, <3>2
    <3> QED
      BY <3>1, <3>2
  <2>2. CASE x # row.id
    <3>1. A(x) # {}
      BY <1>3, <2>2
    <3>2. PICK i \in 1..Len(items) : items[i].id = x
      BY <3>1 DEF Collects
    <3> QED
      BY <1>5, <1>7, <2>2, <3>2
  <2> QED
    BY <2>1, <2>2
<1>10. \A i, j \in 1..Len(new) : i < j =>
         \E k \in B(new[i].id) : \A l \in B(new[j].id) : k < l
  <2> SUFFICES ASSUME NEW i \in 1..Len(new), NEW j \in 1..Len(new), i < j
               PROVE  \E k \in B(new[i].id) : \A l \in B(new[j].id) : k < l
    OBVIOUS
  <2>1. i \in 1..Len(items) /\ new[i].id = items[i].id
    BY <1>1, <1>2, <1>6
  <2>2. CASE j \in 1..Len(items) /\ new[j].id = items[j].id
    <3>1. PICK k \in A(items[i].id) : \A l \in A(items[j].id) : k < l
      BY <2>1, <2>2 DEF Collects
    <3>2. k < n + 1 /\ k \in B(items[i].id)
      <4>1. k \in Nat /\ k <= n
        BY <1>4
      <4>2. A(items[i].id) \subseteq B(items[i].id)
        BY <1>3
      <4> QED
        BY <4>1, <4>2
    <3>3. \A l \in B(items[j].id) : l \in A(items[j].id) \/ l = n + 1
      BY <1>3
    <3> HIDE DEF A, B
    <3> QED
      BY <2>1, <2>2, <3>1, <3>2, <3>3
  <2>3. CASE j = Len(items) + 1 /\ new[j] = row /\ A(row.id) = {}
    <3>1. PICK k \in A(items[i].id) : TRUE
      BY <2>1 DEF Collects
    <3>2. k < n + 1 /\ k \in B(items[i].id)
      <4>1. k \in Nat /\ k <= n
        BY <1>4
      <4>2. A(items[i].id) \subseteq B(items[i].id)
        BY <1>3
      <4> QED
        BY <4>1, <4>2
    <3>3. B(new[j].id) = {n + 1}
      BY <1>3, <2>3
    <3> HIDE DEF A, B
    <3> QED
      BY <2>1, <3>2, <3>3
  <2> QED
    BY <1>6, <2>2, <2>3
<1> QED
  BY <1>8, <1>9, <1>10 DEF Collects, B, new

(* What has been collected after any number of rows. *)
LEMMA CollectsAfter ==
  ASSUME NEW rows \in Seq(RowType),
         NEW kept, NEW ended, ArePlaces(Len(rows), kept, ended),
         NEW f, IsCollecting(rows, kept, ended, f)
  PROVE  \A n \in 0..Len(rows) : Collects(rows, kept, ended, n, f[n])
<1> DEFINE Fine == {n \in 0..Len(rows) : Collects(rows, kept, ended, n, f[n])}
<1>1. Len(rows) \in Nat /\ \A n \in 0..Len(rows) : f[n] \in Seq(RowType)
  BY LenProperties DEF IsCollecting
<1>2. 0 \in Fine
  <2>1. \A x : Alive(rows, kept, ended, 0, x) = {}
    <3>1. \A k \in kept : k \in 1..Len(rows) /\ ~(k <= 0)
      BY <1>1 DEF ArePlaces
    <3> QED
      BY <3>1 DEF Alive
  <2>2. f[0] = <<>> /\ Len(f[0]) = 0
    BY EmptySeq DEF IsCollecting
  <2>3. Collects(rows, kept, ended, 0, f[0])
    BY <2>1, <2>2 DEF Collects
  <2> QED
    BY <1>1, <2>3
<1>3. ASSUME NEW n \in 0..(Len(rows) - 1), n \in Fine
      PROVE  n + 1 \in Fine
  <2>1. n + 1 \in 1..Len(rows) /\ n \in 0..Len(rows) /\ (n + 1) - 1 = n
    BY <1>1
  <2>2. f[n + 1] = CollectStep(rows, kept, ended, f[n], n + 1)
    BY <2>1 DEF IsCollecting
  <2>3. Collects(rows, kept, ended, n, f[n]) /\ f[n] \in Seq(RowType)
    BY <1>1, <1>3, <2>1
  <2>4. CASE n + 1 \in ended
    BY <2>1, <2>2, <2>3, <2>4, CollectsRemoved DEF CollectStep
  <2>5. CASE n + 1 \in kept \ ended
    BY <2>1, <2>2, <2>3, <2>5, CollectsUpserted DEF CollectStep
  <2>6. CASE n + 1 \notin kept \cup ended
    <3>1. AliveIsNext(rows, kept, ended, n, n + 1)
      BY <1>1, AliveAfter
    <3>2. \A x : Alive(rows, kept, ended, n + 1, x) = Alive(rows, kept, ended, n, x)
      BY <2>6, <3>1 DEF AliveIsNext
    <3>3. f[n + 1] = f[n]
      BY <2>2, <2>6 DEF CollectStep
    <3>4. Collects(rows, kept, ended, n + 1, f[n])
      <4> DEFINE A(x) == Alive(rows, kept, ended, n, x)
                 B(x) == Alive(rows, kept, ended, n + 1, x)
                 items == f[n]
      <4>1. \A x : B(x) = A(x)
        BY <3>2
      <4>2. /\ \A i \in 1..Len(items) : \E k \in A(items[i].id) :
                 items[i] = rows[k] /\ \A l \in A(items[i].id) : l <= k
            /\ \A id : A(id) # {} => \E i \in 1..Len(items) : items[i].id = id
            /\ \A i, j \in 1..Len(items) : i < j =>
                 \E k \in A(items[i].id) : \A l \in A(items[j].id) : k < l
        BY <2>3 DEF Collects
      <4> HIDE DEF A, B
      <4>3. /\ \A i \in 1..Len(items) : \E k \in B(items[i].id) :
                 items[i] = rows[k] /\ \A l \in B(items[i].id) : l <= k
            /\ \A id : B(id) # {} => \E i \in 1..Len(items) : items[i].id = id
            /\ \A i, j \in 1..Len(items) : i < j =>
                 \E k \in B(items[i].id) : \A l \in B(items[j].id) : k < l
        <5> HIDE DEF items
        <5> QED
          BY <4>1, <4>2
      <4> QED
        BY <4>3 DEF B, Collects
    <3> QED
      BY <2>1, <3>3, <3>4
  <2> QED
    BY <2>1, <2>4, <2>5, <2>6
<1> HIDE DEF Fine
<1>4. \A n \in 0..Len(rows) : n \in Fine
  BY <1>1, <1>2, <1>3, Reaches
<1> QED
  BY <1>4 DEF Fine

(* The collections of Ledger. *)
LEMMA CollectedIs ==
  ASSUME NEW rows \in Seq(RowType),
         NEW kept, NEW ended, ArePlaces(Len(rows), kept, ended)
  PROVE  /\ Collected(rows, kept, ended) \in Seq(RowType)
         /\ Collects(rows, kept, ended, Len(rows), Collected(rows, kept, ended))
<1>1. PICK f : /\ IsCollecting(rows, kept, ended, f)
               /\ Collected(rows, kept, ended) = f[Len(rows)]
  BY CollectedIsALoop
<1>2. Len(rows) \in 0..Len(rows)
  BY LenProperties
<1> QED
  BY <1>1, <1>2, CollectsAfter DEF IsCollecting

-----------------------------------------------------------------------------
(* InOrder lists a finite set of numbers, the smallest first.              *)

LEMMA InOrderIs ==
  ASSUME NEW S \in SUBSET Nat, IsFiniteSet(S)
  PROVE  /\ Cardinality(S) \in Nat
         /\ InOrder(S) \in [1..Cardinality(S) -> S]
         /\ InOrder(S) \in Seq(S) /\ Len(InOrder(S)) = Cardinality(S)
         /\ \A i, j \in 1..Cardinality(S) : i < j => InOrder(S)[i] < InOrder(S)[j]
         /\ \A x \in S : \E i \in 1..Cardinality(S) : InOrder(S)[i] = x
<1> DEFINE N == Cardinality(S)
           UpTo(x) == {y \in S : y <= x}
           rank == [x \in S |-> Cardinality(UpTo(x))]
           order == [n \in 1..N |-> CHOOSE x \in S : Cardinality(UpTo(x)) = n]
<1>1. N \in Nat
  BY FS_CardinalityType
<1>2. \A x \in S : IsFiniteSet(UpTo(x)) /\ Cardinality(UpTo(x)) \in 1..N
  <2> SUFFICES ASSUME NEW x \in S
               PROVE  IsFiniteSet(UpTo(x)) /\ Cardinality(UpTo(x)) \in 1..N
    OBVIOUS
  <2>1. UpTo(x) \in SUBSET S /\ x \in UpTo(x)
    OBVIOUS
  <2> HIDE DEF UpTo
  <2>2. IsFiniteSet(UpTo(x)) /\ Cardinality(UpTo(x)) <= N
    BY <2>1, FS_Subset
  <2>3. Cardinality(UpTo(x)) \in Nat /\ Cardinality(UpTo(x)) # 0
    BY <2>1, <2>2, FS_CardinalityType, FS_EmptySet
  <2> QED
    BY <1>1, <2>2, <2>3
<1>3. \A x, y \in S : x < y => Cardinality(UpTo(x)) < Cardinality(UpTo(y))
  <2> SUFFICES ASSUME NEW x \in S, NEW y \in S, x < y
               PROVE  Cardinality(UpTo(x)) < Cardinality(UpTo(y))
    OBVIOUS
  <2>0. x \in Nat /\ y \in Nat /\ \A z \in S : z \in Nat
    OBVIOUS
  <2>1. UpTo(x) \in SUBSET UpTo(y) /\ y \in UpTo(y) /\ y \notin UpTo(x)
    <3>1. ~(y <= x) /\ y <= y /\ \A z \in S : z <= x => z <= y
      BY <2>0
    <3> QED
      BY <3>1, Zenon
  <2>2. /\ IsFiniteSet(UpTo(y))
        /\ Cardinality(UpTo(x)) \in Nat /\ Cardinality(UpTo(y)) \in Nat
    BY <1>2
  <2> HIDE DEF UpTo
  <2>3. /\ Cardinality(UpTo(x)) <= Cardinality(UpTo(y))
        /\ Cardinality(UpTo(y)) = Cardinality(UpTo(x)) => UpTo(y) = UpTo(x)
    BY <2>1, <2>2, FS_Subset
  <2> QED
    BY <2>1, <2>2, <2>3
<1> HIDE DEF UpTo
<1>4. rank \in Surjection(S, 1..N)
  <2>1. rank \in [S -> 1..N]
    BY <1>2
  <2>2. \A x, y \in S : rank[x] = rank[y] => x = y
    <3> SUFFICES ASSUME NEW x \in S, NEW y \in S, rank[x] = rank[y], x # y
                 PROVE  FALSE
      OBVIOUS
    <3>1. x < y \/ y < x
      OBVIOUS
    <3>2. rank[x] < rank[y] \/ rank[y] < rank[x]
      BY <1>3, <3>1
    <3>3. rank[x] \in Int /\ rank[y] \in Int
      BY <1>2
    <3> QED
      BY <3>2, <3>3
  <2> HIDE DEF rank
  <2>3. rank \in Injection(S, 1..N)
    BY <2>1, <2>2 DEF Injection, IsInjective
  <2>4. IsFiniteSet(1..N) /\ Cardinality(1..N) = N
    BY <1>1, FS_Interval
  <2> QED
    BY <2>3, <2>4, FS_Injection
<1>5. \A n \in 1..N : order[n] \in S /\ Cardinality(UpTo(order[n])) = n
  <2> SUFFICES ASSUME NEW n \in 1..N
               PROVE  order[n] \in S /\ Cardinality(UpTo(order[n])) = n
    OBVIOUS
  <2>1. PICK x \in S : rank[x] = n
    BY <1>4 DEF Surjection
  <2>2. Cardinality(UpTo(x)) = n
    BY <2>1
  <2>3. order[n] = CHOOSE z \in S : Cardinality(UpTo(z)) = n
    OBVIOUS
  <2> QED
    BY <2>2, <2>3
<1>6. InOrder(S) = order /\ order \in [1..N -> S]
  <2>1. InOrder(S) = order
    BY DEF InOrder, UpTo
  <2>2. order = [n \in 1..N |-> order[n]]
    OBVIOUS
  <2> HIDE DEF order
  <2> QED
    BY <1>5, <2>1, <2>2
<1> HIDE DEF order, N
<1>7. \A i, j \in 1..N : i < j => order[i] < order[j]
  <2> SUFFICES ASSUME NEW i \in 1..N, NEW j \in 1..N, i < j, ~(order[i] < order[j])
               PROVE  FALSE
    OBVIOUS
  <2>1. order[i] \in Nat /\ order[j] \in Nat
    BY <1>5
  <2>2. order[i] = order[j] \/ order[j] < order[i]
    BY <2>1
  <2>3. /\ order[i] \in S /\ Cardinality(UpTo(order[i])) = i
        /\ order[j] \in S /\ Cardinality(UpTo(order[j])) = j
    BY <1>5
  <2>4. order[j] < order[i] => j < i
    BY <1>3, <2>3, Zenon
  <2>5. order[i] = order[j] => i = j
    BY <2>3, Zenon
  <2>6. i \in Int /\ j \in Int
    BY <1>1
  <2> QED
    BY <2>2, <2>4, <2>5, <2>6
<1>8. \A x \in S : \E i \in 1..N : order[i] = x
  <2> SUFFICES ASSUME NEW x \in S
               PROVE  \E i \in 1..N : order[i] = x
    OBVIOUS
  <2>1. PICK i \in 1..N : i = Cardinality(UpTo(x))
    BY <1>2
  <2>2. order[i] \in S /\ Cardinality(UpTo(order[i])) = i
    BY <1>5
  <2>3. (order[i] < x => i < i) /\ (x < order[i] => i < i)
    BY <1>3, <2>1, <2>2, Zenon
  <2>4. i \in Int /\ x \in Nat /\ order[i] \in Nat
    <3>1. order[i] \in S /\ x \in S
      BY <2>2
    <3>2. \A z \in S : z \in Nat
      OBVIOUS
    <3>3. i \in Int
      BY <1>1
    <3> QED
      BY <3>1, <3>2, <3>3, Zenon
  <2>5. order[i] = x
    BY <2>3, <2>4
  <2> QED
    BY <2>5
<1>9. order \in Seq(S) /\ Len(order) = N
  <2>1. order \in [1..N -> S]
    BY <1>6
  <2> QED
    BY <1>1, <2>1
<1> QED
  BY <1>1, <1>6, <1>7, <1>8, <1>9 DEF N

-----------------------------------------------------------------------------
(* The inductive invariant.                                                *)

LEMMA LogIs ==
  ASSUME TypeOK
  PROVE  /\ Len(log) \in Nat /\ DOMAIN log = 1..Len(log)
         /\ \A i \in DOMAIN log : i \in Nat /\ log[i] \in RowType
  BY LenProperties, ElementOfSeq DEF TypeOK

(* A set of places in a log. *)
LEMMA PlacesAre ==
  ASSUME NEW N \in Nat, NEW S \in SUBSET (1..N)
  PROVE  /\ IsFiniteSet(S) /\ Cardinality(S) \in Nat
         /\ S # {} => /\ Max(S) \in S /\ \A i \in S : i <= Max(S)
                      /\ Min(S) \in S /\ \A i \in S : Min(S) <= i
<1>1. IsFiniteSet(1..N)
  BY FS_Interval
<1>2. IsFiniteSet(S)
  BY <1>1, FS_Subset
<1>3. S \in SUBSET (0..N) /\ S \in SUBSET Nat
  <2>1. 1..N \in SUBSET (0..N) /\ 1..N \in SUBSET Nat
    OBVIOUS
  <2> QED
    BY <2>1, Zenon
<1> QED
  BY <1>2, <1>3, FS_CardinalityType, MaxIsLast, MinIsFirst

(* The rows of an id; the newest and the first of them. *)
LEMMA RowsAre ==
  ASSUME TypeOK, NEW id
  PROVE  /\ IsFiniteSet(Rows(id)) /\ Rows(id) \subseteq 1..Len(log)
         /\ Rows(id) # {} =>
              /\ Max(Rows(id)) \in Rows(id) /\ \A i \in Rows(id) : i <= Max(Rows(id))
              /\ Min(Rows(id)) \in Rows(id) /\ \A i \in Rows(id) : Min(Rows(id)) <= i
<1>1. Rows(id) \in SUBSET (1..Len(log)) /\ Len(log) \in Nat
  BY LogIs DEF Rows
<1>2. \A i \in Rows(id) : i \in Nat
  BY LogIs DEF Rows
<1> HIDE DEF Rows
<1> QED
  BY <1>1, <1>2, PlacesAre

LEMMA DecisionsAre ==
  ASSUME TypeOK, NEW p, NEW status
  PROVE  IsFiniteSet(Decisions(p, status)) /\ Cardinality(Decisions(p, status)) \in Nat
<1>1. Decisions(p, status) \in SUBSET Rows(p) /\ IsFiniteSet(Rows(p))
  BY RowsAre DEF Decisions
<1> QED
  BY <1>1, FS_Subset, FS_CardinalityType

(* What a step needs to leave alone, of one proposal, to keep the balance. *)
IsUndone(p) ==
  Cardinality(Decisions(p, "approved"))
    <= Cardinality(Decisions(p, "ignored"))
         + (IF Rows(p) # {} /\ Newest(p).status = "approved" THEN 1 ELSE 0)

SameHistory(p) ==
  Rows(p)' = Rows(p) /\ \A i \in Rows(p) : log'[i].status = log[i].status

LEMMA SameHistoryIsUndone ==
  ASSUME TypeOK, NEW p, IsUndone(p), SameHistory(p)
  PROVE  IsUndone(p)'
<1>1. \A status : Decisions(p, status)' = Decisions(p, status)
  BY DEF Decisions, SameHistory
<1>2. Rows(p)' = Rows(p)
  BY DEF SameHistory
<1>3. Rows(p) # {} => (Newest(p).status)' = Newest(p).status
  BY <1>2, RowsAre DEF Newest, SameHistory
<1> QED
  BY <1>1, <1>2, <1>3 DEF IsUndone

(* The log after one more row. *)
LEMMA Appended ==
  ASSUME TypeOK, NEW row \in RowType, log' = Append(log, row)
  PROVE  /\ TypeOK'
         /\ Len(log') = Len(log) + 1 /\ Len(log) + 1 \notin DOMAIN log
         /\ DOMAIN log' = DOMAIN log \cup {Len(log) + 1}
         /\ \A i \in DOMAIN log : log'[i] = log[i] /\ i < Len(log) + 1
         /\ log'[Len(log) + 1] = row
<1>1. /\ Append(log, row) \in Seq(RowType)
      /\ Len(Append(log, row)) = Len(log) + 1
      /\ \A i \in 1..Len(log) : Append(log, row)[i] = log[i]
      /\ Append(log, row)[Len(log) + 1] = row
  BY AppendProperties DEF TypeOK
<1>2. log' \in Seq(RowType)
  BY <1>1
<1>3. DOMAIN log' = 1..Len(log')
  BY <1>2, LenProperties
<1>4. /\ Len(log) \in Nat /\ DOMAIN log = 1..Len(log)
      /\ 1..(Len(log) + 1) = 1..Len(log) \cup {Len(log) + 1}
  BY LogIs
<1> QED
  BY <1>1, <1>2, <1>3, <1>4 DEF TypeOK

(* A row of a proposal that is new, or undoes, or decides what is undone.  *)
LEMMA AppendedIsUndone ==
  ASSUME TypeOK, NEW row \in RowType, log' = Append(log, row), NEW p, IsUndone(p),
         row.id = p =>
           \/ Rows(p) = {} \/ row.status = "ignored"
           \/ row.status = "approved" /\ Newest(p).status # "approved"
  PROVE  IsUndone(p)'
<1> DEFINE n == Len(log) + 1
<1>1. /\ TypeOK' /\ n \notin DOMAIN log /\ DOMAIN log' = DOMAIN log \cup {n}
      /\ \A i \in DOMAIN log : log'[i] = log[i] /\ i < n
      /\ log'[n] = row
  BY Appended
<1>2. CASE row.id # p
  <2>1. SameHistory(p)
    BY <1>1, <1>2 DEF SameHistory, Rows
  <2> QED
    BY <2>1, SameHistoryIsUndone
<1>3. CASE row.id = p
  <2>1. Rows(p)' = Rows(p) \cup {n}
    BY <1>1, <1>3 DEF Rows
  <2>2. Newest(p)' = row
    <3>1. n \in Nat /\ \A i \in Rows(p) : i \in 1..n /\ i < n
      BY <1>1, LogIs DEF Rows
    <3> DEFINE S == Rows(p) \cup {n}
    <3>2. Max(S) \in S /\ \A i \in S : i <= Max(S)
      <4>1. S \in SUBSET (1..n) /\ S # {}
        BY <3>1
      <4> HIDE DEF S
      <4> QED
        BY <3>1, <4>1, PlacesAre
    <3>3. Max(S) = n
      <4>1. n \in S /\ \A i \in S : i \in 1..n
        BY <3>1
      <4> HIDE DEF S
      <4>2. n <= Max(S) /\ Max(S) \in 1..n
        BY <3>2, <4>1
      <4> QED
        BY <3>1, <4>2
    <3> QED
      BY <1>1, <2>1, <3>3 DEF Newest
  <2>3. \A status : Decisions(p, status)' =
                      IF row.status = status THEN Decisions(p, status) \cup {n}
                      ELSE Decisions(p, status)
    BY <1>1, <2>1 DEF Decisions, Rows
  <2>4. \A status : n \notin Decisions(p, status)
    BY <1>1 DEF Decisions, Rows
  <2>5. \A status : /\ Cardinality(Decisions(p, status)) \in Nat
                    /\ Cardinality(Decisions(p, status)') =
                         IF row.status = status THEN Cardinality(Decisions(p, status)) + 1
                         ELSE Cardinality(Decisions(p, status))
    <3> SUFFICES ASSUME NEW status
                 PROVE  /\ Cardinality(Decisions(p, status)) \in Nat
                        /\ Cardinality(Decisions(p, status)') =
                             IF row.status = status
                             THEN Cardinality(Decisions(p, status)) + 1
                             ELSE Cardinality(Decisions(p, status))
      OBVIOUS
    <3>1. /\ IsFiniteSet(Decisions(p, status))
          /\ Cardinality(Decisions(p, status)) \in Nat
      BY DecisionsAre
    <3>2. Cardinality(Decisions(p, status) \cup {n}) = Cardinality(Decisions(p, status)) + 1
      BY <2>4, <3>1, FS_AddElement
    <3> QED
      BY <2>3, <3>1, <3>2
  <2>6. Rows(p) = {} => /\ Cardinality(Decisions(p, "approved")) = 0
                        /\ Cardinality(Decisions(p, "ignored")) = 0
    <3> SUFFICES ASSUME Rows(p) = {}
                 PROVE  /\ Cardinality(Decisions(p, "approved")) = 0
                        /\ Cardinality(Decisions(p, "ignored")) = 0
      OBVIOUS
    <3>1. Decisions(p, "approved") = {} /\ Decisions(p, "ignored") = {}
      BY DEF Decisions
    <3> QED
      BY <3>1, FS_EmptySet
  <2>7. Rows(p)' # {}
    BY <2>1
  <2> DEFINE A == Cardinality(Decisions(p, "approved"))
             I == Cardinality(Decisions(p, "ignored"))
  <2>8. /\ A \in Nat /\ I \in Nat
        /\ A' = IF row.status = "approved" THEN A + 1 ELSE A
        /\ I' = IF row.status = "ignored" THEN I + 1 ELSE I
    BY <2>5
  <2>9. /\ Rows(p) = {} => A = 0 /\ I = 0
        /\ A <= I + (IF Rows(p) # {} /\ Newest(p).status = "approved" THEN 1 ELSE 0)
    BY <2>6 DEF IsUndone
  <2> HIDE DEF A, I
  <2>10. A' <= I' + (IF row.status = "approved" THEN 1 ELSE 0)
    BY <1>3, <2>8, <2>9
  <2> QED
    BY <2>2, <2>7, <2>10 DEF IsUndone, A, I
<1> QED
  BY <1>2, <1>3

(* The meeting of a job or a proposal. *)
LEMMA HomeIs ==
  ASSUME TypeOK, RowsStayHome, NEW id \in Job \cup Proposal, Rows(id) # {}
  PROVE  Home(id) \in Meeting /\ \A i \in Rows(id) : log[i].meeting = Home(id)
<1>1. Min(Rows(id)) \in Rows(id)
  BY RowsAre
<1>2. \A i \in Rows(id) : i \in DOMAIN log /\ log[i] \in RowType /\ log[i].id = id
  BY LogIs DEF Rows
<1> QED
  BY <1>1, <1>2 DEF Home, RowsStayHome, RowType

(* A job whose newest row is not terminal has no terminal row. *)
LEMMA OpenIsNotEnded ==
  ASSUME IInv, NEW j, Rows(j) # {}, Newest(j).status \in OpenStatus
  PROVE  \A i \in Rows(j) : log[i].type # "job_end"
<1> SUFFICES ASSUME NEW i \in Rows(j), log[i].type = "job_end"
             PROVE  FALSE
  OBVIOUS
<1>1. Max(Rows(j)) \in Rows(j) /\ i <= Max(Rows(j))
  BY RowsAre DEF IInv
<1>2. \A k \in Rows(j) : k \in DOMAIN log /\ k \in Nat /\ log[k].id = j
  BY LogIs DEF Rows, IInv
<1>3. Max(Rows(j)) <= i
  BY <1>1, <1>2 DEF IInv, EndsAreLast
<1>4. Max(Rows(j)) = i
  BY <1>1, <1>2, <1>3
<1>5. log[i].status \in {"completed", "failed"}
  BY <1>2 DEF IInv, LogIsSound, RowIsSound
<1> QED
  BY <1>4, <1>5 DEF Newest, OpenStatus

(* What find_latest_proposal answers is the newest row of the proposal. *)
LEMMA LatestIsNewest ==
  ASSUME IInv, NEW p \in Proposal, FindLatestProposal(log, p) \notin {"none", "error"}
  PROVE  Rows(p) # {} /\ FindLatestProposal(log, p) = Newest(p).status
<1> DEFINE hits == Deciding(log, p)
<1>1. Len(log) \in Nat /\ DOMAIN log = 1..Len(log)
  BY LogIs DEF IInv
<1>2. hits \in SUBSET (1..Len(log))
  BY <1>1 DEF Deciding, Typed
<1>3. hits # {} /\ log[Max(hits)].ok /\ FindLatestProposal(log, p) = log[Max(hits)].status
  BY DEF FindLatestProposal
<1>4. Max(hits) \in hits /\ \A i \in hits : i <= Max(hits)
  <2> HIDE DEF hits
  <2> QED
    BY <1>1, <1>2, <1>3, PlacesAre
<1>5. Max(hits) \in Rows(p)
  BY <1>3, <1>4 DEF Deciding, Typed, Rows
<1>6. Rows(p) \subseteq hits
  <2> SUFFICES ASSUME NEW i \in Rows(p)
               PROVE  i \in hits
    OBVIOUS
  <2>1. i \in DOMAIN log /\ log[i].id = p /\ log[i] \in RowType /\ RowIsSound(log[i])
    BY LogIs DEF Rows, IInv, LogIsSound
  <2>2. log[i].type = "proposal"
    BY <2>1, ConstantsAssumption DEF RowIsSound, RowType
  <2> QED
    BY <2>1, <2>2 DEF Deciding, Typed
<1>7. Max(Rows(p)) \in Rows(p) /\ \A i \in Rows(p) : i <= Max(Rows(p))
  BY <1>5, RowsAre DEF IInv
<1> HIDE DEF hits
<1>8. Max(Rows(p)) = Max(hits)
  <2>1. Max(Rows(p)) \in 1..Len(log) /\ Max(hits) \in 1..Len(log)
    BY <1>2, <1>4, <1>6, <1>7
  <2>2. Max(Rows(p)) <= Max(hits) /\ Max(hits) <= Max(Rows(p))
    BY <1>4, <1>5, <1>6, <1>7
  <2> QED
    BY <1>1, <2>1, <2>2
<1> QED
  BY <1>3, <1>5, <1>8 DEF Newest

(* recoverable_jobs returns jobs that no terminal row names. *)
LEMMA RecoverableIs ==
  ASSUME IInv
  PROVE  /\ ArePlaces(Len(log), Typed(log, {"job"}) \cap Decoded(log), Typed(log, {"job_end"}))
         /\ RecoverableJobs(log) \in Seq(RowType)
         /\ Collects(log, Typed(log, {"job"}) \cap Decoded(log), Typed(log, {"job_end"}),
                     Len(log), RecoverableJobs(log))
<1>1. log \in Seq(RowType) /\ DOMAIN log = 1..Len(log)
  BY LogIs DEF IInv, TypeOK
<1>2. ArePlaces(Len(log), Typed(log, {"job"}) \cap Decoded(log), Typed(log, {"job_end"}))
  BY <1>1 DEF ArePlaces, Typed
<1> QED
  BY <1>1, <1>2, CollectedIs DEF RecoverableJobs

LEMMA RecoverableIsNotEnded ==
  ASSUME IInv, NEW i \in DOMAIN RecoverableJobs(log)
  PROVE  /\ Rows(RecoverableJobs(log)[i].id) # {}
         /\ RecoverableJobs(log)[i].id \in Job
         /\ \A d \in Rows(RecoverableJobs(log)[i].id) : log[d].type # "job_end"
<1> DEFINE kept == Typed(log, {"job"}) \cap Decoded(log)
           ended == Typed(log, {"job_end"})
           j == RecoverableJobs(log)[i].id
<1>1. RecoverableJobs(log) \in Seq(RowType) /\ Collects(log, kept, ended, Len(log), RecoverableJobs(log))
  BY RecoverableIs
<1>2. i \in 1..Len(RecoverableJobs(log))
  BY <1>1, LenProperties
<1>3. PICK k \in Alive(log, kept, ended, Len(log), j) : TRUE
  BY <1>1, <1>2 DEF Collects
<1>4. /\ k \in DOMAIN log /\ log[k].type = "job" /\ log[k].id = j
      /\ \A d \in ended : k < d /\ d <= Len(log) => log[d].id # j
  BY <1>3 DEF Alive, Typed
<1>5. j \in Job /\ k \in Rows(j)
  BY <1>4 DEF IInv, LogIsSound, RowIsSound, Rows
<1>6. ASSUME NEW d \in Rows(j), log[d].type = "job_end"
      PROVE  FALSE
  <2>1. d \in DOMAIN log /\ log[d].id = j /\ d \in ended
    BY <1>6 DEF Rows, Typed
  <2>2. k <= d /\ k # d
    BY <1>4, <1>6, <2>1 DEF IInv, EndsAreLast
  <2>3. k \in 1..Len(log) /\ d \in 1..Len(log) /\ Len(log) \in Nat
    BY <1>4, <2>1, LogIs DEF IInv
  <2>4. k < d /\ d <= Len(log)
    BY <2>2, <2>3
  <2> QED
    BY <1>4, <2>1, <2>4
<1> QED
  BY <1>5, <1>6

-----------------------------------------------------------------------------
(* Every step keeps it.                                                    *)

LEMMA InitHolds == Init => IInv
<1> SUFFICES ASSUME Init
             PROVE  IInv
  OBVIOUS
<1>1. DOMAIN log = {} /\ log \in Seq(RowType)
  BY EmptySeq DEF Init
<1>2. \A p : Rows(p) = {}
  BY <1>1 DEF Rows
<1>3. \A p, status : Cardinality(Decisions(p, status)) = 0
  <2>1. \A p, status : Decisions(p, status) = {}
    BY <1>2 DEF Decisions
  <2> QED
    BY <2>1, FS_EmptySet
<1> QED
  BY <1>1, <1>2, <1>3
  DEF IInv, TypeOK, LogIsSound, RowsStayHome, EndsAreLast, ApprovalsAreUndone

LEMMA AppendKeeps ==
  ASSUME IInv, NEW row \in RowType, RowIsSound(row), log' = Append(log, row),
         row.id \in Job \cup Proposal =>
           \A i \in Rows(row.id) :
             log[i].meeting = row.meeting /\ log[i].type # "job_end",
         row.id \in Proposal =>
           \/ Rows(row.id) = {} \/ row.status = "ignored"
           \/ row.status = "approved" /\ Newest(row.id).status # "approved"
  PROVE  IInv'
<1> DEFINE n == Len(log) + 1
<1>1. /\ TypeOK' /\ n \notin DOMAIN log /\ DOMAIN log' = DOMAIN log \cup {n}
      /\ \A i \in DOMAIN log : log'[i] = log[i] /\ i < n
      /\ log'[n] = row
  BY Appended DEF IInv
<1>2. n \in Nat /\ \A i \in DOMAIN log : i \in Nat
  BY LogIs DEF IInv
<1> HIDE DEF n
<1>3. LogIsSound'
  <2>1. \A i \in DOMAIN log' : RowIsSound(log'[i])
    BY <1>1 DEF IInv, LogIsSound
  <2> QED
    BY <2>1 DEF LogIsSound, RowIsSound
<1>4. RowsStayHome'
  BY <1>1 DEF IInv, RowsStayHome, Rows
<1>5. EndsAreLast'
  <2> SUFFICES ASSUME NEW i \in DOMAIN log', NEW k \in DOMAIN log',
                      log'[i].type = "job_end", log'[k].id = log'[i].id
               PROVE  k <= i
    BY DEF EndsAreLast
  <2>1. CASE i = n
    BY <1>1, <1>2, <2>1
  <2>2. CASE i # n /\ k # n
    BY <1>1, <2>2 DEF IInv, EndsAreLast
  <2>3. CASE i # n /\ k = n
    <3>1. i \in DOMAIN log /\ log[i].type = "job_end" /\ log[i].id = row.id
      BY <1>1, <2>3
    <3>2. row.id \in Job /\ i \in Rows(row.id)
      BY <3>1 DEF IInv, LogIsSound, RowIsSound, Rows
    <3> QED
      BY <3>1, <3>2
  <2> QED
    BY <2>1, <2>2, <2>3
<1>6. ApprovalsAreUndone'
  <2> SUFFICES ASSUME NEW p \in Proposal
               PROVE  IsUndone(p)'
    BY DEF ApprovalsAreUndone, IsUndone
  <2>1. TypeOK /\ IsUndone(p)
    BY DEF IInv, ApprovalsAreUndone, IsUndone
  <2> QED
    BY <2>1, AppendedIsUndone
<1> QED
  BY <1>1, <1>3, <1>4, <1>5, <1>6 DEF IInv

(* The meetings of a log are finitely many. *)
LEMMA MeetingsAre ==
  ASSUME TypeOK
  PROVE  IsFiniteSet(Meetings(log)) /\ Meetings(log) \in SUBSET Meeting /\ Meeting \in SUBSET Nat
<1> DEFINE meeting == [i \in DOMAIN log |-> log[i].meeting]
<1>1. Len(log) \in Nat /\ DOMAIN log = 1..Len(log)
  BY LogIs
<1>2. IsFiniteSet(DOMAIN log)
  BY <1>1, FS_Interval
<1>3. meeting \in Surjection(DOMAIN log, Meetings(log))
  BY DEF Surjection, Meetings
<1>4. IsFiniteSet(Meetings(log))
  BY <1>2, <1>3, FS_Surjection
<1>5. Meetings(log) \in SUBSET Meeting
  BY LogIs DEF Meetings, RowType
<1> QED
  BY <1>4, <1>5, ConstantsAssumption

(* What the sweep appends: one stop for each meeting, under the boot's id. *)
LEMMA StopsAre ==
  ASSUME TypeOK, NEW S \in SUBSET Meetings(log)
  PROVE  /\ Stops(InOrder(S)) \in Seq(RowType)
         /\ \A i \in DOMAIN Stops(InOrder(S)) :
              /\ InOrder(S)[i] \in S
              /\ Stops(InOrder(S))[i] = Row("source.stopped", InOrder(S)[i], "boot", "none")
         /\ DOMAIN Stops(InOrder(S)) = 1..Cardinality(S)
         /\ Len(Stops(InOrder(S))) = Cardinality(S) /\ Cardinality(S) \in Nat
         /\ \A i, j \in 1..Cardinality(S) : i < j => InOrder(S)[i] < InOrder(S)[j]
         /\ \A x \in S : \E i \in 1..Cardinality(S) : InOrder(S)[i] = x
<1>1. S \in SUBSET Nat /\ S \in SUBSET Meeting /\ IsFiniteSet(S)
  <2>1. IsFiniteSet(Meetings(log)) /\ Meetings(log) \in SUBSET Meeting /\ Meeting \in SUBSET Nat
    BY MeetingsAre
  <2>2. IsFiniteSet(S)
    BY <2>1, FS_Subset
  <2> QED
    BY <2>1, <2>2, Zenon
<1>2. /\ Cardinality(S) \in Nat
      /\ InOrder(S) \in [1..Cardinality(S) -> S]
      /\ \A i, j \in 1..Cardinality(S) : i < j => InOrder(S)[i] < InOrder(S)[j]
      /\ \A x \in S : \E i \in 1..Cardinality(S) : InOrder(S)[i] = x
  BY <1>1, InOrderIs
<1> HIDE DEF InOrder
<1>3. DOMAIN InOrder(S) = 1..Cardinality(S)
      /\ \A i \in 1..Cardinality(S) : InOrder(S)[i] \in S /\ InOrder(S)[i] \in Meeting
  BY <1>1, <1>2
<1>4. \A x \in Meeting : Row("source.stopped", x, "boot", "none") \in RowType
  BY DEF Row, RowType
<1>5. Stops(InOrder(S)) = [i \in 1..Cardinality(S) |->
                             Row("source.stopped", InOrder(S)[i], "boot", "none")]
  BY <1>3 DEF Stops
<1>6. Stops(InOrder(S)) \in [1..Cardinality(S) -> RowType]
  BY <1>3, <1>4, <1>5
<1> QED
  BY <1>2, <1>3, <1>5, <1>6

LEMMA SweepKeeps ==
  ASSUME IInv, NEW S \in SUBSET Meetings(log), log' = log \o Stops(InOrder(S))
  PROVE  IInv'
<1> DEFINE stops == Stops(InOrder(S))
<1>1. /\ log \in Seq(RowType) /\ Len(log) \in Nat /\ DOMAIN log = 1..Len(log)
      /\ \A i \in DOMAIN log : i \in Nat /\ log[i] \in RowType
  BY LogIs DEF IInv, TypeOK
<1>2. /\ stops \in Seq(RowType) /\ Len(stops) \in Nat /\ DOMAIN stops = 1..Len(stops)
      /\ \A i \in DOMAIN stops :
           stops[i].id = "boot" /\ stops[i].type = "source.stopped" /\ stops[i].status = "none"
  BY StopsAre DEF IInv, Row
<1> HIDE DEF stops
<1>3. /\ log' \in Seq(RowType)
      /\ Len(log') = Len(log) + Len(stops)
      /\ \A i \in 1..(Len(log) + Len(stops)) :
           log'[i] = IF i <= Len(log) THEN log[i] ELSE stops[i - Len(log)]
  <2>1. log' = log \o stops
    BY DEF stops
  <2> QED
    BY <1>1, <1>2, <2>1, ConcatProperties
<1>4. DOMAIN log' = 1..(Len(log) + Len(stops))
  BY <1>3, LenProperties
<1>5. /\ \A i \in DOMAIN log : i \in DOMAIN log' /\ log'[i] = log[i]
      /\ \A i \in DOMAIN log' : i \notin DOMAIN log =>
           log'[i].id = "boot" /\ log'[i].type = "source.stopped" /\ log'[i].status = "none"
  <2>1. \A i \in DOMAIN log : i \in DOMAIN log' /\ log'[i] = log[i]
    BY <1>1, <1>2, <1>3, <1>4
  <2>2. ASSUME NEW i \in DOMAIN log', i \notin DOMAIN log
        PROVE  i - Len(log) \in DOMAIN stops /\ log'[i] = stops[i - Len(log)]
    BY <1>1, <1>2, <1>3, <1>4, <2>2
  <2> QED
    BY <1>2, <2>1, <2>2
<1>6. "boot" \notin Job \cup Proposal
  BY ConstantsAssumption
<1>7. LogIsSound'
  <2>1. \A i \in DOMAIN log' : RowIsSound(log'[i])
    BY <1>5 DEF IInv, LogIsSound, RowIsSound
  <2> QED
    BY <2>1 DEF LogIsSound, RowIsSound
<1>8. \A x \in Job \cup Proposal : SameHistory(x)
  BY <1>5, <1>6 DEF SameHistory, Rows
<1>9. RowsStayHome'
  BY <1>5, <1>6 DEF IInv, RowsStayHome
<1>10. EndsAreLast'
  <2> SUFFICES ASSUME NEW i \in DOMAIN log', NEW k \in DOMAIN log',
                      log'[i].type = "job_end", log'[k].id = log'[i].id
               PROVE  k <= i
    BY DEF EndsAreLast
  <2>1. i \in DOMAIN log /\ log'[i] = log[i]
    BY <1>5
  <2>2. log[i].id \in Job
    BY <2>1 DEF IInv, LogIsSound, RowIsSound
  <2>3. k \in DOMAIN log /\ log'[k] = log[k]
    BY <1>5, <1>6, <2>1, <2>2
  <2> QED
    BY <2>1, <2>3 DEF IInv, EndsAreLast
<1>11. ApprovalsAreUndone'
  <2> SUFFICES ASSUME NEW p \in Proposal
               PROVE  IsUndone(p)'
    BY DEF ApprovalsAreUndone, IsUndone
  <2>1. TypeOK /\ IsUndone(p) /\ SameHistory(p)
    BY <1>8 DEF IInv, ApprovalsAreUndone, IsUndone
  <2> QED
    BY <2>1, SameHistoryIsUndone
<1> QED
  BY <1>3, <1>7, <1>9, <1>10, <1>11 DEF IInv, TypeOK

LEMMA StopsDecodingKeeps ==
  ASSUME IInv, NEW i \in DOMAIN log, StopsDecoding(i)
  PROVE  IInv'
<1>1. /\ log \in Seq(RowType) /\ Len(log) \in Nat /\ DOMAIN log = 1..Len(log)
      /\ \A k \in DOMAIN log : log[k] \in RowType
  BY LogIs DEF IInv, TypeOK
<1>2. log' = [log EXCEPT ![i].ok = FALSE]
  BY DEF StopsDecoding
<1>3. /\ DOMAIN log' = DOMAIN log
      /\ \A k \in DOMAIN log :
           /\ log'[k] \in RowType /\ log'[k].type = log[k].type
           /\ log'[k].meeting = log[k].meeting
           /\ log'[k].id = log[k].id /\ log'[k].status = log[k].status
  <2>1. \A k \in DOMAIN log :
          log'[k] = IF k = i THEN [log[k] EXCEPT !.ok = FALSE] ELSE log[k]
    BY <1>2
  <2>2. DOMAIN log' = DOMAIN log
    BY <1>2
  <2>3. \A k \in DOMAIN log :
          /\ [log[k] EXCEPT !.ok = FALSE] \in RowType
          /\ [log[k] EXCEPT !.ok = FALSE].type = log[k].type
          /\ [log[k] EXCEPT !.ok = FALSE].meeting = log[k].meeting
          /\ [log[k] EXCEPT !.ok = FALSE].id = log[k].id
          /\ [log[k] EXCEPT !.ok = FALSE].status = log[k].status
    BY <1>1 DEF RowType
  <2> QED
    BY <1>1, <2>1, <2>2, <2>3
<1>4. log' \in Seq(RowType)
  <2>1. log' \in [1..Len(log) -> RowType]
    BY <1>1, <1>2, <1>3
  <2> QED
    BY <1>1, <2>1
<1>5. LogIsSound'
  <2>1. \A k \in DOMAIN log' : RowIsSound(log'[k])
    BY <1>3 DEF IInv, LogIsSound, RowIsSound
  <2> QED
    BY <2>1 DEF LogIsSound, RowIsSound
<1>6. RowsStayHome'
  BY <1>3 DEF IInv, RowsStayHome
<1>7. EndsAreLast'
  BY <1>3 DEF IInv, EndsAreLast
<1>8. ApprovalsAreUndone'
  <2> SUFFICES ASSUME NEW p \in Proposal
               PROVE  IsUndone(p)'
    BY DEF ApprovalsAreUndone, IsUndone
  <2>1. TypeOK /\ IsUndone(p) /\ SameHistory(p)
    BY <1>3 DEF IInv, ApprovalsAreUndone, IsUndone, SameHistory, Rows
  <2> QED
    BY <2>1, SameHistoryIsUndone
<1> QED
  BY <1>4, <1>5, <1>6, <1>7, <1>8 DEF IInv, TypeOK

LEMMA NextHolds == IInv /\ [Next]_log => IInv'
<1> SUFFICES ASSUME IInv, [Next]_log
             PROVE  IInv'
  OBVIOUS
<1>0. "source" \notin Job \cup Proposal
  BY ConstantsAssumption
<1>1. ASSUME NEW p \in Proposal, NEW m \in Meeting, Propose(p, m)
      PROVE  IInv'
  <2> DEFINE row == Row("proposal", m, p, "proposed")
  <2>1. row \in RowType /\ RowIsSound(row) /\ row.id = p
    BY DEF Row, RowType, RowIsSound
  <2>2. log' = Append(log, row) /\ Rows(p) = {}
    BY <1>1 DEF Propose
  <2> HIDE DEF row
  <2> QED
    BY <2>1, <2>2, AppendKeeps
<1>2. ASSUME NEW p \in Proposal, Approve(p) \/ Ignore(p)
      PROVE  IInv'
  <2>1. FindLatestProposal(log, p) \notin {"none", "error"}
    BY <1>2 DEF Approve, Ignore
  <2>2. Rows(p) # {} /\ FindLatestProposal(log, p) = Newest(p).status
    BY <2>1, LatestIsNewest
  <2>3. /\ Home(p) \in Meeting /\ \A i \in Rows(p) : log[i].meeting = Home(p)
        /\ \A i \in Rows(p) : log[i].type # "job_end"
    <3>1. p \in Job \cup Proposal /\ p \notin Job
      BY ConstantsAssumption
    <3>2. \A i \in Rows(p) : log[i].type # "job_end"
      BY <3>1 DEF IInv, LogIsSound, RowIsSound, Rows
    <3> QED
      BY <2>2, <3>1, <3>2, HomeIs DEF IInv
  <2>4. ASSUME NEW status \in {"approved", "ignored"},
               log' = Append(log, Row("proposal", Home(p), p, status)),
               status = "approved" => Newest(p).status # "approved"
        PROVE  IInv'
    <3> DEFINE row == Row("proposal", Home(p), p, status)
    <3>1. /\ row \in RowType /\ RowIsSound(row)
          /\ row.id = p /\ row.meeting = Home(p) /\ row.status = status
      BY <2>3 DEF Row, RowType, RowIsSound
    <3>2. log' = Append(log, row)
      BY <2>4
    <3> HIDE DEF row
    <3> QED
      BY <2>3, <2>4, <3>1, <3>2, AppendKeeps
  <2>5. CASE Approve(p)
    BY <2>2, <2>4, <2>5 DEF Approve
  <2>6. CASE Ignore(p)
    BY <2>4, <2>6 DEF Ignore
  <2> QED
    BY <1>2, <2>5, <2>6
<1>3. ASSUME NEW j \in Job, NEW m \in Meeting, RequestJob(j, m)
      PROVE  IInv'
  <2> DEFINE row == Row("job", m, j, "queued")
  <2>1. row \in RowType /\ RowIsSound(row) /\ row.id = j
    BY DEF Row, RowType, RowIsSound, OpenStatus
  <2>2. log' = Append(log, row) /\ Rows(j) = {}
    BY <1>3 DEF RequestJob
  <2> HIDE DEF row
  <2> QED
    BY <2>1, <2>2, AppendKeeps
<1>4. ASSUME NEW j \in Job, Rows(j) # {},
             \A i \in Rows(j) : log[i].type # "job_end",
             NEW type, NEW status,
             \/ type = "job" /\ status \in OpenStatus
             \/ type = "job_end" /\ status \in {"completed", "failed"},
             log' = Append(log, Row(type, Home(j), j, status))
      PROVE  IInv'
  <2> DEFINE row == Row(type, Home(j), j, status)
  <2>1. Home(j) \in Meeting /\ \A i \in Rows(j) : log[i].meeting = Home(j)
    BY <1>4, HomeIs DEF IInv
  <2>2. row \in RowType /\ RowIsSound(row) /\ row.id = j /\ row.meeting = Home(j)
    BY <1>4, <2>1 DEF Row, RowType, RowIsSound, OpenStatus
  <2>3. log' = Append(log, row) /\ j \notin Proposal
    BY <1>4, ConstantsAssumption
  <2> HIDE DEF row
  <2> QED
    BY <1>4, <2>1, <2>2, <2>3, AppendKeeps
<1>5. ASSUME NEW j \in Job, StartJob(j) \/ EndJob(j)
      PROVE  IInv'
  <2>1. Rows(j) # {} /\ Newest(j).status \in OpenStatus
    BY <1>5 DEF StartJob, EndJob, OpenStatus
  <2>2. \A i \in Rows(j) : log[i].type # "job_end"
    BY <2>1, OpenIsNotEnded
  <2>3. CASE StartJob(j)
    BY <1>4, <2>1, <2>2, <2>3 DEF StartJob, OpenStatus
  <2>4. CASE EndJob(j)
    BY <1>4, <2>1, <2>2, <2>4 DEF EndJob
  <2> QED
    BY <1>5, <2>3, <2>4
<1>6. ASSUME NEW j \in Job, Requeue(j)
      PROVE  IInv'
  <2>1. PICK i \in DOMAIN RecoverableJobs(log) : RecoverableJobs(log)[i].id = j
    BY <1>6 DEF Requeue
  <2>2. Rows(j) # {} /\ \A d \in Rows(j) : log[d].type # "job_end"
    BY <2>1, RecoverableIsNotEnded
  <2>3. log' = Append(log, Row("job", Home(j), j, "queued"))
    BY <1>6 DEF Requeue
  <2> QED
    BY <1>4, <2>2, <2>3 DEF OpenStatus
<1>7. ASSUME NEW m \in Meeting, StartSource(m) \/ EndSource(m)
      PROVE  IInv'
  <2>1. PICK type \in {"source.started", "lane.failed", "source.failed", "source.stopped"} :
          log' = Append(log, Row(type, m, "source", "none"))
    BY <1>7 DEF StartSource, EndSource
  <2> DEFINE row == Row(type, m, "source", "none")
  <2>2. row \in RowType /\ RowIsSound(row) /\ row.id = "source"
    BY DEF Row, RowType, RowIsSound
  <2> HIDE DEF row
  <2> QED
    BY <1>0, <2>1, <2>2, AppendKeeps DEF row
<1>8. ASSUME Reconcile
      PROVE  IInv'
  <2> DEFINE S == {m \in Meetings(log) : Orphaned(log, m)}
  <2>1. S \in SUBSET Meetings(log) /\ log' = log \o Stops(InOrder(S))
    BY <1>8 DEF Reconcile, Swept
  <2> HIDE DEF S
  <2> QED
    BY <2>1, SweepKeeps
<1>9. CASE UNCHANGED log
  <2>1. TypeOK' /\ LogIsSound' /\ RowsStayHome' /\ EndsAreLast'
    BY <1>9 DEF IInv, TypeOK, LogIsSound, RowsStayHome, EndsAreLast
  <2>2. \A p \in Proposal :
          /\ Rows(p)' = Rows(p) /\ Newest(p)' = Newest(p)
          /\ \A status : Decisions(p, status)' = Decisions(p, status)
    BY <1>9 DEF Decisions, Rows, Newest
  <2>3. ApprovalsAreUndone'
    BY <2>2 DEF IInv, ApprovalsAreUndone
  <2> QED
    BY <2>1, <2>3 DEF IInv
<1> QED
  BY <1>1, <1>2, <1>3, <1>5, <1>6, <1>7, <1>8, <1>9, StopsDecodingKeeps DEF Next

(* The invariant, and that the log is well typed. *)
THEOREM Invariance == Spec => []IInv
<1>1. Init => IInv
  BY InitHolds
<1>2. IInv /\ [Next]_log => IInv'
  BY NextHolds
<1> QED
  BY <1>1, <1>2, PTL DEF Spec

THEOREM TypeCorrect == Spec => []TypeOK
<1>1. IInv => TypeOK
  BY DEF IInv
<1> QED
  BY <1>1, Invariance, PTL

(* approve: no second job.  A proposal is approved again only after it was *)
(* ignored, even when the row that approved it does not decode any more.   *)
THEOREM NoSecondApprovalAlways == Spec => []NoSecondApproval
<1>1. IInv => NoSecondApproval
  <2> SUFFICES ASSUME IInv, NEW p \in Proposal
               PROVE  Cardinality(Decisions(p, "approved"))
                        <= 1 + Cardinality(Decisions(p, "ignored"))
    BY DEF NoSecondApproval
  <2>1. /\ Cardinality(Decisions(p, "approved")) \in Nat
        /\ Cardinality(Decisions(p, "ignored")) \in Nat
    BY DecisionsAre DEF IInv
  <2>2. Cardinality(Decisions(p, "approved"))
          <= Cardinality(Decisions(p, "ignored"))
               + (IF Rows(p) # {} /\ Newest(p).status = "approved" THEN 1 ELSE 0)
    BY DEF IInv, ApprovalsAreUndone
  <2> QED
    BY <2>1, <2>2
<1> QED
  BY <1>1, Invariance, PTL

-----------------------------------------------------------------------------
(* What the folds say of the log.                                          *)

(* The places in a collection are in the order of the first rows. *)
Earlier(A, B) == \E k \in A : \A l \in B : k < l

LEMMA CollectedOrder ==
  ASSUME NEW rows, NEW N \in Nat, NEW kept, NEW ended, ArePlaces(N, kept, ended),
         NEW items \in Seq(RowType), Collects(rows, kept, ended, N, items),
         NEW i \in 1..Len(items), NEW j \in 1..Len(items)
  PROVE  i < j <=> Earlier(Alive(rows, kept, ended, N, items[i].id),
                           Alive(rows, kept, ended, N, items[j].id))
<1> DEFINE A == Alive(rows, kept, ended, N, items[i].id)
           B == Alive(rows, kept, ended, N, items[j].id)
<1>1. \A k \in A \cup B : k \in Nat
  <2>1. \A k \in kept : k \in Nat
    BY DEF ArePlaces
  <2>2. A \subseteq kept /\ B \subseteq kept
    BY DEF Alive
  <2> HIDE DEF A, B
  <2> QED
    BY <2>1, <2>2
<1>2. A # {} /\ B # {}
  BY DEF Collects
<1>3. (i < j => Earlier(A, B)) /\ (j < i => Earlier(B, A))
  BY DEF Collects, Earlier
<1>4. i = j => A = B
  OBVIOUS
<1>5. i \in Nat /\ j \in Nat
  OBVIOUS
<1> HIDE DEF A, B
<1>6. Earlier(A, B) => ~Earlier(B, A)
  BY <1>1 DEF Earlier
<1> QED
  BY <1>3, <1>4, <1>5, <1>6 DEF A, B

(* The items of a collection, one by one. *)
LEMMA CollectedAre ==
  ASSUME NEW rows \in Seq(RowType), NEW kept, NEW ended,
         ArePlaces(Len(rows), kept, ended)
  PROVE  LET items == Collected(rows, kept, ended)
             A(id) == Alive(rows, kept, ended, Len(rows), id)
         IN /\ items \in Seq(RowType) /\ DOMAIN items = 1..Len(items)
            /\ \A i \in DOMAIN items :
                 /\ A(items[i].id) # {} /\ items[i] = rows[Max(A(items[i].id))]
                 /\ Max(A(items[i].id)) \in A(items[i].id)
            /\ \A id : A(id) # {} => \E i \in DOMAIN items : items[i].id = id
            /\ \A i, k \in DOMAIN items :
                 i < k <=> Earlier(A(items[i].id), A(items[k].id))
<1> DEFINE items == Collected(rows, kept, ended)
           A(id) == Alive(rows, kept, ended, Len(rows), id)
<1>1. items \in Seq(RowType) /\ Collects(rows, kept, ended, Len(rows), items)
  BY CollectedIs
<1>2. Len(rows) \in Nat
  BY LenProperties
<1>3. \A id : A(id) \in SUBSET (1..Len(rows))
  BY DEF Alive, ArePlaces
<1> HIDE DEF items
<1>4. DOMAIN items = 1..Len(items)
  BY <1>1, LenProperties
<1>5. \A i, k \in DOMAIN items : i < k <=> Earlier(A(items[i].id), A(items[k].id))
  BY <1>1, <1>2, <1>4, CollectedOrder
<1>6. \A id : A(id) # {} => \E i \in DOMAIN items : items[i].id = id
  BY <1>1, <1>4 DEF Collects
<1>7. \A i \in DOMAIN items :
        \E k \in A(items[i].id) : items[i] = rows[k] /\ \A l \in A(items[i].id) : l <= k
  BY <1>1, <1>4 DEF Collects
<1> HIDE DEF A
<1>8. ASSUME NEW i \in DOMAIN items
      PROVE  /\ A(items[i].id) # {} /\ items[i] = rows[Max(A(items[i].id))]
             /\ Max(A(items[i].id)) \in A(items[i].id)
  <2>1. PICK k \in A(items[i].id) : items[i] = rows[k] /\ \A l \in A(items[i].id) : l <= k
    BY <1>7
  <2>2. Max(A(items[i].id)) \in A(items[i].id) /\ k <= Max(A(items[i].id))
    BY <1>2, <1>3, <2>1, PlacesAre
  <2>3. Max(A(items[i].id)) \in 1..Len(rows) /\ k \in 1..Len(rows)
    BY <1>3, <2>1, <2>2
  <2>4. Max(A(items[i].id)) = k
    BY <2>1, <2>2, <2>3
  <2> QED
    BY <2>1, <2>4
<1> QED
  BY <1>1, <1>4, <1>5, <1>6, <1>8 DEF A, items

(* The rows of a job that recoverable_jobs reads: all that decode.  Only a *)
(* job that did not end is left.                                           *)
Kept == Typed(log, {"job"}) \cap Decoded(log)
Ended == Typed(log, {"job_end"})
KeptOf(id) == Alive(log, Kept, Ended, Len(log), id)
IsUnended(j) == j \in Job /\ \A i \in Rows(j) : log[i].type = "job"

LEMMA KeptAre ==
  ASSUME IInv, NEW id
  PROVE  /\ IsUnended(id) => KeptOf(id) = Rows(id) \cap Decoded(log)
         /\ KeptOf(id) # {} => IsUnended(id)
         /\ KeptOf(id) \in SUBSET (1..Len(log)) /\ Len(log) \in Nat
         /\ KeptOf(id) # {} =>
              /\ Max(KeptOf(id)) \in KeptOf(id) /\ \A i \in KeptOf(id) : i <= Max(KeptOf(id))
              /\ Min(KeptOf(id)) \in KeptOf(id) /\ \A i \in KeptOf(id) : Min(KeptOf(id)) <= i
<1>1. /\ Len(log) \in Nat /\ DOMAIN log = 1..Len(log)
      /\ \A i \in DOMAIN log : i \in Nat /\ log[i] \in RowType
  BY LogIs DEF IInv
<1>2. ASSUME IsUnended(id)
      PROVE  KeptOf(id) = Rows(id) \cap Decoded(log)
  <2>1. ASSUME NEW i \in KeptOf(id)
        PROVE  i \in Rows(id) \cap Decoded(log)
    BY DEF KeptOf, Alive, Kept, Typed, Rows
  <2>2. ASSUME NEW i \in Rows(id) \cap Decoded(log)
        PROVE  i \in KeptOf(id)
    <3>1. i \in Kept /\ i <= Len(log) /\ log[i].id = id
      BY <1>1, <1>2, <2>2 DEF IsUnended, Kept, Typed, Rows
    <3>2. \A d \in Ended : log[d].id # id
      BY <1>2 DEF IsUnended, Ended, Typed, Rows
    <3> QED
      BY <3>1, <3>2 DEF KeptOf, Alive
  <2> QED
    BY <2>1, <2>2
<1>3. ASSUME KeptOf(id) # {}
      PROVE  IsUnended(id)
  <2>1. PICK k \in KeptOf(id) : TRUE
    BY <1>3
  <2>2. /\ k \in DOMAIN log /\ log[k].type = "job" /\ log[k].id = id
        /\ \A d \in Ended : k < d /\ d <= Len(log) => log[d].id # id
    BY <2>1 DEF KeptOf, Alive, Kept, Typed
  <2>3. id \in Job
    BY <2>2 DEF IInv, LogIsSound, RowIsSound
  <2>4. ASSUME NEW d \in Rows(id)
        PROVE  log[d].type # "job_end"
    <3> SUFFICES ASSUME log[d].type = "job_end"
                 PROVE  FALSE
      OBVIOUS
    <3>1. d \in DOMAIN log /\ log[d].id = id /\ d \in Ended
      BY DEF Rows, Ended, Typed
    <3>2. k <= d /\ k # d
      BY <2>2, <3>1 DEF IInv, EndsAreLast
    <3>3. k < d /\ d <= Len(log)
      BY <1>1, <2>2, <3>1, <3>2
    <3> QED
      BY <2>2, <3>1, <3>3
  <2>5. ASSUME NEW d \in Rows(id)
        PROVE  log[d].type = "job"
    <3>1. d \in DOMAIN log /\ log[d].id = id /\ RowIsSound(log[d])
      BY DEF Rows, IInv, LogIsSound
    <3>2. id \notin Proposal /\ id \notin {"source", "boot"}
      BY <2>3, ConstantsAssumption
    <3> QED
      BY <2>4, <3>1, <3>2 DEF RowIsSound
  <2> QED
    BY <2>3, <2>5 DEF IsUnended
<1>4. KeptOf(id) \in SUBSET (1..Len(log))
  BY <1>1 DEF KeptOf, Alive, Kept, Typed
<1>5. KeptOf(id) # {} =>
        /\ Max(KeptOf(id)) \in KeptOf(id) /\ \A i \in KeptOf(id) : i <= Max(KeptOf(id))
        /\ Min(KeptOf(id)) \in KeptOf(id) /\ \A i \in KeptOf(id) : Min(KeptOf(id)) <= i
  <2> HIDE DEF KeptOf
  <2> QED
    BY <1>1, <1>4, PlacesAre
<1> QED
  BY <1>1, <1>2, <1>3, <1>4, <1>5

(* The jobs that recoverable_jobs returns, one by one. *)
LEMMA RecoverableAre ==
  ASSUME IInv
  PROVE  /\ DOMAIN RecoverableJobs(log) = 1..Len(RecoverableJobs(log))
         /\ RecoverableJobs(log) \in Seq(RowType)
         /\ \A i \in DOMAIN RecoverableJobs(log) :
              /\ KeptOf(RecoverableJobs(log)[i].id) # {}
              /\ RecoverableJobs(log)[i] = log[Max(KeptOf(RecoverableJobs(log)[i].id))]
         /\ \A id : KeptOf(id) # {} =>
              \E i \in DOMAIN RecoverableJobs(log) : RecoverableJobs(log)[i].id = id
         /\ \A i, k \in DOMAIN RecoverableJobs(log) :
              i < k <=> Earlier(KeptOf(RecoverableJobs(log)[i].id),
                                KeptOf(RecoverableJobs(log)[k].id))
<1>1. log \in Seq(RowType) /\ ArePlaces(Len(log), Kept, Ended)
  BY RecoverableIs DEF Kept, Ended, IInv, TypeOK
<1>2. RecoverableJobs(log) = Collected(log, Kept, Ended)
  BY DEF RecoverableJobs, Kept, Ended
<1> QED
  BY <1>1, <1>2, CollectedAre DEF KeptOf

(* recoverable_jobs: a job is recovered exactly when it was requested and  *)
(* no terminal row names it, in the order of the requests and with the     *)
(* newest of its states that decodes.                                      *)
THEOREM RecoverableIsWhatIsOpenAlways == Spec => []RecoverableIsWhatIsOpen
<1>1. ASSUME IInv
      PROVE  RecoverableIsWhatIsOpen
  <2> DEFINE jobs == RecoverableJobs(log)
             decoded(j) == Rows(j) \cap Decoded(log)
             open == {j \in Job : /\ decoded(j) # {}
                                  /\ \A i \in Rows(j) : log[i].type = "job"}
  <2>1. ASSUME NEW i \in DOMAIN jobs
        PROVE  /\ jobs[i].id \in open /\ decoded(jobs[i].id) = KeptOf(jobs[i].id)
               /\ jobs[i] = log[Max(decoded(jobs[i].id))]
    <3>1. KeptOf(jobs[i].id) # {} /\ jobs[i] = log[Max(KeptOf(jobs[i].id))]
      BY <1>1, RecoverableAre
    <3>2. IsUnended(jobs[i].id) /\ decoded(jobs[i].id) = KeptOf(jobs[i].id)
      BY <1>1, <3>1, KeptAre
    <3> QED
      BY <3>1, <3>2 DEF IsUnended
  <2>2. ASSUME NEW j \in open
        PROVE  \E i \in DOMAIN jobs : jobs[i].id = j
    <3>1. IsUnended(j)
      BY DEF IsUnended
    <3>2. KeptOf(j) # {}
      BY <1>1, <3>1, KeptAre
    <3> QED
      BY <1>1, <3>2, RecoverableAre
  <2>3. ASSUME NEW i \in DOMAIN jobs, NEW k \in DOMAIN jobs, i < k
        PROVE  Min(decoded(jobs[i].id)) < Min(decoded(jobs[k].id))
    <3> DEFINE A == KeptOf(jobs[i].id)
               B == KeptOf(jobs[k].id)
    <3>1. decoded(jobs[i].id) = A /\ decoded(jobs[k].id) = B
      BY <2>1
    <3>2. Earlier(A, B) /\ A # {} /\ B # {}
      BY <1>1, <2>3, RecoverableAre
    <3>3. /\ A \in SUBSET (1..Len(log)) /\ B \in SUBSET (1..Len(log)) /\ Len(log) \in Nat
          /\ Min(A) \in A /\ \A l \in A : Min(A) <= l
          /\ Min(B) \in B
      BY <1>1, <3>2, KeptAre
    <3> HIDE DEF A, B
    <3>4. PICK l \in A : l < Min(B)
      BY <3>2, <3>3 DEF Earlier
    <3>5. l \in 1..Len(log) /\ Min(A) \in 1..Len(log) /\ Min(B) \in 1..Len(log)
      BY <3>3, <3>4
    <3>6. Min(A) <= l
      BY <3>3, <3>4
    <3>7. Min(A) < Min(B)
      BY <3>3, <3>4, <3>5, <3>6
    <3> HIDE DEF decoded, jobs
    <3> QED
      BY <3>1, <3>7
  <2>4. {jobs[i].id : i \in DOMAIN jobs} = open
    <3> HIDE DEF jobs, open
    <3> QED
      BY <2>1, <2>2
  <2> HIDE DEF jobs
  <2> QED
    BY <2>1, <2>3, <2>4 DEF RecoverableIsWhatIsOpen, jobs
<1> QED
  BY <1>1, Invariance, PTL

(* The rows of an id in the projection of a meeting, of jobs or proposals. *)
ShownOf(m, types, id) ==
  Alive(log, Events(log, m) \cap Typed(log, types), {}, Len(log), id)

LEMMA ShownIs ==
  ASSUME IInv, NEW m, NEW types, NEW id
  PROVE  ShownOf(m, types, id)
           = {i \in Rows(id) : log[i].meeting = m /\ log[i].type \in types}
<1>1. Len(log) \in Nat /\ DOMAIN log = 1..Len(log)
  BY LogIs DEF IInv
<1>2. \A i \in DOMAIN log : i <= Len(log)
  BY <1>1
<1> QED
  BY <1>2 DEF ShownOf, Alive, Events, Typed, Rows

LEMMA ProjectedAre ==
  ASSUME IInv, NEW m, NEW types
  PROVE  LET items == Collected(log, Events(log, m) \cap Typed(log, types), {})
         IN /\ items \in Seq(RowType) /\ DOMAIN items = 1..Len(items)
            /\ \A i \in DOMAIN items :
                 /\ ShownOf(m, types, items[i].id) # {}
                 /\ items[i] = log[Max(ShownOf(m, types, items[i].id))]
                 /\ Max(ShownOf(m, types, items[i].id)) \in ShownOf(m, types, items[i].id)
            /\ \A id : ShownOf(m, types, id) # {} =>
                 \E i \in DOMAIN items : items[i].id = id
            /\ \A i, k \in DOMAIN items :
                 i < k <=> Earlier(ShownOf(m, types, items[i].id),
                                   ShownOf(m, types, items[k].id))
<1>1. log \in Seq(RowType) /\ DOMAIN log = 1..Len(log)
  BY LogIs DEF IInv, TypeOK
<1> DEFINE kept == Events(log, m) \cap Typed(log, types)
           ended == {}
<1>2. ArePlaces(Len(log), kept, ended)
  BY <1>1 DEF ArePlaces, Events
<1>3. \A id : ShownOf(m, types, id) = Alive(log, kept, ended, Len(log), id)
  BY DEF ShownOf
<1> HIDE DEF kept, ended
<1> DEFINE items == Collected(log, kept, ended)
           A(id) == Alive(log, kept, ended, Len(log), id)
<1>4. /\ items \in Seq(RowType) /\ DOMAIN items = 1..Len(items)
      /\ \A i \in DOMAIN items :
           /\ A(items[i].id) # {} /\ items[i] = log[Max(A(items[i].id))]
           /\ Max(A(items[i].id)) \in A(items[i].id)
      /\ \A id : A(id) # {} => \E i \in DOMAIN items : items[i].id = id
      /\ \A i, k \in DOMAIN items :
           i < k <=> Earlier(A(items[i].id), A(items[k].id))
  BY <1>1, <1>2, CollectedAre
<1>5. items = Collected(log, Events(log, m) \cap Typed(log, types), {})
  BY DEF kept, ended
<1>6. \A id : A(id) = ShownOf(m, types, id)
  BY <1>3
<1> HIDE DEF A, items
<1> QED
  BY <1>4, <1>5, <1>6

(* The rows of a proposal are all in the projection of its meeting. *)
LEMMA ProposalsAreShown ==
  ASSUME IInv, NEW m, NEW p, ShownOf(m, {"proposal"}, p) # {}
  PROVE  p \in Proposal /\ ShownOf(m, {"proposal"}, p) = Rows(p)
<1>1. PICK k \in Rows(p) : log[k].meeting = m /\ log[k].type = "proposal"
  BY ShownIs
<1>2. p \in Proposal
  BY <1>1 DEF Rows, IInv, LogIsSound, RowIsSound
<1>3. ASSUME NEW i \in Rows(p)
      PROVE  log[i].meeting = m /\ log[i].type = "proposal"
  <2>1. /\ i \in DOMAIN log /\ log[i].id = p /\ RowIsSound(log[i]) /\ log[i] \in RowType
        /\ k \in DOMAIN log /\ log[k].id = p
    BY LogIs DEF Rows, IInv, LogIsSound
  <2>2. log[i].type = "proposal"
    BY <1>2, <2>1, ConstantsAssumption DEF RowIsSound, RowType
  <2>3. log[i].meeting = m
    BY <1>1, <1>2, <2>1 DEF IInv, RowsStayHome
  <2> QED
    BY <2>2, <2>3
<1> QED
  BY <1>2, <1>3, ShownIs

(* approve acts on the state of the proposal that the operator sees, or    *)
(* fails.                                                                  *)
THEOREM LatestIsProjectedAlways == Spec => []LatestIsProjected
<1>1. ASSUME IInv, NEW m \in Meeting, NEW i \in DOMAIN ProjectedProposals(log, m)
      PROVE  FindLatestProposal(log, ProjectedProposals(log, m)[i].id)
               \in {"error", ProjectedProposals(log, m)[i].status}
  <2> DEFINE p == ProjectedProposals(log, m)[i].id
             rows == ShownOf(m, {"proposal"}, p)
  <2>1. rows # {} /\ ProjectedProposals(log, m)[i] = log[Max(rows)]
    BY <1>1, ProjectedAre DEF ProjectedProposals
  <2>2. p \in Proposal /\ rows = Rows(p)
    BY <1>1, <2>1, ProposalsAreShown
  <2>3. ProjectedProposals(log, m)[i].status = Newest(p).status /\ Rows(p) # {}
    BY <2>1, <2>2 DEF Newest
  <2>4. FindLatestProposal(log, p) # "none"
    <3> DEFINE hits == Deciding(log, p)
    <3>1. Rows(p) \subseteq hits
      <4>1. \A k \in Rows(p) : log[k].type = "proposal" /\ k \in DOMAIN log /\ log[k].id = p
        BY <1>1, <2>2, ShownIs DEF Rows
      <4> QED
        BY <4>1 DEF Deciding, Typed
    <3>2. hits # {} /\ hits \in SUBSET (1..Len(log)) /\ Len(log) \in Nat
      BY <1>1, <2>3, <3>1, LogIs DEF Deciding, Typed, IInv
    <3>3. Max(hits) \in hits
      <4> HIDE DEF hits
      <4> QED
        BY <3>2, PlacesAre
    <3>4. log[Max(hits)].status # "none"
      BY <1>1, <3>3 DEF Deciding, Typed, IInv, LogIsSound, RowIsSound
    <3> QED
      BY <3>2, <3>4 DEF FindLatestProposal
  <2>5. CASE FindLatestProposal(log, p) = "error"
    BY <2>5
  <2>6. CASE FindLatestProposal(log, p) # "error"
    <3>1. FindLatestProposal(log, p) = Newest(p).status
      BY <1>1, <2>2, <2>4, <2>6, LatestIsNewest
    <3> QED
      BY <2>3, <3>1
  <2> QED
    BY <2>5, <2>6
<1>2. IInv => LatestIsProjected
  BY <1>1 DEF LatestIsProjected
<1> QED
  BY <1>2, Invariance, PTL

-----------------------------------------------------------------------------
(* The jobs on the screen and those of a restart.                          *)

(* In a meeting that decodes, the rows of an unfinished job are all on the *)
(* screen and all decode.                                                  *)
LEMMA UnfinishedAre ==
  ASSUME IInv, NEW m, Decodes(log, m), NEW i \in Unfinished(m)
  PROVE  LET job == ProjectedJobs(log, m)[i]
         IN /\ KeptOf(job.id) # {} /\ KeptOf(job.id) = ShownOf(m, JobTypes, job.id)
            /\ job = log[Max(KeptOf(job.id))] /\ job.meeting = m
<1> DEFINE job == ProjectedJobs(log, m)[i]
           shown == ShownOf(m, JobTypes, job.id)
<1>1. i \in DOMAIN ProjectedJobs(log, m) /\ job.status \in OpenStatus
  BY DEF Unfinished
<1>2. shown # {} /\ job = log[Max(shown)] /\ Max(shown) \in shown
  BY <1>1, ProjectedAre DEF ProjectedJobs
<1>3. shown = {k \in Rows(job.id) : log[k].meeting = m /\ log[k].type \in JobTypes}
  BY ShownIs
<1>4. Max(shown) \in DOMAIN log /\ job.meeting = m /\ job.type \in JobTypes
  BY <1>2, <1>3 DEF Rows
<1>5. job.id \in Job
  BY <1>2, <1>4 DEF IInv, LogIsSound, RowIsSound, JobTypes
<1>6. \A k \in Rows(job.id) : /\ k \in DOMAIN log /\ log[k].id = job.id
                              /\ RowIsSound(log[k]) /\ log[k] \in RowType
  BY LogIs DEF Rows, IInv, LogIsSound
<1>7. \A k \in Rows(job.id) : log[k].meeting = m /\ log[k].type \in JobTypes
  <2>1. \A k \in Rows(job.id) : log[k].type \in JobTypes
    BY <1>5, <1>6, ConstantsAssumption DEF RowIsSound, RowType, JobTypes
  <2>2. \A k \in Rows(job.id) : log[k].meeting = m
    BY <1>2, <1>4, <1>5, <1>6 DEF IInv, RowsStayHome
  <2> QED
    BY <2>1, <2>2
<1>8. shown = Rows(job.id)
  BY <1>3, <1>7
<1>9. Newest(job.id) = job
  BY <1>2, <1>8 DEF Newest
<1>10. \A k \in Rows(job.id) : log[k].type = "job"
  <2>1. \A k \in Rows(job.id) : log[k].type # "job_end"
    BY <1>1, <1>2, <1>8, <1>9, OpenIsNotEnded
  <2> QED
    BY <1>7, <2>1 DEF JobTypes
<1>11. KeptOf(job.id) = Rows(job.id) \cap Decoded(log)
  BY <1>5, <1>10, KeptAre DEF IsUnended
<1>12. Rows(job.id) \subseteq Decoded(log)
  BY <1>6, <1>7 DEF Decodes, Events
<1> QED
  BY <1>2, <1>4, <1>8, <1>11, <1>12

LEMMA RestartedAre ==
  ASSUME IInv, NEW m, Decodes(log, m), NEW k \in Restarted(m)
  PROVE  LET job == RecoverableJobs(log)[k]
         IN \E i \in Unfinished(m) : ProjectedJobs(log, m)[i] = job
<1> DEFINE job == RecoverableJobs(log)[k]
           shown == ShownOf(m, JobTypes, job.id)
<1>1. k \in DOMAIN RecoverableJobs(log) /\ job.meeting = m
  BY DEF Restarted
<1>2. KeptOf(job.id) # {} /\ job = log[Max(KeptOf(job.id))]
  BY <1>1, RecoverableAre
<1>3. IsUnended(job.id) /\ Max(KeptOf(job.id)) \in KeptOf(job.id)
  BY <1>2, KeptAre
<1>4. KeptOf(job.id) = Rows(job.id) \cap Decoded(log)
  BY <1>3, KeptAre
<1>5. \A l \in Rows(job.id) : /\ l \in DOMAIN log /\ log[l].id = job.id
                              /\ log[l].type = "job" /\ log[l].meeting = m
  <2>1. \A l \in Rows(job.id) : l \in DOMAIN log /\ log[l].id = job.id /\ log[l].type = "job"
    BY <1>3 DEF IsUnended, Rows
  <2>2. Max(KeptOf(job.id)) \in Rows(job.id) /\ job.id \in Job
    BY <1>3, <1>4 DEF IsUnended
  <2>3. log[Max(KeptOf(job.id))].meeting = m
    BY <1>1, <1>2
  <2> QED
    BY <2>1, <2>2, <2>3 DEF IInv, RowsStayHome
<1>6. shown = Rows(job.id)
  <2>1. shown = {l \in Rows(job.id) : log[l].meeting = m /\ log[l].type \in JobTypes}
    BY ShownIs
  <2> HIDE DEF shown
  <2> QED
    BY <1>5, <2>1 DEF JobTypes
<1>7. KeptOf(job.id) = Rows(job.id)
  BY <1>4, <1>5 DEF Decodes, Events
<1>8. PICK i \in DOMAIN ProjectedJobs(log, m) : ProjectedJobs(log, m)[i].id = job.id
  BY <1>2, <1>6, <1>7, ProjectedAre DEF ProjectedJobs
<1>9. ProjectedJobs(log, m)[i] = job
  BY <1>2, <1>6, <1>7, <1>8, ProjectedAre DEF ProjectedJobs
<1>10. job.status \in OpenStatus
  <2>1. Max(KeptOf(job.id)) \in DOMAIN log /\ log[Max(KeptOf(job.id))].type = "job"
    BY <1>3, <1>5, <1>7
  <2> QED
    BY <1>2, <2>1 DEF IInv, LogIsSound, RowIsSound
<1> QED
  BY <1>8, <1>9, <1>10 DEF Unfinished

(* The unfinished jobs that a meeting's projection shows are, in order,    *)
(* the ones that a restart runs again.                                     *)
LEMMA OpenJobsAre ==
  ASSUME IInv, NEW m, Decodes(log, m)
  PROVE  LET shown == ProjectedJobs(log, m)
             again == RecoverableJobs(log)
         IN /\ \A i \in Unfinished(m) : \E k \in Restarted(m) : shown[i] = again[k]
            /\ \A k \in Restarted(m) : \E i \in Unfinished(m) : shown[i] = again[k]
            /\ \A i, l \in Unfinished(m), k, n \in Restarted(m) :
                 shown[i] = again[k] /\ shown[l] = again[n] => (i < l <=> k < n)
<1> DEFINE shown == ProjectedJobs(log, m)
           again == RecoverableJobs(log)
<1>1. ASSUME NEW i \in Unfinished(m)
      PROVE  \E k \in Restarted(m) : shown[i] = again[k]
  <2>1. /\ KeptOf(shown[i].id) # {} /\ shown[i] = log[Max(KeptOf(shown[i].id))]
        /\ shown[i].meeting = m
    BY UnfinishedAre
  <2>2. PICK k \in DOMAIN again : again[k].id = shown[i].id
    BY <2>1, RecoverableAre
  <2>3. again[k] = shown[i]
    BY <2>1, <2>2, RecoverableAre
  <2> QED
    BY <2>1, <2>2, <2>3 DEF Restarted
<1>2. ASSUME NEW k \in Restarted(m)
      PROVE  \E i \in Unfinished(m) : shown[i] = again[k]
  BY RestartedAre
<1>3. ASSUME NEW i \in Unfinished(m), NEW l \in Unfinished(m),
             NEW k \in Restarted(m), NEW n \in Restarted(m),
             shown[i] = again[k], shown[l] = again[n]
      PROVE  i < l <=> k < n
  <2>1. /\ KeptOf(shown[i].id) = ShownOf(m, JobTypes, shown[i].id)
        /\ KeptOf(shown[l].id) = ShownOf(m, JobTypes, shown[l].id)
    BY UnfinishedAre
  <2>2. i < l <=> Earlier(KeptOf(shown[i].id), KeptOf(shown[l].id))
    <3>1. i \in DOMAIN shown /\ l \in DOMAIN shown
      BY DEF Unfinished
    <3>2. i < l <=> Earlier(ShownOf(m, JobTypes, shown[i].id),
                            ShownOf(m, JobTypes, shown[l].id))
      BY <3>1, ProjectedAre DEF ProjectedJobs
    <3> QED
      BY <2>1, <3>2
  <2>3. k < n <=> Earlier(KeptOf(again[k].id), KeptOf(again[n].id))
    BY RecoverableAre DEF Restarted
  <2> QED
    BY <1>3, <2>2, <2>3
<1> QED
  BY <1>1, <1>2, <1>3

THEOREM OpenJobsAreProjectedAlways == Spec => []OpenJobsAreProjected
<1>1. ASSUME IInv, NEW m \in Meeting, Decodes(log, m)
      PROVE  LET shown == ProjectedJobs(log, m)
                 again == RecoverableJobs(log)
             IN /\ {shown[i] : i \in Unfinished(m)} = {again[k] : k \in Restarted(m)}
                /\ \A i, l \in Unfinished(m), k, n \in Restarted(m) :
                     shown[i] = again[k] /\ shown[l] = again[n] => (i < l <=> k < n)
  BY <1>1, OpenJobsAre
<1>2. IInv => OpenJobsAreProjected
  BY <1>1 DEF OpenJobsAreProjected
<1> QED
  BY <1>2, Invariance, PTL

-----------------------------------------------------------------------------
(* The source of a meeting after each of the rows.                         *)

SourceStep(rows, m, source, i) ==
  IF rows[i].meeting = m THEN ApplySource(source, rows[i]) ELSE source

IsFollowing(rows, m, f) ==
  /\ f \in [0..Len(rows) -> Source]
  /\ f[0] = NoSource
  /\ \A i \in 1..Len(rows) : f[i] = SourceStep(rows, m, f[i - 1], i)

LEMMA NoSourceIs == NoSource \in Source /\ ~LooksLive(NoSource)
  BY DEF NoSource, Source, Mode, Lane, LooksLive

LEMMA ApplySourceIsTyped ==
  ASSUME NEW source \in Source, NEW row
  PROVE  ApplySource(source, row) \in Source
<1>1. SourceStarted(source, "mic+system") \in Source
  <2>1. Lanes("mic+system") \in SUBSET Lane /\ "mic+system" \in Mode \cup {"none"}
    BY DEF Lanes, Mode
  <2> QED
    BY <2>1 DEF SourceStarted, Source
<1>2. \A lane \in Lane : SourceFailed(source, "reported", lane) \in Source
  BY DEF SourceFailed, Source
<1>3. SourceStopped(source) \in Source
  BY DEF SourceStopped, Source
<1>4. "system" \in Lane /\ "mic" \in Lane
  BY DEF Lane
<1>5. \/ ApplySource(source, row) = SourceStarted(source, "mic+system")
      \/ ApplySource(source, row) = SourceFailed(source, "reported", "system")
      \/ ApplySource(source, row) = SourceFailed(source, "reported", "mic")
      \/ ApplySource(source, row) = SourceStopped(source)
      \/ ApplySource(source, row) = source
  BY DEF ApplySource
<1> QED
  BY <1>1, <1>2, <1>3, <1>4, <1>5

(* No stop leaves a source that looks live. *)
LEMMA StopIsNotLive ==
  ASSUME NEW source \in Source, NEW row, row.type = "source.stopped"
  PROVE  ~LooksLive(ApplySource(source, row))
<1>1. ApplySource(source, row) = SourceStopped(source)
  BY DEF ApplySource
<1> QED
  BY <1>1 DEF SourceStopped, LooksLive, Source

LEMMA SourceStepIsTyped ==
  ASSUME NEW rows, NEW m, NEW source \in Source, NEW i
  PROVE  SourceStep(rows, m, source, i) \in Source
  BY ApplySourceIsTyped DEF SourceStep

LEMMA ProjectedSourceIsALoop ==
  ASSUME NEW rows \in Seq(RowType), NEW m
  PROVE  \E f : IsFollowing(rows, m, f) /\ ProjectedSource(rows, m) = f[Len(rows)]
<1> DEFINE N == Len(rows)
           step == [i \in 1..N |-> [s \in Source |-> SourceStep(rows, m, s, i)]]
           IsAfter(f) ==
             f = [i \in 0..Len(rows) |->
                    IF i = 0 THEN NoSource
                    ELSE IF rows[i].meeting = m THEN ApplySource(f[i - 1], rows[i])
                    ELSE f[i - 1]]
           after == CHOOSE f : IsAfter(f)
<1>1. N \in Nat /\ NoSource \in Source
  BY LenProperties, NoSourceIs
<1>2. \E f : IsAfter(f)
  <2>1. \A i \in 1..N : \A s \in Source :
          step[i][s] = SourceStep(rows, m, s, i) /\ step[i][s] \in Source
    BY SourceStepIsTyped
  <2>2. PICK f : IsLoop(Source, N, NoSource, step, f)
    <3>1. IsStep(Source, N, step)
      BY <2>1 DEF IsStep
    <3> HIDE DEF N, step
    <3> QED
      BY <1>1, <3>1, LoopExists
  <2>3. \A i \in 1..N : f[i - 1] \in Source
    BY <1>1, <2>2 DEF IsLoop
  <2>4. \A i \in 1..N : f[i] = SourceStep(rows, m, f[i - 1], i)
    <3> HIDE DEF step
    <3> QED
      BY <2>1, <2>2, <2>3 DEF IsLoop
  <2>5. IsAfter(f)
    <3>1. \A i \in 0..N : i = 0 \/ i \in 1..N
      BY <1>1
    <3> QED
      BY <1>1, <2>2, <2>4, <3>1 DEF SourceStep, IsLoop
  <2> QED
    BY <2>5
<1>3. IsAfter(after)
  <2> HIDE DEF IsAfter
  <2> QED
    BY <1>2
<1>4. ProjectedSource(rows, m) = after[Len(rows)]
  BY DEF ProjectedSource
<1> HIDE DEF after
<1>5. /\ after[0] = NoSource
      /\ \A i \in 1..N : after[i] = SourceStep(rows, m, after[i - 1], i)
  <2>1. \A i \in 1..N : i \in 0..N /\ i # 0
    BY <1>1
  <2>2. 0 \in 0..N
    BY <1>1
  <2> QED
    BY <1>3, <2>1, <2>2 DEF SourceStep
<1>6. \A i \in 0..N : after[i] \in Source
  <2> DEFINE Fine == {i \in 0..N : after[i] \in Source}
  <2>1. 0 \in Fine
    BY <1>1, <1>5
  <2>2. \A n \in 0..(N - 1) : n \in Fine => n + 1 \in Fine
    <3> SUFFICES ASSUME NEW n \in 0..(N - 1), n \in Fine
                 PROVE  n + 1 \in Fine
      OBVIOUS
    <3>1. n + 1 \in 1..N /\ n + 1 \in 0..N /\ (n + 1) - 1 = n
      BY <1>1
    <3>2. after[n + 1] = SourceStep(rows, m, after[n], n + 1)
      BY <1>5, <3>1
    <3> QED
      BY <3>1, <3>2, SourceStepIsTyped
  <2> HIDE DEF Fine
  <2>3. \A n \in 0..N : n \in Fine
    BY <1>1, <2>1, <2>2, Reaches
  <2> QED
    BY <2>3 DEF Fine
<1>7. after \in [0..N -> Source]
  <2>1. after = [i \in 0..N |-> after[i]]
    BY <1>3
  <2> HIDE DEF IsAfter, N
  <2> QED
    BY <1>6, <2>1
<1> QED
  BY <1>4, <1>5, <1>7 DEF IsFollowing

(* A meeting without rows has no source. *)
LEMMA NoRowsNoSource ==
  ASSUME NEW rows \in Seq(RowType), NEW m, LooksLive(ProjectedSource(rows, m))
  PROVE  m \in Meetings(rows)
<1> SUFFICES ASSUME m \notin Meetings(rows)
             PROVE  FALSE
  OBVIOUS
<1>1. PICK f : IsFollowing(rows, m, f) /\ ProjectedSource(rows, m) = f[Len(rows)]
  BY ProjectedSourceIsALoop
<1>2. Len(rows) \in Nat /\ DOMAIN rows = 1..Len(rows)
  BY LenProperties
<1> DEFINE Without == {i \in 0..Len(rows) : f[i] = NoSource}
<1>3. 0 \in Without
  BY <1>1, <1>2 DEF IsFollowing
<1>4. ASSUME NEW n \in 0..(Len(rows) - 1), n \in Without
      PROVE  n + 1 \in Without
  <2>1. n + 1 \in 1..Len(rows) /\ n + 1 \in 0..Len(rows) /\ (n + 1) - 1 = n
    BY <1>2
  <2>2. rows[n + 1].meeting # m
    BY <1>2, <2>1 DEF Meetings
  <2>3. f[n + 1] = SourceStep(rows, m, f[n], n + 1)
    BY <1>1, <2>1 DEF IsFollowing
  <2> QED
    BY <1>4, <2>1, <2>2, <2>3 DEF SourceStep
<1>5. Len(rows) \in Without
  <2> HIDE DEF Without
  <2>1. \A n \in 0..Len(rows) : n \in Without
    BY <1>2, <1>3, <1>4, Reaches
  <2> QED
    BY <1>2, <2>1
<1> QED
  BY <1>1, <1>5, NoSourceIs

(* What is appended later does not change what a loop found before. *)
Follows(rows, m, f, N) ==
  f[0] = NoSource /\ \A i \in 1..N : f[i] = SourceStep(rows, m, f[i - 1], i)
StartsAs(rows, more, N) == \A i \in 1..N : rows[i] = more[i]

LEMMA FollowingIsStable ==
  ASSUME NEW N \in Nat, NEW rows, NEW more, StartsAs(rows, more, N), NEW m,
         NEW f, Follows(rows, m, f, N), NEW g, Follows(more, m, g, N)
  PROVE  f[N] = g[N]
<1> DEFINE Same == {i \in 0..N : f[i] = g[i]}
<1>1. 0 \in Same
  BY DEF Follows
<1>2. ASSUME NEW n \in 0..(N - 1), n \in Same
      PROVE  n + 1 \in Same
  <2>1. n + 1 \in 1..N /\ n + 1 \in 0..N /\ (n + 1) - 1 = n
    OBVIOUS
  <2>2. /\ f[n + 1] = SourceStep(rows, m, f[n], n + 1)
        /\ g[n + 1] = SourceStep(more, m, g[n], n + 1)
    BY <2>1 DEF Follows
  <2> QED
    BY <1>2, <2>1, <2>2 DEF SourceStep, StartsAs
<1> HIDE DEF Same
<1>3. \A n \in 0..N : n \in Same
  BY <1>1, <1>2, Reaches
<1> QED
  BY <1>3 DEF Same

(* The sweep at boot: a meeting that decodes does not look live after it.  *)
LEMMA SweepEnds ==
  ASSUME TypeOK, NEW m, Decodes(log, m)
  PROVE  ~LooksLive(ProjectedSource(Swept(log), m))
<1> DEFINE S == {n \in Meetings(log) : Orphaned(log, n)}
           stops == Stops(InOrder(S))
           swept == Swept(log)
           L == Len(log)
           N == Len(swept)
<1>1. /\ log \in Seq(RowType) /\ L \in Nat
      /\ stops \in Seq(RowType) /\ Len(stops) = Cardinality(S) /\ Cardinality(S) \in Nat
      /\ \A i \in 1..Cardinality(S) :
           /\ InOrder(S)[i] \in S
           /\ stops[i] = Row("source.stopped", InOrder(S)[i], "boot", "none")
      /\ \A x \in S : \E i \in 1..Cardinality(S) : InOrder(S)[i] = x
  <2>1. S \in SUBSET Meetings(log)
    OBVIOUS
  <2> HIDE DEF S
  <2> QED
    BY <2>1, StopsAre, LogIs DEF TypeOK
<1>2. swept = log \o stops
  BY DEF Swept
<1>3. S = {n \in Meetings(log) : Orphaned(log, n)}
  OBVIOUS
<1> HIDE DEF S, stops, swept
<1>4. /\ swept \in Seq(RowType) /\ N \in Nat /\ N = L + Cardinality(S)
      /\ \A i \in 1..N : swept[i] = IF i <= L THEN log[i] ELSE stops[i - L]
  BY <1>1, <1>2, ConcatProperties, LenProperties
<1>5. /\ \A i \in 1..L : log[i] = swept[i]
      /\ \A i \in (L + 1)..N : swept[i].type = "source.stopped"
      /\ \A x \in S : \E i \in (L + 1)..N : swept[i].meeting = x
  <2>1. \A i \in 1..L : log[i] = swept[i]
    BY <1>1, <1>4
  <2>2. \A i \in (L + 1)..N : i - L \in 1..Cardinality(S) /\ swept[i] = stops[i - L]
    BY <1>1, <1>4
  <2>3. \A i \in 1..Cardinality(S) : L + i \in (L + 1)..N /\ swept[L + i] = stops[i]
    BY <1>1, <1>4
  <2>4. \A i \in (L + 1)..N : swept[i].type = "source.stopped"
    BY <1>1, <2>2 DEF Row
  <2>5. ASSUME NEW x \in S
        PROVE  \E i \in (L + 1)..N : swept[i].meeting = x
    <3>1. PICK i \in 1..Cardinality(S) : InOrder(S)[i] = x
      BY <1>1
    <3>2. stops[i] = Row("source.stopped", x, "boot", "none")
      BY <1>1, <3>1
    <3>3. stops[i].meeting = x
      BY <3>2 DEF Row
    <3> QED
      BY <2>3, <3>3
  <2> QED
    BY <2>1, <2>4, <2>5
<1>6. PICK g : IsFollowing(log, m, g) /\ ProjectedSource(log, m) = g[L]
  BY <1>1, ProjectedSourceIsALoop
<1>7. PICK f : IsFollowing(swept, m, f) /\ ProjectedSource(swept, m) = f[N]
  BY <1>4, ProjectedSourceIsALoop
<1>8. f[L] = g[L]
  <2>1. Follows(log, m, g, L)
    BY <1>6 DEF IsFollowing, Follows
  <2>2. Follows(swept, m, f, L)
    BY <1>1, <1>4, <1>7 DEF IsFollowing, Follows
  <2>3. StartsAs(log, swept, L)
    BY <1>5 DEF StartsAs
  <2> HIDE DEF L
  <2> QED
    BY <1>1, <2>1, <2>2, <2>3, FollowingIsStable
<1>9. LooksLive(f[L]) => m \in S
  <2>1. ASSUME LooksLive(f[L])
        PROVE  m \in S
    <3>1. LooksLive(ProjectedSource(log, m))
      BY <1>6, <1>8, <2>1
    <3>2. m \in Meetings(log)
      BY <1>1, <3>1, NoRowsNoSource
    <3> QED
      BY <1>3, <3>1, <3>2 DEF Orphaned
  <2> QED
    BY <2>1
<1> DEFINE Fine == {i \in 0..N :
                      \/ i < L \/ ~LooksLive(f[i])
                      \/ \E n \in (L + 1)..N : i < n /\ swept[n].meeting = m}
<1>10. 0 \in Fine
  <2>1. 0 \in 0..N
    BY <1>4
  <2>2. CASE L # 0
    BY <1>1, <2>1, <2>2
  <2>3. CASE L = 0 /\ LooksLive(f[0])
    <3>1. PICK n \in (L + 1)..N : swept[n].meeting = m
      BY <1>5, <1>9, <2>3
    <3> QED
      BY <1>1, <2>1, <3>1
  <2> QED
    BY <2>1, <2>2, <2>3
<1>11. ASSUME NEW n \in 0..(N - 1), n \in Fine
       PROVE  n + 1 \in Fine
  <2>1. n + 1 \in 1..N /\ n + 1 \in 0..N /\ (n + 1) - 1 = n /\ n \in 0..N
    BY <1>4
  <2>2. f[n + 1] = SourceStep(swept, m, f[n], n + 1) /\ f[n] \in Source
    BY <1>7, <2>1 DEF IsFollowing
  <2>3. CASE n + 1 < L
    BY <2>1, <2>3
  <2>4. CASE n + 1 = L
    <3>1. LooksLive(f[n + 1]) => \E k \in (L + 1)..N : n + 1 < k /\ swept[k].meeting = m
      <4> SUFFICES ASSUME LooksLive(f[n + 1])
                   PROVE  \E k \in (L + 1)..N : n + 1 < k /\ swept[k].meeting = m
        OBVIOUS
      <4>1. PICK k \in (L + 1)..N : swept[k].meeting = m
        BY <1>5, <1>9, <2>4
      <4>2. n + 1 < k
        BY <1>1, <2>4, <4>1
      <4> QED
        BY <4>1, <4>2
    <3> QED
      BY <2>1, <3>1
  <2>5. CASE ~(n + 1 < L) /\ n + 1 # L
    <3>1. n + 1 \in (L + 1)..N /\ ~(n < L)
      BY <1>1, <1>4, <2>1, <2>5
    <3>2. CASE swept[n + 1].meeting = m
      <4>1. ~LooksLive(f[n + 1])
        BY <1>5, <2>2, <3>1, <3>2, StopIsNotLive DEF SourceStep
      <4> QED
        BY <2>1, <4>1
    <3>3. CASE swept[n + 1].meeting # m
      <4>1. f[n + 1] = f[n]
        BY <2>2, <3>3 DEF SourceStep
      <4>2. ASSUME LooksLive(f[n])
            PROVE  \E k \in (L + 1)..N : n + 1 < k /\ swept[k].meeting = m
        <5>1. PICK k \in (L + 1)..N : n < k /\ swept[k].meeting = m
          BY <1>11, <3>1, <4>2
        <5>2. k # n + 1
          BY <3>3, <5>1
        <5>3. n + 1 < k
          BY <1>1, <1>4, <5>1, <5>2
        <5> QED
          BY <5>1, <5>3
      <4> QED
        BY <2>1, <4>1, <4>2
    <3> QED
      BY <3>2, <3>3
  <2> QED
    BY <2>3, <2>4, <2>5
<1>12. N \in Fine
  <2> HIDE DEF Fine, N
  <2>1. \A n \in 0..N : n \in Fine
    BY <1>4, <1>10, <1>11, Reaches
  <2> QED
    BY <1>4, <2>1
<1>13. ~LooksLive(f[N])
  <2>1. ~(N < L) /\ \A n \in (L + 1)..N : ~(N < n)
    BY <1>1, <1>4
  <2> QED
    BY <1>12, <2>1
<1> QED
  BY <1>7, <1>13 DEF swept

(* reconcile_orphaned_captures: whenever the daemon boots, after its sweep *)
(* no meeting that decodes looks live, whatever the others hold.           *)
THEOREM BootEndsCapturesAlways == Spec => []BootEndsCaptures
<1>1. TypeOK => BootEndsCaptures
  BY SweepEnds DEF BootEndsCaptures
<1> QED
  BY <1>1, TypeCorrect, PTL

-----------------------------------------------------------------------------
(* The catalogue.                                                          *)

IsPairing(S, T, f) ==
  /\ f \in [S -> T]
  /\ \A x, y \in S : f[x] = f[y] => x = y
  /\ \A z \in T : \E x \in S : f[x] = z

LEMMA SameSize ==
  ASSUME NEW S, NEW T, NEW f, IsFiniteSet(S), IsPairing(S, T, f)
  PROVE  IsFiniteSet(T) /\ Cardinality(T) = Cardinality(S) /\ Cardinality(S) \in Nat
<1>1. f \in Surjection(S, T) /\ f \in Injection(S, T)
  BY DEF IsPairing, Surjection, Injection, IsInjective
<1> QED
  BY <1>1, FS_Surjection, FS_CardinalityType

(* The last row of a meeting is a row of it and tells it from the others. *)
LEMMA LastRowIs ==
  ASSUME TypeOK, NEW m \in Meetings(log)
  PROVE  /\ LastRow(log, m) \in DOMAIN log /\ log[LastRow(log, m)].meeting = m
         /\ \A i \in DOMAIN log : log[i].meeting = m => i <= LastRow(log, m)
<1>1. Events(log, m) # {} /\ Events(log, m) \in SUBSET (1..Len(log)) /\ Len(log) \in Nat
  BY LogIs DEF Events, Meetings
<1>2. /\ Max(Events(log, m)) \in Events(log, m)
      /\ \A i \in Events(log, m) : i <= Max(Events(log, m))
  BY <1>1, PlacesAre
<1> QED
  BY <1>2 DEF LastRow, Events

(* The last rows of the meetings, the newest first. *)
Recent == Reverse(InOrder({LastRow(log, m) : m \in Meetings(log)}))

LEMMA RecentIs ==
  ASSUME TypeOK
  PROVE  /\ Recent \in Seq(DOMAIN log) /\ DOMAIN Recent = 1..Len(Recent)
         /\ Len(Recent) = Cardinality(Meetings(log))
         /\ \A n \in DOMAIN Recent : log[Recent[n]].meeting \in Meetings(log)
         /\ \A m \in Meetings(log) : \E n \in DOMAIN Recent : log[Recent[n]].meeting = m
         /\ log # <<>> => Len(Recent) >= 1 /\ Recent[1] = Len(log)
<1> DEFINE M == Meetings(log)
           last == [m \in M |-> LastRow(log, m)]
           R == {LastRow(log, m) : m \in M}
           C == Cardinality(R)
           order == InOrder(R)
<1>1. Len(log) \in Nat /\ DOMAIN log = 1..Len(log)
  BY LogIs
<1>2. IsPairing(M, R, last)
  BY LastRowIs DEF IsPairing
<1>3. C = Cardinality(M) /\ IsFiniteSet(R) /\ C \in Nat
  BY <1>2, MeetingsAre, SameSize
<1>4. R \in SUBSET DOMAIN log /\ R \in SUBSET Nat
  <2>1. R \in SUBSET DOMAIN log
    BY LastRowIs
  <2> HIDE DEF R
  <2> QED
    BY <1>1, <2>1
<1>5. \A r \in R : log[r].meeting \in M /\ last[log[r].meeting] = r
  BY LastRowIs
<1>6. \A m \in M : last[m] \in R /\ log[last[m]].meeting = m
  BY LastRowIs
<1>7. log # <<>> => Len(log) \in R /\ \A r \in R : r <= Len(log)
  <2> SUFFICES ASSUME log # <<>>
               PROVE  Len(log) \in R /\ \A r \in R : r <= Len(log)
    OBVIOUS
  <2>1. Len(log) \in DOMAIN log
    <3>1. Len(log) # 0
      BY EmptySeq DEF TypeOK
    <3> QED
      BY <1>1, <3>1
  <2>2. log[Len(log)].meeting \in M
    BY <2>1 DEF Meetings
  <2>3. /\ LastRow(log, log[Len(log)].meeting) \in DOMAIN log
        /\ Len(log) <= LastRow(log, log[Len(log)].meeting)
    BY <2>1, <2>2, LastRowIs
  <2>4. LastRow(log, log[Len(log)].meeting) = Len(log)
    BY <1>1, <2>3
  <2>5. Len(log) \in R
    BY <2>2, <2>4
  <2> HIDE DEF R
  <2> QED
    BY <1>1, <1>4, <2>5
<1>8. /\ order \in [1..C -> R] /\ Len(order) = C
      /\ \A i, j \in 1..C : i < j => order[i] < order[j]
      /\ \A x \in R : \E i \in 1..C : order[i] = x
  <2> HIDE DEF R
  <2> QED
    BY <1>3, <1>4, InOrderIs
<1> HIDE DEF order, C, R, M
<1>9. Recent = [i \in 1..C |-> order[C - i + 1]]
  BY <1>8 DEF Recent, Reverse, order, R, M
<1>10. \A i \in 1..C : C - i + 1 \in 1..C /\ C - (C - i + 1) + 1 = i
  BY <1>3
<1>11. /\ Recent \in [1..C -> R] /\ DOMAIN Recent = 1..C
       /\ \A x \in R : \E n \in 1..C : Recent[n] = x
  <2>1. \A x \in R : \E n \in 1..C : Recent[n] = x
    <3> SUFFICES ASSUME NEW x \in R
                 PROVE  \E n \in 1..C : Recent[n] = x
      OBVIOUS
    <3>1. PICK i \in 1..C : order[i] = x
      BY <1>8
    <3>2. C - i + 1 \in 1..C /\ Recent[C - i + 1] = order[C - (C - i + 1) + 1]
      BY <1>9, <1>10
    <3>3. order[C - (C - i + 1) + 1] = x
      BY <1>10, <3>1
    <3> QED
      BY <3>2, <3>3
  <2> QED
    BY <1>8, <1>9, <1>10, <2>1
<1>12. Recent \in Seq(DOMAIN log) /\ Len(Recent) = C
  <2>1. Recent \in [1..C -> DOMAIN log]
    BY <1>4, <1>11
  <2> QED
    BY <1>3, <2>1
<1>13. /\ \A n \in DOMAIN Recent : log[Recent[n]].meeting \in Meetings(log)
       /\ \A m \in Meetings(log) : \E n \in DOMAIN Recent : log[Recent[n]].meeting = m
  <2>1. \A n \in DOMAIN Recent : Recent[n] \in R
    BY <1>11
  <2>2. \A m \in M : \E n \in DOMAIN Recent : log[Recent[n]].meeting = m
    BY <1>6, <1>11
  <2> QED
    BY <1>5, <2>1, <2>2 DEF M
<1>14. ASSUME log # <<>>
       PROVE  C >= 1 /\ Recent[1] = Len(log)
  <2>1. PICK i \in 1..C : order[i] = Len(log)
    BY <1>7, <1>8, <1>14
  <2>2. C \in 1..C /\ order[C] \in R /\ order[C] <= Len(log)
    BY <1>3, <1>7, <1>8, <1>14, <2>1
  <2>3. order[C] \in Nat
    BY <1>4, <2>2
  <2>4. ~(i < C)
    BY <1>1, <1>8, <2>1, <2>2, <2>3
  <2>5. i = C /\ 1 \in 1..C /\ C - 1 + 1 = C
    BY <1>3, <2>1, <2>4
  <2>6. Recent[1] = order[C - 1 + 1]
    BY <1>9, <2>5
  <2>7. Recent[1] = Len(log)
    BY <2>1, <2>5, <2>6
  <2> QED
    BY <1>3, <2>5, <2>7
<1> QED
  BY <1>3, <1>12, <1>11, <1>13, <1>14 DEF M

(* As many jobs as a restart would run. *)
LEMMA RunningIs ==
  ASSUME IInv, NEW m, Decodes(log, m)
  PROVE  CountStatus(ProjectedJobs(log, m), OpenStatus) = Cardinality(Restarted(m))
<1> DEFINE shown == ProjectedJobs(log, m)
           again == RecoverableJobs(log)
           U == Unfinished(m)
           R == Restarted(m)
           f == [i \in U |-> CHOOSE k \in R : shown[i] = again[k]]
<1>1. /\ \A i \in U : \E k \in R : shown[i] = again[k]
      /\ \A k \in R : \E i \in U : shown[i] = again[k]
      /\ \A i, l \in U, k, n \in R :
           shown[i] = again[k] /\ shown[l] = again[n] => (i < l <=> k < n)
  BY OpenJobsAre
<1>2. /\ shown \in Seq(RowType) /\ U \in SUBSET (1..Len(shown))
      /\ again \in Seq(RowType) /\ R \in SUBSET (1..Len(again))
  BY ProjectedAre, RecoverableAre DEF ProjectedJobs, Unfinished, Restarted
<1>3. CountStatus(shown, OpenStatus) = Cardinality(U)
  BY DEF CountStatus, Unfinished
<1> HIDE DEF shown, again, U, R
<1>4. IsFiniteSet(U) /\ (\A i \in U : i \in Nat) /\ (\A k \in R : k \in Nat)
  <2>1. Len(shown) \in Nat /\ Len(again) \in Nat
    BY <1>2, LenProperties
  <2>2. IsFiniteSet(U)
    BY <1>2, <2>1, PlacesAre
  <2> QED
    BY <1>2, <2>1, <2>2
<1>5. \A i \in U : f[i] \in R /\ shown[i] = again[f[i]]
  <2> SUFFICES ASSUME NEW i \in U
               PROVE  f[i] \in R /\ shown[i] = again[f[i]]
    OBVIOUS
  <2>1. \E k \in R : shown[i] = again[k]
    BY <1>1
  <2>2. f[i] = CHOOSE k \in R : shown[i] = again[k]
    OBVIOUS
  <2> HIDE DEF f
  <2> QED
    BY <2>1, <2>2
<1>6. f \in [U -> R]
  <2>1. f = [i \in U |-> f[i]]
    OBVIOUS
  <2> HIDE DEF f
  <2> QED
    BY <1>5, <2>1
<1> HIDE DEF f
<1>7. ASSUME NEW x \in U, NEW y \in U, f[x] = f[y]
      PROVE  x = y
  <2>1. f[x] \in R /\ f[y] \in R /\ f[x] \in Nat /\ x \in Nat /\ y \in Nat
    BY <1>4, <1>5
  <2>2. (x < y <=> f[x] < f[y]) /\ (y < x <=> f[y] < f[x])
    <3> DEFINE Pair(i, k) == shown[i] = again[k]
    <3>1. Pair(x, f[x]) /\ Pair(y, f[y])
      BY <1>5
    <3>2. \A i, l \in U, k, n \in R : Pair(i, k) /\ Pair(l, n) => (i < l <=> k < n)
      BY <1>1
    <3> HIDE DEF Pair
    <3> QED
      BY <2>1, <3>1, <3>2
  <2>3. ~(x < y) /\ ~(y < x)
    BY <1>7, <2>1, <2>2
  <2> QED
    BY <2>1, <2>3
<1>8. ASSUME NEW k \in R
      PROVE  \E i \in U : f[i] = k
  <2>1. PICK i \in U : shown[i] = again[k]
    BY <1>1
  <2>2. f[i] \in R /\ shown[i] = again[f[i]] /\ i \in Nat /\ f[i] \in Nat /\ k \in Nat
    BY <1>4, <1>5
  <2>3. (i < i <=> f[i] < k) /\ (i < i <=> k < f[i])
    <3> DEFINE Pair(l, n) == shown[l] = again[n]
    <3>1. Pair(i, k) /\ Pair(i, f[i])
      BY <2>1, <2>2
    <3>2. \A j, l \in U, a, b \in R : Pair(j, a) /\ Pair(l, b) => (j < l <=> a < b)
      BY <1>1
    <3> HIDE DEF Pair
    <3> QED
      BY <2>2, <3>1, <3>2
  <2>4. f[i] = k
    BY <2>2, <2>3
  <2> QED
    BY <2>4
<1>9. IsPairing(U, R, f)
  BY <1>6, <1>7, <1>8 DEF IsPairing
<1>10. Cardinality(U) = Cardinality(R)
  BY <1>4, <1>9, SameSize
<1> QED
  BY <1>3, <1>10 DEF shown, R

(* As many proposals as nobody decided. *)
LEMMA SuggestionsAre ==
  ASSUME IInv, NEW m \in Meetings(log), ~CatalogueFails(log)
  PROVE  CountStatus(ProjectedProposals(log, m), {"proposed"})
           = Cardinality({p \in Proposal : /\ FindLatestProposal(log, p) = "proposed"
                                           /\ Home(p) = m})
<1> DEFINE shown == ProjectedProposals(log, m)
           U == {i \in DOMAIN shown : shown[i].status \in {"proposed"}}
           P == {p \in Proposal : FindLatestProposal(log, p) = "proposed" /\ Home(p) = m}
           f == [i \in U |-> shown[i].id]
           types == {"proposal"}
           rows(p) == ShownOf(m, types, p)
<1>1. /\ shown \in Seq(RowType) /\ DOMAIN shown = 1..Len(shown)
      /\ \A i \in DOMAIN shown :
           rows(shown[i].id) # {} /\ shown[i] = log[Max(rows(shown[i].id))]
      /\ \A p : rows(p) # {} => \E i \in DOMAIN shown : shown[i].id = p
      /\ \A i, k \in DOMAIN shown :
           i < k <=> Earlier(rows(shown[i].id), rows(shown[k].id))
  <2> DEFINE items == Collected(log, Events(log, m) \cap Typed(log, types), {})
  <2>1. shown = items
    BY DEF ProjectedProposals
  <2> HIDE DEF shown, types
  <2>2. /\ items \in Seq(RowType) /\ DOMAIN items = 1..Len(items)
        /\ \A i \in DOMAIN items :
             /\ ShownOf(m, types, items[i].id) # {}
             /\ items[i] = log[Max(ShownOf(m, types, items[i].id))]
             /\ Max(ShownOf(m, types, items[i].id)) \in ShownOf(m, types, items[i].id)
        /\ \A id : ShownOf(m, types, id) # {} =>
             \E i \in DOMAIN items : items[i].id = id
        /\ \A i, k \in DOMAIN items :
             i < k <=> Earlier(ShownOf(m, types, items[i].id),
                               ShownOf(m, types, items[k].id))
    BY ProjectedAre
  <2> HIDE DEF items
  <2> QED
    BY <2>1, <2>2
<1>2. \A i \in DOMAIN log : log[i].ok
  BY DEF CatalogueFails, Decodes, Events, Decoded, Meetings
<1>3. \A p : FindLatestProposal(log, p) # "error"
  <2> SUFFICES ASSUME NEW p, Deciding(log, p) # {}
               PROVE  log[Max(Deciding(log, p))].ok /\
                      log[Max(Deciding(log, p))].status # "error"
    BY DEF FindLatestProposal
  <2>1. Deciding(log, p) \in SUBSET (1..Len(log)) /\ Len(log) \in Nat
    BY LogIs DEF Deciding, Typed, IInv
  <2>2. Max(Deciding(log, p)) \in Deciding(log, p)
    BY <2>1, PlacesAre
  <2>3. Max(Deciding(log, p)) \in DOMAIN log
    BY <2>2 DEF Deciding, Typed
  <2>4. log[Max(Deciding(log, p))] \in RowType
    BY <2>3, LogIs DEF IInv
  <2> QED
    BY <1>2, <2>3, <2>4 DEF RowType
<1>4. ASSUME NEW i \in DOMAIN shown
      PROVE  /\ shown[i].id \in Proposal /\ rows(shown[i].id) = Rows(shown[i].id)
             /\ Home(shown[i].id) = m
             /\ FindLatestProposal(log, shown[i].id) = shown[i].status
  <2> DEFINE p == shown[i].id
  <2>1. p \in Proposal /\ rows(p) = Rows(p) /\ rows(p) # {}
    BY <1>1, ProposalsAreShown
  <2>2. \A k \in Rows(p) : log[k].meeting = m
    BY <2>1, ShownIs
  <2>3. Home(p) = m
    BY <2>1, <2>2, HomeIs DEF IInv
  <2>4. Newest(p) = shown[i] /\ Max(Rows(p)) \in Rows(p)
    BY <1>1, <2>1, RowsAre DEF Newest, IInv
  <2>5. FindLatestProposal(log, p) # "none"
    <3>1. Max(Rows(p)) \in Deciding(log, p)
      BY <2>1, <2>4, ShownIs DEF Deciding, Typed, Rows
    <3>2. Deciding(log, p) \in SUBSET (1..Len(log)) /\ Len(log) \in Nat
      BY LogIs DEF Deciding, Typed, IInv
    <3>3. Max(Deciding(log, p)) \in Deciding(log, p)
      BY <3>1, <3>2, PlacesAre
    <3>4. log[Max(Deciding(log, p))].status # "none"
      BY <3>3 DEF Deciding, Typed, IInv, LogIsSound, RowIsSound
    <3> QED
      BY <3>1, <3>4 DEF FindLatestProposal
  <2>6. FindLatestProposal(log, p) = Newest(p).status
    BY <1>3, <2>1, <2>5, LatestIsNewest
  <2> QED
    BY <2>1, <2>3, <2>4, <2>6
<1>5. ASSUME NEW p \in P
      PROVE  \E i \in DOMAIN shown : shown[i].id = p
  <2>1. Rows(p) # {} /\ p \in Proposal
    BY LatestIsNewest
  <2>2. \A k \in Rows(p) : log[k].meeting = m
    BY <2>1, HomeIs DEF IInv
  <2>3. \A k \in Rows(p) : log[k].type = "proposal"
    <3> SUFFICES ASSUME NEW k \in Rows(p)
                 PROVE  log[k].type = "proposal"
      OBVIOUS
    <3>1. k \in DOMAIN log /\ log[k].id = p /\ RowIsSound(log[k]) /\ log[k] \in RowType
      BY LogIs DEF Rows, IInv, LogIsSound
    <3> QED
      BY <2>1, <3>1, ConstantsAssumption DEF RowIsSound, RowType
  <2>4. rows(p) # {}
    BY <2>1, <2>2, <2>3, ShownIs
  <2> QED
    BY <1>1, <2>4
<1>6. IsFiniteSet(U) /\ \A i \in U : i \in Nat /\ i \in DOMAIN shown
  <2>1. Len(shown) \in Nat
    BY <1>1, LenProperties
  <2> HIDE DEF shown
  <2>2. U \in SUBSET (1..Len(shown))
    BY <1>1
  <2>3. IsFiniteSet(U)
    BY <2>1, <2>2, PlacesAre
  <2> QED
    BY <1>1, <2>1, <2>3
<1> HIDE DEF shown, rows
<1>7. f \in [U -> P]
  BY <1>4
<1>8. ASSUME NEW x \in U, NEW y \in U, f[x] = f[y]
      PROVE  x = y
  <2>1. shown[x].id = shown[y].id /\ x \in DOMAIN shown /\ y \in DOMAIN shown
    BY <1>8
  <2>2. x < y <=> y < x
    <3>1. x < y <=> Earlier(rows(shown[x].id), rows(shown[y].id))
      BY <1>1, <2>1
    <3>2. y < x <=> Earlier(rows(shown[y].id), rows(shown[x].id))
      BY <1>1, <2>1
    <3> QED
      BY <2>1, <3>1, <3>2
  <2>3. x \in Nat /\ y \in Nat
    BY <1>6
  <2> QED
    BY <2>2, <2>3
<1>9. ASSUME NEW p \in P
      PROVE  \E i \in U : f[i] = p
  <2>1. PICK i \in DOMAIN shown : shown[i].id = p
    BY <1>5
  <2>2. shown[i].status = "proposed"
    BY <1>4, <2>1
  <2> QED
    BY <2>1, <2>2
<1>10. IsPairing(U, P, f)
  <2> HIDE DEF U, P, f
  <2> QED
    BY <1>7, <1>8, <1>9 DEF IsPairing
<1>11. Cardinality(P) = Cardinality(U)
  BY <1>6, <1>10, SameSize
<1>12. CountStatus(shown, {"proposed"}) = Cardinality(U)
  BY DEF CountStatus
<1> QED
  BY <1>11, <1>12 DEF shown

(* The catalogue lists every meeting once, the one written to last first,  *)
(* and counts what the ledger holds open.                                  *)
THEOREM CatalogueIsTheLedgerAlways == Spec => []CatalogueIsTheLedger
<1>1. ASSUME IInv, ~CatalogueFails(log)
      PROVE  LET all == Catalogue(log)
                 undecided(m) == {p \in Proposal : /\ FindLatestProposal(log, p) = "proposed"
                                                   /\ Home(p) = m}
             IN /\ log # <<>> => all[1].id = log[Len(log)].meeting
                /\ {all[i].id : i \in DOMAIN all} = Meetings(log)
                /\ Len(all) = Cardinality(Meetings(log))
                /\ \A i \in DOMAIN all :
                     /\ all[i].running = Cardinality(Restarted(all[i].id))
                     /\ all[i].suggestions = Cardinality(undecided(all[i].id))
  <2> DEFINE all == Catalogue(log)
             undecided(m) == {p \in Proposal : /\ FindLatestProposal(log, p) = "proposed"
                                               /\ Home(p) = m}
             N == Len(Recent)
             of(n) == log[Recent[n]].meeting
  <2>1. /\ DOMAIN Recent = 1..N /\ N \in Nat /\ N = Cardinality(Meetings(log))
        /\ \A n \in DOMAIN Recent : of(n) \in Meetings(log)
        /\ \A m \in Meetings(log) : \E n \in DOMAIN Recent : of(n) = m
        /\ log # <<>> => N >= 1 /\ Recent[1] = Len(log)
    BY <1>1, RecentIs, LenProperties DEF IInv
  <2>2. all = [n \in 1..N |-> Summary(log, of(n))]
    BY <2>1 DEF Catalogue, Recent
  <2> HIDE DEF all, of, N
  <2>3. DOMAIN all = 1..N /\ \A n \in 1..N : all[n] = Summary(log, of(n))
    BY <2>2
  <2>4. Len(all) = N
    <3> DEFINE A == {Summary(log, of(n)) : n \in 1..N}
    <3>1. all \in [1..N -> A]
      BY <2>2
    <3> HIDE DEF A
    <3> QED
      BY <2>1, <3>1
  <2>5. \A n \in 1..N : all[n].id = of(n)
    BY <2>3 DEF Summary
  <2>6. {all[i].id : i \in DOMAIN all} = Meetings(log)
    BY <2>1, <2>3, <2>5
  <2>7. ASSUME log # <<>>
        PROVE  all[1].id = log[Len(log)].meeting
    BY <2>1, <2>5, <2>7 DEF of
  <2>8. ASSUME NEW n \in 1..N
        PROVE  /\ all[n].running = Cardinality(Restarted(all[n].id))
               /\ all[n].suggestions = Cardinality(undecided(all[n].id))
    <3>1. of(n) \in Meetings(log) /\ Decodes(log, of(n))
      BY <1>1, <2>1 DEF CatalogueFails
    <3>2. /\ all[n].running = CountStatus(ProjectedJobs(log, of(n)), OpenStatus)
          /\ all[n].suggestions = CountStatus(ProjectedProposals(log, of(n)), {"proposed"})
      BY <2>3 DEF Summary
    <3>3. all[n].id = of(n)
      BY <2>5
    <3> HIDE DEF undecided
    <3>4. CountStatus(ProjectedJobs(log, of(n)), OpenStatus) = Cardinality(Restarted(of(n)))
      BY <1>1, <3>1, RunningIs
    <3>5. CountStatus(ProjectedProposals(log, of(n)), {"proposed"})
            = Cardinality(undecided(of(n)))
      BY <1>1, <3>1, SuggestionsAre DEF undecided
    <3> QED
      BY <3>2, <3>3, <3>4, <3>5
  <2> QED
    BY <2>1, <2>3, <2>4, <2>6, <2>7, <2>8 DEF all
<1>2. IInv => CatalogueIsTheLedger
  BY <1>1 DEF CatalogueIsTheLedger
<1> QED
  BY <1>2, Invariance, PTL

=============================================================================
