---------------------------- MODULE SelectionProofs ----------------------------
(******************************************************************************)
(* Proofs about what is chosen among the finds of all sources: by             *)
(* OpportunityRouter, PayableScout and OpportunityRadar, for every set of     *)
(* rows, issues and hits, and every limit.                                    *)
(******************************************************************************)
EXTENDS OpportunityRouter, PayableScout, OpportunityRadar, SumTheorems

--------------------------------------------------------------------------------
(* OpportunityRouter: the copies of a listing, and the verdict of the one that is kept.   *)

(* The steps of Dedupe. *)
LEMMA DedupeFolds ==
  ASSUME NEW Row, NEW rows \in Seq(Row)
  PROVE  /\ Dedupe(rows) \in Seq(Row)
         /\ \E a \in [0 .. Len(rows) -> Seq(Row)] :
              /\ a[0] = <<>> /\ a[Len(rows)] = Dedupe(rows)
              /\ \A k \in 1 .. Len(rows) :
                   /\ a[k - 1] \in Seq(Row)
                   /\ a[k] = PutCopy(a[k - 1], rows[k])
<1> DEFINE n == Len(rows)
           step == [p \in Seq(Row) \X (1 .. n) |-> PutCopy(p[1], rows[p[2]])]
           Fold(g) == g = [T \in SUBSET (1 .. n) |-> IF T = {} THEN <<>>
                             ELSE PutCopy(g[T \ {Max(T)}], rows[Max(T)])]
           h == CHOOSE g : Fold(g)
<1>0. n \in Nat /\ DOMAIN rows = 1 .. n /\ <<>> \in Seq(Row)
  OBVIOUS
<1>1. step \in [Seq(Row) \X (1 .. n) -> Seq(Row)]
  <2>1. ASSUME NEW acc \in Seq(Row), NEW i \in 1 .. n PROVE PutCopy(acc, rows[i]) \in Seq(Row)
    BY <1>0 DEF PutCopy
  <2> QED
    BY <2>1
<1> HIDE DEF n
<1>2. PICK g \in [SUBSET (1 .. n) -> Seq(Row)] : Runs(step, <<>>, n, g)
  <2> HIDE DEF step
  <2> QED
    BY <1>0, <1>1, FoldRuns
<1>3. ASSUME NEW T \in SUBSET (1 .. n), T # {} PROVE Max(T) \in 1 .. n /\ T \ {Max(T)} \in SUBSET (1 .. n)
  BY <1>0, <1>3, MaxOfIndices
<1>4. Fold(g)
  BY <1>2, <1>3 DEF Runs
<1>5. Fold(h)
  BY <1>4
<1>6. Dedupe(rows) = h[1 .. n]
  BY <1>0 DEF Dedupe, FoldLeft, MapThenFoldSet
<1>7. Obeys(step, <<>>, n, Seq(Row), h)
  <2>1. h[{}] = <<>>
    BY <1>5
  <2>2. ASSUME NEW T \in SUBSET (1 .. n), T # {}, h[T \ {Max(T)}] \in Seq(Row)
        PROVE  h[T] = step[<<h[T \ {Max(T)}], Max(T)>>]
    <3>1. h[T] = PutCopy(h[T \ {Max(T)}], rows[Max(T)])
      BY <1>5, <2>2
    <3> HIDE DEF h
    <3> QED
      BY <1>3, <2>2, <3>1
  <2> QED
    BY <2>1, <2>2 DEF Obeys
<1> HIDE DEF h, step
<1>8. EndsIn(step, <<>>, n, Seq(Row), h[1 .. n])
  BY <1>0, <1>1, <1>7, FoldTrace
<1>9. PICK a \in [0 .. n -> Seq(Row)] :
            /\ a[0] = <<>> /\ a[n] = Dedupe(rows)
            /\ \A k \in 1 .. n : a[k - 1] \in Seq(Row) /\ a[k] = step[<<a[k - 1], k>>]
  BY <1>6, <1>8 DEF EndsIn
<1>10. \A k \in 1 .. n :
         a[k - 1] \in Seq(Row) /\ a[k] = PutCopy(a[k - 1], rows[k])
  BY <1>9 DEF step
<1>11. Dedupe(rows) \in Seq(Row)
  BY <1>0, <1>9
<1>12. \E b \in [0 .. n -> Seq(Row)] :
         /\ b[0] = <<>> /\ b[n] = Dedupe(rows)
         /\ \A k \in 1 .. n :
              b[k - 1] \in Seq(Row) /\ b[k] = PutCopy(b[k - 1], rows[k])
  BY <1>9, <1>10
<1> QED
  BY <1>11, <1>12 DEF n

(* The steps of Copies. *)
LEMMA CopiesFold ==
  ASSUME NEW Row, NEW files, Files \in Seq(Range(Files)),
         \A f \in Range(Files) : files[f] \in Seq(Row)
  PROVE  /\ Walked(files) \in Seq(Row)
         /\ \E a \in [0 .. Len(Files) -> Seq(Row)] :
              /\ a[0] = <<>> /\ a[Len(Files)] = Walked(files)
              /\ \A k \in 1 .. Len(Files) :
                   /\ a[k - 1] \in Seq(Row)
                   /\ a[k] = a[k - 1] \o files[Files[k]]
<1> DEFINE n == Len(Files)
           step == [p \in Seq(Row) \X (1 .. n) |-> p[1] \o files[Files[p[2]]]]
           Fold(g) == g = [T \in SUBSET (1 .. n) |-> IF T = {} THEN <<>>
                             ELSE g[T \ {Max(T)}] \o files[Files[Max(T)]]]
           h == CHOOSE g : Fold(g)
<1>0. n \in Nat /\ DOMAIN Files = 1 .. n /\ <<>> \in Seq(Row)
  OBVIOUS
<1>1. step \in [Seq(Row) \X (1 .. n) -> Seq(Row)]
  <2>1. ASSUME NEW acc \in Seq(Row), NEW i \in 1 .. n PROVE acc \o files[Files[i]] \in Seq(Row)
    BY <1>0 DEF Range
  <2> QED
    BY <2>1
<1> HIDE DEF n
<1>2. PICK g \in [SUBSET (1 .. n) -> Seq(Row)] : Runs(step, <<>>, n, g)
  <2> HIDE DEF step
  <2> QED
    BY <1>0, <1>1, FoldRuns
<1>3. ASSUME NEW T \in SUBSET (1 .. n), T # {} PROVE Max(T) \in 1 .. n /\ T \ {Max(T)} \in SUBSET (1 .. n)
  BY <1>0, <1>3, MaxOfIndices
<1>4. Fold(g)
  BY <1>2, <1>3 DEF Runs
<1>5. Fold(h)
  BY <1>4
<1>6. Walked(files) = h[1 .. n]
  BY <1>0 DEF Walked, FoldLeft, MapThenFoldSet
<1>7. Obeys(step, <<>>, n, Seq(Row), h)
  <2>1. h[{}] = <<>>
    BY <1>5
  <2>2. ASSUME NEW T \in SUBSET (1 .. n), T # {}, h[T \ {Max(T)}] \in Seq(Row)
        PROVE  h[T] = step[<<h[T \ {Max(T)}], Max(T)>>]
    <3>1. h[T] = h[T \ {Max(T)}] \o files[Files[Max(T)]]
      BY <1>5, <2>2
    <3> HIDE DEF h
    <3> QED
      BY <1>3, <2>2, <3>1
  <2> QED
    BY <2>1, <2>2 DEF Obeys
<1> HIDE DEF h, step
<1>8. EndsIn(step, <<>>, n, Seq(Row), h[1 .. n])
  BY <1>0, <1>1, <1>7, FoldTrace
<1>9. PICK a \in [0 .. n -> Seq(Row)] :
            /\ a[0] = <<>> /\ a[n] = Walked(files)
            /\ \A k \in 1 .. n : a[k - 1] \in Seq(Row) /\ a[k] = step[<<a[k - 1], k>>]
  BY <1>6, <1>8 DEF EndsIn
<1>10. \A k \in 1 .. n :
         a[k - 1] \in Seq(Row) /\ a[k] = a[k - 1] \o files[Files[k]]
  BY <1>9 DEF step
<1>11. Walked(files) \in Seq(Row)
  BY <1>0, <1>9
<1>12. \E b \in [0 .. n -> Seq(Row)] :
         /\ b[0] = <<>> /\ b[n] = Walked(files)
         /\ \A k \in 1 .. n :
              b[k - 1] \in Seq(Row) /\ b[k] = b[k - 1] \o files[Files[k]]
  BY <1>9, <1>10
<1> QED
  BY <1>11, <1>12 DEF n

(* The steps of the bridge. *)
LEMMA BridgeFolds ==
  ASSUME NEW Row, NEW Task, NEW rows \in Seq(Row), NEW tasks \in Seq(Task),
         \A c \in Task : [c EXCEPT !.open = TRUE] \in Row
  PROVE  /\ Bridge(rows, tasks) \in Seq(Row)
         /\ \E a \in [0 .. Len(tasks) -> Seq(Row)] :
              /\ a[0] = rows /\ a[Len(tasks)] = Bridge(rows, tasks)
              /\ \A k \in 1 .. Len(tasks) :
                   /\ a[k - 1] \in Seq(Row)
                   /\ a[k] = Bridged(a[k - 1], tasks[k])
<1> DEFINE n == Len(tasks)
           step == [p \in Seq(Row) \X (1 .. n) |-> Bridged(p[1], tasks[p[2]])]
           Fold(g) == g = [T \in SUBSET (1 .. n) |-> IF T = {} THEN rows
                             ELSE Bridged(g[T \ {Max(T)}], tasks[Max(T)])]
           h == CHOOSE g : Fold(g)
<1>0. n \in Nat /\ DOMAIN tasks = 1 .. n /\ rows \in Seq(Row)
  OBVIOUS
<1>1. step \in [Seq(Row) \X (1 .. n) -> Seq(Row)]
  <2>1. ASSUME NEW acc \in Seq(Row), NEW i \in 1 .. n PROVE Bridged(acc, tasks[i]) \in Seq(Row)
    BY <1>0 DEF Bridged
  <2> QED
    BY <2>1
<1> HIDE DEF n
<1>2. PICK g \in [SUBSET (1 .. n) -> Seq(Row)] : Runs(step, rows, n, g)
  <2> HIDE DEF step
  <2> QED
    BY <1>0, <1>1, FoldRuns
<1>3. ASSUME NEW T \in SUBSET (1 .. n), T # {} PROVE Max(T) \in 1 .. n /\ T \ {Max(T)} \in SUBSET (1 .. n)
  BY <1>0, <1>3, MaxOfIndices
<1>4. Fold(g)
  BY <1>2, <1>3 DEF Runs
<1>5. Fold(h)
  BY <1>4
<1>6. Bridge(rows, tasks) = h[1 .. n]
  BY <1>0 DEF Bridge, FoldLeft, MapThenFoldSet
<1>7. Obeys(step, rows, n, Seq(Row), h)
  <2>1. h[{}] = rows
    BY <1>5
  <2>2. ASSUME NEW T \in SUBSET (1 .. n), T # {}, h[T \ {Max(T)}] \in Seq(Row)
        PROVE  h[T] = step[<<h[T \ {Max(T)}], Max(T)>>]
    <3>1. h[T] = Bridged(h[T \ {Max(T)}], tasks[Max(T)])
      BY <1>5, <2>2
    <3> HIDE DEF h
    <3> QED
      BY <1>3, <2>2, <3>1
  <2> QED
    BY <2>1, <2>2 DEF Obeys
<1> HIDE DEF h, step
<1>8. EndsIn(step, rows, n, Seq(Row), h[1 .. n])
  BY <1>0, <1>1, <1>7, FoldTrace
<1>9. PICK a \in [0 .. n -> Seq(Row)] :
            /\ a[0] = rows /\ a[n] = Bridge(rows, tasks)
            /\ \A k \in 1 .. n : a[k - 1] \in Seq(Row) /\ a[k] = step[<<a[k - 1], k>>]
  BY <1>6, <1>8 DEF EndsIn
<1>10. \A k \in 1 .. n :
         a[k - 1] \in Seq(Row) /\ a[k] = Bridged(a[k - 1], tasks[k])
  BY <1>9 DEF step
<1>11. Bridge(rows, tasks) \in Seq(Row)
  BY <1>0, <1>9
<1>12. \E b \in [0 .. n -> Seq(Row)] :
         /\ b[0] = rows /\ b[n] = Bridge(rows, tasks)
         /\ \A k \in 1 .. n :
              b[k - 1] \in Seq(Row) /\ b[k] = Bridged(b[k - 1], tasks[k])
  BY <1>9, <1>10
<1> QED
  BY <1>11, <1>12 DEF n

(* The steps of Grouped. *)
LEMMA GroupedFolds ==
  ASSUME NEW Row, NEW pool \in Seq(Row), NEW s
  PROVE  /\ Grouped(pool, s) \in Seq(Row)
         /\ \E a \in [0 .. Len(pool) -> Seq(Row)] :
              /\ a[0] = <<>> /\ a[Len(pool)] = Grouped(pool, s)
              /\ \A k \in 1 .. Len(pool) :
                   /\ a[k - 1] \in Seq(Row)
                   /\ a[k] = (IF pool[k].source = s THEN Append(a[k - 1], pool[k]) ELSE a[k - 1])
<1> DEFINE n == Len(pool)
           step == [p \in Seq(Row) \X (1 .. n) |->
                  (IF pool[p[2]].source = s
                   THEN Append(p[1], pool[p[2]])
                   ELSE p[1])]
           Fold(g) == g = [T \in SUBSET (1 .. n) |-> IF T = {} THEN <<>>
                             ELSE (IF pool[Max(T)].source = s
                                   THEN Append(g[T \ {Max(T)}], pool[Max(T)])
                                   ELSE g[T \ {Max(T)}])]
           h == CHOOSE g : Fold(g)
<1>0. n \in Nat /\ DOMAIN pool = 1 .. n /\ <<>> \in Seq(Row)
  OBVIOUS
<1>1. step \in [Seq(Row) \X (1 .. n) -> Seq(Row)]
  <2>1. ASSUME NEW acc \in Seq(Row), NEW i \in 1 .. n
        PROVE (IF pool[i].source = s
               THEN Append(acc, pool[i])
               ELSE acc) \in Seq(Row)
    BY <1>0
  <2> QED
    BY <2>1
<1> HIDE DEF n
<1>2. PICK g \in [SUBSET (1 .. n) -> Seq(Row)] : Runs(step, <<>>, n, g)
  <2> HIDE DEF step
  <2> QED
    BY <1>0, <1>1, FoldRuns
<1>3. ASSUME NEW T \in SUBSET (1 .. n), T # {} PROVE Max(T) \in 1 .. n /\ T \ {Max(T)} \in SUBSET (1 .. n)
  BY <1>0, <1>3, MaxOfIndices
<1>4. Fold(g)
  BY <1>2, <1>3 DEF Runs
<1>5. Fold(h)
  BY <1>4
<1>6. Grouped(pool, s) = h[1 .. n]
  BY <1>0 DEF Grouped, FoldLeft, MapThenFoldSet
<1>7. Obeys(step, <<>>, n, Seq(Row), h)
  <2>1. h[{}] = <<>>
    BY <1>5
  <2>2. ASSUME NEW T \in SUBSET (1 .. n), T # {}, h[T \ {Max(T)}] \in Seq(Row)
        PROVE  h[T] = step[<<h[T \ {Max(T)}], Max(T)>>]
    <3>1. h[T] = (IF pool[Max(T)].source = s
                  THEN Append(h[T \ {Max(T)}], pool[Max(T)])
                  ELSE h[T \ {Max(T)}])
      BY <1>5, <2>2
    <3> HIDE DEF h
    <3> QED
      BY <1>3, <2>2, <3>1
  <2> QED
    BY <2>1, <2>2 DEF Obeys
<1> HIDE DEF h, step
<1>8. EndsIn(step, <<>>, n, Seq(Row), h[1 .. n])
  BY <1>0, <1>1, <1>7, FoldTrace
<1>9. PICK a \in [0 .. n -> Seq(Row)] :
            /\ a[0] = <<>> /\ a[n] = Grouped(pool, s)
            /\ \A k \in 1 .. n : a[k - 1] \in Seq(Row) /\ a[k] = step[<<a[k - 1], k>>]
  BY <1>6, <1>8 DEF EndsIn
<1>10. \A k \in 1 .. n :
         a[k - 1] \in Seq(Row) /\ a[k] = (IF pool[k].source = s
                                          THEN Append(a[k - 1], pool[k])
                                          ELSE a[k - 1])
  BY <1>9 DEF step
<1>11. Grouped(pool, s) \in Seq(Row)
  BY <1>0, <1>9
<1>12. \E b \in [0 .. n -> Seq(Row)] :
         /\ b[0] = <<>> /\ b[n] = Grouped(pool, s)
         /\ \A k \in 1 .. n :
              b[k - 1] \in Seq(Row) /\ b[k] = (IF pool[k].source = s
                                               THEN Append(b[k - 1], pool[k])
                                               ELSE b[k - 1])
  BY <1>9, <1>10
<1> QED
  BY <1>11, <1>12 DEF n

(* The selections that the router may make of rows. *)
Short(Row) == {s \in Seq(Row) : Len(s) <= MaxItems}

(* The steps of Round. *)
LEMMA RoundFolds ==
  ASSUME NEW Row, NEW pool \in Seq(Row), NEW m \in Nat \ {0}, NEW selected \in Short(Row),
         SourceOrder \in Seq(STRING), MaxItems \in Nat, \A s : Grouped(pool, s) \in Seq(Row)
  PROVE  /\ Round(selected, pool, m) \in Short(Row)
         /\ \E a \in [0 .. Len(SourceOrder) -> Short(Row)] :
              /\ a[0] = selected /\ a[Len(SourceOrder)] = Round(selected, pool, m)
              /\ \A k \in 1 .. Len(SourceOrder) :
                   /\ a[k - 1] \in Short(Row)
                   /\ a[k] = (IF m <= Len(Grouped(pool, SourceOrder[k])) /\ Len(a[k - 1]) < MaxItems
                              THEN Append(a[k - 1], Grouped(pool, SourceOrder[k])[m])
                              ELSE a[k - 1])
<1> DEFINE n == Len(SourceOrder)
           step == [p \in Short(Row) \X (1 .. n) |->
                  (IF m <= Len(Grouped(pool, SourceOrder[p[2]])) /\ Len(p[1]) < MaxItems
                   THEN Append(p[1], Grouped(pool, SourceOrder[p[2]])[m])
                   ELSE p[1])]
           Fold(g) == g = [T \in SUBSET (1 .. n) |-> IF T = {} THEN selected
                             ELSE (IF m <= Len(Grouped(pool, SourceOrder[Max(T)])) /\ Len(g[T \ {Max(T)}]) < MaxItems
                                   THEN Append(g[T \ {Max(T)}], Grouped(pool, SourceOrder[Max(T)])[m])
                                   ELSE g[T \ {Max(T)}])]
           h == CHOOSE g : Fold(g)
<1>0. n \in Nat /\ DOMAIN SourceOrder = 1 .. n /\ selected \in Short(Row)
  OBVIOUS
<1>1. step \in [Short(Row) \X (1 .. n) -> Short(Row)]
  <2>1. ASSUME NEW acc \in Short(Row), NEW i \in 1 .. n
        PROVE (IF m <= Len(Grouped(pool, SourceOrder[i])) /\ Len(acc) < MaxItems
               THEN Append(acc, Grouped(pool, SourceOrder[i])[m])
               ELSE acc) \in Short(Row)
    BY <1>0 DEF Short
  <2> QED
    BY <2>1
<1> HIDE DEF n
<1>2. PICK g \in [SUBSET (1 .. n) -> Short(Row)] : Runs(step, selected, n, g)
  <2> HIDE DEF step
  <2> QED
    BY <1>0, <1>1, FoldRuns
<1>3. ASSUME NEW T \in SUBSET (1 .. n), T # {} PROVE Max(T) \in 1 .. n /\ T \ {Max(T)} \in SUBSET (1 .. n)
  BY <1>0, <1>3, MaxOfIndices
<1>4. Fold(g)
  BY <1>2, <1>3 DEF Runs
<1>5. Fold(h)
  BY <1>4
<1>6. Round(selected, pool, m) = h[1 .. n]
  BY <1>0 DEF Round, FoldLeft, MapThenFoldSet
<1>7. Obeys(step, selected, n, Short(Row), h)
  <2>1. h[{}] = selected
    BY <1>5
  <2>2. ASSUME NEW T \in SUBSET (1 .. n), T # {}, h[T \ {Max(T)}] \in Short(Row)
        PROVE  h[T] = step[<<h[T \ {Max(T)}], Max(T)>>]
    <3>1. h[T] = (IF m <= Len(Grouped(pool, SourceOrder[Max(T)])) /\ Len(h[T \ {Max(T)}]) < MaxItems
                  THEN Append(h[T \ {Max(T)}], Grouped(pool, SourceOrder[Max(T)])[m])
                  ELSE h[T \ {Max(T)}])
      BY <1>5, <2>2
    <3> HIDE DEF h
    <3> QED
      BY <1>3, <2>2, <3>1
  <2> QED
    BY <2>1, <2>2 DEF Obeys
<1> HIDE DEF h, step
<1>8. EndsIn(step, selected, n, Short(Row), h[1 .. n])
  BY <1>0, <1>1, <1>7, FoldTrace
<1>9. PICK a \in [0 .. n -> Short(Row)] :
            /\ a[0] = selected /\ a[n] = Round(selected, pool, m)
            /\ \A k \in 1 .. n : a[k - 1] \in Short(Row) /\ a[k] = step[<<a[k - 1], k>>]
  BY <1>6, <1>8 DEF EndsIn
<1>10. \A k \in 1 .. n :
         a[k - 1] \in Short(Row) /\ a[k] = (IF m <= Len(Grouped(pool, SourceOrder[k])) /\ Len(a[k - 1]) < MaxItems
                                            THEN Append(a[k - 1], Grouped(pool, SourceOrder[k])[m])
                                            ELSE a[k - 1])
  BY <1>9 DEF step
<1>11. Round(selected, pool, m) \in Short(Row)
  BY <1>0, <1>9
<1>12. \E b \in [0 .. n -> Short(Row)] :
         /\ b[0] = selected /\ b[n] = Round(selected, pool, m)
         /\ \A k \in 1 .. n :
              b[k - 1] \in Short(Row) /\ b[k] = (IF m <= Len(Grouped(pool, SourceOrder[k])) /\ Len(b[k - 1]) < MaxItems
                                                 THEN Append(b[k - 1], Grouped(pool, SourceOrder[k])[m])
                                                 ELSE b[k - 1])
  BY <1>9, <1>10
<1> QED
  BY <1>11, <1>12 DEF n

(* The steps of RoundRobin. *)
LEMMA RoundRobinFolds ==
  ASSUME NEW Row, NEW pool \in Seq(Row), MaxPerSource \in Nat, MaxItems \in Nat,
         \A m \in 1 .. MaxPerSource, selected \in Short(Row) : Round(selected, pool, m) \in Short(Row)
  PROVE  /\ RoundRobin(pool) \in Short(Row)
         /\ \E a \in [0 .. Len([m \in 1 .. MaxPerSource |-> m]) -> Short(Row)] :
              /\ a[0] = <<>> /\ a[Len([m \in 1 .. MaxPerSource |-> m])] = RoundRobin(pool)
              /\ \A k \in 1 .. Len([m \in 1 .. MaxPerSource |-> m]) :
                   /\ a[k - 1] \in Short(Row)
                   /\ a[k] = Round(a[k - 1], pool, [m \in 1 .. MaxPerSource |-> m][k])
<1> DEFINE n == Len([m \in 1 .. MaxPerSource |-> m])
           step == [p \in Short(Row) \X (1 .. n) |-> Round(p[1], pool, [m \in 1 .. MaxPerSource |-> m][p[2]])]
           Fold(g) == g = [T \in SUBSET (1 .. n) |-> IF T = {} THEN <<>>
                             ELSE Round(g[T \ {Max(T)}], pool, [m \in 1 .. MaxPerSource |-> m][Max(T)])]
           h == CHOOSE g : Fold(g)
<1>0. n \in Nat /\ DOMAIN [m \in 1 .. MaxPerSource |-> m] = 1 .. n /\ <<>> \in Short(Row)
  BY DEF Short
<1>1. step \in [Short(Row) \X (1 .. n) -> Short(Row)]
  <2>1. ASSUME NEW acc \in Short(Row), NEW i \in 1 .. n PROVE Round(acc, pool, [m \in 1 .. MaxPerSource |-> m][i]) \in Short(Row)
    BY <1>0
  <2> QED
    BY <2>1
<1> HIDE DEF n
<1>2. PICK g \in [SUBSET (1 .. n) -> Short(Row)] : Runs(step, <<>>, n, g)
  <2> HIDE DEF step
  <2> QED
    BY <1>0, <1>1, FoldRuns
<1>3. ASSUME NEW T \in SUBSET (1 .. n), T # {} PROVE Max(T) \in 1 .. n /\ T \ {Max(T)} \in SUBSET (1 .. n)
  BY <1>0, <1>3, MaxOfIndices
<1>4. Fold(g)
  BY <1>2, <1>3 DEF Runs
<1>5. Fold(h)
  BY <1>4
<1>6. RoundRobin(pool) = h[1 .. n]
  BY <1>0 DEF RoundRobin, FoldLeft, MapThenFoldSet
<1>7. Obeys(step, <<>>, n, Short(Row), h)
  <2>1. h[{}] = <<>>
    BY <1>5
  <2>2. ASSUME NEW T \in SUBSET (1 .. n), T # {}, h[T \ {Max(T)}] \in Short(Row)
        PROVE  h[T] = step[<<h[T \ {Max(T)}], Max(T)>>]
    <3>1. h[T] = Round(h[T \ {Max(T)}], pool, [m \in 1 .. MaxPerSource |-> m][Max(T)])
      BY <1>5, <2>2
    <3> HIDE DEF h
    <3> QED
      BY <1>3, <2>2, <3>1
  <2> QED
    BY <2>1, <2>2 DEF Obeys
<1> HIDE DEF h, step
<1>8. EndsIn(step, <<>>, n, Short(Row), h[1 .. n])
  BY <1>0, <1>1, <1>7, FoldTrace
<1>9. PICK a \in [0 .. n -> Short(Row)] :
            /\ a[0] = <<>> /\ a[n] = RoundRobin(pool)
            /\ \A k \in 1 .. n : a[k - 1] \in Short(Row) /\ a[k] = step[<<a[k - 1], k>>]
  BY <1>6, <1>8 DEF EndsIn
<1>10. \A k \in 1 .. n :
         a[k - 1] \in Short(Row) /\ a[k] = Round(a[k - 1], pool, [m \in 1 .. MaxPerSource |-> m][k])
  BY <1>9 DEF step
<1>11. RoundRobin(pool) \in Short(Row)
  BY <1>0, <1>9
<1>12. \E b \in [0 .. n -> Short(Row)] :
         /\ b[0] = <<>> /\ b[n] = RoundRobin(pool)
         /\ \A k \in 1 .. n :
              b[k - 1] \in Short(Row) /\ b[k] = Round(b[k - 1], pool, [m \in 1 .. MaxPerSource |-> m][k])
  BY <1>9, <1>10
<1> QED
  BY <1>11, <1>12 DEF n

(* What the dictionary keeps of the first copies: each listing of theirs once seen, and of   *)
(* a listing that was classified a classified copy.                                         *)
KeptOf(kept, rows, k) ==
  /\ \A m \in 1 .. k : \E q \in DOMAIN kept : kept[q].listing = rows[m].listing
  /\ \A q \in DOMAIN kept :
       /\ \E m \in 1 .. k : kept[q] = rows[m]
       /\ (\E m \in 1 .. k : rows[m].listing = kept[q].listing /\ rows[m].verdict # "none") =>
            kept[q].verdict # "none"

LEMMA PutKeeps ==
  ASSUME NEW Row, NEW rows \in Seq(Row), NEW kept \in Seq(Row), NEW k \in 1 .. Len(rows),
         KeptOf(kept, rows, k - 1)
  PROVE  KeptOf(PutCopy(kept, rows[k]), rows, k)
<1> DEFINE c == rows[k]
           new == PutCopy(kept, c)
<1>1. \A m \in 1 .. k : m = k \/ m \in 1 .. (k - 1)
  OBVIOUS
<1>2. 1 .. (k - 1) \subseteq 1 .. k /\ k \in 1 .. k
  OBVIOUS
<1>3. CASE Known(kept, c)
  <2>1. /\ DOMAIN new = DOMAIN kept
        /\ \A q \in DOMAIN kept :
             new[q] = IF kept[q].listing = c.listing /\ BetterCopy(c, kept[q]) THEN c ELSE kept[q]
    BY <1>3 DEF PutCopy
  <2>2. PICK p \in DOMAIN kept : kept[p].listing = c.listing
    BY <1>3 DEF Known
  <2> HIDE DEF new
  <2>3. \A q \in DOMAIN kept : new[q].listing = kept[q].listing
    BY <2>1
  <2>4. ASSUME NEW m \in 1 .. k PROVE \E q \in DOMAIN new : new[q].listing = rows[m].listing
    <3>1. CASE m = k
      BY <2>1, <2>2, <2>3, <3>1
    <3>2. CASE m \in 1 .. (k - 1)
      <4>1. PICK q \in DOMAIN kept : kept[q].listing = rows[m].listing
        BY <3>2 DEF KeptOf
      <4> QED
        BY <2>1, <2>3, <4>1
    <3> QED
      BY <1>1, <3>1, <3>2
  <2>5. ASSUME NEW q \in DOMAIN new PROVE \E m \in 1 .. k : new[q] = rows[m]
    BY <1>2, <2>1 DEF KeptOf
  <2>6. ASSUME NEW q \in DOMAIN new, NEW m \in 1 .. k,
               rows[m].listing = new[q].listing, rows[m].verdict # "none"
        PROVE  new[q].verdict # "none"
    <3>1. CASE kept[q].verdict # "none"
      <4>1. Decided(kept[q]) = 1
        BY <3>1 DEF Decided
      <4>2. BetterCopy(c, kept[q]) => c.verdict # "none"
        BY <4>1 DEF BetterCopy, Decided
      <4> QED
        BY <2>1, <3>1, <4>2
    <3>2. CASE kept[q].verdict = "none"
      <4>0. kept[q].listing = rows[m].listing
        BY <2>1, <2>3, <2>6
      <4>1. m = k
        <5>1. m \notin 1 .. (k - 1)
          BY <2>1, <2>6, <3>2, <4>0 DEF KeptOf
        <5> QED
          BY <1>1, <5>1
      <4>2. kept[q].listing = c.listing /\ c.verdict # "none"
        BY <2>1, <2>3, <2>6, <4>1
      <4>3. BetterCopy(c, kept[q])
        BY <3>2, <4>2 DEF BetterCopy, Decided
      <4> QED
        BY <2>1, <4>2, <4>3
    <3> QED
      BY <3>1, <3>2
  <2> QED
    BY <2>4, <2>5, <2>6 DEF KeptOf, new
<1>4. CASE ~Known(kept, c)
  <2>1. new = Append(kept, c)
    BY <1>4 DEF PutCopy
  <2> HIDE DEF new
  <2>2. /\ DOMAIN new = DOMAIN kept \cup {Len(kept) + 1} /\ Len(kept) + 1 \notin DOMAIN kept
        /\ new[Len(kept) + 1] = c /\ \A q \in DOMAIN kept : new[q] = kept[q]
    BY <2>1
  <2>3. \A q \in DOMAIN kept : kept[q].listing # c.listing
    BY <1>4 DEF Known
  <2>4. ASSUME NEW m \in 1 .. k PROVE \E q \in DOMAIN new : new[q].listing = rows[m].listing
    BY <1>1, <2>2 DEF KeptOf
  <2>5. ASSUME NEW q \in DOMAIN new PROVE \E m \in 1 .. k : new[q] = rows[m]
    BY <1>2, <2>2 DEF KeptOf
  <2>6. ASSUME NEW q \in DOMAIN new, NEW m \in 1 .. k,
               rows[m].listing = new[q].listing, rows[m].verdict # "none"
        PROVE  new[q].verdict # "none"
    <3>1. CASE q = Len(kept) + 1
      <4>1. m = k
        BY <1>1, <2>2, <2>3, <2>6, <3>1 DEF KeptOf
      <4> QED
        BY <2>2, <2>6, <3>1, <4>1
    <3>2. CASE q \in DOMAIN kept
      <4>1. m \in 1 .. (k - 1)
        BY <1>1, <2>2, <2>3, <2>6, <3>2
      <4> QED
        BY <2>2, <2>6, <3>2, <4>1 DEF KeptOf
    <3> QED
      BY <2>2, <3>1, <3>2
  <2> QED
    BY <2>4, <2>5, <2>6 DEF KeptOf, new
<1> QED
  BY <1>3, <1>4

LEMMA DedupeKeeps ==
  ASSUME NEW Row, NEW rows \in Seq(Row)
  PROVE  Dedupe(rows) \in Seq(Row) /\ KeptOf(Dedupe(rows), rows, Len(rows))
<1>0. /\ Dedupe(rows) \in Seq(Row)
      /\ \E a \in [0 .. Len(rows) -> Seq(Row)] :
           /\ a[0] = <<>> /\ a[Len(rows)] = Dedupe(rows)
           /\ \A k \in 1 .. Len(rows) : a[k - 1] \in Seq(Row) /\ a[k] = PutCopy(a[k - 1], rows[k])
  BY DedupeFolds
<1>1. PICK a \in [0 .. Len(rows) -> Seq(Row)] :
           /\ a[0] = <<>> /\ a[Len(rows)] = Dedupe(rows)
           /\ \A k \in 1 .. Len(rows) : a[k - 1] \in Seq(Row) /\ a[k] = PutCopy(a[k - 1], rows[k])
  BY <1>0
<1> DEFINE K == {k \in 0 .. Len(rows) : KeptOf(a[k], rows, k)}
<1>2. Len(rows) \in Nat
  OBVIOUS
<1>3. 0 \in K
  BY <1>1, <1>2 DEF KeptOf
<1>4. ASSUME NEW k \in 1 .. Len(rows), k - 1 \in K PROVE k \in K
  <2>1. KeptOf(a[k - 1], rows, k - 1)
    BY <1>4
  <2>2. KeptOf(a[k], rows, k)
    BY <1>1, <2>1, PutKeeps
  <2> QED
    BY <1>2, <2>2
<1> HIDE DEF K
<1>5. Len(rows) \in K
  <2>1. \A k \in 0 .. Len(rows) : k \in K
    BY <1>2, <1>3, <1>4, Along
  <2> QED
    BY <1>2, <2>1
<1> QED
  BY <1>0, <1>1, <1>2, <1>5 DEF K

(* The router only picks from what the dictionary holds.                                   *)
LEMMA RoundRobinPicks ==
  ASSUME NEW Row, NEW pool \in Seq(Row)
  PROVE  RoundRobin(pool) \in Seq(Row) /\ Len(RoundRobin(pool)) <= MaxItems
<1>1. \A s : Grouped(pool, s) \in Seq(Row)
  BY GroupedFolds
<1>2. SourceOrder \in Seq(STRING) /\ MaxPerSource \in Nat /\ MaxItems \in Nat
  BY RouterAssumption DEF Range
<1>3. ASSUME NEW m \in 1 .. MaxPerSource, NEW selected \in Short(Row)
      PROVE  Round(selected, pool, m) \in Short(Row)
  <2>1. m \in Nat \ {0}
    OBVIOUS
  <2> QED
    BY <1>1, <1>2, <2>1, RoundFolds
<1>4. RoundRobin(pool) \in Short(Row)
  BY <1>2, <1>3, RoundRobinFolds
<1> QED
  BY <1>4 DEF Short

FeedCopies(f) == RowsIn(f) \cup {[c EXCEPT !.open = TRUE] : c \in TaskForceRows}
Copy == UNION {FeedCopies(f) : f \in Range(Files)}

FeedsFit ==
  /\ feeds \in [Range(Files) -> Seq(Copy)]
  /\ \A f \in Range(Files) : feeds[f] \in Seq(FeedCopies(f))
  /\ taskforce \in Seq(TaskForceRows)
  /\ rewrites \in 0 .. MaxRewrites

(* What the last cycle wrote was decided on the dictionary's copies, which the files still    *)
(* hold.                                                                                    *)
RoutedFits ==
  /\ routed.rows \in Seq([copy : UNION {{c, PersistentlyRejected(c)} : c \in Copy}, decision : Decisions])
  /\ Len(routed.rows) <= MaxItems
  /\ \A i \in DOMAIN routed.rows : \E p \in Range(Dedupe(Copies)) :
       /\ routed.rows[i].copy = PersistentlyRejected(p)
       /\ routed.rows[i].decision = Route(PersistentlyRejected(p))

RouterInv == FeedsFit /\ RoutedFits

LEMMA CopyType ==
  ASSUME NEW c \in Copy
  PROVE  /\ "listing" \in DOMAIN c /\ c.verdict \in Verdicts
         /\ PersistentlyRejected(c).listing = c.listing
         /\ PersistentlyRejected(c).verdict = IF c.listing \in Banned THEN "rejected" ELSE c.verdict
<1>1. \A d \in UNION {RowsIn(f) : f \in Range(Files) \cup {"taskforce"}} :
        {"listing", "verdict", "open"} \subseteq DOMAIN d /\ d.verdict \in Verdicts
  BY RouterAssumption
<1>2. {"listing", "verdict", "open"} \subseteq DOMAIN c /\ c.verdict \in Verdicts
  <2>1. PICK f \in Range(Files) : c \in FeedCopies(f)
    BY DEF Copy
  <2>2. CASE c \in RowsIn(f)
    BY <1>1, <2>2
  <2>3. ASSUME NEW d \in TaskForceRows, c = [d EXCEPT !.open = TRUE]
        PROVE  {"listing", "verdict", "open"} \subseteq DOMAIN c /\ c.verdict \in Verdicts
    BY <1>1, <2>3 DEF TaskForceRows
  <2> QED
    BY <2>1, <2>2, <2>3 DEF FeedCopies
<1> QED
  BY <1>2 DEF PersistentlyRejected

LEMMA RouteType == ASSUME NEW c PROVE Route(c) \in Decisions
  BY DEF Route, Decisions

(* A row is executable or ready for its gate only if its copy was not found to be something   *)
(* else.                                                                                    *)
LEMMA RouteEligible ==
  ASSUME NEW c, Eligible(Route(c))
  PROVE  c.verdict # "rejected" /\ c.verdict # "capability_build"
  BY DEF Eligible, Route

LEMMA CopiesType ==
  ASSUME feeds \in [Range(Files) -> Seq(Copy)]
  PROVE  Copies \in Seq(Copy)
<1>1. Files \in Seq(Range(Files)) /\ Len(Files) \in Nat
  BY RouterAssumption DEF Range
<1> QED
  BY <1>1, CopiesFold DEF Copies

LEMMA NotRoutedFits == ASSUME routed = NotRouted PROVE RoutedFits
  BY RouterAssumption DEF NotRouted, RoutedFits

LEMMA WriteFits == ASSUME RouterInv, WriteFeed PROVE RouterInv'
<1>1. \A S : Contents(S) \subseteq Seq(S)
  BY RouterAssumption DEF Contents
<1>2. feeds' \in [Range(Files) -> Seq(Copy)] /\ \A f \in Range(Files) : feeds'[f] \in Seq(FeedCopies(f))
  <2>1. CASE UNCHANGED feeds
    BY <2>1 DEF RouterInv, FeedsFit
  <2>2. ASSUME NEW f \in Range(Files), NEW copies \in Contents(RowsIn(f)),
               feeds' = [feeds EXCEPT ![f] = copies]
        PROVE  /\ feeds' \in [Range(Files) -> Seq(Copy)]
               /\ \A g \in Range(Files) : feeds'[g] \in Seq(FeedCopies(g))
    <3>1. copies \in Seq(RowsIn(f)) /\ RowsIn(f) \subseteq FeedCopies(f) /\ FeedCopies(f) \subseteq Copy
      BY <1>1 DEF FeedCopies, Copy
    <3>2. copies \in Seq(FeedCopies(f)) /\ copies \in Seq(Copy)
      BY <3>1
    <3> QED
      BY <2>2, <3>2 DEF RouterInv, FeedsFit
  <2> QED
    BY <2>1, <2>2 DEF WriteFeed
<1>3. taskforce' \in Seq(TaskForceRows) /\ rewrites' \in 0 .. MaxRewrites
  BY <1>1, RouterAssumption DEF WriteFeed, RouterInv, FeedsFit
<1>4. RoutedFits'
  BY RouterAssumption DEF WriteFeed, NotRouted, RoutedFits
<1> QED
  BY <1>2, <1>3, <1>4 DEF RouterInv, FeedsFit

LEMMA BridgeFits == ASSUME RouterInv, BridgeTaskForce PROVE RouterInv'
<1> DEFINE U == FeedCopies("universal")
           rows == feeds["universal"]
<1>1. "universal" \in Range(Files) /\ U \subseteq Copy
  BY RouterAssumption DEF Copy
<1>2. rows \in Seq(U) /\ taskforce \in Seq(TaskForceRows) /\ Len(taskforce) \in Nat
  BY <1>1 DEF RouterInv, FeedsFit
<1>3. \A c \in TaskForceRows : [c EXCEPT !.open = TRUE] \in U
  BY DEF FeedCopies
<1> HIDE DEF U, rows
<1>5. Bridge(rows, taskforce) \in Seq(U) /\ Bridge(rows, taskforce) \in Seq(Copy)
  <2>1. Bridge(rows, taskforce) \in Seq(U)
    BY <1>2, <1>3, BridgeFolds
  <2> QED
    BY <1>1, <2>1
<1>6. feeds' = [feeds EXCEPT !["universal"] = Bridge(rows, taskforce)]
  BY DEF BridgeTaskForce, rows
<1>7. feeds' \in [Range(Files) -> Seq(Copy)] /\ \A f \in Range(Files) : feeds'[f] \in Seq(FeedCopies(f))
  BY <1>1, <1>5, <1>6 DEF RouterInv, FeedsFit, U
<1>8. RoutedFits'
  BY RouterAssumption DEF BridgeTaskForce, NotRouted, RoutedFits
<1> QED
  BY <1>7, <1>8 DEF RouterInv, FeedsFit, BridgeTaskForce

LEMMA RouteFits == ASSUME RouterInv, RouteCycle PROVE RouterInv'
<1>1. FeedsFit' /\ Copies' = Copies
  <2>1. UNCHANGED <<feeds, taskforce, rewrites>>
    BY DEF RouteCycle
  <2> QED
    BY <2>1 DEF RouterInv, FeedsFit, Copies
<1> DEFINE pool == Dedupe(Copies)
           picked == RoundRobin(pool)
           Held == Range(pool)
<1>2. pool \in Seq(Copy) /\ pool \in Seq(Held) /\ Held \subseteq Copy
  <2>1. Copies \in Seq(Copy)
    BY CopiesType DEF RouterInv, FeedsFit
  <2>2. pool \in Seq(Copy)
    BY <2>1, DedupeKeeps
  <2> QED
    BY <2>2 DEF Range
<1> HIDE DEF pool, Held
<1>3. picked \in Seq(Held) /\ Len(picked) <= MaxItems
  BY <1>2, RoundRobinPicks
<1>4. routed'.rows = RoutedRows(picked)
  BY DEF RouteCycle, pool
<1> HIDE DEF picked
<1>5. /\ Len(routed'.rows) = Len(picked) /\ DOMAIN routed'.rows = DOMAIN picked
      /\ \A i \in DOMAIN picked :
           routed'.rows[i] = [copy |-> PersistentlyRejected(picked[i]),
                              decision |-> Route(PersistentlyRejected(picked[i]))]
      /\ routed'.rows \in Seq([copy : UNION {{c, PersistentlyRejected(c)} : c \in Copy}, decision : Decisions])
  <2> DEFINE Judged == UNION {{c, PersistentlyRejected(c)} : c \in Copy}
             row(i) == [copy |-> PersistentlyRejected(picked[i]),
                        decision |-> Route(PersistentlyRejected(picked[i]))]
  <2>0. DOMAIN picked = 1 .. Len(picked) /\ Len(picked) \in Nat
    BY <1>3
  <2>1. routed'.rows = [i \in 1 .. Len(picked) |-> row(i)]
    BY <1>4, <2>0 DEF RoutedRows
  <2>2. ASSUME NEW i \in 1 .. Len(picked) PROVE row(i) \in [copy : Judged, decision : Decisions]
    <3>1. picked[i] \in Copy
      BY <1>2, <1>3, <2>0
    <3>2. PersistentlyRejected(picked[i]) \in Judged
      BY <3>1
    <3> QED
      BY <3>2, RouteType
  <2>3. [i \in 1 .. Len(picked) |-> row(i)] \in Seq([copy : Judged, decision : Decisions])
    <3> HIDE DEF row, Judged
    <3> QED
      BY <2>0, <2>2
  <2>4. /\ Len([i \in 1 .. Len(picked) |-> row(i)]) = Len(picked)
        /\ \A i \in 1 .. Len(picked) : [j \in 1 .. Len(picked) |-> row(j)][i] = row(i)
    <3> HIDE DEF row
    <3> QED
      BY <2>0
  <2> QED
    BY <2>0, <2>1, <2>3, <2>4
<1>6. RoutedFits'
  <2>1. \A i \in DOMAIN picked : picked[i] \in Held
    BY <1>3
  <2>2. Held = Range(Dedupe(Copies))'
    BY <1>1 DEF Held, pool
  <2>3. \A i \in DOMAIN routed'.rows : \E p \in Range(Dedupe(Copies))' :
          /\ routed'.rows[i].copy = PersistentlyRejected(p)
          /\ routed'.rows[i].decision = Route(PersistentlyRejected(p))
    <3> SUFFICES ASSUME NEW i \in DOMAIN routed'.rows
                 PROVE  \E p \in Held : /\ routed'.rows[i].copy = PersistentlyRejected(p)
                                        /\ routed'.rows[i].decision = Route(PersistentlyRejected(p))
      BY <2>2
    <3>1. i \in DOMAIN picked
      BY <1>5
    <3>2. picked[i] \in Held
      BY <2>1, <3>1
    <3>3. /\ routed'.rows[i].copy = PersistentlyRejected(picked[i])
          /\ routed'.rows[i].decision = Route(PersistentlyRejected(picked[i]))
      <4>1. routed'.rows[i] = [copy |-> PersistentlyRejected(picked[i]),
                              decision |-> Route(PersistentlyRejected(picked[i]))]
        BY <1>5, <3>1
      <4> QED
        BY <4>1
    <3> QED
      BY <3>2, <3>3
  <2> QED
    BY <1>3, <1>5, <2>3 DEF RoutedFits
<1> QED
  BY <1>1, <1>6 DEF RouterInv

LEMMA RouterInvInductive == RouterSpec => []RouterInv
<1>1. RouterInit => RouterInv
  <2> SUFFICES ASSUME RouterInit PROVE RouterInv
    OBVIOUS
  <2>1. FeedsFit
    BY RouterAssumption DEF RouterInit, FeedsFit
  <2>2. RoutedFits
    BY NotRoutedFits DEF RouterInit
  <2> QED
    BY <2>1, <2>2 DEF RouterInv
<1>2. RouterInv /\ [RouterNext]_routing => RouterInv'
  <2> SUFFICES ASSUME RouterInv, [RouterNext]_routing PROVE RouterInv'
    OBVIOUS
  <2>1. CASE UNCHANGED routing
    <3>1. FeedsFit' /\ Copies' = Copies
      BY <2>1 DEF routing, RouterInv, FeedsFit, Copies
    <3>2. RoutedFits'
      BY <2>1, <3>1 DEF routing, RouterInv, RoutedFits
    <3> QED
      BY <3>1, <3>2 DEF RouterInv
  <2> QED
    BY <2>1, WriteFits, BridgeFits, RouteFits DEF RouterNext
<1> QED
  BY <1>1, <1>2, PTL DEF RouterSpec

(* What the files hold and what the router writes keep their shape.                         *)
THEOREM RouterTypeCorrect == RouterSpec => []RouterTypeOK
<1>1. RouterInv => RouterTypeOK
  <2> SUFFICES ASSUME RouterInv PROVE RouterTypeOK
    OBVIOUS
  <2>1. \A f \in Range(Files) : \A i \in DOMAIN feeds[f] :
          feeds[f][i] \in RowsIn(f) \cup {[c EXCEPT !.open = TRUE] : c \in TaskForceRows}
    <3>1. \A f \in Range(Files) : \A i \in DOMAIN feeds[f] : feeds[f][i] \in FeedCopies(f)
      BY DEF RouterInv, FeedsFit
    <3> QED
      BY <3>1 DEF FeedCopies
  <2>2. ASSUME NEW i \in DOMAIN routed.rows
        PROVE  routed.rows[i].decision \in Decisions /\ routed.rows[i].copy.verdict \in Verdicts
    <3> DEFINE Judged == UNION {{c, PersistentlyRejected(c)} : c \in Copy}
    <3>0. routed.rows \in Seq([copy : Judged, decision : Decisions])
      BY DEF RouterInv, RoutedFits
    <3>1. routed.rows[i] \in [copy : Judged, decision : Decisions]
      <4> DEFINE Rows == [copy : Judged, decision : Decisions]
      <4>1. routed.rows \in Seq(Rows)
        BY <3>0
      <4> HIDE DEF Rows
      <4>2. routed.rows[i] \in Rows
        BY <4>1
      <4> QED
        BY <4>2 DEF Rows
    <3>2. PICK c \in Copy : routed.rows[i].copy \in {c, PersistentlyRejected(c)}
      BY <3>1
    <3>3. c.verdict \in Verdicts /\ PersistentlyRejected(c).verdict \in Verdicts
      BY CopyType DEF Verdicts
    <3> QED
      BY <3>1, <3>2, <3>3
  <2> QED
    BY <2>1, <2>2 DEF RouterInv, FeedsFit, RoutedFits, RouterTypeOK
<1> QED
  BY <1>1, RouterInvInductive, PTL

(* A raw copy of a listing never makes it executable against the verdict of a classified one.   *)
THEOREM UpstreamVerdictAlwaysHolds == RouterSpec => []UpstreamVerdictHolds
<1>1. RouterInv => UpstreamVerdictHolds
  <2> SUFFICES ASSUME RouterInv, NEW i \in DOMAIN routed.rows, Eligible(routed.rows[i].decision)
               PROVE  LET l      == routed.rows[i].copy.listing
                          judged == {j \in DOMAIN Copies : Copies[j].listing = l /\ Copies[j].verdict # "none"}
                      IN  l \notin Banned /\ (judged = {} \/ \E j \in judged : Ready(Copies[j]))
    BY DEF UpstreamVerdictHolds
  <2> DEFINE pool == Dedupe(Copies)
  <2>1. Copies \in Seq(Copy)
    BY CopiesType DEF RouterInv, FeedsFit
  <2>2. pool \in Seq(Copy) /\ KeptOf(pool, Copies, Len(Copies))
    BY <2>1, DedupeKeeps
  <2> HIDE DEF pool
  <2>3. PICK q \in DOMAIN pool :
          /\ routed.rows[i].copy = PersistentlyRejected(pool[q])
          /\ routed.rows[i].decision = Route(PersistentlyRejected(pool[q]))
    BY DEF RouterInv, RoutedFits, Range, pool
  <2> DEFINE p == pool[q]
  <2>4. p \in Copy
    BY <2>2
  <2>5. /\ p.verdict \in Verdicts /\ PersistentlyRejected(p).listing = p.listing
        /\ PersistentlyRejected(p).verdict = IF p.listing \in Banned THEN "rejected" ELSE p.verdict
    BY <2>4, CopyType
  <2>6. PersistentlyRejected(p).verdict \notin {"rejected", "capability_build"}
    BY <2>3, RouteEligible
  <2>7. p.listing \notin Banned /\ p.verdict \in {"none", "prepare_then_gate", "executable_now"}
    BY <2>5, <2>6 DEF Verdicts
  <2>8. DOMAIN Copies = 1 .. Len(Copies)
    BY <2>1
  <2>9. PICK m \in 1 .. Len(Copies) : p = Copies[m]
    BY <2>2 DEF KeptOf
  <2>10. ASSUME NEW j \in 1 .. Len(Copies), Copies[j].listing = p.listing, Copies[j].verdict # "none"
         PROVE  Ready(Copies[m]) /\ Copies[m].verdict # "none"
    <3>1. p.verdict # "none"
      BY <2>2, <2>10 DEF KeptOf
    <3> QED
      BY <2>7, <2>9, <3>1 DEF Ready
  <2> QED
    BY <2>3, <2>5, <2>7, <2>8, <2>9, <2>10
<1> QED
  BY <1>1, RouterInvInductive, PTL

--------------------------------------------------------------------------------
(* PayableScout: the pool, the ranking and the share of a repository.                       *)

Apart(s) == \A x, y \in DOMAIN s : s[x].listing = s[y].listing => x = y
Distincts(Row) == {s \in Seq(Row) : Apart(s)}

LEMMA DistinctGrows ==
  ASSUME NEW Row, NEW kept \in Distincts(Row), NEW i \in Row, ~Holds(kept, i.listing)
  PROVE  Append(kept, i) \in Distincts(Row)
<1> DEFINE new == Append(kept, i)
           m == Len(kept) + 1
<1>1. kept \in Seq(Row)
  BY DEF Distincts
<1>2. /\ new \in Seq(Row) /\ DOMAIN new = DOMAIN kept \cup {m} /\ new[m] = i
      /\ \A k \in DOMAIN kept : new[k] = kept[k]
  BY <1>1
<1> HIDE DEF new, m
<1>3. \A k \in DOMAIN kept : kept[k].listing # i.listing
  BY DEF Holds
<1>4. Apart(new)
  BY <1>2, <1>3 DEF Apart, Distincts
<1> QED
  BY <1>2, <1>4 DEF Distincts, new

(* The steps of Joined. *)
LEMMA JoinedFolds ==
  ASSUME NEW Row, NEW groups \in Seq(Seq(Row))
  PROVE  /\ Joined(groups) \in Seq(Row)
         /\ \E a \in [0 .. Len(groups) -> Seq(Row)] :
              /\ a[0] = <<>> /\ a[Len(groups)] = Joined(groups)
              /\ \A k \in 1 .. Len(groups) :
                   /\ a[k - 1] \in Seq(Row)
                   /\ a[k] = a[k - 1] \o groups[k]
<1> DEFINE n == Len(groups)
           step == [p \in Seq(Row) \X (1 .. n) |-> p[1] \o groups[p[2]]]
           Fold(g) == g = [T \in SUBSET (1 .. n) |-> IF T = {} THEN <<>>
                             ELSE g[T \ {Max(T)}] \o groups[Max(T)]]
           h == CHOOSE g : Fold(g)
<1>0. n \in Nat /\ DOMAIN groups = 1 .. n /\ <<>> \in Seq(Row)
  OBVIOUS
<1>1. step \in [Seq(Row) \X (1 .. n) -> Seq(Row)]
  <2>1. ASSUME NEW acc \in Seq(Row), NEW i \in 1 .. n PROVE acc \o groups[i] \in Seq(Row)
    BY <1>0
  <2> QED
    BY <2>1
<1> HIDE DEF n
<1>2. PICK g \in [SUBSET (1 .. n) -> Seq(Row)] : Runs(step, <<>>, n, g)
  <2> HIDE DEF step
  <2> QED
    BY <1>0, <1>1, FoldRuns
<1>3. ASSUME NEW T \in SUBSET (1 .. n), T # {} PROVE Max(T) \in 1 .. n /\ T \ {Max(T)} \in SUBSET (1 .. n)
  BY <1>0, <1>3, MaxOfIndices
<1>4. Fold(g)
  BY <1>2, <1>3 DEF Runs
<1>5. Fold(h)
  BY <1>4
<1>6. Joined(groups) = h[1 .. n]
  BY <1>0 DEF Joined, FoldLeft, MapThenFoldSet
<1>7. Obeys(step, <<>>, n, Seq(Row), h)
  <2>1. h[{}] = <<>>
    BY <1>5
  <2>2. ASSUME NEW T \in SUBSET (1 .. n), T # {}, h[T \ {Max(T)}] \in Seq(Row)
        PROVE  h[T] = step[<<h[T \ {Max(T)}], Max(T)>>]
    <3>1. h[T] = h[T \ {Max(T)}] \o groups[Max(T)]
      BY <1>5, <2>2
    <3> HIDE DEF h
    <3> QED
      BY <1>3, <2>2, <3>1
  <2> QED
    BY <2>1, <2>2 DEF Obeys
<1> HIDE DEF h, step
<1>8. EndsIn(step, <<>>, n, Seq(Row), h[1 .. n])
  BY <1>0, <1>1, <1>7, FoldTrace
<1>9. PICK a \in [0 .. n -> Seq(Row)] :
            /\ a[0] = <<>> /\ a[n] = Joined(groups)
            /\ \A k \in 1 .. n : a[k - 1] \in Seq(Row) /\ a[k] = step[<<a[k - 1], k>>]
  BY <1>6, <1>8 DEF EndsIn
<1>10. \A k \in 1 .. n :
         a[k - 1] \in Seq(Row) /\ a[k] = a[k - 1] \o groups[k]
  BY <1>9 DEF step
<1>11. Joined(groups) \in Seq(Row)
  BY <1>0, <1>9
<1>12. \E b \in [0 .. n -> Seq(Row)] :
         /\ b[0] = <<>> /\ b[n] = Joined(groups)
         /\ \A k \in 1 .. n :
              b[k - 1] \in Seq(Row) /\ b[k] = b[k - 1] \o groups[k]
  BY <1>9, <1>10
<1> QED
  BY <1>11, <1>12 DEF n

(* The steps of NoPulls. *)
LEMMA NoPullsFolds ==
  ASSUME NEW Row, NEW rows \in Seq(Row)
  PROVE  /\ NoPulls(rows) \in Seq(Row)
         /\ \E a \in [0 .. Len(rows) -> Seq(Row)] :
              /\ a[0] = <<>> /\ a[Len(rows)] = NoPulls(rows)
              /\ \A k \in 1 .. Len(rows) :
                   /\ a[k - 1] \in Seq(Row)
                   /\ a[k] = (IF rows[k].flaw = "pull_request"
                              THEN a[k - 1]
                              ELSE Append(a[k - 1], rows[k]))
<1> DEFINE n == Len(rows)
           step == [p \in Seq(Row) \X (1 .. n) |->
                  (IF rows[p[2]].flaw = "pull_request"
                   THEN p[1]
                   ELSE Append(p[1], rows[p[2]]))]
           Fold(g) == g = [T \in SUBSET (1 .. n) |-> IF T = {} THEN <<>>
                             ELSE (IF rows[Max(T)].flaw = "pull_request"
                                   THEN g[T \ {Max(T)}]
                                   ELSE Append(g[T \ {Max(T)}], rows[Max(T)]))]
           h == CHOOSE g : Fold(g)
<1>0. n \in Nat /\ DOMAIN rows = 1 .. n /\ <<>> \in Seq(Row)
  OBVIOUS
<1>1. step \in [Seq(Row) \X (1 .. n) -> Seq(Row)]
  <2>1. ASSUME NEW acc \in Seq(Row), NEW i \in 1 .. n
        PROVE (IF rows[i].flaw = "pull_request"
               THEN acc
               ELSE Append(acc, rows[i])) \in Seq(Row)
    BY <1>0
  <2> QED
    BY <2>1
<1> HIDE DEF n
<1>2. PICK g \in [SUBSET (1 .. n) -> Seq(Row)] : Runs(step, <<>>, n, g)
  <2> HIDE DEF step
  <2> QED
    BY <1>0, <1>1, FoldRuns
<1>3. ASSUME NEW T \in SUBSET (1 .. n), T # {} PROVE Max(T) \in 1 .. n /\ T \ {Max(T)} \in SUBSET (1 .. n)
  BY <1>0, <1>3, MaxOfIndices
<1>4. Fold(g)
  BY <1>2, <1>3 DEF Runs
<1>5. Fold(h)
  BY <1>4
<1>6. NoPulls(rows) = h[1 .. n]
  BY <1>0 DEF NoPulls, FoldLeft, MapThenFoldSet
<1>7. Obeys(step, <<>>, n, Seq(Row), h)
  <2>1. h[{}] = <<>>
    BY <1>5
  <2>2. ASSUME NEW T \in SUBSET (1 .. n), T # {}, h[T \ {Max(T)}] \in Seq(Row)
        PROVE  h[T] = step[<<h[T \ {Max(T)}], Max(T)>>]
    <3>1. h[T] = (IF rows[Max(T)].flaw = "pull_request"
                  THEN h[T \ {Max(T)}]
                  ELSE Append(h[T \ {Max(T)}], rows[Max(T)]))
      BY <1>5, <2>2
    <3> HIDE DEF h
    <3> QED
      BY <1>3, <2>2, <3>1
  <2> QED
    BY <2>1, <2>2 DEF Obeys
<1> HIDE DEF h, step
<1>8. EndsIn(step, <<>>, n, Seq(Row), h[1 .. n])
  BY <1>0, <1>1, <1>7, FoldTrace
<1>9. PICK a \in [0 .. n -> Seq(Row)] :
            /\ a[0] = <<>> /\ a[n] = NoPulls(rows)
            /\ \A k \in 1 .. n : a[k - 1] \in Seq(Row) /\ a[k] = step[<<a[k - 1], k>>]
  BY <1>6, <1>8 DEF EndsIn
<1>10. \A k \in 1 .. n :
         a[k - 1] \in Seq(Row) /\ a[k] = (IF rows[k].flaw = "pull_request"
                                          THEN a[k - 1]
                                          ELSE Append(a[k - 1], rows[k]))
  BY <1>9 DEF step
<1>11. NoPulls(rows) \in Seq(Row)
  BY <1>0, <1>9
<1>12. \E b \in [0 .. n -> Seq(Row)] :
         /\ b[0] = <<>> /\ b[n] = NoPulls(rows)
         /\ \A k \in 1 .. n :
              b[k - 1] \in Seq(Row) /\ b[k] = (IF rows[k].flaw = "pull_request"
                                               THEN b[k - 1]
                                               ELSE Append(b[k - 1], rows[k]))
  BY <1>9, <1>10
<1> QED
  BY <1>11, <1>12 DEF n

(* The steps of Turn. *)
LEMMA TurnFolds ==
  ASSUME NEW Row, NEW groups \in Seq(Seq(Row)), NEW m \in Nat \ {0}
  PROVE  /\ Turn(groups, m) \in Seq(Row)
         /\ \E a \in [0 .. Len(groups) -> Seq(Row)] :
              /\ a[0] = <<>> /\ a[Len(groups)] = Turn(groups, m)
              /\ \A k \in 1 .. Len(groups) :
                   /\ a[k - 1] \in Seq(Row)
                   /\ a[k] = (IF m <= Len(groups[k])
                              THEN Append(a[k - 1], groups[k][m])
                              ELSE a[k - 1])
<1> DEFINE n == Len(groups)
           step == [p \in Seq(Row) \X (1 .. n) |->
                  (IF m <= Len(groups[p[2]])
                   THEN Append(p[1], groups[p[2]][m])
                   ELSE p[1])]
           Fold(g) == g = [T \in SUBSET (1 .. n) |-> IF T = {} THEN <<>>
                             ELSE (IF m <= Len(groups[Max(T)])
                                   THEN Append(g[T \ {Max(T)}], groups[Max(T)][m])
                                   ELSE g[T \ {Max(T)}])]
           h == CHOOSE g : Fold(g)
<1>0. n \in Nat /\ DOMAIN groups = 1 .. n /\ <<>> \in Seq(Row)
  OBVIOUS
<1>1. step \in [Seq(Row) \X (1 .. n) -> Seq(Row)]
  <2>1. ASSUME NEW acc \in Seq(Row), NEW i \in 1 .. n
        PROVE (IF m <= Len(groups[i])
               THEN Append(acc, groups[i][m])
               ELSE acc) \in Seq(Row)
    BY <1>0
  <2> QED
    BY <2>1
<1> HIDE DEF n
<1>2. PICK g \in [SUBSET (1 .. n) -> Seq(Row)] : Runs(step, <<>>, n, g)
  <2> HIDE DEF step
  <2> QED
    BY <1>0, <1>1, FoldRuns
<1>3. ASSUME NEW T \in SUBSET (1 .. n), T # {} PROVE Max(T) \in 1 .. n /\ T \ {Max(T)} \in SUBSET (1 .. n)
  BY <1>0, <1>3, MaxOfIndices
<1>4. Fold(g)
  BY <1>2, <1>3 DEF Runs
<1>5. Fold(h)
  BY <1>4
<1>6. Turn(groups, m) = h[1 .. n]
  BY <1>0 DEF Turn, FoldLeft, MapThenFoldSet
<1>7. Obeys(step, <<>>, n, Seq(Row), h)
  <2>1. h[{}] = <<>>
    BY <1>5
  <2>2. ASSUME NEW T \in SUBSET (1 .. n), T # {}, h[T \ {Max(T)}] \in Seq(Row)
        PROVE  h[T] = step[<<h[T \ {Max(T)}], Max(T)>>]
    <3>1. h[T] = (IF m <= Len(groups[Max(T)])
                  THEN Append(h[T \ {Max(T)}], groups[Max(T)][m])
                  ELSE h[T \ {Max(T)}])
      BY <1>5, <2>2
    <3> HIDE DEF h
    <3> QED
      BY <1>3, <2>2, <3>1
  <2> QED
    BY <2>1, <2>2 DEF Obeys
<1> HIDE DEF h, step
<1>8. EndsIn(step, <<>>, n, Seq(Row), h[1 .. n])
  BY <1>0, <1>1, <1>7, FoldTrace
<1>9. PICK a \in [0 .. n -> Seq(Row)] :
            /\ a[0] = <<>> /\ a[n] = Turn(groups, m)
            /\ \A k \in 1 .. n : a[k - 1] \in Seq(Row) /\ a[k] = step[<<a[k - 1], k>>]
  BY <1>6, <1>8 DEF EndsIn
<1>10. \A k \in 1 .. n :
         a[k - 1] \in Seq(Row) /\ a[k] = (IF m <= Len(groups[k])
                                          THEN Append(a[k - 1], groups[k][m])
                                          ELSE a[k - 1])
  BY <1>9 DEF step
<1>11. Turn(groups, m) \in Seq(Row)
  BY <1>0, <1>9
<1>12. \E b \in [0 .. n -> Seq(Row)] :
         /\ b[0] = <<>> /\ b[n] = Turn(groups, m)
         /\ \A k \in 1 .. n :
              b[k - 1] \in Seq(Row) /\ b[k] = (IF m <= Len(groups[k])
                                               THEN Append(b[k - 1], groups[k][m])
                                               ELSE b[k - 1])
  BY <1>9, <1>10
<1> QED
  BY <1>11, <1>12 DEF n

(* The steps of InTurn. *)
LEMMA InTurnFolds ==
  ASSUME NEW Row, NEW groups \in Seq(Seq(Row)), NEW turns \in Nat, Turns \in Seq(1 .. turns),
         \A m \in 1 .. turns : Turn(groups, m) \in Seq(Row)
  PROVE  /\ InTurn(groups) \in Seq(Row)
         /\ \E a \in [0 .. Len(Turns) -> Seq(Row)] :
              /\ a[0] = <<>> /\ a[Len(Turns)] = InTurn(groups)
              /\ \A k \in 1 .. Len(Turns) :
                   /\ a[k - 1] \in Seq(Row)
                   /\ a[k] = a[k - 1] \o Turn(groups, Turns[k])
<1> DEFINE n == Len(Turns)
           step == [p \in Seq(Row) \X (1 .. n) |-> p[1] \o Turn(groups, Turns[p[2]])]
           Fold(g) == g = [T \in SUBSET (1 .. n) |-> IF T = {} THEN <<>>
                             ELSE g[T \ {Max(T)}] \o Turn(groups, Turns[Max(T)])]
           h == CHOOSE g : Fold(g)
<1>0. n \in Nat /\ DOMAIN Turns = 1 .. n /\ <<>> \in Seq(Row)
  OBVIOUS
<1>1. step \in [Seq(Row) \X (1 .. n) -> Seq(Row)]
  <2>1. ASSUME NEW acc \in Seq(Row), NEW i \in 1 .. n PROVE acc \o Turn(groups, Turns[i]) \in Seq(Row)
    BY <1>0
  <2> QED
    BY <2>1
<1> HIDE DEF n
<1>2. PICK g \in [SUBSET (1 .. n) -> Seq(Row)] : Runs(step, <<>>, n, g)
  <2> HIDE DEF step
  <2> QED
    BY <1>0, <1>1, FoldRuns
<1>3. ASSUME NEW T \in SUBSET (1 .. n), T # {} PROVE Max(T) \in 1 .. n /\ T \ {Max(T)} \in SUBSET (1 .. n)
  BY <1>0, <1>3, MaxOfIndices
<1>4. Fold(g)
  BY <1>2, <1>3 DEF Runs
<1>5. Fold(h)
  BY <1>4
<1>6. InTurn(groups) = h[1 .. n]
  BY <1>0 DEF InTurn, FoldLeft, MapThenFoldSet
<1>7. Obeys(step, <<>>, n, Seq(Row), h)
  <2>1. h[{}] = <<>>
    BY <1>5
  <2>2. ASSUME NEW T \in SUBSET (1 .. n), T # {}, h[T \ {Max(T)}] \in Seq(Row)
        PROVE  h[T] = step[<<h[T \ {Max(T)}], Max(T)>>]
    <3>1. h[T] = h[T \ {Max(T)}] \o Turn(groups, Turns[Max(T)])
      BY <1>5, <2>2
    <3> HIDE DEF h
    <3> QED
      BY <1>3, <2>2, <3>1
  <2> QED
    BY <2>1, <2>2 DEF Obeys
<1> HIDE DEF h, step
<1>8. EndsIn(step, <<>>, n, Seq(Row), h[1 .. n])
  BY <1>0, <1>1, <1>7, FoldTrace
<1>9. PICK a \in [0 .. n -> Seq(Row)] :
            /\ a[0] = <<>> /\ a[n] = InTurn(groups)
            /\ \A k \in 1 .. n : a[k - 1] \in Seq(Row) /\ a[k] = step[<<a[k - 1], k>>]
  BY <1>6, <1>8 DEF EndsIn
<1>10. \A k \in 1 .. n :
         a[k - 1] \in Seq(Row) /\ a[k] = a[k - 1] \o Turn(groups, Turns[k])
  BY <1>9 DEF step
<1>11. InTurn(groups) \in Seq(Row)
  BY <1>0, <1>9
<1>12. \E b \in [0 .. n -> Seq(Row)] :
         /\ b[0] = <<>> /\ b[n] = InTurn(groups)
         /\ \A k \in 1 .. n :
              b[k - 1] \in Seq(Row) /\ b[k] = b[k - 1] \o Turn(groups, Turns[k])
  BY <1>9, <1>10
<1> QED
  BY <1>11, <1>12 DEF n

(* The steps of Distinct. *)
LEMMA DistinctFolds ==
  ASSUME NEW Row, NEW rows \in Seq(Row)
  PROVE  /\ Distinct(rows) \in Distincts(Row)
         /\ \E a \in [0 .. Len(rows) -> Distincts(Row)] :
              /\ a[0] = <<>> /\ a[Len(rows)] = Distinct(rows)
              /\ \A k \in 1 .. Len(rows) :
                   /\ a[k - 1] \in Distincts(Row)
                   /\ a[k] = (IF Holds(a[k - 1], rows[k].listing)
                              THEN a[k - 1]
                              ELSE Append(a[k - 1], rows[k]))
<1> DEFINE n == Len(rows)
           step == [p \in Distincts(Row) \X (1 .. n) |->
                  (IF Holds(p[1], rows[p[2]].listing)
                   THEN p[1]
                   ELSE Append(p[1], rows[p[2]]))]
           Fold(g) == g = [T \in SUBSET (1 .. n) |-> IF T = {} THEN <<>>
                             ELSE (IF Holds(g[T \ {Max(T)}], rows[Max(T)].listing)
                                   THEN g[T \ {Max(T)}]
                                   ELSE Append(g[T \ {Max(T)}], rows[Max(T)]))]
           h == CHOOSE g : Fold(g)
<1>0. n \in Nat /\ DOMAIN rows = 1 .. n /\ <<>> \in Distincts(Row)
  BY DEF Distincts, Apart
<1>1. step \in [Distincts(Row) \X (1 .. n) -> Distincts(Row)]
  <2>1. ASSUME NEW acc \in Distincts(Row), NEW i \in 1 .. n
        PROVE (IF Holds(acc, rows[i].listing)
               THEN acc
               ELSE Append(acc, rows[i])) \in Distincts(Row)
    BY <1>0, DistinctGrows DEF Distincts
  <2> QED
    BY <2>1
<1> HIDE DEF n
<1>2. PICK g \in [SUBSET (1 .. n) -> Distincts(Row)] : Runs(step, <<>>, n, g)
  <2> HIDE DEF step
  <2> QED
    BY <1>0, <1>1, FoldRuns
<1>3. ASSUME NEW T \in SUBSET (1 .. n), T # {} PROVE Max(T) \in 1 .. n /\ T \ {Max(T)} \in SUBSET (1 .. n)
  BY <1>0, <1>3, MaxOfIndices
<1>4. Fold(g)
  BY <1>2, <1>3 DEF Runs
<1>5. Fold(h)
  BY <1>4
<1>6. Distinct(rows) = h[1 .. n]
  BY <1>0 DEF Distinct, FoldLeft, MapThenFoldSet
<1>7. Obeys(step, <<>>, n, Distincts(Row), h)
  <2>1. h[{}] = <<>>
    BY <1>5
  <2>2. ASSUME NEW T \in SUBSET (1 .. n), T # {}, h[T \ {Max(T)}] \in Distincts(Row)
        PROVE  h[T] = step[<<h[T \ {Max(T)}], Max(T)>>]
    <3>1. h[T] = (IF Holds(h[T \ {Max(T)}], rows[Max(T)].listing)
                  THEN h[T \ {Max(T)}]
                  ELSE Append(h[T \ {Max(T)}], rows[Max(T)]))
      BY <1>5, <2>2
    <3> HIDE DEF h
    <3> QED
      BY <1>3, <2>2, <3>1
  <2> QED
    BY <2>1, <2>2 DEF Obeys
<1> HIDE DEF h, step
<1>8. EndsIn(step, <<>>, n, Distincts(Row), h[1 .. n])
  BY <1>0, <1>1, <1>7, FoldTrace
<1>9. PICK a \in [0 .. n -> Distincts(Row)] :
            /\ a[0] = <<>> /\ a[n] = Distinct(rows)
            /\ \A k \in 1 .. n : a[k - 1] \in Distincts(Row) /\ a[k] = step[<<a[k - 1], k>>]
  BY <1>6, <1>8 DEF EndsIn
<1>10. \A k \in 1 .. n :
         a[k - 1] \in Distincts(Row) /\ a[k] = (IF Holds(a[k - 1], rows[k].listing)
                                                THEN a[k - 1]
                                                ELSE Append(a[k - 1], rows[k]))
  BY <1>9 DEF step
<1>11. Distinct(rows) \in Distincts(Row)
  BY <1>0, <1>9
<1>12. \E b \in [0 .. n -> Distincts(Row)] :
         /\ b[0] = <<>> /\ b[n] = Distinct(rows)
         /\ \A k \in 1 .. n :
              b[k - 1] \in Distincts(Row) /\ b[k] = (IF Holds(b[k - 1], rows[k].listing)
                                                     THEN b[k - 1]
                                                     ELSE Append(b[k - 1], rows[k]))
  BY <1>9, <1>10
<1> QED
  BY <1>11, <1>12 DEF n

(* The steps of the final gate. *)
LEMMA ContainedFolds ==
  ASSUME NEW Row, NEW rows \in Seq(Row)
  PROVE  /\ Contained(rows) \in Seq(Row)
         /\ \E a \in [0 .. Len(rows) -> Seq(Row)] :
              /\ a[0] = <<>> /\ a[Len(rows)] = Contained(rows)
              /\ \A k \in 1 .. Len(rows) :
                   /\ a[k - 1] \in Seq(Row)
                   /\ a[k] = (IF rows[k].flaw = "exfiltrates"
                              THEN a[k - 1]
                              ELSE Append(a[k - 1], rows[k]))
<1> DEFINE n == Len(rows)
           step == [p \in Seq(Row) \X (1 .. n) |->
                  (IF rows[p[2]].flaw = "exfiltrates"
                   THEN p[1]
                   ELSE Append(p[1], rows[p[2]]))]
           Fold(g) == g = [T \in SUBSET (1 .. n) |-> IF T = {} THEN <<>>
                             ELSE (IF rows[Max(T)].flaw = "exfiltrates"
                                   THEN g[T \ {Max(T)}]
                                   ELSE Append(g[T \ {Max(T)}], rows[Max(T)]))]
           h == CHOOSE g : Fold(g)
<1>0. n \in Nat /\ DOMAIN rows = 1 .. n /\ <<>> \in Seq(Row)
  OBVIOUS
<1>1. step \in [Seq(Row) \X (1 .. n) -> Seq(Row)]
  <2>1. ASSUME NEW acc \in Seq(Row), NEW i \in 1 .. n
        PROVE (IF rows[i].flaw = "exfiltrates"
               THEN acc
               ELSE Append(acc, rows[i])) \in Seq(Row)
    BY <1>0
  <2> QED
    BY <2>1
<1> HIDE DEF n
<1>2. PICK g \in [SUBSET (1 .. n) -> Seq(Row)] : Runs(step, <<>>, n, g)
  <2> HIDE DEF step
  <2> QED
    BY <1>0, <1>1, FoldRuns
<1>3. ASSUME NEW T \in SUBSET (1 .. n), T # {} PROVE Max(T) \in 1 .. n /\ T \ {Max(T)} \in SUBSET (1 .. n)
  BY <1>0, <1>3, MaxOfIndices
<1>4. Fold(g)
  BY <1>2, <1>3 DEF Runs
<1>5. Fold(h)
  BY <1>4
<1>6. Contained(rows) = h[1 .. n]
  BY <1>0 DEF Contained, FoldLeft, MapThenFoldSet
<1>7. Obeys(step, <<>>, n, Seq(Row), h)
  <2>1. h[{}] = <<>>
    BY <1>5
  <2>2. ASSUME NEW T \in SUBSET (1 .. n), T # {}, h[T \ {Max(T)}] \in Seq(Row)
        PROVE  h[T] = step[<<h[T \ {Max(T)}], Max(T)>>]
    <3>1. h[T] = (IF rows[Max(T)].flaw = "exfiltrates"
                  THEN h[T \ {Max(T)}]
                  ELSE Append(h[T \ {Max(T)}], rows[Max(T)]))
      BY <1>5, <2>2
    <3> HIDE DEF h
    <3> QED
      BY <1>3, <2>2, <3>1
  <2> QED
    BY <2>1, <2>2 DEF Obeys
<1> HIDE DEF h, step
<1>8. EndsIn(step, <<>>, n, Seq(Row), h[1 .. n])
  BY <1>0, <1>1, <1>7, FoldTrace
<1>9. PICK a \in [0 .. n -> Seq(Row)] :
            /\ a[0] = <<>> /\ a[n] = Contained(rows)
            /\ \A k \in 1 .. n : a[k - 1] \in Seq(Row) /\ a[k] = step[<<a[k - 1], k>>]
  BY <1>6, <1>8 DEF EndsIn
<1>10. \A k \in 1 .. n :
         a[k - 1] \in Seq(Row) /\ a[k] = (IF rows[k].flaw = "exfiltrates"
                                          THEN a[k - 1]
                                          ELSE Append(a[k - 1], rows[k]))
  BY <1>9 DEF step
<1>11. Contained(rows) \in Seq(Row)
  BY <1>0, <1>9
<1>12. \E b \in [0 .. n -> Seq(Row)] :
         /\ b[0] = <<>> /\ b[n] = Contained(rows)
         /\ \A k \in 1 .. n :
              b[k - 1] \in Seq(Row) /\ b[k] = (IF rows[k].flaw = "exfiltrates"
                                               THEN b[k - 1]
                                               ELSE Append(b[k - 1], rows[k]))
  BY <1>9, <1>10
<1> QED
  BY <1>11, <1>12 DEF n

(* What a list with a share per repository may hold.                                        *)
InShare(chosen, r) == {k \in DOMAIN chosen : chosen[k].repository = r}
Shares ==
  {s \in Seq(Issues) : /\ Len(s) <= MaxCandidates
                       /\ \A r \in Repositories : Cardinality(InShare(s, r)) <= MaxPerRepository}

LEMMA ShareGrows ==
  ASSUME NEW chosen \in Shares,
         NEW i \in Issues, Len(chosen) < MaxCandidates, PassesShare(chosen, i)
  PROVE  Append(chosen, i) \in Shares
<1> DEFINE new == Append(chosen, i)
           m == Len(chosen) + 1
<1>0. MaxCandidates \in Nat /\ MaxPerRepository \in Nat
  BY ProspectAssumption
<1>1. chosen \in Seq(Issues) /\ Len(chosen) \in Nat /\ IsFiniteSet(DOMAIN chosen)
  <2>1. chosen \in Seq(Issues) /\ Len(chosen) \in Nat /\ DOMAIN chosen = 1 .. Len(chosen)
    BY DEF Shares
  <2> QED
    BY <2>1, FS_Interval
<1>2. /\ new \in Seq(Issues) /\ Len(new) = m /\ m \notin DOMAIN chosen
      /\ DOMAIN new = DOMAIN chosen \cup {m} /\ new[m] = i
      /\ \A k \in DOMAIN chosen : new[k] = chosen[k]
  BY <1>1
<1> HIDE DEF new, m
<1>3. ASSUME NEW r \in Repositories PROVE Cardinality(InShare(new, r)) <= MaxPerRepository
  <2>1. /\ IsFiniteSet(InShare(chosen, r)) /\ Cardinality(InShare(chosen, r)) \in Nat
        /\ Cardinality(InShare(chosen, r)) <= MaxPerRepository
    <3>1. InShare(chosen, r) \in SUBSET (DOMAIN chosen)
      BY DEF InShare
    <3> QED
      BY <1>1, <3>1, FS_Subset, FS_CardinalityType DEF Shares
  <2>2. CASE i.repository = r
    <3>1. InShare(new, r) = InShare(chosen, r) \cup {m} /\ m \notin InShare(chosen, r)
      BY <1>2, <2>2 DEF InShare
    <3>2. Cardinality(InShare(new, r)) = Cardinality(InShare(chosen, r)) + 1
      BY <2>1, <3>1, FS_AddElement
    <3>3. Cardinality(InShare(chosen, r)) < MaxPerRepository
      BY <2>2 DEF PassesShare, InShare
    <3> QED
      BY <1>0, <2>1, <3>2, <3>3
  <2>3. CASE i.repository # r
    <3>1. InShare(new, r) = InShare(chosen, r)
      BY <1>2, <2>3 DEF InShare
    <3> QED
      BY <2>1, <3>1
  <2> QED
    BY <2>2, <2>3
<1>4. Len(new) <= MaxCandidates
  BY <1>0, <1>1, <1>2 DEF m
<1> QED
  BY <1>2, <1>3, <1>4 DEF Shares, new

(* The steps of Shared. *)
LEMMA SharedFolds ==
  ASSUME NEW rows \in Seq(Issues)
  PROVE  /\ Shared(rows) \in Shares
         /\ \E a \in [0 .. Len(rows) -> Shares] :
              /\ a[0] = <<>> /\ a[Len(rows)] = Shared(rows)
              /\ \A k \in 1 .. Len(rows) :
                   /\ a[k - 1] \in Shares
                   /\ a[k] = (IF Len(a[k - 1]) < MaxCandidates /\ PassesShare(a[k - 1], rows[k])
                              THEN Append(a[k - 1], rows[k])
                              ELSE a[k - 1])
<1> DEFINE n == Len(rows)
           step == [p \in Shares \X (1 .. n) |->
                  (IF Len(p[1]) < MaxCandidates /\ PassesShare(p[1], rows[p[2]])
                   THEN Append(p[1], rows[p[2]])
                   ELSE p[1])]
           Fold(g) == g = [T \in SUBSET (1 .. n) |-> IF T = {} THEN <<>>
                             ELSE (IF Len(g[T \ {Max(T)}]) < MaxCandidates /\ PassesShare(g[T \ {Max(T)}], rows[Max(T)])
                                   THEN Append(g[T \ {Max(T)}], rows[Max(T)])
                                   ELSE g[T \ {Max(T)}])]
           h == CHOOSE g : Fold(g)
<1>0. n \in Nat /\ DOMAIN rows = 1 .. n /\ <<>> \in Shares
  BY FS_EmptySet, ProspectAssumption DEF Shares, InShare
<1>1. step \in [Shares \X (1 .. n) -> Shares]
  <2>1. ASSUME NEW acc \in Shares, NEW i \in 1 .. n
        PROVE (IF Len(acc) < MaxCandidates /\ PassesShare(acc, rows[i])
               THEN Append(acc, rows[i])
               ELSE acc) \in Shares
    BY <1>0, ShareGrows
  <2> QED
    BY <2>1
<1> HIDE DEF n
<1>2. PICK g \in [SUBSET (1 .. n) -> Shares] : Runs(step, <<>>, n, g)
  <2> HIDE DEF step
  <2> QED
    BY <1>0, <1>1, FoldRuns
<1>3. ASSUME NEW T \in SUBSET (1 .. n), T # {} PROVE Max(T) \in 1 .. n /\ T \ {Max(T)} \in SUBSET (1 .. n)
  BY <1>0, <1>3, MaxOfIndices
<1>4. Fold(g)
  BY <1>2, <1>3 DEF Runs
<1>5. Fold(h)
  BY <1>4
<1>6. Shared(rows) = h[1 .. n]
  BY <1>0 DEF Shared, FoldLeft, MapThenFoldSet
<1>7. Obeys(step, <<>>, n, Shares, h)
  <2>1. h[{}] = <<>>
    BY <1>5
  <2>2. ASSUME NEW T \in SUBSET (1 .. n), T # {}, h[T \ {Max(T)}] \in Shares
        PROVE  h[T] = step[<<h[T \ {Max(T)}], Max(T)>>]
    <3>1. h[T] = (IF Len(h[T \ {Max(T)}]) < MaxCandidates /\ PassesShare(h[T \ {Max(T)}], rows[Max(T)])
                  THEN Append(h[T \ {Max(T)}], rows[Max(T)])
                  ELSE h[T \ {Max(T)}])
      BY <1>5, <2>2
    <3> HIDE DEF h
    <3> QED
      BY <1>3, <2>2, <3>1
  <2> QED
    BY <2>1, <2>2 DEF Obeys
<1> HIDE DEF h, step
<1>8. EndsIn(step, <<>>, n, Shares, h[1 .. n])
  BY <1>0, <1>1, <1>7, FoldTrace
<1>9. PICK a \in [0 .. n -> Shares] :
            /\ a[0] = <<>> /\ a[n] = Shared(rows)
            /\ \A k \in 1 .. n : a[k - 1] \in Shares /\ a[k] = step[<<a[k - 1], k>>]
  BY <1>6, <1>8 DEF EndsIn
<1>10. \A k \in 1 .. n :
         a[k - 1] \in Shares /\ a[k] = (IF Len(a[k - 1]) < MaxCandidates /\ PassesShare(a[k - 1], rows[k])
                                        THEN Append(a[k - 1], rows[k])
                                        ELSE a[k - 1])
  BY <1>9 DEF step
<1>11. Shared(rows) \in Shares
  BY <1>0, <1>9
<1>12. \E b \in [0 .. n -> Shares] :
         /\ b[0] = <<>> /\ b[n] = Shared(rows)
         /\ \A k \in 1 .. n :
              b[k - 1] \in Shares /\ b[k] = (IF Len(b[k - 1]) < MaxCandidates /\ PassesShare(b[k - 1], rows[k])
                                             THEN Append(b[k - 1], rows[k])
                                             ELSE b[k - 1])
  BY <1>9, <1>10
<1> QED
  BY <1>11, <1>12 DEF n

--------------------------------------------------------------------------------
(* The ranking of a list of issues.                                                        *)

EarlierPairs(S, kind, rows) == {e \in S \X S : e[1] \in Earlier(kind, rows, e[2])}

LEMMA PairsOf ==
  ASSUME NEW S, NEW kind, NEW rows, NEW i \in S, NEW j \in S
  PROVE  <<j, i>> \in EarlierPairs(S, kind, rows) <=> j \in Earlier(kind, rows, i)
<1>1. <<j, i>> \in S \X S
  OBVIOUS
<1>2. <<j, i>>[1] = j /\ <<j, i>>[2] = i
  OBVIOUS
<1> QED
  BY <1>1, <1>2, Zenon DEF EarlierPairs

LEMMA BeforeOrders ==
  ASSUME NEW kind, NEW rows \in Seq(Issues)
  PROVE  StrictOrder(EarlierPairs(1 .. Len(rows), kind, rows), 1 .. Len(rows))
<1> DEFINE S == 1 .. Len(rows)
           R == EarlierPairs(S, kind, rows)
<1>1. \A i \in S : rows[i] \in Issues /\ rows[i].worth \in Nat /\ i \in Nat
  BY ProspectAssumption
<1>2. \A i, j \in S : <<j, i>> \in R <=>
        \/ Before(kind, rows[j], rows[i])
        \/ ~Before(kind, rows[i], rows[j]) /\ j < i
  <2>1. \A i, j \in S : <<j, i>> \in R <=> j \in Earlier(kind, rows, i)
    <3> HIDE DEF S
    <3> QED
      BY PairsOf
  <2>2. S = DOMAIN rows
    OBVIOUS
  <2> HIDE DEF R, S
  <2> QED
    BY <2>1, <2>2 DEF Earlier
<1> HIDE DEF R, S
<1>0. ASSUME NEW i \in S, NEW j \in S
      PROVE  Before(kind, rows[i], rows[j]) <=>
               IF kind = "narrow" /\ Bounded(rows[i]) # Bounded(rows[j]) THEN Bounded(rows[i])
               ELSE IF kind = "hint" THEN Hint(rows[i]) > Hint(rows[j])
               ELSE rows[i].worth > rows[j].worth
  BY Zenon DEF Before
<1>7. \A i \in S : Hint(rows[i]) \in Nat
  BY <1>1 DEF Hint
<1>3. \A x \in S : <<x, x>> \notin R
  BY <1>0, <1>1, <1>2, <1>7
<1>4. ASSUME NEW x \in S, NEW y \in S, NEW z \in S, <<x, y>> \in R, <<y, z>> \in R
      PROVE  <<x, z>> \in R
  <2>1. /\ Before(kind, rows[x], rows[y]) \/ (~Before(kind, rows[y], rows[x]) /\ x < y)
        /\ Before(kind, rows[y], rows[z]) \/ (~Before(kind, rows[z], rows[y]) /\ y < z)
    BY <1>2, <1>4
  <2>2. Before(kind, rows[x], rows[z]) \/ (~Before(kind, rows[z], rows[x]) /\ x < z)
    <3>1. rows[x].worth \in Nat /\ rows[y].worth \in Nat /\ rows[z].worth \in Nat
      BY <1>1
    <3>2. x \in Nat /\ y \in Nat /\ z \in Nat
      BY <1>1
    <3>3. CASE kind = "narrow"
      <4>1. \A i, j \in {x, y, z} : Before(kind, rows[i], rows[j]) <=>
              IF Bounded(rows[i]) # Bounded(rows[j]) THEN Bounded(rows[i])
              ELSE rows[i].worth > rows[j].worth
        BY <1>0, <3>3
      <4>2. \A i \in {x, y, z} : Bounded(rows[i]) \in BOOLEAN
        BY DEF Bounded
      <4> QED
        BY <2>1, <3>1, <3>2, <4>1, <4>2
    <3>4. CASE kind = "hint"
      <4>1. \A i, j \in {x, y, z} :
              Before(kind, rows[i], rows[j]) <=> Hint(rows[i]) > Hint(rows[j])
        BY <1>0, <3>4
      <4>2. Hint(rows[x]) \in Nat /\ Hint(rows[y]) \in Nat /\ Hint(rows[z]) \in Nat
        BY <1>7
      <4> QED
        BY <2>1, <3>2, <4>1, <4>2
    <3>5. CASE kind # "narrow" /\ kind # "hint"
      <4>1. \A i, j \in {x, y, z} :
              Before(kind, rows[i], rows[j]) <=> rows[i].worth > rows[j].worth
        BY <1>0, <3>5
      <4> QED
        BY <2>1, <3>1, <3>2, <4>1
    <3> QED
      BY <3>3, <3>4, <3>5
  <2> QED
    BY <1>2, <2>2
<1>5. \A x, y \in S : x # y => <<x, y>> \in R \/ <<y, x>> \in R
  BY <1>1, <1>2
<1>6. StrictOrder(R, S)
  BY <1>3, <1>4, <1>5 DEF StrictOrder
<1> QED
  BY <1>6 DEF R, S

RankedBy(place, kind, rows) ==
  /\ \A p \in 1 .. Len(rows) : Ranking(kind, rows)[p] = rows[place[p]]
  /\ \A p, q \in 1 .. Len(rows) : place[p] = place[q] => p = q
  /\ \A i \in 1 .. Len(rows) : \E p \in 1 .. Len(rows) : place[p] = i
  /\ \A p, q \in 1 .. Len(rows) : p < q => ~Before(kind, rows[place[q]], rows[place[p]])

LEMMA RankingRanks ==
  ASSUME NEW kind, NEW rows \in Seq(Issues)
  PROVE  /\ Ranking(kind, rows) \in Seq(Issues) /\ Len(Ranking(kind, rows)) = Len(rows)
         /\ \E place \in [1 .. Len(rows) -> 1 .. Len(rows)] : RankedBy(place, kind, rows)
<1> DEFINE S == 1 .. Len(rows)
           R == EarlierPairs(S, kind, rows)
           rank(i) == Cardinality(Earlier(kind, rows, i))
           place == [p \in S |-> CHOOSE i \in S : rank(i) = p - 1]
<1>0. DOMAIN rows = S /\ Len(rows) \in Nat
  OBVIOUS
<1>1. IsFiniteSet(S) /\ Cardinality(S) = Len(rows)
  BY <1>0, FS_Interval
<1>2. StrictOrder(R, S)
  BY <1>0, BeforeOrders
<1>3. \A i \in S : Preceding(R, S, i) = Earlier(kind, rows, i)
  <2>1. \A i \in S : Earlier(kind, rows, i) \subseteq S
    BY <1>0 DEF Earlier
  <2>2. \A i, j \in S : <<j, i>> \in R <=> j \in Earlier(kind, rows, i)
    BY <1>0, PairsOf
  <2> HIDE DEF R, S
  <2> QED
    BY <2>1, <2>2 DEF Preceding
<1>4. /\ \A i \in S : rank(i) \in 0 .. (Len(rows) - 1)
      /\ \A i, j \in S : <<i, j>> \in R <=> rank(i) < rank(j)
  <2> HIDE DEF R, S
  <2> QED
    BY <1>1, <1>2, <1>3, RanksClimb
<1>5. \A p \in S : \E i \in S : rank(i) = p - 1
  <2> HIDE DEF R
  <2>1. \A p \in 1 .. Cardinality(S) : \E i \in S : Cardinality(Preceding(R, S, i)) = p - 1
    BY <1>1, <1>2, RanksFill
  <2> QED
    BY <1>1, <1>3, <2>1
<1>6. \A p \in S : place[p] \in S /\ rank(place[p]) = p - 1
  BY <1>5
<1>7. \A i, j \in S : rank(i) = rank(j) => i = j
  <2> SUFFICES ASSUME NEW i \in S, NEW j \in S, rank(i) = rank(j), i # j PROVE FALSE
    OBVIOUS
  <2>1. <<i, j>> \in R \/ <<j, i>> \in R
    <3> HIDE DEF R, S
    <3> QED
      BY <1>2 DEF StrictOrder
  <2>2. rank(i) < rank(j) \/ rank(j) < rank(i)
    BY <1>4, <2>1
  <2> QED
    BY <1>0, <1>4, <2>2
<1>8. Ranking(kind, rows) = [p \in S |-> rows[place[p]]]
  BY <1>0 DEF Ranking
<1> HIDE DEF place
<1>9. Ranking(kind, rows) \in Seq(Issues) /\ Len(Ranking(kind, rows)) = Len(rows)
  <2>1. \A p \in S : rows[place[p]] \in Issues
    BY <1>0, <1>6
  <2> QED
    BY <1>0, <1>8, <2>1
<1>10. ASSUME NEW p \in S, NEW q \in S, place[p] = place[q] PROVE p = q
  <2>1. p - 1 = q - 1
    BY <1>6, <1>10
  <2> QED
    BY <1>0, <2>1
<1>11. ASSUME NEW i \in S PROVE \E p \in S : place[p] = i
  <2>1. rank(i) \in 0 .. (Len(rows) - 1)
    BY <1>4
  <2>2. rank(i) + 1 \in S /\ (rank(i) + 1) - 1 = rank(i)
    BY <1>0, <2>1
  <2> HIDE DEF S
  <2>3. rank(place[rank(i) + 1]) = rank(i) /\ place[rank(i) + 1] \in S
    BY <1>6, <2>2
  <2> QED
    BY <1>7, <2>2, <2>3
<1>12. ASSUME NEW p \in S, NEW q \in S, p < q PROVE ~Before(kind, rows[place[q]], rows[place[p]])
  <2> DEFINE i == place[p]
             j == place[q]
  <2>1. i \in S /\ j \in S /\ rank(i) < rank(j)
    BY <1>0, <1>6, <1>12
  <2>2. <<i, j>> \in R
    BY <1>4, <2>1
  <2>3. Before(kind, rows[j], rows[i]) => <<j, i>> \in R
    BY <1>0, <2>1, PairsOf DEF Earlier
  <2>4. <<j, i>> \in R => rank(j) < rank(i)
    BY <1>4, <2>1
  <2>5. rank(i) \in Nat /\ rank(j) \in Nat
    BY <1>0, <1>4, <2>1
  <2> HIDE DEF i, j, R
  <2> QED
    BY <2>1, <2>3, <2>4, <2>5 DEF i, j
<1>13. place \in [S -> S]
  BY <1>6 DEF place
<1> QED
  BY <1>8, <1>9, <1>10, <1>11, <1>12, <1>13 DEF RankedBy

--------------------------------------------------------------------------------
(* Walking down a ranking: what is passed over was passed over because better rows had        *)
(* filled the list, or its repository's share.                                              *)

From(c, r, y) == {x \in DOMAIN c : c[x].repository = r[y].repository /\ \E z \in 1 .. y : c[x] = r[z]}
Earned(c, r, k) ==
  /\ \A x \in DOMAIN c : \E y \in 1 .. k : c[x] = r[y]
  /\ \A x, y \in DOMAIN c : c[x] = c[y] => x = y
  /\ \A y \in 1 .. k : \/ \E x \in DOMAIN c : c[x] = r[y]
                       \/ Len(c) >= MaxCandidates /\ \A x \in DOMAIN c : \E z \in 1 .. y : c[x] = r[z]
                       \/ Cardinality(From(c, r, y)) >= MaxPerRepository

LEMMA EarnedAppend ==
  ASSUME NEW r \in Seq(Issues), \A x, y \in DOMAIN r : r[x] = r[y] => x = y,
         NEW k \in 1 .. Len(r), NEW c \in Shares, Earned(c, r, k - 1),
         Len(c) < MaxCandidates, PassesShare(c, r[k])
  PROVE  Earned(Append(c, r[k]), r, k)
<1> DEFINE new == Append(c, r[k])
           m == Len(c) + 1
<1>0. /\ MaxCandidates \in Nat /\ MaxPerRepository \in Nat /\ Len(c) \in Nat /\ c \in Seq(Issues)
      /\ DOMAIN c = 1 .. Len(c) /\ DOMAIN r = 1 .. Len(r) /\ k \in Nat /\ k \in 1 .. k
      /\ 1 .. (k - 1) \subseteq 1 .. k /\ k \notin 1 .. (k - 1) /\ 1 .. k \subseteq DOMAIN r
      /\ \A y \in 1 .. k : y = k \/ y \in 1 .. (k - 1)
  BY ProspectAssumption DEF Shares
<1>1. /\ DOMAIN new = DOMAIN c \cup {m} /\ m \notin DOMAIN c /\ new[m] = r[k]
      /\ \A x \in DOMAIN c : new[x] = c[x]
  BY <1>0
<1> HIDE DEF new, m
<1>2. \A x \in DOMAIN new : \E y \in 1 .. k : new[x] = r[y]
  BY <1>0, <1>1 DEF Earned
<1>3. ASSUME NEW x \in DOMAIN c PROVE c[x] # r[k]
  <2>1. PICK y \in 1 .. (k - 1) : c[x] = r[y]
    BY DEF Earned
  <2> QED
    BY <1>0, <2>1
<1>4. \A x, y \in DOMAIN new : new[x] = new[y] => x = y
  BY <1>1, <1>3 DEF Earned
<1>5. ASSUME NEW y \in 1 .. k
      PROVE  \/ \E x \in DOMAIN new : new[x] = r[y]
             \/ Cardinality(From(new, r, y)) >= MaxPerRepository
  <2>1. CASE y = k
    BY <1>1, <2>1
  <2>2. ASSUME NEW x \in DOMAIN c, c[x] = r[y]
        PROVE  \E z \in DOMAIN new : new[z] = r[y]
    BY <1>1, <2>2
  <2>3. CASE Cardinality(From(c, r, y)) >= MaxPerRepository
    <3>1. IsFiniteSet(DOMAIN c) /\ IsFiniteSet(DOMAIN new)
      <4>1. IsFiniteSet(DOMAIN c)
        BY <1>0, FS_Interval
      <4> QED
        BY <1>1, <4>1, FS_AddElement
    <3>2. From(new, r, y) \in SUBSET DOMAIN new /\ From(c, r, y) \in SUBSET DOMAIN c
      BY DEF From
    <3>3. From(c, r, y) \in SUBSET From(new, r, y)
      BY <1>1 DEF From
    <3>4. IsFiniteSet(From(new, r, y)) /\ IsFiniteSet(From(c, r, y))
      BY <3>1, <3>2, FS_Subset
    <3>5. Cardinality(From(c, r, y)) <= Cardinality(From(new, r, y))
      BY <3>3, <3>4, FS_Subset
    <3>6. Cardinality(From(c, r, y)) \in Nat /\ Cardinality(From(new, r, y)) \in Nat
      BY <3>4, FS_CardinalityType
    <3> QED
      BY <1>0, <2>3, <3>5, <3>6
  <2> QED
    BY <1>0, <2>1, <2>2, <2>3 DEF Earned
<1> QED
  BY <1>2, <1>4, <1>5 DEF Earned, new

LEMMA EarnedPasses ==
  ASSUME NEW r \in Seq(Issues), NEW k \in 1 .. Len(r), NEW c \in Shares, Earned(c, r, k - 1),
         ~(Len(c) < MaxCandidates /\ PassesShare(c, r[k]))
  PROVE  Earned(c, r, k)
<1>0. /\ MaxCandidates \in Nat /\ MaxPerRepository \in Nat /\ Len(c) \in Nat /\ c \in Seq(Issues)
      /\ k \in Nat /\ 1 .. (k - 1) \subseteq 1 .. k
      /\ \A y \in 1 .. k : y = k \/ y \in 1 .. (k - 1)
  BY ProspectAssumption DEF Shares
<1>1. \A x \in DOMAIN c : \E y \in 1 .. k : c[x] = r[y]
  BY <1>0 DEF Earned
<1>2. \/ Len(c) >= MaxCandidates
      \/ Cardinality(From(c, r, k)) >= MaxPerRepository
  <2> SUFFICES ASSUME ~PassesShare(c, r[k]) PROVE Cardinality(From(c, r, k)) >= MaxPerRepository
    BY <1>0
  <2>1. From(c, r, k) = {x \in DOMAIN c : c[x].repository = r[k].repository}
    BY <1>1 DEF From
  <2>2. IsFiniteSet(DOMAIN c)
    BY <1>0, FS_Interval
  <2>3. From(c, r, k) \in SUBSET DOMAIN c
    BY DEF From
  <2>4. Cardinality(From(c, r, k)) \in Nat
    BY <2>2, <2>3, FS_Subset, FS_CardinalityType
  <2> QED
    BY <1>0, <2>1, <2>4 DEF PassesShare
<1> QED
  BY <1>0, <1>1, <1>2 DEF Earned

LEMMA SharedEarns ==
  ASSUME NEW r \in Seq(Issues), \A x, y \in DOMAIN r : r[x] = r[y] => x = y
  PROVE  Shared(r) \in Shares /\ Earned(Shared(r), r, Len(r))
<1>0. /\ Shared(r) \in Shares
      /\ \E a \in [0 .. Len(r) -> Shares] :
           /\ a[0] = <<>> /\ a[Len(r)] = Shared(r)
           /\ \A k \in 1 .. Len(r) :
                /\ a[k - 1] \in Shares
                /\ a[k] = (IF Len(a[k - 1]) < MaxCandidates /\ PassesShare(a[k - 1], r[k])
                           THEN Append(a[k - 1], r[k]) ELSE a[k - 1])
  BY SharedFolds
<1>1. PICK a \in [0 .. Len(r) -> Shares] :
           /\ a[0] = <<>> /\ a[Len(r)] = Shared(r)
           /\ \A k \in 1 .. Len(r) :
                /\ a[k - 1] \in Shares
                /\ a[k] = (IF Len(a[k - 1]) < MaxCandidates /\ PassesShare(a[k - 1], r[k])
                           THEN Append(a[k - 1], r[k]) ELSE a[k - 1])
  BY <1>0
<1> DEFINE K == {k \in 0 .. Len(r) : Earned(a[k], r, k)}
<1>2. Len(r) \in Nat
  OBVIOUS
<1>3. 0 \in K
  BY <1>1, <1>2 DEF Earned
<1>4. ASSUME NEW k \in 1 .. Len(r), k - 1 \in K PROVE k \in K
  <2>1. Earned(a[k - 1], r, k - 1) /\ a[k - 1] \in Shares
    BY <1>1, <1>4
  <2>2. Earned(a[k], r, k)
    <3>1. CASE Len(a[k - 1]) < MaxCandidates /\ PassesShare(a[k - 1], r[k])
      <4>1. a[k] = Append(a[k - 1], r[k])
        BY <1>1, <3>1
      <4> QED
        BY <2>1, <3>1, <4>1, EarnedAppend
    <3>2. CASE ~(Len(a[k - 1]) < MaxCandidates /\ PassesShare(a[k - 1], r[k]))
      <4>1. a[k] = a[k - 1]
        BY <1>1, <3>2
      <4> QED
        BY <2>1, <3>2, <4>1, EarnedPasses
    <3> QED
      BY <3>1, <3>2
  <2> QED
    BY <1>2, <2>2
<1> HIDE DEF K
<1>5. \A k \in 0 .. Len(r) : k \in K
  BY <1>2, <1>3, <1>4, Along
<1>6. Len(r) \in K
  BY <1>2, <1>5
<1> QED
  BY <1>0, <1>1, <1>6 DEF K


--------------------------------------------------------------------------------
(* How long the pools get.                                                                  *)

LEMMA GrowsBy ==
  ASSUME NEW n \in Nat, NEW b \in Nat, NEW Row, NEW a \in [0 .. n -> Seq(Row)], a[0] = <<>>,
         \A k \in 1 .. n : Len(a[k]) <= Len(a[k - 1]) + b
  PROVE  Len(a[n]) <= n * b
<1> DEFINE K == {k \in 0 .. n : Len(a[k]) <= k * b}
<1>1. 0 \in K
  OBVIOUS
<1>2. ASSUME NEW k \in 1 .. n, k - 1 \in K PROVE k \in K
  <2>1. (k - 1) * b + b = k * b /\ (k - 1) * b \in Nat /\ k * b \in Nat
    OBVIOUS
  <2>2. a[k] \in Seq(Row) /\ a[k - 1] \in Seq(Row) /\ k - 1 \in 0 .. n /\ k \in 0 .. n
    OBVIOUS
  <2>3. Len(a[k - 1]) <= (k - 1) * b /\ Len(a[k]) <= Len(a[k - 1]) + b
    BY <1>2
  <2>4. Len(a[k]) \in Nat /\ Len(a[k - 1]) \in Nat
    BY <2>2
  <2> QED
    BY <2>1, <2>2, <2>3, <2>4
<1> HIDE DEF K
<1>3. \A k \in 0 .. n : k \in K
  BY <1>1, <1>2, Along
<1>4. n \in K
  BY <1>3
<1> QED
  BY <1>4 DEF K

LEMMA AddsOne ==
  ASSUME NEW Row, NEW s \in Seq(Row), NEW x \in Row
  PROVE  Len(s) <= Len(s) + 1 /\ Len(Append(s, x)) <= Len(s) + 1
  OBVIOUS

LEMMA Lengths ==
  ASSUME NEW Row, NEW s \in Seq(Row), NEW t \in Seq(Row)
  PROVE  /\ Len(s) \in Nat /\ Len(t) \in Nat
         /\ s \o t \in Seq(Row) /\ Len(s \o t) = Len(s) + Len(t)
  BY ConcatProperties

LEMMA TimesClimbs ==
  ASSUME NEW n \in Nat, NEW q \in Nat, n <= q, NEW p \in Nat
  PROVE  n * p \in Nat /\ q * p \in Nat /\ n * p <= q * p
<1> DEFINE d == q - n
<1>1. d \in Nat /\ q = n + d
  OBVIOUS
<1> HIDE DEF d
<1>2. n * p \in Nat /\ d * p \in Nat /\ (n + d) * p = n * p + d * p
  BY <1>1
<1> DEFINE np == n * p
           dp == d * p
           qp == q * p
<1>3. np \in Nat /\ dp \in Nat /\ qp = np + dp
  BY <1>1, <1>2
<1> HIDE DEF np, dp, qp
<1>4. np \in Nat /\ qp \in Nat /\ np <= qp
  BY <1>3
<1> QED
  BY <1>4 DEF np, qp

LEMMA DistinctShortens ==
  ASSUME NEW Row, NEW rows \in Seq(Row)
  PROVE  Distinct(rows) \in Distincts(Row) /\ Len(Distinct(rows)) <= Len(rows)
<1>0. /\ Distinct(rows) \in Distincts(Row)
      /\ \E a \in [0 .. Len(rows) -> Distincts(Row)] :
           /\ a[0] = <<>> /\ a[Len(rows)] = Distinct(rows)
           /\ \A k \in 1 .. Len(rows) :
                /\ a[k - 1] \in Distincts(Row)
                /\ a[k] = (IF Holds(a[k - 1], rows[k].listing)
                           THEN a[k - 1]
                           ELSE Append(a[k - 1], rows[k]))
  BY DistinctFolds
<1>1. PICK a \in [0 .. Len(rows) -> Distincts(Row)] :
           /\ a[0] = <<>> /\ a[Len(rows)] = Distinct(rows)
           /\ \A k \in 1 .. Len(rows) :
                /\ a[k - 1] \in Distincts(Row)
                /\ a[k] = (IF Holds(a[k - 1], rows[k].listing)
                           THEN a[k - 1]
                           ELSE Append(a[k - 1], rows[k]))
  BY <1>0
<1>2. Len(rows) \in Nat /\ a \in [0 .. Len(rows) -> Seq(Row)]
  BY DEF Distincts
<1>3. ASSUME NEW k \in 1 .. Len(rows) PROVE Len(a[k]) <= Len(a[k - 1]) + 1
  <2>1. a[k - 1] \in Seq(Row) /\ rows[k] \in Row
    BY <1>1 DEF Distincts
  <2> QED
    BY <1>1, <2>1, AddsOne
<1>4. Len(a[Len(rows)]) <= Len(rows) * 1
  BY <1>1, <1>2, <1>3, GrowsBy
<1> QED
  BY <1>0, <1>1, <1>2, <1>4

LEMMA NoPullsShortens ==
  ASSUME NEW Row, NEW rows \in Seq(Row)
  PROVE  NoPulls(rows) \in Seq(Row) /\ Len(NoPulls(rows)) <= Len(rows)
<1>0. /\ NoPulls(rows) \in Seq(Row)
      /\ \E a \in [0 .. Len(rows) -> Seq(Row)] :
           /\ a[0] = <<>> /\ a[Len(rows)] = NoPulls(rows)
           /\ \A k \in 1 .. Len(rows) :
                /\ a[k - 1] \in Seq(Row)
                /\ a[k] = (IF rows[k].flaw = "pull_request"
                           THEN a[k - 1]
                           ELSE Append(a[k - 1], rows[k]))
  BY NoPullsFolds
<1>1. PICK a \in [0 .. Len(rows) -> Seq(Row)] :
           /\ a[0] = <<>> /\ a[Len(rows)] = NoPulls(rows)
           /\ \A k \in 1 .. Len(rows) :
                /\ a[k - 1] \in Seq(Row)
                /\ a[k] = (IF rows[k].flaw = "pull_request"
                           THEN a[k - 1]
                           ELSE Append(a[k - 1], rows[k]))
  BY <1>0
<1>2. Len(rows) \in Nat
  OBVIOUS
<1>3. ASSUME NEW k \in 1 .. Len(rows) PROVE Len(a[k]) <= Len(a[k - 1]) + 1
  <2>1. a[k - 1] \in Seq(Row) /\ rows[k] \in Row
    BY <1>1
  <2> QED
    BY <1>1, <2>1, AddsOne
<1>4. Len(a[Len(rows)]) <= Len(rows) * 1
  BY <1>1, <1>2, <1>3, GrowsBy
<1> QED
  BY <1>0, <1>1, <1>2, <1>4

LEMMA FinalShortens ==
  ASSUME NEW Row, NEW rows \in Seq(Row), NEW kind
  PROVE  FinalGate(kind, rows) \in Seq(Row) /\ Len(FinalGate(kind, rows)) <= Len(rows)
<1>0. /\ Contained(rows) \in Seq(Row)
      /\ \E a \in [0 .. Len(rows) -> Seq(Row)] :
           /\ a[0] = <<>> /\ a[Len(rows)] = Contained(rows)
           /\ \A k \in 1 .. Len(rows) :
                /\ a[k - 1] \in Seq(Row)
                /\ a[k] = (IF rows[k].flaw = "exfiltrates"
                           THEN a[k - 1]
                           ELSE Append(a[k - 1], rows[k]))
  BY ContainedFolds
<1>1. PICK a \in [0 .. Len(rows) -> Seq(Row)] :
           /\ a[0] = <<>> /\ a[Len(rows)] = Contained(rows)
           /\ \A k \in 1 .. Len(rows) :
                /\ a[k - 1] \in Seq(Row)
                /\ a[k] = (IF rows[k].flaw = "exfiltrates"
                           THEN a[k - 1]
                           ELSE Append(a[k - 1], rows[k]))
  BY <1>0
<1>2. Len(rows) \in Nat
  OBVIOUS
<1>3. ASSUME NEW k \in 1 .. Len(rows) PROVE Len(a[k]) <= Len(a[k - 1]) + 1
  <2>1. a[k - 1] \in Seq(Row) /\ rows[k] \in Row
    BY <1>1
  <2> QED
    BY <1>1, <2>1, AddsOne
<1>4. Len(a[Len(rows)]) <= Len(rows) * 1
  BY <1>1, <1>2, <1>3, GrowsBy
<1>5. Len(Contained(rows)) <= Len(rows)
  BY <1>1, <1>2, <1>4
<1> QED
  BY <1>0, <1>2, <1>5 DEF FinalGate

LEMMA JoinedFits ==
  ASSUME NEW groups \in Seq(Seq(Issues)), \A k \in DOMAIN groups : Len(groups[k]) <= PerPage,
         Len(groups) <= Queries
  PROVE  Joined(groups) \in Seq(Issues) /\ Len(Joined(groups)) <= Queries * PerPage
<1>0. /\ Joined(groups) \in Seq(Issues)
      /\ \E a \in [0 .. Len(groups) -> Seq(Issues)] :
           /\ a[0] = <<>> /\ a[Len(groups)] = Joined(groups)
           /\ \A k \in 1 .. Len(groups) : a[k - 1] \in Seq(Issues) /\ a[k] = a[k - 1] \o groups[k]
  BY JoinedFolds
<1>1. PICK a \in [0 .. Len(groups) -> Seq(Issues)] :
           /\ a[0] = <<>> /\ a[Len(groups)] = Joined(groups)
           /\ \A k \in 1 .. Len(groups) : a[k - 1] \in Seq(Issues) /\ a[k] = a[k - 1] \o groups[k]
  BY <1>0
<1>2. Len(groups) \in Nat /\ PerPage \in Nat /\ Queries \in Nat
  BY ProspectAssumption
<1>3. ASSUME NEW k \in 1 .. Len(groups) PROVE Len(a[k]) <= Len(a[k - 1]) + PerPage
  <2>1. groups[k] \in Seq(Issues) /\ a[k - 1] \in Seq(Issues) /\ Len(groups[k]) <= PerPage
    <3>1. k \in DOMAIN groups
      OBVIOUS
    <3>2. groups[k] \in Seq(Issues) /\ Len(groups[k]) <= PerPage
      <4> DEFINE T == Seq(Issues)
      <4>1. groups \in Seq(T)
        OBVIOUS
      <4> HIDE DEF T
      <4>2. groups[k] \in T
        BY <4>1
      <4> QED
        BY <3>1, <4>2 DEF T
    <3> QED
      BY <1>1, <3>2
  <2>2. Len(a[k]) = Len(a[k - 1]) + Len(groups[k]) /\ Len(a[k - 1]) \in Nat /\ Len(groups[k]) \in Nat
    <3>1. a[k] = a[k - 1] \o groups[k]
      BY <1>1
    <3> QED
      BY <2>1, <3>1, Lengths
  <2> QED
    BY <1>2, <2>1, <2>2
<1>4. Len(a[Len(groups)]) <= Len(groups) * PerPage
  BY <1>1, <1>2, <1>3, GrowsBy
<1>5. /\ Len(groups) * PerPage <= Queries * PerPage
      /\ Len(groups) * PerPage \in Nat /\ Queries * PerPage \in Nat
  BY <1>2, TimesClimbs
<1> DEFINE np == Len(groups) * PerPage
           qp == Queries * PerPage
           joined == Joined(groups)
<1>6. Len(joined) <= np /\ np <= qp /\ np \in Nat /\ qp \in Nat /\ Len(joined) \in Nat
  BY <1>0, <1>1, <1>4, <1>5
<1> HIDE DEF np, qp, joined
<1>7. Len(joined) <= qp
  BY <1>6
<1> QED
  BY <1>0, <1>7 DEF qp, joined

LEMMA InTurnFits ==
  ASSUME NEW groups \in Seq(Seq(Issues)), Len(groups) <= Queries
  PROVE  InTurn(groups) \in Seq(Issues) /\ Len(InTurn(groups)) <= Queries * PerPage
<1>1. PerPage \in Nat /\ Queries \in Nat /\ Len(groups) \in Nat
  BY ProspectAssumption
<1>2. ASSUME NEW m \in 1 .. PerPage
      PROVE  Turn(groups, m) \in Seq(Issues) /\ Len(Turn(groups, m)) <= Queries
  <2>1. m \in Nat \ {0}
    OBVIOUS
  <2>2. /\ Turn(groups, m) \in Seq(Issues)
        /\ \E a \in [0 .. Len(groups) -> Seq(Issues)] :
             /\ a[0] = <<>> /\ a[Len(groups)] = Turn(groups, m)
             /\ \A k \in 1 .. Len(groups) :
                  /\ a[k - 1] \in Seq(Issues)
                  /\ a[k] = (IF m <= Len(groups[k])
                             THEN Append(a[k - 1], groups[k][m])
                             ELSE a[k - 1])
    BY <2>1, TurnFolds
  <2>3. PICK a \in [0 .. Len(groups) -> Seq(Issues)] :
             /\ a[0] = <<>> /\ a[Len(groups)] = Turn(groups, m)
             /\ \A k \in 1 .. Len(groups) :
                  /\ a[k - 1] \in Seq(Issues)
                  /\ a[k] = (IF m <= Len(groups[k])
                             THEN Append(a[k - 1], groups[k][m])
                             ELSE a[k - 1])
    BY <2>2
  <2>4. ASSUME NEW k \in 1 .. Len(groups) PROVE Len(a[k]) <= Len(a[k - 1]) + 1
    <3> DEFINE T == Seq(Issues)
    <3>1. groups \in Seq(T)
      OBVIOUS
    <3> HIDE DEF T
    <3>2. groups[k] \in T
      BY <3>1
    <3>3. a[k - 1] \in Seq(Issues) /\ (m <= Len(groups[k]) => groups[k][m] \in Issues)
      <4>1. groups[k] \in Seq(Issues)
        BY <3>2 DEF T
      <4> QED
        BY <2>1, <2>3, <4>1
    <3>4. CASE m <= Len(groups[k])
      <4>1. a[k] = Append(a[k - 1], groups[k][m])
        BY <2>3, <3>4
      <4> QED
        BY <3>3, <3>4, <4>1, AddsOne
    <3>5. CASE ~(m <= Len(groups[k]))
      <4>1. a[k] = a[k - 1]
        BY <2>3, <3>5
      <4> QED
        BY <3>3, <4>1
    <3> QED
      BY <3>4, <3>5
  <2>5. Len(a[Len(groups)]) <= Len(groups) * 1
    BY <1>1, <2>3, <2>4, GrowsBy
  <2> QED
    BY <1>1, <2>2, <2>3, <2>5
<1>3. /\ InTurn(groups) \in Seq(Issues)
      /\ \E a \in [0 .. Len(Turns) -> Seq(Issues)] :
           /\ a[0] = <<>> /\ a[Len(Turns)] = InTurn(groups)
           /\ \A k \in 1 .. Len(Turns) :
                a[k - 1] \in Seq(Issues) /\ a[k] = a[k - 1] \o Turn(groups, Turns[k])
  <2>1. \A m \in 1 .. PerPage : Turn(groups, m) \in Seq(Issues)
    BY <1>2
  <2>2. Turns \in Seq(1 .. PerPage)
    BY <1>1 DEF Turns
  <2> QED
    BY <1>1, <2>1, <2>2, InTurnFolds
<1>4. Len(Turns) = PerPage /\ \A k \in 1 .. PerPage : Turns[k] = k
  BY <1>1 DEF Turns
<1>9. PICK a \in [0 .. Len(Turns) -> Seq(Issues)] :
           /\ a[0] = <<>> /\ a[Len(Turns)] = InTurn(groups)
           /\ \A k \in 1 .. Len(Turns) :
                a[k - 1] \in Seq(Issues) /\ a[k] = a[k - 1] \o Turn(groups, Turns[k])
  BY <1>3
<1>5. /\ a \in [0 .. PerPage -> Seq(Issues)] /\ a[0] = <<>> /\ a[PerPage] = InTurn(groups)
      /\ \A k \in 1 .. PerPage : a[k - 1] \in Seq(Issues) /\ a[k] = a[k - 1] \o Turn(groups, k)
  BY <1>4, <1>9
<1>6. ASSUME NEW k \in 1 .. PerPage PROVE Len(a[k]) <= Len(a[k - 1]) + Queries
  <2>1. Turn(groups, k) \in Seq(Issues) /\ a[k - 1] \in Seq(Issues) /\ Len(Turn(groups, k)) <= Queries
    BY <1>2, <1>5
  <2>2. a[k] = a[k - 1] \o Turn(groups, k)
    BY <1>5
  <2>3. /\ Len(a[k - 1]) \in Nat /\ Len(Turn(groups, k)) \in Nat
        /\ Len(a[k]) = Len(a[k - 1]) + Len(Turn(groups, k))
    BY <2>1, <2>2, Lengths
  <2> QED
    BY <1>1, <2>1, <2>2, <2>3
<1>7. Len(a[PerPage]) <= PerPage * Queries
  BY <1>1, <1>5, <1>6, GrowsBy
<1>8. PerPage * Queries = Queries * PerPage
  BY <1>1
<1> QED
  BY <1>3, <1>5, <1>7, <1>8

LEMMA UpToShortens ==
  ASSUME NEW Row, NEW rows \in Seq(Row), NEW n \in Nat
  PROVE  /\ UpTo(rows, n) \in Seq(Row) /\ Len(UpTo(rows, n)) <= Len(rows) /\ Len(UpTo(rows, n)) <= n
         /\ \A k \in DOMAIN UpTo(rows, n) : k \in DOMAIN rows /\ UpTo(rows, n)[k] = rows[k]
  BY DEF UpTo

(* A pool holds no issue twice, and no more than the searches returned.                       *)
LEMMA PoolsFit ==
  ASSUME NEW groups \in Seq(Seq(Issues)), \A k \in DOMAIN groups : Len(groups[k]) <= PerPage,
         Len(groups) <= Queries,
         NEW pool \in {InOrder(groups), AllInOrder(groups), RoundRobinPool(groups)}
  PROVE  pool \in Seq(Issues) /\ Apart(pool) /\ Len(pool) <= Queries * PerPage
<1> DEFINE rows == Joined(groups)
           turned == InTurn(groups)
           most == Queries * PerPage
<1>1. MaxInspected \in Nat /\ most \in Nat
  BY ProspectAssumption
<1>2. /\ rows \in Seq(Issues) /\ Len(rows) <= most
      /\ turned \in Seq(Issues) /\ Len(turned) <= most
  BY JoinedFits, InTurnFits
<1> HIDE DEF most, rows, turned
<1>3. ASSUME NEW s \in Seq(Issues), Len(s) <= most
      PROVE  Distinct(s) \in Seq(Issues) /\ Apart(Distinct(s)) /\ Len(Distinct(s)) <= most
  <2>1. Distinct(s) \in Distincts(Issues) /\ Len(Distinct(s)) <= Len(s)
    BY DistinctShortens
  <2>2. Distinct(s) \in Seq(Issues) /\ Len(Distinct(s)) \in Nat /\ Len(s) \in Nat
    BY <2>1 DEF Distincts
  <2> QED
    BY <1>1, <1>3, <2>1, <2>2 DEF Distincts
<1>4. ASSUME NEW s \in Seq(Issues), Len(s) <= most
      PROVE  LET p == UpTo(Distinct(NoPulls(s)), MaxInspected)
             IN  p \in Seq(Issues) /\ Apart(p) /\ Len(p) <= most
  <2> DEFINE t == NoPulls(s)
             d == Distinct(t)
             p == UpTo(d, MaxInspected)
  <2>1. t \in Seq(Issues) /\ Len(t) <= Len(s)
    BY NoPullsShortens
  <2>2. Len(t) <= most
    <3>1. Len(t) \in Nat /\ Len(s) \in Nat
      BY <2>1
    <3> QED
      BY <1>1, <1>4, <2>1, <3>1
  <2> HIDE DEF t
  <2>3. d \in Seq(Issues) /\ Apart(d) /\ Len(d) <= most
    BY <1>3, <2>1, <2>2
  <2> HIDE DEF d
  <2>4. p \in Seq(Issues) /\ Len(p) <= Len(d) /\ \A k \in DOMAIN p : k \in DOMAIN d /\ p[k] = d[k]
    BY <1>1, <2>3, UpToShortens
  <2> HIDE DEF p
  <2>5. Apart(p)
    BY <2>3, <2>4 DEF Apart
  <2>6. Len(p) <= most
    <3>1. Len(p) \in Nat /\ Len(d) \in Nat
      BY <2>3, <2>4
    <3> QED
      BY <1>1, <2>3, <2>4, <3>1
  <2> QED
    BY <2>4, <2>5, <2>6 DEF p, d, t
<1>5. CASE pool = InOrder(groups)
  BY <1>2, <1>4, <1>5 DEF InOrder, rows, most
<1>6. CASE pool = AllInOrder(groups)
  BY <1>2, <1>3, <1>6 DEF AllInOrder, rows, most
<1>7. CASE pool = RoundRobinPool(groups)
  BY <1>2, <1>4, <1>7 DEF RoundRobinPool, turned, most
<1> QED
  BY <1>5, <1>6, <1>7

--------------------------------------------------------------------------------
(* The state of a scan: no issue is twice in the pool or among the qualified, and none is both;   *)
(* what a finished scan has written is what it chose.                                       *)

Registries == [candidates : Seq(Issues), backlog : Seq(Issues)]
Prospects ==
  [kind : Kinds, phase : {"idle", "search", "inspect", "done"}, groups : Seq(Seq(Issues)),
   pool : Seq(Issues), seen : [Repositories -> Standings \cup {"unread"}],
   qualified : Seq(Issues), backlog : Seq(Issues), rejected : SUBSET Issues]

GroupsFit(p) ==
  /\ Len(p.groups) <= Queries
  /\ \A k \in DOMAIN p.groups : Len(p.groups[k]) <= PerPage
PoolFits(p) ==
  /\ Len(p.pool) <= Queries * PerPage
  /\ Apart(p.pool) /\ Apart(p.qualified)
  /\ \A x \in DOMAIN p.pool, y \in DOMAIN p.qualified : p.pool[x].listing # p.qualified[y].listing
  /\ p.phase \in {"idle", "search"} => p.qualified = <<>>
WrittenFits(p, c) ==
  p.phase = "done" /\ p.kind # "narrow" =>
    c.candidates = FinalGate(p.kind, Shared(Ranking(p.kind, p.qualified)))
RegistryFits(c) == c \in Registries /\ Len(c.candidates) <= MaxCandidates
ProspectInv ==
  /\ prospect \in Prospects /\ GroupsFit(prospect) /\ PoolFits(prospect)
  /\ WrittenFits(prospect, candidates)
  /\ standing \in [Repositories -> Standings]
  /\ RegistryFits(candidates) /\ RegistryFits(firestore)
  /\ scans \in 0 .. MaxScans

LEMMA EmptyFits ==
  ASSUME NEW kind \in Kinds
  PROVE  /\ NoProspect(kind) \in Prospects /\ GroupsFit(NoProspect(kind)) /\ PoolFits(NoProspect(kind))
         /\ NoProspect(kind).phase = "idle" /\ RegistryFits(NoRegistry)
<1>1. Queries * PerPage \in Nat /\ Queries \in Nat /\ MaxCandidates \in Nat
  BY ProspectAssumption
<1>2. NoProspect(kind) \in Prospects
  BY DEF NoProspect, Prospects
<1>3. GroupsFit(NoProspect(kind))
  BY <1>1 DEF NoProspect, GroupsFit
<1>4. PoolFits(NoProspect(kind))
  <2> DEFINE most == Queries * PerPage
  <2>1. 0 <= most
    BY <1>1
  <2> HIDE DEF most
  <2>2. Len(NoProspect(kind).pool) <= most
    BY <2>1 DEF NoProspect
  <2> QED
    BY <2>2 DEF NoProspect, PoolFits, Apart, most
<1>5. RegistryFits(NoRegistry)
  BY <1>1 DEF RegistryFits, NoRegistry, Registries
<1> QED
  BY <1>2, <1>3, <1>4, <1>5 DEF NoProspect

LEMMA StartScanFits == ProspectInv /\ StartScan => ProspectInv'
<1> SUFFICES ASSUME ProspectInv, StartScan PROVE ProspectInv'
  OBVIOUS
<1> DEFINE none == NoProspect(prospect.kind)
           new == [none EXCEPT !.phase = "search"]
<1>1. none \in Prospects /\ GroupsFit(none) /\ PoolFits(none) /\ none.qualified = <<>>
  <2>1. prospect.kind \in Kinds
    BY DEF ProspectInv, Prospects
  <2> QED
    BY <2>1, EmptyFits DEF NoProspect
<1> HIDE DEF none
<1>2. /\ new \in Prospects /\ new.groups = none.groups /\ new.pool = none.pool
      /\ new.qualified = <<>> /\ none.qualified = <<>> /\ new.phase = "search"
  BY <1>1 DEF Prospects
<1> HIDE DEF new
<1>3. prospect' = new
  BY DEF StartScan, new, none
<1>4. GroupsFit(new) /\ PoolFits(new)
  BY <1>1, <1>2 DEF GroupsFit, PoolFits
<1>5. scans' \in 0 .. MaxScans
  BY ProspectAssumption DEF ProspectInv, StartScan
<1>6. WrittenFits(new, candidates')
  BY <1>2 DEF WrittenFits
<1> QED
  BY <1>2, <1>3, <1>4, <1>5, <1>6 DEF ProspectInv, StartScan

LEMMA SearchIssuesFits == ProspectInv /\ SearchIssues => ProspectInv'
<1> SUFFICES ASSUME ProspectInv, SearchIssues PROVE ProspectInv'
  OBVIOUS
<1>0. prospect \in Prospects /\ GroupsFit(prospect) /\ PoolFits(prospect)
  BY DEF ProspectInv
<1>1. PICK n \in 0 .. PerPage : \E page \in [1 .. n -> Issues] :
        prospect' = [prospect EXCEPT !.groups = Append(@, page)]
  BY DEF SearchIssues
<1>2. PICK page \in [1 .. n -> Issues] : prospect' = [prospect EXCEPT !.groups = Append(@, page)]
  BY <1>1
<1>3. page \in Seq(Issues) /\ Len(page) <= PerPage
  BY <1>2, ProspectAssumption
<1> DEFINE Pages == Seq(Issues)
           old == prospect.groups
           new == Append(old, page)
<1>4. old \in Seq(Pages) /\ page \in Pages
  BY <1>0, <1>3 DEF Prospects
<1> HIDE DEF Pages, old
<1>5. new \in Seq(Pages) /\ Len(new) <= Queries /\ \A k \in DOMAIN new : Len(new[k]) <= PerPage
  <2>1. new \in Seq(Pages) /\ Len(new) = Len(old) + 1 /\ Len(old) \in Nat
    BY <1>4
  <2>2. Len(old) < Queries /\ \A k \in DOMAIN old : Len(old[k]) <= PerPage
    BY <1>0 DEF SearchIssues, GroupsFit, old
  <2>3. \A k \in DOMAIN new : new[k] = page \/ (k \in DOMAIN old /\ new[k] = old[k])
    BY <1>4
  <2>4. Len(new) <= Queries
    BY <2>1, <2>2, ProspectAssumption
  <2> QED
    BY <1>3, <2>1, <2>2, <2>3, <2>4
<1> HIDE DEF new
<1>6. prospect' = [prospect EXCEPT !.groups = new]
  BY <1>2 DEF new, old
<1>7. /\ prospect' \in Prospects /\ prospect'.groups = new /\ prospect'.pool = prospect.pool
      /\ prospect'.qualified = prospect.qualified /\ prospect'.phase = "search" /\ prospect.phase = "search"
  BY <1>0, <1>5, <1>6 DEF Prospects, SearchIssues, Pages
<1>8. GroupsFit(prospect') /\ PoolFits(prospect')
  BY <1>0, <1>5, <1>7 DEF GroupsFit, PoolFits
<1>9. WrittenFits(prospect', candidates')
  BY <1>7 DEF WrittenFits
<1> QED
  BY <1>7, <1>8, <1>9 DEF ProspectInv, SearchIssues

LEMMA BuildPoolFits == ProspectInv /\ BuildPool => ProspectInv'
<1> SUFFICES ASSUME ProspectInv, BuildPool PROVE ProspectInv'
  OBVIOUS
<1>0. /\ prospect \in Prospects /\ GroupsFit(prospect) /\ PoolFits(prospect)
      /\ prospect.phase = "search" /\ prospect.qualified = <<>>
  BY DEF ProspectInv, BuildPool, PoolFits
<1> DEFINE gs == prospect.groups
<1>1. PICK pool \in {InOrder(gs), AllInOrder(gs), RoundRobinPool(gs)} :
        prospect' = [prospect EXCEPT !.phase = "inspect", !.groups = <<>>, !.pool = pool]
  BY DEF BuildPool
<1>2. pool \in Seq(Issues) /\ Apart(pool) /\ Len(pool) <= Queries * PerPage
  <2>1. /\ gs \in Seq(Seq(Issues)) /\ Len(gs) <= Queries
        /\ \A k \in DOMAIN gs : Len(gs[k]) <= PerPage
    BY <1>0 DEF Prospects, GroupsFit
  <2> HIDE DEF gs
  <2> QED
    BY <1>1, <2>1, PoolsFit
<1>3. /\ prospect' \in Prospects /\ prospect'.groups = <<>> /\ prospect'.pool = pool
      /\ prospect'.qualified = <<>> /\ prospect'.phase = "inspect"
  <2>1. <<>> \in Seq(Seq(Issues))
    OBVIOUS
  <2> HIDE DEF gs
  <2> QED
    BY <1>0, <1>1, <1>2, <2>1 DEF Prospects
<1>4. GroupsFit(prospect')
  BY <1>3, ProspectAssumption DEF GroupsFit
<1>5. PoolFits(prospect')
  BY <1>2, <1>3 DEF PoolFits, Apart
<1>6. WrittenFits(prospect', candidates')
  BY <1>3 DEF WrittenFits
<1> QED
  BY <1>3, <1>4, <1>5, <1>6 DEF ProspectInv, BuildPool

LEMMA InspectFits == ProspectInv /\ Inspect => ProspectInv'
<1> SUFFICES ASSUME ProspectInv, Inspect PROVE ProspectInv'
  OBVIOUS
<1>0. /\ prospect \in Prospects /\ GroupsFit(prospect) /\ PoolFits(prospect)
      /\ prospect.phase = "inspect" /\ prospect.pool # <<>>
      /\ standing \in [Repositories -> Standings]
  BY DEF ProspectInv, Inspect
<1> DEFINE i == Head(prospect.pool)
           rest == Tail(prospect.pool)
           most == Queries * PerPage
<1>1. prospect.pool \in Seq(Issues) /\ prospect.qualified \in Seq(Issues) /\ prospect.backlog \in Seq(Issues)
  BY <1>0 DEF Prospects
<1>2. /\ i \in Issues /\ rest \in Seq(Issues) /\ i = prospect.pool[1] /\ 1 \in DOMAIN prospect.pool
      /\ \A x \in DOMAIN rest : x + 1 \in DOMAIN prospect.pool /\ x + 1 # 1 /\ rest[x] = prospect.pool[x + 1]
      /\ Len(rest) <= Len(prospect.pool)
  BY <1>0, <1>1
<1>3. i.repository \in Repositories /\ i \in Issues
  BY <1>2 DEF Repositories
<1>4. Len(rest) <= most
  <2>1. most \in Nat /\ Len(rest) \in Nat /\ Len(prospect.pool) \in Nat
    BY <1>1, <1>2, ProspectAssumption
  <2>2. Len(prospect.pool) <= most
    BY <1>0 DEF PoolFits
  <2> HIDE DEF rest, most
  <2> QED
    BY <1>2, <2>1, <2>2
<1>5. /\ Apart(rest) /\ \A x \in DOMAIN rest : rest[x].listing # i.listing
      /\ \A x \in DOMAIN rest, y \in DOMAIN prospect.qualified :
           rest[x].listing # prospect.qualified[y].listing
      /\ \A y \in DOMAIN prospect.qualified : prospect.qualified[y].listing # i.listing
  <2>1. /\ \A x, y \in DOMAIN prospect.pool :
             prospect.pool[x].listing = prospect.pool[y].listing => x = y
        /\ \A x \in DOMAIN prospect.pool, y \in DOMAIN prospect.qualified :
             prospect.pool[x].listing # prospect.qualified[y].listing
    BY <1>0 DEF PoolFits, Apart
  <2>2. DOMAIN rest \subseteq Nat
    BY <1>2
  <2> HIDE DEF i, rest
  <2>3. Apart(rest)
    <3> SUFFICES ASSUME NEW x \in DOMAIN rest, NEW y \in DOMAIN rest, rest[x].listing = rest[y].listing
                 PROVE  x = y
      BY DEF Apart
    <3>1. x + 1 = y + 1
      BY <1>2, <2>1
    <3> QED
      BY <2>2, <3>1
  <2>4. \A x \in DOMAIN rest : rest[x].listing # i.listing
    BY <1>2, <2>1
  <2> QED
    BY <1>2, <2>1, <2>3, <2>4
<1> HIDE DEF i, rest, most
<1>6. ASSUME NEW q \in {prospect.qualified, Append(prospect.qualified, i)}
      PROVE  /\ q \in Seq(Issues) /\ Apart(q)
             /\ \A x \in DOMAIN rest, y \in DOMAIN q : rest[x].listing # q[y].listing
  <2>1. CASE q = prospect.qualified
    BY <1>0, <1>1, <1>5, <2>1 DEF PoolFits
  <2>2. CASE q = Append(prospect.qualified, i)
    <3>0. ~Holds(prospect.qualified, i.listing)
      BY <1>5 DEF Holds
    <3>1. q \in Distincts(Issues)
      <4>1. prospect.qualified \in Distincts(Issues)
        BY <1>0, <1>1 DEF PoolFits, Distincts
      <4> QED
        BY <1>3, <2>2, <3>0, <4>1, DistinctGrows
    <3>2. \A y \in DOMAIN q : q[y] = i \/ (y \in DOMAIN prospect.qualified /\ q[y] = prospect.qualified[y])
      BY <1>1, <2>2
    <3> QED
      BY <1>5, <3>1, <3>2 DEF Distincts
  <2> QED
    BY <2>1, <2>2
<1>7. PICK q \in {prospect.qualified, Append(prospect.qualified, i)},
           b \in {prospect.backlog, Append(prospect.backlog, i)},
           rej \in {prospect.rejected, prospect.rejected \cup {i}},
           seen \in [Repositories -> Standings \cup {"unread"}] :
        prospect' = [prospect EXCEPT !.pool = rest, !.qualified = q, !.backlog = b,
                                     !.rejected = rej, !.seen = seen]
  <2>1. prospect.seen \in [Repositories -> Standings \cup {"unread"}]
    BY <1>0 DEF Prospects
  <2>2. prospect = [prospect EXCEPT !.seen = prospect.seen, !.qualified = prospect.qualified,
                      !.backlog = prospect.backlog, !.rejected = prospect.rejected]
    BY <1>0 DEF Prospects
  <2>3. CASE prospect' = [prospect EXCEPT !.pool = rest, !.rejected = @ \cup {i}]
    <3>1. prospect' = [prospect EXCEPT !.pool = rest, !.qualified = prospect.qualified,
                        !.backlog = prospect.backlog, !.rejected = prospect.rejected \cup {i},
                        !.seen = prospect.seen]
      BY <1>0, <2>3 DEF Prospects
    <3> QED
      BY <2>1, <3>1
  <2>4. ASSUME NEW reading \in Standings,
               LET read == [prospect EXCEPT !.pool = rest, !.seen[i.repository] = reading]
               IN  \/ prospect' = [read EXCEPT !.rejected = @ \cup {i}]
                   \/ prospect' = [read EXCEPT !.qualified = Append(@, i)]
                   \/ prospect' = [read EXCEPT !.backlog = Append(@, i)]
        PROVE  \E q \in {prospect.qualified, Append(prospect.qualified, i)},
                  b \in {prospect.backlog, Append(prospect.backlog, i)},
                  rej \in {prospect.rejected, prospect.rejected \cup {i}},
                  seen \in [Repositories -> Standings \cup {"unread"}] :
                 prospect' = [prospect EXCEPT !.pool = rest, !.qualified = q, !.backlog = b,
                                     !.rejected = rej, !.seen = seen]
    <3> DEFINE seen == [prospect.seen EXCEPT ![i.repository] = reading]
    <3>1. seen \in [Repositories -> Standings \cup {"unread"}]
      BY <2>1
    <3>2. [prospect EXCEPT !.pool = rest, !.seen[i.repository] = reading]
            = [prospect EXCEPT !.pool = rest, !.seen = seen]
      BY <1>0 DEF Prospects
    <3> HIDE DEF seen
    <3>3. CASE prospect' = [prospect EXCEPT !.pool = rest, !.qualified = prospect.qualified,
                        !.backlog = prospect.backlog, !.rejected = prospect.rejected \cup {i}, !.seen = seen]
      BY <3>1, <3>3
    <3>4. CASE prospect' = [prospect EXCEPT !.pool = rest, !.qualified = Append(prospect.qualified, i),
                        !.backlog = prospect.backlog, !.rejected = prospect.rejected, !.seen = seen]
      BY <3>1, <3>4
    <3>5. CASE prospect' = [prospect EXCEPT !.pool = rest, !.qualified = prospect.qualified,
                        !.backlog = Append(prospect.backlog, i), !.rejected = prospect.rejected, !.seen = seen]
      BY <3>1, <3>5
    <3>6. \/ prospect' = [prospect EXCEPT !.pool = rest, !.qualified = prospect.qualified,
                        !.backlog = prospect.backlog, !.rejected = prospect.rejected \cup {i}, !.seen = seen]
          \/ prospect' = [prospect EXCEPT !.pool = rest, !.qualified = Append(prospect.qualified, i),
                        !.backlog = prospect.backlog, !.rejected = prospect.rejected, !.seen = seen]
          \/ prospect' = [prospect EXCEPT !.pool = rest, !.qualified = prospect.qualified,
                        !.backlog = Append(prospect.backlog, i), !.rejected = prospect.rejected, !.seen = seen]
      <4> DEFINE read == [prospect EXCEPT !.pool = rest, !.seen = seen]
      <4>1. /\ read.rejected = prospect.rejected /\ read.qualified = prospect.qualified
            /\ read.backlog = prospect.backlog
        BY <1>0 DEF Prospects
      <4>2. \/ prospect' = [read EXCEPT !.rejected = prospect.rejected \cup {i}]
            \/ prospect' = [read EXCEPT !.qualified = Append(prospect.qualified, i)]
            \/ prospect' = [read EXCEPT !.backlog = Append(prospect.backlog, i)]
        BY <2>4, <3>2, <4>1
      <4>3. /\ [read EXCEPT !.rejected = prospect.rejected \cup {i}]
                 = [prospect EXCEPT !.pool = rest, !.qualified = prospect.qualified,
                     !.backlog = prospect.backlog, !.rejected = prospect.rejected \cup {i}, !.seen = seen]
            /\ [read EXCEPT !.qualified = Append(prospect.qualified, i)]
                 = [prospect EXCEPT !.pool = rest, !.qualified = Append(prospect.qualified, i),
                     !.backlog = prospect.backlog, !.rejected = prospect.rejected, !.seen = seen]
            /\ [read EXCEPT !.backlog = Append(prospect.backlog, i)]
                 = [prospect EXCEPT !.pool = rest, !.qualified = prospect.qualified,
                     !.backlog = Append(prospect.backlog, i), !.rejected = prospect.rejected, !.seen = seen]
        BY <1>0 DEF Prospects
      <4> QED
        BY <4>2, <4>3
    <3> QED
      BY <3>3, <3>4, <3>5, <3>6
  <2>5. \/ prospect' = [prospect EXCEPT !.pool = rest, !.rejected = @ \cup {i}]
        \/ \E reading \in Standings :
             LET read == [prospect EXCEPT !.pool = rest, !.seen[i.repository] = reading]
             IN  \/ prospect' = [read EXCEPT !.rejected = @ \cup {i}]
                 \/ prospect' = [read EXCEPT !.qualified = Append(@, i)]
                 \/ prospect' = [read EXCEPT !.backlog = Append(@, i)]
    BY Zenon DEF Inspect, FetchFails, i, rest
  <2> QED
    BY <2>3, <2>4, <2>5
<1>8. /\ prospect' \in Prospects /\ prospect'.groups = prospect.groups /\ prospect'.pool = rest
      /\ prospect'.qualified = q /\ prospect'.phase = "inspect"
  <2>1. q \in Seq(Issues) /\ b \in Seq(Issues) /\ rej \subseteq Issues /\ rest \in Seq(Issues)
    <3>1. Append(prospect.backlog, i) \in Seq(Issues) /\ prospect.backlog \in Seq(Issues)
      BY <1>1, <1>3
    <3>2. prospect.rejected \subseteq Issues
      BY <1>0 DEF Prospects
    <3> QED
      BY <1>2, <1>3, <1>6, <1>7, <3>1, <3>2
  <2> QED
    BY <1>0, <1>7, <2>1 DEF Prospects
<1>9. GroupsFit(prospect')
  BY <1>0, <1>8 DEF GroupsFit
<1>10. PoolFits(prospect')
  <2>1. q \in Seq(Issues) /\ Apart(q) /\ \A x \in DOMAIN rest, y \in DOMAIN q : rest[x].listing # q[y].listing
    BY <1>6, <1>7
  <2> QED
    BY <1>4, <1>5, <1>8, <2>1 DEF PoolFits, most
<1>11. WrittenFits(prospect', candidates')
  BY <1>8 DEF WrittenFits
<1> QED
  BY <1>8, <1>9, <1>10, <1>11 DEF ProspectInv, Inspect

LEMMA ChosenFits ==
  ASSUME NEW kind, NEW rows \in Seq(Issues)
  PROVE  Chosen(kind, rows) \in Seq(Issues) /\ Len(Chosen(kind, rows)) <= MaxCandidates
<1> DEFINE r == Ranking(kind, rows)
<1>1. r \in Seq(Issues) /\ MaxCandidates \in Nat
  BY RankingRanks, ProspectAssumption
<1> HIDE DEF r
<1>2. UpTo(r, MaxCandidates) \in Seq(Issues) /\ Len(UpTo(r, MaxCandidates)) <= MaxCandidates
  BY <1>1, UpToShortens
<1>3. Shared(r) \in Seq(Issues) /\ Len(Shared(r)) <= MaxCandidates
  BY <1>1, SharedFolds DEF Shares
<1> QED
  BY <1>2, <1>3 DEF Chosen, Cap, r

(* The final gate takes out the rows that it refuses, and no other.                          *)
Keeps(kept, rows, k) ==
  /\ \A x \in DOMAIN kept : \E y \in 1 .. k : kept[x] = rows[y]
  /\ \A y \in 1 .. k : rows[y].flaw = "exfiltrates" \/ \E x \in DOMAIN kept : kept[x] = rows[y]

LEMMA KeepsOne ==
  ASSUME NEW Row, NEW rows \in Seq(Row), NEW k \in 1 .. Len(rows), NEW kept \in Seq(Row),
         Keeps(kept, rows, k - 1)
  PROVE  /\ rows[k].flaw = "exfiltrates" => Keeps(kept, rows, k)
         /\ Keeps(Append(kept, rows[k]), rows, k)
<1> DEFINE new == Append(kept, rows[k])
           m == Len(kept) + 1
<1>0. /\ 1 .. (k - 1) \subseteq 1 .. k /\ k \in 1 .. k
      /\ \A y \in 1 .. k : y = k \/ y \in 1 .. (k - 1)
  OBVIOUS
<1>1. /\ \A x \in DOMAIN kept : x \in DOMAIN new /\ new[x] = kept[x]
      /\ m \in DOMAIN new /\ new[m] = rows[k]
      /\ \A x \in DOMAIN new : x = m \/ x \in DOMAIN kept
  OBVIOUS
<1> HIDE DEF new, m
<1>2. rows[k].flaw = "exfiltrates" => Keeps(kept, rows, k)
  BY <1>0 DEF Keeps
<1>3. Keeps(new, rows, k)
  BY <1>0, <1>1 DEF Keeps
<1> QED
  BY <1>2, <1>3 DEF new

LEMMA ContainedKeeps ==
  ASSUME NEW Row, NEW rows \in Seq(Row)
  PROVE  Contained(rows) \in Seq(Row) /\ Keeps(Contained(rows), rows, Len(rows))
<1>0. /\ Contained(rows) \in Seq(Row)
      /\ \E a \in [0 .. Len(rows) -> Seq(Row)] :
           /\ a[0] = <<>> /\ a[Len(rows)] = Contained(rows)
           /\ \A k \in 1 .. Len(rows) :
                /\ a[k - 1] \in Seq(Row)
                /\ a[k] = (IF rows[k].flaw = "exfiltrates"
                           THEN a[k - 1]
                           ELSE Append(a[k - 1], rows[k]))
  BY ContainedFolds
<1>1. PICK a \in [0 .. Len(rows) -> Seq(Row)] :
           /\ a[0] = <<>> /\ a[Len(rows)] = Contained(rows)
           /\ \A k \in 1 .. Len(rows) :
                /\ a[k - 1] \in Seq(Row)
                /\ a[k] = (IF rows[k].flaw = "exfiltrates"
                           THEN a[k - 1]
                           ELSE Append(a[k - 1], rows[k]))
  BY <1>0
<1> DEFINE K == {k \in 0 .. Len(rows) : Keeps(a[k], rows, k)}
<1>2. Len(rows) \in Nat
  OBVIOUS
<1>3. 0 \in K
  BY <1>1, <1>2 DEF Keeps
<1>4. ASSUME NEW k \in 1 .. Len(rows), k - 1 \in K PROVE k \in K
  <2>1. Keeps(a[k - 1], rows, k - 1) /\ a[k - 1] \in Seq(Row)
    BY <1>1, <1>4
  <2>2. /\ rows[k].flaw = "exfiltrates" => Keeps(a[k - 1], rows, k)
        /\ Keeps(Append(a[k - 1], rows[k]), rows, k)
    BY <2>1, KeepsOne
  <2>3. Keeps(a[k], rows, k)
    BY <1>1, <2>2
  <2> QED
    BY <1>2, <2>3
<1> HIDE DEF K
<1>5. \A k \in 0 .. Len(rows) : k \in K
  BY <1>2, <1>3, <1>4, Along
<1>6. Len(rows) \in K
  BY <1>2, <1>5
<1> QED
  BY <1>0, <1>1, <1>6 DEF K

LEMMA FinalGateKeeps ==
  ASSUME NEW kind, NEW rows \in Seq(Issues)
  PROVE  /\ Range(FinalGate(kind, rows)) \subseteq Range(rows)
         /\ \A i \in Range(rows) \ Range(FinalGate(kind, rows)) :
              kind = "final" /\ i.flaw = "exfiltrates"
<1>1. Contained(rows) \in Seq(Issues) /\ Keeps(Contained(rows), rows, Len(rows))
  BY ContainedKeeps
<1>2. DOMAIN rows = 1 .. Len(rows)
  OBVIOUS
<1>3. CASE kind = "final"
  <2>1. FinalGate(kind, rows) = Contained(rows)
    BY <1>3 DEF FinalGate
  <2>2. /\ \A x \in DOMAIN Contained(rows) : \E y \in DOMAIN rows : Contained(rows)[x] = rows[y]
        /\ \A y \in DOMAIN rows :
             rows[y].flaw = "exfiltrates" \/ \E x \in DOMAIN Contained(rows) : Contained(rows)[x] = rows[y]
    BY <1>1, <1>2 DEF Keeps
  <2> QED
    BY <1>3, <2>1, <2>2 DEF Range
<1>4. CASE kind # "final"
  BY <1>4 DEF FinalGate
<1> QED
  BY <1>3, <1>4

LEMMA WriteRegistryFits == ProspectInv /\ WriteRegistry => ProspectInv'
<1> SUFFICES ASSUME ProspectInv, WriteRegistry PROVE ProspectInv'
  OBVIOUS
<1>0. /\ prospect \in Prospects /\ GroupsFit(prospect) /\ PoolFits(prospect) /\ prospect.phase = "inspect"
      /\ RegistryFits(candidates) /\ RegistryFits(firestore)
  BY DEF ProspectInv, WriteRegistry
<1> DEFINE kind == prospect.kind
           chosen == Chosen(kind, prospect.qualified)
           later == Chosen(kind, prospect.backlog)
           new == [candidates |-> FinalGate(kind, chosen),
                   backlog |-> IF kind = "promoter" THEN UpTo(Ranking("hint", prospect.backlog), MaxBacklog)
                               ELSE FinalGate(kind, later)]
<1>1. prospect.qualified \in Seq(Issues) /\ prospect.backlog \in Seq(Issues)
  BY <1>0 DEF Prospects
<1>2. chosen \in Seq(Issues) /\ Len(chosen) <= MaxCandidates /\ later \in Seq(Issues)
  BY <1>1, ChosenFits
<1>3. UpTo(Ranking("hint", prospect.backlog), MaxBacklog) \in Seq(Issues)
  <2>1. Ranking("hint", prospect.backlog) \in Seq(Issues) /\ MaxBacklog \in Nat
    BY <1>1, RankingRanks, ProspectAssumption
  <2> QED
    BY <2>1, UpToShortens
<1>4. kind # "narrow" => chosen = Shared(Ranking(kind, prospect.qualified))
  BY DEF Chosen, Cap
<1>5. candidates' = new /\ firestore' \in {firestore, new} /\ prospect' = [prospect EXCEPT !.phase = "done"]
  BY DEF WriteRegistry
<1> HIDE DEF chosen, later
<1>6. FinalGate(kind, chosen) \in Seq(Issues) /\ Len(FinalGate(kind, chosen)) <= Len(chosen)
  BY <1>2, FinalShortens
<1>7. FinalGate(kind, later) \in Seq(Issues)
  BY <1>2, FinalShortens
<1>8. Len(FinalGate(kind, chosen)) <= MaxCandidates
  <2>1. Len(FinalGate(kind, chosen)) \in Nat /\ Len(chosen) \in Nat /\ MaxCandidates \in Nat
    BY <1>2, <1>6, ProspectAssumption
  <2> QED
    BY <1>2, <1>6, <2>1
<1>9. RegistryFits(new)
  BY <1>3, <1>6, <1>7, <1>8 DEF RegistryFits, Registries
<1>10. kind # "narrow" =>
         new.candidates = FinalGate(kind, Shared(Ranking(kind, prospect.qualified)))
  BY <1>4
<1> HIDE DEF new
<1>11. /\ prospect' \in Prospects /\ prospect'.groups = prospect.groups /\ prospect'.pool = prospect.pool
       /\ prospect'.qualified = prospect.qualified /\ prospect'.phase = "done" /\ prospect'.kind = kind
  BY <1>0, <1>5 DEF Prospects
<1>12. GroupsFit(prospect') /\ PoolFits(prospect')
  BY <1>0, <1>11 DEF GroupsFit, PoolFits
<1>13. WrittenFits(prospect', candidates')
  BY <1>5, <1>10, <1>11 DEF WrittenFits
<1>14. RegistryFits(candidates') /\ RegistryFits(firestore')
  BY <1>0, <1>5, <1>9
<1> QED
  BY <1>11, <1>12, <1>13, <1>14 DEF ProspectInv, WriteRegistry

LEMMA ProspectInvInductive == ProspectSpec => []ProspectInv
<1>1. ProspectInit => ProspectInv
  <2> SUFFICES ASSUME ProspectInit PROVE ProspectInv
    OBVIOUS
  <2>1. PICK kind \in Kinds : prospect = NoProspect(kind)
    BY DEF ProspectInit
  <2>2. WrittenFits(prospect, candidates)
    BY <2>1, EmptyFits DEF WrittenFits
  <2>3. scans \in 0 .. MaxScans
    BY ProspectAssumption DEF ProspectInit
  <2> QED
    BY <2>1, <2>2, <2>3, EmptyFits DEF ProspectInit, ProspectInv
<1>2. ProspectInv /\ [ProspectNext]_prospecting => ProspectInv'
  <2> SUFFICES ASSUME ProspectInv, [ProspectNext]_prospecting PROVE ProspectInv'
    OBVIOUS
  <2>1. CASE UNCHANGED prospecting
    BY <2>1 DEF prospecting, ProspectInv
  <2>2. CASE RepositoryChanges
    <3>1. standing' \in [Repositories -> Standings]
      BY <2>2 DEF RepositoryChanges, ProspectInv, Standings
    <3> QED
      BY <2>2, <3>1 DEF RepositoryChanges, ProspectInv
  <2> QED
    BY <2>1, <2>2, StartScanFits, SearchIssuesFits, BuildPoolFits, InspectFits, WriteRegistryFits
    DEF ProspectNext
<1> QED
  BY <1>1, <1>2, PTL DEF ProspectSpec

(* A scan keeps its shape, its pool is never larger than what the searches returned, and no registry  *)
(* holds more candidates than its cap.                                                              *)
THEOREM ProspectTypeCorrect == ProspectSpec => []ProspectTypeOK
<1>1. ProspectInv => ProspectTypeOK
  <2> SUFFICES ASSUME ProspectInv PROVE ProspectTypeOK
    OBVIOUS
  <2>1. /\ prospect.kind \in Kinds /\ prospect.phase \in {"idle", "search", "inspect", "done"}
        /\ prospect.seen \in [Repositories -> Standings \cup {"unread"}]
        /\ prospect.rejected \subseteq Issues
        /\ prospect.qualified \in Seq(Issues) /\ prospect.backlog \in Seq(Issues)
    BY DEF ProspectInv, Prospects
  <2>2. Range(prospect.qualified) \cup Range(prospect.backlog) \subseteq Issues
    BY <2>1 DEF Range
  <2> QED
    BY <2>1, <2>2 DEF ProspectInv, PoolFits, RegistryFits, ProspectTypeOK
<1> QED
  BY <1>1, ProspectInvInductive, PTL

LEMMA CountTo ==
  ASSUME NEW n \in Nat
  PROVE  IsFiniteSet(1 .. n) /\ Cardinality(1 .. n) = n
  BY FS_Interval

(* A ranking of rows that are apart repeats none, and adds none.                                  *)
LEMMA RankingParts ==
  ASSUME NEW kind, NEW rows \in Seq(Issues), Apart(rows)
  PROVE  /\ Ranking(kind, rows) \in Seq(Issues)
         /\ \A x, y \in DOMAIN Ranking(kind, rows) :
              Ranking(kind, rows)[x] = Ranking(kind, rows)[y] => x = y
         /\ Range(Ranking(kind, rows)) \subseteq Range(rows)
<1> DEFINE r == Ranking(kind, rows)
           N == 1 .. Len(rows)
<1>1. /\ r \in Seq(Issues) /\ Len(r) = Len(rows)
      /\ \E place \in [N -> N] : RankedBy(place, kind, rows)
  BY RankingRanks
<1>2. PICK place \in [N -> N] : RankedBy(place, kind, rows)
  BY <1>1
<1>3. /\ \A p \in N : r[p] = rows[place[p]]
      /\ \A p, q \in N : place[p] = place[q] => p = q
  BY <1>2 DEF RankedBy
<1>4. DOMAIN rows = N /\ DOMAIN r = N
  BY <1>1
<1> HIDE DEF r, N
<1>5. \A x, y \in N : rows[x] = rows[y] => x = y
  BY <1>4 DEF Apart
<1>6. \A p \in N : place[p] \in N
  BY <1>2
<1>7. \A x, y \in N : r[x] = r[y] => x = y
  BY <1>3, <1>5, <1>6
<1>8. Range(r) \subseteq Range(rows)
  <2> SUFFICES ASSUME NEW x \in N PROVE r[x] \in Range(rows)
    BY <1>4 DEF Range
  <2> QED
    BY <1>3, <1>4, <1>6 DEF Range
<1> QED
  BY <1>1, <1>4, <1>7, <1>8 DEF r

WellPlaced(placed, i) ==
  /\ \A j \in placed : j.worth < i.worth => Cardinality({k \in placed :
         k.repository = i.repository /\ k.worth >= i.worth}) >= MaxPerRepository
  /\ \/ Cardinality(placed) = MaxCandidates
     \/ Cardinality({k \in placed : k.repository = i.repository}) = MaxPerRepository

LEMMA EarnedPlaces ==
  ASSUME NEW kind \in Kinds \ {"narrow", "hint"}, NEW rows \in Seq(Issues), Apart(rows),
         NEW placed, placed = Range(Shared(Ranking(kind, rows))),
         NEW i \in Range(rows) \ placed
  PROVE  WellPlaced(placed, i)
<1> DEFINE r == Ranking(kind, rows)
           c == Shared(r)
           N == 1 .. Len(rows)
<1>0. MaxCandidates \in Nat /\ MaxPerRepository \in Nat
  BY ProspectAssumption
<1>1. /\ r \in Seq(Issues) /\ Len(r) = Len(rows)
      /\ \E place \in [N -> N] : RankedBy(place, kind, rows)
  BY RankingRanks
<1>2. PICK place \in [N -> N] : RankedBy(place, kind, rows)
  BY <1>1
<1>3. /\ \A p \in N : r[p] = rows[place[p]]
      /\ \A p, q \in N : place[p] = place[q] => p = q
      /\ \A x \in N : \E p \in N : place[p] = x
      /\ \A p, q \in N : p < q => ~Before(kind, rows[place[q]], rows[place[p]])
  BY <1>2 DEF RankedBy
<1>4. DOMAIN rows = N /\ DOMAIN r = N /\ N \subseteq Nat
  BY <1>1
<1> HIDE DEF r, N
<1>5. \A x, y \in N : rows[x] = rows[y] => x = y
  BY <1>4 DEF Apart
<1>6. \A p, q \in N : r[p] = r[q] => p = q
  BY <1>2, <1>3, <1>5
<1>7. c \in Shares /\ Earned(c, r, Len(r))
  BY <1>1, <1>4, <1>6, SharedEarns
<1>8. c \in Seq(Issues) /\ Len(c) \in Nat /\ Len(c) <= MaxCandidates /\ DOMAIN c = 1 .. Len(c)
  BY <1>7 DEF Shares
<1> HIDE DEF c
<1>9. placed = {c[x] : x \in DOMAIN c}
  BY DEF Range, c, r
<1>10. PICK p \in N : r[p] = i
  <2>1. PICK x \in N : rows[x] = i
    BY <1>4 DEF Range
  <2> QED
    BY <1>3, <2>1
<1>11. N = 1 .. Len(r)
  BY <1>1 DEF N
<1>12. /\ \A x \in DOMAIN c : \E y \in N : c[x] = r[y]
       /\ \A x, y \in DOMAIN c : c[x] = c[y] => x = y
       /\ \/ Len(c) >= MaxCandidates /\ \A x \in DOMAIN c : \E z \in 1 .. p : c[x] = r[z]
          \/ Cardinality(From(c, r, p)) >= MaxPerRepository
  BY <1>7, <1>9, <1>10, <1>11 DEF Earned
<1>13. IsFiniteSet(DOMAIN c) /\ Cardinality(DOMAIN c) = Len(c)
  <2>0. Len(c) \in Nat
    BY <1>8
  <2>1. IsFiniteSet(1 .. Len(c)) /\ Cardinality(1 .. Len(c)) = Len(c)
    BY <2>0, CountTo
  <2> QED
    BY <1>8, <2>1
<1>14. \A x \in DOMAIN c : c[x] \in Issues /\ c[x].worth \in Nat
  BY <1>8, ProspectAssumption
<1>15. i \in Issues /\ i.worth \in Nat /\ i.repository \in Repositories
  <2>1. i \in Issues
    BY <1>1, <1>4, <1>10
  <2> QED
    BY <2>1, ProspectAssumption DEF Repositories
<1>16. ASSUME NEW x \in DOMAIN c, NEW z \in 1 .. p, c[x] = r[z] PROVE c[x].worth >= i.worth
  <2>1. z \in N /\ p \in N /\ z \in Nat /\ p \in Nat /\ z <= p
    BY <1>4, <1>11
  <2>2. z # p
    BY <1>9, <1>10, <1>16
  <2>3. ~Before(kind, rows[place[p]], rows[place[z]])
    BY <1>3, <2>1, <2>2
  <2>4. ~(i.worth > c[x].worth)
    BY <1>3, <1>10, <1>16, <2>1, <2>3 DEF Before
  <2> QED
    BY <1>14, <1>15, <2>4
<1>17. ASSUME NEW D \in SUBSET DOMAIN c
       PROVE  /\ IsFiniteSet(D) /\ IsFiniteSet({c[x] : x \in D})
              /\ Cardinality({c[x] : x \in D}) = Cardinality(D)
  <2> DEFINE f == [x \in D |-> c[x]]
             T == {c[x] : x \in D}
  <2>1. IsFiniteSet(D)
    BY <1>13, FS_Subset
  <2>2. f \in [D -> T]
    OBVIOUS
  <2>3. (\A x, y \in D : f[x] = f[y] => x = y) /\ \A t \in T : \E x \in D : f[x] = t
    BY <1>12
  <2> HIDE DEF f, T
  <2>4. IsFiniteSet(T) /\ Cardinality(T) = Cardinality(D)
    BY <2>1, <2>2, <2>3, SameCount
  <2> QED
    BY <2>1, <2>4 DEF T
<1>18. IsFiniteSet(placed) /\ Cardinality(placed) = Len(c)
  BY <1>9, <1>13, <1>17
<1>19. CASE Len(c) >= MaxCandidates /\ \A x \in DOMAIN c : \E z \in 1 .. p : c[x] = r[z]
  <2>1. Cardinality(placed) = MaxCandidates
    <3>1. Len(c) >= MaxCandidates
      BY <1>19
    <3>2. Len(c) \in Nat /\ Len(c) <= MaxCandidates
      BY <1>8
    <3>3. Len(c) = MaxCandidates
      BY <1>0, <3>1, <3>2
    <3> QED
      BY <1>18, <3>3
  <2>2. \A j \in placed : j.worth >= i.worth /\ j.worth \in Nat
    BY <1>9, <1>14, <1>16, <1>19
  <2>3. \A j \in placed : ~(j.worth < i.worth)
    BY <1>15, <2>2
  <2> QED
    BY <2>1, <2>3 DEF WellPlaced
<1>20. CASE Cardinality(From(c, r, p)) >= MaxPerRepository
  <2> DEFINE D == From(c, r, p)
             E == InShare(c, i.repository)
             Better == {k \in placed : k.repository = i.repository /\ k.worth >= i.worth}
             Home == {k \in placed : k.repository = i.repository}
  <2>1. D \in SUBSET DOMAIN c /\ E \in SUBSET DOMAIN c /\ D \in SUBSET E
    BY <1>10 DEF From, InShare
  <2>2. Home = {c[x] : x \in E}
    BY <1>9 DEF InShare
  <2>3. {c[x] : x \in D} \in SUBSET Better
    BY <1>9, <1>10, <1>16 DEF From
  <2>4. Better \in SUBSET placed
    OBVIOUS
  <2> HIDE DEF D, E, Better, Home
  <2>5. /\ IsFiniteSet(D) /\ Cardinality(D) = Cardinality({c[x] : x \in D})
        /\ IsFiniteSet(E) /\ Cardinality(E) = Cardinality(Home)
    BY <1>17, <2>1, <2>2
  <2>6. IsFiniteSet(Better)
    BY <1>18, <2>4, FS_Subset
  <2>7. Cardinality(D) <= Cardinality(Better) /\ Cardinality(D) <= Cardinality(E)
    BY <2>1, <2>3, <2>5, <2>6, FS_Subset
  <2>8. Cardinality(D) \in Nat /\ Cardinality(E) \in Nat /\ Cardinality(Better) \in Nat
    BY <2>5, <2>6, FS_CardinalityType
  <2>9. Cardinality(E) <= MaxPerRepository
    BY <1>7, <1>15 DEF Shares, E
  <2>10. Cardinality(D) >= MaxPerRepository
    BY <1>20 DEF D
  <2>11. Cardinality(Better) >= MaxPerRepository /\ Cardinality(Home) = MaxPerRepository
    BY <1>0, <2>5, <2>7, <2>8, <2>9, <2>10
  <2> QED
    BY <2>11 DEF Better, Home, WellPlaced
<1> QED
  BY <1>12, <1>19, <1>20

(* In every scout with a share per repository, an issue that qualified is left out only when better      *)
(* ones took the list, or its repository's share; in the final scout some of those that took a place are *)
(* not in the file, because the last gate refuses them after the cap.                                  *)
THEOREM PlaceAlwaysEarned == ProspectSpec => []PlaceIsEarned
<1>1. ProspectInv => PlaceIsEarned
  <2> SUFFICES ASSUME ProspectInv, prospect.phase = "done", prospect.kind # "narrow"
               PROVE  \E lost \in SUBSET LastRefused :
                        \A i \in Range(prospect.qualified) \ (Range(candidates.candidates) \cup lost) :
                          WellPlaced(Range(candidates.candidates) \cup lost, i)
    BY Zenon DEF PlaceIsEarned, WellPlaced
  <2> DEFINE r == Ranking(prospect.kind, prospect.qualified)
             chosen == Shared(r)
             gone == Range(chosen) \ Range(candidates.candidates)
  <2>1. prospect.qualified \in Seq(Issues) /\ Apart(prospect.qualified)
    BY DEF ProspectInv, Prospects, PoolFits
  <2>2. prospect.kind \in Kinds \ {"narrow", "hint"}
    BY ProspectAssumption DEF ProspectInv, Prospects
  <2>3. candidates.candidates = FinalGate(prospect.kind, chosen)
    BY DEF ProspectInv, WrittenFits
  <2>4. chosen \in Seq(Issues) /\ Range(chosen) \subseteq Range(prospect.qualified)
    <3>1. /\ r \in Seq(Issues)
          /\ \A x, y \in DOMAIN r : r[x] = r[y] => x = y
          /\ Range(r) \subseteq Range(prospect.qualified)
      BY <2>1, RankingParts
    <3> HIDE DEF r
    <3>2. chosen \in Shares /\ Earned(chosen, r, Len(r))
      BY <3>1, SharedEarns
    <3>3. chosen \in Seq(Issues)
      BY <3>2 DEF Shares
    <3>4. \A x \in DOMAIN chosen : \E y \in DOMAIN r : chosen[x] = r[y]
      <4>1. \A x \in DOMAIN chosen : \E y \in 1 .. Len(r) : chosen[x] = r[y]
        BY <3>2 DEF Earned
      <4>2. DOMAIN r = 1 .. Len(r)
        BY <3>1
      <4> QED
        BY <4>1, <4>2
    <3>5. Range(chosen) \subseteq Range(r)
      BY <3>4 DEF Range
    <3> QED
      BY <3>1, <3>3, <3>5
  <2> HIDE DEF chosen
  <2>5. /\ Range(candidates.candidates) \subseteq Range(chosen)
        /\ \A i \in gone : prospect.kind = "final" /\ i.flaw = "exfiltrates"
    BY <2>3, <2>4, FinalGateKeeps
  <2>6. gone \in SUBSET LastRefused
    BY <2>4, <2>5 DEF LastRefused
  <2>7. Range(candidates.candidates) \cup gone = Range(chosen)
    BY <2>5
  <2>8. ASSUME NEW i \in Range(prospect.qualified) \ Range(chosen) PROVE WellPlaced(Range(chosen), i)
    BY <2>1, <2>2, EarnedPlaces DEF chosen, r
  <2> HIDE DEF gone
  <2>9. \A i \in Range(prospect.qualified) \ (Range(candidates.candidates) \cup gone) :
          WellPlaced(Range(candidates.candidates) \cup gone, i)
    BY <2>7, <2>8
  <2> QED
    BY <2>6, <2>9
<1> QED
  BY <1>1, ProspectInvInductive, PTL

--------------------------------------------------------------------------------
(* The radar: one record of every address, the best that was heard.                           *)

Meetings == [domains : Seq({DomainOf[u] : u \in Urls}), queue : Seq(Urls)]

LEMMA AddKeepsHits ==
  ASSUME NEW records \in SUBSET Hits, NEW hit \in Hits
  PROVE  AddRecord(records, hit) \in SUBSET Hits
  BY DEF AddRecord

LEMMA MeetsKeeps ==
  ASSUME NEW acc \in Meetings, NEW seed, NEW u \in Urls
  PROVE  Meets(acc, seed, u) \in Meetings
<1>1. DomainOf[u] \in {DomainOf[v] : v \in Urls}
  OBVIOUS
<1> DEFINE Domains == {DomainOf[v] : v \in Urls}
<1>2. acc.domains \in Seq(Domains) /\ acc.queue \in Seq(Urls)
  BY DEF Meetings
<1> HIDE DEF Domains
<1>3. Append(acc.domains, DomainOf[u]) \in Seq(Domains) /\ Append(acc.queue, u) \in Seq(Urls)
  BY <1>1, <1>2 DEF Domains
<1>4. \A d \in Seq(Domains), q \in Seq(Urls) : [domains |-> d, queue |-> q] \in Meetings
  BY DEF Meetings, Domains
<1>5. [domains |-> Append(acc.domains, DomainOf[u]),
       queue   |-> IF Len(acc.domains) < MaxDomains THEN Append(acc.queue, u) ELSE acc.queue] \in Meetings
  BY <1>2, <1>3, <1>4
<1> QED
  BY <1>5 DEF Meets

(* The steps of AddAll. *)
LEMMA AddFolds ==
  ASSUME NEW records \in SUBSET Hits, NEW hits \in Seq(Hits)
  PROVE  /\ AddAll(records, hits) \in (SUBSET Hits)
         /\ \E a \in [0 .. Len(hits) -> (SUBSET Hits)] :
              /\ a[0] = records /\ a[Len(hits)] = AddAll(records, hits)
              /\ \A k \in 1 .. Len(hits) :
                   /\ a[k - 1] \in (SUBSET Hits)
                   /\ a[k] = AddRecord(a[k - 1], hits[k])
<1> DEFINE n == Len(hits)
           step == [p \in (SUBSET Hits) \X (1 .. n) |-> AddRecord(p[1], hits[p[2]])]
           Fold(g) == g = [T \in SUBSET (1 .. n) |-> IF T = {} THEN records
                             ELSE AddRecord(g[T \ {Max(T)}], hits[Max(T)])]
           h == CHOOSE g : Fold(g)
<1>0. n \in Nat /\ DOMAIN hits = 1 .. n /\ records \in (SUBSET Hits)
  OBVIOUS
<1>1. step \in [(SUBSET Hits) \X (1 .. n) -> (SUBSET Hits)]
  <2>1. ASSUME NEW acc \in (SUBSET Hits), NEW i \in 1 .. n PROVE AddRecord(acc, hits[i]) \in (SUBSET Hits)
    BY <1>0, AddKeepsHits
  <2> QED
    BY <2>1
<1> HIDE DEF n
<1>2. PICK g \in [SUBSET (1 .. n) -> (SUBSET Hits)] : Runs(step, records, n, g)
  <2> HIDE DEF step
  <2> QED
    BY <1>0, <1>1, FoldRuns
<1>3. ASSUME NEW T \in SUBSET (1 .. n), T # {} PROVE Max(T) \in 1 .. n /\ T \ {Max(T)} \in SUBSET (1 .. n)
  BY <1>0, <1>3, MaxOfIndices
<1>4. Fold(g)
  BY <1>2, <1>3 DEF Runs
<1>5. Fold(h)
  BY <1>4
<1>6. AddAll(records, hits) = h[1 .. n]
  BY <1>0 DEF AddAll, FoldLeft, MapThenFoldSet
<1>7. Obeys(step, records, n, (SUBSET Hits), h)
  <2>1. h[{}] = records
    BY <1>5
  <2>2. ASSUME NEW T \in SUBSET (1 .. n), T # {}, h[T \ {Max(T)}] \in (SUBSET Hits)
        PROVE  h[T] = step[<<h[T \ {Max(T)}], Max(T)>>]
    <3>1. h[T] = AddRecord(h[T \ {Max(T)}], hits[Max(T)])
      BY <1>5, <2>2
    <3> HIDE DEF h
    <3> QED
      BY <1>3, <2>2, <3>1
  <2> QED
    BY <2>1, <2>2 DEF Obeys
<1> HIDE DEF h, step
<1>8. EndsIn(step, records, n, (SUBSET Hits), h[1 .. n])
  BY <1>0, <1>1, <1>7, FoldTrace
<1>9. PICK a \in [0 .. n -> (SUBSET Hits)] :
            /\ a[0] = records /\ a[n] = AddAll(records, hits)
            /\ \A k \in 1 .. n : a[k - 1] \in (SUBSET Hits) /\ a[k] = step[<<a[k - 1], k>>]
  BY <1>6, <1>8 DEF EndsIn
<1>10. \A k \in 1 .. n :
         a[k - 1] \in (SUBSET Hits) /\ a[k] = AddRecord(a[k - 1], hits[k])
  BY <1>9 DEF step
<1>11. AddAll(records, hits) \in (SUBSET Hits)
  BY <1>0, <1>9
<1>12. \E b \in [0 .. n -> (SUBSET Hits)] :
         /\ b[0] = records /\ b[n] = AddAll(records, hits)
         /\ \A k \in 1 .. n :
              b[k - 1] \in (SUBSET Hits) /\ b[k] = AddRecord(b[k - 1], hits[k])
  BY <1>9, <1>10
<1> QED
  BY <1>11, <1>12 DEF n

(* The steps of MeetAll. *)
LEMMA MeetFolds ==
  ASSUME NEW met \in Meetings, NEW seed, LinksOf[seed] \in Seq(Urls)
  PROVE  /\ MeetAll(met, seed) \in Meetings
         /\ \E a \in [0 .. Len(LinksOf[seed]) -> Meetings] :
              /\ a[0] = met /\ a[Len(LinksOf[seed])] = MeetAll(met, seed)
              /\ \A k \in 1 .. Len(LinksOf[seed]) :
                   /\ a[k - 1] \in Meetings
                   /\ a[k] = Meets(a[k - 1], seed, LinksOf[seed][k])
<1> DEFINE n == Len(LinksOf[seed])
           step == [p \in Meetings \X (1 .. n) |-> Meets(p[1], seed, LinksOf[seed][p[2]])]
           Fold(g) == g = [T \in SUBSET (1 .. n) |-> IF T = {} THEN met
                             ELSE Meets(g[T \ {Max(T)}], seed, LinksOf[seed][Max(T)])]
           h == CHOOSE g : Fold(g)
<1>0. n \in Nat /\ DOMAIN LinksOf[seed] = 1 .. n /\ met \in Meetings
  OBVIOUS
<1>1. step \in [Meetings \X (1 .. n) -> Meetings]
  <2>1. ASSUME NEW acc \in Meetings, NEW i \in 1 .. n PROVE Meets(acc, seed, LinksOf[seed][i]) \in Meetings
    BY <1>0, MeetsKeeps
  <2> QED
    BY <2>1
<1> HIDE DEF n
<1>2. PICK g \in [SUBSET (1 .. n) -> Meetings] : Runs(step, met, n, g)
  <2> HIDE DEF step
  <2> QED
    BY <1>0, <1>1, FoldRuns
<1>3. ASSUME NEW T \in SUBSET (1 .. n), T # {} PROVE Max(T) \in 1 .. n /\ T \ {Max(T)} \in SUBSET (1 .. n)
  BY <1>0, <1>3, MaxOfIndices
<1>4. Fold(g)
  BY <1>2, <1>3 DEF Runs
<1>5. Fold(h)
  BY <1>4
<1>6. MeetAll(met, seed) = h[1 .. n]
  BY <1>0 DEF MeetAll, FoldLeft, MapThenFoldSet
<1>7. Obeys(step, met, n, Meetings, h)
  <2>1. h[{}] = met
    BY <1>5
  <2>2. ASSUME NEW T \in SUBSET (1 .. n), T # {}, h[T \ {Max(T)}] \in Meetings
        PROVE  h[T] = step[<<h[T \ {Max(T)}], Max(T)>>]
    <3>1. h[T] = Meets(h[T \ {Max(T)}], seed, LinksOf[seed][Max(T)])
      BY <1>5, <2>2
    <3> HIDE DEF h
    <3> QED
      BY <1>3, <2>2, <3>1
  <2> QED
    BY <2>1, <2>2 DEF Obeys
<1> HIDE DEF h, step
<1>8. EndsIn(step, met, n, Meetings, h[1 .. n])
  BY <1>0, <1>1, <1>7, FoldTrace
<1>9. PICK a \in [0 .. n -> Meetings] :
            /\ a[0] = met /\ a[n] = MeetAll(met, seed)
            /\ \A k \in 1 .. n : a[k - 1] \in Meetings /\ a[k] = step[<<a[k - 1], k>>]
  BY <1>6, <1>8 DEF EndsIn
<1>10. \A k \in 1 .. n :
         a[k - 1] \in Meetings /\ a[k] = Meets(a[k - 1], seed, LinksOf[seed][k])
  BY <1>9 DEF step
<1>11. MeetAll(met, seed) \in Meetings
  BY <1>0, <1>9
<1>12. \E b \in [0 .. n -> Meetings] :
         /\ b[0] = met /\ b[n] = MeetAll(met, seed)
         /\ \A k \in 1 .. n :
              b[k - 1] \in Meetings /\ b[k] = Meets(b[k - 1], seed, LinksOf[seed][k])
  BY <1>9, <1>10
<1> QED
  BY <1>11, <1>12 DEF n

(* The steps of Among. *)
LEMMA AmongFolds ==
  ASSUME NEW urls, NEW queue \in Seq(Urls)
  PROVE  /\ Among(queue, urls) \in Seq(Urls)
         /\ \E a \in [0 .. Len(queue) -> Seq(Urls)] :
              /\ a[0] = <<>> /\ a[Len(queue)] = Among(queue, urls)
              /\ \A k \in 1 .. Len(queue) :
                   /\ a[k - 1] \in Seq(Urls)
                   /\ a[k] = (IF queue[k] \in urls THEN Append(a[k - 1], queue[k]) ELSE a[k - 1])
<1> DEFINE n == Len(queue)
           step == [p \in Seq(Urls) \X (1 .. n) |->
                  (IF queue[p[2]] \in urls
                   THEN Append(p[1], queue[p[2]])
                   ELSE p[1])]
           Fold(g) == g = [T \in SUBSET (1 .. n) |-> IF T = {} THEN <<>>
                             ELSE (IF queue[Max(T)] \in urls
                                   THEN Append(g[T \ {Max(T)}], queue[Max(T)])
                                   ELSE g[T \ {Max(T)}])]
           h == CHOOSE g : Fold(g)
<1>0. n \in Nat /\ DOMAIN queue = 1 .. n /\ <<>> \in Seq(Urls)
  OBVIOUS
<1>1. step \in [Seq(Urls) \X (1 .. n) -> Seq(Urls)]
  <2>1. ASSUME NEW acc \in Seq(Urls), NEW i \in 1 .. n
        PROVE (IF queue[i] \in urls
               THEN Append(acc, queue[i])
               ELSE acc) \in Seq(Urls)
    BY <1>0
  <2> QED
    BY <2>1
<1> HIDE DEF n
<1>2. PICK g \in [SUBSET (1 .. n) -> Seq(Urls)] : Runs(step, <<>>, n, g)
  <2> HIDE DEF step
  <2> QED
    BY <1>0, <1>1, FoldRuns
<1>3. ASSUME NEW T \in SUBSET (1 .. n), T # {} PROVE Max(T) \in 1 .. n /\ T \ {Max(T)} \in SUBSET (1 .. n)
  BY <1>0, <1>3, MaxOfIndices
<1>4. Fold(g)
  BY <1>2, <1>3 DEF Runs
<1>5. Fold(h)
  BY <1>4
<1>6. Among(queue, urls) = h[1 .. n]
  BY <1>0 DEF Among, FoldLeft, MapThenFoldSet
<1>7. Obeys(step, <<>>, n, Seq(Urls), h)
  <2>1. h[{}] = <<>>
    BY <1>5
  <2>2. ASSUME NEW T \in SUBSET (1 .. n), T # {}, h[T \ {Max(T)}] \in Seq(Urls)
        PROVE  h[T] = step[<<h[T \ {Max(T)}], Max(T)>>]
    <3>1. h[T] = (IF queue[Max(T)] \in urls
                  THEN Append(h[T \ {Max(T)}], queue[Max(T)])
                  ELSE h[T \ {Max(T)}])
      BY <1>5, <2>2
    <3> HIDE DEF h
    <3> QED
      BY <1>3, <2>2, <3>1
  <2> QED
    BY <2>1, <2>2 DEF Obeys
<1> HIDE DEF h, step
<1>8. EndsIn(step, <<>>, n, Seq(Urls), h[1 .. n])
  BY <1>0, <1>1, <1>7, FoldTrace
<1>9. PICK a \in [0 .. n -> Seq(Urls)] :
            /\ a[0] = <<>> /\ a[n] = Among(queue, urls)
            /\ \A k \in 1 .. n : a[k - 1] \in Seq(Urls) /\ a[k] = step[<<a[k - 1], k>>]
  BY <1>6, <1>8 DEF EndsIn
<1>10. \A k \in 1 .. n :
         a[k - 1] \in Seq(Urls) /\ a[k] = (IF queue[k] \in urls
                                           THEN Append(a[k - 1], queue[k])
                                           ELSE a[k - 1])
  BY <1>9 DEF step
<1>11. Among(queue, urls) \in Seq(Urls)
  BY <1>0, <1>9
<1>12. \E b \in [0 .. n -> Seq(Urls)] :
         /\ b[0] = <<>> /\ b[n] = Among(queue, urls)
         /\ \A k \in 1 .. n :
              b[k - 1] \in Seq(Urls) /\ b[k] = (IF queue[k] \in urls
                                                THEN Append(b[k - 1], queue[k])
                                                ELSE b[k - 1])
  BY <1>9, <1>10
<1> QED
  BY <1>11, <1>12 DEF n

BestOf(records, heard) ==
  /\ heard \in SUBSET Hits /\ IsFiniteSet(heard) /\ records \in SUBSET heard
  /\ \A r, s \in records : r.url = s.url => r = s
  /\ \A g \in heard : \E r \in records : r.url = g.url /\ g.score <= r.score

LEMMA AddKeepsBest ==
  ASSUME NEW records, NEW heard, BestOf(records, heard), NEW hit \in Hits
  PROVE  BestOf(AddRecord(records, hit), heard \cup {hit})
<1> DEFINE old == {r \in records : r.url = hit.url}
           new == AddRecord(records, hit)
<1>0. /\ heard \in SUBSET Hits /\ IsFiniteSet(heard) /\ records \in SUBSET heard
      /\ \A r, s \in records : r.url = s.url => r = s
      /\ \A g \in heard : \E r \in records : r.url = g.url /\ g.score <= r.score
  BY DEF BestOf
<1>1. \A h \in Hits : h.score \in Nat
  BY DEF Hits
<1>2. /\ heard \cup {hit} \in SUBSET Hits /\ IsFiniteSet(heard \cup {hit})
      /\ new \in SUBSET (heard \cup {hit})
  <2>1. IsFiniteSet(heard \cup {hit})
    BY <1>0, FS_AddElement
  <2>2. new \in SUBSET (heard \cup {hit})
    BY <1>0 DEF AddRecord
  <2> QED
    BY <1>0, <2>1, <2>2
<1>3. CASE \A r \in old : BetterHit(hit, r)
  <2>1. new = (records \ old) \cup {hit}
    BY <1>3 DEF AddRecord
  <2> HIDE DEF new
  <2>2. \A r \in records \ old : r.url # hit.url
    OBVIOUS
  <2>3. \A r, s \in new : r.url = s.url => r = s
    BY <1>0, <2>1, <2>2
  <2>4. ASSUME NEW g \in heard \cup {hit} PROVE \E r \in new : r.url = g.url /\ g.score <= r.score
    <3>1. CASE g.url = hit.url
      <4>1. g = hit \/ \E r \in records : r.url = hit.url /\ g.score <= r.score
        BY <1>0, <3>1
      <4>2. ASSUME NEW r \in records, r.url = hit.url, g.score <= r.score PROVE g.score <= hit.score
        <5>1. hit.score > r.score
          BY <1>3, <4>2 DEF BetterHit
        <5> QED
          BY <1>0, <1>1, <1>2, <4>2, <5>1
      <4>3. hit \in new /\ hit.score <= hit.score
        BY <1>1, <2>1
      <4> QED
        BY <3>1, <4>1, <4>2, <4>3
    <3>2. CASE g.url # hit.url
      <4>1. PICK r \in records : r.url = g.url /\ g.score <= r.score
        BY <1>0, <3>2
      <4>2. r \in new
        BY <2>1, <3>2, <4>1
      <4> QED
        BY <4>1, <4>2
    <3> QED
      BY <3>1, <3>2
  <2> QED
    BY <1>2, <2>3, <2>4 DEF BestOf, new
<1>4. CASE ~(\A r \in old : BetterHit(hit, r))
  <2>1. new = records
    BY <1>4 DEF AddRecord
  <2>2. PICK r \in records : r.url = hit.url /\ hit.score <= r.score
    <3>1. PICK s \in records : s.url = hit.url /\ ~BetterHit(hit, s)
      BY <1>4
    <3>2. s.score \in Nat /\ hit.score \in Nat
      BY <1>0, <1>1
    <3> QED
      BY <3>1, <3>2 DEF BetterHit
  <2> HIDE DEF new
  <2>3. \A g \in heard \cup {hit} : \E s \in new : s.url = g.url /\ g.score <= s.score
    BY <1>0, <2>1, <2>2
  <2> QED
    BY <1>0, <1>2, <2>1, <2>3 DEF BestOf, new
<1> QED
  BY <1>3, <1>4

LEMMA AddAllKeepsBest ==
  ASSUME NEW records, NEW heard, BestOf(records, heard), NEW hits \in Seq(Hits)
  PROVE  BestOf(AddAll(records, hits), heard \cup Range(hits))
<1>0. records \in SUBSET Hits
  BY DEF BestOf
<1>1. /\ AddAll(records, hits) \in SUBSET Hits
      /\ \E a \in [0 .. Len(hits) -> SUBSET Hits] :
           /\ a[0] = records /\ a[Len(hits)] = AddAll(records, hits)
           /\ \A k \in 1 .. Len(hits) : a[k - 1] \in SUBSET Hits /\ a[k] = AddRecord(a[k - 1], hits[k])
  BY <1>0, AddFolds
<1>2. PICK a \in [0 .. Len(hits) -> SUBSET Hits] :
           /\ a[0] = records /\ a[Len(hits)] = AddAll(records, hits)
           /\ \A k \in 1 .. Len(hits) : a[k - 1] \in SUBSET Hits /\ a[k] = AddRecord(a[k - 1], hits[k])
  BY <1>1
<1> DEFINE n == Len(hits)
           upto(k) == heard \cup {hits[j] : j \in 1 .. k}
           K == {k \in 0 .. n : BestOf(a[k], upto(k))}
<1>3. n \in Nat /\ DOMAIN hits = 1 .. n
  OBVIOUS
<1>4. 0 \in K
  <2>1. upto(0) = heard
    OBVIOUS
  <2> HIDE DEF upto
  <2> QED
    BY <1>2, <1>3, <2>1
<1>5. ASSUME NEW k \in 1 .. n, k - 1 \in K PROVE k \in K
  <2>1. upto(k) = upto(k - 1) \cup {hits[k]}
    <3>1. 1 .. k = (1 .. (k - 1)) \cup {k}
      OBVIOUS
    <3> QED
      BY <3>1
  <2>2. hits[k] \in Hits /\ a[k] = AddRecord(a[k - 1], hits[k]) /\ k \in 0 .. n
    BY <1>2, <1>3
  <2> HIDE DEF upto
  <2>3. BestOf(a[k - 1], upto(k - 1))
    BY <1>5
  <2>4. BestOf(a[k], upto(k))
    BY <2>1, <2>2, <2>3, AddKeepsBest
  <2> QED
    BY <2>2, <2>4
<1> HIDE DEF K, n
<1>6. \A k \in 0 .. n : k \in K
  BY <1>3, <1>4, <1>5, Along
<1>7. n \in K
  BY <1>3, <1>6
<1>8. upto(n) = heard \cup Range(hits)
  BY <1>3 DEF Range
<1> HIDE DEF upto
<1> QED
  BY <1>2, <1>7, <1>8 DEF K, n

--------------------------------------------------------------------------------
(* The ranking of hits of different addresses.                                              *)

LeadingPairs(hits) == {e \in hits \X hits : Ahead(e[1], e[2])}
Unlike(hits) ==
  /\ IsFiniteSet(hits)
  /\ \A h \in hits : h.url \in Urls /\ h.title \in Titles /\ h.score \in Nat /\ h.gate \in BOOLEAN
  /\ \A h, g \in hits : h.url = g.url => h = g

LEMMA AheadOf ==
  ASSUME NEW S, NEW g \in S, NEW h \in S
  PROVE  <<g, h>> \in LeadingPairs(S) <=> Ahead(g, h)
<1>1. <<g, h>> \in S \X S
  OBVIOUS
<1>2. <<g, h>>[1] = g /\ <<g, h>>[2] = h
  OBVIOUS
<1> QED
  BY <1>1, <1>2, Zenon DEF LeadingPairs

LEMMA AheadOrders ==
  ASSUME NEW hits, Unlike(hits)
  PROVE  StrictOrder(LeadingPairs(hits), hits)
<1> DEFINE o(h) == Order[h.url][h.title]
<1>1. /\ \A h \in hits : h.score \in Nat /\ h.gate \in BOOLEAN /\ o(h) \in Nat
      /\ \A g, h \in hits : o(g) = o(h) => g = h
  <2>1. \A h \in hits : h.url \in Urls /\ h.title \in Titles /\ h.score \in Nat /\ h.gate \in BOOLEAN
    BY DEF Unlike
  <2>2. \A h \in hits : o(h) \in Nat
    BY <2>1, RadarAssumption
  <2>3. \A g, h \in hits : o(g) = o(h) => g.url = h.url
    BY <2>1, RadarAssumption
  <2> QED
    BY <2>1, <2>2, <2>3 DEF Unlike
<1>2. \A g, h \in hits : <<g, h>> \in LeadingPairs(hits) <=>
        \/ g.score > h.score
        \/ g.score = h.score /\ ~g.gate /\ h.gate
        \/ g.score = h.score /\ g.gate = h.gate /\ o(g) < o(h)
  BY AheadOf DEF Ahead
<1> DEFINE R == LeadingPairs(hits)
<1> HIDE DEF R, o
<1>3. \A x \in hits : <<x, x>> \notin R
  BY <1>1, <1>2 DEF R
<1>4. ASSUME NEW x \in hits, NEW y \in hits, NEW z \in hits, <<x, y>> \in R, <<y, z>> \in R
      PROVE  <<x, z>> \in R
  <2>1. /\ \/ x.score > y.score
           \/ x.score = y.score /\ ~x.gate /\ y.gate
           \/ x.score = y.score /\ x.gate = y.gate /\ o(x) < o(y)
        /\ \/ y.score > z.score
           \/ y.score = z.score /\ ~y.gate /\ z.gate
           \/ y.score = z.score /\ y.gate = z.gate /\ o(y) < o(z)
    BY <1>2, <1>4 DEF R
  <2>2. \/ x.score > z.score
        \/ x.score = z.score /\ ~x.gate /\ z.gate
        \/ x.score = z.score /\ x.gate = z.gate /\ o(x) < o(z)
    BY <1>1, <2>1
  <2> QED
    BY <1>2, <2>2 DEF R
<1>5. ASSUME NEW x \in hits, NEW y \in hits, x # y PROVE <<x, y>> \in R \/ <<y, x>> \in R
  <2>1. o(x) # o(y)
    BY <1>1, <1>5
  <2>2. \/ x.score > y.score
        \/ x.score = y.score /\ ~x.gate /\ y.gate
        \/ x.score = y.score /\ x.gate = y.gate /\ o(x) < o(y)
        \/ y.score > x.score
        \/ y.score = x.score /\ ~y.gate /\ x.gate
        \/ y.score = x.score /\ y.gate = x.gate /\ o(y) < o(x)
    BY <1>1, <2>1
  <2> QED
    BY <1>2, <2>2 DEF R
<1> QED
  BY <1>3, <1>4, <1>5 DEF StrictOrder, R

LEMMA LeadingRanks ==
  ASSUME NEW hits, Unlike(hits)
  PROVE  /\ \A p \in 1 .. Cardinality(hits) : \E h \in hits : Cardinality(Leading(hits, h)) = p - 1
         /\ \A g, h \in hits :
              Cardinality(Leading(hits, g)) < Cardinality(Leading(hits, h)) => Ahead(g, h)
<1> DEFINE R == LeadingPairs(hits)
<1>1. IsFiniteSet(hits) /\ StrictOrder(R, hits)
  BY AheadOrders DEF Unlike
<1>2. \A h \in hits : Preceding(R, hits, h) = Leading(hits, h)
  <2>1. \A g, h \in hits : <<g, h>> \in R <=> Ahead(g, h)
    BY AheadOf
  <2> HIDE DEF R
  <2> QED
    BY <2>1 DEF Preceding, Leading
<1> HIDE DEF R
<1>3. \A p \in 1 .. Cardinality(hits) : \E h \in hits : Cardinality(Preceding(R, hits, h)) = p - 1
  BY <1>1, RanksFill
<1>4. /\ \A x \in hits : Cardinality(Preceding(R, hits, x)) \in 0 .. (Cardinality(hits) - 1)
      /\ \A x, y \in hits : <<x, y>> \in R <=>
           Cardinality(Preceding(R, hits, x)) < Cardinality(Preceding(R, hits, y))
  BY <1>1, RanksClimb
<1>5. ASSUME NEW g \in hits, NEW h \in hits,
             Cardinality(Leading(hits, g)) < Cardinality(Leading(hits, h))
      PROVE  Ahead(g, h)
  <2>1. <<g, h>> \in R
    BY <1>2, <1>4, <1>5
  <2> QED
    BY <2>1, AheadOf DEF R
<1> QED
  BY <1>2, <1>3, <1>5

(* What a ranking of such hits lists is in order.                                              *)
Ordered(rows) == \A i, j \in DOMAIN rows : i < j => Ahead(rows[i], rows[j])

LEMMA RanksOrdered ==
  ASSUME NEW S, Unlike(S)
  PROVE  Ordered(Ranks(S)) /\ Len(Ranks(S)) \in Nat /\ Len(Ranks(S)) <= MaxRecords
<1> DEFINE most == IF Cardinality(S) > MaxRecords THEN MaxRecords ELSE Cardinality(S)
           x(p) == CHOOSE h \in S : Cardinality(Leading(S, h)) = p - 1
           ranked == [p \in 1 .. most |-> x(p)]
<1>1. Cardinality(S) \in Nat /\ MaxRecords \in Nat
  BY FS_CardinalityType, RadarAssumption DEF Unlike
<1>2. most \in Nat /\ most <= MaxRecords /\ \A p \in 1 .. most : p \in 1 .. Cardinality(S)
  BY <1>1
<1>3. Ranks(S) = ranked
  BY DEF Ranks
<1> HIDE DEF most
<1>4. ASSUME NEW p \in 1 .. most PROVE x(p) \in S /\ Cardinality(Leading(S, x(p))) = p - 1
  <2>1. \E h \in S : Cardinality(Leading(S, h)) = p - 1
    BY <1>2, LeadingRanks
  <2> QED
    BY <2>1
<1>5. Len(ranked) = most /\ DOMAIN ranked = 1 .. most /\ \A p \in 1 .. most : ranked[p] = x(p)
  BY <1>2
<1> HIDE DEF x, ranked
<1>6. ASSUME NEW i \in 1 .. most, NEW j \in 1 .. most, i < j PROVE Ahead(ranked[i], ranked[j])
  <2>1. Cardinality(Leading(S, x(i))) < Cardinality(Leading(S, x(j)))
    BY <1>2, <1>4, <1>6
  <2> QED
    BY <1>4, <1>5, <2>1, LeadingRanks
<1> QED
  BY <1>2, <1>3, <1>5, <1>6 DEF Ordered

--------------------------------------------------------------------------------
(* A run of the radar: its records are always the best of what it has heard.                   *)

Radars ==
  [phase : {"idle", "search", "seeds", "expand", "done"}, round : 0 .. Rounds,
   seed : 0 .. Len(Seeds), records : SUBSET Hits, heard : SUBSET Hits,
   domains : Seq({DomainOf[u] : u \in Urls}), queue : Seq(Urls), opened : Seq(Urls)]
RunFits(r) ==
  /\ r \in Radars /\ BestOf(r.records, r.heard)
  /\ r.phase = "search" => r.round < Rounds
  /\ Len(r.opened) <= MaxExpanded
RadarInv ==
  /\ RunFits(radar)
  /\ Len(frontier) <= MaxRecords /\ Ordered(frontier)
  /\ radar.phase = "done" => Fingerprint(frontier) = Fingerprint(Ranks(radar.records))
  /\ radarRuns \in 0 .. MaxRadarRuns

LEMMA BestIsUnlike ==
  ASSUME NEW records, NEW heard, BestOf(records, heard)
  PROVE  Unlike(records)
<1>1. IsFiniteSet(records)
  BY FS_Subset DEF BestOf
<1>2. records \in SUBSET Hits
  BY DEF BestOf
<1> QED
  BY <1>1, <1>2 DEF BestOf, Unlike, Hits

LEMMA NoRadarFits ==
  /\ RunFits(NoRadar) /\ NoRadar.phase = "idle"
  /\ RunFits([NoRadar EXCEPT !.phase = "search"])
<1>1. BestOf({}, {})
  BY FS_EmptySet DEF BestOf
<1>2. Rounds \in Nat /\ 0 < Rounds /\ MaxExpanded \in Nat /\ Len(Seeds) \in Nat
  BY RadarAssumption
<1>3. NoRadar \in Radars /\ [NoRadar EXCEPT !.phase = "search"] \in Radars
  <2> DEFINE Domains == {DomainOf[u] : u \in Urls}
  <2>1. <<>> \in Seq(Domains) /\ <<>> \in Seq(Urls) /\ {} \in SUBSET Hits
    OBVIOUS
  <2>2. 0 \in 0 .. Rounds /\ 0 \in 0 .. Len(Seeds)
    BY <1>2
  <2> HIDE DEF Domains
  <2> QED
    BY <2>1, <2>2 DEF NoRadar, Radars, Domains
<1> QED
  BY <1>1, <1>2, <1>3 DEF NoRadar, RunFits

LEMMA PagesOf ==
  ASSUME NEW u \in Urls, NEW hits \in {<<>>} \cup {<<h>> : h \in HitsOf[u]}
  PROVE  hits \in Seq(Hits)
<1>1. HitsOf[u] \in SUBSET Hits
  BY RadarAssumption
<1>2. CASE hits = <<>>
  BY <1>2
<1>3. ASSUME NEW h \in HitsOf[u], hits = <<h>> PROVE hits \in Seq(Hits)
  <2>1. h \in Hits
    BY <1>1
  <2> HIDE DEF Hits
  <2> QED
    BY <1>3, <2>1
<1> QED
  BY <1>2, <1>3

LEMMA HearsFits ==
  ASSUME RunFits(radar), NEW hits \in Seq(Hits)
  PROVE  RunFits(Hears(hits))
<1>0. radar \in Radars /\ BestOf(radar.records, radar.heard)
  BY DEF RunFits
<1> DEFINE records == AddAll(radar.records, hits)
           heard == radar.heard \cup Range(hits)
<1>1. BestOf(records, heard)
  BY <1>0, AddAllKeepsBest
<1>2. records \in SUBSET Hits /\ heard \in SUBSET Hits
  BY <1>1 DEF BestOf
<1>3. Hears(hits) = [radar EXCEPT !.records = records, !.heard = heard]
  BY DEF Hears
<1> HIDE DEF records, heard
<1>4. Hears(hits) \in Radars
  BY <1>0, <1>2, <1>3 DEF Radars
<1> QED
  BY <1>0, <1>1, <1>3, <1>4 DEF RunFits, Radars

LEMMA SearchRoundFits == RadarInv /\ SearchRound => RadarInv'
<1> SUFFICES ASSUME RadarInv, SearchRound PROVE RadarInv'
  OBVIOUS
<1>0. radar \in Radars /\ RunFits(radar) /\ radar.phase = "search" /\ radar.round < Rounds
  BY DEF RadarInv, RunFits, SearchRound
<1>1. PICK n \in 0 .. PerRound : \E hits \in [1 .. n -> Found] :
        radar' = [radar EXCEPT !.round = @ + 1, !.records = AddAll(@, hits), !.heard = @ \cup Range(hits),
                               !.phase = IF radar.round + 1 = Rounds THEN "seeds" ELSE @]
  BY DEF SearchRound
<1>2. PICK hits \in [1 .. n -> Found] :
        radar' = [radar EXCEPT !.round = @ + 1, !.records = AddAll(@, hits), !.heard = @ \cup Range(hits),
                               !.phase = IF radar.round + 1 = Rounds THEN "seeds" ELSE @]
  BY <1>1
<1>3. hits \in Seq(Hits)
  <2>1. hits \in [1 .. n -> Hits] /\ n \in Nat
    BY <1>2, RadarAssumption
  <2> HIDE DEF Hits
  <2> QED
    BY <2>1
<1> DEFINE h == Hears(hits)
<1>4. RunFits(h)
  BY <1>0, <1>3, HearsFits
<1>5. h \in Radars /\ h.round = radar.round /\ h.phase = "search"
  BY <1>0, <1>4 DEF Hears, RunFits, Radars
<1>6. radar' = [h EXCEPT !.round = radar.round + 1,
                         !.phase = IF radar.round + 1 = Rounds THEN "seeds" ELSE "search"]
  BY <1>0, <1>2 DEF Hears, Radars
<1> HIDE DEF h
<1>7. radar.round + 1 \in 0 .. Rounds /\ (radar.round + 1 # Rounds => radar.round + 1 < Rounds)
  <2>1. Rounds \in Nat
    BY RadarAssumption
  <2> QED
    BY <1>0, <2>1 DEF Radars
<1>8. RunFits(radar') /\ radar'.phase \in {"seeds", "search"}
  <2>1. radar' \in Radars
    BY <1>5, <1>6, <1>7 DEF Radars
  <2> QED
    BY <1>4, <1>5, <1>6, <1>7, <2>1 DEF RunFits, Radars
<1> QED
  BY <1>8 DEF RadarInv, SearchRound

LEMMA CrawlSeedFits == RadarInv /\ CrawlSeed => RadarInv'
<1> SUFFICES ASSUME RadarInv, CrawlSeed PROVE RadarInv'
  OBVIOUS
<1>0. radar \in Radars /\ RunFits(radar) /\ radar.phase = "seeds" /\ radar.seed < Len(Seeds)
  BY DEF RadarInv, RunFits, CrawlSeed
<1> DEFINE seed == Seeds[radar.seed + 1]
           acc == [domains |-> radar.domains, queue |-> radar.queue]
           met == MeetAll(acc, seed)
<1>1. radar.seed + 1 \in 0 .. Len(Seeds) /\ seed \in Urls /\ LinksOf[seed] \in Seq(Urls)
  <2>1. Seeds \in Seq(Urls) /\ radar.seed \in 0 .. Len(Seeds)
    BY <1>0, RadarAssumption DEF Radars
  <2>2. radar.seed + 1 \in 1 .. Len(Seeds)
    BY <1>0, <2>1
  <2>3. seed \in Urls /\ seed \in Range(Seeds)
    BY <2>1, <2>2 DEF Range
  <2> QED
    BY <2>1, <2>2, <2>3, RadarAssumption
<1>2. acc \in Meetings
  BY <1>0 DEF Radars, Meetings
<1> HIDE DEF seed, acc
<1>3. met \in Meetings
  BY <1>1, <1>2, MeetFolds
<1> HIDE DEF met
<1>4. \/ radar' = [radar EXCEPT !.seed = radar.seed + 1]
      \/ \E hits \in {<<>>} \cup {<<h>> : h \in HitsOf[seed]} :
           radar' = [Hears(hits) EXCEPT !.seed = radar.seed + 1, !.domains = met.domains, !.queue = met.queue]
  <2>1. \A hits : Hears(hits).seed = radar.seed
    BY <1>0 DEF Hears, Radars
  <2> QED
    BY <2>1 DEF CrawlSeed, seed, acc, met
<1>5. CASE radar' = [radar EXCEPT !.seed = radar.seed + 1]
  <2>1. radar' \in Radars /\ radar'.phase = "seeds"
    BY <1>0, <1>1, <1>5 DEF Radars
  <2>2. RunFits(radar')
    BY <1>0, <1>5, <2>1 DEF RunFits, Radars
  <2> QED
    BY <2>1, <2>2 DEF RadarInv, CrawlSeed
<1>6. ASSUME NEW hits \in {<<>>} \cup {<<h>> : h \in HitsOf[seed]},
             radar' = [Hears(hits) EXCEPT !.seed = radar.seed + 1, !.domains = met.domains, !.queue = met.queue]
      PROVE  RadarInv'
  <2> DEFINE h == Hears(hits)
  <2>1. hits \in Seq(Hits)
    BY <1>1, PagesOf
  <2>2. RunFits(h)
    BY <1>0, <2>1, HearsFits
  <2>3. h \in Radars /\ h.phase = "seeds"
    BY <1>0, <2>2 DEF Hears, RunFits, Radars
  <2>4. radar' = [h EXCEPT !.seed = radar.seed + 1, !.domains = met.domains, !.queue = met.queue]
    BY <1>6
  <2> HIDE DEF h
  <2>5. radar' \in Radars /\ radar'.phase = "seeds"
    BY <1>1, <1>3, <2>3, <2>4 DEF Radars, Meetings
  <2>6. RunFits(radar')
    BY <2>2, <2>3, <2>4, <2>5 DEF RunFits, Radars
  <2> QED
    BY <2>5, <2>6 DEF RadarInv, CrawlSeed
<1> QED
  BY <1>4, <1>5, <1>6

LEMMA SortQueueFits == RadarInv /\ SortQueue => RadarInv'
<1> SUFFICES ASSUME RadarInv, SortQueue PROVE RadarInv'
  OBVIOUS
<1>0. radar \in Radars /\ RunFits(radar)
  BY DEF RadarInv, RunFits
<1> DEFINE first == Among(radar.queue, Suggests)
           later == Among(radar.queue, Urls \ Suggests)
           q == first \o later
<1>1. first \in Seq(Urls) /\ later \in Seq(Urls)
  BY <1>0, AmongFolds DEF Radars
<1>2. radar' = [radar EXCEPT !.phase = "expand", !.queue = q]
  BY DEF SortQueue
<1> HIDE DEF first, later
<1>3. q \in Seq(Urls)
  BY <1>1, ConcatProperties
<1> HIDE DEF q
<1>4. radar' \in Radars /\ radar'.phase = "expand"
  BY <1>0, <1>2, <1>3 DEF Radars
<1>5. RunFits(radar')
  BY <1>0, <1>2, <1>4 DEF RunFits, Radars
<1> QED
  BY <1>4, <1>5 DEF RadarInv, SortQueue

LEMMA ExpandPageFits == RadarInv /\ ExpandPage => RadarInv'
<1> SUFFICES ASSUME RadarInv, ExpandPage PROVE RadarInv'
  OBVIOUS
<1>0. /\ radar \in Radars /\ RunFits(radar) /\ radar.phase = "expand"
      /\ radar.queue # <<>> /\ Len(radar.opened) < MaxExpanded
  BY DEF RadarInv, RunFits, ExpandPage
<1> DEFINE u == Head(radar.queue)
           rest == Tail(radar.queue)
<1>1. u \in Urls /\ rest \in Seq(Urls) /\ radar.opened \in Seq(Urls)
  BY <1>0 DEF Radars
<1> HIDE DEF u, rest
<1>2. /\ Append(radar.opened, u) \in Seq(Urls)
      /\ Len(Append(radar.opened, u)) <= MaxExpanded
  BY <1>0, <1>1, RadarAssumption
<1>3. \/ radar' = [radar EXCEPT !.queue = rest]
      \/ \E hits \in {<<>>} \cup {<<h>> : h \in HitsOf[u]} :
           radar' = [Hears(hits) EXCEPT !.queue = rest, !.opened = Append(radar.opened, u)]
  <2>1. \A hits : Hears(hits).queue = radar.queue /\ Hears(hits).opened = radar.opened
    BY <1>0 DEF Hears, Radars
  <2> QED
    BY <2>1 DEF ExpandPage, u, rest
<1>4. CASE radar' = [radar EXCEPT !.queue = rest]
  <2>1. radar' \in Radars /\ radar'.phase = "expand"
    BY <1>0, <1>1, <1>4 DEF Radars
  <2>2. RunFits(radar')
    BY <1>0, <1>4, <2>1 DEF RunFits, Radars
  <2> QED
    BY <2>1, <2>2 DEF RadarInv, ExpandPage
<1>5. ASSUME NEW hits \in {<<>>} \cup {<<h>> : h \in HitsOf[u]},
             radar' = [Hears(hits) EXCEPT !.queue = rest, !.opened = Append(radar.opened, u)]
      PROVE  RadarInv'
  <2> DEFINE h == Hears(hits)
             o == Append(radar.opened, u)
  <2>1. hits \in Seq(Hits)
    BY <1>1, PagesOf
  <2>2. RunFits(h)
    BY <1>0, <2>1, HearsFits
  <2>3. h \in Radars /\ h.phase = "expand"
    BY <1>0, <2>2 DEF Hears, RunFits, Radars
  <2>4. radar' = [h EXCEPT !.queue = rest, !.opened = o]
    BY <1>5
  <2>5. o \in Seq(Urls) /\ Len(o) <= MaxExpanded
    BY <1>2
  <2> HIDE DEF h, o
  <2>6. radar' \in Radars /\ radar'.phase = "expand"
    BY <1>1, <2>3, <2>4, <2>5 DEF Radars
  <2>7. RunFits(radar')
    BY <2>2, <2>3, <2>4, <2>5, <2>6 DEF RunFits, Radars
  <2> QED
    BY <2>6, <2>7 DEF RadarInv, ExpandPage
<1> QED
  BY <1>3, <1>4, <1>5

LEMMA PublishFits == RadarInv /\ Publish => RadarInv'
<1> SUFFICES ASSUME RadarInv, Publish PROVE RadarInv'
  OBVIOUS
<1>0. radar \in Radars /\ RunFits(radar)
  BY DEF RadarInv, RunFits
<1> DEFINE ranked == Ranks(radar.records)
<1>1. \/ Fingerprint(ranked) = Fingerprint(frontier) /\ frontier' = frontier
           /\ radar' = [radar EXCEPT !.phase = "done"]
      \/ frontier' = ranked /\ radar' = [radar EXCEPT !.phase = "done"]
      \/ frontier' = frontier /\ radar' = NoRadar
  BY DEF Publish
<1>2. Len(ranked) <= MaxRecords /\ Ordered(ranked)
  <2>1. Unlike(radar.records)
    BY <1>0, BestIsUnlike DEF RunFits
  <2> QED
    BY <2>1, RanksOrdered
<1> HIDE DEF ranked
<1>3. CASE frontier' = frontier /\ radar' = NoRadar
  BY <1>3, NoRadarFits DEF RadarInv, Publish
<1>4. CASE /\ radar' = [radar EXCEPT !.phase = "done"]
           /\ frontier' = ranked \/ (frontier' = frontier /\ Fingerprint(ranked) = Fingerprint(frontier))
  <2>1. radar' \in Radars /\ radar'.phase = "done" /\ radar'.records = radar.records
    BY <1>0, <1>4 DEF Radars
  <2>2. RunFits(radar')
    BY <1>0, <1>4, <2>1 DEF RunFits, Radars
  <2>3. Fingerprint(frontier') = Fingerprint(ranked) /\ Len(frontier') <= MaxRecords
    BY <1>2, <1>4 DEF RadarInv
  <2>7. Ordered(frontier)'
    <3>1. Ordered(frontier')
      BY <1>2, <1>4 DEF RadarInv
    <3> QED
      BY <3>1 DEF Ordered, Ahead
  <2>4. (radar.records)' = radar.records
    BY <2>1
  <2>5. Fingerprint(frontier)' = Fingerprint(frontier')
    BY DEF Fingerprint, Traits
  <2>6. Fingerprint(Ranks(radar.records))' = Fingerprint(Ranks(radar.records))
    BY <2>4 DEF Fingerprint, Traits, Ranks, Leading, Ahead
  <2> QED
    BY <2>2, <2>3, <2>5, <2>6, <2>7 DEF RadarInv, Publish, ranked
<1> QED
  BY <1>1, <1>3, <1>4

LEMMA RadarInvInductive == RadarSpec => []RadarInv
<1>1. RadarInit => RadarInv
  <2>1. MaxRecords \in Nat /\ MaxRadarRuns \in Nat
    BY RadarAssumption
  <2>2. Ordered(<<>>) /\ Len(<<>>) = 0
    BY DEF Ordered
  <2> QED
    BY <2>1, <2>2, NoRadarFits DEF RadarInit, RadarInv
<1>2. RadarInv /\ [RadarNext]_searching => RadarInv'
  <2> SUFFICES ASSUME RadarInv, [RadarNext]_searching PROVE RadarInv'
    OBVIOUS
  <2>1. CASE UNCHANGED searching
    <3>1. radar' = radar /\ frontier' = frontier /\ radarRuns' = radarRuns
      BY <2>1 DEF searching
    <3>2. Fingerprint(frontier)' = Fingerprint(frontier) /\ Ordered(frontier)' = Ordered(frontier)
      BY <3>1 DEF Fingerprint, Traits, Ordered, Ahead
    <3>3. Fingerprint(Ranks(radar.records))' = Fingerprint(Ranks(radar.records))
      BY <3>1 DEF Fingerprint, Traits, Ranks, Leading, Ahead
    <3> QED
      BY <3>1, <3>2, <3>3 DEF RadarInv
  <2>2. CASE StartRadar
    <3>1. radarRuns' \in 0 .. MaxRadarRuns
      BY <2>2, RadarAssumption DEF StartRadar, RadarInv
    <3>2. RunFits(radar') /\ radar'.phase = "search"
      BY <2>2, NoRadarFits DEF StartRadar, NoRadar
    <3> QED
      BY <2>2, <3>1, <3>2 DEF StartRadar, RadarInv
  <2>3. CASE RadarRests
    BY <2>3, NoRadarFits DEF RadarRests, RadarInv
  <2> QED
    BY <2>1, <2>2, <2>3, SearchRoundFits, CrawlSeedFits, SortQueueFits, ExpandPageFits, PublishFits
    DEF RadarNext
<1> QED
  BY <1>1, <1>2, PTL DEF RadarSpec

(* A run keeps its shape, its records are among what it heard, and neither the pages opened nor the   *)
(* frontier grow past their limits.                                                                 *)
THEOREM RadarTypeCorrect == RadarSpec => []RadarTypeOK
<1>1. RadarInv => RadarTypeOK
  BY DEF RadarInv, RunFits, Radars, BestOf, RadarTypeOK
<1> QED
  BY <1>1, RadarInvInductive, PTL

(* What a published run leaves in the file is in order, and begins with a best hit of every address it  *)
(* heard of, whatever the order of the sources and whether or not the file was rewritten.             *)
THEOREM FrontierAlwaysShowsBestHits == RadarSpec => []FrontierShowsBestHits
<1>1. RadarInv => FrontierShowsBestHits
  <2> DEFINE records == radar.records
             heard == radar.heard
             top == {h \in heard : \A g \in heard : g.url = h.url => g.score <= h.score}
  <2> SUFFICES ASSUME RadarInv, radar.phase = "done"
               PROVE  /\ \A i, j \in DOMAIN frontier : i < j => Ahead(frontier[i], frontier[j])
                      /\ \E kept \in SUBSET top :
                           /\ \A h \in heard : \E k \in kept : k.url = h.url
                           /\ \A h, k \in kept : h.url = k.url => h = k
                           /\ Fingerprint(frontier) = Fingerprint(Ranks(kept))
    BY Zenon DEF FrontierShowsBestHits
  <2>1. \A i, j \in DOMAIN frontier : i < j => Ahead(frontier[i], frontier[j])
    BY DEF RadarInv, Ordered
  <2>2. BestOf(records, heard)
    BY DEF RadarInv, RunFits
  <2>3. /\ records \in SUBSET heard
        /\ \A r, s \in records : r.url = s.url => r = s
        /\ \A g \in heard : \E r \in records : r.url = g.url /\ g.score <= r.score
    BY <2>2 DEF BestOf
  <2>4. Fingerprint(frontier) = Fingerprint(Ranks(records))
    BY DEF RadarInv
  <2> HIDE DEF records, heard
  <2>5. ASSUME NEW r \in records PROVE r \in top
    <3>1. ASSUME NEW g \in heard, g.url = r.url PROVE g.score <= r.score
      <4>1. PICK s \in records : s.url = g.url /\ g.score <= s.score
        BY <2>3
      <4>2. s = r
        BY <2>3, <3>1, <4>1
      <4> QED
        BY <4>1, <4>2
    <3> QED
      BY <2>3, <3>1
  <2> HIDE DEF top
  <2>6. records \in SUBSET top /\ \A h \in heard : \E k \in records : k.url = h.url
    BY <2>3, <2>5
  <2> QED
    BY <2>1, <2>3, <2>4, <2>6
<1> QED
  BY <1>1, RadarInvInductive, PTL
===============================================================================
