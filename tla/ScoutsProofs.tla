----------------------------- MODULE ScoutsProofs ------------------------------
(******************************************************************************)
(* Proofs about the programs that look for work outside: the scans of the     *)
(* sources, the Bounty Book submission, the offers of AgentPact, the sniper   *)
(* of TaskForce and the market of capabilities.                               *)
(******************************************************************************)
EXTENDS MCScouts, SelectionProofs, FiniteSetTheorems, SequenceTheorems, TLAPS

--------------------------------------------------------------------------------
(* Proofs about SourceScans, for any number of pages, whatever they show and whichever     *)
(* of them are lost: what the loops of an adapter keep, and what a scan that says nothing   *)
(* of a failure has seen.                                                                 *)

(* The fields of a scan of an adapter.                                                    *)
ScanRec(a) ==
  [adapter : {a}, phase : {"pages", "details", "done"}, rows : Seq(CardsOf(a)),
   todo : Seq(CardsOf(a)), errors : Nat, unreadable : {0}, hidden : BOOLEAN, cut : BOOLEAN,
   status : ScanStates \cup {"none"}]

(* One element more.                                                                      *)
LEMMA HeldByAppend ==
  ASSUME NEW C, NEW rows \in Seq(C), NEW c \in C
  PROVE  /\ Append(rows, c) \in Seq(C) /\ HoldsListing(Append(rows, c), c)
         /\ \A d : HoldsListing(rows, d) => HoldsListing(Append(rows, c), d)
<1>1. /\ Append(rows, c) \in Seq(C) /\ Len(Append(rows, c)) = Len(rows) + 1 /\ Len(rows) \in Nat
      /\ Append(rows, c)[Len(rows) + 1] = c
      /\ \A i \in 1 .. Len(rows) : Append(rows, c)[i] = rows[i]
  OBVIOUS
<1>2. DOMAIN rows = 1 .. Len(rows) /\ DOMAIN Append(rows, c) = 1 .. Len(rows) + 1
  BY <1>1
<1>3. HoldsListing(Append(rows, c), c)
  <2>1. Len(rows) + 1 \in DOMAIN Append(rows, c)
    BY <1>1, <1>2
  <2> QED
    BY <1>1, <2>1 DEF HoldsListing
<1>4. ASSUME NEW d, HoldsListing(rows, d) PROVE HoldsListing(Append(rows, c), d)
  <2>1. PICK i \in DOMAIN rows : rows[i].listing = d.listing
    BY <1>4 DEF HoldsListing
  <2>2. i \in DOMAIN Append(rows, c) /\ Append(rows, c)[i] = rows[i]
    BY <1>1, <1>2
  <2> QED
    BY <2>1, <2>2 DEF HoldsListing
<1> QED
  BY <1>1, <1>3, <1>4

LEMMA AcceptKeeps ==
  ASSUME NEW C, NEW kept \in Seq(C), NEW c \in C, NEW refuses
  PROVE  Accept(kept, c, refuses) \in Seq(C)
  BY DEF Accept

LEMMA LinkKeeps ==
  ASSUME NEW C, NEW kept \in Seq(C), NEW c \in C
  PROVE  /\ Link(kept, c) \in Seq(C) /\ HoldsListing(Link(kept, c), c)
         /\ \A d : HoldsListing(kept, d) => HoldsListing(Link(kept, c), d)
  BY HeldByAppend DEF Link

LEMMA MergeKeeps ==
  ASSUME NEW C, NEW rows \in Seq(C), NEW c \in C, NEW order
  PROVE  /\ Merge(rows, c, order) \in Seq(C) /\ HoldsListing(Merge(rows, c, order), c)
         /\ \A d : HoldsListing(rows, d) => HoldsListing(Merge(rows, c, order), d)
<1>1. CASE ~HoldsListing(rows, c)
  BY <1>1, HeldByAppend DEF Merge
<1>2. CASE HoldsListing(rows, c)
  <2> DEFINE new == [i \in DOMAIN rows |->
                       IF rows[i].listing = c.listing /\ Better(order, c, rows[i]) THEN c ELSE rows[i]]
  <2>1. Merge(rows, c, order) = new
    BY <1>2 DEF Merge
  <2>2. new \in Seq(C)
    <3>1. new \in [1 .. Len(rows) -> C] /\ Len(rows) \in Nat
      OBVIOUS
    <3> QED
      BY <3>1
  <2>3. DOMAIN new = DOMAIN rows /\ \A i \in DOMAIN rows : new[i].listing = rows[i].listing
    OBVIOUS
  <2> HIDE DEF new
  <2>4. \A d : HoldsListing(rows, d) => HoldsListing(new, d)
    BY <2>3 DEF HoldsListing
  <2> QED
    BY <1>2, <2>1, <2>2, <2>4
<1> QED
  BY <1>1, <1>2

Page(C) == [rows : Seq(C), full : BOOLEAN]

LEMMA PutGives ==
  ASSUME NEW C, NEW acc \in Page(C), NEW c \in C, NEW order
  PROVE  /\ Put(acc, c, order) \in Page(C)
         /\ acc.full => Put(acc, c, order) = acc
         /\ ~acc.full => /\ Put(acc, c, order).rows = Merge(acc.rows, c, order)
                         /\ Put(acc, c, order).full = Full(Merge(acc.rows, c, order))
<1>1. acc.rows \in Seq(C)
  BY DEF Page
<1>2. Merge(acc.rows, c, order) \in Seq(C) /\ Full(Merge(acc.rows, c, order)) \in BOOLEAN
  BY <1>1, MergeKeeps DEF Full
<1> HIDE DEF Page
<1>3. [rows |-> Merge(acc.rows, c, order), full |-> Full(Merge(acc.rows, c, order))] \in Page(C)
  BY <1>2 DEF Page
<1> QED
  BY <1>3 DEF Put

Looked(C) == [rows : Seq(C), checks : Nat, hidden : BOOLEAN, cut : BOOLEAN]

LEMMA LookedWith ==
  ASSUME NEW C, NEW rows \in Seq(C), NEW n \in Nat, NEW hidden \in BOOLEAN, NEW cut \in BOOLEAN
  PROVE  /\ [rows |-> rows, checks |-> n, hidden |-> hidden, cut |-> cut] \in Looked(C)
         /\ [rows |-> rows, checks |-> n, hidden |-> hidden, cut |-> cut].rows = rows
         /\ [rows |-> rows, checks |-> n, hidden |-> hidden, cut |-> cut].cut = cut
  BY DEF Looked

LEMMA LookedMore ==
  ASSUME NEW C, NEW acc \in Looked(C), NEW rows \in Seq(C)
  PROVE  /\ [acc EXCEPT !.rows = rows] \in Looked(C)
         /\ [acc EXCEPT !.rows = rows].rows = rows /\ [acc EXCEPT !.rows = rows].cut = acc.cut
  BY DEF Looked

LEMMA LookedLess ==
  ASSUME NEW C, NEW acc \in Looked(C)
  PROVE  /\ [acc EXCEPT !.cut = TRUE] \in Looked(C)
         /\ [acc EXCEPT !.cut = TRUE].rows = acc.rows /\ [acc EXCEPT !.cut = TRUE].cut
  BY DEF Looked

(* What the loop over the cards of Freelancer does with one: it is taken, or it is refused, *)
(* or the details were not looked at.                                                      *)
LEMMA LookKeeps ==
  ASSUME NEW C, NEW acc \in Looked(C), NEW c \in C
  PROVE  /\ LookAt(acc, c) \in Looked(C)
         /\ LookAt(acc, c).rows \in {acc.rows, Append(acc.rows, c)}
         /\ acc.cut => LookAt(acc, c).cut
         /\ ~LookAt(acc, c).cut /\ Takes("freelancer", c) => LookAt(acc, c).rows = Append(acc.rows, c)
<1>1. /\ acc.rows \in Seq(C) /\ acc.checks \in Nat /\ acc.hidden \in BOOLEAN /\ acc.cut \in BOOLEAN
  BY DEF Looked
<1>2. Append(acc.rows, c) \in Seq(C)
  BY <1>1
<1>3. CASE FreelancerCard(c)
  <2> DEFINE more == Append(acc.rows, c)
             res == [acc EXCEPT !.rows = more]
  <2>1. LookAt(acc, c) = res
    BY <1>3 DEF LookAt
  <2>2. more \in Seq(C)
    BY <1>2
  <2> HIDE DEF more
  <2>3. res \in Looked(C) /\ res.rows = more /\ res.cut = acc.cut
    BY <2>2, LookedMore
  <2> HIDE DEF res
  <2> QED
    BY <2>1, <2>3 DEF more
<1>4. CASE ~FreelancerCard(c) /\ ~DetailGate(c)
  BY <1>4 DEF LookAt, Takes
<1>5. CASE ~FreelancerCard(c) /\ DetailGate(c) /\ acc.checks >= MaximumChecks
  <2>1. LookAt(acc, c) = [acc EXCEPT !.cut = TRUE]
    BY <1>5 DEF LookAt
  <2> QED
    BY <2>1, LookedLess
<1>6. CASE ~FreelancerCard(c) /\ DetailGate(c) /\ ~(acc.checks >= MaximumChecks)
  <2> DEFINE new == IF FreelancerDetail(c) THEN Append(acc.rows, c) ELSE acc.rows
             unread == acc.hidden \/ c.flaw = "unread"
  <2>1. LookAt(acc, c) = [rows |-> new, checks |-> acc.checks + 1, hidden |-> unread, cut |-> acc.cut]
    BY <1>6 DEF LookAt
  <2>2. new \in Seq(C) /\ new \in {acc.rows, Append(acc.rows, c)} /\ unread \in BOOLEAN
        /\ (Takes("freelancer", c) => new = Append(acc.rows, c))
    BY <1>1, <1>2, <1>6 DEF Takes
  <2> HIDE DEF new, unread
  <2>3. acc.checks + 1 \in Nat
    BY <1>1
  <2> DEFINE res == [rows |-> new, checks |-> acc.checks + 1, hidden |-> unread, cut |-> acc.cut]
  <2>4. res \in Looked(C) /\ res.rows = new /\ res.cut = acc.cut
    BY <1>1, <2>2, <2>3, LookedWith
  <2> HIDE DEF res
  <2>5. LookAt(acc, c) = res
    BY <2>1 DEF res
  <2> QED
    BY <2>2, <2>4, <2>5
<1> QED
  BY <1>3, <1>4, <1>5, <1>6

Refusing(C, cards, refuses) ==
  \E a \in [0 .. Len(cards) -> Seq(C)] :
    /\ a[0] = <<>> /\ a[Len(cards)] = Accepted(cards, refuses)
    /\ \A k \in 1 .. Len(cards) : a[k - 1] \in Seq(C) /\ a[k] = Accept(a[k - 1], cards[k], refuses)

(* The steps of the loop that refuses. *)
LEMMA AcceptedFolds ==
  ASSUME NEW C, NEW cards \in Seq(C), NEW refuses
  PROVE  /\ Accepted(cards, refuses) \in Seq(C)
         /\ Refusing(C, cards, refuses)
<1> DEFINE n == Len(cards)
           step == [p \in Seq(C) \X (1 .. n) |-> Accept(p[1], cards[p[2]], refuses)]
           Fold(g) == g = [T \in SUBSET (1 .. n) |-> IF T = {} THEN <<>>
                             ELSE Accept(g[T \ {Max(T)}], cards[Max(T)], refuses)]
           h == CHOOSE g : Fold(g)
<1>0. n \in Nat /\ DOMAIN cards = 1 .. n /\ <<>> \in Seq(C)
  OBVIOUS
<1>1. step \in [Seq(C) \X (1 .. n) -> Seq(C)]
  <2>1. ASSUME NEW acc \in Seq(C), NEW i \in 1 .. n PROVE Accept(acc, cards[i], refuses) \in Seq(C)
    BY <1>0, AcceptKeeps
  <2> QED
    BY <2>1
<1> HIDE DEF n
<1>2. PICK g \in [SUBSET (1 .. n) -> Seq(C)] : Runs(step, <<>>, n, g)
  <2> HIDE DEF step
  <2> QED
    BY <1>0, <1>1, FoldRuns
<1>3. ASSUME NEW T \in SUBSET (1 .. n), T # {} PROVE Max(T) \in 1 .. n /\ T \ {Max(T)} \in SUBSET (1 .. n)
  BY <1>0, <1>3, MaxOfIndices
<1>4. Fold(g)
  BY <1>2, <1>3 DEF Runs
<1>5. Fold(h)
  BY <1>4
<1>6. Accepted(cards, refuses) = h[1 .. n]
  BY <1>0 DEF Accepted, FoldLeft, MapThenFoldSet
<1>7. Obeys(step, <<>>, n, Seq(C), h)
  <2>1. h[{}] = <<>>
    BY <1>5
  <2>2. ASSUME NEW T \in SUBSET (1 .. n), T # {}, h[T \ {Max(T)}] \in Seq(C)
        PROVE  h[T] = step[<<h[T \ {Max(T)}], Max(T)>>]
    <3>1. h[T] = Accept(h[T \ {Max(T)}], cards[Max(T)], refuses)
      BY <1>5, <2>2
    <3> HIDE DEF h
    <3> QED
      BY <1>3, <2>2, <3>1
  <2> QED
    BY <2>1, <2>2 DEF Obeys
<1> HIDE DEF h, step
<1>8. EndsIn(step, <<>>, n, Seq(C), h[1 .. n])
  BY <1>0, <1>1, <1>7, FoldTrace
<1>9. PICK a \in [0 .. n -> Seq(C)] :
            /\ a[0] = <<>> /\ a[n] = Accepted(cards, refuses)
            /\ \A k \in 1 .. n : a[k - 1] \in Seq(C) /\ a[k] = step[<<a[k - 1], k>>]
  BY <1>6, <1>8 DEF EndsIn
<1>10. \A k \in 1 .. n :
         a[k - 1] \in Seq(C) /\ a[k] = Accept(a[k - 1], cards[k], refuses)
  BY <1>9 DEF step
<1>11. Accepted(cards, refuses) \in Seq(C)
  BY <1>0, <1>9
<1>12. \E b \in [0 .. n -> Seq(C)] :
         /\ b[0] = <<>> /\ b[n] = Accepted(cards, refuses)
         /\ \A k \in 1 .. n :
              b[k - 1] \in Seq(C) /\ b[k] = Accept(b[k - 1], cards[k], refuses)
  BY <1>9, <1>10
<1> QED
  BY <1>11, <1>12 DEF n, Refusing

(* The steps of the loop over the links. *)
LEMMA LinksFold ==
  ASSUME NEW C, NEW cards \in Seq(C)
  PROVE  /\ FirstLinks(cards) \in Seq(C)
         /\ \E a \in [0 .. Len(cards) -> Seq(C)] :
              /\ a[0] = <<>> /\ a[Len(cards)] = FirstLinks(cards)
              /\ \A k \in 1 .. Len(cards) :
                   /\ a[k - 1] \in Seq(C)
                   /\ a[k] = Link(a[k - 1], cards[k])
<1> DEFINE n == Len(cards)
           step == [p \in Seq(C) \X (1 .. n) |-> Link(p[1], cards[p[2]])]
           Fold(g) == g = [T \in SUBSET (1 .. n) |-> IF T = {} THEN <<>>
                             ELSE Link(g[T \ {Max(T)}], cards[Max(T)])]
           h == CHOOSE g : Fold(g)
<1>0. n \in Nat /\ DOMAIN cards = 1 .. n /\ <<>> \in Seq(C)
  OBVIOUS
<1>1. step \in [Seq(C) \X (1 .. n) -> Seq(C)]
  <2>1. ASSUME NEW acc \in Seq(C), NEW i \in 1 .. n PROVE Link(acc, cards[i]) \in Seq(C)
    BY <1>0, LinkKeeps
  <2> QED
    BY <2>1
<1> HIDE DEF n
<1>2. PICK g \in [SUBSET (1 .. n) -> Seq(C)] : Runs(step, <<>>, n, g)
  <2> HIDE DEF step
  <2> QED
    BY <1>0, <1>1, FoldRuns
<1>3. ASSUME NEW T \in SUBSET (1 .. n), T # {} PROVE Max(T) \in 1 .. n /\ T \ {Max(T)} \in SUBSET (1 .. n)
  BY <1>0, <1>3, MaxOfIndices
<1>4. Fold(g)
  BY <1>2, <1>3 DEF Runs
<1>5. Fold(h)
  BY <1>4
<1>6. FirstLinks(cards) = h[1 .. n]
  BY <1>0 DEF FirstLinks, FoldLeft, MapThenFoldSet
<1>7. Obeys(step, <<>>, n, Seq(C), h)
  <2>1. h[{}] = <<>>
    BY <1>5
  <2>2. ASSUME NEW T \in SUBSET (1 .. n), T # {}, h[T \ {Max(T)}] \in Seq(C)
        PROVE  h[T] = step[<<h[T \ {Max(T)}], Max(T)>>]
    <3>1. h[T] = Link(h[T \ {Max(T)}], cards[Max(T)])
      BY <1>5, <2>2
    <3> HIDE DEF h
    <3> QED
      BY <1>3, <2>2, <3>1
  <2> QED
    BY <2>1, <2>2 DEF Obeys
<1> HIDE DEF h, step
<1>8. EndsIn(step, <<>>, n, Seq(C), h[1 .. n])
  BY <1>0, <1>1, <1>7, FoldTrace
<1>9. PICK a \in [0 .. n -> Seq(C)] :
            /\ a[0] = <<>> /\ a[n] = FirstLinks(cards)
            /\ \A k \in 1 .. n : a[k - 1] \in Seq(C) /\ a[k] = step[<<a[k - 1], k>>]
  BY <1>6, <1>8 DEF EndsIn
<1>10. \A k \in 1 .. n :
         a[k - 1] \in Seq(C) /\ a[k] = Link(a[k - 1], cards[k])
  BY <1>9 DEF step
<1>11. FirstLinks(cards) \in Seq(C)
  BY <1>0, <1>9
<1>12. \E b \in [0 .. n -> Seq(C)] :
         /\ b[0] = <<>> /\ b[n] = FirstLinks(cards)
         /\ \A k \in 1 .. n :
              b[k - 1] \in Seq(C) /\ b[k] = Link(b[k - 1], cards[k])
  BY <1>9, <1>10
<1> QED
  BY <1>11, <1>12 DEF n

MergedPage(rows, cards, order) ==
  FoldLeft(LAMBDA acc, c : Put(acc, c, order), [rows |-> rows, full |-> FALSE], cards)

(* The steps of the loop that merges until a limit. *)
LEMMA PageFolds ==
  ASSUME NEW C, NEW rows \in Seq(C), NEW cards \in Seq(C), NEW order
  PROVE  /\ MergedPage(rows, cards, order) \in Page(C)
         /\ \E a \in [0 .. Len(cards) -> Page(C)] :
              /\ a[0] = [rows |-> rows, full |-> FALSE] /\ a[Len(cards)] = MergedPage(rows, cards, order)
              /\ \A k \in 1 .. Len(cards) :
                   /\ a[k - 1] \in Page(C)
                   /\ a[k] = Put(a[k - 1], cards[k], order)
<1> DEFINE n == Len(cards)
           step == [p \in Page(C) \X (1 .. n) |-> Put(p[1], cards[p[2]], order)]
           Fold(g) == g = [T \in SUBSET (1 .. n) |-> IF T = {} THEN [rows |-> rows, full |-> FALSE]
                             ELSE Put(g[T \ {Max(T)}], cards[Max(T)], order)]
           h == CHOOSE g : Fold(g)
<1>0. n \in Nat /\ DOMAIN cards = 1 .. n /\ [rows |-> rows, full |-> FALSE] \in Page(C)
  BY DEF Page
<1>1. step \in [Page(C) \X (1 .. n) -> Page(C)]
  <2>1. ASSUME NEW acc \in Page(C), NEW i \in 1 .. n PROVE Put(acc, cards[i], order) \in Page(C)
    BY <1>0, PutGives
  <2> QED
    BY <2>1
<1> HIDE DEF n
<1>2. PICK g \in [SUBSET (1 .. n) -> Page(C)] : Runs(step, [rows |-> rows, full |-> FALSE], n, g)
  <2> HIDE DEF step
  <2> QED
    BY <1>0, <1>1, FoldRuns
<1>3. ASSUME NEW T \in SUBSET (1 .. n), T # {} PROVE Max(T) \in 1 .. n /\ T \ {Max(T)} \in SUBSET (1 .. n)
  BY <1>0, <1>3, MaxOfIndices
<1>4. Fold(g)
  BY <1>2, <1>3 DEF Runs
<1>5. Fold(h)
  BY <1>4
<1>6. MergedPage(rows, cards, order) = h[1 .. n]
  BY <1>0 DEF MergedPage, FoldLeft, MapThenFoldSet
<1>7. Obeys(step, [rows |-> rows, full |-> FALSE], n, Page(C), h)
  <2>1. h[{}] = [rows |-> rows, full |-> FALSE]
    BY <1>5
  <2>2. ASSUME NEW T \in SUBSET (1 .. n), T # {}, h[T \ {Max(T)}] \in Page(C)
        PROVE  h[T] = step[<<h[T \ {Max(T)}], Max(T)>>]
    <3>1. h[T] = Put(h[T \ {Max(T)}], cards[Max(T)], order)
      BY <1>5, <2>2
    <3> HIDE DEF h
    <3> QED
      BY <1>3, <2>2, <3>1
  <2> QED
    BY <2>1, <2>2 DEF Obeys
<1> HIDE DEF h, step
<1>8. EndsIn(step, [rows |-> rows, full |-> FALSE], n, Page(C), h[1 .. n])
  BY <1>0, <1>1, <1>7, FoldTrace
<1>9. PICK a \in [0 .. n -> Page(C)] :
            /\ a[0] = [rows |-> rows, full |-> FALSE] /\ a[n] = MergedPage(rows, cards, order)
            /\ \A k \in 1 .. n : a[k - 1] \in Page(C) /\ a[k] = step[<<a[k - 1], k>>]
  BY <1>6, <1>8 DEF EndsIn
<1>10. \A k \in 1 .. n :
         a[k - 1] \in Page(C) /\ a[k] = Put(a[k - 1], cards[k], order)
  BY <1>9 DEF step
<1>11. MergedPage(rows, cards, order) \in Page(C)
  BY <1>0, <1>9
<1>12. \E b \in [0 .. n -> Page(C)] :
         /\ b[0] = [rows |-> rows, full |-> FALSE] /\ b[n] = MergedPage(rows, cards, order)
         /\ \A k \in 1 .. n :
              b[k - 1] \in Page(C) /\ b[k] = Put(b[k - 1], cards[k], order)
  BY <1>9, <1>10
<1> QED
  BY <1>11, <1>12 DEF n

Merging(C, rows, cards, order) ==
  \E a \in [0 .. Len(cards) -> Seq(C)] :
    /\ a[0] = rows /\ a[Len(cards)] = MergeAll(rows, cards, order)
    /\ \A k \in 1 .. Len(cards) : a[k - 1] \in Seq(C) /\ a[k] = Merge(a[k - 1], cards[k], order)

(* The steps of the loop that merges all. *)
LEMMA AllFold ==
  ASSUME NEW C, NEW rows \in Seq(C), NEW cards \in Seq(C), NEW order
  PROVE  /\ MergeAll(rows, cards, order) \in Seq(C)
         /\ Merging(C, rows, cards, order)
<1> DEFINE n == Len(cards)
           step == [p \in Seq(C) \X (1 .. n) |-> Merge(p[1], cards[p[2]], order)]
           Fold(g) == g = [T \in SUBSET (1 .. n) |-> IF T = {} THEN rows
                             ELSE Merge(g[T \ {Max(T)}], cards[Max(T)], order)]
           h == CHOOSE g : Fold(g)
<1>0. n \in Nat /\ DOMAIN cards = 1 .. n /\ rows \in Seq(C)
  OBVIOUS
<1>1. step \in [Seq(C) \X (1 .. n) -> Seq(C)]
  <2>1. ASSUME NEW acc \in Seq(C), NEW i \in 1 .. n PROVE Merge(acc, cards[i], order) \in Seq(C)
    BY <1>0, MergeKeeps
  <2> QED
    BY <2>1
<1> HIDE DEF n
<1>2. PICK g \in [SUBSET (1 .. n) -> Seq(C)] : Runs(step, rows, n, g)
  <2> HIDE DEF step
  <2> QED
    BY <1>0, <1>1, FoldRuns
<1>3. ASSUME NEW T \in SUBSET (1 .. n), T # {} PROVE Max(T) \in 1 .. n /\ T \ {Max(T)} \in SUBSET (1 .. n)
  BY <1>0, <1>3, MaxOfIndices
<1>4. Fold(g)
  BY <1>2, <1>3 DEF Runs
<1>5. Fold(h)
  BY <1>4
<1>6. MergeAll(rows, cards, order) = h[1 .. n]
  BY <1>0 DEF MergeAll, FoldLeft, MapThenFoldSet
<1>7. Obeys(step, rows, n, Seq(C), h)
  <2>1. h[{}] = rows
    BY <1>5
  <2>2. ASSUME NEW T \in SUBSET (1 .. n), T # {}, h[T \ {Max(T)}] \in Seq(C)
        PROVE  h[T] = step[<<h[T \ {Max(T)}], Max(T)>>]
    <3>1. h[T] = Merge(h[T \ {Max(T)}], cards[Max(T)], order)
      BY <1>5, <2>2
    <3> HIDE DEF h
    <3> QED
      BY <1>3, <2>2, <3>1
  <2> QED
    BY <2>1, <2>2 DEF Obeys
<1> HIDE DEF h, step
<1>8. EndsIn(step, rows, n, Seq(C), h[1 .. n])
  BY <1>0, <1>1, <1>7, FoldTrace
<1>9. PICK a \in [0 .. n -> Seq(C)] :
            /\ a[0] = rows /\ a[n] = MergeAll(rows, cards, order)
            /\ \A k \in 1 .. n : a[k - 1] \in Seq(C) /\ a[k] = step[<<a[k - 1], k>>]
  BY <1>6, <1>8 DEF EndsIn
<1>10. \A k \in 1 .. n :
         a[k - 1] \in Seq(C) /\ a[k] = Merge(a[k - 1], cards[k], order)
  BY <1>9 DEF step
<1>11. MergeAll(rows, cards, order) \in Seq(C)
  BY <1>0, <1>9
<1>12. \E b \in [0 .. n -> Seq(C)] :
         /\ b[0] = rows /\ b[n] = MergeAll(rows, cards, order)
         /\ \A k \in 1 .. n :
              b[k - 1] \in Seq(C) /\ b[k] = Merge(b[k - 1], cards[k], order)
  BY <1>9, <1>10
<1> QED
  BY <1>11, <1>12 DEF n, Merging

(* The steps of the loop over the cards of Freelancer. *)
LEMMA LooksFold ==
  ASSUME NEW C, NEW cards \in Seq(C)
  PROVE  /\ FreelancerPage(cards) \in Looked(C)
         /\ \E a \in [0 .. Len(FirstLinks(cards)) -> Looked(C)] :
              /\ a[0] = [rows |-> <<>>, checks |-> 0, hidden |-> FALSE, cut |-> FALSE] /\ a[Len(FirstLinks(cards))] = FreelancerPage(cards)
              /\ \A k \in 1 .. Len(FirstLinks(cards)) :
                   /\ a[k - 1] \in Looked(C)
                   /\ a[k] = LookAt(a[k - 1], FirstLinks(cards)[k])
<1> DEFINE n == Len(FirstLinks(cards))
           step == [p \in Looked(C) \X (1 .. n) |-> LookAt(p[1], FirstLinks(cards)[p[2]])]
           Fold(g) == g = [T \in SUBSET (1 .. n) |-> IF T = {} THEN [rows |-> <<>>, checks |-> 0, hidden |-> FALSE, cut |-> FALSE]
                             ELSE LookAt(g[T \ {Max(T)}], FirstLinks(cards)[Max(T)])]
           h == CHOOSE g : Fold(g)
<1>0. n \in Nat /\ DOMAIN FirstLinks(cards) = 1 .. n /\ [rows |-> <<>>, checks |-> 0, hidden |-> FALSE, cut |-> FALSE] \in Looked(C)
  BY LinksFold DEF Looked
<1>1. step \in [Looked(C) \X (1 .. n) -> Looked(C)]
  <2>1. ASSUME NEW acc \in Looked(C), NEW i \in 1 .. n PROVE LookAt(acc, FirstLinks(cards)[i]) \in Looked(C)
    <3>1. FirstLinks(cards)[i] \in C
      BY <1>0, LinksFold
    <3> QED
      BY <3>1, LookKeeps
  <2> QED
    BY <2>1
<1> HIDE DEF n
<1>2. PICK g \in [SUBSET (1 .. n) -> Looked(C)] : Runs(step, [rows |-> <<>>, checks |-> 0, hidden |-> FALSE, cut |-> FALSE], n, g)
  <2> HIDE DEF step
  <2> QED
    BY <1>0, <1>1, FoldRuns
<1>3. ASSUME NEW T \in SUBSET (1 .. n), T # {} PROVE Max(T) \in 1 .. n /\ T \ {Max(T)} \in SUBSET (1 .. n)
  BY <1>0, <1>3, MaxOfIndices
<1>4. Fold(g)
  BY <1>2, <1>3 DEF Runs
<1>5. Fold(h)
  BY <1>4
<1>6. FreelancerPage(cards) = h[1 .. n]
  BY <1>0 DEF FreelancerPage, FoldLeft, MapThenFoldSet
<1>7. Obeys(step, [rows |-> <<>>, checks |-> 0, hidden |-> FALSE, cut |-> FALSE], n, Looked(C), h)
  <2>1. h[{}] = [rows |-> <<>>, checks |-> 0, hidden |-> FALSE, cut |-> FALSE]
    BY <1>5
  <2>2. ASSUME NEW T \in SUBSET (1 .. n), T # {}, h[T \ {Max(T)}] \in Looked(C)
        PROVE  h[T] = step[<<h[T \ {Max(T)}], Max(T)>>]
    <3>1. h[T] = LookAt(h[T \ {Max(T)}], FirstLinks(cards)[Max(T)])
      BY <1>5, <2>2
    <3> HIDE DEF h
    <3> QED
      BY <1>3, <2>2, <3>1
  <2> QED
    BY <2>1, <2>2 DEF Obeys
<1> HIDE DEF h, step
<1>8. EndsIn(step, [rows |-> <<>>, checks |-> 0, hidden |-> FALSE, cut |-> FALSE], n, Looked(C), h[1 .. n])
  BY <1>0, <1>1, <1>7, FoldTrace
<1>9. PICK a \in [0 .. n -> Looked(C)] :
            /\ a[0] = [rows |-> <<>>, checks |-> 0, hidden |-> FALSE, cut |-> FALSE] /\ a[n] = FreelancerPage(cards)
            /\ \A k \in 1 .. n : a[k - 1] \in Looked(C) /\ a[k] = step[<<a[k - 1], k>>]
  BY <1>6, <1>8 DEF EndsIn
<1>10. \A k \in 1 .. n :
         a[k - 1] \in Looked(C) /\ a[k] = LookAt(a[k - 1], FirstLinks(cards)[k])
  BY <1>9 DEF step
<1>11. FreelancerPage(cards) \in Looked(C)
  BY <1>0, <1>9
<1>12. \E b \in [0 .. n -> Looked(C)] :
         /\ b[0] = [rows |-> <<>>, checks |-> 0, hidden |-> FALSE, cut |-> FALSE] /\ b[n] = FreelancerPage(cards)
         /\ \A k \in 1 .. n :
              b[k - 1] \in Looked(C) /\ b[k] = LookAt(b[k - 1], FirstLinks(cards)[k])
  BY <1>9, <1>10
<1> QED
  BY <1>11, <1>12 DEF n

--------------------------------------------------------------------------------
(* What the loops yield.                                                                  *)

(* Every accepted card is there, and no other.                                            *)
LEMMA AcceptedYields ==
  ASSUME NEW C, NEW cards \in Seq(C), NEW refuses
  PROVE  /\ Accepted(cards, refuses) \in Seq({c \in C : c.flaw \notin refuses})
         /\ \A i \in DOMAIN cards : cards[i].flaw \notin refuses =>
              \E j \in DOMAIN Accepted(cards, refuses) : Accepted(cards, refuses)[j] = cards[i]
<1> DEFINE n == Len(cards)
           D == {c \in C : c.flaw \notin refuses}
           Has(s, i) == \E j \in DOMAIN s : s[j] = cards[i]
<1>0. n \in Nat /\ DOMAIN cards = 1 .. n /\ \A i \in 1 .. n : cards[i] \in C
  OBVIOUS
<1>1. Accepted(cards, refuses) \in Seq(C) /\ Refusing(C, cards, refuses)
  BY AcceptedFolds
<1>2. PICK a : /\ a[0] = <<>> /\ a[n] = Accepted(cards, refuses)
               /\ \A k \in 1 .. n : a[k] = Accept(a[k - 1], cards[k], refuses)
  BY <1>1 DEF Refusing
<1> DEFINE K == {k \in 0 .. n : a[k] \in Seq(D) /\ \A i \in 1 .. k : cards[i] \in D => Has(a[k], i)}
<1>3. 0 \in K
  <2>1. <<>> \in Seq(D) /\ 0 \in 0 .. n
    BY <1>0
  <2>2. \A i \in 1 .. 0 : FALSE
    OBVIOUS
  <2> HIDE DEF D
  <2> QED
    BY <1>2, <2>1, <2>2
<1>4. ASSUME NEW k \in 1 .. n, k - 1 \in K PROVE k \in K
  <2>1. /\ a[k - 1] \in Seq(D) /\ \A i \in 1 .. (k - 1) : cards[i] \in D => Has(a[k - 1], i)
        /\ k \in 0 .. n /\ cards[k] \in C
    BY <1>0, <1>4
  <2>2. \A i \in 1 .. k : i = k \/ i \in 1 .. (k - 1)
    BY <1>0
  <2>3. CASE cards[k].flaw \in refuses
    <3>1. a[k] = a[k - 1] /\ cards[k] \notin D
      BY <1>2, <2>3 DEF Accept
    <3> QED
      BY <2>1, <2>2, <3>1
  <2>4. CASE cards[k].flaw \notin refuses
    <3>1. a[k] = Append(a[k - 1], cards[k]) /\ cards[k] \in D
      BY <1>2, <2>1, <2>4 DEF Accept
    <3> HIDE DEF D
    <3>2. /\ a[k] \in Seq(D) /\ Len(a[k]) = Len(a[k - 1]) + 1 /\ Len(a[k - 1]) \in Nat
          /\ a[k][Len(a[k])] = cards[k]
          /\ DOMAIN a[k - 1] = 1 .. Len(a[k - 1]) /\ DOMAIN a[k] = 1 .. Len(a[k])
          /\ \A j \in 1 .. Len(a[k - 1]) : a[k][j] = a[k - 1][j]
      BY <2>1, <3>1
    <3>3. Len(a[k]) \in DOMAIN a[k] /\ DOMAIN a[k - 1] \subseteq DOMAIN a[k]
      BY <3>2
    <3>4. Has(a[k], k)
      BY <3>2, <3>3
    <3>5. \A i \in 1 .. (k - 1) : Has(a[k - 1], i) => Has(a[k], i)
      BY <3>2, <3>3
    <3>6. \A i \in 1 .. k : cards[i] \in D => Has(a[k], i)
      BY <2>1, <2>2, <3>4, <3>5
    <3> QED
      BY <2>1, <3>2, <3>6
  <2> QED
    BY <2>3, <2>4
<1> HIDE DEF K, n
<1>5. \A k \in 0 .. n : k \in K
  BY <1>0, <1>3, <1>4, Along
<1>k. n \in K
  BY <1>0, <1>5
<1>6. \A i \in 1 .. n : cards[i].flaw \notin refuses => cards[i] \in D
  BY <1>0
<1> QED
  BY <1>0, <1>2, <1>6, <1>k DEF K, n

LEMMA LinksYield ==
  ASSUME NEW C, NEW cards \in Seq(C)
  PROVE  /\ FirstLinks(cards) \in Seq(C)
         /\ \A i \in DOMAIN cards : HoldsListing(FirstLinks(cards), cards[i])
<1> DEFINE n == Len(cards)
<1>0. n \in Nat /\ DOMAIN cards = 1 .. n /\ \A i \in 1 .. n : cards[i] \in C
  OBVIOUS
<1>1. /\ FirstLinks(cards) \in Seq(C)
      /\ \E a \in [0 .. n -> Seq(C)] :
           /\ a[0] = <<>> /\ a[n] = FirstLinks(cards)
           /\ \A k \in 1 .. n : a[k - 1] \in Seq(C) /\ a[k] = Link(a[k - 1], cards[k])
  BY LinksFold
<1>2. PICK a : /\ a[0] = <<>> /\ a[n] = FirstLinks(cards)
               /\ \A k \in 1 .. n : a[k - 1] \in Seq(C) /\ a[k] = Link(a[k - 1], cards[k])
  BY <1>1
<1> DEFINE K == {k \in 0 .. n : \A i \in 1 .. k : HoldsListing(a[k], cards[i])}
<1>3. 0 \in K
  BY <1>0
<1>4. ASSUME NEW k \in 1 .. n, k - 1 \in K PROVE k \in K
  <2>0. a[k - 1] \in Seq(C) /\ cards[k] \in C /\ a[k] = Link(a[k - 1], cards[k]) /\ k \in 0 .. n
    BY <1>0, <1>2
  <2>1. /\ HoldsListing(a[k], cards[k])
        /\ \A d : HoldsListing(a[k - 1], d) => HoldsListing(a[k], d)
    BY <2>0, LinkKeeps
  <2>2. \A i \in 1 .. k : i = k \/ i \in 1 .. (k - 1)
    BY <1>0
  <2> QED
    BY <1>4, <2>0, <2>1, <2>2
<1> HIDE DEF K, n
<1>5. \A k \in 0 .. n : k \in K
  BY <1>0, <1>3, <1>4, Along
<1>k. n \in K
  BY <1>0, <1>5
<1> QED
  BY <1>0, <1>1, <1>2, <1>k DEF K, n

(* Merging all cards keeps the listings there were, and adds theirs.                       *)
LEMMA MergeAllYields ==
  ASSUME NEW C, NEW rows \in Seq(C), NEW cards \in Seq(C), NEW order
  PROVE  /\ MergeAll(rows, cards, order) \in Seq(C)
         /\ \A d : HoldsListing(rows, d) => HoldsListing(MergeAll(rows, cards, order), d)
         /\ \A i \in DOMAIN cards : HoldsListing(MergeAll(rows, cards, order), cards[i])
<1> DEFINE n == Len(cards)
<1>0. n \in Nat /\ DOMAIN cards = 1 .. n /\ \A i \in 1 .. n : cards[i] \in C
  OBVIOUS
<1>1. MergeAll(rows, cards, order) \in Seq(C) /\ Merging(C, rows, cards, order)
  BY AllFold
<1>2. PICK a : /\ a[0] = rows /\ a[n] = MergeAll(rows, cards, order)
               /\ \A k \in 1 .. n : a[k - 1] \in Seq(C) /\ a[k] = Merge(a[k - 1], cards[k], order)
  BY <1>1 DEF Merging
<1> DEFINE K == {k \in 0 .. n : /\ \A d : HoldsListing(rows, d) => HoldsListing(a[k], d)
                                /\ \A i \in 1 .. k : HoldsListing(a[k], cards[i])}
<1>3. 0 \in K
  BY <1>0, <1>2
<1>4. ASSUME NEW k \in 1 .. n, k - 1 \in K PROVE k \in K
  <2>0. /\ a[k - 1] \in Seq(C) /\ cards[k] \in C /\ a[k] = Merge(a[k - 1], cards[k], order)
        /\ k \in 0 .. n
    BY <1>0, <1>2
  <2>1. /\ HoldsListing(a[k], cards[k])
        /\ \A d : HoldsListing(a[k - 1], d) => HoldsListing(a[k], d)
    BY <2>0, MergeKeeps
  <2>2. \A i \in 1 .. k : i = k \/ i \in 1 .. (k - 1)
    BY <1>0
  <2> QED
    BY <1>4, <2>0, <2>1, <2>2
<1> HIDE DEF K, n
<1>5. \A k \in 0 .. n : k \in K
  BY <1>0, <1>3, <1>4, Along
<1>k. n \in K
  BY <1>0, <1>5
<1> QED
  BY <1>0, <1>1, <1>2, <1>k DEF K, n

(* Merging a page stops at the limit only.                                                 *)
LEMMA MergePageYields ==
  ASSUME NEW C, NEW rows \in Seq(C), NEW cards \in Seq(C), NEW order
  PROVE  /\ MergePage(rows, cards, order) \in Seq(C)
         /\ \A d : HoldsListing(rows, d) => HoldsListing(MergePage(rows, cards, order), d)
         /\ ~Full(MergePage(rows, cards, order)) =>
              \A i \in DOMAIN cards : HoldsListing(MergePage(rows, cards, order), cards[i])
<1> DEFINE n == Len(cards)
           base == [rows |-> rows, full |-> FALSE]
<1>0. n \in Nat /\ DOMAIN cards = 1 .. n /\ \A i \in 1 .. n : cards[i] \in C
  OBVIOUS
<1>1. /\ MergedPage(rows, cards, order) \in Page(C)
      /\ \E a \in [0 .. n -> Page(C)] :
           /\ a[0] = base /\ a[n] = MergedPage(rows, cards, order)
           /\ \A k \in 1 .. n : a[k - 1] \in Page(C) /\ a[k] = Put(a[k - 1], cards[k], order)
  BY PageFolds
<1>2. PICK a : /\ a[0] = base /\ a[n] = MergedPage(rows, cards, order)
               /\ \A k \in 1 .. n : a[k - 1] \in Page(C) /\ a[k] = Put(a[k - 1], cards[k], order)
  BY <1>1
<1>m. MergePage(rows, cards, order) = a[n].rows
  BY <1>2 DEF MergePage, MergedPage
<1>b. base.rows = rows /\ base.full = FALSE
  OBVIOUS
<1> HIDE DEF base
<1> DEFINE K == {k \in 0 .. n : /\ \A d : HoldsListing(rows, d) => HoldsListing(a[k].rows, d)
                                /\ a[k].full => Full(a[k].rows)
                                /\ ~a[k].full => \A i \in 1 .. k : HoldsListing(a[k].rows, cards[i])}
<1>3. 0 \in K
  BY <1>0, <1>2, <1>b
<1>4. ASSUME NEW k \in 1 .. n, k - 1 \in K PROVE k \in K
  <2>1. /\ a[k - 1] \in Page(C) /\ a[k - 1].rows \in Seq(C) /\ cards[k] \in C
        /\ a[k] = Put(a[k - 1], cards[k], order) /\ k \in 0 .. n
    BY <1>0, <1>2 DEF Page
  <2>2. CASE a[k - 1].full
    <3>1. a[k] = a[k - 1]
      BY <2>1, <2>2, PutGives
    <3> QED
      BY <1>4, <2>1, <2>2, <3>1
  <2>3. CASE ~a[k - 1].full
    <3>1. /\ a[k].rows = Merge(a[k - 1].rows, cards[k], order)
          /\ a[k].full = Full(a[k].rows)
      BY <2>1, <2>3, PutGives
    <3>2. /\ HoldsListing(a[k].rows, cards[k])
          /\ \A d : HoldsListing(a[k - 1].rows, d) => HoldsListing(a[k].rows, d)
      BY <2>1, <3>1, MergeKeeps
    <3>3. \A i \in 1 .. k : i = k \/ i \in 1 .. (k - 1)
      BY <1>0
    <3> QED
      BY <1>4, <2>1, <2>3, <3>1, <3>2, <3>3
  <2> QED
    BY <2>2, <2>3
<1> HIDE DEF K, n
<1>5. \A k \in 0 .. n : k \in K
  BY <1>0, <1>3, <1>4, Along
<1>k. n \in K
  BY <1>0, <1>5
<1>6. a[n].rows \in Seq(C)
  BY <1>1, <1>2 DEF Page
<1> QED
  BY <1>0, <1>6, <1>k, <1>m DEF K, n

(* A page of Freelancer whose details were all looked at has every card it takes.           *)
LEMMA FreelancerYields ==
  ASSUME NEW C, NEW cards \in Seq(C)
  PROVE  /\ FreelancerPage(cards) \in Looked(C)
         /\ ~FreelancerPage(cards).cut =>
              \A i \in DOMAIN FirstLinks(cards) : Takes("freelancer", FirstLinks(cards)[i]) =>
                \E j \in DOMAIN FreelancerPage(cards).rows :
                  FreelancerPage(cards).rows[j] = FirstLinks(cards)[i]
<1> DEFINE links == FirstLinks(cards)
           n == Len(links)
           base == [rows |-> <<>>, checks |-> 0, hidden |-> FALSE, cut |-> FALSE]
           Has(s, i) == \E j \in DOMAIN s : s[j] = links[i]
<1>0. links \in Seq(C) /\ n \in Nat /\ DOMAIN links = 1 .. n /\ \A i \in 1 .. n : links[i] \in C
  BY LinksYield
<1>1. /\ FreelancerPage(cards) \in Looked(C)
      /\ \E a \in [0 .. n -> Looked(C)] :
           /\ a[0] = base /\ a[n] = FreelancerPage(cards)
           /\ \A k \in 1 .. n : a[k - 1] \in Looked(C) /\ a[k] = LookAt(a[k - 1], links[k])
  BY LooksFold
<1>2. PICK a : /\ a[0] = base /\ a[n] = FreelancerPage(cards)
               /\ \A k \in 1 .. n : a[k - 1] \in Looked(C) /\ a[k] = LookAt(a[k - 1], links[k])
  BY <1>1
<1> DEFINE K == {k \in 0 .. n : ~a[k].cut =>
                   \A i \in 1 .. k : Takes("freelancer", links[i]) => Has(a[k].rows, i)}
<1>3. 0 \in K
  BY <1>0
<1>4. ASSUME NEW k \in 1 .. n, k - 1 \in K PROVE k \in K
  <2>0. /\ a[k - 1] \in Looked(C) /\ a[k - 1].rows \in Seq(C) /\ links[k] \in C /\ k \in 0 .. n
        /\ a[k] = LookAt(a[k - 1], links[k])
    BY <1>0, <1>2 DEF Looked
  <2>1. /\ a[k].rows \in {a[k - 1].rows, Append(a[k - 1].rows, links[k])}
        /\ a[k - 1].cut => a[k].cut
        /\ ~a[k].cut /\ Takes("freelancer", links[k]) => a[k].rows = Append(a[k - 1].rows, links[k])
    <3> DEFINE old == a[k - 1]
               c == links[k]
    <3>1. old \in Looked(C) /\ c \in C /\ a[k] = LookAt(old, c)
      BY <2>0
    <3> HIDE DEF links, n, old, c
    <3>2. /\ LookAt(old, c).rows \in {old.rows, Append(old.rows, c)}
          /\ old.cut => LookAt(old, c).cut
          /\ ~LookAt(old, c).cut /\ Takes("freelancer", c) => LookAt(old, c).rows = Append(old.rows, c)
      BY <3>1, LookKeeps
    <3> QED
      BY <3>1, <3>2 DEF old, c
  <2>2. \A i \in 1 .. k : i = k \/ i \in 1 .. (k - 1)
    BY <1>0
  <2> DEFINE old == a[k - 1].rows
             new == Append(old, links[k])
  <2> HIDE DEF links
  <2>3. /\ DOMAIN old \subseteq DOMAIN new /\ Len(old) + 1 \in DOMAIN new
        /\ new[Len(old) + 1] = links[k] /\ \A j \in DOMAIN old : new[j] = old[j]
    <3>1. old \in Seq(C) /\ links[k] \in C
      BY <2>0
    <3> HIDE DEF old
    <3>2. /\ new \in Seq(C) /\ Len(new) = Len(old) + 1 /\ Len(old) \in Nat
          /\ \A j \in 1 .. Len(old) : new[j] = old[j]
          /\ new[Len(old) + 1] = links[k]
      BY <3>1, AppendProperties
    <3>3. DOMAIN old = 1 .. Len(old) /\ DOMAIN new = 1 .. Len(old) + 1
      BY <3>1, <3>2
    <3> HIDE DEF new
    <3> QED
      BY <3>2, <3>3
  <2>4. Has(new, k) /\ \A i \in 1 .. (k - 1) : Has(old, i) => Has(new, i)
    BY <2>3
  <2> HIDE DEF old, new
  <2>5. SUFFICES ASSUME ~a[k].cut PROVE \A i \in 1 .. k : Takes("freelancer", links[i]) => Has(a[k].rows, i)
    BY <2>0
  <2>6. \A i \in 1 .. (k - 1) : Takes("freelancer", links[i]) => Has(old, i)
    BY <1>4, <2>1, <2>5 DEF old
  <2>7. CASE a[k].rows = new
    BY <2>2, <2>4, <2>6, <2>7
  <2>8. CASE a[k].rows = old /\ ~Takes("freelancer", links[k])
    BY <2>2, <2>6, <2>8
  <2> QED
    BY <2>1, <2>5, <2>7, <2>8 DEF old, new
<1> HIDE DEF K, n
<1>5. \A k \in 0 .. n : k \in K
  BY <1>0, <1>3, <1>4, Along
<1>k. n \in K
  BY <1>0, <1>5
<1> QED
  BY <1>0, <1>1, <1>2, <1>k DEF K, n

--------------------------------------------------------------------------------
(* The inductive invariant.                                                               *)

Boards(a) == Seq(CardsOf(a))

ScanTyped ==
  /\ scan.adapter \in Adapters /\ scan \in ScanRec(scan.adapter)
  /\ shown \in Seq(Boards(scan.adapter))

(* The cards of Truelancer that its pages do not refuse: their details say the rest.       *)
Listed == {c \in CardsOf("truelancer") : c.flaw \notin TruelancerLists}

(* Where each kind of adapter is when.                                                    *)
ScanPhases ==
  /\ (scan.status # "none") <=> (scan.phase = "done")
  /\ scan.adapter \in FeedNames \cup LinkNames /\ scan.phase = "pages" =>
       shown = <<>> /\ scan.rows = <<>> /\ scan.todo = <<>> /\ scan.errors = 0
  /\ scan.adapter \in FeedNames => scan.errors = 0 /\ scan.todo = <<>> /\ scan.phase # "details"
  /\ scan.adapter \in PageNames \ {"truelancer"} => scan.todo = <<>> /\ scan.phase # "details"
  /\ scan.adapter = "truelancer" /\ scan.phase = "pages" => scan.rows = <<>> /\ ~scan.cut
  /\ scan.adapter = "truelancer" => scan.todo \in Seq(Listed)
  /\ scan.status \in {"ok", "empty"} => scan.errors = 0 /\ scan.todo = <<>>

ScanBounds ==
  /\ Len(shown) <= PageCount
  /\ scan.phase = "pages" => scan.errors <= Len(shown)
  /\ scan.phase = "details" =>
       /\ Len(scan.rows) + Len(scan.todo) <= MaximumResults
       /\ scan.errors + Len(scan.todo) <= PageCount + MaximumResults
  /\ scan.errors <= PageCount + MaximumResults
  /\ scan.adapter \in {"freelancer", "guru", "github"} /\ ~scan.cut => Len(scan.rows) <= MaximumResults

(* A scan that nothing has disturbed has a row for each acceptable card of the pages read,   *)
(* or is to open a card of its listing that is not refused.                                *)
Waits(todo, a, c) == \E i \in DOMAIN todo : todo[i].listing = c.listing /\ todo[i].flaw \notin Refuses[a]
Met(c) == HoldsListing(scan.rows, c) \/ Waits(scan.todo, scan.adapter, c)
Undisturbed ==
  scan.errors = 0 /\ ~scan.hidden /\ ~scan.cut /\ scan.status \in {"none", "ok", "empty"}
ScanComplete == Undisturbed => \A p \in DOMAIN shown : \A c \in Acceptable(p) : Met(c)

ScanInv == ScanTyped /\ ScanPhases /\ ScanBounds /\ ScanComplete

Takable(a) == {c \in CardsOf(a) : Takes(a, c)}
Offered(a, cards) == {c \in Range(Judged(a, cards)) : Takes(a, c)}

LEMMA OfferedIsTakable ==
  ASSUME NEW a, NEW cards \in Seq(CardsOf(a))
  PROVE  Offered(a, cards) \subseteq Takable(a)
<1> DEFINE C == CardsOf(a)
<1> HIDE DEF C
<1>1. cards \in Seq(C) /\ FirstLinks(cards) \in Seq(C)
  BY LinksYield DEF C
<1>2. Judged(a, cards) \in Seq(C)
  BY <1>1 DEF Judged
<1>3. Range(Judged(a, cards)) \subseteq C
  BY <1>2 DEF Range
<1> QED
  BY <1>3 DEF Offered, Takable, C

(* What a step leaves, with every field named.                                            *)
Becomes(phase, rows, todo, errors, hidden, cut, said) ==
  /\ scan' \in ScanRec(scan.adapter) /\ scan'.adapter = scan.adapter
  /\ scan'.phase = phase /\ scan'.rows = rows /\ scan'.todo = todo /\ scan'.errors = errors
  /\ scan'.hidden = hidden /\ scan'.cut = cut /\ scan'.status = said

LEMMA ScanFields ==
  ASSUME ScanTyped
  PROVE  /\ scan.phase \in {"pages", "details", "done"} /\ scan.rows \in Seq(CardsOf(scan.adapter))
         /\ scan.todo \in Seq(CardsOf(scan.adapter)) /\ scan.errors \in Nat
         /\ scan.hidden \in BOOLEAN /\ scan.cut \in BOOLEAN /\ scan.status \in ScanStates \cup {"none"}
  BY DEF ScanTyped, ScanRec

LEMMA BecomesDone ==
  ASSUME ScanTyped, NEW rows \in Seq(CardsOf(scan.adapter)), NEW said \in ScanStates, NEW cut \in BOOLEAN,
         scan' = [scan EXCEPT !.phase = "done", !.rows = rows, !.status = said, !.cut = cut]
  PROVE  Becomes("done", rows, scan.todo, scan.errors, scan.hidden, cut, said)
  BY DEF ScanTyped, ScanRec, Becomes

LEMMA BecomesOver ==
  ASSUME ScanTyped, NEW rows \in Seq(CardsOf(scan.adapter)), NEW said \in ScanStates,
         scan' = [scan EXCEPT !.phase = "done", !.rows = rows, !.status = said]
  PROVE  Becomes("done", rows, scan.todo, scan.errors, scan.hidden, scan.cut, said)
  BY DEF ScanTyped, ScanRec, Becomes

LEMMA BecomesAway ==
  ASSUME ScanTyped, NEW said \in ScanStates,
         scan' = [scan EXCEPT !.phase = "done", !.status = said]
  PROVE  Becomes("done", scan.rows, scan.todo, scan.errors, scan.hidden, scan.cut, said)
  BY DEF ScanTyped, ScanRec, Becomes

LEMMA BecomesFailed ==
  ASSUME ScanTyped, scan.phase = "pages", PageFails
  PROVE  Becomes("pages", scan.rows, scan.todo, scan.errors + 1, scan.hidden, scan.cut, scan.status)
<1> DEFINE e == scan.errors + 1
<1>1. e \in Nat /\ scan' = [scan EXCEPT !.errors = e]
  BY ScanFields DEF PageFails
<1> HIDE DEF e
<1>2. Becomes("pages", scan.rows, scan.todo, e, scan.hidden, scan.cut, scan.status)
  BY <1>1 DEF ScanTyped, ScanRec, Becomes
<1> QED
  BY <1>2 DEF e

LEMMA BecomesPage ==
  ASSUME ScanTyped, NEW rows \in Seq(CardsOf(scan.adapter)), NEW hidden \in BOOLEAN, NEW cut \in BOOLEAN,
         NEW errors \in Nat,
         scan' = [scan EXCEPT !.rows = rows, !.hidden = hidden, !.errors = errors, !.cut = cut]
  PROVE  Becomes(scan.phase, rows, scan.todo, errors, hidden, cut, scan.status)
  BY DEF ScanTyped, ScanRec, Becomes

LEMMA BecomesRows ==
  ASSUME ScanTyped, NEW rows \in Seq(CardsOf(scan.adapter)), NEW hidden \in BOOLEAN, NEW cut \in BOOLEAN,
         scan' = [scan EXCEPT !.rows = rows, !.hidden = hidden, !.cut = cut]
  PROVE  Becomes(scan.phase, rows, scan.todo, scan.errors, hidden, cut, scan.status)
  BY DEF ScanTyped, ScanRec, Becomes

LEMMA BecomesCut ==
  ASSUME ScanTyped, NEW rows \in Seq(CardsOf(scan.adapter)), NEW cut \in BOOLEAN,
         scan' = [scan EXCEPT !.rows = rows, !.cut = cut]
  PROVE  Becomes(scan.phase, rows, scan.todo, scan.errors, scan.hidden, cut, scan.status)
  BY DEF ScanTyped, ScanRec, Becomes

LEMMA BecomesAll ==
  ASSUME ScanTyped, NEW rows \in Seq(CardsOf(scan.adapter)), scan' = [scan EXCEPT !.rows = rows]
  PROVE  Becomes(scan.phase, rows, scan.todo, scan.errors, scan.hidden, scan.cut, scan.status)
  BY DEF ScanTyped, ScanRec, Becomes

LEMMA BecomesTodo ==
  ASSUME ScanTyped, NEW todo \in Seq(CardsOf(scan.adapter)), scan' = [scan EXCEPT !.todo = todo]
  PROVE  Becomes(scan.phase, scan.rows, todo, scan.errors, scan.hidden, scan.cut, scan.status)
  BY DEF ScanTyped, ScanRec, Becomes

LEMMA BecomesOpen ==
  ASSUME ScanTyped, NEW todo \in Seq(CardsOf(scan.adapter)), NEW cut \in BOOLEAN,
         scan' = [scan EXCEPT !.phase = "details", !.todo = todo, !.cut = cut]
  PROVE  Becomes("details", scan.rows, todo, scan.errors, scan.hidden, cut, scan.status)
  BY DEF ScanTyped, ScanRec, Becomes

LEMMA BecomesDetail ==
  ASSUME ScanTyped, NEW todo \in Seq(CardsOf(scan.adapter)), NEW errors \in Nat,
         NEW rows \in Seq(CardsOf(scan.adapter)),
         scan' = [scan EXCEPT !.todo = todo, !.errors = errors, !.rows = rows]
  PROVE  Becomes(scan.phase, rows, todo, errors, scan.hidden, scan.cut, scan.status)
  BY DEF ScanTyped, ScanRec, Becomes

(* A page of several more: the scan goes on.                                              *)
LEMMA PageNext ==
  ASSUME ScanInv, NEW cards \in Boards(scan.adapter), NextPage(scan.adapter, cards),
         scan.adapter \in PageNames,
         NEW rows, NEW todo, NEW errors \in {scan.errors, scan.errors + 1}, NEW hidden, NEW cut,
         Becomes("pages", rows, todo, errors, hidden, cut, scan.status),
         scan.adapter # "truelancer" => todo = <<>>,
         scan.adapter = "truelancer" => rows = <<>> /\ ~cut /\ todo \in Seq(Listed),
         scan.adapter \in {"freelancer", "guru", "github"} /\ ~cut => Len(rows) <= MaximumResults,
         errors = 0 /\ ~hidden /\ ~cut =>
           /\ ~scan.hidden /\ ~scan.cut
           /\ \A c \in Takable(scan.adapter) :
                Met(c) => HoldsListing(rows, c) \/ Waits(todo, scan.adapter, c)
           /\ \A c \in Offered(scan.adapter, cards) :
                HoldsListing(rows, c) \/ Waits(todo, scan.adapter, c)
  PROVE  ScanInv'
<1> DEFINE a == scan.adapter
<1>a. scan'.adapter = a /\ a \in Adapters
  BY DEF Becomes, ScanInv, ScanTyped
<1>1. /\ shown \in Seq(Boards(a)) /\ shown' = Append(shown, cards) /\ Len(shown) < PageCount
      /\ Len(shown) \in Nat /\ scan.phase = "pages" /\ scan.status = "none"
  BY DEF ScanInv, ScanTyped, NextPage, ScanPhases
<1>2. /\ shown' \in Seq(Boards(a)) /\ Len(shown') = Len(shown) + 1
      /\ DOMAIN shown' = DOMAIN shown \cup {Len(shown) + 1} /\ shown'[Len(shown) + 1] = cards
      /\ \A p \in DOMAIN shown : shown'[p] = shown[p]
  <2> DEFINE B == Boards(a)
  <2> HIDE DEF B
  <2>1. shown \in Seq(B) /\ cards \in B /\ shown' = Append(shown, cards)
    BY <1>1 DEF B
  <2>2. /\ shown' \in Seq(B) /\ Len(shown') = Len(shown) + 1 /\ Len(shown) \in Nat
        /\ shown'[Len(shown) + 1] = cards /\ \A p \in 1 .. Len(shown) : shown'[p] = shown[p]
        /\ DOMAIN shown' = 1 .. Len(shown) + 1 /\ DOMAIN shown = 1 .. Len(shown)
    BY <2>1
  <2> QED
    BY <2>2 DEF B
<1>3. ScanTyped'
  BY <1>a, <1>2 DEF Becomes, ScanTyped
<1>4. ScanPhases'
  <2>1. a \notin FeedNames \cup LinkNames
    BY DEF PageNames, FeedNames, LinkNames
  <2> QED
    BY <1>1, <2>1 DEF Becomes, ScanPhases
<1>5. ScanBounds'
  <2>1. scan.errors \in Nat /\ scan.errors <= Len(shown) /\ PageCount \in Nat /\ MaximumResults \in Nat
    BY <1>1, ScanFields, ScansAssumption DEF ScanInv, ScanBounds
  <2>2. errors <= Len(shown') /\ Len(shown') <= PageCount /\ errors <= PageCount + MaximumResults
    BY <1>1, <1>2, <2>1
  <2> QED
    BY <2>2 DEF Becomes, ScanBounds
<1>6. ScanComplete'
  <2> SUFFICES ASSUME Undisturbed', NEW p \in DOMAIN shown', NEW c \in Acceptable(p)' PROVE Met(c)'
    BY DEF ScanComplete
  <2>1. errors = 0 /\ ~hidden /\ ~cut /\ scan.errors = 0
    BY ScanFields DEF Undisturbed, Becomes, ScanInv
  <2>2. Undisturbed
    BY <1>1, <2>1 DEF Undisturbed
  <2>3. c \in Offered(a, shown'[p])
    BY <1>a DEF Acceptable, Offered
  <2>4. Met(c)' <=> HoldsListing(rows, c) \/ Waits(todo, a, c)
    BY <1>a DEF Met, Becomes
  <2>5. CASE p \in DOMAIN shown
    <3>1. c \in Acceptable(p) /\ shown[p] \in Boards(a)
      BY <1>1, <1>2, <2>3, <2>5 DEF Acceptable, Offered
    <3>2. Met(c)
      BY <2>2, <2>5, <3>1 DEF ScanInv, ScanComplete
    <3>3. c \in Takable(a)
      BY <1>2, <2>3, <2>5, <3>1, OfferedIsTakable DEF Boards
    <3> QED
      BY <2>1, <2>4, <3>2, <3>3
  <2>6. CASE p = Len(shown) + 1
    BY <1>2, <2>1, <2>3, <2>4, <2>6
  <2> QED
    BY <1>2, <2>5, <2>6
<1> QED
  BY <1>3, <1>4, <1>5, <1>6 DEF ScanInv

LEMMA PageFailsNext ==
  ASSUME ScanInv, NEW cards \in Boards(scan.adapter), NextPage(scan.adapter, cards),
         scan.adapter \in PageNames, PageFails
  PROVE  ScanInv'
<1> DEFINE e == scan.errors + 1
<1>1. /\ Becomes("pages", scan.rows, scan.todo, e, scan.hidden, scan.cut, scan.status)
      /\ scan.errors \in Nat /\ scan.phase = "pages"
  BY BecomesFailed, ScanFields DEF ScanInv, NextPage
<1>2. e # 0 /\ e \in {scan.errors, scan.errors + 1}
  BY <1>1
<1>3. /\ scan.adapter # "truelancer" => scan.todo = <<>>
      /\ scan.adapter = "truelancer" => scan.rows = <<>> /\ ~scan.cut /\ scan.todo \in Seq(Listed)
      /\ scan.adapter \in {"freelancer", "guru", "github"} /\ ~scan.cut => Len(scan.rows) <= MaximumResults
  BY <1>1 DEF ScanInv, ScanPhases, ScanBounds
<1> HIDE DEF e
<1>4. e = 0 /\ ~scan.hidden /\ ~scan.cut => FALSE
  BY <1>2
<1> QED
  BY <1>1, <1>2, <1>3, <1>4, PageNext

LEMMA PagesAreBoards ==
  ASSUME NEW a, NEW cards \in Pages(a)
  PROVE  cards \in Boards(a)
<1> DEFINE C == CardsOf(a)
<1> HIDE DEF C
<1>1. PICK n \in 0 .. PageSize : cards \in [1 .. n -> C]
  BY DEF Pages, C
<1>2. n \in Nat
  BY ScansAssumption
<1>3. cards \in Seq(C)
  BY <1>1, <1>2
<1> QED
  BY <1>3 DEF Boards, C

--------------------------------------------------------------------------------
(* The adapters that read several pages.                                                  *)

(* What a card must not be wrong with to be taken.                                        *)
LEMMA TakesOthers ==
  ASSUME NEW a, a # "freelancer", NEW c
  PROVE  Takes(a, c) <=> c.flaw \notin Refuses[a] \cup {"record", "raises", "unread"}
  BY DEF Takes

LEMMA FreelancerNext ==
  ASSUME ScanInv, ScanFreelancer
  PROVE  ScanInv'
<1> DEFINE C == CardsOf("freelancer")
<1> HIDE DEF C
<1>1. PICK cards \in Pages("freelancer") :
        /\ NextPage("freelancer", cards)
        /\ \/ PageFails
           \/ scan' = [scan EXCEPT !.rows = MergePage(scan.rows, FreelancerPage(cards).rows, "competition"),
                                   !.hidden = @ \/ FreelancerPage(cards).hidden,
                                   !.cut = @ \/ FreelancerPage(cards).cut
                                           \/ Full(MergePage(scan.rows, FreelancerPage(cards).rows, "competition"))]
  BY DEF ScanFreelancer
<1>2. scan.adapter = "freelancer" /\ "freelancer" \in PageNames /\ scan.phase = "pages"
  BY <1>1 DEF NextPage, PageNames
<1>3. cards \in Boards("freelancer") /\ cards \in Seq(C)
  BY PagesAreBoards DEF Boards, C
<1>4. CASE PageFails
  BY <1>1, <1>2, <1>3, <1>4, PageFailsNext
<1>5. CASE ~PageFails
  <2> DEFINE page == FreelancerPage(cards)
             rows == MergePage(scan.rows, page.rows, "competition")
             hidden == scan.hidden \/ page.hidden
             cut == scan.cut \/ page.cut \/ Full(rows)
  <2>1. /\ scan.rows \in Seq(C) /\ scan.hidden \in BOOLEAN /\ scan.cut \in BOOLEAN
        /\ scan.todo = <<>> /\ ScanTyped /\ scan.errors \in Nat
    BY <1>2, ScanFields DEF ScanInv, ScanPhases, C, PageNames
  <2>2. /\ page \in Looked(C) /\ page.rows \in Seq(C) /\ page.hidden \in BOOLEAN /\ page.cut \in BOOLEAN
    <3>1. page \in Looked(C)
      BY <1>3, FreelancerYields
    <3> HIDE DEF page
    <3> QED
      BY <3>1 DEF Looked
  <2>3. ~page.cut =>
          \A i \in DOMAIN FirstLinks(cards) : Takes("freelancer", FirstLinks(cards)[i]) =>
            \E j \in DOMAIN page.rows : page.rows[j] = FirstLinks(cards)[i]
    BY <1>3, FreelancerYields
  <2> HIDE DEF page
  <2>4. /\ rows \in Seq(C)
        /\ \A d : HoldsListing(scan.rows, d) => HoldsListing(rows, d)
        /\ ~Full(rows) => \A i \in DOMAIN page.rows : HoldsListing(rows, page.rows[i])
    BY <2>1, <2>2, MergePageYields
  <2>5. scan' = [scan EXCEPT !.rows = rows, !.hidden = hidden, !.cut = cut]
    BY <1>1, <1>5 DEF page
  <2>6. hidden \in BOOLEAN /\ cut \in BOOLEAN
    BY <2>1, <2>2 DEF Full
  <2> HIDE DEF rows
  <2>7. Becomes("pages", rows, scan.todo, scan.errors, hidden, cut, scan.status)
    <3> HIDE DEF hidden, cut
    <3> QED
      BY <1>2, <2>1, <2>4, <2>5, <2>6, BecomesRows DEF C
  <2>8. ~cut => Len(rows) <= MaximumResults
    BY <2>4, ScansAssumption DEF Full
  <2>9. ASSUME ~hidden, ~cut
        PROVE  /\ ~scan.hidden /\ ~scan.cut
               /\ \A c \in Takable("freelancer") : Met(c) => HoldsListing(rows, c)
               /\ \A c \in Offered("freelancer", cards) : HoldsListing(rows, c)
    <3>1. \A c : Met(c) => HoldsListing(scan.rows, c)
      BY <2>1 DEF Met, Waits
    <3>2. ASSUME NEW c \in Offered("freelancer", cards) PROVE HoldsListing(rows, c)
      <4>1. PICK i \in DOMAIN FirstLinks(cards) : c = FirstLinks(cards)[i] /\ Takes("freelancer", c)
        BY DEF Offered, Judged, Range, FeedNames
      <4>2. PICK j \in DOMAIN page.rows : page.rows[j] = c
        BY <2>3, <2>9, <4>1
      <4> QED
        BY <2>4, <2>9, <4>2
    <3> QED
      BY <2>4, <2>9, <3>1, <3>2
  <2> HIDE DEF hidden, cut
  <2>10. /\ scan.adapter # "truelancer" /\ scan.adapter = "freelancer"
         /\ cards \in Boards(scan.adapter) /\ NextPage(scan.adapter, cards)
    BY <1>1, <1>2, <1>3
  <2> QED
    BY <1>2, <2>1, <2>7, <2>8, <2>9, <2>10, PageNext
<1> QED
  BY <1>4, <1>5

LEMMA GuruNext ==
  ASSUME ScanInv, ScanGuru
  PROVE  ScanInv'
<1> DEFINE C == CardsOf("guru")
<1> HIDE DEF C
<1>1. PICK cards \in Pages("guru") :
        /\ NextPage("guru", cards)
        /\ \/ PageFails
           \/ /\ \A i \in DOMAIN FirstLinks(cards) : FirstLinks(cards)[i].flaw # "raises"
              /\ scan' = [scan EXCEPT !.rows = MergePage(scan.rows, GuruPage(cards), "competition"),
                                      !.cut = @ \/ Full(MergePage(scan.rows, GuruPage(cards), "competition"))]
  BY DEF ScanGuru
<1>2. scan.adapter = "guru" /\ "guru" \in PageNames /\ scan.phase = "pages"
  BY <1>1 DEF NextPage, PageNames
<1>3. cards \in Boards("guru") /\ cards \in Seq(C)
  BY PagesAreBoards DEF Boards, C
<1>4. CASE PageFails
  BY <1>1, <1>2, <1>3, <1>4, PageFailsNext
<1>5. CASE ~PageFails
  <2> DEFINE page == GuruPage(cards)
             rows == MergePage(scan.rows, page, "competition")
             cut == scan.cut \/ Full(rows)
  <2>1. /\ scan.rows \in Seq(C) /\ scan.cut \in BOOLEAN /\ scan.hidden \in BOOLEAN
        /\ scan.todo = <<>> /\ ScanTyped /\ scan.errors \in Nat
    BY <1>2, ScanFields DEF ScanInv, ScanPhases, C, PageNames
  <2>2. FirstLinks(cards) \in Seq(C)
    BY <1>3, LinksYield
  <2>3. /\ page \in Seq({c \in C : c.flaw \notin GuruRefuses})
        /\ \A i \in DOMAIN FirstLinks(cards) : FirstLinks(cards)[i].flaw \notin GuruRefuses =>
             \E j \in DOMAIN page : page[j] = FirstLinks(cards)[i]
    BY <2>2, AcceptedYields DEF GuruPage
  <2>p. page \in Seq(C)
    <3> DEFINE D == {c \in C : c.flaw \notin GuruRefuses}
    <3>1. D \subseteq C /\ page \in Seq(D)
      BY <2>3
    <3> HIDE DEF D, page
    <3> QED
      BY <3>1
  <2> HIDE DEF page
  <2>4. /\ rows \in Seq(C)
        /\ \A d : HoldsListing(scan.rows, d) => HoldsListing(rows, d)
        /\ ~Full(rows) => \A i \in DOMAIN page : HoldsListing(rows, page[i])
    BY <2>1, <2>p, MergePageYields
  <2>5. scan' = [scan EXCEPT !.rows = rows, !.cut = cut]
    BY <1>1, <1>5 DEF page
  <2>6. cut \in BOOLEAN
    BY <2>1 DEF Full
  <2> HIDE DEF rows
  <2>7. Becomes("pages", rows, scan.todo, scan.errors, scan.hidden, cut, scan.status)
    <3> HIDE DEF cut
    <3> QED
      BY <1>2, <2>1, <2>4, <2>5, <2>6, BecomesCut DEF C
  <2>8. ~cut => Len(rows) <= MaximumResults
    BY <2>4, ScansAssumption DEF Full
  <2>9. ASSUME ~scan.hidden, ~cut
        PROVE  /\ ~scan.cut
               /\ \A c \in Takable("guru") : Met(c) => HoldsListing(rows, c)
               /\ \A c \in Offered("guru", cards) : HoldsListing(rows, c)
    <3>1. \A c : Met(c) => HoldsListing(scan.rows, c)
      BY <2>1 DEF Met, Waits
    <3>2. ASSUME NEW c \in Offered("guru", cards) PROVE HoldsListing(rows, c)
      <4>1. PICK i \in DOMAIN FirstLinks(cards) : c = FirstLinks(cards)[i] /\ Takes("guru", c)
        BY DEF Offered, Judged, Range, FeedNames
      <4>2. c.flaw \notin GuruRefuses
        BY <4>1, TakesOthers DEF Refuses
      <4>3. PICK j \in DOMAIN page : page[j] = c
        BY <2>3, <4>1, <4>2
      <4> QED
        BY <2>4, <2>9, <4>3
    <3> QED
      BY <2>4, <2>9, <3>1, <3>2
  <2> HIDE DEF cut
  <2>10. /\ scan.adapter # "truelancer" /\ scan.adapter = "guru"
         /\ cards \in Boards(scan.adapter) /\ NextPage(scan.adapter, cards)
    BY <1>1, <1>2, <1>3
  <2> QED
    BY <1>2, <2>1, <2>6, <2>7, <2>8, <2>9, <2>10, PageNext
<1> QED
  BY <1>4, <1>5

LEMMA SeqOfLess ==
  ASSUME NEW C, NEW D, D \subseteq C, NEW s \in Seq(D)
  PROVE  s \in Seq(C)
  OBVIOUS

LEMMA AlgoraNext ==
  ASSUME ScanInv, ScanAlgora
  PROVE  ScanInv'
<1> DEFINE C == CardsOf("algora")
<1> HIDE DEF C
<1>1. PICK cards \in Pages("algora") :
        /\ NextPage("algora", cards)
        /\ \/ PageFails
           \/ scan' = [scan EXCEPT !.rows = MergeAll(@, Accepted(cards, AlgoraRefuses), "reward")]
  BY DEF ScanAlgora
<1>2. scan.adapter = "algora" /\ "algora" \in PageNames /\ scan.phase = "pages"
  BY <1>1 DEF NextPage, PageNames
<1>3. cards \in Boards("algora") /\ cards \in Seq(C)
  BY PagesAreBoards DEF Boards, C
<1>4. CASE PageFails
  BY <1>1, <1>2, <1>3, <1>4, PageFailsNext
<1>5. CASE ~PageFails
  <2> DEFINE page == Accepted(cards, AlgoraRefuses)
             rows == MergeAll(scan.rows, page, "reward")
             D == {c \in C : c.flaw \notin AlgoraRefuses}
  <2>1. /\ scan.rows \in Seq(C) /\ scan.hidden \in BOOLEAN /\ scan.cut \in BOOLEAN
        /\ scan.todo = <<>> /\ ScanTyped /\ scan.errors \in Nat
    BY <1>2, ScanFields DEF ScanInv, ScanPhases, C, PageNames
  <2>3. /\ page \in Seq(D)
        /\ \A i \in DOMAIN cards : cards[i].flaw \notin AlgoraRefuses =>
             \E j \in DOMAIN page : page[j] = cards[i]
    BY <1>3, AcceptedYields
  <2>p. page \in Seq(C)
    <3>1. D \subseteq C
      OBVIOUS
    <3> HIDE DEF D, page
    <3> QED
      BY <2>3, <3>1, SeqOfLess
  <2> HIDE DEF page
  <2>4. /\ rows \in Seq(C)
        /\ \A d : HoldsListing(scan.rows, d) => HoldsListing(rows, d)
        /\ \A i \in DOMAIN page : HoldsListing(rows, page[i])
    BY <2>1, <2>p, MergeAllYields
  <2>5. scan' = [scan EXCEPT !.rows = rows]
    BY <1>1, <1>5 DEF page
  <2> HIDE DEF rows
  <2>7. Becomes("pages", rows, scan.todo, scan.errors, scan.hidden, scan.cut, scan.status)
    BY <1>2, <2>1, <2>4, <2>5, BecomesAll DEF C
  <2>9. /\ \A c \in Takable("algora") : Met(c) => HoldsListing(rows, c)
        /\ \A c \in Offered("algora", cards) : HoldsListing(rows, c)
    <3>1. \A c : Met(c) => HoldsListing(scan.rows, c)
      BY <2>1 DEF Met, Waits
    <3>2. ASSUME NEW c \in Offered("algora", cards) PROVE HoldsListing(rows, c)
      <4>1. PICK i \in DOMAIN cards : c = cards[i] /\ Takes("algora", c)
        BY DEF Offered, Judged, Range, FeedNames
      <4>2. c.flaw \notin AlgoraRefuses
        BY <4>1, TakesOthers DEF Refuses
      <4>3. PICK j \in DOMAIN page : page[j] = c
        BY <2>3, <4>1, <4>2
      <4> QED
        BY <2>4, <4>3
    <3> QED
      BY <2>4, <3>1, <3>2
  <2>10. /\ scan.adapter # "truelancer" /\ scan.adapter = "algora"
         /\ cards \in Boards(scan.adapter) /\ NextPage(scan.adapter, cards)
    BY <1>1, <1>2, <1>3
  <2> QED
    BY <1>2, <2>1, <2>7, <2>9, <2>10, PageNext
<1> QED
  BY <1>4, <1>5


(* The issues that a query reads before one that raises are a beginning of its page.       *)
LEMMA IssuesYield ==
  ASSUME NEW C, NEW cards \in Seq(C)
  PROVE  /\ Cardinality(IssuesRead(cards)) \in 0 .. Len(cards)
         /\ IssuesRead(cards) = DOMAIN cards => Cardinality(IssuesRead(cards)) = Len(cards)
         /\ SubSeq(cards, 1, Cardinality(IssuesRead(cards))) \in Seq(C)
         /\ IssuesRead(cards) = DOMAIN cards =>
              SubSeq(cards, 1, Cardinality(IssuesRead(cards))) = cards
<1> DEFINE n == Len(cards)
           m == Cardinality(IssuesRead(cards))
<1>1. n \in Nat /\ DOMAIN cards = 1 .. n /\ IssuesRead(cards) \subseteq 1 .. n
  BY DEF IssuesRead
<1>2. IsFiniteSet(1 .. n) /\ Cardinality(1 .. n) = n
  <2>1. n \in Int /\ 1 \in Int /\ n >= 0
    BY <1>1
  <2> HIDE DEF n
  <2>2. /\ IsFiniteSet(1 .. n)
        /\ Cardinality(1 .. n) = IF 1 > n THEN 0 ELSE n - 1 + 1
    BY <2>1, FS_Interval
  <2> QED
    BY <2>1, <2>2
<1>3. m \in 0 .. n
  BY <1>1, <1>2, FS_Subset, FS_CardinalityType
<1>4. IssuesRead(cards) = DOMAIN cards => m = n
  BY <1>1, <1>2
<1> HIDE DEF m
<1>5. SubSeq(cards, 1, m) \in Seq(C) /\ SubSeq(cards, 1, n) = cards
  BY <1>1, <1>3
<1> QED
  BY <1>3, <1>4, <1>5 DEF m

LEMMA GitHubNext ==
  ASSUME ScanInv, ScanGitHub
  PROVE  ScanInv'
<1> DEFINE C == CardsOf("github")
<1> HIDE DEF C
<1>1. PICK cards \in Pages("github") :
        /\ NextPage("github", cards)
        /\ \/ PageFails
           \/ scan' = [scan EXCEPT
                !.rows = MergePage(scan.rows, GitHubIssue(cards), "latest"),
                !.hidden = @ \/ \E i \in IssuesRead(cards) : cards[i].flaw = "unread",
                !.errors = IF /\ IssuesRead(cards) # DOMAIN cards
                              /\ ~Full(MergePage(scan.rows, GitHubIssue(cards), "latest"))
                           THEN @ + 1 ELSE @,
                !.cut = @ \/ Full(MergePage(scan.rows, GitHubIssue(cards), "latest"))]
  BY DEF ScanGitHub
<1>2. scan.adapter = "github" /\ "github" \in PageNames /\ scan.phase = "pages"
  BY <1>1 DEF NextPage, PageNames
<1>3. cards \in Boards("github") /\ cards \in Seq(C)
  BY PagesAreBoards DEF Boards, C
<1>4. CASE PageFails
  BY <1>1, <1>2, <1>3, <1>4, PageFailsNext
<1>5. CASE ~PageFails
  <2> DEFINE part == SubSeq(cards, 1, Cardinality(IssuesRead(cards)))
             refuses == GitHubRefuses \cup {"unread"}
             page == GitHubIssue(cards)
             rows == MergePage(scan.rows, page, "latest")
             hidden == scan.hidden \/ \E i \in IssuesRead(cards) : cards[i].flaw = "unread"
             errors == IF IssuesRead(cards) # DOMAIN cards /\ ~Full(rows)
                       THEN scan.errors + 1 ELSE scan.errors
             cut == scan.cut \/ Full(rows)
             D == {c \in C : c.flaw \notin refuses}
  <2>1. /\ scan.rows \in Seq(C) /\ scan.hidden \in BOOLEAN /\ scan.cut \in BOOLEAN
        /\ scan.todo = <<>> /\ ScanTyped /\ scan.errors \in Nat
    BY <1>2, ScanFields DEF ScanInv, ScanPhases, C, PageNames
  <2>2. part \in Seq(C) /\ (IssuesRead(cards) = DOMAIN cards => part = cards)
    BY <1>3, IssuesYield
  <2>3. /\ page \in Seq(D)
        /\ \A i \in DOMAIN part : part[i].flaw \notin refuses =>
             \E j \in DOMAIN page : page[j] = part[i]
    <3> HIDE DEF part, refuses
    <3>1. /\ Accepted(part, refuses) \in Seq(D)
          /\ \A i \in DOMAIN part : part[i].flaw \notin refuses =>
               \E j \in DOMAIN Accepted(part, refuses) : Accepted(part, refuses)[j] = part[i]
      BY <2>2, AcceptedYields
    <3>2. page = Accepted(part, refuses)
      BY DEF GitHubIssue, part, refuses
    <3> QED
      BY <3>1, <3>2
  <2>p. page \in Seq(C)
    <3>1. D \subseteq C
      OBVIOUS
    <3> HIDE DEF D, page
    <3> QED
      BY <2>3, <3>1, SeqOfLess
  <2> HIDE DEF page
  <2>4. /\ rows \in Seq(C)
        /\ \A d : HoldsListing(scan.rows, d) => HoldsListing(rows, d)
        /\ ~Full(rows) => \A i \in DOMAIN page : HoldsListing(rows, page[i])
    BY <2>1, <2>p, MergePageYields
  <2>5. scan' = [scan EXCEPT !.rows = rows, !.hidden = hidden, !.errors = errors, !.cut = cut]
    BY <1>1, <1>5 DEF page
  <2>6. /\ hidden \in BOOLEAN /\ cut \in BOOLEAN /\ errors \in Nat
        /\ errors \in {scan.errors, scan.errors + 1}
    BY <2>1 DEF Full
  <2> HIDE DEF rows
  <2>7. Becomes("pages", rows, scan.todo, errors, hidden, cut, scan.status)
    <3> HIDE DEF hidden, cut, errors
    <3> QED
      BY <1>2, <2>1, <2>4, <2>5, <2>6, BecomesPage DEF C
  <2>8. ~cut => Len(rows) <= MaximumResults
    BY <2>4, ScansAssumption DEF Full
  <2>9. ASSUME errors = 0, ~hidden, ~cut
        PROVE  /\ ~scan.hidden /\ ~scan.cut
               /\ \A c \in Takable("github") : Met(c) => HoldsListing(rows, c)
               /\ \A c \in Offered("github", cards) : HoldsListing(rows, c)
    <3>1. \A c : Met(c) => HoldsListing(scan.rows, c)
      BY <2>1 DEF Met, Waits
    <3>r. IssuesRead(cards) = DOMAIN cards /\ part = cards
      BY <2>1, <2>2, <2>9
    <3>2. ASSUME NEW c \in Offered("github", cards) PROVE HoldsListing(rows, c)
      <4>1. PICK i \in DOMAIN cards : c = cards[i] /\ Takes("github", c)
        BY DEF Offered, Judged, Range, FeedNames
      <4>2. c.flaw \notin refuses
        BY <4>1, TakesOthers DEF Refuses
      <4>3. PICK j \in DOMAIN page : page[j] = c
        BY <2>3, <3>r, <4>1, <4>2
      <4> QED
        BY <2>4, <2>9, <4>3
    <3> QED
      BY <2>4, <2>9, <3>1, <3>2
  <2> HIDE DEF hidden, cut, errors
  <2>10. /\ scan.adapter # "truelancer" /\ scan.adapter = "github"
         /\ cards \in Boards(scan.adapter) /\ NextPage(scan.adapter, cards)
    BY <1>1, <1>2, <1>3
  <2> QED
    BY <1>2, <2>1, <2>6, <2>7, <2>8, <2>9, <2>10, PageNext
<1> QED
  BY <1>4, <1>5

(* A card of Truelancer that can be taken waits as soon as its listing is on the list: the  *)
(* card that stands there for it has no other flaw.                                        *)
LEMMA ListedWaits ==
  ASSUME NEW todo \in Seq(Listed), NEW c \in Takable("truelancer"), HoldsListing(todo, c)
  PROVE  Waits(todo, "truelancer", c)
<1>1. PICK i \in DOMAIN todo : todo[i].listing = c.listing
  BY DEF HoldsListing
<1>2. todo[i] \in Listed
  <2> DEFINE L == Listed
  <2> HIDE DEF L
  <2>1. todo \in Seq(L)
    BY DEF L
  <2>2. todo[i] \in L
    BY <2>1
  <2> QED
    BY <2>2 DEF L
<1>3. c \in CardsOf("truelancer") /\ c.flaw \notin TruelancerLists \cup TruelancerDetail \cup {"unread"}
  BY TakesOthers DEF Takable, Refuses
<1>4. todo[i] \in CardsOf("truelancer") /\ todo[i].flaw \notin TruelancerLists
  BY <1>2 DEF Listed
<1>5. todo[i].flaw \notin TruelancerDetail
  BY <1>1, <1>3, <1>4, ScansAssumption
<1>6. todo[i].flaw \notin Refuses["truelancer"]
  BY <1>4, <1>5 DEF Refuses
<1> QED
  BY <1>1, <1>6 DEF Waits

LEMMA TruelancerNext ==
  ASSUME ScanInv, ScanTruelancer
  PROVE  ScanInv'
<1> DEFINE C == CardsOf("truelancer")
<1> HIDE DEF C
<1>1. PICK cards \in Pages("truelancer") :
        /\ NextPage("truelancer", cards)
        /\ \/ PageFails
           \/ scan' = [scan EXCEPT !.todo = MergeAll(@, TruelancerPage(cards), "earliest")]
  BY DEF ScanTruelancer
<1>2. scan.adapter = "truelancer" /\ "truelancer" \in PageNames /\ scan.phase = "pages"
  BY <1>1 DEF NextPage, PageNames
<1>3. cards \in Boards("truelancer") /\ cards \in Seq(C) /\ FirstLinks(cards) \in Seq(C)
  BY PagesAreBoards, LinksYield DEF Boards, C
<1>4. CASE PageFails
  BY <1>1, <1>2, <1>3, <1>4, PageFailsNext
<1>5. CASE ~PageFails
  <2> DEFINE page == TruelancerPage(cards)
             todo == MergeAll(scan.todo, page, "earliest")
             L == Listed
  <2>0. L = {c \in C : c.flaw \notin TruelancerLists}
    BY DEF Listed, C
  <2>1. /\ scan.rows = <<>> /\ scan.todo \in Seq(L) /\ ~scan.cut /\ scan.hidden \in BOOLEAN
        /\ ScanTyped /\ scan.errors \in Nat
    BY <1>2, ScanFields DEF ScanInv, ScanPhases
  <2>3. /\ page \in Seq(L)
        /\ \A i \in DOMAIN FirstLinks(cards) : FirstLinks(cards)[i].flaw \notin TruelancerLists =>
             \E j \in DOMAIN page : page[j] = FirstLinks(cards)[i]
    BY <1>3, <2>0, AcceptedYields DEF TruelancerPage
  <2> HIDE DEF page, L
  <2>4. /\ todo \in Seq(L)
        /\ \A d : HoldsListing(scan.todo, d) => HoldsListing(todo, d)
        /\ \A i \in DOMAIN page : HoldsListing(todo, page[i])
    BY <2>1, <2>3, MergeAllYields
  <2>5. scan' = [scan EXCEPT !.todo = todo]
    BY <1>1, <1>5 DEF page
  <2> HIDE DEF todo
  <2>6. todo \in Seq(CardsOf(scan.adapter)) /\ todo \in Seq(Listed)
    <3>1. L \subseteq C
      BY <2>0
    <3>2. todo \in Seq(C)
      BY <2>4, <3>1, SeqOfLess
    <3> QED
      BY <1>2, <2>4, <3>2 DEF C, L
  <2>7. Becomes("pages", scan.rows, todo, scan.errors, scan.hidden, scan.cut, scan.status)
    BY <1>2, <2>1, <2>5, <2>6, BecomesTodo
  <2>9. /\ \A c \in Takable("truelancer") : Met(c) => Waits(todo, "truelancer", c)
        /\ \A c \in Offered("truelancer", cards) : Waits(todo, "truelancer", c)
    <3>1. \A c : Met(c) => HoldsListing(scan.todo, c)
      BY <1>2, <2>1 DEF Met, Waits, HoldsListing
    <3>2. ASSUME NEW c \in Offered("truelancer", cards)
          PROVE  HoldsListing(todo, c) /\ c \in Takable("truelancer")
      <4>1. PICK i \in DOMAIN FirstLinks(cards) : c = FirstLinks(cards)[i] /\ Takes("truelancer", c)
        BY DEF Offered, Judged, Range, FeedNames
      <4>2. c.flaw \notin TruelancerLists
        BY <4>1, TakesOthers DEF Refuses
      <4>3. PICK j \in DOMAIN page : page[j] = c
        BY <2>3, <4>1, <4>2
      <4>4. c \in Takable("truelancer")
        BY <1>3, OfferedIsTakable DEF Boards
      <4> QED
        BY <2>4, <4>3, <4>4
    <3> QED
      BY <2>4, <2>6, <3>1, <3>2, ListedWaits
  <2>10. scan.adapter = "truelancer" /\ cards \in Boards(scan.adapter) /\ NextPage(scan.adapter, cards)
    BY <1>1, <1>2, <1>3
  <2> QED
    BY <1>2, <2>1, <2>6, <2>7, <2>9, <2>10, PageNext
<1> QED
  BY <1>4, <1>5

--------------------------------------------------------------------------------
(* The adapters that open what a list names.                                              *)

LEMMA LimitedYields ==
  ASSUME NEW C, NEW cards \in Seq(C)
  PROVE  /\ Limited(cards) \in Seq(C) /\ Len(Limited(cards)) <= MaximumResults
         /\ Len(cards) <= MaximumResults => Limited(cards) = cards
<1>1. MaximumResults \in Nat /\ Len(cards) \in Nat
  BY ScansAssumption
<1>2. CASE Len(cards) <= MaximumResults
  BY <1>1, <1>2 DEF Limited
<1>3. CASE Len(cards) > MaximumResults
  <2>1. Limited(cards) = SubSeq(cards, 1, MaximumResults)
    BY <1>3 DEF Limited
  <2>2. SubSeq(cards, 1, MaximumResults) \in Seq(C) /\ Len(SubSeq(cards, 1, MaximumResults)) = MaximumResults
    BY <1>1, <1>3
  <2> QED
    BY <1>1, <1>3, <2>1, <2>2
<1> QED
  BY <1>1, <1>2, <1>3

(* The details begin: the pages are read, and what they list waits, or was cut.            *)
LEMMA OpensNext ==
  ASSUME ScanInv, NEW todo, NEW cut,
         Becomes("details", <<>>, todo, scan.errors, scan.hidden, cut, "none"),
         scan.adapter \in LinkNames \cup {"truelancer"},
         scan.adapter = "truelancer" => todo \in Seq(Listed),
         shown' \in Seq(Boards(scan.adapter)), Len(shown') <= PageCount, scan.errors <= PageCount,
         Len(todo) <= MaximumResults,
         scan.errors = 0 /\ ~scan.hidden /\ ~cut =>
           \A p \in DOMAIN shown' : \A c \in Offered(scan.adapter, shown'[p]) :
             Waits(todo, scan.adapter, c)
  PROVE  ScanInv'
<1> DEFINE a == scan.adapter
<1>a. scan'.adapter = a /\ a \in Adapters
  BY DEF Becomes, ScanInv, ScanTyped
<1>1. ScanTyped'
  BY <1>a DEF Becomes, ScanTyped
<1>2. ScanPhases'
  <2>1. a \notin FeedNames /\ a \notin PageNames \ {"truelancer"}
    BY DEF PageNames, FeedNames, LinkNames
  <2> QED
    BY <2>1 DEF Becomes, ScanPhases
<1>3. ScanBounds'
  <2>1. todo \in Seq(CardsOf(a)) /\ scan.errors \in Nat /\ MaximumResults \in Nat /\ PageCount \in Nat
    BY <1>a, ScansAssumption, ScanFields DEF Becomes, ScanRec, ScanInv
  <2>2. Len(todo) \in Nat /\ Len(<<>>) = 0
    BY <2>1
  <2>3. /\ Len(<<>>) + Len(todo) <= MaximumResults
        /\ scan.errors + Len(todo) <= PageCount + MaximumResults
        /\ scan.errors <= PageCount + MaximumResults
    BY <2>1, <2>2
  <2>4. a \notin {"freelancer", "guru", "github"}
    BY DEF LinkNames
  <2> QED
    BY <2>3, <2>4 DEF Becomes, ScanBounds
<1>4. ScanComplete'
  <2> SUFFICES ASSUME Undisturbed', NEW p \in DOMAIN shown', NEW c \in Acceptable(p)' PROVE Met(c)'
    BY DEF ScanComplete
  <2>1. scan.errors = 0 /\ ~scan.hidden /\ ~cut
    BY DEF Undisturbed, Becomes
  <2>2. c \in Offered(a, shown'[p])
    BY <1>a DEF Acceptable, Offered
  <2>3. Waits(todo, a, c)
    BY <2>1, <2>2
  <2> QED
    BY <1>a, <2>3 DEF Met, Becomes
<1> QED
  BY <1>1, <1>2, <1>3, <1>4 DEF ScanInv

LEMMA OpenTruelancerNext ==
  ASSUME ScanInv, OpenTruelancer
  PROVE  ScanInv'
<1> DEFINE L == Listed
           C == CardsOf("truelancer")
           todo == Limited(scan.todo)
           cut == Len(scan.todo) > MaximumResults
<1>1. /\ scan.adapter = "truelancer" /\ scan.phase = "pages" /\ scan.rows = <<>> /\ ~scan.cut
      /\ scan.status = "none" /\ scan.todo \in Seq(L) /\ Len(shown) <= PageCount
      /\ scan.errors <= Len(shown) /\ scan.errors \in Nat /\ ScanTyped /\ scan.hidden \in BOOLEAN
      /\ shown' = shown /\ scan' = [scan EXCEPT !.phase = "details", !.todo = todo, !.cut = cut]
  BY ScanFields DEF OpenTruelancer, ScanInv, ScanPhases, ScanBounds
<1>2. L \subseteq C
  BY DEF Listed
<1> HIDE DEF L, C
<1>3. todo \in Seq(L) /\ Len(todo) <= MaximumResults /\ (~cut => todo = scan.todo) /\ cut \in BOOLEAN
  <2>1. Len(scan.todo) \in Nat /\ MaximumResults \in Nat
    BY <1>1, ScansAssumption
  <2> QED
    BY <1>1, <2>1, LimitedYields
<1>4. todo \in Seq(C)
  BY <1>2, <1>3, SeqOfLess
<1> HIDE DEF todo, cut
<1>5. Becomes("details", <<>>, todo, scan.errors, scan.hidden, cut, "none")
  <2>1. Becomes("details", scan.rows, todo, scan.errors, scan.hidden, cut, scan.status)
    BY <1>1, <1>3, <1>4, BecomesOpen DEF C
  <2> QED
    BY <1>1, <2>1
<1>6. shown' \in Seq(Boards(scan.adapter)) /\ Len(shown') <= PageCount /\ scan.errors <= PageCount
  <2>1. shown \in Seq(Boards(scan.adapter)) /\ PageCount \in Nat
    BY ScansAssumption DEF ScanInv, ScanTyped
  <2>2. Len(shown) \in Nat
    BY <2>1
  <2> QED
    BY <1>1, <2>1, <2>2
<1>7. ASSUME scan.errors = 0, ~scan.hidden, ~cut, NEW p \in DOMAIN shown',
             NEW c \in Offered("truelancer", shown'[p])
      PROVE  Waits(todo, "truelancer", c)
  <2>1. Undisturbed
    BY <1>1, <1>7 DEF Undisturbed
  <2>2. c \in Acceptable(p) /\ p \in DOMAIN shown
    BY <1>1, <1>7 DEF Acceptable, Offered
  <2>3. Met(c)
    BY <2>1, <2>2 DEF ScanInv, ScanComplete
  <2> QED
    BY <1>1, <1>3, <1>7, <2>3 DEF Met, HoldsListing
<1>8. todo \in Seq(Listed)
  BY <1>3 DEF L
<1> QED
  BY <1>1, <1>3, <1>5, <1>6, <1>7, <1>8, OpensNext DEF LinkNames

LEMMA IndexNext ==
  ASSUME ScanInv, NEW name \in LinkNames, ScanIndex(name)
  PROVE  ScanInv'
<1> DEFINE C == CardsOf(name)
           B == Boards(name)
<1>1. PICK cards \in Pages(name) :
        /\ NextPage(name, cards) /\ shown = <<>>
        /\ \/ IndexFails
           \/ scan' = [scan EXCEPT !.phase = "details", !.todo = Limited(FirstLinks(cards)),
                                   !.cut = Len(FirstLinks(cards)) > MaximumResults]
  BY DEF ScanIndex
<1>2. /\ scan.adapter = name /\ scan.phase = "pages" /\ scan.rows = <<>> /\ scan.todo = <<>>
      /\ scan.status = "none" /\ scan.errors = 0 /\ ScanTyped /\ scan.hidden \in BOOLEAN
      /\ name # "truelancer" /\ name \notin FeedNames /\ name \notin PageNames
  BY <1>1, ScanFields DEF NextPage, ScanInv, ScanPhases, LinkNames, FeedNames, PageNames
<1>3. cards \in B
  BY PagesAreBoards
<1>4. cards \in Seq(C) /\ FirstLinks(cards) \in Seq(C)
  <2>1. cards \in Seq(C)
    BY <1>3 DEF Boards
  <2> HIDE DEF C
  <2> QED
    BY <2>1, LinksYield
<1> HIDE DEF B, C
<1>5. /\ shown' = <<cards>> /\ shown' \in Seq(B) /\ Len(shown') = 1 /\ DOMAIN shown' = {1}
      /\ shown'[1] = cards
  <2>1. shown' = Append(<<>>, cards)
    BY <1>1 DEF NextPage
  <2>2. Append(<<>>, cards) = <<cards>>
    OBVIOUS
  <2>3. <<cards>> \in Seq(B) /\ Len(<<cards>>) = 1 /\ <<cards>>[1] = cards /\ DOMAIN <<cards>> = {1}
    BY <1>3
  <2> QED
    BY <2>1, <2>2, <2>3
<1>6. 1 <= PageCount /\ 0 <= PageCount
  BY ScansAssumption
<1>7. CASE IndexFails
  <2>1. Becomes("done", <<>>, <<>>, 0, scan.hidden, scan.cut, "failed")
    <3>1. scan' = [scan EXCEPT !.phase = "done", !.status = "failed"] /\ "failed" \in ScanStates
      BY <1>7 DEF IndexFails, ScanStates
    <3>2. Becomes("done", scan.rows, scan.todo, scan.errors, scan.hidden, scan.cut, "failed")
      BY <1>2, <3>1, BecomesAway
    <3> QED
      BY <1>2, <3>2
  <2>2. ScanTyped'
    BY <1>2, <1>5, <2>1 DEF ScanTyped, Becomes, B
  <2>3. ScanPhases'
    BY <1>2, <2>1 DEF ScanPhases, Becomes
  <2>4. ScanBounds'
    <3>1. 0 <= PageCount + MaximumResults
      BY <1>6, ScansAssumption
    <3>2. name \notin {"freelancer", "guru", "github"}
      BY <1>2 DEF PageNames
    <3> QED
      BY <1>2, <1>5, <1>6, <2>1, <3>1, <3>2 DEF ScanBounds, Becomes
  <2>5. ScanComplete'
    BY <2>1 DEF ScanComplete, Undisturbed, Becomes
  <2> QED
    BY <2>2, <2>3, <2>4, <2>5 DEF ScanInv
<1>8. CASE ~IndexFails
  <2> DEFINE links == FirstLinks(cards)
             todo == Limited(links)
             cut == Len(links) > MaximumResults
  <2>1. scan' = [scan EXCEPT !.phase = "details", !.todo = todo, !.cut = cut]
    BY <1>1, <1>8
  <2>2. todo \in Seq(C) /\ Len(todo) <= MaximumResults /\ (~cut => todo = links) /\ cut \in BOOLEAN
    <3>1. Len(links) \in Nat /\ MaximumResults \in Nat
      BY <1>4, ScansAssumption
    <3> HIDE DEF links
    <3>2. links \in Seq(C)
      BY <1>4 DEF links
    <3> QED
      BY <3>1, <3>2, LimitedYields
  <2> HIDE DEF todo, cut
  <2>3. Becomes("details", <<>>, todo, scan.errors, scan.hidden, cut, "none")
    <3>1. Becomes("details", scan.rows, todo, scan.errors, scan.hidden, cut, scan.status)
      BY <1>2, <2>1, <2>2, BecomesOpen DEF C
    <3> QED
      BY <1>2, <3>1
  <2>4. ASSUME ~cut, NEW c \in Offered(name, cards) PROVE Waits(todo, name, c)
    <3>1. name \notin FeedNames \cup {"algora", "github", "freelancer"}
      BY <1>2 DEF PageNames
    <3>2. PICK i \in DOMAIN links : c = links[i] /\ Takes(name, c)
      BY <3>1 DEF Offered, Judged, Range
    <3>3. c.flaw \notin Refuses[name]
      BY <3>1, <3>2, TakesOthers
    <3> QED
      BY <2>2, <2>4, <3>2, <3>3 DEF Waits
  <2>5. /\ scan.adapter = name /\ shown' \in Seq(Boards(scan.adapter)) /\ Len(shown') <= PageCount
        /\ scan.errors <= PageCount /\ scan.adapter \in LinkNames \cup {"truelancer"}
        /\ scan.adapter # "truelancer"
    BY <1>2, <1>5, <1>6 DEF B
  <2>6. ASSUME ~cut, NEW p \in DOMAIN shown', NEW c \in Offered(scan.adapter, shown'[p])
        PROVE  Waits(todo, scan.adapter, c)
    BY <1>2, <1>5, <2>4, <2>6
  <2> QED
    BY <2>2, <2>3, <2>5, <2>6, OpensNext
<1> QED
  BY <1>7, <1>8

LEMMA DetailNext ==
  ASSUME ScanInv, NEW name \in {"opire", "usagov", "truelancer"},
         OpenDetail(name, Refuses[name])
  PROVE  ScanInv'
<1> DEFINE C == CardsOf(name)
           c == Head(scan.todo)
           todo == Tail(scan.todo)
           errors == IF c.flaw = "unread" THEN scan.errors + 1 ELSE scan.errors
           rows == IF c.flaw \in Refuses[name] \cup {"unread"} THEN scan.rows ELSE Append(scan.rows, c)
<1>1. /\ scan.adapter = name /\ scan.phase = "details" /\ scan.todo # <<>> /\ shown' = shown
      /\ scan' = [scan EXCEPT !.todo = todo, !.errors = errors, !.rows = rows]
  BY DEF OpenDetail
<1>2. /\ scan.todo \in Seq(C) /\ scan.rows \in Seq(C) /\ scan.errors \in Nat /\ ScanTyped
      /\ scan.status = "none" /\ name \notin FeedNames /\ name \notin PageNames \ {"truelancer"}
      /\ Len(scan.rows) + Len(scan.todo) <= MaximumResults
      /\ scan.errors + Len(scan.todo) <= PageCount + MaximumResults /\ Len(shown) <= PageCount
  BY <1>1, ScanFields DEF ScanInv, ScanPhases, ScanBounds, FeedNames, PageNames
<1> HIDE DEF C
<1>3. /\ c \in C /\ todo \in Seq(C) /\ Len(todo) = Len(scan.todo) - 1 /\ Len(scan.todo) \in Nat
      /\ DOMAIN scan.todo = 1 .. Len(scan.todo) /\ DOMAIN todo = 1 .. Len(todo)
      /\ scan.todo[1] = c /\ \A i \in DOMAIN scan.todo : i # 1 => i - 1 \in DOMAIN todo /\ todo[i - 1] = scan.todo[i]
  BY <1>1, <1>2
<1>4. name = "truelancer" => todo \in Seq(Listed)
  <2> DEFINE L == Listed
  <2>1. name = "truelancer" => scan.todo \in Seq(L)
    BY <1>1 DEF ScanInv, ScanPhases
  <2> HIDE DEF L
  <2>2. name = "truelancer" => Tail(scan.todo) \in Seq(L)
    BY <1>1, <2>1
  <2> QED
    BY <2>2 DEF L
<1> HIDE DEF c, todo
<1>5. /\ rows \in Seq(C) /\ errors \in Nat /\ errors <= scan.errors + 1
      /\ Len(rows) <= Len(scan.rows) + 1 /\ Len(rows) \in Nat /\ Len(scan.rows) \in Nat
      /\ \A d : HoldsListing(scan.rows, d) => HoldsListing(rows, d)
      /\ c.flaw \notin Refuses[name] \cup {"unread"} => HoldsListing(rows, c)
      /\ errors = 0 => scan.errors = 0 /\ c.flaw # "unread"
  BY <1>2, <1>3, HeldByAppend
<1> HIDE DEF rows, errors
<1>6. Becomes("details", rows, todo, errors, scan.hidden, scan.cut, "none")
  <2>1. Becomes(scan.phase, rows, todo, errors, scan.hidden, scan.cut, scan.status)
    BY <1>1, <1>2, <1>3, <1>5, BecomesDetail DEF C
  <2> QED
    BY <1>1, <1>2, <2>1
<1>7. ScanTyped'
  BY <1>1, <1>2, <1>6 DEF ScanTyped, Becomes
<1>8. ScanPhases'
  BY <1>1, <1>2, <1>4, <1>6 DEF ScanPhases, Becomes
<1>9. ScanBounds'
  <2>1. MaximumResults \in Nat /\ PageCount \in Nat
    BY ScansAssumption
  <2>2. /\ Len(rows) + Len(todo) <= MaximumResults /\ errors + Len(todo) <= PageCount + MaximumResults
        /\ errors <= PageCount + MaximumResults
    <3>1. Len(todo) = Len(scan.todo) - 1 /\ Len(scan.todo) \in Nat /\ scan.errors \in Nat
      BY <1>2, <1>3
    <3>2. Len(rows) <= Len(scan.rows) + 1 /\ errors <= scan.errors + 1
          /\ Len(rows) \in Nat /\ Len(scan.rows) \in Nat /\ errors \in Nat
      BY <1>5
    <3>3. /\ Len(scan.rows) + Len(scan.todo) <= MaximumResults
          /\ scan.errors + Len(scan.todo) <= PageCount + MaximumResults
      BY <1>2
    <3>4. 0 <= Len(todo)
      <4>1. Len(todo) \in Nat
        BY <1>3
      <4> QED
        BY <4>1
    <3> DEFINE w == Len(scan.todo)
               x == Len(scan.rows)
               y == Len(rows)
               z == Len(todo)
    <3>5. /\ z = w - 1 /\ w \in Nat /\ scan.errors \in Nat /\ y <= x + 1 /\ errors <= scan.errors + 1
          /\ y \in Nat /\ x \in Nat /\ errors \in Nat /\ x + w <= MaximumResults
          /\ scan.errors + w <= PageCount + MaximumResults /\ 0 <= z
      BY <3>1, <3>2, <3>3, <3>4
    <3> HIDE DEF w, x, y, z
    <3>6. y + z <= MaximumResults
      BY <2>1, <3>5
    <3>7. errors + z <= PageCount + MaximumResults
      BY <2>1, <3>5
    <3>8. errors <= PageCount + MaximumResults
      BY <2>1, <3>5, <3>7
    <3> QED
      BY <3>6, <3>7, <3>8 DEF y, z
  <2>3. name \notin {"freelancer", "guru", "github"}
    OBVIOUS
  <2> QED
    BY <1>1, <1>2, <1>6, <2>2, <2>3 DEF ScanBounds, Becomes
<1>10. ScanComplete'
  <2> SUFFICES ASSUME Undisturbed', NEW p \in DOMAIN shown', NEW d \in Acceptable(p)' PROVE Met(d)'
    BY DEF ScanComplete
  <2>1. errors = 0 /\ Undisturbed
    BY <1>2, <1>5, <1>6 DEF Undisturbed, Becomes
  <2>2. Met(d)
    BY <1>1, <1>6, <2>1 DEF ScanInv, ScanComplete, Acceptable, Becomes
  <2>3. CASE HoldsListing(scan.rows, d)
    BY <1>5, <1>6, <2>3 DEF Met, Becomes
  <2>4. CASE Waits(scan.todo, name, d)
    <3>1. PICK i \in DOMAIN scan.todo : scan.todo[i].listing = d.listing /\ scan.todo[i].flaw \notin Refuses[name]
      BY <2>4 DEF Waits
    <3>2. CASE i = 1
      <4>1. HoldsListing(rows, c) /\ c.listing = d.listing
        BY <1>3, <1>5, <2>1, <3>1, <3>2
      <4>2. HoldsListing(rows, d)
        BY <4>1 DEF HoldsListing
      <4> QED
        BY <1>6, <4>2 DEF Met, Becomes
    <3>3. CASE i # 1
      <4>1. Waits(todo, name, d)
        BY <1>3, <3>1, <3>3 DEF Waits
      <4> QED
        BY <1>1, <1>6, <4>1 DEF Met, Becomes
    <3> QED
      BY <3>2, <3>3
  <2> QED
    BY <1>1, <2>2, <2>3, <2>4 DEF Met
<1> QED
  BY <1>7, <1>8, <1>9, <1>10 DEF ScanInv

--------------------------------------------------------------------------------
(* One document.                                                                          *)

(* A scan is over, with what it says: the cards it accepts have rows, if nothing disturbed  *)
(* it.                                                                                    *)
LEMMA ScanEndsNext ==
  ASSUME ScanInv, scan.phase # "done", NEW rows, NEW cut, NEW said \in ScanStates,
         Becomes("done", rows, scan.todo, scan.errors, scan.hidden, cut, said),
         scan.adapter \in PageNames \ {"truelancer"} => scan.phase = "pages",
         shown' \in Seq(Boards(scan.adapter)), Len(shown') <= PageCount,
         scan.adapter \in {"freelancer", "guru", "github"} /\ ~cut => Len(rows) <= MaximumResults,
         said \in {"ok", "empty"} => scan.errors = 0 /\ scan.todo = <<>>,
         said \in {"ok", "empty"} /\ scan.errors = 0 /\ ~scan.hidden /\ ~cut =>
           \A p \in DOMAIN shown' : \A c \in Offered(scan.adapter, shown'[p]) : HoldsListing(rows, c)
  PROVE  ScanInv'
<1> DEFINE a == scan.adapter
<1>a. scan'.adapter = a /\ a \in Adapters /\ said # "none"
  BY DEF Becomes, ScanInv, ScanTyped, ScanStates
<1>1. ScanTyped'
  BY <1>a DEF Becomes, ScanTyped
<1>2. ScanPhases'
  BY <1>a DEF Becomes, ScanPhases, ScanInv
<1>3. ScanBounds'
  BY <1>a DEF Becomes, ScanBounds, ScanInv
<1>4. ScanComplete'
  <2> SUFFICES ASSUME Undisturbed', NEW p \in DOMAIN shown', NEW c \in Acceptable(p)' PROVE Met(c)'
    BY DEF ScanComplete
  <2>1. scan.errors = 0 /\ ~scan.hidden /\ ~cut /\ said \in {"ok", "empty"}
    BY <1>a DEF Undisturbed, Becomes
  <2>2. c \in Offered(a, shown'[p])
    BY <1>a DEF Acceptable, Offered
  <2>3. HoldsListing(rows, c)
    BY <2>1, <2>2
  <2> QED
    BY <2>3 DEF Met, Becomes
<1> QED
  BY <1>1, <1>2, <1>3, <1>4 DEF ScanInv

LEMMA SuperteamGatedNext ==
  ASSUME ScanInv, SuperteamGated
  PROVE  ScanInv'
<1>1. Becomes("done", scan.rows, scan.todo, scan.errors, scan.hidden, scan.cut, "credential_gated")
  <2>1. scan' = [scan EXCEPT !.phase = "done", !.status = "credential_gated"] /\ "credential_gated" \in ScanStates
    BY DEF SuperteamGated, ScanStates
  <2> QED
    BY <2>1, BecomesAway DEF ScanInv
<1>2. /\ scan.adapter = "superteam" /\ scan.phase = "pages" /\ shown' = shown
      /\ "superteam" \notin PageNames /\ "superteam" \notin {"freelancer", "guru", "github"}
      /\ "credential_gated" \notin {"ok", "empty"} /\ "credential_gated" \in ScanStates
      /\ shown \in Seq(Boards(scan.adapter)) /\ Len(shown) <= PageCount
  BY DEF SuperteamGated, PageNames, ScanInv, ScanTyped, ScanBounds, ScanStates
<1> QED
  BY <1>1, <1>2, ScanEndsNext

(* What the rows of a document hold, when no limit cut them.                               *)
LEMMA FeedYields ==
  ASSUME NEW C, NEW cards \in Seq(C), NEW refuses
  PROVE  /\ FeedRows(cards, refuses) \in Seq(C)
         /\ ~Full(FeedRows(cards, refuses)) =>
              \A i \in DOMAIN cards : cards[i].flaw \notin refuses \cup {"record"} =>
                HoldsListing(FeedRows(cards, refuses), cards[i])
<1> DEFINE more == refuses \cup {"record"}
           sound == Accepted(cards, more)
           D == {c \in C : c.flaw \notin more}
           rows == FirstLinks(sound)
<1>1. /\ sound \in Seq(D)
      /\ \A i \in DOMAIN cards : cards[i].flaw \notin more => \E j \in DOMAIN sound : sound[j] = cards[i]
  <2> HIDE DEF more
  <2> QED
    BY AcceptedYields
<1>2. sound \in Seq(C)
  <2>1. D \subseteq C
    OBVIOUS
  <2> HIDE DEF D, sound
  <2> QED
    BY <1>1, <2>1, SeqOfLess
<1> HIDE DEF sound, D
<1>3. rows \in Seq(C) /\ \A j \in DOMAIN sound : HoldsListing(rows, sound[j])
  BY <1>2, LinksYield
<1>4. FeedRows(cards, refuses) = Limited(rows)
  BY DEF FeedRows, Limited, sound
<1> HIDE DEF rows
<1>5. /\ Limited(rows) \in Seq(C) /\ MaximumResults \in Nat /\ Len(rows) \in Nat
      /\ Len(rows) <= MaximumResults => Limited(rows) = rows
  BY <1>3, LimitedYields, ScansAssumption
<1>6. ~Full(Limited(rows)) => Limited(rows) = rows
  <2>1. CASE Len(rows) > MaximumResults
    <3>1. Limited(rows) = SubSeq(rows, 1, MaximumResults) /\ Len(SubSeq(rows, 1, MaximumResults)) = MaximumResults
      BY <1>3, <1>5, <2>1 DEF Limited
    <3> QED
      BY <1>5, <3>1 DEF Full
  <2> QED
    BY <1>5, <2>1
<1> QED
  BY <1>1, <1>3, <1>4, <1>5, <1>6

(* A feed ends with what it read, or fails with nothing.                                   *)
LEMMA FeedNext ==
  ASSUME ScanInv, NEW name \in FeedNames, scan.adapter = name, scan.phase = "pages",
         NEW cards \in Pages(name), NEW rows, NEW said \in ScanStates, EndFeed(cards, rows, said),
         \/ said = "failed" /\ rows = <<>>
         \/ rows = FeedRows(cards, Refuses[name])
  PROVE  ScanInv'
<1> DEFINE C == CardsOf(name)
           B == Boards(name)
           cut == Full(rows)
<1>1. cards \in B
  BY PagesAreBoards
<1>2. cards \in Seq(C)
  BY <1>1 DEF Boards
<1>3. /\ shown = <<>> /\ scan.todo = <<>> /\ scan.errors = 0 /\ ScanTyped
      /\ shown' = Append(shown, cards) /\ name \notin PageNames
      /\ name \notin {"freelancer", "guru", "github"}
      /\ scan' = [scan EXCEPT !.phase = "done", !.rows = rows, !.status = said, !.cut = cut]
  BY DEF ScanInv, ScanPhases, EndFeed, FeedNames, PageNames
<1> HIDE DEF B, C
<1>4. /\ shown' \in Seq(B) /\ Len(shown') = 1 /\ DOMAIN shown' = {1} /\ shown'[1] = cards
  <2>1. Append(<<>>, cards) = <<cards>>
    OBVIOUS
  <2>3. <<cards>> \in Seq(B) /\ Len(<<cards>>) = 1 /\ <<cards>>[1] = cards /\ DOMAIN <<cards>> = {1}
    BY <1>1
  <2> QED
    BY <1>3, <2>1, <2>3
<1>5. rows \in Seq(C) /\ cut \in BOOLEAN
  <2>1. FeedRows(cards, Refuses[name]) \in Seq(C)
    BY <1>2, FeedYields
  <2>2. CASE rows = <<>>
    BY <2>2 DEF Full
  <2>3. CASE rows = FeedRows(cards, Refuses[name])
    BY <2>1, <2>3 DEF Full
  <2> QED
    BY <2>2, <2>3
<1>6. ASSUME said \in {"ok", "empty"}, ~cut, NEW c \in Offered(name, cards)
      PROVE  HoldsListing(rows, c)
  <2>1. rows = FeedRows(cards, Refuses[name])
    BY <1>6
  <2>2. PICK i \in DOMAIN cards : c = cards[i] /\ Takes(name, c)
    BY <1>6 DEF Offered, Judged, Range
  <2>3. c.flaw \notin Refuses[name] \cup {"record"}
    BY <2>2, TakesOthers, <1>3 DEF FeedNames
  <2> DEFINE refuses == Refuses[name]
  <2> HIDE DEF refuses
  <2>4. ~Full(FeedRows(cards, refuses)) =>
          \A k \in DOMAIN cards : cards[k].flaw \notin refuses \cup {"record"} =>
            HoldsListing(FeedRows(cards, refuses), cards[k])
    BY <1>2, FeedYields
  <2> QED
    BY <1>6, <2>1, <2>2, <2>3, <2>4 DEF refuses
<1> HIDE DEF cut
<1>7. Becomes("done", rows, scan.todo, scan.errors, scan.hidden, cut, said)
  BY <1>3, <1>5, BecomesDone DEF C
<1>8. ASSUME said \in {"ok", "empty"}, ~cut, NEW p \in DOMAIN shown', NEW c \in Offered(scan.adapter, shown'[p])
      PROVE  HoldsListing(rows, c)
  BY <1>4, <1>6, <1>8
<1>9. 1 <= PageCount
  BY ScansAssumption
<1> QED
  BY <1>3, <1>4, <1>7, <1>8, <1>9, ScanEndsNext DEF B

LEMMA FinishNext ==
  ASSUME ScanInv, Finish
  PROVE  ScanInv'
<1> DEFINE C == CardsOf(scan.adapter)
           rows == Kept(scan.adapter, scan.rows)
           said == StatusOf(rows, scan.errors)
<1>1. /\ scan' = [scan EXCEPT !.phase = "done", !.rows = rows, !.status = said] /\ shown' = shown
      /\ \/ scan.adapter \in PageNames \ {"truelancer"} /\ scan.phase = "pages"
         \/ scan.phase = "details" /\ scan.todo = <<>>
  BY DEF Finish
<1>2. /\ ScanTyped /\ scan.rows \in Seq(C) /\ scan.errors \in Nat /\ scan.todo = <<>>
      /\ shown \in Seq(Boards(scan.adapter)) /\ Len(shown) <= PageCount
      /\ scan.adapter \in PageNames \ {"truelancer"} => scan.phase = "pages"
      /\ scan.status = "none" /\ scan.phase # "done"
  BY <1>1, ScanFields DEF ScanInv, ScanTyped, ScanPhases, ScanBounds
<1> HIDE DEF C
<1>3. rows \in Seq(C) /\ Len(rows) \in Nat /\ (scan.adapter # "algora" => Len(rows) <= MaximumResults)
  BY <1>2, LimitedYields DEF Kept
<1>4. ~scan.cut => rows = scan.rows
  <2>1. CASE scan.phase = "details"
    <3>1. Len(scan.rows) + Len(scan.todo) <= MaximumResults /\ Len(<<>>) = 0 /\ Len(scan.rows) \in Nat
      BY <1>2, <2>1 DEF ScanInv, ScanBounds
    <3>2. Len(scan.rows) <= MaximumResults
      BY <1>2, <3>1, ScansAssumption
    <3> QED
      BY <1>2, <3>2, LimitedYields DEF Kept
  <2>2. CASE scan.adapter = "algora"
    BY <2>2 DEF Kept
  <2>3. CASE scan.adapter \in {"freelancer", "guru", "github"}
    BY <1>2, <2>3, LimitedYields DEF ScanInv, ScanBounds, Kept
  <2> QED
    BY <1>1, <2>1, <2>2, <2>3 DEF PageNames
<1> HIDE DEF rows
<1>5. said \in ScanStates /\ (said \in {"ok", "empty"} => scan.errors = 0)
  BY <1>2 DEF StatusOf, ScanStates
<1> HIDE DEF said
<1>6. Becomes("done", rows, scan.todo, scan.errors, scan.hidden, scan.cut, said)
  BY <1>1, <1>2, <1>3, <1>5, BecomesOver DEF C
<1>7. ASSUME scan.errors = 0, ~scan.hidden, ~scan.cut, NEW p \in DOMAIN shown',
             NEW c \in Offered(scan.adapter, shown'[p])
      PROVE  HoldsListing(rows, c)
  <2>1. Undisturbed
    BY <1>2, <1>7 DEF Undisturbed
  <2>2. c \in Acceptable(p) /\ p \in DOMAIN shown
    BY <1>1, <1>7 DEF Acceptable, Offered
  <2>3. Met(c)
    BY <2>1, <2>2 DEF ScanInv, ScanComplete
  <2> QED
    BY <1>2, <1>4, <1>7, <2>3 DEF Met, Waits
<1>8. scan.adapter \in {"freelancer", "guru", "github"} => Len(rows) <= MaximumResults
  BY <1>3
<1> QED
  BY <1>1, <1>2, <1>5, <1>6, <1>7, <1>8, ScanEndsNext

--------------------------------------------------------------------------------
(* The invariant holds at first, and each step keeps it.                                  *)

LEMMA ScanInvInit ==
  ASSUME ScanInit
  PROVE  ScanInv
<1>1. /\ scan.adapter \in Adapters /\ scan.phase = "pages" /\ scan.rows = <<>> /\ scan.todo = <<>>
      /\ scan.errors = 0 /\ scan.status = "none" /\ shown = <<>>
      /\ scan.hidden = FALSE /\ scan.cut = FALSE
      /\ scan \in [adapter : Adapters, phase : {"pages"}, rows : {<<>>}, todo : {<<>>}, errors : {0},
                   unreadable : {0}, hidden : {FALSE}, cut : {FALSE}, status : {"none"}]
  BY DEF ScanInit
<1>2. <<>> \in Seq(CardsOf(scan.adapter)) /\ <<>> \in Seq(Boards(scan.adapter)) /\ <<>> \in Seq(Listed)
      /\ Len(<<>>) = 0 /\ DOMAIN <<>> = {}
  OBVIOUS
<1>3. ScanTyped
  <2> DEFINE a == scan.adapter
             none == <<>>
             S == Seq(CardsOf(a))
  <2>1. none \in S
    BY <1>2
  <2>2. scan = [adapter |-> a, phase |-> "pages", rows |-> none, todo |-> none, errors |-> 0,
                unreadable |-> 0, hidden |-> FALSE, cut |-> FALSE, status |-> "none"]
    BY <1>1
  <2>3. scan \in ScanRec(a)
    <3> HIDE DEF a, none, S
    <3>1. scan \in [adapter : {a}, phase : {"pages", "details", "done"}, rows : S, todo : S,
                    errors : Nat, unreadable : {0}, hidden : BOOLEAN, cut : BOOLEAN,
                    status : ScanStates \cup {"none"}]
      BY <2>1, <2>2
    <3> QED
      BY <3>1 DEF ScanRec, S
  <2> QED
    BY <1>1, <1>2, <2>3 DEF ScanTyped
<1>4. ScanPhases
  BY <1>1, <1>2 DEF ScanPhases
<1>5. ScanBounds
  <2>1. 0 <= PageCount /\ 0 <= PageCount + MaximumResults /\ 0 <= MaximumResults
    BY ScansAssumption
  <2> QED
    BY <1>1, <1>2, <2>1 DEF ScanBounds
<1>6. ScanComplete
  BY <1>1, <1>2 DEF ScanComplete
<1> QED
  BY <1>3, <1>4, <1>5, <1>6 DEF ScanInv

LEMMA FeedStates ==
  ASSUME NEW rows, NEW cards
  PROVE  /\ OkOrEmpty(rows, cards) \in ScanStates /\ MoltJobsStatus(rows, cards) \in ScanStates
         /\ (IF rows = <<>> THEN "empty" ELSE "partial") \in ScanStates
         /\ "failed" \in ScanStates
  BY DEF OkOrEmpty, MoltJobsStatus, ScanStates

LEMMA FeedsNext ==
  ASSUME ScanInv, ScanSuperteam \/ ScanBountyBook \/ ScanAgentPact \/ ScanMoltJobs
  PROVE  ScanInv'
<1>1. /\ Refuses["superteam"] = SuperteamRefuses /\ Refuses["bountybook"] = BountyBookRefuses
      /\ Refuses["agentpact"] = AgentPactRefuses /\ Refuses["moltjobs"] = MoltJobsRefuses
  BY DEF Refuses
<1>2. \A rows, cards : /\ OkOrEmpty(rows, cards) \in ScanStates /\ MoltJobsStatus(rows, cards) \in ScanStates
                       /\ (IF rows = <<>> THEN "empty" ELSE "partial") \in ScanStates
  BY FeedStates
<1>3. PICK name \in FeedNames : \E cards \in Pages(name) : \E rows, said :
        /\ scan.adapter = name /\ scan.phase = "pages" /\ EndFeed(cards, rows, said)
        /\ said \in ScanStates
        /\ (said = "failed" /\ rows = <<>>) \/ rows = FeedRows(cards, Refuses[name])
  <2>0. "failed" \in ScanStates
    BY DEF ScanStates
  <2>1. CASE ScanSuperteam
    <3>1. "superteam" \in FeedNames
      BY DEF FeedNames
    <3> QED
      BY <1>1, <1>2, <2>0, <2>1, <3>1 DEF ScanSuperteam, ReadFeed, FeedFails
  <2>2. CASE ScanBountyBook
    <3>1. "bountybook" \in FeedNames
      BY DEF FeedNames
    <3> QED
      BY <1>1, <1>2, <2>0, <2>2, <3>1 DEF ScanBountyBook, ReadFeed, FeedFails
  <2>3. CASE ScanAgentPact
    <3>1. "agentpact" \in FeedNames
      BY DEF FeedNames
    <3> QED
      BY <1>1, <1>2, <2>0, <2>3, <3>1 DEF ScanAgentPact, ReadFeed, FeedFails
  <2>4. CASE ScanMoltJobs
    <3>1. "moltjobs" \in FeedNames
      BY DEF FeedNames
    <3> QED
      BY <1>1, <1>2, <2>0, <2>4, <3>1 DEF ScanMoltJobs, ReadFeed, FeedFails
  <2> QED
    BY <2>1, <2>2, <2>3, <2>4
<1> QED
  BY <1>3, FeedNext

LEMMA ScanInvNext ==
  ASSUME ScanInv, [ScansNext]_scanning
  PROVE  ScanInv'
<1>1. CASE ScanSuperteam \/ ScanBountyBook \/ ScanAgentPact \/ ScanMoltJobs
  BY <1>1, FeedsNext
<1>2. CASE SuperteamGated
  BY <1>2, SuperteamGatedNext
<1>3. CASE ScanFreelancer
  BY <1>3, FreelancerNext
<1>4. CASE ScanGuru
  BY <1>4, GuruNext
<1>5. CASE ScanAlgora
  BY <1>5, AlgoraNext
<1>6. CASE ScanGitHub
  BY <1>6, GitHubNext
<1>7. CASE ScanTruelancer
  BY <1>7, TruelancerNext
<1>8. CASE OpenTruelancer
  BY <1>8, OpenTruelancerNext
<1>9. CASE CheckTruelancer \/ OpireDetail \/ UsaGovDetail
  <2>1. /\ Refuses["truelancer"] = TruelancerLists \cup TruelancerDetail
        /\ Refuses["opire"] = OpireRefuses /\ Refuses["usagov"] = UsaGovRefuses
    BY DEF Refuses
  <2>2. \E name \in {"opire", "usagov", "truelancer"} : OpenDetail(name, Refuses[name])
    BY <1>9, <2>1 DEF CheckTruelancer, OpireDetail, UsaGovDetail
  <2> QED
    BY <2>2, DetailNext
<1>10. CASE ScanOpire \/ ScanUsaGov
  BY <1>10, IndexNext DEF ScanOpire, ScanUsaGov, LinkNames
<1>11. CASE Finish
  BY <1>11, FinishNext
<1>12. CASE UNCHANGED scanning
  BY <1>12 DEF scanning, ScanInv, ScanTyped, ScanPhases, ScanBounds, ScanComplete, Undisturbed, Met,
               Acceptable
<1> QED
  BY <1>1, <1>2, <1>3, <1>4, <1>5, <1>6, <1>7, <1>8, <1>9, <1>10, <1>11, <1>12 DEF ScansNext

ScansSpec == ScanInit /\ [][ScansNext]_scanning

LEMMA ScansInvariant == ScansSpec => []ScanInv
<1>1. ScanInit => ScanInv
  BY ScanInvInit
<1>2. ScanInv /\ [ScansNext]_scanning => ScanInv'
  BY ScanInvNext
<1> QED
  BY <1>1, <1>2, PTL DEF ScansSpec

(* A scan never loses its type, whatever its market shows: what it keeps are cards of its    *)
(* adapter, its errors are bounded, and it has a status when it is over and only then.       *)
THEOREM ScansTypeCorrect == ScansSpec => []ScansTypeOK
<1>1. ScanInv => ScansTypeOK
  <2> SUFFICES ASSUME ScanInv PROVE ScansTypeOK
    OBVIOUS
  <2> DEFINE C == CardsOf(scan.adapter)
  <2>1. /\ scan.phase \in {"pages", "details", "done"} /\ scan.rows \in Seq(C) /\ scan.todo \in Seq(C)
        /\ scan.errors \in Nat /\ scan.hidden \in BOOLEAN /\ scan.cut \in BOOLEAN
        /\ scan.status \in ScanStates \cup {"none"}
    BY ScanFields DEF ScanInv
  <2> HIDE DEF C
  <2>2. /\ \A i \in DOMAIN scan.rows : scan.rows[i] \in C
        /\ \A i \in DOMAIN scan.todo : scan.todo[i] \in C
    BY <2>1
  <2>3. scan.errors \in 0 .. PageCount + MaximumResults
    BY <2>1, ScansAssumption DEF ScanInv, ScanBounds
  <2> QED
    BY <2>1, <2>2, <2>3 DEF ScansTypeOK, ScanInv, ScanTyped, ScanPhases, ScanBounds, C
<1> QED
  BY <1>1, ScansInvariant, PTL

(* A scan that says "ok" or "empty" has a row for every listing its pages showed that it     *)
(* accepts, unless a limit stopped it or a page it could not read hid it: whatever the        *)
(* adapter, the market, and the pages that were lost on the way.                            *)
THEOREM CleanScanAlwaysComplete == ScansSpec => []CleanScanIsComplete
<1>1. ScanInv => CleanScanIsComplete
  <2> SUFFICES ASSUME ScanInv, Finished({"ok", "empty"}), ~scan.hidden, ~scan.cut,
                      NEW p \in DOMAIN shown, NEW c \in Acceptable(p)
               PROVE  HoldsListing(scan.rows, c)
    BY DEF CleanScanIsComplete
  <2>1. scan.errors = 0 /\ scan.todo = <<>> /\ scan.status \in {"ok", "empty"}
    BY DEF Finished, ScanInv, ScanPhases
  <2>2. Met(c)
    BY <2>1 DEF Undisturbed, ScanInv, ScanComplete
  <2> QED
    BY <2>1, <2>2 DEF Met, Waits
<1> QED
  BY <1>1, ScansInvariant, PTL

--------------------------------------------------------------------------------
(* Proofs about BountyBookSubmission, for any number of authorized attempts and        *)
(* restarts, whatever answers, receipts and commits are lost.                          *)

Numbers == 1 .. MaxAttempts
Job ==
  [status : {"open", "claimed", "submitted", "settled"}, holder : {"nobody", "louis", "other"},
   opening : Numbers, right : BOOLEAN]
Stage == {"idle", "check", "preflight", "sign_in", "claim", "submit", "poll", "commit"}
Handover == [at : Stage, content : Artifacts \cup {"none"}, authorized : BOOLEAN]
Submission == [opening : Numbers, artifact : {"reviewed"}, number : Nat]

Shape ==
  /\ job \in Job /\ handover \in Handover
  /\ handed \in SUBSET Submission /\ IsFiniteSet(handed)
  /\ envelope \in BOOLEAN /\ artifact \in Artifacts /\ attempt \in Numbers
  /\ vmReceipt \in SUBSET Numbers /\ committed \in SUBSET vmReceipt
  /\ restarts \in 0 .. MaxRestarts

(* A run past the check has the pinned artifact.                                       *)
PinnedRun ==
  handover.at \in {"preflight", "sign_in", "claim", "submit"} => handover.content = "reviewed"

(* Only Louis submits, so what is submitted or settled is his.                          *)
HolderFits ==
  /\ job.status = "claimed" => job.holder \in {"louis", "other"}
  /\ job.status \in {"submitted", "settled"} => job.holder = "louis"

(* Since the run saw the job open, nobody but it can have submitted: the job is open,     *)
(* or another agent's; and a run that submits holds a job that nobody has submitted.       *)
HandoverFits ==
  /\ handover.at \in {"sign_in", "claim"} =>
       job.status = "open" \/ (job.status = "claimed" /\ job.holder = "other")
  /\ handover.at = "submit" => job.status = "claimed"

(* An opening of the job has a submission only once the job is submitted or settled.    *)
OpeningIsFresh ==
  \A s \in handed : /\ s.opening <= job.opening
                    /\ job.status \in {"open", "claimed"} => s.opening < job.opening

OneEach == \A s, t \in handed : s.opening = t.opening => s = t

(* A receipt stands for a submission.                                                  *)
ReceiptFits ==
  /\ vmReceipt # {} \/ handover.at = "poll" => handed # {}
  /\ handover.at = "commit" => attempt \in vmReceipt

Safe == PinnedRun /\ HolderFits /\ HandoverFits /\ OpeningIsFresh /\ OneEach /\ ReceiptFits
IInv == Shape /\ Safe

(* A run that goes on, or ends.                                                        *)
LEMMA RunNext ==
  ASSUME Shape
  PROVE  /\ \A next \in Stage : Goes(next) => /\ handover' \in Handover /\ handover'.at = next
                                              /\ handover'.content = handover.content
         /\ Fails => handover' \in Handover /\ handover'.at = "idle"
<1>1. handover \in Handover
  BY DEF Shape
<1>2. ASSUME NEW next \in Stage, Goes(next)
      PROVE  handover' \in Handover /\ handover'.at = next /\ handover'.content = handover.content
  BY <1>1, <1>2 DEF Goes, Handover
<1>3. ASSUME Fails PROVE handover' \in Handover /\ handover'.at = "idle"
  BY <1>3 DEF Fails, NoHandover, Handover, Stage
<1> QED
  BY <1>2, <1>3

(* A change of the job.                                                                *)
LEMMA JobNext ==
  ASSUME Shape
  PROVE  /\ \A h \in {"louis", "other"} :
              LET j == [job EXCEPT !.status = "claimed", !.holder = h]
              IN  j \in Job /\ j.status = "claimed" /\ j.holder = h /\ j.opening = job.opening
         /\ \A st \in {"submitted", "settled"} :
              LET j == [job EXCEPT !.status = st]
              IN  j \in Job /\ j.status = st /\ j.holder = job.holder /\ j.opening = job.opening
         /\ LET j == [job EXCEPT !.right = FALSE]
            IN  /\ j \in Job /\ j.status = job.status /\ j.holder = job.holder
                /\ j.opening = job.opening
         /\ job.opening < MaxAttempts =>
              LET j == [job EXCEPT !.status = "open", !.holder = "nobody", !.opening = @ + 1]
              IN  j \in Job /\ j.status = "open" /\ j.opening = job.opening + 1
         /\ job.opening \in Numbers /\ Numbers \subseteq Nat
<1>1. job \in Job /\ MaxAttempts \in Nat
  BY SubmissionAssumption DEF Shape
<1>2. job.opening \in Numbers /\ Numbers \subseteq Nat
  BY <1>1 DEF Job, Numbers
<1>3. ASSUME NEW h \in {"louis", "other"}
      PROVE  LET j == [job EXCEPT !.status = "claimed", !.holder = h]
             IN  j \in Job /\ j.status = "claimed" /\ j.holder = h /\ j.opening = job.opening
  BY <1>1 DEF Job
<1>4. ASSUME NEW st \in {"submitted", "settled"}
      PROVE  LET j == [job EXCEPT !.status = st]
             IN  j \in Job /\ j.status = st /\ j.holder = job.holder /\ j.opening = job.opening
  BY <1>1 DEF Job
<1>5. LET j == [job EXCEPT !.right = FALSE]
      IN  /\ j \in Job /\ j.status = job.status /\ j.holder = job.holder
          /\ j.opening = job.opening
  BY <1>1 DEF Job
<1>6. ASSUME job.opening < MaxAttempts
      PROVE  LET j == [job EXCEPT !.status = "open", !.holder = "nobody", !.opening = @ + 1]
             IN  j \in Job /\ j.status = "open" /\ j.opening = job.opening + 1
  <2>1. job.opening + 1 \in Numbers
    BY <1>1, <1>2, <1>6 DEF Numbers
  <2> QED
    BY <1>1, <2>1 DEF Job
<1> QED
  BY <1>2, <1>3, <1>4, <1>5, <1>6

(* A step of the run that leaves the platform and the receipts alone.                   *)
LEMMA Walk ==
  ASSUME IInv, handover' \in Handover, ExceptHandover, PinnedRun', HandoverFits',
         handover'.at \in {"idle", "preflight", "sign_in", "claim"}
  PROVE  IInv'
  BY DEF IInv, Shape, Safe, ExceptHandover, HolderFits, OpeningIsFresh, OneEach, ReceiptFits

LEMMA IInvInit == SubmissionInit => IInv
<1> SUFFICES ASSUME SubmissionInit PROVE IInv
  OBVIOUS
<1>1. Shape
  BY SubmissionAssumption, FS_EmptySet
     DEF SubmissionInit, Shape, Job, Handover, Stage, NoHandover, Numbers, Submission
<1>2. Safe
  BY DEF SubmissionInit, Safe, PinnedRun, HolderFits, HandoverFits, OpeningIsFresh, OneEach,
         ReceiptFits, NoHandover
<1> QED
  BY <1>1, <1>2 DEF IInv

LEMMA RunStep ==
  ASSUME IInv, Begin \/ CheckEnvelope \/ Preflight \/ SignIn \/ CommitReceipt
  PROVE  IInv'
<1>r. /\ \A next \in Stage : Goes(next) => /\ handover' \in Handover /\ handover'.at = next
                                           /\ handover'.content = handover.content
      /\ Fails => handover' \in Handover /\ handover'.at = "idle"
  BY RunNext DEF IInv
<1>1. CASE Begin
  <2>1. handover' \in Handover /\ handover'.at = "check" /\ restarts' \in 0 .. MaxRestarts
    BY <1>1, SubmissionAssumption DEF Begin, Handover, Stage, IInv, Shape
  <2> QED
    BY <1>1, <2>1 DEF Begin, IInv, Shape, Safe, PinnedRun, HolderFits, HandoverFits, OpeningIsFresh,
                      OneEach, ReceiptFits
<1>2. CASE CheckEnvelope
  <2>1. /\ handover' \in Handover /\ handover'.at \in {"idle", "preflight"}
        /\ handover'.at = "preflight" => handover'.content = "reviewed"
    BY <1>2, <1>r DEF CheckEnvelope, Pinned, Stage
  <2> QED
    BY <1>2, <2>1, Walk DEF CheckEnvelope, PinnedRun, HandoverFits
<1>3. CASE Preflight
  <2>1. /\ handover' \in Handover /\ handover'.at \in {"idle", "sign_in"}
        /\ handover'.at = "sign_in" => job.status = "open" /\ handover'.content = handover.content
    BY <1>3, <1>r DEF Preflight, JobIsOpen, Stage
  <2> QED
    BY <1>3, <2>1, Walk DEF Preflight, ExceptHandover, IInv, Safe, PinnedRun, HandoverFits
<1>4. CASE SignIn
  <2>1. /\ handover' \in Handover /\ handover'.at \in {"idle", "claim"}
        /\ handover'.at = "claim" => handover'.content = handover.content
    BY <1>4, <1>r DEF SignIn, Stage
  <2> QED
    BY <1>4, <2>1, Walk DEF SignIn, ExceptHandover, IInv, Safe, PinnedRun, HandoverFits
<1>5. CASE CommitReceipt
  <2>1. handover' \in Handover /\ handover'.at = "idle" /\ committed' \in SUBSET vmReceipt
    BY <1>5, <1>r DEF CommitReceipt, IInv, Shape, Safe, ReceiptFits
  <2> QED
    BY <1>5, <2>1 DEF CommitReceipt, IInv, Shape, Safe, PinnedRun, HolderFits, HandoverFits,
                      OpeningIsFresh, OneEach, ReceiptFits
<1> QED
  BY <1>1, <1>2, <1>3, <1>4, <1>5

LEMMA ClaimStep == ASSUME IInv, Claim PROVE IInv'
<1>r. /\ Goes("submit") => /\ handover' \in Handover /\ handover'.at = "submit"
                           /\ handover'.content = handover.content
      /\ Fails => handover' \in Handover /\ handover'.at = "idle"
  BY RunNext DEF IInv, Stage
<1>1. handover.at = "claim" /\ handover.content = "reviewed"
  BY DEF Claim, IInv, Safe, PinnedRun
<1>2. CASE UNCHANGED job /\ Fails
  BY <1>r, <1>2, Walk DEF Claim, ExceptHandover, PinnedRun, HandoverFits
<1>3. CASE ~(UNCHANGED job /\ Fails)
  <2>1. job.status = "open" /\ job' = [job EXCEPT !.status = "claimed", !.holder = "louis"]
    BY <1>1, <1>3 DEF Claim, IInv, Safe, HandoverFits
  <2>2. /\ job' \in Job /\ job'.status = "claimed" /\ job'.holder = "louis"
        /\ job'.opening = job.opening
    BY <2>1, JobNext DEF IInv
  <2>3. /\ handover' \in Handover /\ handover'.at \in {"idle", "submit"}
        /\ handover'.at = "submit" => handover'.content = "reviewed"
    BY <1>1, <1>3, <1>r DEF Claim
  <2>4. Shape'
    BY <2>2, <2>3 DEF Claim, IInv, Shape
  <2>5. Safe'
    BY <2>1, <2>2, <2>3 DEF Claim, IInv, Safe, PinnedRun, HolderFits, HandoverFits, OpeningIsFresh,
                            OneEach, ReceiptFits
  <2> QED
    BY <2>4, <2>5 DEF IInv
<1> QED
  BY <1>2, <1>3

LEMMA SubmitStep == ASSUME IInv, Submit PROVE IInv'
<1>r. /\ Goes("poll") => /\ handover' \in Handover /\ handover'.at = "poll"
      /\ Fails => handover' \in Handover /\ handover'.at = "idle"
  BY RunNext DEF IInv, Stage
<1>1. /\ handover.at = "submit" /\ handover.content = "reviewed" /\ job.status = "claimed"
  BY DEF Submit, IInv, Safe, PinnedRun, HandoverFits
<1>2. CASE UNCHANGED <<handed, job>> /\ Fails
  BY <1>r, <1>2, Walk DEF Submit, ExceptHandover, PinnedRun, HandoverFits
<1>3. CASE ~(UNCHANGED <<handed, job>> /\ Fails)
  <2> DEFINE new == [opening |-> job.opening, artifact |-> handover.content,
                     number |-> Cardinality(handed)]
  <2>1. /\ job.holder = "louis" /\ handed' = handed \cup {new}
        /\ job' = [job EXCEPT !.status = "submitted"]
        /\ Goes("poll") \/ Fails
    BY <1>3 DEF Submit
  <2>2. new \in Submission /\ new.opening = job.opening
    BY <1>1, JobNext, FS_CardinalityType DEF IInv, Shape, Submission
  <2> HIDE DEF new
  <2>3. IsFiniteSet(handed')
    BY <2>1, FS_AddElement DEF IInv, Shape
  <2>4. /\ job' \in Job /\ job'.status = "submitted" /\ job'.holder = "louis"
        /\ job'.opening = job.opening
    BY <2>1, JobNext DEF IInv
  <2>5. handover' \in Handover /\ handover'.at \in {"idle", "poll"}
    BY <1>r, <2>1
  <2>6. Shape'
    BY <2>1, <2>2, <2>3, <2>4, <2>5 DEF Submit, IInv, Shape
  <2>7. OpeningIsFresh' /\ OneEach'
    <3>1. \A s \in handed : s.opening < job.opening /\ s.opening \in Nat
      BY <1>1, JobNext DEF IInv, Shape, Submission, Safe, OpeningIsFresh
    <3> QED
      BY <2>1, <2>2, <2>4, <3>1, JobNext DEF IInv, Safe, OpeningIsFresh, OneEach
  <2>8. PinnedRun' /\ HolderFits' /\ HandoverFits' /\ ReceiptFits'
    BY <2>1, <2>4, <2>5 DEF PinnedRun, HolderFits, HandoverFits, ReceiptFits
  <2> QED
    BY <2>6, <2>7, <2>8 DEF IInv, Safe
<1> QED
  BY <1>2, <1>3

LEMMA PollStep == ASSUME IInv, Poll PROVE IInv'
<1>1. CASE Goes("commit") /\ vmReceipt' = vmReceipt \cup {attempt}
  <2>1. handover' \in Handover /\ handover'.at = "commit"
    BY <1>1, RunNext DEF IInv, Stage
  <2> QED
    BY <1>1, <2>1 DEF Poll, IInv, Shape, Safe, PinnedRun, HolderFits, HandoverFits, OpeningIsFresh,
                      OneEach, ReceiptFits
<1>2. CASE Fails /\ UNCHANGED vmReceipt
  <2>1. handover' \in Handover /\ handover'.at = "idle"
    BY <1>2, RunNext DEF IInv
  <2> QED
    BY <1>2, <2>1, Walk DEF Poll, ExceptHandover, PinnedRun, HandoverFits
<1> QED
  BY <1>1, <1>2 DEF Poll

(* The platform: the oracle, other agents and the payer.                                *)
LEMMA PlatformStep == ASSUME IInv, Judge \/ OthersAct PROVE IInv'
<1>1. /\ job' \in Job /\ Numbers \subseteq Nat /\ job.opening \in Numbers
      /\ UNCHANGED <<handed, envelope, artifact, attempt, vmReceipt, committed, handover, restarts>>
  BY JobNext DEF Judge, OthersAct, IInv
<1>2. Shape'
  BY <1>1 DEF IInv, Shape
<1>3. PinnedRun' /\ OneEach' /\ ReceiptFits'
  BY <1>1 DEF IInv, Safe, PinnedRun, OneEach, ReceiptFits
<1>4. CASE Judge
  <2>1. \/ job'.status = "settled" /\ job'.holder = job.holder /\ job'.opening = job.opening
        \/ job'.status = "open" /\ job'.opening = job.opening + 1
    BY <1>4, JobNext DEF Judge, IInv
  <2>2. HolderFits' /\ HandoverFits'
    BY <1>1, <1>4, <2>1 DEF Judge, IInv, Safe, HolderFits, HandoverFits
  <2>3. OpeningIsFresh'
    <3>1. \A s \in handed : s.opening <= job.opening /\ s.opening \in Nat
      BY <1>1 DEF IInv, Shape, Submission, Safe, OpeningIsFresh
    <3> QED
      BY <1>1, <1>4, <2>1, <3>1 DEF Judge, OpeningIsFresh
  <2> QED
    BY <1>2, <1>3, <2>2, <2>3 DEF IInv, Safe
<1>5. CASE OthersAct
  <2>1. /\ job'.opening = job.opening
        /\ \/ job'.status = "claimed" /\ job'.holder = "other"
           \/ job'.status = "open" /\ job'.holder = job.holder
    BY <1>5, JobNext DEF OthersAct, IInv
  <2>2. HolderFits' /\ HandoverFits' /\ OpeningIsFresh'
    BY <1>1, <1>5, <2>1 DEF OthersAct, IInv, Safe, HolderFits, HandoverFits, OpeningIsFresh
  <2> QED
    BY <1>2, <1>3, <2>2 DEF IInv, Safe
<1> QED
  BY <1>4, <1>5

LEMMA OwnerStep == ASSUME IInv, OwnerActs PROVE IInv'
<1>1. envelope' \in BOOLEAN /\ artifact' \in Artifacts
  BY DEF OwnerActs, IInv, Shape
<1>2. attempt' \in Numbers
  <2>1. attempt \in Nat /\ attempt \in Numbers /\ MaxAttempts \in Nat
    BY SubmissionAssumption DEF IInv, Shape, Numbers
  <2>2. attempt' = attempt \/ (attempt < MaxAttempts /\ attempt' = attempt + 1)
    BY DEF OwnerActs
  <2> QED
    BY <2>1, <2>2 DEF Numbers
<1> QED
  BY <1>1, <1>2 DEF OwnerActs, IInv, Shape, Safe, PinnedRun, HolderFits, HandoverFits, OpeningIsFresh,
              OneEach, ReceiptFits

LEMMA IInvNext == IInv /\ [SubmissionNext]_submitting => IInv'
<1>1. IInv /\ UNCHANGED submitting => IInv'
  BY DEF submitting, IInv, Shape, Safe, PinnedRun, HolderFits, HandoverFits, OpeningIsFresh,
         OneEach, ReceiptFits
<1> QED
  BY <1>1, RunStep, ClaimStep, SubmitStep, PollStep, PlatformStep, OwnerStep DEF SubmissionNext

LEMMA Inductive == SubmissionSpec => []IInv
  BY IInvInit, IInvNext, PTL DEF SubmissionSpec

(* The job, the files and the run keep their shape.                                    *)
THEOREM SubmissionTypeCorrect == SubmissionSpec => []SubmissionTypeOK
<1>1. IInv => SubmissionTypeOK
  BY DEF IInv, Shape, SubmissionTypeOK, Job, Handover, Stage, Numbers
<1> QED
  BY <1>1, Inductive, PTL

(* However often the workflow is started after answers, receipts and commits were lost, *)
(* the platform gets the reviewed deliverable at most once per opening of the job, and    *)
(* no receipt is committed without a submission.                                        *)
THEOREM SubmittedOncePerOpeningHolds == SubmissionSpec => []SubmittedOncePerOpening
<1>1. IInv => SubmittedOncePerOpening
  BY DEF IInv, Shape, Safe, Submission, OneEach, ReceiptFits, SubmittedOncePerOpening
<1> QED
  BY <1>1, Inductive, PTL

--------------------------------------------------------------------------------
(* The offers of AgentPact, for every catalogue and cap.                                *)

OfferTitles == OtherOffers \cup {DesiredOffers[i] : i \in DOMAIN DesiredOffers}
Ladder == [at : {"idle", "create"}, existing : SUBSET OfferTitles,
           next : 1 .. Len(DesiredOffers) + 1, created : Nat, errors : BOOLEAN]

LadderShape ==
  /\ offers \subseteq OfferTitles /\ IsFiniteSet(offers) /\ uncounted \in Nat
  /\ ladder \in Ladder /\ IsFiniteSet(ladder.existing) /\ ladder.created < ladder.next
  /\ snapshot \in Endings \cup {"none"} /\ ladders \in 0 .. MaxLadders

(* While a run is under way, what it read, what it created and what was not counted      *)
(* account for every offer.                                                          *)
OffersAccounted ==
  ladder.at = "create" => Cardinality(offers) <= CountsAll + uncounted

LadderInv == LadderShape /\ OffersAccounted /\ OfferCapHolds

(* A title more or less.                                                              *)
LEMMA TitleMore ==
  ASSUME IsFiniteSet(offers), NEW title, offers' = offers \cup {title}
  PROVE  /\ IsFiniteSet(offers') /\ Cardinality(offers') \in Nat /\ Cardinality(offers) \in Nat
         /\ IF title \in offers THEN offers' = offers
            ELSE Cardinality(offers') = Cardinality(offers) + 1
  BY FS_AddElement, FS_CardinalityType

LEMMA TitleLess ==
  ASSUME IsFiniteSet(offers), NEW title \in offers, offers' = offers \ {title}
  PROVE  /\ IsFiniteSet(offers') /\ Cardinality(offers') \in Nat
         /\ Cardinality(offers') = Cardinality(offers) - 1
  BY FS_RemoveElement, FS_CardinalityType

LEMMA CountsType ==
  ASSUME LadderShape
  PROVE  /\ CountsAll \in Nat /\ Cardinality(offers) \in Nat /\ uncounted \in Nat
         /\ MaxActiveOffers \in Nat /\ Len(DesiredOffers) \in Nat
         /\ CountsAll = Cardinality(ladder.existing) + ladder.created
         /\ Cardinality(ladder.existing) \in Nat /\ ladder.created \in Nat
         /\ ladder.next \in 1 .. Len(DesiredOffers) + 1
  BY FS_CardinalityType, OffersAssumption DEF LadderShape, Ladder, CountsAll

LEMMA RestingLadder ==
  NoLadder \in Ladder /\ IsFiniteSet(NoLadder.existing) /\ NoLadder.created < NoLadder.next
    /\ NoLadder.at = "idle"
<1>1. Len(DesiredOffers) \in Nat
  BY OffersAssumption
<1> QED
  BY <1>1, FS_EmptySet DEF NoLadder, Ladder

(* A run that ends, whatever the platform took before it.                              *)
LEMMA EndsNext ==
  ASSUME LadderInv, NEW ending \in Endings, Ends(ending), uncounted' = uncounted,
         UNCHANGED ladders,
         offers' \subseteq OfferTitles, IsFiniteSet(offers'), OfferCapHolds'
  PROVE  LadderInv'
<1>1. ladder' = NoLadder /\ snapshot' = ending
  BY DEF Ends
<1>2. LadderShape'
  BY <1>1, RestingLadder DEF LadderInv, LadderShape
<1> QED
  BY <1>1, <1>2, RestingLadder DEF LadderInv, OffersAccounted

LEMMA ReadNext ==
  ASSUME LadderInv, ReadInventory PROVE LadderInv'
<1>1. /\ ladders' = ladders + 1 /\ ladders < MaxLadders /\ UNCHANGED <<offers, uncounted>>
      /\ offers \subseteq OfferTitles /\ IsFiniteSet(offers) /\ OfferCapHolds'
      /\ ladders' \in 0 .. MaxLadders
  BY OffersAssumption DEF ReadInventory, LadderInv, LadderShape, OfferCapHolds
<1>2. CASE ladder' = [NoLadder EXCEPT !.at = "create", !.existing = offers] /\ UNCHANGED snapshot
  <2>1. /\ ladder' \in Ladder /\ ladder'.existing = offers /\ ladder'.created = 0
        /\ ladder'.next = 1
    BY <1>1, <1>2, RestingLadder DEF NoLadder, Ladder
  <2>2. LadderShape'
    BY <1>1, <1>2, <2>1 DEF LadderInv, LadderShape
  <2>3. Cardinality(offers') <= CountsAll' + uncounted'
    <3>1. Cardinality(offers) \in Nat /\ uncounted \in Nat
      BY CountsType DEF LadderInv
    <3> QED
      BY <1>1, <2>1, <3>1 DEF CountsAll
  <2> QED
    BY <1>1, <2>2, <2>3 DEF LadderInv, OffersAccounted
<1>3. ASSUME NEW ending \in Endings \ {"active", "partial"}, Ends(ending) PROVE LadderInv'
  <2>1. ladder' = NoLadder /\ snapshot' = ending
    BY <1>3 DEF Ends
  <2>2. LadderShape'
    BY <1>1, <2>1, RestingLadder DEF LadderInv, LadderShape
  <2> QED
    BY <1>1, <2>1, <2>2, RestingLadder DEF LadderInv, OffersAccounted
<1> QED
  BY <1>2, <1>3 DEF ReadInventory

(* The run goes on to the next title.                                                 *)
LEMMA GoesNext ==
  ASSUME LadderInv, ladder.at = "create", NEW n \in {0, 1},
         ladder.next <= Len(DesiredOffers),
         ladder'.at = "create", ladder' \in Ladder, ladder'.existing = ladder.existing,
         ladder'.created = ladder.created + n, ladder'.next > ladder.next,
         UNCHANGED <<snapshot, ladders>>,
         offers' \subseteq OfferTitles, IsFiniteSet(offers'), uncounted' \in Nat,
         Cardinality(offers') + uncounted <= Cardinality(offers) + uncounted' + n,
         OfferCapHolds'
  PROVE  LadderInv'
<1>1. LadderShape /\ Cardinality(offers) <= CountsAll + uncounted
  BY DEF LadderInv, OffersAccounted
<1>2. /\ Cardinality(ladder.existing) \in Nat /\ ladder.created \in Nat /\ uncounted \in Nat
      /\ Cardinality(offers) \in Nat /\ Cardinality(offers') \in Nat
      /\ ladder.next \in Nat /\ ladder'.next \in Nat
  <2>1. ladder'.next \in 1 .. Len(DesiredOffers) + 1 /\ ladder.next \in 1 .. Len(DesiredOffers) + 1
        /\ Len(DesiredOffers) \in Nat
    BY <1>1, CountsType DEF Ladder
  <2>2. Cardinality(offers') \in Nat
    BY FS_CardinalityType
  <2>3. /\ Cardinality(ladder.existing) \in Nat /\ ladder.created \in Nat /\ uncounted \in Nat
        /\ Cardinality(offers) \in Nat
    BY <1>1, CountsType
  <2> QED
    BY ONLY <2>1, <2>2, <2>3
<1>3. ladder'.created < ladder'.next
  <2>1. ladder.created < ladder.next /\ ladder'.created = ladder.created + n
        /\ ladder'.next > ladder.next /\ n \in Nat /\ n <= 1
    BY <1>1 DEF LadderShape
  <2> QED
    BY ONLY <1>2, <2>1
<1>4. LadderShape'
  BY <1>1, <1>3 DEF LadderShape
<1>5. Cardinality(offers') <= CountsAll' + uncounted'
  <2>1. /\ CountsAll = Cardinality(ladder.existing) + ladder.created
        /\ CountsAll' = Cardinality(ladder.existing) + (ladder.created + n)
        /\ n \in Nat
    BY DEF CountsAll
  <2>2. /\ Cardinality(offers) <= CountsAll + uncounted /\ uncounted' \in Nat
        /\ Cardinality(offers') + uncounted <= Cardinality(offers) + uncounted' + n
    BY <1>1
  <2> QED
    BY ONLY <1>2, <2>1, <2>2
<1> QED
  BY <1>4, <1>5 DEF LadderInv, OffersAccounted

LEMMA CreateNext ==
  ASSUME LadderInv, CreateOffer PROVE LadderInv'
<1> DEFINE title == DesiredOffers[ladder.next]
<1>1. /\ ladder.at = "create" /\ ladder.next <= Len(DesiredOffers) /\ UNCHANGED ladders
      /\ LadderShape /\ offers \subseteq OfferTitles /\ IsFiniteSet(offers) /\ OfferCapHolds
      /\ Cardinality(offers) <= CountsAll + uncounted /\ ladder \in Ladder
  BY DEF CreateOffer, LadderInv, LadderShape, OffersAccounted
<1>2. /\ ladder.next \in 1 .. Len(DesiredOffers) /\ title \in OfferTitles
      /\ CountsAll \in Nat /\ Cardinality(offers) \in Nat /\ uncounted \in Nat
      /\ MaxActiveOffers \in Nat /\ Len(DesiredOffers) \in Nat
      /\ Cardinality(offers) <= MaxActiveOffers + uncounted
  <2>1. DOMAIN DesiredOffers = 1 .. Len(DesiredOffers)
    BY OffersAssumption
  <2> QED
    BY <1>1, <2>1, CountsType DEF OfferTitles, OfferCapHolds
<1>0. /\ ladder.next + 1 \in 1 .. Len(DesiredOffers) + 1 /\ ladder.next + 1 > ladder.next
      /\ Len(DesiredOffers) + 1 \in 1 .. Len(DesiredOffers) + 1
      /\ Len(DesiredOffers) + 1 > ladder.next
      /\ ladder.created \in Nat /\ ladder.created + 1 \in Nat /\ ladder.created + 0 = ladder.created
  BY <1>1, <1>2 DEF Ladder
<1>3. uncounted' = IF /\ Cardinality(offers') > Cardinality(offers)
                      /\ ladder'.at = "create" /\ ladder'.created = ladder.created
                   THEN uncounted + 1 ELSE uncounted
  BY DEF CreateOffer
<1> HIDE DEF title
<1>4. CASE UNCHANGED offers
  <2>1. uncounted' = uncounted /\ OfferCapHolds'
    BY <1>1, <1>2, <1>3, <1>4 DEF OfferCapHolds
  <2>2. CASE ladder' = [ladder EXCEPT !.next = @ + 1] /\ UNCHANGED snapshot
    <3>1. /\ ladder' \in Ladder /\ ladder'.at = "create" /\ ladder'.existing = ladder.existing
          /\ ladder'.created = ladder.created + 0 /\ ladder'.next > ladder.next
      BY <1>1, <1>0, <2>2 DEF Ladder
    <3> QED
      BY <1>1, <1>2, <1>4, <2>1, <2>2, <3>1, GoesNext
  <2>3. CASE /\ ladder' = [ladder EXCEPT !.next = Len(DesiredOffers) + 1, !.errors = TRUE]
             /\ UNCHANGED snapshot
    <3>1. /\ ladder' \in Ladder /\ ladder'.at = "create" /\ ladder'.existing = ladder.existing
          /\ ladder'.created = ladder.created + 0 /\ ladder'.next > ladder.next
      BY <1>1, <1>0, <2>3 DEF Ladder
    <3> QED
      BY <1>1, <1>2, <1>4, <2>1, <2>3, <3>1, GoesNext
  <2>4. CASE /\ ladder' = [ladder EXCEPT !.next = @ + 1, !.errors = TRUE]
             /\ UNCHANGED snapshot
    <3>1. /\ ladder' \in Ladder /\ ladder'.at = "create" /\ ladder'.existing = ladder.existing
          /\ ladder'.created = ladder.created + 0 /\ ladder'.next > ladder.next
      BY <1>1, <1>0, <2>4 DEF Ladder
    <3> QED
      BY <1>1, <1>2, <1>4, <2>1, <2>4, <3>1, GoesNext
  <2>5. CASE \E ending \in Endings : Ends(ending)
    BY <1>1, <1>4, <2>1, <2>5, EndsNext
  <2>6. CASE /\ ladder' = [ladder EXCEPT !.next = @ + 1, !.created = @ + 1]
             /\ title \notin offers /\ offers' = offers \cup {title}
    BY <1>4, <2>6
  <2> QED
    BY <1>4, <2>2, <2>3, <2>4, <2>5, <2>6 DEF CreateOffer, Endings, title
<1>5. CASE ~UNCHANGED offers
  <2>1. CountsAll < MaxActiveOffers /\ offers' = offers \cup {title}
    BY <1>2, <1>5 DEF CreateOffer, title
  <2>2. /\ offers' \subseteq OfferTitles /\ IsFiniteSet(offers')
        /\ Cardinality(offers') = Cardinality(offers) + 1
    BY <1>1, <1>2, <1>5, <2>1, TitleMore
  <2>3. OfferCapHolds'
    BY <1>1, <1>2, <1>3, <2>1, <2>2 DEF OfferCapHolds
  <2>4. CASE ladder' = [ladder EXCEPT !.next = @ + 1, !.created = @ + 1] /\ UNCHANGED snapshot
    <3>1. /\ ladder' \in Ladder /\ ladder'.at = "create" /\ ladder'.existing = ladder.existing
          /\ ladder'.created = ladder.created + 1 /\ ladder'.next > ladder.next
      BY <1>1, <1>0, <2>4 DEF Ladder
    <3>2. uncounted' = uncounted
      BY <1>1, <1>2, <1>3, <3>1 DEF Ladder
    <3>3. Cardinality(offers') + uncounted <= Cardinality(offers) + uncounted' + 1
      BY <1>2, <2>2, <3>2
    <3> QED
      BY <1>1, <1>2, <2>2, <2>3, <2>4, <3>1, <3>2, <3>3, GoesNext
  <2>5. CASE ladder' = [ladder EXCEPT !.next = @ + 1] /\ UNCHANGED snapshot
    <3>1. /\ ladder' \in Ladder /\ ladder'.at = "create" /\ ladder'.existing = ladder.existing
          /\ ladder'.created = ladder.created + 0 /\ ladder'.next > ladder.next
          /\ ladder'.created = ladder.created
      BY <1>1, <1>0, <2>5 DEF Ladder
    <3>2. uncounted' = uncounted + 1
      BY <1>2, <1>3, <2>2, <3>1
    <3>3. Cardinality(offers') + uncounted <= Cardinality(offers) + uncounted' + 0
      BY <1>2, <2>2, <3>2
    <3> QED
      BY <1>1, <1>2, <2>2, <2>3, <2>5, <3>1, <3>2, <3>3, GoesNext
  <2>6. CASE Ends("temporarily_unavailable")
    <3>1. uncounted' = uncounted
      BY <1>3, <2>6, RestingLadder DEF Ends
    <3> QED
      BY <1>1, <2>2, <2>3, <2>6, <3>1, EndsNext DEF Endings
  <2> QED
    BY <1>5, <2>4, <2>5, <2>6 DEF CreateOffer
<1> QED
  BY <1>4, <1>5

LEMMA LadderInvNext == LadderInv /\ [OffersNext]_selling => LadderInv'
<1> SUFFICES ASSUME LadderInv, [OffersNext]_selling PROVE LadderInv'
  OBVIOUS
<1>1. CASE EndLadder
  <2>1. PICK ending \in Endings : Ends(ending)
    BY <1>1 DEF EndLadder, Endings
  <2>2. UNCHANGED <<offers, uncounted, ladders>>
    BY <1>1 DEF EndLadder
  <2> QED
    BY <2>1, <2>2, EndsNext DEF LadderInv, LadderShape, OfferCapHolds
<1>2. CASE OfferByHand
  <2>1. PICK title \in OtherOffers \ offers : offers' = offers \cup {title}
    BY <1>2 DEF OfferByHand
  <2>2. uncounted' = uncounted + 1 /\ UNCHANGED <<ladder, snapshot, ladders>>
    BY <1>2 DEF OfferByHand
  <2>3. /\ IsFiniteSet(offers') /\ Cardinality(offers') = Cardinality(offers) + 1
        /\ uncounted \in Nat /\ Cardinality(offers) \in Nat /\ CountsAll \in Nat
        /\ MaxActiveOffers \in Nat
    BY <2>1, TitleMore, CountsType DEF LadderInv, LadderShape
  <2>4. LadderShape'
    BY <2>1, <2>2, <2>3 DEF LadderInv, LadderShape, OfferTitles
  <2>5. OffersAccounted' /\ OfferCapHolds'
    BY <2>2, <2>3 DEF LadderInv, OffersAccounted, OfferCapHolds, CountsAll
  <2> QED
    BY <2>4, <2>5 DEF LadderInv
<1>3. CASE Withdraw
  <2>1. PICK title \in offers : offers' = offers \ {title}
    BY <1>3 DEF Withdraw
  <2>2. UNCHANGED <<uncounted, ladder, snapshot, ladders>>
    BY <1>3 DEF Withdraw
  <2>3. /\ IsFiniteSet(offers') /\ Cardinality(offers') = Cardinality(offers) - 1
        /\ uncounted \in Nat /\ Cardinality(offers) \in Nat /\ CountsAll \in Nat
        /\ MaxActiveOffers \in Nat
    BY <2>1, TitleLess, CountsType DEF LadderInv, LadderShape
  <2>4. LadderShape'
    BY <2>1, <2>2, <2>3 DEF LadderInv, LadderShape
  <2>5. OffersAccounted' /\ OfferCapHolds'
    BY <2>2, <2>3 DEF LadderInv, OffersAccounted, OfferCapHolds, CountsAll
  <2> QED
    BY <2>4, <2>5 DEF LadderInv
<1>4. CASE UNCHANGED selling
  BY <1>4 DEF selling, LadderInv, LadderShape, OffersAccounted, OfferCapHolds, CountsAll
<1> QED
  BY <1>1, <1>2, <1>3, <1>4, ReadNext, CreateNext DEF OffersNext

LEMMA LadderInvInit == OffersInit => LadderInv
<1> SUFFICES ASSUME OffersInit PROVE LadderInv
  OBVIOUS
<1>1. IsFiniteSet(offers) /\ offers \subseteq OfferTitles
  BY OffersAssumption, FS_Subset DEF OffersInit, OfferTitles
<1>2. Cardinality(offers) \in Nat
  BY <1>1, FS_CardinalityType
<1>3. LadderShape
  BY <1>1, RestingLadder, OffersAssumption DEF OffersInit, LadderShape
<1>4. OffersAccounted
  BY RestingLadder DEF OffersInit, OffersAccounted
<1>5. OfferCapHolds
  BY <1>2, OffersAssumption DEF OffersInit, OfferCapHolds
<1> QED
  BY <1>3, <1>4, <1>5 DEF LadderInv

(* A run never creates more offers than it has titles, and reads no others.             *)
THEOREM OffersTypeCorrect == OffersSpec => []OffersTypeOK
<1>1. LadderInv => OffersTypeOK
  <2> SUFFICES ASSUME LadderInv PROVE OffersTypeOK
    OBVIOUS
  <2>1. LadderShape /\ Len(DesiredOffers) \in Nat
    BY OffersAssumption DEF LadderInv
  <2>2. ladder.created <= Len(DesiredOffers)
    BY <2>1 DEF LadderShape, Ladder
  <2> QED
    BY <2>1, <2>2 DEF OffersTypeOK, LadderShape, Ladder, OfferTitles
<1> QED
  BY <1>1, LadderInvInit, LadderInvNext, PTL DEF OffersSpec

(* The ladder keeps to its limit, but for the offers that it does not count; for any      *)
(* ladder of titles, any limit and any number of runs.                                *)
THEOREM OfferCapHoldsAlways == OffersSpec => []OfferCapHolds
<1>1. LadderInv => OfferCapHolds
  BY DEF LadderInv
<1> QED
  BY <1>1, LadderInvInit, LadderInvNext, PTL DEF OffersSpec

--------------------------------------------------------------------------------
(* The sniper of TaskForce, for every set of tasks, scores and runs of its two programs. *)

(* A run, whatever its ranking, its attempts and what it has applied for.                *)
SniperRun(r) ==
  \E X : r \in [at : {"idle", "list", "apply"}, applied : SUBSET Tasks,
                ranked : X, attempts : X, mine : X]

SniperShape ==
  /\ active \subseteq Tasks /\ (state = TornState \/ state \subseteq Tasks)
  /\ DOMAIN sniper = Processes /\ \A p \in Processes : SniperRun(sniper[p])
  /\ made \in [Tasks -> Nat]

(* Every run that follows knows of a task: it is in the file, and known to those under   *)
(* way; or its own run is, and no other.                                              *)
InTheFile(t) ==
  t \in LoadedState /\ \A p \in Processes : sniper[p].at # "idle" => t \in sniper[p].applied
InItsRun(t) ==
  \E p \in Processes :
    /\ sniper[p].at = "apply" /\ t \in sniper[p].applied /\ t \in sniper[p].mine
    /\ \A q \in Processes \ {p} : sniper[q].at = "idle"

AppliedIsKnown ==
  \A t \in Tasks : t \notin excused /\ made[t] # 0 =>
    made[t] = 1 /\ (InTheFile(t) \/ InItsRun(t))

SniperInv == SniperShape /\ AppliedIsKnown

(* The run of p goes on, the others stay as they are.                                 *)
RunIs(p, at, applied, mine) ==
  /\ DOMAIN sniper' = Processes /\ \A q \in Processes : SniperRun(sniper'[q])
  /\ sniper'[p].at = at /\ sniper'[p].applied = applied /\ sniper'[p].mine = mine
  /\ \A q \in Processes \ {p} : sniper'[q] = sniper[q]

LEMMA RunChanges ==
  ASSUME SniperShape, NEW p \in Processes, NEW r, SniperRun(r), sniper' = [sniper EXCEPT ![p] = r]
  PROVE  RunIs(p, r.at, r.applied, r.mine)
  BY DEF SniperShape, RunIs

LEMMA RestingRun ==
  /\ SniperRun(Resting) /\ Resting.at = "idle" /\ Resting.applied = {} /\ Resting.mine = {}
<1> DEFINE X == {<<>>, 0, {}}
<1>1. Resting \in [at : {"idle", "list", "apply"}, applied : SUBSET Tasks,
                   ranked : X, attempts : X, mine : X]
  BY DEF Resting
<1> QED
  BY <1>1 DEF SniperRun, Resting

LEMMA RestNext ==
  ASSUME SniperShape, NEW p \in Processes, sniper' = [sniper EXCEPT ![p] = Resting]
  PROVE  RunIs(p, "idle", {}, {})
  BY RestingRun, RunChanges

LEMMA StartRuns ==
  ASSUME SniperShape, NEW p \in Processes, NEW known \in SUBSET Tasks,
         sniper' = [sniper EXCEPT ![p] = [Resting EXCEPT !.at = "list", !.applied = known]]
  PROVE  RunIs(p, "list", known, {})
<1> DEFINE r == [Resting EXCEPT !.at = "list", !.applied = known]
           X == {<<>>, 0, {}}
<1>1. /\ r \in [at : {"idle", "list", "apply"}, applied : SUBSET Tasks,
                ranked : X, attempts : X, mine : X]
      /\ r.at = "list" /\ r.applied = known /\ r.mine = {}
  BY DEF Resting
<1>2. SniperRun(r)
  BY <1>1 DEF SniperRun
<1> HIDE DEF r
<1>3. RunIs(p, r.at, r.applied, r.mine)
  BY <1>2, RunChanges DEF r
<1> QED
  BY <1>1, <1>3

LEMMA ListRuns ==
  ASSUME SniperShape, NEW p \in Processes, NEW ranking,
         sniper' = [sniper EXCEPT ![p].at = "apply", ![p].ranked = ranking]
  PROVE  RunIs(p, "apply", sniper[p].applied, sniper[p].mine)
<1>1. PICK X : sniper[p] \in [at : {"idle", "list", "apply"}, applied : SUBSET Tasks,
                              ranked : X, attempts : X, mine : X]
  BY DEF SniperShape, SniperRun
<1> DEFINE r == [sniper[p] EXCEPT !.at = "apply", !.ranked = ranking]
           Y == X \cup {ranking}
<1>2. /\ r \in [at : {"idle", "list", "apply"}, applied : SUBSET Tasks,
                ranked : Y, attempts : Y, mine : Y]
      /\ r.at = "apply" /\ r.applied = sniper[p].applied /\ r.mine = sniper[p].mine
  BY <1>1
<1>3. SniperRun(r)
  BY <1>2 DEF SniperRun
<1>4. sniper' = [sniper EXCEPT ![p] = r]
  BY DEF SniperShape
<1> HIDE DEF r
<1>5. RunIs(p, r.at, r.applied, r.mine)
  BY <1>3, <1>4, RunChanges
<1> QED
  BY <1>2, <1>5

LEMMA SkipRuns ==
  ASSUME SniperShape, NEW p \in Processes, NEW ranking,
         sniper' = [sniper EXCEPT ![p].ranked = ranking]
  PROVE  RunIs(p, sniper[p].at, sniper[p].applied, sniper[p].mine)
<1>1. PICK X : sniper[p] \in [at : {"idle", "list", "apply"}, applied : SUBSET Tasks,
                              ranked : X, attempts : X, mine : X]
  BY DEF SniperShape, SniperRun
<1> DEFINE r == [sniper[p] EXCEPT !.ranked = ranking]
           Y == X \cup {ranking}
<1>2. /\ r \in [at : {"idle", "list", "apply"}, applied : SUBSET Tasks,
                ranked : Y, attempts : Y, mine : Y]
      /\ r.at = sniper[p].at /\ r.applied = sniper[p].applied /\ r.mine = sniper[p].mine
  BY <1>1
<1>3. SniperRun(r)
  BY <1>2 DEF SniperRun
<1>4. sniper' = [sniper EXCEPT ![p] = r]
  BY DEF SniperShape
<1> HIDE DEF r
<1>5. RunIs(p, r.at, r.applied, r.mine)
  BY <1>3, <1>4, RunChanges
<1> QED
  BY <1>2, <1>5

LEMMA ApplyRuns ==
  ASSUME SniperShape, NEW p \in Processes, NEW ranking, NEW known \in SUBSET Tasks, NEW t,
         sniper' = [sniper EXCEPT ![p].ranked = ranking, ![p].attempts = @ + 1,
                                  ![p].applied = known, ![p].mine = @ \cup {t}]
  PROVE  RunIs(p, sniper[p].at, known, sniper[p].mine \cup {t})
<1>1. PICK X : sniper[p] \in [at : {"idle", "list", "apply"}, applied : SUBSET Tasks,
                              ranked : X, attempts : X, mine : X]
  BY DEF SniperShape, SniperRun
<1> DEFINE tries == sniper[p].attempts + 1
           own     == sniper[p].mine \cup {t}
<1> HIDE DEF tries, own
<1> DEFINE r == [sniper[p] EXCEPT !.ranked = ranking, !.attempts = tries,
                                  !.applied = known, !.mine = own]
           Y == X \cup {ranking, tries, own}
<1>2. /\ r \in [at : {"idle", "list", "apply"}, applied : SUBSET Tasks,
                ranked : Y, attempts : Y, mine : Y]
      /\ r.at = sniper[p].at /\ r.applied = known /\ r.mine = own
  BY <1>1
<1>3. SniperRun(r)
  BY <1>2 DEF SniperRun
<1>4. sniper' = [sniper EXCEPT ![p] = r]
  BY DEF SniperShape, tries, own
<1> HIDE DEF r
<1>5. RunIs(p, r.at, r.applied, r.mine)
  BY <1>3, <1>4, RunChanges
<1> QED
  BY <1>2, <1>5 DEF own

LEMMA RunType ==
  ASSUME SniperShape, NEW p \in Processes
  PROVE  /\ sniper[p].applied \subseteq Tasks /\ sniper[p].at \in {"idle", "list", "apply"}
         /\ LoadedState \subseteq Tasks
<1>1. PICK X : sniper[p] \in [at : {"idle", "list", "apply"}, applied : SUBSET Tasks,
                              ranked : X, attempts : X, mine : X]
  BY DEF SniperShape, SniperRun
<1>2. LoadedState \subseteq Tasks
  BY DEF SniperShape, LoadedState
<1> QED
  BY <1>1, <1>2

-------------------------------------------------------------------------------
LEMMA StartNext ==
  ASSUME SniperInv, NEW p \in Processes, Start(p) PROVE SniperInv'
<1>1. SniperShape /\ sniper[p].at = "idle"
  BY DEF SniperInv, Start
<1>2. /\ RunIs(p, "list", LoadedState, {}) /\ excused' = excused \cup Others(p)
      /\ UNCHANGED <<active, state, made>>
  BY <1>1, RunType, StartRuns DEF Start
<1>3. SniperShape'
  BY <1>1, <1>2 DEF SniperShape, RunIs
<1>4. ASSUME NEW t \in Tasks, t \notin excused', made'[t] # 0
      PROVE  made'[t] = 1 /\ InTheFile(t)'
  <2>1. t \notin excused /\ t \notin Others(p) /\ made[t] = made'[t]
    BY <1>2, <1>4
  <2>2. made[t] = 1 /\ (InTheFile(t) \/ InItsRun(t))
    BY <1>4, <2>1 DEF SniperInv, AppliedIsKnown
  <2>3. ~InItsRun(t)
    BY <1>1, <2>1 DEF InItsRun, Others
  <2> QED
    BY <1>2, <2>1, <2>2, <2>3 DEF InTheFile, RunIs, LoadedState
<1> QED
  BY <1>3, <1>4 DEF SniperInv, AppliedIsKnown

(* What was known stays known while a run goes on, unless it ends with it.                *)
LEMMA KnownStays ==
  ASSUME SniperInv, NEW p \in Processes, NEW at, NEW known \in SUBSET Tasks, NEW own,
         at = sniper[p].at \/ (at = "idle" /\ sniper[p].mine \subseteq excused')
           \/ (sniper[p].at = "list" /\ at \in {"idle", "apply"}),
         sniper[p].at # "idle",
         at # "idle" => sniper[p].applied \subseteq known /\ sniper[p].mine \subseteq own,
         RunIs(p, at, known, own), LoadedState' = LoadedState, excused \subseteq excused',
         NEW t \in Tasks, t \notin excused', made[t] # 0
  PROVE  made[t] = 1 /\ (InTheFile(t)' \/ InItsRun(t)')
<1>1. t \notin excused
  OBVIOUS
<1>2. made[t] = 1 /\ (InTheFile(t) \/ InItsRun(t))
  BY <1>1 DEF SniperInv, AppliedIsKnown
<1>3. CASE InTheFile(t)
  <2>1. ASSUME NEW q \in Processes, sniper'[q].at # "idle" PROVE t \in sniper'[q].applied
    BY <1>3, <2>1 DEF InTheFile, RunIs
  <2> QED
    BY <1>2, <1>3, <2>1 DEF InTheFile
<1>4. CASE InItsRun(t)
  <2>1. /\ sniper[p].at = "apply" /\ t \in sniper[p].applied /\ t \in sniper[p].mine
        /\ \A q \in Processes \ {p} : sniper[q].at = "idle"
    BY <1>4 DEF InItsRun
  <2>2. at = "apply" /\ t \in known /\ t \in own
    BY <2>1
  <2> QED
    BY <1>2, <2>1, <2>2 DEF InItsRun, RunIs
<1> QED
  BY <1>2, <1>3, <1>4

LEMMA ListNext ==
  ASSUME SniperInv, NEW p \in Processes, List(p) PROVE SniperInv'
<1>1. /\ SniperShape /\ sniper[p].at = "list" /\ UNCHANGED <<active, state, made, excused>>
      /\ LoadedState' = LoadedState
  BY DEF SniperInv, List, LoadedState
<1>2. \/ RunIs(p, "apply", sniper[p].applied, sniper[p].mine)
      \/ RunIs(p, "idle", {}, {})
  BY <1>1, ListRuns, RestNext DEF List
<1>3. SniperShape'
  BY <1>1, <1>2 DEF SniperShape, RunIs
<1>4. ASSUME NEW t \in Tasks, t \notin excused', made'[t] # 0
      PROVE  made'[t] = 1 /\ (InTheFile(t)' \/ InItsRun(t)')
  <2>1. CASE RunIs(p, "apply", sniper[p].applied, sniper[p].mine)
    BY <1>1, <1>4, <2>1, RunType, KnownStays
  <2>2. CASE RunIs(p, "idle", {}, {})
    BY <1>1, <1>4, <2>2, KnownStays
  <2> QED
    BY <1>2, <2>1, <2>2
<1> QED
  BY <1>3, <1>4 DEF SniperInv, AppliedIsKnown

(* A run applies for a task that it does not know of: nothing was made of it before.      *)
LEMMA UnknownIsNew ==
  ASSUME SniperInv, NEW p \in Processes, sniper[p].at = "apply",
         NEW t \in Tasks, t \notin sniper[p].applied, t \notin excused
  PROVE  made[t] = 0
<1>1. ~InTheFile(t)
  BY DEF InTheFile
<1>2. ~InItsRun(t)
  BY DEF InItsRun
<1> QED
  BY <1>1, <1>2 DEF SniperInv, AppliedIsKnown

LEMMA ApplyStep ==
  ASSUME SniperInv, NEW p \in Processes, ApplyNext(p) PROVE SniperInv'
<1> DEFINE t    == Head(sniper[p].ranked)
           rest == Tail(sniper[p].ranked)
           also == IF Overlaps(p) THEN {t} ELSE {}
<1> HIDE DEF t, rest, also
<1>1. /\ SniperShape /\ sniper[p].at = "apply" /\ UNCHANGED <<active, state>>
      /\ LoadedState' = LoadedState /\ sniper[p].applied \in SUBSET Tasks
      /\ active \subseteq Tasks /\ made \in [Tasks -> Nat]
  BY RunType DEF SniperInv, ApplyNext, LoadedState, SniperShape
<1>2. \/ sniper' = [sniper EXCEPT ![p].ranked = rest] /\ UNCHANGED <<made, excused>>
      \/ /\ t \notin sniper[p].applied /\ t \in active
         /\ sniper' = [sniper EXCEPT ![p].ranked = rest, ![p].attempts = @ + 1,
                         ![p].applied = sniper[p].applied \cup {t}, ![p].mine = @ \cup {t}]
         /\ Applies(t) /\ excused' = excused \cup also
      \/ /\ sniper' = [sniper EXCEPT ![p].ranked = rest, ![p].attempts = @ + 1,
                         ![p].applied = sniper[p].applied, ![p].mine = @ \cup {t}]
         /\ \/ UNCHANGED <<made, excused>>
            \/ t \in active /\ Applies(t) /\ excused' = excused \cup {t}
      \/ /\ sniper' = [sniper EXCEPT ![p] = Resting]
         /\ excused' = excused \cup sniper[p].mine \cup {t}
         /\ (t \in active /\ Applies(t)) \/ UNCHANGED made
  <2>1. /\ Remembered(p, t, 201) = sniper[p].applied \cup {t}
        /\ Remembered(p, t, 409) = sniper[p].applied
        /\ Remembered(p, t, 503) = sniper[p].applied
    BY DEF Remembered
  <2> DEFINE Leaves(code) ==
               sniper' = [sniper EXCEPT ![p].ranked = rest, ![p].attempts = @ + 1,
                                        ![p].applied = Remembered(p, t, code),
                                        ![p].mine = @ \cup {t}]
  <2>2. \/ sniper' = [sniper EXCEPT ![p].ranked = rest] /\ UNCHANGED <<made, excused>>
        \/ /\ t \notin sniper[p].applied /\ t \in active
           /\ Leaves(201) /\ Applies(t) /\ excused' = excused \cup also
        \/ Leaves(409) /\ UNCHANGED <<made, excused>>
        \/ Leaves(503) /\ t \in active /\ Applies(t) /\ excused' = excused \cup {t}
        \/ /\ sniper' = [sniper EXCEPT ![p] = Resting]
           /\ excused' = excused \cup sniper[p].mine \cup {t}
           /\ (t \in active /\ Applies(t)) \/ UNCHANGED made
    BY DEF ApplyNext, t, rest, also
  <2> QED
    BY <2>1, <2>2
<1>3. Applies(t) => /\ made' \in [Tasks -> Nat]
                    /\ \A u \in Tasks \ {t} : made'[u] = made[u]
                    /\ t \in Tasks => made'[t] = made[t] + 1
  <2> SUFFICES ASSUME Applies(t)
               PROVE  /\ made' \in [Tasks -> Nat]
                      /\ \A u \in Tasks \ {t} : made'[u] = made[u]
                      /\ t \in Tasks => made'[t] = made[t] + 1
    OBVIOUS
  <2>1. made' = [u \in Tasks |-> IF u = t THEN made[u] + 1 ELSE made[u]]
    BY <1>1 DEF Applies
  <2> QED
    BY <1>1, <2>1
<1>4. CASE sniper' = [sniper EXCEPT ![p].ranked = rest] /\ UNCHANGED <<made, excused>>
  <2>1. RunIs(p, sniper[p].at, sniper[p].applied, sniper[p].mine)
    BY <1>1, <1>4, SkipRuns
  <2>2. SniperShape'
    BY <1>1, <1>4, <2>1 DEF SniperShape, RunIs
  <2>3. AppliedIsKnown'
    <3> SUFFICES ASSUME NEW u \in Tasks, u \notin excused', made'[u] # 0
                 PROVE  made'[u] = 1 /\ (InTheFile(u)' \/ InItsRun(u)')
      BY DEF AppliedIsKnown
    <3> QED
      BY <1>1, <1>4, <2>1, KnownStays
  <2> QED
    BY <2>2, <2>3 DEF SniperInv
<1>5. CASE /\ t \notin sniper[p].applied /\ t \in active
           /\ sniper' = [sniper EXCEPT ![p].ranked = rest, ![p].attempts = @ + 1,
                           ![p].applied = sniper[p].applied \cup {t}, ![p].mine = @ \cup {t}]
           /\ Applies(t) /\ excused' = excused \cup also
  <2> DEFINE known == sniper[p].applied \cup {t}
  <2>1. RunIs(p, "apply", known, sniper[p].mine \cup {t}) /\ known \in SUBSET Tasks
    <3>1. known \in SUBSET Tasks
      BY <1>1, <1>5
    <3>2. sniper' = [sniper EXCEPT ![p].ranked = rest, ![p].attempts = @ + 1,
                                   ![p].applied = known, ![p].mine = @ \cup {t}]
      BY <1>5
    <3> HIDE DEF known
    <3>3. SniperShape /\ p \in Processes
      BY <1>1
    <3>4. RunIs(p, sniper[p].at, known, sniper[p].mine \cup {t})
      BY ONLY <3>1, <3>2, <3>3, ApplyRuns
    <3> QED
      BY <1>1, <3>1, <3>4
  <2>2. SniperShape'
    BY <1>1, <1>3, <1>5, <2>1 DEF SniperShape, RunIs
  <2>3. AppliedIsKnown'
    <3> SUFFICES ASSUME NEW u \in Tasks, u \notin excused', made'[u] # 0
                 PROVE  made'[u] = 1 /\ (InTheFile(u)' \/ InItsRun(u)')
      BY DEF AppliedIsKnown
    <3>1. CASE u = t
      <4>1. t \notin also /\ t \notin excused /\ t \in Tasks
        BY <1>5, <3>1
      <4>2. made'[t] = 1
        BY <1>1, <1>3, <1>5, <4>1, UnknownIsNew
      <4>3. \A q \in Processes \ {p} : sniper[q].at = "idle"
        BY <4>1 DEF also, Overlaps
      <4> QED
        BY <2>1, <3>1, <4>2, <4>3 DEF InItsRun, RunIs
    <3>2. CASE u # t
      <4>1. made'[u] = made[u]
        BY <1>3, <1>5, <3>2
      <4> HIDE DEF known
      <4>2. made[u] = 1 /\ (InTheFile(u)' \/ InItsRun(u)')
        BY <1>1, <1>5, <2>1, <4>1, KnownStays DEF known
      <4> QED
        BY <4>1, <4>2
    <3> QED
      BY <3>1, <3>2
  <2> QED
    BY <2>2, <2>3 DEF SniperInv
<1>6. CASE /\ sniper' = [sniper EXCEPT ![p].ranked = rest, ![p].attempts = @ + 1,
                           ![p].applied = sniper[p].applied, ![p].mine = @ \cup {t}]
           /\ \/ UNCHANGED <<made, excused>>
              \/ t \in active /\ Applies(t) /\ excused' = excused \cup {t}
  <2>1. RunIs(p, "apply", sniper[p].applied, sniper[p].mine \cup {t})
    <3> DEFINE known == sniper[p].applied
    <3>1. known \in SUBSET Tasks
      BY <1>1
    <3>2. sniper' = [sniper EXCEPT ![p].ranked = rest, ![p].attempts = @ + 1,
                                   ![p].applied = known, ![p].mine = @ \cup {t}]
      BY <1>6
    <3> HIDE DEF known
    <3>3. SniperShape /\ p \in Processes
      BY <1>1
    <3>4. RunIs(p, sniper[p].at, known, sniper[p].mine \cup {t})
      BY ONLY <3>1, <3>2, <3>3, ApplyRuns
    <3> QED
      BY <1>1, <3>4 DEF known
  <2>2. SniperShape'
    BY <1>1, <1>3, <1>6, <2>1 DEF SniperShape, RunIs
  <2>3. AppliedIsKnown'
    <3> SUFFICES ASSUME NEW u \in Tasks, u \notin excused', made'[u] # 0
                 PROVE  made'[u] = 1 /\ (InTheFile(u)' \/ InItsRun(u)')
      BY DEF AppliedIsKnown
    <3>1. made'[u] = made[u] /\ excused \subseteq excused'
      BY <1>3, <1>6
    <3>2. made[u] = 1 /\ (InTheFile(u)' \/ InItsRun(u)')
      BY <1>1, <2>1, <3>1, KnownStays
    <3> QED
      BY <3>1, <3>2
  <2> QED
    BY <2>2, <2>3 DEF SniperInv
<1>7. CASE /\ sniper' = [sniper EXCEPT ![p] = Resting]
           /\ excused' = excused \cup sniper[p].mine \cup {t}
           /\ (t \in active /\ Applies(t)) \/ UNCHANGED made
  <2>1. RunIs(p, "idle", {}, {})
    BY <1>1, <1>7, RestNext
  <2>2. SniperShape'
    BY <1>1, <1>3, <1>7, <2>1 DEF SniperShape, RunIs
  <2>3. AppliedIsKnown'
    <3> SUFFICES ASSUME NEW u \in Tasks, u \notin excused', made'[u] # 0
                 PROVE  made'[u] = 1 /\ (InTheFile(u)' \/ InItsRun(u)')
      BY DEF AppliedIsKnown
    <3>1. made'[u] = made[u] /\ excused \subseteq excused' /\ sniper[p].mine \subseteq excused'
      BY <1>3, <1>7
    <3>2. made[u] = 1 /\ (InTheFile(u)' \/ InItsRun(u)')
      BY <1>1, <2>1, <3>1, KnownStays
    <3> QED
      BY <3>1, <3>2
  <2> QED
    BY <2>2, <2>3 DEF SniperInv
<1> QED
  BY <1>2, <1>4, <1>5, <1>6, <1>7

(* The file then holds what the run knew.                                             *)
LEMMA SaveNext ==
  ASSUME SniperInv, NEW p \in Processes, SaveState(p) PROVE SniperInv'
<1>1. /\ SniperShape /\ sniper[p].at = "apply" /\ UNCHANGED <<active, made, excused>>
      /\ state' = sniper[p].applied /\ state' \subseteq Tasks
      /\ RunIs(p, "idle", {}, {})
  BY RunType, RestNext DEF SniperInv, SaveState
<1>2. LoadedState' = sniper[p].applied
  BY <1>1, SniperAssumption DEF LoadedState, TornState
<1>3. SniperShape'
  BY <1>1 DEF SniperShape, RunIs
<1>4. ASSUME NEW t \in Tasks, t \notin excused', made'[t] # 0
      PROVE  made'[t] = 1 /\ InTheFile(t)'
  <2>1. made[t] = 1 /\ (InTheFile(t) \/ InItsRun(t))
    BY <1>1, <1>4 DEF SniperInv, AppliedIsKnown
  <2>2. t \in sniper[p].applied
    BY <1>1, <2>1 DEF InTheFile, InItsRun
  <2>3. \A q \in Processes \ {p} : sniper[q].at # "idle" => t \in sniper[q].applied
    BY <1>1, <2>1 DEF InTheFile, InItsRun
  <2> QED
    BY <1>1, <1>2, <2>1, <2>2, <2>3 DEF InTheFile, RunIs
<1> QED
  BY <1>3, <1>4 DEF SniperInv, AppliedIsKnown

LEMMA KilledRunNext ==
  ASSUME SniperInv, NEW p \in Processes, Killed(p) PROVE SniperInv'
<1>1. /\ SniperShape /\ sniper[p].at # "idle" /\ UNCHANGED <<active, made>>
      /\ RunIs(p, "idle", {}, {})
  BY RestNext DEF SniperInv, Killed
<1>2. CASE excused' = excused \cup sniper[p].mine /\ UNCHANGED state
  <2>1. SniperShape' /\ LoadedState' = LoadedState
    BY <1>1, <1>2 DEF SniperShape, RunIs, LoadedState
  <2>2. ASSUME NEW t \in Tasks, t \notin excused', made'[t] # 0
        PROVE  made'[t] = 1 /\ (InTheFile(t)' \/ InItsRun(t)')
    BY <1>1, <1>2, <2>1, <2>2, KnownStays
  <2> QED
    BY <2>1, <2>2 DEF SniperInv, AppliedIsKnown
<1>3. CASE state' = TornState /\ excused' = Tasks
  <2>1. SniperShape'
    BY <1>1, <1>3 DEF SniperShape, RunIs
  <2> QED
    BY <1>3, <2>1 DEF SniperInv, AppliedIsKnown
<1> QED
  BY <1>2, <1>3 DEF Killed

LEMMA SniperInvNext == SniperInv /\ [SniperNext]_sniping => SniperInv'
<1> SUFFICES ASSUME SniperInv, [SniperNext]_sniping PROVE SniperInv'
  OBVIOUS
<1>1. CASE CloseTask \/ UNCHANGED sniping
  <2>1. UNCHANGED <<state, sniper, made, excused>> /\ active' \subseteq active
    BY <1>1 DEF CloseTask, sniping
  <2> QED
    BY <2>1 DEF SniperInv, SniperShape, AppliedIsKnown, InTheFile, InItsRun, LoadedState
<1> QED
  BY <1>1, StartNext, ListNext, ApplyStep, SaveNext, KilledRunNext DEF SniperNext

(* The state file keeps a task from being applied for twice, but for those that the         *)
(* model excuses; for any tasks, scores and gates, and however often either process runs.   *)
THEOREM KnownTaskIsNotAppliedAgainHolds == SniperSpec => []KnownTaskIsNotAppliedAgain
<1>1. SniperInit => SniperInv
  BY RestingRun DEF SniperInit, SniperInv, SniperShape, AppliedIsKnown
<1>2. SniperInv => KnownTaskIsNotAppliedAgain
  BY DEF SniperInv, SniperShape, AppliedIsKnown, KnownTaskIsNotAppliedAgain
<1> QED
  BY <1>1, <1>2, SniperInvNext, PTL DEF SniperSpec

--------------------------------------------------------------------------------
(* More of TaskForce: the types of its state, for which a run may not apply for a task    *)
(* twice.                                                                              *)

(* A run in full, and its ranking, in which no task comes twice.                         *)
Snipers == [at : {"idle", "list", "apply"}, applied : SUBSET Tasks, ranked : Seq(Tasks),
            attempts : 0 .. MaxApplies, mine : SUBSET Tasks]
NoRepeat(order) == \A i, j \in DOMAIN order : order[i] = order[j] => i = j
InRanking(r, t) == \E i \in DOMAIN r.ranked : r.ranked[i] = t

(* 1 as long as a run may still apply for a task. With it, each run applies once at most.  *)
MayApply(r, t) == IF r.at = "list" \/ (r.at = "apply" /\ InRanking(r, t)) THEN 1 ELSE 0

SniperTyped ==
  /\ active \subseteq Tasks /\ excused \subseteq Tasks
  /\ state = TornState \/ state \subseteq Tasks
  /\ sniper \in [Processes -> Snipers]
  /\ starts \in [Processes -> 0 .. MaxRunsOf]
  /\ made \in [Tasks -> Nat]
AppliesOnceARun ==
  /\ \A p \in Processes : NoRepeat(sniper[p].ranked)
  /\ \A t \in Tasks :
       made[t] + MayApply(sniper["timer"], t) + MayApply(sniper["workflow"], t)
         <= starts["timer"] + starts["workflow"]
SniperTypeInv == SniperTyped /\ AppliesOnceARun

LEMMA MayApplyType == \A r, t : MayApply(r, t) \in {0, 1}
  BY DEF MayApply

LEMMA RestingSniper ==
  /\ Resting \in Snipers /\ NoRepeat(Resting.ranked)
  /\ \A t : MayApply(Resting, t) = 0
<1>1. Resting \in Snipers
  BY SniperAssumption DEF Resting, Snipers
<1> QED
  BY <1>1 DEF Resting, NoRepeat, MayApply

(* One process goes on, to the state r of its run.                                       *)
LEMMA SniperMoves ==
  ASSUME SniperTypeInv, NEW p \in Processes, NEW r \in Snipers, NoRepeat(r.ranked),
         sniper' = [sniper EXCEPT ![p] = r],
         active' \subseteq Tasks, excused' \subseteq Tasks, state' = TornState \/ state' \subseteq Tasks,
         starts' \in [Processes -> 0 .. MaxRunsOf], made' \in [Tasks -> Nat],
         \A q \in Processes : q # p => starts'[q] = starts[q],
         \A t \in Tasks : made'[t] + MayApply(r, t) + starts[p] <= made[t] + MayApply(sniper[p], t) + starts'[p]
  PROVE  SniperTypeInv'
<1>1. /\ sniper \in [Processes -> Snipers] /\ starts \in [Processes -> 0 .. MaxRunsOf]
      /\ made \in [Tasks -> Nat] /\ MaxRunsOf \in Nat
  BY SniperAssumption DEF SniperTypeInv, SniperTyped
<1>2. sniper' \in [Processes -> Snipers] /\ \A q \in Processes : sniper'[q] = IF q = p THEN r ELSE sniper[q]
  BY <1>1
<1>3. SniperTyped'
  BY <1>2 DEF SniperTyped
<1>4. \A q \in Processes : NoRepeat(sniper'[q].ranked)
  BY <1>2 DEF SniperTypeInv, AppliesOnceARun
<1>5. ASSUME NEW t \in Tasks
      PROVE  made'[t] + MayApply(sniper'["timer"], t) + MayApply(sniper'["workflow"], t)
               <= starts'["timer"] + starts'["workflow"]
  <2> DEFINE a == MayApply(sniper["timer"], t)
             b == MayApply(sniper["workflow"], t)
             c == MayApply(r, t)
  <2>1. a \in Nat /\ b \in Nat /\ c \in Nat
    BY MayApplyType
  <2>2. /\ starts["timer"] \in Nat /\ starts["workflow"] \in Nat /\ starts'["timer"] \in Nat
        /\ starts'["workflow"] \in Nat /\ made[t] \in Nat /\ made'[t] \in Nat
    BY <1>1 DEF Processes
  <2>3. made[t] + a + b <= starts["timer"] + starts["workflow"]
    BY DEF SniperTypeInv, AppliesOnceARun
  <2>4. CASE p = "timer"
    <3>1. /\ made'[t] + c + starts["timer"] <= made[t] + a + starts'["timer"]
          /\ starts'["workflow"] = starts["workflow"]
      BY <2>4 DEF Processes
    <3>2. MayApply(sniper'["timer"], t) = c /\ MayApply(sniper'["workflow"], t) = b
      BY <1>2, <2>4 DEF Processes
    <3> HIDE DEF a, b, c
    <3> QED
      BY <2>1, <2>2, <2>3, <3>1, <3>2
  <2>5. CASE p = "workflow"
    <3>1. /\ made'[t] + c + starts["workflow"] <= made[t] + b + starts'["workflow"]
          /\ starts'["timer"] = starts["timer"]
      BY <2>5 DEF Processes
    <3>2. MayApply(sniper'["timer"], t) = a /\ MayApply(sniper'["workflow"], t) = c
      BY <1>2, <2>5 DEF Processes
    <3> HIDE DEF a, b, c
    <3> QED
      BY <2>1, <2>2, <2>3, <3>1, <3>2
  <2> QED
    BY <2>4, <2>5 DEF Processes
<1> QED
  BY <1>3, <1>4, <1>5 DEF SniperTypeInv, AppliesOnceARun

LEMMA SniperFacts ==
  ASSUME SniperTypeInv
  PROVE  /\ active \subseteq Tasks /\ excused \subseteq Tasks
         /\ state = TornState \/ state \subseteq Tasks
         /\ sniper \in [Processes -> Snipers] /\ starts \in [Processes -> 0 .. MaxRunsOf]
         /\ made \in [Tasks -> Nat] /\ LoadedState \in SUBSET Tasks
         /\ \A p \in Processes : NoRepeat(sniper[p].ranked) /\ starts[p] \in Nat
         /\ MaxApplies \in Nat /\ MaxRunsOf \in Nat
  BY SniperAssumption DEF SniperTypeInv, SniperTyped, AppliesOnceARun, LoadedState

(* A run that is over applies for nothing more.                                          *)
LEMMA SniperRests ==
  ASSUME SniperTypeInv, NEW p \in Processes, sniper' = [sniper EXCEPT ![p] = Resting],
         active' \subseteq Tasks, excused' \subseteq Tasks, state' = TornState \/ state' \subseteq Tasks,
         UNCHANGED starts, made' \in [Tasks -> Nat],
         \A t \in Tasks : made'[t] <= made[t] + MayApply(sniper[p], t)
  PROVE  SniperTypeInv'
<1>1. /\ starts \in [Processes -> 0 .. MaxRunsOf] /\ made \in [Tasks -> Nat] /\ starts[p] \in Nat
  BY SniperFacts
<1>2. ASSUME NEW t \in Tasks
      PROVE  made'[t] + MayApply(Resting, t) + starts[p] <= made[t] + MayApply(sniper[p], t) + starts'[p]
  <2>1. MayApply(Resting, t) = 0 /\ MayApply(sniper[p], t) \in Nat
    BY RestingSniper, MayApplyType
  <2>2. made[t] \in Nat /\ made'[t] \in Nat /\ made'[t] <= made[t] + MayApply(sniper[p], t)
    BY <1>1
  <2> QED
    BY <1>1, <2>1, <2>2
<1> QED
  BY <1>1, <1>2, RestingSniper, SniperMoves

LEMMA SniperStarts ==
  ASSUME SniperTypeInv, NEW p \in Processes, Start(p) PROVE SniperTypeInv'
<1> DEFINE known == LoadedState
           r == [Resting EXCEPT !.at = "list", !.applied = known]
<1>1. /\ known \in SUBSET Tasks /\ made \in [Tasks -> Nat] /\ starts \in [Processes -> 0 .. MaxRunsOf]
      /\ \A q \in Processes : starts[q] \in Nat
      /\ MaxRunsOf \in Nat /\ excused \subseteq Tasks /\ sniper \in [Processes -> Snipers]
  BY SniperFacts
<1>2. r \in Snipers /\ r.at = "list" /\ r.ranked = <<>>
  <2> HIDE DEF known
  <2> QED
    BY <1>1, RestingSniper DEF Snipers, Resting
<1>3. NoRepeat(r.ranked)
  BY <1>2 DEF NoRepeat
<1>4. /\ sniper' = [sniper EXCEPT ![p] = r] /\ UNCHANGED <<active, state, made>>
      /\ starts' = [starts EXCEPT ![p] = starts[p] + 1] /\ excused' = excused \cup Others(p)
      /\ starts[p] < MaxRunsOf /\ sniper[p].at = "idle"
  BY <1>1 DEF Start
<1>5. /\ starts' \in [Processes -> 0 .. MaxRunsOf] /\ starts'[p] = starts[p] + 1
      /\ \A q \in Processes : q # p => starts'[q] = starts[q]
  BY <1>1, <1>4
<1>6. excused' \subseteq Tasks
  BY <1>1, <1>4 DEF Others, Snipers
<1> HIDE DEF r, known
<1>7. ASSUME NEW t \in Tasks
      PROVE  made'[t] + MayApply(r, t) + starts[p] <= made[t] + MayApply(sniper[p], t) + starts'[p]
  <2>1. MayApply(r, t) = 1 /\ MayApply(sniper[p], t) = 0
    BY <1>2, <1>4 DEF MayApply
  <2> QED
    BY <1>1, <1>4, <1>5, <2>1
<1>8. active' \subseteq Tasks /\ (state' = TornState \/ state' \subseteq Tasks)
  BY <1>4, SniperFacts
<1> QED
  BY <1>1, <1>2, <1>3, <1>4, <1>5, <1>6, <1>7, <1>8, SniperMoves

LEMMA RankingsType ==
  ASSUME active \subseteq Tasks, NEW order \in Rankings
  PROVE  order \in Seq(Tasks) /\ NoRepeat(order)
<1>1. Qualified \in SUBSET Tasks
  BY DEF Qualified
<1>2. Cardinality(Qualified) \in Nat
  BY <1>1, SniperAssumption, FS_Subset, FS_CardinalityType
<1>3. /\ order \in [1 .. Cardinality(Qualified) -> Qualified]
      /\ \A i, j \in 1 .. Cardinality(Qualified) : i < j => order[i] # order[j]
  BY DEF Rankings
<1> DEFINE n == Cardinality(Qualified)
<1> HIDE DEF n
<1>4. order \in [1 .. n -> Qualified] /\ n \in Nat /\ \A i, j \in 1 .. n : i < j => order[i] # order[j]
  BY <1>2, <1>3 DEF n
<1> QED
  BY <1>1, <1>4 DEF NoRepeat

LEMMA SniperLists ==
  ASSUME SniperTypeInv, NEW p \in Processes, List(p) PROVE SniperTypeInv'
<1>1. /\ sniper[p].at = "list" /\ UNCHANGED <<active, state, made, excused, starts>>
      /\ \/ \E order \in Rankings :
              sniper' = [sniper EXCEPT ![p].at = "apply", ![p].ranked = order]
         \/ sniper' = [sniper EXCEPT ![p] = Resting]
  BY DEF List
<1>2. /\ active \subseteq Tasks /\ excused \subseteq Tasks /\ (state = TornState \/ state \subseteq Tasks)
      /\ sniper \in [Processes -> Snipers] /\ starts \in [Processes -> 0 .. MaxRunsOf]
      /\ made \in [Tasks -> Nat] /\ starts[p] \in Nat
  BY SniperFacts
<1>3. \A t : MayApply(sniper[p], t) = 1
  BY <1>1 DEF MayApply
<1>4. CASE sniper' = [sniper EXCEPT ![p] = Resting]
  <2>1. \A t \in Tasks : made'[t] <= made[t] + MayApply(sniper[p], t)
    BY <1>1, <1>2, <1>3
  <2> QED
    BY <1>1, <1>2, <1>4, <2>1, SniperRests
<1>5. ASSUME NEW order \in Rankings, sniper' = [sniper EXCEPT ![p].at = "apply", ![p].ranked = order]
      PROVE  SniperTypeInv'
  <2> DEFINE r == [sniper[p] EXCEPT !.at = "apply", !.ranked = order]
  <2>1. order \in Seq(Tasks) /\ NoRepeat(order)
    BY <1>2, RankingsType
  <2>2. r \in Snipers /\ r.ranked = order
    BY <1>2, <2>1 DEF Snipers
  <2>3. sniper' = [sniper EXCEPT ![p] = r]
    BY <1>2, <1>5
  <2> HIDE DEF r
  <2>4. ASSUME NEW t \in Tasks
        PROVE  made'[t] + MayApply(r, t) + starts[p] <= made[t] + MayApply(sniper[p], t) + starts'[p]
    <3>1. MayApply(r, t) \in {0, 1} /\ MayApply(sniper[p], t) = 1 /\ made[t] \in Nat
      BY <1>2, <1>3, MayApplyType
    <3> QED
      BY <1>1, <1>2, <3>1
  <2> QED
    BY <1>1, <1>2, <2>1, <2>2, <2>3, <2>4, SniperMoves
<1> QED
  BY <1>1, <1>4, <1>5

(* The task at the head of a ranking is not in the rest of it.                            *)
LEMMA RestOfRanking ==
  ASSUME NEW order \in Seq(Tasks), order # <<>>, NoRepeat(order)
  PROVE  /\ Head(order) \in Tasks /\ Tail(order) \in Seq(Tasks) /\ NoRepeat(Tail(order))
         /\ \E i \in DOMAIN order : order[i] = Head(order)
         /\ \A i \in DOMAIN Tail(order) : Tail(order)[i] # Head(order)
         /\ \A t : (\E i \in DOMAIN Tail(order) : Tail(order)[i] = t) =>
                     \E i \in DOMAIN order : order[i] = t
<1> DEFINE n == Len(order)
<1>1. /\ n \in Nat /\ n > 0 /\ Head(order) = order[1] /\ order[1] \in Tasks
      /\ Tail(order) \in Seq(Tasks) /\ Len(Tail(order)) = n - 1
      /\ \A i \in 1 .. (n - 1) : Tail(order)[i] = order[i + 1]
  <2>1. Len(order) \in Nat /\ Len(order) # 0
    BY EmptySeq
  <2> QED
    BY <2>1, HeadTailProperties
<1>2. DOMAIN order = 1 .. n /\ DOMAIN Tail(order) = 1 .. (n - 1)
  BY <1>1
<1>3. \A i, j \in 1 .. n : order[i] = order[j] => i = j
  BY <1>2 DEF NoRepeat
<1> HIDE DEF n
<1>4. \A i \in 1 .. (n - 1) : i + 1 \in 1 .. n /\ 1 \in 1 .. n /\ i + 1 # 1
  BY <1>1
<1>5. NoRepeat(Tail(order))
  <2> SUFFICES ASSUME NEW i \in 1 .. (n - 1), NEW j \in 1 .. (n - 1), Tail(order)[i] = Tail(order)[j]
               PROVE  i = j
    BY <1>2 DEF NoRepeat
  <2>1. i + 1 = j + 1
    BY <1>1, <1>3, <1>4
  <2> QED
    BY <1>1, <2>1
<1>6. \A i \in 1 .. (n - 1) : Tail(order)[i] # Head(order)
  BY <1>1, <1>3, <1>4
<1>7. 1 \in 1 .. n
  BY <1>1
<1> QED
  BY <1>1, <1>2, <1>4, <1>5, <1>6, <1>7

LEMMA AppliedRecord ==
  ASSUME NEW A, NEW R, NEW N, NEW T,
         NEW x \in [at : T, applied : A, ranked : R, attempts : N, mine : A],
         NEW order \in R, NEW tried \in N, NEW known \in A, NEW own \in A, NEW r,
         r = [x EXCEPT !.ranked = order, !.attempts = tried, !.applied = known, !.mine = own]
  PROVE  /\ r \in [at : T, applied : A, ranked : R, attempts : N, mine : A]
         /\ r.at = x.at /\ r.ranked = order
  OBVIOUS

(* The run of p goes on after an answer for task u.                                      *)
Answers(p, order, ids, u) ==
  sniper' = [sniper EXCEPT ![p].ranked = order, ![p].attempts = @ + 1,
                           ![p].applied = ids, ![p].mine = @ \cup {u}]

(* The state r of the run of p after an answer.                                          *)
Answered(p, rest, r) ==
  r \in Snipers /\ r.at = sniper[p].at /\ r.ranked = rest /\ sniper' = [sniper EXCEPT ![p] = r]
IsAnswered(p, rest) == \E r : Answered(p, rest, r)

LEMMA RunAnswered ==
  ASSUME SniperTypeInv, NEW p \in Processes, NEW order \in Seq(Tasks), NEW ids \in SUBSET Tasks,
         NEW u \in Tasks, sniper[p].attempts < MaxApplies, Answers(p, order, ids, u)
  PROVE  IsAnswered(p, order)
<1> DEFINE tried == sniper[p].attempts + 1
           own     == sniper[p].mine \cup {u}
<1>1. sniper[p] \in Snipers /\ sniper \in [Processes -> Snipers] /\ MaxApplies \in Nat
  BY SniperFacts
<1>2. tried \in 0 .. MaxApplies /\ own \in SUBSET Tasks
  BY <1>1 DEF Snipers
<1> HIDE DEF tried, own
<1> DEFINE r == [sniper[p] EXCEPT !.ranked = order, !.attempts = tried,
                                  !.applied = ids, !.mine = own]
<1>3. r \in Snipers /\ r.at = sniper[p].at /\ r.ranked = order
  BY <1>1, <1>2, AppliedRecord DEF Snipers
<1>4. sniper' = [sniper EXCEPT ![p] = r]
  BY <1>1 DEF Answers, tried, own
<1> HIDE DEF r
<1> QED
  BY <1>3, <1>4 DEF Answered, IsAnswered

LEMMA SniperApplies ==
  ASSUME SniperTypeInv, NEW p \in Processes, ApplyNext(p) PROVE SniperTypeInv'
<1> DEFINE t    == Head(sniper[p].ranked)
           rest == Tail(sniper[p].ranked)
<1>1. /\ active \subseteq Tasks /\ excused \subseteq Tasks /\ (state = TornState \/ state \subseteq Tasks)
      /\ sniper \in [Processes -> Snipers] /\ starts \in [Processes -> 0 .. MaxRunsOf]
      /\ made \in [Tasks -> Nat] /\ starts[p] \in Nat /\ MaxApplies \in Nat
  BY SniperFacts
<1>2. /\ sniper[p].ranked \in Seq(Tasks) /\ NoRepeat(sniper[p].ranked)
      /\ sniper[p].applied \subseteq Tasks /\ sniper[p].mine \subseteq Tasks
      /\ sniper[p].attempts \in 0 .. MaxApplies
  BY <1>1, SniperFacts DEF Snipers
<1>3. /\ sniper[p].at = "apply" /\ sniper[p].ranked # <<>> /\ sniper[p].attempts < MaxApplies
      /\ UNCHANGED <<active, state, starts>>
  BY DEF ApplyNext
<1>4. t \in Tasks /\ rest \in Seq(Tasks) /\ NoRepeat(rest)
  BY <1>2, <1>3, RestOfRanking
<1>5. MayApply(sniper[p], t) = 1
  <2>1. InRanking(sniper[p], t)
    BY <1>2, <1>3, RestOfRanking DEF InRanking
  <2> QED
    BY <1>3, <2>1 DEF MayApply
<1>6. ASSUME NEW r, r.at = "apply", r.ranked = rest, NEW u \in Tasks
      PROVE  MayApply(r, u) <= MayApply(sniper[p], u) /\ (u = t => MayApply(r, u) = 0)
  <2>1. InRanking(r, u) => InRanking(sniper[p], u) /\ u # t
    BY <1>2, <1>3, <1>6, RestOfRanking DEF InRanking
  <2> QED
    BY <1>3, <1>6, <2>1 DEF MayApply
<1>7. Applies(t) => /\ made' \in [Tasks -> Nat] /\ made'[t] = made[t] + 1
                    /\ \A u \in Tasks \ {t} : made'[u] = made[u]
  <2> HIDE DEF t
  <2> QED
    BY <1>1, <1>4 DEF Applies
<1>8. /\ made' \in [Tasks -> Nat] /\ excused' \subseteq Tasks
      /\ \A u \in Tasks : made'[u] = made[u] \/ (u = t /\ made'[u] = made[u] + 1)
  <2>1. UNCHANGED made \/ Applies(t)
    BY DEF ApplyNext
  <2>2. made' \in [Tasks -> Nat] /\ \A u \in Tasks : made'[u] = made[u] \/ (u = t /\ made'[u] = made[u] + 1)
    <3> HIDE DEF t
    <3> QED
      BY <1>1, <1>7, <2>1
  <2>3. excused' \subseteq excused \cup sniper[p].mine \cup {t}
    BY DEF ApplyNext
  <2> QED
    BY <1>1, <1>2, <1>4, <2>2, <2>3
<1>9. \/ sniper' = [sniper EXCEPT ![p].ranked = rest] /\ UNCHANGED made
      \/ \E answer \in {201, 409, 503} : Answers(p, rest, Remembered(p, t, answer), t)
      \/ sniper' = [sniper EXCEPT ![p] = Resting]
  BY DEF ApplyNext, Answers
<1> HIDE DEF t, rest
<1>10. ASSUME NEW r \in Snipers, r.at = "apply", r.ranked = rest,
              sniper' = [sniper EXCEPT ![p] = r]
       PROVE  SniperTypeInv'
  <2>1. ASSUME NEW u \in Tasks
        PROVE  made'[u] + MayApply(r, u) + starts[p] <= made[u] + MayApply(sniper[p], u) + starts'[p]
    <3> DEFINE a == MayApply(r, u)
               b == MayApply(sniper[p], u)
    <3>1. a \in {0, 1} /\ b \in {0, 1} /\ a <= b /\ (u = t => a = 0 /\ b = 1)
      BY <1>5, <1>6, <1>10, MayApplyType
    <3>2. made[u] \in Nat /\ made'[u] \in Nat /\ starts'[p] = starts[p] /\ starts[p] \in Nat
      BY <1>1, <1>3, <1>8
    <3>3. made'[u] = made[u] \/ (u = t /\ made'[u] = made[u] + 1)
      BY <1>8
    <3> HIDE DEF a, b
    <3> QED
      BY <3>1, <3>2, <3>3 DEF a, b
  <2>2. NoRepeat(r.ranked)
    BY <1>4, <1>10
  <2>3. starts' \in [Processes -> 0 .. MaxRunsOf] /\ \A q \in Processes : q # p => starts'[q] = starts[q]
    BY <1>1, <1>3
  <2>4. active' \subseteq Tasks /\ (state' = TornState \/ state' \subseteq Tasks)
    BY <1>1, <1>3
  <2> QED
    BY <1>8, <1>10, <2>1, <2>2, <2>3, <2>4, SniperMoves
<1>11. CASE sniper' = [sniper EXCEPT ![p].ranked = rest]
  <2> DEFINE r == [sniper[p] EXCEPT !.ranked = rest]
  <2>1. r \in Snipers /\ r.at = "apply" /\ r.ranked = rest
    BY <1>1, <1>3, <1>4 DEF Snipers
  <2>2. sniper' = [sniper EXCEPT ![p] = r]
    BY <1>1, <1>11
  <2> HIDE DEF r
  <2> QED
    BY <1>10, <2>1, <2>2
<1>12. CASE \E answer \in {201, 409, 503} : Answers(p, rest, Remembered(p, t, answer), t)
  <2>1. PICK answer \in {201, 409, 503} : Answers(p, rest, Remembered(p, t, answer), t)
    BY <1>12
  <2>2. Remembered(p, t, answer) \in SUBSET Tasks
    BY <1>2, <1>4 DEF Remembered
  <2>3. IsAnswered(p, rest)
    BY <1>3, <1>4, <2>1, <2>2, RunAnswered
  <2>4. PICK r : Answered(p, rest, r)
    BY <2>3 DEF IsAnswered
  <2>5. /\ r \in Snipers /\ r.at = "apply" /\ r.ranked = rest
        /\ sniper' = [sniper EXCEPT ![p] = r]
    BY <1>3, <2>4 DEF Answered
  <2> QED
    BY <1>10, <2>5
<1>13. CASE sniper' = [sniper EXCEPT ![p] = Resting]
  <2>1. ASSUME NEW u \in Tasks PROVE made'[u] <= made[u] + MayApply(sniper[p], u)
    <3>1. MayApply(sniper[p], u) \in {0, 1} /\ (u = t => MayApply(sniper[p], u) = 1)
      BY <1>5, MayApplyType
    <3>2. made[u] \in Nat /\ (made'[u] = made[u] \/ (u = t /\ made'[u] = made[u] + 1))
      BY <1>1, <1>8
    <3> QED
      BY <3>1, <3>2
  <2>2. active' \subseteq Tasks /\ (state' = TornState \/ state' \subseteq Tasks)
    BY <1>1, <1>3
  <2> QED
    BY <1>3, <1>8, <1>13, <2>1, <2>2, SniperRests
<1> QED
  BY <1>9, <1>11, <1>12, <1>13

(* A run that ends without an application.                                              *)
LEMMA SniperEnds ==
  ASSUME SniperTypeInv, NEW p \in Processes, SaveState(p) \/ Killed(p) PROVE SniperTypeInv'
<1>1. /\ active \subseteq Tasks /\ excused \subseteq Tasks /\ (state = TornState \/ state \subseteq Tasks)
      /\ sniper \in [Processes -> Snipers] /\ made \in [Tasks -> Nat]
  BY SniperFacts
<1>2. sniper[p].applied \subseteq Tasks /\ sniper[p].mine \subseteq Tasks
  BY <1>1 DEF Snipers
<1>3. sniper' = [sniper EXCEPT ![p] = Resting] /\ UNCHANGED <<active, made, starts>>
  BY DEF SaveState, Killed
<1>4. excused' \subseteq Tasks /\ (state' = TornState \/ state' \subseteq Tasks)
  BY <1>1, <1>2 DEF SaveState, Killed
<1>5. \A t \in Tasks : made'[t] <= made[t] + MayApply(sniper[p], t)
  <2>1. \A t \in Tasks : made[t] \in Nat /\ MayApply(sniper[p], t) \in {0, 1}
    BY <1>1, MayApplyType
  <2> QED
    BY <1>3, <2>1
<1> QED
  BY <1>1, <1>3, <1>4, <1>5, SniperRests

LEMMA SniperTypeNext == SniperTypeInv /\ [SniperNext]_sniping => SniperTypeInv'
<1> SUFFICES ASSUME SniperTypeInv, [SniperNext]_sniping PROVE SniperTypeInv'
  OBVIOUS
<1>1. CASE CloseTask \/ UNCHANGED sniping
  <2>1. UNCHANGED <<state, sniper, made, excused, starts>> /\ active' \subseteq active
    BY <1>1 DEF CloseTask, sniping
  <2> QED
    BY <2>1 DEF SniperTypeInv, SniperTyped, AppliesOnceARun
<1> QED
  BY <1>1, SniperStarts, SniperLists, SniperApplies, SniperEnds DEF SniperNext

LEMMA SniperTypeImplies == SniperTypeInv => SniperTypeOK
<1> SUFFICES ASSUME SniperTypeInv PROVE SniperTypeOK
  OBVIOUS
<1>1. /\ active \subseteq Tasks /\ excused \subseteq Tasks /\ (state = TornState \/ state \subseteq Tasks)
      /\ sniper \in [Processes -> Snipers] /\ starts \in [Processes -> 0 .. MaxRunsOf]
      /\ made \in [Tasks -> Nat] /\ MaxRunsOf \in Nat
  BY SniperFacts
<1>2. ASSUME NEW t \in Tasks PROVE made[t] \in 0 .. 2 * MaxRunsOf
  <2> DEFINE a == MayApply(sniper["timer"], t)
             b == MayApply(sniper["workflow"], t)
  <2>1. a \in Nat /\ b \in Nat /\ made[t] \in Nat
    BY <1>1, MayApplyType
  <2>2. made[t] + a + b <= starts["timer"] + starts["workflow"]
    BY DEF SniperTypeInv, AppliesOnceARun
  <2>3. starts["timer"] \in 0 .. MaxRunsOf /\ starts["workflow"] \in 0 .. MaxRunsOf
    BY <1>1 DEF Processes
  <2> HIDE DEF a, b
  <2> QED
    BY <1>1, <2>1, <2>2, <2>3
<1>3. \A p \in Processes :
        /\ sniper[p].at \in {"idle", "list", "apply"}
        /\ sniper[p].applied \subseteq Tasks /\ sniper[p].mine \subseteq Tasks
        /\ sniper[p].ranked \in Seq(Tasks) /\ sniper[p].attempts \in 0 .. MaxApplies
  BY <1>1 DEF Snipers
<1> QED
  BY <1>1, <1>2, <1>3 DEF SniperTypeOK

(* Every run keeps to its limit of applications, and to one for each task, for any tasks,   *)
(* scores and runs, killed or not.                                                     *)
THEOREM SniperTypeCorrect == SniperSpec => []SniperTypeOK
<1>1. SniperInit => SniperTypeInv
  <2> SUFFICES ASSUME SniperInit PROVE SniperTypeInv
    OBVIOUS
  <2>1. sniper \in [Processes -> Snipers] /\ \A p \in Processes : sniper[p] = Resting
    BY RestingSniper DEF SniperInit
  <2>2. SniperTyped
    BY <2>1, SniperAssumption DEF SniperInit, SniperTyped
  <2>3. AppliesOnceARun
    <3>1. \A p \in Processes : NoRepeat(sniper[p].ranked)
      BY <2>1, RestingSniper
    <3>2. \A t : MayApply(sniper["timer"], t) = 0 /\ MayApply(sniper["workflow"], t) = 0
      BY <2>1, RestingSniper DEF Processes
    <3>3. starts["timer"] = 0 /\ starts["workflow"] = 0 /\ \A t \in Tasks : made[t] = 0
      BY DEF SniperInit, Processes
    <3> QED
      BY <3>1, <3>2, <3>3 DEF AppliesOnceARun
  <2> QED
    BY <2>2, <2>3 DEF SniperTypeInv
<1> QED
  BY <1>1, SniperTypeNext, SniperTypeImplies, PTL DEF SniperSpec

--------------------------------------------------------------------------------
(* More of the capability market: what its sorts place, and the types of its state.         *)

(* A finite set of numbers has a greatest.                                             *)
LEMMA GreatestIsOne ==
  ASSUME NEW S \in SUBSET Int, IsFiniteSet(S), S # {}
  PROVE  Max(S) \in S
<1> DEFINE F == {T \in SUBSET S : T = {} \/ \E w \in T : \A v \in T : w >= v}
<1>1. {} \in F
  OBVIOUS
<1>2. ASSUME NEW T \in SUBSET S, NEW x \in S, T \in F, x \notin T PROVE T \cup {x} \in F
  <2>1. CASE T = {}
    <3>1. x >= x
      OBVIOUS
    <3> QED
      BY <2>1, <3>1
  <2>2. CASE T # {}
    <3>1. PICK w \in T : \A v \in T : w >= v
      BY <1>2, <2>2
    <3>2. CASE w >= x
      BY <3>1, <3>2
    <3>3. CASE ~(w >= x)
      <4>1. \A v \in T \cup {x} : x >= v
        BY <3>1, <3>3
      <4> QED
        BY <4>1
    <3> QED
      BY <3>2, <3>3
  <2> QED
    BY <2>1, <2>2
<1> HIDE DEF F
<1>3. S \in F
  BY <1>1, <1>2, Grows
<1>4. \E w \in S : \A v \in S : w >= v
  BY <1>3 DEF F
<1> QED
  BY <1>4 DEF Max

(* The rows of the market, before the classification of the software missions and after. *)
LEMMA RowFacts ==
  ASSUME NEW rows \in SUBSET Rows
  PROVE  /\ IsFiniteSet(rows)
         /\ \A r \in rows : /\ r.worth \in Nat /\ r.caps \subseteq Capability
                            /\ \A c \in r.caps : r.family[c] \in Int
<1> DEFINE f  == [r \in Missions |-> Classified(r)]
           CM == {Classified(r) : r \in Missions}
<1>1. IsFiniteSet(Missions) /\ Missions \subseteq Mission
  BY CapabilityAssumption
<1>2. f \in Surjection(Missions, CM)
  BY DEF Surjection
<1>3. IsFiniteSet(CM)
  <2> HIDE DEF f, CM
  <2> QED
    BY <1>1, <1>2, FS_Surjection
<1>4. IsFiniteSet(rows)
  BY <1>1, <1>3, FS_Union, FS_Subset DEF Rows
<1>5. ASSUME NEW r \in Mission PROVE Classified(r) \in Mission
  BY DEF Classified, Mission
<1>6. Rows \subseteq Mission
  BY <1>1, <1>5 DEF Rows
<1>7. \A r \in Mission : /\ r.worth \in Nat /\ r.caps \subseteq Capability
                       /\ \A c \in r.caps : r.family[c] \in Int
  BY DEF Mission
<1> QED
  BY <1>4, <1>6, <1>7

(* The best worth of rows of the market.                                               *)
LEMMA BestType ==
  ASSUME NEW rows \in SUBSET Rows
  PROVE  Best(rows) \in Int /\ Cardinality(rows) \in Nat
<1>1. IsFiniteSet(rows) /\ \A r \in rows : r.worth \in Nat
  BY RowFacts
<1> DEFINE T == {r.worth : r \in rows}
           f == [r \in rows |-> r.worth]
<1>2. f \in Surjection(rows, T)
  BY DEF Surjection
<1>3. IsFiniteSet(T)
  <2> HIDE DEF T, f
  <2> QED
    BY <1>1, <1>2, FS_Surjection
<1>4. T \in SUBSET Int
  BY <1>1
<1> HIDE DEF T
<1>5. IsFiniteSet(T \cup {0}) /\ T \cup {0} \in SUBSET Int /\ T \cup {0} # {}
  BY <1>3, <1>4, FS_AddElement
<1>6. Max(T \cup {0}) \in Int
  BY <1>5, GreatestIsOne
<1> QED
  BY <1>1, <1>6, FS_CardinalityType DEF Best, T

--------------------------------------------------------------------------------
(* An item of the backlog, as far as it is sorted by and made an issue.                  *)
ItemsWith(X) == [marker : Markers, origins : X, priority : Int, lane : X, rank : X, deferred : BOOLEAN]
IsItem(i) == \E X : i \in ItemsWith(X)
IsBacklog(b) == (\E S : b \in Seq(S)) /\ \A n \in DOMAIN b : IsItem(b[n])

LEMMA ItemType ==
  ASSUME NEW kind \in {"gap", "market"}, NEW c \in Capability, NEW origins, NEW priority \in Int,
         NEW lane, NEW rank
  PROVE  /\ IsItem(Item(kind, c, origins, priority, lane, rank))
         /\ Item(kind, c, origins, priority, lane, rank).marker = <<kind, c>>
         /\ Item(kind, c, origins, priority, lane, rank).priority = priority
<1> DEFINE X == {origins, lane, rank}
           i == Item(kind, c, origins, priority, lane, rank)
<1>1. i \in ItemsWith(X) /\ i.marker = <<kind, c>> /\ i.priority = priority
  BY DEF Item, ItemsWith, Markers
<1> QED
  BY <1>1 DEF IsItem

LEMMA ItemFacts ==
  ASSUME NEW i, IsItem(i)
  PROVE  /\ i.marker \in Markers /\ i.marker[2] \in Capability /\ i.priority \in Int
         /\ i.deferred \in BOOLEAN
  BY DEF IsItem, ItemsWith, Markers

(* A sequence of n items.                                                              *)
LEMMA BacklogOf ==
  ASSUME NEW n \in Nat, NEW b, b = [p \in 1 .. n |-> b[p]], \A p \in 1 .. n : IsItem(b[p])
  PROVE  IsBacklog(b) /\ Len(b) = n /\ DOMAIN b = 1 .. n
<1> DEFINE S == {b[p] : p \in 1 .. n}
<1>1. b \in [1 .. n -> S]
  OBVIOUS
<1>2. b \in Seq(S) /\ Len(b) = n
  <2> HIDE DEF S
  <2> QED
    BY <1>1
<1> QED
  BY <1>1, <1>2 DEF IsBacklog

LEMMA BacklogFacts ==
  ASSUME NEW b, IsBacklog(b)
  PROVE  Len(b) \in Nat /\ DOMAIN b = 1 .. Len(b) /\ \A n \in 1 .. Len(b) : IsItem(b[n])
<1>1. PICK S : b \in Seq(S)
  BY DEF IsBacklog
<1>2. Len(b) \in Nat /\ DOMAIN b = 1 .. Len(b)
  BY <1>1
<1> QED
  BY <1>2 DEF IsBacklog

(* Priority, and then the id of the capability.                                          *)
LEMMA PriorityOrders ==
  ASSUME NEW i, IsItem(i), NEW j, IsItem(j), NEW k, IsItem(k)
  PROVE  /\ ~ByPriority(i, i)
         /\ ByPriority(i, j) => ~ByPriority(j, i)
         /\ ByPriority(i, j) /\ ByPriority(j, k) => ByPriority(i, k)
         /\ i.marker[2] # j.marker[2] => ByPriority(i, j) \/ ByPriority(j, i)
         /\ ~ByPriority(i, j) /\ ~ByPriority(j, i) =>
              (ByPriority(i, k) <=> ByPriority(j, k)) /\ (ByPriority(k, i) <=> ByPriority(k, j))
<1> DEFINE c == i.marker[2]
           d == j.marker[2]
           e == k.marker[2]
           l == i.priority
           m == j.priority
           n == k.priority
<1>1. /\ c \in Capability /\ d \in Capability /\ e \in Capability
      /\ l \in Int /\ m \in Int /\ n \in Int
  BY ItemFacts
<1>2. /\ ByPriority(i, i) <=> l > l \/ (l = l /\ Precedes(c, c))
      /\ ByPriority(i, j) <=> l > m \/ (l = m /\ Precedes(c, d))
      /\ ByPriority(j, i) <=> m > l \/ (m = l /\ Precedes(d, c))
      /\ ByPriority(i, k) <=> l > n \/ (l = n /\ Precedes(c, e))
      /\ ByPriority(k, i) <=> n > l \/ (n = l /\ Precedes(e, c))
      /\ ByPriority(j, k) <=> m > n \/ (m = n /\ Precedes(d, e))
      /\ ByPriority(k, j) <=> n > m \/ (n = m /\ Precedes(e, d))
  BY DEF ByPriority
<1> HIDE DEF c, d, e, l, m, n
<1>3. /\ ~Precedes(c, c) /\ (Precedes(c, d) => ~Precedes(d, c))
      /\ (Precedes(c, d) /\ Precedes(d, e) => Precedes(c, e))
      /\ (c # d => Precedes(c, d) \/ Precedes(d, c))
      /\ (Precedes(c, d) => c # d)
  BY <1>1, CapabilityAssumption
<1>4. /\ ~ByPriority(i, i)
      /\ ByPriority(i, j) => ~ByPriority(j, i)
      /\ ByPriority(i, j) /\ ByPriority(j, k) => ByPriority(i, k)
      /\ c # d => ByPriority(i, j) \/ ByPriority(j, i)
  BY <1>1, <1>2, <1>3
<1>5. ~ByPriority(i, j) /\ ~ByPriority(j, i) => l = m /\ c = d
  BY <1>1, <1>2, <1>3
<1>6. ~ByPriority(i, j) /\ ~ByPriority(j, i) =>
        (ByPriority(i, k) <=> ByPriority(j, k)) /\ (ByPriority(k, i) <=> ByPriority(k, j))
  BY <1>2, <1>5
<1> QED
  BY <1>4, <1>6 DEF c, d

--------------------------------------------------------------------------------
(* What the engine is missing, as a backlog.                                             *)
GapPairs(rows) ==
  {x \in Wanted(rows) \X Wanted(rows) : ByPriority(Gap(rows, x[1]), Gap(rows, x[2]))}

LEMMA GapType ==
  ASSUME NEW rows \in SUBSET Rows, NEW c \in Capability
  PROVE  IsItem(Gap(rows, c)) /\ Gap(rows, c).marker[2] = c
<1> DEFINE needing == Needing(rows, c)
           n       == Best(needing) + Smaller(20, 3 * Cardinality(needing))
<1>1. needing \in SUBSET Rows
  BY DEF Needing, Building
<1> HIDE DEF needing
<1>2. Best(needing) \in Int /\ Cardinality(needing) \in Nat
  BY <1>1, BestType
<1>3. n \in Int
  BY <1>2 DEF Smaller
<1> HIDE DEF n
<1>4. Gap(rows, c) = Item("gap", c, Ids(needing), n, "none", 0)
  BY DEF Gap, n, needing
<1>5. IsItem(Gap(rows, c)) /\ Gap(rows, c).marker = <<"gap", c>>
  BY <1>3, <1>4, ItemType
<1> QED
  BY <1>5

LEMMA GapsOrder ==
  ASSUME NEW rows \in SUBSET Rows
  PROVE  /\ IsFiniteSet(Wanted(rows)) /\ StrictOrder(GapPairs(rows), Wanted(rows))
         /\ \A c \in Wanted(rows) : Preceding(GapPairs(rows), Wanted(rows), c) = GapsBefore(rows, c)
<1> DEFINE W == Wanted(rows)
           R == GapPairs(rows)
<1>1. W \in SUBSET Capability
  BY DEF Wanted
<1>2. IsFiniteSet(W)
  BY <1>1, CapabilityAssumption, FS_Subset
<1>3. \A c \in W : IsItem(Gap(rows, c)) /\ Gap(rows, c).marker[2] = c
  BY <1>1, GapType
<1>4. \A c, d \in W : <<c, d>> \in R <=> ByPriority(Gap(rows, c), Gap(rows, d))
  BY DEF GapPairs
<1> HIDE DEF R
<1>5. \A c \in W : <<c, c>> \notin R
  BY <1>3, <1>4, PriorityOrders
<1>6. ASSUME NEW c \in W, NEW d \in W, c # d PROVE <<c, d>> \in R \/ <<d, c>> \in R
  BY <1>3, <1>4, <1>6, PriorityOrders
<1>7. ASSUME NEW c \in W, NEW d \in W, NEW e \in W, <<c, d>> \in R, <<d, e>> \in R
      PROVE  <<c, e>> \in R
  <2>1. ByPriority(Gap(rows, c), Gap(rows, d)) /\ ByPriority(Gap(rows, d), Gap(rows, e))
    BY <1>4, <1>7
  <2>2. IsItem(Gap(rows, c)) /\ IsItem(Gap(rows, d)) /\ IsItem(Gap(rows, e))
    BY <1>3
  <2>3. ByPriority(Gap(rows, c), Gap(rows, e))
    BY ONLY <2>1, <2>2, PriorityOrders
  <2> QED
    BY <1>4, <2>3
<1>8. StrictOrder(R, W)
  BY <1>5, <1>6, <1>7 DEF StrictOrder
<1>9. \A c \in W : Preceding(R, W, c) = GapsBefore(rows, c)
  BY <1>4 DEF Preceding, GapsBefore
<1> QED
  BY <1>2, <1>8, <1>9 DEF R

LEMMA GapsType ==
  ASSUME NEW rows \in SUBSET Rows
  PROVE  IsBacklog(Gaps(rows))
<1> DEFINE W        == Wanted(rows)
           n        == Smaller(MaxGaps, Cardinality(W))
           place(p) == CHOOSE c \in W : Cardinality(GapsBefore(rows, c)) = p - 1
<1>1. IsFiniteSet(W) /\ Cardinality(W) \in Nat /\ MaxGaps \in Nat /\ W \in SUBSET Capability
  BY GapsOrder, FS_CardinalityType, CapabilityAssumption DEF Wanted
<1>2. n \in Nat /\ n <= Cardinality(W)
  BY <1>1 DEF Smaller
<1>3. \A p \in 1 .. Cardinality(W) : \E c \in W : Cardinality(GapsBefore(rows, c)) = p - 1
  <2>1. \A p \in 1 .. Cardinality(W) :
          \E c \in W : Cardinality(Preceding(GapPairs(rows), W, c)) = p - 1
    BY GapsOrder, RanksFill
  <2> QED
    BY <2>1, GapsOrder
<1>4. \A p \in 1 .. n : place(p) \in W
  <2>1. \A p \in 1 .. n : p \in 1 .. Cardinality(W)
    BY <1>1, <1>2
  <2> QED
    BY <1>3, <2>1
<1>5. Gaps(rows) = [p \in 1 .. n |-> Gap(rows, place(p))]
  BY DEF Gaps
<1> HIDE DEF n, place
<1>6. /\ Gaps(rows) = [p \in 1 .. n |-> Gaps(rows)[p]]
      /\ \A p \in 1 .. n : Gaps(rows)[p] = Gap(rows, place(p))
  BY <1>5
<1>7. \A p \in 1 .. n : IsItem(Gaps(rows)[p])
  BY <1>1, <1>4, <1>6, GapType
<1> QED
  BY <1>2, <1>6, <1>7, BacklogOf

--------------------------------------------------------------------------------
(* The sort of the postprocessor puts items of the backlog in another order.               *)
ItemPairs(items) ==
  {x \in (DOMAIN items) \X (DOMAIN items) : ItemBefore(items, x[1], x[2])}

LEMMA ItemsOrder ==
  ASSUME NEW items, IsBacklog(items)
  PROVE  /\ IsFiniteSet(DOMAIN items) /\ Cardinality(DOMAIN items) = Len(items)
         /\ StrictOrder(ItemPairs(items), DOMAIN items)
         /\ \A q \in DOMAIN items :
              Preceding(ItemPairs(items), DOMAIN items, q) = ItemsBefore(items, q)
<1> DEFINE D == DOMAIN items
           R == ItemPairs(items)
<1>1. Len(items) \in Nat /\ D = 1 .. Len(items) /\ \A n \in D : IsItem(items[n])
  BY BacklogFacts
<1>2. IsFiniteSet(D) /\ Cardinality(D) = Len(items)
  BY <1>1, FS_Interval
<1>3. \A p, q \in D : <<p, q>> \in R <=> ItemBefore(items, p, q)
  BY DEF ItemPairs
<1>4. \A p \in D : p \in Int /\ items[p].deferred \in BOOLEAN
  BY <1>1, ItemFacts
<1> HIDE DEF R, D
<1>5. \A p \in D : <<p, p>> \notin R
  BY <1>1, <1>3, <1>4, PriorityOrders DEF ItemBefore
<1>6. ASSUME NEW p \in D, NEW q \in D, p # q PROVE <<p, q>> \in R \/ <<q, p>> \in R
  BY <1>3, <1>4, <1>6 DEF ItemBefore
<1>7. ASSUME NEW p \in D, NEW q \in D, NEW r \in D, <<p, q>> \in R, <<q, r>> \in R
      PROVE  <<p, r>> \in R
  <2> DEFINE i == items[p]
             j == items[q]
             k == items[r]
  <2>1. /\ IsItem(i) /\ IsItem(j) /\ IsItem(k)
        /\ i.deferred \in BOOLEAN /\ j.deferred \in BOOLEAN /\ k.deferred \in BOOLEAN
        /\ p \in Int /\ q \in Int /\ r \in Int
    BY <1>1, <1>4
  <2>2. /\ IF i.deferred # j.deferred THEN j.deferred
           ELSE ByPriority(i, j) \/ (~ByPriority(j, i) /\ p < q)
        /\ IF j.deferred # k.deferred THEN k.deferred
           ELSE ByPriority(j, k) \/ (~ByPriority(k, j) /\ q < r)
    BY <1>3, <1>7 DEF ItemBefore
  <2> HIDE DEF i, j, k
  <2>3. /\ ByPriority(i, j) => ~ByPriority(j, i)
        /\ ByPriority(j, k) => ~ByPriority(k, j)
        /\ ByPriority(i, k) => ~ByPriority(k, i)
        /\ ByPriority(i, j) /\ ByPriority(j, k) => ByPriority(i, k)
        /\ ~ByPriority(i, j) /\ ~ByPriority(j, i) =>
             (ByPriority(i, k) <=> ByPriority(j, k)) /\ (ByPriority(k, i) <=> ByPriority(k, j))
        /\ ~ByPriority(j, k) /\ ~ByPriority(k, j) =>
             (ByPriority(j, i) <=> ByPriority(k, i)) /\ (ByPriority(i, j) <=> ByPriority(i, k))
    <3>1. /\ ByPriority(i, j) => ~ByPriority(j, i)
          /\ ByPriority(i, j) /\ ByPriority(j, k) => ByPriority(i, k)
          /\ ~ByPriority(i, j) /\ ~ByPriority(j, i) =>
               (ByPriority(i, k) <=> ByPriority(j, k)) /\ (ByPriority(k, i) <=> ByPriority(k, j))
      BY <2>1, PriorityOrders
    <3>2. /\ ByPriority(j, k) => ~ByPriority(k, j)
          /\ ~ByPriority(j, k) /\ ~ByPriority(k, j) =>
               (ByPriority(j, i) <=> ByPriority(k, i)) /\ (ByPriority(i, j) <=> ByPriority(i, k))
      BY <2>1, PriorityOrders
    <3>3. ByPriority(i, k) => ~ByPriority(k, i)
      BY <2>1, PriorityOrders
    <3> QED
      BY <3>1, <3>2, <3>3
  <2>4. IF i.deferred # k.deferred THEN k.deferred
        ELSE ByPriority(i, k) \/ (~ByPriority(k, i) /\ p < r)
    BY <2>1, <2>2, <2>3
  <2> QED
    BY <1>3, <2>4 DEF ItemBefore, i, k
<1>8. StrictOrder(R, D)
  BY <1>5, <1>6, <1>7 DEF StrictOrder
<1>9. \A q \in D : Preceding(R, D, q) = ItemsBefore(items, q)
  BY <1>3 DEF Preceding, ItemsBefore, D
<1> QED
  BY <1>2, <1>8, <1>9 DEF R, D

LEMMA SortedType ==
  ASSUME NEW items, IsBacklog(items)
  PROVE  IsBacklog(Sorted(items))
<1> DEFINE n        == Len(items)
           place(p) == CHOOSE q \in DOMAIN items : Cardinality(ItemsBefore(items, q)) = p - 1
<1>1. n \in Nat /\ DOMAIN items = 1 .. n /\ \A q \in 1 .. n : IsItem(items[q])
  BY BacklogFacts
<1>2. \A p \in 1 .. n : \E q \in DOMAIN items : Cardinality(ItemsBefore(items, q)) = p - 1
  <2>1. \A p \in 1 .. n :
          \E q \in DOMAIN items : Cardinality(Preceding(ItemPairs(items), DOMAIN items, q)) = p - 1
    BY ItemsOrder, RanksFill
  <2> QED
    BY <2>1, ItemsOrder
<1>3. \A p \in 1 .. n : place(p) \in 1 .. n
  BY <1>1, <1>2
<1>4. Sorted(items) = [p \in 1 .. n |-> items[place(p)]]
  BY <1>1 DEF Sorted
<1> HIDE DEF n, place
<1>5. /\ Sorted(items) = [p \in 1 .. n |-> Sorted(items)[p]]
      /\ \A p \in 1 .. n : IsItem(Sorted(items)[p])
  BY <1>1, <1>3, <1>4
<1> QED
  BY <1>1, <1>5, BacklogOf

LEMMA PrioritizeType ==
  ASSUME NEW backlog, IsBacklog(backlog), NEW rows
  PROVE  IsBacklog(Prioritize(backlog, rows))
<1> DEFINE items == [n \in DOMAIN backlog |-> Deferring(backlog[n], rows)]
<1>1. Len(backlog) \in Nat /\ DOMAIN backlog = 1 .. Len(backlog)
      /\ \A n \in 1 .. Len(backlog) : IsItem(backlog[n])
  BY BacklogFacts
<1>2. ASSUME NEW i, IsItem(i) PROVE IsItem(Deferring(i, rows))
  <2> DEFINE late == ~(\E r \in rows : r.id \in i.origins /\ InPortfolio(r))
  <2>1. PICK X : i \in ItemsWith(X)
    BY <1>2 DEF IsItem
  <2>2. late \in BOOLEAN
    OBVIOUS
  <2> HIDE DEF late
  <2>3. [i EXCEPT !.deferred = late] \in ItemsWith(X)
    BY <2>1, <2>2 DEF ItemsWith
  <2> QED
    BY <2>3 DEF Deferring, IsItem, late
<1>3. /\ items = [n \in 1 .. Len(backlog) |-> items[n]]
      /\ \A n \in 1 .. Len(backlog) : items[n] = Deferring(backlog[n], rows)
  BY <1>1
<1> HIDE DEF items
<1>4. \A n \in 1 .. Len(backlog) : IsItem(items[n])
  BY <1>1, <1>2, <1>3
<1>5. IsBacklog(items)
  BY <1>1, <1>3, <1>4, BacklogOf
<1> QED
  BY <1>5, SortedType DEF Prioritize, items

--------------------------------------------------------------------------------
(* Clusters: one for each lane, capability and family of deliverable.                     *)
ClusterKeys(rows) ==
  UNION {{<<Lane(r), c, r.family[c]>> : c \in r.caps} : r \in {x \in rows : x.verified}}
ClusterRows(rows, k) ==
  {r \in rows : r.verified /\ k[2] \in r.caps /\ <<Lane(r), k[2], r.family[k[2]]>> = k}
ClusterScore(rows, k) ==
  (RawScore(ClusterRows(rows, k)) * (10000 - 35 * Cost(status[k[2]]))) \div 10000
ClusterOf(rows, k) ==
  [lane |-> k[1], cap |-> k[2], family |-> k[3], rows |-> ClusterRows(rows, k),
   score |-> ClusterScore(rows, k)]

IsCluster(k) ==
  /\ k.cap \in Capability /\ k.family \in Int /\ k.score \in Int /\ Cardinality(k.rows) \in Nat
NoneTwice(clusters) ==
  \A j, k \in clusters : j.lane = k.lane /\ j.cap = k.cap /\ j.family = k.family => j = k
AreClusters(clusters) ==
  IsFiniteSet(clusters) /\ NoneTwice(clusters) /\ \A k \in clusters : IsCluster(k)

StatusesKnown == \A c \in Capability : status[c] \in Statuses(c)

LEMMA ClustersType ==
  ASSUME StatusesKnown, NEW rows \in SUBSET Rows
  PROVE  AreClusters(Clusters(rows))
<1> DEFINE K == ClusterKeys(rows)
           P == rows \X Capability
           Q == {x \in P : x[1].verified /\ x[2] \in x[1].caps}
           f == [x \in Q |-> <<Lane(x[1]), x[2], x[1].family[x[2]]>>]
<1>1. Clusters(rows) = {ClusterOf(rows, k) : k \in K}
  BY DEF Clusters, ClusterOf, ClusterScore, ClusterRows, ClusterKeys
<1>2. /\ IsFiniteSet(rows) /\ IsFiniteSet(Capability)
      /\ \A r \in rows : r.caps \subseteq Capability /\ \A c \in r.caps : r.family[c] \in Int
  BY RowFacts, CapabilityAssumption
<1>3. IsFiniteSet(Q)
  <2>1. IsFiniteSet(P)
    BY <1>2, FS_Product
  <2>2. Q \in SUBSET P
    OBVIOUS
  <2> HIDE DEF Q, P
  <2> QED
    BY <2>1, <2>2, FS_Subset
<1>4. \A k : k \in K <=> \E r \in rows : \E c \in Capability :
        r.verified /\ c \in r.caps /\ k = <<Lane(r), c, r.family[c]>>
  BY <1>2 DEF ClusterKeys
<1>5. \A k : k \in K <=> \E x \in Q : k = f[x]
  <2>1. \A r \in rows, c \in Capability :
          r.verified /\ c \in r.caps => <<r, c>> \in Q /\ f[<<r, c>>] = <<Lane(r), c, r.family[c]>>
    OBVIOUS
  <2>2. \A x \in Q :
          x[1] \in rows /\ x[2] \in Capability /\ x[1].verified /\ x[2] \in x[1].caps
            /\ f[x] = <<Lane(x[1]), x[2], x[1].family[x[2]]>>
    OBVIOUS
  <2>3. ASSUME NEW k, k \in K PROVE \E x \in Q : k = f[x]
    <3> HIDE DEF f, Q, K
    <3>1. PICK r \in rows, c \in Capability :
            r.verified /\ c \in r.caps /\ k = <<Lane(r), c, r.family[c]>>
      BY <1>4, <2>3
    <3>2. <<r, c>> \in Q /\ k = f[<<r, c>>]
      BY <2>1, <3>1
    <3> QED
      BY <3>2
  <2>4. ASSUME NEW k, NEW x \in Q, k = f[x] PROVE k \in K
    <3> HIDE DEF f, Q, K
    <3> QED
      BY <1>4, <2>2, <2>4
  <2> HIDE DEF f, Q, K
  <2> QED
    BY <2>3, <2>4
<1>6. IsFiniteSet(K)
  <2>0. f \in [Q -> K]
    <3>1. \A x \in Q : f[x] \in K
      <4> HIDE DEF Q, K, f
      <4> QED
        BY <1>5
    <3>2. f = [x \in Q |-> f[x]]
      OBVIOUS
    <3> HIDE DEF f, Q, K
    <3> QED
      BY <3>1, <3>2
  <2> HIDE DEF f, Q, K
  <2>1. f \in Surjection(Q, K)
    BY <1>5, <2>0 DEF Surjection
  <2> QED
    BY <1>3, <2>1, FS_Surjection
<1> HIDE DEF K, Q, P, f
<1>7. IsFiniteSet(Clusters(rows))
  <2> DEFINE g == [k \in K |-> ClusterOf(rows, k)]
  <2>1. g \in Surjection(K, Clusters(rows))
    BY <1>1 DEF Surjection
  <2> HIDE DEF g
  <2> QED
    BY <1>6, <2>1, FS_Surjection
<1>8. ASSUME NEW k \in K
      PROVE  /\ IsCluster(ClusterOf(rows, k)) /\ k = <<k[1], k[2], k[3]>>
             /\ ClusterOf(rows, k).lane = k[1] /\ ClusterOf(rows, k).cap = k[2]
             /\ ClusterOf(rows, k).family = k[3]
  <2>1. PICK r \in rows, c \in Capability :
          r.verified /\ c \in r.caps /\ k = <<Lane(r), c, r.family[c]>>
    BY <1>4
  <2>2. k = <<k[1], k[2], k[3]>> /\ k[2] \in Capability /\ k[3] \in Int
    BY <1>2, <2>1
  <2>3. ClusterRows(rows, k) \in SUBSET Rows
    BY DEF ClusterRows
  <2>4. RawScore(ClusterRows(rows, k)) \in Int /\ Cardinality(ClusterRows(rows, k)) \in Nat
    BY <2>3, BestType, CapabilityAssumption
  <2>5. Cost(status[k[2]]) \in Int
    <3>1. status[k[2]] \in {"validated", "experimental", "unavailable", "forbidden", "unknown"}
      BY <2>2, CapabilityAssumption DEF StatusesKnown
    <3> QED
      BY <3>1 DEF Cost
  <2>6. ClusterScore(rows, k) \in Int
    <3> DEFINE a == RawScore(ClusterRows(rows, k))
               b == Cost(status[k[2]])
               m == a * (10000 - 35 * b)
    <3>1. a \in Int /\ b \in Int
      BY <2>4, <2>5
    <3> HIDE DEF a, b
    <3>2. m \in Int
      BY <3>1
    <3>3. ClusterScore(rows, k) = m \div 10000
      BY DEF ClusterScore, a, b
    <3> HIDE DEF m
    <3> QED
      BY <3>2, <3>3
  <2> QED
    BY <2>2, <2>4, <2>6 DEF ClusterOf, IsCluster
<1>9. NoneTwice(Clusters(rows))
  <2> SUFFICES ASSUME NEW j \in K, NEW k \in K,
                      ClusterOf(rows, j).lane = ClusterOf(rows, k).lane,
                      ClusterOf(rows, j).cap = ClusterOf(rows, k).cap,
                      ClusterOf(rows, j).family = ClusterOf(rows, k).family
               PROVE  ClusterOf(rows, j) = ClusterOf(rows, k)
    BY <1>1 DEF NoneTwice
  <2>1. j[1] = k[1] /\ j[2] = k[2] /\ j[3] = k[3]
    BY <1>8
  <2>2. j = <<j[1], j[2], j[3]>> /\ k = <<k[1], k[2], k[3]>>
    BY <1>8
  <2>3. j = k
    BY <2>1, <2>2
  <2> QED
    BY <2>3
<1> QED
  BY <1>1, <1>7, <1>8, <1>9 DEF AreClusters

(* Of one lane, the score, the number of rows, the capability and the family decide.        *)
LEMMA ClusterReads ==
  ASSUME NEW p, NEW q, p.lane = q.lane
  PROVE  ClusterPrecedes(p, q) <=>
           IF p.score # q.score THEN p.score > q.score
           ELSE IF Cardinality(p.rows) # Cardinality(q.rows)
                THEN Cardinality(p.rows) > Cardinality(q.rows)
           ELSE IF p.cap # q.cap THEN Precedes(p.cap, q.cap) ELSE p.family < q.family
  BY DEF ClusterPrecedes

PlannablePairs(S) == {x \in S \X S : ClusterPrecedes(x[1], x[2])}

LEMMA PlansOrder ==
  ASSUME NEW S, AreClusters(S), \A k \in S : k.lane = "cash_first"
  PROVE  StrictOrder(PlannablePairs(S), S)
<1> DEFINE R == PlannablePairs(S)
<1>1. /\ \A k \in S : /\ k.cap \in Capability /\ k.family \in Int /\ k.score \in Int
                       /\ Cardinality(k.rows) \in Int
      /\ \A j, k \in S : j.cap = k.cap /\ j.family = k.family => j = k
  BY DEF AreClusters, NoneTwice, IsCluster
<1>2. \A p, q \in S : <<p, q>> \in R <=> ClusterPrecedes(p, q)
  BY DEF PlannablePairs
<1>3. \A p, q \in S : <<p, q>> \in R <=>
           IF p.score # q.score THEN p.score > q.score
           ELSE IF Cardinality(p.rows) # Cardinality(q.rows)
                THEN Cardinality(p.rows) > Cardinality(q.rows)
           ELSE IF p.cap # q.cap THEN Precedes(p.cap, q.cap) ELSE p.family < q.family
  <2>1. \A p, q \in S : p.lane = q.lane
    OBVIOUS
  <2> QED
    BY <1>2, <2>1, ClusterReads
<1> HIDE DEF R
<1>4. \A p \in S : <<p, p>> \notin R
  BY <1>1, <1>3
<1>5. ASSUME NEW p \in S, NEW q \in S, p # q PROVE <<p, q>> \in R \/ <<q, p>> \in R
  <2>1. p.cap # q.cap => Precedes(p.cap, q.cap) \/ Precedes(q.cap, p.cap)
    BY <1>1, CapabilityAssumption
  <2>2. p.cap # q.cap \/ p.family # q.family
    BY <1>1, <1>5
  <2> QED
    BY <1>1, <1>3, <2>1, <2>2
<1>6. ASSUME NEW p \in S, NEW q \in S, NEW r \in S, <<p, q>> \in R, <<q, r>> \in R
      PROVE  <<p, r>> \in R
  <2> DEFINE a == p.score
             b == q.score
             c == r.score
             l == Cardinality(p.rows)
             m == Cardinality(q.rows)
             n == Cardinality(r.rows)
             u == p.family
             v == q.family
             w == r.family
             x == p.cap
             y == q.cap
             z == r.cap
  <2>1. /\ a \in Int /\ b \in Int /\ c \in Int /\ l \in Int /\ m \in Int /\ n \in Int
        /\ u \in Int /\ v \in Int /\ w \in Int
        /\ x \in Capability /\ y \in Capability /\ z \in Capability
    BY <1>1
  <2>2. /\ IF a # b THEN a > b ELSE IF l # m THEN l > m
           ELSE IF x # y THEN Precedes(x, y) ELSE u < v
        /\ IF b # c THEN b > c ELSE IF m # n THEN m > n
           ELSE IF y # z THEN Precedes(y, z) ELSE v < w
    BY <1>3, <1>6
  <2>3. (IF a # c THEN a > c ELSE IF l # n THEN l > n
         ELSE IF x # z THEN Precedes(x, z) ELSE u < w) => <<p, r>> \in R
    BY <1>3
  <2> HIDE DEF a, b, c, l, m, n, u, v, w, x, y, z
  <2>4. /\ Precedes(x, y) /\ Precedes(y, z) => Precedes(x, z)
        /\ Precedes(x, y) => x # y
        /\ Precedes(y, z) => y # z
        /\ Precedes(x, y) => ~Precedes(y, x)
    BY <2>1, CapabilityAssumption
  <2>5. IF a # c THEN a > c ELSE IF l # n THEN l > n
        ELSE IF x # z THEN Precedes(x, z) ELSE u < w
    BY <2>1, <2>2, <2>4
  <2> QED
    BY <2>3, <2>5
<1> QED
  BY <1>4, <1>5, <1>6 DEF StrictOrder, R

LEMMA PlanType ==
  ASSUME NEW clusters, AreClusters(clusters)
  PROVE  Plan(clusters) \in Seq(clusters) /\ Len(Plan(clusters)) <= MaxPlans
<1> DEFINE S        == {k \in clusters : Plannable(k)}
           n        == Smaller(MaxPlans, Cardinality(S))
           place(p) == CHOOSE k \in S : Cardinality(PlansBefore(clusters, k)) = p - 1
<1>1. S \in SUBSET clusters
  OBVIOUS
<1>2. \A k \in S : k.lane = "cash_first"
  BY DEF Plannable
<1>3. \A k \in S : Preceding(PlannablePairs(S), S, k) = PlansBefore(clusters, k)
  BY DEF Preceding, PlannablePairs, PlansBefore
<1>4. Plan(clusters) = [p \in 1 .. n |-> place(p)]
  BY DEF Plan
<1> HIDE DEF S
<1>5. IsFiniteSet(S) /\ AreClusters(S)
  <2>1. IsFiniteSet(S)
    BY <1>1, FS_Subset DEF AreClusters
  <2> QED
    BY <1>1, <2>1 DEF AreClusters, NoneTwice
<1>6. Cardinality(S) \in Nat /\ MaxPlans \in Nat
  BY <1>5, FS_CardinalityType, CapabilityAssumption
<1>7. n \in Nat /\ n <= Cardinality(S) /\ n <= MaxPlans
  BY <1>6 DEF Smaller
<1>8. \A p \in 1 .. Cardinality(S) : \E k \in S : Cardinality(PlansBefore(clusters, k)) = p - 1
  <2>1. StrictOrder(PlannablePairs(S), S)
    BY <1>2, <1>5, PlansOrder
  <2>2. \A p \in 1 .. Cardinality(S) :
          \E k \in S : Cardinality(Preceding(PlannablePairs(S), S, k)) = p - 1
    BY <1>5, <2>1, RanksFill
  <2> QED
    BY <1>3, <2>2
<1>9. \A p \in 1 .. n : place(p) \in clusters
  <2>1. \A p \in 1 .. n : p \in 1 .. Cardinality(S)
    BY <1>6, <1>7
  <2> QED
    BY <1>1, <1>8, <2>1
<1> HIDE DEF n, place
<1>10. Plan(clusters) \in [1 .. n -> clusters]
  BY <1>4, <1>9
<1>11. Plan(clusters) \in Seq(clusters) /\ Len(Plan(clusters)) = n
  BY <1>7, <1>10
<1> QED
  BY <1>7, <1>11

--------------------------------------------------------------------------------
(* Enriching keeps the items of the backlog, and puts those of the plan behind them.        *)
LEMMA EnrichedType ==
  ASSUME NEW i, IsItem(i), NEW clusters, NEW plan
  PROVE  IsItem(Enriched(i, clusters, plan))
<1>1. PICK X : i \in ItemsWith(X)
  BY DEF IsItem
<1> DEFINE lane == BestCluster(clusters, i.marker[2]).lane
           rank == RankOf(plan, i.marker[2])
           Y    == X \cup {lane, rank}
           e    == [i EXCEPT !.lane = lane, !.rank = rank]
<1>2. Enriched(i, clusters, plan) = e \/ Enriched(i, clusters, plan) = i
  BY DEF Enriched
<1>3. lane \in Y /\ rank \in Y /\ X \subseteq Y
  OBVIOUS
<1> HIDE DEF lane, rank, Y
<1>4. e \in ItemsWith(Y)
  BY <1>1, <1>3 DEF ItemsWith
<1> HIDE DEF e
<1> QED
  BY <1>2, <1>4 DEF IsItem

FreshPairs(backlog, plan) == {x \in Fresh(backlog, plan) \X Fresh(backlog, plan) : x[1] < x[2]}

LEMMA FreshType ==
  ASSUME NEW n \in Nat, NEW plan, DOMAIN plan = 1 .. n, NEW backlog
  PROVE  /\ Cardinality(Fresh(backlog, plan)) \in Nat
         /\ \A p \in 1 .. Cardinality(Fresh(backlog, plan)) :
              \E m \in Fresh(backlog, plan) : Cardinality(FreshBefore(backlog, plan, m)) = p - 1
<1> DEFINE F == Fresh(backlog, plan)
           R == FreshPairs(backlog, plan)
<1>1. F \in SUBSET (1 .. n)
  BY DEF Fresh
<1>2. IsFiniteSet(F)
  BY <1>1, FS_Interval, FS_Subset
<1>3. \A l, m \in F : <<l, m>> \in R <=> l < m
  BY DEF FreshPairs
<1> HIDE DEF R
<1>4. StrictOrder(R, F)
  <2> HIDE DEF F
  <2>1. \A m \in F : m \in Int
    BY <1>1
  <2> QED
    BY <1>3, <2>1 DEF StrictOrder
<1>5. \A m \in F : Preceding(R, F, m) = FreshBefore(backlog, plan, m)
  BY <1>3 DEF Preceding, FreshBefore
<1>6. \A p \in 1 .. Cardinality(F) : \E m \in F : Cardinality(Preceding(R, F, m)) = p - 1
  <2> HIDE DEF F
  <2> QED
    BY <1>2, <1>4, RanksFill
<1>7. Cardinality(F) \in Nat
  BY <1>2, FS_CardinalityType
<1> QED
  BY <1>5, <1>6, <1>7

(* Two backlogs, one behind the other.                                                   *)
LEMMA BacklogsJoin ==
  ASSUME NEW a, IsBacklog(a), NEW b, IsBacklog(b)
  PROVE  IsBacklog(a \o b)
<1>1. PICK S : a \in Seq(S)
  BY DEF IsBacklog
<1>2. PICK T : b \in Seq(T)
  BY DEF IsBacklog
<1>3. a \in Seq(S \cup T) /\ b \in Seq(S \cup T)
  BY <1>1, <1>2
<1>4. /\ a \o b \in Seq(S \cup T) /\ Len(a \o b) = Len(a) + Len(b)
      /\ \A n \in 1 .. Len(a) + Len(b) :
           (a \o b)[n] = IF n <= Len(a) THEN a[n] ELSE b[n - Len(a)]
  BY <1>3, ConcatProperties
<1>5. /\ Len(a) \in Nat /\ \A n \in 1 .. Len(a) : IsItem(a[n])
      /\ Len(b) \in Nat /\ \A n \in 1 .. Len(b) : IsItem(b[n])
  BY BacklogFacts
<1>6. ASSUME NEW n \in 1 .. Len(a) + Len(b) PROVE IsItem((a \o b)[n])
  <2>1. CASE n <= Len(a)
    <3>1. n \in 1 .. Len(a)
      BY <1>5, <2>1
    <3> QED
      BY <1>4, <1>5, <2>1, <3>1
  <2>2. CASE ~(n <= Len(a))
    <3>1. n - Len(a) \in 1 .. Len(b)
      BY <1>5, <2>2
    <3> QED
      BY <1>4, <1>5, <2>2, <3>1
  <2> QED
    BY <2>1, <2>2
<1>7. DOMAIN (a \o b) = 1 .. Len(a) + Len(b)
  BY <1>4, <1>5
<1> QED
  BY <1>4, <1>6, <1>7 DEF IsBacklog

LEMMA EnrichType ==
  ASSUME NEW clusters, AreClusters(clusters), NEW plan \in Seq(clusters),
         NEW backlog, IsBacklog(backlog)
  PROVE  IsBacklog(Enrich(backlog, clusters, plan))
<1> DEFINE fresh    == Fresh(backlog, plan)
           place(p) == CHOOSE m \in fresh : Cardinality(FreshBefore(backlog, plan, m)) = p - 1
           a        == [n \in DOMAIN backlog |-> Enriched(backlog[n], clusters, plan)]
           b        == [p \in 1 .. Cardinality(fresh) |-> MarketItem(clusters, plan, place(p))]
<1>1. Enrich(backlog, clusters, plan) = a \o b
  BY DEF Enrich
<1>2. IsBacklog(a)
  <2>1. Len(backlog) \in Nat /\ DOMAIN backlog = 1 .. Len(backlog)
        /\ \A n \in 1 .. Len(backlog) : IsItem(backlog[n])
    BY BacklogFacts
  <2>2. /\ a = [n \in 1 .. Len(backlog) |-> a[n]]
        /\ \A n \in 1 .. Len(backlog) : a[n] = Enriched(backlog[n], clusters, plan)
    BY <2>1
  <2> HIDE DEF a
  <2>3. \A n \in 1 .. Len(backlog) : IsItem(a[n])
    BY <2>1, <2>2, EnrichedType
  <2> QED
    BY <2>1, <2>2, <2>3, BacklogOf
<1>3. Len(plan) \in Nat /\ DOMAIN plan = 1 .. Len(plan) /\ \A n \in 1 .. Len(plan) : plan[n] \in clusters
  OBVIOUS
<1>4. Cardinality(fresh) \in Nat /\ fresh \in SUBSET (1 .. Len(plan))
  BY <1>3, FreshType DEF Fresh
<1>5. \A p \in 1 .. Cardinality(fresh) : place(p) \in fresh
  BY <1>3, FreshType
<1>6. ASSUME NEW m \in 1 .. Len(plan) PROVE IsItem(MarketItem(clusters, plan, m))
  <2>1. plan[m].cap \in Capability /\ plan[m].score \in Int
    BY <1>3 DEF AreClusters, IsCluster
  <2> QED
    BY <2>1, ItemType DEF MarketItem
<1>7. IsBacklog(b)
  <2> HIDE DEF fresh, place
  <2>1. /\ b = [p \in 1 .. Cardinality(fresh) |-> b[p]]
        /\ \A p \in 1 .. Cardinality(fresh) : b[p] = MarketItem(clusters, plan, place(p))
    OBVIOUS
  <2> HIDE DEF b
  <2>2. \A p \in 1 .. Cardinality(fresh) : IsItem(b[p])
    BY <1>4, <1>5, <1>6, <2>1
  <2> QED
    BY <1>4, <2>1, <2>2, BacklogOf
<1> HIDE DEF a, b
<1> QED
  BY <1>1, <1>2, <1>7, BacklogsJoin

--------------------------------------------------------------------------------
(* The issues that carry a marker of M.                                              *)
Marked(M) ==
  [marker : M, open : BOOLEAN, indexed : BOOLEAN, receipt : {"none", "checkout", "branch"},
   blind : BOOLEAN]

(* A run of the workflow, with plans of P and backlogs of B.                              *)
Receipts == [marker : Markers, status : {"created", "already_exists", "failed"}]
RunsWith(P, B) ==
  [at : {"idle", "classify", "market", "postprocess", "issues"}, rows : SUBSET Rows, plan : P, backlog : B,
   receipts : SUBSET Receipts, next : Nat \ {0}, created : 0 .. MaxIssues]
IsRun(r) ==
  (\E P, B : r \in RunsWith(P, B)) /\ IsBacklog(r.backlog) /\ Len(r.plan) <= MaxPlans

CapabilityTypeInv ==
  /\ status \in [Capability -> {"validated", "experimental", "unavailable", "forbidden", "unknown"}]
  /\ StatusesKnown
  /\ IsRun(run)
  /\ receipts \subseteq Receipts
  /\ issues \in Seq(Marked(Markers))
  /\ runs \in 0 .. MaxRuns

LEMMA IdleRun == IsRun(NoRun)
<1>1. NoRun \in RunsWith({<<>>}, {<<>>})
  BY CapabilityAssumption DEF NoRun, RunsWith
<1>2. IsBacklog(<<>>)
  BY <<>> \in Seq({}) DEF IsBacklog
<1> QED
  BY <1>1, <1>2, CapabilityAssumption DEF IsRun, NoRun

(* What an action makes of a run, part by part.                                          *)
LEMMA RunRewrites ==
  ASSUME NEW r, IsRun(r), NEW at \in {"idle", "classify", "market", "postprocess", "issues"},
         NEW rows \in SUBSET Rows, NEW plan, Len(plan) <= MaxPlans, NEW backlog, IsBacklog(backlog)
  PROVE  IsRun([r EXCEPT !.at = at, !.rows = rows, !.plan = plan, !.backlog = backlog])
<1>1. PICK P, B : r \in RunsWith(P, B)
  BY DEF IsRun
<1> DEFINE Q == P \cup {plan}
           C == B \cup {backlog}
           s == [r EXCEPT !.at = at, !.rows = rows, !.plan = plan, !.backlog = backlog]
<1>2. P \subseteq Q /\ plan \in Q /\ B \subseteq C /\ backlog \in C
  OBVIOUS
<1> HIDE DEF Q, C
<1>3. s \in RunsWith(Q, C) /\ s.plan = plan /\ s.backlog = backlog
  BY <1>1, <1>2 DEF RunsWith
<1> HIDE DEF s
<1>4. IsRun(s)
  BY <1>3 DEF IsRun
<1> QED
  BY <1>4 DEF s

LEMMA RunCounts ==
  ASSUME NEW r, IsRun(r), NEW new \in SUBSET Receipts, NEW next \in Nat \ {0}, NEW created \in 0 .. MaxIssues
  PROVE  IsRun([r EXCEPT !.receipts = new, !.next = next, !.created = created])
<1>1. PICK P, B : r \in RunsWith(P, B)
  BY DEF IsRun
<1> DEFINE s == [r EXCEPT !.receipts = new, !.next = next, !.created = created]
<1>2. s \in RunsWith(P, B) /\ s.plan = r.plan /\ s.backlog = r.backlog
  BY <1>1 DEF RunsWith
<1> HIDE DEF s
<1>3. IsRun(s)
  BY <1>2 DEF IsRun
<1> QED
  BY <1>3 DEF s

LEMMA RunFacts ==
  ASSUME NEW r, IsRun(r)
  PROVE  /\ r.at \in {"idle", "classify", "market", "postprocess", "issues"} /\ r.rows \subseteq Rows
         /\ Len(r.plan) <= MaxPlans /\ r.receipts \subseteq Receipts
         /\ r.next \in Nat \ {0} /\ r.created \in 0 .. MaxIssues
         /\ Len(r.backlog) \in Nat /\ \A n \in 1 .. Len(r.backlog) : r.backlog[n].marker \in Markers
<1>1. PICK P, B : r \in RunsWith(P, B)
  BY DEF IsRun
<1>2. Len(r.backlog) \in Nat /\ \A n \in 1 .. Len(r.backlog) : IsItem(r.backlog[n])
  BY BacklogFacts DEF IsRun
<1>3. \A n \in 1 .. Len(r.backlog) : r.backlog[n].marker \in Markers
  BY <1>2, ItemFacts
<1> QED
  BY <1>1, <1>2, <1>3 DEF IsRun, RunsWith

--------------------------------------------------------------------------------
LEMMA RunBegins ==
  ASSUME NEW rows \in SUBSET Rows, NEW backlog, IsBacklog(backlog), NEW new \in SUBSET Receipts
  PROVE  IsRun([NoRun EXCEPT !.at = "classify", !.rows = rows, !.backlog = backlog, !.receipts = new])
<1> DEFINE s == [NoRun EXCEPT !.at = "classify", !.rows = rows, !.backlog = backlog, !.receipts = new]
<1>1. NoRun \in RunsWith({<<>>}, {<<>>}) /\ NoRun.plan = <<>>
  BY CapabilityAssumption DEF NoRun, RunsWith
<1>2. s \in RunsWith({<<>>}, {backlog}) /\ s.plan = <<>> /\ s.backlog = backlog
  BY <1>1 DEF RunsWith
<1>3. Len(<<>>) <= MaxPlans
  BY CapabilityAssumption
<1> HIDE DEF s
<1>4. IsRun(s)
  BY <1>2, <1>3 DEF IsRun
<1> QED
  BY <1>4 DEF s

LEMMA CapabilityStarts == ASSUME CapabilityTypeInv, StartRun PROVE CapabilityTypeInv'
<1>1. PICK rows \in SUBSET Missions :
        run' = [NoRun EXCEPT !.at = "classify", !.rows = rows, !.backlog = Gaps(rows),
                             !.receipts = receipts]
  BY DEF StartRun
<1>2. rows \in SUBSET Rows
  BY DEF Rows
<1>3. IsBacklog(Gaps(rows)) /\ receipts \in SUBSET Receipts
  BY <1>2, GapsType DEF CapabilityTypeInv
<1>5. IsRun(run')
  BY <1>1, <1>2, <1>3, RunBegins
<1>4. UNCHANGED <<status, receipts, issues>> /\ runs' \in 0 .. MaxRuns
  BY CapabilityAssumption DEF StartRun, CapabilityTypeInv
<1> QED
  BY <1>4, <1>5 DEF CapabilityTypeInv, StatusesKnown

(* Only its place and its rows change.                                                   *)
LEMMA RunClassified ==
  ASSUME NEW r, IsRun(r), NEW rows \in SUBSET Rows
  PROVE  IsRun([r EXCEPT !.at = "market", !.rows = rows])
<1>1. Len(r.plan) <= MaxPlans /\ IsBacklog(r.backlog)
  BY RunFacts DEF IsRun
<1>2. IsRun([r EXCEPT !.at = "market", !.rows = rows, !.plan = r.plan, !.backlog = r.backlog])
  BY <1>1, RunRewrites
<1>3. PICK P, B : r \in RunsWith(P, B)
  BY DEF IsRun
<1>4. [r EXCEPT !.at = "market", !.rows = rows, !.plan = r.plan, !.backlog = r.backlog]
        = [r EXCEPT !.at = "market", !.rows = rows]
  BY <1>3 DEF RunsWith
<1> QED
  BY <1>2, <1>4

LEMMA ClassifiedRows ==
  ASSUME NEW rows \in SUBSET Rows
  PROVE  {Classified(r) : r \in rows} \in SUBSET Rows
<1>1. ASSUME NEW r \in Mission PROVE Classified(Classified(r)) = Classified(r)
  BY DEF Classified, Mission
<1>2. Missions \subseteq Mission
  BY CapabilityAssumption
<1>3. \A r \in Rows : \E s \in Missions : r = s \/ r = Classified(s)
  BY DEF Rows
<1> QED
  BY <1>1, <1>2, <1>3 DEF Rows

LEMMA CapabilityClassifies == ASSUME CapabilityTypeInv, ClassifyMissions PROVE CapabilityTypeInv'
<1> DEFINE kept == InScope(run.rows)
           rows == {Classified(r) : r \in kept}
<1>1. IsRun(run)
  BY DEF CapabilityTypeInv
<1>2. kept \in SUBSET Rows
  BY <1>1, RunFacts DEF InScope
<1> HIDE DEF kept
<1>3. rows \in SUBSET Rows
  BY <1>2, ClassifiedRows
<1>4. run' = [run EXCEPT !.at = "market", !.rows = rows]
  BY DEF ClassifyMissions, rows, kept
<1> HIDE DEF rows
<1>5. IsRun([run EXCEPT !.at = "market", !.rows = rows])
  BY <1>1, <1>3, RunClassified
<1>6. IsRun(run')
  BY <1>4, <1>5
<1>7. UNCHANGED <<status, receipts, issues, runs>>
  BY DEF ClassifyMissions
<1> QED
  BY <1>6, <1>7 DEF CapabilityTypeInv, StatusesKnown

LEMMA CapabilityPlans == ASSUME CapabilityTypeInv, RunCapabilityMarket PROVE CapabilityTypeInv'
<1> DEFINE rows     == RejectProhibited(run.rows)
           clusters == Clusters(rows)
           plan     == Plan(clusters)
           backlog  == Enrich(run.backlog, clusters, plan)
<1>1. IsRun(run) /\ IsBacklog(run.backlog)
  BY DEF CapabilityTypeInv, IsRun
<1>2. rows \in SUBSET Rows
  BY <1>1, RunFacts DEF RejectProhibited
<1> HIDE DEF rows
<1>3. AreClusters(clusters)
  BY <1>2, ClustersType DEF CapabilityTypeInv
<1> HIDE DEF clusters
<1>4. plan \in Seq(clusters) /\ Len(plan) <= MaxPlans
  BY <1>3, PlanType
<1> HIDE DEF plan
<1>5. IsBacklog(backlog)
  BY <1>1, <1>3, <1>4, EnrichType
<1>6. run' = [run EXCEPT !.at = "postprocess", !.rows = rows, !.plan = plan, !.backlog = backlog]
  BY DEF RunCapabilityMarket, rows, clusters, plan
<1> HIDE DEF backlog
<1>7. IsRun([run EXCEPT !.at = "postprocess", !.rows = rows, !.plan = plan, !.backlog = backlog])
  BY <1>1, <1>2, <1>4, <1>5, RunRewrites
<1>8. IsRun(run')
  BY <1>6, <1>7
<1>9. UNCHANGED <<status, receipts, issues, runs>>
  BY DEF RunCapabilityMarket
<1> QED
  BY <1>8, <1>9 DEF CapabilityTypeInv, StatusesKnown

(* Only its place and its backlog change.                                                *)
LEMMA RunSorted ==
  ASSUME NEW r, IsRun(r), NEW backlog, IsBacklog(backlog)
  PROVE  IsRun([r EXCEPT !.at = "issues", !.backlog = backlog])
<1>1. r.rows \in SUBSET Rows /\ Len(r.plan) <= MaxPlans
  BY RunFacts
<1>2. IsRun([r EXCEPT !.at = "issues", !.rows = r.rows, !.plan = r.plan, !.backlog = backlog])
  BY <1>1, RunRewrites
<1>3. PICK P, B : r \in RunsWith(P, B)
  BY DEF IsRun
<1>4. [r EXCEPT !.at = "issues", !.rows = r.rows, !.plan = r.plan, !.backlog = backlog]
        = [r EXCEPT !.at = "issues", !.backlog = backlog]
  BY <1>3 DEF RunsWith
<1> QED
  BY <1>2, <1>4

LEMMA CapabilitySorts == ASSUME CapabilityTypeInv, Postprocess PROVE CapabilityTypeInv'
<1> DEFINE backlog == Prioritize(run.backlog, run.rows)
<1>1. IsRun(run) /\ IsBacklog(run.backlog)
  BY DEF CapabilityTypeInv, IsRun
<1>2. IsBacklog(backlog)
  BY <1>1, PrioritizeType
<1>3. run' = [run EXCEPT !.at = "issues", !.backlog = backlog]
  BY DEF Postprocess
<1> HIDE DEF backlog
<1>4. IsRun(run')
  BY <1>1, <1>2, <1>3, RunSorted
<1>5. UNCHANGED <<status, receipts, issues, runs>>
  BY DEF Postprocess
<1> QED
  BY <1>4, <1>5 DEF CapabilityTypeInv, StatusesKnown

(* One item of the loop: the run goes on to the next, with what it adds to the receipts     *)
(* and counts; the issues keep their type.                                               *)
GoesOnWith(new, created) == run' = [run EXCEPT !.receipts = new, !.next = run.next + 1, !.created = created]

LEMMA CapabilityGoesOn ==
  ASSUME CapabilityTypeInv, NEW new \in SUBSET Receipts, NEW created \in 0 .. MaxIssues,
         GoesOnWith(new, created), UNCHANGED <<status, receipts, runs>>, issues' \in Seq(Marked(Markers))
  PROVE  CapabilityTypeInv'
<1>1. IsRun(run) /\ run.next \in Nat \ {0}
  BY RunFacts DEF CapabilityTypeInv
<1>2. run.next + 1 \in Nat \ {0}
  BY <1>1
<1>3. IsRun([run EXCEPT !.receipts = new, !.next = run.next + 1, !.created = created])
  BY <1>1, <1>2, RunCounts
<1> QED
  BY <1>3 DEF GoesOnWith, CapabilityTypeInv, StatusesKnown

LEMMA StepGoes ==
  ASSUME CapabilityTypeInv
  PROVE  /\ run' = Step => GoesOnWith(run.receipts, run.created)
         /\ \A new : run' = [Step EXCEPT !.receipts = new] => GoesOnWith(new, run.created)
         /\ \A new : run' = [Step EXCEPT !.receipts = new, !.created = @ + 1] => GoesOnWith(new, run.created + 1)
<1>1. PICK P, B : run \in RunsWith(P, B)
  BY DEF CapabilityTypeInv, IsRun
<1> QED
  BY <1>1 DEF RunsWith, GoesOnWith, Step

LEMMA CapabilityPasses == ASSUME CapabilityTypeInv, PassOver PROVE CapabilityTypeInv'
<1>1. GoesOnWith(run.receipts, run.created)
  BY StepGoes DEF PassOver
<1>2. run.receipts \in SUBSET Receipts /\ run.created \in 0 .. MaxIssues
  BY RunFacts DEF CapabilityTypeInv
<1>3. UNCHANGED <<status, receipts, issues, runs>>
  BY DEF PassOver
<1> QED
  BY <1>1, <1>2, <1>3, CapabilityGoesOn DEF CapabilityTypeInv

LEMMA CapabilityCreates == ASSUME CapabilityTypeInv, CreateIssue PROVE CapabilityTypeInv'
<1> DEFINE marker == run.backlog[run.next].marker
<1>1. /\ run.receipts \in SUBSET Receipts /\ run.created \in 0 .. MaxIssues /\ MaxIssues \in Nat
      /\ run.created < MaxIssues /\ run.next \in 1 .. Len(run.backlog)
      /\ \A n \in 1 .. Len(run.backlog) : run.backlog[n].marker \in Markers
  BY RunFacts, CapabilityAssumption DEF CapabilityTypeInv, CreateIssue, Looping
<1>2. marker \in Markers
  BY <1>1
<1>3. /\ UNCHANGED <<status, receipts, runs>>
      /\ \/ run' = [Step EXCEPT !.receipts = Receipt(marker, "already_exists")] /\ UNCHANGED issues
         \/ /\ run' = [Step EXCEPT !.receipts = Receipt(marker, "created"), !.created = @ + 1]
            /\ issues' = NewIssue(marker, "checkout")
         \/ /\ run' = [Step EXCEPT !.receipts = Receipt(marker, "failed")]
            /\ UNCHANGED issues \/ issues' = NewIssue(marker, "none")
  BY DEF CreateIssue
<1> HIDE DEF marker
<1>4. \A s \in {"created", "already_exists", "failed"} : Receipt(marker, s) \in SUBSET Receipts
  BY <1>1, <1>2 DEF Receipt, Receipts
<1>5. issues' \in {issues, NewIssue(marker, "checkout"), NewIssue(marker, "none")} =>
        issues' \in Seq(Marked(Markers))
  <2>1. ASSUME NEW receipt \in {"none", "checkout", "branch"}
        PROVE  NewIssue(marker, receipt) \in Seq(Marked(Markers))
    <3> DEFINE blind == Hidden(marker)
               x == [marker |-> marker, open |-> TRUE, indexed |-> FALSE, receipt |-> receipt,
                     blind |-> blind]
    <3>1. blind \in BOOLEAN
      BY DEF Hidden
    <3>2. NewIssue(marker, receipt) = Append(issues, x)
      BY DEF NewIssue
    <3> HIDE DEF blind
    <3>3. x \in Marked(Markers)
      BY <1>2, <3>1 DEF Marked
    <3> HIDE DEF x
    <3> QED
      BY <3>2, <3>3 DEF CapabilityTypeInv
  <2> QED
    BY <2>1 DEF CapabilityTypeInv
<1>6. \E s \in {"created", "already_exists", "failed"} :
        \E created \in 0 .. MaxIssues : GoesOnWith(Receipt(marker, s), created)
  <2>1. run.created + 1 \in 0 .. MaxIssues
    BY <1>1
  <2> QED
    BY <1>1, <1>3, <2>1, StepGoes
<1>7. issues' \in Seq(Marked(Markers))
  BY <1>3, <1>5
<1>8. PICK s \in {"created", "already_exists", "failed"} :
        \E created \in 0 .. MaxIssues : GoesOnWith(Receipt(marker, s), created)
  BY <1>6
<1>9. PICK created \in 0 .. MaxIssues : GoesOnWith(Receipt(marker, s), created)
  BY <1>8
<1> QED
  BY <1>3, <1>4, <1>7, <1>9, CapabilityGoesOn

(* The receipts of a run reach the branch, or go with its checkout.                       *)
LEMMA RecordedIssues ==
  ASSUME NEW M, issues \in Seq(Marked(M)), NEW place \in {"none", "branch"}
  PROVE  /\ Recorded(place) \in Seq(Marked(M)) /\ DOMAIN Recorded(place) = DOMAIN issues
         /\ \A i \in DOMAIN issues :
              /\ Recorded(place)[i].marker = issues[i].marker
              /\ Recorded(place)[i].blind = issues[i].blind
              /\ Recorded(place)[i].receipt =
                   IF issues[i].receipt = "checkout" THEN place ELSE issues[i].receipt
<1>1. \A i \in DOMAIN issues : issues[i] \in Marked(M)
  OBVIOUS
<1>2. ASSUME NEW i \in DOMAIN issues
      PROVE  /\ Recorded(place)[i] \in Marked(M)
             /\ Recorded(place)[i].marker = issues[i].marker
             /\ Recorded(place)[i].blind = issues[i].blind
             /\ Recorded(place)[i].receipt =
                  IF issues[i].receipt = "checkout" THEN place ELSE issues[i].receipt
  <2> DEFINE e == [issues[i] EXCEPT !.receipt = IF @ = "checkout" THEN place ELSE @]
  <2>1. /\ e \in Marked(M) /\ e.marker = issues[i].marker /\ e.blind = issues[i].blind
        /\ e.receipt = IF issues[i].receipt = "checkout" THEN place ELSE issues[i].receipt
    BY <1>1 DEF Marked
  <2>2. Recorded(place)[i] = e
    BY DEF Recorded
  <2> HIDE DEF e
  <2> QED
    BY <2>1, <2>2
<1>3. Len(issues) \in Nat /\ DOMAIN issues = 1 .. Len(issues) /\ DOMAIN Recorded(place) = DOMAIN issues
  BY DEF Recorded
<1>4. Recorded(place) = [i \in 1 .. Len(issues) |-> Recorded(place)[i]]
  BY <1>3 DEF Recorded
<1>5. Recorded(place) \in [1 .. Len(issues) -> Marked(M)]
  BY <1>2, <1>3, <1>4
<1>6. Recorded(place) \in Seq(Marked(M))
  BY <1>3, <1>5
<1> QED
  BY <1>2, <1>3, <1>6

LEMMA CapabilityEnds == ASSUME CapabilityTypeInv, CommitRun \/ LoseRun PROVE CapabilityTypeInv'
<1>1. run.receipts \subseteq Receipts
  BY RunFacts DEF CapabilityTypeInv
<1>2. receipts' \subseteq Receipts /\ run' = NoRun /\ UNCHANGED <<status, runs>>
  BY <1>1 DEF CommitRun, LoseRun, CapabilityTypeInv
<1>3. issues' \in Seq(Marked(Markers))
  <2>1. issues \in Seq(Marked(Markers))
    BY DEF CapabilityTypeInv
  <2>2. ASSUME NEW place \in {"none", "branch"} PROVE Recorded(place) \in Seq(Marked(Markers))
    BY <2>1, RecordedIssues
  <2> QED
    BY <2>2 DEF CommitRun, LoseRun
<1> QED
  BY <1>2, <1>3, IdleRun DEF CapabilityTypeInv, StatusesKnown

(* An issue that is closed, or found by the index, is the same otherwise.                  *)
LEMMA IssueTouched ==
  ASSUME NEW M, issues \in Seq(Marked(M)), CloseIssue \/ IndexCatchesUp
  PROVE  /\ issues' \in Seq(Marked(M)) /\ DOMAIN issues' = DOMAIN issues
         /\ \A j \in DOMAIN issues :
              /\ issues'[j].marker = issues[j].marker /\ issues'[j].blind = issues[j].blind
              /\ issues'[j].receipt = issues[j].receipt
<1>1. PICK i \in DOMAIN issues : \/ issues' = [issues EXCEPT ![i].open = FALSE]
                                \/ issues' = [issues EXCEPT ![i].indexed = TRUE]
  BY DEF CloseIssue, IndexCatchesUp
<1>2. issues[i] \in Marked(M)
  OBVIOUS
<1>3. PICK e : /\ e \in Marked(M) /\ e.marker = issues[i].marker /\ e.blind = issues[i].blind
               /\ e.receipt = issues[i].receipt /\ issues' = [issues EXCEPT ![i] = e]
  <2>1. CASE issues' = [issues EXCEPT ![i].open = FALSE]
    <3> DEFINE e == [issues[i] EXCEPT !.open = FALSE]
    <3>1. /\ e \in Marked(M) /\ e.marker = issues[i].marker /\ e.blind = issues[i].blind
          /\ e.receipt = issues[i].receipt
      BY <1>2 DEF Marked
    <3>2. issues' = [issues EXCEPT ![i] = e]
      BY <2>1
    <3> HIDE DEF e
    <3> QED
      BY <3>1, <3>2
  <2>2. CASE issues' = [issues EXCEPT ![i].indexed = TRUE]
    <3> DEFINE e == [issues[i] EXCEPT !.indexed = TRUE]
    <3>1. /\ e \in Marked(M) /\ e.marker = issues[i].marker /\ e.blind = issues[i].blind
          /\ e.receipt = issues[i].receipt
      BY <1>2 DEF Marked
    <3>2. issues' = [issues EXCEPT ![i] = e]
      BY <2>2
    <3> HIDE DEF e
    <3> QED
      BY <3>1, <3>2
  <2> QED
    BY <1>1, <2>1, <2>2
<1>4. i \in 1 .. Len(issues) /\ DOMAIN issues = 1 .. Len(issues)
  OBVIOUS
<1>5. /\ [issues EXCEPT ![i] = e] \in Seq(Marked(M))
      /\ Len([issues EXCEPT ![i] = e]) = Len(issues)
      /\ \A j \in 1 .. Len(issues) : [issues EXCEPT ![i] = e][j] = IF j = i THEN e ELSE issues[j]
  BY ONLY issues \in Seq(Marked(M)), <1>3, <1>4, ExceptSeq
<1>6. issues' \in Seq(Marked(M)) /\ Len(issues') = Len(issues)
      /\ \A j \in 1 .. Len(issues) : issues'[j] = IF j = i THEN e ELSE issues[j]
  BY <1>3, <1>5
<1>7. DOMAIN issues' = DOMAIN issues
  BY <1>4, <1>6
<1> QED
  BY <1>3, <1>4, <1>6, <1>7

LEMMA CapabilityChanges ==
  ASSUME CapabilityTypeInv, IndexCatchesUp \/ CloseIssue \/ ChangeStatus
  PROVE  CapabilityTypeInv'
<1>1. CASE IndexCatchesUp \/ CloseIssue
  <2>1. issues' \in Seq(Marked(Markers))
    BY <1>1, IssueTouched DEF CapabilityTypeInv
  <2>2. UNCHANGED <<status, run, receipts, runs>>
    BY <1>1 DEF IndexCatchesUp, CloseIssue
  <2> QED
    BY <2>1, <2>2 DEF CapabilityTypeInv, StatusesKnown
<1>2. CASE ChangeStatus
  <2>0. PICK c \in Capability : \E s \in Statuses(c) : status' = [status EXCEPT ![c] = s]
    BY <1>2 DEF ChangeStatus
  <2>1. PICK s \in Statuses(c) : status' = [status EXCEPT ![c] = s]
    BY <2>0
  <2>2. s \in {"validated", "experimental", "unavailable", "forbidden", "unknown"}
    BY CapabilityAssumption
  <2>3. /\ status' \in [Capability -> {"validated", "experimental", "unavailable", "forbidden", "unknown"}]
        /\ \A d \in Capability : status'[d] \in Statuses(d)
    BY <2>1, <2>2 DEF CapabilityTypeInv, StatusesKnown
  <2> QED
    BY <1>2, <2>3 DEF ChangeStatus, CapabilityTypeInv, StatusesKnown
<1> QED
  BY <1>1, <1>2

LEMMA CapabilityTypeNext == CapabilityTypeInv /\ [CapabilitiesNext]_capabilities => CapabilityTypeInv'
<1> SUFFICES ASSUME CapabilityTypeInv, [CapabilitiesNext]_capabilities PROVE CapabilityTypeInv'
  OBVIOUS
<1>1. CASE UNCHANGED capabilities
  BY <1>1 DEF capabilities, CapabilityTypeInv, StatusesKnown
<1>2. CASE StartRun \/ ClassifyMissions \/ RunCapabilityMarket \/ Postprocess
  BY <1>2, CapabilityStarts, CapabilityClassifies, CapabilityPlans, CapabilitySorts
<1>3. CASE PassOver \/ CreateIssue
  BY <1>3, CapabilityPasses, CapabilityCreates
<1>4. CASE CommitRun \/ LoseRun \/ IndexCatchesUp \/ CloseIssue \/ ChangeStatus
  BY <1>4, CapabilityEnds, CapabilityChanges
<1> QED
  BY <1>1, <1>2, <1>3, <1>4 DEF CapabilitiesNext

LEMMA CapabilityTypeImplies == CapabilityTypeInv => CapabilitiesTypeOK
<1> SUFFICES ASSUME CapabilityTypeInv PROVE CapabilitiesTypeOK
  OBVIOUS
<1>1. /\ run.at \in {"idle", "classify", "market", "postprocess", "issues"} /\ run.rows \subseteq Rows
      /\ Len(run.plan) <= MaxPlans /\ run.created <= MaxIssues
  BY RunFacts, CapabilityAssumption DEF CapabilityTypeInv
<1>2. \A i \in DOMAIN run.backlog : run.backlog[i].marker \in Markers
  BY BacklogFacts, RunFacts DEF CapabilityTypeInv, IsRun
<1>3. \A i \in DOMAIN issues : issues[i].marker \in Markers
  <2>1. issues \in Seq(Marked(Markers))
    BY DEF CapabilityTypeInv
  <2>2. \A i \in DOMAIN issues : issues[i] \in Marked(Markers)
    BY <2>1
  <2> QED
    BY <2>2 DEF Marked
<1>4. \A x \in receipts : x.marker \in Markers /\ x.status \in {"created", "already_exists", "failed"}
  BY DEF CapabilityTypeInv, Receipts
<1> QED
  BY <1>1, <1>2, <1>3, <1>4 DEF CapabilityTypeInv, CapabilitiesTypeOK, StatusesKnown

(* The sorts of the gaps, the plans and the backlog place every item they are given, so      *)
(* every item is of a marker of the market, the plan keeps to its limit and the issues of a  *)
(* run to theirs, for any missions, capabilities and order of them.                         *)
THEOREM CapabilitiesTypeCorrect == CapabilitiesSpec => []CapabilitiesTypeOK
<1>1. CapabilitiesInit => CapabilityTypeInv
  <2> SUFFICES ASSUME CapabilitiesInit PROVE CapabilityTypeInv
    OBVIOUS
  <2> QED
    BY IdleRun, CapabilityAssumption DEF CapabilitiesInit, CapabilityTypeInv, StatusesKnown
<1> QED
  BY <1>1, CapabilityTypeNext, CapabilityTypeImplies, PTL DEF CapabilitiesSpec

--------------------------------------------------------------------------------
(* What has been created on record is found there: on the branch, or in the run.           *)
OnRecord(i) ==
  /\ i.receipt = "branch" => \E x \in receipts : x.marker = i.marker
  /\ i.receipt = "checkout" =>
       run.at # "idle" /\ \E x \in run.receipts : x.marker = i.marker /\ x.status # "failed"
MarkedInv ==
  /\ OneIssuePerMarker
  /\ \A i \in DOMAIN issues : OnRecord(issues[i])
  /\ run.at # "idle" => receipts \subseteq run.receipts

(* Steps that leave the issues alone keep the receipts of a run.                          *)
RunKeeps ==
  /\ UNCHANGED <<issues, receipts>>
  /\ run.at # "idle" => run'.at # "idle" /\ run.receipts \subseteq run'.receipts
  /\ run'.at # "idle" => receipts \subseteq run'.receipts

LEMMA MarkedKept == ASSUME MarkedInv, RunKeeps PROVE MarkedInv'
<1>1. issues' = issues /\ receipts' = receipts
  BY DEF RunKeeps
<1>2. ASSUME NEW i, OnRecord(i) PROVE OnRecord(i)'
  BY <1>1, <1>2 DEF OnRecord, RunKeeps
<1>3. \A i \in DOMAIN issues : OnRecord(issues[i])
  BY DEF MarkedInv
<1>4. (\A i \in DOMAIN issues : OnRecord(issues[i]))'
  BY <1>1, <1>3 DEF OnRecord, RunKeeps
<1>5. OneIssuePerMarker' /\ (run'.at # "idle" => receipts' \subseteq run'.receipts)
  BY <1>1 DEF MarkedInv, OneIssuePerMarker, RunKeeps
<1> QED
  BY <1>4, <1>5 DEF MarkedInv

(* Up to the loop, and past an item of it, a run keeps its receipts.                       *)
LEMMA RunGoesOn ==
  ASSUME CapabilityTypeInv, MarkedInv,
         \/ StartRun \/ ClassifyMissions \/ RunCapabilityMarket \/ Postprocess \/ PassOver
         \/ ChangeStatus \/ UNCHANGED capabilities
  PROVE  RunKeeps
<1>1. PICK P, B : run \in RunsWith(P, B)
  BY DEF CapabilityTypeInv, IsRun
<1>2. CASE StartRun
  BY <1>2 DEF StartRun, NoRun, RunKeeps
<1>3. CASE ClassifyMissions
  BY <1>1, <1>3 DEF RunsWith, ClassifyMissions, RunKeeps, MarkedInv
<1>4. CASE RunCapabilityMarket
  <2>1. /\ run.at = "market" /\ UNCHANGED <<issues, receipts>>
        /\ \E rows, plan, backlog :
             run' = [run EXCEPT !.at = "postprocess", !.rows = rows, !.plan = plan, !.backlog = backlog]
    BY <1>4 DEF RunCapabilityMarket
  <2> QED
    BY <1>1, <2>1 DEF RunsWith, RunKeeps, MarkedInv
<1>5. CASE Postprocess
  BY <1>1, <1>5 DEF RunsWith, Postprocess, RunKeeps, MarkedInv
<1>6. CASE PassOver
  BY <1>1, <1>6 DEF RunsWith, PassOver, Looping, Step, RunKeeps, MarkedInv
<1>7. CASE ChangeStatus \/ UNCHANGED capabilities
  BY <1>7 DEF ChangeStatus, capabilities, RunKeeps, MarkedInv
<1> QED
  BY <1>2, <1>3, <1>4, <1>5, <1>6, <1>7

(* The item of the loop adds a receipt of the marker, and an issue for it or none.          *)
LEMMA ReceiptAdded ==
  ASSUME CapabilityTypeInv, MarkedInv, CreateIssue
  PROVE  \E marker : \E s \in {"created", "already_exists", "failed"} :
           /\ ~HasReceipt(marker) /\ run.at # "idle" /\ run'.at # "idle" /\ receipts' = receipts
           /\ run'.receipts = run.receipts \cup {[marker |-> marker, status |-> s]}
           /\ \/ issues' = issues
              \/ ~Search(marker) /\ s # "failed" /\ issues' = NewIssue(marker, "checkout")
              \/ ~Search(marker) /\ issues' = NewIssue(marker, "none")
<1>1. PICK P, B : run \in RunsWith(P, B)
  BY DEF CapabilityTypeInv, IsRun
<1> DEFINE marker == run.backlog[run.next].marker
<1>2. /\ ~HasReceipt(marker) /\ run.at = "issues" /\ receipts' = receipts
      /\ \/ /\ run' = [Step EXCEPT !.receipts = Receipt(marker, "already_exists")]
            /\ issues' = issues
         \/ /\ ~Search(marker) /\ issues' = NewIssue(marker, "checkout")
            /\ run' = [Step EXCEPT !.receipts = Receipt(marker, "created"), !.created = @ + 1]
         \/ /\ run' = [Step EXCEPT !.receipts = Receipt(marker, "failed")]
            /\ issues' = issues \/ (~Search(marker) /\ issues' = NewIssue(marker, "none"))
  BY DEF CreateIssue, Looping
<1> HIDE DEF marker
<1>3. \A new : /\ [Step EXCEPT !.receipts = new].receipts = new
               /\ [Step EXCEPT !.receipts = new].at = run.at
               /\ [Step EXCEPT !.receipts = new, !.created = @ + 1].receipts = new
               /\ [Step EXCEPT !.receipts = new, !.created = @ + 1].at = run.at
  BY <1>1 DEF RunsWith, Step
<1>4. \E s \in {"created", "already_exists", "failed"} :
        /\ run'.at = run.at /\ run'.receipts = Receipt(marker, s)
        /\ \/ issues' = issues
           \/ ~Search(marker) /\ s # "failed" /\ issues' = NewIssue(marker, "checkout")
           \/ ~Search(marker) /\ issues' = NewIssue(marker, "none")
  <2>1. CASE /\ run' = [Step EXCEPT !.receipts = Receipt(marker, "already_exists")]
             /\ issues' = issues
    BY <1>3, <2>1
  <2>2. CASE /\ ~Search(marker) /\ issues' = NewIssue(marker, "checkout")
             /\ run' = [Step EXCEPT !.receipts = Receipt(marker, "created"), !.created = @ + 1]
    BY <1>3, <2>2
  <2>3. CASE /\ run' = [Step EXCEPT !.receipts = Receipt(marker, "failed")]
             /\ issues' = issues \/ (~Search(marker) /\ issues' = NewIssue(marker, "none"))
    BY <1>3, <2>3
  <2> QED
    BY <1>2, <2>1, <2>2, <2>3
<1>5. run.at # "idle" /\ ~HasReceipt(marker) /\ receipts' = receipts
  BY <1>2
<1> QED
  BY <1>4, <1>5 DEF Receipt

(* A marker without a receipt has only issues on no record; if no issue of it is found,     *)
(* none is in the index.                                                               *)
LEMMA Unrecorded ==
  ASSUME MarkedInv, NEW marker, ~HasReceipt(marker), CapabilityTypeInv
  PROVE  \A i \in DOMAIN issues : issues[i].marker = marker => issues[i].receipt = "none"
<1>1. \A i \in DOMAIN issues : OnRecord(issues[i]) /\ issues[i] \in Marked(Markers)
  BY DEF MarkedInv, CapabilityTypeInv
<1>2. \A i \in DOMAIN issues : issues[i].receipt \in {"none", "checkout", "branch"}
  BY <1>1 DEF Marked
<1> QED
  BY <1>1, <1>2 DEF OnRecord, HasReceipt

LEMMA MarkedAnew ==
  ASSUME CapabilityTypeInv, MarkedInv, NEW marker, ~HasReceipt(marker), ~Search(marker),
         NEW receipt \in {"none", "checkout"}, issues' = NewIssue(marker, receipt),
         NEW s, run.at # "idle", run'.at # "idle", receipts' = receipts,
         run'.receipts = run.receipts \cup {[marker |-> marker, status |-> s]},
         receipt = "checkout" => s # "failed"
  PROVE  MarkedInv'
<1> DEFINE x == [marker |-> marker, open |-> TRUE, indexed |-> FALSE, receipt |-> receipt,
                 blind |-> Hidden(marker)]
           S == Marked(Markers) \cup {x}
<1>1. issues \in Seq(Marked(Markers))
  BY DEF CapabilityTypeInv
<1>2. Hidden(marker)
  <2>1. \A i \in DOMAIN issues : issues[i] \in Marked(Markers)
    BY <1>1
  <2>2. \A i \in DOMAIN issues : issues[i].indexed \in BOOLEAN
    BY <2>1 DEF Marked
  <2> QED
    BY <2>2 DEF Hidden, Search
<1>3. x.marker = marker /\ x.receipt = receipt /\ x.blind
  BY <1>2
<1>4. issues' = Append(issues, x)
  BY DEF NewIssue
<1>5. issues \in Seq(S) /\ x \in S
  BY <1>1, SeqMonotonic
<1> HIDE DEF x, S
<1>6. /\ Len(issues') = Len(issues) + 1 /\ Len(issues) \in Nat /\ issues' \in Seq(S)
      /\ \A i \in 1 .. Len(issues) : issues'[i] = issues[i]
      /\ issues'[Len(issues) + 1] = x
  BY <1>4, <1>5, AppendProperties
<1>7. DOMAIN issues = 1 .. Len(issues) /\ DOMAIN issues' = 1 .. Len(issues) + 1
  BY <1>5, <1>6
<1>8. OneIssuePerMarker'
  <2> SUFFICES ASSUME NEW i \in DOMAIN issues', NEW j \in DOMAIN issues', i < j,
                      issues'[i].marker = issues'[j].marker
               PROVE  issues'[i].receipt = "none" /\ issues'[j].blind
    BY DEF OneIssuePerMarker
  <2>1. i \in DOMAIN issues /\ issues'[i] = issues[i]
    BY <1>6, <1>7
  <2>2. CASE j \in DOMAIN issues
    BY <1>6, <1>7, <2>1, <2>2 DEF MarkedInv, OneIssuePerMarker
  <2>3. CASE j \notin DOMAIN issues
    <3>1. issues'[j] = x
      BY <1>6, <1>7, <2>3
    <3> QED
      BY <1>3, <2>1, <3>1, Unrecorded
  <2> QED
    BY <2>2, <2>3
<1>9. (\A i \in DOMAIN issues : OnRecord(issues[i]))'
  <2> SUFFICES ASSUME NEW i \in DOMAIN issues' PROVE OnRecord(issues[i])'
    OBVIOUS
  <2>1. CASE i \in DOMAIN issues
    <3>1. issues'[i] = issues[i] /\ OnRecord(issues[i])
      BY <1>6, <1>7, <2>1 DEF MarkedInv
    <3> QED
      BY <3>1 DEF OnRecord
  <2>2. CASE i \notin DOMAIN issues
    <3>1. issues'[i] = x
      BY <1>6, <1>7, <2>2
    <3>2. [marker |-> marker, status |-> s] \in run'.receipts
      OBVIOUS
    <3> QED
      BY <1>3, <3>1, <3>2 DEF OnRecord
  <2> QED
    BY <2>1, <2>2
<1>10. (run.at # "idle" => receipts \subseteq run.receipts)'
  BY DEF MarkedInv
<1> QED
  BY <1>8, <1>9, <1>10 DEF MarkedInv

LEMMA MarkedCreates == ASSUME CapabilityTypeInv, MarkedInv, CreateIssue PROVE MarkedInv'
<1>1. PICK marker : \E s \in {"created", "already_exists", "failed"} :
           /\ ~HasReceipt(marker) /\ run.at # "idle" /\ run'.at # "idle" /\ receipts' = receipts
           /\ run'.receipts = run.receipts \cup {[marker |-> marker, status |-> s]}
           /\ \/ issues' = issues
              \/ ~Search(marker) /\ s # "failed" /\ issues' = NewIssue(marker, "checkout")
              \/ ~Search(marker) /\ issues' = NewIssue(marker, "none")
  BY ReceiptAdded
<1>2. PICK s \in {"created", "already_exists", "failed"} :
           /\ ~HasReceipt(marker) /\ run.at # "idle" /\ run'.at # "idle" /\ receipts' = receipts
           /\ run'.receipts = run.receipts \cup {[marker |-> marker, status |-> s]}
           /\ \/ issues' = issues
              \/ ~Search(marker) /\ s # "failed" /\ issues' = NewIssue(marker, "checkout")
              \/ ~Search(marker) /\ issues' = NewIssue(marker, "none")
  BY <1>1
<1>3. CASE issues' = issues
  <2>1. RunKeeps
    BY <1>2, <1>3 DEF RunKeeps, MarkedInv
  <2> QED
    BY <2>1, MarkedKept
<1>4. CASE ~Search(marker) /\ s # "failed" /\ issues' = NewIssue(marker, "checkout")
  BY <1>2, <1>4, MarkedAnew
<1>5. CASE ~Search(marker) /\ issues' = NewIssue(marker, "none")
  BY <1>2, <1>5, MarkedAnew
<1> QED
  BY <1>2, <1>3, <1>4, <1>5

(* Issues that only move on, and lose no marker on the way.                               *)
LEMMA MarksKept ==
  ASSUME OneIssuePerMarker, DOMAIN issues' = DOMAIN issues,
         \A j \in DOMAIN issues :
           /\ issues'[j].marker = issues[j].marker /\ issues'[j].blind = issues[j].blind
           /\ issues[j].receipt = "none" => issues'[j].receipt = "none"
  PROVE  OneIssuePerMarker'
BY DEF OneIssuePerMarker

LEMMA MarkedTouched ==
  ASSUME CapabilityTypeInv, MarkedInv, CloseIssue \/ IndexCatchesUp
  PROVE  MarkedInv'
<1>1. /\ DOMAIN issues' = DOMAIN issues
      /\ \A j \in DOMAIN issues :
           /\ issues'[j].marker = issues[j].marker /\ issues'[j].blind = issues[j].blind
           /\ issues'[j].receipt = issues[j].receipt
  BY IssueTouched DEF CapabilityTypeInv
<1>2. UNCHANGED <<run, receipts>>
  BY DEF CloseIssue, IndexCatchesUp
<1>3. OneIssuePerMarker'
  BY <1>1, MarksKept DEF MarkedInv
<1>4. (\A i \in DOMAIN issues : OnRecord(issues[i]))'
  BY <1>1, <1>2 DEF MarkedInv, OnRecord
<1> QED
  BY <1>2, <1>3, <1>4 DEF MarkedInv

LEMMA MarkedEnds ==
  ASSUME CapabilityTypeInv, MarkedInv, CommitRun \/ LoseRun
  PROVE  MarkedInv'
<1>1. issues \in Seq(Marked(Markers))
  BY DEF CapabilityTypeInv
<1>2. run'.at = "idle"
  BY DEF CommitRun, LoseRun, NoRun
<1>3. \A i \in DOMAIN issues : OnRecord(issues[i])
  BY DEF MarkedInv
<1>4. CASE CommitRun
  <2>1. /\ DOMAIN issues' = DOMAIN issues
        /\ \A j \in DOMAIN issues :
             /\ issues'[j].marker = issues[j].marker /\ issues'[j].blind = issues[j].blind
             /\ issues'[j].receipt = IF issues[j].receipt = "checkout" THEN "branch" ELSE issues[j].receipt
    BY <1>1, <1>4, RecordedIssues DEF CommitRun
  <2>2. OneIssuePerMarker'
    BY <2>1, MarksKept DEF MarkedInv
  <2>3. receipts' = run.receipts /\ receipts \subseteq run.receipts
    BY <1>4 DEF CommitRun, MarkedInv
  <2>4. (\A i \in DOMAIN issues : OnRecord(issues[i]))'
    BY <1>3, <2>1, <2>3 DEF OnRecord
  <2> QED
    BY <1>2, <2>2, <2>4 DEF MarkedInv
<1>5. CASE LoseRun
  <2>1. /\ DOMAIN issues' = DOMAIN issues
        /\ \A j \in DOMAIN issues :
             /\ issues'[j].marker = issues[j].marker /\ issues'[j].blind = issues[j].blind
             /\ issues'[j].receipt = IF issues[j].receipt = "checkout" THEN "none" ELSE issues[j].receipt
    BY <1>1, <1>5, RecordedIssues DEF LoseRun
  <2>2. OneIssuePerMarker'
    BY <2>1, MarksKept DEF MarkedInv
  <2>3. receipts' = receipts
    BY <1>5 DEF LoseRun
  <2>4. (\A i \in DOMAIN issues : OnRecord(issues[i]))'
    BY <1>3, <2>1, <2>3 DEF OnRecord
  <2> QED
    BY <1>2, <2>2, <2>4 DEF MarkedInv
<1> QED
  BY <1>4, <1>5

LEMMA MarkedInvNext ==
  CapabilityTypeInv /\ MarkedInv /\ [CapabilitiesNext]_capabilities => MarkedInv'
<1> SUFFICES ASSUME CapabilityTypeInv, MarkedInv, [CapabilitiesNext]_capabilities PROVE MarkedInv'
  OBVIOUS
<1>1. CASE \/ StartRun \/ ClassifyMissions \/ RunCapabilityMarket \/ Postprocess \/ PassOver
           \/ ChangeStatus \/ UNCHANGED capabilities
  BY <1>1, RunGoesOn, MarkedKept
<1>2. CASE CreateIssue
  BY <1>2, MarkedCreates
<1>3. CASE CommitRun \/ LoseRun
  BY <1>3, MarkedEnds
<1>4. CASE IndexCatchesUp \/ CloseIssue
  BY <1>4, MarkedTouched
<1> QED
  BY <1>1, <1>2, <1>3, <1>4 DEF CapabilitiesNext

(* A second issue of a marker takes a lost receipt and an index that lags behind, for any   *)
(* missions, capabilities and order of them, and any number of runs, lost or committed.     *)
THEOREM OneIssuePerMarkerHolds == CapabilitiesSpec => []OneIssuePerMarker
<1>1. CapabilitiesInit => CapabilityTypeInv /\ MarkedInv
  <2> SUFFICES ASSUME CapabilitiesInit PROVE CapabilityTypeInv /\ MarkedInv
    OBVIOUS
  <2>1. CapabilityTypeInv
    BY IdleRun, CapabilityAssumption DEF CapabilitiesInit, CapabilityTypeInv, StatusesKnown
  <2>2. MarkedInv
    BY DEF CapabilitiesInit, NoRun, MarkedInv, OneIssuePerMarker
  <2> QED
    BY <2>1, <2>2
<1>2. MarkedInv => OneIssuePerMarker
  BY DEF MarkedInv
<1> QED
  BY <1>1, <1>2, CapabilityTypeNext, MarkedInvNext, PTL DEF CapabilitiesSpec

--------------------------------------------------------------------------------
(* The programs of MCScouts, together.                                                   *)

LEMMA ScoutsApart ==
  /\ Init => /\ ScanInit /\ RouterInit /\ CapabilitiesInit /\ SniperInit /\ SubmissionInit
             /\ OffersInit /\ ProspectInit /\ RadarInit
  /\ [Next]_vars => /\ [ScansNext]_scanning /\ [RouterNext]_routing
                    /\ [CapabilitiesNext]_capabilities /\ [SniperNext]_sniping
                    /\ [SubmissionNext]_submitting /\ [OffersNext]_selling
                    /\ [ProspectNext]_prospecting /\ [RadarNext]_searching
<1>1. ASSUME Init
      PROVE  /\ ScanInit /\ RouterInit /\ CapabilitiesInit /\ SniperInit /\ SubmissionInit
             /\ OffersInit /\ ProspectInit /\ RadarInit
  BY <1>1 DEF Init
<1>2. ASSUME [Next]_vars
      PROVE  /\ [ScansNext]_scanning /\ [RouterNext]_routing
             /\ [CapabilitiesNext]_capabilities /\ [SniperNext]_sniping
             /\ [SubmissionNext]_submitting /\ [OffersNext]_selling
             /\ [ProspectNext]_prospecting /\ [RadarNext]_searching
  BY <1>2 DEF Next, vars
<1> QED
  BY <1>1, <1>2

(* Whatever program is looked at, its variables are well typed: the rows and statuses of a   *)
(* scan, the queue of the router, the backlog, plans and issues of the capability market,    *)
(* the runs of the sniper, the ledger of the submissions, the offers, the ranking of the     *)
(* scout and the frontier of the radar.                                                   *)
THEOREM ScoutsTypeCorrect == Spec => []TypeOK
<1>1. Spec => /\ ScansSpec /\ RouterSpec /\ CapabilitiesSpec /\ SniperSpec /\ SubmissionSpec
              /\ OffersSpec /\ ProspectSpec /\ RadarSpec
  BY ScoutsApart, PTL
     DEF Spec, ScansSpec, RouterSpec, CapabilitiesSpec, SniperSpec, SubmissionSpec, OffersSpec,
         ProspectSpec, RadarSpec
<1>2. /\ ScansTypeOK /\ RouterTypeOK /\ CapabilitiesTypeOK /\ SniperTypeOK /\ SubmissionTypeOK
      /\ OffersTypeOK /\ ProspectTypeOK /\ RadarTypeOK
      => TypeOK
  BY DEF TypeOK
<1> QED
  BY <1>1, <1>2, ScansTypeCorrect, RouterTypeCorrect, CapabilitiesTypeCorrect, SniperTypeCorrect,
     SubmissionTypeCorrect, OffersTypeCorrect, ProspectTypeCorrect, RadarTypeCorrect, PTL
================================================================================
