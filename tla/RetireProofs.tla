---------------------------- MODULE RetireProofs ----------------------------
(***************************************************************************)
(* Proofs about the reorder buffer as the pipeline drives it, for every    *)
(* depth, every instruction set and every number of instructions.          *)
(*                                                                         *)
(* What makes the ring's shape an invariant is where the marks are: order  *)
(* ids grow from the head to the tail, a flush marks the ids above one of  *)
(* them, so the marked entries are always a suffix, and a walk that stops  *)
(* at the first unmarked entry from the tail has seen them all.            *)
(***************************************************************************)
EXTENDS Retire, SequenceTheorems, TLAPS

\* The place the walk looks at is the last one the ring still holds.
WalkIsAtTheTail == recovering => Inc(recoverPtr) = At(robCount)

\* Order ids grow from the head to the tail and are below the next one.
OrdersGrow ==
  /\ \A i, j \in Indices :
       rob[i].valid /\ rob[j].valid /\ Offset(i) < Offset(j)
         => rob[i].order < rob[j].order
  /\ \A i \in Indices : rob[i].valid => rob[i].order < orderId

\* The marked entries are a suffix of the ring.
MarksAreASuffix ==
  \A i, j \in Indices :
    rob[i].valid /\ rob[i].flushed /\ rob[j].valid /\ Offset(i) < Offset(j)
      => rob[j].flushed

RingInv ==
  /\ RetireTypeOK /\ RingIsContiguous /\ NoMarkLeft
  /\ WalkIsAtTheTail /\ OrdersGrow /\ MarksAreASuffix

-----------------------------------------------------------------------------
\* disp hands the buffer K instructions with the next order ids, none in a
\* cycle of a flush or without room.  What the rename stage adds to them is
\* left open, so that the lemmas serve both Retire and Rename.
HandsOver(f, disp, K) ==
  /\ K \in 0 .. 2 /\ Len(disp) = K /\ DOMAIN disp = 1 .. K
  /\ \A n \in 1 .. K : disp[n] \in Dispatched /\ disp[n].order = orderId + n - 1
  /\ orderId + K <= MaxOrder
  /\ f.valid \/ RobFull => K = 0

\* One cycle of the buffer and its driver.
BufferCycle(f, wb, disp, K) ==
  /\ HandsOver(f, disp, K)
  /\ RobCycle(f, wb, disp) /\ orderId' = orderId + K
  /\ ResolveBranch(f, wb) /\ Record(f)

-----------------------------------------------------------------------------
\* The arithmetic of the ring, free of any state change.
LEMMA RingArithmetic ==
  ASSUME robHead \in Indices
  PROVE  /\ \A i \in Indices : /\ Inc(i) \in Indices /\ Dec(i) \in Indices
                               /\ Inc(Dec(i)) = i /\ Dec(Inc(i)) = i
                               /\ Offset(i) \in 0 .. Depth - 1
                               /\ At(Offset(i)) = i
         /\ \A n \in 0 .. Depth - 1 : /\ At(n) \in Indices /\ Offset(At(n)) = n
                                      /\ Inc(At(n)) = At(n + 1)
BY RobAssumption DEF Indices, Inc, Dec, Offset, At

\* Marks and completions leave the rest of an entry alone.
LEMMA MarkedEntry ==
  ASSUME NEW f, NEW wb, NEW e \in Entries
  PROVE  /\ Marked(f, wb, e) \in Entries
         /\ Marked(f, wb, e).valid = e.valid
         /\ Marked(f, wb, e).order = e.order
         /\ Marked(f, wb, e).flushed = (e.flushed \/ MarkedBy(f, e))
         /\ Marked(f, wb, e).complete = (e.complete \/ CompletedBy(wb, e))
<1>1. MarkedBy(f, e) \in BOOLEAN /\ CompletedBy(wb, e) \in BOOLEAN
  BY DEF MarkedBy, CompletedBy
<1> QED
  BY <1>1 DEF Marked, Entries

\* A flush marks a suffix: what is younger than a marked entry is marked.
LEMMA FlushMarksASuffix ==
  ASSUME NEW f \in Flushes, NEW d \in Entries, NEW e \in Entries,
         MarkedBy(f, d), e.valid, d.order < e.order
  PROVE  MarkedBy(f, e)
BY DEF MarkedBy, Flushes, Entries

\* A step of the walk keeps the ring: the last entry goes, the marks stay a
\* suffix even when a flush marks older entries in the same cycle.
LEMMA UndoKeepsTheRing ==
  ASSUME RingInv, NEW f \in Flushes, NEW wb, WalkUndo(f, wb),
         orderId' \in Int, orderId' >= orderId
  PROVE  /\ RobTypeOK'
         /\ RingIsContiguous' /\ NoMarkLeft' /\ WalkIsAtTheTail'
         /\ OrdersGrow' /\ MarksAreASuffix'
<1> USE DEF RingInv
<1>1. RobTypeOK /\ robHead \in Indices /\ recoverPtr \in Indices
  BY DEF RetireTypeOK, RobTypeOK
<1>2. /\ recovering' \in BOOLEAN /\ recovering' /\ robHead' = robHead
      /\ robTail' = robTail /\ robCount' = robCount - 1
      /\ recoverPtr' = Dec(recoverPtr)
  BY <1>1 DEF WalkUndo, RobTypeOK
<1>3. recoverPtr = At(robCount - 1) /\ robCount \in 1 .. Depth
  <2>1. robCount \in 0 .. Depth
    BY DEF RetireTypeOK, RobTypeOK
  <2>2. Offset(recoverPtr) < robCount
    BY <1>1 DEF WalkUndo, WalkUndoes, RingIsContiguous
  <2>3. Inc(recoverPtr) = At(robCount)
    BY DEF WalkIsAtTheTail, WalkUndo
  <2> QED
    BY <1>1, <2>1, <2>2, <2>3, RobAssumption DEF Indices, Inc, At, Offset
<1>4. \A i \in Indices :
        /\ rob'[i] \in Entries
        /\ rob'[i].valid = (rob[i].valid /\ i # recoverPtr)
        /\ rob'[i].order = rob[i].order
        /\ i # recoverPtr => rob'[i].flushed = (rob[i].flushed \/ MarkedBy(f, rob[i]))
  <2> SUFFICES ASSUME NEW i \in Indices
               PROVE  /\ rob'[i] \in Entries
                      /\ rob'[i].valid = (rob[i].valid /\ i # recoverPtr)
                      /\ rob'[i].order = rob[i].order
                      /\ i # recoverPtr =>
                           rob'[i].flushed = (rob[i].flushed \/ MarkedBy(f, rob[i]))
    OBVIOUS
  <2>1. rob[i] \in Entries
    BY <1>1 DEF RobTypeOK
  <2>2. MarkedBy(f, rob[i]) \in BOOLEAN
    BY DEF MarkedBy
  <2>3. rob'[i] = IF i = recoverPtr
                  THEN [Marked(f, wb, rob[i]) EXCEPT !.valid = FALSE,
                                                     !.flushed = MarkedBy(f, rob[i])]
                  ELSE Marked(f, wb, rob[i])
    BY DEF WalkUndo
  <2>4. Marked(f, wb, rob[i]) \in Entries
    BY <2>1, MarkedEntry
  <2>5. CASE i = recoverPtr
    <3>1. rob'[i] \in Entries /\ rob'[i].valid = FALSE
                              /\ rob'[i].order = Marked(f, wb, rob[i]).order
      BY <2>2, <2>3, <2>4, <2>5 DEF Entries
    <3> QED
      BY <3>1, <2>1, <2>5, MarkedEntry
  <2>6. CASE i # recoverPtr
    <3>1. rob[i].valid \in BOOLEAN
      BY <2>1 DEF Entries
    <3> QED
      BY <2>1, <2>3, <2>6, <3>1, MarkedEntry
  <2> QED
    BY <2>5, <2>6
<1>5. DOMAIN rob' = Indices /\ rob' = [i \in Indices |-> rob'[i]]
  BY DEF WalkUndo
<1>6. RobTypeOK'
  <2>1. rob' \in [Indices -> Entries]
    BY <1>4, <1>5
  <2>2. recoverPtr' \in Indices /\ robCount' \in 0 .. Depth
    <3>1. robCount' \in 0 .. Depth
      BY <1>2, <1>3, RobAssumption
    <3> QED
      BY <1>1, <1>2, <3>1, RingArithmetic
  <2>3. commit0' \in SUBSET Entries /\ recoverOut' \in SUBSET Entries
    BY <1>1 DEF WalkUndo, RobTypeOK
  <2> QED
    BY <1>1, <1>2, <2>1, <2>2, <2>3 DEF RobTypeOK
<1>7. \A i \in Indices : Offset(i)' = Offset(i) /\ Offset(i) \in 0 .. Depth - 1
                        /\ (i = recoverPtr <=> Offset(i) = robCount - 1)
  BY <1>1, <1>2, <1>3, RobAssumption DEF Indices, Offset, At
<1>8. RingIsContiguous'
  <2>1. ASSUME NEW i \in Indices
        PROVE  rob'[i].valid <=> Offset(i)' < robCount'
    <3>1. rob'[i].valid <=> Offset(i) < robCount /\ i # recoverPtr
      BY <1>4 DEF RingIsContiguous
    <3> QED
      BY <1>2, <1>3, <1>7, <3>1
  <2> QED
    BY <1>2, <2>1 DEF RingIsContiguous
<1>9. NoMarkLeft'
  BY <1>2 DEF NoMarkLeft
<1>10. WalkIsAtTheTail'
  <2>1. Inc(Dec(recoverPtr)) = At(robCount - 1)
    BY <1>1, <1>3, RingArithmetic
  <2> QED
    BY <1>2, <2>1 DEF WalkIsAtTheTail, At
<1>11. OrdersGrow'
  <2>1. \A i, j \in Indices :
          rob'[i].valid /\ rob'[j].valid /\ Offset(i)' < Offset(j)'
            => rob'[i].order < rob'[j].order
    BY <1>4, <1>7 DEF OrdersGrow
  <2>2. \A i \in Indices : rob'[i].valid => rob'[i].order < orderId'
    <3>1. \A i \in Indices : rob[i].order \in Nat
      BY <1>1 DEF RobTypeOK, Entries
    <3>2. orderId \in Int
      BY RetireAssumption DEF RetireTypeOK
    <3> SUFFICES ASSUME NEW i \in Indices, rob'[i].valid
                 PROVE  rob'[i].order < orderId'
      OBVIOUS
    <3>3. rob[i].valid /\ rob'[i].order = rob[i].order
      BY <1>4
    <3>4. rob[i].order < orderId
      BY <3>3 DEF OrdersGrow
    <3> QED
      BY <3>1, <3>2, <3>3, <3>4
  <2> QED
    BY <2>1, <2>2 DEF OrdersGrow
<1>12. MarksAreASuffix'
  <2> SUFFICES ASSUME NEW i \in Indices, NEW j \in Indices,
                      rob'[i].valid, rob'[i].flushed, rob'[j].valid,
                      Offset(i)' < Offset(j)'
               PROVE  rob'[j].flushed
    BY DEF MarksAreASuffix
  <2>1. /\ rob[i].valid /\ rob[j].valid /\ Offset(i) < Offset(j)
        /\ i # recoverPtr /\ j # recoverPtr
        /\ rob[i].flushed \/ MarkedBy(f, rob[i])
    BY <1>4, <1>7
  <2>2. CASE rob[i].flushed
    BY <1>4, <2>1, <2>2 DEF MarksAreASuffix
  <2>3. CASE MarkedBy(f, rob[i])
    <3>1. rob[i] \in Entries /\ rob[j] \in Entries /\ rob[i].order < rob[j].order
      BY <1>1, <2>1 DEF RobTypeOK, OrdersGrow
    <3> QED
      BY <1>4, <2>1, <2>3, <3>1, FlushMarksASuffix
  <2> QED
    BY <2>1, <2>2, <2>3
<1> QED
  BY <1>6, <1>8, <1>9, <1>10, <1>11, <1>12

\* Marks and completions alone keep the ring.
LEMMA MarkingKeepsTheRing ==
  ASSUME RingInv, NEW f \in Flushes, NEW wb,
         rob' = [i \in Indices |-> Marked(f, wb, rob[i])],
         robHead' = robHead, robCount' = robCount,
         orderId' \in Int, orderId' >= orderId
  PROVE  /\ rob' \in [Indices -> Entries]
         /\ \A i \in Indices : rob'[i].valid <=> Offset(i)' < robCount'
         /\ OrdersGrow' /\ MarksAreASuffix'
<1> USE DEF RingInv
<1>1. \A i \in Indices : rob[i] \in Entries
  BY DEF RetireTypeOK, RobTypeOK
<1>2. \A i \in Indices :
        /\ rob'[i] \in Entries
        /\ rob'[i].valid = rob[i].valid /\ rob'[i].order = rob[i].order
        /\ rob'[i].flushed = (rob[i].flushed \/ MarkedBy(f, rob[i]))
  BY <1>1, MarkedEntry
<1>3. \A i \in Indices : Offset(i)' = Offset(i)
  BY DEF Offset
<1>4. OrdersGrow'
  <2>1. \A i, j \in Indices :
          rob'[i].valid /\ rob'[j].valid /\ Offset(i)' < Offset(j)'
            => rob'[i].order < rob'[j].order
    BY <1>2, <1>3 DEF OrdersGrow
  <2>2. ASSUME NEW i \in Indices, rob'[i].valid
        PROVE  rob'[i].order < orderId'
    <3>1. rob'[i].order < orderId
      BY <1>2, <2>2 DEF OrdersGrow
    <3>2. orderId \in Int /\ rob'[i].order \in Int
      BY <1>2, RetireAssumption DEF RetireTypeOK, Entries
    <3> QED
      BY <3>1, <3>2
  <2> QED
    BY <2>1, <2>2 DEF OrdersGrow
<1>5. MarksAreASuffix'
  <2> SUFFICES ASSUME NEW i \in Indices, NEW j \in Indices,
                      rob'[i].valid, rob'[i].flushed, rob'[j].valid,
                      Offset(i)' < Offset(j)'
               PROVE  rob'[j].flushed
    BY DEF MarksAreASuffix
  <2>1. /\ rob[i].valid /\ rob[j].valid /\ Offset(i) < Offset(j)
        /\ rob[i].flushed \/ MarkedBy(f, rob[i])
    BY <1>2, <1>3
  <2>2. CASE rob[i].flushed
    BY <1>2, <2>1, <2>2 DEF MarksAreASuffix
  <2>3. CASE MarkedBy(f, rob[i])
    <3>1. rob[i].order < rob[j].order
      BY <2>1 DEF OrdersGrow
    <3> QED
      BY <1>1, <1>2, <2>1, <2>3, <3>1, FlushMarksASuffix
  <2> QED
    BY <2>1, <2>2, <2>3
<1>6. \A i \in Indices : rob'[i].valid <=> Offset(i)' < robCount'
  BY <1>2, <1>3 DEF RingIsContiguous
<1> QED
  BY <1>2, <1>4, <1>5, <1>6

\* A held walk keeps the ring.
LEMMA HoldKeepsTheRing ==
  ASSUME RingInv, NEW f \in Flushes, NEW wb, WalkHold(f, wb),
         orderId' \in Int, orderId' >= orderId
  PROVE  /\ RobTypeOK'
         /\ RingIsContiguous' /\ NoMarkLeft' /\ WalkIsAtTheTail'
         /\ OrdersGrow' /\ MarksAreASuffix'
<1>1. RobTypeOK /\ recovering
  BY DEF WalkHold, RingInv, RetireTypeOK
<1>2. /\ robHead' = robHead /\ robTail' = robTail /\ robCount' = robCount
      /\ recovering' = recovering /\ recoverPtr' = recoverPtr
      /\ commit0' = {} /\ recoverOut' = {}
      /\ rob' = [i \in Indices |-> Marked(f, wb, rob[i])]
  BY DEF WalkHold
<1>3. /\ rob' \in [Indices -> Entries]
      /\ \A i \in Indices : rob'[i].valid <=> Offset(i)' < robCount'
      /\ OrdersGrow' /\ MarksAreASuffix'
  BY <1>2, MarkingKeepsTheRing
<1>4. recovering'
  BY <1>1, <1>2
<1>5. RobTypeOK'
  BY <1>1, <1>2, <1>3 DEF RobTypeOK
<1>6. RingIsContiguous' /\ NoMarkLeft'
  BY <1>3, <1>4 DEF RingIsContiguous, NoMarkLeft
<1>7. WalkIsAtTheTail'
  BY <1>1, <1>2 DEF RingInv, WalkIsAtTheTail, At
<1> QED
  BY <1>3, <1>5, <1>6, <1>7

\* The walk ends at an unmarked entry or an empty ring: as the marks are a
\* suffix, none is left.
LEMMA EndKeepsTheRing ==
  ASSUME RingInv, NEW f \in Flushes, NEW wb, WalkEnd(f, wb),
         orderId' \in Int, orderId' >= orderId
  PROVE  /\ RobTypeOK'
         /\ RingIsContiguous' /\ NoMarkLeft' /\ WalkIsAtTheTail'
         /\ OrdersGrow' /\ MarksAreASuffix'
<1>1. RobTypeOK /\ recovering /\ robHead \in Indices /\ recoverPtr \in Indices
  BY DEF WalkEnd, RingInv, RetireTypeOK, RobTypeOK
<1>2. /\ robHead' = robHead /\ robTail' = Inc(recoverPtr) /\ robCount' = robCount
      /\ recovering' = FALSE /\ recoverPtr' = recoverPtr
      /\ commit0' = {} /\ recoverOut' = {}
      /\ rob' = [i \in Indices |-> Marked(f, wb, rob[i])]
  BY DEF WalkEnd
<1>3. /\ rob' \in [Indices -> Entries]
      /\ \A i \in Indices : rob'[i].valid <=> Offset(i)' < robCount'
      /\ OrdersGrow' /\ MarksAreASuffix'
  BY <1>2, MarkingKeepsTheRing
<1>4. RobTypeOK'
  <2>1. Inc(recoverPtr) \in Indices
    BY <1>1, RingArithmetic
  <2> QED
    BY <1>1, <1>2, <1>3, <2>1 DEF RobTypeOK
<1>5. RingIsContiguous'
  <2>1. Inc(recoverPtr) = At(robCount)
    BY <1>1 DEF RingInv, WalkIsAtTheTail
  <2>2. robTail' = At(robCount)'
    BY <1>2, <2>1 DEF At
  <2> QED
    BY <1>3, <2>2 DEF RingIsContiguous
<1>6. NoMarkLeft'
  <2> SUFFICES ASSUME NEW i \in Indices, rob'[i].valid, rob'[i].flushed
               PROVE  FALSE
    BY DEF NoMarkLeft
  <2>1. rob[i] \in Entries /\ rob[recoverPtr] \in Entries
    BY <1>1 DEF RobTypeOK
  <2>2. ~MarkedBy(f, rob[i])
    BY DEF WalkEnd, MarkedBy
  <2>3. rob[i].valid /\ rob[i].flushed
    <3>1. rob'[i] = Marked(f, wb, rob[i])
      BY <1>2
    <3>2. Marked(f, wb, rob[i]).valid /\ Marked(f, wb, rob[i]).flushed
      BY <3>1
    <3>3. /\ Marked(f, wb, rob[i]).valid = rob[i].valid
          /\ Marked(f, wb, rob[i]).flushed = (rob[i].flushed \/ MarkedBy(f, rob[i]))
      BY <2>1, MarkedEntry
    <3>4. rob[i].valid \in BOOLEAN /\ rob[i].flushed \in BOOLEAN
      BY <2>1 DEF Entries
    <3> QED
      BY <2>2, <3>2, <3>3, <3>4
  <2>4. robCount \in 1 .. Depth /\ Offset(i) < robCount
    BY <1>1, <2>3, RingArithmetic DEF RingInv, RingIsContiguous, RobTypeOK
  <2>5. Offset(recoverPtr) = robCount - 1
    <3>1. Inc(recoverPtr) = At(robCount)
      BY <1>1 DEF RingInv, WalkIsAtTheTail
    <3> QED
      BY <1>1, <2>4, <3>1, RobAssumption DEF Indices, Inc, At, Offset
  <2>6. rob[recoverPtr].valid
    BY <1>1, <2>4, <2>5 DEF RingInv, RingIsContiguous
  <2>7. rob[recoverPtr].flushed
    <3>1. CASE i = recoverPtr
      BY <2>3, <3>1
    <3>2. CASE i # recoverPtr
      <4>1. Offset(i) < Offset(recoverPtr)
        BY <1>1, <2>4, <2>5, <3>2, RingArithmetic
      <4> QED
        BY <1>1, <2>3, <2>6, <4>1 DEF RingInv, MarksAreASuffix
    <3> QED
      BY <3>1, <3>2
  <2> QED
    BY <2>6, <2>7 DEF WalkEnd, WalkUndoes
<1>7. WalkIsAtTheTail'
  BY <1>2 DEF WalkIsAtTheTail
<1> QED
  BY <1>3, <1>4, <1>5, <1>6, <1>7

\* The places K new instructions take, right behind the last entry.
Fresh(i, K) == robCount <= Offset(i) /\ Offset(i) < robCount + K

\* What a cycle outside a walk leaves in each place: a new instruction, or the
\* old entry with its marks, gone if it was the head and left.
LEMMA RunEntries ==
  ASSUME RingInv, NEW f \in Flushes, NEW wb, NEW disp, NEW K \in 0 .. 2,
         Len(disp) = K, DOMAIN disp = 1 .. K,
         \A n \in 1 .. K : disp[n] \in Dispatched /\ disp[n].order = orderId + n - 1,
         f.valid \/ RobFull => K = 0,
         RunCycle(f, wb, disp)
  PROVE  /\ \A i \in Indices : Fresh(i, K) =>
              /\ rob'[i] \in Entries /\ rob'[i].valid /\ ~rob'[i].flushed
              /\ rob'[i].order = orderId + Offset(i) - robCount
         /\ \A i \in Indices : ~Fresh(i, K) =>
              /\ rob'[i] \in Entries
              /\ rob'[i].valid = (rob[i].valid /\ ~(LeavingHead(f, wb) /\ i = robHead))
              /\ rob'[i].order = rob[i].order
              /\ rob'[i].flushed = (rob[i].flushed \/ MarkedBy(f, rob[i]))
              /\ rob'[i].complete = (rob[i].complete \/ CompletedBy(wb, rob[i]))
<1> DEFINE acc == IF f.valid \/ RobFull THEN <<>> ELSE disp
           leaves == LeavingHead(f, wb)
           fresh(i) == \E n \in 1 .. K : SlotOf(n) = i
<1>1. /\ RobTypeOK /\ ~recovering /\ robHead \in Indices /\ robTail \in Indices
      /\ robCount \in 0 .. Depth /\ robTail = At(robCount) /\ orderId \in Nat
  BY RetireAssumption
     DEF RunCycle, RingInv, RetireTypeOK, RobTypeOK, RingIsContiguous
<1>2. /\ DOMAIN acc = 1 .. K /\ Len(acc) = K
      /\ \A n \in 1 .. K : acc[n] = disp[n]
  <2>1. CASE f.valid \/ RobFull
    BY <2>1
  <2>2. CASE ~(f.valid \/ RobFull)
    BY <2>2
  <2> QED
    BY <2>1, <2>2
<1>3. leaves \in BOOLEAN /\ (leaves => robCount >= 1)
  BY <1>1 DEF LeavingHead, HeadSkips, HeadCommits
<1>4. K > 0 => robCount < Depth - 2 /\ ~f.valid
  BY <1>1, RobAssumption DEF RobFull
<1>5. /\ rob' = [i \in Indices |->
           IF \E n \in DOMAIN acc : SlotOf(n) = i
           THEN EntryOf(acc[CHOOSE n \in DOMAIN acc : SlotOf(n) = i])
           ELSE [Marked(f, wb, rob[i]) EXCEPT !.valid = @ /\ ~(leaves /\ i = robHead)]]
      /\ robHead' = IF leaves THEN Inc(robHead) ELSE robHead
      /\ robTail' = CASE Len(acc) = 0 -> robTail
                      [] Len(acc) = 1 -> Inc(robTail)
                      [] OTHER -> Inc(Inc(robTail))
      /\ robCount' = robCount - (IF leaves THEN 1 ELSE 0) + Len(acc)
      /\ commit0' = IF HeadCommits(f, wb) THEN {rob[robHead]} ELSE {}
      /\ recoverOut' = {}
      /\ recovering' = (f.valid /\ robCount > 0)
      /\ recoverPtr' = IF f.valid /\ robCount > 0 THEN Dec(robTail) ELSE recoverPtr
  BY DEF RunCycle
<1> HIDE DEF acc, leaves
\* The new instructions take the places right behind the tail.
<1>6. \A n \in 1 .. K : SlotOf(n) \in Indices /\ Offset(SlotOf(n)) = robCount + n - 1
  <2> SUFFICES ASSUME NEW n \in 1 .. K
               PROVE  SlotOf(n) \in Indices /\ Offset(SlotOf(n)) = robCount + n - 1
    OBVIOUS
  <2>1. robCount + 1 < Depth /\ Depth \in Nat /\ robCount \in Nat
    BY <1>1, <1>4, RobAssumption
  <2>2. At(robCount) \in Indices /\ Offset(At(robCount)) = robCount
    BY <1>1, <2>1, RingArithmetic
  <2>3. /\ Inc(At(robCount)) = At(robCount + 1)
        /\ At(robCount + 1) \in Indices /\ Offset(At(robCount + 1)) = robCount + 1
    BY <1>1, <2>1, RingArithmetic
  <2>4. n = 1 \/ n = 2
    OBVIOUS
  <2>5. CASE n = 1
    BY <1>1, <2>1, <2>2, <2>5 DEF SlotOf
  <2>6. CASE n = 2
    BY <1>1, <2>1, <2>3, <2>6 DEF SlotOf
  <2> QED
    BY <2>4, <2>5, <2>6
<1>7. \A i \in Indices : Offset(i) \in 0 .. Depth - 1
  BY <1>1, RingArithmetic
<1>8. \A i, j \in Indices : Offset(i) = Offset(j) => i = j
  BY <1>1, RingArithmetic
<1>9. \A i \in Indices :
        fresh(i) <=> robCount <= Offset(i) /\ Offset(i) < robCount + K
  <2> SUFFICES ASSUME NEW i \in Indices
               PROVE  fresh(i) <=> robCount <= Offset(i) /\ Offset(i) < robCount + K
    OBVIOUS
  <2>1. ASSUME fresh(i) PROVE robCount <= Offset(i) /\ Offset(i) < robCount + K
    BY <1>1, <1>6, <2>1
  <2>2. ASSUME robCount <= Offset(i), Offset(i) < robCount + K PROVE fresh(i)
    <3>1. Offset(i) - robCount + 1 \in 1 .. K
      BY <1>1, <1>7, <2>2
    <3>2. Offset(SlotOf(Offset(i) - robCount + 1)) = Offset(i)
      BY <1>1, <1>6, <1>7, <3>1
    <3> QED
      BY <1>6, <1>8, <3>1, <3>2
  <2> QED
    BY <2>1, <2>2
<1>10. \A i \in Indices : fresh(i) =>
         /\ rob'[i] \in Entries /\ rob'[i].valid /\ ~rob'[i].flushed
         /\ rob'[i].order = orderId + Offset(i) - robCount
  <2> SUFFICES ASSUME NEW i \in Indices, fresh(i)
               PROVE  /\ rob'[i] \in Entries /\ rob'[i].valid /\ ~rob'[i].flushed
                      /\ rob'[i].order = orderId + Offset(i) - robCount
    OBVIOUS
  <2> DEFINE m == CHOOSE n \in DOMAIN acc : SlotOf(n) = i
  <2>1. m \in 1 .. K /\ SlotOf(m) = i
    BY <1>2
  <2>2. rob'[i] = EntryOf(acc[m])
    BY <1>2, <1>5
  <2> HIDE DEF m
  <2>3. acc[m] = disp[m] /\ disp[m] \in Dispatched /\ disp[m].order = orderId + m - 1
    BY <1>2, <2>1
  <2>4. EntryOf(disp[m]) \in Entries /\ EntryOf(disp[m]).valid
        /\ ~EntryOf(disp[m]).flushed /\ EntryOf(disp[m]).order = disp[m].order
    BY <2>3 DEF EntryOf, Entries, Dispatched
  <2>5. Offset(i) = robCount + m - 1
    BY <1>6, <2>1
  <2> QED
    BY <1>1, <2>1, <2>2, <2>3, <2>4, <2>5
<1>11. \A i \in Indices : ~fresh(i) =>
         /\ rob'[i] \in Entries
         /\ rob'[i].valid = (rob[i].valid /\ ~(leaves /\ i = robHead))
         /\ rob'[i].order = rob[i].order
         /\ rob'[i].flushed = (rob[i].flushed \/ MarkedBy(f, rob[i]))
         /\ rob'[i].complete = (rob[i].complete \/ CompletedBy(wb, rob[i]))
  <2> SUFFICES ASSUME NEW i \in Indices, ~fresh(i)
               PROVE  /\ rob'[i] \in Entries
                      /\ rob'[i].valid = (rob[i].valid /\ ~(leaves /\ i = robHead))
                      /\ rob'[i].order = rob[i].order
                      /\ rob'[i].flushed = (rob[i].flushed \/ MarkedBy(f, rob[i]))
                      /\ rob'[i].complete = (rob[i].complete \/ CompletedBy(wb, rob[i]))
    OBVIOUS
  <2>1. rob[i] \in Entries
    BY <1>1 DEF RobTypeOK
  <2> DEFINE e == Marked(f, wb, rob[i])
  <2>2. /\ e \in Entries /\ e.valid = rob[i].valid /\ e.order = rob[i].order
        /\ e.flushed = (rob[i].flushed \/ MarkedBy(f, rob[i]))
        /\ e.complete = (rob[i].complete \/ CompletedBy(wb, rob[i]))
    BY <2>1, MarkedEntry
  <2> HIDE DEF e
  <2>3. rob'[i] = [e EXCEPT !.valid = e.valid /\ ~(leaves /\ i = robHead)]
    BY <1>2, <1>5 DEF e
  <2>4. /\ rob'[i] \in Entries
        /\ rob'[i].valid = (e.valid /\ ~(leaves /\ i = robHead))
        /\ rob'[i].order = e.order /\ rob'[i].flushed = e.flushed
        /\ rob'[i].complete = e.complete
    <3>1. (e.valid /\ ~(leaves /\ i = robHead)) \in BOOLEAN
      OBVIOUS
    <3> DEFINE v == e.valid /\ ~(leaves /\ i = robHead)
    <3> HIDE DEF v
    <3>2. v \in BOOLEAN /\ rob'[i] = [e EXCEPT !.valid = v]
      BY <2>3, <3>1 DEF v
    <3>3. rob'[i] \in Entries /\ rob'[i].valid = v
          /\ rob'[i].order = e.order /\ rob'[i].flushed = e.flushed
        /\ rob'[i].complete = e.complete
      BY <2>2, <3>2 DEF Entries
    <3> QED
      BY <3>3 DEF v
  <2> QED
    BY <2>2, <2>4
<1> QED
  BY <1>9, <1>10, <1>11 DEF leaves, Fresh

\* A cycle outside a walk keeps the ring: the head may leave, K instructions
\* may enter behind the tail, or a flush marks a suffix and starts a walk.
LEMMA RunKeepsTheRing ==
  ASSUME RingInv, NEW f \in Flushes, NEW wb, NEW disp, NEW K \in 0 .. 2,
         Len(disp) = K, DOMAIN disp = 1 .. K,
         \A n \in 1 .. K : disp[n] \in Dispatched /\ disp[n].order = orderId + n - 1,
         f.valid \/ RobFull => K = 0,
         RunCycle(f, wb, disp), orderId' = orderId + K
  PROVE  /\ RobTypeOK'
         /\ RingIsContiguous' /\ NoMarkLeft' /\ WalkIsAtTheTail'
         /\ OrdersGrow' /\ MarksAreASuffix'
<1> DEFINE acc == IF f.valid \/ RobFull THEN <<>> ELSE disp
           leaves == LeavingHead(f, wb)
           fresh(i) == Fresh(i, K)
<1>1. /\ RobTypeOK /\ ~recovering /\ robHead \in Indices /\ robTail \in Indices
      /\ robCount \in 0 .. Depth /\ robTail = At(robCount) /\ orderId \in Nat
  BY RetireAssumption
     DEF RunCycle, RingInv, RetireTypeOK, RobTypeOK, RingIsContiguous
<1>2. /\ DOMAIN acc = 1 .. K /\ Len(acc) = K
      /\ \A n \in 1 .. K : acc[n] = disp[n]
  <2>1. CASE f.valid \/ RobFull
    BY <2>1
  <2>2. CASE ~(f.valid \/ RobFull)
    BY <2>2
  <2> QED
    BY <2>1, <2>2
<1>3. leaves \in BOOLEAN /\ (leaves => robCount >= 1)
  BY <1>1 DEF LeavingHead, HeadSkips, HeadCommits
<1>4. K > 0 => robCount < Depth - 2 /\ ~f.valid
  BY <1>1, RobAssumption DEF RobFull
<1>5. /\ rob' = [i \in Indices |->
           IF \E n \in DOMAIN acc : SlotOf(n) = i
           THEN EntryOf(acc[CHOOSE n \in DOMAIN acc : SlotOf(n) = i])
           ELSE [Marked(f, wb, rob[i]) EXCEPT !.valid = @ /\ ~(leaves /\ i = robHead)]]
      /\ robHead' = IF leaves THEN Inc(robHead) ELSE robHead
      /\ robTail' = CASE Len(acc) = 0 -> robTail
                      [] Len(acc) = 1 -> Inc(robTail)
                      [] OTHER -> Inc(Inc(robTail))
      /\ robCount' = robCount - (IF leaves THEN 1 ELSE 0) + Len(acc)
      /\ commit0' = IF HeadCommits(f, wb) THEN {rob[robHead]} ELSE {}
      /\ recoverOut' = {}
      /\ recovering' = (f.valid /\ robCount > 0)
      /\ recoverPtr' = IF f.valid /\ robCount > 0 THEN Dec(robTail) ELSE recoverPtr
  BY DEF RunCycle
<1> HIDE DEF acc
<1>7. \A i \in Indices : Offset(i) \in 0 .. Depth - 1
  BY <1>1, RingArithmetic
<1>9. \A i \in Indices :
        fresh(i) <=> robCount <= Offset(i) /\ Offset(i) < robCount + K
  BY DEF Fresh
<1>10. \A i \in Indices : fresh(i) =>
         /\ rob'[i] \in Entries /\ rob'[i].valid /\ ~rob'[i].flushed
         /\ rob'[i].order = orderId + Offset(i) - robCount
  BY RunEntries
<1>11. \A i \in Indices : ~fresh(i) =>
         /\ rob'[i] \in Entries
         /\ rob'[i].valid = (rob[i].valid /\ ~(leaves /\ i = robHead))
         /\ rob'[i].order = rob[i].order
         /\ rob'[i].flushed = (rob[i].flushed \/ MarkedBy(f, rob[i]))
  BY RunEntries
<1> HIDE DEF fresh, leaves
\* Where the entries stand behind the new head.
<1>12. /\ robHead' \in Indices
       /\ \A i \in Indices : Offset(i)' = IF leaves
                                         THEN IF i = robHead THEN Depth - 1
                                              ELSE Offset(i) - 1
                                         ELSE Offset(i)
       /\ \A i \in Indices : i = robHead <=> Offset(i) = 0
  <2>1. robHead' \in Indices
    BY <1>1, <1>3, <1>5, RingArithmetic
  <2>2. ASSUME NEW i \in Indices
        PROVE  Offset(i)' = IF leaves THEN IF i = robHead THEN Depth - 1
                                           ELSE Offset(i) - 1
                            ELSE Offset(i)
    <3>1. CASE leaves
      <4>1. robHead' = Inc(robHead)
        BY <1>5, <3>1
      <4> QED
        BY <1>1, <3>1, <4>1, RobAssumption DEF Offset, Inc, Indices
    <3>2. CASE ~leaves
      BY <1>5, <3>2 DEF Offset
    <3> QED
      BY <3>1, <3>2
  <2>3. \A i \in Indices : i = robHead <=> Offset(i) = 0
    BY <1>1, RobAssumption DEF Offset, Indices
  <2> QED
    BY <2>1, <2>2, <2>3
<1>13. /\ robCount' = robCount - (IF leaves THEN 1 ELSE 0) + K
       /\ robCount' \in 0 .. Depth
  BY <1>1, <1>2, <1>3, <1>4, <1>5, RobAssumption
<1>14. \A i \in Indices : rob'[i].valid <=> Offset(i)' < robCount'
  <2> SUFFICES ASSUME NEW i \in Indices
               PROVE  rob'[i].valid <=> Offset(i)' < robCount'
    OBVIOUS
  <2>1. CASE fresh(i)
    <3>1. robCount <= Offset(i) /\ Offset(i) < robCount + K
      BY <1>9, <2>1
    <3>2. rob'[i].valid
      BY <1>10, <2>1
    <3>3. Offset(i)' < robCount'
      BY <1>1, <1>3, <1>7, <1>12, <1>13, <3>1
    <3> QED
      BY <3>2, <3>3
  <2>2. CASE ~fresh(i)
    <3>1. Offset(i) < robCount \/ Offset(i) >= robCount + K
      BY <1>1, <1>7, <1>9, <2>2
    <3>2. rob'[i].valid <=> Offset(i) < robCount /\ ~(leaves /\ i = robHead)
      BY <1>11, <2>2 DEF RingInv, RingIsContiguous
    <3>3. Offset(i)' < robCount' <=> Offset(i) < robCount /\ ~(leaves /\ i = robHead)
      BY <1>1, <1>3, <1>4, <1>7, <1>12, <1>13, <3>1, RobAssumption
    <3> QED
      BY <3>2, <3>3
  <2> QED
    BY <2>1, <2>2
<1>15. At(robCount)' = At(robCount + K)
  <2>1. CASE leaves
    <3>1. robHead' = Inc(robHead) /\ robCount' = robCount - 1 + K /\ robCount >= 1
      BY <1>3, <1>5, <1>13, <2>1
    <3> QED
      BY <1>1, <1>4, <3>1, RobAssumption DEF At, Inc, Indices
  <2>2. CASE ~leaves
    BY <1>1, <1>5, <1>13, <2>2 DEF At
  <2> QED
    BY <2>1, <2>2
<1>16. robTail' \in Indices /\ robTail' = At(robCount)'
  <2>1. CASE K = 0
    BY <1>1, <1>2, <1>5, <1>15, <2>1
  <2>2. CASE K = 1
    <3>1. robTail' = Inc(At(robCount))
      BY <1>1, <1>2, <1>5, <2>2
    <3>2. robCount \in 0 .. Depth - 1
      BY <1>1, <1>4, <2>2, RobAssumption
    <3> QED
      BY <1>1, <1>15, <2>2, <3>1, <3>2, RingArithmetic
  <2>3. CASE K = 2
    <3>1. robTail' = Inc(Inc(At(robCount)))
      BY <1>1, <1>2, <1>5, <2>3
    <3>2. robCount \in 0 .. Depth - 1 /\ robCount + 1 \in 0 .. Depth - 1
      BY <1>1, <1>4, <2>3, RobAssumption
    <3>3. Inc(At(robCount)) = At(robCount + 1)
      BY <1>1, <3>2, RingArithmetic
    <3>4. Inc(At(robCount + 1)) = At(robCount + 2)
      BY <1>1, <3>2, RobAssumption DEF At, Inc, Indices
    <3>5. Inc(Inc(At(robCount))) \in Indices
      BY <1>1, RingArithmetic
    <3> QED
      BY <1>15, <2>3, <3>1, <3>3, <3>4, <3>5
  <2> QED
    BY <2>1, <2>2, <2>3
<1>17. RobTypeOK'
  <2>1. rob' \in [Indices -> Entries]
    <3>1. \A i \in Indices : rob'[i] \in Entries
      BY <1>10, <1>11
    <3>2. rob' = [i \in Indices |-> rob'[i]]
      BY <1>5
    <3> QED
      BY <3>1, <3>2
  <2>2. recovering' \in BOOLEAN
    BY <1>5
  <2>3. recoverPtr' \in Indices
    BY <1>1, <1>5, RingArithmetic DEF RobTypeOK
  <2>4. commit0' \in SUBSET Entries /\ recoverOut' \in SUBSET Entries
    BY <1>1, <1>5 DEF RobTypeOK
  <2> QED
    BY <1>12, <1>13, <1>16, <2>1, <2>2, <2>3, <2>4 DEF RobTypeOK
<1>18. RingIsContiguous'
  BY <1>14, <1>16 DEF RingIsContiguous
<1>19. NoMarkLeft'
  <2> SUFFICES ASSUME ~recovering', NEW i \in Indices, rob'[i].valid
               PROVE  ~rob'[i].flushed
    BY DEF NoMarkLeft
  <2>1. CASE fresh(i)
    BY <1>10, <2>1
  <2>2. CASE ~fresh(i)
    <3>1. rob[i].valid
      BY <1>11, <2>2
    <3>2. ~rob[i].flushed
      BY <1>1, <3>1 DEF RingInv, NoMarkLeft
    <3>3. robCount > 0
      BY <1>1, <1>7, <3>1 DEF RingInv, RingIsContiguous
    <3>4. ~f.valid
      BY <1>5, <3>3
    <3> QED
      BY <1>11, <2>2, <3>2, <3>4 DEF MarkedBy
  <2> QED
    BY <2>1, <2>2
<1>20. WalkIsAtTheTail'
  <2> SUFFICES ASSUME recovering' PROVE Inc(recoverPtr)' = At(robCount)'
    BY DEF WalkIsAtTheTail
  <2>1. f.valid /\ robCount > 0 /\ recoverPtr' = Dec(robTail) /\ K = 0
    BY <1>4, <1>5
  <2>2. Inc(Dec(robTail)) = robTail
    BY <1>1, RingArithmetic
  <2> QED
    BY <1>1, <1>15, <2>1, <2>2 DEF Inc
<1>21. OrdersGrow'
  <2>1. \A i \in Indices : rob[i].valid => rob[i].order \in Nat /\ rob[i].order < orderId
    BY <1>1 DEF RingInv, OrdersGrow, RobTypeOK, Entries
  <2>2. ASSUME NEW i \in Indices, NEW j \in Indices,
               rob'[i].valid, rob'[j].valid, Offset(i)' < Offset(j)'
        PROVE  rob'[i].order < rob'[j].order
    <3>1. Offset(i) < Offset(j)
      <4>1. ~(leaves /\ (i = robHead \/ j = robHead))
        <5>1. Offset(i)' < robCount' /\ Offset(j)' < robCount'
          BY <1>14, <2>2
        <5> QED
          BY <1>1, <1>3, <1>4, <1>7, <1>12, <1>13, <5>1, RobAssumption
      <4> QED
        BY <1>7, <1>12, <2>2, <4>1
    <3>2. CASE fresh(i) /\ fresh(j)
      BY <1>1, <1>7, <1>10, <3>1, <3>2
    <3>3. CASE ~fresh(i) /\ fresh(j)
      <4>1. rob'[i].order \in Nat /\ rob'[i].order < orderId
        BY <1>11, <2>1, <2>2, <3>3
      <4>2. rob'[j].order >= orderId /\ rob'[j].order \in Int
        BY <1>1, <1>7, <1>9, <1>10, <3>3
      <4> QED
        BY <1>1, <4>1, <4>2
    <3>4. CASE fresh(i) /\ ~fresh(j)
      <4>1. rob[j].valid
        BY <1>11, <2>2, <3>4
      <4> QED
        BY <1>1, <1>7, <1>9, <3>1, <3>4, <4>1 DEF RingInv, RingIsContiguous
    <3>5. CASE ~fresh(i) /\ ~fresh(j)
      BY <1>11, <2>2, <3>1, <3>5 DEF RingInv, OrdersGrow
    <3> QED
      BY <3>2, <3>3, <3>4, <3>5
  <2>3. ASSUME NEW i \in Indices, rob'[i].valid
        PROVE  rob'[i].order < orderId'
    <3>1. CASE fresh(i)
      BY <1>1, <1>7, <1>9, <1>10, <3>1
    <3>2. CASE ~fresh(i)
      <4>1. rob'[i].order \in Nat /\ rob'[i].order < orderId
        BY <1>11, <2>1, <2>3, <3>2
      <4> QED
        BY <1>1, <4>1
    <3> QED
      BY <3>1, <3>2
  <2> QED
    BY <2>2, <2>3 DEF OrdersGrow
<1>22. MarksAreASuffix'
  <2> SUFFICES ASSUME NEW i \in Indices, NEW j \in Indices,
                      rob'[i].valid, rob'[i].flushed, rob'[j].valid,
                      Offset(i)' < Offset(j)'
               PROVE  rob'[j].flushed
    BY DEF MarksAreASuffix
  <2>1. ~fresh(i) /\ rob[i].valid
    BY <1>10, <1>11
  <2>2. MarkedBy(f, rob[i])
    BY <1>1, <1>11, <2>1 DEF RingInv, NoMarkLeft
  <2>3. f.valid /\ K = 0
    BY <1>4, <2>2 DEF MarkedBy
  <2>4. ~fresh(j) /\ rob[j].valid
    <3>1. ~fresh(j)
      BY <1>1, <1>7, <1>9, <2>3
    <3> QED
      BY <1>11, <3>1
  <2>5. rob[i].order < rob[j].order
    BY <1>11, <1>21, <2>1, <2>4 DEF OrdersGrow
  <2>6. rob[i] \in Entries /\ rob[j] \in Entries
    BY <1>1 DEF RobTypeOK
  <2> QED
    BY <1>11, <2>2, <2>4, <2>5, <2>6, FlushMarksASuffix
<1> QED
  BY <1>17, <1>18, <1>19, <1>20, <1>21, <1>22

-----------------------------------------------------------------------------
\* The flush mux delivers a well-formed request.
LEMMA FlushIsTyped ==
  ASSUME RetireTypeOK, NEW irq \in BOOLEAN, NEW wb
  PROVE  FlushOf(irq, wb) \in Flushes
<1>1. XretNow(wb) \subseteq Nat
  <2>1. \A e \in Executing : e.order \in Nat
    BY DEF Executing, LiveEntries, RetireTypeOK, RobTypeOK, Entries
  <2> QED
    BY <2>1 DEF XretNow
<1>2. Mispredicted \subseteq Nat
  BY RetireAssumption DEF Mispredicted, RetireTypeOK, Orders
<1> DEFINE trap == ExceptionNow \/ irq
<1>3. CASE trap
  <2>1. FlushOf(irq, wb) = [valid |-> TRUE, ordered |-> FALSE, order |-> 0]
    BY <1>3 DEF FlushOf
  <2> QED
    BY <2>1 DEF Flushes
<1>4. CASE ~trap /\ XretNow(wb) # {}
  <2>1. FlushOf(irq, wb) = [valid |-> TRUE, ordered |-> TRUE,
                            order |-> CHOOSE o \in XretNow(wb) : TRUE]
    BY <1>4 DEF FlushOf
  <2>2. (CHOOSE o \in XretNow(wb) : TRUE) \in Nat
    BY <1>1, <1>4
  <2> QED
    BY <2>1, <2>2 DEF Flushes
<1>5. CASE ~trap /\ XretNow(wb) = {} /\ Mispredicted # {}
  <2>1. FlushOf(irq, wb) = [valid |-> TRUE, ordered |-> TRUE,
                            order |-> CHOOSE o \in Mispredicted : TRUE]
    BY <1>5 DEF FlushOf
  <2>2. (CHOOSE o \in Mispredicted : TRUE) \in Nat
    BY <1>2, <1>5
  <2> QED
    BY <2>1, <2>2 DEF Flushes
<1>6. CASE ~trap /\ XretNow(wb) = {} /\ Mispredicted = {}
  <2>1. FlushOf(irq, wb) = NoFlush
    BY <1>6 DEF FlushOf
  <2> QED
    BY <2>1 DEF NoFlush, Flushes
<1> QED
  BY <1>3, <1>4, <1>5, <1>6

\* Dispatch offers at most two instructions, none with a flush or a full ring.
LEMMA OffersAreTyped ==
  ASSUME RetireTypeOK, NEW f, NEW s \in Offers(f)
  PROVE  HandsOver(f, Numbered(s), Len(s))
<1>1. orderId \in 0 .. MaxOrder /\ MaxOrder \in Nat
  BY RetireAssumption DEF RetireTypeOK
<1>2. /\ s \in Seq(Instrs) /\ Len(s) \in 0 .. 2
      /\ orderId + Len(s) <= MaxOrder
      /\ f.valid \/ RobFull => Len(s) = 0
  <2>1. CASE f.valid \/ RobFull \/ XretPending
    <3>1. s = <<>>
      BY <2>1 DEF Offers
    <3> QED
      BY <1>1, <3>1
  <2>2. CASE ~(f.valid \/ RobFull \/ XretPending)
    <3>1. /\ s \in UNION {[1 .. n -> Instrs] : n \in 0 .. 2}
          /\ orderId + Len(s) <= MaxOrder
      BY <2>2 DEF Offers
    <3>2. PICK n \in 0 .. 2 : s \in [1 .. n -> Instrs]
      BY <3>1
    <3>3. s \in Seq(Instrs) /\ Len(s) = n
      BY <3>2, SeqDef
    <3> QED
      BY <2>2, <3>1, <3>2, <3>3
  <2> QED
    BY <2>1, <2>2
<1>3. DOMAIN Numbered(s) = 1 .. Len(s)
  BY <1>2 DEF Numbered
<1>4. \A n \in 1 .. Len(s) : /\ Numbered(s)[n] \in Dispatched
                            /\ Numbered(s)[n].order = orderId + n - 1
  <2> SUFFICES ASSUME NEW n \in 1 .. Len(s)
               PROVE  /\ Numbered(s)[n] \in Dispatched
                      /\ Numbered(s)[n].order = orderId + n - 1
    OBVIOUS
  <2>1. Numbered(s)[n] =
          [order |-> orderId + n - 1, ins |-> s[n], prdNew |-> 0, prdOld |-> 0]
    BY <1>2 DEF Numbered
  <2>2. orderId + n - 1 \in Nat /\ s[n] \in Instrs
    BY <1>1, <1>2
  <2> QED
    BY <2>1, <2>2, RobAssumption DEF Dispatched
<1>5. Len(Numbered(s)) = Len(s)
  <2>1. Numbered(s) = [n \in 1 .. Len(s) |-> Numbered(s)[n]]
    BY <1>2 DEF Numbered
  <2>2. Numbered(s) \in [1 .. Len(s) -> Dispatched]
    BY <1>4, <2>1
  <2>3. Numbered(s) \in Seq(Dispatched)
    BY <1>2, <2>2, SeqDef
  <2> QED
    BY <1>2, <1>3, <2>3
<1> QED
  BY <1>1, <1>2, <1>3, <1>4, <1>5 DEF HandsOver

\* Reset leaves an empty ring in shape.
LEMMA RingInvInit == RetireInit => RingInv
<1> SUFFICES ASSUME RetireInit PROVE RingInv
  OBVIOUS
<1> USE DEF RetireInit, RobInit
<1>1. BlankEntry \in Entries /\ ~BlankEntry.valid
  <2>1. (CHOOSE x \in Instrs : TRUE) \in Instrs
    BY RobAssumption
  <2> QED
    BY <2>1, RobAssumption DEF BlankEntry, Entries
<1>2. \A i \in Indices : ~rob[i].valid
  BY <1>1
<1>3. RobTypeOK
  <2>1. rob \in [Indices -> Entries]
    BY <1>1
  <2>2. 0 \in Indices /\ 0 \in 0 .. Depth
    BY RobAssumption DEF Indices
  <2> QED
    BY <2>1, <2>2 DEF RobTypeOK
<1>4. RetireTypeOK
  BY <1>3, RetireAssumption DEF RetireTypeOK
<1>5. RingIsContiguous
  BY <1>2, RobAssumption DEF RingIsContiguous, Offset, At, Indices
<1> QED
  BY <1>2, <1>4, <1>5
     DEF RingInv, NoMarkLeft, WalkIsAtTheTail, OrdersGrow, MarksAreASuffix

\* Every cycle keeps the shape of the ring, whatever is dispatched, written
\* back or flushed in it.
LEMMA CycleKeepsTheRing ==
  ASSUME RingInv, NEW f \in Flushes, NEW wb, NEW disp, NEW K,
         HandsOver(f, disp, K), RobCycle(f, wb, disp), orderId' = orderId + K
  PROVE  /\ RobTypeOK'
         /\ RingIsContiguous' /\ NoMarkLeft' /\ WalkIsAtTheTail'
         /\ OrdersGrow' /\ MarksAreASuffix'
<1>1. RetireTypeOK
  BY DEF RingInv
<1>2. /\ K \in 0 .. 2 /\ DOMAIN disp = 1 .. K /\ Len(disp) = K
      /\ \A n \in 1 .. K : disp[n] \in Dispatched /\ disp[n].order = orderId + n - 1
      /\ f.valid \/ RobFull => K = 0
  BY DEF HandsOver
<1>3. orderId' \in Int /\ orderId' >= orderId
  BY <1>1, <1>2, RetireAssumption DEF RetireTypeOK
<1>4. CASE WalkUndo(f, wb)
  BY <1>3, <1>4, UndoKeepsTheRing
<1>5. CASE WalkHold(f, wb)
  BY <1>3, <1>5, HoldKeepsTheRing
<1>6. CASE WalkEnd(f, wb)
  BY <1>3, <1>6, EndKeepsTheRing
<1>7. CASE RunCycle(f, wb, disp)
  BY <1>2, <1>7, RunKeepsTheRing
<1> QED
  BY <1>4, <1>5, <1>6, <1>7 DEF RobCycle

\* What the commit port and the recovery port show left the ring in this cycle.
LEMMA PortsShowTheRing ==
  ASSUME RingInv, NEW f, NEW wb, NEW disp, RobCycle(f, wb, disp)
  PROVE  /\ \A e \in commit0' : e.order \in 0 .. orderId - 1
         /\ \A e \in recoverOut' : e.order \in 0 .. orderId - 1
<1>1. /\ robHead \in Indices /\ recoverPtr \in Indices
      /\ \A i \in Indices : /\ rob[i].order \in Nat
                            /\ rob[i].valid => rob[i].order < orderId
  BY DEF RingInv, RetireTypeOK, RobTypeOK, Entries, OrdersGrow
<1>2. orderId \in Nat
  BY RetireAssumption DEF RingInv, RetireTypeOK
<1>3. CASE WalkUndo(f, wb)
  <2>1. commit0' = {} /\ recoverOut' = {rob[recoverPtr]} /\ rob[recoverPtr].valid
    BY <1>3 DEF WalkUndo, WalkUndoes
  <2> QED
    BY <1>1, <1>2, <2>1
<1>4. CASE WalkHold(f, wb) \/ WalkEnd(f, wb)
  BY <1>4 DEF WalkHold, WalkEnd
<1>5. CASE RunCycle(f, wb, disp)
  <2>1. recoverOut' = {}
    BY <1>5 DEF RunCycle
  <2>2. commit0' = {} \/ (commit0' = {rob[robHead]} /\ rob[robHead].valid)
    BY <1>5 DEF RunCycle, HeadCommits
  <2> QED
    BY <1>1, <1>2, <2>1, <2>2
<1> QED
  BY <1>3, <1>4, <1>5 DEF RobCycle

\* The driver's registers and histories hold order ids that were given out.
LEMMA DriverIsTyped ==
  ASSUME RingInv, NEW f \in Flushes, NEW wb, NEW disp, NEW K,
         BufferCycle(f, wb, disp, K), RobTypeOK'
  PROVE  RetireTypeOK'
<1> USE DEF BufferCycle
<1>1. RetireTypeOK /\ orderId \in 0 .. MaxOrder /\ MaxOrder \in Nat
  BY RetireAssumption DEF RingInv, RetireTypeOK
<1>2. orderId' \in 0 .. MaxOrder
  BY <1>1 DEF HandsOver
<1>3. 0 .. orderId - 1 \subseteq Orders
  BY <1>1 DEF Orders
<1>4. br' \in SUBSET [order : Orders, miss : BOOLEAN]
  <2> DEFINE resolved == {e \in Executing :
        /\ e.ins.branch /\ e.order \in wb
        /\ ~(f.valid /\ (~f.ordered \/ e.order > f.order))}
  <2>1. \A e \in resolved : e.order \in Orders
    <3>1. \A e \in Executing : \E i \in Indices : e = rob[i] /\ rob[i].valid
      BY DEF Executing, LiveEntries, Live
    <3>2. \A i \in Indices : rob[i] \in Entries
      BY <1>1 DEF RetireTypeOK, RobTypeOK
    <3>3. \A i \in Indices : rob[i].valid => rob[i].order \in 0 .. orderId - 1
      BY <1>1, <3>2 DEF RingInv, OrdersGrow, Entries
    <3> QED
      BY <1>3, <3>1, <3>3
  <2>2. CASE resolved = {}
    BY <2>2 DEF ResolveBranch
  <2>3. CASE resolved # {}
    <3>1. PICK miss \in BOOLEAN :
            br' = {[order |-> e.order, miss |-> miss] : e \in resolved}
      BY <2>3 DEF ResolveBranch
    <3> HIDE DEF resolved
    <3> QED
      BY <2>1, <3>1
  <2> QED
    BY <2>2, <2>3
<1>5. retired' \subseteq Orders /\ undone' \subseteq Orders
  BY <1>1, <1>3, PortsShowTheRing DEF Record, RetireTypeOK
<1>6. squashed' \subseteq Orders
  <2>1. CancelledBy(f) \subseteq 0 .. orderId - 1
    BY DEF CancelledBy
  <2> QED
    BY <1>1, <1>3, <2>1 DEF Record, RetireTypeOK
<1> QED
  BY <1>2, <1>4, <1>5, <1>6 DEF RetireTypeOK

\* The invariant is inductive, whatever the rename stage adds.
LEMMA RingInvCycle ==
  ASSUME RingInv, NEW f \in Flushes, NEW wb, NEW disp, NEW K,
         BufferCycle(f, wb, disp, K)
  PROVE  RingInv'
<1>1. /\ HandsOver(f, disp, K) /\ RobCycle(f, wb, disp)
      /\ orderId' = orderId + K
  BY DEF BufferCycle
<1>2. /\ RobTypeOK'
      /\ RingIsContiguous' /\ NoMarkLeft' /\ WalkIsAtTheTail'
      /\ OrdersGrow' /\ MarksAreASuffix'
  BY <1>1, CycleKeepsTheRing
<1>3. RetireTypeOK'
  BY <1>2, DriverIsTyped
<1> QED
  BY <1>2, <1>3 DEF RingInv

LEMMA RingInvStutter ==
  ASSUME RingInv, UNCHANGED retireVars
  PROVE  RingInv'
BY DEF retireVars, robVars, RingInv, RetireTypeOK, RobTypeOK, RingIsContiguous,
       NoMarkLeft, WalkIsAtTheTail, OrdersGrow, MarksAreASuffix, Offset, At, Inc

\* A cycle of Retire is one of these.
LEMMA CycleIsBufferCycle ==
  ASSUME RetireTypeOK, NEW wb, Cycle(wb)
  PROVE  \E irq \in BOOLEAN : \E disp, K :
           BufferCycle(FlushOf(irq, wb), wb, disp, K)
<1>1. PICK irq \in BOOLEAN :
        /\ \E s \in Offers(FlushOf(irq, wb)) :
             /\ RobCycle(FlushOf(irq, wb), wb, Numbered(s))
             /\ orderId' = orderId + Len(s)
        /\ ResolveBranch(FlushOf(irq, wb), wb) /\ Record(FlushOf(irq, wb))
  BY DEF Cycle
<1> DEFINE f == FlushOf(irq, wb)
<1>2. PICK s \in Offers(f) : /\ RobCycle(f, wb, Numbered(s))
                             /\ orderId' = orderId + Len(s)
  BY <1>1
<1>3. HandsOver(f, Numbered(s), Len(s))
  BY <1>2, OffersAreTyped
<1>4. BufferCycle(f, wb, Numbered(s), Len(s))
  BY <1>1, <1>2, <1>3 DEF BufferCycle
<1> QED
  BY <1>4

LEMMA RingInvNext == RingInv /\ [RetireNext]_retireVars => RingInv'
<1> SUFFICES ASSUME RingInv, [RetireNext]_retireVars PROVE RingInv'
  OBVIOUS
<1>1. ASSUME NEW wb, Cycle(wb) PROVE RingInv'
  <2>1. RetireTypeOK
    BY DEF RingInv
  <2>2. PICK irq \in BOOLEAN : \E disp, K :
          BufferCycle(FlushOf(irq, wb), wb, disp, K)
    BY <1>1, <2>1, CycleIsBufferCycle
  <2>3. FlushOf(irq, wb) \in Flushes
    BY <2>1, FlushIsTyped
  <2> QED
    BY <2>2, <2>3, RingInvCycle
<1>2. CASE RetireNext
  BY <1>1, <1>2 DEF RetireNext, Idle, Complete
<1> QED
  BY <1>2, RingInvStutter

-----------------------------------------------------------------------------
\* The shape of the ring, with what makes it inductive, holds throughout.
THEOREM RingHolds == RetireSpec => []RingInv
<1> QED
  BY RingInvInit, RingInvNext, PTL DEF RetireSpec

\* For every depth and every number of instructions the registers of the
\* buffer (rob.v:144-219) stay in their ranges: rob_count never exceeds the
\* depth although two instructions enter and one leaves in a cycle.
THEOREM TypeIsInvariant == RetireSpec => []RetireTypeOK
<1>1. RingInv => RetireTypeOK
  BY DEF RingInv
<1> QED
  BY <1>1, RingHolds, PTL

\* The valid entries are always the rob_count places from rob_head on, and
\* outside a walk rob_tail is the first free one: the walk's single correction
\* of the tail (rob.v:435-439) is enough.
THEOREM ShapeIsInvariant == RetireSpec => []RingIsContiguous
<1>1. RingInv => RingIsContiguous
  BY DEF RingInv
<1> QED
  BY <1>1, RingHolds, PTL

\* No flushed entry survives a walk, although the walk stops at the first entry
\* it finds unmarked (rob.v:400-440) and flushes arrive while it runs.
THEOREM NoMarkLeftIsInvariant == RetireSpec => []NoMarkLeft
<1>1. RingInv => NoMarkLeft
  BY DEF RingInv
<1> QED
  BY <1>1, RingHolds, PTL

-----------------------------------------------------------------------------
(* Which instructions retire, are cancelled and are undone.  Each that      *)
(* entered is retired, cancelled, or a live entry of the ring, and never    *)
(* two of these; a cancelled one waits in the ring as a marked entry until  *)
(* the walk hands it over.  What makes this an invariant is that a flush    *)
(* marks exactly the entries it cancels: the extra case of rob.v's marks,   *)
(* the instruction at the boundary itself, never arises, as a branch has    *)
(* completed a cycle before it redirects.                                   *)

Given == 0 .. orderId - 1

\* Each instruction that entered is retired, cancelled or live in the ring.
EveryOneAccounted ==
  \A o \in Given : \/ o \in retired \cup squashed
                   \/ \E i \in Indices : Live(rob[i]) /\ rob[i].order = o

HistoryIsPast == retired \subseteq Given /\ squashed \subseteq Given

\* A live entry is neither retired nor cancelled, a marked one is cancelled.
LiveIsOpen ==
  \A i \in Indices : Live(rob[i]) => rob[i].order \notin retired \cup squashed

MarkedIsSquashed ==
  \A i \in Indices : rob[i].valid /\ rob[i].flushed => rob[i].order \in squashed

\* A cancelled instruction is undone or still a marked entry of the ring.
SquashedIsKept ==
  \A o \in squashed :
    \/ o \in undone
    \/ \E i \in Indices : rob[i].valid /\ rob[i].flushed /\ rob[i].order = o

\* A branch whose resolution is registered has completed.
ResolvedIsComplete ==
  \A b \in br :
    /\ b.order < orderId
    /\ \A i \in Indices : rob[i].valid /\ rob[i].order = b.order => rob[i].complete

History ==
  /\ EveryOneAccounted /\ HistoryIsPast /\ LiveIsOpen
  /\ MarkedIsSquashed /\ SquashedIsKept

HistoryInv ==
  /\ RingInv /\ History /\ ResolvedIsComplete
  /\ CommitsInOrder /\ UndoesYoungestFirst

-----------------------------------------------------------------------------
\* What every cycle does to the entries: those in G leave, the others are
\* marked and completed, and new ones enter unmarked with the next order ids.
Passes(f, wb, G) ==
  /\ \A i \in Indices \ G : rob[i].valid =>
       /\ rob'[i].valid /\ rob'[i].order = rob[i].order
       /\ rob'[i].flushed = (rob[i].flushed \/ MarkedBy(f, rob[i]))
       /\ rob[i].complete \/ rob[i].order \in wb => rob'[i].complete
  /\ \A i \in Indices : rob'[i].valid =>
       \/ rob[i].valid /\ i \notin G
       \/ ~rob'[i].flushed /\ rob'[i].order \in orderId .. orderId' - 1
  /\ \A o \in orderId .. orderId' - 1 :
       \E i \in Indices : rob'[i].valid /\ ~rob'[i].flushed /\ rob'[i].order = o

\* Whether a flush cancels what lies at an order id.
Cancels(f, o) == f.valid /\ (f.ordered => o > f.order)

Oldest(i) == \A j \in Indices : rob[j].valid => rob[i].order <= rob[j].order
Youngest(i) == \A j \in Indices : rob[j].valid => rob[j].order <= rob[i].order

\* The entries in G leave by one of the two ports: the oldest one, live and
\* spared by the flush, or the youngest one, marked.
Leaves(f, G) ==
  /\ \A i \in G :
       /\ Live(rob[i]) => commit0' = {rob[i]} /\ ~Cancels(f, rob[i].order)
       /\ ~Live(rob[i]) => recoverOut' = {rob[i]}
  /\ \A e \in commit0' : \E i \in G : e = rob[i] /\ Live(rob[i]) /\ Oldest(i)
  /\ \A e \in recoverOut' :
       \E i \in G : e = rob[i] /\ rob[i].valid /\ rob[i].flushed /\ Youngest(i)

-----------------------------------------------------------------------------
\* A write-back that names a valid entry leaves it complete.
LEMMA CompletedEntry ==
  ASSUME NEW f, NEW wb, NEW e \in Entries,
         e.valid, e.complete \/ e.order \in wb
  PROVE  Marked(f, wb, e).complete
<1>1. e.complete \/ CompletedBy(wb, e)
  BY DEF CompletedBy
<1> QED
  BY <1>1, MarkedEntry

\* In the walk the entry at the tail leaves.
LEMMA UndoPasses ==
  ASSUME RingInv, NEW f \in Flushes, NEW wb, WalkUndo(f, wb), orderId' = orderId
  PROVE  Passes(f, wb, {recoverPtr}) /\ Leaves(f, {recoverPtr})
<1>1. /\ RobTypeOK /\ recoverPtr \in Indices /\ robHead \in Indices /\ recovering
      /\ orderId \in Nat
  <2>1. recovering
    BY DEF WalkUndo
  <2> QED
    BY <2>1, RetireAssumption DEF RingInv, RetireTypeOK, RobTypeOK
<1>2. \A i \in Indices : rob[i] \in Entries
  BY <1>1 DEF RobTypeOK
<1>3. /\ rob[recoverPtr].valid /\ rob[recoverPtr].flushed
      /\ commit0' = {} /\ recoverOut' = {rob[recoverPtr]}
  BY DEF WalkUndo, WalkUndoes
<1>4. \A i \in Indices \ {recoverPtr} : rob'[i] = Marked(f, wb, rob[i])
  BY DEF WalkUndo
<1>5. ~rob'[recoverPtr].valid
  <2> DEFINE e == Marked(f, wb, rob[recoverPtr])
  <2>1. rob'[recoverPtr] = [e EXCEPT !.valid = FALSE,
                                     !.flushed = MarkedBy(f, rob[recoverPtr])]
    BY <1>1 DEF WalkUndo
  <2>2. e \in Entries
    BY <1>1, <1>2, MarkedEntry
  <2> HIDE DEF e
  <2> QED
    BY <2>1, <2>2 DEF Entries
<1>6. Passes(f, wb, {recoverPtr})
  <2>1. ASSUME NEW i \in Indices \ {recoverPtr}, rob[i].valid
        PROVE  /\ rob'[i].valid /\ rob'[i].order = rob[i].order
               /\ rob'[i].flushed = (rob[i].flushed \/ MarkedBy(f, rob[i]))
               /\ rob[i].complete \/ rob[i].order \in wb => rob'[i].complete
    <3>1. rob'[i] = Marked(f, wb, rob[i]) /\ rob[i] \in Entries
      BY <1>2, <1>4
    <3>2. rob[i].complete \/ rob[i].order \in wb => rob'[i].complete
      BY <2>1, <3>1, CompletedEntry
    <3> QED
      BY <2>1, <3>1, <3>2, MarkedEntry
  <2>2. ASSUME NEW i \in Indices, rob'[i].valid
        PROVE  rob[i].valid /\ i \notin {recoverPtr}
    BY <1>2, <1>4, <1>5, <2>2, MarkedEntry
  <2>3. orderId .. orderId' - 1 = {}
    BY <1>1
  <2> QED
    BY <2>1, <2>2, <2>3 DEF Passes
<1>7. Youngest(recoverPtr)
  <2> SUFFICES ASSUME NEW j \in Indices, rob[j].valid
               PROVE  rob[j].order <= rob[recoverPtr].order
    BY DEF Youngest
  <2>1. Offset(recoverPtr) = robCount - 1
    <3>1. Inc(recoverPtr) = At(robCount)
      BY <1>1 DEF RingInv, WalkIsAtTheTail
    <3>2. Offset(recoverPtr) < robCount /\ robCount \in 0 .. Depth
      BY <1>1, <1>3 DEF RingInv, RingIsContiguous, RobTypeOK
    <3> QED
      BY <1>1, <3>1, <3>2, RobAssumption DEF Indices, Inc, At, Offset
  <2>2. Offset(j) < robCount /\ Offset(j) \in 0 .. Depth - 1 /\ robCount \in 0 .. Depth
    BY <1>1, RingArithmetic DEF RingInv, RingIsContiguous, RobTypeOK
  <2>3. CASE j = recoverPtr
    BY <1>2, <2>3 DEF Entries
  <2>4. CASE j # recoverPtr
    <3>1. Offset(j) < Offset(recoverPtr)
      BY <1>1, <2>1, <2>2, <2>4, RingArithmetic
    <3>2. rob[j].order < rob[recoverPtr].order
      BY <1>1, <1>3, <3>1 DEF RingInv, OrdersGrow
    <3> QED
      BY <1>1, <1>2, <3>2 DEF Entries
  <2> QED
    BY <2>3, <2>4
<1> QED
  BY <1>3, <1>6, <1>7 DEF Leaves, Live

\* A walk that holds or ends only marks.
LEMMA PausePasses ==
  ASSUME RingInv, NEW f \in Flushes, NEW wb,
         WalkHold(f, wb) \/ WalkEnd(f, wb), orderId' = orderId
  PROVE  Passes(f, wb, {}) /\ Leaves(f, {})
<1>1. /\ commit0' = {} /\ recoverOut' = {}
      /\ \A i \in Indices : rob'[i] = Marked(f, wb, rob[i])
  BY DEF WalkHold, WalkEnd
<1>2. orderId \in Nat /\ \A i \in Indices : rob[i] \in Entries
  BY RetireAssumption DEF RingInv, RetireTypeOK, RobTypeOK
<1>3. \A i \in Indices :
        /\ rob'[i].valid = rob[i].valid /\ rob'[i].order = rob[i].order
        /\ rob'[i].flushed = (rob[i].flushed \/ MarkedBy(f, rob[i]))
        /\ rob[i].valid /\ (rob[i].complete \/ rob[i].order \in wb)
             => rob'[i].complete
  BY <1>1, <1>2, MarkedEntry, CompletedEntry
<1>4. orderId .. orderId' - 1 = {}
  BY <1>2
<1>5. Passes(f, wb, {})
  BY <1>3, <1>4 DEF Passes
<1> QED
  BY <1>1, <1>5 DEF Leaves

\* Outside a walk nothing leaves but a head that commits: the ring holds no
\* mark then, so the head is never skipped.
LEMMA RunPasses ==
  ASSUME RingInv, NEW f \in Flushes, NEW wb, NEW disp, NEW K \in 0 .. 2,
         Len(disp) = K, DOMAIN disp = 1 .. K,
         \A n \in 1 .. K : disp[n] \in Dispatched /\ disp[n].order = orderId + n - 1,
         f.valid \/ RobFull => K = 0,
         RunCycle(f, wb, disp), orderId' = orderId + K
  PROVE  \E G \in SUBSET Indices : Passes(f, wb, G) /\ Leaves(f, G)
<1> DEFINE G == IF HeadCommits(f, wb) THEN {robHead} ELSE {}
<1>1. /\ RobTypeOK /\ ~recovering /\ robHead \in Indices
      /\ robCount \in 0 .. Depth /\ orderId \in Nat
  <2>1. ~recovering
    BY DEF RunCycle
  <2> QED
    BY <2>1, RetireAssumption DEF RingInv, RetireTypeOK, RobTypeOK
<1>2. \A i \in Indices : rob[i] \in Entries
  BY <1>1 DEF RobTypeOK
<1>3. commit0' = (IF HeadCommits(f, wb) THEN {rob[robHead]} ELSE {}) /\ recoverOut' = {}
  BY DEF RunCycle
<1>4. \A i \in Indices : Offset(i) \in 0 .. Depth - 1 /\ (i = robHead <=> Offset(i) = 0)
  BY <1>1, RobAssumption DEF Offset, Indices
<1>5. LeavingHead(f, wb) <=> HeadCommits(f, wb)
  <2> SUFFICES ASSUME robCount # 0 PROVE rob[robHead].valid /\ ~rob[robHead].flushed
    BY DEF LeavingHead, HeadSkips
  <2>1. rob[robHead].valid
    BY <1>1, <1>4 DEF RingInv, RingIsContiguous
  <2> QED
    BY <1>1, <2>1 DEF RingInv, NoMarkLeft
<1>6. \A i \in Indices : Fresh(i, K) =>
        /\ rob'[i].valid /\ ~rob'[i].flushed /\ ~rob[i].valid
        /\ rob'[i].order = orderId + Offset(i) - robCount
        /\ rob'[i].order \in orderId .. orderId' - 1
  <2> SUFFICES ASSUME NEW i \in Indices, Fresh(i, K)
               PROVE  /\ rob'[i].valid /\ ~rob'[i].flushed /\ ~rob[i].valid
                      /\ rob'[i].order = orderId + Offset(i) - robCount
                      /\ rob'[i].order \in orderId .. orderId' - 1
    OBVIOUS
  <2>1. /\ rob'[i].valid /\ ~rob'[i].flushed
        /\ rob'[i].order = orderId + Offset(i) - robCount
    BY RunEntries
  <2>2. robCount <= Offset(i) /\ Offset(i) < robCount + K
    BY DEF Fresh
  <2>3. ~rob[i].valid
    BY <1>1, <1>4, <2>2 DEF RingInv, RingIsContiguous
  <2>4. orderId + Offset(i) - robCount \in orderId .. orderId' - 1
    BY <1>1, <1>4, <2>2
  <2> QED
    BY <2>1, <2>3, <2>4
<1>7. \A i \in Indices : ~Fresh(i, K) =>
        /\ rob'[i].valid = (rob[i].valid /\ i \notin G)
        /\ rob'[i].order = rob[i].order
        /\ rob'[i].flushed = (rob[i].flushed \/ MarkedBy(f, rob[i]))
        /\ rob'[i].complete = (rob[i].complete \/ CompletedBy(wb, rob[i]))
  <2> SUFFICES ASSUME NEW i \in Indices, ~Fresh(i, K)
               PROVE  /\ rob'[i].valid = (rob[i].valid /\ i \notin G)
                      /\ rob'[i].order = rob[i].order
                      /\ rob'[i].flushed = (rob[i].flushed \/ MarkedBy(f, rob[i]))
                      /\ rob'[i].complete = (rob[i].complete \/ CompletedBy(wb, rob[i]))
    OBVIOUS
  <2>1. i \notin G <=> ~(LeavingHead(f, wb) /\ i = robHead)
    BY <1>5
  <2> HIDE DEF G
  <2> QED
    BY <2>1, RunEntries
<1>8. \A o \in orderId .. orderId' - 1 :
        \E i \in Indices : rob'[i].valid /\ ~rob'[i].flushed /\ rob'[i].order = o
  <2> SUFFICES ASSUME NEW o \in orderId .. orderId' - 1
               PROVE  \E i \in Indices :
                        rob'[i].valid /\ ~rob'[i].flushed /\ rob'[i].order = o
    OBVIOUS
  <2> DEFINE n == robCount + (o - orderId)
  <2>1. n \in Int /\ robCount <= n /\ n < robCount + K /\ o = orderId + n - robCount
    BY <1>1
  <2>2. n \in 0 .. Depth - 1
    <3>1. robCount < Depth - 2
      BY <1>1, <2>1, RobAssumption DEF RobFull
    <3> QED
      BY <1>1, <2>1, <3>1, RobAssumption
  <2>3. At(n) \in Indices /\ Offset(At(n)) = n
    BY <1>1, <2>2, RingArithmetic
  <2> HIDE DEF n
  <2>4. Fresh(At(n), K)
    BY <2>1, <2>3 DEF Fresh
  <2> QED
    BY <1>6, <2>1, <2>3, <2>4
<1>9. Passes(f, wb, G)
  <2>1. ASSUME NEW i \in Indices \ G, rob[i].valid
        PROVE  /\ rob'[i].valid /\ rob'[i].order = rob[i].order
               /\ rob'[i].flushed = (rob[i].flushed \/ MarkedBy(f, rob[i]))
               /\ rob[i].complete \/ rob[i].order \in wb => rob'[i].complete
    <3>1. ~Fresh(i, K)
      BY <1>6, <2>1
    <3>2. /\ rob'[i].valid = (rob[i].valid /\ i \notin G)
          /\ rob'[i].order = rob[i].order
          /\ rob'[i].flushed = (rob[i].flushed \/ MarkedBy(f, rob[i]))
          /\ rob'[i].complete = (rob[i].complete \/ CompletedBy(wb, rob[i]))
      BY <1>7, <3>1
    <3> HIDE DEF G
    <3>3. rob[i].complete \/ rob[i].order \in wb => rob[i].complete \/ CompletedBy(wb, rob[i])
      BY <2>1 DEF CompletedBy
    <3> QED
      BY <2>1, <3>2, <3>3
  <2>2. ASSUME NEW i \in Indices, rob'[i].valid
        PROVE  \/ rob[i].valid /\ i \notin G
               \/ ~rob'[i].flushed /\ rob'[i].order \in orderId .. orderId' - 1
    <3> HIDE DEF G
    <3>1. CASE Fresh(i, K)
      BY <1>6, <3>1
    <3>2. CASE ~Fresh(i, K)
      BY <1>7, <2>2, <3>2
    <3> QED
      BY <3>1, <3>2
  <2> HIDE DEF G
  <2> QED
    BY <1>8, <2>1, <2>2 DEF Passes
<1>10. CASE HeadCommits(f, wb)
  <2>1. G = {robHead} /\ commit0' = {rob[robHead]}
    BY <1>3, <1>10
  <2>2. Live(rob[robHead])
    BY <1>10 DEF HeadCommits, Live
  <2>3. ~Cancels(f, rob[robHead].order)
    BY <1>10 DEF HeadCommits, CommitBlocked, Cancels
  <2>4. Oldest(robHead)
    <3> SUFFICES ASSUME NEW j \in Indices, rob[j].valid
                 PROVE  rob[robHead].order <= rob[j].order
      BY DEF Oldest
    <3>1. CASE j = robHead
      BY <1>2, <3>1 DEF Entries
    <3>2. CASE j # robHead
      <4>1. Offset(robHead) < Offset(j)
        BY <1>1, <1>4, <3>2
      <4>2. rob[robHead].order < rob[j].order
        BY <1>1, <2>2, <4>1 DEF RingInv, OrdersGrow, Live
      <4> QED
        BY <1>1, <1>2, <4>2 DEF Entries
    <3> QED
      BY <3>1, <3>2
  <2>5. Leaves(f, {robHead})
    BY <1>3, <2>1, <2>2, <2>3, <2>4 DEF Leaves
  <2> QED
    BY <1>1, <1>9, <2>1, <2>5
<1>11. CASE ~HeadCommits(f, wb)
  <2>1. G = {} /\ commit0' = {}
    BY <1>3, <1>11
  <2>2. Leaves(f, {})
    BY <1>3, <2>1 DEF Leaves
  <2> QED
    BY <1>9, <2>1, <2>2
<1> QED
  BY <1>10, <1>11

\* Every cycle is of one of these kinds.
LEMMA CyclePasses ==
  ASSUME RingInv, NEW f \in Flushes, NEW wb, NEW disp, NEW K,
         HandsOver(f, disp, K), RobCycle(f, wb, disp), orderId' = orderId + K
  PROVE  \E G \in SUBSET Indices : Passes(f, wb, G) /\ Leaves(f, G)
<1>1. RetireTypeOK /\ orderId \in Nat
  BY RetireAssumption DEF RingInv, RetireTypeOK
<1>2. /\ K \in 0 .. 2 /\ DOMAIN disp = 1 .. K /\ Len(disp) = K
      /\ \A n \in 1 .. K : disp[n] \in Dispatched /\ disp[n].order = orderId + n - 1
      /\ f.valid \/ RobFull => K = 0
  BY DEF HandsOver
<1>3. orderId' = orderId + K
  OBVIOUS
<1>4. recovering => orderId' = orderId
  BY <1>1, <1>2, <1>3 DEF RobFull
<1>5. CASE WalkUndo(f, wb)
  <2>1. recovering
    BY <1>5 DEF WalkUndo
  <2>2. recoverPtr \in Indices
    BY <1>1 DEF RetireTypeOK, RobTypeOK
  <2> QED
    BY <1>4, <1>5, <2>1, <2>2, UndoPasses
<1>6. CASE WalkHold(f, wb) \/ WalkEnd(f, wb)
  <2>1. recovering
    BY <1>6 DEF WalkHold, WalkEnd
  <2> QED
    BY <1>4, <1>6, <2>1, PausePasses
<1>7. CASE RunCycle(f, wb, disp)
  BY <1>2, <1>3, <1>7, RunPasses
<1> QED
  BY <1>5, <1>6, <1>7 DEF RobCycle

-----------------------------------------------------------------------------
\* Two valid entries never share an order id.
LEMMA OrdersDiffer ==
  ASSUME RingInv, NEW i \in Indices, NEW j \in Indices,
         rob[i].valid, rob[j].valid, rob[i].order = rob[j].order
  PROVE  i = j
<1>1. robHead \in Indices /\ rob[i] \in Entries /\ rob[j] \in Entries
  BY DEF RingInv, RetireTypeOK, RobTypeOK
<1>2. /\ Offset(i) \in Int /\ Offset(j) \in Int
      /\ Offset(i) = Offset(j) => i = j
  BY <1>1, RingArithmetic
<1>3. ~(Offset(i) < Offset(j)) /\ ~(Offset(j) < Offset(i))
  <2>1. ~(rob[i].order < rob[j].order) /\ ~(rob[j].order < rob[i].order)
    BY <1>1 DEF Entries
  <2> QED
    BY <2>1 DEF RingInv, OrdersGrow
<1> QED
  BY <1>2, <1>3

\* A flush marks what it cancels and nothing more: the instruction it comes
\* from is an xret, or a branch that has completed.
LEMMA FlushMarksTheCancelled ==
  ASSUME RingInv, ResolvedIsComplete, NEW irq \in BOOLEAN, NEW wb,
         NEW i \in Indices, rob[i].valid
  PROVE  MarkedBy(FlushOf(irq, wb), rob[i]) <=> Cancels(FlushOf(irq, wb), rob[i].order)
<1> DEFINE f == FlushOf(irq, wb)
           trap == ExceptionNow \/ irq
<1>1. ASSUME ~(f.ordered /\ rob[i].order = f.order /\ ~rob[i].ins.xret /\ ~rob[i].complete)
      PROVE  MarkedBy(f, rob[i]) <=> Cancels(f, rob[i].order)
  <2> HIDE DEF f
  <2> QED
    BY <1>1 DEF MarkedBy, Cancels
<1>2. CASE trap
  <2>1. ~f.ordered
    BY <1>2 DEF FlushOf
  <2> QED
    BY <1>1, <2>1
<1>3. CASE ~trap /\ XretNow(wb) # {}
  <2>1. f.order \in XretNow(wb)
    BY <1>3 DEF FlushOf
  <2>2. PICK k \in Indices :
          rob[k].valid /\ rob[k].ins.xret /\ rob[k].order = f.order
    BY <2>1 DEF XretNow, Executing, LiveEntries, Live
  <2>3. rob[i].order = f.order => rob[i].ins.xret
    BY <2>2, OrdersDiffer
  <2> QED
    BY <1>1, <2>3
<1>4. CASE ~trap /\ XretNow(wb) = {} /\ Mispredicted # {}
  <2>1. f.order \in Mispredicted
    BY <1>4 DEF FlushOf
  <2>2. rob[i].order = f.order => rob[i].complete
    BY <2>1 DEF Mispredicted, ResolvedIsComplete
  <2> QED
    BY <1>1, <2>2
<1>5. CASE ~trap /\ XretNow(wb) = {} /\ Mispredicted = {}
  <2>1. ~f.valid
    BY <1>5 DEF FlushOf, NoFlush
  <2> QED
    BY <2>1 DEF MarkedBy, Cancels
<1> QED
  BY <1>2, <1>3, <1>4, <1>5

\* A cycle keeps the accounts: who leaves by the commit port becomes retired,
\* whom the flush cancels becomes squashed and stays marked in the ring until
\* it leaves by the recovery port.
LEMMA HistoryIsKept ==
  ASSUME RingInv, History, NEW f \in Flushes, NEW wb, NEW G \in SUBSET Indices,
         Passes(f, wb, G), Leaves(f, G), Record(f),
         orderId' \in Nat, orderId' >= orderId,
         \A i \in Indices : rob[i].valid =>
           (MarkedBy(f, rob[i]) <=> Cancels(f, rob[i].order))
  PROVE  History' /\ CommitsInOrder' /\ UndoesYoungestFirst'
<1> USE DEF History
<1>1. /\ orderId \in Nat
      /\ \A i \in Indices : rob[i] \in Entries /\ rob[i].order \in Nat
      /\ \A i \in Indices : rob[i].valid => rob[i].order \in Given
  BY RetireAssumption
     DEF RingInv, RetireTypeOK, RobTypeOK, OrdersGrow, Entries, Given
<1>2. /\ Given' = Given \cup orderId .. orderId' - 1
      /\ \A o \in orderId .. orderId' - 1 : o \notin Given
  <2>1. 0 .. orderId' - 1 = (0 .. orderId - 1) \cup (orderId .. orderId' - 1)
    BY <1>1
  <2>2. Given' = 0 .. orderId' - 1
    BY DEF Given
  <2>3. \A o \in orderId .. orderId' - 1 : o \notin 0 .. orderId - 1
    BY <1>1
  <2> QED
    BY <2>1, <2>2, <2>3 DEF Given
<1>3. CancelledBy(f) = {o \in Given : o \notin retired /\ Cancels(f, o)}
  BY DEF CancelledBy, Cancels, Given
<1>4. /\ retired' = retired \cup {e.order : e \in commit0'}
      /\ squashed' = squashed \cup CancelledBy(f)
      /\ undone' = undone \cup {e.order : e \in recoverOut'}
  BY DEF Record
\* The new retired and the new undone instructions, as entries.
<1>5. \A o \in retired' \ retired :
        \E i \in G : Live(rob[i]) /\ rob[i].order = o /\ Oldest(i)
  BY <1>4 DEF Leaves
<1>6. \A i \in G : Live(rob[i]) => rob[i].order \in retired' /\ ~Cancels(f, rob[i].order)
  BY <1>4 DEF Leaves
<1>7. \A i \in G : ~Live(rob[i]) => rob[i].order \in undone'
  BY <1>4 DEF Leaves
\* What becomes of a live entry.
<1>8. ASSUME NEW i \in Indices, Live(rob[i]), rob[i].order \notin retired'
      PROVE  /\ rob'[i].valid /\ rob'[i].order = rob[i].order
             /\ rob'[i].flushed <=> Cancels(f, rob[i].order)
             /\ rob'[i].flushed <=> rob[i].order \in squashed'
  <2>1. i \notin G /\ rob[i].valid /\ ~rob[i].flushed
    BY <1>6, <1>8 DEF Live
  <2>2. /\ rob'[i].valid /\ rob'[i].order = rob[i].order
        /\ rob'[i].flushed = (rob[i].flushed \/ MarkedBy(f, rob[i]))
    BY <2>1 DEF Passes
  <2>3. rob'[i].flushed <=> Cancels(f, rob[i].order)
    BY <2>1, <2>2
  <2>4. rob[i].order \in Given /\ rob[i].order \notin retired \cup squashed
    BY <1>1, <1>8, <2>1 DEF LiveIsOpen
  <2> QED
    BY <1>3, <1>4, <2>2, <2>3, <2>4
<1>9. EveryOneAccounted'
  <2> SUFFICES ASSUME NEW o \in Given', o \notin retired' \cup squashed'
               PROVE  \E i \in Indices :
                        rob'[i].valid /\ ~rob'[i].flushed /\ rob'[i].order = o
    BY DEF EveryOneAccounted, Live
  <2>1. CASE o \in Given
    <3>1. PICK i \in Indices : Live(rob[i]) /\ rob[i].order = o
      BY <1>4, <2>1 DEF EveryOneAccounted
    <3> QED
      BY <1>8, <3>1
  <2>2. CASE o \notin Given
    <3>1. o \in orderId .. orderId' - 1
      BY <1>2, <2>2
    <3> QED
      BY <3>1 DEF Passes
  <2> QED
    BY <2>1, <2>2
<1>10. HistoryIsPast'
  <2>1. retired' \subseteq Given
    BY <1>1, <1>5 DEF HistoryIsPast, Live, Leaves
  <2>2. squashed' \subseteq Given
    BY <1>3, <1>4 DEF HistoryIsPast
  <2> QED
    BY <1>2, <2>1, <2>2 DEF HistoryIsPast
<1>11. LiveIsOpen'
  <2> SUFFICES ASSUME NEW i \in Indices, rob'[i].valid, ~rob'[i].flushed
               PROVE  rob'[i].order \notin retired' \cup squashed'
    BY DEF LiveIsOpen, Live
  <2>1. CASE rob[i].valid /\ i \notin G
    <3>1. /\ rob'[i].order = rob[i].order
          /\ rob'[i].flushed = (rob[i].flushed \/ MarkedBy(f, rob[i]))
      BY <2>1 DEF Passes
    <3>2. Live(rob[i])
      BY <2>1, <3>1 DEF Live
    <3>3. rob[i].order \notin retired'
      <4> SUFFICES ASSUME rob[i].order \in retired' PROVE FALSE
        OBVIOUS
      <4>1. rob[i].order \notin retired
        BY <3>2 DEF LiveIsOpen
      <4>2. PICK k \in G : Live(rob[k]) /\ rob[k].order = rob[i].order
        BY <1>5, <4>1
      <4>3. k = i
        BY <2>1, <4>2, OrdersDiffer DEF Live
      <4> QED
        BY <2>1, <4>2, <4>3
    <3> QED
      BY <1>8, <3>1, <3>2, <3>3
  <2>2. CASE rob'[i].order \in orderId .. orderId' - 1
    <3>1. rob'[i].order \notin Given
      BY <1>2, <2>2
    <3>2. rob'[i].order \notin squashed'
      BY <1>3, <1>4, <3>1 DEF HistoryIsPast
    <3>3. rob'[i].order \notin retired'
      BY <1>1, <1>5, <3>1 DEF HistoryIsPast, Live
    <3> QED
      BY <3>2, <3>3
  <2> QED
    BY <2>1, <2>2 DEF Passes
<1>12. MarkedIsSquashed'
  <2> SUFFICES ASSUME NEW i \in Indices, rob'[i].valid, rob'[i].flushed
               PROVE  rob'[i].order \in squashed'
    BY DEF MarkedIsSquashed
  <2>1. rob[i].valid /\ i \notin G
    BY DEF Passes
  <2>2. /\ rob'[i].order = rob[i].order
        /\ rob'[i].flushed = (rob[i].flushed \/ MarkedBy(f, rob[i]))
    BY <2>1 DEF Passes
  <2>3. CASE rob[i].flushed
    BY <1>4, <2>1, <2>2, <2>3 DEF MarkedIsSquashed
  <2>4. CASE ~rob[i].flushed
    <3>1. Cancels(f, rob[i].order)
      BY <2>1, <2>2, <2>4
    <3>2. rob[i].order \in Given /\ rob[i].order \notin retired
      BY <1>1, <2>1, <2>4 DEF LiveIsOpen, Live
    <3> QED
      BY <1>3, <1>4, <2>2, <3>1, <3>2
  <2> QED
    BY <2>3, <2>4
\* An instruction squashed now or before is in the ring, or undone.
<1>13. \A o \in squashed' : o \in undone \/
         \E i \in Indices : rob[i].valid /\ rob[i].order = o /\
                            (rob[i].flushed \/ (Live(rob[i]) /\ Cancels(f, o)))
  <2> SUFFICES ASSUME NEW o \in squashed', o \notin undone
               PROVE  \E i \in Indices : rob[i].valid /\ rob[i].order = o /\
                        (rob[i].flushed \/ (Live(rob[i]) /\ Cancels(f, o)))
    OBVIOUS
  <2>1. CASE o \in squashed
    BY <2>1 DEF SquashedIsKept
  <2>2. CASE o \notin squashed
    <3>1. o \in Given /\ o \notin retired /\ Cancels(f, o)
      BY <1>3, <1>4, <2>2
    <3>2. PICK i \in Indices : Live(rob[i]) /\ rob[i].order = o
      BY <2>2, <3>1 DEF EveryOneAccounted
    <3> QED
      BY <3>1, <3>2 DEF Live
  <2> QED
    BY <2>1, <2>2
<1>14. SquashedIsKept'
  <2> SUFFICES ASSUME NEW o \in squashed', o \notin undone'
               PROVE  \E i \in Indices :
                        rob'[i].valid /\ rob'[i].flushed /\ rob'[i].order = o
    BY DEF SquashedIsKept
  <2>1. PICK i \in Indices : rob[i].valid /\ rob[i].order = o /\
               (rob[i].flushed \/ (Live(rob[i]) /\ Cancels(f, o)))
    BY <1>4, <1>13
  <2>2. i \notin G
    BY <1>6, <1>7, <2>1 DEF Live
  <2>3. /\ rob'[i].valid /\ rob'[i].order = rob[i].order
        /\ rob'[i].flushed = (rob[i].flushed \/ MarkedBy(f, rob[i]))
    BY <2>1, <2>2 DEF Passes
  <2>4. rob[i].flushed \/ MarkedBy(f, rob[i])
    BY <2>1
  <2> QED
    BY <2>1, <2>3, <2>4
<1>15. CommitsInOrder'
  <2> SUFFICES ASSUME NEW e \in commit0'
               PROVE  /\ e.order \notin squashed'
                      /\ \A o \in 0 .. e.order - 1 : o \in retired' \cup squashed'
    BY DEF CommitsInOrder
  <2>1. PICK i \in G : e = rob[i] /\ Live(rob[i]) /\ Oldest(i)
    BY DEF Leaves
  <2>2. /\ e.order \in Given /\ rob[i].valid /\ e.order \notin squashed
        /\ ~Cancels(f, e.order)
    BY <1>1, <1>6, <2>1 DEF LiveIsOpen, Live
  <2>3. e.order \notin squashed'
    BY <1>3, <1>4, <2>2
  <2>4. ASSUME NEW o \in 0 .. e.order - 1 PROVE o \in retired' \cup squashed'
    <3>1. o \in Given /\ o < e.order /\ o \in Nat /\ e.order \in Nat
      BY <1>1, <2>2 DEF Given
    <3>2. ~\E k \in Indices : Live(rob[k]) /\ rob[k].order = o
      <4> SUFFICES ASSUME NEW k \in Indices, rob[k].valid, rob[k].order = o
                   PROVE  FALSE
        BY DEF Live
      <4>1. e.order <= o
        BY <2>1 DEF Oldest
      <4> QED
        BY <3>1, <4>1
    <3> QED
      BY <1>4, <3>1, <3>2 DEF EveryOneAccounted
  <2> QED
    BY <2>3, <2>4
<1>16. UndoesYoungestFirst'
  <2> SUFFICES ASSUME NEW e \in recoverOut'
               PROVE  /\ e.order \in squashed'
                      /\ \A o \in squashed' : o > e.order => o \in undone'
    BY DEF UndoesYoungestFirst
  <2>1. PICK i \in G : e = rob[i] /\ rob[i].valid /\ rob[i].flushed /\ Youngest(i)
    BY DEF Leaves
  <2>2. e.order \in squashed'
    BY <1>4, <2>1 DEF MarkedIsSquashed
  <2>3. ASSUME NEW o \in squashed', o > e.order, o \notin undone' PROVE FALSE
    <3>1. PICK k \in Indices : rob[k].valid /\ rob[k].order = o
      BY <1>4, <1>13, <2>3
    <3>2. o <= e.order /\ o \in Nat /\ e.order \in Nat
      BY <1>1, <2>1, <3>1 DEF Youngest
    <3> QED
      BY <2>3, <3>2
  <2> QED
    BY <2>2, <2>3
<1> QED
  BY <1>9, <1>10, <1>11, <1>12, <1>14, <1>15, <1>16

\* The write-back that resolves a branch completes it in the same cycle.
LEMMA ResolutionIsKept ==
  ASSUME RingInv, NEW f, NEW wb, NEW G \in SUBSET Indices, Passes(f, wb, G),
         ResolveBranch(f, wb), orderId' \in Nat, orderId' >= orderId
  PROVE  ResolvedIsComplete'
<1> SUFFICES ASSUME NEW b \in br'
             PROVE  /\ b.order < orderId'
                    /\ \A i \in Indices :
                         rob'[i].valid /\ rob'[i].order = b.order => rob'[i].complete
  BY DEF ResolvedIsComplete
<1>1. /\ orderId \in Nat
      /\ \A i \in Indices : rob[i].order \in Nat
      /\ \A i \in Indices : rob[i].valid => rob[i].order < orderId
  BY RetireAssumption DEF RingInv, RetireTypeOK, RobTypeOK, OrdersGrow, Entries
<1>2. PICK e \in Executing : e.order \in wb /\ b.order = e.order
  <2> DEFINE resolved == {e \in Executing :
        /\ e.ins.branch /\ e.order \in wb
        /\ ~(f.valid /\ (~f.ordered \/ e.order > f.order))}
  <2>1. PICK miss \in BOOLEAN :
          br' = {[order |-> e.order, miss |-> miss] : e \in resolved}
    <3>1. resolved # {}
      BY DEF ResolveBranch
    <3> QED
      BY <3>1 DEF ResolveBranch
  <2>2. PICK e \in resolved : b = [order |-> e.order, miss |-> miss]
    BY <2>1
  <2> QED
    BY <2>2
<1>3. PICK k \in Indices : e = rob[k] /\ rob[k].valid
  BY DEF Executing, LiveEntries, Live
<1>4. b.order < orderId'
  BY <1>1, <1>2, <1>3
<1>5. ASSUME NEW i \in Indices, rob'[i].valid, rob'[i].order = b.order
      PROVE  rob'[i].complete
  <2>1. CASE rob[i].valid /\ i \notin G
    <3>1. rob'[i].order = rob[i].order
      BY <2>1 DEF Passes
    <3>2. i = k
      BY <1>2, <1>3, <1>5, <2>1, <3>1, OrdersDiffer
    <3> QED
      BY <1>2, <1>3, <2>1, <3>2 DEF Passes
  <2>2. CASE rob'[i].order \in orderId .. orderId' - 1
    BY <1>1, <1>2, <1>3, <1>5, <2>2
  <2> QED
    BY <1>5, <2>1, <2>2 DEF Passes
<1> QED
  BY <1>4, <1>5

\* At reset nothing has entered.
LEMMA HistoryInvInit == RetireInit => HistoryInv
<1> SUFFICES ASSUME RetireInit PROVE HistoryInv
  OBVIOUS
<1>1. RingInv
  BY RingInvInit
<1>2. \A i \in Indices : ~rob[i].valid
  BY RobAssumption DEF RetireInit, RobInit, BlankEntry
<1>3. Given = {}
  BY DEF RetireInit, Given
<1>4. History
  BY <1>2, <1>3
     DEF RetireInit, History, EveryOneAccounted, HistoryIsPast, LiveIsOpen,
         MarkedIsSquashed, SquashedIsKept, Live
<1> QED
  BY <1>1, <1>4
     DEF RetireInit, RobInit, HistoryInv, ResolvedIsComplete, CommitsInOrder,
         UndoesYoungestFirst

\* The invariant is inductive, whatever the rename stage adds.
LEMMA HistoryInvCycle ==
  ASSUME HistoryInv, NEW irq \in BOOLEAN, NEW wb, NEW disp, NEW K,
         BufferCycle(FlushOf(irq, wb), wb, disp, K)
  PROVE  HistoryInv'
<1> DEFINE f == FlushOf(irq, wb)
<1>1. RingInv /\ History /\ ResolvedIsComplete /\ RetireTypeOK
  BY DEF HistoryInv, RingInv
<1>2. f \in Flushes
  BY <1>1, FlushIsTyped
<1>3. \A i \in Indices : rob[i].valid =>
        (MarkedBy(f, rob[i]) <=> Cancels(f, rob[i].order))
  BY <1>1, FlushMarksTheCancelled
<1>4. BufferCycle(f, wb, disp, K)
  OBVIOUS
<1> HIDE DEF f
<1>5. /\ HandsOver(f, disp, K) /\ RobCycle(f, wb, disp)
      /\ orderId' = orderId + K
      /\ ResolveBranch(f, wb) /\ Record(f)
  BY <1>4 DEF BufferCycle
<1>6. RingInv'
  BY <1>1, <1>2, <1>4, RingInvCycle
<1>7. PICK G \in SUBSET Indices : Passes(f, wb, G) /\ Leaves(f, G)
  BY <1>1, <1>2, <1>5, CyclePasses
<1>8. orderId' \in Nat /\ orderId' >= orderId
  BY <1>1, <1>5, RetireAssumption DEF HandsOver, RetireTypeOK
<1>9. History' /\ CommitsInOrder' /\ UndoesYoungestFirst'
  BY <1>1, <1>2, <1>3, <1>5, <1>7, <1>8, HistoryIsKept
<1>10. ResolvedIsComplete'
  BY <1>1, <1>5, <1>7, <1>8, ResolutionIsKept
<1> QED
  BY <1>6, <1>9, <1>10 DEF HistoryInv

LEMMA HistoryInvStutter ==
  ASSUME HistoryInv, UNCHANGED retireVars
  PROVE  HistoryInv'
<1>1. RingInv'
  BY RingInvStutter DEF HistoryInv
<1>2. History'
  BY DEF retireVars, robVars, HistoryInv, History, EveryOneAccounted,
         HistoryIsPast, LiveIsOpen, MarkedIsSquashed, SquashedIsKept, Live, Given
<1>3. ResolvedIsComplete' /\ CommitsInOrder' /\ UndoesYoungestFirst'
  BY DEF retireVars, robVars, HistoryInv, ResolvedIsComplete, CommitsInOrder,
         UndoesYoungestFirst
<1> QED
  BY <1>1, <1>2, <1>3 DEF HistoryInv

LEMMA HistoryInvNext == HistoryInv /\ [RetireNext]_retireVars => HistoryInv'
<1> SUFFICES ASSUME HistoryInv, [RetireNext]_retireVars PROVE HistoryInv'
  OBVIOUS
<1>1. RingInv /\ RingInv' /\ RetireTypeOK
  BY RingInvNext DEF HistoryInv, RingInv
<1>2. ASSUME NEW wb, Cycle(wb) PROVE HistoryInv'
  BY <1>1, <1>2, CycleIsBufferCycle, HistoryInvCycle
<1>3. CASE RetireNext
  BY <1>2, <1>3 DEF RetireNext, Idle, Complete
<1> QED
  BY <1>3, HistoryInvStutter

-----------------------------------------------------------------------------
\* An ordered flush names an instruction that has entered.
LEMMA FlushIsPast ==
  ASSUME RingInv, ResolvedIsComplete, NEW irq \in BOOLEAN, NEW wb,
         FlushOf(irq, wb).valid, FlushOf(irq, wb).ordered
  PROVE  FlushOf(irq, wb).order \in Given
<1> DEFINE f == FlushOf(irq, wb)
           trap == ExceptionNow \/ irq
<1>1. /\ orderId \in Nat /\ f \in Flushes
      /\ \A i \in Indices : rob[i].valid => rob[i].order < orderId
  BY FlushIsTyped, RetireAssumption DEF RingInv, RetireTypeOK, OrdersGrow
<1>2. f.order < orderId
  <2>1. CASE trap
    BY <2>1 DEF FlushOf
  <2>2. CASE ~trap /\ XretNow(wb) # {}
    <3>1. f.order \in XretNow(wb)
      BY <2>2 DEF FlushOf
    <3>2. PICK k \in Indices : rob[k].valid /\ rob[k].order = f.order
      BY <3>1 DEF XretNow, Executing, LiveEntries, Live
    <3> QED
      BY <1>1, <3>2
  <2>3. CASE ~trap /\ XretNow(wb) = {} /\ Mispredicted # {}
    <3>1. f.order \in Mispredicted
      BY <2>3 DEF FlushOf
    <3> QED
      BY <3>1 DEF Mispredicted, ResolvedIsComplete
  <2>4. CASE ~trap /\ XretNow(wb) = {} /\ Mispredicted = {}
    BY <2>4 DEF FlushOf, NoFlush
  <2> QED
    BY <2>1, <2>2, <2>3, <2>4
<1> QED
  BY <1>1, <1>2 DEF Flushes, Given

\* The window after a cycle: who leaves is the oldest, whom the flush cancels
\* is gone, and the new ones are in.
LEMMA WindowAfter ==
  ASSUME RingInv, NEW f \in Flushes, NEW wb, NEW G \in SUBSET Indices,
         Passes(f, wb, G), Leaves(f, G),
         \A i \in Indices : rob[i].valid =>
           (MarkedBy(f, rob[i]) <=> Cancels(f, rob[i].order))
  PROVE  /\ Retiring' \in {{}, Promise!Oldest}
         /\ Window' = {o \in Window \ Retiring' : ~Cancels(f, o)}
                        \cup orderId .. orderId' - 1
<1>1. /\ \A o : o \in Window <=> \E i \in Indices : Live(rob[i]) /\ rob[i].order = o
      /\ \A o : o \in Window' <=>
           \E i \in Indices : rob'[i].valid /\ ~rob'[i].flushed /\ rob'[i].order = o
  BY DEF Window, LiveEntries, Live
<1>2. \A i \in Indices : rob[i] \in Entries /\ rob[i].order \in Nat
  BY DEF RingInv, RetireTypeOK, RobTypeOK, Entries
<1>3. \A i \in Indices : Live(rob[i]) => (i \in G <=> rob[i].order \in Retiring')
  <2> SUFFICES ASSUME NEW i \in Indices, Live(rob[i])
               PROVE  i \in G <=> rob[i].order \in Retiring'
    OBVIOUS
  <2>1. ASSUME i \in G PROVE rob[i].order \in Retiring'
    BY <2>1 DEF Leaves, Retiring
  <2>2. ASSUME rob[i].order \in Retiring' PROVE i \in G
    <3>1. PICK k \in G : Live(rob[k]) /\ rob[k].order = rob[i].order
      BY <2>2 DEF Leaves, Retiring
    <3>2. k = i
      BY <3>1, OrdersDiffer DEF Live
    <3> QED
      BY <3>1, <3>2
  <2> QED
    BY <2>1, <2>2
<1>4. Retiring' \in {{}, Promise!Oldest}
  <2>1. CASE commit0' = {}
    BY <2>1 DEF Retiring
  <2>2. CASE commit0' # {}
    <3>1. PICK i \in G : Live(rob[i]) /\ Oldest(i) /\ commit0' = {rob[i]}
      BY <2>2 DEF Leaves
    <3>2. Retiring' = {rob[i].order}
      BY <3>1 DEF Retiring
    <3>3. rob[i].order \in Window /\ \A p \in Window : rob[i].order <= p /\ p \in Nat
      BY <1>1, <1>2, <3>1 DEF Oldest, Live
    <3>4. {o \in Window : \A p \in Window : o <= p} = {rob[i].order}
      BY <1>2, <3>3
    <3> QED
      BY <3>2, <3>4 DEF Promise!Oldest
  <2> QED
    BY <2>1, <2>2
<1>5. ASSUME NEW o \in Window'
      PROVE  o \in {p \in Window \ Retiring' : ~Cancels(f, p)} \cup orderId .. orderId' - 1
  <2>1. PICK i \in Indices : rob'[i].valid /\ ~rob'[i].flushed /\ rob'[i].order = o
    BY <1>1, <1>5
  <2>2. CASE rob[i].valid /\ i \notin G
    <3>1. /\ rob[i].order = o
          /\ rob'[i].flushed = (rob[i].flushed \/ MarkedBy(f, rob[i]))
      BY <2>1, <2>2 DEF Passes
    <3>2. Live(rob[i]) /\ ~Cancels(f, o)
      BY <2>1, <2>2, <3>1 DEF Live
    <3> QED
      BY <1>1, <1>3, <2>2, <3>1, <3>2
  <2>3. CASE o \in orderId .. orderId' - 1
    BY <2>3
  <2> QED
    BY <2>1, <2>2, <2>3 DEF Passes
<1>6. ASSUME NEW o \in Window, o \notin Retiring', ~Cancels(f, o)
      PROVE  o \in Window'
  <2>1. PICK i \in Indices : Live(rob[i]) /\ rob[i].order = o
    BY <1>1, <1>6
  <2>2. i \notin G /\ rob[i].valid /\ ~rob[i].flushed
    BY <1>3, <1>6, <2>1 DEF Live
  <2>3. /\ rob'[i].valid /\ rob'[i].order = o
        /\ rob'[i].flushed = (rob[i].flushed \/ MarkedBy(f, rob[i]))
    BY <2>1, <2>2 DEF Passes
  <2> QED
    BY <1>1, <1>6, <2>1, <2>2, <2>3
<1>7. orderId .. orderId' - 1 \subseteq Window'
  BY <1>1 DEF Passes
<1> QED
  BY <1>4, <1>5, <1>6, <1>7

\* One step of the pipeline is one step of the promise.
LEMMA StepIsPromised ==
  ASSUME RingInv, NEW f \in Flushes, NEW wb, NEW G \in SUBSET Indices,
         Passes(f, wb, G), Leaves(f, G),
         \A i \in Indices : rob[i].valid =>
           (MarkedBy(f, rob[i]) <=> Cancels(f, rob[i].order)),
         f.valid /\ f.ordered => f.order \in Given,
         NEW K \in 0 .. 2, orderId' = orderId + K, f.valid => K = 0
  PROVE  Promise!ProgramStep
<1> DEFINE rest == Window \ Retiring'
<1>1. /\ Retiring' \in {{}, Promise!Oldest}
      /\ Window' = {o \in rest : ~Cancels(f, o)} \cup orderId .. orderId' - 1
  BY WindowAfter
<1>2. orderId \in Nat /\ Window \subseteq Nat
  BY RetireAssumption
     DEF RingInv, RetireTypeOK, RobTypeOK, Entries, Window, LiveEntries
<1>3. \/ \E n \in 0 .. 2 :
            /\ orderId' = orderId + n
            /\ Window' = rest \cup orderId .. orderId + n - 1
      \/ \E cut \in 0 .. orderId :
            /\ Window' = {o \in rest : o < cut}
            /\ orderId' = orderId
  <2>1. CASE ~f.valid
    <3>1. {o \in rest : ~Cancels(f, o)} = rest
      BY <2>1 DEF Cancels
    <3> HIDE DEF rest
    <3>2. Window' = rest \cup orderId .. orderId + K - 1
      <4>1. orderId' - 1 = orderId + K - 1
        BY <1>2
      <4> QED
        BY <1>1, <3>1, <4>1
    <3> QED
      BY <3>2
  <2>2. CASE f.valid
    <3> DEFINE cut == IF f.ordered THEN f.order + 1 ELSE 0
    <3>1. orderId' = orderId /\ orderId .. orderId' - 1 = {}
      BY <1>2, <2>2
    <3>2. cut \in 0 .. orderId
      BY <1>2, <2>2 DEF Given
    <3>3. \A o \in rest : ~Cancels(f, o) <=> o < cut
      <4> SUFFICES ASSUME NEW o \in rest PROVE ~Cancels(f, o) <=> o < cut
        OBVIOUS
      <4>1. o \in Nat
        BY <1>2
      <4>2. f.order \in Nat
        BY DEF Flushes
      <4> QED
        BY <2>2, <4>1, <4>2 DEF Cancels
    <3> HIDE DEF cut, rest
    <3>4. Window' = {o \in rest : o < cut}
      BY <1>1, <3>1, <3>3
    <3> QED
      BY <3>1, <3>2, <3>4
  <2> QED
    BY <2>1, <2>2
<1> QED
  BY <1>1, <1>3 DEF Promise!ProgramStep

-----------------------------------------------------------------------------
\* The accounts, with what makes them inductive, hold throughout.
THEOREM HistoryHolds == RetireSpec => []HistoryInv
<1> QED
  BY HistoryInvInit, HistoryInvNext, PTL DEF RetireSpec

\* An instruction reaches the commit port (rob.v:505-521) only when all older
\* ones have retired or been cancelled, and never after its own cancellation,
\* with any number in flight and flushes, write-backs and interrupts in any
\* cycle.
THEOREM CommitsInOrderIsInvariant == RetireSpec => []CommitsInOrder
<1>1. HistoryInv => CommitsInOrder
  BY DEF HistoryInv
<1> QED
  BY <1>1, HistoryHolds, PTL

\* The walk (rob.v:400-440) hands over cancelled instructions only, each when
\* every younger cancelled one has been handed over.
THEOREM UndoesYoungestFirstIsInvariant == RetireSpec => []UndoesYoungestFirst
<1>1. HistoryInv => UndoesYoungestFirst
  BY DEF HistoryInv
<1> QED
  BY <1>1, HistoryHolds, PTL

\* Outside a walk every cancelled instruction has been undone: no physical
\* register is lost, however redirects fall into each other.
THEOREM WalkUndoesAllIsInvariant == RetireSpec => []WalkUndoesAll
<1>1. HistoryInv => WalkUndoesAll
  BY DEF HistoryInv, History, RingInv, SquashedIsKept, NoMarkLeft, WalkUndoesAll
<1> QED
  BY <1>1, HistoryHolds, PTL

\* A flush marks exactly the valid entries it cancels, so that rob.v's extra
\* case for an incomplete instruction at the boundary never decides.
THEOREM FlushesMarkTheCancelled ==
  RetireSpec => [](\A irq \in BOOLEAN, wb \in WriteBacks, i \in Indices :
    rob[i].valid => (MarkedBy(FlushOf(irq, wb), rob[i])
                       <=> Cancels(FlushOf(irq, wb), rob[i].order)))
<1>1. HistoryInv => \A irq \in BOOLEAN, wb \in WriteBacks, i \in Indices :
        rob[i].valid => (MarkedBy(FlushOf(irq, wb), rob[i])
                           <=> Cancels(FlushOf(irq, wb), rob[i].order))
  BY FlushMarksTheCancelled DEF HistoryInv
<1> QED
  BY <1>1, HistoryHolds, PTL

\* A cycle of the buffer is a step of the window, whatever the rename stage
\* adds, and reset leaves the window empty.
LEMMA CycleIsPromised ==
  ASSUME HistoryInv, NEW irq \in BOOLEAN, NEW wb, NEW disp, NEW K,
         BufferCycle(FlushOf(irq, wb), wb, disp, K)
  PROVE  Promise!ProgramStep
<1> DEFINE f == FlushOf(irq, wb)
<1>1. RingInv /\ ResolvedIsComplete
  BY DEF HistoryInv
<1>2. /\ f \in Flushes
      /\ f.valid /\ f.ordered => f.order \in Given
      /\ \A i \in Indices : rob[i].valid =>
           (MarkedBy(f, rob[i]) <=> Cancels(f, rob[i].order))
  BY <1>1, FlushIsTyped, FlushIsPast, FlushMarksTheCancelled DEF RingInv
<1>3. HandsOver(f, disp, K) /\ RobCycle(f, wb, disp) /\ orderId' = orderId + K
  BY DEF BufferCycle
<1> HIDE DEF f
<1>4. PICK G \in SUBSET Indices : Passes(f, wb, G) /\ Leaves(f, G)
  BY <1>1, <1>2, <1>3, CyclePasses
<1>5. K \in 0 .. 2 /\ (f.valid => K = 0)
  BY <1>3 DEF HandsOver
<1> QED
  BY <1>1, <1>2, <1>3, <1>4, <1>5, StepIsPromised

LEMMA ResetIsPromised == RetireInit => Promise!ProgramInit
<1> SUFFICES ASSUME RetireInit PROVE Promise!ProgramInit
  OBVIOUS
<1>1. \A i \in Indices : ~rob[i].valid
  BY RobAssumption DEF RetireInit, RobInit, BlankEntry
<1>2. Window = {} /\ Retiring = {} /\ orderId = 0
  BY <1>1 DEF RetireInit, RobInit, Window, Retiring, LiveEntries, Live
<1> QED
  BY <1>2 DEF Promise!ProgramInit

LEMMA StutterIsPromised ==
  ASSUME UNCHANGED retireVars
  PROVE  UNCHANGED Promise!programVars
<1>1. UNCHANGED <<Window, orderId, Retiring>>
  BY DEF retireVars, robVars, Window, Retiring, LiveEntries, Live
<1> QED
  BY <1>1 DEF Promise!programVars

\* The reorder buffer with its ring, marks and recovery walk implements the
\* plain window of the program (rob.v as sifang_core drives it), for every
\* depth: the initial states agree and each cycle is a step of the window.
THEOREM RetireImplementsProgram == RetireSpec => ImplementsProgram
<1>1. HistoryInv /\ [RetireNext]_retireVars => [Promise!ProgramStep]_(Promise!programVars)
  <2> SUFFICES ASSUME HistoryInv, [RetireNext]_retireVars
               PROVE  Promise!ProgramStep \/ UNCHANGED Promise!programVars
    OBVIOUS
  <2>1. RetireTypeOK
    BY DEF HistoryInv, RingInv
  <2>2. ASSUME NEW wb, Cycle(wb) PROVE Promise!ProgramStep
    BY <2>1, <2>2, CycleIsBufferCycle, CycleIsPromised
  <2>3. CASE RetireNext
    BY <2>2, <2>3 DEF RetireNext, Idle, Complete
  <2> QED
    BY <2>3, StutterIsPromised
<1> QED
  BY <1>1, ResetIsPromised, HistoryHolds, PTL
     DEF RetireSpec, ImplementsProgram, Promise!ProgramSpec
=============================================================================
