----------------------------- MODULE InUseProofs -----------------------------
(***************************************************************************)
(* Proof that no register the map, an instruction in flight or an undo     *)
(* still names is on the free list, for every size of the core, up to the  *)
(* first restore of an image of the list whose map is gone (unmatched):    *)
(* the run rename_slots shows a program in which that happens.  And that   *)
(* it can only happen once a branch has retired in the very cycle of a     *)
(* restore (slipped), whose image the map then drops and the list keeps.   *)
(*                                                                         *)
(* FreelistProofs is here for its facts about the ring; the variables of   *)
(* FreelistUse take no part.                                               *)
(***************************************************************************)
EXTENDS RenameProofs, FreelistProofs

\* The registers that wait to be handed back: what each visible instruction
\* overwrote, until its commit or its undo has left the ports of the buffer.
Holding ==
  {e \in {rob[i] : i \in {j \in Indices : rob[j].valid}} \cup recoverOut \cup commit0 :
     e.ins.rd # 0 /\ e.order \in Visible}
Overwritten(e) == [order |-> e.order, rd |-> e.ins.rd, old |-> e.prdOld]
Olds == {Overwritten(e) : e \in Holding}

\* No register has two of these uses: to be where the map mp has an
\* architectural register, to be one that the instructions O overwrote, to be
\* among F.
Apart(mp, O, F) ==
  /\ \A a, b \in RMT!ArchRegs \ {0} : mp[a] = mp[b] => a = b
  /\ \A a \in RMT!ArchRegs \ {0} : mp[a] # 0 /\ mp[a] \notin F
  /\ \A x \in O : /\ x.old # 0 /\ x.old \notin F
                  /\ \A a \in RMT!ArchRegs \ {0} : x.old # mp[a]
  /\ \A x, y \in O : x.old = y.old => x = y

ListIn(c) == ListOf(c.mem, c.head, c.tail)

\* An image of the list hands out nothing an instruction up to its branch has
\* overwritten.
Spares(c) ==
  c.valid =>
    /\ c.order \in Given /\ GoodRing(c.mem, c.head, c.tail)
    /\ \A x \in Olds : x.order <= c.order => x.old \notin Elements(ListIn(c))

NothingTwice ==
  /\ GoodRing(flMem, flHead, flTail)
  /\ Apart(mapTable, Olds, OnList)
  /\ mapTable[0] = 0 /\ \A t \in Slots : rmtCkpt[t].map[0] = 0
  /\ \A t \in Slots : Spares(flCkpt[t])
  /\ ImageIsConsistent
  /\ \A e \in commit0 : e.order \in retired

InUseInv == MapInv /\ NothingTwice

-----------------------------------------------------------------------------
\* How a register changes its use.

\* It leaves the list for the map, and what the map had is overwritten.
LEMMA ApartAllocates ==
  ASSUME NEW mp, NEW O, NEW F, Apart(mp, O, F), NEW rd \in RMT!ArchRegs \ {0},
         NEW p \in F, p # 0, NEW z, z.old = mp[rd],
         NEW mp2, \A a \in RMT!ArchRegs \ {0} : mp2[a] = IF a = rd THEN p ELSE mp[a]
  PROVE  Apart(mp2, O \cup {z}, F \ {p})
<1> DEFINE R == RMT!ArchRegs \ {0}
<1> HIDE DEF R
<1>1. /\ \A a, b \in R : mp[a] = mp[b] => a = b
      /\ \A a \in R : mp[a] # 0 /\ mp[a] \notin F
      /\ \A x \in O : x.old # 0 /\ x.old \notin F /\ \A a \in R : x.old # mp[a]
      /\ \A x, y \in O : x.old = y.old => x = y
      /\ rd \in R /\ \A a \in R : mp2[a] = IF a = rd THEN p ELSE mp[a]
  BY DEF Apart, R
<1>2. \A a, b \in R : mp2[a] = mp2[b] => a = b
  BY <1>1
<1>3. \A a \in R : mp2[a] # 0 /\ mp2[a] \notin F \ {p}
  BY <1>1
<1>4. \A x \in O \cup {z} : /\ x.old # 0 /\ x.old \notin F \ {p}
                            /\ \A a \in R : x.old # mp2[a]
  BY <1>1
<1>5. \A x, y \in O \cup {z} : x.old = y.old => x = y
  BY <1>1
<1> QED
  BY <1>2, <1>3, <1>4, <1>5 DEF Apart, R

\* What an instruction overwrote goes back to the list.
LEMMA ApartReleases ==
  ASSUME NEW mp, NEW O, NEW F, Apart(mp, O, F), NEW z \in O
  PROVE  /\ Apart(mp, O \ {z}, F \cup {z.old})
         /\ z.old # 0 /\ z.old \notin F
<1> DEFINE R == RMT!ArchRegs \ {0}
<1> HIDE DEF R
<1>1. /\ \A a, b \in R : mp[a] = mp[b] => a = b
      /\ \A a \in R : mp[a] # 0 /\ mp[a] \notin F
      /\ \A x \in O : x.old # 0 /\ x.old \notin F /\ \A a \in R : x.old # mp[a]
      /\ \A x, y \in O : x.old = y.old => x = y
  BY DEF Apart, R
<1>2. \A a \in R : mp[a] # 0 /\ mp[a] \notin F \cup {z.old}
  BY <1>1
<1>3. \A x \in O \ {z} : /\ x.old # 0 /\ x.old \notin F \cup {z.old}
                         /\ \A a \in R : x.old # mp[a]
  BY <1>1
<1> QED
  BY <1>1, <1>2, <1>3 DEF Apart, R

\* An undo puts it back into the map, and what the map had goes to the list.
LEMMA ApartUndoes ==
  ASSUME NEW mp, NEW O, NEW F, Apart(mp, O, F), NEW rd \in RMT!ArchRegs \ {0},
         NEW z \in O,
         NEW mp2, \A a \in RMT!ArchRegs \ {0} : mp2[a] = IF a = rd THEN z.old ELSE mp[a]
  PROVE  /\ Apart(mp2, O \ {z}, F \cup {mp[rd]})
         /\ mp[rd] # 0 /\ mp[rd] \notin F
<1> DEFINE R == RMT!ArchRegs \ {0}
<1> HIDE DEF R
<1>1. /\ \A a, b \in R : mp[a] = mp[b] => a = b
      /\ \A a \in R : mp[a] # 0 /\ mp[a] \notin F
      /\ \A x \in O : x.old # 0 /\ x.old \notin F /\ \A a \in R : x.old # mp[a]
      /\ \A x, y \in O : x.old = y.old => x = y
      /\ rd \in R /\ \A a \in R : mp2[a] = IF a = rd THEN z.old ELSE mp[a]
  BY DEF Apart, R
<1>2. \A a, b \in R : mp2[a] = mp2[b] => a = b
  BY <1>1
<1>3. \A a \in R : mp2[a] # 0 /\ mp2[a] \notin F \cup {mp[rd]}
  BY <1>1
<1>4. \A x \in O \ {z} : /\ x.old # 0 /\ x.old \notin F \cup {mp[rd]}
                         /\ \A a \in R : x.old # mp2[a]
  BY <1>1
<1> QED
  BY <1>1, <1>2, <1>3, <1>4 DEF Apart, R

\* Uses may be forgotten.
LEMMA ApartOfFewer ==
  ASSUME NEW mp, NEW O, NEW F, Apart(mp, O, F), NEW O2 \in SUBSET O,
         NEW F2 \in SUBSET F, NEW mp2, \A a \in RMT!ArchRegs \ {0} : mp2[a] = mp[a]
  PROVE  Apart(mp2, O2, F2)
BY DEF Apart

\* Another list will do that is as far from the other two.
LEMMA ApartOfAnother ==
  ASSUME NEW mp, NEW O, NEW F, Apart(mp, O, F), NEW F2,
         \A a \in RMT!ArchRegs \ {0} : mp[a] \notin F2, \A x \in O : x.old \notin F2
  PROVE  Apart(mp, O, F2)
BY DEF Apart

-----------------------------------------------------------------------------
\* What the instructions of a cycle overwrite.
NewOld(s, n) ==
  [order |-> orderId + n - 1, rd |-> s[n].rd, old |-> Renamed(s)[n].prdOld]
NewOlds(s, k) == {NewOld(s, n) : n \in {m \in 1 .. k : s[m].rd # 0}}

LEMMA OldsAre ==
  ASSUME InUseInv
  PROVE  /\ Visible \subseteq Given /\ Given \subseteq Nat
         /\ \A x \in Olds : x.order \in Visible
         /\ \A e \in commit0 : e.order \in retired /\ e.order \in Visible
         /\ \A e \in commit0 : e.ins.rd # 0 => Overwritten(e) \in Olds
<1>1. RenameInv /\ UndoIsYoungest
  BY DEF InUseInv, MapInv
<1>2. /\ Visible \subseteq Given /\ Given \subseteq Nat /\ retired \subseteq Given
  BY <1>1, VisibleNow
<1>3. \A x \in Olds : x.order \in Visible
  BY DEF Olds, Holding, Overwritten
<1>4. \A e \in commit0 : e.order \in retired /\ e.order \in Visible
  <2>1. \A e \in commit0 : e.order \in retired
    BY DEF InUseInv, NothingTwice
  <2>2. \A e \in commit0 : e.order \notin squashed
    BY <1>1 DEF RenameInv, HistoryInv, CommitsInOrder
  <2> QED
    BY <1>2, <2>1, <2>2 DEF Visible
<1>5. \A e \in commit0 : e.ins.rd # 0 => Overwritten(e) \in Olds
  BY <1>4 DEF Olds, Holding
<1> QED
  BY <1>2, <1>3, <1>4, <1>5

\* What is overwritten after a cycle: what the ring's entries had before it,
\* as far as they stay visible, and what dispatch adds.
LEMMA OldsAfter ==
  ASSUME OrdinaryProgram, MapInv, NEW irq \in BOOLEAN, NEW wb,
         NEW s, NEW K, NEW rebuild, Step(irq, wb, s, K, rebuild), NEW x \in Olds'
  PROVE  \/ x \in Olds /\ x.order \in InRing /\ x.order \in Visible'
         \/ x \in NewOlds(s, K)
<1> DEFINE restore == RestoreOrder(irq, wb)
           f == FlushOf(irq, wb)
<1>1. /\ RenameInv /\ OneRedirect /\ RetiredIsOld /\ UndoIsYoungest
  BY DEF MapInv
<1>2. /\ Visible \subseteq Given /\ Given \subseteq Nat /\ orderId \in Nat
      /\ (\A o \in Given : o < orderId)
      /\ \A i \in Indices : rob[i].valid => rob[i].order \in Given
  BY <1>1, VisibleNow
<1>3. /\ f \in Flushes /\ HandsOver(f, Renamed(s), K) /\ RobCycle(f, wb, Renamed(s))
      /\ Offer(f, s, K) /\ K \in 0 .. 2 /\ orderId' = orderId + K
      /\ \E G \in SUBSET Indices : Passes(f, wb, G) /\ Leaves(f, G)
  BY <1>1, StepMoves
<1>4. \/ Restored(restore, K) \/ Dispatching(restore, K)
      \/ Skipping(restore, K) \/ Walking(restore, K)
  BY <1>1, VisibleAfter
<1>5. RingInv /\ RetireTypeOK /\ FreelistTypeOK /\ RMT!RmtTypeOK
  BY <1>1 DEF RenameInv, HistoryInv, RingInv
<1> HIDE DEF restore, f
<1>6. \A o \in Given : o \in Visible' => o \in Visible
  <2>1. \A o \in Given : o \notin orderId .. orderId' - 1
    BY <1>2
  <2> QED
    BY <1>4, <2>1 DEF Restored, Dispatching, Skipping, Walking
<1>7. PICK e : /\ x = Overwritten(e) /\ e.ins.rd # 0 /\ e.order \in Visible'
               /\ \/ \E i \in Indices : rob'[i].valid /\ e = rob'[i]
                  \/ e \in recoverOut' \cup commit0'
  BY DEF Olds, Holding, Overwritten
<1>8. ASSUME NEW i \in Indices, rob[i].valid, Keeps(rob[i], e)
      PROVE  x \in Olds /\ x.order \in InRing /\ x.order \in Visible'
  <2>1. rob[i].order \in Visible' /\ rob[i].order \in Visible /\ rob[i].ins.rd # 0
    BY <1>2, <1>6, <1>7, <1>8 DEF Keeps
  <2>2. rob[i] \in Holding /\ rob[i].order \in InRing
    BY <1>8, <2>1 DEF Holding, InRing
  <2>3. x = Overwritten(rob[i]) /\ x.order = rob[i].order
    BY <1>7, <1>8 DEF Overwritten, Keeps
  <2> QED
    BY <2>1, <2>2, <2>3 DEF Olds
<1>9. ASSUME NEW n \in 1 .. K, Keeps(Renamed(s)[n], e)
      PROVE  x \in NewOlds(s, K)
  <2>1. Renamed(s)[n].order = orderId + n - 1 /\ Renamed(s)[n].ins = s[n]
    BY <1>3, <1>5, RenamedIsHandedOver
  <2>2. s[n].rd # 0 /\ x = NewOld(s, n)
    BY <1>7, <1>9, <2>1 DEF Keeps, NewOld, Overwritten
  <2> QED
    BY <2>2 DEF NewOlds
<1>10. ASSUME NEW i \in Indices, rob'[i].valid, e = rob'[i]
       PROVE  \/ \E j \in Indices : rob[j].valid /\ Keeps(rob[j], e)
              \/ \E n \in 1 .. K : Keeps(Renamed(s)[n], e)
  BY <1>3, <1>5, <1>10, EntriesAfter
<1>11. ASSUME e \in recoverOut' \cup commit0'
       PROVE  \E j \in Indices : rob[j].valid /\ Keeps(rob[j], e)
  BY <1>3, <1>11 DEF Leaves, Live, Keeps
<1> QED
  BY <1>7, <1>8, <1>9, <1>10, <1>11

\* What an instruction beyond the retired ones finds in the map, the map still
\* has, or a younger instruction has overwritten it.
LEMMA NamedIsHeld ==
  ASSUME MapInv, NEW b \in Int, \A q \in retired : q <= b,
         NEW a \in RMT!ArchRegs \ {0}, NEW p, Names(log, {o \in Visible : o <= b}, a, p)
  PROVE  \/ p = mapTable[a]
         \/ \E x \in Olds : x.rd = a /\ x.old = p /\ x.order > b
<1> DEFINE upTo == {o \in Visible : o <= b}
           W == {o \in WritersIn(log, Visible, a) : o > b}
<1>1. /\ RenameInv /\ UndoIsYoungest /\ EntriesLogged /\ MapIsVisible /\ OldIsVisible
  BY DEF MapInv
<1>2. Visible \subseteq Given /\ Given \subseteq Nat
  BY <1>1, VisibleNow
<1>3. CASE W = {}
  <2>1. WritersIn(log, upTo, a) = WritersIn(log, Visible, a)
    <3>1. \A q \in WritersIn(log, Visible, a) : q \in Nat /\ ~(q > b)
      <4>1. \A q \in WritersIn(log, Visible, a) : ~(q > b)
        BY <1>3
      <4> QED
        BY <1>2, <4>1 DEF WritersIn
    <3>2. \A q \in WritersIn(log, Visible, a) : q <= b
      BY <3>1
    <3> QED
      BY <3>2 DEF WritersIn
  <2>2. Names(log, Visible, a, p)
    BY <2>1, NamesOfTheSame
  <2>3. Names(log, Visible, a, mapTable[a])
    BY <1>1 DEF MapIsVisible
  <2>4. Visible \in SUBSET Nat
    BY <1>2
  <2> HIDE DEF W, upTo
  <2> QED
    BY <2>2, <2>3, <2>4, NamesIsOne
<1>4. CASE W # {}
  <2> DEFINE o == Lowest(W)
  <2>1. W \in SUBSET Nat
    BY <1>2 DEF WritersIn
  <2> HIDE DEF W
  <2>2. o \in W /\ \A q \in W : o <= q
    BY <1>4, <2>1, LowestIs
  <2> HIDE DEF o
  <2> USE DEF W
  <2>3. o \in Visible /\ o \in Nat /\ o > b /\ log[o + 1].ins.rd = a
    BY <1>2, <2>2 DEF WritersIn
  <2>4. o \notin retired
    BY <2>3, RetireAssumption DEF MapInv, RenameInv, HistoryInv, RingInv, RetireTypeOK, Orders
  <2>5. PICK e : /\ e.order = o /\ Logged(e) /\ Replaces(e)
                 /\ e \in {rob[i] : i \in {j \in Indices : rob[j].valid}} \cup recoverOut
    <3>1. o \in InRing \cup Undoing
      <4>1. o \in squashed => o \in InRing \cup Undoing
        BY <2>3 DEF Visible
      <4>2. o \notin squashed => \E i \in Indices : Live(rob[i]) /\ rob[i].order = o
        BY <1>1, <1>2, <2>3, <2>4 DEF RenameInv, HistoryInv, History, EveryOneAccounted
      <4>3. o \notin squashed => o \in InRing
        BY <4>2 DEF InRing, Live
      <4> QED
        BY <4>1, <4>3
    <3>2. \E e \in {rob[i] : i \in {j \in Indices : rob[j].valid}} \cup recoverOut :
            e.order = o
      BY <3>1 DEF InRing, Undoing
    <3>3. \A e \in {rob[i] : i \in {j \in Indices : rob[j].valid}} \cup recoverOut :
            Logged(e) /\ Replaces(e)
      BY <1>1 DEF EntriesLogged, OldIsVisible
    <3> QED
      BY <3>2, <3>3
  <2>6. e.ins.rd = a /\ a # 0
    BY <2>3, <2>5 DEF Logged
  <2>7. Names(log, {q \in Visible : q < o}, a, e.prdOld)
    BY <2>3, <2>5, <2>6 DEF Replaces
  <2>8. WritersIn(log, {q \in Visible : q < o}, a) = WritersIn(log, upTo, a)
    <3>1. ASSUME NEW q \in WritersIn(log, Visible, a) PROVE q < o <=> q <= b
      <4>1. q \in Nat
        BY <1>2 DEF WritersIn
      <4>2. q > b => o <= q
        BY <2>2
      <4> QED
        BY <2>3, <4>1, <4>2
    <3> QED
      BY <3>1 DEF WritersIn
  <2>9. Names(log, upTo, a, e.prdOld)
    BY <2>7, <2>8, NamesOfTheSame
  <2>10. upTo \in SUBSET Nat
    BY <1>2
  <2> HIDE DEF W, upTo
  <2>11. p = e.prdOld
    BY <2>9, <2>10, NamesIsOne DEF upTo
  <2>12. e \in Holding
    BY <2>3, <2>5, <2>6 DEF Holding
  <2>13. Overwritten(e) \in Olds
    BY <2>12 DEF Olds
  <2> QED
    BY <2>3, <2>5, <2>6, <2>11, <2>13 DEF Overwritten
<1> QED
  BY <1>3, <1>4

\* What a commit hands back was overwritten by an instruction that has retired.
LEMMA ReleasedIs ==
  ASSUME OrdinaryProgram, InUseInv, Released # 0
  PROVE  \E z \in Olds : Released = z.old /\ z.order \in retired
<1>1. PICK e \in commit0 : e.ins.rd # 0
  BY DEF Released
<1>2. \A d \in commit0 : d = e
  BY <1>1 DEF InUseInv, MapInv, RenameInv, PortsTakeTurns
<1>3. Released = e.prdOld
  BY <1>1, <1>2 DEF Released
<1>4. Overwritten(e) \in Olds /\ e.order \in retired
  BY <1>1, OldsAre
<1> QED
  BY <1>3, <1>4 DEF Overwritten

\* The image of the map a mispredicted branch puts back, with what the
\* instructions up to the branch have overwritten.
LEMMA RestoredApart ==
  ASSUME InUseInv, NEW o \in Mispredicted, RMT!RmtHit(o), NEW t, t = RMT!RmtSlot(o)
  PROVE  /\ t \in Slots /\ rmtCkpt[t].valid /\ rmtCkpt[t].order = o
         /\ o \in Int /\ \A q \in retired : q <= o
         /\ Apart(rmtCkpt[t].map, {x \in Olds : x.order <= o}, OnList)
<1> DEFINE R == RMT!ArchRegs \ {0}
           mp == rmtCkpt[t].map
<1>1. MapInv /\ RenameInv /\ RetiredIsOld /\ ImagesAreVisible /\ NothingTwice
  BY DEF InUseInv, MapInv
<1>2. t \in Slots /\ rmtCkpt[t].valid /\ rmtCkpt[t].order = o
  BY HitIsASlot
<1>3. o \in Int /\ o \notin squashed /\ \A q \in retired : q <= o
  <2>1. o \in Orders
    BY <1>1 DEF RenameInv, HistoryInv, RingInv, RetireTypeOK, Mispredicted
  <2> QED
    BY <1>1, <2>1, RetireAssumption DEF RetiredIsOld, Mispredicted, Orders
<1>4. \A x \in Olds : x.order \in Nat
  BY OldsAre
<1>5. \A a \in R : Names(log, {v \in Visible : v <= o}, a, mp[a])
  BY <1>1, <1>2, <1>3 DEF ImagesAreVisible, Images
<1> HIDE DEF mp
<1>6. \A a \in R : \/ mp[a] = mapTable[a]
                   \/ \E x \in Olds : x.rd = a /\ x.old = mp[a] /\ x.order > o
  <2> SUFFICES ASSUME NEW a \in R
               PROVE  \/ mp[a] = mapTable[a]
                      \/ \E x \in Olds : x.rd = a /\ x.old = mp[a] /\ x.order > o
    OBVIOUS
  <2>1. Names(log, {v \in Visible : v <= o}, a, mp[a])
    BY <1>5
  <2> QED
    BY <1>1, <1>3, <2>1, NamedIsHeld
<1> HIDE DEF R
<1>7. /\ \A a, b \in R : mapTable[a] = mapTable[b] => a = b
      /\ \A a \in R : mapTable[a] # 0 /\ mapTable[a] \notin OnList
      /\ \A x \in Olds : x.old # 0 /\ x.old \notin OnList /\ \A a \in R : x.old # mapTable[a]
      /\ \A x, y \in Olds : x.old = y.old => x = y
  BY <1>1 DEF NothingTwice, Apart, R
<1>8. \A a, b \in R : mp[a] = mp[b] => a = b
  BY <1>6, <1>7
<1>9. \A a \in R : mp[a] # 0 /\ mp[a] \notin OnList
  BY <1>6, <1>7
<1>10. \A x \in Olds : x.order <= o => \A a \in R : x.old # mp[a]
  <2> SUFFICES ASSUME NEW x \in Olds, x.order <= o, NEW a \in R, x.old = mp[a] PROVE FALSE
    OBVIOUS
  <2>1. PICK y \in Olds : y.old = mp[a] /\ y.order > o
    BY <1>6, <1>7
  <2>2. x = y
    BY <1>7, <2>1
  <2> QED
    BY <1>3, <1>4, <2>1, <2>2
<1>11. Apart(mp, {x \in Olds : x.order <= o}, OnList)
  BY <1>7, <1>8, <1>9, <1>10 DEF Apart, R
<1> QED
  BY <1>2, <1>3, <1>11 DEF mp

-----------------------------------------------------------------------------
\* What a dispatch does to the three uses.

LEMMA FrontLeaves ==
  ASSUME NEW s \in Seq(Registers), Distinct(s), NEW k \in 1 .. Len(s)
  PROVE  /\ s[k] \in Elements(SubSeq(s, k, Len(s))) /\ s[k] # 0
         /\ Elements(SubSeq(s, k + 1, Len(s))) = Elements(SubSeq(s, k, Len(s))) \ {s[k]}
<1> DEFINE u == SubSeq(s, k, Len(s))
           v == SubSeq(s, k + 1, Len(s))
<1>1. /\ DOMAIN u = 1 .. Len(s) - k + 1 /\ \A i \in DOMAIN u : u[i] = s[k + i - 1]
      /\ DOMAIN v = 1 .. Len(s) - k /\ \A i \in DOMAIN v : v[i] = s[k + i]
      /\ Len(s) \in Nat /\ DOMAIN s = 1 .. Len(s)
  OBVIOUS
<1>2. s[k] \in Registers
  BY ElementOfSeq
<1> HIDE DEF u, v
<1>3. 1 \in DOMAIN u /\ u[1] = s[k]
  BY <1>1
<1>4. \A p : p \in Elements(v) <=> p \in Elements(u) /\ p # s[k]
  <2> SUFFICES ASSUME NEW p PROVE p \in Elements(v) <=> p \in Elements(u) /\ p # s[k]
    OBVIOUS
  <2>1. ASSUME NEW i \in DOMAIN v PROVE v[i] \in Elements(u) /\ v[i] # s[k]
    <3>1. i + 1 \in DOMAIN u /\ u[i + 1] = v[i]
      BY <1>1, <2>1
    <3>2. v[i] = s[k + i] /\ k + i \in DOMAIN s /\ k \in DOMAIN s /\ k + i # k
      BY <1>1, <2>1
    <3> QED
      BY <3>1, <3>2 DEF Elements, Distinct
  <2>2. ASSUME NEW i \in DOMAIN u, u[i] # s[k] PROVE u[i] \in Elements(v)
    <3>1. i # 1
      BY <1>3, <2>2
    <3>2. i - 1 \in DOMAIN v /\ v[i - 1] = u[i]
      BY <1>1, <2>2, <3>1
    <3> QED
      BY <3>2 DEF Elements
  <2> QED
    BY <2>1, <2>2 DEF Elements
<1> QED
  BY <1>2, <1>3, <1>4 DEF Elements, Registers, u, v

\* Each port shows the register of the list its place among the writers asks
\* for.
LEMMA PortShows ==
  ASSUME PointersWrapWithRing, GoodRing(flMem, flHead, flTail),
         NEW K \in 0 .. 2, NEW s \in [1 .. K -> Instrs], Served(s),
         NEW n \in 1 .. K, s[n].rd # 0
  PROVE  AllocsUpTo(s, n) \in 1 .. Len(List) /\ PrdOf(s, n) = List[AllocsUpTo(s, n)]
<1>1. /\ AllocsUpTo(s, 0) = 0
      /\ \A m \in 1 .. K :
           AllocsUpTo(s, m) = AllocsUpTo(s, m - 1) + (IF s[m].rd # 0 THEN 1 ELSE 0)
  BY AllocsAre
<1>2. DOMAIN s = 1 .. K /\ n \in DOMAIN s /\ (n = 1 \/ (n = 2 /\ 1 \in DOMAIN s))
  <2>1. DOMAIN s = 1 .. K
    OBVIOUS
  <2> QED
    BY <2>1
<1>3. List \in Seq(Registers) /\ Len(List) \in Nat
  BY DEF GoodRing, List
<1>4. CanAlloc1 => 1 \in 1 .. Len(List) /\ Alloc0Prd = List[1]
  <2>1. ASSUME CanAlloc1 PROVE 1 <= Len(List) /\ Requested(1) = SubSeq(List, 1, 1)
    BY <2>1, PortsShowTheFront DEF Servable
  <2>2. Requested(1) = <<Alloc0Prd>>
    BY DEF Requested
  <2>3. SubSeq(List, 1, 1)[1] = List[1]
    BY <1>3
  <2> QED
    BY <1>3, <2>1, <2>2, <2>3
<1>5. CanAlloc2(TRUE) => 2 \in 1 .. Len(List) /\ Alloc1Prd(TRUE) = List[2]
  <2> DEFINE second == Alloc1Prd(TRUE)
  <2>1. ASSUME CanAlloc2(TRUE) PROVE 2 <= Len(List) /\ Requested(2) = SubSeq(List, 1, 2)
    BY <2>1, PortsShowTheFront DEF Servable
  <2>2. Requested(2) = <<Alloc0Prd, second>>
    <3>1. \A m \in Nat : m # 0 /\ m # 1 => Requested(m) = <<Alloc0Prd, second>>
      BY DEF Requested
    <3> HIDE DEF second
    <3> QED
      BY <3>1
  <2>3. 2 <= Len(List) => SubSeq(List, 1, 2)[2] = List[2]
    BY <1>3
  <2> HIDE DEF second
  <2>4. CanAlloc2(TRUE) => second = List[2]
    BY <2>1, <2>2, <2>3
  <2>5. CanAlloc2(TRUE) => 2 <= Len(List)
    BY <2>1
  <2>6. CanAlloc2(TRUE) => 2 \in 1 .. Len(List)
    BY <1>3, <2>5
  <2> QED
    BY <2>4, <2>6 DEF second
<1>6. CASE n = 1
  <2>1. Needs(s, 1) /\ AllocsUpTo(s, 1) = 1
    BY <1>1, <1>2, <1>6 DEF Needs
  <2> QED
    BY <1>4, <1>6, <2>1 DEF Served, PrdOf
<1>7. CASE n = 2 /\ ~Needs(s, 1)
  <2>1. Needs(s, 2) /\ AllocsUpTo(s, 2) = 1
    BY <1>1, <1>2, <1>7 DEF Needs
  <2>2. PrdOf(s, 2) = Alloc0Prd
    BY <1>7 DEF PrdOf, Alloc1Prd, Alloc0Prd
  <2> QED
    BY <1>4, <1>7, <2>1, <2>2 DEF Served
<1>8. CASE n = 2 /\ Needs(s, 1)
  <2>1. Needs(s, 2) /\ AllocsUpTo(s, 2) = 2
    BY <1>1, <1>2, <1>8 DEF Needs
  <2>2. PrdOf(s, 2) = Alloc1Prd(TRUE)
    BY <1>8 DEF PrdOf, Alloc1Prd
  <2> QED
    BY <1>5, <1>8, <2>1, <2>2 DEF Served
<1> QED
  BY <1>2, <1>6, <1>7, <1>8

MapOf(s, n) == RMT!MapAfter(Allocs(s), AllocsUpTo(s, n))
Behind(s, n) == SubSeq(List, AllocsUpTo(s, n) + 1, Len(List))
StillApart(s, n) ==
  /\ AllocsUpTo(s, n) \in 0 .. Len(List)
  /\ Apart(MapOf(s, n), Olds \cup NewOlds(s, n), Elements(Behind(s, n)))

LEMMA PortKeepsApart ==
  ASSUME PointersWrapWithRing, RenameInv, NothingTwice,
         NEW f, NEW s, NEW K, Offer(f, s, K), Served(s),
         NEW n \in 1 .. K, StillApart(s, n - 1)
  PROVE  StillApart(s, n)
<1> DEFINE k == AllocsUpTo(s, n)
           j == AllocsUpTo(s, n - 1)
<1>1. /\ K \in 0 .. 2 /\ s \in [1 .. K -> Instrs] /\ DOMAIN s = 1 .. K
      /\ RetireTypeOK /\ FreelistTypeOK /\ RMT!RmtTypeOK
      /\ GoodRing(flMem, flHead, flTail)
  BY DEF Offer, RenameInv, HistoryInv, RingInv, NothingTwice
<1>2. /\ List \in Seq(Registers) /\ Distinct(List) /\ Len(List) \in Nat
  BY <1>1 DEF GoodRing, List
<1>3. k = j + (IF s[n].rd # 0 THEN 1 ELSE 0)
  BY <1>1, AllocsAre
<1>4. \A a \in RMT!ArchRegs :
        MapOf(s, n)[a] = IF s[n].rd = a /\ a # 0 THEN PrdOf(s, n) ELSE MapOf(s, n - 1)[a]
  BY <1>1, MapAfterPort DEF MapOf
<1>5. NewOlds(s, n) = NewOlds(s, n - 1) \cup (IF s[n].rd # 0 THEN {NewOld(s, n)} ELSE {})
  <2>1. {m \in 1 .. n : s[m].rd # 0} =
          {m \in 1 .. n - 1 : s[m].rd # 0} \cup (IF s[n].rd # 0 THEN {n} ELSE {})
    <3>1. 1 .. n = 1 .. n - 1 \cup {n}
      BY <1>1
    <3> QED
      BY <3>1
  <2> QED
    BY <2>1 DEF NewOlds
<1>6. /\ j \in 0 .. Len(List)
      /\ Apart(MapOf(s, n - 1), Olds \cup NewOlds(s, n - 1), Elements(Behind(s, n - 1)))
  BY DEF StillApart
<1>7. CASE s[n].rd = 0
  <2>1. k = j
    BY <1>3, <1>6, <1>7
  <2>2. NewOlds(s, n) = NewOlds(s, n - 1)
    BY <1>5, <1>7
  <2>3. Behind(s, n) = Behind(s, n - 1)
    BY <2>1 DEF Behind
  <2>4. \A a \in RMT!ArchRegs \ {0} : MapOf(s, n)[a] = MapOf(s, n - 1)[a]
    BY <1>4, <1>7
  <2>5. Apart(MapOf(s, n), Olds \cup NewOlds(s, n - 1), Elements(Behind(s, n - 1)))
    BY <1>6, <2>4, ApartOfFewer
  <2> HIDE DEF j, k
  <2> QED
    BY <1>6, <2>1, <2>2, <2>3, <2>5 DEF StillApart, j, k
<1>8. CASE s[n].rd # 0
  <2>1. k \in 1 .. Len(List) /\ PrdOf(s, n) = List[k]
    BY <1>1, <1>8, PortShows
  <2>2. k = j + 1
    BY <1>3, <1>8
  <2>3. Renamed(s)[n].prdOld = MapOf(s, n - 1)[s[n].rd] /\ s[n].rd \in RMT!ArchRegs
    BY <1>1, <1>8, RenamedIsHandedOver DEF MapOf
  <2> DEFINE p == List[k]
             F == Elements(Behind(s, n - 1))
             z == NewOld(s, n)
             rd == s[n].rd
  <2>4. z.old = MapOf(s, n - 1)[rd]
    BY <2>3 DEF NewOld
  <2>5. Behind(s, n - 1) = SubSeq(List, k, Len(List)) /\ Behind(s, n) = SubSeq(List, k + 1, Len(List))
    BY <2>2 DEF Behind
  <2>6. p \in F /\ p # 0 /\ Elements(Behind(s, n)) = F \ {p}
    BY <1>2, <2>1, <2>5, FrontLeaves
  <2>7. rd \in RMT!ArchRegs \ {0}
    BY <1>8, <2>3
  <2>8. \A a \in RMT!ArchRegs \ {0} :
          MapOf(s, n)[a] = IF a = rd THEN p ELSE MapOf(s, n - 1)[a]
    BY <1>4, <2>1
  <2>9. NewOlds(s, n) = NewOlds(s, n - 1) \cup {z}
    BY <1>5, <1>8
  <2> HIDE DEF p, F, z, rd, j, k
  <2>10. Apart(MapOf(s, n - 1), Olds \cup NewOlds(s, n - 1), F)
    BY <1>6 DEF F
  <2>11. Apart(MapOf(s, n), (Olds \cup NewOlds(s, n - 1)) \cup {z}, F \ {p})
    BY <2>4, <2>6, <2>7, <2>8, <2>10, ApartAllocates
  <2>12. (Olds \cup NewOlds(s, n - 1)) \cup {z} = Olds \cup NewOlds(s, n)
    BY <2>9
  <2>13. Apart(MapOf(s, n), Olds \cup NewOlds(s, n), Elements(Behind(s, n)))
    BY <2>6, <2>11, <2>12
  <2>14. k \in 0 .. Len(List)
    BY <2>1
  <2> QED
    BY <2>13, <2>14 DEF StillApart, k
<1> QED
  BY <1>7, <1>8

LEMMA DispatchKeepsApart ==
  ASSUME PointersWrapWithRing, RenameInv, NothingTwice,
         NEW f, NEW s, NEW K, Offer(f, s, K), Served(s)
  PROVE  \A n \in 0 .. K : StillApart(s, n)
<1>1. /\ K \in 0 .. 2 /\ s \in [1 .. K -> Instrs]
      /\ GoodRing(flMem, flHead, flTail) /\ Apart(mapTable, Olds, OnList)
  BY DEF Offer, NothingTwice
<1>2. List \in Seq(Registers) /\ Len(List) \in Nat
  BY <1>1 DEF GoodRing, List
<1>3. StillApart(s, 0)
  <2>1. AllocsUpTo(s, 0) = 0
    BY <1>1, AllocsAre
  <2>2. \A a \in RMT!ArchRegs \ {0} : MapOf(s, 0)[a] = mapTable[a]
    BY <2>1, MapAfterNone DEF MapOf
  <2>3. NewOlds(s, 0) = {}
    BY DEF NewOlds
  <2>4. Behind(s, 0) = List
    BY <1>2, <2>1 DEF Behind
  <2>5. Apart(MapOf(s, 0), Olds, OnList)
    BY <1>1, <2>2, ApartOfFewer
  <2>6. Olds \cup NewOlds(s, 0) = Olds /\ Elements(Behind(s, 0)) = OnList
    BY <2>3, <2>4 DEF OnList
  <2>7. AllocsUpTo(s, 0) \in 0 .. Len(List)
    BY <1>2, <2>1
  <2> QED
    BY <2>5, <2>6, <2>7 DEF StillApart
<1>4. \A n \in 1 .. K : StillApart(s, n - 1) => StillApart(s, n)
  BY PortKeepsApart
<1>5. K >= 1 => StillApart(s, 1)
  <2>1. K >= 1 => 1 \in 1 .. K
    BY <1>1
  <2>2. 1 - 1 = 0
    OBVIOUS
  <2> QED
    BY <1>3, <1>4, <2>1, <2>2
<1>6. K >= 2 => StillApart(s, 2)
  <2>1. K >= 2 => 2 \in 1 .. K /\ K >= 1
    BY <1>1
  <2>2. 2 - 1 = 1
    OBVIOUS
  <2> QED
    BY <1>4, <1>5, <2>1, <2>2
<1>7. SUFFICES ASSUME NEW n \in 0 .. K PROVE StillApart(s, n)
  OBVIOUS
<1>8. \/ n = 0
      \/ n = 1 /\ K >= 1
      \/ n = 2 /\ K >= 2
  <2>1. K = 0 \/ K = 1 \/ K = 2
    BY <1>1
  <2> QED
    BY <1>7, <2>1
<1> QED
  BY <1>3, <1>5, <1>6, <1>8

-----------------------------------------------------------------------------
\* The list and its images after a cycle.

LEMMA AppendedIsIn ==
  ASSUME NEW s \in Seq(Registers), NEW r \in Registers
  PROVE  Elements(Append(s, r)) = Elements(s) \cup {r}
<1>1. /\ DOMAIN Append(s, r) = 1 .. Len(s) + 1 /\ DOMAIN s = 1 .. Len(s) /\ Len(s) \in Nat
      /\ \A i \in 1 .. Len(s) : Append(s, r)[i] = s[i]
      /\ Append(s, r)[Len(s) + 1] = r
  OBVIOUS
<1> DEFINE u == Append(s, r)
<1> HIDE DEF u
<1>2. \A i \in DOMAIN u : i \in DOMAIN s \/ i = Len(s) + 1
  BY <1>1 DEF u
<1>3. /\ \A i \in DOMAIN s : i \in DOMAIN u /\ u[i] = s[i]
      /\ Len(s) + 1 \in DOMAIN u /\ u[Len(s) + 1] = r
  BY <1>1 DEF u
<1>4. \A p : p \in Elements(u) <=> p \in Elements(s) \/ p = r
  BY <1>2, <1>3 DEF Elements
<1> QED
  BY <1>4 DEF Elements, u

LEMMA ListAdvances ==
  ASSUME PointersWrapWithRing, GoodRing(flMem, flHead, flTail),
         NEW in, Advances(in), in.allocs \in 0 .. Len(List),
         NEW rest, rest = SubSeq(List, in.allocs + 1, Len(List)),
         NEW back, back = IF in.push # 0 THEN in.push ELSE in.free,
         back = 0 \/ back \in Registers \ Elements(rest)
  PROVE  /\ GoodRing(flMem, flHead, flTail)'
         /\ OnList' = Elements(rest) \cup ({back} \ {0})
<1> DEFINE h == Advance(flHead, in.allocs)
<1>1. GoodRing(flMem, h, flTail) /\ ListOf(flMem, h, flTail) = rest
  BY HeadMoves DEF List
<1>2. flHead' = h
  BY DEF Advances
<1>3. CASE back = 0
  <2>1. flMem' = flMem /\ flTail' = flTail
    BY <1>3 DEF Advances
  <2> HIDE DEF h
  <2>2. List' = rest /\ GoodRing(flMem, flHead, flTail)'
    BY <1>1, <1>2, <2>1 DEF List
  <2> QED
    BY <1>3, <2>2 DEF OnList
<1>4. CASE back # 0
  <2>1. flMem' = [flMem EXCEPT ![PtrIndex(flTail)] = back] /\ flTail' = Advance(flTail, 1)
    BY <1>4 DEF Advances
  <2>2. flMem \in [FlIndices -> Phys] /\ PtrIndex(flTail) \in FlIndices
    BY IndexIsInRing DEF GoodRing
  <2>3. back \in Registers \ Elements(rest) /\ back \in Phys
    BY <1>4 DEF Registers
  <2>4. /\ flMem' \in [FlIndices -> Phys] /\ flMem'[PtrIndex(flTail)] = back
        /\ \A i \in FlIndices \ {PtrIndex(flTail)} : flMem'[i] = flMem[i]
    BY <2>1, <2>2, <2>3
  <2> HIDE DEF h
  <2>5. /\ GoodRing(flMem', h, Advance(flTail, 1))
        /\ ListOf(flMem', h, Advance(flTail, 1)) = Append(rest, back)
    <3> DEFINE mem2 == flMem'
    <3>1. /\ mem2 \in [FlIndices -> Phys] /\ mem2[PtrIndex(flTail)] = back
          /\ \A i \in FlIndices \ {PtrIndex(flTail)} : mem2[i] = flMem[i]
          /\ GoodRing(flMem, h, flTail) /\ rest = ListOf(flMem, h, flTail)
          /\ back \in Registers \ Elements(rest) /\ PointersWrapWithRing
      BY <1>1, <2>3, <2>4
    <3> HIDE DEF mem2
    <3>2. /\ GoodRing(mem2, h, Advance(flTail, 1))
          /\ ListOf(mem2, h, Advance(flTail, 1)) = Append(rest, back)
      BY ONLY <3>1, TailMoves
    <3> QED
      BY <3>2 DEF mem2
  <2>6. List' = Append(rest, back) /\ GoodRing(flMem, flHead, flTail)'
    BY <1>2, <2>1, <2>5 DEF List
  <2>7. rest \in Seq(Registers)
    BY <1>1 DEF GoodRing
  <2>8. Elements(List') = Elements(rest) \cup {back}
    BY <2>3, <2>6, <2>7, AppendedIsIn
  <2> QED
    BY <1>4, <2>6, <2>8 DEF OnList, Elements
<1> QED
  BY <1>3, <1>4

\* A slot holds what it held, or the image of a branch dispatched in the cycle.
LEMMA ListSlotAfter ==
  ASSUME NEW in, FreelistCycle(in), NEW t \in Slots, flCkpt'[t].valid
  PROVE  \/ flCkpt'[t] = flCkpt[t]
         \/ Advances(in) /\ \E k \in DOMAIN in.caps : flCkpt'[t] = ImageOf(in.caps[k])
<1>1. ~Vacant.valid
  BY DEF Vacant
<1>2. CASE Rebuild(in.mapped)
  BY <1>1, <1>2 DEF Rebuild
<1>3. CASE RestoreList(in.restore)
  BY <1>1, <1>3 DEF RestoreList
<1>4. CASE Advances(in)
  <2> DEFINE capSlot(n) == IF n = 1 THEN Lowest(OpenSlots)
                           ELSE Lowest(OpenSlots \ {Lowest(OpenSlots)})
             taken == {n \in DOMAIN in.caps : n <= Cardinality(OpenSlots)}
  <2>1. flCkpt' = [s \in Slots |->
           IF \E n \in taken : capSlot(n) = s
           THEN ImageOf(in.caps[CHOOSE n \in taken : capSlot(n) = s])
           ELSE IF flCkpt[s].order > in.drop THEN flCkpt[s] ELSE Vacant]
    BY <1>4 DEF Advances
  <2>2. taken \subseteq DOMAIN in.caps
    OBVIOUS
  <2> HIDE DEF capSlot, taken
  <2> QED
    BY <1>1, <1>4, <2>1, <2>2
<1> QED
  BY <1>2, <1>3, <1>4 DEF FreelistCycle

\* A restore of the list takes the image of its branch.
LEMMA ListHitIsASlot ==
  ASSUME NEW order, RestoreHit(order)
  PROVE  /\ RestoreSlot(order) \in Slots
         /\ flCkpt[RestoreSlot(order)].valid
         /\ flCkpt[RestoreSlot(order)].order = order
<1> DEFINE M == MatchingSlots(order)
<1>1. M \in SUBSET (0 .. CkptDepth - 1) /\ M # {} /\ CkptDepth - 1 \in Nat
  BY FreelistAssumption DEF MatchingSlots, Slots, RestoreHit
<1> HIDE DEF M
<1>2. \E s \in M : \A t \in M : t <= s
  BY <1>1, GreatestOf
<1>3. RestoreSlot(order) \in M
  BY <1>2 DEF RestoreSlot, M
<1> QED
  BY <1>3 DEF M, MatchingSlots

-----------------------------------------------------------------------------
\* The three uses after a cycle.

UsesAreApart == GoodRing(flMem, flHead, flTail) /\ Apart(mapTable, Olds, OnList)

\* What the free list sees of a cycle.
ListInput(s, restore, rebuild) ==
  [allocs |-> Len(Allocs(s)), free |-> Released, push |-> Pushed(restore),
   drop |-> DropOrder, caps |-> CapturesOf(s), restore |-> restore,
   rebuild |-> rebuild, mapped |-> RMT!MappedRegs]

LEMMA ListInputIs ==
  ASSUME NEW irq, NEW wb, NEW s, NEW K, NEW rebuild, Step(irq, wb, s, K, rebuild),
         NEW restore, restore = RestoreOrder(irq, wb),
         NEW in, in = ListInput(s, restore, rebuild)
  PROVE  /\ FreelistCycle(in)
         /\ in.allocs = AllocsUpTo(s, K) /\ in.caps = CapturesOf(s)
         /\ in.free = Released /\ in.push = Pushed(restore)
         /\ in.restore = restore /\ (in.rebuild <=> rebuild) /\ in.mapped = RMT!MappedRegs
<1>1. FreelistCycle(in)
  BY DEF Step, ListInput
<1>2. K \in 0 .. 2 /\ s \in [1 .. K -> Instrs]
  BY DEF Step, Offer
<1>3. Len(Allocs(s)) = AllocsUpTo(s, K)
  BY <1>2, AllocsAre
<1> QED
  BY <1>1, <1>3 DEF ListInput

\* Once an instruction has retired, what it overwrote waits one cycle longer.
LEMMA RetiredLeaves ==
  ASSUME OrdinaryProgram, InUseInv, NEW irq \in BOOLEAN, NEW wb,
         NEW s, NEW K, NEW rebuild, Step(irq, wb, s, K, rebuild),
         NEW z \in Olds, z.order \in retired
  PROVE  z \notin Olds'
<1>1. /\ MapInv /\ Given \subseteq Nat /\ orderId \in Nat /\ z.order \in Given
      /\ \A o \in Given : o < orderId
  BY OldsAre, VisibleNow DEF InUseInv, MapInv
<1>2. ASSUME z.order \in InRing PROVE FALSE
  <2>1. PICK i \in Indices : rob[i].valid /\ rob[i].order = z.order
    BY <1>2 DEF InRing
  <2>2. z.order < rob[i].order
    BY <1>1, <2>1 DEF MapInv, RetiredIsOld
  <2>3. z.order \in Nat
    BY <1>1
  <2> QED
    BY <2>1, <2>2, <2>3
<1>3. ASSUME z \in NewOlds(s, K) PROVE FALSE
  <2>1. PICK n \in 1 .. K : z = NewOld(s, n)
    BY <1>3 DEF NewOlds
  <2>2. z.order = orderId + n - 1 /\ n \in Int /\ n >= 1
    BY <2>1 DEF NewOld
  <2>3. z.order < orderId
    BY <1>1
  <2> QED
    BY <1>1, <2>2, <2>3
<1> QED
  BY <1>1, <1>2, <1>3, OldsAfter

\* A commit hands back what it overwrote, behind what is left of the list.
LEMMA CommitReturns ==
  ASSUME OrdinaryProgram, PointersWrapWithRing, InUseInv,
         NEW in, Advances(in), in.push = 0, in.free = Released,
         in.allocs \in 0 .. Len(List),
         NEW F, F = Elements(SubSeq(List, in.allocs + 1, Len(List))),
         NEW mp, NEW O, Apart(mp, O, F),
         \A a \in RMT!ArchRegs \ {0} : mapTable'[a] = mp[a],
         Olds' \in SUBSET O, \A z \in Olds : z.order \in retired => z \in O \ Olds'
  PROVE  UsesAreApart'
<1> DEFINE rest == SubSeq(List, in.allocs + 1, Len(List))
           mp2 == mapTable'
<1>1. GoodRing(flMem, flHead, flTail) /\ RobTypeOK
  BY DEF InUseInv, NothingTwice, MapInv, RenameInv, HistoryInv, RingInv, RetireTypeOK
<1>2. Elements(rest) = F
  OBVIOUS
<1>3. Released = IF in.push # 0 THEN in.push ELSE in.free
  OBVIOUS
<1>4. \A a \in RMT!ArchRegs \ {0} : mp2[a] = mp[a]
  OBVIOUS
<1> HIDE DEF rest, mp2
<1>5. ASSUME Released = 0 \/ Released \in Registers \ F
      PROVE  /\ GoodRing(flMem, flHead, flTail)'
             /\ OnList' = F \cup ({Released} \ {0})
  <2>1. /\ PointersWrapWithRing /\ GoodRing(flMem, flHead, flTail)
        /\ Advances(in) /\ in.allocs \in 0 .. Len(List)
        /\ rest = SubSeq(List, in.allocs + 1, Len(List))
        /\ Released = IF in.push # 0 THEN in.push ELSE in.free
    BY <1>1, <1>3 DEF rest
  <2>2. Released = 0 \/ Released \in Registers \ Elements(rest)
    BY <1>2, <1>5
  <2>3. /\ GoodRing(flMem, flHead, flTail)'
        /\ OnList' = Elements(rest) \cup ({Released} \ {0})
    BY ONLY <2>1, <2>2, ListAdvances
  <2> QED
    BY <1>2, <2>3
<1>6. CASE Released = 0
  <2>1. GoodRing(flMem, flHead, flTail)' /\ OnList' = F
    BY <1>5, <1>6
  <2>2. F \in SUBSET F
    OBVIOUS
  <2>3. Apart(mp2, Olds', F)
    BY <1>4, <2>2, ApartOfFewer
  <2> QED
    BY <2>1, <2>3 DEF UsesAreApart, Apart, mp2
<1>7. CASE Released # 0
  <2>1. PICK z \in Olds : Released = z.old /\ z.order \in retired
    BY <1>7, ReleasedIs
  <2>2. z \in O /\ z \notin Olds'
    BY <2>1
  <2> DEFINE F2 == F \cup {z.old}
             O2 == O \ {z}
  <2>3. Apart(mp, O2, F2) /\ z.old # 0 /\ z.old \notin F
    <3>1. Apart(mp, O, F)
      OBVIOUS
    <3> QED
      BY ONLY <2>2, <3>1, ApartReleases
  <2>4. Released \in Registers \ F
    BY <1>1, <2>1, <2>3, HandedBackAreRegisters DEF Registers
  <2>5. GoodRing(flMem, flHead, flTail)' /\ OnList' = F2
    BY <1>5, <1>7, <2>1, <2>4
  <2>6. Olds' \in SUBSET O2 /\ F2 \in SUBSET F2
    BY <2>2
  <2> HIDE DEF F2, O2
  <2>7. Apart(mp2, Olds', F2)
    BY <1>4, <2>3, <2>6, ApartOfFewer
  <2> QED
    BY <2>5, <2>7 DEF UsesAreApart, Apart, mp2
<1> QED
  BY <1>6, <1>7

\* Dispatch takes from the list, and a commit hands back what it overwrote.
LEMMA UsesAfterDispatch ==
  ASSUME OrdinaryProgram, PointersWrapWithRing, InUseInv,
         NEW irq \in BOOLEAN, NEW wb, NEW s, NEW K, NEW rebuild,
         Step(irq, wb, s, K, rebuild), NEW restore, restore = RestoreOrder(irq, wb),
         ~rebuild, ~RestoreHits(restore), ~ListHits(restore), Undone(restore) = {}
  PROVE  UsesAreApart'
<1> DEFINE in == ListInput(s, restore, rebuild)
           F == Elements(Behind(s, K))
           O == Olds \cup NewOlds(s, K)
<1>1. /\ MapInv /\ RenameInv /\ NothingTwice
      /\ K \in 0 .. 2 /\ s \in [1 .. K -> Instrs]
      /\ Offer(FlushOf(irq, wb), s, K) /\ Served(s)
  BY DEF InUseInv, MapInv, Step, Offer
<1>2. /\ FreelistCycle(in) /\ in.allocs = AllocsUpTo(s, K) /\ in.free = Released
      /\ in.push = Pushed(restore) /\ in.restore = restore /\ ~in.rebuild
  BY ListInputIs
<1>3. in.push = 0
  BY <1>2 DEF Pushed
<1> HIDE DEF in
<1>4. Advances(in)
  BY <1>2 DEF FreelistCycle, ListHits
<1>5. StillApart(s, K)
  <2>1. \A n \in 0 .. K : StillApart(s, n)
    BY <1>1, DispatchKeepsApart
  <2> QED
    BY <1>1, <2>1
<1>6. /\ in.allocs \in 0 .. Len(List) /\ Apart(MapOf(s, K), O, F)
      /\ F = Elements(SubSeq(List, in.allocs + 1, Len(List)))
  BY <1>2, <1>5 DEF StillApart, Behind
<1>7. mapTable' = MapOf(s, K)
  <2>1. ~ExceptionNow
    BY <1>1, NoFaultShows DEF RenameInv, HistoryInv, RingInv, RetireTypeOK
  <2>2. mapTable' = RMT!MapAfter(Allocs(s), Len(Allocs(s)))
    BY <1>1, <2>1, TableAfter
  <2> QED
    BY <1>1, <2>2, AllocsAre DEF MapOf
<1>8. Olds' \in SUBSET O
  BY <1>1, OldsAfter
<1>9. \A z \in Olds : z.order \in retired => z \in O \ Olds'
  BY RetiredLeaves
<1>10. \A a \in RMT!ArchRegs \ {0} : mapTable'[a] = MapOf(s, K)[a]
  BY <1>7
<1> HIDE DEF F, O
<1> QED
  BY <1>2, <1>3, <1>4, <1>6, <1>8, <1>9, <1>10, CommitReturns

\* An undo puts back what the youngest visible instruction overwrote, and its
\* own register goes to the list.
LEMMA UsesAfterUndo ==
  ASSUME OrdinaryProgram, PointersWrapWithRing, InUseInv,
         NEW irq \in BOOLEAN, NEW wb, NEW s, NEW K, NEW rebuild,
         Step(irq, wb, s, K, rebuild), NEW restore, restore = RestoreOrder(irq, wb),
         ~rebuild, ~RestoreHits(restore), ~ListHits(restore), Undone(restore) # {}
  PROVE  UsesAreApart'
<1> DEFINE in == ListInput(s, restore, rebuild)
<1>1. /\ MapInv /\ RenameInv /\ NothingTwice /\ GoodRing(flMem, flHead, flTail)
      /\ Apart(mapTable, Olds, OnList)
      /\ OneRedirect /\ RetiredIsOld /\ UndoIsYoungest /\ EntriesLogged
      /\ MapIsVisible /\ K \in 0 .. 2 /\ s \in [1 .. K -> Instrs]
      /\ RobTypeOK
  BY DEF InUseInv, MapInv, NothingTwice, Step, Offer, RenameInv, HistoryInv, RingInv,
         RetireTypeOK
<1>2. ~ExceptionNow
  BY <1>1, NoFaultShows
<1>3. /\ Visible \subseteq Given /\ Given \subseteq Nat
  BY <1>1, VisibleNow
<1>4. ~ckptRecover /\ Undone(restore) = {e \in recoverOut : e.ins.rd # 0}
  BY <1>2 DEF Undone
<1>5. PICK e \in recoverOut : e.ins.rd # 0
  BY <1>4
<1>6. /\ \A d \in recoverOut : d = e
      /\ commit0 = {}
  BY <1>1, <1>5 DEF RenameInv, PortsTakeTurns
<1>7. Undone(restore) = {e}
  BY <1>4, <1>5, <1>6
<1>8. K = 0 /\ Visible' = Visible \ Undoing
  <2>1. \/ Restored(restore, K) \/ Dispatching(restore, K)
        \/ Skipping(restore, K) \/ Walking(restore, K)
    BY <1>1, VisibleAfter
  <2>2. ~Restored(restore, K) /\ ~Dispatching(restore, K) /\ ~Skipping(restore, K)
    BY <1>4, <1>5 DEF Restored, Dispatching, Skipping
  <2> QED
    BY <2>1, <2>2 DEF Walking
<1>9. e.order \in Visible /\ Undoing = {e.order}
  BY <1>4, <1>5, <1>6 DEF Visible, Undoing
<1> DEFINE rd == e.ins.rd
           z == Overwritten(e)
<1>10. z \in Olds /\ z.old = e.prdOld /\ z.order = e.order
  BY <1>5, <1>9 DEF Olds, Holding, Overwritten
<1>11. rd \in RMT!ArchRegs \ {0} /\ e.prdNew \in Phys
  <2>1. e \in Entries /\ e.ins \in Instrs /\ e.prdNew \in Phys
    BY <1>1, <1>5, RenameAssumption DEF RobTypeOK, Entries
  <2>2. rd \in Nat /\ rd < NumArch
    BY <2>1, RenameAssumption, RobAssumption
  <2> QED
    BY <1>5, <2>1, <2>2, FreelistAssumption DEF RMT!ArchRegs
<1>12. mapTable[rd] = e.prdNew
  <2>1. log[e.order + 1].ins.rd = rd /\ log[e.order + 1].prd = e.prdNew
    BY <1>1, <1>5 DEF EntriesLogged, Logged
  <2>2. \A q \in Visible : q <= e.order
    <3>1. \A q \in Visible : q \in Nat
      BY <1>3
    <3>2. e.order \in Nat
      BY <1>9, <3>1
    <3> SUFFICES ASSUME NEW q \in Visible, q > e.order PROVE FALSE
      BY <3>1, <3>2
    <3>3. q \in squashed
      BY <1>1, <1>3, <1>5 DEF UndoIsYoungest
    <3>4. q \in InRing \cup Undoing
      BY <3>3 DEF Visible
    <3>5. q \in InRing => q < e.order
      BY <1>1, <1>5 DEF InRing, UndoIsYoungest
    <3> QED
      BY <1>9, <3>1, <3>2, <3>4, <3>5
  <2>3. Names(log, Visible, rd, e.prdNew)
    BY <1>9, <2>1, <2>2 DEF Names, WritersIn
  <2>4. Names(log, Visible, rd, mapTable[rd])
    BY <1>1, <1>11 DEF MapIsVisible
  <2>5. Visible \in SUBSET Nat
    BY <1>3
  <2> HIDE DEF rd
  <2> QED
    BY <2>3, <2>4, <2>5, NamesIsOne
<1>13. \A a \in RMT!ArchRegs \ {0} :
         mapTable'[a] = IF a = rd THEN z.old ELSE mapTable[a]
  BY <1>1, <1>2, <1>7, <1>10, TableAfter
<1>14. /\ Apart(mapTable', Olds \ {z}, OnList \cup {e.prdNew})
       /\ e.prdNew # 0 /\ e.prdNew \notin OnList
  <2> DEFINE mp2 == mapTable'
  <2>1. \A a \in RMT!ArchRegs \ {0} : mp2[a] = IF a = rd THEN z.old ELSE mapTable[a]
    BY <1>13
  <2> HIDE DEF mp2, z, rd
  <2>2. /\ Apart(mp2, Olds \ {z}, OnList \cup {mapTable[rd]})
        /\ mapTable[rd] # 0 /\ mapTable[rd] \notin OnList
    BY <1>1, <1>10, <1>11, <2>1, ApartUndoes
  <2> QED
    BY <1>12, <2>2 DEF mp2
<1>15. Olds' \in SUBSET (Olds \ {z})
  <2> SUFFICES ASSUME NEW x \in Olds' PROVE x \in Olds /\ x # z
    OBVIOUS
  <2>1. \/ x \in Olds /\ x.order \in InRing /\ x.order \in Visible'
        \/ x \in NewOlds(s, K)
    BY <1>1, OldsAfter
  <2>2. x \notin NewOlds(s, K)
    BY <1>8 DEF NewOlds
  <2> QED
    BY <1>8, <1>9, <1>10, <2>1, <2>2
<1>16. GoodRing(flMem, flHead, flTail)' /\ OnList' = OnList \cup {e.prdNew}
  <2>1. /\ FreelistCycle(in) /\ in.allocs = AllocsUpTo(s, K)
        /\ in.push = Pushed(restore) /\ in.restore = restore /\ ~in.rebuild
    BY ListInputIs
  <2> HIDE DEF in
  <2>2. in.push = e.prdNew
    <3>1. (CHOOSE d \in Undone(restore) : TRUE) = e
      BY <1>7
    <3> QED
      BY <1>7, <2>1, <3>1 DEF Pushed
  <2>3. Advances(in)
    BY <2>1 DEF FreelistCycle, ListHits
  <2>4. List \in Seq(Registers) /\ Len(List) \in Nat
    BY <1>1 DEF GoodRing, List
  <2>5. in.allocs = 0
    BY <1>1, <1>8, <2>1, AllocsAre
  <2>6. List = SubSeq(List, in.allocs + 1, Len(List)) /\ in.allocs \in 0 .. Len(List)
    BY <2>4, <2>5
  <2>7. e.prdNew \in Registers \ Elements(List)
    BY <1>11, <1>14 DEF Registers, OnList
  <2>8. e.prdNew = IF in.push # 0 THEN in.push ELSE in.free
    BY <1>14, <2>2
  <2>9. /\ GoodRing(flMem, flHead, flTail)'
        /\ OnList' = Elements(List) \cup ({e.prdNew} \ {0})
    BY <1>1, <2>3, <2>6, <2>7, <2>8, ListAdvances
  <2> QED
    BY <1>14, <2>9 DEF OnList
<1>17. Apart(mapTable', Olds', OnList')
  <2> DEFINE F2 == OnList \cup {e.prdNew}
             O2 == Olds \ {z}
             mp2 == mapTable'
  <2>1. /\ F2 \in SUBSET F2 /\ Olds' \in SUBSET O2 /\ Apart(mp2, O2, F2)
        /\ \A a \in RMT!ArchRegs \ {0} : mp2[a] = mp2[a]
    BY <1>14, <1>15
  <2> HIDE DEF F2, O2, mp2
  <2>2. Apart(mp2, Olds', F2)
    BY <2>1, ApartOfFewer
  <2> QED
    BY <1>16, <2>2 DEF F2, mp2
<1> QED
  BY <1>16, <1>17 DEF UsesAreApart, Apart

\* A restore puts back two images that fit, or the map's alone when the list
\* has none.
LEMMA UsesAfterRestore ==
  ASSUME OrdinaryProgram, PointersWrapWithRing, InUseInv,
         NEW irq \in BOOLEAN, NEW wb, NEW s, NEW K, NEW rebuild,
         Step(irq, wb, s, K, rebuild), NEW restore, restore = RestoreOrder(irq, wb),
         ~rebuild, RestoreHits(restore)
  PROVE  UsesAreApart'
<1> DEFINE in == ListInput(s, restore, rebuild)
           t == RMT!RmtSlot(restore)
           mp == rmtCkpt[t].map
           U == {x \in Olds : x.order <= restore}
<1>1. /\ MapInv /\ RenameInv /\ NothingTwice /\ ImageIsConsistent
      /\ OneRedirect /\ RetiredIsOld /\ UndoIsYoungest
      /\ K \in 0 .. 2 /\ s \in [1 .. K -> Instrs]
  BY DEF InUseInv, MapInv, NothingTwice, Step, Offer
<1>2. restore \in Mispredicted /\ RMT!RmtHit(restore) /\ restore # NoOrder
  BY RestoreFollows DEF RestoreHits
<1>3. /\ t \in Slots /\ rmtCkpt[t].valid /\ rmtCkpt[t].order = restore
      /\ restore \in Int /\ \A q \in retired : q <= restore
      /\ Apart(mp, U, OnList)
  BY <1>2, RestoredApart
<1>4. mapTable' = mp
  <2>1. ~ExceptionNow
    BY <1>1, NoFaultShows DEF RenameInv, HistoryInv, RingInv, RetireTypeOK
  <2> QED
    BY <1>1, <2>1, TableAfter
<1>5. K = 0 /\ Visible' = {o \in Visible : o <= restore}
  <2>1. \/ Restored(restore, K) \/ Dispatching(restore, K)
        \/ Skipping(restore, K) \/ Walking(restore, K)
    BY <1>1, VisibleAfter
  <2> QED
    BY <2>1 DEF Restored, Dispatching, Skipping, Walking
<1>6. Olds' \in SUBSET U
  <2> SUFFICES ASSUME NEW x \in Olds' PROVE x \in U
    OBVIOUS
  <2>1. \/ x \in Olds /\ x.order \in InRing /\ x.order \in Visible'
        \/ x \in NewOlds(s, K)
    BY <1>1, OldsAfter
  <2>2. x \notin NewOlds(s, K)
    BY <1>5 DEF NewOlds
  <2> QED
    BY <1>5, <2>1, <2>2
<1>7. /\ FreelistCycle(in) /\ in.allocs = AllocsUpTo(s, K) /\ in.free = Released
      /\ in.push = Pushed(restore) /\ in.restore = restore /\ ~in.rebuild
  BY ListInputIs
<1> HIDE DEF in, t
<1>8. CASE ListHits(restore)
  <2> DEFINE c == flCkpt[RestoreSlot(restore)]
             F == Elements(ListIn(c))
  <2>1. RestoreSlot(restore) \in Slots /\ c.valid /\ c.order = restore
    BY <1>8, ListHitIsASlot DEF ListHits
  <2>2. flMem' = c.mem /\ flHead' = c.head /\ flTail' = c.tail
    BY <1>7, <1>8 DEF FreelistCycle, ListHits, RestoreList
  <2>3. Spares(c)
    BY <1>1, <2>1 DEF NothingTwice
  <2>4. F \cap {mp[a] : a \in RMT!ArchRegs} = {}
    BY <1>1, <1>3, <2>1 DEF ImageIsConsistent, ListIn
  <2> HIDE DEF c, mp
  <2>5. /\ GoodRing(c.mem, c.head, c.tail)
        /\ \A x \in U : x.old \notin F
    BY <2>1, <2>3 DEF Spares
  <2>6. \A a \in RMT!ArchRegs \ {0} : mp[a] \notin F
    BY <2>4
  <2>7. GoodRing(flMem, flHead, flTail)' /\ OnList' = F
    BY <2>2, <2>5 DEF OnList, List, ListIn
  <2> HIDE DEF F, U
  <2>8. Apart(mp, U, F)
    BY <1>3, <2>5, <2>6, ApartOfAnother
  <2>9. F \in SUBSET F /\ \A a \in RMT!ArchRegs \ {0} : mp[a] = mp[a]
    OBVIOUS
  <2>10. Apart(mp, Olds', F)
    BY <1>6, <2>8, <2>9, ApartOfFewer
  <2> QED
    BY <1>4, <2>7, <2>10 DEF UsesAreApart, Apart
<1>9. CASE ~ListHits(restore)
  <2>1. Advances(in)
    BY <1>7, <1>9 DEF FreelistCycle, ListHits
  <2>2. in.push = 0
    <3>1. ~ExceptionNow
      BY <1>1, NoFaultShows DEF RenameInv, HistoryInv, RingInv, RetireTypeOK
    <3>2. Undone(restore) = {}
      BY <3>1 DEF Undone
    <3> QED
      BY <1>7, <3>2 DEF Pushed
  <2>3. List \in Seq(Registers) /\ Len(List) \in Nat
    BY <1>1 DEF NothingTwice, GoodRing, List
  <2>4. in.allocs = 0
    BY <1>1, <1>5, <1>7, AllocsAre
  <2>5. List = SubSeq(List, in.allocs + 1, Len(List)) /\ in.allocs \in 0 .. Len(List)
    BY <2>3, <2>4
  <2>6. OnList = Elements(SubSeq(List, in.allocs + 1, Len(List)))
    BY <2>5 DEF OnList
  <2>7. \A z \in Olds : z.order \in retired => z \in U \ Olds'
    BY <1>3, RetiredLeaves
  <2>8. \A a \in RMT!ArchRegs \ {0} : mapTable'[a] = mp[a]
    BY <1>4
  <2> HIDE DEF mp, U
  <2> QED
    BY <1>3, <1>6, <1>7, <2>1, <2>2, <2>5, <2>6, <2>7, <2>8, CommitReturns
<1> QED
  BY <1>8, <1>9

\* A ring filled from its start.
LEMMA FilledList ==
  ASSUME NEW mem, NEW n \in 0 .. FlDepth - 1, GoodRing(mem, 0, n),
         NEW p \in Elements(ListOf(mem, 0, n))
  PROVE  \E i \in 0 .. n - 1 : p = mem[i]
<1> DEFINE l == ListOf(mem, 0, n)
           c == (n - 0) % PtrMod
<1>1. mem \in [FlIndices -> Phys] /\ 0 \in FlPointers /\ n \in FlPointers
  BY DEF GoodRing
<1>2. c = n
  BY <1>1, Sizes, PointersAdvance
<1>3. DOMAIN l = 1 .. c /\ \A k \in 1 .. c : l[k] = mem[PtrIndex(Advance(0, k - 1))]
  BY <1>1, ListReads
<1> HIDE DEF l, c
<1>4. PICK k \in 1 .. n : p = mem[PtrIndex(Advance(0, k - 1))]
  BY <1>2, <1>3 DEF Elements, l
<1>5. k - 1 \in 0 .. n - 1 /\ k - 1 < FlDepth /\ k - 1 < PtrMod /\ k - 1 \in 0 .. PtrMod
  BY Sizes
<1>6. Advance(0, k - 1) = k - 1
  BY <1>1, <1>5, Sizes, PointersAdvance
<1>7. PtrIndex(k - 1) = k - 1
  BY <1>5, Sizes DEF PtrIndex
<1> QED
  BY <1>4, <1>5, <1>6, <1>7

\* A rebuild comes when nothing is in flight, and takes what the map leaves.
LEMMA RebuiltList ==
  ASSUME NEW mapped, Rebuild(mapped)
  PROVE  GoodRing(flMem, flHead, flTail)' /\ OnList' \cap mapped = {}
<1> DEFINE free == FreeOf(mapped)
           n == Cardinality(free)
<1>1. /\ flMem' = [i \in FlIndices |->
                     IF \E p \in free : RankIn(free, p) = i
                     THEN CHOOSE p \in free : RankIn(free, p) = i ELSE 0]
      /\ flHead' = 0 /\ flTail' = n
  BY DEF Rebuild, FreeOf, RankIn, Registers
<1>2. /\ n \in 0 .. FlDepth - 1
      /\ \A p \in free : RankIn(free, p) \in 0 .. n - 1
      /\ \A i \in 0 .. n - 1 : \E p \in free : RankIn(free, p) = i
      /\ free \subseteq Registers /\ \A p \in free : p \notin mapped
  <2>1. free \in SUBSET Registers /\ n = Cardinality(free) /\ \A p \in free : p \notin mapped
    BY DEF FreeOf
  <2> HIDE DEF free, n
  <2> QED
    BY <2>1, RanksFillTheFront
<1> DEFINE mem == flMem'
<1> HIDE DEF free, n
<1>3. mem \in [FlIndices -> Phys]
  <2>1. 0 \in Phys /\ Registers \subseteq Phys
    BY Sizes DEF Phys, Registers
  <2> QED
    BY <1>1, <1>2, <2>1
<1>4. \A i \in 0 .. n - 1 : mem[i] \in free /\ RankIn(free, mem[i]) = i
  <2>1. 0 .. n - 1 \subseteq FlIndices
    BY <1>2, Sizes DEF FlIndices
  <2> QED
    BY <1>1, <1>2, <2>1
<1> HIDE DEF mem
<1>5. GoodRing(mem, 0, n)
  <2>1. \A i \in 0 .. n - 1 : mem[i] \in Registers
    BY <1>2, <1>4
  <2>2. \A i, j \in 0 .. n - 1 : mem[i] = mem[j] => i = j
    BY <1>4
  <2> QED
    BY <1>2, <1>3, <2>1, <2>2, FilledRing
<1>6. Elements(ListOf(mem, 0, n)) \cap mapped = {}
  <2>1. \A p \in Elements(ListOf(mem, 0, n)) : \E i \in 0 .. n - 1 : p = mem[i]
    BY <1>2, <1>5, FilledList
  <2> QED
    BY <1>2, <1>4, <2>1
<1>7. flMem' = mem
  BY DEF mem
<1> QED
  BY <1>1, <1>5, <1>6, <1>7 DEF OnList, List

LEMMA IdleIsEmpty ==
  ASSUME OrdinaryProgram, MapInv, NEW irq \in BOOLEAN, NEW wb,
         NEW s, NEW K, NEW rebuild, Step(irq, wb, s, K, rebuild),
         RebuiltIdle(FlushOf(irq, wb), K)
  PROVE  /\ K = 0 /\ RestoreOrder(irq, wb) = NoOrder /\ Olds' = {}
         /\ recoverOut = {} /\ \A i \in Indices : ~rob[i].valid
<1> DEFINE f == FlushOf(irq, wb)
<1>1. /\ RebuiltIdle(f, K) /\ RenameInv /\ UndoIsYoungest /\ RobTypeOK /\ RingIsContiguous
  BY DEF MapInv, RenameInv, HistoryInv, RingInv, RetireTypeOK
<1>2. K = 0 /\ ~f.valid /\ ~rob[robHead].valid /\ ~recovering
  BY <1>1 DEF RebuiltIdle
<1>3. RestoreOrder(irq, wb) = NoOrder
  BY <1>2, RestoreFollows
<1>4. recoverOut = {}
  BY <1>1, <1>2 DEF UndoIsYoungest
<1>5. ASSUME NEW i \in Indices PROVE ~rob[i].valid
  <2>1. robHead \in Indices /\ robCount \in Nat
    BY <1>1, RobAssumption DEF RobTypeOK
  <2>2. Offset(robHead) = 0 /\ Offset(i) \in Nat
    BY <2>1, RingArithmetic, RobAssumption DEF Offset, Indices
  <2>3. ~(0 < robCount)
    BY <1>1, <1>2, <2>1, <2>2 DEF RingIsContiguous
  <2>4. ~(Offset(i) < robCount)
    BY <2>1, <2>2, <2>3
  <2> QED
    BY <1>1, <2>4 DEF RingIsContiguous
<1>6. ASSUME NEW x \in Olds' PROVE FALSE
  <2>1. x.order \in InRing \/ x \in NewOlds(s, K)
    BY OldsAfter
  <2> QED
    BY <1>2, <1>5, <2>1 DEF InRing, NewOlds
<1> QED
  BY <1>2, <1>3, <1>4, <1>5, <1>6

LEMMA RebuildIs ==
  ASSUME NEW irq, NEW wb, NEW s, NEW K, NEW rebuild, Step(irq, wb, s, K, rebuild)
  PROVE  rebuild => RebuiltIdle(FlushOf(irq, wb), K) /\ Rebuild(RMT!MappedRegs)
BY DEF Step, FreelistCycle

LEMMA UsesAfterRebuild ==
  ASSUME OrdinaryProgram, PointersWrapWithRing, InUseInv,
         NEW irq \in BOOLEAN, NEW wb, NEW s, NEW K, NEW rebuild,
         Step(irq, wb, s, K, rebuild), NEW restore, restore = RestoreOrder(irq, wb),
         RebuiltIdle(FlushOf(irq, wb), K), Rebuild(RMT!MappedRegs)
  PROVE  UsesAreApart'
<1> DEFINE mp2 == mapTable'
<1>1. /\ MapInv /\ RenameInv /\ NothingTwice /\ RobTypeOK
      /\ K \in 0 .. 2 /\ s \in [1 .. K -> Instrs]
  BY DEF InUseInv, MapInv, Step, Offer, RenameInv, HistoryInv, RingInv, RetireTypeOK
<1>2. K = 0 /\ restore = NoOrder /\ Olds' = {} /\ recoverOut = {}
  BY <1>1, IdleIsEmpty
<1>5. ~ExceptionNow /\ ~RestoreHits(restore) /\ Undone(restore) = {}
  <2>1. ~ExceptionNow
    BY <1>1, NoFaultShows
  <2> QED
    BY <1>2, <2>1 DEF RestoreHits, Undone
<1>6. mapTable' = MapOf(s, K)
  <2>1. mapTable' = RMT!MapAfter(Allocs(s), Len(Allocs(s)))
    BY <1>1, <1>5, TableAfter
  <2> QED
    BY <1>1, <2>1, AllocsAre DEF MapOf
<1>7. \A a \in RMT!ArchRegs : mp2[a] = mapTable[a]
  <2>1. AllocsUpTo(s, K) = 0
    BY <1>1, <1>2, AllocsAre
  <2> QED
    BY <1>6, <2>1, MapAfterNone DEF MapOf
<1>8. GoodRing(flMem, flHead, flTail)' /\ OnList' \cap RMT!MappedRegs = {}
  BY RebuiltList
<1>9. Apart(mapTable, {}, OnList')
  <2>1. Apart(mapTable, Olds, OnList)
    BY <1>1 DEF NothingTwice
  <2>2. \A a \in RMT!ArchRegs : mapTable[a] \notin OnList'
    BY <1>8 DEF RMT!MappedRegs
  <2> QED
    BY <2>1, <2>2 DEF Apart
<1>10. Apart(mp2, Olds', OnList')
  <2> DEFINE F == OnList'
  <2>1. Apart(mapTable, {}, F) /\ F \in SUBSET F
    BY <1>9
  <2> HIDE DEF F, mp2
  <2>2. Apart(mp2, {}, F)
    BY <1>7, <2>1, ApartOfFewer
  <2> QED
    BY <1>2, <2>2 DEF F
<1> QED
  BY <1>8, <1>10 DEF UsesAreApart, Apart

\* Nothing renames x0.
LEMMA ZeroAfter ==
  ASSUME OrdinaryProgram, InUseInv, NEW irq \in BOOLEAN, NEW wb,
         NEW s, NEW K, NEW rebuild, Step(irq, wb, s, K, rebuild)
  PROVE  mapTable'[0] = 0 /\ \A t \in Slots : rmtCkpt'[t].map[0] = 0
<1> DEFINE restore == RestoreOrder(irq, wb)
<1>1. /\ RenameInv /\ ~ExceptionNow /\ mapTable[0] = 0
      /\ \A t \in Slots : rmtCkpt[t].map[0] = 0
  BY NoFaultShows DEF InUseInv, MapInv, NothingTwice, RenameInv, HistoryInv, RingInv, RetireTypeOK
<1>2. 0 \in RMT!ArchRegs
  BY FreelistAssumption DEF RMT!ArchRegs
<1>3. \A al, k : RMT!MapAfter(al, k)[0] = 0
  BY <1>1, <1>2 DEF RMT!MapAfter
<1>4. mapTable'[0] = 0
  <2>1. /\ RestoreHits(restore) => mapTable' = rmtCkpt[RMT!RmtSlot(restore)].map
        /\ ~RestoreHits(restore) /\ Undone(restore) = {} =>
             mapTable' = RMT!MapAfter(Allocs(s), Len(Allocs(s)))
        /\ ~RestoreHits(restore) => \A e \in Undone(restore), a \in RMT!ArchRegs :
             mapTable'[a] = IF e.ins.rd = a /\ a # 0 THEN e.prdOld ELSE mapTable[a]
    BY <1>1, TableAfter
  <2> HIDE DEF restore
  <2>2. RestoreHits(restore) => RMT!RmtSlot(restore) \in Slots
    BY HitIsASlot DEF RestoreHits
  <2> QED
    BY <1>1, <1>2, <1>3, <2>1, <2>2
<1>5. ASSUME NEW t \in Slots PROVE rmtCkpt'[t].map[0] = 0
  <2> DEFINE in == [restore |-> restore, drop |-> DropOrder,
            recover |-> {[rd |-> e.ins.rd, prd |-> e.prdOld] : e \in Undone(restore)},
            allocs |-> Allocs(s), caps |-> CapturesOf(s)]
  <2>1. RMT!RmtCycle(in)
    BY DEF Step
  <2> HIDE DEF in
  <2>2. \/ \E k \in DOMAIN in.caps :
             rmtCkpt'[t] = [valid |-> TRUE, order |-> in.caps[k].order,
                            map |-> RMT!MapAfter(in.allocs, in.caps[k].allocs)]
        \/ rmtCkpt'[t] = RMT!RmtVacant
        \/ rmtCkpt'[t] = rmtCkpt[t]
    BY <2>1, SlotAfter
  <2>3. RMT!RmtVacant.map[0] = 0
    BY <1>2 DEF RMT!RmtVacant, RMT!Identity
  <2>4. CASE \E k \in DOMAIN in.caps :
             rmtCkpt'[t] = [valid |-> TRUE, order |-> in.caps[k].order,
                            map |-> RMT!MapAfter(in.allocs, in.caps[k].allocs)]
    <3>1. \E al, k : rmtCkpt'[t].map = RMT!MapAfter(al, k)
      BY <2>4
    <3> QED
      BY <1>3, <3>1
  <2>5. CASE rmtCkpt'[t] = RMT!RmtVacant
    BY <2>3, <2>5
  <2>6. CASE rmtCkpt'[t] = rmtCkpt[t]
    BY <1>1, <2>6
  <2> QED
    BY <2>2, <2>4, <2>5, <2>6
<1> QED
  BY <1>4, <1>5

-----------------------------------------------------------------------------
\* The images of the list after a cycle: old ones, and those of the branches
\* dispatched in it, which hold what the list has behind them.
LEMMA ListImageAfter ==
  ASSUME OrdinaryProgram, PointersWrapWithRing, InUseInv, NEW irq, NEW wb,
         NEW s, NEW K, NEW rebuild, Step(irq, wb, s, K, rebuild),
         NEW t \in Slots, flCkpt'[t].valid
  PROVE  \/ flCkpt'[t] = flCkpt[t]
         \/ \E n \in 1 .. K :
              /\ flCkpt'[t].order = orderId + n - 1 /\ StillApart(s, n)
              /\ GoodRing(flCkpt'[t].mem, flCkpt'[t].head, flCkpt'[t].tail)
              /\ ListIn(flCkpt'[t]) = Behind(s, n)
<1> DEFINE restore == RestoreOrder(irq, wb)
           in == ListInput(s, restore, rebuild)
<1>1. /\ RenameInv /\ NothingTwice /\ GoodRing(flMem, flHead, flTail)
      /\ K \in 0 .. 2 /\ s \in [1 .. K -> Instrs] /\ Served(s)
      /\ Offer(FlushOf(irq, wb), s, K)
  BY DEF InUseInv, MapInv, NothingTwice, Step, Offer
<1>2. FreelistCycle(in) /\ in.caps = CapturesOf(s)
  BY ListInputIs
<1> HIDE DEF in
<1>3. ASSUME NEW k \in DOMAIN in.caps, flCkpt'[t] = ImageOf(in.caps[k])
      PROVE  \E n \in 1 .. K :
              /\ flCkpt'[t].order = orderId + n - 1 /\ StillApart(s, n)
              /\ GoodRing(flCkpt'[t].mem, flCkpt'[t].head, flCkpt'[t].tail)
              /\ ListIn(flCkpt'[t]) = Behind(s, n)
  <2>1. PICK n \in 1 .. K : /\ in.caps[k].order = orderId + n - 1
                            /\ in.caps[k].allocs = AllocsUpTo(s, n)
    <3>1. K \in 0 .. 2 /\ s \in [1 .. K -> Instrs] /\ k \in DOMAIN CapturesOf(s)
      BY <1>1, <1>2
    <3>2. \E n \in 1 .. K : /\ CapturesOf(s)[k].order = orderId + n - 1
                            /\ CapturesOf(s)[k].allocs = AllocsUpTo(s, n)
      BY ONLY <3>1, CapturesAre
    <3> QED
      BY <1>2, <3>2
  <2> DEFINE c == flCkpt'[t]
             h == Advance(flHead, AllocsUpTo(s, n))
  <2>2. c.order = orderId + n - 1 /\ c.mem = flMem /\ c.head = h /\ c.tail = flTail
    BY <1>3, <2>1 DEF ImageOf
  <2>3. StillApart(s, n)
    <3>1. n \in 0 .. K
      BY <1>1
    <3> QED
      BY <1>1, <3>1, DispatchKeepsApart
  <2>4. AllocsUpTo(s, n) \in 0 .. Len(List)
    BY <2>3 DEF StillApart
  <2>5. GoodRing(flMem, h, flTail) /\ ListOf(flMem, h, flTail) = Behind(s, n)
    BY <1>1, <2>4, HeadMoves DEF List, Behind
  <2> HIDE DEF c, h
  <2>6. GoodRing(c.mem, c.head, c.tail) /\ ListIn(c) = Behind(s, n)
    BY <2>2, <2>5 DEF ListIn
  <2> QED
    BY <2>2, <2>3, <2>6 DEF c
<1>4. CASE \E k \in DOMAIN in.caps : flCkpt'[t] = ImageOf(in.caps[k])
  BY <1>3, <1>4
<1> QED
  BY <1>2, <1>4, ListSlotAfter

\* They hand out nothing that was overwritten up to their branch.
LEMMA SparesAfter ==
  ASSUME OrdinaryProgram, PointersWrapWithRing, InUseInv,
         NEW irq \in BOOLEAN, NEW wb, NEW s, NEW K, NEW rebuild,
         Step(irq, wb, s, K, rebuild), NEW t \in Slots
  PROVE  Spares(flCkpt[t])'
<1> DEFINE c == flCkpt'[t]
<1>1. /\ MapInv /\ RenameInv /\ UndoIsYoungest /\ NothingTwice
  BY DEF InUseInv, MapInv
<1>2. /\ orderId \in Nat /\ Given \subseteq Nat /\ (\A o \in Given : o < orderId)
      /\ K \in 0 .. 2 /\ orderId' = orderId + K
      /\ Given' = Given \cup orderId .. orderId' - 1
  BY <1>1, StepMoves
<1>3. \A x \in Olds' : x \in Olds \/ x \in NewOlds(s, K)
  BY <1>1, OldsAfter
<1>4. \A x \in NewOlds(s, K) :
        \E m \in 1 .. K : s[m].rd # 0 /\ x = NewOld(s, m) /\ x.order = orderId + m - 1
  BY DEF NewOlds, NewOld
<1>5. SUFFICES ASSUME c.valid
               PROVE  /\ c.order \in Given' /\ GoodRing(c.mem, c.head, c.tail)
                      /\ \A x \in Olds' : x.order <= c.order => x.old \notin Elements(ListIn(c))
  BY DEF Spares, ListIn
<1>6. CASE c = flCkpt[t]
  <2>1. Spares(c) /\ c.valid
    BY <1>1, <1>5, <1>6 DEF NothingTwice
  <2> HIDE DEF c
  <2>2. /\ c.order \in Given /\ GoodRing(c.mem, c.head, c.tail)
        /\ \A x \in Olds : x.order <= c.order => x.old \notin Elements(ListIn(c))
    BY <2>1 DEF Spares
  <2>3. \A x \in NewOlds(s, K) : ~(x.order <= c.order)
    <3>1. c.order \in Nat /\ c.order < orderId
      BY <1>2, <2>2
    <3> SUFFICES ASSUME NEW x \in NewOlds(s, K) PROVE ~(x.order <= c.order)
      OBVIOUS
    <3>2. PICK m \in 1 .. K : x.order = orderId + m - 1
      BY <1>4
    <3> QED
      BY <1>2, <3>1, <3>2
  <2> QED
    BY <1>2, <1>3, <2>2, <2>3
<1>7. ASSUME NEW n \in 1 .. K, c.order = orderId + n - 1, StillApart(s, n),
             GoodRing(c.mem, c.head, c.tail), ListIn(c) = Behind(s, n)
      PROVE  /\ c.order \in Given' /\ GoodRing(c.mem, c.head, c.tail)
             /\ \A x \in Olds' : x.order <= c.order => x.old \notin Elements(ListIn(c))
  <2> HIDE DEF c
  <2>1. c.order \in Given'
    <3>1. orderId + n - 1 \in orderId .. orderId' - 1
      BY <1>2
    <3> QED
      BY <1>2, <1>7, <3>1
  <2>2. \A x \in Olds \cup NewOlds(s, n) : x.old \notin Elements(ListIn(c))
    BY <1>7 DEF StillApart, Apart
  <2>3. \A x \in NewOlds(s, K) : x.order <= c.order => x \in NewOlds(s, n)
    <3> SUFFICES ASSUME NEW x \in NewOlds(s, K), x.order <= c.order
                 PROVE  x \in NewOlds(s, n)
      OBVIOUS
    <3>1. PICK m \in 1 .. K : s[m].rd # 0 /\ x = NewOld(s, m) /\ x.order = orderId + m - 1
      BY <1>4
    <3>2. m \in 1 .. n
      BY <1>2, <1>7, <3>1
    <3> QED
      BY <3>1, <3>2 DEF NewOlds
  <2> QED
    BY <1>3, <1>7, <2>1, <2>2, <2>3
<1>8. \/ c = flCkpt[t]
      \/ \E n \in 1 .. K : /\ c.order = orderId + n - 1 /\ StillApart(s, n)
                           /\ GoodRing(c.mem, c.head, c.tail)
                           /\ ListIn(c) = Behind(s, n)
  BY <1>5, ListImageAfter
<1> QED
  BY <1>6, <1>7, <1>8

\* The images of one branch fit.
LEMMA ConsistentAfter ==
  ASSUME OrdinaryProgram, PointersWrapWithRing, InUseInv,
         NEW irq \in BOOLEAN, NEW wb, NEW s, NEW K, NEW rebuild,
         Step(irq, wb, s, K, rebuild)
  PROVE  ImageIsConsistent'
<1> DEFINE restore == RestoreOrder(irq, wb)
<1>1. /\ MapInv /\ RenameInv /\ UndoIsYoungest /\ ImagesAreVisible
      /\ NothingTwice /\ ImageIsConsistent /\ mapTable[0] = 0
  BY DEF InUseInv, MapInv, NothingTwice
<1>2. /\ orderId \in Nat /\ Given \subseteq Nat /\ (\A o \in Given : o < orderId)
      /\ K \in 0 .. 2
  BY <1>1, StepMoves
<1>3. SUFFICES ASSUME NEW t \in Slots, NEW u \in Slots,
                      flCkpt'[t].valid, rmtCkpt'[u].valid,
                      flCkpt'[t].order = rmtCkpt'[u].order, NEW a \in RMT!ArchRegs
               PROVE  rmtCkpt'[u].map[a] \notin Elements(ListIn(flCkpt'[t]))
  BY DEF ImageIsConsistent, ListIn
<1> DEFINE c == flCkpt'[t]
           d == rmtCkpt'[u]
<1>4. \/ c = flCkpt[t]
      \/ \E n \in 1 .. K : /\ c.order = orderId + n - 1 /\ StillApart(s, n)
                           /\ GoodRing(c.mem, c.head, c.tail)
                           /\ ListIn(c) = Behind(s, n)
  BY <1>3, ListImageAfter
<1>5. \/ \E m \in 1 .. K : d.order = orderId + m - 1 /\ d.map = MapOf(s, m)
      \/ d = rmtCkpt[u]
  BY <1>1, <1>3, ImageAfter DEF MapOf
<1>6. c.valid /\ d.valid /\ c.order = d.order
  BY <1>3
<1> HIDE DEF c, d
<1>7. c = flCkpt[t] => c.order \in Nat /\ c.order < orderId
  BY <1>1, <1>2, <1>6 DEF NothingTwice, Spares
<1>8. d = rmtCkpt[u] => d.order \in Nat /\ d.order < orderId
  BY <1>1, <1>2, <1>6 DEF ImagesAreVisible, Images
<1>9. CASE c = flCkpt[t] /\ d = rmtCkpt[u]
  <2>1. d.map[a] \notin Elements(ListIn(c))
    BY <1>1, <1>6, <1>9 DEF ImageIsConsistent, ListIn
  <2> QED
    BY <2>1 DEF c, d
<1>10. ASSUME NEW n \in 1 .. K, c.order = orderId + n - 1, StillApart(s, n),
              GoodRing(c.mem, c.head, c.tail), ListIn(c) = Behind(s, n),
              NEW m \in 1 .. K, d.order = orderId + m - 1, d.map = MapOf(s, m)
       PROVE  d.map[a] \notin Elements(ListIn(c))
  <2>1. m = n
    <3>1. orderId + n - 1 = orderId + m - 1
      BY <1>6, <1>10
    <3>2. orderId \in Int /\ n \in Int /\ m \in Int
      BY <1>2
    <3> QED
      BY <3>1, <3>2
  <2>2. CASE a # 0
    BY <1>10, <2>1, <2>2 DEF StillApart, Apart
  <2>3. CASE a = 0
    <3>1. MapOf(s, m)[a] = 0
      BY <1>1, <2>3 DEF MapOf, RMT!MapAfter
    <3>2. ListIn(c) \in Seq(Registers)
      BY <1>10 DEF GoodRing, ListIn
    <3>3. 0 \notin Elements(ListIn(c))
      <4> DEFINE l == ListIn(c)
      <4>1. l \in Seq(Registers)
        BY <3>2
      <4> HIDE DEF l
      <4>2. \A i \in DOMAIN l : l[i] \in Registers
        BY <4>1, ElementOfSeq
      <4> QED
        BY <4>2 DEF Elements, Registers, l
    <3> QED
      BY <1>10, <2>3, <3>1, <3>3
  <2> QED
    BY <2>2, <2>3
<1>11. ASSUME NEW n \in 1 .. K, c.order = orderId + n - 1, d = rmtCkpt[u] PROVE FALSE
  BY <1>2, <1>6, <1>8, <1>11
<1>12. ASSUME NEW m \in 1 .. K, d.order = orderId + m - 1, c = flCkpt[t] PROVE FALSE
  BY <1>2, <1>6, <1>7, <1>12
<1>13. d.map[a] \notin Elements(ListIn(c)) => rmtCkpt'[u].map[a] \notin Elements(ListIn(flCkpt'[t]))
  BY DEF c, d
<1> QED
  BY <1>4, <1>5, <1>9, <1>10, <1>11, <1>12, <1>13

-----------------------------------------------------------------------------
LEMMA InUseInvInit == RenameInit => InUseInv
<1> SUFFICES ASSUME RenameInit PROVE InUseInv
  OBVIOUS
<1>1. MapInv
  BY MapInvInit
<1>2. /\ flMem = ResetMem /\ flHead = 0 /\ flTail = NumFree
      /\ mapTable = RMT!Identity /\ recoverOut = {} /\ commit0 = {}
      /\ \A i \in Indices : ~rob[i].valid
      /\ \A t \in Slots : ~flCkpt[t].valid /\ rmtCkpt[t].map = RMT!Identity
  BY DEF RenameInit, RetireInit, RobInit, BlankEntry, FreelistInit, Vacant,
         RMT!RmtInit, RMT!RmtVacant
<1>3. \A a \in RMT!ArchRegs : RMT!Identity[a] = a /\ a \in Nat /\ a < NumArch
  BY FreelistAssumption DEF RMT!Identity, RMT!ArchRegs
<1>4. NumFree \in 0 .. FlDepth - 1 /\ NumArch > 0
  BY Sizes
<1>5. \A i \in 0 .. NumFree - 1 : ResetMem[i] = NumArch + i
  BY Sizes DEF ResetMem, FlIndices
<1>6. GoodRing(ResetMem, 0, NumFree)
  <2>1. ResetMem \in [FlIndices -> Phys]
    BY VacantIsACheckpoint
  <2>2. \A i \in 0 .. NumFree - 1 : ResetMem[i] \in Registers
    BY <1>5, Sizes
  <2>3. \A i, j \in 0 .. NumFree - 1 : ResetMem[i] = ResetMem[j] => i = j
    BY <1>5, Sizes
  <2> QED
    BY <1>4, <2>1, <2>2, <2>3, FilledRing
<1>7. \A p \in OnList : p \in Nat /\ p >= NumArch
  <2>1. \A p \in Elements(ListOf(ResetMem, 0, NumFree)) :
          \E i \in 0 .. NumFree - 1 : p = ResetMem[i]
    BY <1>4, <1>6, FilledList
  <2> QED
    BY <1>2, <1>5, <2>1, Sizes DEF OnList, List
<1>8. Olds = {}
  BY <1>2 DEF Olds, Holding
<1>9. Apart(mapTable, Olds, OnList)
  <2>1. \A a \in RMT!ArchRegs \ {0} : mapTable[a] = a /\ a \notin OnList
    BY <1>2, <1>3, <1>7, Sizes
  <2> QED
    BY <1>8, <2>1 DEF Apart
<1>10. mapTable[0] = 0 /\ \A t \in Slots : rmtCkpt[t].map[0] = 0
  <2>1. 0 \in RMT!ArchRegs
    BY FreelistAssumption DEF RMT!ArchRegs
  <2> QED
    BY <1>2, <1>3, <2>1
<1>11. GoodRing(flMem, flHead, flTail)
  BY <1>2, <1>6
<1>12. NothingTwice
  BY <1>2, <1>9, <1>10, <1>11 DEF NothingTwice, Spares, ImageIsConsistent
<1> QED
  BY <1>1, <1>12 DEF InUseInv

\* No cycle gives a register a second use.
LEMMA UsesAfterCycle ==
  ASSUME OrdinaryProgram, PointersWrapWithRing, InUseInv, ~unmatched',
         NEW irq \in BOOLEAN, NEW wb, NEW s, NEW K, NEW rebuild \in BOOLEAN,
         Step(irq, wb, s, K, rebuild)
  PROVE  UsesAreApart'
<1> DEFINE restore == RestoreOrder(irq, wb)
<1>1. rebuild => RebuiltIdle(FlushOf(irq, wb), K) /\ Rebuild(RMT!MappedRegs)
  BY RebuildIs
<1>2. CASE RebuiltIdle(FlushOf(irq, wb), K) /\ Rebuild(RMT!MappedRegs)
  BY <1>2, UsesAfterRebuild
<1>3. CASE ~rebuild /\ RestoreHits(restore)
  BY <1>3, UsesAfterRestore
<1>4. ASSUME ListHits(restore) PROVE RestoreHits(restore)
  <2>1. RecordRestore(restore)
    BY DEF Step
  <2> QED
    BY <1>4, <2>1 DEF RecordRestore
<1>5. CASE ~rebuild /\ ~RestoreHits(restore) /\ Undone(restore) = {}
  BY <1>4, <1>5, UsesAfterDispatch
<1>6. CASE ~rebuild /\ ~RestoreHits(restore) /\ Undone(restore) # {}
  BY <1>4, <1>6, UsesAfterUndo
<1> QED
  BY <1>1, <1>2, <1>3, <1>5, <1>6

LEMMA InUseInvNext ==
  ASSUME OrdinaryProgram, PointersWrapWithRing, InUseInv, ~unmatched',
         [RenameNext]_renameVars
  PROVE  InUseInv'
<1>1. MapInv /\ MapInv'
  BY MapInvNext DEF InUseInv
<1>2. ASSUME NEW wb, RenameCycle(wb) PROVE NothingTwice'
  <2>1. /\ RenameInv /\ RetireTypeOK /\ FreelistTypeOK /\ RMT!RmtTypeOK
    BY <1>1 DEF MapInv, RenameInv, HistoryInv, RingInv
  <2>2. PICK irq \in BOOLEAN, rebuild \in BOOLEAN : \E s, K : Step(irq, wb, s, K, rebuild)
    BY <1>2, <2>1, CycleIsStep
  <2>3. PICK s, K : Step(irq, wb, s, K, rebuild)
    BY <2>2
  <2>4. UsesAreApart'
    BY <2>3, UsesAfterCycle
  <2>5. mapTable'[0] = 0 /\ \A t \in Slots : rmtCkpt'[t].map[0] = 0
    BY <2>3, ZeroAfter
  <2>6. \A t \in Slots : Spares(flCkpt[t])'
    BY <2>3, SparesAfter
  <2>7. ImageIsConsistent'
    BY <2>3, ConsistentAfter
  <2>8. \A e \in commit0' : e.order \in retired'
    BY <2>1, <2>3, StepMoves
  <2> QED
    BY <2>4, <2>5, <2>6, <2>7, <2>8 DEF NothingTwice, UsesAreApart
<1>3. CASE RenameNext
  BY <1>1, <1>2, <1>3 DEF RenameNext, RenameIdle, RenameComplete, InUseInv
<1>4. CASE UNCHANGED renameVars
  <2>1. UNCHANGED <<rob, recovering, recoverOut, commit0, orderId, retired, squashed,
                    mapTable, rmtCkpt, ckptRecover, flMem, flHead, flTail, flCkpt>>
    BY <1>4 DEF renameVars, retireVars, robVars, flVars
  <2>2. Olds' = Olds /\ Given' = Given
    BY <2>1 DEF Olds, Holding, Visible, Given, InRing, Undoing
  <2>3. OnList' = OnList /\ GoodRing(flMem, flHead, flTail)' = GoodRing(flMem, flHead, flTail)
    BY <2>1 DEF OnList, List
  <2>4. ImageIsConsistent' <=> ImageIsConsistent
    BY <2>1 DEF ImageIsConsistent
  <2>5. \A t \in Slots : Spares(flCkpt[t])' <=> Spares(flCkpt[t])
    BY <2>1, <2>2 DEF Spares
  <2>6. Apart(mapTable, Olds, OnList)' <=> Apart(mapTable, Olds, OnList)
    BY <2>1, <2>2, <2>3 DEF Apart
  <2> QED
    BY <1>1, <2>1, <2>3, <2>4, <2>5, <2>6 DEF InUseInv, NothingTwice
<1> QED
  BY <1>3, <1>4

\* A list of distinct registers is as long as its registers are many.
LEMMA ListIsAsLong ==
  ASSUME GoodRing(flMem, flHead, flTail)
  PROVE  Cardinality(OnList) = FreeCount
<1>1. /\ List \in Seq(Registers) /\ Distinct(List) /\ DOMAIN List = 1 .. Len(List)
      /\ Len(List) \in Nat
  BY DEF GoodRing, List
<1>2. Len(List) = FreeCount
  BY RingHasRoom DEF List, FreeCount
<1> DEFINE l == List
           D == 1 .. Len(l)
<1>3. /\ DOMAIN l = D /\ Distinct(l) /\ IsFiniteSet(D) /\ Cardinality(D) = Len(l)
      /\ l \in [D -> Elements(l)]
  <2>1. IsFiniteSet(D) /\ Cardinality(D) = Len(l)
    BY <1>1, UpToIsFinite
  <2>2. l \in [D -> Elements(l)]
    BY <1>1 DEF Elements
  <2> QED
    BY <1>1, <2>1, <2>2
<1> HIDE DEF l, D
<1>4. l \in Bijection(D, Elements(l))
  BY <1>3 DEF Bijection, Injection, Surjection, IsInjective, Distinct, Elements
<1>5. Cardinality(Elements(l)) = Cardinality(D)
  BY <1>3, <1>4, FS_Bijection DEF ExistsBijection
<1> QED
  BY <1>2, <1>3, <1>5 DEF OnList, l

LEMMA UsesAreFree ==
  ASSUME OrdinaryProgram, InUseInv, Settled
  PROVE  /\ OnList \cap RMT!MappedRegs = {}
         /\ \A e \in LiveEntries : e.ins.rd # 0 =>
              e.prdNew \notin OnList /\ e.prdOld \notin OnList
<1>1. /\ MapInv /\ RenameInv /\ UndoIsYoungest /\ EntriesLogged /\ RetiredIsOld
      /\ GoodRing(flMem, flHead, flTail) /\ Apart(mapTable, Olds, OnList)
      /\ mapTable[0] = 0 /\ RobTypeOK /\ LiveIsOpen
  BY DEF InUseInv, NothingTwice, MapInv, RenameInv, HistoryInv, RingInv, RetireTypeOK, History
<1>2. /\ Visible = Given \ squashed /\ Given \subseteq Nat
      /\ \A i \in Indices : rob[i].valid => rob[i].order \in Given
  BY <1>1, VisibleNow DEF Settled
<1>3. 0 \notin OnList
  <2> DEFINE l == List
  <2>1. l \in Seq(Registers)
    BY <1>1 DEF GoodRing, List
  <2> HIDE DEF l
  <2>2. \A i \in DOMAIN l : l[i] \in Registers
    BY <2>1, ElementOfSeq
  <2> QED
    BY <2>2 DEF OnList, Elements, Registers, l
<1>4. \A a \in RMT!ArchRegs : mapTable[a] \notin OnList
  BY <1>1, <1>3 DEF Apart
<1>5. OnList \cap RMT!MappedRegs = {}
  BY <1>4 DEF RMT!MappedRegs
<1>6. ASSUME NEW i \in Indices, Live(rob[i]), rob[i].ins.rd # 0
      PROVE  rob[i].prdNew \notin OnList /\ rob[i].prdOld \notin OnList
  <2> DEFINE e == rob[i]
             a == e.ins.rd
             b == e.order
  <2>1. e.valid /\ b \in Given /\ b \in Nat /\ b \in Visible
    BY <1>1, <1>2, <1>6 DEF LiveIsOpen, Live
  <2>2. a \in RMT!ArchRegs \ {0}
    <3>1. e \in Entries /\ e.ins \in Instrs
      BY <1>1 DEF RobTypeOK, Entries
    <3>2. a \in Nat /\ a < NumArch
      BY <3>1, RenameAssumption, RobAssumption
    <3> QED
      BY <1>6, <3>2, FreelistAssumption DEF RMT!ArchRegs
  <2>3. log[b + 1].ins.rd = a /\ log[b + 1].prd = e.prdNew
    BY <1>1, <2>1 DEF EntriesLogged, Logged
  <2>4. \A q \in retired : q <= b
    <3> SUFFICES ASSUME NEW q \in retired PROVE q <= b
      OBVIOUS
    <3>1. q < b
      BY <1>1, <2>1 DEF RetiredIsOld
    <3>2. q \in Nat
      BY <1>1, <1>2, VisibleNow
    <3> QED
      BY <2>1, <3>1, <3>2
  <2>5. Overwritten(e) \in Olds
    BY <1>6, <2>1 DEF Olds, Holding
  <2>6. Names(log, {o \in Visible : o <= b}, a, e.prdNew)
    <3>1. b \in WritersIn(log, {o \in Visible : o <= b}, a)
      BY <2>1, <2>3 DEF WritersIn
    <3>2. \A q \in WritersIn(log, {o \in Visible : o <= b}, a) : q <= b
      BY DEF WritersIn
    <3> QED
      BY <2>3, <3>1, <3>2 DEF Names
  <2>7. \/ e.prdNew = mapTable[a]
        \/ \E x \in Olds : x.old = e.prdNew
    <3>1. b \in Int
      BY <2>1
    <3> HIDE DEF e, a, b
    <3> QED
      BY <1>1, <2>2, <2>4, <2>6, <3>1, NamedIsHeld
  <2> QED
    BY <1>1, <2>2, <2>5, <2>7 DEF Apart, Overwritten
<1> QED
  BY <1>5, <1>6 DEF LiveEntries

-----------------------------------------------------------------------------
\* A cycle forgets no mismatch.
LEMMA MismatchStays ==
  ASSUME RenameInv, [RenameNext]_renameVars, unmatched
  PROVE  unmatched'
<1>1. ASSUME NEW wb, RenameCycle(wb) PROVE unmatched'
  <2>1. PICK restore : RecordRestore(restore)
    BY <1>1 DEF RenameCycle
  <2> QED
    BY <2>1 DEF RecordRestore
<1>2. CASE RenameNext
  BY <1>1, <1>2 DEF RenameNext, RenameIdle, RenameComplete
<1>3. CASE UNCHANGED renameVars
  BY <1>3 DEF renameVars
<1> QED
  BY <1>2, <1>3

\* Up to the first restore of a list without its map (freelist.v:203-205 hits,
\* rename_map_table.v's lookup of the same branch does not), no register ever
\* has two of the uses of NothingTwice.
THEOREM InUseInvariant ==
  ASSUME OrdinaryProgram, PointersWrapWithRing
  PROVE  RenameSpec => [](~unmatched => InUseInv)
<1>1. RenameInit => (~unmatched => InUseInv)
  BY InUseInvInit
<1>2. RenameInv /\ (~unmatched => InUseInv) /\ [RenameNext]_renameVars
        => (~unmatched => InUseInv)'
  BY MismatchStays, InUseInvNext
<1> QED
  BY <1>1, <1>2, RenameInvariant, PTL DEF RenameSpec

\* And so, up to there, no register is free that the map, an instruction in
\* flight or its undo still names, nor on the list twice: a later instruction
\* overwrites no value that is still wanted (freelist.v, rename_map_table.v and
\* the glue of sifang_core.v between them and rob.v).
THEOREM FreeIsNeverInUse ==
  ASSUME OrdinaryProgram, PointersWrapWithRing
  PROVE  RenameSpec => [](~unmatched => FreeIsNotInUse)
<1>1. InUseInv => FreeIsNotInUse
  <2>1. InUseInv => Cardinality(OnList) = FreeCount
    BY ListIsAsLong DEF InUseInv, NothingTwice
  <2> QED
    BY <2>1, UsesAreFree DEF FreeIsNotInUse
<1> QED
  BY <1>1, InUseInvariant, PTL

\* Up to there, the two images of a branch fit whenever both are there: what
\* the list's would hand out the map's does not name (freelist.v's ckpt_mem and
\* rename_map_table.v's ckpt_map).
THEOREM ImagesFit ==
  ASSUME OrdinaryProgram, PointersWrapWithRing
  PROVE  RenameSpec => [](~unmatched => ImageIsConsistent)
<1>1. InUseInv => ImageIsConsistent
  BY DEF InUseInv, NothingTwice
<1> QED
  BY <1>1, InUseInvariant, PTL

-----------------------------------------------------------------------------
\* Where a mismatch comes from.  The list and the map pick the slots of their
\* images independently; both hold the same branches in the same slots.
CkptsAgree ==
  \A t \in Slots :
    /\ flCkpt[t].valid <=> rmtCkpt[t].valid
    /\ flCkpt[t].valid => flCkpt[t].order = rmtCkpt[t].order

Paired == CkptsAgree /\ ~unmatched

LEMMA AgreeingHit ==
  ASSUME CkptsAgree, NEW o
  PROVE  RestoreHit(o) <=> RMT!RmtHit(o)
<1>1. MatchingSlots(o) = RMT!RmtMatching(o)
  BY DEF CkptsAgree, MatchingSlots, RMT!RmtMatching, RMT!LiveCkpts
<1> QED
  BY <1>1 DEF RestoreHit, RMT!RmtHit

LEMMA SameSize == \A S : RMT!Cardinality(S) = Cardinality(S)
BY DEF RMT!Cardinality, Cardinality

\* The slot of the n-th branch of a cycle among the open ones, and which of the
\* branches in T takes slot t.
SlotAmong(open, n) ==
  IF n = 1 THEN Lowest(open) ELSE Lowest(open \ {Lowest(open)})
Takes(T, open, t) == \E n \in T : SlotAmong(open, n) = t
TakerOf(T, open, t) == CHOOSE n \in T : SlotAmong(open, n) = t

\* Without a hit both take the images of this cycle's branches into the same
\* slots and drop those of the branches that retire.
LEMMA AgreeAfterAdvance ==
  ASSUME FreelistTypeOK, RMT!RmtTypeOK, CkptsAgree, NEW a, NEW b,
         a.caps = b.caps, a.drop = b.drop, a.drop \in Int,
         ~(b.restore # -1 /\ RMT!RmtHit(b.restore)),
         Advances(a), RMT!RmtCycle(b)
  PROVE  CkptsAgree'
<1> DEFINE hit == b.restore # -1 /\ RMT!RmtHit(b.restore)
           flTaken == {n \in DOMAIN a.caps : n <= Cardinality(OpenSlots)}
           open == Slots \ RMT!LiveCkpts
           taken == {n \in DOMAIN b.caps : ~hit /\ n <= RMT!Cardinality(open)}
           slot(n) == SlotAmong(open, n)
<1>1. \A t \in Slots :
        flCkpt'[t] = IF Takes(flTaken, OpenSlots, t)
                     THEN ImageOf(a.caps[TakerOf(flTaken, OpenSlots, t)])
                     ELSE IF flCkpt[t].order > a.drop THEN flCkpt[t] ELSE Vacant
  BY DEF Advances, Takes, TakerOf, SlotAmong
<1>2. \A t \in Slots :
        rmtCkpt'[t] =
          IF Takes(taken, open, t)
          THEN [valid |-> TRUE, order |-> b.caps[TakerOf(taken, open, t)].order,
                map |-> RMT!MapAfter(b.allocs, b.caps[TakerOf(taken, open, t)].allocs)]
          ELSE IF \/ hit /\ rmtCkpt[t].order >= b.restore
                  \/ rmtCkpt[t].order <= b.drop
               THEN RMT!RmtVacant ELSE rmtCkpt[t]
  <2>1. rmtCkpt' = [s \in Slots |->
          IF \E n \in taken : slot(n) = s
          THEN [valid |-> TRUE, order |-> b.caps[CHOOSE n \in taken : slot(n) = s].order,
                map |-> RMT!MapAfter(b.allocs,
                          b.caps[CHOOSE n \in taken : slot(n) = s].allocs)]
          ELSE IF \/ hit /\ rmtCkpt[s].order >= b.restore
                  \/ rmtCkpt[s].order <= b.drop
               THEN RMT!RmtVacant
               ELSE rmtCkpt[s]]
    BY DEF RMT!RmtCycle, RMT!NextCkpt, SlotAmong, Lowest
  <2> HIDE DEF taken, hit, open
  <2>2. rmtCkpt' = [s \in Slots |->
          IF Takes(taken, open, s)
          THEN [valid |-> TRUE, order |-> b.caps[TakerOf(taken, open, s)].order,
                map |-> RMT!MapAfter(b.allocs, b.caps[TakerOf(taken, open, s)].allocs)]
          ELSE IF \/ hit /\ rmtCkpt[s].order >= b.restore
                  \/ rmtCkpt[s].order <= b.drop
               THEN RMT!RmtVacant
               ELSE rmtCkpt[s]]
    BY <2>1 DEF Takes, TakerOf
  <2> QED
    BY <2>2
<1>3. OpenSlots = open
  BY DEF CkptsAgree, RMT!LiveCkpts, OpenSlots
<1>4. ~hit
  OBVIOUS
<1>5. flTaken = taken
  BY <1>3, <1>4, SameSize
<1> HIDE DEF hit, flTaken, open, taken
<1> SUFFICES ASSUME NEW t \in Slots
             PROVE  /\ flCkpt'[t].valid <=> rmtCkpt'[t].valid
                    /\ flCkpt'[t].valid => flCkpt'[t].order = rmtCkpt'[t].order
  BY DEF CkptsAgree
<1>6. CASE Takes(taken, open, t)
  <2>1. flCkpt'[t] = ImageOf(a.caps[TakerOf(taken, open, t)])
    BY <1>1, <1>3, <1>5, <1>6
  <2>2. rmtCkpt'[t] =
          [valid |-> TRUE, order |-> b.caps[TakerOf(taken, open, t)].order,
           map |-> RMT!MapAfter(b.allocs, b.caps[TakerOf(taken, open, t)].allocs)]
    BY <1>2, <1>6
  <2> QED
    BY <2>1, <2>2 DEF ImageOf
<1>7. CASE ~Takes(taken, open, t)
  <2>1. flCkpt[t].order \in Nat /\ rmtCkpt[t].order \in Nat
    BY DEF FreelistTypeOK, RMT!RmtTypeOK
  <2>2. flCkpt'[t] = IF flCkpt[t].order > a.drop THEN flCkpt[t] ELSE Vacant
    BY <1>1, <1>3, <1>5, <1>7
  <2>3. rmtCkpt'[t] = IF rmtCkpt[t].order <= a.drop THEN RMT!RmtVacant ELSE rmtCkpt[t]
    BY <1>2, <1>4, <1>7
  <2> QED
    BY <2>1, <2>2, <2>3 DEF CkptsAgree, Vacant, RMT!RmtVacant
<1> QED
  BY <1>6, <1>7

\* With a hit both drop the images of the branch and of younger ones.  The map
\* also drops that of a branch that retires; here none does.
LEMMA AgreeAfterRestore ==
  ASSUME FreelistTypeOK, RMT!RmtTypeOK, CkptsAgree, NEW o \in Int, o # -1, NEW b,
         b.restore = o, b.drop = -1, RMT!RmtHit(o), RestoreList(o), RMT!RmtCycle(b)
  PROVE  CkptsAgree'
<1>1. \A t \in Slots :
        flCkpt'[t] = IF flCkpt[t].order < o THEN flCkpt[t] ELSE Vacant
  BY DEF RestoreList
<1>2. \A t \in Slots :
        rmtCkpt'[t] = IF rmtCkpt[t].order >= o \/ rmtCkpt[t].order <= -1
                      THEN RMT!RmtVacant ELSE rmtCkpt[t]
  BY DEF RMT!RmtCycle, RMT!NextCkpt
<1> SUFFICES ASSUME NEW t \in Slots
             PROVE  /\ flCkpt'[t].valid <=> rmtCkpt'[t].valid
                    /\ flCkpt'[t].valid => flCkpt'[t].order = rmtCkpt'[t].order
  BY DEF CkptsAgree
<1>3. flCkpt[t].order \in Nat /\ rmtCkpt[t].order \in Nat
  BY DEF FreelistTypeOK, RMT!RmtTypeOK
<1> QED
  BY <1>1, <1>2, <1>3 DEF CkptsAgree, Vacant, RMT!RmtVacant

\* A rebuild happens with no image in the map, and clears those of the list.
LEMMA AgreeAfterRebuild ==
  ASSUME NEW mapped, NEW b, ~RMT!AnyCkptLive, DOMAIN b.caps = {},
         Rebuild(mapped), RMT!RmtCycle(b)
  PROVE  CkptsAgree'
<1>1. \A t \in Slots : ~flCkpt'[t].valid
  BY DEF Rebuild, Vacant
<1>2. \A t \in Slots : ~rmtCkpt[t].valid
  BY DEF RMT!AnyCkptLive, RMT!LiveCkpts
<1>3. \A t \in Slots : rmtCkpt'[t] = RMT!RmtVacant \/ rmtCkpt'[t] = rmtCkpt[t]
  BY DEF RMT!RmtCycle, RMT!NextCkpt
<1> QED
  BY <1>1, <1>2, <1>3 DEF CkptsAgree, RMT!RmtVacant

LEMMA DropIsAnOrder ==
  ASSUME RobTypeOK
  PROVE  DropOrder \in Int
<1> SUFFICES ASSUME NEW e \in commit0 PROVE (CHOOSE d \in commit0 : TRUE).order \in Int
  BY DEF DropOrder, NoOrder
<1>1. (CHOOSE d \in commit0 : TRUE) \in commit0
  OBVIOUS
<1>2. \A d \in commit0 : d.order \in Nat
  BY DEF RobTypeOK, Entries
<1> QED
  BY <1>1, <1>2

LEMMA PairedAfterStep ==
  ASSUME RenameInv, Paired,
         NEW irq \in BOOLEAN, NEW wb, NEW s, NEW K, NEW rebuild \in BOOLEAN,
         Step(irq, wb, s, K, rebuild), ~slipped'
  PROVE  Paired'
<1> DEFINE restore == RestoreOrder(irq, wb)
           ins == [allocs |-> Len(Allocs(s)), free |-> Released,
                   push |-> Pushed(restore), drop |-> DropOrder,
                   caps |-> CapturesOf(s), restore |-> restore,
                   rebuild |-> rebuild, mapped |-> RMT!MappedRegs]
           rin == [restore |-> restore, drop |-> DropOrder,
                   recover |-> {[rd |-> e.ins.rd, prd |-> e.prdOld] : e \in Undone(restore)},
                   allocs |-> Allocs(s), caps |-> CapturesOf(s)]
<1>1. /\ RetireTypeOK /\ FreelistTypeOK /\ RMT!RmtTypeOK
      /\ RobTypeOK /\ CkptsAgree /\ ~unmatched
  BY DEF RenameInv, HistoryInv, RingInv, RetireTypeOK, Paired
<1>2. RMT!RmtCycle(rin) /\ FreelistCycle(ins) /\ RecordRestore(restore)
  BY DEF Step
<1>3. ListHits(restore) <=> RestoreHits(restore)
  BY <1>1, AgreeingHit DEF ListHits, RestoreHits
<1>4. ~unmatched'
  BY <1>1, <1>2, <1>3 DEF RecordRestore
<1>5. ListHits(restore) => DropOrder = NoOrder
  BY <1>2 DEF RecordRestore
<1>6. CASE rebuild
  <2>1. RebuiltIdle(FlushOf(irq, wb), K) /\ Rebuild(RMT!MappedRegs)
    BY <1>6, RebuildIs
  <2>2. K = 0 /\ ~RMT!AnyCkptLive
    BY <2>1 DEF RebuiltIdle
  <2>3. DOMAIN CapturesOf(s) = {}
    <3>1. K \in 0 .. 2 /\ s \in [1 .. K -> Instrs]
      BY DEF Step, Offer
    <3>2. ASSUME NEW k \in DOMAIN CapturesOf(s) PROVE FALSE
      <4>1. \E n \in 1 .. K : s[n].branch
        BY <3>1, CapturesAre
      <4> QED
        BY <2>2, <4>1
    <3> QED
      BY <3>2
  <2>4. DOMAIN rin.caps = {}
    BY <2>3
  <2> HIDE DEF rin
  <2>5. CkptsAgree'
    BY <1>2, <2>1, <2>2, <2>4, AgreeAfterRebuild
  <2> QED
    BY <1>4, <2>5 DEF Paired
<1>7. CASE ~rebuild /\ ListHits(restore)
  <2>1. RestoreList(restore)
    BY <1>2, <1>7 DEF FreelistCycle, ListHits
  <2>2. restore \in Int /\ restore # -1 /\ RMT!RmtHit(restore)
    BY <1>1, <1>3, <1>7, ListHitIsASlot DEF ListHits, RestoreHits, NoOrder, FreelistTypeOK
  <2>3. rin.restore = restore /\ rin.drop = -1
    BY <1>5, <1>7 DEF NoOrder
  <2> HIDE DEF rin, restore
  <2>4. CkptsAgree'
    BY <1>1, <1>2, <2>1, <2>2, <2>3, AgreeAfterRestore
  <2> QED
    BY <1>4, <2>4 DEF Paired
<1>8. CASE ~rebuild /\ ~ListHits(restore)
  <2>1. Advances(ins)
    BY <1>2, <1>8 DEF FreelistCycle, ListHits
  <2>2. /\ ins.caps = rin.caps /\ ins.drop = rin.drop /\ ins.drop \in Int
        /\ ~(rin.restore # -1 /\ RMT!RmtHit(rin.restore))
    BY <1>1, <1>3, <1>8, DropIsAnOrder DEF RestoreHits, NoOrder
  <2> HIDE DEF ins, rin
  <2>3. CkptsAgree'
    BY <1>1, <1>2, <2>1, <2>2, AgreeAfterAdvance
  <2> QED
    BY <1>4, <2>3 DEF Paired
<1> QED
  BY <1>6, <1>7, <1>8

\* A list comes back without its map only in a core in which a branch has
\* retired in the cycle of a restore: rename_map_table.v:324 drops its image
\* then, freelist.v:165 does not, and later branches take other slots in the
\* one than in the other.
THEOREM MismatchNeedsSlip == RenameSpec => [](unmatched => slipped)
<1>1. RenameInit => Paired
  BY DEF RenameInit, FreelistInit, RMT!RmtInit, Paired, CkptsAgree, Vacant, RMT!RmtVacant
<1>2. RenameInv /\ (slipped \/ Paired) /\ [RenameNext]_renameVars => (slipped \/ Paired)'
  <2> SUFFICES ASSUME RenameInv, slipped \/ Paired, [RenameNext]_renameVars
               PROVE  (slipped \/ Paired)'
    OBVIOUS
  <2>1. ASSUME NEW wb, RenameCycle(wb) PROVE (slipped \/ Paired)'
    <3>1. RetireTypeOK /\ FreelistTypeOK /\ RMT!RmtTypeOK
      BY DEF RenameInv, HistoryInv, RingInv
    <3>2. PICK irq \in BOOLEAN, rebuild \in BOOLEAN : \E s, K : Step(irq, wb, s, K, rebuild)
      BY <2>1, <3>1, CycleIsStep
    <3>3. PICK s, K : Step(irq, wb, s, K, rebuild)
      BY <3>2
    <3>4. slipped => slipped'
      BY <3>3 DEF Step, RecordRestore
    <3> QED
      BY <3>3, <3>4, PairedAfterStep
  <2>2. CASE RenameNext
    BY <2>1, <2>2 DEF RenameNext, RenameIdle, RenameComplete
  <2>3. CASE UNCHANGED renameVars
    BY <2>3 DEF renameVars, flVars, Paired, CkptsAgree
  <2> QED
    BY <2>2, <2>3
<1>3. (slipped \/ Paired) => (unmatched => slipped)
  BY DEF Paired
<1> QED
  BY <1>1, <1>2, <1>3, RenameInvariant, PTL DEF RenameSpec

=============================================================================
