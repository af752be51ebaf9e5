--------------------------- MODULE FreelistProofs ---------------------------
(***************************************************************************)
(* Proof that the free list implements the queue of FreeFifo, for every    *)
(* number of registers and checkpoints, when its pointers run modulo a     *)
(* multiple of the ring's size: 64 places and 7-bit pointers, but not the  *)
(* 48 places of the FPGA build.                                            *)
(*                                                                         *)
(* The ring never overflows because its list, and the list of every image, *)
(* holds distinct registers other than register 0, of which there is one   *)
(* less than there are places.                                             *)
(***************************************************************************)
EXTENDS FreelistUse, FiniteSetTheorems, SequenceTheorems, WellFoundedInduction, TLAPS

\* 2^(FL_IDX_W+1) is a multiple of FL_DEPTH.
PointersWrapWithRing == PtrMod \in {2 * FlDepth, 3 * FlDepth}

Registers == Phys \ {0}
Distinct(s) == \A i, j \in DOMAIN s : s[i] = s[j] => i = j

\* A ring memory and two pointers that hold a list of distinct registers.
GoodRing(mem, head, tail) ==
  /\ mem \in [FlIndices -> Phys] /\ head \in FlPointers /\ tail \in FlPointers
  /\ ListOf(mem, head, tail) \in Seq(Registers)
  /\ Distinct(ListOf(mem, head, tail))

Ckpts == [valid : BOOLEAN, order : Nat, mem : [FlIndices -> Phys],
          head : FlPointers, tail : FlPointers]

UseInv ==
  /\ GoodRing(flMem, flHead, flTail)
  /\ flCkpt \in [Slots -> Ckpts] /\ branchId \in Nat
  /\ \A s \in Slots : flCkpt[s].valid =>
       /\ GoodRing(flCkpt[s].mem, flCkpt[s].head, flCkpt[s].tail)
       /\ flCkpt[s].order < branchId
  /\ \A s, t \in Slots :
       flCkpt[s].valid /\ flCkpt[t].valid /\ flCkpt[s].order = flCkpt[t].order
         => s = t

-----------------------------------------------------------------------------
\* Arithmetic of the pointers.

\* The modulus of what is at most one round off.
LEMMA ModIsOneRound ==
  ASSUME NEW m \in Nat, m > 0, NEW x \in Int, -m <= x, x < 2 * m
  PROVE  x % m = IF x < 0 THEN x + m ELSE IF x < m THEN x ELSE x - m
OBVIOUS

LEMMA UpToIsFinite ==
  ASSUME NEW n \in Nat
  PROVE  IsFiniteSet(1 .. n) /\ Cardinality(1 .. n) = n
<1>1. Cardinality(1 .. n) = IF 1 > n THEN 0 ELSE n - 1 + 1
  BY FS_Interval
<1>2. IsFiniteSet(1 .. n)
  BY FS_Interval
<1> QED
  BY <1>1, <1>2

LEMMA Sizes ==
  /\ NumArch \in Nat /\ NumFree \in Nat /\ NumArch > 0 /\ NumFree > 0
  /\ FlDepth \in Nat /\ FlDepth > 1 /\ FlDepth = NumArch + NumFree
  /\ PtrMod \in Nat /\ PtrMod > FlDepth /\ PtrMod <= 3 * FlDepth
  /\ Phys = FlIndices /\ Registers = 1 .. FlDepth - 1
  /\ CkptDepth \in Nat /\ CkptDepth > 0
BY FreelistAssumption DEF Phys, FlIndices, Registers

\* Pointers advance and wrap, and a count is the way from head to tail.
LEMMA PointersAdvance ==
  ASSUME NEW p \in FlPointers, NEW q \in FlPointers
  PROVE  /\ \A n \in 0 .. PtrMod :
              Advance(p, n) = IF p + n < PtrMod THEN p + n ELSE p + n - PtrMod
         /\ \A n \in 0 .. PtrMod : Advance(p, n) \in FlPointers
         /\ Advance(p, 0) = p
         /\ (q - p) % PtrMod = IF q < p THEN q - p + PtrMod ELSE q - p
         /\ (q - p) % PtrMod \in 0 .. PtrMod - 1
         /\ Advance(p, (q - p) % PtrMod) = q
<1>1. PtrMod \in Nat /\ PtrMod > 0 /\ FlPointers = 0 .. PtrMod - 1
  BY Sizes DEF FlPointers
<1>2. \A n \in 0 .. PtrMod :
        Advance(p, n) = IF p + n < PtrMod THEN p + n ELSE p + n - PtrMod
  <2> TAKE n \in 0 .. PtrMod
  <2>1. p + n \in Int /\ -PtrMod <= p + n /\ p + n < 2 * PtrMod /\ ~(p + n < 0)
    BY <1>1
  <2> QED
    BY <1>1, <2>1, ModIsOneRound DEF Advance
<1>3. (q - p) % PtrMod = IF q < p THEN q - p + PtrMod ELSE q - p
  <2>1. /\ q - p \in Int /\ -PtrMod <= q - p /\ q - p < 2 * PtrMod /\ q - p < PtrMod
        /\ (q - p < 0) = (q < p)
    BY <1>1
  <2> QED
    BY <1>1, <2>1, ModIsOneRound
<1>4. \A n \in 0 .. PtrMod : Advance(p, n) \in FlPointers
  BY <1>1, <1>2
<1>5. Advance(p, 0) = p
  BY <1>1, <1>2
<1>6. (q - p) % PtrMod \in 0 .. PtrMod - 1 /\ Advance(p, (q - p) % PtrMod) = q
  <2> DEFINE c == (q - p) % PtrMod
  <2>1. c = IF q < p THEN q - p + PtrMod ELSE q - p
    BY <1>3
  <2> HIDE DEF c
  <2>2. c \in 0 .. PtrMod - 1
    BY <1>1, <2>1
  <2>3. Advance(p, c) = IF p + c < PtrMod THEN p + c ELSE p + c - PtrMod
    BY <1>1, <1>2, <2>2
  <2>4. Advance(p, c) = q
    BY <1>1, <2>1, <2>2, <2>3
  <2> QED
    BY <2>2, <2>4 DEF c
<1> QED
  BY <1>2, <1>3, <1>4, <1>5, <1>6

\* The index of a pointer is in the ring.
LEMMA IndexIsInRing ==
  ASSUME NEW p \in FlPointers
  PROVE  PtrIndex(p) \in FlIndices
BY Sizes DEF PtrIndex, FlPointers, FlIndices

\* Up to a ring's size of successive pointers have different indices.
LEMMA IndicesDiffer ==
  ASSUME PointersWrapWithRing, NEW p \in FlPointers,
         NEW j \in 0 .. FlDepth - 1, NEW k \in 0 .. FlDepth - 1,
         PtrIndex(Advance(p, j)) = PtrIndex(Advance(p, k))
  PROVE  j = k
<1>1. /\ Advance(p, j) = IF p + j < PtrMod THEN p + j ELSE p + j - PtrMod
      /\ Advance(p, k) = IF p + k < PtrMod THEN p + k ELSE p + k - PtrMod
  <2>1. 0 .. FlDepth - 1 \subseteq 0 .. PtrMod
    BY Sizes
  <2> QED
    BY <2>1, PointersAdvance
<1>2. p \in 0 .. PtrMod - 1 /\ FlDepth \in Nat /\ FlDepth > 1
  BY Sizes DEF FlPointers
<1>3. CASE PtrMod = 2 * FlDepth
  BY <1>1, <1>2, <1>3 DEF PtrIndex
<1>4. CASE PtrMod = 3 * FlDepth
  BY <1>1, <1>2, <1>4 DEF PtrIndex
<1> QED
  BY <1>3, <1>4 DEF PointersWrapWithRing

\* idx_inc follows the pointer.
LEMMA IndexFollows ==
  ASSUME PointersWrapWithRing, NEW p \in FlPointers
  PROVE  PtrIndex(Advance(p, 1)) = IdxInc(PtrIndex(p))
<1>1. Advance(p, 1) = IF p + 1 < PtrMod THEN p + 1 ELSE p + 1 - PtrMod
  BY PointersAdvance, Sizes
<1>2. p \in 0 .. PtrMod - 1 /\ FlDepth \in Nat /\ FlDepth > 1
  BY Sizes DEF FlPointers
<1>3. CASE PtrMod = 2 * FlDepth
  BY <1>1, <1>2, <1>3 DEF PtrIndex, IdxInc
<1>4. CASE PtrMod = 3 * FlDepth
  BY <1>1, <1>2, <1>4 DEF PtrIndex, IdxInc
<1> QED
  BY <1>3, <1>4 DEF PointersWrapWithRing

-----------------------------------------------------------------------------
\* What ListOf reads off a ring.
LEMMA ListReads ==
  ASSUME NEW mem \in [FlIndices -> Phys], NEW head \in FlPointers, NEW tail \in FlPointers,
         NEW s, s = ListOf(mem, head, tail), NEW c, c = (tail - head) % PtrMod
  PROVE  /\ c \in 0 .. PtrMod - 1 /\ s \in Seq(Phys) /\ Len(s) = c /\ DOMAIN s = 1 .. c
         /\ \A k \in 1 .. c : s[k] = mem[PtrIndex(Advance(head, k - 1))]
<1>1. c \in 0 .. PtrMod - 1 /\ PtrMod \in Nat
  BY PointersAdvance, Sizes
<1>2. s = [k \in 1 .. c |-> mem[PtrIndex(Advance(head, k - 1))]]
  BY DEF ListOf
<1>3. \A k \in 1 .. c : mem[PtrIndex(Advance(head, k - 1))] \in Phys
  <2> TAKE k \in 1 .. c
  <2>1. k - 1 \in 0 .. PtrMod
    BY <1>1
  <2> QED
    BY <2>1, PointersAdvance, IndexIsInRing
<1>4. s \in [1 .. c -> Phys]
  BY <1>2, <1>3
<1>5. s \in Seq(Phys) /\ Len(s) = c
  BY <1>1, <1>4
<1> QED
  BY <1>1, <1>2, <1>5

\* A list of distinct registers is shorter than the ring.
LEMMA DistinctIsShort ==
  ASSUME NEW s \in Seq(Registers), Distinct(s)
  PROVE  Len(s) <= Cardinality(Registers) /\ Cardinality(Registers) = FlDepth - 1
<1>1. Registers = 1 .. FlDepth - 1 /\ FlDepth \in Nat /\ FlDepth > 1
  BY Sizes
<1>2. IsFiniteSet(Registers) /\ Cardinality(Registers) = FlDepth - 1
  BY <1>1, FS_Interval
<1>3. s \in Injection(1 .. Len(s), Registers)
  BY DEF Injection, IsInjective, Distinct
<1>4. Cardinality(1 .. Len(s)) = Len(s)
  BY UpToIsFinite, LenProperties
<1> QED
  BY <1>2, <1>3, <1>4, FS_Injection

LEMMA RingHasRoom ==
  ASSUME NEW mem, NEW head, NEW tail, GoodRing(mem, head, tail)
  PROVE  /\ Len(ListOf(mem, head, tail)) = (tail - head) % PtrMod
         /\ (tail - head) % PtrMod \in 0 .. FlDepth - 1
BY ListReads, DistinctIsShort, Sizes DEF GoodRing

\* Registers that leave at the head are a prefix of the list.
LEMMA HeadMoves ==
  ASSUME NEW mem, NEW head, NEW tail, GoodRing(mem, head, tail),
         NEW s, s = ListOf(mem, head, tail), NEW n \in 0 .. Len(s)
  PROVE  /\ GoodRing(mem, Advance(head, n), tail)
         /\ ListOf(mem, Advance(head, n), tail) = SubSeq(s, n + 1, Len(s))
<1> DEFINE c == (tail - head) % PtrMod
           h == Advance(head, n)
           r == ListOf(mem, h, tail)
           d == (tail - h) % PtrMod
<1>1. /\ mem \in [FlIndices -> Phys] /\ head \in FlPointers /\ tail \in FlPointers
      /\ s \in Seq(Registers) /\ Distinct(s)
  BY DEF GoodRing
<1>2. /\ c \in 0 .. FlDepth - 1 /\ Len(s) = c /\ n \in 0 .. c /\ n \in 0 .. PtrMod
      /\ \A k \in 1 .. c : s[k] = mem[PtrIndex(Advance(head, k - 1))]
      /\ DOMAIN s = 1 .. c
  BY <1>1, RingHasRoom, ListReads, Sizes
<1>3. /\ h \in FlPointers /\ d = c - n
      /\ \A k \in 1 .. d : Advance(h, k - 1) = Advance(head, k + n - 1)
  <2>1. /\ c = IF tail < head THEN tail - head + PtrMod ELSE tail - head
        /\ h = IF head + n < PtrMod THEN head + n ELSE head + n - PtrMod
        /\ h \in FlPointers
    BY <1>1, <1>2, PointersAdvance
  <2>2. d = IF tail < h THEN tail - h + PtrMod ELSE tail - h
    BY <1>1, <2>1, PointersAdvance
  <2>3. head \in 0 .. PtrMod - 1 /\ tail \in 0 .. PtrMod - 1 /\ PtrMod \in Nat
    BY <1>1, Sizes DEF FlPointers
  <2> HIDE DEF c, h, d
  <2>4. d = c - n
    BY <1>2, <2>1, <2>2, <2>3
  <2>5. ASSUME NEW k \in 1 .. d PROVE Advance(h, k - 1) = Advance(head, k + n - 1)
    <3>1. k - 1 \in 0 .. PtrMod /\ k + n - 1 \in 0 .. PtrMod
      BY <1>2, <2>3, <2>4, Sizes
    <3>2. /\ Advance(h, k - 1) = IF h + (k - 1) < PtrMod THEN h + (k - 1) ELSE h + (k - 1) - PtrMod
          /\ Advance(head, k + n - 1) =
               IF head + (k + n - 1) < PtrMod THEN head + (k + n - 1)
               ELSE head + (k + n - 1) - PtrMod
      BY <1>1, <2>1, <3>1, PointersAdvance
    <3> QED
      BY <1>2, <2>1, <2>3, <2>4, <3>1, <3>2
  <2> QED
    BY <2>1, <2>4, <2>5
<1>4. /\ r \in Seq(Phys) /\ Len(r) = c - n /\ DOMAIN r = 1 .. c - n
      /\ \A k \in 1 .. c - n : r[k] = mem[PtrIndex(Advance(head, k + n - 1))]
  <2>1. /\ r \in Seq(Phys) /\ Len(r) = d /\ DOMAIN r = 1 .. d
        /\ \A k \in 1 .. d : r[k] = mem[PtrIndex(Advance(h, k - 1))]
    <3>1. ASSUME NEW p \in FlPointers
          PROVE  LET w == ListOf(mem, p, tail)
                     g == (tail - p) % PtrMod
                 IN  /\ w \in Seq(Phys) /\ Len(w) = g /\ DOMAIN w = 1 .. g
                     /\ \A k \in 1 .. g : w[k] = mem[PtrIndex(Advance(p, k - 1))]
      <4> DEFINE w == ListOf(mem, p, tail)
                 g == (tail - p) % PtrMod
      <4>1. /\ mem \in [FlIndices -> Phys] /\ tail \in FlPointers
            /\ w = ListOf(mem, p, tail) /\ g = (tail - p) % PtrMod
        BY <1>1
      <4>2. /\ w \in Seq(Phys) /\ Len(w) = g /\ DOMAIN w = 1 .. g
            /\ \A k \in 1 .. g : w[k] = mem[PtrIndex(Advance(p, k - 1))]
        <5> HIDE DEF w, g, c, h, r, d
        <5> QED
          BY ONLY <4>1, p \in FlPointers, ListReads
      <4> QED
        BY <4>2
    <3>2. h \in FlPointers
      BY <1>3
    <3> QED
      BY <3>1, <3>2
  <2> HIDE DEF r, c, h, d
  <2> QED
    BY <1>3, <2>1
<1> HIDE DEF r, c, h, d
<1>5. \A k \in 1 .. c - n : k + n \in 1 .. c /\ r[k] = s[k + n]
  <2> TAKE k \in 1 .. c - n
  <2>1. k + n \in 1 .. c
    BY <1>2
  <2>2. s[k + n] = mem[PtrIndex(Advance(head, k + n - 1))]
    BY <1>2, <2>1
  <2> QED
    BY <1>4, <2>1, <2>2
<1>6. /\ SubSeq(s, n + 1, Len(s)) \in Seq(Registers)
      /\ Len(SubSeq(s, n + 1, Len(s))) = c - n
      /\ \A k \in 1 .. c - n : SubSeq(s, n + 1, Len(s))[k] = s[k + n]
  <2>1. n + 1 \in Int /\ Len(s) \in Int /\ \A i \in n + 1 .. Len(s) : s[i] \in Registers
    BY <1>1, <1>2
  <2>2. \A i \in 1 .. Len(s) - (n + 1) + 1 : SubSeq(s, n + 1, Len(s))[i] = s[(n + 1) + i - 1]
    BY <2>1, SubSeqProperties
  <2>3. /\ SubSeq(s, n + 1, Len(s)) \in Seq(Registers)
        /\ Len(SubSeq(s, n + 1, Len(s))) = IF n + 1 <= Len(s) THEN Len(s) - (n + 1) + 1 ELSE 0
    BY <2>1, SubSeqProperties
  <2>4. ASSUME NEW k \in 1 .. c - n PROVE SubSeq(s, n + 1, Len(s))[k] = s[k + n]
    <3>1. k \in 1 .. Len(s) - (n + 1) + 1 /\ (n + 1) + k - 1 = k + n
      BY <1>2
    <3> QED
      BY <2>2, <3>1
  <2> QED
    BY <1>2, <2>3, <2>4
<1>7. r \in Seq(Registers)
  <2>1. \A k \in 1 .. Len(r) : r[k] \in Registers
    BY <1>1, <1>2, <1>4, <1>5
  <2> QED
    BY <1>4, <2>1
<1>8. r = SubSeq(s, n + 1, Len(s))
  BY <1>4, <1>5, <1>6, <1>7, SeqEqual
<1>9. Distinct(r)
  <2> SUFFICES ASSUME NEW i \in 1 .. c - n, NEW j \in 1 .. c - n, r[i] = r[j]
               PROVE  i = j
    BY <1>4 DEF Distinct
  <2>1. i + n \in DOMAIN s /\ j + n \in DOMAIN s /\ s[i + n] = s[j + n]
    BY <1>2, <1>5
  <2>2. i + n = j + n
    BY <1>1, <2>1 DEF Distinct
  <2> QED
    BY <1>2, <2>2
<1> QED
  BY <1>1, <1>3, <1>7, <1>8, <1>9 DEF GoodRing, r, h

\* A register that enters at the tail is appended: its place was not in use.
LEMMA TailMoves ==
  ASSUME PointersWrapWithRing,
         NEW mem, NEW head, NEW tail, GoodRing(mem, head, tail),
         NEW s, s = ListOf(mem, head, tail), NEW r \in Registers \ Elements(s),
         NEW mem2 \in [FlIndices -> Phys], mem2[PtrIndex(tail)] = r,
         \A i \in FlIndices \ {PtrIndex(tail)} : mem2[i] = mem[i]
  PROVE  /\ GoodRing(mem2, head, Advance(tail, 1))
         /\ ListOf(mem2, head, Advance(tail, 1)) = Append(s, r)
<1> DEFINE c == (tail - head) % PtrMod
           t == Advance(tail, 1)
           s2 == ListOf(mem2, head, t)
<1>1. /\ mem \in [FlIndices -> Phys] /\ head \in FlPointers /\ tail \in FlPointers
      /\ s \in Seq(Registers) /\ Distinct(s) /\ Registers \subseteq Phys
  BY DEF GoodRing, Registers
<1>2. c \in 0 .. FlDepth - 1 /\ Len(s) = c
  BY <1>1, RingHasRoom
<1>3. DOMAIN s = 1 .. c /\ \A k \in 1 .. c : s[k] = mem[PtrIndex(Advance(head, k - 1))]
  BY <1>1, ListReads
<1>4. /\ c = IF tail < head THEN tail - head + PtrMod ELSE tail - head
      /\ t = IF tail + 1 < PtrMod THEN tail + 1 ELSE tail + 1 - PtrMod
      /\ t \in FlPointers
      /\ Advance(head, c) = tail
  <2>1. 1 \in 0 .. PtrMod
    BY Sizes
  <2> QED
    BY <1>1, <2>1, PointersAdvance
<1>5. (t - head) % PtrMod = c + 1
  <2>1. (t - head) % PtrMod = IF t < head THEN t - head + PtrMod ELSE t - head
    BY <1>1, <1>4, PointersAdvance
  <2>2. head \in 0 .. PtrMod - 1 /\ tail \in 0 .. PtrMod - 1 /\ PtrMod \in Nat
    BY <1>1, Sizes DEF FlPointers
  <2>3. c < PtrMod - 1 /\ c \in Nat
    BY <1>2, Sizes
  <2> HIDE DEF c, t
  <2> QED
    BY <1>4, <2>1, <2>2, <2>3
<1> HIDE DEF c, t
<1>6. mem2 \in [FlIndices -> Phys]
  OBVIOUS
<1>7. /\ s2 \in Seq(Phys) /\ Len(s2) = c + 1 /\ DOMAIN s2 = 1 .. c + 1
      /\ \A k \in 1 .. c + 1 : s2[k] = mem2[PtrIndex(Advance(head, k - 1))]
  <2> DEFINE d == (t - head) % PtrMod
  <2>1. /\ s2 = ListOf(mem2, head, t) /\ d = (t - head) % PtrMod
        /\ head \in FlPointers /\ t \in FlPointers
        /\ mem2 \in [FlIndices -> Phys]
    BY <1>1, <1>4, <1>6
  <2>2. d = c + 1
    BY <1>5
  <2> HIDE DEF s2, d
  <2>3. /\ s2 \in Seq(Phys) /\ Len(s2) = d /\ DOMAIN s2 = 1 .. d
        /\ \A k \in 1 .. d : s2[k] = mem2[PtrIndex(Advance(head, k - 1))]
    BY <2>1, ListReads
  <2> QED
    BY <2>2, <2>3
<1> HIDE DEF s2
<1>8. s2[c + 1] = r
  <2>1. s2[c + 1] = mem2[PtrIndex(tail)]
    BY <1>2, <1>4, <1>7
  <2> QED
    BY <1>1, <2>1, IndexIsInRing
<1>9. \A k \in 1 .. c : s2[k] = s[k]
  <2> TAKE k \in 1 .. c
  <2>1. /\ k - 1 \in 0 .. FlDepth - 1 /\ k - 1 # c /\ k - 1 \in 0 .. PtrMod
        /\ k \in 1 .. c + 1
    BY <1>2, Sizes
  <2>2. Advance(head, k - 1) \in FlPointers
    BY <1>1, <2>1, PointersAdvance
  <2>3. PtrIndex(Advance(head, k - 1)) # PtrIndex(tail)
    BY <1>1, <1>2, <1>4, <2>1, IndicesDiffer
  <2>4. PtrIndex(Advance(head, k - 1)) \in FlIndices
    BY <2>2, IndexIsInRing
  <2>5. s2[k] = mem2[PtrIndex(Advance(head, k - 1))]
    BY <1>7, <2>1
  <2>6. s2[k] = mem[PtrIndex(Advance(head, k - 1))]
    BY <1>1, <2>3, <2>4, <2>5
  <2> QED
    BY <1>3, <2>6
<1>10. /\ Append(s, r) \in Seq(Registers) /\ Len(Append(s, r)) = c + 1
       /\ Append(s, r)[c + 1] = r /\ \A k \in 1 .. c : Append(s, r)[k] = s[k]
  BY <1>1, <1>2, AppendProperties
<1>11. s2 = Append(s, r)
  <2>1. \A k \in 1 .. c + 1 : s2[k] = Append(s, r)[k]
    BY <1>2, <1>8, <1>9, <1>10
  <2>2. Append(s, r) \in Seq(Phys)
    BY <1>1, <1>10, SeqMonotonic
  <2> QED
    BY <1>7, <1>10, <2>1, <2>2, SeqEqual
<1>12. Distinct(s2)
  <2> SUFFICES ASSUME NEW i \in 1 .. c + 1, NEW j \in 1 .. c + 1, s2[i] = s2[j]
               PROVE  i = j
    BY <1>7 DEF Distinct
  <2>1. \A k \in 1 .. c : s2[k] # r
    BY <1>3, <1>9 DEF Elements
  <2>2. i \in 1 .. c /\ j \in 1 .. c => i = j
    BY <1>1, <1>3, <1>9 DEF Distinct
  <2>3. (i \in 1 .. c \/ i = c + 1) /\ (j \in 1 .. c \/ j = c + 1)
    BY <1>2
  <2> QED
    BY <1>8, <2>1, <2>2, <2>3
<1> QED
  BY <1>1, <1>4, <1>6, <1>10, <1>11, <1>12 DEF GoodRing, s2, t

\* The allocation ports show the front of the list, the second one its second
\* element.
LEMMA PortsShowTheFront ==
  ASSUME PointersWrapWithRing, GoodRing(flMem, flHead, flTail),
         NEW n \in 0 .. 2, Servable(n)
  PROVE  n <= Len(List) /\ Requested(n) = SubSeq(List, 1, n)
<1> DEFINE c == FreeCount
           second == Alloc1Prd(TRUE)
<1>1. /\ flMem \in [FlIndices -> Phys] /\ flHead \in FlPointers /\ flTail \in FlPointers
      /\ List \in Seq(Registers)
  BY DEF GoodRing, List
<1>2. /\ c \in 0 .. FlDepth - 1 /\ Len(List) = c
  BY RingHasRoom DEF List, FreeCount
<1>3. \A k \in 1 .. c : List[k] = flMem[PtrIndex(Advance(flHead, k - 1))]
  BY <1>1, ListReads DEF List, FreeCount
<1>4. n <= c
  <2>1. n = 1 => c >= 1
    BY DEF Servable, CanAlloc1
  <2>2. n = 2 => c >= 2
    BY DEF Servable, CanAlloc2
  <2> HIDE DEF c
  <2> QED
    BY <1>2, <2>1, <2>2
<1> HIDE DEF c
<1>5. /\ c >= 1 => List[1] = Alloc0Prd
      /\ c >= 2 => List[2] = second
  <2>1. c >= 1 => List[1] = flMem[PtrIndex(Advance(flHead, 0))]
    BY <1>2, <1>3
  <2>2. c >= 2 => List[2] = flMem[PtrIndex(Advance(flHead, 1))]
    BY <1>2, <1>3
  <2>3. Advance(flHead, 0) = flHead
    BY <1>1, PointersAdvance
  <2>4. PtrIndex(Advance(flHead, 1)) = IdxInc(PtrIndex(flHead))
    BY <1>1, IndexFollows
  <2> QED
    BY <2>1, <2>2, <2>3, <2>4 DEF Alloc0Prd, Alloc1Prd
<1>6. /\ SubSeq(List, 1, n) \in Seq(Registers) /\ Len(SubSeq(List, 1, n)) = n
      /\ \A k \in 1 .. n : SubSeq(List, 1, n)[k] = List[k]
  <2>1. \A i \in 1 .. n : List[i] \in Registers
    BY <1>1, <1>2, <1>4
  <2>2. /\ SubSeq(List, 1, n) \in Seq(Registers)
        /\ Len(SubSeq(List, 1, n)) = IF 1 <= n THEN n - 1 + 1 ELSE 0
        /\ \A i \in 1 .. n - 1 + 1 : SubSeq(List, 1, n)[i] = List[1 + i - 1]
    BY <2>1, SubSeqProperties
  <2> QED
    BY <2>2
<1>7. Requested(n) \in Seq(Registers) /\ Len(Requested(n)) = n
  /\ \A k \in 1 .. n : Requested(n)[k] = List[k]
  <2>1. CASE n = 0
    BY <2>1 DEF Requested
  <2>2. CASE n = 1
    BY <1>1, <1>2, <1>4, <1>5, <2>2 DEF Requested
  <2>3. CASE n = 2
    <3>1. n # 0 /\ n # 1
      BY <2>3
    <3>2. Requested(n) = <<Alloc0Prd, second>>
      BY <3>1 DEF Requested
    <3> HIDE DEF second
    <3>3. /\ List[1] = Alloc0Prd /\ List[2] = second
          /\ List[1] \in Registers /\ List[2] \in Registers
      BY <1>1, <1>2, <1>4, <1>5, <2>3
    <3>4. <<Alloc0Prd, second>> = <<List[1], List[2]>>
      BY <3>3
    <3> DEFINE x == List[1]
               y == List[2]
    <3>5. x \in Registers /\ y \in Registers /\ Requested(n) = <<x, y>>
          /\ x = List[1] /\ y = List[2]
      BY <3>2, <3>3, <3>4
    <3> HIDE DEF x, y
    <3>6. /\ <<x, y>> \in Seq(Registers) /\ Len(<<x, y>>) = 2
          /\ <<x, y>>[1] = x /\ <<x, y>>[2] = y
      BY <3>5
    <3>7. \A k \in 1 .. 2 : <<x, y>>[k] = List[k]
      <4>1. \A k \in 1 .. 2 : k = 1 \/ k = 2
        OBVIOUS
      <4> QED
        BY <3>5, <3>6, <4>1
    <3> QED
      BY <2>3, <3>5, <3>6, <3>7
  <2> QED
    BY <2>1, <2>2, <2>3
<1> QED
  BY <1>2, <1>4, <1>6, <1>7, SeqEqual

-----------------------------------------------------------------------------
\* The slots that captures take.

LEMMA LowestIs ==
  ASSUME NEW S \in SUBSET Nat, S # {}
  PROVE  Lowest(S) \in S /\ \A t \in S : Lowest(S) <= t
<1> DEFINE Upto == {0 .. x : x \in S}
<1>1. Upto \subseteq FiniteSubsetsOf(Nat) /\ Upto # {}
  <2>1. ASSUME NEW x \in S PROVE 0 .. x \in SUBSET Nat /\ IsFiniteSet(0 .. x)
    BY FS_Interval
  <2> QED
    BY <2>1 DEF FiniteSubsetsOf
<1>2. PICK T \in Upto : \A U \in Upto : ~(<<U, T>> \in StrictSubsetOrdering(Nat))
  <2>1. IsWellFoundedOn(StrictSubsetOrdering(Nat), FiniteSubsetsOf(Nat))
    BY FS_StrictSubsetOrderingWellFounded
  <2> HIDE DEF Upto
  <2> QED
    BY <1>1, <2>1, WFMin
<1>3. PICK x \in S : T = 0 .. x
  OBVIOUS
<1>4. \A y \in S : x <= y
  <2> SUFFICES ASSUME NEW y \in S, y < x PROVE FALSE
    BY <1>3
  <2>1. <<0 .. y, T>> \in (SUBSET Nat) \X (SUBSET Nat)
    BY <1>3
  <2>2. 0 .. y \subseteq T /\ 0 .. y # T
    BY <1>3
  <2>3. <<0 .. y, T>> \in StrictSubsetOrdering(Nat)
    BY <2>1, <2>2 DEF StrictSubsetOrdering
  <2> QED
    BY <1>2, <2>3
<1> QED
  BY <1>3, <1>4 DEF Lowest

\* The n-th capture takes the n-th invalid slot.
CaptureSlot(n) == IF n = 1 THEN Lowest(OpenSlots)
                  ELSE Lowest(OpenSlots \ {Lowest(OpenSlots)})

LEMMA CapturesTakeOpenSlots ==
  /\ IsFiniteSet(Slots) /\ Cardinality(Slots) = CkptDepth
  /\ IsFiniteSet(OpenSlots) /\ Cardinality(OpenSlots) \in Nat
  /\ IsFiniteSet(Slots \ OpenSlots) /\ Cardinality(Slots \ OpenSlots) \in Nat
  /\ Cardinality(Slots \ OpenSlots) + Cardinality(OpenSlots) = CkptDepth
  /\ \A n \in 1 .. 2 : n <= Cardinality(OpenSlots) => CaptureSlot(n) \in OpenSlots
<1>1. IsFiniteSet(Slots) /\ Cardinality(Slots) = CkptDepth
  <2>1. 0 \in Int /\ CkptDepth - 1 \in Int /\ CkptDepth \in Nat /\ CkptDepth > 0
    BY Sizes
  <2>2. Cardinality(0 .. CkptDepth - 1)
          = IF 0 > CkptDepth - 1 THEN 0 ELSE CkptDepth - 1 - 0 + 1
    BY <2>1, FS_Interval
  <2>3. IsFiniteSet(0 .. CkptDepth - 1)
    BY <2>1, FS_Interval
  <2> QED
    BY <2>1, <2>2, <2>3 DEF Slots
<1>2. OpenSlots \in SUBSET Slots /\ OpenSlots \in SUBSET Nat
  BY DEF OpenSlots, Slots
<1>3. IsFiniteSet(OpenSlots)
  BY <1>1, <1>2, FS_Subset
<1>4. Cardinality(OpenSlots) \in Nat
  BY <1>3, FS_CardinalityType
<1>5. /\ IsFiniteSet(Slots \ OpenSlots)
      /\ Cardinality(Slots \ OpenSlots)
           = Cardinality(Slots) - Cardinality(Slots \cap OpenSlots)
  BY <1>1, FS_Difference
<1>6. Cardinality(Slots \ OpenSlots) \in Nat
  BY <1>5, FS_CardinalityType
<1>7. Slots \cap OpenSlots = OpenSlots
  BY <1>2
<1>8. ASSUME NEW n \in 1 .. 2, n <= Cardinality(OpenSlots)
      PROVE  CaptureSlot(n) \in OpenSlots
  <2>1. OpenSlots # {}
    BY <1>4, <1>8, FS_EmptySet
  <2>2. Lowest(OpenSlots) \in OpenSlots
    BY <1>2, <2>1, LowestIs
  <2>3. CASE n = 1
    BY <2>2, <2>3 DEF CaptureSlot
  <2>4. CASE n = 2
    <3> DEFINE rest == OpenSlots \ {Lowest(OpenSlots)}
    <3>1. IsFiniteSet(rest) /\ Cardinality(rest) = Cardinality(OpenSlots) - 1
      BY <1>3, <2>2, FS_RemoveElement
    <3>2. rest # {}
      BY <1>4, <1>8, <2>4, <3>1, FS_EmptySet
    <3>3. Lowest(rest) \in rest
      BY <1>2, <3>2, LowestIs
    <3> QED
      BY <2>4, <3>3 DEF CaptureSlot
  <2> QED
    BY <1>8, <2>3, <2>4
<1>9. Cardinality(Slots \ OpenSlots) + Cardinality(OpenSlots) = CkptDepth
  <2>1. Cardinality(Slots \ OpenSlots) = CkptDepth - Cardinality(OpenSlots)
    BY <1>1, <1>5, <1>7
  <2> QED
    BY <1>4, <2>1, Sizes
<1>10. \A n \in 1 .. 2 : n <= Cardinality(OpenSlots) => CaptureSlot(n) \in OpenSlots
  BY <1>8
<1> QED
  BY <1>1, <1>3, <1>4, <1>5, <1>6, <1>9, <1>10

-----------------------------------------------------------------------------
\* One clock edge, as the requests of FreelistUse make it.

RequestOf(n, back, recovered, drop, c) ==
  [Quiet EXCEPT
     !.allocs = n, !.drop = drop,
     !.free = IF recovered THEN 0 ELSE back,
     !.push = IF recovered THEN back ELSE 0,
     !.caps = [k \in DOMAIN c |-> [order |-> branchId + k - 1, allocs |-> c[k]]]]

ImageAt(k, m) == [valid |-> TRUE, order |-> branchId + k - 1, mem |-> flMem,
                  head |-> Advance(flHead, m), tail |-> flTail]

Kept(s, drop) == IF flCkpt[s].order > drop THEN flCkpt[s] ELSE Vacant

\* The captures that find a slot.
Taken(c) == {k \in DOMAIN c : k <= Cardinality(OpenSlots)}

LEMMA CapturesAreFew ==
  ASSUME NEW n \in 0 .. 2, NEW c \in Captures(n)
  PROVE  /\ Len(c) \in 0 .. 2 /\ DOMAIN c = 1 .. Len(c)
         /\ \A k \in DOMAIN c : k \in 1 .. 2 /\ c[k] \in 0 .. n
<1>1. PICK m \in 0 .. 2 : c \in [1 .. m -> 0 .. n]
  BY DEF Captures
<1>2. c \in Seq(0 .. n) /\ DOMAIN c = 1 .. m
  BY <1>1
<1>3. Len(c) = m
  BY <1>1, <1>2
<1> QED
  BY <1>1, <1>2, <1>3

\* What Serve leaves in each slot.
SlotsServed(n, drop, c) ==
  /\ flCkpt' = [s \in Slots |-> flCkpt'[s]]
  /\ \A s \in Slots :
       \/ \E k \in Taken(c) : CaptureSlot(k) = s /\ flCkpt'[s] = ImageAt(k, c[k])
       \/ /\ \A k \in Taken(c) : CaptureSlot(k) # s
          /\ flCkpt'[s] = Kept(s, drop)

LEMMA ServeCycle ==
  ASSUME NEW n \in 0 .. 2, NEW back, NEW recovered \in BOOLEAN, back = 0 => ~recovered,
         NEW drop, NEW c \in Captures(n),
         FreelistCycle(RequestOf(n, back, recovered, drop, c))
  PROVE  /\ flHead' = Advance(flHead, n)
         /\ back = 0 => flMem' = flMem /\ flTail' = flTail
         /\ back # 0 => /\ flMem' = [flMem EXCEPT ![PtrIndex(flTail)] = back]
                        /\ flTail' = Advance(flTail, 1)
         /\ SlotsServed(n, drop, c)
<1> DEFINE in == RequestOf(n, back, recovered, drop, c)
<1>1. /\ ~in.rebuild /\ in.restore = NoOrder /\ in.allocs = n /\ in.drop = drop
      /\ in.free = (IF recovered THEN 0 ELSE back)
      /\ in.push = (IF recovered THEN back ELSE 0)
      /\ in.caps = [k \in DOMAIN c |-> [order |-> branchId + k - 1, allocs |-> c[k]]]
  BY DEF RequestOf, Quiet
<1>2. /\ DOMAIN in.caps = DOMAIN c
      /\ \A k \in DOMAIN c : /\ in.caps[k].order = branchId + k - 1
                             /\ in.caps[k].allocs = c[k]
  BY <1>1
<1>3. FreelistCycle(in)
  OBVIOUS
<1> HIDE DEF in
<1>4. Advances(in)
  BY <1>1, <1>3 DEF FreelistCycle
<1>5. /\ flHead' = Advance(flHead, n)
      /\ back = 0 => flMem' = flMem /\ flTail' = flTail
      /\ back # 0 => /\ flMem' = [flMem EXCEPT ![PtrIndex(flTail)] = back]
                     /\ flTail' = Advance(flTail, 1)
  BY <1>1, <1>4 DEF Advances
<1> DEFINE slotOf(s) ==
             IF \E k \in Taken(c) : CaptureSlot(k) = s
             THEN ImageOf(in.caps[CHOOSE k \in Taken(c) : CaptureSlot(k) = s])
             ELSE Kept(s, drop)
<1>6. flCkpt' = [s \in Slots |-> slotOf(s)]
  BY <1>1, <1>2, <1>4 DEF Advances, CaptureSlot, Taken, Kept
<1>7. flCkpt' = [s \in Slots |-> flCkpt'[s]]
  <2> HIDE DEF slotOf
  <2> QED
    BY <1>6
<1>8. ASSUME NEW s \in Slots
      PROVE  \/ \E k \in Taken(c) : CaptureSlot(k) = s /\ flCkpt'[s] = ImageAt(k, c[k])
             \/ /\ \A k \in Taken(c) : CaptureSlot(k) # s
                /\ flCkpt'[s] = Kept(s, drop)
  <2>1. flCkpt'[s] = slotOf(s)
    BY <1>6
  <2>2. CASE \E k \in Taken(c) : CaptureSlot(k) = s
    <3> DEFINE k == CHOOSE k \in Taken(c) : CaptureSlot(k) = s
    <3>1. k \in Taken(c) /\ CaptureSlot(k) = s /\ flCkpt'[s] = ImageOf(in.caps[k])
      BY <2>1, <2>2
    <3> HIDE DEF k
    <3>2. ImageOf(in.caps[k]) = ImageAt(k, c[k])
      BY <1>2, <3>1 DEF Taken, ImageOf, ImageAt
    <3> QED
      BY <3>1, <3>2
  <2>3. CASE \A k \in Taken(c) : CaptureSlot(k) # s
    BY <2>1, <2>3
  <2> QED
    BY <2>2, <2>3
<1> QED
  BY <1>5, <1>7, <1>8 DEF SlotsServed

\* The list without the n registers that leave.
Rest(n) == SubSeq(List, n + 1, Len(List))
Incoming == {0} \cup (Phys \ (OnList \cup {0}))

LEMMA ServeMovesTheList ==
  ASSUME PointersWrapWithRing, UseInv,
         NEW n \in 0 .. 2, NEW back \in Incoming, Servable(n),
         flHead' = Advance(flHead, n),
         back = 0 => flMem' = flMem /\ flTail' = flTail,
         back # 0 => /\ flMem' = [flMem EXCEPT ![PtrIndex(flTail)] = back]
                     /\ flTail' = Advance(flTail, 1)
  PROVE  /\ GoodRing(flMem, flHead, flTail)'
         /\ n <= Len(List) /\ Requested(n) = SubSeq(List, 1, n)
         /\ \A m \in 0 .. n : /\ GoodRing(flMem, Advance(flHead, m), flTail)
                              /\ ListOf(flMem, Advance(flHead, m), flTail) = Rest(m)
         /\ \/ List' = Rest(n)
            \/ back \in Registers \ Elements(Rest(n)) /\ List' = Append(Rest(n), back)
<1>1. GoodRing(flMem, flHead, flTail)
  BY DEF UseInv
<1>2. n <= Len(List) /\ Requested(n) = SubSeq(List, 1, n)
  BY <1>1, PortsShowTheFront
<1>3. List \in Seq(Registers) /\ Len(List) \in Nat
  BY <1>1, LenProperties DEF GoodRing, List
<1>4. ASSUME NEW m \in 0 .. n
      PROVE  /\ GoodRing(flMem, Advance(flHead, m), flTail)
             /\ ListOf(flMem, Advance(flHead, m), flTail) = Rest(m)
  <2>1. m \in 0 .. Len(List) /\ List = ListOf(flMem, flHead, flTail)
    BY <1>2, <1>3 DEF List
  <2> QED
    BY <1>1, <2>1, HeadMoves DEF Rest
<1>5. /\ GoodRing(flMem, flHead', flTail)
      /\ ListOf(flMem, flHead', flTail) = Rest(n)
  BY <1>4
<1>6. CASE back = 0
  BY <1>2, <1>4, <1>5, <1>6 DEF GoodRing, List
<1>7. CASE back # 0
  <2>1. back \in Registers /\ back \notin Elements(List)
    BY <1>7 DEF Incoming, Registers, OnList
  <2>2. back \notin Elements(Rest(n))
    <3>1. \A i \in n + 1 .. Len(List) : List[i] \in Registers
      BY <1>3
    <3>2. /\ Len(Rest(n)) = IF n + 1 <= Len(List) THEN Len(List) - (n + 1) + 1 ELSE 0
          /\ \A i \in 1 .. Len(List) - (n + 1) + 1 : Rest(n)[i] = List[(n + 1) + i - 1]
          /\ Rest(n) \in Seq(Registers)
      BY <1>3, <3>1, SubSeqProperties DEF Rest
    <3>3. Len(Rest(n)) = Len(List) - n /\ DOMAIN Rest(n) = 1 .. Len(List) - n
      BY <1>2, <1>3, <3>2
    <3>4. ASSUME NEW i \in DOMAIN Rest(n) PROVE Rest(n)[i] \in Elements(List)
      <4>1. i \in 1 .. Len(List) - (n + 1) + 1 /\ (n + 1) + i - 1 \in 1 .. Len(List)
        BY <1>2, <1>3, <3>3
      <4>2. Rest(n)[i] = List[(n + 1) + i - 1] /\ (n + 1) + i - 1 \in DOMAIN List
        BY <1>3, <3>2, <4>1
      <4> QED
        BY <4>2 DEF Elements
    <3> QED
      BY <2>1, <3>4 DEF Elements
  <2>3. /\ flMem' \in [FlIndices -> Phys] /\ flMem'[PtrIndex(flTail)] = back
        /\ \A i \in FlIndices \ {PtrIndex(flTail)} : flMem'[i] = flMem[i]
    BY <1>1, <1>7, <2>1, IndexIsInRing DEF GoodRing, Registers
  <2>4. /\ GoodRing(flMem', flHead', Advance(flTail, 1))
        /\ ListOf(flMem', flHead', Advance(flTail, 1)) = Append(Rest(n), back)
    <3> DEFINE mem2 == flMem'
               h == flHead'
               q == Rest(n)
    <3>1. /\ mem2 \in [FlIndices -> Phys] /\ mem2[PtrIndex(flTail)] = back
          /\ \A i \in FlIndices \ {PtrIndex(flTail)} : mem2[i] = flMem[i]
          /\ GoodRing(flMem, h, flTail) /\ q = ListOf(flMem, h, flTail)
          /\ back \in Registers \ Elements(q)
      BY <1>5, <2>1, <2>2, <2>3
    <3> HIDE DEF mem2, h, q
    <3>2. /\ GoodRing(mem2, h, Advance(flTail, 1))
          /\ ListOf(mem2, h, Advance(flTail, 1)) = Append(q, back)
      BY <3>1, TailMoves
    <3> QED
      BY <3>2 DEF mem2, h, q
  <2> QED
    BY <1>2, <1>4, <1>7, <2>1, <2>2, <2>4 DEF GoodRing, List
<1> QED
  BY <1>6, <1>7

LEMMA VacantIsACheckpoint == Vacant \in Ckpts /\ ~Vacant.valid /\ ResetMem \in [FlIndices -> Phys]
<1>1. ResetMem \in [FlIndices -> Phys]
  BY Sizes DEF ResetMem, FlIndices, Phys
<1>2. 0 \in FlPointers /\ NumFree \in FlPointers
  BY Sizes DEF FlPointers
<1> QED
  BY <1>1, <1>2 DEF Vacant, Ckpts

LEMMA ServeKeepsCheckpoints ==
  ASSUME UseInv, NEW n \in 0 .. 2, NEW drop \in Int, NEW c \in Captures(n),
         SlotsServed(n, drop, c), branchId' = branchId + Len(c),
         \A m \in 0 .. n : GoodRing(flMem, Advance(flHead, m), flTail)
  PROVE  /\ flCkpt' \in [Slots -> Ckpts] /\ branchId' \in Nat
         /\ \A s \in Slots : flCkpt'[s].valid =>
              /\ GoodRing(flCkpt'[s].mem, flCkpt'[s].head, flCkpt'[s].tail)
              /\ flCkpt'[s].order < branchId'
         /\ \A s, t \in Slots :
              flCkpt'[s].valid /\ flCkpt'[t].valid /\ flCkpt'[s].order = flCkpt'[t].order
                => s = t
<1>1. /\ Len(c) \in 0 .. 2 /\ DOMAIN c = 1 .. Len(c)
      /\ \A k \in DOMAIN c : k \in 1 .. 2 /\ c[k] \in 0 .. n
  BY CapturesAreFew
<1>2. branchId \in Nat /\ branchId' \in Nat /\ branchId <= branchId'
  BY <1>1 DEF UseInv
<1>3. \A k \in Taken(c) : k \in 1 .. Len(c) /\ c[k] \in 0 .. n
  BY <1>1 DEF Taken
<1>4. ASSUME NEW k \in Taken(c)
      PROVE  /\ ImageAt(k, c[k]) \in Ckpts
             /\ ImageAt(k, c[k]).order = branchId + k - 1
             /\ ImageAt(k, c[k]).order < branchId'
             /\ GoodRing(ImageAt(k, c[k]).mem, ImageAt(k, c[k]).head, ImageAt(k, c[k]).tail)
  <2>1. /\ branchId + k - 1 \in Nat /\ branchId + k - 1 < branchId'
    BY <1>1, <1>2, <1>3
  <2>2. GoodRing(flMem, Advance(flHead, c[k]), flTail)
    BY <1>3
  <2> QED
    BY <2>1, <2>2 DEF ImageAt, Ckpts, GoodRing
<1>5. ASSUME NEW s \in Slots
      PROVE  /\ Kept(s, drop) \in Ckpts
             /\ Kept(s, drop).valid => /\ flCkpt[s].valid /\ Kept(s, drop) = flCkpt[s]
  BY VacantIsACheckpoint DEF Kept, UseInv
<1>6. ASSUME NEW s \in Slots
      PROVE  /\ flCkpt'[s] \in Ckpts
             /\ flCkpt'[s].valid =>
                  /\ GoodRing(flCkpt'[s].mem, flCkpt'[s].head, flCkpt'[s].tail)
                  /\ flCkpt'[s].order < branchId'
                  /\ \/ flCkpt[s].valid /\ flCkpt'[s].order = flCkpt[s].order
                                        /\ flCkpt'[s].order < branchId
                     \/ \E k \in Taken(c) : CaptureSlot(k) = s
                                            /\ flCkpt'[s].order = branchId + k - 1
  <2>1. CASE \E k \in Taken(c) : CaptureSlot(k) = s /\ flCkpt'[s] = ImageAt(k, c[k])
    BY <1>4, <2>1
  <2>2. CASE flCkpt'[s] = Kept(s, drop)
    <3>1. SUFFICES ASSUME flCkpt'[s].valid
                   PROVE  /\ GoodRing(flCkpt'[s].mem, flCkpt'[s].head, flCkpt'[s].tail)
                          /\ flCkpt'[s].order < branchId'
                          /\ flCkpt[s].valid /\ flCkpt'[s].order = flCkpt[s].order
                          /\ flCkpt'[s].order < branchId
      BY <1>5, <2>2
    <3>2. flCkpt[s].valid /\ flCkpt'[s] = flCkpt[s] /\ flCkpt[s].order \in Nat
      BY <1>5, <2>2, <3>1 DEF UseInv, Ckpts
    <3>3. /\ GoodRing(flCkpt[s].mem, flCkpt[s].head, flCkpt[s].tail)
          /\ flCkpt[s].order < branchId
      BY <3>2 DEF UseInv
    <3> QED
      BY <1>2, <3>2, <3>3
  <2> QED
    BY <2>1, <2>2 DEF SlotsServed
<1>7. ASSUME NEW s \in Slots, NEW t \in Slots, flCkpt'[s].valid, flCkpt'[t].valid,
             flCkpt'[s].order = flCkpt'[t].order
      PROVE  s = t
  <2>1. CASE /\ flCkpt[s].valid /\ flCkpt'[s].order = flCkpt[s].order
             /\ flCkpt[t].valid /\ flCkpt'[t].order = flCkpt[t].order
    BY <1>7, <2>1 DEF UseInv
  <2>2. CASE /\ \E k \in Taken(c) : CaptureSlot(k) = s /\ flCkpt'[s].order = branchId + k - 1
             /\ \E k \in Taken(c) : CaptureSlot(k) = t /\ flCkpt'[t].order = branchId + k - 1
    <3>1. PICK j \in Taken(c) : CaptureSlot(j) = s /\ flCkpt'[s].order = branchId + j - 1
      BY <2>2
    <3>2. PICK k \in Taken(c) : CaptureSlot(k) = t /\ flCkpt'[t].order = branchId + k - 1
      BY <2>2
    <3>3. j = k
      <4>1. j \in Int /\ k \in Int
        BY <1>1, <1>3
      <4>2. branchId + j - 1 = branchId + k - 1
        BY <1>7, <3>1, <3>2
      <4> QED
        BY <1>2, <4>1, <4>2
    <3> QED
      BY <3>1, <3>2, <3>3
  <2>3. \A k \in Taken(c) : ~(branchId + k - 1 < branchId)
    BY <1>1, <1>2, <1>3
  <2> QED
    BY <1>6, <1>7, <2>1, <2>2, <2>3
<1>8. flCkpt' \in [Slots -> Ckpts]
  BY <1>6 DEF SlotsServed
<1> QED
  BY <1>2, <1>6, <1>7, <1>8

-----------------------------------------------------------------------------
\* The mapping to the queue: the images are those of the valid slots.

Valid == Slots \ OpenSlots
Img(s) == [order |-> flCkpt[s].order,
           list |-> ListOf(flCkpt[s].mem, flCkpt[s].head, flCkpt[s].tail)]
ListImages == {Img(s) : s \in Valid}

LEMMA ImagesAreFew ==
  IsFiniteSet(ListImages) /\ Cardinality(ListImages) \in Nat
  /\ Cardinality(ListImages) + Cardinality(OpenSlots) <= CkptDepth
<1> DEFINE f == [s \in Valid |-> Img(s)]
<1>1. f \in Surjection(Valid, ListImages)
  BY DEF Surjection, ListImages
<1>2. IsFiniteSet(Valid)
  BY CapturesTakeOpenSlots DEF Valid
<1> HIDE DEF f
<1>3. IsFiniteSet(ListImages) /\ Cardinality(ListImages) <= Cardinality(Valid)
  BY <1>1, <1>2, FS_Surjection
<1>4. Cardinality(ListImages) \in Nat
  BY <1>3, FS_CardinalityType
<1>5. /\ Cardinality(Valid) \in Nat /\ Cardinality(OpenSlots) \in Nat
      /\ Cardinality(Valid) + Cardinality(OpenSlots) = CkptDepth
  BY CapturesTakeOpenSlots DEF Valid
<1> QED
  BY <1>3, <1>4, <1>5

LEMMA ServeImages ==
  ASSUME UseInv, NEW n \in 0 .. 2, NEW drop \in Int, NEW c \in Captures(n),
         SlotsServed(n, drop, c),
         \A m \in 0 .. n : ListOf(flMem, Advance(flHead, m), flTail) = Rest(m),
         NEW kept, kept = {i \in ListImages : i.order > drop},
         NEW new, new = ListImages' \ kept
  PROVE  /\ kept \subseteq ListImages'
         /\ Cardinality(new) <= 2
         /\ Cardinality(ListImages) + Cardinality(new) <= CkptDepth
         /\ \A i \in new : \E m \in 0 .. n : i.list = Rest(m)
<1> DEFINE captured(k) == [order |-> branchId + k - 1, list |-> Rest(c[k])]
           T == {captured(k) : k \in Taken(c)}
<1>1. /\ Len(c) \in 0 .. 2 /\ DOMAIN c = 1 .. Len(c)
      /\ \A k \in DOMAIN c : k \in 1 .. 2 /\ c[k] \in 0 .. n
  BY CapturesAreFew
<1>2. \A k \in Taken(c) : k \in 1 .. 2 /\ c[k] \in 0 .. n /\ CaptureSlot(k) \in OpenSlots
  BY <1>1, CapturesTakeOpenSlots DEF Taken
<1>3. \A s \in Slots : s \in Valid <=> flCkpt[s].valid
  BY DEF Valid, OpenSlots
<1>4. \A s \in Slots : s \in Valid' <=> flCkpt'[s].valid
  BY DEF Valid, OpenSlots, Slots
<1>5. kept \subseteq ListImages'
  <2> SUFFICES ASSUME NEW i \in kept PROVE i \in ListImages'
    OBVIOUS
  <2>1. PICK s \in Valid : i = Img(s)
    BY DEF ListImages
  <2>2. flCkpt[s].order > drop
    BY <2>1 DEF Img
  <2>3. s \in Slots /\ flCkpt[s].valid /\ s \notin OpenSlots
    BY <1>3 DEF Valid
  <2>4. flCkpt'[s] = flCkpt[s]
    BY <1>2, <2>2, <2>3 DEF SlotsServed, Kept
  <2>5. s \in Valid'
    BY <1>4, <2>3, <2>4
  <2>6. Img(s)' = Img(s)
    BY <2>4 DEF Img, ListOf, Advance, PtrIndex
  <2>7. Img(s)' \in ListImages'
    BY <2>5 DEF ListImages
  <2> QED
    BY <2>1, <2>6, <2>7
<1>6. ASSUME NEW i \in new
      PROVE  \E k \in Taken(c) : i = captured(k)
  <2>1. PICK s \in Valid' : i = Img(s)'
    BY <1>6 DEF ListImages
  <2>2. s \in Slots /\ flCkpt'[s].valid
    BY <1>4 DEF Valid, Slots
  <2>3. CASE flCkpt'[s] = Kept(s, drop)
    <3>1. flCkpt'[s] = flCkpt[s] /\ flCkpt[s].order > drop
      BY <2>2, <2>3, VacantIsACheckpoint DEF Kept
    <3>2. Img(s) \in ListImages /\ Img(s)' = Img(s) /\ Img(s).order > drop
      BY <1>3, <2>2, <3>1 DEF ListImages, Img, ListOf, Advance, PtrIndex
    <3> QED
      BY <2>1, <3>2
  <2>4. CASE \E k \in Taken(c) : flCkpt'[s] = ImageAt(k, c[k])
    <3>1. PICK k \in Taken(c) : flCkpt'[s] = ImageAt(k, c[k])
      BY <2>4
    <3>2. /\ flCkpt'[s].order = branchId + k - 1
          /\ flCkpt'[s].mem = flMem /\ flCkpt'[s].head = Advance(flHead, c[k])
          /\ flCkpt'[s].tail = flTail
      BY <3>1 DEF ImageAt
    <3>3. i = [order |-> flCkpt'[s].order,
               list |-> ListOf(flCkpt'[s].mem, flCkpt'[s].head, flCkpt'[s].tail)]
      BY <2>1 DEF Img, ListOf, Advance, PtrIndex
    <3>4. ListOf(flMem, Advance(flHead, c[k]), flTail) = Rest(c[k])
      BY <1>2
    <3> QED
      BY <3>2, <3>3, <3>4
  <2> QED
    BY <2>2, <2>3, <2>4 DEF SlotsServed
<1>7. /\ IsFiniteSet(Taken(c)) /\ Cardinality(Taken(c)) \in Nat
      /\ Cardinality(Taken(c)) <= 2 /\ Cardinality(Taken(c)) <= Cardinality(OpenSlots)
  <2>1. Cardinality(OpenSlots) \in Nat
    BY CapturesTakeOpenSlots
  <2>2. /\ Taken(c) \in SUBSET (1 .. 2) /\ Taken(c) \in SUBSET (1 .. Cardinality(OpenSlots))
    BY <1>1, <2>1 DEF Taken
  <2>3. IsFiniteSet(1 .. 2) /\ Cardinality(1 .. 2) = 2
    <3>1. 2 \in Nat
      OBVIOUS
    <3> QED
      BY <3>1, UpToIsFinite
  <2>4. /\ IsFiniteSet(1 .. Cardinality(OpenSlots))
        /\ Cardinality(1 .. Cardinality(OpenSlots)) = Cardinality(OpenSlots)
    BY <2>1, UpToIsFinite
  <2>5. IsFiniteSet(Taken(c)) /\ Cardinality(Taken(c)) <= 2
    BY <2>2, <2>3, FS_Subset
  <2>6. Cardinality(Taken(c)) <= Cardinality(OpenSlots)
    BY <2>2, <2>4, FS_Subset
  <2> QED
    BY <2>5, <2>6, FS_CardinalityType
<1>8. /\ IsFiniteSet(new) /\ Cardinality(new) \in Nat
      /\ Cardinality(new) <= Cardinality(Taken(c))
  <2> DEFINE f == [k \in Taken(c) |-> captured(k)]
  <2>1. f \in Surjection(Taken(c), T)
    BY DEF Surjection
  <2>2. new \in SUBSET T
    BY <1>6
  <2> HIDE DEF f, T
  <2>3. IsFiniteSet(T) /\ Cardinality(T) <= Cardinality(Taken(c))
    BY <1>7, <2>1, FS_Surjection
  <2>4. IsFiniteSet(new) /\ Cardinality(new) <= Cardinality(T)
    BY <2>2, <2>3, FS_Subset
  <2>5. Cardinality(new) \in Nat /\ Cardinality(T) \in Nat
    BY <2>3, <2>4, FS_CardinalityType
  <2> QED
    BY <1>7, <2>3, <2>4, <2>5
<1>9. Cardinality(new) <= 2
  BY <1>7, <1>8
<1>10. Cardinality(ListImages) + Cardinality(new) <= CkptDepth
  <2>1. CkptDepth \in Nat /\ Cardinality(OpenSlots) \in Nat
    BY Sizes, CapturesTakeOpenSlots
  <2> QED
    BY <1>7, <1>8, <2>1, ImagesAreFew
<1>11. ASSUME NEW i \in new PROVE \E m \in 0 .. n : i.list = Rest(m)
  BY <1>2, <1>6, <1>11
<1> QED
  BY <1>5, <1>9, <1>10, <1>11

-----------------------------------------------------------------------------
\* The steps.

\* The instance counts as this module does.
LEMMA FifoCounts ==
  ASSUME NEW S
  PROVE  Fifo!Cardinality(S) = Cardinality(S)
BY DEF Fifo!Cardinality, Cardinality

LEMMA RingIsAList ==
  ASSUME NEW s \in Seq(Registers), Distinct(s)
  PROVE  s \in Fifo!Lists
<1>1. Len(s) \in Nat /\ Len(s) <= Cardinality(Registers) /\ Cardinality(Registers) \in Nat
  BY DistinctIsShort, LenProperties, Sizes
<1>2. Len(s) \in 0 .. Cardinality(Registers) /\ s \in [1 .. Len(s) -> Registers]
  BY <1>1
<1>3. s \in UNION {[1 .. n -> Registers] : n \in 0 .. Cardinality(Registers)}
  BY <1>2
<1> QED
  BY <1>3, FifoCounts DEF Fifo!Lists, Fifo!Distinct, Distinct, Registers

LEMMA ServeStep ==
  ASSUME PointersWrapWithRing, UseInv, Serve
  PROVE  UseInv' /\ \E n \in 0 .. 2 : Fifo!Serve(n)
<1>1. PICK n \in 0 .. 2, back \in Incoming, recovered \in BOOLEAN,
           drop \in {NoOrder} \cup {flCkpt[s].order : s \in Slots \ OpenSlots} :
        /\ Servable(n)
        /\ back = 0 => ~recovered
        /\ \E c \in Captures(n) :
             /\ FreelistCycle(RequestOf(n, back, recovered, drop, c))
             /\ branchId' = branchId + Len(c)
        /\ granted' = Requested(n)
  BY DEF Serve, Incoming, RequestOf
<1>2. PICK c \in Captures(n) :
        /\ FreelistCycle(RequestOf(n, back, recovered, drop, c))
        /\ branchId' = branchId + Len(c)
  BY <1>1
<1>3. drop \in Int
  BY DEF UseInv, Ckpts, NoOrder
<1>4. /\ flHead' = Advance(flHead, n)
      /\ back = 0 => flMem' = flMem /\ flTail' = flTail
      /\ back # 0 => /\ flMem' = [flMem EXCEPT ![PtrIndex(flTail)] = back]
                     /\ flTail' = Advance(flTail, 1)
      /\ SlotsServed(n, drop, c)
  BY <1>1, <1>2, ServeCycle
<1>5. /\ GoodRing(flMem, flHead, flTail)'
      /\ n <= Len(List) /\ Requested(n) = SubSeq(List, 1, n)
      /\ \A m \in 0 .. n : /\ GoodRing(flMem, Advance(flHead, m), flTail)
                           /\ ListOf(flMem, Advance(flHead, m), flTail) = Rest(m)
      /\ \/ List' = Rest(n)
         \/ back \in Registers \ Elements(Rest(n)) /\ List' = Append(Rest(n), back)
  BY <1>1, <1>4, ServeMovesTheList
<1>6. UseInv'
  <2>1. /\ flCkpt' \in [Slots -> Ckpts] /\ branchId' \in Nat
        /\ \A s \in Slots : flCkpt'[s].valid =>
             /\ GoodRing(flCkpt'[s].mem, flCkpt'[s].head, flCkpt'[s].tail)
             /\ flCkpt'[s].order < branchId'
        /\ \A s, t \in Slots :
             flCkpt'[s].valid /\ flCkpt'[t].valid /\ flCkpt'[s].order = flCkpt'[t].order
               => s = t
    BY <1>2, <1>3, <1>4, <1>5, ServeKeepsCheckpoints
  <2> QED
    BY <1>5, <2>1 DEF UseInv, Slots, Ckpts, FlIndices, FlPointers, Phys, GoodRing
<1>7. Fifo!Serve(n)
  <2> DEFINE kept == {i \in ListImages : i.order > drop}
             new == ListImages' \ kept
  <2>1. /\ kept \subseteq ListImages' /\ Cardinality(new) <= 2
        /\ Cardinality(ListImages) + Cardinality(new) <= CkptDepth
        /\ \A i \in new : \E m \in 0 .. n : i.list = Rest(m)
    <3>1. /\ kept = {i \in ListImages : i.order > drop} /\ new = ListImages' \ kept
          /\ \A m \in 0 .. n : ListOf(flMem, Advance(flHead, m), flTail) = Rest(m)
          /\ SlotsServed(n, drop, c) /\ drop \in Int /\ c \in Captures(n)
      BY <1>3, <1>4, <1>5
    <3> HIDE DEF kept, new
    <3> QED
      BY <3>1, ServeImages
  <2>2. drop \in {-1} \cup {i.order : i \in ListImages}
    <3>1. CASE drop = NoOrder
      BY <3>1 DEF NoOrder
    <3>2. CASE \E s \in Slots \ OpenSlots : drop = flCkpt[s].order
      <4>1. PICK s \in Valid : drop = Img(s).order
        BY <3>2 DEF Img, Valid
      <4>2. Img(s) \in ListImages
        BY DEF ListImages
      <4> QED
        BY <4>1, <4>2
    <3> QED
      BY <3>1, <3>2
  <2>3. \/ List' = Rest(n)
        \/ \E r \in Registers \ {Rest(n)[k] : k \in DOMAIN Rest(n)} : List' = Append(Rest(n), r)
    BY <1>5 DEF Elements
  <2> DEFINE images == ListImages
             next == ListImages'
  <2>4. Fifo!Serve(n) <=>
          /\ n <= Len(List)
          /\ granted' = SubSeq(List, 1, n)
          /\ \/ List' = Rest(n)
             \/ \E r \in Registers \ {Rest(n)[k] : k \in DOMAIN Rest(n)} :
                  List' = Append(Rest(n), r)
          /\ \E d \in {-1} \cup {i.order : i \in images} :
               /\ {i \in images : i.order > d} \subseteq next
               /\ Fifo!Cardinality(next \ {i \in images : i.order > d}) <= 2
               /\ Fifo!Cardinality(images) + Fifo!Cardinality(next \ {i \in images : i.order > d})
                    <= CkptDepth
               /\ \A i \in next \ {i \in images : i.order > d} :
                    \E m \in 0 .. n : i.list = Rest(m)
    BY Zenon DEF Fifo!Serve, Rest, Registers, ListImages, Img, Valid
  <2> HIDE DEF images, next
  <2>5. \E d \in {-1} \cup {i.order : i \in images} :
          /\ {i \in images : i.order > d} \subseteq next
          /\ Fifo!Cardinality(next \ {i \in images : i.order > d}) <= 2
          /\ Fifo!Cardinality(images) + Fifo!Cardinality(next \ {i \in images : i.order > d})
               <= CkptDepth
          /\ \A i \in next \ {i \in images : i.order > d} :
               \E m \in 0 .. n : i.list = Rest(m)
    BY <2>1, <2>2, FifoCounts DEF images, next
  <2> QED
    BY <1>1, <1>5, <2>3, <2>4, <2>5
<1> QED
  BY <1>6, <1>7

\* A ring filled from its first place with distinct registers.
LEMMA FilledRing ==
  ASSUME NEW mem \in [FlIndices -> Phys], NEW n \in 0 .. FlDepth - 1,
         \A i \in 0 .. n - 1 : mem[i] \in Registers,
         \A i, j \in 0 .. n - 1 : mem[i] = mem[j] => i = j
  PROVE  GoodRing(mem, 0, n)
<1> DEFINE s == ListOf(mem, 0, n)
           c == (n - 0) % PtrMod
<1>1. FlDepth \in Nat /\ PtrMod \in Nat /\ FlDepth < PtrMod /\ n \in Nat
  BY Sizes
<1>2. 0 \in FlPointers /\ n \in FlPointers
  BY <1>1 DEF FlPointers
<1>3. c = n
  <2>1. c = IF n < 0 THEN n - 0 + PtrMod ELSE n - 0
    BY <1>2, PointersAdvance
  <2> HIDE DEF c
  <2> QED
    BY <1>1, <2>1
<1>4. /\ s \in Seq(Phys) /\ Len(s) = c /\ DOMAIN s = 1 .. c
      /\ \A k \in 1 .. c : s[k] = mem[PtrIndex(Advance(0, k - 1))]
  <2>1. s = ListOf(mem, 0, n) /\ c = (n - 0) % PtrMod
    OBVIOUS
  <2> HIDE DEF s, c
  <2> QED
    BY <1>2, <2>1, ListReads
<1> HIDE DEF s, c
<1>5. ASSUME NEW k \in 1 .. n PROVE k - 1 \in 0 .. n - 1 /\ s[k] = mem[k - 1]
  <2>1. k - 1 \in 0 .. n - 1 /\ k - 1 \in 0 .. PtrMod /\ 0 + (k - 1) < PtrMod /\ k - 1 < FlDepth
    BY <1>1
  <2>2. Advance(0, k - 1) = IF 0 + (k - 1) < PtrMod THEN 0 + (k - 1) ELSE 0 + (k - 1) - PtrMod
    BY <1>2, <2>1, PointersAdvance
  <2>3. Advance(0, k - 1) = k - 1
    BY <2>1, <2>2
  <2>4. PtrIndex(k - 1) = k - 1
    BY <1>1, <2>1 DEF PtrIndex
  <2> QED
    BY <1>3, <1>4, <2>1, <2>3, <2>4
<1>6. s \in Seq(Registers)
  <2>1. \A k \in 1 .. Len(s) : s[k] \in Registers
    BY <1>3, <1>4, <1>5
  <2> QED
    BY <1>4, <2>1
<1>7. Distinct(s)
  <2> SUFFICES ASSUME NEW i \in 1 .. n, NEW j \in 1 .. n, s[i] = s[j] PROVE i = j
    BY <1>3, <1>4 DEF Distinct
  <2>1. i - 1 = j - 1
    BY <1>5
  <2> QED
    BY <1>1, <2>1
<1> QED
  BY <1>2, <1>6, <1>7 DEF GoodRing, s

LEMMA InitialList ==
  ASSUME UseInit
  PROVE  UseInv /\ Fifo!FifoInit
<1>1. GoodRing(flMem, flHead, flTail)
  <2>1. /\ flMem \in [FlIndices -> Phys] /\ flHead = 0 /\ flTail = NumFree
        /\ flMem = ResetMem
    BY VacantIsACheckpoint DEF UseInit, FreelistInit
  <2>2. NumFree \in 0 .. FlDepth - 1
    BY Sizes
  <2>3. \A i \in 0 .. NumFree - 1 : flMem[i] = NumArch + i
    BY <2>1, Sizes DEF ResetMem, FlIndices
  <2>4. \A i \in 0 .. NumFree - 1 : NumArch + i \in Registers
    BY Sizes
  <2>5. \A i, j \in 0 .. NumFree - 1 : NumArch + i = NumArch + j => i = j
    BY Sizes
  <2>6. /\ \A i \in 0 .. NumFree - 1 : flMem[i] \in Registers
        /\ \A i, j \in 0 .. NumFree - 1 : flMem[i] = flMem[j] => i = j
    BY <2>3, <2>4, <2>5
  <2>7. GoodRing(flMem, 0, NumFree)
    BY <2>1, <2>2, <2>6, FilledRing
  <2> QED
    BY <2>1, <2>7
<1>2. /\ flCkpt \in [Slots -> Ckpts] /\ \A s \in Slots : ~flCkpt[s].valid
  BY VacantIsACheckpoint DEF UseInit, FreelistInit
<1>3. UseInv
  BY <1>1, <1>2 DEF UseInv, UseInit
<1>4. List \in Fifo!Lists
  BY <1>1, RingIsAList DEF GoodRing, List
<1>5. Slots \ OpenSlots = {}
  BY <1>2 DEF OpenSlots
<1> QED
  BY <1>3, <1>4, <1>5 DEF Fifo!FifoInit, UseInit

LEMMA MispredictStep ==
  ASSUME UseInv, Mispredict
  PROVE  UseInv' /\ \E i \in ListImages : Fifo!PutBack(i)
<1>1. PICK s \in Slots \ OpenSlots :
        /\ FreelistCycle([Quiet EXCEPT !.restore = flCkpt[s].order])
        /\ granted' = <<>> /\ UNCHANGED branchId
  BY DEF Mispredict
<1> DEFINE o == flCkpt[s].order
           in == [Quiet EXCEPT !.restore = o]
<1>2. /\ s \in Slots /\ flCkpt[s].valid /\ flCkpt[s] \in Ckpts /\ o \in Nat
  BY DEF OpenSlots, UseInv, Ckpts
<1>3. ~in.rebuild /\ in.restore = o /\ in.restore # NoOrder
  BY <1>2 DEF Quiet, NoOrder
<1>4. MatchingSlots(o) = {s}
  BY <1>2 DEF MatchingSlots, UseInv
<1>5. RestoreHit(o) /\ RestoreSlot(o) = s
  <2>1. \A t \in {s} : t <= s
    BY <1>2 DEF Slots
  <2> QED
    BY <1>4, <2>1 DEF RestoreHit, RestoreSlot
<1>6. RestoreList(o)
  <2>1. FreelistCycle(in)
    BY <1>1
  <2> HIDE DEF in, o
  <2> QED
    BY <1>3, <1>5, <2>1 DEF FreelistCycle
<1> HIDE DEF in
<1>7. /\ flMem' = flCkpt[s].mem /\ flHead' = flCkpt[s].head /\ flTail' = flCkpt[s].tail
      /\ flCkpt' = [t \in Slots |-> IF flCkpt[t].order < o THEN flCkpt[t] ELSE Vacant]
  BY <1>5, <1>6 DEF RestoreList
<1>8. \A t \in Slots : /\ flCkpt'[t] \in Ckpts
                       /\ flCkpt'[t].valid <=> flCkpt[t].valid /\ flCkpt[t].order < o
                       /\ flCkpt'[t].valid => flCkpt'[t] = flCkpt[t]
  BY <1>7, VacantIsACheckpoint DEF UseInv
<1>9. UseInv'
  <2>1. GoodRing(flMem', flHead', flTail')
    BY <1>2, <1>7 DEF UseInv
  <2>2. flCkpt' \in [Slots -> Ckpts]
    BY <1>7, <1>8
  <2>3. branchId' = branchId
    BY <1>1
  <2>4. \A t \in Slots : flCkpt'[t].valid =>
          /\ GoodRing(flCkpt'[t].mem, flCkpt'[t].head, flCkpt'[t].tail)
          /\ flCkpt'[t].order < branchId
    BY <1>8 DEF UseInv
  <2>5. \A t, u \in Slots :
          flCkpt'[t].valid /\ flCkpt'[u].valid /\ flCkpt'[t].order = flCkpt'[u].order
            => t = u
    BY <1>8 DEF UseInv
  <2> QED
    BY <2>1, <2>2, <2>3, <2>4, <2>5 DEF UseInv, Slots, Ckpts, FlIndices, FlPointers, Phys, GoodRing
<1>10. PICK i \in ListImages : i = Img(s)
  BY <1>1 DEF ListImages, Valid
<1>11. Fifo!PutBack(i)
  <2>1. List' = Img(s).list
    BY <1>7 DEF List, Img, ListOf, Advance, PtrIndex
  <2>2. ListImages' = {j \in ListImages : j.order < Img(s).order}
    <3>1. \A t \in Slots : t \in Valid' <=> t \in Valid /\ flCkpt[t].order < o
      BY <1>8 DEF Valid, OpenSlots, Slots
    <3>2. \A t \in Slots : t \in Valid' => Img(t)' = Img(t)
      <4> SUFFICES ASSUME NEW t \in Slots, t \in Valid' PROVE Img(t)' = Img(t)
        OBVIOUS
      <4>1. flCkpt'[t] = flCkpt[t]
        BY <1>8 DEF Valid, OpenSlots, Slots
      <4> QED
        BY <4>1 DEF Img, ListOf, Advance, PtrIndex
    <3>3. \A t : Img(t).order = flCkpt[t].order
      BY DEF Img
    <3>4. Valid \subseteq Slots /\ Valid' \subseteq Slots
      BY DEF Valid, Slots
    <3>5. ASSUME NEW j \in ListImages' PROVE j \in ListImages /\ j.order < o
      <4>1. PICK t \in Valid' : j = Img(t)'
        BY <3>5 DEF ListImages
      <4>2. t \in Valid /\ j = Img(t) /\ j.order < o
        BY <3>1, <3>2, <3>3, <3>4, <4>1
      <4> QED
        BY <4>2 DEF ListImages
    <3>6. ASSUME NEW j \in ListImages, j.order < o PROVE j \in ListImages'
      <4>1. PICK t \in Valid : j = Img(t)
        BY <3>6 DEF ListImages
      <4>2. t \in Valid' /\ j = Img(t)'
        BY <3>1, <3>2, <3>3, <3>4, <3>6, <4>1
      <4> QED
        BY <4>2 DEF ListImages
    <3> QED
      BY <3>3, <3>5, <3>6
  <2> QED
    BY <1>1, <1>10, <2>1, <2>2 DEF Fifo!PutBack, ListImages, Img, Valid
<1> QED
  BY <1>9, <1>11

-----------------------------------------------------------------------------
\* The rebuilt list: each free register at the place of its rank.

FreeOf(mapped) == Registers \ mapped
RankIn(free, p) == Cardinality({q \in free : q < p})

LEMMA RanksFillTheFront ==
  ASSUME NEW free \in SUBSET Registers, NEW n, n = Cardinality(free)
  PROVE  /\ n \in 0 .. FlDepth - 1
         /\ \A p \in free : RankIn(free, p) \in 0 .. n - 1
         /\ \A i \in 0 .. n - 1 : \E p \in free : RankIn(free, p) = i
<1>1. Registers = 1 .. FlDepth - 1 /\ FlDepth \in Nat /\ FlDepth > 1
  BY Sizes
<1>2. IsFiniteSet(Registers) /\ Cardinality(Registers) = FlDepth - 1
  <2>1. FlDepth - 1 \in Nat
    BY <1>1
  <2> QED
    BY <1>1, <2>1, UpToIsFinite
<1>3. IsFiniteSet(free) /\ n \in Nat /\ n <= FlDepth - 1
  <2>1. IsFiniteSet(free) /\ Cardinality(free) <= Cardinality(Registers)
    BY <1>2, FS_Subset
  <2> QED
    BY <1>2, <2>1, FS_CardinalityType
<1>4. ASSUME NEW p \in free
      PROVE  /\ IsFiniteSet({q \in free : q < p})
             /\ RankIn(free, p) \in 0 .. n - 1
  <2> DEFINE below == {q \in free : q < p}
  <2>1. IsFiniteSet(free \ {p}) /\ Cardinality(free \ {p}) = n - 1
    BY <1>3, <1>4, FS_RemoveElement
  <2>2. below \in SUBSET (free \ {p})
    BY <1>1
  <2> HIDE DEF below
  <2>3. IsFiniteSet(below) /\ Cardinality(below) <= Cardinality(free \ {p})
    BY <2>1, <2>2, FS_Subset
  <2>4. Cardinality(below) \in Nat
    BY <2>3, FS_CardinalityType
  <2>5. Cardinality(below) \in 0 .. n - 1
    BY <1>3, <2>1, <2>3, <2>4
  <2> QED
    BY <2>3, <2>5 DEF below, RankIn
<1>5. ASSUME NEW p \in free, NEW q \in free, p < q
      PROVE  RankIn(free, p) < RankIn(free, q)
  <2> DEFINE belowP == {x \in free : x < p}
             belowQ == {x \in free : x < q}
  <2>1. IsFiniteSet(belowP) /\ IsFiniteSet(belowQ)
    BY <1>4
  <2>2. belowP \cup {p} \in SUBSET belowQ /\ p \notin belowP
    <3>1. \A x \in free : x \in Int
      BY <1>1
    <3> QED
      BY <1>5, <3>1
  <2> HIDE DEF belowP, belowQ
  <2>3. /\ IsFiniteSet(belowP \cup {p})
        /\ Cardinality(belowP \cup {p}) = Cardinality(belowP) + 1
    BY <2>1, <2>2, FS_AddElement
  <2>4. Cardinality(belowP \cup {p}) <= Cardinality(belowQ)
    BY <2>1, <2>2, FS_Subset
  <2>5. Cardinality(belowP) \in Nat /\ Cardinality(belowQ) \in Nat
    BY <2>1, FS_CardinalityType
  <2>6. Cardinality(belowP) < Cardinality(belowQ)
    BY <2>3, <2>4, <2>5
  <2> QED
    BY <2>6 DEF belowP, belowQ, RankIn
<1>6. \A i \in 0 .. n - 1 : \E p \in free : RankIn(free, p) = i
  <2> DEFINE r == [p \in free |-> RankIn(free, p)]
             places == 0 .. n - 1
  <2>1. r \in [free -> places]
    BY <1>4
  <2>2. \A p, q \in free : r[p] = r[q] => p = q
    <3> SUFFICES ASSUME NEW p \in free, NEW q \in free, r[p] = r[q] PROVE p = q
      OBVIOUS
    <3>1. RankIn(free, p) = RankIn(free, q)
      OBVIOUS
    <3> HIDE DEF r
    <3>2. RankIn(free, p) \in 0 .. n - 1
      BY <1>4
    <3>3. ~(p < q) /\ ~(q < p)
      BY <1>5, <3>1, <3>2
    <3>4. p \in Int /\ q \in Int
      BY <1>1
    <3> QED
      BY <3>3, <3>4
  <2>3. r \in Injection(free, places)
    BY <2>1, <2>2 DEF Injection, IsInjective
  <2>4. IsFiniteSet(places) /\ Cardinality(places) = n
    <3> DEFINE m == n - 1
    <3>1. m \in Int /\ 0 \in Int /\ m = n - 1
      BY <1>3
    <3> HIDE DEF m
    <3>2. IsFiniteSet(0 .. m) /\ Cardinality(0 .. m) = IF 0 > m THEN 0 ELSE m - 0 + 1
      BY <3>1, FS_Interval
    <3>3. IsFiniteSet(0 .. m) /\ Cardinality(0 .. m) = n
      BY <1>3, <3>1, <3>2
    <3> QED
      BY <3>1, <3>3
  <2> HIDE DEF r, places
  <2>5. r \in Surjection(free, places)
    BY <2>3, <2>4, FS_Injection
  <2>6. \A i \in places : \E p \in free : r[p] = i
    BY <2>5 DEF Surjection
  <2>7. \A p \in free : r[p] = RankIn(free, p)
    BY DEF r
  <2> QED
    BY <2>6, <2>7 DEF places
<1>7. n \in 0 .. FlDepth - 1
  BY <1>1, <1>3
<1> QED
  BY <1>4, <1>6, <1>7

LEMMA RefillStep ==
  ASSUME UseInv, Refill
  PROVE  UseInv' /\ Fifo!Renew
<1>1. PICK mapped \in SUBSET Phys :
        FreelistCycle([Quiet EXCEPT !.rebuild = TRUE, !.mapped = mapped])
  BY DEF Refill
<1>2. granted' = <<>> /\ branchId' = branchId /\ OpenSlots = Slots
  BY DEF Refill
<1> DEFINE in == [Quiet EXCEPT !.rebuild = TRUE, !.mapped = mapped]
           free == FreeOf(mapped)
           n == Cardinality(free)
<1>3. Rebuild(mapped)
  <2>1. in.rebuild /\ in.mapped = mapped /\ FreelistCycle(in)
    BY <1>1 DEF Quiet
  <2> HIDE DEF in
  <2> QED
    BY <2>1 DEF FreelistCycle
<1>4. /\ flMem' = [i \in FlIndices |->
                     IF \E p \in free : RankIn(free, p) = i
                     THEN CHOOSE p \in free : RankIn(free, p) = i ELSE 0]
      /\ flHead' = 0 /\ flTail' = n /\ flCkpt' = [s \in Slots |-> Vacant]
  BY <1>3 DEF Rebuild, FreeOf, RankIn, Registers
<1>5. /\ n \in 0 .. FlDepth - 1
      /\ \A p \in free : RankIn(free, p) \in 0 .. n - 1
      /\ \A i \in 0 .. n - 1 : \E p \in free : RankIn(free, p) = i
      /\ free \subseteq Registers
  <2>1. free \in SUBSET Registers /\ n = Cardinality(free)
    BY DEF FreeOf
  <2> HIDE DEF free, n
  <2> QED
    BY <2>1, RanksFillTheFront
<1> HIDE DEF in, free, n
<1>6. flMem' \in [FlIndices -> Phys]
  <2>1. 0 \in Phys /\ Registers \subseteq Phys
    BY Sizes DEF Phys, Registers
  <2> QED
    BY <1>4, <1>5, <2>1
<1>7. \A i \in 0 .. n - 1 : flMem'[i] \in Registers /\ RankIn(free, flMem'[i]) = i
  <2>1. 0 .. n - 1 \subseteq FlIndices
    BY <1>5, Sizes DEF FlIndices
  <2> QED
    BY <1>4, <1>5, <2>1
<1>8. GoodRing(flMem', flHead', flTail')
  <2> DEFINE mem == flMem'
  <2>1. /\ mem \in [FlIndices -> Phys]
        /\ \A i \in 0 .. n - 1 : mem[i] \in Registers
        /\ \A i, j \in 0 .. n - 1 : mem[i] = mem[j] => i = j
    BY <1>6, <1>7
  <2> HIDE DEF mem
  <2>2. GoodRing(mem, 0, n)
    BY <1>5, <2>1, FilledRing
  <2> QED
    BY <1>4, <2>2 DEF mem
<1>9. flCkpt' \in [Slots -> Ckpts] /\ \A s \in Slots : ~flCkpt'[s].valid
  BY <1>4, VacantIsACheckpoint
<1>10. UseInv'
  BY <1>2, <1>8, <1>9 DEF UseInv, Slots, Ckpts, FlIndices, FlPointers, Phys, GoodRing
<1>11. List' \in Fifo!Lists
  <2>1. List' \in Seq(Registers) /\ Distinct(List')
    BY <1>8 DEF GoodRing, List, ListOf, Advance, PtrIndex
  <2> QED
    BY <2>1, RingIsAList
<1>12. Valid = {} /\ Valid' = {}
  BY <1>2, <1>9 DEF Valid, OpenSlots, Slots
<1>13. ListImages = {} /\ ListImages' = {}
  BY <1>12 DEF ListImages
<1> QED
  BY <1>2, <1>10, <1>11, <1>13 DEF Fifo!Renew, ListImages, Img, Valid, Fifo!Lists, Fifo!Distinct

-----------------------------------------------------------------------------
\* A cycle in which nothing changes.
LEMMA QuietStep ==
  ASSUME UseInv, UNCHANGED useVars
  PROVE  UseInv' /\ UNCHANGED Fifo!fifoVars
<1>1. /\ flMem' = flMem /\ flHead' = flHead /\ flTail' = flTail /\ flCkpt' = flCkpt
      /\ branchId' = branchId /\ granted' = granted
  BY DEF useVars, flVars
<1>2. UseInv'
  BY <1>1 DEF UseInv
<1>3. List' = List
  BY <1>1 DEF List, ListOf, Advance, PtrIndex
<1>4. Valid' = Valid /\ \A s : Img(s)' = Img(s)
  BY <1>1 DEF Valid, OpenSlots, Slots, Img, ListOf, Advance, PtrIndex
<1>5. ListImages' = ListImages
  BY <1>4 DEF ListImages
<1> QED
  BY <1>1, <1>2, <1>3, <1>5 DEF Fifo!fifoVars, ListImages, Img, Valid

\* What the list and its images hold is distinct registers, and the images of
\* the valid checkpoints belong to different branches.
THEOREM ListsAreSound ==
  ASSUME PointersWrapWithRing
  PROVE  UseSpec => []UseInv
<1>1. UseInit => UseInv
  BY InitialList
<1>2. UseInv /\ [UseNext]_useVars => UseInv'
  BY ServeStep, MispredictStep, RefillStep, QuietStep DEF UseNext
<1> QED
  BY <1>1, <1>2, PTL DEF UseSpec

\* The free list is the queue that freelist.v's header promises: every request
\* takes the front, what comes back enters at the back, and a mispredicted
\* branch finds the list as it was when the branch was dispatched.
THEOREM ListImplementsFifo ==
  ASSUME PointersWrapWithRing
  PROVE  UseSpec => ImplementsFifo
<1>1. UseInit => Fifo!FifoInit
  BY InitialList
<1>2. UseInv /\ [UseNext]_useVars => [Fifo!FifoNext]_Fifo!fifoVars
  <2> SUFFICES ASSUME UseInv, [UseNext]_useVars
               PROVE  [Fifo!FifoNext]_Fifo!fifoVars
    OBVIOUS
  <2>1. CASE Serve
    BY <2>1, ServeStep DEF Fifo!FifoNext
  <2>2. CASE Mispredict
    <3>1. \E i \in ListImages : Fifo!PutBack(i)
      BY <2>2, MispredictStep
    <3> QED
      BY <3>1 DEF Fifo!FifoNext, ListImages, Img, Valid
  <2>3. CASE Refill
    BY <2>3, RefillStep DEF Fifo!FifoNext
  <2>4. CASE UNCHANGED useVars
    BY <2>4, QuietStep
  <2> QED
    BY <2>1, <2>2, <2>3, <2>4 DEF UseNext
<1> QED
  BY <1>1, <1>2, ListsAreSound, PTL DEF UseSpec, ImplementsFifo, Fifo!FifoSpec
=============================================================================
