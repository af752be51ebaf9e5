---------------------------- MODULE RenameProofs ----------------------------
(***************************************************************************)
(* Proofs about register renaming as a whole, for every ring depth, list   *)
(* size, number of checkpoint slots and every program: what Rename's       *)
(* registers hold, what its reorder buffer keeps of the proofs about       *)
(* Retire, that commit and recovery never hand back a register in the same *)
(* cycle, and what the map says of the program.                            *)
(***************************************************************************)
EXTENDS Rename, RetireProofs, FiniteSetTheorems, WellFoundedInduction

\* What rename passes on of an offer: all of it or nothing.
Offer(f, s, K) ==
  /\ K \in 0 .. 2 /\ s \in [1 .. K -> Instrs] /\ orderId + K <= MaxOrder
  /\ f.valid \/ RobFull \/ XretPending => K = 0
  /\ \A n \in 1 .. K :
       /\ s[n].branch \/ s[n].xret =>
            ~BranchPending /\ \A m \in 1 .. n - 1 : ~s[m].branch
       /\ s[n].xret => n = K

\* Each port of the buffer shows one entry at most, and never both show one.
PortsTakeTurns ==
  /\ commit0 = {} \/ recoverOut = {}
  /\ \A d, e \in commit0 : d = e
  /\ \A d, e \in recoverOut : d = e

LogTyped == log \in Seq([ins : Instrs, prd : Phys]) /\ Len(log) = orderId

RenameInv ==
  /\ HistoryInv /\ PortsTakeTurns
  /\ FreelistTypeOK /\ RMT!RmtTypeOK /\ LogTyped
  /\ ckptRecover \in BOOLEAN /\ quarantine \subseteq Phys
  /\ slipped \in BOOLEAN /\ unmatched \in BOOLEAN

-----------------------------------------------------------------------------
\* The allocations of a dispatch, as an explicit function of its two ports.
LEMMA NthPort ==
  /\ Nth({1}, 1) = 1 /\ Nth({2}, 1) = 2
  /\ Nth({1, 2}, 1) = 1 /\ Nth({1, 2}, 2) = 2
<1>1. \A n \in {1, 2} : Nth({n}, 1) = n
  <2> SUFFICES ASSUME NEW n \in {1, 2} PROVE Nth({n}, 1) = n
    OBVIOUS
  <2>1. {m \in {n} : m <= n} = {n}
    OBVIOUS
  <2>2. Cardinality({n}) = 1
    BY FS_Singleton
  <2>3. \A k \in {n} : k = n
    OBVIOUS
  <2> QED
    BY <2>1, <2>2, <2>3 DEF Nth
<1>2. {m \in {1, 2} : m <= 1} = {1} /\ {m \in {1, 2} : m <= 2} = {1, 2}
  OBVIOUS
<1>3. Cardinality({1}) = 1 /\ Cardinality({1, 2}) = 2
  <2>1. Cardinality({1}) = 1 /\ IsFiniteSet({1})
    BY FS_Singleton
  <2>2. Cardinality({1} \cup {2}) = Cardinality({1}) + 1
    BY <2>1, FS_AddElement
  <2>3. {1} \cup {2} = {1, 2}
    OBVIOUS
  <2> QED
    BY <2>1, <2>2, <2>3
<1>4. Nth({1, 2}, 1) = 1 /\ Nth({1, 2}, 2) = 2
  BY <1>2, <1>3 DEF Nth
<1> QED
  BY <1>1, <1>4

LEMMA PortSets ==
  ASSUME NEW S, S \subseteq 1 .. 2
  PROVE  /\ S = {} \/ S = {1} \/ S = {2} \/ S = {1, 2}
         /\ Cardinality({}) = 0 /\ Cardinality({1}) = 1
         /\ Cardinality({2}) = 1 /\ Cardinality({1, 2}) = 2
<1>1. \A n \in S : n = 1 \/ n = 2
  OBVIOUS
<1>2. S = {} \/ S = {1} \/ S = {2} \/ S = {1, 2}
  BY <1>1
<1>3. Cardinality({1}) = 1 /\ IsFiniteSet({1})
  BY FS_Singleton
<1>4. Cardinality({1} \cup {2}) = Cardinality({1}) + 1
  BY <1>3, FS_AddElement
<1>5. {1} \cup {2} = {1, 2}
  OBVIOUS
<1>6. Cardinality({}) = 0 /\ Cardinality({2}) = 1
  BY FS_EmptySet, FS_Singleton
<1> QED
  BY <1>2, <1>3, <1>4, <1>5, <1>6

\* The n-th member of a set of ports is a port of it.
LEMMA NthIsPort ==
  ASSUME NEW S, S \subseteq 1 .. 2, NEW k \in 1 .. Cardinality(S)
  PROVE  Nth(S, k) \in S
<1>1. CASE S = {}
  <2>1. Cardinality(S) = 0
    BY <1>1, PortSets
  <2> QED
    BY <2>1
<1>2. CASE S = {1} \/ S = {2}
  <2>1. Cardinality(S) = 1
    BY <1>2, PortSets
  <2>2. k = 1
    BY <2>1
  <2> QED
    BY <1>2, <2>2, NthPort
<1>3. CASE S = {1, 2}
  <2>1. Cardinality(S) = 2
    BY <1>3, PortSets
  <2>2. k = 1 \/ k = 2
    BY <2>1
  <2> QED
    BY <1>3, <2>2, NthPort
<1> QED
  BY <1>1, <1>2, <1>3, PortSets

\* What the ports hand over: the k-th allocation is that of some port.
LEMMA AllocsAre ==
  ASSUME NEW K \in 0 .. 2, NEW s \in [1 .. K -> Instrs]
  PROVE  /\ DOMAIN Allocs(s) = 1 .. AllocsUpTo(s, K)
         /\ Len(Allocs(s)) = AllocsUpTo(s, K)
         /\ AllocsUpTo(s, 0) = 0
         /\ \A n \in 1 .. K :
              AllocsUpTo(s, n) = AllocsUpTo(s, n - 1) + (IF s[n].rd # 0 THEN 1 ELSE 0)
         /\ \A n \in 1 .. K : s[n].rd # 0 =>
              Allocs(s)[AllocsUpTo(s, n)] = [rd |-> s[n].rd, prd |-> PrdOf(s, n)]
<1> DEFINE W == {n \in DOMAIN s : Needs(s, n)}
           U(n) == {m \in 1 .. n : Needs(s, m)}
<1>1. /\ DOMAIN s = 1 .. K
      /\ K = 0 \/ K = 1 \/ K = 2
      /\ W \subseteq 1 .. 2
  OBVIOUS
<1>2. \A n \in 1 .. K : Needs(s, n) <=> s[n].rd # 0
  BY <1>1 DEF Needs
<1>3. \A n \in 0 .. K : AllocsUpTo(s, n) = Cardinality(U(n))
  <2> SUFFICES ASSUME NEW n \in 0 .. K PROVE AllocsUpTo(s, n) = Cardinality(U(n))
    OBVIOUS
  <2> QED
    BY DEF AllocsUpTo
<1>4. W = U(K)
  BY <1>1
<1>5. Allocs(s) = [k \in 1 .. Cardinality(W) |->
                    [rd |-> s[Nth(W, k)].rd, prd |-> PrdOf(s, Nth(W, k))]]
  BY DEF Allocs
<1>6. U(0) = {}
  OBVIOUS
<1>7. K >= 1 => U(1) = IF s[1].rd # 0 THEN {1} ELSE {}
  BY <1>1, <1>2
<1>8. K = 2 => U(2) = IF s[1].rd # 0
                           THEN IF s[2].rd # 0 THEN {1, 2} ELSE {1}
                           ELSE IF s[2].rd # 0 THEN {2} ELSE {}
  BY <1>1, <1>2
<1> HIDE DEF W, U
<1>9. /\ Cardinality({}) = 0 /\ Cardinality({1}) = 1
      /\ Cardinality({2}) = 1 /\ Cardinality({1, 2}) = 2
  BY PortSets
<1>10. AllocsUpTo(s, 0) = 0
  <2>1. AllocsUpTo(s, 0) = Cardinality(U(0))
    BY <1>1, <1>3
  <2> QED
    BY <1>6, <1>9, <2>1
<1>11. K >= 1 => AllocsUpTo(s, 1) = IF s[1].rd # 0 THEN 1 ELSE 0
  <2>1. K >= 1 => AllocsUpTo(s, 1) = Cardinality(U(1))
    BY <1>1, <1>3
  <2> QED
    BY <1>7, <1>9, <2>1
<1>12. K = 2 => AllocsUpTo(s, 2) = IF s[1].rd # 0
                                        THEN IF s[2].rd # 0 THEN 2 ELSE 1
                                        ELSE IF s[2].rd # 0 THEN 1 ELSE 0
  BY <1>1, <1>3, <1>8, <1>9
<1>13. \A n \in 1 .. K :
         AllocsUpTo(s, n) = AllocsUpTo(s, n - 1) + (IF s[n].rd # 0 THEN 1 ELSE 0)
  BY <1>1, <1>10, <1>11, <1>12
<1>14. AllocsUpTo(s, K) = Cardinality(W) /\ Cardinality(W) \in Nat
  BY <1>1, <1>3, <1>4, <1>10, <1>11, <1>12
<1>15. DOMAIN Allocs(s) = 1 .. Cardinality(W) /\ Len(Allocs(s)) = Cardinality(W)
  <2>1. DOMAIN Allocs(s) = 1 .. Cardinality(W)
    BY <1>5
  <2> QED
    BY <1>5, <1>14, <2>1
<1>16. \A n \in 1 .. K : s[n].rd # 0 => Nth(W, AllocsUpTo(s, n)) = n
  <2>1. CASE K = 0
    BY <2>1
  <2>2. CASE K = 1
    <3>1. s[1].rd # 0 => W = {1} /\ AllocsUpTo(s, 1) = 1
      BY <1>4, <1>7, <1>11, <2>2
    <3>2. s[1].rd # 0 => Nth(W, AllocsUpTo(s, 1)) = 1
      BY <3>1, NthPort
    <3> QED
      BY <2>2, <3>2
  <2>3. CASE K = 2
    <3>1. s[1].rd # 0 => Nth(W, AllocsUpTo(s, 1)) = 1
      <4>1. s[1].rd # 0 => W \in {{1}, {1, 2}} /\ AllocsUpTo(s, 1) = 1
        BY <1>4, <1>8, <1>11, <2>3
      <4> QED
        BY <4>1, NthPort
    <3>2. s[2].rd # 0 => Nth(W, AllocsUpTo(s, 2)) = 2
      BY <1>4, <1>8, <1>12, <2>3, NthPort
    <3> QED
      BY <2>3, <3>1, <3>2
  <2> QED
    BY <1>1, <2>1, <2>2, <2>3
<1>17. \A n \in 1 .. K : s[n].rd # 0 => AllocsUpTo(s, n) \in 1 .. Cardinality(W)
  BY <1>1, <1>10, <1>11, <1>12, <1>14
<1>18. \A n \in 1 .. K : s[n].rd # 0 =>
         Allocs(s)[AllocsUpTo(s, n)] = [rd |-> s[n].rd, prd |-> PrdOf(s, n)]
  BY <1>5, <1>16, <1>17
<1> QED
  BY <1>10, <1>13, <1>14, <1>15, <1>18

-----------------------------------------------------------------------------
\* The map after one more allocation, and after one more port.
LEMMA MapAfterNone ==
  ASSUME NEW al, NEW a \in RMT!ArchRegs
  PROVE  RMT!MapAfter(al, 0)[a] = mapTable[a]
<1>1. {n \in 1 .. 0 : al[n].rd = a /\ a # 0} = {}
  OBVIOUS
<1> QED
  BY <1>1 DEF RMT!MapAfter

LEMMA MapAfterOneMore ==
  ASSUME NEW al, NEW k \in Nat, NEW a \in RMT!ArchRegs
  PROVE  RMT!MapAfter(al, k + 1)[a] =
           IF al[k + 1].rd = a /\ a # 0 THEN al[k + 1].prd
           ELSE RMT!MapAfter(al, k)[a]
<1> DEFINE W(n) == {m \in 1 .. n : al[m].rd = a /\ a # 0}
<1>1. \A n \in Nat : RMT!MapAfter(al, n)[a] =
        IF W(n) = {} THEN mapTable[a]
        ELSE al[CHOOSE m \in W(n) : \A j \in W(n) : j <= m].prd
  <2> SUFFICES ASSUME NEW n \in Nat
               PROVE  RMT!MapAfter(al, n)[a] =
                        IF W(n) = {} THEN mapTable[a]
                        ELSE al[CHOOSE m \in W(n) : \A j \in W(n) : j <= m].prd
    OBVIOUS
  <2> QED
    BY DEF RMT!MapAfter
<1>2. CASE al[k + 1].rd = a /\ a # 0
  <2>1. k + 1 \in W(k + 1)
    BY <1>2
  <2>2. \A j \in W(k + 1) : j \in 1 .. k + 1
    OBVIOUS
  <2> HIDE DEF W
  <2>3. \A m \in W(k + 1) : (\A j \in W(k + 1) : j <= m) <=> m = k + 1
    BY <2>1, <2>2
  <2>4. (CHOOSE m \in W(k + 1) : \A j \in W(k + 1) : j <= m) = k + 1
    BY <2>1, <2>3
  <2>5. RMT!MapAfter(al, k + 1)[a] = al[k + 1].prd
    BY <1>1, <2>1, <2>4
  <2> QED
    BY <1>2, <2>5
<1>3. CASE ~(al[k + 1].rd = a /\ a # 0)
  <2>1. W(k + 1) = W(k)
    BY <1>3
  <2> HIDE DEF W
  <2>2. RMT!MapAfter(al, k + 1)[a] = RMT!MapAfter(al, k)[a]
    BY <1>1, <2>1
  <2> QED
    BY <1>3, <2>2
<1> QED
  BY <1>2, <1>3

LEMMA MapAfterPort ==
  ASSUME NEW K \in 0 .. 2, NEW s \in [1 .. K -> Instrs], NEW n \in 1 .. K,
         NEW a \in RMT!ArchRegs
  PROVE  RMT!MapAfter(Allocs(s), AllocsUpTo(s, n))[a] =
           IF s[n].rd = a /\ a # 0 THEN PrdOf(s, n)
           ELSE RMT!MapAfter(Allocs(s), AllocsUpTo(s, n - 1))[a]
<1> DEFINE k == AllocsUpTo(s, n - 1)
           al == Allocs(s)
<1>1. k \in Nat
  <2>1. AllocsUpTo(s, 0) = 0
    BY AllocsAre
  <2>2. CASE n = 1
    <3>1. n - 1 = 0
      BY <2>2
    <3> QED
      BY <2>1, <3>1
  <2>3. CASE n = 2
    <3>1. n - 1 = 1 /\ 1 \in 1 .. K /\ 1 - 1 = 0
      BY <2>3
    <3>2. AllocsUpTo(s, 1) = AllocsUpTo(s, 1 - 1) + (IF s[1].rd # 0 THEN 1 ELSE 0)
      BY <3>1, AllocsAre
    <3> QED
      BY <2>1, <3>1, <3>2
  <2>4. n = 1 \/ n = 2
    OBVIOUS
  <2> QED
    BY <2>2, <2>3, <2>4
<1>2. AllocsUpTo(s, n) = k + (IF s[n].rd # 0 THEN 1 ELSE 0)
  BY AllocsAre
<1>3. CASE s[n].rd = 0
  <2>1. AllocsUpTo(s, n) = k
    BY <1>1, <1>2, <1>3
  <2> QED
    BY <1>3, <2>1
<1>4. CASE s[n].rd # 0
  <2>1. AllocsUpTo(s, n) = k + 1
    BY <1>2, <1>4
  <2>2. al[AllocsUpTo(s, n)] = [rd |-> s[n].rd, prd |-> PrdOf(s, n)]
    BY <1>4, AllocsAre
  <2>3. al[k + 1].rd = s[n].rd /\ al[k + 1].prd = PrdOf(s, n)
    BY <2>1, <2>2
  <2> HIDE DEF k, al
  <2>4. RMT!MapAfter(al, k + 1)[a] =
          IF al[k + 1].rd = a /\ a # 0 THEN al[k + 1].prd
          ELSE RMT!MapAfter(al, k)[a]
    BY <1>1, MapAfterOneMore
  <2> QED
    BY <2>1, <2>3, <2>4 DEF k, al
<1> QED
  BY <1>3, <1>4

-----------------------------------------------------------------------------
\* What is handed out is a register.
LEMMA PrdIsARegister ==
  ASSUME FreelistTypeOK, NEW s, NEW n
  PROVE  PrdOf(s, n) \in Phys
<1>1. /\ FlDepth \in Nat \ {0} /\ PtrMod \in Nat /\ PtrMod <= 3 * FlDepth
  BY FreelistAssumption
<1>2. flHead \in 0 .. PtrMod - 1 /\ flMem \in [0 .. FlDepth - 1 -> Phys]
  BY DEF FreelistTypeOK, FlPointers, FlIndices
<1>3. PtrIndex(flHead) \in 0 .. FlDepth - 1
  BY <1>1, <1>2 DEF PtrIndex
<1>4. IdxInc(PtrIndex(flHead)) \in 0 .. FlDepth - 1
  BY <1>1, <1>3 DEF IdxInc
<1>5. Alloc0Prd \in Phys /\ \A b : Alloc1Prd(b) \in Phys
  BY <1>2, <1>3, <1>4 DEF Alloc0Prd, Alloc1Prd
<1> QED
  BY <1>5 DEF PrdOf

LEMMA MapAfterIsTyped ==
  ASSUME FreelistTypeOK, RMT!RmtTypeOK,
         NEW K \in 0 .. 2, NEW s \in [1 .. K -> Instrs],
         NEW n \in 0 .. K
  PROVE  RMT!MapAfter(Allocs(s), AllocsUpTo(s, n)) \in [RMT!ArchRegs -> Phys]
<1> DEFINE M(m) == RMT!MapAfter(Allocs(s), AllocsUpTo(s, m))
<1>1. \A a \in RMT!ArchRegs : mapTable[a] \in Phys
  BY DEF RMT!RmtTypeOK
<1>2. \A a \in RMT!ArchRegs : M(0)[a] \in Phys
  BY <1>1, AllocsAre, MapAfterNone
<1>3. \A m \in 1 .. K : (\A a \in RMT!ArchRegs : M(m - 1)[a] \in Phys)
        => \A a \in RMT!ArchRegs : M(m)[a] \in Phys
  <2> SUFFICES ASSUME NEW m \in 1 .. K, NEW a \in RMT!ArchRegs, M(m - 1)[a] \in Phys
               PROVE  M(m)[a] \in Phys
    OBVIOUS
  <2>1. M(m)[a] = IF s[m].rd = a /\ a # 0 THEN PrdOf(s, m) ELSE M(m - 1)[a]
    BY MapAfterPort
  <2>2. PrdOf(s, m) \in Phys
    BY PrdIsARegister
  <2> QED
    BY <2>1, <2>2
<1>4. \A a \in RMT!ArchRegs : M(n)[a] \in Phys
  <2> HIDE DEF M
  <2>1. K >= 1 => \A a \in RMT!ArchRegs : M(1)[a] \in Phys
    BY <1>2, <1>3
  <2>2. K = 2 => \A a \in RMT!ArchRegs : M(2)[a] \in Phys
    BY <1>3, <2>1
  <2>3. n = 0 \/ (n = 1 /\ K >= 1) \/ (n = 2 /\ K = 2)
    OBVIOUS
  <2>4. CASE n = 0
    BY <1>2, <2>4
  <2>5. CASE n = 1 /\ K >= 1
    BY <2>1, <2>5
  <2>6. CASE n = 2 /\ K = 2
    BY <2>2, <2>6
  <2> QED
    BY <2>3, <2>4, <2>5, <2>6
<1>5. M(n) = [a \in RMT!ArchRegs |-> M(n)[a]]
  BY DEF RMT!MapAfter
<1> HIDE DEF M
<1>6. M(n) \in [RMT!ArchRegs -> Phys]
  BY <1>4, <1>5
<1> QED
  BY <1>6 DEF M

-----------------------------------------------------------------------------
\* A set of slots has a highest one.
LEMMA GreatestOf ==
  ASSUME NEW N \in Nat, NEW M \in SUBSET (0 .. N), M # {}
  PROVE  \E s \in M : \A t \in M : t <= s
<1> DEFINE Below == {0 .. N - x : x \in M}
<1>1. Below \subseteq FiniteSubsetsOf(Nat) /\ Below # {}
  <2>1. ASSUME NEW x \in M PROVE 0 .. N - x \in SUBSET Nat /\ IsFiniteSet(0 .. N - x)
    <3>1. 0 \in Int /\ N - x \in Int
      OBVIOUS
    <3> QED
      BY <3>1, FS_Interval
  <2> QED
    BY <2>1 DEF FiniteSubsetsOf
<1>2. PICK T \in Below : \A U \in Below : ~(<<U, T>> \in StrictSubsetOrdering(Nat))
  <2>1. IsWellFoundedOn(StrictSubsetOrdering(Nat), FiniteSubsetsOf(Nat))
    BY FS_StrictSubsetOrderingWellFounded
  <2> HIDE DEF Below
  <2> QED
    BY <1>1, <2>1, WFMin
<1>3. PICK x \in M : T = 0 .. N - x
  OBVIOUS
<1>4. \A y \in M : y <= x
  <2> SUFFICES ASSUME NEW y \in M, y > x PROVE FALSE
    BY <1>3
  <2>1. x \in 0 .. N /\ y \in 0 .. N /\ N - y < N - x
    OBVIOUS
  <2>2. <<0 .. N - y, T>> \in (SUBSET Nat) \X (SUBSET Nat)
    BY <1>3, <2>1
  <2>3. 0 .. N - y \subseteq T /\ 0 .. N - y # T
    <3>1. N - x \in 0 .. N - x /\ N - x \notin 0 .. N - y
      BY <2>1
    <3> QED
      BY <1>3, <2>1, <3>1
  <2>4. <<0 .. N - y, T>> \in StrictSubsetOrdering(Nat)
    BY <2>2, <2>3 DEF StrictSubsetOrdering
  <2> QED
    BY <1>2, <2>4
<1> QED
  BY <1>3, <1>4

-----------------------------------------------------------------------------
\* The free list and the map keep the ranges of their registers, whatever
\* dispatch, commit and recovery ask of them.
LEMMA RebuildIsTyped ==
  ASSUME NEW mapped, Rebuild(mapped)
  PROVE  flMem' \in [FlIndices -> Phys] /\ flHead' \in FlPointers /\ flTail' \in FlPointers
<1> DEFINE free == (Phys \ {0}) \ mapped
           Rank(p) == Cardinality({q \in free : q < p})
<1>1. /\ NumArch \in Nat \ {0} /\ NumFree \in Nat \ {0} /\ FlDepth = NumArch + NumFree
      /\ PtrMod \in Nat /\ PtrMod > FlDepth
  BY FreelistAssumption
<1>2. flMem' \in [FlIndices -> Phys]
  <2>1. flMem' = [i \in FlIndices |->
                   IF \E p \in free : Rank(p) = i
                   THEN CHOOSE p \in free : Rank(p) = i ELSE 0]
    BY DEF Rebuild
  <2>2. \A i \in FlIndices : (\E p \in free : Rank(p) = i)
          => (CHOOSE p \in free : Rank(p) = i) \in free
    OBVIOUS
  <2>3. free \subseteq Phys /\ 0 \in Phys
    BY <1>1 DEF Phys
  <2> HIDE DEF free, Rank
  <2> QED
    BY <2>1, <2>2, <2>3
<1>3. 0 \in FlPointers
  BY <1>1 DEF FlPointers
<1>4. Cardinality(free) \in 0 .. FlDepth
  <2> DEFINE all == 0 .. NumArch + NumFree - 1
  <2>1. free \subseteq all
    BY DEF Phys
  <2>2. NumArch + NumFree - 1 \in Int /\ 0 <= NumArch + NumFree - 1
    BY <1>1
  <2>3. IsFiniteSet(all) /\ Cardinality(all) = NumArch + NumFree
    <3> DEFINE top == NumArch + NumFree - 1
    <3>1. 0 \in Int /\ top \in Int
      BY <1>1
    <3> HIDE DEF top
    <3>2. IsFiniteSet(0 .. top) /\ Cardinality(0 .. top) = IF 0 > top THEN 0 ELSE top - 0 + 1
      BY <3>1, FS_Interval
    <3> USE DEF top
    <3> QED
      BY <1>1, <3>2
  <2> HIDE DEF all, free
  <2>4. IsFiniteSet(free) /\ Cardinality(free) <= Cardinality(all)
    BY <2>1, <2>3, FS_Subset
  <2>5. Cardinality(free) \in Nat
    BY <2>4, FS_CardinalityType
  <2> QED
    BY <1>1, <2>3, <2>4, <2>5
<1>5. flTail' \in FlPointers
  <2>1. flTail' = Cardinality(free)
    BY DEF Rebuild
  <2> QED
    BY <1>1, <1>4, <2>1 DEF FlPointers
<1> QED
  BY <1>2, <1>3, <1>5 DEF Rebuild

\* An image of the list as the slots hold it.
Image(c) ==
  /\ c.valid \in BOOLEAN /\ c.order \in Nat /\ c.mem \in [FlIndices -> Phys]
  /\ c.head \in FlPointers /\ c.tail \in FlPointers

LEMMA VacantIsAnImage == Image(Vacant) /\ 0 \in FlPointers
<1>1. /\ NumArch \in Nat \ {0} /\ NumFree \in Nat \ {0} /\ FlDepth = NumArch + NumFree
      /\ PtrMod \in Nat /\ PtrMod > FlDepth
  BY FreelistAssumption
<1>2. ResetMem \in [FlIndices -> Phys]
  BY <1>1 DEF ResetMem, FlIndices, Phys
<1>3. 0 \in FlPointers /\ NumFree \in FlPointers
  BY <1>1 DEF FlPointers
<1> QED
  BY <1>2, <1>3 DEF Vacant, Image

LEMMA FreelistIsTyped ==
  ASSUME FreelistTypeOK, NEW in, in.allocs \in Nat, in.free \in Phys, in.push \in Phys,
         \A k \in DOMAIN in.caps : in.caps[k].order \in Nat /\ in.caps[k].allocs \in Nat,
         FreelistCycle(in)
  PROVE  FreelistTypeOK'
<1>1. /\ NumArch \in Nat \ {0} /\ NumFree \in Nat \ {0} /\ FlDepth = NumArch + NumFree
      /\ PtrMod \in Nat /\ PtrMod > FlDepth
  BY FreelistAssumption
<1>2. /\ flMem \in [FlIndices -> Phys] /\ flHead \in FlPointers /\ flTail \in FlPointers
      /\ \A s \in Slots : Image(flCkpt[s])
  BY DEF FreelistTypeOK, Image
<1>3. SUFFICES /\ flMem' \in [FlIndices -> Phys]
               /\ flHead' \in FlPointers /\ flTail' \in FlPointers
               /\ \A s \in Slots : Image(flCkpt'[s])
  BY DEF FreelistTypeOK, Image
<1>4. \A p \in FlPointers, n \in Nat : Advance(p, n) \in FlPointers
  BY <1>1 DEF FlPointers, Advance
<1>5. CASE Rebuild(in.mapped)
  <2>1. \A s \in Slots : flCkpt'[s] = Vacant
    BY <1>5 DEF Rebuild
  <2> QED
    BY <1>5, <2>1, RebuildIsTyped, VacantIsAnImage
<1>6. CASE RestoreHit(in.restore) /\ RestoreList(in.restore)
  <2> DEFINE c == flCkpt[RestoreSlot(in.restore)]
  <2>1. /\ flMem' = c.mem /\ flHead' = c.head /\ flTail' = c.tail
        /\ \A s \in Slots : flCkpt'[s] = flCkpt[s] \/ flCkpt'[s] = Vacant
    BY <1>6 DEF RestoreList
  <2>2. \A s \in Slots : Image(flCkpt'[s])
    BY <1>2, <2>1, VacantIsAnImage
  <2>3. CASE RestoreSlot(in.restore) \in Slots
    BY <1>2, <2>1, <2>2, <2>3 DEF Image
  <2>4. RestoreSlot(in.restore) \in Slots
    <3>1. \E s \in MatchingSlots(in.restore) :
            \A t \in MatchingSlots(in.restore) : t <= s
      <4> DEFINE M == MatchingSlots(in.restore)
      <4>1. M \subseteq 0 .. CkptDepth - 1 /\ M # {}
        BY <1>6 DEF MatchingSlots, Slots, RestoreHit
      <4>2. CkptDepth \in Nat \ {0}
        BY FreelistAssumption
      <4> HIDE DEF M
      <4>3. M \in SUBSET (0 .. CkptDepth - 1) /\ CkptDepth - 1 \in Nat
        BY <4>1, <4>2
      <4>4. \E s \in M : \A t \in M : t <= s
        BY <4>1, <4>3, GreatestOf
      <4> QED
        BY <4>4 DEF M
    <3>2. RestoreSlot(in.restore) \in MatchingSlots(in.restore)
      BY <3>1 DEF RestoreSlot
    <3> QED
      BY <3>2 DEF MatchingSlots
  <2> QED
    BY <2>3, <2>4
<1>7. CASE Advances(in)
  <2>1. flHead' \in FlPointers /\ flTail' \in FlPointers
    BY <1>2, <1>4, <1>7 DEF Advances
  <2>2. flMem' \in [FlIndices -> Phys]
    BY <1>2, <1>7 DEF Advances
  <2>3. \A s \in Slots : \/ \E k \in DOMAIN in.caps : flCkpt'[s] = ImageOf(in.caps[k])
                         \/ flCkpt'[s] = flCkpt[s]
                         \/ flCkpt'[s] = Vacant
    <3> DEFINE capSlot(n) == IF n = 1 THEN Lowest(OpenSlots)
                             ELSE Lowest(OpenSlots \ {Lowest(OpenSlots)})
               taken == {n \in DOMAIN in.caps : n <= Cardinality(OpenSlots)}
    <3>1. flCkpt' = [s \in Slots |->
             IF \E n \in taken : capSlot(n) = s
             THEN ImageOf(in.caps[CHOOSE n \in taken : capSlot(n) = s])
             ELSE IF flCkpt[s].order > in.drop THEN flCkpt[s] ELSE Vacant]
      BY <1>7 DEF Advances
    <3>2. taken \subseteq DOMAIN in.caps
      OBVIOUS
    <3> HIDE DEF capSlot, taken
    <3> QED
      BY <3>1, <3>2
  <2>4. \A k \in DOMAIN in.caps : Image(ImageOf(in.caps[k]))
    BY <1>2, <1>4 DEF ImageOf, Image
  <2> QED
    BY <1>2, <2>1, <2>2, <2>3, <2>4, VacantIsAnImage
<1> QED
  BY <1>5, <1>6, <1>7 DEF FreelistCycle

-----------------------------------------------------------------------------
\* What a cycle leaves in a slot of the rename map: an image taken in it, the
\* one it held, unless a restore drops it, or nothing.
LEMMA SlotAfter ==
  ASSUME NEW in, RMT!RmtCycle(in), NEW t \in Slots
  PROVE  \/ \E k \in DOMAIN in.caps :
              rmtCkpt'[t] = [valid |-> TRUE, order |-> in.caps[k].order,
                             map |-> RMT!MapAfter(in.allocs, in.caps[k].allocs)]
         \/ rmtCkpt'[t] = RMT!RmtVacant
         \/ /\ rmtCkpt'[t] = rmtCkpt[t]
            /\ ~(in.restore # -1 /\ RMT!RmtHit(in.restore)
                 /\ rmtCkpt[t].order >= in.restore)
<1> DEFINE hit == in.restore # -1 /\ RMT!RmtHit(in.restore)
           open == Slots \ RMT!LiveCkpts
           low(S) == CHOOSE s \in S : \A u \in S : s <= u
           slot(n) == IF n = 1 THEN low(open) ELSE low(open \ {low(open)})
           taken == {n \in DOMAIN in.caps : ~hit /\ n <= RMT!Cardinality(open)}
<1>1. rmtCkpt' = [s \in Slots |->
         IF \E n \in taken : slot(n) = s
         THEN [valid |-> TRUE, order |-> in.caps[CHOOSE n \in taken : slot(n) = s].order,
               map |-> RMT!MapAfter(in.allocs,
                         in.caps[CHOOSE n \in taken : slot(n) = s].allocs)]
         ELSE IF \/ hit /\ rmtCkpt[s].order >= in.restore
                 \/ rmtCkpt[s].order <= in.drop
              THEN RMT!RmtVacant
              ELSE rmtCkpt[s]]
  BY DEF RMT!RmtCycle, RMT!NextCkpt
<1>2. taken \subseteq DOMAIN in.caps
  OBVIOUS
<1>3. hit <=> in.restore # -1 /\ RMT!RmtHit(in.restore)
  OBVIOUS
<1> HIDE DEF slot, taken, hit
<1>4. CASE \E n \in taken : slot(n) = t
  BY <1>1, <1>2, <1>4
<1>5. CASE ~(\E n \in taken : slot(n) = t)
  BY <1>1, <1>3, <1>5
<1> QED
  BY <1>4, <1>5

\* A slot of the rename map that holds the image asked for.
LEMMA HitIsASlot ==
  ASSUME NEW order, RMT!RmtHit(order)
  PROVE  /\ RMT!RmtSlot(order) \in Slots
         /\ rmtCkpt[RMT!RmtSlot(order)].valid
         /\ rmtCkpt[RMT!RmtSlot(order)].order = order
<1> DEFINE M == RMT!RmtMatching(order)
<1>1. M \in SUBSET (0 .. CkptDepth - 1) /\ M # {} /\ CkptDepth - 1 \in Nat
  BY FreelistAssumption DEF RMT!RmtMatching, RMT!LiveCkpts, RMT!RmtHit, Slots
<1>2. \A s \in M : s \in Slots /\ rmtCkpt[s].valid /\ rmtCkpt[s].order = order
  BY DEF RMT!RmtMatching, RMT!LiveCkpts
<1>3. RMT!RmtSlot(order) = CHOOSE s \in M : \A t \in M : t <= s
  BY DEF RMT!RmtSlot
<1> HIDE DEF M
<1>4. \E s \in M : \A t \in M : t <= s
  BY <1>1, GreatestOf
<1>5. RMT!RmtSlot(order) \in M
  BY <1>3, <1>4
<1> QED
  BY <1>2, <1>5

\* The captures of a dispatch are its branches.
LEMMA CapturesAre ==
  ASSUME NEW K \in 0 .. 2, NEW s \in [1 .. K -> Instrs], NEW k \in DOMAIN CapturesOf(s)
  PROVE  \E n \in 1 .. K : /\ s[n].branch
                           /\ CapturesOf(s)[k].order = orderId + n - 1
                           /\ CapturesOf(s)[k].allocs = AllocsUpTo(s, n)
<1> DEFINE B == {n \in DOMAIN s : s[n].branch}
<1>1. CapturesOf(s) = [j \in 1 .. Cardinality(B) |->
         [order |-> orderId + Nth(B, j) - 1, allocs |-> AllocsUpTo(s, Nth(B, j))]]
  BY DEF CapturesOf
<1>2. B \subseteq 1 .. 2 /\ B \subseteq 1 .. K /\ \A n \in B : s[n].branch
  OBVIOUS
<1> HIDE DEF B
<1>3. k \in 1 .. Cardinality(B)
  BY <1>1
<1>4. Nth(B, k) \in B
  BY <1>2, <1>3, NthIsPort
<1> DEFINE n == Nth(B, k)
<1>5. /\ CapturesOf(s)[k].order = orderId + n - 1
      /\ CapturesOf(s)[k].allocs = AllocsUpTo(s, n)
  BY <1>1, <1>3
<1>6. n \in 1 .. K /\ s[n].branch
  BY <1>2, <1>4
<1> HIDE DEF n
<1> QED
  BY <1>5, <1>6

-----------------------------------------------------------------------------
\* The list can serve what dispatch takes.
Served(s) ==
  /\ Needs(s, 1) \/ Needs(s, 2) => CanAlloc1
  /\ Needs(s, 1) /\ Needs(s, 2) => CanAlloc2(TRUE)

\* The list is rebuilt when dispatch is stalled and nothing is in flight.
RebuiltIdle(f, K) ==
  K = 0 /\ ~f.valid /\ ~rob[robHead].valid /\ ~recovering /\ ~RMT!AnyCkptLive

\* A cycle of Rename with its choices named: the interrupt, what dispatch
\* takes, and whether the list is rebuilt.
Step(irq, wb, s, K, rebuild) ==
  LET f == FlushOf(irq, wb)
      restore == RestoreOrder(irq, wb)
  IN  /\ irq => InterruptReady(wb)
      /\ Offer(f, s, K) /\ Served(s)
      /\ rebuild => RebuiltIdle(f, K)
      /\ BufferCycle(f, wb, Renamed(s), K)
      /\ RMT!RmtCycle(
           [restore |-> restore, drop |-> DropOrder,
            recover |-> {[rd |-> e.ins.rd, prd |-> e.prdOld] : e \in Undone(restore)},
            allocs |-> Allocs(s), caps |-> CapturesOf(s)])
      /\ FreelistCycle(
           [allocs |-> Len(Allocs(s)), free |-> Released,
            push |-> Pushed(restore), drop |-> DropOrder,
            caps |-> CapturesOf(s), restore |-> restore,
            rebuild |-> rebuild, mapped |-> RMT!MappedRegs])
      /\ ckptRecover' = IF restore # NoOrder THEN RestoreHits(restore)
                        ELSE ckptRecover /\ recovering
      /\ quarantine' = IF ~RMT!AnyCkptLive THEN {}
                       ELSE quarantine \cup ({Released} \ {0})
      /\ log' = log \o [n \in DOMAIN s |->
                          [ins |-> s[n], prd |-> Renamed(s)[n].prdNew]]
      /\ RecordRestore(restore)

LEMMA OfferOf ==
  ASSUME RetireTypeOK, NEW f, NEW offered \in Offers(f),
         NEW s, s = IF FlStall(offered) THEN <<>> ELSE offered
  PROVE  \E K \in 0 .. 2 : Offer(f, s, K) /\ Len(s) = K
<1>1. orderId \in 0 .. MaxOrder /\ MaxOrder \in Nat
  BY RetireAssumption DEF RetireTypeOK
<1>2. CASE s = <<>>
  <2>1. s \in [1 .. 0 -> Instrs] /\ Len(s) = 0
    BY <1>2, EmptySeq, LenProperties
  <2> QED
    BY <1>1, <2>1 DEF Offer
<1>3. CASE s # <<>>
  <2>1. s = offered /\ ~(f.valid \/ RobFull \/ XretPending)
    BY <1>3 DEF Offers
  <2>2. /\ s \in UNION {[1 .. n -> Instrs] : n \in 0 .. 2}
        /\ orderId + Len(s) <= MaxOrder
        /\ \A n \in DOMAIN s :
             s[n].branch \/ s[n].xret =>
               ~BranchPending /\ \A m \in 1 .. n - 1 : ~s[m].branch
        /\ \A n \in DOMAIN s : s[n].xret => n = Len(s)
    BY <2>1 DEF Offers
  <2>3. PICK K \in 0 .. 2 : s \in [1 .. K -> Instrs]
    BY <2>2
  <2>4. DOMAIN s = 1 .. K /\ Len(s) = K
    BY <2>3
  <2> QED
    BY <2>1, <2>2, <2>3, <2>4 DEF Offer
<1> QED
  BY <1>2, <1>3

LEMMA RenamedIsHandedOver ==
  ASSUME RetireTypeOK, FreelistTypeOK, RMT!RmtTypeOK, NEW f, NEW s, NEW K,
         Offer(f, s, K)
  PROVE  /\ HandsOver(f, Renamed(s), K)
         /\ DOMAIN Renamed(s) = 1 .. K
         /\ \A n \in 1 .. K :
              /\ Renamed(s)[n].order = orderId + n - 1
              /\ Renamed(s)[n].ins = s[n] /\ s[n] \in Instrs
              /\ Renamed(s)[n].prdNew = IF s[n].rd # 0 THEN PrdOf(s, n) ELSE 0
              /\ Renamed(s)[n].prdOld =
                   IF s[n].rd = 0 THEN 0
                   ELSE RMT!MapAfter(Allocs(s), AllocsUpTo(s, n - 1))[s[n].rd]
              /\ s[n].rd \in RMT!ArchRegs
              /\ Renamed(s)[n].prdNew \in Phys
<1>1. /\ orderId \in Nat /\ PhysRegs = Phys /\ 0 \in Phys
      /\ NumArch \in Nat
  BY RetireAssumption, RenameAssumption, FreelistAssumption, RobAssumption
     DEF RetireTypeOK
<1>2. /\ K \in 0 .. 2 /\ s \in [1 .. K -> Instrs] /\ orderId + K <= MaxOrder
      /\ f.valid \/ RobFull => K = 0
  BY DEF Offer
<1>3. DOMAIN Renamed(s) = 1 .. K
  BY <1>2 DEF Renamed
<1>4. Renamed(s) = [n \in 1 .. K |-> Renamed(s)[n]]
  BY <1>2 DEF Renamed
<1>5. ASSUME NEW n \in 1 .. K
      PROVE  /\ Renamed(s)[n].order = orderId + n - 1
             /\ Renamed(s)[n].ins = s[n] /\ s[n] \in Instrs
             /\ Renamed(s)[n].prdNew = IF s[n].rd # 0 THEN PrdOf(s, n) ELSE 0
             /\ Renamed(s)[n].prdOld =
                  IF s[n].rd = 0 THEN 0
                  ELSE RMT!MapAfter(Allocs(s), AllocsUpTo(s, n - 1))[s[n].rd]
             /\ s[n].rd \in RMT!ArchRegs
             /\ Renamed(s)[n].prdNew \in Phys
             /\ Renamed(s)[n] \in Dispatched
  <2>1. Renamed(s)[n] =
          [order |-> orderId + n - 1, ins |-> s[n],
           prdNew |-> IF s[n].rd # 0 THEN PrdOf(s, n) ELSE 0,
           prdOld |-> IF s[n].rd = 0 THEN 0
                      ELSE RMT!MapAfter(Allocs(s), AllocsUpTo(s, n - 1))[s[n].rd]]
    BY <1>2 DEF Renamed
  <2>2. s[n] \in Instrs
    BY <1>2
  <2>3. s[n].rd \in RMT!ArchRegs
    <3>1. s[n].rd \in Nat /\ s[n].rd < NumArch
      BY <2>2, RobAssumption, RenameAssumption
    <3> QED
      BY <1>1, <3>1 DEF RMT!ArchRegs
  <2>4. PrdOf(s, n) \in Phys
    BY PrdIsARegister
  <2>5. n - 1 \in 0 .. K
    BY <1>2
  <2>6. RMT!MapAfter(Allocs(s), AllocsUpTo(s, n - 1))[s[n].rd] \in Phys
    <3>1. \A m \in 0 .. K :
            RMT!MapAfter(Allocs(s), AllocsUpTo(s, m)) \in [RMT!ArchRegs -> Phys]
      BY <1>2, MapAfterIsTyped
    <3>2. RMT!MapAfter(Allocs(s), AllocsUpTo(s, n - 1)) \in [RMT!ArchRegs -> Phys]
      BY <2>5, <3>1
    <3> QED
      BY <2>3, <3>2
  <2>7. orderId + n - 1 \in Nat
    BY <1>1
  <2> QED
    BY <1>1, <2>1, <2>2, <2>3, <2>4, <2>6, <2>7 DEF Dispatched
<1>6. Len(Renamed(s)) = K
  <2>1. Renamed(s) \in [1 .. K -> Dispatched]
    BY <1>4, <1>5
  <2>2. Renamed(s) \in Seq(Dispatched)
    BY <1>2, <2>1, SeqDef
  <2> QED
    BY <1>2, <1>3, <2>2
<1>7. HandsOver(f, Renamed(s), K)
  BY <1>2, <1>3, <1>5, <1>6 DEF HandsOver
<1> QED
  BY <1>3, <1>5, <1>7

LEMMA CycleIsStep ==
  ASSUME RetireTypeOK, FreelistTypeOK, RMT!RmtTypeOK, NEW wb, RenameCycle(wb)
  PROVE  \E irq \in BOOLEAN, rebuild \in BOOLEAN : \E s, K : Step(irq, wb, s, K, rebuild)
<1>1. PICK irq \in BOOLEAN :
        /\ irq => InterruptReady(wb)
        /\ LET f == FlushOf(irq, wb)
               restore == RestoreOrder(irq, wb)
           IN \E offered \in Offers(f) :
             LET s == IF FlStall(offered) THEN <<>> ELSE offered IN
             /\ RobCycle(f, wb, Renamed(s))
             /\ orderId' = orderId + Len(s)
             /\ ResolveBranch(f, wb)
             /\ Record(f)
             /\ RMT!RmtCycle(
                  [restore |-> restore, drop |-> DropOrder,
                   recover |-> {[rd |-> e.ins.rd, prd |-> e.prdOld] :
                                  e \in Undone(restore)},
                   allocs |-> Allocs(s), caps |-> CapturesOf(s)])
             /\ FreelistCycle(
                  [allocs |-> Len(Allocs(s)), free |-> Released,
                   push |-> Pushed(restore), drop |-> DropOrder,
                   caps |-> CapturesOf(s), restore |-> restore,
                   rebuild |-> RebuildNow(offered), mapped |-> RMT!MappedRegs])
             /\ ckptRecover' = IF restore # NoOrder THEN RestoreHits(restore)
                               ELSE ckptRecover /\ recovering
             /\ quarantine' = IF ~RMT!AnyCkptLive THEN {}
                              ELSE quarantine \cup ({Released} \ {0})
             /\ log' = log \o [n \in DOMAIN s |->
                                 [ins |-> s[n], prd |-> Renamed(s)[n].prdNew]]
             /\ RecordRestore(restore)
  BY DEF RenameCycle
<1> DEFINE f == FlushOf(irq, wb)
           restore == RestoreOrder(irq, wb)
<1>2. PICK offered \in Offers(f) :
        LET s == IF FlStall(offered) THEN <<>> ELSE offered IN
        /\ RobCycle(f, wb, Renamed(s))
        /\ orderId' = orderId + Len(s)
        /\ ResolveBranch(f, wb)
        /\ Record(f)
        /\ RMT!RmtCycle(
             [restore |-> restore, drop |-> DropOrder,
              recover |-> {[rd |-> e.ins.rd, prd |-> e.prdOld] :
                             e \in Undone(restore)},
              allocs |-> Allocs(s), caps |-> CapturesOf(s)])
        /\ FreelistCycle(
             [allocs |-> Len(Allocs(s)), free |-> Released,
              push |-> Pushed(restore), drop |-> DropOrder,
              caps |-> CapturesOf(s), restore |-> restore,
              rebuild |-> RebuildNow(offered), mapped |-> RMT!MappedRegs])
        /\ ckptRecover' = IF restore # NoOrder THEN RestoreHits(restore)
                          ELSE ckptRecover /\ recovering
        /\ quarantine' = IF ~RMT!AnyCkptLive THEN {}
                         ELSE quarantine \cup ({Released} \ {0})
        /\ log' = log \o [n \in DOMAIN s |->
                            [ins |-> s[n], prd |-> Renamed(s)[n].prdNew]]
        /\ RecordRestore(restore)
  BY <1>1
<1> DEFINE s == IF FlStall(offered) THEN <<>> ELSE offered
           rebuild == RebuildNow(offered)
<1>3. PICK K \in 0 .. 2 : Offer(f, s, K) /\ Len(s) = K
  BY <1>2, OfferOf
<1>4. HandsOver(f, Renamed(s), K)
  BY <1>3, RenamedIsHandedOver
<1>5. BufferCycle(f, wb, Renamed(s), K)
  BY <1>2, <1>3, <1>4 DEF BufferCycle
<1>6. rebuild \in BOOLEAN
  BY DEF RebuildNow
<1>7. Served(s)
  <2>1. CASE s = <<>>
    <3>1. DOMAIN s = {}
      BY <2>1
    <3> HIDE DEF s
    <3>2. ~Needs(s, 1) /\ ~Needs(s, 2)
      BY <3>1 DEF Needs
    <3> QED
      BY <3>2 DEF Served
  <2>2. CASE s # <<>>
    <3>1. s = offered /\ ~FlStall(offered)
      BY <2>2
    <3>2. Needs(s, 1) /\ Needs(s, 2) => CanAlloc2(TRUE)
      <4> SUFFICES ASSUME Needs(s, 1), Needs(s, 2) PROVE CanAlloc2(TRUE)
        OBVIOUS
      <4>1. CanAlloc2(Needs(s, 1))
        BY <3>1 DEF FlStall
      <4>2. Needs(s, 1) = TRUE
        BY DEF Needs
      <4> QED
        BY <4>1, <4>2
    <3>3. CanAlloc2(TRUE) => CanAlloc1
      <4>1. FreeCount \in Nat
        BY FreelistAssumption DEF FreelistTypeOK, FlPointers, FreeCount
      <4> QED
        BY <4>1 DEF CanAlloc1, CanAlloc2
    <3>4. ~(Needs(s, 1) /\ Needs(s, 2)) /\ (Needs(s, 1) \/ Needs(s, 2)) => CanAlloc1
      BY <3>1 DEF FlStall
    <3> QED
      BY <3>2, <3>3, <3>4 DEF Served
  <2> QED
    BY <2>1, <2>2
<1>8. rebuild => RebuiltIdle(f, K)
  <2> SUFFICES ASSUME rebuild PROVE RebuiltIdle(f, K)
    OBVIOUS
  <2>1. FlStall(offered) /\ ~rob[robHead].valid /\ ~recovering /\ ~RMT!AnyCkptLive
    BY DEF RebuildNow
  <2>2. offered # <<>>
    BY <2>1 DEF FlStall, Needs
  <2>3. ~f.valid
    BY <2>2 DEF Offers
  <2>4. s = <<>>
    BY <2>1
  <2>5. K = 0
    BY <1>3, <2>4, LenProperties, EmptySeq
  <2> QED
    BY <2>1, <2>3, <2>5 DEF RebuiltIdle
<1>9. Step(irq, wb, s, K, rebuild)
  BY <1>1, <1>2, <1>3, <1>5, <1>7, <1>8 DEF Step
<1> HIDE DEF s, rebuild
<1> QED
  BY <1>6, <1>9

-----------------------------------------------------------------------------
\* A commit and an undo never share a cycle: the buffer commits outside a walk
\* only and undoes within one only.
LEMMA PortsAfter ==
  ASSUME NEW f, NEW wb, NEW disp, RobCycle(f, wb, disp)
  PROVE  PortsTakeTurns'
<1>1. CASE WalkUndo(f, wb)
  BY <1>1 DEF WalkUndo, PortsTakeTurns
<1>2. CASE WalkHold(f, wb) \/ WalkEnd(f, wb)
  BY <1>2 DEF WalkHold, WalkEnd, PortsTakeTurns
<1>3. CASE RunCycle(f, wb, disp)
  <2>1. recoverOut' = {} /\ (commit0' = {} \/ commit0' = {rob[robHead]})
    BY <1>3 DEF RunCycle
  <2> QED
    BY <2>1 DEF PortsTakeTurns
<1> QED
  BY <1>1, <1>2, <1>3 DEF RobCycle

\* What commit and recovery hand to the map and the list are registers.
LEMMA HandedBackAreRegisters ==
  ASSUME RobTypeOK, NEW restore
  PROVE  /\ Released \in Phys /\ Pushed(restore) \in Phys
         /\ \A e \in Undone(restore) : /\ e \in commit0 \cup recoverOut
                                       /\ e.prdOld \in Phys /\ e.prdNew \in Phys
<1>1. PhysRegs = Phys /\ 0 \in Phys
  BY RobAssumption, RenameAssumption
<1>2. \A e \in commit0 \cup recoverOut : e.prdOld \in Phys /\ e.prdNew \in Phys
  BY <1>1 DEF RobTypeOK, Entries
<1>3. \A e \in Undone(restore) : e \in commit0 \cup recoverOut
  BY DEF Undone
<1>4. Released \in Phys
  <2>1. commit0 # {} => (CHOOSE e \in commit0 : TRUE) \in commit0
    OBVIOUS
  <2> QED
    BY <1>1, <1>2, <2>1 DEF Released
<1>5. Pushed(restore) \in Phys
  <2>1. Undone(restore) # {} => (CHOOSE e \in Undone(restore) : TRUE) \in Undone(restore)
    OBVIOUS
  <2> QED
    BY <1>1, <1>2, <1>3, <2>1 DEF Pushed
<1> QED
  BY <1>2, <1>3, <1>4, <1>5

\* The map and its images keep their types.
LEMMA MapIsTyped ==
  ASSUME FreelistTypeOK, RMT!RmtTypeOK, RobTypeOK, orderId \in Nat,
         NEW f, NEW K, NEW s, Offer(f, s, K), NEW restore, NEW drop,
         RMT!RmtCycle(
           [restore |-> restore, drop |-> drop,
            recover |-> {[rd |-> e.ins.rd, prd |-> e.prdOld] : e \in Undone(restore)},
            allocs |-> Allocs(s), caps |-> CapturesOf(s)])
  PROVE  RMT!RmtTypeOK'
<1> DEFINE in == [restore |-> restore, drop |-> drop,
                  recover |-> {[rd |-> e.ins.rd, prd |-> e.prdOld] : e \in Undone(restore)},
                  allocs |-> Allocs(s), caps |-> CapturesOf(s)]
<1>1. K \in 0 .. 2 /\ s \in [1 .. K -> Instrs]
  BY DEF Offer
<1>2. \A n \in 0 .. K :
        RMT!MapAfter(Allocs(s), AllocsUpTo(s, n)) \in [RMT!ArchRegs -> Phys]
  BY <1>1, MapAfterIsTyped
<1>3. RMT!MapAfter(Allocs(s), Len(Allocs(s))) \in [RMT!ArchRegs -> Phys]
  <2>1. Len(Allocs(s)) = AllocsUpTo(s, K)
    BY <1>1, AllocsAre
  <2>2. K \in 0 .. K
    BY <1>1
  <2> QED
    BY <1>2, <2>1, <2>2
<1>4. /\ in.restore = restore /\ in.allocs = Allocs(s) /\ in.caps = CapturesOf(s)
      /\ in.recover = {[rd |-> e.ins.rd, prd |-> e.prdOld] : e \in Undone(restore)}
  OBVIOUS
<1>5. RMT!RmtCycle(in)
  OBVIOUS
<1> HIDE DEF in
<1>6. \A r \in in.recover : r.prd \in Phys
  BY <1>4, HandedBackAreRegisters
<1>7. \A t \in Slots : rmtCkpt[t].map \in [RMT!ArchRegs -> Phys]
  BY DEF RMT!RmtTypeOK
<1>8. mapTable' \in [RMT!ArchRegs -> Phys]
  <2>1. mapTable' = RMT!NextMap(in)
    BY <1>5 DEF RMT!RmtCycle
  <2>2. CASE in.restore # -1 /\ RMT!RmtHit(in.restore)
    BY <1>7, <2>1, <2>2, HitIsASlot DEF RMT!NextMap
  <2>3. CASE ~(in.restore # -1 /\ RMT!RmtHit(in.restore)) /\ in.recover # {}
    <3>1. mapTable' = [a \in RMT!ArchRegs |->
            IF \E r \in in.recover : r.rd = a /\ a # 0
            THEN (CHOOSE r \in in.recover : r.rd = a).prd
            ELSE mapTable[a]]
      BY <2>1, <2>3 DEF RMT!NextMap
    <3>2. \A a \in RMT!ArchRegs : (\E r \in in.recover : r.rd = a /\ a # 0)
            => (CHOOSE r \in in.recover : r.rd = a) \in in.recover
      OBVIOUS
    <3>3. \A a \in RMT!ArchRegs : mapTable[a] \in Phys
      BY DEF RMT!RmtTypeOK
    <3> QED
      BY <1>6, <3>1, <3>2, <3>3
  <2>4. CASE ~(in.restore # -1 /\ RMT!RmtHit(in.restore)) /\ in.recover = {}
    BY <1>3, <1>4, <2>1, <2>4 DEF RMT!NextMap
  <2> QED
    BY <2>2, <2>3, <2>4
<1>9. ASSUME NEW t \in Slots
      PROVE  /\ rmtCkpt'[t].valid \in BOOLEAN /\ rmtCkpt'[t].order \in Nat
             /\ rmtCkpt'[t].map \in [RMT!ArchRegs -> Phys]
  <2>1. CASE rmtCkpt'[t] = rmtCkpt[t]
    BY <2>1 DEF RMT!RmtTypeOK
  <2>2. CASE rmtCkpt'[t] = RMT!RmtVacant
    <3>1. RMT!Identity \in [RMT!ArchRegs -> Phys]
      BY FreelistAssumption DEF RMT!Identity, RMT!ArchRegs, Phys
    <3> QED
      BY <2>2, <3>1 DEF RMT!RmtVacant
  <2>3. CASE \E k \in DOMAIN in.caps :
               rmtCkpt'[t] = [valid |-> TRUE, order |-> in.caps[k].order,
                              map |-> RMT!MapAfter(in.allocs, in.caps[k].allocs)]
    <3>1. PICK k \in DOMAIN in.caps :
            rmtCkpt'[t] = [valid |-> TRUE, order |-> in.caps[k].order,
                           map |-> RMT!MapAfter(in.allocs, in.caps[k].allocs)]
      BY <2>3
    <3>2. k \in DOMAIN CapturesOf(s) /\ in.caps[k] = CapturesOf(s)[k]
      BY <1>4
    <3>3. PICK n \in 1 .. K : /\ CapturesOf(s)[k].order = orderId + n - 1
                              /\ CapturesOf(s)[k].allocs = AllocsUpTo(s, n)
      BY <1>1, <3>2, CapturesAre
    <3>4. orderId + n - 1 \in Nat
      OBVIOUS
    <3>5. RMT!MapAfter(Allocs(s), AllocsUpTo(s, n)) \in [RMT!ArchRegs -> Phys]
      BY <1>1, <1>2
    <3> QED
      BY <1>4, <3>1, <3>2, <3>3, <3>4, <3>5
  <2> QED
    BY <1>5, <2>1, <2>2, <2>3, SlotAfter
<1> QED
  BY <1>8, <1>9 DEF RMT!RmtTypeOK

-----------------------------------------------------------------------------
LEMMA RenameInvInit == RenameInit => RenameInv
<1> SUFFICES ASSUME RenameInit PROVE RenameInv
  OBVIOUS
<1>1. HistoryInv
  BY HistoryInvInit DEF RenameInit
<1>2. PortsTakeTurns
  BY DEF RenameInit, RetireInit, RobInit, PortsTakeTurns
<1>3. FreelistTypeOK
  <2>1. /\ flMem = ResetMem /\ flHead = 0 /\ flTail = NumFree
        /\ \A t \in Slots : flCkpt[t] = Vacant
    BY DEF RenameInit, FreelistInit
  <2>2. /\ ResetMem \in [FlIndices -> Phys] /\ 0 \in FlPointers /\ NumFree \in FlPointers
    BY VacantIsAnImage DEF Vacant, Image
  <2>3. \A t \in Slots : Image(flCkpt[t])
    BY <2>1, VacantIsAnImage
  <2> QED
    BY <2>1, <2>2, <2>3 DEF FreelistTypeOK, Image
<1>4. RMT!RmtTypeOK
  <2>1. RMT!Identity \in [RMT!ArchRegs -> Phys]
    BY FreelistAssumption DEF RMT!Identity, RMT!ArchRegs, Phys
  <2> QED
    BY <2>1 DEF RenameInit, RMT!RmtInit, RMT!RmtVacant, RMT!RmtTypeOK
<1>5. LogTyped
  BY EmptySeq DEF RenameInit, RetireInit, LogTyped
<1> QED
  BY <1>1, <1>2, <1>3, <1>4, <1>5 DEF RenameInit, RenameInv

LEMMA StepKeepsRename ==
  ASSUME RenameInv, NEW irq \in BOOLEAN, NEW wb, NEW s, NEW K, NEW rebuild \in BOOLEAN,
         Step(irq, wb, s, K, rebuild)
  PROVE  RenameInv'
<1> DEFINE f == FlushOf(irq, wb)
           restore == RestoreOrder(irq, wb)
<1>1. /\ HistoryInv /\ RetireTypeOK /\ RobTypeOK /\ FreelistTypeOK /\ RMT!RmtTypeOK
      /\ LogTyped /\ orderId \in Nat
  BY RetireAssumption DEF RenameInv, HistoryInv, RingInv, RetireTypeOK
<1>2. /\ Offer(f, s, K) /\ BufferCycle(f, wb, Renamed(s), K)
      /\ K \in 0 .. 2 /\ s \in [1 .. K -> Instrs]
  BY DEF Step, Offer
<1>3. HistoryInv'
  BY <1>1, <1>2, HistoryInvCycle
<1>4. PortsTakeTurns'
  BY <1>2, PortsAfter DEF BufferCycle
<1>5. RMT!RmtTypeOK'
  <2>1. RMT!RmtCycle(
          [restore |-> restore, drop |-> DropOrder,
           recover |-> {[rd |-> e.ins.rd, prd |-> e.prdOld] : e \in Undone(restore)},
           allocs |-> Allocs(s), caps |-> CapturesOf(s)])
    BY DEF Step
  <2> HIDE DEF f, restore
  <2> QED
    BY <1>1, <1>2, <2>1, MapIsTyped
<1>6. FreelistTypeOK'
  <2> DEFINE in == [allocs |-> Len(Allocs(s)), free |-> Released,
                    push |-> Pushed(restore), drop |-> DropOrder,
                    caps |-> CapturesOf(s), restore |-> restore,
                    rebuild |-> rebuild, mapped |-> RMT!MappedRegs]
  <2>1. FreelistCycle(in)
    BY DEF Step
  <2>2. in.free \in Phys /\ in.push \in Phys
    BY <1>1, HandedBackAreRegisters
  <2>3. \A n \in 0 .. K : AllocsUpTo(s, n) \in Nat
    <3>1. AllocsUpTo(s, 0) = 0
      BY <1>2, AllocsAre
    <3>2. \A n \in 1 .. K :
            AllocsUpTo(s, n) = AllocsUpTo(s, n - 1) + (IF s[n].rd # 0 THEN 1 ELSE 0)
      BY <1>2, AllocsAre
    <3>3. K >= 1 => AllocsUpTo(s, 1) \in Nat
      <4>1. K >= 1 => AllocsUpTo(s, 1) = AllocsUpTo(s, 1 - 1) + (IF s[1].rd # 0 THEN 1 ELSE 0)
        BY <1>2, <3>2
      <4> QED
        BY <1>2, <3>1, <4>1
    <3>4. K = 2 => AllocsUpTo(s, 2) \in Nat
      <4>1. K = 2 => AllocsUpTo(s, 2) = AllocsUpTo(s, 2 - 1) + (IF s[2].rd # 0 THEN 1 ELSE 0)
        BY <1>2, <3>2
      <4> QED
        BY <1>2, <3>3, <4>1
    <3>5. \A n \in 0 .. K : n = 0 \/ (n = 1 /\ K >= 1) \/ (n = 2 /\ K = 2)
      BY <1>2
    <3> QED
      BY <3>1, <3>3, <3>4, <3>5
  <2>4. in.allocs \in Nat
    BY <1>2, <2>3, AllocsAre
  <2>5. \A k \in DOMAIN in.caps : in.caps[k].order \in Nat /\ in.caps[k].allocs \in Nat
    <3> SUFFICES ASSUME NEW k \in DOMAIN CapturesOf(s)
                 PROVE  /\ CapturesOf(s)[k].order \in Nat
                        /\ CapturesOf(s)[k].allocs \in Nat
      OBVIOUS
    <3>1. PICK n \in 1 .. K : /\ CapturesOf(s)[k].order = orderId + n - 1
                              /\ CapturesOf(s)[k].allocs = AllocsUpTo(s, n)
      BY <1>2, CapturesAre
    <3>2. n \in 0 .. K /\ orderId + n - 1 \in Nat
      BY <1>1, <1>2
    <3> QED
      BY <2>3, <3>1, <3>2
  <2> HIDE DEF in
  <2> QED
    BY <1>1, <2>1, <2>2, <2>4, <2>5, FreelistIsTyped
<1>7. LogTyped'
  <2> DEFINE new == [n \in DOMAIN s |-> [ins |-> s[n], prd |-> Renamed(s)[n].prdNew]]
  <2>1. log' = log \o new /\ orderId' = orderId + K
    BY <1>2 DEF Step, BufferCycle
  <2>2. \A n \in 1 .. K : Renamed(s)[n].prdNew \in Phys
    BY <1>1, <1>2, RenamedIsHandedOver
  <2>3. new \in [1 .. K -> [ins : Instrs, prd : Phys]]
    BY <1>2, <2>2
  <2>4. new \in Seq([ins : Instrs, prd : Phys])
    BY <1>2, <2>3, SeqDef
  <2>5. Len(new) = K
    <3>1. DOMAIN new = 1 .. K
      BY <2>3
    <3> HIDE DEF new
    <3> QED
      BY <1>2, <2>4, <3>1, LenProperties
  <2> HIDE DEF new
  <2> QED
    BY <1>1, <2>1, <2>4, <2>5, ConcatProperties DEF LogTyped
<1>8. ckptRecover' \in BOOLEAN
  <2>1. ckptRecover' = IF restore # NoOrder THEN RestoreHits(restore)
                       ELSE ckptRecover /\ recovering
    BY DEF Step
  <2>2. RestoreHits(restore) \in BOOLEAN /\ (ckptRecover /\ recovering) \in BOOLEAN
    BY DEF RestoreHits
  <2> QED
    BY <2>1, <2>2
<1>9. quarantine' \subseteq Phys
  <2>1. Released \in Phys
    BY <1>1, HandedBackAreRegisters
  <2> QED
    BY <2>1 DEF Step, RenameInv
<1>10. slipped' \in BOOLEAN /\ unmatched' \in BOOLEAN
  BY DEF Step, RecordRestore
<1> QED
  BY <1>3, <1>4, <1>5, <1>6, <1>7, <1>8, <1>9, <1>10 DEF RenameInv

LEMMA RenameInvNext == RenameInv /\ [RenameNext]_renameVars => RenameInv'
<1> SUFFICES ASSUME RenameInv, [RenameNext]_renameVars PROVE RenameInv'
  OBVIOUS
<1>1. ASSUME NEW wb, RenameCycle(wb) PROVE RenameInv'
  <2>1. RetireTypeOK /\ FreelistTypeOK /\ RMT!RmtTypeOK
    BY DEF RenameInv, HistoryInv, RingInv
  <2>2. PICK irq \in BOOLEAN, rebuild \in BOOLEAN : \E s, K : Step(irq, wb, s, K, rebuild)
    BY <1>1, <2>1, CycleIsStep
  <2> QED
    BY <2>2, StepKeepsRename
<1>2. CASE RenameNext
  BY <1>1, <1>2 DEF RenameNext, RenameIdle, RenameComplete
<1>3. CASE UNCHANGED renameVars
  <2>1. HistoryInv'
    BY <1>3, HistoryInvStutter DEF RenameInv, renameVars
  <2>2. UNCHANGED <<commit0, recoverOut, orderId>>
    BY <1>3 DEF renameVars, retireVars, robVars
  <2>3. PortsTakeTurns' /\ LogTyped'
    BY <1>3, <2>2 DEF renameVars, RenameInv, PortsTakeTurns, LogTyped
  <2>4. FreelistTypeOK'
    BY <1>3 DEF renameVars, flVars, RenameInv, FreelistTypeOK
  <2>5. RMT!RmtTypeOK'
    BY <1>3 DEF renameVars, RenameInv, RMT!RmtTypeOK
  <2> QED
    BY <1>3, <2>1, <2>3, <2>4, <2>5 DEF renameVars, RenameInv
<1> QED
  BY <1>2, <1>3

\* What Rename's registers hold, and all that the proofs about Retire say of
\* the buffer, holds with renaming around it.
THEOREM RenameInvariant == RenameSpec => []RenameInv
BY RenameInvInit, RenameInvNext, PTL DEF RenameSpec

\* The registers of the map, the list, their images and the glue keep their
\* ranges (rename_map_table.v, freelist.v), for every number of registers and
\* of checkpoint slots.
THEOREM RenameTypes == RenameSpec => []RenameTypeOK
<1>1. RenameInv => RenameTypeOK
  BY DEF RenameInv, HistoryInv, RingInv, LogTyped, RenameTypeOK
<1> QED
  BY <1>1, RenameInvariant, PTL

\* freelist.v writes fl_mem at fl_tail once per cycle, its push over its free:
\* no register is lost by it, as a commit and an undo never meet.
THEOREM OneReturnOnly == RenameSpec => []OneReturnPerCycle
<1>1. RenameInv => OneReturnPerCycle
  <2> SUFFICES ASSUME RenameInv, Released # 0 PROVE Undone(NoOrder) = {}
    BY DEF OneReturnPerCycle
  <2>1. PICK e \in commit0 : ~e.ins.exc
    BY DEF Released
  <2>2. ~ExceptionNow /\ recoverOut = {}
    BY <2>1 DEF RenameInv, PortsTakeTurns, ExceptionNow
  <2> QED
    BY <2>2 DEF Undone
<1> QED
  BY <1>1, RenameInvariant, PTL

\* The reorder buffer as the rename stage drives it (sifang_core.v's wiring of
\* rob.v) still implements the plain window of the program.
THEOREM RenameImplementsProgram == RenameSpec => ImplementsProgram
<1>1. RenameInit => Promise!ProgramInit
  BY ResetIsPromised DEF RenameInit
<1>2. RenameInv /\ [RenameNext]_renameVars =>
        [Promise!ProgramStep]_(Promise!programVars)
  <2> SUFFICES ASSUME RenameInv, [RenameNext]_renameVars
               PROVE  Promise!ProgramStep \/ UNCHANGED Promise!programVars
    OBVIOUS
  <2>1. HistoryInv /\ RetireTypeOK /\ FreelistTypeOK /\ RMT!RmtTypeOK
    BY DEF RenameInv, HistoryInv, RingInv
  <2>2. ASSUME NEW wb, RenameCycle(wb) PROVE Promise!ProgramStep
    <3>1. PICK irq \in BOOLEAN, rebuild \in BOOLEAN :
            \E s, K : Step(irq, wb, s, K, rebuild)
      BY <2>1, <2>2, CycleIsStep
    <3>2. PICK s, K : BufferCycle(FlushOf(irq, wb), wb, Renamed(s), K)
      BY <3>1 DEF Step
    <3> QED
      BY <2>1, <3>2, CycleIsPromised
  <2>3. CASE RenameNext
    BY <2>2, <2>3 DEF RenameNext, RenameIdle, RenameComplete
  <2>4. CASE UNCHANGED renameVars
    BY <2>4, StutterIsPromised DEF renameVars
  <2> QED
    BY <2>3, <2>4
<1> QED
  BY <1>1, <1>2, RenameInvariant, PTL
     DEF RenameSpec, ImplementsProgram, Promise!ProgramSpec
-----------------------------------------------------------------------------
(***************************************************************************)
(* What the rename map says of the program, for every program of register  *)
(* writes, branches and xrets with external interrupts.                    *)
(*                                                                         *)
(* The map is always that of the instructions Visible to it: those no      *)
(* redirect cancelled and, in a walk that no image cuts short, the         *)
(* cancelled ones the walk has yet to undo.  Each prd_old and each image   *)
(* is that of the instructions visible up to its own.  This is an          *)
(* invariant because redirects never overlap: a branch or an xret enters   *)
(* only when none before it is unresolved.                                 *)
(***************************************************************************)

\* No instruction faults or is a branch and an xret at once, and software
\* raises no interrupt behind the core's back.
OrdinaryProgram ==
  /\ \A x \in Instrs : ~x.exc /\ ~(x.branch /\ x.xret)
  /\ "software" \notin Interrupts

-----------------------------------------------------------------------------
\* p is where the youngest writer of a among the order ids S put it, by the
\* log lg, or a itself when none writes it.
WritersIn(lg, S, a) == {o \in S : lg[o + 1].ins.rd = a}

Names(lg, S, a, p) ==
  \/ WritersIn(lg, S, a) = {} /\ p = a
  \/ \E o \in WritersIn(lg, S, a) :
       (\A q \in WritersIn(lg, S, a) : q <= o) /\ p = lg[o + 1].prd

\* A younger instruction takes over what it writes.
LEMMA NamesWithYoungest ==
  ASSUME NEW lg, NEW S \in SUBSET Nat, NEW a, NEW p, Names(lg, S, a, p),
         NEW o \in Nat, \A q \in S : q < o
  PROVE  Names(lg, S \cup {o}, a, IF lg[o + 1].ins.rd = a THEN lg[o + 1].prd ELSE p)
<1>1. CASE lg[o + 1].ins.rd = a
  <2>1. o \in WritersIn(lg, S \cup {o}, a)
    BY <1>1 DEF WritersIn
  <2>2. \A q \in WritersIn(lg, S \cup {o}, a) : q <= o
    BY DEF WritersIn
  <2> QED
    BY <1>1, <2>1, <2>2 DEF Names
<1>2. CASE lg[o + 1].ins.rd # a
  <2>1. WritersIn(lg, S \cup {o}, a) = WritersIn(lg, S, a)
    BY <1>2 DEF WritersIn
  <2> QED
    BY <1>2, <2>1 DEF Names
<1> QED
  BY <1>1, <1>2

\* Instructions that do not write a may be left out.
LEMMA NamesOfTheSame ==
  ASSUME NEW lg, NEW S, NEW T, NEW a, NEW p, Names(lg, S, a, p),
         WritersIn(lg, S, a) = WritersIn(lg, T, a)
  PROVE  Names(lg, T, a, p)
BY DEF Names

\* What is appended to the log says nothing of earlier instructions.
LEMMA NamesInLongerLog ==
  ASSUME NEW lg, NEW lg2, NEW S \in SUBSET Nat, NEW a, NEW p, Names(lg, S, a, p),
         \A o \in S : lg2[o + 1] = lg[o + 1]
  PROVE  Names(lg2, S, a, p)
<1>1. WritersIn(lg2, S, a) = WritersIn(lg, S, a)
  BY DEF WritersIn
<1>2. \A o \in WritersIn(lg, S, a) : lg2[o + 1] = lg[o + 1]
  BY DEF WritersIn
<1> QED
  BY <1>1, <1>2 DEF Names

\* Two registers named for the same instructions are one.
LEMMA NamesIsOne ==
  ASSUME NEW lg, NEW S \in SUBSET Nat, NEW a, NEW p, NEW q,
         Names(lg, S, a, p), Names(lg, S, a, q)
  PROVE  p = q
<1>1. WritersIn(lg, S, a) \subseteq Nat
  BY DEF WritersIn
<1>2. CASE WritersIn(lg, S, a) = {}
  BY <1>2 DEF Names
<1>3. CASE WritersIn(lg, S, a) # {}
  <2>1. PICK m \in WritersIn(lg, S, a) :
          (\A k \in WritersIn(lg, S, a) : k <= m) /\ p = lg[m + 1].prd
    BY <1>3 DEF Names
  <2>2. PICK n \in WritersIn(lg, S, a) :
          (\A k \in WritersIn(lg, S, a) : k <= n) /\ q = lg[n + 1].prd
    BY <1>3 DEF Names
  <2>3. m = n
    BY <1>1, <2>1, <2>2
  <2> QED
    BY <2>1, <2>2, <2>3
<1> QED
  BY <1>2, <1>3

-----------------------------------------------------------------------------
\* The order ids the ring holds, and those the walk's port shows.
InRing == {rob[i].order : i \in {j \in Indices : rob[j].valid}}
Undoing == {e.order : e \in recoverOut}

\* The instructions the map stands for.
Visible ==
  (Given \ squashed) \cup (IF ckptRecover THEN {} ELSE InRing \cup Undoing)

\* One redirect at a time: at most one branch or xret is unresolved, none with
\* a resolution under way, and a walk runs with neither.
Control(e) == e.ins.branch \/ e.ins.xret

OneRedirect ==
  /\ \A d, e \in Executing : Control(d) /\ Control(e) => d.order = e.order
  /\ br # {} => \A e \in Executing : ~Control(e)
  /\ \A b, c \in br : b = c
  /\ recovering => Mispredicted = {} /\ \A e \in Executing : ~Control(e)

\* The retired instructions are the oldest, and a redirect spares them.
RetiredIsOld ==
  /\ \A q \in retired, i \in Indices : rob[i].valid => q < rob[i].order
  /\ \A q \in retired, b \in br : q <= b.order
  /\ \A b \in br : b.order \notin squashed

\* What the walk hands over is younger than all that is not cancelled.
UndoIsYoungest ==
  /\ recoverOut # {} => recovering
  /\ \A e \in recoverOut :
       /\ e.order \in squashed
       /\ \A i \in Indices : rob[i].valid => rob[i].order < e.order
       /\ \A q \in Given : q > e.order => q \in squashed

\* An entry still is what the log says of it.
Logged(e) == log[e.order + 1].ins = e.ins /\ log[e.order + 1].prd = e.prdNew

EntriesLogged ==
  /\ \A i \in Indices : rob[i].valid => Logged(rob[i])
  /\ \A e \in recoverOut : Logged(e)

MapIsVisible ==
  \A a \in RMT!ArchRegs \ {0} : Names(log, Visible, a, mapTable[a])

\* What an entry overwrote is what the instructions before it had made.
Replaces(e) ==
  e.ins.rd # 0 /\ e.order \in Visible =>
    Names(log, {o \in Visible : o < e.order}, e.ins.rd, e.prdOld)

OldIsVisible ==
  /\ \A i \in Indices : rob[i].valid => Replaces(rob[i])
  /\ \A e \in recoverOut : Replaces(e)

\* An image of the map is that of the instructions up to its branch.
Images(c) ==
  c.valid =>
    /\ c.order \in Given
    /\ c.order \notin squashed =>
         \A a \in RMT!ArchRegs \ {0} :
           Names(log, {o \in Visible : o <= c.order}, a, c.map[a])

ImagesAreVisible == \A t \in Slots : Images(rmtCkpt[t])

MapInv ==
  /\ RenameInv
  /\ OneRedirect /\ RetiredIsOld /\ UndoIsYoungest /\ EntriesLogged
  /\ MapIsVisible /\ OldIsVisible /\ ImagesAreVisible

-----------------------------------------------------------------------------
\* What a cycle makes of an entry: it stays and keeps what dispatch wrote, or
\* it is new.
Keeps(e, d) ==
  /\ d.order = e.order /\ d.ins = e.ins
  /\ d.prdNew = e.prdNew /\ d.prdOld = e.prdOld

LEMMA MarkedKeeps ==
  ASSUME NEW f, NEW wb, NEW e \in Entries
  PROVE  Keeps(e, Marked(f, wb, e))
BY DEF Keeps, Marked, Entries

LEMMA EntriesAfter ==
  ASSUME RingInv, NEW f \in Flushes, NEW wb, NEW disp, NEW K,
         HandsOver(f, disp, K), RobCycle(f, wb, disp),
         NEW i \in Indices, rob'[i].valid
  PROVE  \/ rob[i].valid /\ Keeps(rob[i], rob'[i])
         \/ \E n \in 1 .. K : Keeps(disp[n], rob'[i])
<1>1. /\ rob \in [Indices -> Entries] /\ recoverPtr \in Indices
  BY DEF RingInv, RetireTypeOK, RobTypeOK
<1>2. rob[i] \in Entries
  BY <1>1
<1>3. ASSUME rob'[i] = Marked(f, wb, rob[i]) PROVE rob[i].valid /\ Keeps(rob[i], rob'[i])
  <2>1. Keeps(rob[i], rob'[i])
    BY <1>2, <1>3, MarkedKeeps
  <2>2. Marked(f, wb, rob[i]).valid = rob[i].valid
    BY <1>2, MarkedEntry
  <2> QED
    BY <1>3, <2>1, <2>2
<1>4. CASE WalkUndo(f, wb)
  <2>1. CASE i = recoverPtr
    <3>1. rob'[i] = [Marked(f, wb, rob[i]) EXCEPT !.valid = FALSE,
                                                  !.flushed = MarkedBy(f, rob[i])]
      BY <1>4, <2>1 DEF WalkUndo
    <3>2. rob[i].valid
      BY <1>4, <2>1 DEF WalkUndo, WalkUndoes
    <3>3. Keeps(rob[i], rob'[i])
      BY <1>2, <3>1 DEF Keeps, Marked, Entries
    <3> QED
      BY <3>2, <3>3
  <2>2. CASE i # recoverPtr
    <3>1. rob'[i] = Marked(f, wb, rob[i])
      BY <1>4, <2>2 DEF WalkUndo
    <3> QED
      BY <1>3, <3>1
  <2> QED
    BY <2>1, <2>2
<1>5. CASE WalkHold(f, wb) \/ WalkEnd(f, wb)
  <2>1. rob'[i] = Marked(f, wb, rob[i])
    BY <1>5 DEF WalkHold, WalkEnd
  <2> QED
    BY <1>3, <2>1
<1>6. CASE RunCycle(f, wb, disp)
  <2> DEFINE accepted == IF f.valid \/ RobFull THEN <<>> ELSE disp
  <2>1. rob' = [j \in Indices |->
           IF \E n \in DOMAIN accepted : SlotOf(n) = j
           THEN EntryOf(accepted[CHOOSE n \in DOMAIN accepted : SlotOf(n) = j])
           ELSE [Marked(f, wb, rob[j]) EXCEPT
                   !.valid = @ /\ ~(LeavingHead(f, wb) /\ j = robHead)]]
    BY <1>6 DEF RunCycle
  <2>2. DOMAIN accepted = 1 .. K \/ DOMAIN accepted = {}
    BY DEF HandsOver
  <2>3. DOMAIN accepted # {} => accepted = disp
    OBVIOUS
  <2> HIDE DEF accepted
  <2>4. CASE \E n \in DOMAIN accepted : SlotOf(n) = i
    <3>1. PICK n \in DOMAIN accepted : rob'[i] = EntryOf(accepted[n])
      BY <2>1, <2>4
    <3>2. n \in 1 .. K /\ rob'[i] = EntryOf(disp[n])
      BY <2>2, <2>3, <3>1
    <3>3. Keeps(disp[n], rob'[i])
      BY <3>2 DEF Keeps, EntryOf
    <3> QED
      BY <3>2, <3>3
  <2>5. CASE ~(\E n \in DOMAIN accepted : SlotOf(n) = i)
    <3>1. rob'[i] = [Marked(f, wb, rob[i]) EXCEPT
                       !.valid = @ /\ ~(LeavingHead(f, wb) /\ i = robHead)]
      BY <2>1, <2>5
    <3>2. Marked(f, wb, rob[i]) \in Entries /\ Marked(f, wb, rob[i]).valid = rob[i].valid
      BY <1>2, MarkedEntry
    <3>3. Keeps(rob[i], rob'[i])
      BY <1>2, <3>1 DEF Keeps, Marked, Entries
    <3>4. rob[i].valid
      BY <3>1, <3>2 DEF Entries
    <3> QED
      BY <3>3, <3>4
  <2> QED
    BY <2>4, <2>5
<1> QED
  BY <1>4, <1>5, <1>6 DEF RobCycle

-----------------------------------------------------------------------------
\* Where a flush comes from when nothing faults.
LEMMA NoFaultShows ==
  ASSUME OrdinaryProgram, RobTypeOK
  PROVE  ~ExceptionNow
BY DEF OrdinaryProgram, RobTypeOK, Entries, ExceptionNow

LEMMA FlushComesFrom ==
  ASSUME ~ExceptionNow, NEW irq \in BOOLEAN, NEW wb, FlushOf(irq, wb).valid
  PROVE  \/ irq /\ ~FlushOf(irq, wb).ordered
         \/ /\ FlushOf(irq, wb).ordered
            /\ \E x \in Executing : /\ x.ins.xret /\ x.order \in wb
                                    /\ FlushOf(irq, wb).order = x.order
         \/ /\ FlushOf(irq, wb).ordered /\ ~irq /\ XretNow(wb) = {}
            /\ FlushOf(irq, wb).order \in Mispredicted
<1>1. CASE irq
  BY <1>1 DEF FlushOf
<1>2. CASE ~irq /\ XretNow(wb) # {}
  <2>1. FlushOf(irq, wb) = [valid |-> TRUE, ordered |-> TRUE,
                            order |-> CHOOSE o \in XretNow(wb) : TRUE]
    BY <1>2 DEF FlushOf
  <2>2. (CHOOSE o \in XretNow(wb) : TRUE) \in XretNow(wb)
    BY <1>2
  <2> QED
    BY <2>1, <2>2 DEF XretNow
<1>3. CASE ~irq /\ XretNow(wb) = {} /\ Mispredicted # {}
  <2>1. FlushOf(irq, wb) = [valid |-> TRUE, ordered |-> TRUE,
                            order |-> CHOOSE o \in Mispredicted : TRUE]
    BY <1>3 DEF FlushOf
  <2>2. (CHOOSE o \in Mispredicted : TRUE) \in Mispredicted
    BY <1>3
  <2> QED
    BY <1>3, <2>1, <2>2
<1>4. CASE ~irq /\ XretNow(wb) = {} /\ Mispredicted = {}
  BY <1>4 DEF FlushOf, NoFlush
<1> QED
  BY <1>1, <1>2, <1>3, <1>4

\* No redirect arrives while a walk runs.
LEMMA WalkRunsAlone ==
  ASSUME OrdinaryProgram, RobTypeOK, OneRedirect, recovering,
         NEW irq \in BOOLEAN, NEW wb, irq => InterruptReady(wb)
  PROVE  ~FlushOf(irq, wb).valid /\ Mispredicted = {} /\ ~irq
<1>1. ~ExceptionNow
  BY NoFaultShows
<1>2. Mispredicted = {} /\ \A e \in Executing : ~Control(e)
  BY DEF OneRedirect
<1>3. ~irq
  BY DEF InterruptReady, OrdinaryProgram
<1>4. ~FlushOf(irq, wb).valid
  BY <1>1, <1>2, <1>3, FlushComesFrom DEF Control
<1> QED
  BY <1>2, <1>3, <1>4

\* What resolves in a cycle: an executing branch that writes back and that the
\* flush of the cycle spares.
LEMMA ResolvedAfter ==
  ASSUME NEW f, NEW wb, ResolveBranch(f, wb)
  PROVE  /\ \A b \in br' : \E e \in Executing :
              /\ e.ins.branch /\ e.order \in wb /\ ~Cancels(f, e.order)
              /\ b.order = e.order
         /\ \A b, c \in br' : b.order = c.order => b = c
<1> DEFINE resolved == {e \in Executing :
        /\ e.ins.branch /\ e.order \in wb
        /\ ~(f.valid /\ (~f.ordered \/ e.order > f.order))}
<1>1. CASE resolved = {}
  BY <1>1 DEF ResolveBranch
<1>2. CASE resolved # {}
  <2>1. PICK miss \in BOOLEAN :
          br' = {[order |-> e.order, miss |-> miss] : e \in resolved}
    BY <1>2 DEF ResolveBranch
  <2>2. \A e \in resolved : /\ e \in Executing /\ e.ins.branch /\ e.order \in wb
                            /\ ~Cancels(f, e.order)
    BY DEF Cancels
  <2> HIDE DEF resolved
  <2> QED
    BY <2>1, <2>2
<1> QED
  BY <1>1, <1>2

LEMMA ExecutingIs ==
  ASSUME NEW e
  PROVE  e \in Executing <=>
           \E i \in Indices : e = rob[i] /\ rob[i].valid /\ ~rob[i].flushed /\ ~rob[i].complete
BY DEF Executing, LiveEntries, Live

\* What executes after a cycle executed before it, unmarked and without a
\* write-back, or is new.
LEMMA ExecutingAfter ==
  ASSUME RingInv, NEW f \in Flushes, NEW wb, NEW disp, NEW K,
         HandsOver(f, disp, K), RobCycle(f, wb, disp), orderId' = orderId + K,
         NEW e \in Executing'
  PROVE  \/ \E d \in Executing : Keeps(d, e) /\ d.order \notin wb /\ ~MarkedBy(f, d)
         \/ \E n \in 1 .. K : Keeps(disp[n], e)
<1>1. PICK i \in Indices : /\ e = rob'[i] /\ rob'[i].valid
                           /\ ~rob'[i].flushed /\ ~rob'[i].complete
  BY DEF Executing, LiveEntries, Live
<1>2. PICK G \in SUBSET Indices : Passes(f, wb, G) /\ Leaves(f, G)
  BY CyclePasses
<1>3. CASE \E n \in 1 .. K : Keeps(disp[n], rob'[i])
  BY <1>1, <1>3
<1>4. CASE rob[i].valid /\ Keeps(rob[i], rob'[i])
  <2>1. rob[i].order < orderId /\ orderId \in Nat
    BY <1>4, RetireAssumption DEF RingInv, OrdersGrow, RetireTypeOK
  <2>2. rob[i] \in Entries
    BY DEF RingInv, RetireTypeOK, RobTypeOK
  <2>3. i \notin G
    <3>1. rob'[i].order \notin orderId .. orderId' - 1
      BY <1>4, <2>1, <2>2 DEF Keeps, Entries
    <3> QED
      BY <1>1, <1>2, <3>1 DEF Passes
  <2>4. /\ rob'[i].flushed = (rob[i].flushed \/ MarkedBy(f, rob[i]))
        /\ rob[i].complete \/ rob[i].order \in wb => rob'[i].complete
    BY <1>2, <1>4, <2>3 DEF Passes
  <2>5. ~rob[i].flushed /\ ~MarkedBy(f, rob[i]) /\ ~rob[i].complete /\ rob[i].order \notin wb
    BY <1>1, <2>4
  <2>6. rob[i] \in Executing
    BY <1>4, <2>5 DEF Executing, LiveEntries, Live
  <2> QED
    BY <1>1, <1>4, <2>5, <2>6
<1> QED
  BY <1>1, <1>3, <1>4, EntriesAfter

\* One redirect at a time stays so: nothing that may redirect enters beside an
\* unresolved one, and one that resolves or redirects no longer executes.
LEMMA RedirectAfter ==
  ASSUME OrdinaryProgram, RenameInv, OneRedirect, NEW irq \in BOOLEAN, NEW wb,
         NEW s, NEW K, NEW rebuild, Step(irq, wb, s, K, rebuild)
  PROVE  OneRedirect'
<1> DEFINE f == FlushOf(irq, wb)
<1>1. /\ RingInv /\ RetireTypeOK /\ RobTypeOK /\ FreelistTypeOK /\ RMT!RmtTypeOK
      /\ f \in Flushes /\ ~ExceptionNow
  BY FlushIsTyped, NoFaultShows DEF RenameInv, HistoryInv, RingInv, RetireTypeOK
<1>2. /\ Offer(f, s, K) /\ K \in 0 .. 2
      /\ irq => InterruptReady(wb)
      /\ HandsOver(f, Renamed(s), K) /\ RobCycle(f, wb, Renamed(s))
      /\ orderId' = orderId + K /\ ResolveBranch(f, wb)
  BY DEF Step, Offer, BufferCycle
<1>3. \A n \in 1 .. K : Renamed(s)[n].order = orderId + n - 1 /\ Renamed(s)[n].ins = s[n]
  BY <1>1, <1>2, RenamedIsHandedOver
<1>4. \A n \in 1 .. K :
        /\ s[n].branch \/ s[n].xret =>
             ~BranchPending /\ \A m \in 1 .. n - 1 : ~s[m].branch
        /\ s[n].xret => n = K
  BY <1>2 DEF Offer
<1>5. /\ f.valid \/ RobFull \/ XretPending => K = 0
      /\ recovering => K = 0
  BY <1>2 DEF Offer, RobFull
<1>6. /\ \A d, e \in Executing : Control(d) /\ Control(e) => d.order = e.order
      /\ br # {} => \A e \in Executing : ~Control(e)
      /\ recovering => Mispredicted = {} /\ \A e \in Executing : ~Control(e)
  BY DEF OneRedirect
<1>7. /\ \A b \in br' : \E e \in Executing :
           /\ e.ins.branch /\ e.order \in wb /\ ~Cancels(f, e.order)
           /\ b.order = e.order
      /\ \A b, c \in br' : b.order = c.order => b = c
  BY <1>2, ResolvedAfter
<1>8. recovering => ~f.valid
  BY <1>1, <1>2, WalkRunsAlone
<1>9. recovering' => recovering \/ f.valid
  BY <1>2 DEF RobCycle, WalkUndo, WalkHold, WalkEnd, RunCycle
<1>10. f.valid => \/ irq /\ ~f.ordered
                  \/ /\ f.ordered
                     /\ \E x \in Executing : /\ x.ins.xret /\ x.order \in wb
                                             /\ f.order = x.order
                  \/ /\ f.ordered /\ ~irq /\ XretNow(wb) = {}
                     /\ f.order \in Mispredicted
  BY <1>1, FlushComesFrom
<1> HIDE DEF f
<1>11. \A e \in Executing' :
         \/ \E d \in Executing : Keeps(d, e) /\ d.order \notin wb /\ ~MarkedBy(f, d)
         \/ \E n \in 1 .. K : Keeps(Renamed(s)[n], e)
  BY <1>1, <1>2, ExecutingAfter
\* A controlling instruction that executes afterwards did so before, or is the
\* only new one, with none before it.
<1>12. ASSUME NEW e \in Executing', Control(e)
       PROVE  \/ \E d \in Executing : /\ Control(d) /\ d.order = e.order
                                      /\ d.order \notin wb /\ ~MarkedBy(f, d)
              \/ \E n \in 1 .. K : /\ Control([ins |-> s[n]]) /\ e.order = orderId + n - 1
                                   /\ \A d \in Executing : ~Control(d)
  <2>1. CASE \E d \in Executing : Keeps(d, e) /\ d.order \notin wb /\ ~MarkedBy(f, d)
    BY <1>12, <2>1 DEF Keeps, Control
  <2>2. CASE \E n \in 1 .. K : Keeps(Renamed(s)[n], e)
    <3>1. PICK n \in 1 .. K : Keeps(Renamed(s)[n], e)
      BY <2>2
    <3>2. e.ins = s[n] /\ e.order = orderId + n - 1
      BY <1>3, <3>1 DEF Keeps
    <3>3. s[n].branch \/ s[n].xret
      BY <1>12, <3>2 DEF Control
    <3>4. ~BranchPending /\ ~XretPending
      BY <1>2, <1>4, <1>5, <3>3
    <3>5. \A d \in Executing : ~Control(d)
      BY <3>4 DEF BranchPending, XretPending, Control
    <3> QED
      BY <3>2, <3>3, <3>5 DEF Control
  <2> QED
    BY <1>11, <2>1, <2>2
<1>13. ASSUME NEW n \in 1 .. K, NEW m \in 1 .. K,
              Control([ins |-> s[n]]), Control([ins |-> s[m]])
       PROVE  n = m
  <2>1. ASSUME NEW i \in 1 .. K, NEW j \in 1 .. K, i < j,
               s[i].branch \/ s[i].xret, s[j].branch \/ s[j].xret
        PROVE  FALSE
    <3>1. i \in 1 .. j - 1
      BY <2>1
    <3>2. ~s[i].branch
      BY <1>4, <2>1, <3>1
    <3>3. i = K
      BY <1>4, <2>1, <3>2
    <3> QED
      BY <1>2, <2>1, <3>3
  <2>2. (s[n].branch \/ s[n].xret) /\ (s[m].branch \/ s[m].xret)
    BY <1>13 DEF Control
  <2>3. ~(n < m) /\ ~(m < n)
    BY <2>1, <2>2
  <2> QED
    BY <1>2, <2>3
<1>14. \A d, e \in Executing' : Control(d) /\ Control(e) => d.order = e.order
  BY <1>6, <1>12, <1>13
<1>15. br' # {} => \A e \in Executing' : ~Control(e)
  <2> SUFFICES ASSUME NEW b \in br', NEW e \in Executing', Control(e) PROVE FALSE
    OBVIOUS
  <2>1. PICK r \in Executing : r.ins.branch /\ r.order \in wb
    BY <1>7
  <2>2. Control(r)
    BY <2>1 DEF Control
  <2> QED
    BY <1>6, <1>12, <2>1, <2>2
<1>16. \A b, c \in br' : b = c
  <2> SUFFICES ASSUME NEW b \in br', NEW c \in br' PROVE b.order = c.order
    BY <1>7
  <2>1. PICK d \in Executing : d.ins.branch /\ b.order = d.order
    BY <1>7
  <2>2. PICK e \in Executing : e.ins.branch /\ c.order = e.order
    BY <1>7
  <2> QED
    BY <1>6, <2>1, <2>2 DEF Control
<1>17. recovering' => br' = {} /\ \A e \in Executing' : ~Control(e)
  <2>1. CASE recovering
    <3>1. \A e \in Executing : ~Control(e)
      BY <1>6, <2>1
    <3>2. br' = {}
      BY <1>7, <3>1 DEF Control
    <3>3. K = 0
      BY <1>5, <2>1
    <3> QED
      BY <1>12, <3>1, <3>2, <3>3
  <2>2. CASE f.valid
    <3>1. K = 0
      BY <1>5, <2>2
    <3>2. CASE irq /\ ~f.ordered
      <4>1. br' = {}
        BY <1>7, <2>2, <3>2 DEF Cancels
      <4>2. \A d \in Executing : MarkedBy(f, d)
        BY <2>2, <3>2 DEF MarkedBy, Executing, LiveEntries, Live
      <4> QED
        BY <1>12, <3>1, <4>1, <4>2
    <3>3. CASE /\ f.ordered
               /\ \E x \in Executing : x.ins.xret /\ x.order \in wb /\ f.order = x.order
      <4>1. PICK x \in Executing : x.ins.xret /\ x.order \in wb
        BY <3>3
      <4>2. Control(x)
        BY <4>1 DEF Control
      <4>3. \A e \in Executing' : ~Control(e)
        BY <1>6, <1>12, <3>1, <4>1, <4>2
      <4>4. br' = {}
        <5> SUFFICES ASSUME NEW b \in br' PROVE FALSE
          OBVIOUS
        <5>1. PICK r \in Executing : r.ins.branch
          BY <1>7
        <5>2. r.order = x.order
          BY <1>6, <4>2, <5>1 DEF Control
        <5>3. PICK i \in Indices : r = rob[i] /\ rob[i].valid
          BY ExecutingIs
        <5>4. PICK j \in Indices : x = rob[j] /\ rob[j].valid
          BY ExecutingIs
        <5>5. i = j
          BY <1>1, <5>2, <5>3, <5>4, OrdersDiffer
        <5>6. r.ins \in Instrs
          BY <1>1, <5>3 DEF RobTypeOK, Entries
        <5> QED
          BY <4>1, <5>1, <5>3, <5>4, <5>5, <5>6 DEF OrdinaryProgram
      <4> QED
        BY <4>3, <4>4
    <3>4. CASE f.order \in Mispredicted
      <4>1. br # {}
        BY <3>4 DEF Mispredicted
      <4>2. \A e \in Executing : ~Control(e)
        BY <1>6, <4>1
      <4>3. br' = {}
        BY <1>7, <4>2 DEF Control
      <4> QED
        BY <1>12, <3>1, <4>2, <4>3
    <3> QED
      BY <1>10, <2>2, <3>2, <3>3, <3>4
  <2> QED
    BY <1>9, <2>1, <2>2
<1> QED
  BY <1>14, <1>15, <1>16, <1>17 DEF OneRedirect, Mispredicted

-----------------------------------------------------------------------------
\* What a cycle does to the order ids, whatever flush it brings.
LEMMA StepMoves ==
  ASSUME RenameInv, NEW irq \in BOOLEAN, NEW wb, NEW s, NEW K, NEW rebuild,
         Step(irq, wb, s, K, rebuild), NEW f, f = FlushOf(irq, wb)
  PROVE  /\ f \in Flushes /\ HandsOver(f, Renamed(s), K)
         /\ RobCycle(f, wb, Renamed(s)) /\ ResolveBranch(f, wb)
         /\ Offer(f, s, K) /\ K \in 0 .. 2
         /\ orderId' = orderId + K /\ orderId \in Nat
         /\ f.valid \/ recovering => K = 0
         /\ retired' = retired \cup {e.order : e \in commit0'}
         /\ squashed' = squashed \cup {o \in Given : o \notin retired /\ Cancels(f, o)}
         /\ Given \subseteq Nat /\ \A o \in Given : o < orderId
         /\ Given' = Given \cup orderId .. orderId' - 1
         /\ \E G \in SUBSET Indices : Passes(f, wb, G) /\ Leaves(f, G)
<1>1. RingInv /\ RetireTypeOK /\ RobTypeOK /\ FreelistTypeOK /\ RMT!RmtTypeOK
  BY DEF RenameInv, HistoryInv, RingInv, RetireTypeOK
<1>2. f \in Flushes
  BY <1>1, FlushIsTyped
<1>3. BufferCycle(f, wb, Renamed(s), K) /\ Offer(f, s, K)
  BY DEF Step
<1>4. /\ HandsOver(f, Renamed(s), K) /\ RobCycle(f, wb, Renamed(s))
      /\ ResolveBranch(f, wb) /\ Record(f) /\ orderId' = orderId + K
      /\ K \in 0 .. 2
  BY <1>3 DEF BufferCycle, HandsOver
<1>5. orderId \in Nat
  BY <1>1, RetireAssumption DEF RetireTypeOK
<1>6. f.valid \/ recovering => K = 0
  BY <1>3 DEF Offer, RobFull
<1>7. CancelledBy(f) = {o \in Given : o \notin retired /\ Cancels(f, o)}
  BY DEF CancelledBy, Cancels, Given
<1>8. /\ Given \subseteq Nat /\ (\A o \in Given : o < orderId)
      /\ Given' = Given \cup orderId .. orderId' - 1
  <2>1. 0 .. orderId' - 1 = (0 .. orderId - 1) \cup (orderId .. orderId' - 1)
    BY <1>4, <1>5
  <2>2. Given' = 0 .. orderId' - 1
    BY DEF Given
  <2>3. \A o \in 0 .. orderId - 1 : o \in Nat /\ o < orderId
    BY <1>5
  <2> QED
    BY <2>1, <2>2, <2>3 DEF Given
<1>9. \E G \in SUBSET Indices : Passes(f, wb, G) /\ Leaves(f, G)
  BY <1>1, <1>2, <1>4, CyclePasses
<1> QED
  BY <1>2, <1>3, <1>4, <1>5, <1>6, <1>7, <1>8, <1>9 DEF Record

LEMMA RetiredAfter ==
  ASSUME RenameInv, RetiredIsOld, NEW irq \in BOOLEAN, NEW wb,
         NEW s, NEW K, NEW rebuild, Step(irq, wb, s, K, rebuild)
  PROVE  RetiredIsOld'
<1> DEFINE f == FlushOf(irq, wb)
<1>1. /\ ResolveBranch(f, wb)
      /\ retired' = retired \cup {e.order : e \in commit0'}
      /\ squashed' = squashed \cup {o \in Given : o \notin retired /\ Cancels(f, o)}
      /\ (\A o \in Given : o < orderId) /\ Given \subseteq Nat /\ orderId \in Nat
      /\ \E G \in SUBSET Indices : Passes(f, wb, G) /\ Leaves(f, G)
  BY StepMoves
<1> HIDE DEF f
<1>2. PICK G \in SUBSET Indices : Passes(f, wb, G) /\ Leaves(f, G)
  BY <1>1
<1>3. /\ RingInv /\ retired \subseteq Given /\ LiveIsOpen
      /\ \A i \in Indices : rob[i].order \in Nat /\ (rob[i].valid => rob[i].order < orderId)
  BY DEF RenameInv, HistoryInv, History, HistoryIsPast, RingInv, OrdersGrow,
         RetireTypeOK, RobTypeOK, Entries
<1>4. \A q \in retired' : \/ q \in retired
                          \/ \E j \in G : rob[j].valid /\ rob[j].order = q /\ Oldest(j)
  BY <1>1, <1>2 DEF Leaves, Live
<1>5. ASSUME NEW q \in retired', NEW i \in Indices, rob'[i].valid
      PROVE  q < rob'[i].order
  <2>1. CASE rob[i].valid /\ i \notin G
    <3>1. rob'[i].order = rob[i].order
      BY <1>2, <2>1 DEF Passes
    <3>2. CASE q \in retired
      BY <2>1, <3>1, <3>2 DEF RetiredIsOld
    <3>3. CASE \E j \in G : rob[j].valid /\ rob[j].order = q /\ Oldest(j)
      <4>1. PICK j \in G : rob[j].valid /\ rob[j].order = q /\ Oldest(j)
        BY <3>3
      <4>2. q <= rob[i].order
        BY <2>1, <4>1 DEF Oldest
      <4>3. q # rob[i].order
        BY <1>3, <2>1, <4>1, OrdersDiffer
      <4> QED
        BY <1>3, <3>1, <4>1, <4>2, <4>3
    <3> QED
      BY <1>4, <3>2, <3>3
  <2>2. CASE rob'[i].order \in orderId .. orderId' - 1
    <3>1. q \in Nat /\ q < orderId
      BY <1>1, <1>3, <1>4
    <3>2. rob'[i].order \in Int /\ rob'[i].order >= orderId
      BY <2>2
    <3> QED
      BY <1>1, <3>1, <3>2
  <2> QED
    BY <1>2, <1>5, <2>1, <2>2 DEF Passes
<1>6. ASSUME NEW b \in br'
      PROVE  (\A q \in retired' : q <= b.order) /\ b.order \notin squashed'
  <2>1. PICK e \in Executing : b.order = e.order /\ ~Cancels(f, e.order)
    BY <1>1, <1>6, ResolvedAfter
  <2>2. PICK i \in Indices : e = rob[i] /\ rob[i].valid /\ ~rob[i].flushed
    BY ExecutingIs
  <2>3. b.order \notin squashed
    BY <1>3, <2>1, <2>2 DEF LiveIsOpen, Live
  <2>4. ASSUME NEW q \in retired' PROVE q <= b.order
    <3>1. CASE q \in retired
      <4>1. q < rob[i].order /\ q \in Nat /\ rob[i].order \in Nat
        BY <1>1, <1>3, <2>2, <3>1 DEF RetiredIsOld
      <4> QED
        BY <2>1, <2>2, <4>1
    <3>2. CASE \E j \in G : rob[j].valid /\ rob[j].order = q /\ Oldest(j)
      BY <2>1, <2>2, <3>2 DEF Oldest
    <3> QED
      BY <1>4, <3>1, <3>2
  <2> QED
    BY <1>1, <2>1, <2>3, <2>4
<1> QED
  BY <1>5, <1>6 DEF RetiredIsOld

\* The recovery port shows the youngest entry, of which a walk lets go; all
\* that is younger has been cancelled, as it is neither retired nor live.
LEMMA UndoAfter ==
  ASSUME RenameInv, RetiredIsOld, NEW irq \in BOOLEAN, NEW wb,
         NEW s, NEW K, NEW rebuild, Step(irq, wb, s, K, rebuild)
  PROVE  UndoIsYoungest'
<1> DEFINE f == FlushOf(irq, wb)
<1>1. /\ RobCycle(f, wb, Renamed(s))
      /\ squashed \subseteq squashed'
      /\ recovering => K = 0
      /\ orderId' = orderId + K /\ orderId \in Nat
      /\ Given \subseteq Nat
      /\ Given' = Given \cup orderId .. orderId' - 1
      /\ \E G \in SUBSET Indices : Passes(f, wb, G) /\ Leaves(f, G)
  BY StepMoves
<1> HIDE DEF f
<1>2. PICK G \in SUBSET Indices : Passes(f, wb, G) /\ Leaves(f, G)
  BY <1>1
<1>3. /\ RingInv /\ LiveIsOpen /\ MarkedIsSquashed /\ EveryOneAccounted
      /\ \A i \in Indices : rob[i].order \in Nat
  BY DEF RenameInv, HistoryInv, History, RingInv, RetireTypeOK, RobTypeOK, Entries
<1>4. recoverOut' # {} => recovering /\ recovering'
  <2>1. WalkUndo(f, wb) => recovering /\ recovering'
    <3> SUFFICES ASSUME WalkUndo(f, wb) PROVE recovering /\ recovering'
      OBVIOUS
    <3>1. recovering /\ recovering' = recovering
      BY DEF WalkUndo
    <3> QED
      BY <3>1
  <2>2. WalkHold(f, wb) \/ WalkEnd(f, wb) => recoverOut' = {}
    BY DEF WalkHold, WalkEnd
  <2>3. RunCycle(f, wb, Renamed(s)) => recoverOut' = {}
    BY DEF RunCycle
  <2> QED
    BY <1>1, <2>1, <2>2, <2>3 DEF RobCycle
<1>5. ASSUME NEW e \in recoverOut'
      PROVE  /\ e.order \in squashed'
             /\ \A i \in Indices : rob'[i].valid => rob'[i].order < e.order
             /\ \A q \in Given' : q > e.order => q \in squashed'
  <2>1. PICK j \in G : e = rob[j] /\ rob[j].valid /\ rob[j].flushed /\ Youngest(j)
    BY <1>2 DEF Leaves
  <2>2. K = 0 /\ orderId .. orderId' - 1 = {}
    BY <1>1, <1>4
  <2>3. e.order \in squashed'
    BY <1>1, <1>3, <2>1 DEF MarkedIsSquashed
  <2>4. ASSUME NEW i \in Indices, rob'[i].valid PROVE rob'[i].order < e.order
    <3>1. rob[i].valid /\ i \notin G
      BY <1>2, <2>2, <2>4 DEF Passes
    <3>2. rob'[i].order = rob[i].order
      BY <1>2, <3>1 DEF Passes
    <3>3. rob[i].order # rob[j].order
      BY <1>3, <2>1, <3>1, OrdersDiffer
    <3>4. rob[i].order <= rob[j].order
      BY <2>1, <3>1 DEF Youngest
    <3> QED
      BY <1>3, <2>1, <3>2, <3>3, <3>4
  <2>5. ASSUME NEW q \in Given', q > e.order PROVE q \in squashed'
    <3>1. q \in Given /\ q \in Nat
      BY <1>1, <2>2
    <3>2. q \notin retired
      <4>1. q \in retired => q < rob[j].order
        BY <2>1 DEF RetiredIsOld
      <4> QED
        BY <1>3, <2>1, <2>5, <3>1, <4>1
    <3>3. ASSUME NEW i \in Indices, Live(rob[i]), rob[i].order = q PROVE FALSE
      <4>1. q <= rob[j].order
        BY <2>1, <3>3 DEF Youngest, Live
      <4> QED
        BY <1>3, <2>1, <2>5, <3>1, <4>1
    <3> QED
      BY <1>1, <1>3, <3>1, <3>2, <3>3 DEF EveryOneAccounted
  <2> QED
    BY <2>3, <2>4, <2>5
<1> QED
  BY <1>4, <1>5 DEF UndoIsYoungest

\* The log grows by what dispatch takes and keeps the rest.
LEMMA LogAfter ==
  ASSUME RenameInv, NEW irq \in BOOLEAN, NEW wb,
         NEW s, NEW K, NEW rebuild, Step(irq, wb, s, K, rebuild)
  PROVE  /\ \A o \in Given : log'[o + 1] = log[o + 1]
         /\ \A n \in 1 .. K : /\ log'[orderId + n - 1 + 1].ins = s[n]
                              /\ log'[orderId + n - 1 + 1].prd = Renamed(s)[n].prdNew
<1> DEFINE f == FlushOf(irq, wb)
           new == [n \in DOMAIN s |-> [ins |-> s[n], prd |-> Renamed(s)[n].prdNew]]
<1>1. /\ orderId \in Nat /\ Given \subseteq Nat /\ Offer(f, s, K)
      /\ \A o \in Given : o < orderId
  BY StepMoves
<1>2. K \in 0 .. 2 /\ s \in [1 .. K -> Instrs]
  BY <1>1 DEF Offer
<1>3. RetireTypeOK /\ FreelistTypeOK /\ RMT!RmtTypeOK
  BY DEF RenameInv, HistoryInv, RingInv
<1>4. \A n \in 1 .. K : Renamed(s)[n].prdNew \in Phys
  <2> HIDE DEF f
  <2> QED
    BY <1>1, <1>3, RenamedIsHandedOver
<1>5. new \in [1 .. K -> [ins : Instrs, prd : Phys]]
  BY <1>2, <1>4
<1>6. new \in Seq([ins : Instrs, prd : Phys])
  BY <1>2, <1>5, SeqDef
<1>7. Len(new) = K
  <2>1. DOMAIN new = 1 .. K
    BY <1>5
  <2> HIDE DEF new
  <2> QED
    BY <1>2, <1>6, <2>1, LenProperties
<1>8. \A n \in 1 .. K : new[n].ins = s[n] /\ new[n].prd = Renamed(s)[n].prdNew
  BY <1>2
<1>9. log' = log \o new
  BY DEF Step
<1>10. log \in Seq([ins : Instrs, prd : Phys]) /\ Len(log) = orderId
  BY DEF RenameInv, LogTyped
<1> HIDE DEF new, f
<1>11. \A k \in 1 .. orderId + K :
         log'[k] = IF k <= orderId THEN log[k] ELSE new[k - orderId]
  BY <1>6, <1>7, <1>9, <1>10, ConcatProperties
<1>12. ASSUME NEW o \in Given PROVE log'[o + 1] = log[o + 1]
  <2>1. o + 1 \in 1 .. orderId + K /\ o + 1 <= orderId
    BY <1>1, <1>2
  <2> QED
    BY <1>11, <2>1
<1>13. ASSUME NEW n \in 1 .. K PROVE log'[orderId + n - 1 + 1] = new[n]
  <2> DEFINE k == orderId + n - 1 + 1
  <2>1. k \in 1 .. orderId + K /\ ~(k <= orderId) /\ k - orderId = n
    BY <1>1, <1>2
  <2>2. log'[k] = log'[orderId + n - 1 + 1]
    OBVIOUS
  <2> HIDE DEF k
  <2>3. log'[k] = new[k - orderId]
    BY <1>11, <2>1
  <2> QED
    BY <2>1, <2>2, <2>3
<1> QED
  BY <1>8, <1>12, <1>13

LEMMA LoggedAfter ==
  ASSUME RenameInv, EntriesLogged, NEW irq \in BOOLEAN, NEW wb,
         NEW s, NEW K, NEW rebuild, Step(irq, wb, s, K, rebuild)
  PROVE  EntriesLogged'
<1> DEFINE f == FlushOf(irq, wb)
<1>1. /\ f \in Flushes /\ HandsOver(f, Renamed(s), K) /\ RobCycle(f, wb, Renamed(s))
      /\ Offer(f, s, K) /\ orderId \in Nat
      /\ \E G \in SUBSET Indices : Passes(f, wb, G) /\ Leaves(f, G)
  BY StepMoves
<1>2. /\ RingInv /\ RetireTypeOK /\ FreelistTypeOK /\ RMT!RmtTypeOK
      /\ \A i \in Indices : rob[i].valid => rob[i].order \in Given
  BY RetireAssumption
     DEF RenameInv, HistoryInv, RingInv, RetireTypeOK, RobTypeOK, OrdersGrow, Entries, Given
<1> HIDE DEF f
<1>3. \A o \in Given : log'[o + 1] = log[o + 1]
  BY LogAfter
<1>4. \A n \in 1 .. K : /\ log'[orderId + n - 1 + 1].ins = s[n]
                        /\ log'[orderId + n - 1 + 1].prd = Renamed(s)[n].prdNew
  BY LogAfter
<1>5. \A n \in 1 .. K : Renamed(s)[n].order = orderId + n - 1 /\ Renamed(s)[n].ins = s[n]
  BY <1>1, <1>2, RenamedIsHandedOver
<1>6. ASSUME NEW i \in Indices, rob[i].valid
      PROVE  /\ log'[rob[i].order + 1].ins = rob[i].ins
             /\ log'[rob[i].order + 1].prd = rob[i].prdNew
  BY <1>2, <1>3, <1>6 DEF EntriesLogged, Logged
<1>7. ASSUME NEW i \in Indices, rob'[i].valid
      PROVE  /\ log'[rob'[i].order + 1].ins = rob'[i].ins
             /\ log'[rob'[i].order + 1].prd = rob'[i].prdNew
  <2>1. CASE rob[i].valid /\ Keeps(rob[i], rob'[i])
    BY <1>6, <2>1 DEF Keeps
  <2>2. CASE \E n \in 1 .. K : Keeps(Renamed(s)[n], rob'[i])
    <3>1. PICK n \in 1 .. K : Keeps(Renamed(s)[n], rob'[i])
      BY <2>2
    <3>2. /\ rob'[i].order = orderId + n - 1 /\ rob'[i].ins = s[n]
          /\ rob'[i].prdNew = Renamed(s)[n].prdNew
      BY <1>5, <3>1 DEF Keeps
    <3> QED
      BY <1>4, <3>2
  <2> QED
    BY <1>1, <1>2, <1>7, <2>1, <2>2, EntriesAfter
<1>8. ASSUME NEW e \in recoverOut'
      PROVE  log'[e.order + 1].ins = e.ins /\ log'[e.order + 1].prd = e.prdNew
  <2>1. PICK i \in Indices : e = rob[i] /\ rob[i].valid
    BY <1>1 DEF Leaves
  <2> QED
    BY <1>6, <2>1
<1> QED
  BY <1>7, <1>8 DEF EntriesLogged, Logged

-----------------------------------------------------------------------------
\* What the map stands for in a state, and after a cycle.
LEMMA VisibleNow ==
  ASSUME RenameInv, UndoIsYoungest
  PROVE  /\ Visible \subseteq Given /\ Given \subseteq Nat
         /\ (\A o \in Given : o < orderId) /\ orderId \in Nat
         /\ squashed \subseteq Given /\ retired \subseteq Given
         /\ \A i \in Indices : rob[i].valid => rob[i].order \in Given
         /\ ~recovering => recoverOut = {}
         /\ ~recovering \/ ckptRecover => Visible = Given \ squashed
<1>1. /\ orderId \in Nat /\ squashed \subseteq Given /\ retired \subseteq Given
      /\ \A i \in Indices : rob[i].valid => rob[i].order \in Given
  BY RetireAssumption
     DEF RenameInv, HistoryInv, RingInv, RetireTypeOK, RobTypeOK, OrdersGrow, Entries,
         Given, History, HistoryIsPast
<1>2. Given \subseteq Nat /\ \A o \in Given : o < orderId
  BY <1>1 DEF Given
<1>3. InRing \subseteq Given
  BY <1>1 DEF InRing
<1>4. Undoing \subseteq Given
  BY <1>1 DEF Undoing, UndoIsYoungest
<1>5. Visible \subseteq Given
  BY <1>3, <1>4 DEF Visible
<1>6. ~recovering => recoverOut = {}
  BY DEF UndoIsYoungest
<1>7. CASE ckptRecover
  BY <1>1, <1>2, <1>5, <1>6, <1>7 DEF Visible
<1>8. CASE ~recovering
  <2>1. InRing \subseteq Given \ squashed
    <3>1. \A i \in Indices : rob[i].valid => Live(rob[i])
      BY <1>8 DEF RenameInv, HistoryInv, RingInv, NoMarkLeft, Live
    <3>2. \A i \in Indices : rob[i].valid => rob[i].order \notin squashed
      BY <3>1 DEF RenameInv, HistoryInv, History, LiveIsOpen
    <3> QED
      BY <1>1, <3>2 DEF InRing
  <2>2. Undoing = {}
    BY <1>6, <1>8 DEF Undoing
  <2>3. Visible = Given \ squashed
    BY <2>1, <2>2 DEF Visible
  <2> QED
    BY <1>1, <1>2, <1>5, <1>6, <2>3
<1> QED
  BY <1>1, <1>2, <1>5, <1>6, <1>7, <1>8

\* A restore follows the flush of its mispredicted branch.
LEMMA RestoreFollows ==
  ASSUME NEW irq, NEW wb, RestoreOrder(irq, wb) # NoOrder
  PROVE  /\ RestoreOrder(irq, wb) \in Mispredicted
         /\ FlushOf(irq, wb).valid /\ FlushOf(irq, wb).ordered
         /\ FlushOf(irq, wb).order = RestoreOrder(irq, wb)
<1>1. /\ Mispredicted # {} /\ ~ExceptionNow /\ ~irq /\ XretNow(wb) = {}
      /\ RestoreOrder(irq, wb) = CHOOSE o \in Mispredicted : TRUE
  BY DEF RestoreOrder
<1>2. FlushOf(irq, wb) = [valid |-> TRUE, ordered |-> TRUE,
                          order |-> CHOOSE o \in Mispredicted : TRUE]
  BY <1>1 DEF FlushOf
<1>3. (CHOOSE o \in Mispredicted : TRUE) \in Mispredicted
  BY <1>1
<1> QED
  BY <1>1, <1>2, <1>3

\* With a restore the map stands for the instructions up to its branch, in a
\* walk it loses the one handed over unless an image cuts it short, and
\* otherwise it gains what dispatch takes.
Restored(restore, K) ==
  /\ RestoreHits(restore) /\ K = 0
  /\ Visible' = {o \in Visible : o <= restore}

Dispatching(restore, K) ==
  /\ ~RestoreHits(restore) /\ recoverOut = {}
  /\ Visible' = Visible \cup orderId .. orderId' - 1

Skipping(restore, K) ==
  /\ ~RestoreHits(restore) /\ ckptRecover /\ K = 0
  /\ Visible' = Visible

Walking(restore, K) ==
  /\ ~RestoreHits(restore) /\ ~ckptRecover /\ K = 0
  /\ Visible' = Visible \ Undoing

LEMMA VisibleAfter ==
  ASSUME OrdinaryProgram, RenameInv, OneRedirect, RetiredIsOld, UndoIsYoungest,
         NEW irq \in BOOLEAN, NEW wb, NEW s, NEW K, NEW rebuild,
         Step(irq, wb, s, K, rebuild), NEW restore, restore = RestoreOrder(irq, wb)
  PROVE  \/ Restored(restore, K)
         \/ ~recovering /\ Dispatching(restore, K)
         \/ recovering /\ Skipping(restore, K)
         \/ recovering /\ Walking(restore, K)
<1> DEFINE f == FlushOf(irq, wb)
<1>1. /\ RobCycle(f, wb, Renamed(s)) /\ orderId' = orderId + K
      /\ f.valid \/ recovering => K = 0
      /\ retired' = retired \cup {e.order : e \in commit0'}
      /\ squashed' = squashed \cup {o \in Given : o \notin retired /\ Cancels(f, o)}
      /\ Given' = Given \cup orderId .. orderId' - 1
      /\ \E G \in SUBSET Indices : Passes(f, wb, G) /\ Leaves(f, G)
  BY StepMoves
<1>2. /\ Visible \subseteq Given /\ Given \subseteq Nat
      /\ (\A o \in Given : o < orderId) /\ orderId \in Nat
      /\ squashed \subseteq Given /\ retired \subseteq Given
      /\ \A i \in Indices : rob[i].valid => rob[i].order \in Given
      /\ ~recovering => recoverOut = {}
      /\ ~recovering \/ ckptRecover => Visible = Given \ squashed
  BY VisibleNow
<1>3. /\ recovering => Mispredicted = {} /\ ~f.valid
      /\ restore # NoOrder =>
           /\ restore \in Mispredicted /\ f.valid /\ f.ordered /\ f.order = restore
  <2>1. RobTypeOK
    BY DEF RenameInv, HistoryInv, RingInv, RetireTypeOK
  <2>2. irq => InterruptReady(wb)
    BY DEF Step
  <2> QED
    BY <2>1, <2>2, WalkRunsAlone, RestoreFollows
<1>4. ckptRecover' = IF restore # NoOrder THEN RestoreHits(restore)
                     ELSE ckptRecover /\ recovering
  BY DEF Step
<1>5. recovering => restore = NoOrder
  BY <1>3
<1>6. RestoreHits(restore) => restore # NoOrder
  BY DEF RestoreHits
<1> HIDE DEF f
<1>7. PICK G \in SUBSET Indices : Passes(f, wb, G) /\ Leaves(f, G)
  BY <1>1
<1>8. K = 0 => orderId .. orderId' - 1 = {} /\ Given' = Given
  BY <1>1, <1>2
<1>9. /\ LiveIsOpen /\ MarkedIsSquashed /\ EveryOneAccounted
      /\ ~recovering => \A i \in Indices : rob[i].valid => ~rob[i].flushed
      /\ \A i \in Indices : rob[i].order \in Nat
  BY DEF RenameInv, HistoryInv, History, RingInv, NoMarkLeft, RetireTypeOK, RobTypeOK,
         Entries
\* After an image nothing cancelled stays.
<1>10. ASSUME RestoreHits(restore) PROVE Restored(restore, K)
  <2>1. /\ restore \in Mispredicted /\ f.valid /\ f.ordered /\ f.order = restore
        /\ K = 0 /\ ~recovering
    BY <1>1, <1>3, <1>5, <1>6, <1>10
  <2>2. ckptRecover'
    BY <1>4, <1>6, <1>10
  <2>3. Visible' = Given \ squashed'
    BY <1>8, <2>1, <2>2 DEF Visible
  <2>4. \A q \in retired : q <= restore
    BY <2>1 DEF Mispredicted, RetiredIsOld
  <2>5. restore \in Nat
    BY <2>1, RetireAssumption
       DEF RenameInv, HistoryInv, RingInv, RetireTypeOK, Mispredicted, Orders
  <2>6. \A o \in Given : o \notin retired /\ Cancels(f, o) <=> ~(o <= restore)
    <3>1. \A o \in Given : Cancels(f, o) <=> o > restore
      BY <2>1 DEF Cancels
    <3>2. \A o \in Given : o > restore <=> ~(o <= restore)
      BY <1>2, <2>5
    <3> QED
      BY <2>4, <3>1, <3>2
  <2>7. Visible = Given \ squashed
    BY <1>2, <2>1
  <2>8. Visible' = {o \in Visible : o <= restore}
    BY <1>1, <2>3, <2>6, <2>7
  <2> QED
    BY <1>10, <2>1, <2>8 DEF Restored
\* Outside a walk what a flush cancels stays in the ring for the walk to come.
<1>11. ASSUME ~recovering, ~RestoreHits(restore) PROVE Dispatching(restore, K)
  <2>1. ~ckptRecover'
    BY <1>4, <1>11
  <2>2. recoverOut' = {}
    <3>1. RunCycle(f, wb, Renamed(s))
      BY <1>1, <1>11 DEF RobCycle, WalkUndo, WalkHold, WalkEnd
    <3> QED
      BY <3>1 DEF RunCycle
  <2>3. Visible = Given \ squashed
    BY <1>2, <1>11
  <2>4. Visible' = (Given' \ squashed') \cup InRing'
    BY <2>1, <2>2 DEF Visible, Undoing
  <2>5. \A o \in InRing' : o \in Visible \/ o \in orderId .. orderId' - 1
    <3> SUFFICES ASSUME NEW i \in Indices, rob'[i].valid
                 PROVE  rob'[i].order \in Visible \/ rob'[i].order \in orderId .. orderId' - 1
      BY DEF InRing
    <3>1. CASE rob[i].valid /\ i \notin G
      <4>1. rob'[i].order = rob[i].order
        BY <1>7, <3>1 DEF Passes
      <4>2. rob[i].order \in Given \ squashed
        BY <1>2, <1>9, <1>11, <3>1 DEF LiveIsOpen, Live
      <4> QED
        BY <2>3, <4>1, <4>2
    <3> QED
      BY <1>7, <3>1 DEF Passes
  <2>6. \A o \in Given' \ squashed' : o \in Visible \/ o \in orderId .. orderId' - 1
    BY <1>1, <2>3
  <2>7. \A o \in orderId .. orderId' - 1 : o \in Given' \ squashed'
    <3>1. \A o \in orderId .. orderId' - 1 : o \notin Given
      BY <1>2
    <3> QED
      BY <1>1, <1>2, <3>1
  <2>8. ASSUME NEW o \in Visible PROVE o \in (Given' \ squashed') \cup InRing'
    <3>1. o \in Given /\ o \notin squashed /\ o \in Given'
      BY <1>1, <2>3
    <3>2. CASE o \notin retired /\ Cancels(f, o)
      <4>1. PICK i \in Indices : Live(rob[i]) /\ rob[i].order = o
        BY <1>9, <3>1, <3>2 DEF EveryOneAccounted
      <4>2. i \notin G
        BY <1>7, <3>2, <4>1 DEF Leaves
      <4>3. rob'[i].valid /\ rob'[i].order = o
        BY <1>7, <4>1, <4>2 DEF Passes, Live
      <4> QED
        BY <4>3 DEF InRing
    <3> QED
      BY <1>1, <3>1, <3>2
  <2>9. Visible' = Visible \cup orderId .. orderId' - 1
    BY <2>4, <2>5, <2>6, <2>7, <2>8
  <2>10. recoverOut = {}
    BY <1>2, <1>11
  <2> QED
    BY <1>11, <2>9, <2>10 DEF Dispatching
\* In a walk no flush cancels anything.
<1>12. ASSUME recovering
       PROVE  /\ ~RestoreHits(restore) /\ K = 0 /\ squashed' = squashed /\ Given' = Given
              /\ ckptRecover' <=> ckptRecover
  <2>1. ~f.valid /\ K = 0
    BY <1>1, <1>3, <1>12
  <2>2. squashed' = squashed
    BY <1>1, <2>1 DEF Cancels
  <2>3. ckptRecover' <=> ckptRecover
    BY <1>4, <1>5, <1>12
  <2> QED
    BY <1>5, <1>6, <1>8, <1>12, <2>1, <2>2, <2>3
<1>13. ASSUME recovering, ckptRecover PROVE Skipping(restore, K)
  <2>1. Visible' = Given' \ squashed' /\ Visible = Given \ squashed
    BY <1>2, <1>12, <1>13 DEF Visible
  <2> QED
    BY <1>12, <1>13, <2>1 DEF Skipping
<1>14. ASSUME recovering, ~ckptRecover PROVE Walking(restore, K)
  <2>1. /\ Visible = (Given \ squashed) \cup InRing \cup Undoing
        /\ Visible' = (Given \ squashed) \cup InRing' \cup Undoing'
    BY <1>12, <1>14 DEF Visible
  <2>2. InRing' \subseteq InRing
    <3>1. orderId .. orderId' - 1 = {}
      BY <1>8, <1>12, <1>14
    <3>2. \A i \in Indices : rob'[i].valid =>
            rob[i].valid /\ i \notin G /\ rob'[i].order = rob[i].order
      BY <1>7, <3>1 DEF Passes
    <3> QED
      BY <3>2 DEF InRing
  <2>3. Undoing' \subseteq InRing
    BY <1>7 DEF Undoing, InRing, Leaves
  <2>4. \A o \in InRing : o \in (Given \ squashed) \cup InRing' \cup Undoing'
    <3> SUFFICES ASSUME NEW i \in Indices, rob[i].valid
                 PROVE  rob[i].order \in (Given \ squashed) \cup InRing' \cup Undoing'
      BY DEF InRing
    <3>1. CASE i \notin G
      <4>1. rob'[i].valid /\ rob'[i].order = rob[i].order
        BY <1>7, <3>1 DEF Passes
      <4> QED
        BY <4>1 DEF InRing
    <3>2. CASE Live(rob[i])
      BY <1>2, <1>9, <3>2 DEF LiveIsOpen
    <3>3. CASE i \in G /\ ~Live(rob[i])
      <4>1. recoverOut' = {rob[i]}
        BY <1>7, <3>3 DEF Leaves
      <4> QED
        BY <4>1 DEF Undoing
    <3> QED
      BY <3>1, <3>2, <3>3
  <2>5. \A o \in Undoing : o \notin InRing /\ o \in squashed
    <3> SUFFICES ASSUME NEW e \in recoverOut
                 PROVE  e.order \notin InRing /\ e.order \in squashed
      BY DEF Undoing
    <3>1. \A i \in Indices : rob[i].valid => rob[i].order < e.order
      BY DEF UndoIsYoungest
    <3>2. \A i \in Indices : rob[i].valid => rob[i].order # e.order
      BY <1>9, <3>1
    <3>3. e.order \notin InRing
      BY <3>2 DEF InRing
    <3> QED
      BY <3>3 DEF UndoIsYoungest
  <2>6. Visible' = Visible \ Undoing
    BY <2>1, <2>2, <2>3, <2>4, <2>5
  <2> QED
    BY <1>12, <1>14, <2>6 DEF Walking
<1> QED
  BY <1>10, <1>11, <1>13, <1>14

-----------------------------------------------------------------------------
\* The map and its images after a cycle.
LEMMA TableAfter ==
  ASSUME RenameInv, ~ExceptionNow, NEW irq, NEW wb, NEW s, NEW K, NEW rebuild,
         Step(irq, wb, s, K, rebuild), NEW restore, restore = RestoreOrder(irq, wb)
  PROVE  /\ RestoreHits(restore) => mapTable' = rmtCkpt[RMT!RmtSlot(restore)].map
         /\ ~RestoreHits(restore) /\ Undone(restore) = {} =>
              mapTable' = RMT!MapAfter(Allocs(s), Len(Allocs(s)))
         /\ ~RestoreHits(restore) => \A e \in Undone(restore), a \in RMT!ArchRegs :
              mapTable'[a] = IF e.ins.rd = a /\ a # 0 THEN e.prdOld ELSE mapTable[a]
<1> DEFINE U == Undone(restore)
           back == {[rd |-> e.ins.rd, prd |-> e.prdOld] : e \in U}
           in == [restore |-> restore, drop |-> DropOrder, recover |-> back,
                  allocs |-> Allocs(s), caps |-> CapturesOf(s)]
<1>1. RMT!RmtCycle(in)
  BY DEF Step
<1>2. /\ in.restore = restore /\ in.allocs = Allocs(s) /\ in.recover = back
  OBVIOUS
<1>3. in.restore # -1 /\ RMT!RmtHit(in.restore) <=> RestoreHits(restore)
  BY DEF RestoreHits, NoOrder
<1>4. \A d, e \in U : d = e
  BY DEF RenameInv, PortsTakeTurns, Undone
<1>5. back = {} <=> U = {}
  OBVIOUS
<1> HIDE DEF in
<1>6. mapTable' = RMT!NextMap(in)
  BY <1>1 DEF RMT!RmtCycle
<1>7. CASE RestoreHits(restore)
  BY <1>2, <1>3, <1>6, <1>7 DEF RMT!NextMap
<1>8. CASE ~RestoreHits(restore) /\ U = {}
  BY <1>2, <1>3, <1>5, <1>6, <1>8 DEF RMT!NextMap
<1>9. CASE ~RestoreHits(restore) /\ U # {}
  <2>1. mapTable' = [a \in RMT!ArchRegs |->
          IF \E r \in in.recover : r.rd = a /\ a # 0
          THEN (CHOOSE r \in in.recover : r.rd = a).prd
          ELSE mapTable[a]]
    BY <1>2, <1>3, <1>5, <1>6, <1>9 DEF RMT!NextMap
  <2>2. ASSUME NEW e \in U, NEW a \in RMT!ArchRegs
        PROVE  mapTable'[a] = IF e.ins.rd = a /\ a # 0 THEN e.prdOld ELSE mapTable[a]
    <3> DEFINE r0 == [rd |-> e.ins.rd, prd |-> e.prdOld]
    <3>1. back = {r0}
      BY <1>4
    <3>2. in.recover = {r0} /\ r0.rd = e.ins.rd /\ r0.prd = e.prdOld
      BY <1>2, <3>1
    <3> HIDE DEF r0, back, U
    <3>3. CASE e.ins.rd = a /\ a # 0
      <4>1. \E r \in in.recover : r.rd = a /\ a # 0
        BY <3>2, <3>3
      <4>2. (CHOOSE r \in in.recover : r.rd = a) = r0
        BY <3>2, <3>3
      <4> QED
        BY <2>1, <3>2, <3>3, <4>1, <4>2
    <3>4. CASE ~(e.ins.rd = a /\ a # 0)
      <4>1. ~(\E r \in in.recover : r.rd = a /\ a # 0)
        BY <3>2, <3>4
      <4> QED
        BY <2>1, <3>4, <4>1
    <3> QED
      BY <3>3, <3>4
  <2> QED
    BY <1>9, <2>2
<1> QED
  BY <1>7, <1>8, <1>9

\* A slot holds the image of a branch dispatched in the cycle, what it held
\* before unless a restore reaches behind its branch, or nothing.
LEMMA ImageAfter ==
  ASSUME RenameInv, NEW irq, NEW wb, NEW s, NEW K, NEW rebuild,
         Step(irq, wb, s, K, rebuild), NEW restore, restore = RestoreOrder(irq, wb),
         NEW t \in Slots, rmtCkpt'[t].valid
  PROVE  \/ \E n \in 1 .. K :
              /\ rmtCkpt'[t].order = orderId + n - 1
              /\ rmtCkpt'[t].map = RMT!MapAfter(Allocs(s), AllocsUpTo(s, n))
         \/ /\ rmtCkpt'[t] = rmtCkpt[t]
            /\ RestoreHits(restore) => ~(rmtCkpt[t].order >= restore)
<1> DEFINE back == {[rd |-> e.ins.rd, prd |-> e.prdOld] : e \in Undone(restore)}
           in == [restore |-> restore, drop |-> DropOrder, recover |-> back,
                  allocs |-> Allocs(s), caps |-> CapturesOf(s)]
<1>1. RMT!RmtCycle(in) /\ K \in 0 .. 2 /\ s \in [1 .. K -> Instrs]
  BY DEF Step, Offer
<1>2. in.restore = restore /\ in.allocs = Allocs(s) /\ in.caps = CapturesOf(s)
  OBVIOUS
<1>3. in.restore # -1 /\ RMT!RmtHit(in.restore) <=> RestoreHits(restore)
  BY DEF RestoreHits, NoOrder
<1> HIDE DEF in
<1>4. CASE \E k \in DOMAIN in.caps :
             rmtCkpt'[t] = [valid |-> TRUE, order |-> in.caps[k].order,
                            map |-> RMT!MapAfter(in.allocs, in.caps[k].allocs)]
  <2>1. PICK k \in DOMAIN in.caps :
          rmtCkpt'[t] = [valid |-> TRUE, order |-> in.caps[k].order,
                         map |-> RMT!MapAfter(in.allocs, in.caps[k].allocs)]
    BY <1>4
  <2>2. k \in DOMAIN CapturesOf(s)
    BY <1>2
  <2>3. PICK n \in 1 .. K : /\ CapturesOf(s)[k].order = orderId + n - 1
                            /\ CapturesOf(s)[k].allocs = AllocsUpTo(s, n)
    BY <1>1, <2>2, CapturesAre
  <2> QED
    BY <1>2, <2>1, <2>3
<1>5. CASE rmtCkpt'[t] = RMT!RmtVacant
  BY <1>5 DEF RMT!RmtVacant
<1>6. CASE /\ rmtCkpt'[t] = rmtCkpt[t]
           /\ ~(in.restore # -1 /\ RMT!RmtHit(in.restore)
                /\ rmtCkpt[t].order >= in.restore)
  BY <1>2, <1>3, <1>6
<1> QED
  BY <1>1, <1>4, <1>5, <1>6, SlotAfter

\* The map the n-th port of dispatch leaves behind is that of all before the
\* cycle and of the first n of it.
LEMMA DispatchedMap ==
  ASSUME RenameInv, UndoIsYoungest, MapIsVisible, NEW irq \in BOOLEAN, NEW wb,
         NEW s, NEW K, NEW rebuild, Step(irq, wb, s, K, rebuild),
         NEW n \in 0 .. K, NEW a \in RMT!ArchRegs \ {0}
  PROVE  Names(log', Visible \cup orderId .. orderId + n - 1, a,
               RMT!MapAfter(Allocs(s), AllocsUpTo(s, n))[a])
<1> DEFINE M(m) == RMT!MapAfter(Allocs(s), AllocsUpTo(s, m))[a]
           V(m) == Visible \cup orderId .. orderId + m - 1
           P(m) == Names(log', V(m), a, M(m))
<1>1. /\ Visible \subseteq Given /\ Given \subseteq Nat /\ orderId \in Nat
      /\ \A o \in Given : o < orderId
  BY VisibleNow
<1>2. Offer(FlushOf(irq, wb), s, K)
  BY DEF Step
<1>3. K \in 0 .. 2 /\ s \in [1 .. K -> Instrs]
  BY <1>2 DEF Offer
<1>4. RetireTypeOK /\ FreelistTypeOK /\ RMT!RmtTypeOK
  BY DEF RenameInv, HistoryInv, RingInv
<1>5. /\ \A o \in Given : log'[o + 1] = log[o + 1]
      /\ \A m \in 1 .. K : /\ log'[orderId + m - 1 + 1].ins = s[m]
                           /\ log'[orderId + m - 1 + 1].prd = Renamed(s)[m].prdNew
  BY LogAfter
<1>6. \A m \in 1 .. K : Renamed(s)[m].prdNew = IF s[m].rd # 0 THEN PrdOf(s, m) ELSE 0
  BY <1>2, <1>4, RenamedIsHandedOver
<1>7. \A m \in 1 .. K, b \in RMT!ArchRegs :
         RMT!MapAfter(Allocs(s), AllocsUpTo(s, m))[b] =
           IF s[m].rd = b /\ b # 0 THEN PrdOf(s, m)
           ELSE RMT!MapAfter(Allocs(s), AllocsUpTo(s, m - 1))[b]
  <2> HIDE DEF M, V, P
  <2> SUFFICES ASSUME NEW m \in 1 .. K, NEW b \in RMT!ArchRegs
               PROVE  RMT!MapAfter(Allocs(s), AllocsUpTo(s, m))[b] =
                        IF s[m].rd = b /\ b # 0 THEN PrdOf(s, m)
                        ELSE RMT!MapAfter(Allocs(s), AllocsUpTo(s, m - 1))[b]
    OBVIOUS
  <2> QED
    BY <1>3, MapAfterPort
<1>8. P(0)
  <2>1. V(0) = Visible
    BY <1>1
  <2>2. M(0) = mapTable[a]
    BY <1>3, AllocsAre, MapAfterNone
  <2>3. Names(log, Visible, a, mapTable[a])
    BY DEF MapIsVisible
  <2>4. Visible \in SUBSET Nat /\ \A o \in Visible : log'[o + 1] = log[o + 1]
    BY <1>1, <1>5
  <2>5. Names(log', Visible, a, mapTable[a])
    BY <2>3, <2>4, NamesInLongerLog
  <2> HIDE DEF M, V
  <2> QED
    BY <2>1, <2>2, <2>5
<1>9. ASSUME NEW m \in 1 .. K, P(m - 1) PROVE P(m)
  <2> DEFINE o == orderId + m - 1
  <2>1. /\ V(m - 1) \in SUBSET Nat /\ o \in Nat
        /\ \A q \in V(m - 1) : q < o
        /\ V(m) = V(m - 1) \cup {o}
    <3>1. V(m - 1) = Visible \cup orderId .. o - 1 /\ V(m) = Visible \cup orderId .. o
      <4>1. orderId + (m - 1) - 1 = o - 1
        BY <1>1
      <4> QED
        BY <4>1
    <3>2. o \in Nat /\ o >= orderId
      BY <1>1
    <3> HIDE DEF o, V
    <3>3. orderId .. o = (orderId .. o - 1) \cup {o}
      BY <1>1, <3>2
    <3>4. \A q \in orderId .. o - 1 : q \in Nat /\ q < o
      BY <1>1, <3>2
    <3>5. \A q \in Visible : q \in Nat /\ q < o
      BY <1>1, <3>2
    <3> QED
      BY <3>1, <3>2, <3>3, <3>4, <3>5
  <2>2. M(m) = IF s[m].rd = a /\ a # 0 THEN PrdOf(s, m) ELSE M(m - 1)
    BY <1>7
  <2>3. log'[o + 1].ins = s[m] /\ log'[o + 1].prd = Renamed(s)[m].prdNew
    BY <1>5
  <2>4. Names(log', V(m - 1), a, M(m - 1))
    BY <1>9
  <2> HIDE DEF V, M, o
  <2>5. Names(log', V(m - 1) \cup {o}, a,
              IF log'[o + 1].ins.rd = a THEN log'[o + 1].prd ELSE M(m - 1))
    BY <2>1, <2>4, NamesWithYoungest
  <2>6. M(m) = IF log'[o + 1].ins.rd = a THEN log'[o + 1].prd ELSE M(m - 1)
    BY <1>6, <2>2, <2>3
  <2> QED
    BY <2>1, <2>5, <2>6
<1> HIDE DEF P
<1>10. P(n)
  <2>1. K >= 1 => P(1)
    <3>1. K >= 1 => 1 \in 1 .. K /\ 1 - 1 = 0
      BY <1>3
    <3> QED
      BY <1>8, <1>9, <3>1
  <2>2. K = 2 => P(2)
    <3>1. K = 2 => K >= 1 /\ 2 \in 1 .. K /\ 2 - 1 = 1
      OBVIOUS
    <3> QED
      BY <1>9, <2>1, <3>1
  <2>3. n = 0 \/ (n = 1 /\ K >= 1) \/ (n = 2 /\ K = 2)
    BY <1>3
  <2> QED
    BY <1>8, <2>1, <2>2, <2>3
<1> QED
  BY <1>10 DEF P

\* The map stays that of the instructions visible to it.
LEMMA VisibleMapAfter ==
  ASSUME OrdinaryProgram, MapInv, NEW irq \in BOOLEAN, NEW wb,
         NEW s, NEW K, NEW rebuild, Step(irq, wb, s, K, rebuild)
  PROVE  MapIsVisible'
<1> DEFINE restore == RestoreOrder(irq, wb)
<1>1. /\ RenameInv /\ OneRedirect /\ RetiredIsOld /\ UndoIsYoungest /\ EntriesLogged
      /\ MapIsVisible /\ OldIsVisible /\ ImagesAreVisible
  BY DEF MapInv
<1>2. /\ Visible \subseteq Given /\ Given \subseteq Nat /\ orderId \in Nat
      /\ \A o \in Given : o < orderId
  BY <1>1, VisibleNow
<1>3. K \in 0 .. 2 /\ s \in [1 .. K -> Instrs] /\ orderId' = orderId + K
  BY DEF Step, Offer, BufferCycle
<1>4. ~ExceptionNow
  BY <1>1, NoFaultShows DEF RenameInv, HistoryInv, RingInv, RetireTypeOK
<1>5. \/ Restored(restore, K)
      \/ ~recovering /\ Dispatching(restore, K)
      \/ recovering /\ Skipping(restore, K)
      \/ recovering /\ Walking(restore, K)
  BY <1>1, VisibleAfter
<1>6. /\ RestoreHits(restore) => mapTable' = rmtCkpt[RMT!RmtSlot(restore)].map
      /\ ~RestoreHits(restore) /\ Undone(restore) = {} =>
           mapTable' = RMT!MapAfter(Allocs(s), Len(Allocs(s)))
      /\ ~RestoreHits(restore) => \A e \in Undone(restore), a \in RMT!ArchRegs :
           mapTable'[a] = IF e.ins.rd = a /\ a # 0 THEN e.prdOld ELSE mapTable[a]
  BY <1>1, <1>4, TableAfter
<1>7. \A o \in Given : log'[o + 1] = log[o + 1]
  BY <1>1, LogAfter
<1>8. RestoreHits(restore) => restore \in Mispredicted
  BY RestoreFollows DEF RestoreHits
<1>9. \A n \in 0 .. K, a \in RMT!ArchRegs \ {0} :
        Names(log', Visible \cup orderId .. orderId + n - 1, a,
              RMT!MapAfter(Allocs(s), AllocsUpTo(s, n))[a])
  BY <1>1, DispatchedMap
<1>10. Len(Allocs(s)) = AllocsUpTo(s, K)
  BY <1>3, AllocsAre
<1>11. Undone(restore) = IF ckptRecover \/ RestoreHits(restore) THEN {}
                         ELSE {e \in recoverOut : e.ins.rd # 0}
  BY <1>4 DEF Undone
<1> HIDE DEF restore
<1>12. SUFFICES ASSUME NEW a \in RMT!ArchRegs \ {0}
                PROVE  Names(log', Visible', a, mapTable'[a])
  BY DEF MapIsVisible
<1>13. CASE Restored(restore, K)
  <2> DEFINE t == RMT!RmtSlot(restore)
  <2>1. RestoreHits(restore) /\ Visible' = {o \in Visible : o <= restore}
    BY <1>13 DEF Restored
  <2>2. t \in Slots /\ rmtCkpt[t].valid /\ rmtCkpt[t].order = restore
    BY <2>1, HitIsASlot DEF RestoreHits
  <2>3. mapTable' = rmtCkpt[t].map
    BY <1>6, <2>1
  <2>4. restore \notin squashed
    BY <1>1, <1>8, <2>1 DEF Mispredicted, RetiredIsOld
  <2> HIDE DEF t
  <2>5. Names(log, {o \in Visible : o <= restore}, a, rmtCkpt[t].map[a])
    BY <1>1, <2>2, <2>4 DEF ImagesAreVisible, Images
  <2>6. {o \in Visible : o <= restore} \in SUBSET Nat
    BY <1>2
  <2>7. Names(log', {o \in Visible : o <= restore}, a, rmtCkpt[t].map[a])
    BY <1>2, <1>7, <2>5, <2>6, NamesInLongerLog
  <2> QED
    BY <2>1, <2>3, <2>7
\* Nothing is handed back: the map takes what dispatch makes of it.
<1>14. ASSUME ~RestoreHits(restore), Undone(restore) = {}
       PROVE  Names(log', Visible \cup orderId .. orderId' - 1, a, mapTable'[a])
  <2>1. mapTable' = RMT!MapAfter(Allocs(s), AllocsUpTo(s, K))
    BY <1>6, <1>10, <1>14
  <2>2. K \in 0 .. K
    BY <1>3
  <2>3. Names(log', Visible \cup orderId .. orderId + K - 1, a,
              RMT!MapAfter(Allocs(s), AllocsUpTo(s, K))[a])
    BY <1>9, <2>2
  <2>4. orderId .. orderId' - 1 = orderId .. orderId + K - 1
    BY <1>2, <1>3
  <2> QED
    BY <2>1, <2>3, <2>4
<1>15. K = 0 => Visible \cup orderId .. orderId' - 1 = Visible
  BY <1>2, <1>3
<1>16. CASE Dispatching(restore, K)
  <2>1. ~RestoreHits(restore) /\ Undone(restore) = {}
    BY <1>11, <1>16 DEF Dispatching
  <2> QED
    BY <1>14, <1>16, <2>1 DEF Dispatching
<1>17. CASE Skipping(restore, K)
  <2>1. ~RestoreHits(restore) /\ Undone(restore) = {}
    BY <1>11, <1>17 DEF Skipping
  <2> QED
    BY <1>14, <1>15, <1>17, <2>1 DEF Skipping
<1>18. CASE Walking(restore, K)
  <2>1. /\ ~RestoreHits(restore) /\ ~ckptRecover /\ K = 0
        /\ Visible' = Visible \ Undoing
        /\ Undone(restore) = {e \in recoverOut : e.ins.rd # 0}
    BY <1>11, <1>18 DEF Walking
  <2>2. \A e \in recoverOut : log[e.order + 1].ins = e.ins /\ e.order \in Given
    BY <1>1, VisibleNow DEF EntriesLogged, Logged, UndoIsYoungest
  <2>3. \A d, e \in recoverOut : d = e
    BY <1>1 DEF RenameInv, PortsTakeTurns
  <2>4. CASE \A e \in recoverOut : e.ins.rd # a
    <3>1. Names(log', Visible, a, mapTable[a])
      <4>1. Visible \in SUBSET Nat /\ Names(log, Visible, a, mapTable[a])
        BY <1>1, <1>2 DEF MapIsVisible
      <4> QED
        BY <1>2, <1>7, <4>1, NamesInLongerLog
    <3>2. WritersIn(log', Visible, a) = WritersIn(log', Visible', a)
      <4>1. \A o \in Undoing : log'[o + 1].ins.rd # a
        BY <1>7, <2>2, <2>4 DEF Undoing
      <4> QED
        BY <2>1, <4>1 DEF WritersIn
    <3>3. Names(log', Visible', a, mapTable[a])
      BY <3>1, <3>2, NamesOfTheSame
    <3>4. CASE Undone(restore) = {}
      <4>1. Names(log', Visible, a, mapTable'[a])
        BY <1>14, <1>15, <2>1, <3>4
      <4> QED
        BY <3>2, <4>1, NamesOfTheSame
    <3>5. CASE Undone(restore) # {}
      <4>1. PICK e \in Undone(restore) : e \in recoverOut
        BY <2>1, <3>5
      <4>2. mapTable'[a] = mapTable[a]
        BY <1>6, <2>1, <2>4, <4>1
      <4> QED
        BY <3>3, <4>2
    <3> QED
      BY <3>4, <3>5
  <2>5. CASE \E e \in recoverOut : e.ins.rd = a
    <3>1. PICK e \in recoverOut : e.ins.rd = a
      BY <2>5
    <3>2. e \in Undone(restore) /\ e.ins.rd # 0 /\ Undoing = {e.order}
      BY <2>1, <2>3, <3>1 DEF Undoing
    <3>3. mapTable'[a] = e.prdOld
      BY <1>6, <2>1, <3>1, <3>2
    <3>4. e.order \in Visible
      BY <2>1, <3>2 DEF Visible
    <3>5. Names(log, {o \in Visible : o < e.order}, a, e.prdOld)
      BY <1>1, <3>1, <3>2, <3>4 DEF OldIsVisible, Replaces
    <3>6. \A o \in Visible : o <= e.order
      <4>1. \A i \in Indices : rob[i].valid => rob[i].order < e.order
        BY <1>1 DEF UndoIsYoungest
      <4>2. \A o \in InRing : o < e.order
        BY <4>1 DEF InRing
      <4>3. \A o \in Given \ squashed : ~(o > e.order)
        BY <1>1 DEF UndoIsYoungest
      <4>4. \A o \in Visible : o \in Given \ squashed \/ o \in InRing \/ o = e.order
        BY <3>2 DEF Visible
      <4>5. e.order \in Nat /\ \A o \in Visible : o \in Nat
        BY <1>2, <3>4
      <4> SUFFICES ASSUME NEW o \in Visible PROVE o <= e.order
        OBVIOUS
      <4>6. ~(o > e.order)
        BY <4>2, <4>3, <4>4, <4>5
      <4> QED
        BY <4>5, <4>6
    <3>7. Visible' = {o \in Visible : o < e.order}
      <4>1. e.order \in Nat /\ \A o \in Visible : o \in Nat
        BY <1>2, <3>4
      <4>2. \A o \in Visible : o < e.order <=> o # e.order
        BY <3>6, <4>1
      <4> QED
        BY <2>1, <3>2, <4>2
    <3>8. {o \in Visible : o < e.order} \in SUBSET Nat
      BY <1>2
    <3>9. Names(log', {o \in Visible : o < e.order}, a, e.prdOld)
      BY <1>2, <1>7, <3>5, <3>8, NamesInLongerLog
    <3> QED
      BY <3>3, <3>7, <3>9
  <2> QED
    BY <2>4, <2>5
<1> QED
  BY <1>5, <1>13, <1>16, <1>17, <1>18

\* What lies below an instruction that stays is the same after the cycle.
LEMMA SameBelow ==
  ASSUME RenameInv, UndoIsYoungest, NEW restore, NEW K, orderId' \in Nat,
         \/ Restored(restore, K) \/ Dispatching(restore, K)
         \/ Skipping(restore, K) \/ Walking(restore, K),
         NEW p \in Given, RestoreHits(restore) => restore \in Nat /\ p <= restore,
         \A e \in recoverOut : p < e.order
  PROVE  /\ {o \in Visible' : o < p} = {o \in Visible : o < p}
         /\ {o \in Visible' : o <= p} = {o \in Visible : o <= p}
<1>1. /\ Visible \subseteq Given /\ Given \subseteq Nat /\ orderId \in Nat
      /\ (\A o \in Given : o < orderId) /\ p \in Nat
      /\ squashed \subseteq Given
  BY VisibleNow
<1>2. \A o \in Visible : o \in Nat
  BY <1>1
<1>3. ASSUME \A o : o \in Visible' => o \in Visible \/ (o \in Nat /\ ~(o <= p)),
             \A o \in Visible : o \in Visible' \/ ~(o <= p)
      PROVE  /\ {o \in Visible' : o < p} = {o \in Visible : o < p}
             /\ {o \in Visible' : o <= p} = {o \in Visible : o <= p}
  <2>1. \A o \in Visible \cup Visible' : o \in Nat
    BY <1>2, <1>3
  <2>2. \A o \in Visible \cup Visible' : o < p => o <= p
    BY <1>1, <2>1
  <2>3. \A o : o \in Visible' /\ o <= p <=> o \in Visible /\ o <= p
    BY <1>3
  <2>4. \A o : o \in Visible' /\ o < p <=> o \in Visible /\ o < p
    BY <2>2, <2>3
  <2> QED
    BY <2>3, <2>4
<1>4. CASE Restored(restore, K)
  <2>1. /\ Visible' = {o \in Visible : o <= restore}
        /\ restore \in Nat /\ p <= restore
    BY <1>4 DEF Restored
  <2>2. \A o \in Visible : o <= p => o <= restore
    BY <1>1, <1>2, <2>1
  <2> QED
    BY <1>3, <2>1, <2>2
<1>5. CASE Dispatching(restore, K)
  <2>1. Visible' = Visible \cup orderId .. orderId' - 1
    BY <1>5 DEF Dispatching
  <2>2. \A o \in orderId .. orderId' - 1 : o \in Nat /\ ~(o <= p)
    BY <1>1
  <2> QED
    BY <1>3, <2>1, <2>2
<1>6. CASE Skipping(restore, K)
  BY <1>3, <1>6 DEF Skipping
<1>7. CASE Walking(restore, K)
  <2>1. Visible' = Visible \ Undoing
    BY <1>7 DEF Walking
  <2>2. \A o \in Undoing : ~(o <= p)
    <3> SUFFICES ASSUME NEW e \in recoverOut PROVE ~(e.order <= p)
      BY DEF Undoing
    <3>1. e.order \in Nat /\ p < e.order
      BY <1>1 DEF UndoIsYoungest
    <3> QED
      BY <1>1, <3>1
  <2> QED
    BY <1>3, <2>1, <2>2
<1> QED
  BY <1>4, <1>5, <1>6, <1>7

\* What an entry replaces stays what the instructions before it had made.
LEMMA OldAfter ==
  ASSUME OrdinaryProgram, MapInv, NEW irq \in BOOLEAN, NEW wb,
         NEW s, NEW K, NEW rebuild, Step(irq, wb, s, K, rebuild)
  PROVE  OldIsVisible'
<1> DEFINE restore == RestoreOrder(irq, wb)
           f == FlushOf(irq, wb)
<1>1. /\ RenameInv /\ OneRedirect /\ RetiredIsOld /\ UndoIsYoungest /\ EntriesLogged
      /\ MapIsVisible /\ OldIsVisible /\ ImagesAreVisible
  BY DEF MapInv
<1>2. /\ Visible \subseteq Given /\ Given \subseteq Nat /\ orderId \in Nat
      /\ (\A o \in Given : o < orderId)
      /\ \A i \in Indices : rob[i].valid => rob[i].order \in Given
  BY <1>1, VisibleNow
<1>3. /\ f \in Flushes /\ HandsOver(f, Renamed(s), K) /\ RobCycle(f, wb, Renamed(s))
      /\ Offer(f, s, K) /\ K \in 0 .. 2 /\ orderId' = orderId + K
      /\ \E G \in SUBSET Indices : Passes(f, wb, G) /\ Leaves(f, G)
  BY <1>1, StepMoves
<1>4. \/ Restored(restore, K) \/ Dispatching(restore, K)
      \/ Skipping(restore, K) \/ Walking(restore, K)
  BY <1>1, VisibleAfter
<1>5. RestoreHits(restore) => restore \in Nat
  <2>1. RestoreHits(restore) => restore \in Mispredicted
    BY RestoreFollows DEF RestoreHits
  <2>2. Mispredicted \subseteq Nat
    BY <1>1, RetireAssumption
       DEF RenameInv, HistoryInv, RingInv, RetireTypeOK, Mispredicted, Orders
  <2> QED
    BY <2>1, <2>2
<1>6. /\ RingInv /\ RetireTypeOK /\ FreelistTypeOK /\ RMT!RmtTypeOK
  BY <1>1 DEF RenameInv, HistoryInv, RingInv
<1>7. \A o \in Given : log'[o + 1] = log[o + 1]
  BY <1>1, LogAfter
<1>8. \A n \in 0 .. K, a \in RMT!ArchRegs \ {0} :
        Names(log', Visible \cup orderId .. orderId + n - 1, a,
              RMT!MapAfter(Allocs(s), AllocsUpTo(s, n))[a])
  BY <1>1, DispatchedMap
<1> HIDE DEF restore, f
<1>9. \A n \in 1 .. K :
        /\ Renamed(s)[n].order = orderId + n - 1 /\ Renamed(s)[n].ins = s[n]
        /\ s[n].rd \in RMT!ArchRegs
        /\ s[n].rd # 0 => Renamed(s)[n].prdOld =
             RMT!MapAfter(Allocs(s), AllocsUpTo(s, n - 1))[s[n].rd]
  BY <1>3, <1>6, RenamedIsHandedOver
<1>10. ASSUME NEW i \in Indices, rob[i].valid, rob[i].ins.rd # 0, rob[i].order \in Visible'
       PROVE  Names(log', {o \in Visible' : o < rob[i].order}, rob[i].ins.rd, rob[i].prdOld)
  <2> DEFINE p == rob[i].order
  <2>1. p \in Given /\ p \in Visible' /\ \A e \in recoverOut : p < e.order
    BY <1>1, <1>2, <1>10 DEF UndoIsYoungest
  <2>2. Replaces(rob[i])
    BY <1>1, <1>10 DEF OldIsVisible
  <2>3. p \in Visible => Names(log, {o \in Visible : o < p}, rob[i].ins.rd, rob[i].prdOld)
    BY <1>10, <2>2 DEF Replaces
  <2> HIDE DEF p
  <2>4. RestoreHits(restore) => restore \in Nat /\ p <= restore
    BY <1>4, <1>5, <2>1 DEF Restored, Dispatching, Skipping, Walking
  <2>5. p \in Visible
    <3>1. p \notin orderId .. orderId' - 1
      BY <1>2, <2>1
    <3> QED
      BY <1>4, <2>1, <3>1 DEF Restored, Dispatching, Skipping, Walking
  <2>6. {o \in Visible' : o < p} = {o \in Visible : o < p}
    <3>1. orderId' \in Nat
      BY <1>2, <1>3
    <3> QED
      BY <1>1, <1>4, <2>1, <2>4, <3>1, SameBelow
  <2>7. {o \in Visible : o < p} \in SUBSET Nat
    BY <1>2
  <2>8. Names(log', {o \in Visible : o < p}, rob[i].ins.rd, rob[i].prdOld)
    BY <1>2, <1>7, <2>3, <2>5, <2>7, NamesInLongerLog
  <2> QED
    BY <2>6, <2>8 DEF p
<1>11. ASSUME NEW i \in Indices, rob'[i].valid, rob'[i].ins.rd # 0, rob'[i].order \in Visible'
       PROVE  Names(log', {o \in Visible' : o < rob'[i].order},
                    rob'[i].ins.rd, rob'[i].prdOld)
  <2>1. CASE rob[i].valid /\ Keeps(rob[i], rob'[i])
    <3>1. /\ rob'[i].order = rob[i].order /\ rob'[i].ins = rob[i].ins
          /\ rob'[i].prdOld = rob[i].prdOld
      BY <2>1 DEF Keeps
    <3>2. Names(log', {o \in Visible' : o < rob[i].order}, rob[i].ins.rd, rob[i].prdOld)
      BY <1>10, <1>11, <2>1, <3>1
    <3> QED
      BY <3>1, <3>2
  <2>2. CASE \E n \in 1 .. K : Keeps(Renamed(s)[n], rob'[i])
    <3>1. PICK n \in 1 .. K : Keeps(Renamed(s)[n], rob'[i])
      BY <2>2
    <3>2. /\ rob'[i].order = orderId + n - 1 /\ rob'[i].ins = s[n]
          /\ rob'[i].prdOld = Renamed(s)[n].prdOld
      BY <1>9, <3>1 DEF Keeps
    <3> DEFINE a == s[n].rd
    <3>3. a \in RMT!ArchRegs \ {0}
      BY <1>9, <1>11, <3>2
    <3>4. rob'[i].prdOld = RMT!MapAfter(Allocs(s), AllocsUpTo(s, n - 1))[a]
      BY <1>9, <3>2, <3>3
    <3>5. n - 1 \in 0 .. K /\ K # 0
      BY <1>3
    <3> HIDE DEF a
    <3>6. Names(log', Visible \cup orderId .. orderId + (n - 1) - 1, a,
                RMT!MapAfter(Allocs(s), AllocsUpTo(s, n - 1))[a])
      BY <1>8, <3>3, <3>5
    <3>7. Visible' = Visible \cup orderId .. orderId' - 1
      BY <1>4, <3>5 DEF Restored, Dispatching, Skipping, Walking
    <3>8. {o \in Visible' : o < orderId + n - 1}
            = Visible \cup orderId .. orderId + (n - 1) - 1
      <4> DEFINE q == orderId + n - 1
                 top == orderId + K - 1
      <4>1. q \in Nat /\ top \in Int /\ orderId <= q /\ q <= top
        BY <1>2, <1>3
      <4>2. orderId + (n - 1) - 1 = q - 1 /\ orderId' - 1 = top
        BY <1>2, <1>3
      <4>3. Visible' = Visible \cup orderId .. top
        BY <3>7, <4>2
      <4> HIDE DEF q, top
      <4>4. \A o \in Visible : o < q
        <5> SUFFICES ASSUME NEW o \in Visible PROVE o < q
          OBVIOUS
        <5>1. o \in Nat /\ o < orderId
          BY <1>2
        <5> QED
          BY <1>2, <4>1, <5>1
      <4>5. \A o : o \in orderId .. top /\ o < q <=> o \in orderId .. q - 1
        BY <1>2, <4>1
      <4>6. {o \in Visible' : o < q} = Visible \cup orderId .. q - 1
        BY <4>3, <4>4, <4>5
      <4> QED
        BY <4>2, <4>6 DEF q
    <3> QED
      BY <3>2, <3>4, <3>6, <3>8 DEF a
  <2> QED
    BY <1>3, <1>6, <1>11, <2>1, <2>2, EntriesAfter
<1>12. ASSUME NEW e \in recoverOut', e.ins.rd # 0, e.order \in Visible'
       PROVE  Names(log', {o \in Visible' : o < e.order}, e.ins.rd, e.prdOld)
  <2>1. PICK i \in Indices : e = rob[i] /\ rob[i].valid
    BY <1>3 DEF Leaves
  <2> QED
    BY <1>10, <1>12, <2>1
<1> QED
  BY <1>11, <1>12 DEF OldIsVisible, Replaces

\* An image stays that of the instructions up to its branch, as long as the
\* branch is not cancelled itself.
LEMMA ImagesAfter ==
  ASSUME OrdinaryProgram, MapInv, NEW irq \in BOOLEAN, NEW wb,
         NEW s, NEW K, NEW rebuild, Step(irq, wb, s, K, rebuild)
  PROVE  ImagesAreVisible'
<1> DEFINE restore == RestoreOrder(irq, wb)
           f == FlushOf(irq, wb)
<1>1. /\ RenameInv /\ OneRedirect /\ RetiredIsOld /\ UndoIsYoungest /\ EntriesLogged
      /\ MapIsVisible /\ OldIsVisible /\ ImagesAreVisible
  BY DEF MapInv
<1>2. /\ Visible \subseteq Given /\ Given \subseteq Nat /\ orderId \in Nat
      /\ (\A o \in Given : o < orderId)
  BY <1>1, VisibleNow
<1>3. /\ K \in 0 .. 2 /\ orderId' = orderId + K /\ squashed \subseteq squashed'
      /\ Given' = Given \cup orderId .. orderId' - 1
  BY <1>1, StepMoves
<1>4. \/ Restored(restore, K) \/ Dispatching(restore, K)
      \/ Skipping(restore, K) \/ Walking(restore, K)
  BY <1>1, VisibleAfter
<1>5. RestoreHits(restore) => restore \in Nat
  <2>1. RestoreHits(restore) => restore \in Mispredicted
    BY RestoreFollows DEF RestoreHits
  <2>2. Mispredicted \subseteq Nat
    BY <1>1, RetireAssumption
       DEF RenameInv, HistoryInv, RingInv, RetireTypeOK, Mispredicted, Orders
  <2> QED
    BY <2>1, <2>2
<1>6. \A o \in Given : log'[o + 1] = log[o + 1]
  BY <1>1, LogAfter
<1>7. \A n \in 0 .. K, a \in RMT!ArchRegs \ {0} :
        Names(log', Visible \cup orderId .. orderId + n - 1, a,
              RMT!MapAfter(Allocs(s), AllocsUpTo(s, n))[a])
  BY <1>1, DispatchedMap
<1>8. \A t \in Slots : rmtCkpt'[t].valid =>
        \/ \E n \in 1 .. K :
             /\ rmtCkpt'[t].order = orderId + n - 1
             /\ rmtCkpt'[t].map = RMT!MapAfter(Allocs(s), AllocsUpTo(s, n))
        \/ /\ rmtCkpt'[t] = rmtCkpt[t]
           /\ RestoreHits(restore) => ~(rmtCkpt[t].order >= restore)
  BY <1>1, ImageAfter
<1> HIDE DEF restore, f
<1>9. ASSUME NEW t \in Slots, rmtCkpt'[t].valid
      PROVE  /\ rmtCkpt'[t].order \in Given'
             /\ rmtCkpt'[t].order \notin squashed' =>
                  \A a \in RMT!ArchRegs \ {0} :
                    Names(log', {o \in Visible' : o <= rmtCkpt'[t].order}, a,
                          rmtCkpt'[t].map[a])
  <2> DEFINE p == rmtCkpt'[t].order
             m == rmtCkpt'[t].map
  <2>1. CASE \E n \in 1 .. K : /\ p = orderId + n - 1
                               /\ m = RMT!MapAfter(Allocs(s), AllocsUpTo(s, n))
    <3>1. PICK n \in 1 .. K : /\ p = orderId + n - 1
                              /\ m = RMT!MapAfter(Allocs(s), AllocsUpTo(s, n))
      BY <2>1
    <3> DEFINE top == orderId + K - 1
    <3>2. /\ n \in 0 .. K /\ K # 0 /\ orderId' - 1 = top
          /\ orderId + n - 1 = p
      BY <1>2, <1>3, <3>1
    <3>3. p \in Nat /\ top \in Int /\ orderId <= p /\ p <= top
      BY <1>2, <1>3, <3>1
    <3>4. \A a \in RMT!ArchRegs \ {0} : Names(log', Visible \cup orderId .. p, a, m[a])
      BY <1>7, <3>1, <3>2
    <3>5. Visible' = Visible \cup orderId .. top
      BY <1>4, <3>2 DEF Restored, Dispatching, Skipping, Walking
    <3>6. Given' = Given \cup orderId .. top
      BY <1>3, <3>2
    <3> HIDE DEF p, m, top
    <3>7. p \in Given'
      BY <1>2, <3>3, <3>6
    <3>8. \A o \in Visible : o <= p
      <4> SUFFICES ASSUME NEW o \in Visible PROVE o <= p
        OBVIOUS
      <4>1. o \in Nat /\ o < orderId
        BY <1>2
      <4> QED
        BY <1>2, <3>3, <4>1
    <3>9. \A o : o \in orderId .. top /\ o <= p <=> o \in orderId .. p
      BY <1>2, <3>3
    <3>10. {o \in Visible' : o <= p} = Visible \cup orderId .. p
      BY <3>5, <3>8, <3>9
    <3> QED
      BY <3>4, <3>7, <3>10 DEF p, m
  <2>2. CASE /\ rmtCkpt'[t] = rmtCkpt[t]
             /\ RestoreHits(restore) => ~(rmtCkpt[t].order >= restore)
    <3>1. /\ rmtCkpt[t].valid /\ p = rmtCkpt[t].order /\ m = rmtCkpt[t].map
          /\ RestoreHits(restore) => ~(p >= restore)
      BY <1>9, <2>2
    <3>2. Images(rmtCkpt[t])
      BY <1>1 DEF ImagesAreVisible
    <3>3. /\ p \in Given
          /\ p \notin squashed => \A a \in RMT!ArchRegs \ {0} :
               Names(log, {o \in Visible : o <= p}, a, m[a])
      BY <3>1, <3>2 DEF Images
    <3> HIDE DEF p, m
    <3>4. p \in Given'
      BY <1>3, <3>3
    <3>5. ASSUME p \notin squashed', NEW a \in RMT!ArchRegs \ {0}
          PROVE  Names(log', {o \in Visible' : o <= p}, a, m[a])
      <4>1. p \notin squashed /\ p \in Nat
        BY <1>2, <1>3, <3>3, <3>5
      <4>2. \A e \in recoverOut : p < e.order
        <5> SUFFICES ASSUME NEW e \in recoverOut PROVE p < e.order
          OBVIOUS
        <5>1. e.order \in squashed /\ squashed \subseteq Given
          BY <1>1, VisibleNow DEF UndoIsYoungest
        <5>2. ~(p > e.order)
          BY <1>1, <3>3, <4>1 DEF UndoIsYoungest
        <5>3. e.order \in Nat /\ p # e.order
          BY <1>2, <4>1, <5>1
        <5> QED
          BY <4>1, <5>2, <5>3
      <4>3. RestoreHits(restore) => restore \in Nat /\ p <= restore
        <5>1. RestoreHits(restore) => restore \in Nat /\ ~(p >= restore)
          BY <1>5, <3>1
        <5> QED
          BY <4>1, <5>1
      <4>4. orderId' \in Nat
        BY <1>2, <1>3
      <4>5. {o \in Visible' : o <= p} = {o \in Visible : o <= p}
        BY <1>1, <1>4, <3>3, <4>2, <4>3, <4>4, SameBelow
      <4>6. {o \in Visible : o <= p} \in SUBSET Nat
        BY <1>2
      <4>7. Names(log', {o \in Visible : o <= p}, a, m[a])
        BY <1>2, <1>6, <3>3, <4>1, <4>6, NamesInLongerLog
      <4> QED
        BY <4>5, <4>7
    <3> QED
      BY <3>4, <3>5 DEF p, m
  <2> QED
    BY <1>8, <1>9, <2>1, <2>2
<1> QED
  BY <1>9 DEF ImagesAreVisible, Images

-----------------------------------------------------------------------------
\* At reset nothing has entered and every register is its own.
LEMMA MapInvInit == RenameInit => MapInv
<1> SUFFICES ASSUME RenameInit PROVE MapInv
  OBVIOUS
<1>1. RenameInv
  BY RenameInvInit
<1>2. /\ orderId = 0 /\ recoverOut = {} /\ br = {} /\ retired = {} /\ squashed = {}
      /\ ~recovering /\ \A i \in Indices : ~rob[i].valid
  BY DEF RenameInit, RetireInit, RobInit, BlankEntry
<1>3. Executing = {}
  BY <1>2 DEF Executing, LiveEntries, Live
<1>4. Visible = {}
  BY <1>2 DEF Visible, Given, InRing, Undoing
<1>5. OneRedirect
  BY <1>2, <1>3 DEF OneRedirect
<1>6. RetiredIsOld /\ UndoIsYoungest /\ EntriesLogged /\ OldIsVisible
  BY <1>2 DEF RetiredIsOld, UndoIsYoungest, EntriesLogged, OldIsVisible
<1>7. MapIsVisible
  <2>1. mapTable = RMT!Identity
    BY DEF RenameInit, RMT!RmtInit
  <2>2. \A a \in RMT!ArchRegs : mapTable[a] = a
    BY <2>1 DEF RMT!Identity
  <2>3. \A a : WritersIn(log, Visible, a) = {}
    BY <1>4 DEF WritersIn
  <2> QED
    BY <2>2, <2>3 DEF MapIsVisible, Names
<1>8. ImagesAreVisible
  BY DEF RenameInit, RMT!RmtInit, RMT!RmtVacant, ImagesAreVisible, Images
<1> QED
  BY <1>1, <1>5, <1>6, <1>7, <1>8 DEF MapInv

LEMMA MapInvNext ==
  ASSUME OrdinaryProgram, MapInv, [RenameNext]_renameVars
  PROVE  MapInv'
<1>1. ASSUME NEW wb, RenameCycle(wb) PROVE MapInv'
  <2>1. /\ RenameInv /\ OneRedirect /\ RetiredIsOld /\ EntriesLogged
        /\ RetireTypeOK /\ FreelistTypeOK /\ RMT!RmtTypeOK
    BY DEF MapInv, RenameInv, HistoryInv, RingInv
  <2>2. PICK irq \in BOOLEAN, rebuild \in BOOLEAN : \E s, K : Step(irq, wb, s, K, rebuild)
    BY <1>1, <2>1, CycleIsStep
  <2>3. PICK s, K : Step(irq, wb, s, K, rebuild)
    BY <2>2
  <2>4. RenameInv'
    BY <2>1, <2>3, StepKeepsRename
  <2>5. OneRedirect'
    BY <2>1, <2>3, RedirectAfter
  <2>6. RetiredIsOld' /\ UndoIsYoungest' /\ EntriesLogged'
    BY <2>1, <2>3, RetiredAfter, UndoAfter, LoggedAfter
  <2>7. MapIsVisible' /\ OldIsVisible' /\ ImagesAreVisible'
    BY <2>3, VisibleMapAfter, OldAfter, ImagesAfter
  <2> QED
    BY <2>4, <2>5, <2>6, <2>7 DEF MapInv
<1>2. CASE RenameNext
  BY <1>1, <1>2 DEF RenameNext, RenameIdle, RenameComplete
<1>3. CASE UNCHANGED renameVars
  <2>1. RenameInv'
    BY <1>3, RenameInvNext DEF MapInv
  <2>2. UNCHANGED <<rob, recovering, recoverOut, orderId, br, retired, squashed,
                    mapTable, rmtCkpt, ckptRecover, log>>
    BY <1>3 DEF renameVars, retireVars, robVars
  <2>3. Executing' = Executing /\ Mispredicted' = Mispredicted /\ Visible' = Visible
        /\ Given' = Given
    BY <2>2 DEF Executing, LiveEntries, Live, Mispredicted, Visible, Given, InRing,
                Undoing
  <2>4. OneRedirect'
    BY <2>2, <2>3 DEF MapInv, OneRedirect
  <2>5. RetiredIsOld' /\ UndoIsYoungest' /\ EntriesLogged'
    BY <2>2, <2>3 DEF MapInv, RetiredIsOld, UndoIsYoungest, EntriesLogged, Logged
  <2>6. MapIsVisible' /\ OldIsVisible' /\ ImagesAreVisible'
    BY <2>2, <2>3 DEF MapInv, MapIsVisible, OldIsVisible, Replaces, ImagesAreVisible,
                      Images
  <2> QED
    BY <2>1, <2>4, <2>5, <2>6 DEF MapInv
<1> QED
  BY <1>2, <1>3

\* The map, every prd_old and every image are those of the instructions
\* visible to them, in every cycle of every such program (sifang_core.v's
\* glue between rob.v and rename_map_table.v).
THEOREM MapInvariant ==
  ASSUME OrdinaryProgram
  PROVE  RenameSpec => []MapInv
<1>1. RenameInit => MapInv
  BY MapInvInit
<1>2. MapInv /\ [RenameNext]_renameVars => MapInv'
  BY MapInvNext
<1> QED
  BY <1>1, <1>2, PTL DEF RenameSpec

\* Once a redirect has settled each architectural register maps to that of its
\* youngest surviving writer, whether the image of a branch
\* (rename_map_table.v:371-384), the walk of rob.v or both brought it back.
THEOREM MapIsThePrograms ==
  ASSUME OrdinaryProgram
  PROVE  RenameSpec => []MapFollowsProgram
<1>1. MapInv => MapFollowsProgram
  <2> SUFFICES ASSUME MapInv, Settled, NEW a \in RMT!ArchRegs \ {0}
               PROVE  mapTable[a] =
                        IF Writers(a) = {} THEN a
                        ELSE LET last == CHOOSE o \in Writers(a) :
                                           \A p \in Writers(a) : p <= o
                             IN  log[last + 1].prd
    BY DEF MapFollowsProgram
  <2>1. /\ RenameInv /\ UndoIsYoungest
        /\ Names(log, Visible, a, mapTable[a])
    BY DEF MapInv, MapIsVisible
  <2>2. /\ Visible = Given \ squashed /\ Given \subseteq Nat /\ orderId \in Nat
        /\ \A o \in Given : o < orderId
    BY <2>1, VisibleNow DEF Settled
  <2>3. \A o \in Given : ~log[o + 1].ins.exc
    <3> SUFFICES ASSUME NEW o \in Given PROVE ~log[o + 1].ins.exc
      OBVIOUS
    <3>1. log \in Seq([ins : Instrs, prd : Phys]) /\ Len(log) = orderId
      BY <2>1 DEF RenameInv, LogTyped
    <3>2. o + 1 \in 1 .. Len(log)
      BY <2>2, <3>1
    <3>3. log[o + 1] \in [ins : Instrs, prd : Phys]
      BY <3>1, <3>2, ElementOfSeq
    <3>4. log[o + 1].ins \in Instrs
      BY <3>3
    <3> QED
      BY <3>4 DEF OrdinaryProgram
  <2>4. Writers(a) = WritersIn(log, Visible, a)
    BY <2>2, <2>3 DEF Writers, WritersIn, Given
  <2> DEFINE W == Writers(a)
  <2>5. W \subseteq Nat /\ Names(log, Visible, a, mapTable[a])
    BY <2>1, <2>2, <2>4 DEF WritersIn
  <2>6. \/ W = {} /\ mapTable[a] = a
        \/ \E o \in W : (\A q \in W : q <= o) /\ mapTable[a] = log[o + 1].prd
    BY <2>4, <2>5 DEF Names
  <2> HIDE DEF W
  <2>7. CASE \E o \in W : (\A q \in W : q <= o) /\ mapTable[a] = log[o + 1].prd
    <3>1. PICK o \in W : (\A q \in W : q <= o) /\ mapTable[a] = log[o + 1].prd
      BY <2>7
    <3>2. \A m \in W : (\A q \in W : q <= m) => m = o
      BY <2>5, <3>1
    <3>3. (CHOOSE m \in W : \A q \in W : q <= m) = o
      BY <3>1, <3>2
    <3> QED
      BY <3>1, <3>3 DEF W
  <2> QED
    BY <2>6, <2>7 DEF W
<1> QED
  BY <1>1, MapInvariant, PTL
=============================================================================
