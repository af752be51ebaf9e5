------------------------------ MODULE Freelist ------------------------------
(***************************************************************************)
(* The physical register free list (src/rtl/freelist.v): a FIFO of         *)
(* register numbers in a ring memory, with checkpoints of the whole list   *)
(* taken when a branch is dispatched and restored when it mispredicts.     *)
(*                                                                         *)
(* The read and write pointers run modulo PtrMod = 2^(FL_IDX_W+1) and are  *)
(* reduced to a ring index by ptr_index.  reset_list is tied to 0 at the   *)
(* only instantiation and is left out.                                     *)
(***************************************************************************)
EXTENDS Integers, Sequences, FiniteSets

CONSTANTS
  NumArch,     \* registers 0 .. NumArch-1 are mapped at reset (32)
  NumFree,     \* NUM_FREE: registers on the list at reset
  FlDepth,     \* FL_DEPTH: size of the ring memory
  PtrMod,      \* 2^(FL_IDX_W + 1): the pointers' modulus
  CkptDepth    \* BR_CKPT_DEPTH: checkpoint slots

ASSUME FreelistAssumption ==
  /\ NumArch \in Nat \ {0} /\ NumFree \in Nat \ {0}
  /\ FlDepth = NumArch + NumFree            \* 64 = 32 + 32, 48 = 32 + 16
  /\ PtrMod \in Nat /\ PtrMod > FlDepth /\ PtrMod <= 3 * FlDepth
  /\ CkptDepth \in Nat \ {0}

VARIABLES
  flMem,     \* fl_mem
  flHead,    \* fl_head
  flTail,    \* fl_tail
  flCkpt     \* ckpt_valid, ckpt_order_id, ckpt_mem, ckpt_head, ckpt_tail

flVars == <<flMem, flHead, flTail, flCkpt>>

Phys == 0 .. NumArch + NumFree - 1     \* register 0 is never on the list
FlIndices == 0 .. FlDepth - 1
FlPointers == 0 .. PtrMod - 1
Slots == 0 .. CkptDepth - 1
NoOrder == -1                          \* an order-id input that is not valid

FreelistTypeOK ==
  /\ flMem \in [FlIndices -> Phys]
  /\ flHead \in FlPointers /\ flTail \in FlPointers
  /\ \A s \in Slots :
       /\ flCkpt[s].valid \in BOOLEAN /\ flCkpt[s].order \in Nat
       /\ flCkpt[s].mem \in [FlIndices -> Phys]
       /\ flCkpt[s].head \in FlPointers /\ flCkpt[s].tail \in FlPointers

ResetMem == [i \in FlIndices |-> IF i < NumFree THEN NumArch + i ELSE 0]

\* An invalid slot is never read; its stale image is not kept.
Vacant == [valid |-> FALSE, order |-> 0, mem |-> ResetMem,
           head |-> 0, tail |-> NumFree]

FreelistInit ==
  /\ flMem = ResetMem /\ flHead = 0 /\ flTail = NumFree
  /\ flCkpt = [s \in Slots |-> Vacant]

-----------------------------------------------------------------------------
\* Combinational signals.

\* ptr_index subtracts the depth at most twice, idx_inc wraps at the last index.
PtrIndex(p) ==
  LET once == IF p >= FlDepth THEN p - FlDepth ELSE p
  IN  IF once >= FlDepth THEN once - FlDepth ELSE once
IdxInc(i) == IF i = FlDepth - 1 THEN 0 ELSE i + 1
Advance(p, n) == (p + n) % PtrMod

FreeCount == (flTail - flHead) % PtrMod

Alloc0Prd == flMem[PtrIndex(flHead)]
\* Mutant: the second port does not look past the first.
Alloc1Same(after0) == flMem[PtrIndex(flHead)]

Alloc1Prd(after0) ==
  flMem[IF after0 THEN IdxInc(PtrIndex(flHead)) ELSE PtrIndex(flHead)]

CanAlloc1 == FreeCount >= 1 /\ Alloc0Prd # 0
CanAlloc2(after0) ==
  FreeCount >= 2 /\ Alloc0Prd # 0 /\ Alloc1Prd(after0) # 0

\* The registers of a list in the ring, next to be handed out first.
ListOf(mem, head, tail) ==
  [k \in 1 .. (tail - head) % PtrMod |-> mem[PtrIndex(Advance(head, k - 1))]]
Elements(s) == {s[k] : k \in DOMAIN s}
List == ListOf(flMem, flHead, flTail)
OnList == Elements(List)

\* branch_ckpt_restore_hit and the slot it selects (the last that matches).
MatchingSlots(order) ==
  {s \in Slots : flCkpt[s].valid /\ flCkpt[s].order = order}
RestoreHit(order) == MatchingSlots(order) # {}
RestoreSlot(order) ==
  CHOOSE s \in MatchingSlots(order) : \A t \in MatchingSlots(order) : t <= s

\* Slots for the captures of this cycle: the lowest invalid one, then the next.
OpenSlots == {s \in Slots : ~flCkpt[s].valid}
Lowest(S) == CHOOSE s \in S : \A t \in S : s <= t

-----------------------------------------------------------------------------
\* One clock edge.

\* rebuild_valid: the list becomes every register that is not mapped.
Rebuild(mapped) ==
  LET free == (Phys \ {0}) \ mapped
      Rank(p) == Cardinality({q \in free : q < p})
  IN  /\ flMem' = [i \in FlIndices |->
           IF \E p \in free : Rank(p) = i
           THEN CHOOSE p \in free : Rank(p) = i ELSE 0]
      /\ flHead' = 0 /\ flTail' = Cardinality(free)
      /\ flCkpt' = [s \in Slots |-> Vacant]

\* branch_ckpt_restore with a hit: the list goes back to its image, and the
\* checkpoints of that branch and of younger ones are dropped.
RestoreList(order) ==
  LET c == flCkpt[RestoreSlot(order)] IN
  /\ flMem' = c.mem /\ flHead' = c.head /\ flTail' = c.tail
  /\ flCkpt' = [s \in Slots |->
       IF flCkpt[s].order < order THEN flCkpt[s] ELSE Vacant]

\* Mutant: a branch's image still holds the registers allocated up to it.
ImageBefore(c) == [valid |-> TRUE, order |-> c.order, mem |-> flMem,
                   head |-> flHead, tail |-> flTail]

\* The image a dispatched branch takes: the list behind the allocations up to
\* it, without what is freed in this cycle.
ImageOf(c) == [valid |-> TRUE, order |-> c.order, mem |-> flMem,
               head |-> Advance(flHead, c.allocs), tail |-> flTail]

\* Neither: in.allocs registers leave at the head; a committed one (in.free)
\* and one handed back by recovery (in.push) enter at the tail, the push over
\* the free when both come; a committed branch (in.drop) drops the checkpoints
\* up to its own; in.caps are the dispatched branches, each with the number of
\* allocations it includes.  A capture that finds no slot is lost.
Advances(in) ==
  LET idx == PtrIndex(flTail)
      capSlot(n) == IF n = 1 THEN Lowest(OpenSlots)
                    ELSE Lowest(OpenSlots \ {Lowest(OpenSlots)})
      taken == {n \in DOMAIN in.caps : n <= Cardinality(OpenSlots)}
  IN  /\ flHead' = Advance(flHead, in.allocs)
      /\ flMem' = IF in.push # 0 THEN [flMem EXCEPT ![idx] = in.push]
                  ELSE IF in.free # 0 THEN [flMem EXCEPT ![idx] = in.free]
                  ELSE flMem
      /\ flTail' = IF in.push # 0 \/ in.free # 0 THEN Advance(flTail, 1)
                   ELSE flTail
      /\ flCkpt' = [s \in Slots |->
           IF \E n \in taken : capSlot(n) = s
           THEN ImageOf(in.caps[CHOOSE n \in taken : capSlot(n) = s])
           ELSE IF flCkpt[s].order > in.drop THEN flCkpt[s] ELSE Vacant]

FreelistCycle(in) ==
  IF in.rebuild THEN Rebuild(in.mapped)
  ELSE IF in.restore # NoOrder /\ RestoreHit(in.restore)
       THEN RestoreList(in.restore)
       ELSE Advances(in)

Quiet == [allocs |-> 0, free |-> 0, push |-> 0, drop |-> NoOrder,
          caps |-> <<>>, restore |-> NoOrder, rebuild |-> FALSE,
          mapped |-> {}]
=============================================================================
