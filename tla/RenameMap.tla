----------------------------- MODULE RenameMap -----------------------------
(***************************************************************************)
(* The rename map (src/rtl/rename_map_table.v): where each architectural   *)
(* register lives, with checkpoints of the whole map taken behind a branch *)
(* and restored when it mispredicts.  The ready bits are left out: nothing *)
(* in the core reads them (operands wait on reservation-station tags).     *)
(* reset_to_arch and ckpt_commit*_valid are tied to 0 and are left out.    *)
(***************************************************************************)
EXTENDS Integers, Sequences, FiniteSets

CONSTANTS
  RmtArch,      \* NUM_ARCH_REG
  RmtPhys,      \* the physical register numbers
  RmtSlots      \* checkpoint slots

VARIABLES
  mapTable,     \* map_table
  rmtCkpt       \* ckpt_valid, ckpt_order_id, ckpt_map

rmtVars == <<mapTable, rmtCkpt>>

ArchRegs == 0 .. RmtArch - 1
Identity == [a \in ArchRegs |-> a]

\* An invalid slot is never read; its stale map is not kept.
RmtVacant == [valid |-> FALSE, order |-> 0, map |-> Identity]

RmtTypeOK ==
  /\ mapTable \in [ArchRegs -> RmtPhys]
  /\ \A s \in RmtSlots :
       /\ rmtCkpt[s].valid \in BOOLEAN /\ rmtCkpt[s].order \in Nat
       /\ rmtCkpt[s].map \in [ArchRegs -> RmtPhys]

RmtInit == mapTable = Identity /\ rmtCkpt = [s \in RmtSlots |-> RmtVacant]

-----------------------------------------------------------------------------
\* Combinational signals.

\* The map after the first k of the allocations allocs, [rd, prd] each: an
\* instruction sees the renames of those ahead of it in the same cycle.
MapAfter(allocs, k) ==
  [a \in ArchRegs |->
     LET writes == {n \in 1 .. k : allocs[n].rd = a /\ a # 0}
     IN  IF writes = {} THEN mapTable[a]
         ELSE allocs[CHOOSE n \in writes : \A m \in writes : m <= n].prd]

\* query*_mapped, mapped_mask_t0, ckpt_query*_live, branch_ckpt_any_live
MappedRegs == {mapTable[a] : a \in ArchRegs}
LiveCkpts == {s \in RmtSlots : rmtCkpt[s].valid}
CkptRegs == {rmtCkpt[s].map[a] : s \in LiveCkpts, a \in ArchRegs \ {0}}
AnyCkptLive == LiveCkpts # {}

\* branch_ckpt_restore_hit and the slot it selects.
RmtMatching(order) == {s \in LiveCkpts : rmtCkpt[s].order = order}
RmtHit(order) == RmtMatching(order) # {}
RmtSlot(order) ==
  CHOOSE s \in RmtMatching(order) : \A t \in RmtMatching(order) : t <= s

-----------------------------------------------------------------------------
\* One clock edge.  The map takes, in this order of priority, the checkpoint
\* of a mispredicted branch, one mapping handed back by recovery (which is a
\* set of at most one [rd, prd]), or the allocations of this cycle.

NextMap(in) ==
  IF in.restore # -1 /\ RmtHit(in.restore)
  THEN rmtCkpt[RmtSlot(in.restore)].map
  ELSE IF in.recover # {}
  THEN [a \in ArchRegs |->
          IF \E r \in in.recover : r.rd = a /\ a # 0
          THEN (CHOOSE r \in in.recover : r.rd = a).prd
          ELSE mapTable[a]]
  ELSE MapAfter(in.allocs, Len(in.allocs))

\* Captures take the lowest open slots and are lost without one; the branch
\* in.caps[n] sees the first in.caps[n].allocs allocations.
NextCkpt(in) ==
  LET hit   == in.restore # -1 /\ RmtHit(in.restore)
      open  == RmtSlots \ LiveCkpts
      low(S) == CHOOSE s \in S : \A t \in S : s <= t
      slot(n) == IF n = 1 THEN low(open) ELSE low(open \ {low(open)})
      taken == {n \in DOMAIN in.caps : ~hit /\ n <= Cardinality(open)}
  IN  [s \in RmtSlots |->
         IF \E n \in taken : slot(n) = s
         THEN LET c == in.caps[CHOOSE n \in taken : slot(n) = s]
              IN  [valid |-> TRUE, order |-> c.order,
                   map |-> MapAfter(in.allocs, c.allocs)]
         ELSE IF \/ hit /\ rmtCkpt[s].order >= in.restore
                 \/ rmtCkpt[s].order <= in.drop
              THEN RmtVacant
              ELSE rmtCkpt[s]]

RmtCycle(in) == mapTable' = NextMap(in) /\ rmtCkpt' = NextCkpt(in)
=============================================================================
