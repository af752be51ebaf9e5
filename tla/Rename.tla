------------------------------- MODULE Rename -------------------------------
(***************************************************************************)
(* Register renaming as a whole: the reorder buffer with its pipeline      *)
(* (Retire), the rename map, the free list and the glue of sifang_core     *)
(* between them, all clocked together.  Every cycle of Retire is one step  *)
(* here; the map and the free list see the registered commit and recovery  *)
(* ports of the buffer, one cycle after the buffer decided.                *)
(***************************************************************************)
EXTENDS Retire, Freelist

CONSTANT CkptQuery   \* CKPT_QUERY_ENABLE_CFG: 1 in simulation, 0 on the FPGA

ASSUME RenameAssumption ==
  /\ CkptQuery \in BOOLEAN /\ PhysRegs = Phys
  /\ \A x \in Instrs : x.rd < NumArch          \* rd has five bits

VARIABLES
  mapTable, rmtCkpt,   \* the rename map
  ckptRecover,         \* branch_ckpt_recover_active_r
  quarantine,          \* phys_branch_quarantine
  log,                 \* history: [ins, prd] of each order id
  slipped,             \* history: a branch retired as an image was put back
  unmatched            \* history: a list came back without its map

RMT == INSTANCE RenameMap WITH
  RmtArch <- NumArch, RmtPhys <- Phys, RmtSlots <- Slots

renameVars == <<retireVars, flVars, mapTable, rmtCkpt, ckptRecover,
                quarantine, log, slipped, unmatched>>

-----------------------------------------------------------------------------
\* Dispatch.

Needs(s, n) == n \in DOMAIN s /\ s[n].rd # 0

\* fl_alloc0_prd for the first of the pair, fl_alloc1_prd for the second.
PrdOf(s, n) == IF n = 1 THEN Alloc0Prd ELSE Alloc1Prd(Needs(s, 1))

\* d*_alloc_blocked_by_rmt_map, _by_ckpt, _by_branch_quarantine.
Guarded(p) ==
  \/ p # 0 /\ p \in {mapTable[a] : a \in RMT!ArchRegs \ {0}}
  \/ CkptQuery /\ p # 0 /\ p \in RMT!CkptRegs
  \/ p # 0 /\ p \in quarantine

\* fl_disp_stall
FlStall(s) ==
  \/ Needs(s, 1) /\ Needs(s, 2) /\ ~CanAlloc2(Needs(s, 1))
  \/ (Needs(s, 1) \/ Needs(s, 2)) /\ ~(Needs(s, 1) /\ Needs(s, 2)) /\ ~CanAlloc1
  \/ \E n \in DOMAIN s : Needs(s, n) /\ Guarded(PrdOf(s, n))

\* The k-th of the dispatch ports in ports.
Nth(ports, k) ==
  CHOOSE n \in ports : Cardinality({m \in ports : m <= n}) = k

\* The allocations of the instructions s, in order.
Allocs(s) ==
  LET writing == {n \in DOMAIN s : Needs(s, n)}
  IN  [k \in 1 .. Cardinality(writing) |->
         LET n == Nth(writing, k) IN [rd |-> s[n].rd, prd |-> PrdOf(s, n)]]

\* Mutant: a branch's image takes in the instruction dispatched behind it.
AllocsOfPair(s, n) == Cardinality({m \in DOMAIN s : Needs(s, m)})

AllocsUpTo(s, n) == Cardinality({m \in 1 .. n : Needs(s, m)})

\* What dispatch writes into the reorder buffer: prd_old sees the rename of
\* the instruction ahead.
Renamed(s) == [n \in DOMAIN s |->
  [order |-> orderId + n - 1, ins |-> s[n],
   prdNew |-> IF s[n].rd # 0 THEN PrdOf(s, n) ELSE 0,
   prdOld |-> IF s[n].rd = 0 THEN 0
              ELSE RMT!MapAfter(Allocs(s), AllocsUpTo(s, n - 1))[s[n].rd]]]

\* branch_ckpt_capture*: every dispatched branch.
CapturesOf(s) ==
  LET branches == {n \in DOMAIN s : s[n].branch}
  IN  [k \in 1 .. Cardinality(branches) |->
         LET n == Nth(branches, k)
         IN  [order |-> orderId + n - 1, allocs |-> AllocsUpTo(s, n)]]

-----------------------------------------------------------------------------
\* Recovery and commit, as the map and the free list see them.

\* branch_ckpt_restore: a mispredict that no trap or xret overrides.
RestoreOrder(irq, wb) ==
  IF Mispredicted # {} /\ ~ExceptionNow /\ ~irq /\ XretNow(wb) = {}
  THEN CHOOSE o \in Mispredicted : TRUE ELSE NoOrder

RestoreHits(restore) == restore # NoOrder /\ RMT!RmtHit(restore)
ListHits(restore) == restore # NoOrder /\ RestoreHit(restore)

\* Mutant: the walk is let through after the cycle of the restore.
UndoneTwice(restore) ==
  IF ExceptionNow THEN {e \in commit0 : e.ins.rd # 0}
  ELSE IF RestoreHits(restore) THEN {}
  ELSE {e \in recoverOut : e.ins.rd # 0}

\* The mapping to undo: the excepting instruction on the commit port, or the
\* entry the walk hands over unless a checkpoint already covers it.
Undone(restore) ==
  IF ExceptionNow THEN {e \in commit0 : e.ins.rd # 0}
  ELSE IF ckptRecover \/ RestoreHits(restore) THEN {}
  ELSE {e \in recoverOut : e.ins.rd # 0}

\* recover_push_valid, recover_push_prd
Pushed(restore) ==
  IF Undone(restore) = {} THEN 0 ELSE (CHOOSE e \in Undone(restore) : TRUE).prdNew

\* commit0_free_direct_valid
Released ==
  IF \E e \in commit0 : ~e.ins.exc /\ e.ins.rd # 0
  THEN (CHOOSE e \in commit0 : TRUE).prdOld ELSE 0

\* branch_ckpt_drop0_valid
DropOrder ==
  IF \E e \in commit0 : e.ins.branch
  THEN (CHOOSE e \in commit0 : TRUE).order ELSE NoOrder

\* freelist_rebuild_valid
RebuildNow(s) ==
  FlStall(s) /\ ~rob[robHead].valid /\ ~recovering /\ ~RMT!AnyCkptLive

\* What the restores did.  Only the map drops the image of a branch that retires
\* in the cycle of a restore; a list without its map is handed the cancelled
\* registers a second time by the walk.
RecordRestore(restore) ==
  /\ slipped' = (slipped \/ (ListHits(restore) /\ DropOrder # NoOrder))
  /\ unmatched' = (unmatched \/ (ListHits(restore) /\ ~RestoreHits(restore)))

-----------------------------------------------------------------------------
RenameCycle(wb) ==
  \E irq \in BOOLEAN :
    /\ irq => InterruptReady(wb)
    /\ LET f == FlushOf(irq, wb)
           restore == RestoreOrder(irq, wb)
       IN \E offered \in Offers(f) :
         LET s == IF FlStall(offered) THEN <<>> ELSE offered IN
         /\ RobCycle(f, wb, Renamed(s))
         /\ orderId' = orderId + Len(s)
         /\ ResolveBranch(f, wb)
         /\ Record(f)
         /\ RMT!RmtCycle(
              [restore |-> restore, drop |-> DropOrder,
               recover |-> {[rd |-> e.ins.rd, prd |-> e.prdOld] :
                              e \in Undone(restore)},
               allocs |-> Allocs(s), caps |-> CapturesOf(s)])
         /\ FreelistCycle(
              [allocs |-> Len(Allocs(s)), free |-> Released,
               push |-> Pushed(restore), drop |-> DropOrder,
               caps |-> CapturesOf(s), restore |-> restore,
               rebuild |-> RebuildNow(offered), mapped |-> RMT!MappedRegs])
         /\ ckptRecover' = IF restore # NoOrder THEN RestoreHits(restore)
                           ELSE ckptRecover /\ recovering
         /\ quarantine' = IF ~RMT!AnyCkptLive THEN {}
                          ELSE quarantine \cup ({Released} \ {0})
         /\ log' = log \o [n \in DOMAIN s |->
                             [ins |-> s[n], prd |-> Renamed(s)[n].prdNew]]
         /\ RecordRestore(restore)

RenameIdle == RenameCycle({})
RenameComplete == \E wb \in WriteBacks \ {{}} : RenameCycle(wb)

RenameInit ==
  /\ RetireInit /\ FreelistInit /\ RMT!RmtInit
  /\ ckptRecover = FALSE /\ quarantine = {} /\ log = <<>>
  /\ slipped = FALSE /\ unmatched = FALSE

RenameNext == RenameIdle \/ RenameComplete
RenameSpec == RenameInit /\ [][RenameNext]_renameVars

-----------------------------------------------------------------------------
RenameTypeOK ==
  /\ RetireTypeOK /\ FreelistTypeOK /\ RMT!RmtTypeOK
  /\ ckptRecover \in BOOLEAN
  /\ quarantine \subseteq Phys
  /\ Len(log) = orderId
  /\ slipped \in BOOLEAN /\ unmatched \in BOOLEAN

\* No redirect is under way and no undo is on its way to the map.
Settled == ~recovering /\ recoverOut = {} /\ Mispredicted = {} /\ ~ExceptionNow

\* The instructions whose result is the program's: in flight or retired, and
\* not cancelled or trapped.
Writers(a) ==
  {o \in 0 .. orderId - 1 :
     log[o + 1].ins.rd = a /\ o \notin squashed
     /\ ~(log[o + 1].ins.exc /\ o \in retired)}

\* Once a redirect has settled, each architectural register maps to the
\* register of its youngest surviving writer, whether the map came back from a
\* checkpoint, from the walk or from both.
MapFollowsProgram ==
  Settled =>
    \A a \in RMT!ArchRegs \ {0} :
      mapTable[a] = IF Writers(a) = {} THEN a
                    ELSE LET last == CHOOSE o \in Writers(a) :
                                       \A p \in Writers(a) : p <= o
                         IN  log[last + 1].prd

\* No register that the map, a live instruction or its undo still names is on
\* the free list, where a later instruction would overwrite it, nor is a
\* register on the list twice.
FreeIsNotInUse ==
  Settled =>
    /\ Cardinality(OnList) = FreeCount
    /\ OnList \cap RMT!MappedRegs = {}
    /\ \A e \in LiveEntries : e.ins.rd # 0 =>
         e.prdNew \notin OnList /\ e.prdOld \notin OnList

\* Commit and recovery never hand a register back in the same cycle: freelist.v
\* would keep one of the two only (its push overwrites the free at fl_tail).
OneReturnPerCycle == ~(Released # 0 /\ Undone(NoOrder) # {})

\* The two images a mispredicted branch puts back fit each other: the list's
\* hands out no register that the map's names, although registers were freed,
\* pushed and handed out in between.
ImageIsConsistent ==
  \A s, t \in Slots :
    flCkpt[s].valid /\ rmtCkpt[t].valid /\ flCkpt[s].order = rmtCkpt[t].order =>
      Elements(ListOf(flCkpt[s].mem, flCkpt[s].head, flCkpt[s].tail))
        \cap {rmtCkpt[t].map[a] : a \in RMT!ArchRegs} = {}

\* A mispredicted branch that puts back an image of the list puts back one of
\* the map too (freelist.v:203-205): else the walk hands back, a second time,
\* what the restored list already holds.
RestoresTogether ==
  \A o \in Mispredicted : RestoreHit(o) => RMT!RmtHit(o)
=============================================================================
