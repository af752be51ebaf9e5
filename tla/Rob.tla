-------------------------------- MODULE Rob --------------------------------
(***************************************************************************)
(* The reorder buffer of the core (src/rtl/rob.v), one clock edge per      *)
(* step.  Instructions enter at the tail in program order, complete out of *)
(* order when their write-back arrives, and leave at the head, at most one *)
(* per cycle.  A flush only marks entries; a recovery walk then visits the *)
(* marked ones from the youngest back, one per cycle, handing each to the  *)
(* rename stage to be undone.                                              *)
(*                                                                         *)
(* Order ids identify instructions here.  The RTL matches a write-back by  *)
(* reservation-station tag, and sifang_core forwards one only when the tag *)
(* is live with the write-back's own order id (wb0_valid_safe), so the two *)
(* name the same entry.  Result data, PCs and epochs are left out.         *)
(***************************************************************************)
EXTENDS Integers, Sequences, FiniteSets

CONSTANTS
  Depth,       \* ROB_DEPTH: number of entries of the ring
  Instrs,      \* what an instruction is to this buffer: rd, branch, xret, exc
  PhysRegs     \* physical register numbers, 0 for none

ASSUME RobAssumption ==
  /\ Depth \in Nat /\ Depth > 3
  /\ Instrs \subseteq
       [rd : Nat, branch : BOOLEAN, xret : BOOLEAN, exc : BOOLEAN]
  /\ Instrs # {}
  /\ PhysRegs \subseteq Nat /\ 0 \in PhysRegs

VARIABLES
  rob,         \* rob_valid, rob_complete, ..., per index
  robHead,     \* rob_head
  robTail,     \* rob_tail
  robCount,    \* rob_count
  recovering,  \* recovering_r
  recoverPtr,  \* recover_ptr_r
  commit0,     \* the registered commit port: {} or the one entry it shows
  recoverOut   \* the registered recovery port: {} or the entry being undone

robVars == <<rob, robHead, robTail, robCount, recovering, recoverPtr,
             commit0, recoverOut>>

Indices == 0 .. Depth - 1
Inc(i) == IF i = Depth - 1 THEN 0 ELSE i + 1
Dec(i) == IF i = 0 THEN Depth - 1 ELSE i - 1

\* What dispatch hands over for one instruction.
Dispatched == [order : Nat, ins : Instrs, prdNew : PhysRegs, prdOld : PhysRegs]

Entries == [valid : BOOLEAN, complete : BOOLEAN, flushed : BOOLEAN,
            order : Nat, ins : Instrs, prdNew : PhysRegs, prdOld : PhysRegs]

EntryOf(d) ==
  [valid |-> TRUE, complete |-> FALSE, flushed |-> FALSE, order |-> d.order,
   ins |-> d.ins, prdNew |-> d.prdNew, prdOld |-> d.prdOld]

BlankEntry ==
  [valid |-> FALSE, complete |-> FALSE, flushed |-> FALSE, order |-> 0,
   ins |-> CHOOSE x \in Instrs : TRUE, prdNew |-> 0, prdOld |-> 0]

\* A flush request: after a branch or xret it spares everything up to its
\* order id, after a trap (not ordered) it spares nothing.
Flushes == [valid : BOOLEAN, ordered : BOOLEAN, order : Nat]
NoFlush == [valid |-> FALSE, ordered |-> FALSE, order |-> 0]

RobTypeOK ==
  /\ rob \in [Indices -> Entries]
  /\ robHead \in Indices /\ robTail \in Indices
  /\ robCount \in 0 .. Depth
  /\ recovering \in BOOLEAN
  /\ recoverPtr \in Indices
  /\ commit0 \in SUBSET Entries /\ recoverOut \in SUBSET Entries

RobInit ==
  /\ rob = [i \in Indices |-> BlankEntry]
  /\ robHead = 0 /\ robTail = 0 /\ robCount = 0
  /\ recovering = FALSE /\ recoverPtr = 0
  /\ commit0 = {} /\ recoverOut = {}

-----------------------------------------------------------------------------
\* Combinational signals.

\* Mutant: room is checked for one instruction, two are taken.
RobFullAtDepth == robCount >= Depth \/ recovering

\* rob0_full, rob1_full
RobFull == robCount >= Depth - 2 \/ recovering

\* Mutant: the flush reaches the redirecting instruction itself.
MarkedFrom(f, e) == f.valid /\ e.valid /\ (f.ordered => e.order >= f.order)

\* The entries a flush marks.  The last disjunct kills an instruction at the
\* boundary that has not completed, unless it is the xret itself.
MarkedBy(f, e) ==
  /\ f.valid /\ e.valid
  /\ \/ ~f.ordered
     \/ e.order > f.order
     \/ ~e.ins.xret /\ ~e.complete /\ e.order = f.order

\* A write-back completes an entry it matches.
CompletedBy(wb, e) == e.valid /\ ~e.complete /\ e.order \in wb

\* Mutant: only a write-back of this very cycle counts.
HeadCompletesOnly(wb) == CompletedBy(wb, rob[robHead])

\* head_complete_now_t0: write-back of the head counts in the same cycle.
HeadCompleteNow(wb) == rob[robHead].complete \/ CompletedBy(wb, rob[robHead])

\* Mutant: an ordered flush does not hold back the head.
BlockedByTrapOnly(f) == f.valid /\ rob[robHead].valid /\ ~f.ordered

\* commit_flush_blocks_t0
CommitBlocked(f) ==
  /\ f.valid /\ rob[robHead].valid
  /\ ~f.ordered \/ rob[robHead].order > f.order

\* The head leaves the ring without committing, because it was invalidated
\* or flushed, or commits.
HeadSkips(f) ==
  /\ robCount # 0 /\ ~CommitBlocked(f)
  /\ ~rob[robHead].valid \/ rob[robHead].flushed

HeadCommits(f, wb) ==
  /\ robCount # 0 /\ ~CommitBlocked(f)
  /\ rob[robHead].valid /\ ~rob[robHead].flushed
  /\ HeadCompleteNow(wb)

\* Mutant: the walk takes a completed entry for one to keep.
WalkUndoesPending ==
  rob[recoverPtr].valid /\ rob[recoverPtr].flushed /\ ~rob[recoverPtr].complete

\* The entry a recovery walk undoes in this cycle, if any.
WalkUndoes == rob[recoverPtr].valid /\ rob[recoverPtr].flushed

\* An entry after the marks and completions of a cycle.
Marked(f, wb, e) ==
  [e EXCEPT !.flushed  = e.flushed \/ MarkedBy(f, e),
            !.complete = e.complete \/ CompletedBy(wb, e)]

-----------------------------------------------------------------------------
\* One clock edge while the recovery walk runs: nothing commits, nothing is
\* dispatched.  A flush that arrives now marks older entries as well, and the
\* walk holds for that cycle unless it is busy undoing an entry.  The mark is
\* assigned after the walk's own clear, and wins.

\* Mutant: the head commits while the walk runs.
WalkUndoCommits(f, wb) ==
  LET leaves == robHead # recoverPtr /\ HeadCommits(f, wb) IN
  /\ recovering /\ WalkUndoes
  /\ rob' = [i \in Indices |->
       [Marked(f, wb, rob[i]) EXCEPT
          !.valid = @ /\ i # recoverPtr /\ ~(leaves /\ i = robHead)]]
  /\ robHead' = IF leaves THEN Inc(robHead) ELSE robHead
  /\ robCount' = robCount - (IF leaves THEN 2 ELSE 1)
  /\ commit0' = IF leaves THEN {rob[robHead]} ELSE {}
  /\ recoverOut' = {rob[recoverPtr]}
  /\ recoverPtr' = Dec(recoverPtr)
  /\ UNCHANGED <<robTail, recovering>>

WalkUndo(f, wb) ==
  /\ recovering /\ WalkUndoes
  /\ rob' = [i \in Indices |->
       IF i = recoverPtr
       THEN [Marked(f, wb, rob[i]) EXCEPT !.valid = FALSE,
                                          !.flushed = MarkedBy(f, rob[i])]
       ELSE Marked(f, wb, rob[i])]
  /\ recoverOut' = {rob[recoverPtr]}
  /\ recoverPtr' = Dec(recoverPtr)
  /\ robCount' = robCount - 1
  /\ commit0' = {}
  /\ UNCHANGED <<robHead, robTail, recovering>>

\* Mutant: a flush that arrives at the walk's last entry does not hold it.
WalkHoldEnds(f, wb) ==
  /\ recovering /\ ~WalkUndoes /\ f.valid
  /\ rob' = [i \in Indices |-> Marked(f, wb, rob[i])]
  /\ recovering' = FALSE /\ robTail' = Inc(recoverPtr)
  /\ recoverOut' = {} /\ commit0' = {}
  /\ UNCHANGED <<robHead, robCount, recoverPtr>>

WalkHold(f, wb) ==
  /\ recovering /\ ~WalkUndoes /\ f.valid
  /\ rob' = [i \in Indices |-> Marked(f, wb, rob[i])]
  /\ recoverOut' = {} /\ commit0' = {}
  /\ UNCHANGED <<robHead, robTail, robCount, recovering, recoverPtr>>

\* Mutant: the walk waits for an empty ring.
WalkEndWhenEmpty(f, wb) ==
  /\ recovering /\ ~WalkUndoes /\ ~f.valid
  /\ rob' = [i \in Indices |-> Marked(f, wb, rob[i])]
  /\ recovering' = (robCount # 0) /\ robTail' = Inc(recoverPtr)
  /\ recoverOut' = {} /\ commit0' = {}
  /\ UNCHANGED <<robHead, robCount, recoverPtr>>

\* Mutant: the tail stays where dispatch left it.
WalkEndKeepsTail(f, wb) ==
  /\ recovering /\ ~WalkUndoes /\ ~f.valid
  /\ rob' = [i \in Indices |-> Marked(f, wb, rob[i])]
  /\ recovering' = FALSE
  /\ recoverOut' = {} /\ commit0' = {}
  /\ UNCHANGED <<robHead, robTail, robCount, recoverPtr>>

WalkEnd(f, wb) ==
  /\ recovering /\ ~WalkUndoes /\ ~f.valid
  /\ rob' = [i \in Indices |-> Marked(f, wb, rob[i])]
  /\ recovering' = FALSE
  /\ robTail' = Inc(recoverPtr)
  /\ recoverOut' = {} /\ commit0' = {}
  /\ UNCHANGED <<robHead, robCount, recoverPtr>>

-----------------------------------------------------------------------------
\* One clock edge outside a walk: a flush marks its victims and starts the
\* walk, the head commits (a mark and a commit can meet in one cycle), and up
\* to two instructions, the sequence disp, are allocated when there is room
\* and no flush.

LeavingHead(f, wb) == HeadSkips(f) \/ HeadCommits(f, wb)

\* Mutant: the two ports swap slots.
SlotSwapped(n) == IF n = 1 THEN Inc(robTail) ELSE robTail

\* The slot each dispatched instruction takes.
SlotOf(n) == IF n = 1 THEN robTail ELSE Inc(robTail)

RunCycle(f, wb, disp) ==
  LET accepted == IF f.valid \/ RobFull THEN <<>> ELSE disp
      leaves   == LeavingHead(f, wb)
  IN  /\ ~recovering
      /\ rob' = [i \in Indices |->
           IF \E n \in DOMAIN accepted : SlotOf(n) = i
           THEN EntryOf(accepted[CHOOSE n \in DOMAIN accepted : SlotOf(n) = i])
           ELSE [Marked(f, wb, rob[i]) EXCEPT
                   !.valid = @ /\ ~(leaves /\ i = robHead)]]
      /\ robHead' = IF leaves THEN Inc(robHead) ELSE robHead
      /\ robTail' = CASE Len(accepted) = 0 -> robTail
                      [] Len(accepted) = 1 -> Inc(robTail)
                      [] OTHER -> Inc(Inc(robTail))
      /\ robCount' = robCount - (IF leaves THEN 1 ELSE 0) + Len(accepted)
      /\ commit0' = IF HeadCommits(f, wb) THEN {rob[robHead]} ELSE {}
      /\ recoverOut' = {}
      /\ recovering' = (f.valid /\ robCount > 0)
      /\ recoverPtr' = IF f.valid /\ robCount > 0 THEN Dec(robTail)
                       ELSE recoverPtr

RobCycle(f, wb, disp) ==
  \/ WalkUndo(f, wb)
  \/ WalkHold(f, wb)
  \/ WalkEnd(f, wb)
  \/ RunCycle(f, wb, disp)

-----------------------------------------------------------------------------
\* How far an index lies behind the head, and the index n places behind it.
Offset(i) == IF i >= robHead THEN i - robHead ELSE i + Depth - robHead
At(n) == IF robHead + n < Depth THEN robHead + n ELSE robHead + n - Depth
=============================================================================
