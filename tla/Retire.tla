------------------------------- MODULE Retire -------------------------------
(***************************************************************************)
(* The reorder buffer driven by the pipeline around it as sifang_core      *)
(* wires it: dispatch in program order, write-backs of live instructions   *)
(* in any order, branches that resolve one cycle before their redirect,    *)
(* xrets that redirect in their own write-back cycle, and traps.           *)
(***************************************************************************)
EXTENDS Rob

CONSTANTS
  MaxOrder,     \* bound: instructions dispatched in a behaviour
  Interrupts    \* the kinds of interrupt that arrive

ASSUME RetireAssumption ==
  MaxOrder \in Nat /\ Interrupts \subseteq {"external", "software"}

VARIABLES
  orderId,    \* order_id_t0: the next order id
  br,         \* exec_pipe0's br_complete_r / br_ctrl_r: {} or a resolved branch
  retired,    \* history: order ids that showed on the commit port
  squashed,   \* history: order ids a redirect cancelled
  undone      \* history: order ids the recovery walk handed over

retireVars == <<robVars, orderId, br, retired, squashed, undone>>

Orders == 0 .. MaxOrder - 1

-----------------------------------------------------------------------------
\* Inputs of one cycle.

Live(e) == e.valid /\ ~e.flushed
LiveEntries == {e \in {rob[i] : i \in Indices} : Live(e)}
Executing == {e \in LiveEntries : ~e.complete}

\* A branch stays pending in the dispatch unit until br_complete.
BranchPending == br # {} \/ \E e \in Executing : e.ins.branch
XretPending == \E e \in Executing : e.ins.xret

\* Pipe 0 writes back one branch or system instruction at a time, and neither
\* passes an unresolved older branch.
CanWriteBack(wb) ==
  /\ Cardinality(wb) <= 2
  /\ \A e \in Executing : e.order \in wb /\ (e.ins.branch \/ e.ins.xret) =>
       \A d \in Executing \ {e} :
         /\ d.order \in wb => ~(d.ins.branch \/ d.ins.xret)
         /\ d.order < e.order => ~d.ins.branch

WriteBacks == {wb \in SUBSET {e.order : e \in Executing} : CanWriteBack(wb)}

\* pipe0_mret_valid or pipe0_sret_valid: the xret writing back, if any.
XretNow(wb) == {e.order : e \in {d \in Executing : d.ins.xret /\ d.order \in wb}}

\* pipe0_br_ctrl: the branch that redirects in this cycle, if any.
Mispredicted == {b.order : b \in {c \in br : c.miss}}

\* csr_sync_exc_valid: the instruction on the commit port carries an exception.
ExceptionNow == \E e \in commit0 : e.ins.exc

\* An interrupt line is let through only when precise_interrupt_ready; the
\* bits of mip that software sets reach csr_unit's trap decision as they are.
InterruptReady(wb) ==
  /\ retired # {}
  /\ \/ "software" \in Interrupts
     \/ /\ "external" \in Interrupts
        /\ ~ExceptionNow /\ Mispredicted = {}
        /\ ~XretPending /\ XretNow(wb) = {} /\ ~recovering

\* The flush mux: trap, then xret, then branch.
FlushOf(irq, wb) ==
  CASE ExceptionNow \/ irq -> [valid |-> TRUE, ordered |-> FALSE, order |-> 0]
    [] ~(ExceptionNow \/ irq) /\ XretNow(wb) # {} ->
         [valid |-> TRUE, ordered |-> TRUE,
          order |-> CHOOSE o \in XretNow(wb) : TRUE]
    [] ~(ExceptionNow \/ irq) /\ XretNow(wb) = {} /\ Mispredicted # {} ->
         [valid |-> TRUE, ordered |-> TRUE,
          order |-> CHOOSE o \in Mispredicted : TRUE]
    [] OTHER -> NoFlush

\* What dispatch offers: at most two instructions, nothing with a redirect or
\* a full buffer, no second branch and no xret behind a pending branch, and
\* nothing behind an xret.
Offers(f) ==
  IF f.valid \/ RobFull \/ XretPending THEN {<<>>}
  ELSE {s \in UNION {[1 .. n -> Instrs] : n \in 0 .. 2} :
          /\ orderId + Len(s) <= MaxOrder
          /\ \A n \in DOMAIN s :
               s[n].branch \/ s[n].xret =>
                 ~BranchPending /\ \A m \in 1 .. n - 1 : ~s[m].branch
          /\ \A n \in DOMAIN s : s[n].xret => n = Len(s)}

Numbered(s) == [n \in DOMAIN s |->
  [order |-> orderId + n - 1, ins |-> s[n], prdNew |-> 0, prdOld |-> 0]]

-----------------------------------------------------------------------------
\* exec_pipe0 registers the resolution of a branch in its write-back cycle,
\* unless the flush of that cycle kills it.
ResolveBranch(f, wb) ==
  LET resolved == {e \in Executing :
        /\ e.ins.branch /\ e.order \in wb
        /\ ~(f.valid /\ (~f.ordered \/ e.order > f.order))}
  IN  IF resolved = {} THEN br' = {}
      ELSE \E miss \in BOOLEAN :
             br' = {[order |-> e.order, miss |-> miss] : e \in resolved}

\* The order ids a redirect cancels: all that entered, are not retired and lie
\* behind the redirecting instruction.
CancelledBy(f) ==
  IF ~f.valid THEN {}
  ELSE {o \in 0 .. orderId - 1 : o \notin retired /\ (f.ordered => o > f.order)}

Record(f) ==
  /\ retired' = retired \cup {e.order : e \in commit0'}
  /\ squashed' = squashed \cup CancelledBy(f)
  /\ undone' = undone \cup {e.order : e \in recoverOut'}

Cycle(wb) ==
  \E irq \in BOOLEAN :
    /\ irq => InterruptReady(wb)
    /\ LET f == FlushOf(irq, wb) IN
       /\ \E s \in Offers(f) :
            /\ RobCycle(f, wb, Numbered(s))
            /\ orderId' = orderId + Len(s)
       /\ ResolveBranch(f, wb)
       /\ Record(f)

Idle == Cycle({})
Complete == \E wb \in WriteBacks \ {{}} : Cycle(wb)

RetireInit ==
  /\ RobInit
  /\ orderId = 0 /\ br = {}
  /\ retired = {} /\ squashed = {} /\ undone = {}

RetireNext == Idle \/ Complete

RetireSpec == RetireInit /\ [][RetireNext]_retireVars

\* The clock keeps ticking, and the functional units answer: whatever else
\* happens, cycles come in which something that executes writes back.
Ticks == \E wb \in WriteBacks : (WriteBacks # {{}} => wb # {}) /\ Cycle(wb)

RetireFairness == WF_retireVars(Ticks)

FairRetireSpec == RetireSpec /\ RetireFairness

-----------------------------------------------------------------------------
\* The ring, as the code's registers may hold it, with the driving pipeline.
RetireTypeOK ==
  /\ RobTypeOK
  /\ orderId \in 0 .. MaxOrder
  /\ br \in SUBSET [order : Orders, miss : BOOLEAN]
  /\ retired \subseteq Orders /\ squashed \subseteq Orders
  /\ undone \subseteq Orders

\* An instruction reaches the commit port only when every older one has been
\* retired or cancelled, and never after it was cancelled itself, although the
\* redirect, the write-back and the commit decision can share a cycle
\* (rob.v's same-cycle bypass and commit_flush_blocks_t0).
CommitsInOrder ==
  \A e \in commit0 :
    /\ e.order \notin squashed
    /\ \A o \in 0 .. e.order - 1 : o \in retired \cup squashed

\* The walk undoes cancelled instructions only, each once it is the youngest
\* left, so that restoring prd_old in that order rebuilds the older mapping.
UndoesYoungestFirst ==
  \A e \in recoverOut :
    /\ e.order \in squashed
    /\ \A o \in squashed : o > e.order => o \in undone

\* When the walk is over, nothing it should have undone is left: a destination
\* register of a cancelled instruction is never forgotten.
WalkUndoesAll == ~recovering => squashed \subseteq undone

\* No mark outlives the walk: outside it every entry the ring holds is live,
\* or a cancelled instruction could wait at the head and retire.
NoMarkLeft ==
  ~recovering => \A i \in Indices : rob[i].valid => ~rob[i].flushed

\* The valid entries are the robCount places from the head on, and the next
\* instruction goes right behind them, although the walk gives up places at
\* the tail one by one and leaves rob_tail to be corrected when it ends.
RingIsContiguous ==
  /\ \A i \in Indices : rob[i].valid <=> Offset(i) < robCount
  /\ ~recovering => robTail = At(robCount)

\* Every instruction that enters leaves, retired or cancelled: a program that
\* ends (MaxOrder) leaves nothing behind in the buffer.
EveryInstructionLeaves ==
  <>[](\A o \in Orders : o < orderId => o \in retired \cup squashed)

\* A walk ends, whatever further redirects arrive while it runs.
WalkEnds == recovering ~> ~recovering

\* The ring is a window of the program, the commit port what leaves it.
Window == {e.order : e \in LiveEntries}
Retiring == {e.order : e \in commit0}

Promise == INSTANCE Program WITH
  Width <- 2, window <- Window, next <- orderId, retiring <- Retiring

\* The reorder buffer implements the program-order window.
ImplementsProgram == Promise!ProgramSpec
=============================================================================
