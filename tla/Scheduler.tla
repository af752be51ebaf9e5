----------------------------- MODULE Scheduler -----------------------------
(***************************************************************************)
(* Dynamic scheduling (src/rtl/dispatch_unit.v): the pool of reservation-  *)
(* station tags, the table from architectural registers to the tag of      *)
(* their producer, and one issue queue, clocked together with what the     *)
(* rest of the core shows them: write-backs in any order, in-order commit, *)
(* a branch that redirects one cycle after it resolves, traps.             *)
(*                                                                         *)
(* The instructions the queue does not hold sit in another of the four     *)
(* queues and may execute at any time.  The pipe-1 candidate register and  *)
(* the functional units' busy flags are part of inhibit.                   *)
(***************************************************************************)
EXTENDS IssueQueue

CONSTANTS
  NumTags,             \* RS_DEPTH: tags 1 .. NumTags
  Program,             \* per order id, the instructions it may be: [kind, rd, srcs]
  HeldKinds,           \* the kinds of instruction in the queue
  BlockBehindBranch,   \* issue_after_order_block_valid is wired (INT queue)
  Mispredicts,         \* whether branches mispredict
  Traps,               \* whether traps occur
  MaxOrder             \* bound: instructions dispatched in a behaviour

ASSUME SchedulerAssumption ==
  /\ NumTags \in Nat \ {0} /\ MaxOrder \in Nat
  /\ \A o \in 0 .. MaxOrder - 1 : \A x \in Program[o] :
       x.kind \in {"alu", "load", "store", "branch"} /\ x.rd \in Nat

VARIABLES
  tags,        \* tag_in_use, tag_ready_v, tag_live_seq, tag_ready_seq
  result,      \* reg_result, reg_result_order
  flight,      \* the instructions in flight and how far each has come
  committing,  \* the commit port: {} or one instruction
  resolved,    \* br_complete_r, br_ctrl_r: {} or [order, miss]
  walking,     \* cycles the reorder buffer's walk has left
  orderId,     \* order_id_t0
  overfilled   \* history: since the last trap the ring of stores has taken
               \* more than it has places

schedVars == <<iqVars, tags, result, flight, committing, resolved, walking,
               orderId, overfilled>>

Tags == 1 .. NumTags
Instructions == UNION {Program[o] : o \in 0 .. MaxOrder - 1}
Regs == (UNION {x.srcs \cup {x.rd} : x \in Instructions}) \ {0}

\* tag_in_use and tag_live_valid_v are set and cleared together.
FreeTag == [live |-> FALSE, ready |-> FALSE, order |-> 0, readyOrder |-> 0]
NoProducer == [tag |-> 0, order |-> 0]

-----------------------------------------------------------------------------
\* What the rest of the core shows in a cycle.

Executing == {x \in flight : x.stage \in {"issued", "answered"}}
UnresolvedBranches ==
  {x \in flight : x.ins.kind = "branch" /\ x.stage # "written"}
BranchPending == resolved # {} \/ UnresolvedBranches # {}

TagOf(x) == [tag |-> x.tag, order |-> x.order]

FlushNow(trap) ==
  LET missed == {b.order : b \in {c \in resolved : c.miss}} IN
  CASE trap -> [valid |-> TRUE, ordered |-> FALSE, order |-> 0]
    [] ~trap /\ missed # {} ->
         [valid |-> TRUE, ordered |-> TRUE, order |-> First(missed)]
    [] OTHER -> [valid |-> FALSE, ordered |-> FALSE, order |-> 0]

\* One result per pipe; a load may announce its result before.
WriteBackSets == {wb \in SUBSET Executing : Cardinality(wb) <= 2}
Announcements ==
  {{}} \cup {{x} : x \in {y \in flight : y.stage = "issued" /\ y.ins.kind = "load"}}

Inputs(f, wb, early, s, inhibit) ==
  [flush |-> f,
   wb |-> {TagOf(x) : x \in {y \in wb : y.ins.rd # 0}},
   early |-> {x.tag : x \in early},
   commit |-> {TagOf(x) : x \in committing},
   disp |-> s, inhibit |-> inhibit,
   block |-> IF BlockBehindBranch /\ BranchPending
             THEN {b.order : b \in resolved \cup UnresolvedBranches} ELSE {}]

-----------------------------------------------------------------------------
\* dispatch_unit: dependency lookup and stall.

\* Mutant: a write-back in the cycle of the dispatch is not looked at.
WaitsWithoutBypass(r, in) ==
  LET p == result[r] IN
  IF /\ p.tag # 0 /\ tags[p.tag].live /\ tags[p.tag].order = p.order
     /\ ~(tags[p.tag].ready /\ tags[p.tag].readyOrder = p.order)
     /\ p \notin in.commit
  THEN {p} ELSE {}

\* The wait for register r, none if its value is there: the producer the table
\* names is live, is not ready, and is neither written back nor committed in
\* this cycle.
WaitsFor(r, in) ==
  LET p == result[r] IN
  IF /\ p.tag # 0 /\ tags[p.tag].live /\ tags[p.tag].order = p.order
     /\ ~(tags[p.tag].ready /\ tags[p.tag].readyOrder = p.order)
     /\ p \notin in.commit
     /\ \A w \in in.wb : w.tag # p.tag
  THEN {p} ELSE {}

FreeTags == {t \in Tags : ~tags[t].live}
TagFor(n) == IF n = 1 THEN First(FreeTags) ELSE First(FreeTags \ {First(FreeTags)})

\* Mutant: the second of the pair does not see the destination of the first.
SourcesFromTable(s, n, in) ==
  UNION {WaitsFor(r, in) : r \in s[n].srcs \ {0}}

\* The waits of the n-th of the pair s; the second sees the first's destination.
SourcesOf(s, n, in) ==
  UNION {IF n = 2 /\ s[1].rd = r
         THEN {[tag |-> TagFor(1), order |-> orderId]}
         ELSE WaitsFor(r, in) : r \in s[n].srcs \ {0}}

\* Of the pair s, what the queue takes, in order.
Held(s) ==
  LET held == {n \in DOMAIN s : s[n].kind \in HeldKinds}
  IN  [k \in 1 .. Cardinality(held) |-> s[IF held = {2} THEN 2 ELSE k]]

\* d0_go, d1_go: a tag each, a slot each that the queue takes, and no second
\* branch while one is pending (BR_DISPATCH_LIMIT).
Fits(s) ==
  /\ Cardinality(FreeTags) >= Len(s)
  /\ Cardinality(FreeSlots) >= Len(Held(s))
  /\ \A n \in DOMAIN s : s[n].kind = "branch" =>
       ~BranchPending /\ \A m \in 1 .. n - 1 : s[m].kind # "branch"

Offers(f) ==
  IF f.valid \/ walking > 0 THEN {<<>>}
  ELSE {s \in UNION {[1 .. n -> Instructions] : n \in 0 .. 2} :
          /\ orderId + Len(s) <= MaxOrder
          /\ \A n \in DOMAIN s : s[n] \in Program[orderId + n - 1]
          /\ Fits(s)}

\* The dispatched instructions with their tags, order ids and waits.
Tagged(s, in) ==
  [n \in DOMAIN s |-> [tag |-> TagFor(n), order |-> orderId + n - 1,
                       kind |-> s[n].kind, waits |-> SourcesOf(s, n, in)]]

-----------------------------------------------------------------------------
\* dispatch_unit: the clocked block.

ReadyTags(in) == {w.tag : w \in in.wb} \cup in.early

\* Mutant: a flush frees no tag.
KeptTag(f, in, t) == \E c \in in.commit : c.tag = t

\* A commit frees its tag, a flush the tags behind it.
FreedTag(f, in, t) ==
  \/ \E c \in in.commit : c.tag = t
  \/ tags[t].live /\ FlushKills(f, tags[t].order)

TagsNext(f, in, s) ==
  [t \in Tags |->
     IF \E n \in DOMAIN s : TagFor(n) = t
     THEN [FreeTag EXCEPT !.live = TRUE,
             !.order = orderId + (CHOOSE n \in DOMAIN s : TagFor(n) = t) - 1]
     ELSE IF FreedTag(f, in, t) THEN FreeTag
     ELSE IF t \in ReadyTags(in)
     THEN [tags[t] EXCEPT !.ready = TRUE, !.readyOrder = tags[t].order]
     ELSE tags[t]]

WritersOf(s, r) == {n \in DOMAIN s : s[n].rd = r}

\* The table names the youngest writer.  A flush empties the entries behind
\* it; nothing puts back what they named before.
ResultNext(f, in, s) ==
  [r \in Regs |->
     IF WritersOf(s, r) # {}
     THEN LET n == CHOOSE n \in WritersOf(s, r) : \A m \in WritersOf(s, r) : m <= n
          IN  [tag |-> TagFor(n), order |-> orderId + n - 1]
     ELSE IF FlushKills(f, result[r].order) \/ result[r] \in in.commit
     THEN NoProducer
     ELSE result[r]]

-----------------------------------------------------------------------------
\* The rest of the core.

\* The youngest of the instructions S that write r.
Producer(S, r) ==
  {p \in S : p.ins.rd = r /\ \A q \in S : q.ins.rd = r => q.order <= p.order}

\* needs holds the producers of the sources by the program, not by the table.
Entering(s) ==
  {[order |-> orderId + n - 1, tag |-> TagFor(n), ins |-> s[n],
    stage |-> IF s[n].kind \in HeldKinds THEN "waiting" ELSE "issued",
    hidden |-> FALSE,
    needs |-> UNION {IF n = 2 /\ s[1].rd = r THEN {orderId}
                     ELSE {p.order : p \in Producer(flight, r)} :
                     r \in s[n].srcs \ {0}}] : n \in DOMAIN s}

\* The reorder buffer commits its oldest instruction once it is written, the
\* write-back of this cycle included, unless a flush or a walk holds it.
CommitsNow(f, wb) ==
  {x \in flight : /\ \A y \in flight : x.order <= y.order
                  /\ x.stage = "written" \/ x \in wb
                  /\ ~FlushKills(f, x.order) /\ walking = 0}

\* History: a cancelled instruction had taken x's entry in the table.
Hidden(x, killed) ==
  x.hidden \/ \E k \in killed : k.ins.rd = x.ins.rd /\ k.ins.rd # 0

Advanced(x, wb, early, issuing) ==
  CASE x \in wb -> [x EXCEPT !.stage = "written"]
    [] x \in early \ wb -> [x EXCEPT !.stage = "answered"]
    [] x.order \in issuing -> [x EXCEPT !.stage = "issued"]
    [] OTHER -> x

SchedCycle(wb, early, trap, inhibit) ==
  LET f == FlushNow(trap)
      quiet == Inputs(f, wb, early, <<>>, inhibit)
      issuing == {iq[i].order : i \in Selected(quiet)}
      leaving == CommitsNow(f, wb)
      killed == {x \in flight : FlushKills(f, x.order)}
  IN  \E s \in Offers(f) :
        LET in == [quiet EXCEPT !.disp = Held(Tagged(s, quiet))]
        IN  /\ IqCycle(in)
            /\ tags' = TagsNext(f, in, s)
            /\ result' = ResultNext(f, in, s)
            /\ flight' = {[Advanced(x, wb, early, issuing) EXCEPT
                              !.hidden = Hidden(x, killed)] :
                            x \in flight \ (leaving \cup killed)} \cup Entering(s)
            /\ committing' = leaving
            /\ \E miss \in IF Mispredicts THEN BOOLEAN ELSE {FALSE} :
                 resolved' = {[order |-> b.order, miss |-> miss] :
                                b \in {x \in wb \ killed : x.ins.kind = "branch"}}
            /\ walking' = IF f.valid /\ flight # {}
                          THEN walking + Cardinality(killed) + 1
                          ELSE IF walking > 0 THEN walking - 1 ELSE 0
            /\ orderId' = orderId + Len(s)
            /\ overfilled' = (Overfills(in) \/ (overfilled /\ ~Empties(in)))

Step ==
  \E wb \in WriteBackSets, early \in Announcements, inhibit \in BOOLEAN :
    SchedCycle(wb, early, FALSE, inhibit)
Trap ==
  /\ Traps /\ flight # {} /\ walking = 0
  /\ \E wb \in WriteBackSets, inhibit \in BOOLEAN : SchedCycle(wb, {}, TRUE, inhibit)

SchedInit ==
  /\ IqInit
  /\ tags = [t \in Tags |-> FreeTag]
  /\ result = [r \in Regs |-> NoProducer]
  /\ flight = {} /\ committing = {} /\ resolved = {} /\ walking = 0
  /\ orderId = 0 /\ overfilled = FALSE

SchedNext == Step \/ Trap
SchedSpec == SchedInit /\ [][SchedNext]_schedVars

\* The clock ticks, the queue is not inhibited for ever, and the units answer:
\* whatever else happens, cycles come in which something that executes writes
\* back.
Ticks ==
  \E wb \in WriteBackSets :
    (Executing # {} => wb # {}) /\ SchedCycle(wb, {}, FALSE, FALSE)

FairSchedSpec == SchedSpec /\ WF_schedVars(Ticks)

-----------------------------------------------------------------------------
Waits == [tag : Tags, order : Nat]

SchedTypeOK ==
  /\ \A i \in IqSlots :
       /\ iq[i].tag \in 0 .. NumTags /\ iq[i].order \in 0 .. MaxOrder
       /\ iq[i].waits \subseteq Waits /\ iq[i].hold \in 0 .. WakeHoldCycles
  /\ \A k \in IqSlots : ring[k].slot \in IqSlots /\ ring[k].order \in Nat
  /\ ringHead \in IqSlots /\ ringTail \in IqSlots
  /\ ringCount \in 0 .. StoreCountMod - 1
  /\ \A r \in Regs : result[r] = NoProducer \/ result[r] \in Waits
  /\ overfilled \in BOOLEAN

\* An instruction leaves the queue with its operands: every older instruction
\* in flight that the program makes it depend on has its result, whatever the
\* table said when it was dispatched (dispatch_unit.v's reg_result, tag_ready_v
\* and the wake-ups of issue_queue.v).  The exception is a producer that the
\* table forgot because a cancelled instruction had taken its entry.
OperandsReady ==
  \A x \in flight : x.ins.kind \in HeldKinds /\ x.stage # "waiting" =>
    \A p \in flight :
      p.order \in x.needs => p.stage \in {"answered", "written"} \/ p.hidden

\* The same without the exception: dispatch_unit.v:336 calls reg_result the map
\* from architectural registers to the "producing tag".
EveryOperandReady ==
  \A x \in flight : x.ins.kind \in HeldKinds /\ x.stage # "waiting" =>
    \A p \in flight : p.order \in x.needs => p.stage \in {"answered", "written"}

\* No wake-up is lost: an entry waits only for a tag whose owner is in flight
\* and has its result still to write back, although write-backs, announced
\* results, commits, flushes and dispatches of a cycle meet in the table and in
\* the queue.
NoLostWakeup ==
  \A i \in IqSlots : iq[i].valid /\ ~iq[i].issued =>
    \A w \in iq[i].waits :
      \E x \in flight : TagOf(x) = w /\ x.stage # "written"

\* A tag names one instruction in flight, and a tag nobody holds is free: none
\* leaks through a flush that meets commits.
TagsNameOne ==
  /\ \A t \in Tags : tags[t].live <=>
       \E x \in flight \cup committing : x.tag = t /\ x.order = tags[t].order
  /\ \A x, y \in flight \cup committing : x.tag = y.tag => x.order = y.order

\* A load or store leaves the memory queue only when every older store has
\* retired, which the store buffer relies on: issue_queue.v:13 has it that
\* "CHECK_LOAD_STORE_ORDER=1 prevents loads from bypassing older stores".  That
\* holds until the ring has taken a store too many, behind dead ones, and again
\* from the next trap on.
LoadsStayBehindStores ==
  ~overfilled =>
    \A x, y \in flight :
      /\ x.ins.kind \in {"load", "store"}
      /\ y.ins.kind = "store" /\ y.order < x.order
      => x.stage = "waiting"

\* Every instruction in the queue leaves it: what blocks a load behind a dead
\* store, or an entry behind a lost tag, goes away, and a program that ends
\* (MaxOrder) leaves nothing waiting.
EveryWaitEnds == <>[](\A x \in flight : x.stage # "waiting")
=============================================================================
