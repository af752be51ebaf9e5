------------------------------- MODULE Pipe1 -------------------------------
(***************************************************************************)
(* Execution pipe 1: the candidate registers and busy flags of the         *)
(* dispatch unit, the arbiter between the three units, the two operand     *)
(* stages, the multiplier, the divider, the held memory request, and the   *)
(* arbitration for write-back port 1 (src/rtl/dispatch_unit.v,             *)
(* iq_pipe1_arbiter.v, exec_pipe1.v, mul_unit.v, div_unit.v and            *)
(* sifang_core.v).                                                         *)
(*                                                                         *)
(* An instruction is its order id.  The issue queues are the set waiting,  *)
(* in which any instruction may be ready; the load/store shell accepts the *)
(* held request when it is free and answers when it likes.  Its tag is     *)
(* live, in tag_live_map, until a flush kills the instruction; what        *)
(* becomes of an answered one is the reorder buffer's affair.              *)
(***************************************************************************)
EXTENDS Integers, Sequences, FiniteSets

CONSTANTS
  DivCycles,   \* iterations of the divider (32 in the code)
  Programs,    \* bound: the programs, as sequences of units
  MaxOrder     \* bound: instructions dispatched in a behaviour

Units == {"MEM", "MUL", "DIV"}
None == 0

ASSUME Pipe1Assumption ==
  /\ DivCycles \in Nat \ {0} /\ MaxOrder \in Nat /\ Programs \subseteq Seq(Units)

VARIABLES
  unitOf,     \* the program so far: the unit of each instruction
  waiting,    \* in an issue queue, not issued
  dead,       \* killed by a flush
  answered,   \* written back while live
  cand,       \* p1_mem_cand, p1_mul_cand, p1_div_cand
  busy,       \* mem_fu_busy, mul_fu_busy, div_fu_busy
  memOrder,   \* mem_fu_order_id
  preRo,      \* p1_pre_ro
  ro,         \* ro1
  mul,        \* s1, s2, s3 of the multiplier
  div,        \* [order, left, done]: sv_order_id, 32 - cnt if running, done_r
  req,        \* mem_req of exec_pipe1
  lsu,        \* what the load/store shell works on
  pend,       \* wb1_div_pending, wb1_mul_pending, wb1_mem_pending
  cut,        \* history: the divisions that a trap has found in the divider
  dropped     \* history: the divisions that came while it worked on such a one

pipe1Vars == <<unitOf, waiting, dead, answered, cand, busy, memOrder, preRo,
               ro, mul, div, req, lsu, pend, cut, dropped>>

Orders == 1 .. Len(unitOf)
Is(i, u) == i # None /\ unitOf[i] = u
If(i, cond) == IF cond THEN i ELSE None

Pipe1Init ==
  /\ unitOf = <<>> /\ waiting = {} /\ dead = {} /\ answered = {}
  /\ cand = [u \in Units |-> None] /\ busy = [u \in Units |-> FALSE]
  /\ memOrder = 0 /\ preRo = None /\ ro = None /\ mul = <<None, None, None>>
  /\ div = [order |-> None, left |-> 0, done |-> FALSE]
  /\ req = None /\ lsu = None /\ pend = [u \in Units |-> None]
  /\ cut = {} /\ dropped = {}

-----------------------------------------------------------------------------
\* A redirect kills what is younger than the redirecting instruction, a trap
\* everything.

NoFlush == [trap |-> FALSE, after |-> MaxOrder]
Trap == [trap |-> TRUE, after |-> 0]
Redirect(o) == [trap |-> FALSE, after |-> o]

FlushesNow == {NoFlush, Trap} \cup {Redirect(o) : o \in 0 .. Len(unitOf) - 1}

Kills(f, i) == i > f.after
Survivor(f, i) == If(i, ~Kills(f, i))

-----------------------------------------------------------------------------
\* Write-back port 1: the divider before the multiplier before memory, and of
\* one source the pending result before the current one.

\* What the sources show; a memory response counts only while its tag is live.
Current(answers) ==
  [u \in Units |-> CASE u = "DIV" -> If(div.order, div.done)
                     [] u = "MUL" -> mul[3]
                     [] u = "MEM" -> If(lsu, answers /\ lsu \notin dead)]

Available(curr) == {u \in Units : pend[u] # None \/ curr[u] # None}
EmitsFrom(curr) ==
  IF "DIV" \in Available(curr) THEN {"DIV"}
  ELSE IF "MUL" \in Available(curr) THEN {"MUL"} ELSE Available(curr)
Emitted(curr, u) == IF pend[u] # None THEN pend[u] ELSE curr[u]

\* wb1_valid_safe: the sources and results the dispatch unit sees.
SafeFrom(curr) == {u \in EmitsFrom(curr) : Emitted(curr, u) \notin dead}

\* A result that finds its register full and not being emptied is lost.
PendingNext(curr, u) ==
  LET emits == u \in EmitsFrom(curr)
      captures == curr[u] # None /\ ~(emits /\ pend[u] = None)
  IN  IF captures /\ (pend[u] = None \/ emits) THEN curr[u]
      ELSE If(pend[u], ~emits)

-----------------------------------------------------------------------------
\* Issue: one candidate register per unit, the oldest free to go wins.

\* Only the memory unit may issue in the cycle of its own write-back.
Blocks(curr, u) == busy[u] /\ ~(u = "MEM" /\ u \in SafeFrom(curr))

Contenders(f, curr) ==
  {u \in Units : cand[u] # None /\ ~Kills(f, cand[u]) /\ ~Blocks(curr, u)}
Winners(f, curr) ==
  {u \in Contenders(f, curr) :
     \A v \in Contenders(f, curr) : cand[u] <= cand[v]}

Inhibited(f, curr, u) ==
  Blocks(curr, u) \/ (cand[u] # None /\ u \notin Winners(f, curr))

\* What each queue issues: an instruction of its unit, or nothing.
IssueChoices(f, curr) ==
  {raw \in [Units -> waiting \cup {None}] :
     \A u \in Units : raw[u] = None \/ (Is(raw[u], u) /\ ~Inhibited(f, curr, u))}

CandNext(f, curr, raw, u) ==
  IF Kills(f, cand[u]) THEN None
  ELSE IF cand[u] = None \/ u \in Winners(f, curr) THEN Survivor(f, raw[u])
  ELSE cand[u]

\* Not the code: any redirect frees the memory unit, or none does.
FreesByAny(f, u) == f.trap \/ (u = "MEM" /\ f # NoFlush)
FreesByTrap(f, u) == f.trap

FlushFrees(f, u) ==
  f.trap \/ (u = "MEM" /\ busy["MEM"] /\ Kills(f, memOrder))

BusyNext(f, curr, u) ==
  \/ u \in Winners(f, curr)
  \/ busy[u] /\ u \notin SafeFrom(curr) /\ ~FlushFrees(f, u)

Issue(f, curr, raw) ==
  LET won == {cand[u] : u \in Winners(f, curr)}
  IN  /\ cand' = [u \in Units |-> CandNext(f, curr, raw, u)]
      /\ busy' = [u \in Units |-> BusyNext(f, curr, u)]
      /\ memOrder' = IF "MEM" \in Winners(f, curr) THEN cand["MEM"] ELSE memOrder
      /\ preRo' = IF won = {} THEN None ELSE CHOOSE i \in won : TRUE
      /\ ro' = Survivor(f, preRo)

-----------------------------------------------------------------------------
\* Execution.  Multiplier and divider see no flush.

\* Not the code: the multiplier takes whatever is not a memory access.
MultipliedToo(i) == i # None /\ ~Is(i, "MEM")

Multiplied(i) == Is(i, "MUL")

Multiply == mul' = <<If(ro, Multiplied(ro)), mul[1], mul[2]>>

\* While it runs the divider takes nothing in; a division by zero or an
\* overflow (short) is done in the next cycle.  The saved order id is not read
\* while the divider neither runs nor is done; None stands for it.
Divide(short) ==
  div' = IF div.left > 0
         THEN [div EXCEPT !.left = @ - 1, !.done = div.left = 1]
         ELSE IF Is(ro, "DIV")
         THEN [order |-> ro, left |-> IF short THEN 0 ELSE DivCycles,
               done |-> short]
         ELSE [order |-> None, left |-> 0, done |-> FALSE]

\* Not the code: the request is shown for one cycle only.
RequestPulse(f, accept) == If(ro, Is(ro, "MEM") /\ ~Kills(f, ro))

\* The held request; a second one that finds it waiting is dropped.
RequestNext(f, accept) ==
  LET leaves == accept \/ Kills(f, req)
  IN  IF Is(ro, "MEM") /\ ~Kills(f, ro) /\ (req = None \/ leaves)
      THEN ro ELSE If(req, ~leaves)

\* The shell takes the next request at the earliest with its answer.
Memory(f, accept, answers) ==
  /\ answers => lsu # None
  /\ accept => req # None /\ ~Kills(f, req) /\ (lsu = None \/ answers)
  /\ req' = RequestNext(f, accept)
  /\ lsu' = IF accept THEN req ELSE If(Survivor(f, lsu), ~answers)

-----------------------------------------------------------------------------
\* One clock edge.

\* Nothing is dispatched in the cycle of a flush.
Dispatch(f) ==
  {unitOf} \cup {s \in {Append(unitOf, u) : u \in Units} :
                   /\ f = NoFlush /\ Len(s) <= MaxOrder
                   /\ \E p \in Programs :
                        Len(s) <= Len(p) /\ s = SubSeq(p, 1, Len(s))}

Bookkeeping(f, curr, raw, prog) ==
  LET issued == {raw[u] : u \in Units}
  IN  /\ unitOf' = prog
      /\ waiting' = {i \in waiting \ issued : ~Kills(f, i)}
                      \cup (Len(unitOf) + 1 .. Len(prog))
      /\ dead' = dead \cup {i \in Orders : Kills(f, i)}
      /\ answered' = answered \cup {Emitted(curr, u) : u \in SafeFrom(curr)}
      /\ cut' = IF f.trap THEN (cut \cup {div'.order}) \ {None} ELSE cut
      /\ dropped' = dropped \cup
           {i \in {ro} : Is(i, "DIV") /\ div.left > 0 /\ div.order \in cut}

Clock(f, accept, answers, short) ==
  LET curr == Current(answers)
  IN  /\ Multiply /\ Divide(short) /\ Memory(f, accept, answers)
      /\ pend' = [u \in Units |-> PendingNext(curr, u)]
      /\ \E raw \in IssueChoices(f, curr), prog \in Dispatch(f) :
           Issue(f, curr, raw) /\ Bookkeeping(f, curr, raw, prog)

Cycle == \E f \in FlushesNow, accept, answers, short \in BOOLEAN :
           Clock(f, accept, answers, short)

Pipe1Spec == Pipe1Init /\ [][Cycle]_pipe1Vars

\* The clock does not stop, operands become ready, and the shell takes every
\* request and answers it sooner or later (its watchdog, lsu_shell.v:853-871,
\* ends a wait for memory).  No flush is owed to anybody.
QuietCycle == \E accept, answers, short \in BOOLEAN :
                Clock(NoFlush, accept, answers, short)
FairPipe1Spec == Pipe1Spec /\ WF_pipe1Vars(QuietCycle)

-----------------------------------------------------------------------------
\* Properties.

\* Registers hold instructions of the program, and each unit its own.
Pipe1TypeOK ==
  /\ unitOf \in Seq(Units) /\ Len(unitOf) <= MaxOrder
  /\ waiting \subseteq Orders /\ dead \subseteq Orders
  /\ answered \subseteq Orders /\ cut \subseteq dead /\ dropped \subseteq Orders
  /\ \A u \in Units : \A i \in {cand[u], pend[u]} : i # None => Is(i, u)
  /\ busy \in [Units -> BOOLEAN] /\ memOrder \in Orders \cup {0}
  /\ {preRo, ro} \subseteq Orders \cup {None}
  /\ \A s \in 1 .. 3 : mul[s] # None => Is(mul[s], "MUL")
  /\ div.order # None => Is(div.order, "DIV")
  /\ div.left \in 0 .. DivCycles /\ div.done \in BOOLEAN
  /\ \A i \in {req, lsu} : i # None => Is(i, "MEM")

\* The places of pipe 1 past the arbiter that hold instruction i, and all.
InUnit(i) ==
  {p \in {"preRo", "ro", "mul1", "mul2", "mul3", "div", "req", "lsu", "pend"} :
     CASE p = "preRo" -> preRo = i
       [] p = "ro"    -> ro = i
       [] p = "mul1"  -> mul[1] = i
       [] p = "mul2"  -> mul[2] = i
       [] p = "mul3"  -> mul[3] = i
       [] p = "div"   -> div.order = i /\ (div.left > 0 \/ div.done)
       [] p = "req"   -> req = i
       [] p = "lsu"   -> lsu = i
       [] p = "pend"  -> \E u \in Units : pend[u] = i}
Places(i) ==
  InUnit(i) \cup {p \in {"waiting", "cand", "answered"} :
     CASE p = "waiting"  -> i \in waiting
       [] p = "cand"     -> \E u \in Units : cand[u] = i
       [] p = "answered" -> i \in answered}

\* Every live instruction is in exactly one place: none is dropped by a full
\* request register or a full pending register, none is issued twice, and none
\* answers and stays.  The exception is a division that arrives while the
\* divider works on one a trap has killed there: the trap frees the unit
\* (dispatch_unit.v:1715), the divider runs on and takes nothing in.
OnePlaceEach ==
  \A i \in Orders \ dead :
    \/ Cardinality(Places(i)) = 1
    \/ Places(i) = {} /\ i \in dropped

\* A unit a live instruction has won is busy until that instruction's own
\* write-back, so that no second live one joins it; for a division that was
\* dropped, until a trap.
Won(i) == Places(i) \cap {"waiting", "cand", "answered"} = {}

BusyWhileWorking ==
  \A i, j \in Orders \ dead :
    Won(i) =>
      /\ busy[unitOf[i]]
      /\ unitOf[i] = "MEM" => memOrder = i
      /\ Won(j) /\ unitOf[j] = unitOf[i] => i = j

\* Every load and store is answered in the end, or killed.
EveryAccessAnswers ==
  \A o \in 1 .. MaxOrder :
    (o \in Orders /\ Is(o, "MEM")) ~> (o \in answered \cup dead)
=============================================================================
