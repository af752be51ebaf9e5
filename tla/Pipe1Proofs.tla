---------------------------- MODULE Pipe1Proofs ----------------------------
(***************************************************************************)
(* Proofs about execution pipe 1, for every number of iterations of the    *)
(* divider, every set of programs and every number of instructions.        *)
(*                                                                         *)
(* Neither request register nor pending registers have room for a second   *)
(* instruction, and multiplier and divider see no flush.  That nothing is  *)
(* lost rests on how few may be under way at once.  Only its write-back or *)
(* a trap frees the divider, and a trap empties all in front of it; so a   *)
(* division past the arbiter is the only one, but for one in the divider   *)
(* that a trap has found there.  At most one multiplication is past the    *)
(* arbiter, because a new one takes longer to arrive than the old one to   *)
(* drain.  So a memory result that has to wait for the write-back port,    *)
(* for a division, a multiplication and a division again at the worst, has *)
(* left before the next access answers.                                    *)
(***************************************************************************)
EXTENDS Pipe1, FiniteSetTheorems, TLAPS

\* The registers hold what they may, beyond the units Pipe1TypeOK gives them.
PipeShape ==
  /\ cand \in [Units -> Orders \cup {None}]
  /\ pend \in [Units -> Orders \cup {None}]
  /\ mul \in [1 .. 3 -> Orders \cup {None}]
  /\ div \in [order : Orders \cup {None}, left : 0 .. DivCycles, done : BOOLEAN]
  /\ req \in Orders \cup {None} /\ lsu \in Orders \cup {None}

TypeInv == Pipe1TypeOK /\ PipeShape

\* Up to the operand stage, and on the way to memory, nothing is dead.
FrontIsLive ==
  /\ waiting \cap dead = {}
  /\ \A u \in Units : cand[u] \notin dead
  /\ preRo \notin dead /\ ro \notin dead /\ req \notin dead /\ lsu \notin dead

Dividing == div.left > 0 \/ div.done

\* One division past the arbiter, and while there is one the unit is busy.  A
\* cut one in the divider is the exception.
OneDivision ==
  /\ pend["DIV"] = None
  /\ Is(preRo, "DIV") => busy["DIV"] /\ ~Is(ro, "DIV")
  /\ Is(ro, "DIV") => busy["DIV"]
  /\ Is(preRo, "DIV") \/ Is(ro, "DIV") => (Dividing => div.order \in cut)
  /\ Dividing => div.order # None /\ (busy["DIV"] \/ div.order \in cut)
  /\ ~(div.left > 0 /\ div.done)

\* One multiplication past the arbiter; a pending result may overlap with the
\* next at its start, but not while the divider holds the port.  Past a trap
\* the multiplier is free with a dead one in it, and all in front is empty.
OneMultiplication ==
  /\ Is(preRo, "MUL") => ~Is(ro, "MUL") /\ \A s \in 1 .. 3 : mul[s] = None
  /\ Is(ro, "MUL") => pend["MUL"] = None /\ \A s \in 1 .. 3 : mul[s] = None
  /\ \A s \in 1 .. 3 : mul[s] # None =>
       pend["MUL"] = None /\ \A t \in 1 .. 3 : mul[t] # None => s = t
  /\ pend["MUL"] # None /\ div.done =>
       ~Is(preRo, "MUL") /\ ~Is(preRo, "DIV") /\ ~Is(ro, "DIV")
  /\ ~busy["MUL"] =>
       /\ ~Is(preRo, "MUL") /\ ~Is(ro, "MUL")
       /\ mul[1] # None => waiting = {}
       /\ mul[1] # None \/ mul[2] # None => \A u \in Units : cand[u] = None
       /\ \A s \in 1 .. 3 : mul[s] # None => preRo = None /\ ro = None

\* The write-back port is taken by the divider or the multiplier now; a
\* division, a multiplication, is to be there within n cycles.
PortTaken == div.done \/ mul[3] # None \/ pend["MUL"] # None
Due(n) == div.done \/ div.left \in 1 .. n
Mult(n) == pend["MUL"] # None \/ \E s \in 3 - n .. 3 : mul[s] # None

\* A memory result that waits for the port has left it before the next access
\* can answer: the nearer that access, the fewer may be ahead of the result.
PortFreesInTime ==
  pend["MEM"] # None =>
    /\ req = None /\ lsu = None
    /\ Is(ro, "MEM") => ~PortTaken
    /\ Is(preRo, "MEM") => /\ ~(Due(1) /\ Is(ro, "DIV"))
                           /\ ~(Due(1) /\ Mult(1)) /\ ~(Is(ro, "DIV") /\ Mult(1))
    /\ ~(Due(2) /\ Mult(2) /\ (Is(ro, "DIV") \/ Is(preRo, "DIV")))

PipeInv ==
  /\ TypeInv /\ FrontIsLive /\ OnePlaceEach /\ BusyWhileWorking
  /\ OneDivision /\ OneMultiplication /\ PortFreesInTime

-----------------------------------------------------------------------------
\* A cycle with all its inputs chosen: the flush, the shell's and the
\* divider's answers, what the queues issue, and the program afterwards.
StepBy(f, accept, answers, short, raw, prog) ==
  LET curr == Current(answers)
  IN  /\ Issue(f, curr, raw)
      /\ Multiply /\ Divide(short) /\ Memory(f, accept, answers)
      /\ pend' = [u \in Units |-> PendingNext(curr, u)]
      /\ Bookkeeping(f, curr, raw, prog)

LEMMA CycleIsAStep ==
  ASSUME Cycle
  PROVE  \E f \in FlushesNow, accept, answers, short \in BOOLEAN :
           \E raw \in IssueChoices(f, Current(answers)), prog \in Dispatch(f) :
             StepBy(f, accept, answers, short, raw, prog)
BY DEF Cycle, Clock, StepBy

\* The flushes of a cycle: none, one that spares what is old enough, or all.
LEMMA FlushIsTyped ==
  ASSUME TypeInv, NEW f \in FlushesNow
  PROVE  /\ f.after \in Nat
         /\ f = NoFlush => \A i \in Orders : ~Kills(f, i)
         /\ f # NoFlush => f.after < Len(unitOf) \/ f.trap
         /\ f.trap => \A i \in Orders : Kills(f, i)
         /\ ~Kills(f, None)
<1>1. Len(unitOf) \in Nat /\ Len(unitOf) <= MaxOrder /\ MaxOrder \in Nat
  BY Pipe1Assumption DEF TypeInv, Pipe1TypeOK
<1>2. CASE f = NoFlush
  BY <1>1, <1>2 DEF NoFlush, Kills, Orders, None
<1>3. CASE f \in {Trap}
  <2>1. f.trap /\ f.after = 0 /\ f # NoFlush
    BY <1>3 DEF Trap, NoFlush
  <2> QED
    BY <1>1, <2>1 DEF Kills, Orders, None
<1>4. CASE \E o \in 0 .. Len(unitOf) - 1 : f = Redirect(o)
  <2>1. ~f.trap /\ f.after \in 0 .. Len(unitOf) - 1
    BY <1>4 DEF Redirect
  <2>2. f # NoFlush
    BY <1>1, <2>1 DEF NoFlush
  <2> QED
    BY <1>1, <2>1, <2>2 DEF Kills, None
<1> QED
  BY <1>2, <1>3, <1>4 DEF FlushesNow

\* The program only grows, and only in a cycle without a flush.
LEMMA ProgramGrows ==
  ASSUME TypeInv, NEW f \in FlushesNow, NEW prog \in Dispatch(f), unitOf' = prog
  PROVE  /\ unitOf' \in Seq(Units) /\ Len(unitOf') <= MaxOrder
         /\ Len(unitOf') \in Nat /\ Len(unitOf') >= Len(unitOf)
         /\ Orders \subseteq Orders' /\ None \notin Orders'
         /\ Orders' \ Orders = Len(unitOf) + 1 .. Len(prog)
         /\ f # NoFlush => Orders' = Orders
         /\ \A i \in Orders : unitOf'[i] = unitOf[i] /\ unitOf[i] \in Units
<1>1. unitOf \in Seq(Units) /\ Len(unitOf) <= MaxOrder /\ Len(unitOf) \in Nat
  BY DEF TypeInv, Pipe1TypeOK
<1>2. CASE prog = unitOf
  BY <1>1, <1>2 DEF Orders, None
<1>3. CASE f = NoFlush /\ Len(prog) <= MaxOrder /\ \E u \in Units : prog = Append(unitOf, u)
  <2>1. /\ prog \in Seq(Units) /\ Len(prog) = Len(unitOf) + 1
        /\ \A i \in 1 .. Len(unitOf) : prog[i] = unitOf[i]
    BY <1>1, <1>3
  <2> QED
    BY <1>1, <1>3, <2>1 DEF Orders, None
<1> QED
  BY <1>2, <1>3 DEF Dispatch

\* What the three sources show, each an instruction of its own unit, and which
\* of them the port takes.
LEMMA SourcesAreTyped ==
  ASSUME TypeInv, NEW answers \in BOOLEAN, NEW curr, curr = Current(answers)
  PROVE  /\ curr["DIV"] = If(div.order, div.done) /\ curr["MUL"] = mul[3]
         /\ curr["MEM"] = If(lsu, answers /\ lsu \notin dead)
         /\ \A u \in Units : /\ curr[u] \in Orders \cup {None}
                             /\ curr[u] # None => Is(curr[u], u)
         /\ EmitsFrom(curr) \subseteq Units
         /\ \A u \in EmitsFrom(curr) :
              /\ pend[u] # None \/ curr[u] # None
              /\ Emitted(curr, u) \in Orders /\ Is(Emitted(curr, u), u)
              /\ Emitted(curr, u) = pend[u] \/ Emitted(curr, u) = curr[u]
         /\ \A u, v \in EmitsFrom(curr) : u = v
<1>1. /\ curr["DIV"] = If(div.order, div.done) /\ curr["MUL"] = mul[3]
      /\ curr["MEM"] = If(lsu, answers /\ lsu \notin dead)
  BY DEF Current, Units
<1>2. \A u \in Units : /\ curr[u] \in Orders \cup {None}
                       /\ curr[u] # None => Is(curr[u], u)
  BY <1>1 DEF Units, If, TypeInv, Pipe1TypeOK, PipeShape
<1>3. /\ EmitsFrom(curr) \subseteq Available(curr)
      /\ \A u, v \in EmitsFrom(curr) : u = v
  BY DEF EmitsFrom, Available, Units
<1>4. \A u \in Available(curr) :
        /\ u \in Units
        /\ pend[u] # None \/ curr[u] # None
        /\ Emitted(curr, u) \in Orders /\ Is(Emitted(curr, u), u)
        /\ Emitted(curr, u) = pend[u] \/ Emitted(curr, u) = curr[u]
  BY <1>2 DEF Available, Emitted, TypeInv, Pipe1TypeOK, PipeShape
<1> QED
  BY <1>1, <1>2, <1>3, <1>4

\* At most one candidate goes on, and it is one that may.
LEMMA OneWins ==
  ASSUME TypeInv, NEW f, NEW curr
  PROVE  /\ \A u \in Winners(f, curr) :
              /\ u \in Units /\ cand[u] \in Orders /\ Is(cand[u], u)
              /\ ~Kills(f, cand[u]) /\ ~Blocks(curr, u)
         /\ \A u, v \in Winners(f, curr) : u = v
<1>1. \A u \in Contenders(f, curr) :
        /\ u \in Units /\ cand[u] \in Orders /\ Is(cand[u], u)
        /\ ~Kills(f, cand[u]) /\ ~Blocks(curr, u)
  BY DEF Contenders, TypeInv, Pipe1TypeOK, PipeShape
<1>2. Orders \subseteq Int
  BY DEF Orders
<1>3. \A u, v \in Winners(f, curr) : cand[u] = cand[v]
  <2> TAKE u, v \in Winners(f, curr)
  <2>1. u \in Contenders(f, curr) /\ v \in Contenders(f, curr)
    BY DEF Winners
  <2>2. cand[u] <= cand[v] /\ cand[v] <= cand[u]
    BY <2>1 DEF Winners
  <2>3. cand[u] \in Int /\ cand[v] \in Int
    BY <1>1, <1>2, <2>1
  <2> QED
    BY <2>2, <2>3
<1>4. \A u \in Winners(f, curr) : u \in Contenders(f, curr)
  BY DEF Winners
<1> QED
  BY <1>1, <1>3, <1>4 DEF Is

\* What the queues issue replaces a candidate only when that one goes on.
LEMMA IssueIsTyped ==
  ASSUME TypeInv, NEW f, NEW curr, NEW raw \in IssueChoices(f, curr)
  PROVE  \A u \in Units :
           /\ raw[u] \in waiting \cup {None} /\ raw[u] \in Orders \cup {None}
           /\ raw[u] # None =>
                /\ Is(raw[u], u) /\ raw[u] \in waiting
                /\ cand[u] = None \/ u \in Winners(f, curr)
BY DEF IssueChoices, Inhibited, TypeInv, Pipe1TypeOK, None

\* What a unit's candidate and the first stage behind the arbiter become.
LEMMA FrontMoves ==
  ASSUME TypeInv, NEW f \in FlushesNow, NEW curr, NEW raw \in IssueChoices(f, curr),
         Issue(f, curr, raw)
  PROVE  /\ \A u \in Units :
              /\ cand'[u] = CandNext(f, curr, raw, u)
              /\ busy'[u] = BusyNext(f, curr, u)
              /\ cand'[u] # None =>
                   /\ ~Kills(f, cand'[u])
                   /\ \/ cand'[u] = raw[u]
                      \/ cand'[u] = cand[u] /\ u \notin Winners(f, curr)
              /\ raw[u] # None /\ ~Kills(f, raw[u]) => cand'[u] = raw[u]
              /\ cand[u] # None /\ ~Kills(f, cand[u]) /\ u \notin Winners(f, curr)
                   => cand'[u] = cand[u]
         /\ Winners(f, curr) = {} => preRo' = None
         /\ \A u \in Winners(f, curr) : preRo' = cand[u]
         /\ ro' = If(preRo, ~Kills(f, preRo))
<1>1. \A u \in Units : /\ cand'[u] = CandNext(f, curr, raw, u)
                       /\ busy'[u] = BusyNext(f, curr, u)
  BY DEF Issue
<1>2. ~Kills(f, None)
  BY FlushIsTyped
<1>3. \A u \in Units : raw[u] # None => cand[u] = None \/ u \in Winners(f, curr)
  BY IssueIsTyped
<1>4. \A u \in Winners(f, curr) : ~Kills(f, cand[u])
  BY OneWins
<1>5. \A u \in Units :
        /\ cand'[u] # None =>
             /\ ~Kills(f, cand'[u])
             /\ \/ cand'[u] = raw[u]
                \/ cand'[u] = cand[u] /\ u \notin Winners(f, curr)
        /\ raw[u] # None /\ ~Kills(f, raw[u]) => cand'[u] = raw[u]
        /\ cand[u] # None /\ ~Kills(f, cand[u]) /\ u \notin Winners(f, curr)
             => cand'[u] = cand[u]
  BY <1>1, <1>2, <1>3, <1>4 DEF CandNext, Survivor, If
<1>6. /\ Winners(f, curr) = {} => preRo' = None
      /\ \A u \in Winners(f, curr) : preRo' = cand[u]
  <2> DEFINE won == {cand[u] : u \in Winners(f, curr)}
  <2>1. preRo' = IF won = {} THEN None ELSE CHOOSE i \in won : TRUE
    BY DEF Issue
  <2>2. \A u \in Winners(f, curr) : won = {cand[u]}
    BY OneWins
  <2> QED
    BY <2>1, <2>2
<1>7. ro' = If(preRo, ~Kills(f, preRo))
  BY DEF Issue, Survivor
<1> QED
  BY <1>1, <1>5, <1>6, <1>7

\* What the stages behind the operands become.
LEMMA UnitsMove ==
  ASSUME TypeInv, NEW f \in FlushesNow, NEW accept \in BOOLEAN,
         NEW answers \in BOOLEAN, NEW short \in BOOLEAN,
         Multiply, Divide(short), Memory(f, accept, answers)
  PROVE  /\ mul' \in [1 .. 3 -> Orders \cup {None}]
         /\ mul'[1] = If(ro, Is(ro, "MUL")) /\ mul'[2] = mul[1] /\ mul'[3] = mul[2]
         /\ div.left > 0 =>
              /\ div'.order = div.order /\ div'.left = div.left - 1
              /\ div'.done <=> div.left = 1
         /\ div.left = 0 /\ Is(ro, "DIV") =>
              /\ div'.order = ro /\ div'.left \in {0, DivCycles}
              /\ div'.left > 0 <=> ~div'.done
         /\ div.left = 0 /\ ~Is(ro, "DIV") =>
              div'.order = None /\ div'.left = 0 /\ ~div'.done
         /\ div' \in [order : Orders \cup {None}, left : 0 .. DivCycles, done : BOOLEAN]
         /\ answers => lsu # None
         /\ accept => req # None /\ ~Kills(f, req) /\ (lsu = None \/ answers)
         /\ req' = RequestNext(f, accept)
         /\ lsu' = IF accept THEN req ELSE If(If(lsu, ~Kills(f, lsu)), ~answers)
         /\ req' \in Orders \cup {None} /\ lsu' \in Orders \cup {None}
<1>1. /\ ro \in Orders \cup {None} /\ mul \in [1 .. 3 -> Orders \cup {None}]
      /\ div \in [order : Orders \cup {None}, left : 0 .. DivCycles, done : BOOLEAN]
      /\ req \in Orders \cup {None} /\ lsu \in Orders \cup {None}
      /\ DivCycles \in Nat /\ DivCycles > 0
  BY Pipe1Assumption DEF TypeInv, Pipe1TypeOK, PipeShape
<1>2. /\ mul' \in [1 .. 3 -> Orders \cup {None}]
      /\ mul'[1] = If(ro, Is(ro, "MUL")) /\ mul'[2] = mul[1] /\ mul'[3] = mul[2]
  <2>1. If(ro, Is(ro, "MUL")) \in Orders \cup {None}
    BY <1>1 DEF If
  <2>2. mul' = <<If(ro, Is(ro, "MUL")), mul[1], mul[2]>>
    BY DEF Multiply, Multiplied
  <2> QED
    BY <1>1, <2>1, <2>2
<1>3. CASE div.left > 0
  <2>1. div' = [div EXCEPT !.left = div.left - 1, !.done = (div.left = 1)]
    BY <1>3 DEF Divide
  <2>2. div.left - 1 \in 0 .. DivCycles
    BY <1>1, <1>3
  <2>3. /\ div'.order = div.order /\ div'.left = div.left - 1
        /\ div'.done <=> div.left = 1
    BY <1>1, <2>1
  <2>4. div' \in [order : Orders \cup {None}, left : 0 .. DivCycles, done : BOOLEAN]
    BY <1>1, <2>1, <2>2
  <2> QED
    BY <1>1, <1>2, <1>3, <2>3, <2>4 DEF Memory, RequestNext, Survivor, If
<1>4. CASE div.left = 0 /\ Is(ro, "DIV")
  <2>1. div' = [order |-> ro, left |-> IF short THEN 0 ELSE DivCycles, done |-> short]
    BY <1>4 DEF Divide
  <2> QED
    BY <1>1, <1>2, <1>4, <2>1 DEF Memory, RequestNext, Survivor, If
<1>5. CASE div.left = 0 /\ ~Is(ro, "DIV")
  <2>1. div' = [order |-> None, left |-> 0, done |-> FALSE]
    BY <1>5 DEF Divide
  <2> QED
    BY <1>1, <1>2, <1>5, <2>1 DEF Memory, RequestNext, Survivor, If
<1> QED
  BY <1>1, <1>3, <1>4, <1>5

\* Reset is typed.
LEMMA TypeInvInit == Pipe1Init => TypeInv
<1> SUFFICES ASSUME Pipe1Init PROVE TypeInv
  OBVIOUS
<1> USE DEF Pipe1Init
<1>1. Len(unitOf) = 0 /\ unitOf \in Seq(Units) /\ 0 \in 0 .. DivCycles
  BY Pipe1Assumption
<1>2. PipeShape
  BY <1>1 DEF PipeShape
<1>3. Pipe1TypeOK
  BY <1>1, Pipe1Assumption DEF Pipe1TypeOK, None
<1> QED
  BY <1>2, <1>3 DEF TypeInv

\* Types are kept by every cycle, traps with the divider running included.
LEMMA StepKeepsTypes ==
  ASSUME TypeInv, NEW f \in FlushesNow, NEW accept \in BOOLEAN,
         NEW answers \in BOOLEAN, NEW short \in BOOLEAN,
         NEW raw \in IssueChoices(f, Current(answers)), NEW prog \in Dispatch(f),
         StepBy(f, accept, answers, short, raw, prog)
  PROVE  TypeInv'
<1> DEFINE curr == Current(answers)
<1>1. /\ Issue(f, curr, raw) /\ Multiply /\ Divide(short)
      /\ Memory(f, accept, answers)
      /\ pend' = [u \in Units |-> PendingNext(curr, u)]
      /\ Bookkeeping(f, curr, raw, prog)
  BY DEF StepBy
<1>2. unitOf' = prog
  BY <1>1 DEF Bookkeeping
<1>3. /\ unitOf' \in Seq(Units) /\ Len(unitOf') <= MaxOrder
      /\ Orders \subseteq Orders' /\ Orders' \ Orders = Len(unitOf) + 1 .. Len(prog)
      /\ \A i \in Orders : unitOf'[i] = unitOf[i]
  BY <1>2, ProgramGrows
<1>4. \A i \in Orders : \A u \in Units : Is(i, u) => unitOf'[i] = u
  BY <1>3 DEF Is
<1>5. /\ \A u \in Units : /\ curr[u] \in Orders \cup {None}
                          /\ curr[u] # None => Is(curr[u], u)
      /\ \A u \in EmitsFrom(curr) : Emitted(curr, u) \in Orders /\ u \in Units
  BY SourcesAreTyped
<1> HIDE DEF curr
<1>6. /\ \A u \in Units : /\ cand'[u] \in Orders \cup {None}
                          /\ cand'[u] # None => Is(cand'[u], u)
      /\ preRo' \in Orders \cup {None} /\ ro' \in Orders \cup {None}
      /\ cand' \in [Units -> Orders \cup {None}]
  <2>1. \A u \in Units : /\ cand[u] \in Orders \cup {None}
                         /\ cand[u] # None => Is(cand[u], u)
                         /\ raw[u] \in Orders \cup {None}
                         /\ raw[u] # None => Is(raw[u], u)
    BY IssueIsTyped DEF curr, TypeInv, PipeShape, Pipe1TypeOK
  <2>2. \A u \in Units : /\ cand'[u] \in Orders \cup {None}
                         /\ cand'[u] # None => Is(cand'[u], u)
    BY <1>1, <2>1, FrontMoves DEF curr
  <2>3. preRo' \in Orders \cup {None}
    BY <1>1, FrontMoves, OneWins DEF curr
  <2>4. ro' \in Orders \cup {None}
    BY <1>1, FrontMoves DEF curr, If, TypeInv, Pipe1TypeOK
  <2>5. cand' = [u \in Units |-> CandNext(f, curr, raw, u)]
    BY <1>1 DEF Issue
  <2> QED
    BY <2>2, <2>3, <2>4, <2>5
<1>7. busy' \in [Units -> BOOLEAN] /\ memOrder' \in Orders \cup {0}
  <2>1. \A u \in Units : BusyNext(f, curr, u) \in BOOLEAN
    BY DEF BusyNext
  <2>2. busy' = [u \in Units |-> BusyNext(f, curr, u)]
    BY <1>1 DEF Issue
  <2>3. memOrder' \in Orders \cup {0}
    BY <1>1, OneWins DEF Issue, TypeInv, Pipe1TypeOK
  <2> QED
    BY <2>1, <2>2, <2>3
<1>8. /\ mul' \in [1 .. 3 -> Orders \cup {None}]
      /\ div' \in [order : Orders \cup {None}, left : 0 .. DivCycles, done : BOOLEAN]
      /\ req' \in Orders \cup {None} /\ lsu' \in Orders \cup {None}
      /\ \A s \in 1 .. 3 : mul'[s] # None => Is(mul'[s], "MUL")
      /\ div'.order # None => Is(div'.order, "DIV")
      /\ req' # None => Is(req', "MEM")
      /\ lsu' # None => Is(lsu', "MEM")
  <2>1. /\ \A s \in 1 .. 3 : mul[s] # None => Is(mul[s], "MUL")
        /\ div.order # None => Is(div.order, "DIV")
        /\ req # None => Is(req, "MEM")
        /\ lsu # None => Is(lsu, "MEM")
        /\ div.left \in Nat
    BY DEF TypeInv, Pipe1TypeOK
  <2>2. /\ mul' \in [1 .. 3 -> Orders \cup {None}]
        /\ div' \in [order : Orders \cup {None}, left : 0 .. DivCycles, done : BOOLEAN]
        /\ req' \in Orders \cup {None} /\ lsu' \in Orders \cup {None}
    BY <1>1, UnitsMove
  <2>3. \A s \in 1 .. 3 : mul'[s] # None => Is(mul'[s], "MUL")
    BY <1>1, <2>1, UnitsMove DEF If
  <2>4. div'.order # None => Is(div'.order, "DIV")
    BY <1>1, <2>1, UnitsMove
  <2>5. req' # None => Is(req', "MEM")
    BY <1>1, <2>1, UnitsMove DEF RequestNext, If
  <2>6. lsu' # None => Is(lsu', "MEM")
    BY <1>1, <2>1, UnitsMove DEF If
  <2> QED
    BY <2>2, <2>3, <2>4, <2>5, <2>6
<1>9. /\ pend' \in [Units -> Orders \cup {None}]
      /\ \A u \in Units : pend'[u] # None => Is(pend'[u], u)
  <2>1. \A u \in Units : PendingNext(curr, u) \in {curr[u], pend[u], None}
    BY DEF PendingNext, If
  <2>2. \A u \in Units : /\ pend[u] \in Orders \cup {None}
                         /\ pend[u] # None => Is(pend[u], u)
    BY DEF TypeInv, PipeShape, Pipe1TypeOK
  <2> QED
    BY <1>1, <1>5, <2>1, <2>2
<1>10. /\ waiting' \subseteq Orders' /\ dead' \subseteq Orders'
       /\ answered' \subseteq Orders' /\ cut' \subseteq dead'
       /\ dropped' \subseteq Orders'
  <2>1. /\ waiting \subseteq Orders /\ dead \subseteq Orders
        /\ answered \subseteq Orders /\ cut \subseteq dead
        /\ dropped \subseteq Orders /\ ro \in Orders \cup {None}
    BY DEF TypeInv, Pipe1TypeOK
  <2>2. SafeFrom(curr) \subseteq EmitsFrom(curr)
    BY DEF SafeFrom
  <2>3. cut' \subseteq dead'
    <3>1. /\ dead' = dead \cup {i \in Orders : Kills(f, i)}
          /\ cut' = IF f.trap THEN (cut \cup {div'.order}) \ {None} ELSE cut
      BY <1>1 DEF Bookkeeping
    <3>2. div'.order \in Orders \cup {None}
      BY <1>8
    <3> QED
      BY <2>1, <3>1, <3>2, FlushIsTyped
  <2>4. dropped' \subseteq Orders'
    BY <1>1, <1>3, <2>1 DEF Bookkeeping, Is
  <2> QED
    BY <1>1, <1>3, <1>5, <2>1, <2>2, <2>3, <2>4 DEF Bookkeeping
<1>11. Pipe1TypeOK'
  <2>1. \A u \in Units : /\ cand'[u] # None => unitOf'[cand'[u]] = u
                         /\ pend'[u] # None => unitOf'[pend'[u]] = u
    BY <1>4, <1>6, <1>9
  <2>2. \A s \in 1 .. 3 : mul'[s] # None => unitOf'[mul'[s]] = "MUL"
    BY <1>4, <1>8 DEF Units
  <2>3. div'.order # None => unitOf'[div'.order] = "DIV"
    BY <1>4, <1>8 DEF Units
  <2>4. \A i \in {req', lsu'} : i # None => unitOf'[i] = "MEM"
    BY <1>4, <1>8 DEF Units
  <2>5. /\ memOrder' \in Orders' \cup {0} /\ {preRo', ro'} \subseteq Orders' \cup {None}
        /\ div'.left \in 0 .. DivCycles /\ div'.done \in BOOLEAN
    BY <1>3, <1>6, <1>7, <1>8
  <2> QED
    BY <1>3, <1>7, <1>10, <2>1, <2>2, <2>3, <2>4, <2>5 DEF Pipe1TypeOK, Is
<1>12. PipeShape'
  BY <1>3, <1>6, <1>8, <1>9 DEF PipeShape
<1> QED
  BY <1>11, <1>12 DEF TypeInv

-----------------------------------------------------------------------------
\* The twelve places, and the test for each.
PlaceNames == {"preRo", "ro", "mul1", "mul2", "mul3", "div", "req", "lsu", "pend",
               "waiting", "cand", "answered"}

InDivider(i) == div.order = i /\ (div.left > 0 \/ div.done)

LEMMA PlacesAre ==
  ASSUME NEW i
  PROVE  /\ Places(i) \subseteq PlaceNames /\ InUnit(i) \subseteq Places(i)
         /\ "preRo" \in Places(i) <=> preRo = i
         /\ "ro" \in Places(i) <=> ro = i
         /\ "mul1" \in Places(i) <=> mul[1] = i
         /\ "mul2" \in Places(i) <=> mul[2] = i
         /\ "mul3" \in Places(i) <=> mul[3] = i
         /\ "div" \in Places(i) <=> InDivider(i)
         /\ "req" \in Places(i) <=> req = i
         /\ "lsu" \in Places(i) <=> lsu = i
         /\ "pend" \in Places(i) <=> \E u \in Units : pend[u] = i
         /\ "waiting" \in Places(i) <=> i \in waiting
         /\ "cand" \in Places(i) <=> \E u \in Units : cand[u] = i
         /\ "answered" \in Places(i) <=> i \in answered
         /\ InUnit(i) = Places(i) \ {"waiting", "cand", "answered"}
BY DEF Places, InUnit, PlaceNames, InDivider

LEMMA PlacesAreNext ==
  ASSUME NEW i
  PROVE  /\ Places(i)' \subseteq PlaceNames
         /\ "preRo" \in Places(i)' <=> preRo' = i
         /\ "ro" \in Places(i)' <=> ro' = i
         /\ "mul1" \in Places(i)' <=> mul'[1] = i
         /\ "mul2" \in Places(i)' <=> mul'[2] = i
         /\ "mul3" \in Places(i)' <=> mul'[3] = i
         /\ "div" \in Places(i)' <=> InDivider(i)'
         /\ "req" \in Places(i)' <=> req' = i
         /\ "lsu" \in Places(i)' <=> lsu' = i
         /\ "pend" \in Places(i)' <=> \E u \in Units : pend'[u] = i
         /\ "waiting" \in Places(i)' <=> i \in waiting'
         /\ "cand" \in Places(i)' <=> \E u \in Units : cand'[u] = i
         /\ "answered" \in Places(i)' <=> i \in answered'
         /\ InUnit(i)' = Places(i)' \ {"waiting", "cand", "answered"}
BY DEF Places, InUnit, PlaceNames, InDivider

\* One place is a set of names with one element.
LEMMA OnePlaceMeans ==
  ASSUME NEW P, P \subseteq PlaceNames
  PROVE  Cardinality(P) = 1 <=> \E p \in PlaceNames : P = {p}
<1>1. \A a, b, c : IsFiniteSet({a, b, c})
  <2> TAKE a, b, c
  <2>1. {a, b, c} = ({a} \cup {b}) \cup {c}
    OBVIOUS
  <2>2. IsFiniteSet({a} \cup {b})
    BY FS_Singleton, FS_AddElement
  <2>3. IsFiniteSet(({a} \cup {b}) \cup {c})
    BY <2>2, FS_AddElement
  <2> QED
    BY <2>1, <2>3
<1>2. PlaceNames = ({"preRo", "ro", "mul1"} \cup {"mul2", "mul3", "div"})
                   \cup ({"req", "lsu", "pend"} \cup {"waiting", "cand", "answered"})
  BY DEF PlaceNames
<1>3. IsFiniteSet(PlaceNames)
  BY <1>1, <1>2, FS_Union
<1>4. IsFiniteSet(P)
  BY <1>3, FS_Subset
<1> QED
  BY <1>4, FS_Singleton

\* A division that found the divider running, and is nowhere.
Lost(i) == Places(i) = {} /\ i \in dropped

\* What OnePlaceEach says of one instruction.
LEMMA LivesInOnePlace ==
  ASSUME OnePlaceEach, NEW i \in Orders \ dead
  PROVE  /\ Lost(i) \/ \E p \in PlaceNames : Places(i) = {p}
         /\ \A p, q \in Places(i) : p = q
         /\ InUnit(i) # {} => Won(i)
<1>1. /\ Cardinality(Places(i)) = 1 \/ Lost(i)
      /\ Places(i) \subseteq PlaceNames
      /\ InUnit(i) = Places(i) \ {"waiting", "cand", "answered"}
  BY PlacesAre DEF OnePlaceEach, Lost
<1>2. CASE Cardinality(Places(i)) = 1
  BY <1>1, <1>2, OnePlaceMeans DEF Won
<1>3. CASE Lost(i)
  BY <1>1, <1>3 DEF Lost
<1> QED
  BY <1>1, <1>2, <1>3

\* Live memory accesses past the arbiter exclude each other, and keep the unit
\* busy under their own order id; so does a live multiplication.
LEMMA AccessesExclude ==
  ASSUME PipeInv
  PROVE  /\ req # None => req \in Orders \ dead /\ lsu = None /\ ~Is(ro, "MEM") /\ ~Is(preRo, "MEM")
         /\ lsu # None => lsu \in Orders \ dead /\ ~Is(ro, "MEM") /\ ~Is(preRo, "MEM")
         /\ Is(ro, "MEM") => ~Is(preRo, "MEM")
         /\ \A i \in {req, lsu, ro, preRo, pend["MEM"]} :
              i # None /\ Is(i, "MEM") /\ i \notin dead => busy["MEM"] /\ memOrder = i
         /\ pend["MEM"] # None /\ pend["MEM"] \notin dead => ~Is(preRo, "MEM")
         /\ pend["MUL"] # None /\ pend["MUL"] \notin dead => ~Is(preRo, "MUL")
<1> DEFINE Past == {req, lsu, ro, preRo, pend["MEM"], pend["MUL"]}
<1>1. \A i \in Past : i # None => i \in Orders
  BY DEF PipeInv, TypeInv, Pipe1TypeOK, PipeShape, Units
<1>2. \A i \in Past : i # None /\ i \notin dead => Won(i)
  <2>1. "MEM" \in Units /\ "MUL" \in Units
    BY DEF Units
  <2>2. \A i \in Past : InUnit(i) # {}
    BY <2>1, PlacesAre
  <2> QED
    BY <1>1, <2>2, LivesInOnePlace DEF PipeInv
<1>3. \A i, j \in Past :
        i # None /\ i \notin dead /\ j # None /\ j \notin dead =>
          /\ busy[unitOf[i]]
          /\ unitOf[i] = "MEM" => memOrder = i
          /\ unitOf[j] = unitOf[i] => i = j
  BY <1>1, <1>2 DEF PipeInv, BusyWhileWorking
<1>4. \A i \in Orders \ dead : \A p, q \in Places(i) : p = q
  BY LivesInOnePlace DEF PipeInv
<1>5. /\ req # None => Is(req, "MEM")
      /\ lsu # None => Is(lsu, "MEM")
      /\ \A u \in {"MEM", "MUL"} : pend[u] # None => Is(pend[u], u)
  BY DEF PipeInv, TypeInv, Pipe1TypeOK, Units
<1>6. req \notin dead /\ lsu \notin dead /\ ro \notin dead /\ preRo \notin dead
  BY DEF PipeInv, FrontIsLive
<1>7. /\ req = lsu => req = None
      /\ req = ro => req = None
      /\ req = preRo => req = None
      /\ lsu = ro => lsu = None
      /\ lsu = preRo => lsu = None
      /\ ro = preRo => ro = None
      /\ \A u \in {"MEM", "MUL"} : pend[u] = preRo => preRo = None
  <2>1. \A i \in Past : i # None /\ i \notin dead => \A p, q \in Places(i) : p = q
    BY <1>1, <1>4
  <2> HIDE DEF Past
  <2>2. req \in Past /\ lsu \in Past /\ ro \in Past /\ preRo \in Past
    BY DEF Past
  <2>3. "MEM" \in Units /\ "MUL" \in Units
    BY DEF Units
  <2> QED
    BY <2>1, <2>2, <2>3, <1>6, PlacesAre
<1>8. None \notin Orders
  BY DEF Orders, None
<1>9. \A i \in Past : Is(i, "MEM") => i # None /\ unitOf[i] = "MEM"
  BY DEF Is
<1>10. \A i \in Past : Is(i, "MUL") => i # None /\ unitOf[i] = "MUL"
  BY DEF Is
<1> QED
  BY <1>1, <1>3, <1>5, <1>6, <1>7, <1>8, <1>9, <1>10

\* Where an instruction that is not killed comes from, place by place.
LEMMA LiveMoves ==
  ASSUME PipeInv, NEW f \in FlushesNow, NEW accept \in BOOLEAN,
         NEW answers \in BOOLEAN, NEW short \in BOOLEAN, NEW curr,
         curr = Current(answers),
         NEW raw \in IssueChoices(f, curr), NEW prog \in Dispatch(f),
         StepBy(f, accept, answers, short, raw, prog),
         NEW i \in Orders \ dead, ~Kills(f, i)
  PROVE  /\ i \in waiting' <=> i \in waiting /\ \A u \in Units : raw[u] # i
         /\ (\E u \in Units : cand'[u] = i) <=>
              \/ \E u \in Units : raw[u] = i
              \/ \E u \in Units : cand[u] = i /\ u \notin Winners(f, curr)
         /\ preRo' = i <=> \E u \in Winners(f, curr) : cand[u] = i
         /\ ro' = i <=> preRo = i
         /\ mul'[1] = i <=> ro = i /\ unitOf[i] = "MUL"
         /\ mul'[2] = i <=> mul[1] = i
         /\ mul'[3] = i <=> mul[2] = i
         /\ InDivider(i)' <=> \/ div.order = i /\ div.left > 0
                              \/ ro = i /\ unitOf[i] = "DIV" /\ div.left = 0
         /\ req' = i <=> \/ ro = i /\ unitOf[i] = "MEM"
                         \/ req = i /\ ~accept
         /\ lsu' = i <=> \/ req = i /\ accept
                         \/ lsu = i /\ ~answers
         /\ (\E u \in Units : pend'[u] = i) <=>
              \E u \in Units : /\ curr[u] = i \/ pend[u] = i
                               /\ ~(u \in EmitsFrom(curr) /\ Emitted(curr, u) = i)
         /\ i \in answered' <=>
              \/ i \in answered
              \/ \E u \in EmitsFrom(curr) : Emitted(curr, u) = i
<1>1. /\ Issue(f, curr, raw) /\ Multiply /\ Divide(short)
      /\ Memory(f, accept, answers)
      /\ pend' = [u \in Units |-> PendingNext(curr, u)]
      /\ Bookkeeping(f, curr, raw, prog)
  BY DEF StepBy
<1>2. TypeInv /\ i # None /\ i \in Orders /\ i \notin dead /\ None \notin Orders
  BY DEF PipeInv, Orders, None
<1>3. i \in waiting' <=> i \in waiting /\ \A u \in Units : raw[u] # i
  <2>1. i \notin Len(unitOf) + 1 .. Len(prog)
    BY <1>2 DEF Orders, TypeInv, Pipe1TypeOK
  <2> QED
    BY <1>1, <2>1 DEF Bookkeeping
<1>4. (\E u \in Units : cand'[u] = i) <=>
        \/ \E u \in Units : raw[u] = i
        \/ \E u \in Units : cand[u] = i /\ u \notin Winners(f, curr)
  BY <1>1, <1>2, FrontMoves
<1>5. preRo' = i <=> \E u \in Winners(f, curr) : cand[u] = i
  BY <1>1, <1>2, FrontMoves
<1>6. ro' = i <=> preRo = i
  BY <1>1, <1>2, FrontMoves DEF If
<1>7. /\ mul'[1] = i <=> ro = i /\ unitOf[i] = "MUL"
      /\ mul'[2] = i <=> mul[1] = i
      /\ mul'[3] = i <=> mul[2] = i
  BY <1>1, <1>2, UnitsMove DEF If, Is
<1>8. InDivider(i)' <=> \/ div.order = i /\ div.left > 0
                        \/ ro = i /\ unitOf[i] = "DIV" /\ div.left = 0
  <2>1. div.left \in Nat /\ (div.left = 1 <=> ~(div.left - 1 > 0) /\ div.left > 0)
    BY <1>2 DEF TypeInv, Pipe1TypeOK
  <2>2. CASE div.left > 0
    BY <1>1, <1>2, <2>1, <2>2, UnitsMove DEF InDivider
  <2>3. CASE div.left = 0 /\ Is(ro, "DIV")
    <3>1. div'.order = ro /\ (div'.left > 0 <=> ~div'.done)
      BY <1>1, <1>2, <2>3, UnitsMove
    <3> QED
      BY <2>3, <3>1 DEF InDivider, Is
  <2>4. CASE div.left = 0 /\ ~Is(ro, "DIV")
    <3>1. div'.order = None
      BY <1>1, <1>2, <2>4, UnitsMove
    <3> QED
      BY <1>2, <2>4, <3>1 DEF InDivider, Is
  <2> QED
    BY <2>1, <2>2, <2>3, <2>4
<1>9. req' = i <=> \/ ro = i /\ unitOf[i] = "MEM"
                   \/ req = i /\ ~accept
  <2>1. req # None => ~Is(ro, "MEM")
    BY AccessesExclude
  <2>2. req' = RequestNext(f, accept)
    BY <1>1, <1>2, UnitsMove
  <2> QED
    BY <1>2, <2>1, <2>2 DEF RequestNext, If, Is
<1>10. lsu' = i <=> \/ req = i /\ accept
                    \/ lsu = i /\ ~answers
  <2>1. /\ lsu' = IF accept THEN req ELSE If(If(lsu, ~Kills(f, lsu)), ~answers)
        /\ accept => lsu = None \/ answers
    BY <1>1, <1>2, UnitsMove
  <2> QED
    BY <1>2, <2>1 DEF If
<1>11. \A u \in Units : pend[u] = None \/ curr[u] = None
  <2>1. /\ curr["DIV"] # None => div.done
        /\ curr["MUL"] = mul[3] /\ (curr["MEM"] # None => lsu # None)
    BY <1>2, SourcesAreTyped DEF If
  <2>2. pend["DIV"] = None /\ (mul[3] # None => pend["MUL"] = None)
    BY DEF PipeInv, OneDivision, OneMultiplication
  <2>3. lsu # None => pend["MEM"] = None
    BY DEF PipeInv, PortFreesInTime
  <2> QED
    BY <2>1, <2>2, <2>3 DEF Units
<1>12. (\E u \in Units : pend'[u] = i) <=>
         \E u \in Units : /\ curr[u] = i \/ pend[u] = i
                          /\ ~(u \in EmitsFrom(curr) /\ Emitted(curr, u) = i)
  <2>1. \A u \in Units :
          pend'[u] = i <=> /\ curr[u] = i \/ pend[u] = i
                           /\ ~(u \in EmitsFrom(curr) /\ Emitted(curr, u) = i)
    BY <1>1, <1>2, <1>11 DEF PendingNext, Emitted, If
  <2> QED
    BY <2>1
<1>13. i \in answered' <=>
         \/ i \in answered
         \/ \E u \in EmitsFrom(curr) : Emitted(curr, u) = i
  BY <1>1, <1>2 DEF Bookkeeping, SafeFrom
<1> QED
  BY <1>3, <1>4, <1>5, <1>6, <1>7, <1>8, <1>9, <1>10, <1>12, <1>13

\* A live instruction that a cycle does not kill moves from its place to one
\* place: none is doubled, and none is lost but a division at the divider that
\* works on one that a trap has left there.
LEMMA LiveKeepsOnePlace ==
  ASSUME PipeInv, NEW f \in FlushesNow, NEW accept \in BOOLEAN,
         NEW answers \in BOOLEAN, NEW short \in BOOLEAN, NEW curr,
         curr = Current(answers),
         NEW raw \in IssueChoices(f, curr), NEW prog \in Dispatch(f),
         StepBy(f, accept, answers, short, raw, prog),
         NEW i \in Orders \ dead, ~Kills(f, i)
  PROVE  /\ \/ \E q \in PlaceNames : Places(i)' = {q}
            \/ Places(i)' = {} /\ i \in dropped'
         /\ Won(i)' =>
              \/ \E u \in Winners(f, curr) : cand[u] = i
              \/ Won(i) /\ \A u \in EmitsFrom(curr) : Emitted(curr, u) # i
<1> DEFINE Issues == \E u \in Units : raw[u] = i
           Wins == \E u \in Winners(f, curr) : cand[u] = i
           Emits == \E u \in EmitsFrom(curr) : Emitted(curr, u) = i
           InDiv == div.order = i /\ div.left > 0
           DivDone == div.order = i /\ div.done
           InCand == \E u \in Units : cand[u] = i
           InPend == \E u \in Units : pend[u] = i
           Shown == \E u \in Units : curr[u] = i
<1>1. TypeInv /\ i # None /\ unitOf[i] \in Units
  BY ProgramGrows DEF PipeInv, Orders, None, TypeInv, Pipe1TypeOK
<1>2. Lost(i) \/ \E p \in PlaceNames : Places(i) = {p}
  BY LivesInOnePlace DEF PipeInv
<1>3. Issues => i \in waiting
  BY <1>1, IssueIsTyped
<1>4. /\ Wins => InCand
      /\ (\E u \in Units : cand[u] = i /\ u \notin Winners(f, curr)) <=> InCand /\ ~Wins
  <2>1. \A u \in Units : cand[u] = i => u = unitOf[i]
    BY <1>1 DEF TypeInv, Pipe1TypeOK, Is
  <2>2. \A u \in Winners(f, curr) : u \in Units
    BY <1>1, OneWins
  <2> QED
    BY <2>1, <2>2
<1>5. /\ Shown <=> DivDone \/ mul[3] = i \/ (lsu = i /\ answers)
      /\ Emits => Shown \/ InPend
      /\ (\E u \in Units : /\ curr[u] = i \/ pend[u] = i
                           /\ ~(u \in EmitsFrom(curr) /\ Emitted(curr, u) = i))
           <=> (Shown \/ InPend) /\ ~Emits
  <2>1. /\ curr["DIV"] = If(div.order, div.done) /\ curr["MUL"] = mul[3]
        /\ curr["MEM"] = If(lsu, answers /\ lsu \notin dead)
        /\ \A u \in Units : curr[u] = i => u = unitOf[i]
        /\ \A u \in EmitsFrom(curr) : /\ u \in Units
                                      /\ Emitted(curr, u) = i => u = unitOf[i]
                                      /\ Emitted(curr, u) \in {pend[u], curr[u]}
    BY <1>1, SourcesAreTyped DEF Is
  <2>2. \A u \in Units : pend[u] = i => u = unitOf[i]
    BY <1>1 DEF TypeInv, Pipe1TypeOK, Is
  <2>3. Shown <=> DivDone \/ mul[3] = i \/ (lsu = i /\ answers)
    BY <1>1, <2>1 DEF If, Units
  <2> QED
    BY <2>1, <2>2, <2>3
<1>6. ~(InDiv /\ DivDone) /\ (InDivider(i) <=> InDiv \/ DivDone)
  BY DEF PipeInv, OneDivision, InDivider
<1>7. /\ "waiting" \in Places(i)' <=> i \in waiting /\ ~Issues
      /\ "cand" \in Places(i)' <=> Issues \/ (InCand /\ ~Wins)
      /\ "preRo" \in Places(i)' <=> Wins
      /\ "ro" \in Places(i)' <=> preRo = i
      /\ "mul1" \in Places(i)' <=> ro = i /\ unitOf[i] = "MUL"
      /\ "mul2" \in Places(i)' <=> mul[1] = i
      /\ "mul3" \in Places(i)' <=> mul[2] = i
      /\ "div" \in Places(i)' <=> InDiv \/ (ro = i /\ unitOf[i] = "DIV" /\ div.left = 0)
      /\ "req" \in Places(i)' <=> (ro = i /\ unitOf[i] = "MEM") \/ (req = i /\ ~accept)
      /\ "lsu" \in Places(i)' <=> (req = i /\ accept) \/ (lsu = i /\ ~answers)
      /\ "pend" \in Places(i)' <=> (Shown \/ InPend) /\ ~Emits
      /\ "answered" \in Places(i)' <=> i \in answered \/ Emits
  BY <1>4, <1>5, LiveMoves, PlacesAreNext
<1>8. /\ ro = i /\ unitOf[i] = "DIV" /\ div.left # 0 => i \in dropped'
      /\ dropped \subseteq dropped'
  <2>1. div.left \in Nat
    BY <1>1 DEF TypeInv, Pipe1TypeOK
  <2>2. Is(ro, "DIV") /\ div.left > 0 => div.order \in cut
    BY DEF PipeInv, OneDivision, Dividing
  <2> QED
    BY <1>1, <2>1, <2>2 DEF Is, StepBy, Bookkeeping
<1>9. Places(i)' \subseteq PlaceNames
  BY PlacesAreNext
<1>10. CASE Lost(i)
  <2>1. /\ ~InCand /\ ~InPend /\ ~InDiv /\ ~DivDone
        /\ i \notin waiting /\ i \notin answered
        /\ preRo # i /\ ro # i /\ \A s \in 1 .. 3 : mul[s] # i
        /\ req # i /\ lsu # i
    BY <1>6, <1>10, PlacesAre DEF Lost
  <2>2. ~Issues /\ ~Wins /\ ~Shown /\ ~Emits
    BY <1>3, <1>4, <1>5, <2>1
  <2> HIDE DEF Issues, Wins, Emits, InDiv, DivDone, InCand, InPend, Shown
  <2>3. \A q \in PlaceNames : q \notin Places(i)'
    BY <1>7, <2>1, <2>2 DEF PlaceNames
  <2>4. Places(i)' = {} /\ i \in dropped' /\ Won(i)
    BY <1>8, <1>9, <1>10, <2>3 DEF Lost, Won
  <2> QED
    BY <2>2, <2>4 DEF Wins, Emits
<1>11. ASSUME NEW p \in PlaceNames, Places(i) = {p}
       PROVE  /\ \/ \E q \in PlaceNames : Places(i)' = {q}
                 \/ Places(i)' = {} /\ i \in dropped'
              /\ Won(i)' => Wins \/ (Won(i) /\ ~Emits)
  <2>1. /\ "preRo" = p <=> preRo = i
        /\ "ro" = p <=> ro = i
        /\ "mul1" = p <=> mul[1] = i
        /\ "mul2" = p <=> mul[2] = i
        /\ "mul3" = p <=> mul[3] = i
        /\ "div" = p <=> InDiv \/ DivDone
        /\ "req" = p <=> req = i
        /\ "lsu" = p <=> lsu = i
        /\ "pend" = p <=> InPend
        /\ "waiting" = p <=> i \in waiting
        /\ "cand" = p <=> InCand
        /\ "answered" = p <=> i \in answered
    BY <1>6, <1>11, PlacesAre
  <2> HIDE DEF Issues, Wins, Emits, InDiv, DivDone, InCand, InPend, Shown
  <2>2. \/ \E q \in PlaceNames : \A r \in PlaceNames : r \in Places(i)' <=> r = q
        \/ /\ \A r \in PlaceNames : r \notin Places(i)'
           /\ i \in dropped'
    <3>1. CASE p \in {"waiting", "cand", "answered", "preRo"}
      BY <1>3, <1>4, <1>5, <1>6, <1>7, <2>1, <3>1 DEF PlaceNames
    <3>2. CASE p = "ro" /\ (unitOf[i] # "DIV" \/ div.left = 0)
      BY <1>1, <1>3, <1>4, <1>5, <1>6, <1>7, <2>1, <3>2 DEF PlaceNames, Units
    <3>3. CASE p = "ro" /\ unitOf[i] = "DIV" /\ div.left # 0
      <4>1. \A r \in PlaceNames : r \notin Places(i)'
        BY <1>1, <1>3, <1>4, <1>5, <1>6, <1>7, <2>1, <3>3 DEF PlaceNames, Units
      <4> QED
        BY <1>8, <2>1, <3>3, <4>1
    <3>4. CASE p \in {"mul1", "mul2", "mul3", "div"}
      BY <1>3, <1>4, <1>5, <1>6, <1>7, <2>1, <3>4 DEF PlaceNames
    <3>5. CASE p \in {"req", "lsu", "pend"}
      BY <1>3, <1>4, <1>5, <1>6, <1>7, <2>1, <3>5 DEF PlaceNames
    <3> QED
      BY <3>1, <3>2, <3>3, <3>4, <3>5 DEF PlaceNames
  <2>3. Won(i)' => Wins \/ (Won(i) /\ ~Emits)
    <3>1. CASE p \in {"waiting", "cand", "answered"}
      <4>1. "waiting" \in Places(i)' \/ "cand" \in Places(i)' \/ "answered" \in Places(i)' \/ Wins
        BY <1>7, <2>1, <3>1
      <4> QED
        BY <4>1 DEF Won
    <3>2. CASE p \notin {"waiting", "cand", "answered"}
      <4>1. Emits => "answered" \in Places(i)'
        BY <1>7
      <4> QED
        BY <1>11, <3>2, <4>1 DEF Won
    <3> QED
      BY <3>1, <3>2
  <2> QED
    BY <1>9, <2>2, <2>3
<1> QED
  BY <1>2, <1>10, <1>11

\* Who is live after a cycle: a survivor or a newcomer, and a newcomer waits.
LEMMA LiveNext ==
  ASSUME PipeInv, NEW f \in FlushesNow, NEW accept \in BOOLEAN,
         NEW answers \in BOOLEAN, NEW short \in BOOLEAN, NEW curr,
         curr = Current(answers),
         NEW raw \in IssueChoices(f, curr), NEW prog \in Dispatch(f),
         StepBy(f, accept, answers, short, raw, prog)
  PROVE  /\ \A i \in Orders : i \in dead' <=> i \in dead \/ Kills(f, i)
         /\ dead' \subseteq Orders
         /\ \A i \in Orders' \ Orders :
              /\ i \in waiting' /\ f = NoFlush
              /\ \A q \in PlaceNames : q \in Places(i)' <=> q = "waiting"
         /\ waiting' \cap Orders = {i \in waiting : ~Kills(f, i) /\ \A u \in Units : raw[u] # i}
<1>1. TypeInv /\ None \notin Orders
  BY DEF PipeInv, Orders, None
<1>2. /\ pend' = [u \in Units |-> PendingNext(curr, u)]
      /\ Bookkeeping(f, curr, raw, prog)
      /\ Issue(f, curr, raw) /\ Multiply /\ Divide(short) /\ Memory(f, accept, answers)
  BY DEF StepBy
<1>3. unitOf' = prog /\ dead' = dead \cup {i \in Orders : Kills(f, i)} /\ dead \subseteq Orders
  BY <1>1, <1>2 DEF Bookkeeping, TypeInv, Pipe1TypeOK
<1>4. /\ Orders' \ Orders = Len(unitOf) + 1 .. Len(prog)
      /\ f # NoFlush => Orders' = Orders
      /\ None \notin Orders'
  BY <1>1, <1>3, ProgramGrows
<1>5. waiting' = {i \in waiting \ {raw[u] : u \in Units} : ~Kills(f, i)}
                   \cup (Len(unitOf) + 1 .. Len(prog))
  BY <1>2 DEF Bookkeeping
<1>6. ASSUME NEW i \in Orders' \ Orders, NEW q \in PlaceNames
      PROVE  q \in Places(i)' <=> q = "waiting"
  <2>1. i \in waiting' /\ i # None /\ i \notin Orders /\ i \notin answered
    BY <1>1, <1>4, <1>5 DEF TypeInv, Pipe1TypeOK
  <2>2. /\ \A u \in Units : curr[u] \in Orders \cup {None}
        /\ \A u \in EmitsFrom(curr) : Emitted(curr, u) \in Orders
        /\ \A u \in Units : pend[u] \in Orders \cup {None}
    BY <1>1, SourcesAreTyped DEF TypeInv, PipeShape
  <2>3. i \notin answered'
    BY <1>2, <2>1, <2>2 DEF Bookkeeping, SafeFrom
  <2>4. \A u \in Units : pend'[u] # i
    BY <1>2, <2>1, <2>2 DEF PendingNext, If
  <2>5. \A u \in Units : raw[u] # i /\ cand[u] # i
    BY <1>1, <2>1, IssueIsTyped DEF TypeInv, PipeShape
  <2>6. \A u \in Units : cand'[u] # i
    BY <1>1, <1>2, <2>1, <2>5, FrontMoves
  <2>7. preRo' # i /\ ro' # i
    <3>1. preRo # i
      BY <1>1, <2>1 DEF TypeInv, Pipe1TypeOK
    <3>2. \A u \in Winners(f, curr) : cand[u] # i
      BY <1>1, <2>5, OneWins
    <3> QED
      BY <1>1, <1>2, <2>1, <3>1, <3>2, FrontMoves DEF If
  <2>8. /\ \A s \in 1 .. 3 : mul'[s] # i
        /\ div'.order # i /\ req' # i /\ lsu' # i
    BY <1>1, <1>2, <2>1, UnitsMove
  <2> QED
    BY <2>1, <2>3, <2>4, <2>6, <2>7, <2>8, PlacesAreNext DEF PlaceNames, InDivider
<1>7. waiting' \cap Orders = {i \in waiting : ~Kills(f, i) /\ \A u \in Units : raw[u] # i}
  <2>1. waiting \subseteq Orders
    BY <1>1 DEF TypeInv, Pipe1TypeOK
  <2>2. (Len(unitOf) + 1 .. Len(prog)) \cap Orders = {}
    BY <1>4
  <2> QED
    BY <1>5, <2>1, <2>2
<1>8. \A i \in Orders : i \in dead' <=> i \in dead \/ Kills(f, i)
  BY <1>3
<1>9. dead' \subseteq Orders
  BY <1>3
<1>10. \A i \in Orders' \ Orders : i \in waiting' /\ f = NoFlush
  BY <1>4, <1>5
<1> QED
  BY <1>6, <1>7, <1>8, <1>9, <1>10

\* OnePlaceEach is kept.
LEMMA StepKeepsPlaces ==
  ASSUME PipeInv, NEW f \in FlushesNow, NEW accept \in BOOLEAN,
         NEW answers \in BOOLEAN, NEW short \in BOOLEAN, NEW curr,
         curr = Current(answers),
         NEW raw \in IssueChoices(f, curr), NEW prog \in Dispatch(f),
         StepBy(f, accept, answers, short, raw, prog)
  PROVE  OnePlaceEach'
<1>1. ASSUME NEW i \in Orders' \ dead'
      PROVE  Lost(i)' \/ \E q \in PlaceNames : Places(i)' = {q}
  <2>1. CASE i \in Orders
    <3>1. i \notin dead /\ ~Kills(f, i) /\ i # None
      BY <2>1, LiveNext DEF Orders, None
    <3> QED
      BY <2>1, <3>1, LiveKeepsOnePlace DEF Lost
  <2>2. CASE i \notin Orders
    <3>1. \A q \in PlaceNames : q \in Places(i)' <=> q = "waiting"
      BY <2>2, LiveNext
    <3> QED
      BY <3>1, PlacesAreNext DEF PlaceNames
  <2> QED
    BY <2>1, <2>2
<1>2. \A i \in Orders' \ dead' : Lost(i)' \/ Cardinality(Places(i)') = 1
  BY <1>1, OnePlaceMeans, PlacesAreNext
<1> QED
  BY <1>2 DEF OnePlaceEach, Lost

\* FrontIsLive is kept.
LEMMA StepKeepsFrontLive ==
  ASSUME PipeInv, NEW f \in FlushesNow, NEW accept \in BOOLEAN,
         NEW answers \in BOOLEAN, NEW short \in BOOLEAN, NEW curr,
         curr = Current(answers),
         NEW raw \in IssueChoices(f, curr), NEW prog \in Dispatch(f),
         StepBy(f, accept, answers, short, raw, prog)
  PROVE  FrontIsLive'
<1>1. /\ TypeInv /\ None \notin Orders /\ FrontIsLive
      /\ Issue(f, curr, raw) /\ Multiply /\ Divide(short) /\ Memory(f, accept, answers)
  BY DEF PipeInv, StepBy, Orders, None
<1>2. /\ \A i \in Orders : i \in dead' <=> i \in dead \/ Kills(f, i)
      /\ dead' \subseteq Orders
      /\ waiting' \cap Orders \subseteq {i \in waiting : ~Kills(f, i)}
  BY LiveNext
<1>3. waiting' \cap dead' = {}
  BY <1>1, <1>2 DEF FrontIsLive
<1>4. \A u \in Units : cand'[u] \notin dead'
  <2>1. \A u \in Units : raw[u] \notin dead
    BY <1>1, IssueIsTyped DEF FrontIsLive, TypeInv, Pipe1TypeOK
  <2> QED
    BY <1>1, <1>2, <2>1, FrontMoves DEF FrontIsLive
<1>5. preRo' \notin dead' /\ ro' \notin dead'
  <2>1. \A u \in Winners(f, curr) : cand[u] \notin dead'
    BY <1>1, <1>2, OneWins DEF FrontIsLive
  <2> QED
    BY <1>1, <1>2, <2>1, FrontMoves DEF FrontIsLive, If
<1>6. req' \notin dead' /\ lsu' \notin dead'
  <2>1. /\ req' = RequestNext(f, accept)
        /\ lsu' = IF accept THEN req ELSE If(If(lsu, ~Kills(f, lsu)), ~answers)
        /\ accept => ~Kills(f, req)
    BY <1>1, UnitsMove
  <2> QED
    BY <1>1, <1>2, <2>1 DEF FrontIsLive, RequestNext, If
<1> QED
  BY <1>3, <1>4, <1>5, <1>6 DEF FrontIsLive

\* The unit of a live instruction that stays under way this cycle is not seen
\* to answer, and no other instruction wins it.
LEMMA UnitStaysTaken ==
  ASSUME PipeInv, NEW f \in FlushesNow, NEW answers \in BOOLEAN, NEW curr,
         curr = Current(answers), NEW i \in Orders \ dead, Won(i),
         \A u \in EmitsFrom(curr) : Emitted(curr, u) # i
  PROVE  /\ unitOf[i] \in Units /\ busy[unitOf[i]]
         /\ unitOf[i] \notin SafeFrom(curr) /\ unitOf[i] \notin Winners(f, curr)
<1>1. TypeInv /\ BusyWhileWorking
  BY DEF PipeInv
<1>2. unitOf[i] \in Units /\ busy[unitOf[i]]
  BY <1>1, ProgramGrows DEF BusyWhileWorking, TypeInv, Pipe1TypeOK, Orders
<1>3. unitOf[i] \notin SafeFrom(curr)
  <2> SUFFICES ASSUME unitOf[i] \in SafeFrom(curr) PROVE FALSE
    OBVIOUS
  <2> DEFINE e == Emitted(curr, unitOf[i])
  <2>1. /\ unitOf[i] \in EmitsFrom(curr) /\ e \notin dead
    BY DEF SafeFrom
  <2>2. /\ e \in Orders /\ e # None /\ unitOf[e] = unitOf[i]
        /\ e = pend[unitOf[i]] \/ e = curr[unitOf[i]]
    BY <1>1, <2>1, SourcesAreTyped DEF Is
  <2>3. InUnit(e) # {}
    <3>1. CASE e = pend[unitOf[i]]
      BY <1>2, <3>1, PlacesAre
    <3>2. CASE e = curr[unitOf[i]]
      <4>1. /\ curr["DIV"] = If(div.order, div.done) /\ curr["MUL"] = mul[3]
            /\ curr["MEM"] = If(lsu, answers /\ lsu \notin dead)
        BY <1>1, SourcesAreTyped
      <4>2. InDivider(e) \/ mul[3] = e \/ lsu = e
        BY <1>2, <2>2, <3>2, <4>1 DEF Units, If, InDivider
      <4> QED
        BY <4>2, PlacesAre
    <3> QED
      BY <2>2, <3>1, <3>2
  <2>4. Won(e)
    BY <2>1, <2>2, <2>3, LivesInOnePlace DEF PipeInv
  <2>5. e = i
    BY <1>1, <2>1, <2>2, <2>4 DEF BusyWhileWorking
  <2> QED
    BY <2>1, <2>5
<1>4. unitOf[i] \notin Winners(f, curr)
  BY <1>1, <1>2, <1>3, OneWins DEF Blocks
<1> QED
  BY <1>2, <1>3, <1>4

\* BusyWhileWorking is kept.
LEMMA StepKeepsBusy ==
  ASSUME PipeInv, NEW f \in FlushesNow, NEW accept \in BOOLEAN,
         NEW answers \in BOOLEAN, NEW short \in BOOLEAN, NEW curr,
         curr = Current(answers),
         NEW raw \in IssueChoices(f, curr), NEW prog \in Dispatch(f),
         StepBy(f, accept, answers, short, raw, prog)
  PROVE  BusyWhileWorking'
<1> DEFINE Wins(i) == \E u \in Winners(f, curr) : cand[u] = i
           Stays(i) == Won(i) /\ \A u \in EmitsFrom(curr) : Emitted(curr, u) # i
<1>1. /\ TypeInv /\ Issue(f, curr, raw) /\ unitOf' = prog
  BY DEF PipeInv, StepBy, Bookkeeping
<1>2. \A u \in Units : /\ busy'[u] <=> BusyNext(f, curr, u)
                       /\ u \in Winners(f, curr) => (u = "MEM" => memOrder' = cand[u])
  BY <1>1, FrontMoves DEF Issue
<1>3. "MEM" \notin Winners(f, curr) => memOrder' = memOrder
  BY <1>1 DEF Issue
<1>4. ASSUME NEW i \in Orders' \ dead', Won(i)'
      PROVE  /\ i \in Orders \ dead /\ ~Kills(f, i)
             /\ Wins(i) \/ Stays(i)
             /\ unitOf'[i] = unitOf[i] /\ unitOf[i] \in Units
  <2>1. i \in Orders
    <3> SUFFICES ASSUME i \notin Orders PROVE FALSE
      OBVIOUS
    <3>1. \A q \in PlaceNames : q \in Places(i)' <=> q = "waiting"
      BY LiveNext
    <3> QED
      BY <1>4, <3>1 DEF PlaceNames, Won
  <2>2. i \notin dead /\ ~Kills(f, i)
    BY <2>1, LiveNext
  <2> QED
    BY <1>1, <1>4, <2>1, <2>2, LiveKeepsOnePlace, ProgramGrows
<1>5. \A i \in Orders : Wins(i) => unitOf[i] \in Winners(f, curr) /\ cand[unitOf[i]] = i
  BY <1>1, OneWins DEF Is
<1>6. \A i \in Orders \ dead : Stays(i) =>
        /\ unitOf[i] \in Units /\ busy[unitOf[i]]
        /\ unitOf[i] \notin SafeFrom(curr) /\ unitOf[i] \notin Winners(f, curr)
        /\ unitOf[i] = "MEM" => memOrder = i
  BY UnitStaysTaken DEF PipeInv, BusyWhileWorking
<1> HIDE DEF Wins, Stays
<1>7. ASSUME NEW i \in Orders' \ dead', Won(i)'
      PROVE  busy'[unitOf'[i]] /\ (unitOf'[i] = "MEM" => memOrder' = i)
  <2>1. CASE Wins(i)
    BY <1>2, <1>4, <1>5, <1>7, <2>1 DEF BusyNext
  <2>2. CASE Stays(i)
    <3>1. ~f.trap
      BY <1>1, <1>4, <1>7, FlushIsTyped
    <3>2. ~FlushFrees(f, unitOf[i])
      BY <1>4, <1>6, <1>7, <2>2, <3>1 DEF FlushFrees
    <3> QED
      BY <1>2, <1>3, <1>4, <1>6, <1>7, <2>2, <3>2 DEF BusyNext
  <2> QED
    BY <1>4, <1>7, <2>1, <2>2
<1>8. ASSUME NEW i \in Orders' \ dead', NEW j \in Orders' \ dead',
             Won(i)', Won(j)', unitOf'[j] = unitOf'[i]
      PROVE  i = j
  <2>1. unitOf[j] = unitOf[i] /\ i \in Orders \ dead /\ j \in Orders \ dead
    BY <1>4, <1>8
  <2>2. CASE Wins(i) /\ Wins(j)
    BY <1>5, <2>1, <2>2
  <2>3. CASE Stays(i) /\ Stays(j)
    BY <2>1, <2>3 DEF Stays, PipeInv, BusyWhileWorking
  <2> QED
    BY <1>4, <1>5, <1>6, <1>8, <2>1, <2>2, <2>3
<1> QED
  BY <1>7, <1>8 DEF BusyWhileWorking

-----------------------------------------------------------------------------
\* Which units' instructions reach the operand stages.
LEMMA StagesMove ==
  ASSUME TypeInv, NEW f \in FlushesNow, NEW curr, NEW raw \in IssueChoices(f, curr),
         NEW prog \in Dispatch(f), Issue(f, curr, raw), unitOf' = prog
  PROVE  /\ \A u \in Units : Is(preRo, u)' <=> u \in Winners(f, curr)
         /\ \A u \in Units : Is(ro, u)' <=> Is(preRo, u) /\ ~Kills(f, preRo)
         /\ \A u \in Winners(f, curr) : cand[u] # None /\ busy'[u]
         /\ \A u \in Units : u # "MEM" /\ u \in Winners(f, curr) => ~busy[u]
<1>1. \A u \in Winners(f, curr) :
        /\ u \in Units /\ cand[u] \in Orders /\ Is(cand[u], u) /\ ~Blocks(curr, u)
        /\ preRo' = cand[u] /\ busy'[u] = BusyNext(f, curr, u)
  BY OneWins, FrontMoves
<1>2. /\ Winners(f, curr) = {} => preRo' = None
      /\ ro' = If(preRo, ~Kills(f, preRo))
  BY FrontMoves
<1>3. /\ \A i \in Orders : unitOf'[i] = unitOf[i]
      /\ None \notin Orders /\ preRo \in Orders \cup {None}
  BY ProgramGrows DEF TypeInv, Pipe1TypeOK, Orders, None
<1>4. \A u \in Units : Is(preRo, u)' <=> u \in Winners(f, curr)
  <2> TAKE u \in Units
  <2>1. CASE Winners(f, curr) = {}
    BY <1>2, <2>1 DEF Is
  <2>2. ASSUME NEW v \in Winners(f, curr)
        PROVE  Is(preRo, u)' <=> u \in Winners(f, curr)
    <3>1. preRo' = cand[v] /\ preRo' # None /\ unitOf'[preRo'] = v
      BY <1>1, <1>3, <2>2 DEF Is
    <3>2. u \in Winners(f, curr) <=> u = v
      BY <2>2, OneWins
    <3> QED
      BY <3>1, <3>2 DEF Is
  <2> QED
    BY <2>1, <2>2
<1>5. \A u \in Units : Is(ro, u)' <=> Is(preRo, u) /\ ~Kills(f, preRo)
  BY <1>2, <1>3 DEF Is, If
<1> QED
  BY <1>1, <1>3, <1>4, <1>5 DEF Blocks, BusyNext

\* Which sources the port does not take, and what the pending registers hold.
LEMMA PendingMoves ==
  ASSUME TypeInv, OneDivision, OneMultiplication, NEW answers \in BOOLEAN, NEW curr,
         curr = Current(answers), pend' = [u \in Units |-> PendingNext(curr, u)]
  PROVE  /\ "DIV" \in EmitsFrom(curr) => div.done
         /\ pend'["DIV"] = None
         /\ pend'["MUL"] # None => div.done /\ (mul[3] # None \/ pend["MUL"] # None)
         /\ "MUL" \in EmitsFrom(curr) =>
              /\ mul[3] # None \/ pend["MUL"] # None
              /\ Emitted(curr, "MUL") = IF pend["MUL"] # None THEN pend["MUL"] ELSE mul[3]
         /\ pend'["MEM"] # None =>
              \/ pend["MEM"] # None
              \/ lsu # None /\ lsu \notin dead /\ answers /\ "MEM" \notin EmitsFrom(curr)
         /\ pend'["MEM"] # None /\ lsu = None => "MEM" \notin EmitsFrom(curr)
         /\ pend'["MEM"] # None /\ "MEM" \notin EmitsFrom(curr) => PortTaken
<1>1. /\ curr["DIV"] = If(div.order, div.done) /\ curr["MUL"] = mul[3]
      /\ curr["MEM"] = If(lsu, answers /\ lsu \notin dead)
  BY SourcesAreTyped
<1>2. /\ curr["DIV"] # None <=> div.done
      /\ pend["DIV"] = None
      /\ mul[3] # None => pend["MUL"] = None
  BY <1>1 DEF OneDivision, OneMultiplication, Dividing, If
<1>3. /\ "DIV" \in EmitsFrom(curr) <=> div.done
      /\ "MUL" \in EmitsFrom(curr) <=> ~div.done /\ (mul[3] # None \/ pend["MUL"] # None)
      /\ "MEM" \in EmitsFrom(curr) <=>
           /\ ~div.done /\ mul[3] = None /\ pend["MUL"] = None
           /\ pend["MEM"] # None \/ curr["MEM"] # None
  <2>1. /\ "DIV" \in Available(curr) <=> div.done
        /\ "MUL" \in Available(curr) <=> mul[3] # None \/ pend["MUL"] # None
        /\ "MEM" \in Available(curr) <=> pend["MEM"] # None \/ curr["MEM"] # None
    BY <1>1, <1>2 DEF Available, Units
  <2> QED
    BY <2>1 DEF EmitsFrom
<1>4. \A u \in {"DIV", "MUL", "MEM"} : pend'[u] = PendingNext(curr, u)
  BY DEF Units
<1>5. pend'["DIV"] = None
  BY <1>2, <1>3, <1>4 DEF PendingNext, If
<1>6. pend'["MUL"] # None => div.done /\ (mul[3] # None \/ pend["MUL"] # None)
  BY <1>1, <1>2, <1>3, <1>4 DEF PendingNext, If
<1>7. Emitted(curr, "MUL") = IF pend["MUL"] # None THEN pend["MUL"] ELSE mul[3]
  BY <1>1 DEF Emitted
<1>8. pend'["MEM"] # None =>
        /\ \/ pend["MEM"] # None
           \/ lsu # None /\ lsu \notin dead /\ answers /\ "MEM" \notin EmitsFrom(curr)
        /\ lsu = None => "MEM" \notin EmitsFrom(curr)
        /\ pend["MEM"] # None \/ curr["MEM"] # None
  BY <1>1, <1>4 DEF PendingNext, If
<1> QED
  BY <1>3, <1>5, <1>6, <1>7, <1>8 DEF PortTaken

\* OneDivision is kept: the trap that frees the divider cuts what is in it.
LEMMA StepKeepsDivision ==
  ASSUME PipeInv, NEW f \in FlushesNow, NEW accept \in BOOLEAN,
         NEW answers \in BOOLEAN, NEW short \in BOOLEAN, NEW curr,
         curr = Current(answers),
         NEW raw \in IssueChoices(f, curr), NEW prog \in Dispatch(f),
         StepBy(f, accept, answers, short, raw, prog)
  PROVE  OneDivision'
<1>1. /\ TypeInv /\ OneDivision /\ OneMultiplication
      /\ Issue(f, curr, raw) /\ Multiply /\ Divide(short) /\ Memory(f, accept, answers)
      /\ pend' = [u \in Units |-> PendingNext(curr, u)] /\ unitOf' = prog
      /\ cut' = IF f.trap THEN (cut \cup {div'.order}) \ {None} ELSE cut
  BY DEF PipeInv, StepBy, Bookkeeping
<1>2. /\ "DIV" \in Units /\ div.left \in Nat
      /\ cut \subseteq dead /\ None \notin cut
  BY <1>1 DEF Units, TypeInv, Pipe1TypeOK, Orders, None
<1>3. /\ cut \subseteq cut'
      /\ f.trap /\ div'.order # None => div'.order \in cut'
  BY <1>1, <1>2
<1>4. busy["DIV"] /\ ~(div.done /\ div.order \notin cut) /\ ~f.trap => busy'["DIV"]
  <2>1. "DIV" \in SafeFrom(curr) => div.done /\ div.order \notin cut
    <3>1. "DIV" \in SafeFrom(curr) => div.done /\ Emitted(curr, "DIV") \notin dead
      BY <1>1, PendingMoves DEF SafeFrom
    <3>2. Emitted(curr, "DIV") = If(div.order, div.done)
      BY <1>1, SourcesAreTyped DEF Emitted, OneDivision
    <3> QED
      BY <1>2, <3>1, <3>2 DEF If
  <2>2. busy'["DIV"] = BusyNext(f, curr, "DIV")
    BY <1>1, <1>2, FrontMoves
  <2>3. ~f.trap => ~FlushFrees(f, "DIV")
    BY DEF FlushFrees
  <2> QED
    BY <2>1, <2>2, <2>3 DEF BusyNext
<1>5. /\ Is(preRo, "DIV")' => "DIV" \in Winners(f, curr) /\ busy'["DIV"] /\ ~busy["DIV"]
      /\ Is(ro, "DIV")' => Is(preRo, "DIV") /\ ~Kills(f, preRo)
  BY <1>1, <1>2, StagesMove
<1>6. /\ div.left > 0 =>
           /\ div'.order = div.order /\ div'.left = div.left - 1
           /\ div'.done <=> div.left = 1
      /\ div.left = 0 /\ Is(ro, "DIV") =>
           /\ div'.order = ro /\ (div'.left > 0 <=> ~div'.done)
      /\ div.left = 0 /\ ~Is(ro, "DIV") =>
           div'.order = None /\ div'.left = 0 /\ ~div'.done
      /\ div'.left \in Nat
  <2>1. div' \in [order : Orders \cup {None}, left : 0 .. DivCycles, done : BOOLEAN]
    BY <1>1, UnitsMove
  <2>2. div'.left \in Nat
    BY <2>1
  <2> QED
    BY <1>1, <2>2, UnitsMove
<1>7. pend'["DIV"] = None
  BY <1>1, PendingMoves
<1>8. Is(preRo, "DIV")' => busy'["DIV"] /\ ~Is(ro, "DIV")'
  BY <1>1, <1>5 DEF OneDivision
<1>9. Is(ro, "DIV")' => busy'["DIV"]
  <2>1. Is(preRo, "DIV") /\ ~Kills(f, preRo) => ~f.trap
    BY <1>1, FlushIsTyped DEF Is, TypeInv, Pipe1TypeOK
  <2> QED
    BY <1>1, <1>4, <1>5, <2>1 DEF OneDivision, Dividing
<1>10. Is(preRo, "DIV")' \/ Is(ro, "DIV")' => (Dividing' => div'.order \in cut')
  <2> SUFFICES ASSUME Is(preRo, "DIV")' \/ Is(ro, "DIV")', Dividing'
               PROVE  div'.order \in cut'
    OBVIOUS
  <2>1. ~Is(ro, "DIV")
    BY <1>1, <1>5 DEF OneDivision
  <2>2. div.left > 0 /\ div'.order = div.order
    BY <1>2, <1>6, <2>1 DEF Dividing
  <2>3. div.order \in cut
    BY <1>1, <1>5, <2>2 DEF OneDivision, Dividing
  <2> QED
    BY <1>3, <2>2, <2>3
<1>11. Dividing' => div'.order # None /\ (busy'["DIV"] \/ div'.order \in cut')
  <2>1. CASE div.left > 0
    <3>1. ~div.done /\ div'.order = div.order /\ div.order # None
      BY <1>1, <1>6, <2>1 DEF OneDivision, Dividing
    <3>2. busy["DIV"] \/ div.order \in cut
      BY <1>1, <2>1 DEF OneDivision, Dividing
    <3> QED
      BY <1>3, <1>4, <3>1, <3>2
  <2>2. CASE div.left = 0 /\ Is(ro, "DIV")
    <3>1. div'.order = ro /\ ro # None
      BY <1>6, <2>2 DEF Is
    <3>2. busy["DIV"] /\ ~(div.done /\ div.order \notin cut)
      BY <1>1, <2>2 DEF OneDivision, Dividing
    <3> QED
      BY <1>3, <1>4, <3>1, <3>2
  <2>3. CASE div.left = 0 /\ ~Is(ro, "DIV")
    BY <1>6, <2>3 DEF Dividing
  <2> QED
    BY <1>2, <2>1, <2>2, <2>3
<1>12. ~(div'.left > 0 /\ div'.done)
  BY <1>2, <1>6
<1> QED
  BY <1>7, <1>8, <1>9, <1>10, <1>11, <1>12 DEF OneDivision, Dividing

\* OneMultiplication is kept.
LEMMA StepKeepsMultiplication ==
  ASSUME PipeInv, NEW f \in FlushesNow, NEW accept \in BOOLEAN,
         NEW answers \in BOOLEAN, NEW short \in BOOLEAN, NEW curr,
         curr = Current(answers),
         NEW raw \in IssueChoices(f, curr), NEW prog \in Dispatch(f),
         StepBy(f, accept, answers, short, raw, prog)
  PROVE  OneMultiplication'
<1>1. /\ TypeInv /\ OneDivision /\ OneMultiplication
      /\ Issue(f, curr, raw) /\ Multiply /\ Divide(short) /\ Memory(f, accept, answers)
      /\ pend' = [u \in Units |-> PendingNext(curr, u)] /\ unitOf' = prog
      /\ Bookkeeping(f, curr, raw, prog)
  BY DEF PipeInv, StepBy, Bookkeeping
<1>2. "DIV" \in Units /\ "MUL" \in Units /\ div.left \in Nat
  BY <1>1 DEF Units, TypeInv, Pipe1TypeOK
<1>3. \A u \in {"DIV", "MUL"} :
        /\ Is(preRo, u)' <=> u \in Winners(f, curr)
        /\ Is(ro, u)' <=> Is(preRo, u) /\ ~Kills(f, preRo)
        /\ u \in Winners(f, curr) => cand[u] # None /\ busy'[u] /\ ~busy[u]
  BY <1>1, <1>2, StagesMove
<1>4. mul'[1] = If(ro, Is(ro, "MUL")) /\ mul'[2] = mul[1] /\ mul'[3] = mul[2]
  BY <1>1, UnitsMove
<1>5. mul'[1] # None => Is(ro, "MUL")
  BY <1>4 DEF If
<1>6. pend'["MUL"] # None => div.done /\ (mul[3] # None \/ pend["MUL"] # None)
  BY <1>1, PendingMoves
<1>7. Is(preRo, "MUL")' => ~Is(ro, "MUL")' /\ \A s \in 1 .. 3 : mul'[s] = None
  <2>1. "MUL" \in Winners(f, curr) =>
          /\ ~Is(preRo, "MUL") /\ ~Is(ro, "MUL") /\ mul[1] = None /\ mul[2] = None
    BY <1>1, <1>2, <1>3 DEF OneMultiplication
  <2> QED
    BY <1>3, <1>4, <1>5, <2>1
<1>8. Is(ro, "MUL")' => pend'["MUL"] = None /\ \A s \in 1 .. 3 : mul'[s] = None
  <2>1. Is(preRo, "MUL") => /\ ~Is(ro, "MUL") /\ mul[1] = None /\ mul[2] = None
                            /\ mul[3] = None /\ ~(pend["MUL"] # None /\ div.done)
    BY <1>1 DEF OneMultiplication
  <2> QED
    BY <1>3, <1>4, <1>5, <1>6, <2>1
<1>9. \A s \in 1 .. 3 : mul'[s] # None =>
        pend'["MUL"] = None /\ \A t \in 1 .. 3 : mul'[t] # None => s = t
  <2>1. /\ Is(ro, "MUL") => /\ mul[1] = None /\ mul[2] = None /\ mul[3] = None
                            /\ pend["MUL"] = None
        /\ mul[1] # None => mul[2] = None /\ mul[3] = None /\ pend["MUL"] = None
        /\ mul[2] # None => mul[1] = None /\ mul[3] = None /\ pend["MUL"] = None
    BY <1>1 DEF OneMultiplication
  <2> QED
    BY <1>4, <1>5, <1>6, <2>1
<1>10. pend'["MUL"] # None /\ div'.done =>
         ~Is(preRo, "MUL")' /\ ~Is(preRo, "DIV")' /\ ~Is(ro, "DIV")'
  <2> SUFFICES ASSUME pend'["MUL"] # None, div'.done
               PROVE  ~Is(preRo, "MUL")' /\ ~Is(preRo, "DIV")' /\ ~Is(ro, "DIV")'
    OBVIOUS
  <2>1. div.done /\ (mul[3] # None \/ pend["MUL"] # None) /\ div.left = 0
    BY <1>1, <1>2, <1>6 DEF OneDivision
  <2>2. Is(ro, "DIV") /\ ro # None
    BY <1>1, <2>1, UnitsMove DEF Is
  <2>3. mul[3] # None /\ busy["DIV"] /\ ~Is(preRo, "DIV")
    BY <1>1, <2>1, <2>2 DEF OneDivision, OneMultiplication
  <2>4. busy["MUL"]
    BY <1>1, <2>2, <2>3 DEF OneMultiplication
  <2> QED
    BY <1>3, <2>3, <2>4
<1>11. ~busy'["MUL"] =>
         /\ ~Is(preRo, "MUL")' /\ ~Is(ro, "MUL")'
         /\ mul'[1] # None => waiting' = {}
         /\ mul'[1] # None \/ mul'[2] # None => \A u \in Units : cand'[u] = None
         /\ \A s \in 1 .. 3 : mul'[s] # None => preRo' = None /\ ro' = None
  <2> SUFFICES ASSUME ~busy'["MUL"]
               PROVE  /\ ~Is(preRo, "MUL")' /\ ~Is(ro, "MUL")'
                      /\ mul'[1] # None => waiting' = {}
                      /\ mul'[1] # None \/ mul'[2] # None => \A u \in Units : cand'[u] = None
                      /\ \A s \in 1 .. 3 : mul'[s] # None => preRo' = None /\ ro' = None
    OBVIOUS
  <2>1. ~Is(preRo, "MUL")'
    BY <1>3
  <2>2. f.trap \/ ~busy["MUL"] \/ "MUL" \in SafeFrom(curr)
    <3>1. busy'["MUL"] = BusyNext(f, curr, "MUL")
      BY <1>1, <1>2, FrontMoves
    <3>2. ~f.trap => ~FlushFrees(f, "MUL")
      BY DEF FlushFrees
    <3> QED
      BY <3>1, <3>2 DEF BusyNext
  <2>3. CASE f.trap
    <3>1. /\ \A i \in Orders : Kills(f, i)
          /\ f # NoFlush
      BY <1>1, <2>3, FlushIsTyped DEF NoFlush
    <3>2. waiting' = {}
      <4>1. waiting' \cap Orders = {} /\ Orders' = Orders /\ waiting' \subseteq Orders'
        BY <1>1, <3>1, LiveNext, ProgramGrows, StepKeepsTypes
           DEF TypeInv, Pipe1TypeOK
      <4> QED
        BY <4>1
    <3>3. \A u \in Units : cand'[u] = None
      BY <1>1, <3>1, FrontMoves, IssueIsTyped DEF TypeInv, PipeShape
    <3>4. preRo' = None /\ ro' = None
      <4>1. Winners(f, curr) = {}
        BY <1>1, <3>1, OneWins
      <4>2. ro' = If(preRo, ~Kills(f, preRo)) /\ preRo' = None
        BY <1>1, <4>1, FrontMoves
      <4> QED
        BY <1>1, <3>1, <4>2 DEF If, TypeInv, Pipe1TypeOK
    <3> QED
      BY <3>2, <3>3, <3>4 DEF Is
  <2>4. CASE ~busy["MUL"]
    <3>1. /\ ~Is(preRo, "MUL") /\ ~Is(ro, "MUL")
          /\ mul[1] # None => waiting = {}
          /\ mul[1] # None \/ mul[2] # None =>
               preRo = None /\ \A u \in Units : cand[u] = None
      BY <1>1, <2>4 DEF OneMultiplication
    <3>2. mul[1] # None => \A u \in Units : cand'[u] = None
      BY <1>1, <3>1, FrontMoves, IssueIsTyped
    <3>3. mul[1] # None \/ mul[2] # None => preRo' = None /\ ro' = None
      <4>1. mul[1] # None \/ mul[2] # None => Winners(f, curr) = {}
        BY <1>1, <3>1, OneWins DEF Orders, None
      <4> QED
        BY <1>1, <3>1, <4>1, FrontMoves DEF If
    <3> QED
      BY <1>3, <1>4, <1>5, <2>1, <3>1, <3>2, <3>3
  <2>5. CASE "MUL" \in SafeFrom(curr)
    <3>1. /\ mul[3] # None \/ pend["MUL"] # None
          /\ pend["MUL"] # None => pend["MUL"] \notin dead
      BY <1>1, <2>5, PendingMoves DEF SafeFrom
    <3>2. pend["MUL"] # None => ~Is(preRo, "MUL")
      BY <3>1, AccessesExclude
    <3>3. ~Is(preRo, "MUL") /\ ~Is(ro, "MUL") /\ mul[1] = None /\ mul[2] = None
      BY <1>1, <3>1, <3>2 DEF OneMultiplication
    <3> QED
      BY <1>3, <1>4, <1>5, <2>1, <3>3
  <2> QED
    BY <2>2, <2>3, <2>4, <2>5
<1> QED
  BY <1>7, <1>8, <1>9, <1>10, <1>11 DEF OneMultiplication

\* PortFreesInTime is kept.
LEMMA StepKeepsPort ==
  ASSUME PipeInv, NEW f \in FlushesNow, NEW accept \in BOOLEAN,
         NEW answers \in BOOLEAN, NEW short \in BOOLEAN, NEW curr,
         curr = Current(answers),
         NEW raw \in IssueChoices(f, curr), NEW prog \in Dispatch(f),
         StepBy(f, accept, answers, short, raw, prog)
  PROVE  PortFreesInTime'
<1>1. /\ TypeInv /\ OneDivision /\ OneMultiplication /\ PortFreesInTime
      /\ Issue(f, curr, raw) /\ Multiply /\ Divide(short) /\ Memory(f, accept, answers)
      /\ pend' = [u \in Units |-> PendingNext(curr, u)] /\ unitOf' = prog
  BY DEF PipeInv, StepBy, Bookkeeping
<1>2. {"DIV", "MUL", "MEM"} \subseteq Units /\ div.left \in Nat
  BY <1>1 DEF Units, TypeInv, Pipe1TypeOK
<1>3. /\ Is(ro, "MEM")' => Is(preRo, "MEM")
      /\ Is(ro, "DIV")' => Is(preRo, "DIV")
      /\ Is(preRo, "MEM")' => "MEM" \in Winners(f, curr)
      /\ Is(preRo, "DIV")' => ~busy["DIV"]
  BY <1>1, <1>2, StagesMove
<1>4. /\ mul'[1] = If(ro, Is(ro, "MUL")) /\ mul'[2] = mul[1] /\ mul'[3] = mul[2]
      /\ req' = RequestNext(f, accept)
      /\ lsu' = IF accept THEN req ELSE If(If(lsu, ~Kills(f, lsu)), ~answers)
      /\ accept => req # None
      /\ div.left > 0 => div'.left = div.left - 1 /\ (div'.done <=> div.left = 1)
      /\ div.left = 0 /\ ~Is(ro, "DIV") => div'.left = 0 /\ ~div'.done
      /\ div'.left \in Nat
  <2>1. div' \in [order : Orders \cup {None}, left : 0 .. DivCycles, done : BOOLEAN]
    BY <1>1, UnitsMove
  <2>2. div'.left \in Nat
    BY <2>1
  <2> QED
    BY <1>1, <2>2, UnitsMove
<1>5. /\ pend'["MUL"] # None => div.done /\ (mul[3] # None \/ pend["MUL"] # None)
      /\ pend'["MEM"] # None =>
           \/ pend["MEM"] # None
           \/ lsu # None /\ lsu \notin dead /\ answers /\ "MEM" \notin EmitsFrom(curr)
      /\ pend'["MEM"] # None /\ lsu = None => "MEM" \notin EmitsFrom(curr)
      /\ pend'["MEM"] # None /\ "MEM" \notin EmitsFrom(curr) => PortTaken
  BY <1>1, PendingMoves
<1> SUFFICES ASSUME pend'["MEM"] # None
             PROVE  /\ req' = None /\ lsu' = None
                    /\ Is(ro, "MEM")' => ~PortTaken'
                    /\ Is(preRo, "MEM")' =>
                         /\ ~(Due(1)' /\ Is(ro, "DIV")')
                         /\ ~(Due(1)' /\ Mult(1)') /\ ~(Is(ro, "DIV")' /\ Mult(1)')
                    /\ ~(Due(2)' /\ Mult(2)' /\ (Is(ro, "DIV")' \/ Is(preRo, "DIV")'))
  BY DEF PortFreesInTime
<1>6. /\ PortTaken
      /\ \/ pend["MEM"] # None /\ req = None /\ lsu = None
         \/ lsu # None /\ lsu \notin dead /\ answers /\ "MEM" \notin EmitsFrom(curr)
  BY <1>1, <1>5 DEF PortFreesInTime
\* Who is ahead on the way to the port, now and, by it, in the next cycle.
<1>7. /\ Due(1) <=> div.done \/ div.left = 1
      /\ Due(2) <=> div.done \/ div.left \in 1 .. 2
      /\ Mult(1) <=> pend["MUL"] # None \/ mul[2] # None \/ mul[3] # None
      /\ Mult(2) <=> \/ pend["MUL"] # None \/ mul[1] # None
                     \/ mul[2] # None \/ mul[3] # None
  BY <1>2 DEF Due, Mult
<1>8. /\ PortTaken' => div'.done \/ mul[2] # None \/ pend'["MUL"] # None
      /\ Due(1)' => div.left \in 1 .. 2 \/ Is(ro, "DIV")
      /\ Due(2)' => div.left \in 1 .. 3 \/ Is(ro, "DIV")
      /\ div'.done => div.left = 1 \/ Is(ro, "DIV")
      /\ Mult(1)' => pend'["MUL"] # None \/ mul[1] # None \/ mul[2] # None
      /\ Mult(2)' => \/ pend'["MUL"] # None \/ Is(ro, "MUL")
                     \/ mul[1] # None \/ mul[2] # None
  <2>1. /\ Due(1)' <=> div'.done \/ div'.left = 1
        /\ Due(2)' <=> div'.done \/ div'.left \in 1 .. 2
        /\ Mult(1)' <=> pend'["MUL"] # None \/ mul'[2] # None \/ mul'[3] # None
        /\ Mult(2)' <=> \/ pend'["MUL"] # None \/ mul'[1] # None
                        \/ mul'[2] # None \/ mul'[3] # None
    BY <1>4 DEF Due, Mult
  <2>2. mul'[1] # None => Is(ro, "MUL")
    BY <1>4 DEF If
  <2>3. /\ div'.done => div.left = 1 \/ Is(ro, "DIV")
        /\ div'.left = 1 => div.left = 2 \/ Is(ro, "DIV")
        /\ div'.left = 2 => div.left = 3 \/ Is(ro, "DIV")
    BY <1>2, <1>4
  <2> QED
    BY <1>4, <2>1, <2>2, <2>3 DEF PortTaken
<1>9. /\ div.done => div.left = 0
      /\ Is(preRo, "DIV") => ~Is(ro, "DIV")
      /\ Is(preRo, "DIV")' => ~Is(ro, "DIV")
  BY <1>1, <1>2, <1>3 DEF OneDivision
<1>10. /\ mul[1] # None \/ mul[2] # None => mul[3] = None /\ pend["MUL"] = None
       /\ Is(ro, "MUL") => mul[3] = None /\ pend["MUL"] = None
  BY <1>1 DEF OneMultiplication
<1>11. req' = None /\ lsu' = None
  <2>1. req = None /\ ~Is(ro, "MEM")
    BY <1>1, <1>6, AccessesExclude DEF PortFreesInTime
  <2> QED
    BY <1>4, <1>6, <2>1 DEF RequestNext, If
<1>12. lsu # None => ~Is(ro, "MEM")' /\ ~Is(preRo, "MEM")'
  <2> SUFFICES ASSUME lsu # None PROVE ~Is(ro, "MEM")' /\ ~Is(preRo, "MEM")'
    OBVIOUS
  <2>1. /\ ~Is(preRo, "MEM")
        /\ lsu \in {req, lsu, ro, preRo, pend["MEM"]} /\ Is(lsu, "MEM")
    BY <1>1, AccessesExclude DEF TypeInv, Pipe1TypeOK
  <2>2. busy["MEM"] /\ "MEM" \notin SafeFrom(curr)
    BY <1>6, <2>1, AccessesExclude DEF SafeFrom
  <2>3. "MEM" \notin Winners(f, curr)
    BY <1>1, <2>2, OneWins DEF Blocks
  <2> QED
    BY <1>3, <2>1, <2>3
<1>13. Is(ro, "MEM")' => ~PortTaken'
  <2> SUFFICES ASSUME Is(ro, "MEM")', PortTaken' PROVE FALSE
    OBVIOUS
  <2>1. /\ ~(Due(1) /\ Is(ro, "DIV")) /\ ~(Due(1) /\ Mult(1))
        /\ ~(Is(ro, "DIV") /\ Mult(1))
    BY <1>1, <1>3, <1>6, <1>12 DEF PortFreesInTime
  <2> QED
    BY <1>5, <1>6, <1>7, <1>8, <1>9, <1>10, <2>1 DEF PortTaken
<1>14. Is(preRo, "MEM")' =>
         /\ ~(Due(1)' /\ Is(ro, "DIV")')
         /\ ~(Due(1)' /\ Mult(1)') /\ ~(Is(ro, "DIV")' /\ Mult(1)')
  <2> SUFFICES ASSUME Is(preRo, "MEM")'
               PROVE  /\ ~(Due(1)' /\ Is(ro, "DIV")')
                      /\ ~(Due(1)' /\ Mult(1)') /\ ~(Is(ro, "DIV")' /\ Mult(1)')
    OBVIOUS
  <2>1. ~(Due(2) /\ Mult(2) /\ (Is(ro, "DIV") \/ Is(preRo, "DIV")))
    BY <1>1, <1>6, <1>12 DEF PortFreesInTime
  <2>2. ~(Due(1)' /\ Is(ro, "DIV")')
    BY <1>2, <1>3, <1>6, <1>7, <1>8, <1>9, <2>1 DEF PortTaken
  <2>3. ~(Due(1)' /\ Mult(1)')
    BY <1>2, <1>5, <1>6, <1>7, <1>8, <1>9, <1>10, <2>1 DEF PortTaken
  <2>4. ~(Is(ro, "DIV")' /\ Mult(1)')
    BY <1>2, <1>3, <1>5, <1>6, <1>7, <1>8, <1>9, <1>10, <2>1 DEF PortTaken
  <2> QED
    BY <2>2, <2>3, <2>4
<1>15. ~(Due(2)' /\ Mult(2)' /\ (Is(ro, "DIV")' \/ Is(preRo, "DIV")'))
  <2> SUFFICES ASSUME Due(2)', Mult(2)', Is(ro, "DIV")' \/ Is(preRo, "DIV")' PROVE FALSE
    OBVIOUS
  <2>1. ~div.done /\ (mul[3] # None \/ pend["MUL"] # None)
    BY <1>2, <1>3, <1>6, <1>8, <1>9 DEF PortTaken
  <2> QED
    BY <1>5, <1>8, <1>10, <2>1
<1> QED
  BY <1>11, <1>13, <1>14, <1>15

-----------------------------------------------------------------------------
\* Without a cycle the types stay as well.
LEMMA StutterKeepsTypes ==
  ASSUME TypeInv, UNCHANGED pipe1Vars
  PROVE  TypeInv'
<1> USE DEF pipe1Vars
<1>1. Orders' = Orders /\ unitOf' = unitOf
  BY DEF Orders
<1>2. PipeShape'
  BY <1>1 DEF TypeInv, PipeShape
<1>3. Pipe1TypeOK'
  <2>1. /\ \A u \in Units : \A i \in {cand'[u], pend'[u]} : i # None => unitOf'[i] = u
        /\ \A s \in 1 .. 3 : mul'[s] # None => unitOf'[mul'[s]] = "MUL"
        /\ div'.order # None => unitOf'[div'.order] = "DIV"
        /\ \A i \in {req', lsu'} : i # None => unitOf'[i] = "MEM"
    BY DEF TypeInv, Pipe1TypeOK, Is
  <2> QED
    BY <1>1, <2>1 DEF TypeInv, Pipe1TypeOK, Is
<1> QED
  BY <1>2, <1>3 DEF TypeInv

\* Reset has nothing in flight.
LEMMA PipeInvInit == Pipe1Init => PipeInv
<1> SUFFICES ASSUME Pipe1Init PROVE PipeInv
  OBVIOUS
<1>1. TypeInv
  BY TypeInvInit
<1>2. Orders = {}
  BY DEF Pipe1Init, Orders
<1>3. OnePlaceEach /\ BusyWhileWorking
  BY <1>2 DEF OnePlaceEach, BusyWhileWorking
<1>4. FrontIsLive /\ OneDivision /\ OneMultiplication /\ PortFreesInTime
  BY DEF Pipe1Init, FrontIsLive, OneDivision, Dividing, OneMultiplication,
         PortFreesInTime, Is, Units
<1> QED
  BY <1>1, <1>3, <1>4 DEF PipeInv

\* No cycle breaks the invariant.
LEMMA PipeInvNext ==
  ASSUME PipeInv, [Cycle]_pipe1Vars
  PROVE  PipeInv'
<1>1. CASE UNCHANGED pipe1Vars
  <2>1. TypeInv'
    BY <1>1, StutterKeepsTypes DEF PipeInv
  <2>2. OnePlaceEach' /\ BusyWhileWorking'
    <3>1. /\ Orders' = Orders /\ dead' = dead /\ unitOf' = unitOf /\ dropped' = dropped
          /\ busy' = busy /\ memOrder' = memOrder
      BY <1>1 DEF pipe1Vars, Orders
    <3>2. \A i : InUnit(i)' = InUnit(i)
      BY <1>1 DEF pipe1Vars, InUnit
    <3>3. \A i : Places(i)' = Places(i)
      BY <1>1, <3>2 DEF pipe1Vars, Places
    <3> QED
      BY <3>1, <3>3 DEF PipeInv, OnePlaceEach, BusyWhileWorking, Won, Is
  <2>3. FrontIsLive' /\ OneDivision' /\ OneMultiplication' /\ PortFreesInTime'
    BY <1>1 DEF pipe1Vars, PipeInv, FrontIsLive, OneDivision, Dividing,
                OneMultiplication, PortFreesInTime, PortTaken, Due, Mult, Is, Orders
  <2> QED
    BY <2>1, <2>2, <2>3 DEF PipeInv
<1>2. CASE Cycle
  <2>1. PICK f \in FlushesNow, accept \in BOOLEAN, answers \in BOOLEAN,
             short \in BOOLEAN :
          \E raw \in IssueChoices(f, Current(answers)), prog \in Dispatch(f) :
            StepBy(f, accept, answers, short, raw, prog)
    BY <1>2, CycleIsAStep
  <2>2. PICK raw \in IssueChoices(f, Current(answers)), prog \in Dispatch(f) :
          StepBy(f, accept, answers, short, raw, prog)
    BY <2>1
  <2>3. TypeInv'
    BY <2>2, StepKeepsTypes DEF PipeInv
  <2>4. FrontIsLive' /\ OnePlaceEach' /\ BusyWhileWorking'
    BY <2>2, StepKeepsFrontLive, StepKeepsPlaces, StepKeepsBusy
  <2>5. OneDivision' /\ OneMultiplication' /\ PortFreesInTime'
    BY <2>2, StepKeepsDivision, StepKeepsMultiplication, StepKeepsPort
  <2> QED
    BY <2>3, <2>4, <2>5 DEF PipeInv
<1> QED
  BY <1>1, <1>2

\* Every register of the pipe holds an instruction of the program or nothing,
\* and each unit's registers (dispatch_unit.v, exec_pipe1.v, mul_unit.v,
\* div_unit.v) instructions of that unit, whatever the flushes and traps.
THEOREM Pipe1Types == Pipe1Spec => []Pipe1TypeOK
<1>1. TypeInv /\ [Cycle]_pipe1Vars => TypeInv'
  <2> SUFFICES ASSUME TypeInv, [Cycle]_pipe1Vars PROVE TypeInv'
    OBVIOUS
  <2>1. CASE UNCHANGED pipe1Vars
    BY <2>1, StutterKeepsTypes
  <2>2. CASE Cycle
    BY <2>2, CycleIsAStep, StepKeepsTypes
  <2> QED
    BY <2>1, <2>2
<1>2. TypeInv => Pipe1TypeOK
  BY DEF TypeInv
<1> QED
  BY <1>1, <1>2, TypeInvInit, PTL DEF Pipe1Spec

\* The inductive invariant: how few instructions may be past the arbiter of
\* iq_pipe1_arbiter.v at once, and how soon the write-back port is free.
THEOREM Pipe1Invariant == Pipe1Spec => []PipeInv
<1>1. PipeInv /\ [Cycle]_pipe1Vars => PipeInv'
  BY PipeInvNext
<1> QED
  BY <1>1, PipeInvInit, PTL DEF Pipe1Spec

\* No live instruction is lost in the request register or the pending
\* registers of exec_pipe1.v or in the candidate registers of dispatch_unit.v,
\* and none is in two of them.  The divider loses one only when it arrives
\* while a division runs that a trap has left in it (dispatch_unit.v:1715).
THEOREM NothingIsLost == Pipe1Spec => []OnePlaceEach
<1>1. PipeInv => OnePlaceEach
  BY DEF PipeInv
<1> QED
  BY <1>1, Pipe1Invariant, PTL

\* The busy flags of dispatch_unit.v cover every live instruction past the
\* arbiter until its own write-back, mem_fu_order_id naming the access.
THEOREM BusyUntilWriteback == Pipe1Spec => []BusyWhileWorking
<1>1. PipeInv => BusyWhileWorking
  BY DEF PipeInv
<1> QED
  BY <1>1, Pipe1Invariant, PTL
=============================================================================
