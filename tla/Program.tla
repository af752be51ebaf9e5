------------------------------ MODULE Program ------------------------------
(***************************************************************************)
(* What the reorder buffer promises, without a ring, marks or a walk: of   *)
(* the instructions in flight the oldest retires, one at a time, new ones  *)
(* enter behind them all, and a redirect takes away every one from some    *)
(* point of the program on.                                                *)
(***************************************************************************)
EXTENDS Naturals

CONSTANT Width    \* instructions that may enter in one step

VARIABLES
  window,     \* the order ids in flight
  next,       \* the next order id to be given out
  retiring    \* the order id retiring in this step: {} or a singleton

programVars == <<window, next, retiring>>

ProgramInit == window = {} /\ next = 0 /\ retiring = {}

Oldest == {o \in window : \A p \in window : o <= p}

\* The oldest may retire.  Either instructions enter behind the rest, or the
\* rest is cut off at some point.
ProgramStep ==
  \E leaving \in {{}, Oldest} :
    /\ retiring' = leaving
    /\ LET rest == window \ leaving IN
       \/ \E n \in 0 .. Width :
            /\ next' = next + n
            /\ window' = rest \cup next .. next + n - 1
       \/ \E cut \in 0 .. next :
            /\ window' = {o \in rest : o < cut}
            /\ next' = next

ProgramSpec == ProgramInit /\ [][ProgramStep]_programVars
=============================================================================
