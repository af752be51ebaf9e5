---------------------------- MODULE FreelistUse ----------------------------
(***************************************************************************)
(* The free list under the requests the core may make of it.  Commit and   *)
(* recovery never hand back a register in the same cycle (module Rename    *)
(* checks this of their composition), and only registers that are out come *)
(* back.                                                                   *)
(***************************************************************************)
EXTENDS Freelist

CONSTANT MaxBranch   \* bound: branches imaged in a behaviour

VARIABLES
  branchId,   \* order id of the next branch
  granted     \* the registers seen on alloc0_prd, alloc1_prd when requested

useVars == <<flVars, branchId, granted>>

\* fl_disp_stall holds dispatch until the list can serve all it asks for.
Servable(n) ==
  CASE n = 0 -> TRUE
    [] n = 1 -> CanAlloc1
    [] OTHER -> CanAlloc2(TRUE)

Requested(n) ==
  CASE n = 0 -> <<>>
    [] n = 1 -> <<Alloc0Prd>>
    [] OTHER -> <<Alloc0Prd, Alloc1Prd(TRUE)>>

\* Up to two branches, each imaged behind the allocations that precede it.
Captures(n) ==
  {c \in UNION {[1 .. k -> 0 .. n] : k \in 0 .. 2} :
     /\ branchId + Len(c) <= MaxBranch
     /\ \A i, j \in DOMAIN c : i <= j => c[i] <= c[j]}

Serve ==
  \E n \in 0 .. 2, back \in {0} \cup (Phys \ (OnList \cup {0})),
     recovered \in BOOLEAN,
     drop \in {NoOrder} \cup {flCkpt[s].order : s \in Slots \ OpenSlots} :
    /\ Servable(n)
    /\ back = 0 => ~recovered
    /\ \E c \in Captures(n) :
         /\ FreelistCycle([Quiet EXCEPT
              !.allocs = n, !.drop = drop,
              !.free = IF recovered THEN 0 ELSE back,
              !.push = IF recovered THEN back ELSE 0,
              !.caps = [k \in DOMAIN c |->
                          [order |-> branchId + k - 1, allocs |-> c[k]]]])
         /\ branchId' = branchId + Len(c)
    /\ granted' = Requested(n)

Mispredict ==
  \E s \in Slots \ OpenSlots :
    /\ FreelistCycle([Quiet EXCEPT !.restore = flCkpt[s].order])
    /\ granted' = <<>> /\ UNCHANGED branchId

\* freelist_rebuild_valid: no checkpoint is live and the buffer is empty, so
\* that NumArch registers are mapped and no other is in use.
Refill ==
  /\ OpenSlots = Slots
  /\ \E mapped \in SUBSET Phys :
       /\ 0 \in mapped /\ Cardinality(mapped) = NumArch
       /\ FreelistCycle([Quiet EXCEPT !.rebuild = TRUE, !.mapped = mapped])
  /\ granted' = <<>> /\ UNCHANGED branchId

UseInit == FreelistInit /\ branchId = 0 /\ granted = <<>>
UseNext == Serve \/ Mispredict \/ Refill
UseSpec == UseInit /\ [][UseNext]_useVars

-----------------------------------------------------------------------------
\* The ring implements the queue, alloc1_prd being its second element when two
\* are requested.  freelist.v:5 calls it a "Physical register free FIFO with
\* dual allocate".
Fifo == INSTANCE FreeFifo WITH
  Registers <- Phys \ {0}, list <- List,
  images <- {[order |-> flCkpt[s].order,
              list |-> ListOf(flCkpt[s].mem, flCkpt[s].head, flCkpt[s].tail)] :
             s \in Slots \ OpenSlots}

ImplementsFifo == Fifo!FifoSpec
=============================================================================
