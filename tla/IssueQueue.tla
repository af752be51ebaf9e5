----------------------------- MODULE IssueQueue -----------------------------
(***************************************************************************)
(* One issue queue (src/rtl/issue_queue.v), one clock edge per step:       *)
(* instructions wait for the tags of their sources, the oldest ready one   *)
(* is issued, and its slot is released at commit.  A queue with            *)
(* CheckLoadStoreOrder keeps a ring of its stores beside the slots, whose  *)
(* head is the oldest store; loads and stores behind it are not issued.    *)
(*                                                                         *)
(* Age is the order id: e_seq counts dispatches and grows with it.  The    *)
(* two source tags of an entry are a set of waits.  The payload, the       *)
(* epoch, commit port 1 and the mret and side-effect gates of the integer  *)
(* queue are left out.                                                     *)
(***************************************************************************)
EXTENDS Integers, Sequences, FiniteSets

CONSTANTS
  IqDepth,               \* IQ_DEPTH
  WakeHoldCycles,        \* WAKE_HOLD
  CheckLoadStoreOrder,   \* CHECK_LOAD_STORE_ORDER
  StoreCountMod          \* 2^STORE_COUNT_W

ASSUME IssueQueueAssumption ==
  /\ IqDepth \in Nat \ {0, 1}
  /\ WakeHoldCycles \in 0 .. 3
  /\ CheckLoadStoreOrder \in BOOLEAN
  /\ StoreCountMod \in Nat /\ StoreCountMod > IqDepth

VARIABLES
  iq,          \* e_valid, e_issued, e_tag, ..., per slot
  ring,        \* store_slot_r, store_order_r
  ringHead,    \* store_head_ptr_r
  ringTail,    \* store_tail_ptr_r
  ringCount,   \* store_count_r
  ringOldest   \* store_head_order_id_r

iqVars == <<iq, ring, ringHead, ringTail, ringCount, ringOldest>>

IqSlots == 0 .. IqDepth - 1

FreeEntry == [valid |-> FALSE, issued |-> FALSE, tag |-> 0, order |-> 0,
              kind |-> "alu", waits |-> {}, ready |-> FALSE, hold |-> 0]

\* d is a dispatched instruction: [tag, order, kind, waits], where waits holds
\* the [tag, order] of each source that is not ready.
Queued(d) ==
  [valid |-> TRUE, issued |-> FALSE, tag |-> d.tag, order |-> d.order,
   kind |-> d.kind, waits |-> d.waits, ready |-> d.waits = {}, hold |-> 0]

IqInit ==
  /\ iq = [i \in IqSlots |-> FreeEntry]
  /\ ring = [k \in IqSlots |-> [slot |-> 0, order |-> 0]]
  /\ ringHead = 0 /\ ringTail = 0 /\ ringCount = 0 /\ ringOldest = 0

-----------------------------------------------------------------------------
\* Combinational signals.  The inputs of a cycle are a record in:
\*   flush     as in Rob: [valid, ordered, order]
\*   wb        the [tag, order] written back with a result
\*   early     the tags of loads whose data is about to be written back
\*   commit    the [tag, order] on the commit port, at most one
\*   disp      the instructions dispatched, at most two
\*   inhibit   issue_inhibit
\*   block     the order ids of issue_after_order_block, at most one

FreeSlots == {i \in IqSlots : ~iq[i].valid}
First(S) == CHOOSE i \in S : \A j \in S : i <= j

\* free0_idx and free1_idx
SlotFor(n) == IF n = 1 THEN First(FreeSlots) ELSE First(FreeSlots \ {First(FreeSlots)})

\* Mutant: only loads wait for the oldest store.
LoadsBehindStore(e) ==
  CheckLoadStoreOrder /\ e.kind = "load" /\ ringCount # 0 /\ ringOldest < e.order

\* older_store_blocks, older_store_blocks_store
BehindStore(e) ==
  /\ CheckLoadStoreOrder /\ e.kind \in {"load", "store"}
  /\ ringCount # 0 /\ ringOldest < e.order

Eligible(e, in) ==
  /\ e.valid /\ ~e.issued /\ e.ready /\ e.hold = 0
  /\ ~in.inhibit
  /\ \A o \in in.block : e.order <= o
  /\ ~BehindStore(e)

\* The slot issued in this cycle: the oldest eligible one, if any.
Selected(in) ==
  {i \in IqSlots : /\ Eligible(iq[i], in)
                   /\ \A j \in IqSlots :
                        Eligible(iq[j], in) => iq[i].order <= iq[j].order}

FlushKills(f, order) == f.valid /\ (f.ordered => order > f.order)

Committing(e, in) == e.valid /\ [tag |-> e.tag, order |-> e.order] \in in.commit

\* The waits that end in this cycle.
Wakes(e, in) == {w \in e.waits : w \in in.wb \/ w.tag \in in.early}

Woken(e, in) ==
  LET left == e.waits \ Wakes(e, in)
  IN  IF ~e.valid \/ e.issued THEN e
      ELSE [e EXCEPT
              !.waits = left, !.ready = left = {},
              !.hold = IF Wakes(e, in) # {} THEN WakeHoldCycles
                       ELSE IF @ # 0 THEN @ - 1 ELSE 0]

-----------------------------------------------------------------------------
\* The ring of stores after the cycle, as a record passed from one stage of
\* the combinational block to the next.

RingNow == [mem |-> ring, head |-> ringHead, tail |-> ringTail,
            count |-> ringCount, oldest |-> ringOldest]

\* Mutant: the pointer wraps one place late.
RingIncLate(p) == IF p = IqDepth THEN 0 ELSE p + 1

RingInc(p) == IF p = IqDepth - 1 THEN 0 ELSE p + 1

Popped(r) ==
  IF r.count = 1
  THEN [r EXCEPT !.head = 0, !.tail = 0, !.count = 0, !.oldest = 0]
  ELSE [r EXCEPT !.head = RingInc(@), !.count = (@ - 1) % StoreCountMod]

\* A trap flush empties the ring.
Empties(in) == in.flush.valid /\ ~in.flush.ordered
Emptied(r, in) ==
  IF Empties(in)
  THEN [r EXCEPT !.head = 0, !.tail = 0, !.count = 0, !.oldest = 0] ELSE r

\* Mutant: a dead store stays in the ring.
NotCleaned(r, in) == r

\* A dead store leaves the ring when it is at its head, one per cycle.
Cleaned(r, in) ==
  LET e == iq[r.mem[r.head].slot]
      dead == \/ ~e.valid \/ e.kind # "store" \/ e.order # r.oldest
              \/ in.flush.ordered /\ FlushKills(in.flush, r.oldest)
  IN  IF r.count # 0 /\ dead THEN Popped(r) ELSE r

\* A committed store leaves the head.
Released(r, in) ==
  LET e == iq[r.mem[r.head].slot]
  IN  IF r.count # 0 /\ e.kind = "store" /\ Committing(e, in)
      THEN Popped(r) ELSE r

Pushed(r, slot, order) ==
  LET p == IF r.count = 0 THEN 0 ELSE RingInc(r.tail)
  IN  [r EXCEPT !.mem[p] = [slot |-> slot, order |-> order],
                !.head = IF r.count = 0 THEN p ELSE @,
                !.tail = p, !.count = (@ + 1) % StoreCountMod]

\* The n-th dispatched instruction enters the ring if it is a store with a slot.
Entered(r, n, in) ==
  IF /\ n \in DOMAIN in.disp /\ in.disp[n].kind = "store"
     /\ Cardinality(FreeSlots) >= n
  THEN Pushed(r, SlotFor(n), in.disp[n].order) ELSE r

\* The ring as the stores of this cycle find it.
RingLeft(in) == Released(Cleaned(Emptied(RingNow, in), in), in)

RingNext(in) ==
  LET r == Entered(Entered(RingLeft(in), 1, in), 2, in)
  IN  [r EXCEPT !.oldest = IF r.count = 0 THEN 0 ELSE r.mem[r.head].order]

\* More stores enter the ring than it has places left: nothing tests for room.
Overfills(in) ==
  RingLeft(in).count + Cardinality({n \in DOMAIN in.disp : in.disp[n].kind = "store"})
    > IqDepth

-----------------------------------------------------------------------------
\* One clock edge.  A slot is dropped by a flush or a commit; the selected one
\* is marked issued; the others take the wake-ups; dispatch fills free slots.
SlotNext(i, in) ==
  LET taken == {n \in DOMAIN in.disp :
                  n <= Cardinality(FreeSlots) /\ SlotFor(n) = i}
  IN  IF taken # {} THEN Queued(in.disp[CHOOSE n \in taken : TRUE])
      ELSE IF ~iq[i].valid THEN iq[i]
      ELSE IF FlushKills(in.flush, iq[i].order) \/ Committing(iq[i], in)
           THEN FreeEntry
      ELSE [Woken(iq[i], in) EXCEPT !.issued = @ \/ i \in Selected(in)]

IqCycle(in) ==
  /\ iq' = [i \in IqSlots |-> SlotNext(i, in)]
  /\ LET r == RingNext(in) IN
       /\ ring' = r.mem /\ ringHead' = r.head /\ ringTail' = r.tail
       /\ ringCount' = r.count /\ ringOldest' = r.oldest
=============================================================================
