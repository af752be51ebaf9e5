--------------------------- MODULE SchedulerProofs ---------------------------
(***************************************************************************)
(* Proofs about dynamic scheduling, for every program, number of tags,     *)
(* depth of the queue and wake-up delay: a tag names one instruction, no   *)
(* wake-up is lost, an instruction leaves the queue with its operands      *)
(* unless the table had forgotten the producer, and loads and stores leave *)
(* the memory queue only behind retired stores.                            *)
(***************************************************************************)
EXTENDS Scheduler, FiniteSetTheorems, WellFoundedInduction, TLAPS

Stages == {"waiting", "issued", "answered", "written"}
Kinds == {"alu", "load", "store", "branch"}

Flights == [order : Nat, tag : Tags, ins : Instructions, stage : Stages,
            hidden : BOOLEAN, needs : SUBSET Nat]
TagEntries == [live : BOOLEAN, ready : BOOLEAN, order : Nat, readyOrder : Nat]
Entries == [valid : BOOLEAN, issued : BOOLEAN, tag : 0 .. NumTags,
            order : 0 .. MaxOrder, kind : Kinds, waits : SUBSET Waits,
            ready : BOOLEAN, hold : 0 .. WakeHoldCycles]
RingPlaces == [slot : IqSlots, order : Nat]

\* Order ids grow with dispatch, and commit takes the oldest.
FlightInv ==
  /\ orderId \in 0 .. MaxOrder
  /\ flight \in SUBSET Flights /\ committing \in SUBSET Flights
  /\ resolved \in SUBSET [order : Nat, miss : BOOLEAN]
  /\ \A x \in flight \cup committing : x.order < orderId
  /\ \A x, y \in flight : x.order = y.order => x = y
  /\ \A c, d \in committing : c = d
  /\ \A c \in committing, x \in flight : c.order < x.order
  /\ \A x \in flight : \A o \in x.needs : o < x.order

\* The tag's entry in the pool follows its instruction.
TagInv ==
  /\ tags \in [Tags -> TagEntries]
  /\ TagsNameOne
  /\ \A x \in flight \cup committing : tags[x.tag].live /\ tags[x.tag].order = x.order
  /\ \A x \in flight :
       /\ x.stage = "written" /\ x.ins.rd # 0
            => tags[x.tag].ready /\ tags[x.tag].readyOrder = x.order
       /\ tags[x.tag].ready /\ tags[x.tag].readyOrder = x.order
            => x.stage \in {"answered", "written"}

\* The table names the youngest writer that no cancelled one has hidden.
YoungestWriter(x) == \A y \in flight : y.ins.rd = x.ins.rd => y.order <= x.order
TableInv ==
  /\ result \in [Regs -> {NoProducer} \cup Waits]
  /\ \A r \in Regs : result[r] # NoProducer => result[r].order < orderId
  /\ \A r \in Regs : \A x \in flight : result[r] = TagOf(x) => x.ins.rd = r
  /\ \A x \in flight :
       x.ins.rd # 0 /\ ~x.hidden /\ YoungestWriter(x) => result[x.ins.rd] = TagOf(x)

Done(p) == p.stage \in {"answered", "written"} \/ p.hidden
Queueing(i) == iq[i].valid /\ ~iq[i].issued

\* An entry that has not been issued belongs to an instruction that waits, its
\* waits to older ones that have yet to write, and they cover what it needs.
EntryInv ==
  /\ iq \in [IqSlots -> Entries]
  /\ \A i \in IqSlots : iq[i].valid => iq[i].order < orderId
  /\ \A i, j \in IqSlots :
       iq[i].valid /\ iq[j].valid /\ iq[i].order = iq[j].order => i = j
  /\ \A i \in IqSlots : Queueing(i) =>
       /\ iq[i].ready <=> iq[i].waits = {}
       /\ \A w \in iq[i].waits :
            /\ w.order < iq[i].order
            /\ \E x \in flight : TagOf(x) = w /\ x.stage # "written" /\ x.ins.rd # 0
       /\ \A x \in flight : x.order = iq[i].order =>
            /\ x.stage = "waiting"
            /\ \A p \in flight :
                 p.order \in x.needs => Done(p) \/ TagOf(p) \in iq[i].waits

RingInv ==
  /\ ring \in [IqSlots -> RingPlaces]
  /\ ringHead \in IqSlots /\ ringTail \in IqSlots
  /\ ringCount \in 0 .. StoreCountMod - 1 /\ ringOldest \in Nat

SchedInv ==
  /\ FlightInv /\ TagInv /\ TableInv /\ EntryInv /\ RingInv /\ OperandsReady
  /\ overfilled \in BOOLEAN

-----------------------------------------------------------------------------
\* The least elements that tags and slots are chosen by.

LEMMA FirstIs ==
  ASSUME NEW S \in SUBSET Nat, S # {}
  PROVE  First(S) \in S /\ \A t \in S : First(S) <= t
<1> DEFINE Upto == {0 .. x : x \in S}
<1>1. Upto \subseteq FiniteSubsetsOf(Nat) /\ Upto # {}
  <2>1. ASSUME NEW x \in S PROVE 0 .. x \in SUBSET Nat /\ IsFiniteSet(0 .. x)
    BY FS_Interval
  <2> QED
    BY <2>1 DEF FiniteSubsetsOf
<1>2. PICK T \in Upto : \A U \in Upto : ~(<<U, T>> \in StrictSubsetOrdering(Nat))
  <2>1. IsWellFoundedOn(StrictSubsetOrdering(Nat), FiniteSubsetsOf(Nat))
    BY FS_StrictSubsetOrderingWellFounded
  <2> HIDE DEF Upto
  <2> QED
    BY <1>1, <2>1, WFMin
<1>3. PICK x \in S : T = 0 .. x
  OBVIOUS
<1>4. \A y \in S : x <= y
  <2> SUFFICES ASSUME NEW y \in S, y < x PROVE FALSE
    BY <1>3
  <2>1. <<0 .. y, T>> \in (SUBSET Nat) \X (SUBSET Nat)
    BY <1>3
  <2>2. 0 .. y \subseteq T /\ 0 .. y # T
    BY <1>3
  <2>3. <<0 .. y, T>> \in StrictSubsetOrdering(Nat)
    BY <2>1, <2>2 DEF StrictSubsetOrdering
  <2> QED
    BY <1>2, <2>3
<1> QED
  BY <1>3, <1>4 DEF First

\* The lowest element and the next.
LEMMA FirstTwo ==
  ASSUME NEW S \in SUBSET Nat, IsFiniteSet(S), NEW n \in 1 .. 2, n <= Cardinality(S)
  PROVE  /\ First(S) \in S
         /\ n = 2 => First(S \ {First(S)}) \in S \ {First(S)}
<1>1. Cardinality(S) \in Nat
  BY FS_CardinalityType
<1>2. S # {}
  BY <1>1, FS_EmptySet
<1>3. First(S) \in S
  BY <1>2, FirstIs
<1>4. CASE n = 2
  <2> DEFINE rest == S \ {First(S)}
  <2>1. IsFiniteSet(rest) /\ Cardinality(rest) = Cardinality(S) - 1
    BY <1>3, FS_RemoveElement
  <2>2. rest # {}
    BY <1>1, <1>4, <2>1, FS_EmptySet
  <2>3. First(rest) \in rest
    BY <2>2, FirstIs
  <2> QED
    BY <1>3, <2>3
<1> QED
  BY <1>3, <1>4

LEMMA Sizes ==
  /\ NumTags \in Nat \ {0} /\ MaxOrder \in Nat /\ IqDepth \in Nat \ {0, 1}
  /\ WakeHoldCycles \in 0 .. 3 /\ StoreCountMod \in Nat /\ StoreCountMod > IqDepth
  /\ \A x \in Instructions : x.kind \in Kinds /\ x.rd \in Nat
BY SchedulerAssumption, IssueQueueAssumption DEF Instructions, Kinds

\* Free tags and free slots, the n-th of which goes to the n-th that needs one.
LEMMA TagsAreFree ==
  ASSUME NEW n \in 1 .. 2, n <= Cardinality(FreeTags)
  PROVE  /\ TagFor(n) \in FreeTags
         /\ n = 2 => TagFor(1) \in FreeTags /\ TagFor(1) # TagFor(2)
<1>1. FreeTags \in SUBSET Nat /\ FreeTags \in SUBSET Tags
  BY Sizes DEF FreeTags, Tags
<1>2. IsFiniteSet(Tags)
  BY Sizes, FS_Interval DEF Tags
<1>3. IsFiniteSet(FreeTags)
  BY <1>1, <1>2, FS_Subset
<1>4. /\ First(FreeTags) \in FreeTags
      /\ n = 2 => First(FreeTags \ {First(FreeTags)}) \in FreeTags \ {First(FreeTags)}
  BY <1>1, <1>3, FirstTwo
<1> QED
  BY <1>4 DEF TagFor

LEMMA SlotsAreFree ==
  ASSUME NEW n \in 1 .. 2, n <= Cardinality(FreeSlots)
  PROVE  /\ SlotFor(n) \in FreeSlots
         /\ n = 2 => SlotFor(1) \in FreeSlots /\ SlotFor(1) # SlotFor(2)
<1>1. FreeSlots \in SUBSET Nat /\ FreeSlots \in SUBSET IqSlots
  BY Sizes DEF FreeSlots, IqSlots
<1>2. IsFiniteSet(IqSlots)
  BY Sizes, FS_Interval DEF IqSlots
<1>3. IsFiniteSet(FreeSlots)
  BY <1>1, <1>2, FS_Subset
<1>4. /\ First(FreeSlots) \in FreeSlots
      /\ n = 2 => First(FreeSlots \ {First(FreeSlots)}) \in FreeSlots \ {First(FreeSlots)}
  BY <1>1, <1>3, FirstTwo
<1> QED
  BY <1>4 DEF SlotFor

-----------------------------------------------------------------------------
\* One clock edge, its LETs spelled out.

Killed(f) == {x \in flight : FlushKills(f, x.order)}
Staying(f, wb) == flight \ (CommitsNow(f, wb) \cup Killed(f))
Issuing(in) == {iq[i].order : i \in Selected(in)}
Moved(x, f, in, wb, early) ==
  [Advanced(x, wb, early, Issuing(in)) EXCEPT !.hidden = Hidden(x, Killed(f))]

Cycle(f, in, s, wb, early) ==
  /\ wb \subseteq Executing /\ early \subseteq {x \in flight : x.stage = "issued"}
  /\ f \in [valid : BOOLEAN, ordered : BOOLEAN, order : Nat]
  /\ s \in Offers(f)
  /\ in.flush = f /\ in.wb = {TagOf(x) : x \in {y \in wb : y.ins.rd # 0}}
  /\ in.early = {x.tag : x \in early} /\ in.commit = {TagOf(x) : x \in committing}
  /\ in.disp = Held(Tagged(s, in))
  /\ IqCycle(in)
  /\ tags' = TagsNext(f, in, s) /\ result' = ResultNext(f, in, s)
  /\ flight' = {Moved(x, f, in, wb, early) : x \in Staying(f, wb)} \cup Entering(s)
  /\ committing' = CommitsNow(f, wb)
  /\ resolved' \in SUBSET [order : Nat, miss : BOOLEAN]
  /\ orderId' = orderId + Len(s)
  /\ overfilled' = (Overfills(in) \/ (overfilled /\ ~Empties(in)))

LEMMA FlushIsTyped ==
  ASSUME FlightInv, NEW trap \in BOOLEAN
  PROVE  FlushNow(trap) \in [valid : BOOLEAN, ordered : BOOLEAN, order : Nat]
<1> DEFINE missed == {b.order : b \in {c \in resolved : c.miss}}
<1>1. missed \in SUBSET Nat
  BY DEF FlightInv
<1>2. missed # {} => First(missed) \in Nat
  <2> HIDE DEF missed
  <2> QED
    BY <1>1, FirstIs
<1>3. CASE trap
  BY <1>3 DEF FlushNow
<1>4. CASE ~trap /\ missed # {}
  BY <1>2, <1>4 DEF FlushNow
<1>5. CASE ~trap /\ missed = {}
  BY <1>5 DEF FlushNow
<1> QED
  BY <1>3, <1>4, <1>5

LEMMA CycleIs ==
  ASSUME FlightInv, NEW trap \in BOOLEAN, NEW inhibit \in BOOLEAN,
         NEW wb \in WriteBackSets, NEW early \in Announcements,
         SchedCycle(wb, early, trap, inhibit)
  PROVE  \E f, in, s : Cycle(f, in, s, wb, early)
<1> DEFINE f == FlushNow(trap)
           quiet == Inputs(f, wb, early, <<>>, inhibit)
           with(s) == [quiet EXCEPT !.disp = Held(Tagged(s, quiet))]
<1>1. f \in [valid : BOOLEAN, ordered : BOOLEAN, order : Nat]
  BY FlushIsTyped
<1>2. wb \subseteq Executing /\ early \subseteq {x \in flight : x.stage = "issued"}
  BY DEF WriteBackSets, Announcements
<1>3. PICK s \in Offers(f) :
        /\ IqCycle(with(s))
        /\ tags' = TagsNext(f, with(s), s)
        /\ result' = ResultNext(f, with(s), s)
        /\ flight' = {[Advanced(x, wb, early, {iq[i].order : i \in Selected(quiet)}) EXCEPT
                          !.hidden = Hidden(x, {k \in flight : FlushKills(f, k.order)})] :
                        x \in flight \ (CommitsNow(f, wb)
                                          \cup {k \in flight : FlushKills(f, k.order)})}
                       \cup Entering(s)
        /\ committing' = CommitsNow(f, wb)
        /\ \E miss \in IF Mispredicts THEN BOOLEAN ELSE {FALSE} :
             resolved' = {[order |-> b.order, miss |-> miss] :
                            b \in {x \in wb \ {k \in flight : FlushKills(f, k.order)} :
                                     x.ins.kind = "branch"}}
        /\ orderId' = orderId + Len(s)
        /\ overfilled' = (Overfills(with(s)) \/ (overfilled /\ ~Empties(with(s))))
  BY DEF SchedCycle
<1> DEFINE in == with(s)
<1>4. /\ quiet.flush = f /\ quiet.wb = {TagOf(x) : x \in {y \in wb : y.ins.rd # 0}}
      /\ quiet.early = {x.tag : x \in early} /\ quiet.commit = {TagOf(x) : x \in committing}
  BY DEF Inputs
<1>5. /\ in.flush = quiet.flush /\ in.wb = quiet.wb /\ in.early = quiet.early
      /\ in.commit = quiet.commit /\ in.inhibit = quiet.inhibit /\ in.block = quiet.block
      /\ in.disp = Held(Tagged(s, quiet))
  BY DEF Inputs
<1> HIDE DEF f, quiet, with
<1>6. Selected(in) = Selected(quiet)
  BY <1>5 DEF Selected, Eligible
<1>7. Tagged(s, in) = Tagged(s, quiet)
  BY <1>5 DEF Tagged, SourcesOf, WaitsFor
<1>8. resolved' \in SUBSET [order : Nat, miss : BOOLEAN]
  <2> DEFINE B == {x \in wb \ {k \in flight : FlushKills(f, k.order)} :
                     x.ins.kind = "branch"}
  <2>1. \A b \in B : b.order \in Nat
    BY <1>2 DEF FlightInv, Flights, Executing
  <2>2. PICK miss \in BOOLEAN : resolved' = {[order |-> b.order, miss |-> miss] : b \in B}
    BY <1>3
  <2> HIDE DEF B
  <2> QED
    BY <2>1, <2>2
<1>9. flight' = {Moved(x, f, in, wb, early) : x \in Staying(f, wb)} \cup Entering(s)
  BY <1>3, <1>6 DEF Moved, Staying, Killed, Issuing
<1>10. Cycle(f, in, s, wb, early)
  BY <1>1, <1>2, <1>3, <1>4, <1>5, <1>7, <1>8, <1>9 DEF Cycle
<1> QED
  BY <1>10

-----------------------------------------------------------------------------
\* What a dispatched pair brings.

Entrant(s, n) ==
  [order |-> orderId + n - 1, tag |-> TagFor(n), ins |-> s[n],
   stage |-> IF s[n].kind \in HeldKinds THEN "waiting" ELSE "issued",
   hidden |-> FALSE,
   needs |-> UNION {IF n = 2 /\ s[1].rd = r THEN {orderId}
                    ELSE {p.order : p \in Producer(flight, r)} :
                    r \in s[n].srcs \ {0}}]

LEMMA PairIs ==
  ASSUME FlightInv, NEW f, NEW s \in Offers(f)
  PROVE  /\ Len(s) \in 0 .. 2 /\ DOMAIN s = 1 .. Len(s)
         /\ f.valid => Len(s) = 0
         /\ orderId + Len(s) <= MaxOrder
         /\ \A n \in DOMAIN s :
              /\ n \in 1 .. 2 /\ s[n] \in Instructions
              /\ s[n].kind \in Kinds /\ s[n].rd \in Nat
              /\ TagFor(n) \in FreeTags /\ orderId + n - 1 \in 0 .. MaxOrder - 1
         /\ \A m, n \in DOMAIN s : TagFor(m) = TagFor(n) => m = n
<1>1. \/ s = <<>>
      \/ /\ ~f.valid /\ orderId + Len(s) <= MaxOrder
         /\ s \in UNION {[1 .. n -> Instructions] : n \in 0 .. 2}
         /\ Cardinality(FreeTags) >= Len(s)
  BY DEF Offers, Fits
<1>2. CASE s = <<>>
  <2>1. Len(s) = 0 /\ DOMAIN s = {} /\ 1 .. 0 = {}
    BY <1>2
  <2>2. orderId + 0 <= MaxOrder
    BY Sizes DEF FlightInv
  <2> QED
    BY <2>1, <2>2
<1>3. CASE s # <<>>
  <2>1. PICK m \in 0 .. 2 : s \in [1 .. m -> Instructions]
    BY <1>1, <1>3
  <2>2. s \in Seq(Instructions) /\ DOMAIN s = 1 .. m
    BY <2>1
  <2>3. Len(s) = m
    BY <2>1, <2>2
  <2>4. ASSUME NEW n \in DOMAIN s
        PROVE  /\ n \in 1 .. 2 /\ s[n] \in Instructions
               /\ s[n].kind \in Kinds /\ s[n].rd \in Nat
               /\ orderId + n - 1 \in 0 .. MaxOrder - 1
    BY <1>1, <1>3, <2>1, <2>2, <2>3, <2>4, Sizes DEF FlightInv
  <2>5. Cardinality(FreeTags) \in Nat
    <3>1. FreeTags \in SUBSET Tags
      BY DEF FreeTags
    <3>2. IsFiniteSet(Tags)
      BY Sizes, FS_Interval DEF Tags
    <3> QED
      BY <3>1, <3>2, FS_Subset, FS_CardinalityType
  <2>6. ASSUME NEW n \in DOMAIN s
        PROVE  /\ TagFor(n) \in FreeTags
               /\ n = 2 => TagFor(1) \in FreeTags /\ TagFor(1) # TagFor(2)
    <3>1. n \in 1 .. 2 /\ n <= Cardinality(FreeTags)
      BY <1>1, <1>3, <2>1, <2>2, <2>3, <2>5, <2>6
    <3> QED
      BY <3>1, TagsAreFree
  <2>7. \A i, j \in DOMAIN s : TagFor(i) = TagFor(j) => i = j
    <3> SUFFICES ASSUME NEW i \in DOMAIN s, NEW j \in DOMAIN s, i # j
                 PROVE  TagFor(i) # TagFor(j)
      OBVIOUS
    <3>1. i \in 1 .. 2 /\ j \in 1 .. 2
      BY <2>4
    <3>2. (i = 1 /\ j = 2) \/ (i = 2 /\ j = 1)
      BY <3>1
    <3>3. i = 2 => TagFor(1) # TagFor(2)
      BY <2>6
    <3>4. j = 2 => TagFor(1) # TagFor(2)
      BY <2>6
    <3> QED
      BY <3>2, <3>3, <3>4
  <2> QED
    BY <1>1, <1>3, <2>2, <2>3, <2>4, <2>6, <2>7
<1> QED
  BY <1>2, <1>3

\* The table never names the second of a pair's own destination: a need is
\* older than its instruction.
LEMMA EntrantsAreTyped ==
  ASSUME FlightInv, NEW f, NEW s \in Offers(f), NEW n \in DOMAIN s
  PROVE  /\ Entrant(s, n) \in Flights
         /\ Entrant(s, n).order = orderId + n - 1 /\ Entrant(s, n).tag = TagFor(n)
         /\ Entrant(s, n).ins = s[n] /\ ~Entrant(s, n).hidden
         /\ Entrant(s, n).stage
              = (IF s[n].kind \in HeldKinds THEN "waiting" ELSE "issued")
         /\ \A o \in Entrant(s, n).needs : o < orderId + n - 1
         /\ \A o \in Entrant(s, n).needs : \E r \in s[n].srcs \ {0} :
              IF n = 2 /\ s[1].rd = r THEN o = orderId
              ELSE \E p \in Producer(flight, r) : o = p.order
<1> DEFINE need(r) == IF n = 2 /\ s[1].rd = r THEN {orderId}
                      ELSE {p.order : p \in Producer(flight, r)}
           needs == UNION {need(r) : r \in s[n].srcs \ {0}}
<1>1. n \in 1 .. 2 /\ s[n] \in Instructions /\ TagFor(n) \in Tags /\ orderId + n - 1 \in Nat
  BY PairIs DEF FreeTags
<1>2. ASSUME NEW o \in needs
      PROVE  \E r \in s[n].srcs \ {0} :
               IF n = 2 /\ s[1].rd = r THEN o = orderId
               ELSE \E p \in Producer(flight, r) : o = p.order
  <2>1. PICK r \in s[n].srcs \ {0} : o \in need(r)
    BY <1>2
  <2> QED
    BY <2>1
<1>3. \A r : \A p \in Producer(flight, r) : p.order \in Nat /\ p.order < orderId
  BY DEF Producer, FlightInv, Flights
<1>4. ASSUME NEW o \in needs PROVE o \in Nat /\ o < orderId + n - 1
  <2>1. orderId \in Nat
    BY DEF FlightInv
  <2>2. PICK r \in s[n].srcs \ {0} :
          IF n = 2 /\ s[1].rd = r THEN o = orderId
          ELSE \E p \in Producer(flight, r) : o = p.order
    BY <1>2, <1>4
  <2>3. CASE n = 2 /\ s[1].rd = r
    BY <2>1, <2>2, <2>3
  <2>4. CASE ~(n = 2 /\ s[1].rd = r)
    BY <1>1, <1>3, <2>1, <2>2, <2>4
  <2> QED
    BY <2>3, <2>4
<1>5. Entrant(s, n) =
        [order |-> orderId + n - 1, tag |-> TagFor(n), ins |-> s[n],
         stage |-> IF s[n].kind \in HeldKinds THEN "waiting" ELSE "issued",
         hidden |-> FALSE, needs |-> needs]
  BY DEF Entrant
<1> HIDE DEF needs
<1>6. needs \in SUBSET Nat
  BY <1>4
<1>7. Entrant(s, n) \in Flights
  BY <1>1, <1>5, <1>6 DEF Flights, Stages
<1>8. /\ Entrant(s, n).order = orderId + n - 1 /\ Entrant(s, n).tag = TagFor(n)
      /\ Entrant(s, n).ins = s[n] /\ ~Entrant(s, n).hidden
      /\ Entrant(s, n).stage = (IF s[n].kind \in HeldKinds THEN "waiting" ELSE "issued")
      /\ Entrant(s, n).needs = needs
  BY <1>5
<1>9. \A o \in needs : o < orderId + n - 1
  BY <1>4
<1> QED
  BY <1>2, <1>7, <1>8, <1>9

\* The inputs of the queue are the pair's instructions of its kinds, in order.
HeldAt(s, k) == IF {n \in DOMAIN s : s[n].kind \in HeldKinds} = {2} THEN 2 ELSE k

LEMMA HeldIs ==
  ASSUME NEW s, NEW m \in 0 .. 2, DOMAIN s = 1 .. m
  PROVE  /\ DOMAIN Held(s) \subseteq 1 .. 2
         /\ \A k \in DOMAIN Held(s) :
              /\ HeldAt(s, k) \in DOMAIN s /\ Held(s)[k] = s[HeldAt(s, k)]
              /\ Held(s)[k].kind \in HeldKinds
         /\ \A k, l \in DOMAIN Held(s) : HeldAt(s, k) = HeldAt(s, l) => k = l
<1> DEFINE held == {n \in DOMAIN s : s[n].kind \in HeldKinds}
<1>1. held = {} \/ held = {1} \/ held = {2} \/ held = {1, 2}
  <2>1. held \subseteq {1, 2}
    OBVIOUS
  <2> HIDE DEF held
  <2> QED
    BY <2>1
<1>2. Held(s) = [k \in 1 .. Cardinality(held) |-> s[IF held = {2} THEN 2 ELSE k]]
  BY DEF Held
<1>3. \A k : HeldAt(s, k) = IF held = {2} THEN 2 ELSE k
  BY DEF HeldAt
<1>4. held \subseteq DOMAIN s /\ \A n \in held : s[n].kind \in HeldKinds
  OBVIOUS
<1> HIDE DEF held
<1>5. CASE held = {}
  BY <1>2, <1>5, FS_EmptySet
<1>6. CASE held = {1} \/ held = {2}
  <2>1. Cardinality(held) = 1
    BY <1>6, FS_Singleton
  <2>2. \A k \in 1 .. 1 : k = 1
    OBVIOUS
  <2>3. DOMAIN Held(s) = 1 .. 1
    BY <1>2, <2>1
  <2>4. \A k \in 1 .. 1 : Held(s)[k] = s[HeldAt(s, k)] /\ HeldAt(s, k) \in held
    BY <1>2, <1>3, <1>6, <2>1, <2>2
  <2> QED
    BY <1>4, <2>2, <2>3, <2>4
<1>7. CASE held = {1, 2}
  <2>1. IsFiniteSet({1}) /\ Cardinality({1}) = 1
    BY FS_Singleton
  <2>2. Cardinality({1} \cup {2}) = 2
    <3>1. Cardinality({1} \cup {2})
            = IF 2 \in {1} THEN Cardinality({1}) ELSE Cardinality({1}) + 1
      BY <2>1, FS_AddElement, Zenon
    <3> QED
      BY <2>1, <3>1
  <2>3. held = {1} \cup {2} /\ held # {2} /\ 1 .. 2 = held
    BY <1>7
  <2>4. Cardinality(held) = 2
    BY <2>2, <2>3
  <2>5. DOMAIN Held(s) = 1 .. 2
    BY <1>2, <2>4
  <2>6. \A k \in 1 .. 2 : Held(s)[k] = s[k] /\ HeldAt(s, k) = k /\ k \in held
    BY <1>2, <1>3, <2>3, <2>4
  <2> QED
    BY <1>4, <2>5, <2>6
<1> QED
  BY <1>1, <1>5, <1>6, <1>7

-----------------------------------------------------------------------------
\* How an instruction in flight moves.

LEMMA IssuingWaits ==
  ASSUME EntryInv, NEW in, NEW x \in flight, x.order \in Issuing(in)
  PROVE  /\ x.stage = "waiting"
         /\ \E i \in Selected(in) : Queueing(i) /\ iq[i].order = x.order /\ iq[i].waits = {}
<1>1. PICK i \in Selected(in) : iq[i].order = x.order
  BY DEF Issuing
<1>2. i \in IqSlots /\ Queueing(i) /\ iq[i].ready
  BY DEF Selected, Eligible, Queueing
<1> QED
  BY <1>1, <1>2 DEF EntryInv

LEMMA MovedIs ==
  ASSUME FlightInv, EntryInv, NEW f, NEW in, NEW s, NEW wb, NEW early,
         Cycle(f, in, s, wb, early), NEW x \in flight,
         NEW y, y = Moved(x, f, in, wb, early)
  PROVE  /\ y \in Flights /\ y.order = x.order /\ y.tag = x.tag /\ y.ins = x.ins
         /\ y.needs = x.needs
         /\ y.stage = "written" <=> x \in wb \/ x.stage = "written"
         /\ y.stage \in {"answered", "written"}
              <=> x \in wb \/ x \in early \/ x.stage \in {"answered", "written"}
         /\ y.stage = "waiting" <=> x.stage = "waiting" /\ x.order \notin Issuing(in)
         /\ y.hidden <=> Hidden(x, Killed(f))
<1>1. /\ x \in Flights
      /\ x \in wb => x.stage \in {"issued", "answered"}
      /\ x \in early => x.stage = "issued"
      /\ x.order \in Issuing(in) => x.stage = "waiting"
  BY IssuingWaits DEF Cycle, Executing, FlightInv
<1> DEFINE a == Advanced(x, wb, early, Issuing(in))
<1>2. /\ x \in wb => a = [x EXCEPT !.stage = "written"]
      /\ x \notin wb /\ x \in early => a = [x EXCEPT !.stage = "answered"]
      /\ x \notin wb /\ x \notin early /\ x.order \in Issuing(in)
           => a = [x EXCEPT !.stage = "issued"]
      /\ x \notin wb /\ x \notin early /\ x.order \notin Issuing(in) => a = x
  BY <1>1 DEF Advanced
<1>3. /\ a \in Flights /\ a.order = x.order /\ a.tag = x.tag /\ a.ins = x.ins
      /\ a.needs = x.needs
      /\ x \in wb => a.stage = "written"
      /\ x \notin wb /\ x \in early => a.stage = "answered"
      /\ x \notin wb /\ x \notin early /\ x.order \in Issuing(in) => a.stage = "issued"
      /\ x \notin wb /\ x \notin early /\ x.order \notin Issuing(in) => a.stage = x.stage
  BY <1>1, <1>2 DEF Flights, Stages
<1>4. y = [a EXCEPT !.hidden = Hidden(x, Killed(f))]
  BY DEF Moved
<1> HIDE DEF a
<1>5. Hidden(x, Killed(f)) \in BOOLEAN
  BY <1>1 DEF Hidden, Flights
<1>6. /\ y \in Flights /\ y.order = a.order /\ y.tag = a.tag /\ y.ins = a.ins
      /\ y.needs = a.needs /\ y.stage = a.stage /\ y.hidden = Hidden(x, Killed(f))
  BY <1>3, <1>4, <1>5 DEF Flights
<1> QED
  BY <1>1, <1>3, <1>6

\* An instruction in flight after the cycle was there before it, neither
\* leaving nor killed, or has just been dispatched.
LEMMA FlightNext ==
  ASSUME NEW f, NEW in, NEW s, NEW wb, NEW early, Cycle(f, in, s, wb, early)
  PROVE  /\ \A y \in flight' :
              \/ \E x \in Staying(f, wb) : y = Moved(x, f, in, wb, early)
              \/ \E n \in DOMAIN s : y = Entrant(s, n)
         /\ \A x \in Staying(f, wb) : Moved(x, f, in, wb, early) \in flight'
         /\ \A n \in DOMAIN s : Entrant(s, n) \in flight'
         /\ \A x \in Staying(f, wb) : /\ x \in flight /\ x \notin CommitsNow(f, wb)
                                      /\ ~FlushKills(f, x.order)
<1>1. Entering(s) = {Entrant(s, n) : n \in DOMAIN s}
  BY DEF Entering, Entrant
<1>2. flight' = {Moved(x, f, in, wb, early) : x \in Staying(f, wb)}
                  \cup {Entrant(s, n) : n \in DOMAIN s}
  BY <1>1 DEF Cycle
<1> QED
  BY <1>2 DEF Staying, Killed

LEMMA FlightStep ==
  ASSUME FlightInv, EntryInv, NEW f, NEW in, NEW s, NEW wb, NEW early,
         Cycle(f, in, s, wb, early)
  PROVE  FlightInv'
<1>1. s \in Offers(f) /\ orderId' = orderId + Len(s) /\ committing' = CommitsNow(f, wb)
  BY DEF Cycle
<1>2. Len(s) \in 0 .. 2 /\ DOMAIN s = 1 .. Len(s) /\ orderId + Len(s) <= MaxOrder
  BY <1>1, PairIs
<1>3. orderId' \in 0 .. MaxOrder /\ orderId' \in Nat /\ orderId \in Nat
  BY <1>1, <1>2 DEF FlightInv
<1>4. ASSUME NEW y \in flight'
      PROVE  /\ y \in Flights /\ y.order < orderId' /\ \A o \in y.needs : o < y.order
             /\ \/ \E x \in Staying(f, wb) : y = Moved(x, f, in, wb, early) /\ y.order = x.order
                \/ \E n \in DOMAIN s : y = Entrant(s, n) /\ y.order = orderId + n - 1
  <2>1. CASE \E x \in Staying(f, wb) : y = Moved(x, f, in, wb, early)
    <3>1. PICK x \in Staying(f, wb) : y = Moved(x, f, in, wb, early)
      BY <2>1
    <3>2. x \in flight
      BY FlightNext
    <3>3. y \in Flights /\ y.order = x.order /\ y.needs = x.needs
      BY <3>1, <3>2, MovedIs
    <3>4. x.order \in Nat /\ x.order < orderId /\ \A o \in x.needs : o < x.order
      BY <3>2 DEF FlightInv, Flights
    <3>5. x.order < orderId'
      BY <1>1, <1>2, <1>3, <3>4
    <3> QED
      BY <3>1, <3>3, <3>4, <3>5
  <2>2. CASE \E n \in DOMAIN s : y = Entrant(s, n)
    <3>1. PICK n \in DOMAIN s : y = Entrant(s, n)
      BY <2>2
    <3>2. /\ y \in Flights /\ y.order = orderId + n - 1
          /\ \A o \in y.needs : o < y.order
      BY <1>1, <3>1, EntrantsAreTyped
    <3>3. orderId + n - 1 < orderId'
      BY <1>1, <1>2, <1>3
    <3> QED
      BY <3>1, <3>2, <3>3
  <2> QED
    BY <1>4, <2>1, <2>2, FlightNext
<1>5. ASSUME NEW y \in flight', NEW z \in flight', y.order = z.order
      PROVE  y = z
  <2>1. CASE /\ \E x \in Staying(f, wb) : y = Moved(x, f, in, wb, early) /\ y.order = x.order
             /\ \E x \in Staying(f, wb) : z = Moved(x, f, in, wb, early) /\ z.order = x.order
    <3>1. PICK x \in Staying(f, wb) : y = Moved(x, f, in, wb, early) /\ y.order = x.order
      BY <2>1
    <3>2. PICK w \in Staying(f, wb) : z = Moved(w, f, in, wb, early) /\ z.order = w.order
      BY <2>1
    <3>3. x = w
      BY <1>5, <3>1, <3>2, FlightNext DEF FlightInv
    <3> QED
      BY <3>1, <3>2, <3>3
  <2>2. CASE /\ \E n \in DOMAIN s : y = Entrant(s, n) /\ y.order = orderId + n - 1
             /\ \E n \in DOMAIN s : z = Entrant(s, n) /\ z.order = orderId + n - 1
    <3>1. PICK m \in DOMAIN s : y = Entrant(s, m) /\ y.order = orderId + m - 1
      BY <2>2
    <3>2. PICK n \in DOMAIN s : z = Entrant(s, n) /\ z.order = orderId + n - 1
      BY <2>2
    <3>3. m = n
      <4>1. m \in Int /\ n \in Int
        BY <1>2
      <4>2. orderId + m - 1 = orderId + n - 1
        BY <1>5, <3>1, <3>2
      <4> QED
        BY <1>3, <4>1, <4>2
    <3> QED
      BY <3>1, <3>2, <3>3
  <2>3. \A x \in Staying(f, wb) : \A n \in DOMAIN s : x.order # orderId + n - 1
    <3> SUFFICES ASSUME NEW x \in Staying(f, wb), NEW n \in DOMAIN s
                 PROVE  x.order # orderId + n - 1
      OBVIOUS
    <3>1. x.order \in Nat /\ x.order < orderId
      BY FlightNext DEF FlightInv, Flights
    <3>2. n \in Nat /\ n >= 1
      BY <1>2
    <3> QED
      BY <1>3, <3>1, <3>2
  <2> QED
    BY <1>4, <1>5, <2>1, <2>2, <2>3
<1>6. committing' \in SUBSET Flights /\ \A c \in committing' : c.order < orderId'
  <2>1. \A c \in CommitsNow(f, wb) : c \in Flights /\ c.order \in Nat /\ c.order < orderId
    BY DEF CommitsNow, FlightInv, Flights
  <2> QED
    BY <1>1, <1>2, <1>3, <2>1
<1>7. \A c, d \in committing' : c = d
  <2> SUFFICES ASSUME NEW c \in CommitsNow(f, wb), NEW d \in CommitsNow(f, wb)
               PROVE  c = d
    BY <1>1
  <2>1. c \in flight /\ d \in flight /\ c.order <= d.order /\ d.order <= c.order
    BY DEF CommitsNow
  <2>2. c.order \in Nat /\ d.order \in Nat
    BY <2>1 DEF FlightInv, Flights
  <2>3. c.order = d.order
    BY <2>1, <2>2
  <2> QED
    BY <2>1, <2>3 DEF FlightInv
<1>8. ASSUME NEW c \in committing', NEW y \in flight'
      PROVE  c.order < y.order
  <2>1. c \in flight /\ c \in CommitsNow(f, wb) /\ c.order \in Nat /\ c.order < orderId
        /\ \A x \in flight : c.order <= x.order
    BY <1>1, <1>8 DEF CommitsNow, FlightInv, Flights
  <2>2. ASSUME NEW x \in Staying(f, wb), y.order = x.order PROVE c.order < y.order
    <3>1. x \in flight /\ x # c /\ x.order \in Nat /\ c.order <= x.order
      BY <2>1, FlightNext DEF FlightInv, Flights
    <3>2. x.order # c.order
      BY <2>1, <3>1 DEF FlightInv
    <3> QED
      BY <2>1, <2>2, <3>1, <3>2
  <2>3. ASSUME NEW n \in DOMAIN s, y.order = orderId + n - 1 PROVE c.order < y.order
    BY <1>2, <1>3, <2>1, <2>3
  <2> QED
    BY <1>4, <1>8, <2>2, <2>3
<1>9. resolved' \in SUBSET [order : Nat, miss : BOOLEAN]
  BY DEF Cycle
<1>10. /\ flight' \in SUBSET Flights
       /\ \A y \in flight' : y.order < orderId'
       /\ \A y \in flight' : \A o \in y.needs : o < y.order
  BY <1>4
<1> QED
  BY <1>3, <1>5, <1>6, <1>7, <1>8, <1>9, <1>10 DEF FlightInv, Flights, Tags

-----------------------------------------------------------------------------
\* The pool of tags.

LEMMA Survivors ==
  ASSUME FlightInv, EntryInv, NEW f, NEW in, NEW s, NEW wb, NEW early,
         Cycle(f, in, s, wb, early)
  PROVE  /\ \A y \in flight' \cup committing' :
              \/ \E x \in flight : /\ ~FlushKills(f, x.order)
                                   /\ y.tag = x.tag /\ y.order = x.order
              \/ \E n \in DOMAIN s : y.tag = TagFor(n) /\ y.order = orderId + n - 1
         /\ \A x \in flight : ~FlushKills(f, x.order) =>
              \E y \in flight' \cup committing' : y.tag = x.tag /\ y.order = x.order
         /\ \A n \in DOMAIN s :
              \E y \in flight' : y.tag = TagFor(n) /\ y.order = orderId + n - 1
<1>1. s \in Offers(f) /\ committing' = CommitsNow(f, wb)
  BY DEF Cycle
<1>2. ASSUME NEW x \in Staying(f, wb)
      PROVE  /\ x \in flight /\ ~FlushKills(f, x.order)
             /\ Moved(x, f, in, wb, early) \in flight'
             /\ Moved(x, f, in, wb, early).tag = x.tag
             /\ Moved(x, f, in, wb, early).order = x.order
  BY FlightNext, MovedIs
<1>3. ASSUME NEW n \in DOMAIN s
      PROVE  /\ Entrant(s, n) \in flight'
             /\ Entrant(s, n).tag = TagFor(n) /\ Entrant(s, n).order = orderId + n - 1
  BY <1>1, FlightNext, EntrantsAreTyped
<1>4. ASSUME NEW x \in CommitsNow(f, wb) PROVE x \in flight /\ ~FlushKills(f, x.order)
  BY DEF CommitsNow
<1>5. ASSUME NEW y \in flight' \cup committing'
      PROVE  \/ \E x \in flight : /\ ~FlushKills(f, x.order)
                                  /\ y.tag = x.tag /\ y.order = x.order
             \/ \E n \in DOMAIN s : y.tag = TagFor(n) /\ y.order = orderId + n - 1
  <2>1. CASE y \in committing'
    BY <1>1, <1>4, <2>1
  <2>2. CASE y \in flight'
    <3>1. CASE \E x \in Staying(f, wb) : y = Moved(x, f, in, wb, early)
      BY <1>2, <3>1
    <3>2. CASE \E n \in DOMAIN s : y = Entrant(s, n)
      BY <1>3, <3>2
    <3> QED
      BY <2>2, <3>1, <3>2, FlightNext
  <2> QED
    BY <1>5, <2>1, <2>2
<1>6. ASSUME NEW x \in flight, ~FlushKills(f, x.order)
      PROVE  \E y \in flight' \cup committing' : y.tag = x.tag /\ y.order = x.order
  <2>1. CASE x \in CommitsNow(f, wb)
    BY <1>1, <2>1
  <2>2. CASE x \notin CommitsNow(f, wb)
    <3>1. x \in Staying(f, wb)
      BY <1>6, <2>2 DEF Staying, Killed
    <3> QED
      BY <1>2, <3>1
  <2> QED
    BY <2>1, <2>2
<1> QED
  BY <1>3, <1>5, <1>6

\* A tag that is handed out, one that is freed, one that is kept.
LEMMA NewTag ==
  ASSUME FlightInv, NEW f, NEW in, NEW s, NEW wb, NEW early,
         Cycle(f, in, s, wb, early), NEW n \in DOMAIN s
  PROVE  /\ TagFor(n) \in Tags
         /\ tags'[TagFor(n)] = [live |-> TRUE, ready |-> FALSE,
                                order |-> orderId + n - 1, readyOrder |-> 0]
         /\ orderId + n - 1 \in Nat
<1>1. tags' = TagsNext(f, in, s) /\ s \in Offers(f)
  BY DEF Cycle
<1>2. /\ TagFor(n) \in Tags /\ orderId + n - 1 \in Nat
      /\ \A m \in DOMAIN s : TagFor(m) = TagFor(n) => m = n
  BY <1>1, PairIs DEF FreeTags
<1>3. (CHOOSE m \in DOMAIN s : TagFor(m) = TagFor(n)) = n
  BY <1>2
<1>4. \E m \in DOMAIN s : TagFor(m) = TagFor(n)
  OBVIOUS
<1>5. tags'[TagFor(n)] = [FreeTag EXCEPT !.live = TRUE, !.order = orderId
           + (CHOOSE m \in DOMAIN s : TagFor(m) = TagFor(n)) - 1]
  BY <1>1, <1>2, <1>4 DEF TagsNext
<1>6. tags'[TagFor(n)] = [FreeTag EXCEPT !.live = TRUE, !.order = orderId + n - 1]
  BY <1>3, <1>5
<1> QED
  BY <1>2, <1>6 DEF FreeTag

LEMMA FreedTagNext ==
  ASSUME NEW f, NEW in, NEW s, NEW wb, NEW early, Cycle(f, in, s, wb, early),
         NEW t \in Tags, \A n \in DOMAIN s : TagFor(n) # t, FreedTag(f, in, t)
  PROVE  tags'[t] = FreeTag
BY DEF Cycle, TagsNext

LEMMA MadeReady ==
  ASSUME NEW e \in TagEntries
  PROVE  LET r == [e EXCEPT !.ready = TRUE, !.readyOrder = e.order] IN
         /\ r \in TagEntries
         /\ r.live <=> e.live
         /\ r.order = e.order
         /\ r.ready
         /\ r.readyOrder = e.order
<1> DEFINE r == [e EXCEPT !.ready = TRUE, !.readyOrder = e.order]
<1>1. r \in TagEntries
  BY DEF TagEntries
<1>2. r.live <=> e.live
  BY DEF TagEntries
<1>3. r.order = e.order
  BY DEF TagEntries
<1>4. r.ready
  BY DEF TagEntries
<1>5. r.readyOrder = e.order
  BY DEF TagEntries
<1> QED
  BY <1>1, <1>2, <1>3, <1>4, <1>5

LEMMA KeptTagNext ==
  ASSUME TagInv, NEW f, NEW in, NEW s, NEW wb, NEW early, Cycle(f, in, s, wb, early),
         NEW t \in Tags, \A n \in DOMAIN s : TagFor(n) # t, ~FreedTag(f, in, t)
  PROVE  /\ tags'[t] \in TagEntries
         /\ tags'[t].live <=> tags[t].live
         /\ tags'[t].order = tags[t].order
         /\ t \in ReadyTags(in) => tags'[t].ready
         /\ t \in ReadyTags(in) => tags'[t].readyOrder = tags[t].order
         /\ t \notin ReadyTags(in) => tags'[t] = tags[t]
<1>1. tags'[t] = IF t \in ReadyTags(in)
                 THEN [tags[t] EXCEPT !.ready = TRUE, !.readyOrder = tags[t].order]
                 ELSE tags[t]
  BY DEF Cycle, TagsNext
<1>2. tags[t] \in TagEntries
  BY DEF TagInv
<1>3. CASE t \in ReadyTags(in)
  <2>1. tags'[t] = [tags[t] EXCEPT !.ready = TRUE, !.readyOrder = tags[t].order]
    BY <1>1, <1>3
  <2> QED
    BY <1>2, <1>3, <2>1, MadeReady
<1>4. CASE t \notin ReadyTags(in)
  <2>1. tags'[t] = tags[t]
    BY <1>1, <1>4
  <2> QED
    BY <1>2, <1>4, <2>1
<1> QED
  BY <1>3, <1>4

LEMMA TagsTyped ==
  ASSUME FlightInv, TagInv, NEW f, NEW in, NEW s, NEW wb, NEW early,
         Cycle(f, in, s, wb, early)
  PROVE  tags' \in [Tags -> TagEntries]
<1>1. tags' = [u \in Tags |-> tags'[u]]
  BY DEF Cycle, TagsNext
<1>2. ASSUME NEW t \in Tags PROVE tags'[t] \in TagEntries
  <2>1. CASE \E n \in DOMAIN s : TagFor(n) = t
    <3>1. PICK n \in DOMAIN s : TagFor(n) = t
      BY <2>1
    <3>2. /\ tags'[t] = [live |-> TRUE, ready |-> FALSE,
                         order |-> orderId + n - 1, readyOrder |-> 0]
          /\ orderId + n - 1 \in Nat
      BY <3>1, NewTag
    <3> QED
      BY <3>2 DEF TagEntries
  <2>2. CASE \A n \in DOMAIN s : TagFor(n) # t
    <3>1. FreeTag \in TagEntries
      BY DEF TagEntries, FreeTag
    <3> QED
      BY <2>2, <3>1, FreedTagNext, KeptTagNext
  <2> QED
    BY <2>1, <2>2
<1> QED
  BY <1>1, <1>2

\* The tag of an instruction that is neither killed nor on the commit port
\* stays its own.
LEMMA TagsStay ==
  ASSUME FlightInv, TagInv, NEW f, NEW in, NEW s, NEW wb, NEW early,
         Cycle(f, in, s, wb, early), NEW x \in flight, ~FlushKills(f, x.order)
  PROVE  /\ x.tag \in Tags /\ ~FreedTag(f, in, x.tag)
         /\ \A n \in DOMAIN s : TagFor(n) # x.tag
         /\ tags'[x.tag].live /\ tags'[x.tag].order = x.order
<1>1. x.tag \in Tags /\ tags[x.tag].live /\ tags[x.tag].order = x.order
  BY DEF FlightInv, Flights, TagInv
<1>2. \A n \in DOMAIN s : TagFor(n) # x.tag
  BY <1>1, PairIs DEF Cycle, FreeTags
<1>3. \A c \in in.commit : c.tag # x.tag
  <2> SUFFICES ASSUME NEW c \in committing, c.tag = x.tag PROVE FALSE
    BY DEF Cycle, TagOf
  <2>1. c.order = x.order
    BY DEF TagInv, TagsNameOne
  <2>2. c.order < x.order /\ x.order \in Nat
    BY DEF FlightInv, Flights
  <2> QED
    BY <2>1, <2>2
<1>4. ~FreedTag(f, in, x.tag)
  BY <1>1, <1>3 DEF FreedTag
<1>5. tags'[x.tag].live /\ tags'[x.tag].order = x.order
  BY <1>1, <1>2, <1>4, KeptTagNext
<1> QED
  BY <1>1, <1>2, <1>4, <1>5

LEMMA TagStep ==
  ASSUME FlightInv, EntryInv, TagInv, NEW f, NEW in, NEW s, NEW wb, NEW early,
         Cycle(f, in, s, wb, early)
  PROVE  TagInv'
<1> DEFINE all == flight \cup committing
           all2 == flight' \cup committing'
<1>1. s \in Offers(f) /\ \A n \in DOMAIN s : TagFor(n) \in FreeTags
  BY PairIs DEF Cycle
<1>2. ASSUME NEW y \in all2
      PROVE  /\ y.tag \in Tags /\ tags'[y.tag].live /\ tags'[y.tag].order = y.order
  <2>1. CASE \E x \in flight : ~FlushKills(f, x.order) /\ y.tag = x.tag /\ y.order = x.order
    BY <2>1, TagsStay
  <2>2. CASE \E n \in DOMAIN s : y.tag = TagFor(n) /\ y.order = orderId + n - 1
    <3>1. PICK n \in DOMAIN s : y.tag = TagFor(n) /\ y.order = orderId + n - 1
      BY <2>2
    <3>2. TagFor(n) \in Tags
          /\ tags'[TagFor(n)] = [live |-> TRUE, ready |-> FALSE,
                                 order |-> orderId + n - 1, readyOrder |-> 0]
      BY NewTag
    <3>3. tags'[TagFor(n)].live /\ tags'[TagFor(n)].order = orderId + n - 1
      BY <3>2
    <3> QED
      BY <3>1, <3>2, <3>3
  <2> QED
    BY <1>2, <2>1, <2>2, Survivors
<1>3. ASSUME NEW t \in Tags, tags'[t].live
      PROVE  \E y \in all2 : y.tag = t /\ y.order = tags'[t].order
  <2>1. CASE \E n \in DOMAIN s : TagFor(n) = t
    <3>1. PICK n \in DOMAIN s : TagFor(n) = t
      BY <2>1
    <3>2. tags'[t] = [live |-> TRUE, ready |-> FALSE,
                      order |-> orderId + n - 1, readyOrder |-> 0]
      BY <3>1, NewTag
    <3>3. tags'[t].order = orderId + n - 1
      BY <3>2
    <3> QED
      BY <3>1, <3>3, Survivors
  <2>2. CASE \A n \in DOMAIN s : TagFor(n) # t
    <3>1. ~FreedTag(f, in, t)
      <4>1. ~FreeTag.live
        BY DEF FreeTag
      <4> QED
        BY <1>3, <2>2, <4>1, FreedTagNext
    <3>2. tags[t].live /\ tags'[t].order = tags[t].order
      BY <1>3, <2>2, <3>1, KeptTagNext
    <3>3. PICK x \in all : x.tag = t /\ x.order = tags[t].order
      BY <3>2 DEF TagInv, TagsNameOne
    <3>4. x \notin committing
      <4> SUFFICES ASSUME x \in committing PROVE FALSE
        OBVIOUS
      <4>1. TagOf(x) \in in.commit /\ TagOf(x).tag = t
        BY <3>3 DEF Cycle, TagOf
      <4> QED
        BY <3>1, <4>1 DEF FreedTag
    <3>5. x \in flight /\ ~FlushKills(f, x.order)
      BY <3>1, <3>2, <3>3, <3>4 DEF FreedTag
    <3> QED
      BY <3>2, <3>3, <3>5, Survivors
  <2> QED
    BY <2>1, <2>2
<1>4. ASSUME NEW x \in all2, NEW y \in all2, x.tag = y.tag PROVE x.order = y.order
  BY <1>2, <1>4
<1>5. TagsNameOne'
  <2>1. \A t \in Tags : tags'[t].live <=>
          \E y \in all2 : y.tag = t /\ y.order = tags'[t].order
    BY <1>2, <1>3
  <2> QED
    BY <1>4, <2>1 DEF TagsNameOne, Tags
<1>6. tags' \in [Tags -> TagEntries]
  BY TagsTyped
<1>7. ASSUME NEW y \in flight'
      PROVE  /\ y.stage = "written" /\ y.ins.rd # 0
                  => tags'[y.tag].ready /\ tags'[y.tag].readyOrder = y.order
             /\ tags'[y.tag].ready /\ tags'[y.tag].readyOrder = y.order
                  => y.stage \in {"answered", "written"}
  <2>1. CASE \E x \in Staying(f, wb) : y = Moved(x, f, in, wb, early)
    <3>1. PICK x \in Staying(f, wb) : y = Moved(x, f, in, wb, early)
      BY <2>1
    <3>2. x \in flight /\ ~FlushKills(f, x.order)
      BY FlightNext
    <3>3. /\ y.order = x.order /\ y.tag = x.tag /\ y.ins = x.ins
          /\ y.stage = "written" <=> x \in wb \/ x.stage = "written"
          /\ y.stage \in {"answered", "written"}
               <=> x \in wb \/ x \in early \/ x.stage \in {"answered", "written"}
      BY <3>1, <3>2, MovedIs
    <3>4. /\ x.tag \in Tags /\ ~FreedTag(f, in, x.tag)
          /\ \A n \in DOMAIN s : TagFor(n) # x.tag
          /\ tags[x.tag].order = x.order
      BY <3>2, TagsStay DEF TagInv
    <3>5. /\ x.tag \in ReadyTags(in) =>
               tags'[x.tag].ready /\ tags'[x.tag].readyOrder = x.order
          /\ x.tag \notin ReadyTags(in) => tags'[x.tag] = tags[x.tag]
      BY <3>4, KeptTagNext
    <3>6. ASSUME x \in wb, x.ins.rd # 0 PROVE x.tag \in ReadyTags(in)
      <4>1. TagOf(x) \in in.wb /\ TagOf(x).tag = x.tag
        BY <3>6 DEF Cycle, TagOf
      <4> QED
        BY <4>1 DEF ReadyTags
    <3>7. x.tag \in ReadyTags(in) => x \in wb \/ x \in early
      <4> SUFFICES ASSUME NEW z \in wb \cup early, z.tag = x.tag
                   PROVE  x \in wb \/ x \in early
        BY DEF Cycle, ReadyTags, TagOf
      <4>1. z \in flight
        BY DEF Cycle, Executing
      <4>2. z.order = x.order
        BY <3>2, <4>1 DEF TagInv, TagsNameOne
      <4>3. z = x
        BY <3>2, <4>1, <4>2 DEF FlightInv
      <4> QED
        BY <4>3
    <3>8. /\ x.stage = "written" /\ x.ins.rd # 0
               => tags[x.tag].ready /\ tags[x.tag].readyOrder = x.order
          /\ tags[x.tag].ready /\ tags[x.tag].readyOrder = x.order
               => x.stage \in {"answered", "written"}
      BY <3>2 DEF TagInv
    <3>9. ASSUME y.stage = "written", y.ins.rd # 0
          PROVE  tags'[y.tag].ready /\ tags'[y.tag].readyOrder = y.order
      BY <3>3, <3>5, <3>6, <3>8, <3>9
    <3>10. ASSUME tags'[y.tag].ready, tags'[y.tag].readyOrder = y.order
           PROVE  y.stage \in {"answered", "written"}
      BY <3>3, <3>5, <3>7, <3>8, <3>10
    <3> QED
      BY <3>9, <3>10
  <2>2. CASE \E n \in DOMAIN s : y = Entrant(s, n)
    <3>1. PICK n \in DOMAIN s : y = Entrant(s, n)
      BY <2>2
    <3>2. /\ y.tag = TagFor(n) /\ y.stage \in {"waiting", "issued"}
      BY <1>1, <3>1, EntrantsAreTyped
    <3>3. tags'[TagFor(n)] = [live |-> TRUE, ready |-> FALSE,
                              order |-> orderId + n - 1, readyOrder |-> 0]
      BY NewTag
    <3>4. ~tags'[TagFor(n)].ready
      BY <3>3
    <3>5. ~tags'[y.tag].ready
      BY <3>2, <3>4
    <3> QED
      BY <3>2, <3>5
  <2> QED
    BY <1>7, <2>1, <2>2, FlightNext
<1> QED
  BY <1>2, <1>5, <1>6, <1>7 DEF TagInv, Tags, TagEntries

-----------------------------------------------------------------------------
\* The table of producers.

\* What FlightNext, MovedIs and EntrantsAreTyped say together.
Kept(x, y, f, in, wb, early) ==
  /\ x \in flight /\ x \notin CommitsNow(f, wb) /\ ~FlushKills(f, x.order)
  /\ y.order = x.order /\ y.tag = x.tag /\ y.ins = x.ins /\ y.needs = x.needs
  /\ y.stage = "written" <=> x \in wb \/ x.stage = "written"
  /\ y.stage \in {"answered", "written"}
       <=> x \in wb \/ x \in early \/ x.stage \in {"answered", "written"}
  /\ y.stage = "waiting" <=> x.stage = "waiting" /\ x.order \notin Issuing(in)
  /\ y.hidden <=> Hidden(x, Killed(f))

LEMMA NextIs ==
  ASSUME FlightInv, EntryInv, NEW f, NEW in, NEW s, NEW wb, NEW early,
         Cycle(f, in, s, wb, early), NEW y \in flight'
  PROVE  \/ \E x \in flight : Kept(x, y, f, in, wb, early)
         \/ \E n \in DOMAIN s : y = Entrant(s, n)
<1>1. CASE \E x \in Staying(f, wb) : y = Moved(x, f, in, wb, early)
  <2>1. PICK x \in Staying(f, wb) : y = Moved(x, f, in, wb, early)
    BY <1>1
  <2>2. x \in flight /\ x \notin CommitsNow(f, wb) /\ ~FlushKills(f, x.order)
    BY FlightNext
  <2>3. Kept(x, y, f, in, wb, early)
    BY <2>1, <2>2, MovedIs DEF Kept
  <2> QED
    BY <2>2, <2>3
<1> QED
  BY <1>1, FlightNext

LEMMA StayersAreKept ==
  ASSUME FlightInv, EntryInv, NEW f, NEW in, NEW s, NEW wb, NEW early,
         Cycle(f, in, s, wb, early), NEW x \in flight,
         x \notin CommitsNow(f, wb), ~FlushKills(f, x.order)
  PROVE  \E y \in flight' : Kept(x, y, f, in, wb, early)
<1> DEFINE y == Moved(x, f, in, wb, early)
<1>1. x \in Staying(f, wb)
  BY DEF Staying, Killed
<1>2. y \in flight'
  BY <1>1, FlightNext
<1>3. Kept(x, y, f, in, wb, early)
  BY MovedIs DEF Kept
<1> QED
  BY <1>2, <1>3

LEMMA EntrantIs ==
  ASSUME FlightInv, NEW f, NEW in, NEW s, NEW wb, NEW early,
         Cycle(f, in, s, wb, early), NEW n \in DOMAIN s
  PROVE  /\ n \in 1 .. 2 /\ Entrant(s, n) \in flight'
         /\ Entrant(s, n).order = orderId + n - 1 /\ Entrant(s, n).tag = TagFor(n)
         /\ Entrant(s, n).ins = s[n] /\ s[n] \in Instructions
         /\ TagFor(n) \in FreeTags /\ TagFor(n) \in Tags
         /\ orderId \in Nat /\ orderId + n - 1 \in Nat
         /\ orderId + n - 1 >= orderId /\ orderId + n - 1 < orderId'
<1>1. s \in Offers(f) /\ orderId' = orderId + Len(s)
  BY DEF Cycle
<1>2. /\ n \in 1 .. 2 /\ n <= Len(s) /\ Len(s) \in Nat
      /\ s[n] \in Instructions /\ TagFor(n) \in FreeTags
  BY <1>1, PairIs
<1>3. orderId \in Nat
  BY DEF FlightInv
<1>4. orderId + n - 1 \in Nat /\ orderId + n - 1 >= orderId /\ orderId + n - 1 < orderId'
  BY <1>1, <1>2, <1>3
<1>5. Entrant(s, n) \in flight'
  BY FlightNext
<1> QED
  BY <1>1, <1>2, <1>3, <1>4, <1>5, EntrantsAreTyped DEF FreeTags

LEMMA ResultNew ==
  ASSUME NEW f, NEW in, NEW s, NEW wb, NEW early, Cycle(f, in, s, wb, early),
         FlightInv, NEW n \in DOMAIN s, s[n].rd \in Regs,
         \A m \in DOMAIN s : s[m].rd = s[n].rd => m <= n
  PROVE  result'[s[n].rd] = [tag |-> TagFor(n), order |-> orderId + n - 1]
<1> DEFINE r == s[n].rd
           last == CHOOSE k \in WritersOf(s, r) : \A m \in WritersOf(s, r) : m <= k
<1>1. \A m \in DOMAIN s : m \in Int
  BY EntrantIs
<1>2. n \in WritersOf(s, r) /\ \A m \in WritersOf(s, r) : m <= n /\ m \in DOMAIN s
  BY DEF WritersOf
<1>3. last = n
  <2>1. last \in WritersOf(s, r) /\ \A m \in WritersOf(s, r) : m <= last
    BY <1>2
  <2> QED
    BY <1>1, <1>2, <2>1
<1>4. result'[r] = [tag |-> TagFor(last), order |-> orderId + last - 1]
  BY <1>2 DEF Cycle, ResultNext
<1> HIDE DEF last
<1> QED
  BY <1>3, <1>4

LEMMA ResultOld ==
  ASSUME NEW f, NEW in, NEW s, NEW wb, NEW early, Cycle(f, in, s, wb, early),
         NEW r \in Regs, \A n \in DOMAIN s : s[n].rd # r
  PROVE  result'[r] = IF FlushKills(f, result[r].order) \/ result[r] \in in.commit
                      THEN NoProducer ELSE result[r]
<1>1. WritersOf(s, r) = {}
  BY DEF WritersOf
<1> QED
  BY <1>1 DEF Cycle, ResultNext

\* The last of the pair to write r.
LEMMA LastWriter ==
  ASSUME FlightInv, NEW f, NEW in, NEW s, NEW wb, NEW early,
         Cycle(f, in, s, wb, early), NEW r, \E n \in DOMAIN s : s[n].rd = r
  PROVE  \E n \in DOMAIN s : s[n].rd = r /\ \A m \in DOMAIN s : s[m].rd = r => m <= n
<1>1. \A m \in DOMAIN s : m = 1 \/ m = 2
  BY EntrantIs
<1>2. CASE \E n \in DOMAIN s : s[n].rd = r /\ n = 2
  BY <1>1, <1>2
<1>3. CASE ~\E n \in DOMAIN s : s[n].rd = r /\ n = 2
  BY <1>1, <1>3
<1> QED
  BY <1>2, <1>3

\* Orders tell an instruction that stays from one that enters.
LEMMA SameTag ==
  ASSUME FlightInv, EntryInv, NEW f, NEW in, NEW s, NEW wb, NEW early,
         Cycle(f, in, s, wb, early), NEW y \in flight', NEW w,
         w.order < orderId, TagOf(y) = w
  PROVE  \E x \in flight : Kept(x, y, f, in, wb, early) /\ TagOf(x) = w
<1>1. y.order = w.order /\ y.tag = w.tag /\ w = [tag |-> y.tag, order |-> y.order]
  BY DEF TagOf
<1>2. ASSUME NEW n \in DOMAIN s, y = Entrant(s, n) PROVE FALSE
  <2>1. y.order = orderId + n - 1 /\ orderId + n - 1 >= orderId /\ orderId + n - 1 \in Nat
        /\ orderId \in Nat
    BY <1>2, EntrantIs
  <2> QED
    BY <1>1, <2>1
<1>3. PICK x \in flight : Kept(x, y, f, in, wb, early)
  BY <1>2, NextIs
<1> QED
  BY <1>1, <1>3 DEF Kept, TagOf

LEMMA TableTyped ==
  ASSUME FlightInv, EntryInv, TableInv, NEW f, NEW in, NEW s, NEW wb, NEW early,
         Cycle(f, in, s, wb, early), NEW r \in Regs
  PROVE  /\ result'[r] \in {NoProducer} \cup Waits
         /\ result'[r] # NoProducer => result'[r].order < orderId'
         /\ \A y \in flight' : result'[r] = TagOf(y) => y.ins.rd = r
<1>1. CASE \E n \in DOMAIN s : s[n].rd = r
  <2>1. PICK n \in DOMAIN s : s[n].rd = r /\ \A m \in DOMAIN s : s[m].rd = r => m <= n
    BY <1>1, LastWriter
  <2>2. result'[r] = [tag |-> TagFor(n), order |-> orderId + n - 1]
    BY <2>1, ResultNew
  <2>3. /\ TagFor(n) \in Tags /\ orderId + n - 1 \in Nat /\ orderId + n - 1 < orderId'
        /\ Entrant(s, n) \in flight' /\ Entrant(s, n).order = orderId + n - 1
        /\ Entrant(s, n).ins = s[n]
    BY EntrantIs
  <2>4. ASSUME NEW y \in flight', result'[r] = TagOf(y) PROVE y.ins.rd = r
    <3>1. y.order = orderId + n - 1
      BY <2>2, <2>4 DEF TagOf
    <3>2. y = Entrant(s, n)
      BY <2>3, <3>1, FlightStep DEF FlightInv
    <3> QED
      BY <2>1, <2>3, <3>2
  <2> QED
    BY <2>2, <2>3, <2>4 DEF Waits
<1>2. CASE \A n \in DOMAIN s : s[n].rd # r
  <2>1. result'[r] = NoProducer \/ result'[r] = result[r]
    BY <1>2, ResultOld
  <2>2. CASE result'[r] = NoProducer
    <3>1. ASSUME NEW y \in flight', result'[r] = TagOf(y) PROVE FALSE
      <4>1. y.tag = 0
        BY <2>2, <3>1 DEF TagOf, NoProducer
      <4>2. y.tag \in Tags'
        BY FlightStep DEF FlightInv, Flights
      <4> QED
        BY <4>1, <4>2, Sizes DEF Tags
    <3> QED
      BY <2>2, <3>1
  <2>3. CASE result'[r] = result[r] /\ result[r] # NoProducer
    <3>1. result[r] \in Waits /\ result[r].order < orderId /\ result[r].order \in Nat
      BY <2>3 DEF TableInv, Waits
    <3>2. orderId \in Nat /\ orderId' \in Nat /\ orderId <= orderId'
      <4>1. orderId' = orderId + Len(s) /\ Len(s) \in Nat /\ orderId \in Nat
        BY PairIs DEF Cycle, FlightInv
      <4> QED
        BY <4>1
    <3>3. ASSUME NEW y \in flight', result'[r] = TagOf(y) PROVE y.ins.rd = r
      <4>1. PICK x \in flight : Kept(x, y, f, in, wb, early) /\ TagOf(x) = result[r]
        BY <2>3, <3>1, <3>3, SameTag
      <4>2. x.ins.rd = r
        BY <4>1 DEF TableInv
      <4> QED
        BY <4>1, <4>2 DEF Kept
    <3>4. result[r].order < orderId'
      BY <3>1, <3>2
    <3> QED
      BY <2>3, <3>1, <3>3, <3>4
  <2> QED
    BY <2>1, <2>2, <2>3
<1> QED
  BY <1>1, <1>2

LEMMA TableStep ==
  ASSUME FlightInv, EntryInv, TableInv, NEW f, NEW in, NEW s, NEW wb, NEW early,
         Cycle(f, in, s, wb, early)
  PROVE  TableInv'
<1>1. result' \in [Regs -> {NoProducer} \cup Waits]
  <2>1. result' = [r \in Regs |-> result'[r]]
    BY DEF Cycle, ResultNext
  <2> QED
    BY <2>1, TableTyped
<1>2. ASSUME NEW y \in flight', y.ins.rd # 0, ~y.hidden,
             \A z \in flight' : z.ins.rd = y.ins.rd => z.order <= y.order
      PROVE  result'[y.ins.rd] = TagOf(y)
  <2>1. y.ins \in Instructions /\ y.ins.rd \in Regs
    <3>1. y.ins \in Instructions'
      BY FlightStep DEF FlightInv, Flights
    <3>2. y.ins \in Instructions
      BY <3>1 DEF Instructions
    <3> QED
      BY <1>2, <3>2 DEF Regs
  <2>2. CASE \E n \in DOMAIN s : y = Entrant(s, n)
    <3>1. PICK n \in DOMAIN s : y = Entrant(s, n)
      BY <2>2
    <3>2. y.ins = s[n] /\ y.tag = TagFor(n) /\ y.order = orderId + n - 1 /\ n \in Nat
          /\ orderId \in Nat
      BY <3>1, EntrantIs
    <3>3. ASSUME NEW m \in DOMAIN s, s[m].rd = s[n].rd PROVE m <= n
      <4>1. /\ Entrant(s, m) \in flight' /\ Entrant(s, m).ins = s[m]
            /\ Entrant(s, m).order = orderId + m - 1 /\ m \in Nat
        BY EntrantIs
      <4>2. orderId + m - 1 <= orderId + n - 1
        BY <1>2, <3>2, <3>3, <4>1
      <4> QED
        BY <3>2, <4>1, <4>2
    <3>4. result'[s[n].rd] = [tag |-> TagFor(n), order |-> orderId + n - 1]
      BY <2>1, <3>2, <3>3, ResultNew
    <3> QED
      BY <3>2, <3>4 DEF TagOf
  <2>3. CASE \E x \in flight : Kept(x, y, f, in, wb, early)
    <3>1. PICK x \in flight : Kept(x, y, f, in, wb, early)
      BY <2>3
    <3> DEFINE r == y.ins.rd
    <3>2. /\ x.ins.rd = r /\ TagOf(x) = TagOf(y) /\ x.order = y.order
          /\ x.order \in Nat /\ x.order < orderId /\ orderId \in Nat
      BY <3>1 DEF Kept, TagOf, FlightInv, Flights
    <3>3. ~x.hidden /\ \A k \in Killed(f) : k.ins.rd # r
      BY <1>2, <3>1 DEF Kept, Hidden
    <3>4. ASSUME NEW n \in DOMAIN s, s[n].rd = r PROVE FALSE
      <4>1. /\ Entrant(s, n) \in flight' /\ Entrant(s, n).ins = s[n]
            /\ Entrant(s, n).order = orderId + n - 1 /\ orderId + n - 1 >= orderId
            /\ orderId + n - 1 \in Nat
        BY EntrantIs
      <4>2. orderId + n - 1 <= y.order
        BY <1>2, <3>4, <4>1
      <4> QED
        BY <3>2, <4>1, <4>2
    <3>5. ASSUME NEW z \in flight, z.ins.rd = r PROVE z.order <= x.order
      <4>1. ~FlushKills(f, z.order)
        BY <3>3, <3>5 DEF Killed
      <4>2. CASE z \in CommitsNow(f, wb)
        BY <3>1, <4>2 DEF CommitsNow
      <4>3. CASE z \notin CommitsNow(f, wb)
        <5>1. PICK v \in flight' : Kept(z, v, f, in, wb, early)
          BY <4>1, <4>3, StayersAreKept
        <5>2. v.ins.rd = r /\ v.order = z.order
          BY <3>5, <5>1 DEF Kept
        <5> QED
          BY <1>2, <3>2, <5>2
      <4> QED
        BY <4>2, <4>3
    <3>6. result[r] = TagOf(x)
      BY <1>2, <3>2, <3>3, <3>5 DEF TableInv, YoungestWriter
    <3>7. result[r].order = x.order /\ ~FlushKills(f, result[r].order)
      <4>1. result[r].order = x.order
        BY <3>6 DEF TagOf
      <4> QED
        BY <3>1, <4>1 DEF Kept
    <3>8. result[r] \notin in.commit
      <4> SUFFICES ASSUME NEW c \in committing, TagOf(c) = result[r] PROVE FALSE
        BY DEF Cycle
      <4>1. c.order = x.order
        BY <3>6 DEF TagOf
      <4>2. c.order < x.order
        BY DEF FlightInv
      <4> QED
        BY <3>2, <4>1, <4>2
    <3>9. result'[r] = result[r]
      <4>1. r \in Regs /\ \A n \in DOMAIN s : s[n].rd # r
        BY <2>1, <3>4
      <4> HIDE DEF r
      <4> QED
        BY <3>7, <3>8, <4>1, ResultOld
    <3> QED
      BY <3>2, <3>6, <3>9
  <2> QED
    BY <2>2, <2>3, NextIs
<1> QED
  BY <1>1, <1>2, TableTyped DEF TableInv, YoungestWriter, Regs, Instructions, Waits, Tags,
     NoProducer, TagOf

-----------------------------------------------------------------------------
\* The entries of the queue.

\* What the n-th of the pair gives the queue.
Input(s, n, in) ==
  [tag |-> TagFor(n), order |-> orderId + n - 1, kind |-> s[n].kind,
   waits |-> SourcesOf(s, n, in)]
At(s, in, k) == HeldAt(Tagged(s, in), k)

LEMMA DispIs ==
  ASSUME FlightInv, NEW f, NEW in, NEW s, NEW wb, NEW early,
         Cycle(f, in, s, wb, early)
  PROVE  /\ DOMAIN in.disp \subseteq 1 .. 2
         /\ \A k \in DOMAIN in.disp :
              /\ At(s, in, k) \in DOMAIN s /\ s[At(s, in, k)].kind \in HeldKinds
              /\ in.disp[k] = Input(s, At(s, in, k), in)
         /\ \A k, l \in DOMAIN in.disp : At(s, in, k) = At(s, in, l) => k = l
<1> DEFINE T == Tagged(s, in)
<1>1. Len(s) \in 0 .. 2 /\ DOMAIN s = 1 .. Len(s)
  BY PairIs DEF Cycle
<1>2. DOMAIN T = 1 .. Len(s) /\ \A n \in DOMAIN s : T[n] = Input(s, n, in)
  BY <1>1 DEF Tagged, Input
<1>3. ASSUME NEW n \in DOMAIN s PROVE T[n].kind = s[n].kind
  <2>1. T[n] = Input(s, n, in) /\ Input(s, n, in).kind = s[n].kind
    BY <1>2 DEF Input
  <2> QED
    BY <2>1
<1>4. in.disp = Held(T)
  BY DEF Cycle
<1>5. \A k : At(s, in, k) = HeldAt(T, k)
  BY DEF At
<1> HIDE DEF T
<1>6. /\ DOMAIN Held(T) \subseteq 1 .. 2
      /\ \A k \in DOMAIN Held(T) :
           /\ HeldAt(T, k) \in DOMAIN T /\ Held(T)[k] = T[HeldAt(T, k)]
           /\ Held(T)[k].kind \in HeldKinds
      /\ \A k, l \in DOMAIN Held(T) : HeldAt(T, k) = HeldAt(T, l) => k = l
  BY <1>1, <1>2, HeldIs
<1> QED
  BY <1>1, <1>2, <1>3, <1>4, <1>5, <1>6

\* A slot is filled, stays empty, is dropped, or is kept.
Filled(i, s, in) ==
  \E k \in DOMAIN in.disp :
    /\ k \in 1 .. 2 /\ k <= Cardinality(FreeSlots) /\ SlotFor(k) = i
    /\ ~iq[i].valid /\ iq'[i] = Queued(Input(s, At(s, in, k), in))
Empty(i) == ~iq[i].valid /\ iq'[i] = iq[i]
Dropped(i) == iq[i].valid /\ iq'[i] = FreeEntry
Remains(i, in) ==
  /\ iq[i].valid /\ ~FlushKills(in.flush, iq[i].order) /\ ~Committing(iq[i], in)
  /\ iq'[i] = [Woken(iq[i], in) EXCEPT !.issued = @ \/ i \in Selected(in)]

LEMMA SlotIs ==
  ASSUME FlightInv, NEW f, NEW in, NEW s, NEW wb, NEW early,
         Cycle(f, in, s, wb, early), NEW i \in IqSlots
  PROVE  Filled(i, s, in) \/ Empty(i) \/ Dropped(i) \/ Remains(i, in)
<1> DEFINE taken == {n \in DOMAIN in.disp : n <= Cardinality(FreeSlots) /\ SlotFor(n) = i}
<1>1. iq'[i] = SlotNext(i, in)
  BY DEF Cycle, IqCycle
<1>2. CASE taken # {}
  <2> DEFINE k == CHOOSE n \in taken : TRUE
  <2>1. k \in taken
    BY <1>2
  <2>2. iq'[i] = Queued(in.disp[k])
    BY <1>1, <1>2 DEF SlotNext
  <2> HIDE DEF k
  <2>3. k \in DOMAIN in.disp /\ k <= Cardinality(FreeSlots) /\ SlotFor(k) = i
    BY <2>1
  <2>4. k \in 1 .. 2 /\ in.disp[k] = Input(s, At(s, in, k), in)
    BY <2>3, DispIs
  <2>5. i \in FreeSlots
    BY <2>3, <2>4, SlotsAreFree
  <2>6. ~iq[i].valid
    BY <2>5 DEF FreeSlots
  <2> QED
    BY <2>2, <2>3, <2>4, <2>6 DEF Filled
<1>3. CASE taken = {} /\ ~iq[i].valid
  BY <1>1, <1>3 DEF SlotNext, Empty
<1>4. CASE /\ taken = {} /\ iq[i].valid
           /\ FlushKills(in.flush, iq[i].order) \/ Committing(iq[i], in)
  BY <1>1, <1>4 DEF SlotNext, Dropped
<1>5. CASE /\ taken = {} /\ iq[i].valid
           /\ ~(FlushKills(in.flush, iq[i].order) \/ Committing(iq[i], in))
  BY <1>1, <1>5 DEF SlotNext, Remains
<1> QED
  BY <1>2, <1>3, <1>4, <1>5

\* The fields of an entry that takes its wake-ups.
LEMMA WokenIs ==
  ASSUME NEW e \in Entries, e.valid, NEW in, NEW b \in BOOLEAN
  PROVE  LET r == [Woken(e, in) EXCEPT !.issued = @ \/ b] IN
         /\ r \in Entries
         /\ r.valid
         /\ r.order = e.order
         /\ r.issued <=> e.issued \/ b
         /\ ~e.issued => r.waits = e.waits \ Wakes(e, in)
         /\ ~e.issued => (r.ready <=> r.waits = {})
<1> DEFINE left == e.waits \ Wakes(e, in)
           hold == IF Wakes(e, in) # {} THEN WakeHoldCycles
                   ELSE IF e.hold # 0 THEN e.hold - 1 ELSE 0
           w == Woken(e, in)
           r == [w EXCEPT !.issued = @ \/ b]
<1>1. hold \in 0 .. WakeHoldCycles
  BY Sizes DEF Entries
<1>2. left \in SUBSET Waits
  BY DEF Entries
<1>3. CASE e.issued
  <2>1. w = e
    BY <1>3 DEF Woken
  <2>2. r \in Entries
    BY <2>1 DEF Entries
  <2>3. r.valid
    BY <2>1 DEF Entries
  <2>4. r.order = e.order
    BY <2>1 DEF Entries
  <2>5. r.issued <=> e.issued \/ b
    BY <2>1 DEF Entries
  <2> QED
    BY <1>3, <2>2, <2>3, <2>4, <2>5
<1>4. CASE ~e.issued
  <2>1. w = [e EXCEPT !.waits = left, !.ready = left = {}, !.hold = hold]
    BY <1>4 DEF Woken
  <2> HIDE DEF left, hold, w
  <2>2. w \in Entries
    BY <1>1, <1>2, <2>1 DEF Entries
  <2>3. w.valid
    BY <2>1 DEF Entries
  <2>4. w.order = e.order
    BY <2>1 DEF Entries
  <2>5. w.issued <=> e.issued
    BY <2>1 DEF Entries
  <2>6. w.waits = left
    BY <2>1 DEF Entries
  <2>7. w.ready <=> left = {}
    BY <2>1 DEF Entries
  <2>8. r \in Entries
    BY <2>2 DEF Entries
  <2>9. r.valid
    BY <2>2, <2>3 DEF Entries
  <2>10. r.order = w.order
    BY <2>2 DEF Entries
  <2>11. r.issued <=> w.issued \/ b
    BY <2>2 DEF Entries
  <2>12. r.waits = w.waits
    BY <2>2 DEF Entries
  <2>13. r.ready <=> w.ready
    BY <2>2 DEF Entries
  <2>14. left = e.waits \ Wakes(e, in)
    BY DEF left
  <2> QED
    BY <2>4, <2>5, <2>6, <2>7, <2>8, <2>9, <2>10, <2>11, <2>12, <2>13, <2>14 DEF w
<1> QED
  BY <1>3, <1>4

\* The waits of an entry that is queued: the table's producer is in flight and
\* has yet to write, or it is the first of the pair.
LEMMA NewWaits ==
  ASSUME FlightInv, TagInv, TableInv, EntryInv,
         NEW f, NEW in, NEW s, NEW wb, NEW early,
         Cycle(f, in, s, wb, early), NEW n \in DOMAIN s, NEW w \in SourcesOf(s, n, in)
  PROVE  /\ w \in Waits /\ w.order < orderId + n - 1
         /\ \E y \in flight' : TagOf(y) = w /\ y.stage # "written" /\ y.ins.rd # 0
<1>1. /\ n \in 1 .. 2 /\ s[n] \in Instructions /\ orderId + n - 1 >= orderId
      /\ orderId \in Nat /\ orderId + n - 1 \in Nat
  BY EntrantIs
<1>2. PICK r \in s[n].srcs \ {0} :
        w \in IF n = 2 /\ s[1].rd = r
              THEN {[tag |-> TagFor(1), order |-> orderId]} ELSE WaitsFor(r, in)
  BY DEF SourcesOf
<1>3. CASE n = 2 /\ s[1].rd = r
  <2>1. 1 \in DOMAIN s
    BY <1>3, PairIs DEF Cycle
  <2>2. /\ Entrant(s, 1) \in flight' /\ Entrant(s, 1).order = orderId + 1 - 1
        /\ Entrant(s, 1).tag = TagFor(1) /\ Entrant(s, 1).ins = s[1]
        /\ TagFor(1) \in Tags
    BY <2>1, EntrantIs
  <2>3. Entrant(s, 1).stage # "written"
    <3>1. Entrant(s, 1).stage = (IF s[1].kind \in HeldKinds THEN "waiting" ELSE "issued")
      BY <2>1, EntrantsAreTyped DEF Cycle
    <3> QED
      BY <3>1
  <2>4. w = [tag |-> TagFor(1), order |-> orderId]
    BY <1>2, <1>3
  <2>5. orderId + 1 - 1 = orderId /\ orderId < orderId + n - 1
    BY <1>1, <1>3
  <2>6. TagOf(Entrant(s, 1)) = w
    BY <2>2, <2>4, <2>5 DEF TagOf
  <2>7. w \in Waits /\ w.order < orderId + n - 1
    BY <1>1, <2>2, <2>4, <2>5 DEF Waits
  <2> QED
    BY <1>2, <1>3, <2>2, <2>3, <2>6, <2>7
<1>4. CASE ~(n = 2 /\ s[1].rd = r)
  <2>1. r \in Regs /\ r # 0
    BY <1>1, <1>2 DEF Regs
  <2>2. /\ w = result[r] /\ w.tag # 0 /\ tags[w.tag].live /\ tags[w.tag].order = w.order
        /\ ~(tags[w.tag].ready /\ tags[w.tag].readyOrder = w.order)
        /\ w \notin in.commit /\ \A v \in in.wb : v.tag # w.tag
    BY <1>2, <1>4 DEF WaitsFor
  <2>3. w \in Waits /\ w # NoProducer
    BY <2>1, <2>2 DEF TableInv, NoProducer
  <2>4. w.tag \in Tags /\ w.order \in Nat /\ w.order < orderId
    BY <2>1, <2>2, <2>3 DEF TableInv, Waits
  <2>5. PICK x \in flight \cup committing : x.tag = w.tag /\ x.order = w.order
    BY <2>2, <2>4 DEF TagInv, TagsNameOne
  <2>6. TagOf(x) = w
    BY <2>3, <2>5 DEF TagOf, Waits
  <2>7. x \in flight
    BY <2>2, <2>5, <2>6 DEF Cycle
  <2>8. x.ins.rd = r
    BY <2>1, <2>2, <2>6, <2>7 DEF TableInv
  <2>9. x.stage # "written"
    BY <2>1, <2>2, <2>5, <2>7, <2>8 DEF TagInv
  <2>10. x \notin wb
    <3> SUFFICES ASSUME x \in wb PROVE FALSE
      OBVIOUS
    <3>1. TagOf(x) \in in.wb
      BY <2>1, <2>8 DEF Cycle
    <3> QED
      BY <2>2, <2>6, <3>1
  <2>11. ~FlushKills(f, x.order)
    BY PairIs DEF Cycle, FlushKills
  <2>12. x \notin CommitsNow(f, wb)
    BY <2>9, <2>10 DEF CommitsNow
  <2>13. PICK y \in flight' : Kept(x, y, f, in, wb, early)
    BY <2>7, <2>11, <2>12, StayersAreKept
  <2>14. TagOf(y) = w /\ y.stage # "written" /\ y.ins.rd # 0
    BY <2>1, <2>6, <2>8, <2>9, <2>10, <2>13 DEF Kept, TagOf
  <2> QED
    BY <1>1, <2>3, <2>4, <2>14
<1> QED
  BY <1>3, <1>4

\* A producer stays done, and one is done whose tag is announced.
LEMMA DoneStays ==
  ASSUME NEW f, NEW in, NEW s, NEW wb, NEW early, NEW p \in flight, NEW q,
         Kept(p, q, f, in, wb, early), Done(p)
  PROVE  Done(q)
BY DEF Done, Kept, Hidden

LEMMA AnnouncedIsDone ==
  ASSUME FlightInv, TagInv, NEW f, NEW in, NEW s, NEW wb, NEW early,
         Cycle(f, in, s, wb, early), NEW p \in flight, NEW q,
         Kept(p, q, f, in, wb, early),
         (\E v \in in.wb : v.tag = p.tag) \/ p.tag \in in.early
  PROVE  Done(q)
<1>1. PICK z \in wb \cup early : z.tag = p.tag
  BY DEF Cycle, TagOf
<1>2. z \in flight
  BY DEF Cycle, Executing
<1>3. z.order = p.order
  BY <1>1, <1>2 DEF TagInv, TagsNameOne
<1>4. z = p
  BY <1>2, <1>3 DEF FlightInv
<1> QED
  BY <1>4 DEF Done, Kept

\* They cover the needs of the instruction.
LEMMA NewCover ==
  ASSUME FlightInv, TagInv, TableInv, EntryInv,
         NEW f, NEW in, NEW s, NEW wb, NEW early,
         Cycle(f, in, s, wb, early), NEW n \in DOMAIN s,
         NEW q \in flight', q.order \in Entrant(s, n).needs
  PROVE  Done(q) \/ TagOf(q) \in SourcesOf(s, n, in)
<1>1. /\ n \in 1 .. 2 /\ s[n] \in Instructions /\ orderId \in Nat
  BY EntrantIs
<1>2. PICK r \in s[n].srcs \ {0} :
        IF n = 2 /\ s[1].rd = r THEN q.order = orderId
        ELSE \E p \in Producer(flight, r) : q.order = p.order
  BY EntrantsAreTyped DEF Cycle
<1>3. CASE n = 2 /\ s[1].rd = r
  <2>1. 1 \in DOMAIN s /\ orderId + 1 - 1 = orderId
    BY <1>1, <1>3, PairIs DEF Cycle
  <2>2. /\ Entrant(s, 1) \in flight' /\ Entrant(s, 1).order = orderId
        /\ Entrant(s, 1).tag = TagFor(1)
    BY <2>1, EntrantIs
  <2>3. q = Entrant(s, 1)
    BY <1>2, <1>3, <2>2, FlightStep DEF FlightInv
  <2>4. TagOf(q) = [tag |-> TagFor(1), order |-> orderId]
    BY <2>2, <2>3 DEF TagOf
  <2> QED
    BY <1>2, <1>3, <2>4 DEF SourcesOf
<1>4. CASE ~(n = 2 /\ s[1].rd = r)
  <2>1. PICK p \in Producer(flight, r) : q.order = p.order
    BY <1>2, <1>4
  <2>2. /\ p \in flight /\ p.ins.rd = r /\ p.order \in Nat /\ p.order < orderId
        /\ YoungestWriter(p) /\ p.tag \in Tags
    BY <2>1 DEF Producer, YoungestWriter, FlightInv, Flights
  <2>3. r \in Regs /\ r # 0
    BY <1>1, <1>2 DEF Regs
  <2>4. Kept(p, q, f, in, wb, early)
    <3>1. TagOf(q).order = q.order
      BY DEF TagOf
    <3>2. PICK x \in flight : Kept(x, q, f, in, wb, early)
      BY <2>1, <2>2, <3>1, SameTag
    <3>3. x = p
      BY <2>1, <2>2, <3>2 DEF Kept, FlightInv
    <3> QED
      BY <3>2, <3>3
  <2>5. TagOf(q) = TagOf(p)
    BY <2>4 DEF Kept, TagOf
  <2>6. CASE p.hidden
    BY <2>2, <2>4, <2>6, DoneStays DEF Done
  <2>7. CASE ~p.hidden
    <3>1. result[r] = TagOf(p)
      BY <2>2, <2>3, <2>7 DEF TableInv
    <3>2. /\ result[r].tag = p.tag /\ result[r].order = p.order /\ p.tag # 0
      BY <2>2, <3>1, Sizes DEF TagOf, Tags
    <3>3. tags[p.tag].live /\ tags[p.tag].order = p.order
      BY <2>2 DEF TagInv
    <3>4. CASE tags[p.tag].ready /\ tags[p.tag].readyOrder = p.order
      <4>1. Done(p)
        BY <2>2, <3>4 DEF TagInv, Done
      <4> QED
        BY <2>2, <2>4, <4>1, DoneStays
    <3>5. CASE \E v \in in.wb : v.tag = p.tag
      BY <2>2, <2>4, <3>5, AnnouncedIsDone
    <3>6. TagOf(p) \notin in.commit
      <4> SUFFICES ASSUME NEW c \in committing, TagOf(c) = TagOf(p) PROVE FALSE
        BY DEF Cycle
      <4>1. c.order = p.order
        BY DEF TagOf
      <4>2. c.order < p.order
        BY <2>2 DEF FlightInv
      <4> QED
        BY <2>2, <4>1, <4>2
    <3>7. CASE /\ ~(tags[p.tag].ready /\ tags[p.tag].readyOrder = p.order)
               /\ ~\E v \in in.wb : v.tag = p.tag
      <4>1. WaitsFor(r, in) = {result[r]}
        BY <3>1, <3>2, <3>3, <3>6, <3>7 DEF WaitsFor
      <4>2. TagOf(q) \in WaitsFor(r, in)
        BY <2>5, <3>1, <4>1
      <4> QED
        BY <1>2, <1>4, <4>2 DEF SourcesOf
    <3> QED
      BY <3>4, <3>5, <3>7
  <2> QED
    BY <2>6, <2>7
<1> QED
  BY <1>3, <1>4

\* An entry that is filled.
LEMMA FilledIs ==
  ASSUME FlightInv, TagInv, TableInv, EntryInv,
         NEW f, NEW in, NEW s, NEW wb, NEW early,
         Cycle(f, in, s, wb, early), NEW n \in DOMAIN s,
         NEW e, e = Queued(Input(s, n, in))
  PROVE  /\ e \in Entries /\ e.valid /\ ~e.issued /\ e.order = orderId + n - 1
         /\ e.waits = SourcesOf(s, n, in)
         /\ e.ready <=> e.waits = {}
<1>1. /\ TagFor(n) \in 0 .. NumTags /\ orderId + n - 1 \in 0 .. MaxOrder
      /\ s[n].kind \in Kinds
  <2>1. TagFor(n) \in Tags
    BY EntrantIs
  <2>2. orderId + n - 1 \in 0 .. MaxOrder - 1 /\ s[n].kind \in Kinds
    BY PairIs DEF Cycle
  <2> QED
    BY <2>1, <2>2, Sizes DEF Tags
<1>2. SourcesOf(s, n, in) \in SUBSET Waits
  BY NewWaits
<1>3. 0 \in 0 .. WakeHoldCycles
  BY Sizes
<1>4. e = [valid |-> TRUE, issued |-> FALSE, tag |-> TagFor(n), order |-> orderId + n - 1,
           kind |-> s[n].kind, waits |-> SourcesOf(s, n, in),
           ready |-> SourcesOf(s, n, in) = {}, hold |-> 0]
  BY DEF Queued, Input
<1>5. e \in Entries
  BY <1>1, <1>2, <1>3, <1>4 DEF Entries
<1>6. e.valid
  BY <1>4
<1>7. ~e.issued
  BY <1>4
<1>8. e.order = orderId + n - 1 /\ e.waits = SourcesOf(s, n, in)
  BY <1>4
<1>9. e.ready <=> SourcesOf(s, n, in) = {}
  <2> DEFINE waits == SourcesOf(s, n, in)
             none == waits = {}
  <2>1. e = [valid |-> TRUE, issued |-> FALSE, tag |-> TagFor(n), order |-> orderId + n - 1,
             kind |-> s[n].kind, waits |-> waits, ready |-> none, hold |-> 0]
    BY <1>4
  <2>2. none \in BOOLEAN
    OBVIOUS
  <2> HIDE DEF waits, none
  <2>3. e.ready <=> none
    BY <2>1, <2>2
  <2> QED
    BY <2>3 DEF none, waits
<1> QED
  BY <1>5, <1>6, <1>7, <1>8, <1>9

LEMMA RemainsIs ==
  ASSUME EntryInv, NEW i \in IqSlots, NEW in, Remains(i, in)
  PROVE  /\ iq'[i] \in Entries /\ iq'[i].valid /\ iq'[i].order = iq[i].order
         /\ iq'[i].issued <=> iq[i].issued \/ i \in Selected(in)
         /\ ~iq[i].issued => iq'[i].waits = iq[i].waits \ Wakes(iq[i], in)
         /\ ~iq[i].issued => (iq'[i].ready <=> iq'[i].waits = {})
<1> DEFINE b == i \in Selected(in)
           e == iq[i]
           r == [Woken(e, in) EXCEPT !.issued = @ \/ b]
<1>1. e \in Entries /\ e.valid /\ b \in BOOLEAN
  BY DEF EntryInv, Remains
<1>2. iq'[i] = r
  BY DEF Remains
<1> HIDE DEF b, e
<1>3. /\ r \in Entries /\ r.valid /\ r.order = e.order /\ (r.issued <=> e.issued \/ b)
      /\ ~e.issued => r.waits = e.waits \ Wakes(e, in)
      /\ ~e.issued => (r.ready <=> r.waits = {})
  BY <1>1, WokenIs
<1> HIDE DEF r
<1> QED
  BY <1>2, <1>3 DEF b, e

\* An entry keeps only waits whose producers have yet to write.
LEMMA OldWaits ==
  ASSUME FlightInv, TagInv, EntryInv, NEW f, NEW in, NEW s, NEW wb, NEW early,
         Cycle(f, in, s, wb, early), NEW i \in IqSlots, Remains(i, in), ~iq[i].issued,
         NEW w \in iq'[i].waits
  PROVE  /\ w.order < iq[i].order
         /\ \E y \in flight' : TagOf(y) = w /\ y.stage # "written" /\ y.ins.rd # 0
<1>1. Queueing(i) /\ w \in iq[i].waits /\ w \notin in.wb
  <2>1. iq'[i].waits = iq[i].waits \ Wakes(iq[i], in)
    BY RemainsIs
  <2> QED
    BY <2>1 DEF Remains, Queueing, Wakes
<1>2. PICK x \in flight : TagOf(x) = w /\ x.stage # "written" /\ x.ins.rd # 0
  BY <1>1 DEF EntryInv
<1>3. w.order < iq[i].order /\ iq[i].order \in Nat
  BY <1>1 DEF EntryInv, Entries
<1>4. x.order = w.order /\ x.order \in Nat
  BY <1>2 DEF TagOf, FlightInv, Flights
<1>5. x \notin wb
  <2> SUFFICES ASSUME x \in wb PROVE FALSE
    OBVIOUS
  <2>1. TagOf(x) \in in.wb
    BY <1>2 DEF Cycle
  <2> QED
    BY <1>1, <1>2, <2>1
<1>6. ~FlushKills(f, x.order)
  <2>1. ~FlushKills(f, iq[i].order) /\ f.order \in Nat
    BY DEF Cycle, Remains
  <2> QED
    BY <1>3, <1>4, <2>1 DEF FlushKills
<1>7. x \notin CommitsNow(f, wb)
  BY <1>2, <1>5 DEF CommitsNow
<1>8. PICK y \in flight' : Kept(x, y, f, in, wb, early)
  BY <1>6, <1>7, StayersAreKept
<1>9. TagOf(y) = w /\ y.stage # "written" /\ y.ins.rd # 0
  BY <1>2, <1>5, <1>8 DEF Kept, TagOf
<1> QED
  BY <1>3, <1>9

\* What an entry has waited for and waits no longer is done.
LEMMA OldCover ==
  ASSUME FlightInv, TagInv, EntryInv, NEW f, NEW in, NEW s, NEW wb, NEW early,
         Cycle(f, in, s, wb, early), NEW i \in IqSlots, Remains(i, in), ~iq[i].issued,
         NEW x \in flight, x.order = iq[i].order,
         NEW p \in flight, NEW q, Kept(p, q, f, in, wb, early), p.order \in x.needs
  PROVE  Done(q) \/ TagOf(q) \in iq'[i].waits
<1>1. Queueing(i) /\ iq'[i].waits = iq[i].waits \ Wakes(iq[i], in)
  BY RemainsIs DEF Remains, Queueing
<1>2. Done(p) \/ TagOf(p) \in iq[i].waits
  BY <1>1 DEF EntryInv
<1>3. TagOf(q) = TagOf(p)
  BY DEF Kept, TagOf
<1>4. CASE Done(p)
  BY <1>4, DoneStays
<1>5. CASE TagOf(p) \in Wakes(iq[i], in)
  <2>1. TagOf(p).tag = p.tag
    BY DEF TagOf
  <2>2. (\E v \in in.wb : v.tag = p.tag) \/ p.tag \in in.early
    BY <1>5, <2>1 DEF Wakes
  <2> QED
    BY <2>2, AnnouncedIsDone
<1>6. CASE TagOf(p) \in iq[i].waits /\ TagOf(p) \notin Wakes(iq[i], in)
  BY <1>1, <1>3, <1>6
<1> QED
  BY <1>2, <1>4, <1>5, <1>6

\* An entry that has not been issued keeps what EntryInv says of it.
EntryIs(i) ==
  /\ iq[i].ready <=> iq[i].waits = {}
  /\ \A w \in iq[i].waits :
       /\ w.order < iq[i].order
       /\ \E x \in flight : TagOf(x) = w /\ x.stage # "written" /\ x.ins.rd # 0
  /\ \A x \in flight : x.order = iq[i].order =>
       /\ x.stage = "waiting"
       /\ \A p \in flight :
            p.order \in x.needs => Done(p) \/ TagOf(p) \in iq[i].waits

LEMMA FilledEntry ==
  ASSUME FlightInv, TagInv, TableInv, EntryInv,
         NEW f, NEW in, NEW s, NEW wb, NEW early,
         Cycle(f, in, s, wb, early), NEW i \in IqSlots, Filled(i, s, in)
  PROVE  EntryIs(i)'
<1>1. PICK k \in DOMAIN in.disp : iq'[i] = Queued(Input(s, At(s, in, k), in))
  BY DEF Filled
<1>2. PICK n, e : n = At(s, in, k) /\ e = Queued(Input(s, n, in)) /\ e = iq'[i]
  BY <1>1
<1>3. /\ n \in DOMAIN s /\ s[n].kind \in HeldKinds /\ e.order = orderId + n - 1
      /\ e.waits = SourcesOf(s, n, in) /\ (e.ready <=> e.waits = {})
  <2>1. n \in DOMAIN s /\ s[n].kind \in HeldKinds
    BY <1>2, DispIs
  <2>2. e = Queued(Input(s, n, in))
    BY <1>2
  <2> QED
    BY <2>1, <2>2, FilledIs
<1>4. ASSUME NEW w \in e.waits
      PROVE  /\ w.order < e.order
             /\ \E x \in flight' : TagOf(x) = w /\ x.stage # "written" /\ x.ins.rd # 0
  BY <1>3, NewWaits
<1>5. ASSUME NEW x \in flight', x.order = e.order
      PROVE  /\ x.stage = "waiting"
             /\ \A p \in flight' : p.order \in x.needs => Done(p) \/ TagOf(p) \in e.waits
  <2>1. Entrant(s, n) \in flight' /\ Entrant(s, n).order = e.order
    BY <1>3, EntrantIs
  <2>2. x = Entrant(s, n)
    BY <1>5, <2>1, FlightStep DEF FlightInv
  <2>3. x.stage = "waiting"
    BY <1>3, <2>2, EntrantsAreTyped DEF Cycle
  <2>4. ASSUME NEW p \in flight', p.order \in x.needs
        PROVE  Done(p) \/ TagOf(p) \in e.waits
    BY <1>3, <2>2, <2>4, NewCover
  <2> QED
    BY <2>3, <2>4
<1>6. /\ iq'[i].ready <=> iq'[i].waits = {}
      /\ \A w \in iq'[i].waits :
           /\ w.order < iq'[i].order
           /\ \E x \in flight' : TagOf(x) = w /\ x.stage # "written" /\ x.ins.rd # 0
      /\ \A x \in flight' : x.order = iq'[i].order =>
           /\ x.stage = "waiting"
           /\ \A p \in flight' :
                p.order \in x.needs => Done(p) \/ TagOf(p) \in iq'[i].waits
  BY <1>2, <1>3, <1>4, <1>5
<1> QED
  BY <1>6 DEF EntryIs, Done, TagOf

LEMMA RemainingEntry ==
  ASSUME FlightInv, TagInv, EntryInv,
         NEW f, NEW in, NEW s, NEW wb, NEW early,
         Cycle(f, in, s, wb, early), NEW i \in IqSlots, Remains(i, in), ~iq'[i].issued
  PROVE  EntryIs(i)'
<1>1. /\ ~iq[i].issued /\ i \notin Selected(in) /\ iq'[i].order = iq[i].order
      /\ iq'[i].ready <=> iq'[i].waits = {}
  BY RemainsIs
<1>2. /\ Queueing(i) /\ iq[i].valid /\ iq[i].order < orderId
      /\ iq[i].order \in Nat /\ orderId \in Nat
  BY <1>1 DEF Remains, Queueing, EntryInv, Entries, FlightInv
<1>3. ASSUME NEW w \in iq'[i].waits
      PROVE  /\ w.order < iq'[i].order
             /\ \E x \in flight' : TagOf(x) = w /\ x.stage # "written" /\ x.ins.rd # 0
  BY <1>1, OldWaits
<1>4. ASSUME NEW y \in flight', y.order <= iq[i].order
      PROVE  \E x \in flight : Kept(x, y, f, in, wb, early)
  <2>1. TagOf(y).order = y.order /\ y.order \in Nat
    BY FlightStep DEF TagOf, FlightInv, Flights
  <2>2. TagOf(y).order < orderId
    BY <1>2, <1>4, <2>1
  <2> QED
    BY <2>2, SameTag
<1>5. ASSUME NEW y \in flight', y.order = iq'[i].order
      PROVE  /\ y.stage = "waiting"
             /\ \A q \in flight' : q.order \in y.needs => Done(q) \/ TagOf(q) \in iq'[i].waits
  <2>1. PICK x \in flight : Kept(x, y, f, in, wb, early)
    BY <1>1, <1>2, <1>4, <1>5
  <2>2. x.order = iq[i].order /\ x.stage = "waiting" /\ x.needs = y.needs
    <3>1. x.order = iq[i].order /\ x.needs = y.needs
      BY <1>1, <1>5, <2>1 DEF Kept
    <3> QED
      BY <1>2, <3>1 DEF EntryInv
  <2>3. x.order \notin Issuing(in)
    <3> SUFFICES ASSUME NEW j \in Selected(in), iq[j].order = iq[i].order PROVE FALSE
      BY <2>2 DEF Issuing
    <3>1. j \in IqSlots /\ iq[j].valid
      BY DEF Selected, Eligible
    <3>2. j = i
      BY <1>2, <3>1 DEF EntryInv
    <3> QED
      BY <1>1, <3>2
  <2>4. y.stage = "waiting"
    BY <2>1, <2>2, <2>3 DEF Kept
  <2>5. ASSUME NEW q \in flight', q.order \in y.needs
        PROVE  Done(q) \/ TagOf(q) \in iq'[i].waits
    <3>1. q.order < iq[i].order /\ q.order \in Nat
      <4>1. q.order < x.order
        BY <2>2, <2>5 DEF FlightInv
      <4>2. q.order \in Nat
        BY FlightStep DEF FlightInv, Flights
      <4> QED
        BY <2>2, <4>1, <4>2
    <3>2. q.order <= iq[i].order
      BY <1>2, <3>1
    <3>3. PICK p \in flight : Kept(p, q, f, in, wb, early)
      BY <1>4, <3>2
    <3>4. p.order \in x.needs
      BY <2>2, <2>5, <3>3 DEF Kept
    <3> QED
      BY <1>1, <2>2, <3>3, <3>4, OldCover
  <2> QED
    BY <2>4, <2>5
<1>6. /\ iq'[i].ready <=> iq'[i].waits = {}
      /\ \A w \in iq'[i].waits :
           /\ w.order < iq'[i].order
           /\ \E x \in flight' : TagOf(x) = w /\ x.stage # "written" /\ x.ins.rd # 0
      /\ \A x \in flight' : x.order = iq'[i].order =>
           /\ x.stage = "waiting"
           /\ \A p \in flight' :
                p.order \in x.needs => Done(p) \/ TagOf(p) \in iq'[i].waits
  BY <1>1, <1>3, <1>5
<1> QED
  BY <1>6 DEF EntryIs, Done, TagOf

LEMMA EntryTyped ==
  ASSUME FlightInv, TagInv, TableInv, EntryInv,
         NEW f, NEW in, NEW s, NEW wb, NEW early,
         Cycle(f, in, s, wb, early), NEW i \in IqSlots
  PROVE  /\ iq'[i] \in Entries
         /\ iq'[i].valid =>
              \/ iq'[i].order = iq[i].order /\ Remains(i, in)
              \/ \E k \in DOMAIN in.disp :
                   /\ SlotFor(k) = i
                   /\ iq'[i].order = orderId + At(s, in, k) - 1
<1>1. FreeEntry \in Entries /\ ~FreeEntry.valid
  <2>1. 0 \in 0 .. NumTags /\ 0 \in 0 .. MaxOrder /\ 0 \in 0 .. WakeHoldCycles
    BY Sizes
  <2> QED
    BY <2>1 DEF FreeEntry, Entries, Kinds
<1>2. CASE Filled(i, s, in)
  <2>1. PICK k \in DOMAIN in.disp :
          SlotFor(k) = i /\ iq'[i] = Queued(Input(s, At(s, in, k), in))
    BY <1>2 DEF Filled
  <2>2. PICK n : n = At(s, in, k)
    OBVIOUS
  <2>3. n \in DOMAIN s /\ iq'[i] = Queued(Input(s, n, in))
    BY <2>1, <2>2, DispIs
  <2>4. iq'[i] \in Entries /\ iq'[i].order = orderId + n - 1
    <3>1. PICK e : e = iq'[i]
      OBVIOUS
    <3>2. e = Queued(Input(s, n, in))
      BY <2>3, <3>1
    <3>3. e \in Entries /\ e.order = orderId + n - 1
      BY <2>3, <3>2, FilledIs
    <3> QED
      BY <3>1, <3>3
  <2> QED
    BY <2>1, <2>2, <2>4
<1>3. CASE Empty(i)
  BY <1>3 DEF Empty, EntryInv
<1>4. CASE Dropped(i)
  BY <1>1, <1>4 DEF Dropped
<1>5. CASE Remains(i, in)
  BY <1>5, RemainsIs
<1> QED
  BY <1>2, <1>3, <1>4, <1>5, SlotIs

LEMMA EntryStep ==
  ASSUME FlightInv, TagInv, TableInv, EntryInv,
         NEW f, NEW in, NEW s, NEW wb, NEW early,
         Cycle(f, in, s, wb, early)
  PROVE  EntryInv'
<1>1. iq' \in [IqSlots -> Entries]
  <2>1. iq' = [i \in IqSlots |-> iq'[i]]
    BY DEF Cycle, IqCycle
  <2> QED
    BY <2>1, EntryTyped
<1>2. ASSUME NEW i \in IqSlots, Remains(i, in)
      PROVE  iq[i].valid /\ iq[i].order < orderId /\ iq[i].order \in Nat /\ orderId \in Nat
  BY <1>2 DEF Remains, EntryInv, Entries, FlightInv
<1>3. ASSUME NEW k \in DOMAIN in.disp
      PROVE  /\ At(s, in, k) \in 1 .. 2
             /\ orderId + At(s, in, k) - 1 < orderId'
             /\ orderId + At(s, in, k) - 1 >= orderId /\ orderId + At(s, in, k) - 1 \in Nat
  <2>1. At(s, in, k) \in DOMAIN s
    BY DispIs
  <2> QED
    BY <2>1, EntrantIs
<1>4. orderId' \in Nat /\ orderId \in Nat /\ orderId <= orderId'
  <2>1. orderId' = orderId + Len(s) /\ Len(s) \in Nat /\ orderId \in Nat
    BY PairIs DEF Cycle, FlightInv
  <2> QED
    BY <2>1
<1>5. ASSUME NEW i \in IqSlots, iq'[i].valid PROVE iq'[i].order < orderId'
  <2>1. CASE iq'[i].order = iq[i].order /\ Remains(i, in)
    BY <1>2, <1>4, <2>1
  <2>2. CASE \E k \in DOMAIN in.disp : iq'[i].order = orderId + At(s, in, k) - 1
    BY <1>3, <2>2
  <2> QED
    BY <1>5, <2>1, <2>2, EntryTyped
<1>6. ASSUME NEW i \in IqSlots, NEW j \in IqSlots,
             iq'[i].valid, iq'[j].valid, iq'[i].order = iq'[j].order
      PROVE  i = j
  <2>1. CASE /\ iq'[i].order = iq[i].order /\ Remains(i, in)
             /\ iq'[j].order = iq[j].order /\ Remains(j, in)
    BY <1>2, <1>6, <2>1 DEF EntryInv
  <2>2. CASE /\ \E k \in DOMAIN in.disp :
                  SlotFor(k) = i /\ iq'[i].order = orderId + At(s, in, k) - 1
             /\ \E k \in DOMAIN in.disp :
                  SlotFor(k) = j /\ iq'[j].order = orderId + At(s, in, k) - 1
    <3>1. PICK k \in DOMAIN in.disp :
            SlotFor(k) = i /\ iq'[i].order = orderId + At(s, in, k) - 1
      BY <2>2
    <3>2. PICK l \in DOMAIN in.disp :
            SlotFor(l) = j /\ iq'[j].order = orderId + At(s, in, l) - 1
      BY <2>2
    <3>3. At(s, in, k) \in Int /\ At(s, in, l) \in Int
      BY <1>3
    <3>4. At(s, in, k) = At(s, in, l)
      <4>1. orderId + At(s, in, k) - 1 = orderId + At(s, in, l) - 1
        BY <1>6, <3>1, <3>2
      <4> QED
        BY <1>4, <3>3, <4>1
    <3>5. k = l
      BY <3>4, DispIs
    <3> QED
      BY <3>1, <3>2, <3>5
  <2>3. ASSUME NEW u \in IqSlots, Remains(u, in), NEW k \in DOMAIN in.disp
        PROVE  iq[u].order # orderId + At(s, in, k) - 1
    BY <1>2, <1>3, <2>3
  <2>4. /\ \/ iq'[i].order = iq[i].order /\ Remains(i, in)
           \/ \E k \in DOMAIN in.disp :
                SlotFor(k) = i /\ iq'[i].order = orderId + At(s, in, k) - 1
        /\ \/ iq'[j].order = iq[j].order /\ Remains(j, in)
           \/ \E k \in DOMAIN in.disp :
                SlotFor(k) = j /\ iq'[j].order = orderId + At(s, in, k) - 1
    BY <1>6, EntryTyped
  <2> QED
    BY <1>6, <2>1, <2>2, <2>3, <2>4
<1>7. ASSUME NEW i \in IqSlots, iq'[i].valid, ~iq'[i].issued PROVE EntryIs(i)'
  <2>1. CASE Filled(i, s, in)
    BY <2>1, FilledEntry
  <2>2. CASE Remains(i, in)
    BY <1>7, <2>2, RemainingEntry
  <2>3. CASE Empty(i) \/ Dropped(i)
    BY <1>7, <2>3 DEF Empty, Dropped, FreeEntry
  <2> QED
    BY <2>1, <2>2, <2>3, SlotIs
<1>8. \A i \in IqSlots : (iq'[i].valid /\ ~iq'[i].issued) => EntryIs(i)'
  BY <1>7
<1> QED
  BY <1>1, <1>5, <1>6, <1>8 DEF EntryInv, EntryIs, Queueing, Entries, IqSlots, Waits, Done, TagOf

LEMMA OperandsStep ==
  ASSUME FlightInv, TagInv, TableInv, EntryInv, OperandsReady,
         NEW f, NEW in, NEW s, NEW wb, NEW early,
         Cycle(f, in, s, wb, early)
  PROVE  OperandsReady'
<1> SUFFICES ASSUME NEW x \in flight', x.ins.kind \in HeldKinds, x.stage # "waiting",
                    NEW p \in flight', p.order \in x.needs
             PROVE  Done(p)
  BY DEF OperandsReady, Done
<1>1. ASSUME NEW n \in DOMAIN s, x = Entrant(s, n) PROVE FALSE
  <2>1. x.ins = s[n] /\ x.stage = (IF s[n].kind \in HeldKinds THEN "waiting" ELSE "issued")
    BY <1>1, EntrantsAreTyped DEF Cycle
  <2> QED
    BY <2>1
<1>2. PICK u \in flight : Kept(u, x, f, in, wb, early)
  BY <1>1, NextIs
<1>3. /\ u.order = x.order /\ u.needs = x.needs /\ u.ins = x.ins
      /\ u.order \in Nat /\ u.order < orderId /\ orderId \in Nat
  BY <1>2 DEF Kept, FlightInv, Flights
<1>4. p.order \in Nat /\ p.order < x.order
  BY FlightStep DEF FlightInv, Flights
<1>5. TagOf(p).order < orderId
  <2>1. TagOf(p).order = p.order
    BY DEF TagOf
  <2> QED
    BY <1>3, <1>4, <2>1
<1>6. PICK v \in flight : Kept(v, p, f, in, wb, early)
  BY <1>5, SameTag
<1>7. v.order \in u.needs
  BY <1>3, <1>6 DEF Kept
<1>8. Done(v)
  <2>1. CASE u.stage # "waiting"
    BY <1>3, <1>7, <2>1 DEF OperandsReady, Done
  <2>2. CASE u.stage = "waiting"
    <3>1. u.order \in Issuing(in)
      BY <1>2, <2>2 DEF Kept
    <3>2. PICK i \in Selected(in) : Queueing(i) /\ iq[i].order = u.order /\ iq[i].waits = {}
      BY <3>1, IssuingWaits
    <3>3. i \in IqSlots
      BY DEF Selected
    <3> QED
      BY <1>7, <3>2, <3>3 DEF EntryInv
  <2> QED
    BY <2>1, <2>2
<1> QED
  BY <1>6, <1>8, DoneStays

-----------------------------------------------------------------------------
\* The ring of stores, stage by stage.

Rings == [mem : [IqSlots -> RingPlaces], head : IqSlots, tail : IqSlots,
          count : 0 .. StoreCountMod - 1, oldest : Nat]

LEMMA RingFacts ==
  /\ 0 \in IqSlots /\ 0 \in 0 .. StoreCountMod - 1
  /\ \A p \in IqSlots : RingInc(p) \in IqSlots
  /\ \A c \in 0 .. StoreCountMod - 1 :
       /\ (c - 1) % StoreCountMod \in 0 .. StoreCountMod - 1
       /\ (c + 1) % StoreCountMod \in 0 .. StoreCountMod - 1
<1>1. 0 \in IqSlots /\ 0 \in 0 .. StoreCountMod - 1
  BY Sizes DEF IqSlots
<1>2. ASSUME NEW p \in IqSlots PROVE RingInc(p) \in IqSlots
  BY Sizes DEF IqSlots, RingInc
<1>3. StoreCountMod \in Nat /\ StoreCountMod > 0
  BY Sizes
<1>4. ASSUME NEW c \in Int PROVE c % StoreCountMod \in 0 .. StoreCountMod - 1
  BY <1>3
<1> QED
  BY <1>1, <1>2, <1>3, <1>4

LEMMA PoppedTyped ==
  ASSUME NEW r \in Rings PROVE Popped(r) \in Rings
<1>1. CASE r.count = 1
  BY <1>1, RingFacts DEF Popped, Rings
<1>2. CASE r.count # 1
  <2>1. Popped(r) = [r EXCEPT !.head = RingInc(r.head),
                              !.count = (r.count - 1) % StoreCountMod]
    BY <1>2 DEF Popped, Rings
  <2>2. RingInc(r.head) \in IqSlots
    BY RingFacts DEF Rings
  <2>3. (r.count - 1) % StoreCountMod \in 0 .. StoreCountMod - 1
    BY RingFacts DEF Rings
  <2> QED
    BY <2>1, <2>2, <2>3 DEF Rings
<1> QED
  BY <1>1, <1>2

LEMMA PushedTyped ==
  ASSUME NEW r \in Rings, NEW slot \in IqSlots, NEW order \in Nat
  PROVE  Pushed(r, slot, order) \in Rings
<1> DEFINE p == IF r.count = 0 THEN 0 ELSE RingInc(r.tail)
           head == IF r.count = 0 THEN p ELSE r.head
           count == (r.count + 1) % StoreCountMod
           mem == [r.mem EXCEPT ![p] = [slot |-> slot, order |-> order]]
<1>1. p \in IqSlots /\ head \in IqSlots
  BY RingFacts DEF Rings
<1>2. count \in 0 .. StoreCountMod - 1
  BY RingFacts DEF Rings
<1>3. mem \in [IqSlots -> RingPlaces]
  BY DEF Rings, RingPlaces
<1>4. Pushed(r, slot, order) =
        [r EXCEPT !.mem = mem, !.head = head, !.tail = p, !.count = count]
  BY DEF Pushed, Rings
<1> HIDE DEF p, head, count, mem
<1> QED
  BY <1>1, <1>2, <1>3, <1>4 DEF Rings

LEMMA EnteredTyped ==
  ASSUME FlightInv, NEW f, NEW in, NEW s, NEW wb, NEW early,
         Cycle(f, in, s, wb, early), NEW r \in Rings, NEW n \in 1 .. 2
  PROVE  Entered(r, n, in) \in Rings
<1>1. CASE n \in DOMAIN in.disp /\ Cardinality(FreeSlots) >= n
  <2>1. SlotFor(n) \in IqSlots
    <3>1. IsFiniteSet(FreeSlots)
      <4>1. IsFiniteSet(IqSlots)
        BY Sizes, FS_Interval DEF IqSlots
      <4> QED
        BY <4>1, FS_Subset DEF FreeSlots
    <3>2. Cardinality(FreeSlots) \in Nat
      BY <3>1, FS_CardinalityType
    <3>3. n <= Cardinality(FreeSlots)
      BY <1>1, <3>2
    <3> QED
      BY <3>3, SlotsAreFree DEF FreeSlots
  <2>2. in.disp[n].order \in Nat
    <3>1. At(s, in, n) \in DOMAIN s /\ in.disp[n] = Input(s, At(s, in, n), in)
      BY <1>1, DispIs
    <3>2. Input(s, At(s, in, n), in).order = orderId + At(s, in, n) - 1
      BY DEF Input
    <3> QED
      BY <3>1, <3>2, EntrantIs
  <2> QED
    BY <2>1, <2>2, PushedTyped DEF Entered
<1>2. CASE ~(n \in DOMAIN in.disp /\ Cardinality(FreeSlots) >= n)
  BY <1>2 DEF Entered
<1> QED
  BY <1>1, <1>2

LEMMA RingStep ==
  ASSUME FlightInv, RingInv, NEW f, NEW in, NEW s, NEW wb, NEW early,
         Cycle(f, in, s, wb, early)
  PROVE  RingInv'
<1> DEFINE r0 == RingNow
           r1 == Emptied(r0, in)
           r2 == Cleaned(r1, in)
           r3 == Released(r2, in)
           r4 == Entered(r3, 1, in)
           r5 == Entered(r4, 2, in)
           oldest == IF r5.count = 0 THEN 0 ELSE r5.mem[r5.head].order
           r6 == [r5 EXCEPT !.oldest = oldest]
<1>1. r0 \in Rings
  BY DEF RingNow, Rings, RingInv
<1>2. r1 \in Rings
  BY <1>1, RingFacts DEF Emptied, Empties, Rings
<1> HIDE DEF r0, r1
<1>3. r2 \in Rings
  <2>1. r2 = r1 \/ r2 = Popped(r1)
    BY DEF Cleaned
  <2> QED
    BY <1>2, <2>1, PoppedTyped
<1> HIDE DEF r2
<1>4. r3 \in Rings
  <2>1. r3 = r2 \/ r3 = Popped(r2)
    BY DEF Released
  <2> QED
    BY <1>3, <2>1, PoppedTyped
<1> HIDE DEF r3
<1>5. r4 \in Rings
  BY <1>4, EnteredTyped
<1> HIDE DEF r4
<1>6. r5 \in Rings
  BY <1>5, EnteredTyped
<1>7. RingNext(in) = r6
  BY DEF RingNext, RingLeft, r0, r1, r2, r3, r4
<1> HIDE DEF r5
<1>8. oldest \in Nat
  BY <1>6 DEF Rings, RingPlaces
<1> HIDE DEF oldest
<1>9. r6 \in Rings
  BY <1>6, <1>8 DEF Rings
<1> HIDE DEF r6
<1>10. /\ ring' = r6.mem /\ ringHead' = r6.head /\ ringTail' = r6.tail
       /\ ringCount' = r6.count /\ ringOldest' = r6.oldest
  BY <1>7 DEF Cycle, IqCycle
<1> QED
  BY <1>9, <1>10 DEF RingInv, Rings, RingPlaces, IqSlots

-----------------------------------------------------------------------------
\* The invariant holds from reset and through every cycle, with or without a
\* trap.

LEMMA InitHolds == SchedInit => SchedInv
<1> SUFFICES ASSUME SchedInit PROVE SchedInv
  OBVIOUS
<1>1. /\ 0 \in 0 .. NumTags /\ 0 \in 0 .. MaxOrder /\ 0 \in 0 .. WakeHoldCycles
      /\ 0 \in IqSlots /\ 0 \in 0 .. StoreCountMod - 1
  BY Sizes DEF IqSlots
<1>2. flight = {} /\ committing = {} /\ resolved = {} /\ orderId = 0
  BY DEF SchedInit
<1>3. FlightInv
  BY <1>1, <1>2 DEF FlightInv
<1>4. FreeTag \in TagEntries /\ ~FreeTag.live
  BY DEF FreeTag, TagEntries
<1>5. tags \in [Tags -> TagEntries] /\ \A t \in Tags : ~tags[t].live
  BY <1>4 DEF SchedInit
<1>6. TagInv
  BY <1>2, <1>5 DEF TagInv, TagsNameOne
<1>7. result \in [Regs -> {NoProducer}]
  BY DEF SchedInit
<1>8. TableInv
  BY <1>2, <1>7 DEF TableInv
<1>9. FreeEntry \in Entries /\ ~FreeEntry.valid
  BY <1>1 DEF FreeEntry, Entries, Kinds
<1>10. iq \in [IqSlots -> Entries] /\ \A i \in IqSlots : ~iq[i].valid
  BY <1>9 DEF SchedInit, IqInit
<1>11. EntryInv
  BY <1>2, <1>10 DEF EntryInv, Queueing
<1>12. RingInv
  BY <1>1 DEF RingInv, RingPlaces, SchedInit, IqInit
<1>13. OperandsReady
  BY <1>2 DEF OperandsReady
<1> QED
  BY <1>3, <1>6, <1>8, <1>11, <1>12, <1>13 DEF SchedInv, SchedInit

LEMMA NextHolds ==
  ASSUME SchedInv, NEW trap \in BOOLEAN, NEW inhibit \in BOOLEAN,
         NEW wb \in WriteBackSets, NEW early \in Announcements,
         SchedCycle(wb, early, trap, inhibit)
  PROVE  SchedInv'
<1>1. FlightInv /\ TagInv /\ TableInv /\ EntryInv /\ RingInv /\ OperandsReady
  BY DEF SchedInv
<1>2. PICK f, in, s : Cycle(f, in, s, wb, early)
  BY <1>1, CycleIs
<1>3. FlightInv'
  BY <1>1, <1>2, FlightStep
<1>4. TagInv'
  BY <1>1, <1>2, TagStep
<1>5. TableInv'
  BY <1>1, <1>2, TableStep
<1>6. EntryInv'
  BY <1>1, <1>2, EntryStep
<1>7. RingInv'
  BY <1>1, <1>2, RingStep
<1>8. OperandsReady'
  BY <1>1, <1>2, OperandsStep
<1>9. overfilled' \in BOOLEAN
  BY <1>2 DEF Cycle
<1> QED
  BY <1>3, <1>4, <1>5, <1>6, <1>7, <1>8, <1>9 DEF SchedInv

LEMMA StutterHolds == SchedInv /\ UNCHANGED schedVars => SchedInv'
<1> SUFFICES ASSUME SchedInv, UNCHANGED schedVars PROVE SchedInv'
  OBVIOUS
<1>1. /\ iq' = iq /\ ring' = ring /\ ringHead' = ringHead /\ ringTail' = ringTail
      /\ ringCount' = ringCount /\ ringOldest' = ringOldest
      /\ tags' = tags /\ result' = result /\ flight' = flight
      /\ committing' = committing /\ resolved' = resolved /\ orderId' = orderId
      /\ overfilled' = overfilled
  BY DEF schedVars, iqVars
<1>2. FlightInv'
  BY <1>1 DEF SchedInv, FlightInv
<1>3. TagInv'
  BY <1>1 DEF SchedInv, TagInv, TagsNameOne
<1>4. TableInv'
  BY <1>1 DEF SchedInv, TableInv, YoungestWriter
<1>5. EntryInv'
  BY <1>1 DEF SchedInv, EntryInv, Queueing
<1>6. RingInv'
  BY <1>1 DEF SchedInv, RingInv
<1>7. OperandsReady'
  BY <1>1 DEF SchedInv, OperandsReady
<1> QED
  BY <1>1, <1>2, <1>3, <1>4, <1>5, <1>6, <1>7 DEF SchedInv

\* The invariant of dispatch_unit.v and issue_queue.v together: instructions in
\* flight, pool of tags, table of producers, entries of the queue and ring of
\* stores agree after every cycle.
THEOREM SchedInvariant == SchedSpec => []SchedInv
<1>1. ASSUME SchedInv, Step PROVE SchedInv'
  <2>1. PICK wb \in WriteBackSets, early \in Announcements, inhibit \in BOOLEAN :
          SchedCycle(wb, early, FALSE, inhibit)
    BY <1>1 DEF Step
  <2> QED
    BY <1>1, <2>1, NextHolds
<1>2. ASSUME SchedInv, Trap PROVE SchedInv'
  <2>1. PICK wb \in WriteBackSets, inhibit \in BOOLEAN : SchedCycle(wb, {}, TRUE, inhibit)
    BY <1>2 DEF Trap
  <2>2. {} \in Announcements
    BY DEF Announcements
  <2> QED
    BY <1>2, <2>1, <2>2, NextHolds
<1>3. SchedInv /\ [SchedNext]_schedVars => SchedInv'
  BY <1>1, <1>2, StutterHolds DEF SchedNext
<1> QED
  BY <1>3, InitHolds, PTL DEF SchedSpec

\* The fields of the queue's entries, the ring and the table keep their ranges
\* (issue_queue.v's e_tag, e_order_id, e_wake_hold, store_count_r;
\* dispatch_unit.v's reg_result).
THEOREM SchedTypes == SchedSpec => []SchedTypeOK
<1>1. SchedInv => SchedTypeOK
  <2> SUFFICES ASSUME SchedInv PROVE SchedTypeOK
    OBVIOUS
  <2>1. EntryInv /\ RingInv /\ TableInv
    BY DEF SchedInv
  <2>2. \A i \in IqSlots :
          /\ iq[i].tag \in 0 .. NumTags /\ iq[i].order \in 0 .. MaxOrder
          /\ iq[i].waits \subseteq Waits /\ iq[i].hold \in 0 .. WakeHoldCycles
    BY <2>1 DEF EntryInv, Entries
  <2>3. \A k \in IqSlots : ring[k].slot \in IqSlots /\ ring[k].order \in Nat
    BY <2>1 DEF RingInv, RingPlaces
  <2>4. \A r \in Regs : result[r] = NoProducer \/ result[r] \in Waits
    BY <2>1 DEF TableInv
  <2> QED
    BY <2>1, <2>2, <2>3, <2>4 DEF SchedTypeOK, RingInv, SchedInv
<1> QED
  BY <1>1, SchedInvariant, PTL

\* A tag of dispatch_unit.v's pool names one instruction, and none leaks: a tag
\* is live exactly while its instruction is in flight or on the commit port.
THEOREM TagsNameOneInstruction == SchedSpec => []TagsNameOne
<1>1. SchedInv => TagsNameOne
  BY DEF SchedInv, TagInv
<1> QED
  BY <1>1, SchedInvariant, PTL

\* No entry of issue_queue.v waits for a result that has been written back or
\* whose producer is gone.
THEOREM NoWakeupIsLost == SchedSpec => []NoLostWakeup
<1>1. SchedInv => NoLostWakeup
  BY DEF SchedInv, EntryInv, NoLostWakeup, Queueing
<1> QED
  BY <1>1, SchedInvariant, PTL

\* An instruction leaves the queue only when its operands are there, or when
\* dispatch_unit.v's reg_result had forgotten the producer behind a cancelled
\* writer.
THEOREM OperandsAreReady == SchedSpec => []OperandsReady
<1>1. SchedInv => OperandsReady
  BY DEF SchedInv
<1> QED
  BY <1>1, SchedInvariant, PTL

-----------------------------------------------------------------------------
\* The ring of stores is a queue of the stores in flight, oldest first.

\* The j-th place behind h.
Place(h, j) == IF h + j < IqDepth THEN h + j ELSE h + j - IqDepth

\* The records of ring r are ordered, and older than bound.
Fifo(r, bound) ==
  /\ r.count \in 0 .. IqDepth
  /\ r.count # 0 => r.tail = Place(r.head, r.count - 1)
  /\ \A j \in 0 .. r.count - 1 :
       /\ r.mem[Place(r.head, j)].order < bound
       /\ \A k \in 0 .. j - 1 :
            r.mem[Place(r.head, k)].order < r.mem[Place(r.head, j)].order

Holds(r, m) == \E j \in 0 .. r.count - 1 : r.mem[Place(r.head, j)] = m

\* Every store in flight is in the ring, with the slot it has in the queue, and
\* the queue has the kind of each instruction right.
StoreInv ==
  /\ Fifo(RingNow, orderId)
  /\ ringCount # 0 => ringOldest = ring[ringHead].order
  /\ \A x \in flight : x.ins.kind = "store" =>
       \E i \in IqSlots : /\ iq[i].valid /\ iq[i].order = x.order
                          /\ Holds(RingNow, [slot |-> i, order |-> x.order])
  /\ \A x \in flight : \A i \in IqSlots :
       iq[i].valid /\ iq[i].order = x.order => iq[i].kind = x.ins.kind

\* The queue at hand is the memory queue.
OrderedMemQueue ==
  CheckLoadStoreOrder /\ {"load", "store"} \subseteq HeldKinds

LEMMA PlaceIs ==
  ASSUME NEW h \in IqSlots
  PROVE  /\ Place(h, 0) = h
         /\ \A j \in 0 .. IqDepth - 1 : Place(h, j) \in IqSlots
         /\ \A j \in 0 .. IqDepth - 2 :
              /\ RingInc(Place(h, j)) = Place(h, j + 1)
              /\ Place(RingInc(h), j) = Place(h, j + 1)
         /\ \A j, k \in 0 .. IqDepth - 1 : Place(h, j) = Place(h, k) => j = k
<1>1. IqDepth \in Nat /\ IqDepth > 1 /\ h \in Int /\ 0 <= h /\ h < IqDepth
  BY Sizes DEF IqSlots
<1> QED
  BY <1>1 DEF Place, RingInc, IqSlots

\* The head leaves, and only the head.
LEMMA PoppedIs ==
  ASSUME NEW r \in Rings, NEW b \in Nat, Fifo(r, b), r.count # 0
  PROVE  /\ Fifo(Popped(r), b) /\ Popped(r).count = r.count - 1
         /\ Popped(r).mem = r.mem
         /\ \A m : Holds(r, m) /\ m # r.mem[r.head] => Holds(Popped(r), m)
<1>1. /\ r.count \in 1 .. IqDepth /\ r.head \in IqSlots /\ r.tail \in IqSlots
      /\ IqDepth \in Nat /\ StoreCountMod \in Nat /\ StoreCountMod > IqDepth
  BY Sizes DEF Fifo, Rings
<1>2. CASE r.count = 1
  <2>1. Popped(r).count = 0 /\ Popped(r).mem = r.mem
    BY <1>2 DEF Popped, Rings
  <2>2. \A m : Holds(r, m) => m = r.mem[r.head]
    BY <1>1, <1>2, PlaceIs DEF Holds
  <2> QED
    BY <1>1, <1>2, <2>1, <2>2 DEF Fifo
<1>3. CASE r.count # 1
  <2> DEFINE p == Popped(r)
  <2>1. p = [r EXCEPT !.head = RingInc(r.head), !.count = (r.count - 1) % StoreCountMod]
    BY <1>3 DEF Popped, Rings
  <2>2. (r.count - 1) % StoreCountMod = r.count - 1
    BY <1>1
  <2>3. /\ p.count = r.count - 1 /\ p.head = RingInc(r.head)
        /\ p.mem = r.mem /\ p.tail = r.tail
    BY <2>1, <2>2 DEF Rings
  <2> HIDE DEF p
  <2>4. \A j \in 0 .. r.count - 2 : Place(p.head, j) = Place(r.head, j + 1)
    BY <1>1, <2>3, PlaceIs
  <2>5. \A j \in 0 .. r.count - 1 : p.mem[Place(r.head, j)] = r.mem[Place(r.head, j)]
    BY <2>3
  <2>6. Fifo(p, b)
    <3>1. p.tail = Place(p.head, p.count - 1)
      BY <1>1, <1>3, <2>3, <2>4 DEF Fifo
    <3>2. ASSUME NEW j \in 0 .. p.count - 1
          PROVE  /\ p.mem[Place(p.head, j)].order < b
                 /\ \A k \in 0 .. j - 1 :
                      p.mem[Place(p.head, k)].order < p.mem[Place(p.head, j)].order
      <4>1. j + 1 \in 0 .. r.count - 1 /\ \A k \in 0 .. j - 1 : k + 1 \in 0 .. (j + 1) - 1
        BY <1>1, <2>3
      <4>2. /\ r.mem[Place(r.head, j + 1)].order < b
            /\ \A k \in 0 .. j - 1 :
                 r.mem[Place(r.head, k + 1)].order < r.mem[Place(r.head, j + 1)].order
        BY <4>1 DEF Fifo
      <4>3. j \in 0 .. r.count - 2 /\ \A k \in 0 .. j - 1 : k \in 0 .. r.count - 2
        BY <1>1, <2>3
      <4> QED
        BY <2>3, <2>4, <4>2, <4>3
    <3>3. p.count \in 0 .. IqDepth
      BY <1>1, <2>3
    <3> QED
      BY <3>1, <3>2, <3>3 DEF Fifo
  <2>7. ASSUME NEW m, Holds(r, m), m # r.mem[r.head] PROVE Holds(p, m)
    <3>1. PICK j \in 0 .. r.count - 1 : r.mem[Place(r.head, j)] = m
      BY <2>7 DEF Holds
    <3>2. j # 0
      BY <1>1, <2>7, <3>1, PlaceIs
    <3>3. j - 1 \in 0 .. r.count - 2 /\ (j - 1) + 1 = j
      BY <1>1, <3>1, <3>2
    <3>4. p.mem[Place(p.head, j - 1)] = m
      BY <2>3, <2>4, <3>1, <3>3
    <3> QED
      BY <1>1, <2>3, <3>3, <3>4 DEF Holds
  <2> QED
    BY <2>3, <2>6, <2>7 DEF p
<1> QED
  BY <1>2, <1>3

\* A younger store enters behind the others.
LEMMA PushedIs ==
  ASSUME NEW r \in Rings, NEW b \in Nat, Fifo(r, b), r.count < IqDepth,
         NEW slot \in IqSlots, NEW order \in Nat, order >= b
  PROVE  /\ Fifo(Pushed(r, slot, order), order + 1)
         /\ Pushed(r, slot, order).count = r.count + 1
         /\ Holds(Pushed(r, slot, order), [slot |-> slot, order |-> order])
         /\ \A m : Holds(r, m) => Holds(Pushed(r, slot, order), m)
<1> DEFINE p == IF r.count = 0 THEN 0 ELSE RingInc(r.tail)
           head == IF r.count = 0 THEN p ELSE r.head
           new == [slot |-> slot, order |-> order]
           q == Pushed(r, slot, order)
<1>1. /\ r.count \in 0 .. IqDepth - 1 /\ r.head \in IqSlots /\ r.tail \in IqSlots
      /\ IqDepth \in Nat /\ StoreCountMod \in Nat /\ StoreCountMod > IqDepth
      /\ r.mem \in [IqSlots -> RingPlaces] /\ 0 \in IqSlots
  BY Sizes DEF Fifo, Rings, IqSlots
<1>2. (r.count + 1) % StoreCountMod = r.count + 1
  BY <1>1
<1>3. p = Place(head, r.count) /\ head \in IqSlots /\ p \in IqSlots
  <2>1. CASE r.count = 0
    BY <1>1, <2>1, PlaceIs
  <2>2. CASE r.count # 0
    <3>1. r.tail = Place(r.head, r.count - 1) /\ r.count - 1 \in 0 .. IqDepth - 2
      BY <1>1, <2>2 DEF Fifo
    <3>2. RingInc(Place(r.head, r.count - 1)) = Place(r.head, (r.count - 1) + 1)
      BY <1>1, <3>1, PlaceIs
    <3>3. Place(r.head, r.count) \in IqSlots
      BY <1>1, PlaceIs
    <3>4. (r.count - 1) + 1 = r.count
      BY <1>1
    <3> QED
      BY <1>1, <2>2, <3>1, <3>2, <3>3, <3>4
  <2> QED
    BY <2>1, <2>2
<1>4. /\ q.mem = [r.mem EXCEPT ![p] = new] /\ q.head = head /\ q.tail = p
      /\ q.count = r.count + 1
  <2>1. q = [r EXCEPT !.mem = [r.mem EXCEPT ![p] = new], !.head = head, !.tail = p,
                      !.count = (r.count + 1) % StoreCountMod]
    BY DEF Pushed, Rings
  <2> QED
    BY <1>2, <2>1 DEF Rings
<1>5. \A j \in 0 .. r.count - 1 : head = r.head /\ Place(head, j) # p /\ Place(head, j) \in IqSlots
  <2> SUFFICES ASSUME NEW j \in 0 .. r.count - 1
               PROVE  head = r.head /\ Place(head, j) # p /\ Place(head, j) \in IqSlots
    OBVIOUS
  <2>1. j \in 0 .. IqDepth - 1 /\ r.count \in 0 .. IqDepth - 1 /\ j # r.count /\ r.count # 0
    BY <1>1
  <2>2. head = r.head
    BY <2>1
  <2> HIDE DEF p, head
  <2> QED
    BY <1>3, <2>1, <2>2, PlaceIs
<1> HIDE DEF p, head, q
<1>6. /\ q.mem[Place(q.head, r.count)] = new
      /\ \A j \in 0 .. r.count - 1 : q.mem[Place(q.head, j)] = r.mem[Place(r.head, j)]
  BY <1>1, <1>3, <1>4, <1>5
<1>7. new.order = order
  OBVIOUS
<1> HIDE DEF new
<1>8. Holds(q, new)
  BY <1>1, <1>4, <1>6 DEF Holds
<1>9. ASSUME NEW m, Holds(r, m) PROVE Holds(q, m)
  BY <1>1, <1>4, <1>6, <1>9 DEF Holds
<1>10. Fifo(q, order + 1)
  <2>1. q.count \in 0 .. IqDepth /\ q.tail = Place(q.head, q.count - 1)
    BY <1>1, <1>3, <1>4
  <2>2. ASSUME NEW j \in 0 .. r.count - 1
        PROVE  /\ q.mem[Place(q.head, j)].order < b /\ q.mem[Place(q.head, j)].order \in Nat
               /\ \A k \in 0 .. j - 1 :
                    q.mem[Place(q.head, k)].order < q.mem[Place(q.head, j)].order
    <3>1. \A k \in 0 .. j - 1 : k \in 0 .. r.count - 1
      BY <1>1
    <3>2. Place(r.head, j) \in IqSlots
      BY <1>5
    <3>3. r.mem[Place(r.head, j)].order \in Nat
      BY <1>1, <3>2 DEF RingPlaces
    <3> QED
      BY <1>6, <3>1, <3>3 DEF Fifo
  <2>3. ASSUME NEW j \in 0 .. q.count - 1
        PROVE  /\ q.mem[Place(q.head, j)].order < order + 1
               /\ \A k \in 0 .. j - 1 :
                    q.mem[Place(q.head, k)].order < q.mem[Place(q.head, j)].order
    <3>1. CASE j = r.count
      <4>1. q.mem[Place(q.head, j)].order = order
        BY <1>6, <1>7, <3>1
      <4>2. \A k \in 0 .. j - 1 : q.mem[Place(q.head, k)].order < order
        BY <2>2, <3>1
      <4> QED
        BY <4>1, <4>2
    <3>2. CASE j # r.count
      <4>1. j \in 0 .. r.count - 1
        BY <1>1, <1>4, <3>2
      <4> QED
        BY <2>2, <4>1
    <3> QED
      BY <3>1, <3>2
  <2> QED
    BY <2>1, <2>3 DEF Fifo
<1> QED
  BY <1>4, <1>8, <1>9, <1>10 DEF new, q

\* Everything the pair has for the queue is among its inputs, in order, and
\* gets a slot.
LEMMA HeldAll ==
  ASSUME NEW s, NEW m \in 0 .. 2, DOMAIN s = 1 .. m
  PROVE  /\ \A n \in DOMAIN s : s[n].kind \in HeldKinds =>
              \E k \in DOMAIN Held(s) : HeldAt(s, k) = n
         /\ \A k \in DOMAIN Held(s) :
              k = 2 => 1 \in DOMAIN Held(s) /\ HeldAt(s, 1) = 1 /\ HeldAt(s, 2) = 2
         /\ DOMAIN Held(s) = 1 .. Cardinality({n \in DOMAIN s : s[n].kind \in HeldKinds})
<1> DEFINE held == {n \in DOMAIN s : s[n].kind \in HeldKinds}
<1>1. held = {} \/ held = {1} \/ held = {2} \/ held = {1, 2}
  <2>1. held \subseteq {1, 2}
    OBVIOUS
  <2> HIDE DEF held
  <2> QED
    BY <2>1
<1>2. Held(s) = [k \in 1 .. Cardinality(held) |-> s[IF held = {2} THEN 2 ELSE k]]
  BY DEF Held
<1>3. \A k : HeldAt(s, k) = IF held = {2} THEN 2 ELSE k
  BY DEF HeldAt
<1>4. \A n \in DOMAIN s : s[n].kind \in HeldKinds <=> n \in held
  OBVIOUS
<1>5. DOMAIN Held(s) = 1 .. Cardinality(held)
  BY <1>2
<1> HIDE DEF held
<1>6. /\ held = {} => Cardinality(held) = 0
      /\ held = {1} \/ held = {2} => Cardinality(held) = 1
      /\ held = {1, 2} => Cardinality(held) = 2
  <2>1. Cardinality({}) = 0 /\ Cardinality({1}) = 1 /\ Cardinality({2}) = 1
    BY FS_EmptySet, FS_Singleton
  <2>2. IsFiniteSet({1}) /\ Cardinality({1}) = 1
    BY FS_Singleton
  <2>3. Cardinality({1} \cup {2})
          = IF 2 \in {1} THEN Cardinality({1}) ELSE Cardinality({1}) + 1
    BY <2>2, FS_AddElement, Zenon
  <2>4. Cardinality({1} \cup {2}) = 2
    BY <2>2, <2>3
  <2>5. {1} \cup {2} = {1, 2}
    OBVIOUS
  <2>6. held = {1, 2} => Cardinality(held) = 2
    BY <2>4, <2>5, Zenon
  <2>7. held = {} => Cardinality(held) = 0
    BY <2>1, Zenon
  <2>8. held = {1} \/ held = {2} => Cardinality(held) = 1
    BY <2>1, Zenon
  <2> QED
    BY <2>6, <2>7, <2>8
<1>7. \A n \in held : \E k \in DOMAIN Held(s) : HeldAt(s, k) = n
  <2> SUFFICES ASSUME NEW n \in held PROVE \E k \in DOMAIN Held(s) : HeldAt(s, k) = n
    OBVIOUS
  <2>1. CASE held = {1, 2}
    <3>1. held # {2} /\ DOMAIN Held(s) = 1 .. 2
      BY <1>5, <1>6, <2>1
    <3>2. HeldAt(s, n) = n /\ n \in 1 .. 2
      BY <1>3, <2>1, <3>1
    <3> QED
      BY <3>1, <3>2
  <2>2. CASE held = {1} \/ held = {2}
    <3>1. HeldAt(s, 1) = n /\ 1 \in 1 .. 1
      BY <1>3, <2>2
    <3> QED
      BY <1>5, <1>6, <2>2, <3>1
  <2> QED
    BY <1>1, <2>1, <2>2
<1>8. ASSUME 2 \in DOMAIN Held(s)
      PROVE  1 \in DOMAIN Held(s) /\ HeldAt(s, 1) = 1 /\ HeldAt(s, 2) = 2
  <2>1. held = {1, 2}
    BY <1>1, <1>5, <1>6, <1>8
  <2>2. held # {2}
    BY <2>1
  <2> QED
    BY <1>3, <1>5, <1>6, <2>1, <2>2
<1> QED
  BY <1>4, <1>5, <1>7, <1>8 DEF held

LEMMA FreeSlotsCounted == IsFiniteSet(FreeSlots) /\ Cardinality(FreeSlots) \in Nat
<1>1. IsFiniteSet(IqSlots)
  BY Sizes, FS_Interval DEF IqSlots
<1> QED
  BY <1>1, FS_Subset, FS_CardinalityType DEF FreeSlots

\* The stores of the pair, and the places the ring must have for them.
StoreAt(in, k) == k \in DOMAIN in.disp /\ in.disp[k].kind = "store"

LEMMA DispAll ==
  ASSUME FlightInv, NEW f, NEW in, NEW s, NEW wb, NEW early,
         Cycle(f, in, s, wb, early)
  PROVE  /\ \A n \in DOMAIN s : s[n].kind \in HeldKinds =>
              \E k \in DOMAIN in.disp : At(s, in, k) = n
         /\ \A k \in DOMAIN in.disp :
              /\ k \in 1 .. 2 /\ k <= Cardinality(FreeSlots)
              /\ k = 2 => 1 \in DOMAIN in.disp /\ At(s, in, 1) = 1 /\ At(s, in, 2) = 2
<1> DEFINE T == Tagged(s, in)
<1>1. /\ s \in Offers(f) /\ in.disp = Held(T)
      /\ Len(s) \in 0 .. 2 /\ DOMAIN s = 1 .. Len(s)
  BY PairIs DEF Cycle
<1>2. DOMAIN T = 1 .. Len(s) /\ \A n \in DOMAIN s : T[n] = Input(s, n, in)
  BY <1>1 DEF Tagged, Input
<1>3. ASSUME NEW n \in DOMAIN s PROVE T[n].kind = s[n].kind
  <2>1. T[n] = Input(s, n, in) /\ Input(s, n, in).kind = s[n].kind
    BY <1>2 DEF Input
  <2> QED
    BY <2>1
<1>4. \A k : At(s, in, k) = HeldAt(T, k)
  BY DEF At
<1> HIDE DEF T
<1>5. /\ \A n \in DOMAIN T : T[n].kind \in HeldKinds =>
           \E k \in DOMAIN Held(T) : HeldAt(T, k) = n
      /\ \A k \in DOMAIN Held(T) :
           k = 2 => 1 \in DOMAIN Held(T) /\ HeldAt(T, 1) = 1 /\ HeldAt(T, 2) = 2
      /\ DOMAIN Held(T) = 1 .. Cardinality({n \in DOMAIN T : T[n].kind \in HeldKinds})
      /\ DOMAIN Held(T) \subseteq 1 .. 2
  BY <1>1, <1>2, HeldAll, HeldIs
<1>6. ASSUME NEW k \in DOMAIN in.disp PROVE k <= Cardinality(FreeSlots)
  <2> DEFINE h == Cardinality({n \in DOMAIN s : s[n].kind \in HeldKinds})
             H == {n \in DOMAIN s : s[n].kind \in HeldKinds}
  <2>1. H = {n \in DOMAIN T : T[n].kind \in HeldKinds}
    BY <1>1, <1>2, <1>3
  <2>2. IsFiniteSet(H)
    <3>1. IsFiniteSet(1 .. Len(s))
      BY <1>1, FS_Interval
    <3> QED
      BY <1>1, <3>1, FS_Subset
  <2>3. h \in Nat
    BY <2>2, FS_CardinalityType
  <2>4. k \in 1 .. h
    BY <1>1, <1>5, <1>6, <2>1
  <2>5. Held(s) = [j \in 1 .. h |-> s[IF H = {2} THEN 2 ELSE j]]
    BY DEF Held
  <2> HIDE DEF h, H
  <2>6. Len(Held(s)) = h
    BY <2>3, <2>5
  <2>7. s # <<>>
    <3>1. k \in DOMAIN Held(T) /\ HeldAt(T, k) \in DOMAIN T
      BY <1>1, <1>2, <1>6, HeldIs
    <3> QED
      BY <1>1, <1>2, <3>1
  <2>8. Cardinality(FreeSlots) >= Len(Held(s))
    BY <1>1, <2>7 DEF Offers, Fits
  <2> QED
    BY <2>3, <2>4, <2>6, <2>8, FreeSlotsCounted
<1> QED
  BY <1>1, <1>2, <1>3, <1>4, <1>5, <1>6

LEMMA RoomForStores ==
  ASSUME FlightInv, NEW f, NEW in, NEW s, NEW wb, NEW early,
         Cycle(f, in, s, wb, early), ~Overfills(in), RingLeft(in).count \in Nat
  PROVE  /\ \A k \in 1 .. 2 : StoreAt(in, k) => RingLeft(in).count + 1 <= IqDepth
         /\ StoreAt(in, 1) /\ StoreAt(in, 2) => RingLeft(in).count + 2 <= IqDepth
<1> DEFINE S == {n \in DOMAIN in.disp : in.disp[n].kind = "store"}
<1>1. RingLeft(in).count + Cardinality(S) <= IqDepth \/ Cardinality(S) \notin Nat
  BY Sizes DEF Overfills
<1>2. \A k : StoreAt(in, k) <=> k \in S
  BY DEF StoreAt
<1>3. S \subseteq 1 .. 2 /\ IsFiniteSet(S)
  <2>1. PICK two \in Nat : two = 2
    OBVIOUS
  <2>2. IsFiniteSet(1 .. two)
    BY FS_Interval
  <2>3. \A k \in DOMAIN in.disp : k \in 1 .. 2
    BY DispAll
  <2>4. S \subseteq 1 .. two
    BY <2>1, <2>3
  <2> HIDE DEF S
  <2> QED
    BY <2>1, <2>2, <2>4, FS_Subset
<1> HIDE DEF S
<1>4. Cardinality(S) \in Nat
  BY <1>3, FS_CardinalityType
<1>5. S # {} => Cardinality(S) >= 1
  BY <1>3, <1>4, FS_EmptySet
<1>6. \A a, b \in S : a # b => Cardinality(S) >= 2
  <2> SUFFICES ASSUME NEW a \in S, NEW b \in S, a # b PROVE Cardinality(S) >= 2
    OBVIOUS
  <2>1. IsFiniteSet(S \ {a}) /\ Cardinality(S \ {a}) = Cardinality(S) - 1
    BY <1>3, FS_RemoveElement
  <2>2. S \ {a} # {} /\ Cardinality(S \ {a}) \in Nat
    BY <2>1, FS_CardinalityType
  <2>3. Cardinality(S \ {a}) # 0
    BY <2>1, <2>2, FS_EmptySet
  <2> QED
    BY <1>4, <2>1, <2>2, <2>3
<1>7. IqDepth \in Nat
  BY Sizes
<1>8. \A k \in 1 .. 2 : StoreAt(in, k) => RingLeft(in).count + 1 <= IqDepth
  BY <1>1, <1>2, <1>4, <1>5, <1>7
<1>9. StoreAt(in, 1) /\ StoreAt(in, 2) => RingLeft(in).count + 2 <= IqDepth
  <2>1. 1 # 2
    OBVIOUS
  <2> QED
    BY <1>1, <1>2, <1>4, <1>6, <1>7, <2>1
<1> QED
  BY <1>8, <1>9

\* An entry that is filled, and one that is kept.
LEMMA FilledSlot ==
  ASSUME FlightInv, NEW f, NEW in, NEW s, NEW wb, NEW early,
         Cycle(f, in, s, wb, early), NEW k \in DOMAIN in.disp
  PROVE  /\ SlotFor(k) \in IqSlots
         /\ iq'[SlotFor(k)].valid /\ iq'[SlotFor(k)].order = in.disp[k].order
         /\ in.disp[k].order = orderId + At(s, in, k) - 1
         /\ in.disp[k].kind = s[At(s, in, k)].kind
<1> DEFINE i == SlotFor(k)
           taken == {n \in DOMAIN in.disp : n <= Cardinality(FreeSlots) /\ SlotFor(n) = i}
<1>1. \A n \in DOMAIN in.disp : n \in 1 .. 2 /\ n <= Cardinality(FreeSlots)
  BY DispAll
<1>2. \A n \in DOMAIN in.disp :
        /\ SlotFor(n) \in FreeSlots
        /\ n = 2 => SlotFor(1) # SlotFor(2)
  BY <1>1, SlotsAreFree
<1>3. i \in IqSlots
  BY <1>2 DEF FreeSlots
<1>4. taken = {k}
  <2>1. ASSUME NEW n \in DOMAIN in.disp, SlotFor(n) = SlotFor(k) PROVE n = k
    BY <1>1, <1>2, <2>1
  <2> QED
    BY <1>1, <2>1
<1>5. iq'[i] = Queued(in.disp[k])
  <2>1. iq'[i] = SlotNext(i, in)
    BY <1>3 DEF Cycle, IqCycle
  <2>2. taken # {} /\ (CHOOSE n \in taken : TRUE) = k
    BY <1>4
  <2> QED
    BY <2>1, <2>2 DEF SlotNext
<1>6. in.disp[k] = Input(s, At(s, in, k), in)
  BY DispIs
<1>7. in.disp[k].order = orderId + At(s, in, k) - 1 /\ in.disp[k].kind = s[At(s, in, k)].kind
  BY <1>6 DEF Input
<1>8. iq'[i].valid /\ iq'[i].order = in.disp[k].order
  BY <1>5 DEF Queued
<1> QED
  BY <1>3, <1>7, <1>8

LEMMA RemainsKind ==
  ASSUME EntryInv, NEW i \in IqSlots, NEW in, Remains(i, in)
  PROVE  iq'[i].kind = iq[i].kind
<1> DEFINE e == iq[i]
           w == Woken(e, in)
           left == e.waits \ Wakes(e, in)
           hold == IF Wakes(e, in) # {} THEN WakeHoldCycles
                   ELSE IF e.hold # 0 THEN e.hold - 1 ELSE 0
<1>1. e \in Entries
  BY DEF EntryInv
<1>2. w = e \/ w = [e EXCEPT !.waits = left, !.ready = left = {}, !.hold = hold]
  BY <1>1 DEF Woken, Entries
<1> HIDE DEF left, hold
<1>3. w.kind = e.kind /\ DOMAIN w = DOMAIN e
  BY <1>1, <1>2 DEF Entries
<1>4. iq'[i] = [w EXCEPT !.issued = w.issued \/ i \in Selected(in)]
  BY DEF Remains
<1> HIDE DEF w, e
<1>5. "kind" # "issued"
  OBVIOUS
<1>6. iq'[i].kind = w.kind
  BY <1>1, <1>3, <1>4, <1>5 DEF Entries
<1> QED
  BY <1>3, <1>6 DEF e

LEMMA KeptSlot ==
  ASSUME FlightInv, EntryInv, NEW f, NEW in, NEW s, NEW wb, NEW early,
         Cycle(f, in, s, wb, early), NEW x \in flight, ~FlushKills(f, x.order),
         NEW i \in IqSlots, iq[i].valid, iq[i].order = x.order
  PROVE  /\ ~Committing(iq[i], in)
         /\ iq'[i].valid /\ iq'[i].order = x.order /\ iq'[i].kind = iq[i].kind
<1>1. ~Committing(iq[i], in)
  <2> SUFFICES ASSUME Committing(iq[i], in) PROVE FALSE
    OBVIOUS
  <2>1. in.commit = {TagOf(c) : c \in committing}
    BY DEF Cycle
  <2>2. PICK c \in committing : TagOf(c) = [tag |-> iq[i].tag, order |-> iq[i].order]
    BY <2>1 DEF Committing
  <2>3. c.order = x.order
    BY <2>2 DEF TagOf
  <2>4. c.order < x.order /\ x.order \in Nat
    BY DEF FlightInv, Flights
  <2> QED
    BY <2>3, <2>4
<1>2. ~FlushKills(in.flush, iq[i].order)
  BY DEF Cycle
<1>3. {n \in DOMAIN in.disp : n <= Cardinality(FreeSlots) /\ SlotFor(n) = i} = {}
  <2> SUFFICES ASSUME NEW n \in DOMAIN in.disp, SlotFor(n) = i PROVE FALSE
    OBVIOUS
  <2>1. n \in 1 .. 2 /\ n <= Cardinality(FreeSlots)
    BY DispAll
  <2>2. i \in FreeSlots
    BY <2>1, SlotsAreFree
  <2> QED
    BY <2>2 DEF FreeSlots
<1>4. iq'[i] = SlotNext(i, in)
  BY DEF Cycle, IqCycle
<1>5. Remains(i, in)
  BY <1>1, <1>2, <1>3, <1>4 DEF SlotNext, Remains
<1> QED
  BY <1>1, <1>5, RemainsIs, RemainsKind

\* The queue has the kinds right after the cycle.
LEMMA KindsStep ==
  ASSUME FlightInv, EntryInv, StoreInv, NEW f, NEW in, NEW s, NEW wb, NEW early,
         Cycle(f, in, s, wb, early),
         NEW y \in flight', NEW i \in IqSlots, iq'[i].valid, iq'[i].order = y.order
  PROVE  iq'[i].kind = y.ins.kind
<1>1. /\ orderId \in Nat
      /\ \A x \in flight : x.order \in Nat /\ x.order < orderId
      /\ \A n \in DOMAIN s : /\ n \in 1 .. 2 /\ Entrant(s, n).order = orderId + n - 1
                             /\ Entrant(s, n).ins = s[n] /\ orderId + n - 1 >= orderId
  BY EntrantIs DEF FlightInv, Flights
<1>2. CASE Filled(i, s, in)
  <2>1. PICK k \in DOMAIN in.disp : iq'[i] = Queued(Input(s, At(s, in, k), in))
    BY <1>2 DEF Filled
  <2>2. PICK n \in DOMAIN s : n = At(s, in, k)
    BY DispIs
  <2>3. iq'[i] = Queued(Input(s, n, in))
    BY <2>1, <2>2
  <2>4. iq'[i].order = orderId + n - 1 /\ iq'[i].kind = s[n].kind
    BY <2>3 DEF Queued, Input
  <2>5. ASSUME NEW x \in flight, Kept(x, y, f, in, wb, early) PROVE FALSE
    <3>1. x.order = orderId + n - 1
      BY <2>4, <2>5 DEF Kept
    <3> QED
      BY <1>1, <3>1
  <2>6. PICK m \in DOMAIN s : y = Entrant(s, m)
    BY <2>5, NextIs
  <2>7. m = n
    <3>1. orderId + m - 1 = orderId + n - 1 /\ m \in 1 .. 2 /\ n \in 1 .. 2
      BY <1>1, <2>4, <2>6
    <3> QED
      BY <1>1, <3>1
  <2> QED
    BY <1>1, <2>4, <2>6, <2>7
<1>3. CASE Empty(i) \/ Dropped(i)
  BY <1>3 DEF Empty, Dropped, FreeEntry
<1>4. CASE Remains(i, in)
  <2>1. iq[i].valid /\ iq'[i].order = iq[i].order /\ iq'[i].kind = iq[i].kind
    BY <1>4, RemainsIs, RemainsKind DEF Remains
  <2>2. iq[i].order < orderId
    BY <2>1 DEF EntryInv
  <2>3. ASSUME NEW n \in DOMAIN s, y = Entrant(s, n) PROVE FALSE
    <3>1. iq[i].order = orderId + n - 1 /\ n \in 1 .. 2
      BY <1>1, <2>1, <2>3
    <3> QED
      BY <1>1, <2>2, <3>1
  <2>4. PICK x \in flight : Kept(x, y, f, in, wb, early)
    BY <2>3, NextIs
  <2>5. iq[i].order = x.order /\ y.ins = x.ins
    BY <2>1, <2>4 DEF Kept
  <2> QED
    BY <2>1, <2>5 DEF StoreInv
<1> QED
  BY <1>2, <1>3, <1>4, SlotIs

\* What leaves the ring is not in flight any more.
LEMMA RingLeftIs ==
  ASSUME FlightInv, EntryInv, RingInv, StoreInv, NEW f, NEW in, NEW s, NEW wb, NEW early,
         Cycle(f, in, s, wb, early)
  PROVE  /\ RingLeft(in) \in Rings /\ Fifo(RingLeft(in), orderId)
         /\ RingLeft(in).count <= ringCount
         /\ \A x \in flight : \A i \in IqSlots :
              /\ ~FlushKills(f, x.order) /\ x.ins.kind = "store"
              /\ iq[i].valid /\ iq[i].order = x.order
              /\ Holds(RingNow, [slot |-> i, order |-> x.order])
              => Holds(RingLeft(in), [slot |-> i, order |-> x.order])
<1> DEFINE r0 == RingNow
           r1 == Emptied(r0, in)
           r2 == Cleaned(r1, in)
           r3 == Released(r2, in)
           Of(x, i) == /\ ~FlushKills(f, x.order) /\ x.ins.kind = "store"
                       /\ iq[i].valid /\ iq[i].order = x.order
           m(x, i) == [slot |-> i, order |-> x.order]
<1>1. /\ r0 \in Rings /\ Fifo(r0, orderId) /\ r0.count = ringCount /\ r0.oldest = ringOldest
      /\ r0.mem = ring /\ r0.head = ringHead
      /\ orderId \in Nat /\ ringCount \in Nat
  BY DEF RingNow, Rings, RingInv, StoreInv, FlightInv
<1>2. \A x \in flight : \A i \in IqSlots : Of(x, i) =>
        iq[i].kind = "store" /\ ~Committing(iq[i], in)
  BY KeptSlot DEF StoreInv
<1>3. \A x, i : m(x, i).slot = i /\ m(x, i).order = x.order
  OBVIOUS
<1>4. in.flush = f /\ f \in [valid : BOOLEAN, ordered : BOOLEAN, order : Nat]
  BY DEF Cycle
<1> HIDE DEF m, r0
<1>5. /\ r1 \in Rings /\ Fifo(r1, orderId) /\ r1.count <= ringCount /\ r1.mem = ring
      /\ r1.count # 0 => r1 = r0
      /\ \A x \in flight : \A i \in IqSlots :
           Of(x, i) /\ Holds(r0, m(x, i)) => Holds(r1, m(x, i))
  <2>1. CASE f.valid /\ ~f.ordered
    <3>1. r1 = [r0 EXCEPT !.head = 0, !.tail = 0, !.count = 0, !.oldest = 0]
      BY <1>4, <2>1 DEF Emptied, Empties
    <3> HIDE DEF r1
    <3>2. r1 \in Rings /\ r1.count = 0 /\ r1.mem = ring
      <4>1. 0 \in IqSlots /\ 0 \in 0 .. StoreCountMod - 1 /\ 0 \in Nat
        BY RingFacts
      <4>2. r1 \in Rings
        BY <1>1, <3>1, <4>1 DEF Rings
      <4>3. r1.count = 0
        BY <1>1, <3>1 DEF Rings
      <4>4. r1.mem = r0.mem
        BY <1>1, <3>1 DEF Rings
      <4> QED
        BY <1>1, <4>2, <4>3, <4>4
    <3>3. Fifo(r1, orderId)
      BY <3>2, Sizes DEF Fifo
    <3>4. \A x \in flight : FlushKills(f, x.order)
      BY <2>1 DEF FlushKills
    <3> QED
      BY <1>1, <3>2, <3>3, <3>4
  <2>2. CASE ~(f.valid /\ ~f.ordered)
    <3>1. r1 = r0
      BY <1>4, <2>2 DEF Emptied, Empties
    <3> QED
      BY <1>1, <3>1
  <2> QED
    BY <2>1, <2>2
<1> HIDE DEF r1
<1>6. /\ r2 \in Rings /\ Fifo(r2, orderId) /\ r2.count <= ringCount /\ r2.mem = ring
      /\ \A x \in flight : \A i \in IqSlots :
           Of(x, i) /\ Holds(r1, m(x, i)) => Holds(r2, m(x, i))
  <2> DEFINE e == iq[r1.mem[r1.head].slot]
             dead == \/ ~e.valid \/ e.kind # "store" \/ e.order # r1.oldest
                     \/ in.flush.ordered /\ FlushKills(in.flush, r1.oldest)
  <2>1. r2 = IF r1.count # 0 /\ dead THEN Popped(r1) ELSE r1
    BY DEF Cleaned
  <2>2. CASE r1.count # 0 /\ dead
    <3>1. r2 = Popped(r1)
      BY <2>1, <2>2
    <3>2. /\ Fifo(Popped(r1), orderId) /\ Popped(r1).count = r1.count - 1
          /\ Popped(r1).mem = r1.mem
          /\ \A w : Holds(r1, w) /\ w # r1.mem[r1.head] => Holds(Popped(r1), w)
      BY <1>1, <1>5, <2>2, PoppedIs
    <3>3. Popped(r1) \in Rings
      BY <1>5, PoppedTyped
    <3>4. ASSUME NEW x \in flight, NEW i \in IqSlots, Of(x, i)
          PROVE  m(x, i) # r1.mem[r1.head]
      <4> SUFFICES ASSUME m(x, i) = r1.mem[r1.head] PROVE FALSE
        OBVIOUS
      <4>1. e = iq[i] /\ r1.mem[r1.head].order = x.order
        BY <1>3
      <4>2. r1.oldest = x.order
        BY <1>1, <1>5, <2>2, <4>1 DEF StoreInv
      <4>3. ~FlushKills(in.flush, r1.oldest)
        BY <1>4, <3>4, <4>2
      <4> QED
        BY <1>2, <2>2, <3>4, <4>1, <4>2, <4>3
    <3>5. r1.count \in Nat
      BY <1>5 DEF Rings
    <3> HIDE DEF Of
    <3> QED
      BY <1>1, <1>5, <3>1, <3>2, <3>3, <3>4, <3>5
  <2>3. CASE ~(r1.count # 0 /\ dead)
    BY <1>5, <2>1, <2>3
  <2> QED
    BY <2>2, <2>3
<1> HIDE DEF r2
<1>7. /\ r3 \in Rings /\ Fifo(r3, orderId) /\ r3.count <= ringCount
      /\ \A x \in flight : \A i \in IqSlots :
           Of(x, i) /\ Holds(r2, m(x, i)) => Holds(r3, m(x, i))
  <2> DEFINE e == iq[r2.mem[r2.head].slot]
  <2>1. r3 = IF r2.count # 0 /\ e.kind = "store" /\ Committing(e, in)
             THEN Popped(r2) ELSE r2
    BY DEF Released
  <2>2. CASE r2.count # 0 /\ e.kind = "store" /\ Committing(e, in)
    <3>1. r3 = Popped(r2)
      BY <2>1, <2>2
    <3>2. /\ Fifo(Popped(r2), orderId) /\ Popped(r2).count = r2.count - 1
          /\ \A w : Holds(r2, w) /\ w # r2.mem[r2.head] => Holds(Popped(r2), w)
      BY <1>1, <1>6, <2>2, PoppedIs
    <3>3. Popped(r2) \in Rings /\ r2.count \in Nat
      BY <1>6, PoppedTyped DEF Rings
    <3>4. ASSUME NEW x \in flight, NEW i \in IqSlots, Of(x, i)
          PROVE  m(x, i) # r2.mem[r2.head]
      <4> SUFFICES ASSUME m(x, i) = r2.mem[r2.head] PROVE FALSE
        OBVIOUS
      <4>1. e = iq[i]
        BY <1>3
      <4> QED
        BY <1>2, <2>2, <3>4, <4>1
    <3> HIDE DEF Of
    <3> QED
      BY <1>1, <1>6, <3>1, <3>2, <3>3, <3>4
  <2>3. CASE ~(r2.count # 0 /\ e.kind = "store" /\ Committing(e, in))
    BY <1>6, <2>1, <2>3
  <2> QED
    BY <2>2, <2>3
<1>8. r3 = RingLeft(in)
  BY DEF RingLeft, r0, r1, r2
<1> HIDE DEF r3
<1>9. \A x \in flight : \A i \in IqSlots :
        Of(x, i) /\ Holds(r0, m(x, i)) => Holds(r3, m(x, i))
  BY <1>5, <1>6, <1>7
<1> QED
  BY <1>7, <1>8, <1>9 DEF r0, m

\* What enters the ring goes behind the rest.
Bound(in, n, b) == IF StoreAt(in, n) THEN in.disp[n].order + 1 ELSE b
HasRoom(r, n, in, b) ==
  StoreAt(in, n) => r.count < IqDepth /\ in.disp[n].order >= b

LEMMA EnteredIs ==
  ASSUME FlightInv, NEW f, NEW in, NEW s, NEW wb, NEW early,
         Cycle(f, in, s, wb, early),
         NEW r \in Rings, NEW b \in Nat, Fifo(r, b), NEW n \in 1 .. 2,
         HasRoom(r, n, in, b)
  PROVE  /\ Entered(r, n, in) \in Rings
         /\ Fifo(Entered(r, n, in), Bound(in, n, b)) /\ Bound(in, n, b) \in Nat
         /\ Entered(r, n, in).count <= r.count + 1
         /\ \A m : Holds(r, m) => Holds(Entered(r, n, in), m)
         /\ StoreAt(in, n) => Holds(Entered(r, n, in),
                                    [slot |-> SlotFor(n), order |-> in.disp[n].order])
<1>1. Entered(r, n, in) \in Rings
  BY EnteredTyped
<1>2. r.count \in Nat
  BY DEF Rings
<1>3. CASE StoreAt(in, n)
  <2>1. n \in DOMAIN in.disp /\ in.disp[n].kind = "store"
    BY <1>3 DEF StoreAt
  <2>2. n <= Cardinality(FreeSlots)
    BY <2>1, DispAll
  <2>3. Entered(r, n, in) = Pushed(r, SlotFor(n), in.disp[n].order)
    BY <2>1, <2>2, FreeSlotsCounted DEF Entered
  <2>4. SlotFor(n) \in IqSlots /\ in.disp[n].order = orderId + At(s, in, n) - 1
    BY <2>1, FilledSlot
  <2>5. in.disp[n].order \in Nat
    <3>1. At(s, in, n) \in DOMAIN s
      BY <2>1, DispIs
    <3> QED
      BY <2>4, <3>1, EntrantIs
  <2>6. /\ Fifo(Pushed(r, SlotFor(n), in.disp[n].order), in.disp[n].order + 1)
        /\ Pushed(r, SlotFor(n), in.disp[n].order).count = r.count + 1
        /\ Holds(Pushed(r, SlotFor(n), in.disp[n].order),
                 [slot |-> SlotFor(n), order |-> in.disp[n].order])
        /\ \A m : Holds(r, m) => Holds(Pushed(r, SlotFor(n), in.disp[n].order), m)
    <3>1. r.count < IqDepth /\ in.disp[n].order >= b
      BY <1>3 DEF HasRoom
    <3> QED
      BY <2>4, <2>5, <3>1, PushedIs
  <2>7. Bound(in, n, b) = in.disp[n].order + 1 /\ Bound(in, n, b) \in Nat
    BY <1>3, <2>5 DEF Bound
  <2> QED
    BY <1>1, <1>2, <1>3, <2>3, <2>6, <2>7
<1>4. CASE ~StoreAt(in, n)
  <2>1. Entered(r, n, in) = r /\ Bound(in, n, b) = b
    BY <1>4 DEF Entered, StoreAt, Bound
  <2> QED
    BY <1>1, <1>2, <1>4, <2>1
<1> QED
  BY <1>3, <1>4

\* Both of the pair's stores enter, in order.
LEMMA BothEnter ==
  ASSUME FlightInv, EntryInv, RingInv, StoreInv,
         NEW f, NEW in, NEW s, NEW wb, NEW early, Cycle(f, in, s, wb, early),
         ~Overfills(in), NEW r, r = Entered(Entered(RingLeft(in), 1, in), 2, in)
  PROVE  /\ r \in Rings /\ Fifo(r, orderId')
         /\ \A m : Holds(RingLeft(in), m) => Holds(r, m)
         /\ \A k \in 1 .. 2 : StoreAt(in, k) =>
              Holds(r, [slot |-> SlotFor(k), order |-> in.disp[k].order])
<1> DEFINE r0 == RingLeft(in)
           r1 == Entered(r0, 1, in)
           b1 == Bound(in, 1, orderId)
           b2 == Bound(in, 2, b1)
<1>1. /\ orderId \in Nat /\ orderId' \in Nat /\ orderId <= orderId'
      /\ ringCount \in Nat /\ IqDepth \in Nat
  <2>1. orderId' = orderId + Len(s) /\ Len(s) \in 0 .. 2
    BY PairIs DEF Cycle
  <2> QED
    BY <2>1, Sizes DEF FlightInv, RingInv
<1>2. /\ r0 \in Rings /\ Fifo(r0, orderId) /\ r0.count <= ringCount /\ r0.count \in Nat
  BY RingLeftIs DEF Rings
<1>3. /\ \A k \in 1 .. 2 : StoreAt(in, k) => r0.count + 1 <= IqDepth
      /\ StoreAt(in, 1) /\ StoreAt(in, 2) => r0.count + 2 <= IqDepth
  BY <1>2, RoomForStores
<1>4. ASSUME NEW k \in 1 .. 2, StoreAt(in, k)
      PROVE  /\ in.disp[k].order \in Nat /\ in.disp[k].order >= orderId
             /\ in.disp[k].order < orderId'
             /\ in.disp[k].order = orderId + At(s, in, k) - 1 /\ At(s, in, k) \in 1 .. 2
  <2>1. k \in DOMAIN in.disp
    BY <1>4 DEF StoreAt
  <2>2. At(s, in, k) \in DOMAIN s /\ in.disp[k].order = orderId + At(s, in, k) - 1
    BY <2>1, DispIs, FilledSlot
  <2> QED
    BY <2>2, EntrantIs
<1>5. StoreAt(in, 1) /\ StoreAt(in, 2) => in.disp[2].order >= in.disp[1].order + 1
  <2> SUFFICES ASSUME StoreAt(in, 1), StoreAt(in, 2)
               PROVE  in.disp[2].order >= in.disp[1].order + 1
    OBVIOUS
  <2>1. At(s, in, 1) = 1 /\ At(s, in, 2) = 2
    BY DispAll DEF StoreAt
  <2>2. in.disp[1].order = orderId + 1 - 1 /\ in.disp[2].order = orderId + 2 - 1
    BY <1>4, <2>1
  <2> QED
    BY <1>1, <2>2
<1> HIDE DEF r0
<1>6. /\ r1 \in Rings /\ Fifo(r1, b1) /\ b1 \in Nat
      /\ r1.count <= r0.count + 1 /\ (~StoreAt(in, 1) => r1.count = r0.count)
      /\ \A m : Holds(r0, m) => Holds(r1, m)
      /\ StoreAt(in, 1) => Holds(r1, [slot |-> SlotFor(1), order |-> in.disp[1].order])
  <2>1. 1 \in 1 .. 2
    OBVIOUS
  <2>2. HasRoom(r0, 1, in, orderId)
    BY <1>1, <1>2, <1>3, <1>4, <2>1 DEF HasRoom
  <2>3. /\ r1 \in Rings /\ Fifo(r1, b1) /\ b1 \in Nat /\ r1.count <= r0.count + 1
        /\ \A m : Holds(r0, m) => Holds(r1, m)
        /\ StoreAt(in, 1) => Holds(r1, [slot |-> SlotFor(1), order |-> in.disp[1].order])
    BY <1>1, <1>2, <2>1, <2>2, EnteredIs
  <2>4. ~StoreAt(in, 1) => r1.count = r0.count
    BY DEF Entered, StoreAt
  <2> QED
    BY <2>3, <2>4
<1>7. b1 <= orderId' /\ (StoreAt(in, 2) => in.disp[2].order >= b1)
  BY <1>1, <1>4, <1>5 DEF Bound
<1> HIDE DEF r1, b1
<1>8. /\ r \in Rings /\ Fifo(r, b2) /\ b2 \in Nat
      /\ \A m : Holds(r1, m) => Holds(r, m)
      /\ StoreAt(in, 2) => Holds(r, [slot |-> SlotFor(2), order |-> in.disp[2].order])
  <2>1. 2 \in 1 .. 2 /\ r1.count \in Nat
    BY <1>6 DEF Rings
  <2>2. HasRoom(r1, 2, in, b1)
    BY <1>1, <1>2, <1>3, <1>6, <1>7, <2>1 DEF HasRoom
  <2>3. r = Entered(r1, 2, in)
    BY DEF r0, r1
  <2>4. /\ Entered(r1, 2, in) \in Rings /\ Fifo(Entered(r1, 2, in), b2) /\ b2 \in Nat
        /\ \A m : Holds(r1, m) => Holds(Entered(r1, 2, in), m)
        /\ StoreAt(in, 2) => Holds(Entered(r1, 2, in),
                                   [slot |-> SlotFor(2), order |-> in.disp[2].order])
    BY <1>6, <2>1, <2>2, EnteredIs
  <2> HIDE DEF b2
  <2> QED
    BY <2>3, <2>4
<1>9. b2 <= orderId'
  BY <1>1, <1>4, <1>7 DEF Bound
<1>10. Fifo(r, orderId')
  <2> DEFINE o(j) == r.mem[Place(r.head, j)].order
  <2>1. \A j \in 0 .. r.count - 1 : o(j) \in Nat
    <3>1. r.head \in IqSlots /\ r.count \in 0 .. IqDepth /\ r.mem \in [IqSlots -> RingPlaces]
      BY <1>8 DEF Rings, Fifo
    <3>2. \A j \in 0 .. r.count - 1 : Place(r.head, j) \in IqSlots
      BY <1>1, <3>1, PlaceIs
    <3> QED
      BY <3>1, <3>2 DEF RingPlaces
  <2>2. \A j \in 0 .. r.count - 1 : o(j) < b2
    BY <1>8 DEF Fifo
  <2> HIDE DEF o, b2
  <2>3. \A j \in 0 .. r.count - 1 : o(j) < orderId'
    BY <1>1, <1>8, <1>9, <2>1, <2>2
  <2> QED
    BY <1>8, <2>3 DEF Fifo, o
<1>11. \A k \in 1 .. 2 : k = 1 \/ k = 2
  OBVIOUS
<1> QED
  BY <1>6, <1>8, <1>10, <1>11 DEF r0

LEMMA StoreStep ==
  ASSUME OrderedMemQueue, FlightInv, EntryInv, RingInv, StoreInv,
         NEW f, NEW in, NEW s, NEW wb, NEW early, Cycle(f, in, s, wb, early),
         ~Overfills(in)
  PROVE  StoreInv'
<1>1. PICK r : r = Entered(Entered(RingLeft(in), 1, in), 2, in)
  OBVIOUS
<1>2. /\ r \in Rings /\ Fifo(r, orderId')
      /\ \A m : Holds(RingLeft(in), m) => Holds(r, m)
      /\ \A k \in 1 .. 2 : StoreAt(in, k) =>
           Holds(r, [slot |-> SlotFor(k), order |-> in.disp[k].order])
  BY <1>1, BothEnter
<1> DEFINE oldest == IF r.count = 0 THEN 0 ELSE r.mem[r.head].order
           now == [r EXCEPT !.oldest = oldest]
<1>3. RingNext(in) = now
  BY <1>1 DEF RingNext
<1>4. /\ now.mem = r.mem /\ now.head = r.head /\ now.tail = r.tail /\ now.count = r.count
      /\ now.oldest = oldest
  BY <1>2 DEF Rings
<1>5. /\ ring' = r.mem /\ ringHead' = r.head /\ ringTail' = r.tail
      /\ ringCount' = r.count /\ ringOldest' = oldest
  BY <1>3, <1>4 DEF Cycle, IqCycle
<1> HIDE DEF now
<1>6. /\ RingNow'.mem = r.mem /\ RingNow'.head = r.head /\ RingNow'.tail = r.tail
      /\ RingNow'.count = r.count
  BY <1>5 DEF RingNow
<1>7. Fifo(RingNow, orderId)'
  BY <1>2, <1>6 DEF Fifo, Place
<1>8. \A m : Holds(r, m) => Holds(RingNow, m)'
  BY <1>6 DEF Holds, Place
<1>9. ringCount' # 0 => ringOldest' = ring'[ringHead'].order
  BY <1>5
<1>10. ASSUME NEW y \in flight', y.ins.kind = "store"
       PROVE  \E i \in IqSlots : /\ iq'[i].valid /\ iq'[i].order = y.order
                                 /\ Holds(r, [slot |-> i, order |-> y.order])
  <2>1. CASE \E x \in flight : Kept(x, y, f, in, wb, early)
    <3>1. PICK x \in flight : Kept(x, y, f, in, wb, early)
      BY <2>1
    <3>2. x.ins.kind = "store" /\ x.order = y.order /\ ~FlushKills(f, x.order)
      BY <1>10, <3>1 DEF Kept
    <3>3. PICK i \in IqSlots : /\ iq[i].valid /\ iq[i].order = x.order
                               /\ Holds(RingNow, [slot |-> i, order |-> x.order])
      BY <3>2 DEF StoreInv
    <3>4. iq'[i].valid /\ iq'[i].order = x.order
      BY <3>2, <3>3, KeptSlot
    <3>5. Holds(RingLeft(in), [slot |-> i, order |-> x.order])
      BY <3>2, <3>3, RingLeftIs
    <3> QED
      BY <1>2, <3>2, <3>4, <3>5
  <2>2. CASE \E n \in DOMAIN s : y = Entrant(s, n)
    <3>1. PICK n \in DOMAIN s : y = Entrant(s, n)
      BY <2>2
    <3>2. y.order = orderId + n - 1 /\ s[n].kind = "store"
      BY <1>10, <3>1, EntrantIs
    <3>3. s[n].kind \in HeldKinds
      BY <3>2 DEF OrderedMemQueue
    <3>4. PICK k \in DOMAIN in.disp : At(s, in, k) = n
      BY <3>3, DispAll
    <3>5. /\ SlotFor(k) \in IqSlots /\ k \in 1 .. 2
          /\ iq'[SlotFor(k)].valid /\ iq'[SlotFor(k)].order = in.disp[k].order
          /\ in.disp[k].order = y.order /\ in.disp[k].kind = "store"
      BY <3>2, <3>4, FilledSlot, DispIs
    <3>6. StoreAt(in, k)
      BY <3>5 DEF StoreAt
    <3> QED
      BY <1>2, <3>5, <3>6
  <2> QED
    BY <2>1, <2>2, NextIs
<1>11. \A y \in flight' : \A i \in IqSlots :
         iq'[i].valid /\ iq'[i].order = y.order => iq'[i].kind = y.ins.kind
  BY KindsStep
<1>12. \A y \in flight' : y.ins.kind = "store" =>
         \E i \in IqSlots : /\ iq'[i].valid /\ iq'[i].order = y.order
                            /\ Holds(RingNow, [slot |-> i, order |-> y.order])'
  BY <1>8, <1>10
<1> QED
  BY <1>7, <1>9, <1>11, <1>12 DEF StoreInv

\* While an older store is in flight the head of the ring blocks the entry.
LEMMA OlderStoreBlocks ==
  ASSUME OrderedMemQueue, FlightInv, RingInv, StoreInv,
         NEW x \in flight, x.ins.kind \in {"load", "store"},
         NEW y \in flight, y.ins.kind = "store", y.order < x.order,
         NEW i \in IqSlots, iq[i].valid, iq[i].order = x.order
  PROVE  BehindStore(iq[i])
<1>1. PICK m : m.order = y.order /\ Holds(RingNow, m)
  BY DEF StoreInv
<1>2. PICK j \in 0 .. ringCount - 1 : ring[Place(ringHead, j)].order = y.order
  BY <1>1 DEF Holds, RingNow
<1>3. /\ ringCount \in 1 .. IqDepth /\ ringHead \in IqSlots /\ IqDepth \in Nat
      /\ ringOldest = ring[ringHead].order /\ ring \in [IqSlots -> RingPlaces]
  <2>1. ringCount \in 0 .. IqDepth
    BY DEF StoreInv, Fifo, RingNow
  <2> QED
    BY <1>2, <2>1, Sizes DEF StoreInv, RingInv
<1>4. ringOldest \in Nat /\ x.order \in Nat /\ y.order \in Nat
  BY DEF RingInv, FlightInv, Flights
<1>5. ringOldest <= y.order
  <2>1. CASE j = 0
    BY <1>2, <1>3, <1>4, <2>1, PlaceIs
  <2>2. CASE j # 0
    <3>1. 0 \in 0 .. j - 1
      BY <1>2, <2>2
    <3>2. ring[Place(ringHead, 0)].order < ring[Place(ringHead, j)].order
      BY <1>2, <3>1 DEF StoreInv, Fifo, RingNow
    <3> QED
      BY <1>2, <1>3, <1>4, <3>2, PlaceIs
  <2> QED
    BY <2>1, <2>2
<1>6. ringOldest < iq[i].order /\ ringCount # 0
  BY <1>3, <1>4, <1>5
<1>7. iq[i].kind = x.ins.kind
  BY DEF StoreInv
<1> QED
  BY <1>6, <1>7 DEF BehindStore, OrderedMemQueue

LEMMA LoadsStayStep ==
  ASSUME OrderedMemQueue, FlightInv, EntryInv, RingInv, StoreInv, LoadsStayBehindStores,
         NEW f, NEW in, NEW s, NEW wb, NEW early, Cycle(f, in, s, wb, early),
         ~overfilled
  PROVE  LoadsStayBehindStores'
<1> SUFFICES ASSUME NEW x \in flight', NEW y \in flight',
                    x.ins.kind \in {"load", "store"},
                    y.ins.kind = "store", y.order < x.order
             PROVE  x.stage = "waiting"
  BY DEF LoadsStayBehindStores
<1>1. CASE \E n \in DOMAIN s : x = Entrant(s, n)
  <2>1. PICK n \in DOMAIN s : x = Entrant(s, n)
    BY <1>1
  <2>2. x.ins = s[n] /\ x.stage = (IF s[n].kind \in HeldKinds THEN "waiting" ELSE "issued")
    BY <2>1, EntrantsAreTyped DEF Cycle
  <2> QED
    BY <2>2 DEF OrderedMemQueue
<1>2. CASE \E u \in flight : Kept(u, x, f, in, wb, early)
  <2>1. PICK u \in flight : Kept(u, x, f, in, wb, early)
    BY <1>2
  <2>2. u.order = x.order /\ u.ins = x.ins /\ u.order \in Nat /\ u.order < orderId
        /\ orderId \in Nat
    BY <2>1 DEF Kept, FlightInv, Flights
  <2>3. ASSUME NEW n \in DOMAIN s, y = Entrant(s, n) PROVE FALSE
    <3>1. y.order = orderId + n - 1 /\ n \in 1 .. 2
      BY <2>3, EntrantIs
    <3> QED
      BY <2>2, <3>1
  <2>4. PICK v \in flight : Kept(v, y, f, in, wb, early)
    BY <2>3, NextIs
  <2>5. v.order = y.order /\ v.ins = y.ins
    BY <2>4 DEF Kept
  <2>6. u.stage = "waiting"
    BY <2>2, <2>5 DEF LoadsStayBehindStores
  <2>7. u.order \notin Issuing(in)
    <3> SUFFICES ASSUME u.order \in Issuing(in) PROVE FALSE
      OBVIOUS
    <3>1. PICK i \in Selected(in) : iq[i].order = u.order
      BY DEF Issuing
    <3>2. i \in IqSlots /\ iq[i].valid /\ ~BehindStore(iq[i])
      BY DEF Selected, Eligible
    <3> QED
      BY <2>2, <2>5, <3>1, <3>2, OlderStoreBlocks
  <2> QED
    BY <2>1, <2>6, <2>7 DEF Kept
<1> QED
  BY <1>1, <1>2, NextIs

\* A trap leaves nothing in flight and the ring empty, whatever was in it.
LEMMA TrapEmptiesRing ==
  ASSUME FlightInv, NEW f, NEW in, NEW s, NEW wb, NEW early,
         Cycle(f, in, s, wb, early), Empties(in)
  PROVE  StoreInv' /\ LoadsStayBehindStores'
<1>1. f.valid /\ ~f.ordered /\ DOMAIN s = {}
  <2>1. f.valid /\ ~f.ordered /\ s \in Offers(f)
    BY DEF Cycle, Empties
  <2>2. s = <<>>
    BY <2>1 DEF Offers
  <2> QED
    BY <2>1, <2>2
<1>2. flight' = {}
  <2>1. Staying(f, wb) = {} /\ Entering(s) = {}
    BY <1>1 DEF Staying, Killed, FlushKills, Entering
  <2> QED
    BY <2>1 DEF Cycle
<1>3. DOMAIN in.disp = {}
  BY <1>1, DispIs
<1>4. RingLeft(in).count = 0
  <2>1. Emptied(RingNow, in).count = 0
    BY DEF Emptied, RingNow
  <2>2. Cleaned(Emptied(RingNow, in), in) = Emptied(RingNow, in)
    BY <2>1 DEF Cleaned
  <2>3. Released(Emptied(RingNow, in), in) = Emptied(RingNow, in)
    BY <2>1 DEF Released
  <2> QED
    BY <2>1, <2>2, <2>3 DEF RingLeft
<1>5. ringCount' = 0
  <2>1. Entered(Entered(RingLeft(in), 1, in), 2, in) = RingLeft(in)
    BY <1>3 DEF Entered
  <2>2. RingNext(in).count = RingLeft(in).count
    BY <2>1 DEF RingNext
  <2> QED
    BY <1>4, <2>2 DEF Cycle, IqCycle
<1>6. Fifo(RingNow, orderId)'
  <2>1. RingNow'.count = 0
    BY <1>5 DEF RingNow
  <2>2. 0 \in 0 .. IqDepth /\ 0 .. -1 = {}
    BY Sizes
  <2> QED
    BY <2>1, <2>2 DEF Fifo
<1> QED
  BY <1>2, <1>5, <1>6 DEF StoreInv, LoadsStayBehindStores

\* The ring is that queue but between an overfill and the next trap.
StoresQueued == ~overfilled => StoreInv

LEMMA StoreNext ==
  ASSUME OrderedMemQueue, SchedInv, StoresQueued, LoadsStayBehindStores,
         NEW trap \in BOOLEAN, NEW inhibit \in BOOLEAN,
         NEW wb \in WriteBackSets, NEW early \in Announcements,
         SchedCycle(wb, early, trap, inhibit)
  PROVE  StoresQueued' /\ LoadsStayBehindStores'
<1>1. FlightInv /\ EntryInv /\ RingInv
  BY DEF SchedInv
<1>2. PICK f, in, s : Cycle(f, in, s, wb, early)
  BY <1>1, CycleIs
<1>3. overfilled' = (Overfills(in) \/ (overfilled /\ ~Empties(in)))
  BY <1>2 DEF Cycle
<1>4. CASE Overfills(in) \/ (overfilled /\ ~Empties(in))
  BY <1>3, <1>4 DEF StoresQueued, LoadsStayBehindStores
<1>5. CASE Empties(in)
  BY <1>1, <1>2, <1>5, TrapEmptiesRing DEF StoresQueued
<1>6. CASE ~Overfills(in) /\ ~overfilled
  <2>1. StoreInv
    BY <1>6 DEF StoresQueued
  <2> QED
    BY <1>1, <1>2, <1>6, <2>1, StoreStep, LoadsStayStep DEF StoresQueued
<1> QED
  BY <1>4, <1>5, <1>6

\* Loads and stores leave the memory queue only behind retired stores
\* (issue_queue.v's older_store_blocks), through redirects, traps, dead stores
\* at the ring's head and two stores in a cycle, from reset and from each trap
\* until the ring of stores has taken one more than it has places (overfilled):
\* until then it is a queue of the stores in flight, in order.
THEOREM LoadsAndStoresInOrder ==
  ASSUME OrderedMemQueue
  PROVE  SchedSpec => []LoadsStayBehindStores
<1>1. SchedInit => StoresQueued /\ LoadsStayBehindStores
  <2> SUFFICES ASSUME SchedInit PROVE StoreInv /\ LoadsStayBehindStores
    BY DEF StoresQueued
  <2>1. flight = {} /\ ringCount = 0 /\ RingNow.count = 0
    BY DEF SchedInit, IqInit, RingNow
  <2>2. Fifo(RingNow, orderId)
    BY <2>1, Sizes DEF Fifo
  <2> QED
    BY <2>1, <2>2 DEF StoreInv, LoadsStayBehindStores
<1>2. SchedInv /\ StoresQueued /\ LoadsStayBehindStores /\ [SchedNext]_schedVars
        => (StoresQueued /\ LoadsStayBehindStores)'
  <2> SUFFICES ASSUME SchedInv, StoresQueued, LoadsStayBehindStores, [SchedNext]_schedVars
               PROVE  StoresQueued' /\ LoadsStayBehindStores'
    OBVIOUS
  <2>1. CASE Step
    <3>1. PICK wb \in WriteBackSets, early \in Announcements, inhibit \in BOOLEAN :
            SchedCycle(wb, early, FALSE, inhibit)
      BY <2>1 DEF Step
    <3> QED
      BY <3>1, StoreNext
  <2>2. CASE Trap
    <3>1. PICK wb \in WriteBackSets, inhibit \in BOOLEAN : SchedCycle(wb, {}, TRUE, inhibit)
      BY <2>2 DEF Trap
    <3>2. {} \in Announcements
      BY DEF Announcements
    <3> QED
      BY <3>1, <3>2, StoreNext
  <2>3. CASE UNCHANGED schedVars
    <3>1. /\ iq' = iq /\ ring' = ring /\ ringHead' = ringHead /\ ringTail' = ringTail
          /\ ringCount' = ringCount /\ ringOldest' = ringOldest
          /\ flight' = flight /\ orderId' = orderId /\ overfilled' = overfilled
      BY <2>3 DEF schedVars, iqVars
    <3>2. RingNow' = RingNow
      BY <3>1 DEF RingNow
    <3>3. \A m : Holds(RingNow, m) => Holds(RingNow, m)'
      BY <3>2 DEF Holds, Place
    <3>4. StoresQueued'
      <4> SUFFICES ASSUME StoreInv PROVE StoreInv'
        BY <3>1 DEF StoresQueued
      <4>1. Fifo(RingNow, orderId)'
        BY <3>1, <3>2 DEF StoreInv, Fifo, Place
      <4> QED
        BY <3>1, <3>3, <4>1 DEF StoreInv
    <3>5. LoadsStayBehindStores'
      BY <3>1 DEF LoadsStayBehindStores
    <3> QED
      BY <3>4, <3>5
  <2> QED
    BY <2>1, <2>2, <2>3 DEF SchedNext
<1> QED
  BY <1>1, <1>2, SchedInvariant, PTL DEF SchedSpec
=============================================================================
