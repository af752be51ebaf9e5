-------------------------- MODULE BenchFlowProofs --------------------------
(***************************************************************************)
(* Proofs about the benchmark flow, for every set of command lines and any *)
(* number of invocations: what a full run programs is what it built, the   *)
(* build id it compared is that of the design on the board, and it passes  *)
(* on the evidence it asks for.                                            *)
(*                                                                         *)
(* A run is a place in the plan of its command line.  The lemmas about     *)
(* plans say in what order their steps come; the invariants say what is    *)
(* known once a place is passed.  The trials of an early_board run, which  *)
(* catch their own failures, are a family of plans of their own.           *)
(***************************************************************************)
EXTENDS BenchFlow, SequenceTheorems, TLAPS

\* The fields of the state's records.
DiskFields == {"project", "hex", "synth", "bit", "id", "smoke", "base", "audit", "logs"}
JobFields == {"args", "at", "stage", "wrong", "smoke", "final", "raised"}
HasFields(r, fields) == r = [x \in fields |-> r[x]]

\* A run has a plan that main accepts, and a result only when it is over.
FlowTypeOK ==
  /\ HasFields(disk, DiskFields)
  /\ run \in Nat
  /\ Running => /\ HasFields(job, JobFields) /\ job.args \in Requests /\ Legal(job.args)
                /\ job.at \in 1 .. Len(Steps) + 1 /\ job.raised \in BOOLEAN
                /\ last = Idle
  /\ last # Idle => last.args \in Requests

-----------------------------------------------------------------------------
(* Plans.                                                                   *)

IsSequence(s) == Len(s) \in Nat /\ s = [i \in 1 .. Len(s) |-> s[i]]

\* The steps of s whose activity is one of dos.
Doing(s, dos) == {i \in 1 .. Len(s) : s[i].do \in dos}

Fills(x, slot) == (x.do = "capture" /\ x.slot = slot) \/ (x.do = "reuse" /\ slot = "final")
Asks(x, slot) == x.do \in {"check", "verdict"} /\ x.slot = slot

\* With what it asks for, a reader of the dump has what its summary implies.
Implied(needs) == needs \cup (IF "summary_ok" \in needs THEN {"summary"} ELSE {})

\* A capture or its reuse is the first word on its slot, and what it may
\* miss is asked for behind it, or tolerated.
WellAsked(s, a) ==
  /\ \A i \in Doing(s, {"check", "verdict", "capture"}) : s[i].slot \in {"smoke", "final"}
  /\ \A i \in 1 .. Len(s), slot \in {"smoke", "final"} :
       Fills(s[i], slot) => \A j \in 1 .. i - 1 : ~Fills(s[j], slot) /\ ~Asks(s[j], slot)
  /\ \A i \in Doing(s, {"capture"}) :
       \E j \in i + 1 .. Len(s) :
         /\ Asks(s[j], s[i].slot)
         /\ \A f \in CaptureFacts(Mode(a)) \ Implied(s[j].needs) : <<s[i].slot, f>> \in Tolerated(a)

LongNames == {"loader_full_payload_prefix4_sim", "loader_full_payload_long_sim"}

\* The plan of a command line without trials: nothing is written behind a
\* programming, what reads a capture has one before it, and a verdict ends it.
Straight(s, a) ==
  /\ IsSequence(s)
  /\ \A i \in 1 .. Len(s) : s[i].stage # "trial" /\ s[i].do # "trial_end"
  /\ \A i \in Doing(s, {"program"}), j \in Doing(s, {"write_bit", "write_id"}) : j < i
  /\ \A i \in Doing(s, {"try_sim"}) : s[i].stage \in LongNames
  /\ \A i \in Doing(s, {"verdict"}) : i = Len(s) /\ s[i].slot = "final"
  /\ Doing(s, {"stop"}) # {} =>
       Doing(s, {"capture"}) = {} /\ \A i \in 1 .. Len(s) : s[i].slot # "final"
  /\ (\E i \in 1 .. Len(s) : s[i].slot = "final") => Doing(s, {"program"}) # {}
  /\ WellAsked(s, a)

\* What follows an activity of a sweep.
Follower(do) ==
  CASE do = "gate" -> "program" [] do = "program" -> "capture"
    [] do = "capture" -> "trial_end" [] OTHER -> "gate"

Trials(s) ==
  /\ IsSequence(s) /\ Len(s) > 1
  /\ s[1].do = "find_audit"
  /\ \A i \in 2 .. Len(s) :
       /\ s[i].do \in {"gate", "program", "capture", "trial_end"}
       /\ s[i].stage = "trial"
  /\ \A i \in 1 .. Len(s) - 1 : s[i + 1].do = Follower(s[i].do)
  /\ \A i \in Doing(s, {"capture"}) : s[i].slot = "final"
  /\ s[Len(s)].do = "trial_end"

\* The steps that no build and no board takes part in.
GateDos == {"gate", "sim", "try_sim", "smoke_payload", "base_payload", "audit_payload"}
BoardDos == {"gate", "named_gate", "program", "capture", "check", "reuse"}

\* A plan that builds behind its first n steps and then turns to the board.
Builds(s, n) ==
  /\ IsSequence(s) /\ n + 6 <= Len(s)
  /\ \A i \in 1 .. Len(s) : s[i].stage # "trial"
  /\ \A i \in 1 .. n + 2 : s[i].do \in GateDos \cup {"create"}
  /\ s[n + 3].do = "synth" /\ s[n + 4].do = "write_bit" /\ s[n + 5].do = "write_id"
  /\ s[n + 6].do = "timing"
  /\ \A i \in n + 7 .. Len(s) : s[i].do \in BoardDos

-----------------------------------------------------------------------------
(* Invariants.                                                              *)

\* A bitstream of the netlist hex, written by run r.
Stamped(hex, r, bit) == \E hold \in BOOLEAN : bit = [hex EXCEPT !.id = r, !.hold = hold]

\* What a full run has built by the place it has reached.
OwnBuild ==
  Running /\ Full(job.args) =>
    \A n \in Nat : Builds(Steps, n) =>
      /\ job.at > n + 3 => disk.synth = BoardHex(job.args)
      /\ job.at > n + 4 => Stamped(BoardHex(job.args), run, disk.bit)
      /\ job.at > n + 5 => disk.id = run
      /\ job.at > n + 6 => disk.bit.hold

OnBoard == disk.id # 0 /\ fpga.id = disk.id

\* Behind a programming that did not raise, the ids agree.
BoardIsKnown ==
  Running /\ Straight(Steps, job.args) =>
    /\ job.stage # "trial"
    /\ (\E j \in Doing(Steps, {"program"}) : j < job.at) => OnBoard

\* What is wrong so far is a long simulation's failure or missing from a
\* capture, and what was asked for is there.
InSlot(j, slot) == IF slot = "smoke" THEN j.smoke ELSE j.final

EvidenceIsKept ==
  Running /\ Straight(Steps, job.args) =>
    /\ \A w \in job.wrong :
         \/ w \in LongNames \X {"long"}
         \/ \E i \in Doing(Steps, {"capture"}) :
              \E f \in CaptureFacts(Mode(job.args)) \ InSlot(job, Steps[i].slot) :
                i < job.at /\ w = <<Steps[i].slot, f>>
    /\ \A slot \in {"smoke", "final"} :
         "summary_ok" \in InSlot(job, slot) => "summary" \in InSlot(job, slot)
    /\ \A i \in Doing(Steps, {"check"}) :
         i < job.at => Steps[i].needs \subseteq InSlot(job, Steps[i].slot)
    /\ \A i \in Doing(Steps, {"verdict", "stop"}) : i >= job.at

\* A trial that has raised waits at its end, one that has not has programmed
\* the board before it captures.
TrialsInOrder ==
  Running /\ Trials(Steps) =>
    /\ job.at <= Len(Steps)
    /\ job.raised => Now.do = "trial_end"
    /\ Now.do # "trial_end" => job.wrong = {}
    /\ Now.do = "trial_end" /\ ~job.raised =>
         job.wrong \subseteq
           {<<"final", f>> : f \in CaptureFacts(Mode(job.args)) \ job.final}
    /\ Now.do = "capture" \/ (Now.do = "trial_end" /\ ~job.raised) => OnBoard

FlowInv ==
  /\ FlowTypeOK /\ OwnBuild /\ BoardIsKnown /\ EvidenceIsKept /\ TrialsInOrder
  /\ PassMeansEvidence /\ ReportedIdIsOnBoard

-----------------------------------------------------------------------------
(* The plans have these forms.                                              *)

\* The steps before the board: no capture, nothing asked of one.
GateStep(x) ==
  /\ x.do \in GateDos /\ x.stage # "trial" /\ x.slot = "none"
  /\ x.do = "try_sim" => x.stage \in LongNames
BuildDos == {"create", "synth", "write_bit", "write_id", "timing", "stop"}
BuildStep(x) == x.do \in BuildDos /\ x.stage # "trial" /\ x.slot = "none"

AllGates(s) == IsSequence(s) /\ \A i \in 1 .. Len(s) : GateStep(s[i])

\* Plans are put together from parts.
LEMMA PartsOfAPlan ==
  ASSUME NEW s, NEW t, IsSequence(s), IsSequence(t)
  PROVE  /\ IsSequence(s \o t)
         /\ Len(s \o t) = Len(s) + Len(t)
         /\ \A i \in 1 .. Len(s) : (s \o t)[i] = s[i]
         /\ \A i \in 1 .. Len(t) : (s \o t)[Len(s) + i] = t[i]
<1> DEFINE S == {s[i] : i \in 1 .. Len(s)} \cup {t[i] : i \in 1 .. Len(t)}
<1>1. s \in Seq(S) /\ t \in Seq(S)
  <2>1. [i \in 1 .. Len(s) |-> s[i]] \in Seq(S)
    BY IsASeq DEF IsSequence
  <2>2. [i \in 1 .. Len(t) |-> t[i]] \in Seq(S)
    BY IsASeq DEF IsSequence
  <2> QED
    BY <2>1, <2>2, Zenon DEF IsSequence
<1> HIDE DEF S
<1>2. /\ s \o t \in Seq(S) /\ Len(s \o t) = Len(s) + Len(t)
      /\ \A i \in 1 .. Len(s) + Len(t) :
           (s \o t)[i] = IF i <= Len(s) THEN s[i] ELSE t[i - Len(s)]
  BY <1>1, ConcatProperties
<1>3. IsSequence(s \o t)
  BY <1>2, LenProperties DEF IsSequence
<1> QED
  BY <1>2, <1>3 DEF IsSequence

\* A place in the whole is a place in one of the parts.
LEMMA PlacesOfAPlan ==
  ASSUME NEW s, NEW t, IsSequence(s), IsSequence(t), NEW i \in 1 .. Len(s \o t)
  PROVE  \/ i \in 1 .. Len(s) /\ (s \o t)[i] = s[i]
         \/ i - Len(s) \in 1 .. Len(t) /\ (s \o t)[i] = t[i - Len(s)]
<1>1. Len(s) \in Nat /\ Len(t) \in Nat
  BY DEF IsSequence
<1>2. CASE i <= Len(s)
  BY <1>1, <1>2, PartsOfAPlan
<1>3. CASE i > Len(s)
  <2>1. i - Len(s) \in 1 .. Len(t)
    BY <1>1, <1>3, PartsOfAPlan
  <2>2. (s \o t)[Len(s) + (i - Len(s))] = t[i - Len(s)]
    BY <2>1, PartsOfAPlan
  <2> QED
    BY <1>1, <1>3, <2>1, <2>2
<1> QED
  BY <1>1, <1>2, <1>3

LEMMA GatesInARow ==
  ASSUME NEW s, NEW t, AllGates(s), AllGates(t)
  PROVE  AllGates(s \o t)
BY PartsOfAPlan, PlacesOfAPlan DEF AllGates

LEMMA BasicGatesAreGates == AllGates(BasicGates)
BY DEF BasicGates, Gate, Step, AllGates, IsSequence, GateStep, GateDos

LEMMA TransportGatesAreGates == AllGates(TransportGates)
BY DEF TransportGates, Gate, Sim, Step, AllGates, IsSequence, GateStep, GateDos

LEMMA BridgeGatesAreGates == AllGates(StepsGates) /\ AllGates(Step2Gates) /\ AllGates(BridgeGates)
BY DEF StepsGates, Step2Gates, BridgeGates, Gate, Sim, Step, AllGates, IsSequence, GateStep,
       GateDos

LEMMA SelftestGatesAreGates == AllGates(SelftestGates)
BY DEF SelftestGates, Sim, Step, AllGates, IsSequence, GateStep, GateDos

LEMMA EarlyGatesAreGates == AllGates(EarlyGates)
BY DEF EarlyGates, AuditManifest, Gate, Sim, Step, AllGates, IsSequence, GateStep, GateDos

LEMMA FetchGatesAreGates == AllGates(FetchGates)
BY DEF FetchGates, Gate, Sim, Step, AllGates, IsSequence, GateStep, GateDos

LEMMA StandardGatesAreGates ==
  ASSUME NEW a
  PROVE  AllGates(StandardGates(a))
<1>1. AllGates(QuickGates)
  BY DEF QuickGates, Gate, Sim, Step, AllGates, IsSequence, GateStep, GateDos
<1>2. AllGates(LongSims)
  BY DEF LongSims, Gate, Step, AllGates, IsSequence, GateStep, GateDos, LongNames
<1>3. AllGates(<< >>)
  BY DEF AllGates, IsSequence
<1>4. AllGates(<<BaselinePayload(a)>>)
  BY DEF BaselinePayload, Gate, Step, AllGates, IsSequence, GateStep, GateDos
<1>5. AllGates(IF a.long THEN LongSims ELSE << >>)
  BY <1>2, <1>3, Zenon
<1>6. AllGates(QuickGates \o (IF a.long THEN LongSims ELSE << >>))
  BY <1>1, <1>5, GatesInARow
<1> QED
  BY <1>4, <1>6, GatesInARow DEF StandardGates

LEMMA ModeIsOne ==
  ASSUME NEW a \in CommandLines
  PROVE  Mode(a) \in Flags \cup {"standard"}
BY DEF Mode, CommandLines

\* The gates of every mode.
LEMMA ModeGatesAreGates ==
  ASSUME NEW a
  PROVE  AllGates(BasicGates \o ModeGates(a))
<1>1. AllGates(ModeGates(a))
  BY TransportGatesAreGates, BridgeGatesAreGates, SelftestGatesAreGates, EarlyGatesAreGates,
     FetchGatesAreGates, StandardGatesAreGates, Zenon DEF ModeGates
<1> QED
  BY <1>1, BasicGatesAreGates, GatesInARow

-----------------------------------------------------------------------------
(* The build.                                                               *)

\* The steps of an implementation run, in the order of the Tcl.
IsBuild(v) ==
  /\ IsSequence(v) /\ Len(v) = 6
  /\ \A i \in 1 .. 6 : v[i].stage # "trial" /\ v[i].slot = "none"
  /\ v[1].do = "gate" /\ v[2].do = "create" /\ v[3].do = "synth"
  /\ v[4].do = "write_bit" /\ v[5].do = "write_id" /\ v[6].do = "timing"

\* Before and behind the point where the bitstream is written.
IsFront(s) ==
  /\ Len(s) = 3 /\ \A i \in 1 .. 3 : s[i].stage # "trial" /\ s[i].slot = "none"
  /\ s[1].do = "gate" /\ s[2].do = "create" /\ s[3].do = "synth"
IsBack(s) ==
  /\ Len(s) = 3 /\ \A i \in 1 .. 3 : s[i].stage # "trial" /\ s[i].slot = "none"
  /\ s[1].do = "write_bit" /\ s[2].do = "write_id" /\ s[3].do = "timing"

LEMMA SixSteps ==
  ASSUME NEW r, NEW s, NEW t, IsSequence(r), IsFront(s), IsBack(t), Len(r) = Len(s) + Len(t),
         \A i \in 1 .. Len(s) : r[i] = s[i], \A i \in 1 .. Len(t) : r[Len(s) + i] = t[i]
  PROVE  IsBuild(r)
<1>1. Len(s) = 3 /\ Len(t) = 3
  BY DEF IsFront, IsBack
<1>2. r[1] = s[1] /\ r[2] = s[2] /\ r[3] = s[3] /\ r[4] = t[1] /\ r[5] = t[2] /\ r[6] = t[3]
  BY <1>1
<1>3. \A i \in 1 .. 6 : i \in {1, 2, 3, 4, 5, 6}
  OBVIOUS
<1>4. \A j \in {1, 2, 3} : /\ s[j].stage # "trial" /\ s[j].slot = "none"
                          /\ t[j].stage # "trial" /\ t[j].slot = "none"
  BY DEF IsFront, IsBack
<1>5. \A i \in 1 .. 6 : r[i].stage # "trial" /\ r[i].slot = "none"
  BY <1>2, <1>3, <1>4, Zenon
<1> QED
  BY <1>1, <1>2, <1>5 DEF IsBuild, IsFront, IsBack

LEMMA FrontAndBack ==
  ASSUME NEW s, NEW t, IsSequence(s), IsSequence(t), IsFront(s), IsBack(t)
  PROVE  IsBuild(s \o t)
<1>1. /\ IsSequence(s \o t) /\ Len(s \o t) = Len(s) + Len(t)
      /\ \A i \in 1 .. Len(s) : (s \o t)[i] = s[i]
  BY PartsOfAPlan, Zenon
<1>2. \A i \in 1 .. Len(t) : (s \o t)[Len(s) + i] = t[i]
  BY PartsOfAPlan
<1> QED
  BY <1>1, <1>2, SixSteps, Zenon

LEMMA VivadoBuilds ==
  ASSUME NEW a, a.impl # "synth-only"
  PROVE  IsBuild(Vivado(a))
<1> DEFINE s == <<Open({"tools"}), Step("create", "create_project", Commands, "none"),
                  Step("synth", "synth", Commands, "none")>>
           t == Implementation(a)
<1>1. IsSequence(s) /\ IsFront(s)
  BY DEF Open, Step, IsSequence, IsFront
<1>2. IsSequence(t) /\ IsBack(t)
  BY DEF Implementation, Step, IsSequence, IsBack
<1>3. Vivado(a) = s \o t
  BY DEF Vivado
<1> HIDE DEF s, t
<1> QED
  BY <1>1, <1>2, <1>3, FrontAndBack, Zenon

-----------------------------------------------------------------------------
(* A board part behind a build, or by itself.                               *)

\* The steps before the board.
PrepStep(x) == GateStep(x) \/ (BuildStep(x) /\ x.do # "stop")
AllPrep(s) == IsSequence(s) /\ \A i \in 1 .. Len(s) : PrepStep(s[i])

\* A part that builds nothing.
BoardPart(s) ==
  /\ IsSequence(s)
  /\ \A i \in 1 .. Len(s) : s[i].do \in BoardDos /\ s[i].stage # "trial"

\* r is p and then b.
Joins(r, p, b) ==
  /\ IsSequence(r) /\ Len(p) \in Nat /\ Len(b) \in Nat /\ Len(r) = Len(p) + Len(b)
  /\ \A i \in 1 .. Len(r) : i <= Len(p) => r[i] = p[i]
  /\ \A i \in 1 .. Len(r) : i > Len(p) => i - Len(p) \in 1 .. Len(b) /\ r[i] = b[i - Len(p)]
  /\ \A i \in 1 .. Len(b) : Len(p) + i \in 1 .. Len(r) /\ r[Len(p) + i] = b[i]

LEMMA JoinsHolds ==
  ASSUME NEW p, NEW b, IsSequence(p), IsSequence(b)
  PROVE  Joins(p \o b, p, b)
<1>1. /\ IsSequence(p \o b) /\ Len(p \o b) = Len(p) + Len(b)
      /\ \A i \in 1 .. Len(p) : (p \o b)[i] = p[i]
  BY PartsOfAPlan, Zenon
<1>2. \A i \in 1 .. Len(b) : (p \o b)[Len(p) + i] = b[i]
  BY PartsOfAPlan
<1>3. Len(p) \in Nat /\ Len(b) \in Nat
  BY DEF IsSequence
<1>4. \A i \in 1 .. Len(p \o b) : i <= Len(p) => (p \o b)[i] = p[i]
  BY <1>1, <1>3
<1>5. ASSUME NEW i \in 1 .. Len(p \o b), i > Len(p)
      PROVE  i - Len(p) \in 1 .. Len(b) /\ (p \o b)[i] = b[i - Len(p)]
  <2>1. i - Len(p) \in 1 .. Len(b) /\ Len(p) + (i - Len(p)) = i
    BY <1>1, <1>3, <1>5
  <2> QED
    BY <1>2, <2>1
<1>6. \A i \in 1 .. Len(b) : Len(p) + i \in 1 .. Len(p \o b)
  BY <1>1, <1>3
<1> QED
  BY <1>1, <1>2, <1>3, <1>4, <1>5, <1>6 DEF Joins

\* Gates, a build and a board part build behind the gates.
LEMMA BuildsBehindGates ==
  ASSUME NEW g, NEW v, NEW b, AllGates(g), IsBuild(v), BoardPart(b)
  PROVE  Builds(g \o (v \o b), Len(g))
<1> DEFINE t == v \o b
           s == g \o t
           n == Len(g)
<1>1. Joins(t, v, b) /\ Joins(s, g, t)
  <2>1. IsSequence(g) /\ IsSequence(v) /\ IsSequence(b)
    BY DEF AllGates, IsBuild, BoardPart
  <2>2. Joins(t, v, b)
    BY <2>1, JoinsHolds, Zenon
  <2>3. IsSequence(t)
    BY <2>2 DEF Joins
  <2> QED
    BY <2>1, <2>2, <2>3, JoinsHolds, Zenon
<1> HIDE DEF t, s
<1>2. n \in Nat /\ Len(v) = 6 /\ Len(t) = 6 + Len(b) /\ Len(s) = n + Len(t) /\ Len(b) \in Nat
  <2>1. Len(g) \in Nat /\ Len(b) \in Nat /\ Len(s) = Len(g) + Len(t)
    BY <1>1, Zenon DEF Joins
  <2>2. Len(v) = 6 /\ Len(t) = Len(v) + Len(b)
    BY <1>1, Zenon DEF Joins, IsBuild
  <2> QED
    BY <2>1, <2>2
<1>3. \A i \in 1 .. n : s[i] = g[i]
  BY <1>1, <1>2 DEF Joins
<1>4. \A i \in 1 .. 6 : s[n + i] = v[i]
  <2> TAKE i \in 1 .. 6
  <2>1. i \in 1 .. Len(t) /\ i <= Len(v)
    BY <1>2
  <2>2. t[i] = v[i] /\ s[n + i] = t[i]
    BY <1>1, <2>1 DEF Joins
  <2> QED
    BY <2>2
<1>5. ASSUME NEW i \in 1 .. Len(s), i > n + 6
      PROVE  s[i].do \in BoardDos /\ s[i].stage # "trial"
  <2>1. s[i] = t[i - n] /\ i - n \in 1 .. Len(t)
    BY <1>1, <1>2, <1>5 DEF Joins
  <2>2. t[i - n] = b[(i - n) - 6] /\ (i - n) - 6 \in 1 .. Len(b)
    BY <1>1, <1>2, <1>5, <2>1 DEF Joins
  <2> QED
    BY <2>1, <2>2 DEF BoardPart
<1>6. /\ s[n + 1] = v[1] /\ s[n + 2] = v[2] /\ s[n + 3] = v[3]
      /\ s[n + 4] = v[4] /\ s[n + 5] = v[5] /\ s[n + 6] = v[6]
  BY <1>4
<1>7. ASSUME NEW i \in 1 .. n
      PROVE  s[i].do \in GateDos /\ s[i].stage # "trial"
  BY <1>3 DEF AllGates, GateStep
<1>8. \A i \in 1 .. Len(s) : s[i].stage # "trial"
  <2> TAKE i \in 1 .. Len(s)
  <2>1. CASE i <= n
    BY <1>2, <1>7, <2>1
  <2>2. CASE i - n \in 1 .. 6
    <3>1. PICK j \in 1 .. 6 : i = n + j
      BY <1>2, <2>2
    <3>2. s[i] = v[j] /\ v[j].stage # "trial"
      BY <1>4, <3>1 DEF IsBuild
    <3> QED
      BY <3>2
  <2>3. CASE i > n + 6
    BY <1>5, <2>3
  <2> QED
    BY <1>2, <2>1, <2>2, <2>3
<1>9. \A i \in 1 .. n + 2 : s[i].do \in GateDos \cup {"create"}
  <2> TAKE i \in 1 .. n + 2
  <2>1. CASE i <= n
    BY <1>2, <1>7, <2>1
  <2>2. CASE i = n + 1
    BY <1>6, <2>2 DEF IsBuild, GateDos
  <2>3. CASE i = n + 2
    BY <1>6, <2>3 DEF IsBuild
  <2> QED
    BY <1>2, <2>1, <2>2, <2>3
<1>10. \A i \in n + 7 .. Len(s) : s[i].do \in BoardDos
  BY <1>2, <1>5
<1>11. IsSequence(s) /\ n + 6 <= Len(s)
  BY <1>1, <1>2 DEF Joins
<1>12. /\ s[n + 3].do = "synth" /\ s[n + 4].do = "write_bit" /\ s[n + 5].do = "write_id"
       /\ s[n + 6].do = "timing"
  BY <1>6 DEF IsBuild
<1>13. Builds(s, n)
  BY <1>8, <1>9, <1>10, <1>11, <1>12, Zenon DEF Builds
<1> QED
  BY <1>13 DEF s, t

\* No step before the board has a word in what comes behind.
LEMMA PrepIsSilent ==
  ASSUME NEW x, PrepStep(x)
  PROVE  /\ x.stage # "trial" /\ x.slot \notin {"smoke", "final"}
         /\ x.do \notin {"trial_end", "program", "verdict", "check", "capture", "reuse", "stop"}
         /\ x.do = "try_sim" => x.stage \in LongNames
         /\ \A slot : ~Fills(x, slot) /\ ~Asks(x, slot)
BY DEF PrepStep, GateStep, BuildStep, GateDos, BuildDos, Fills, Asks

\* A straight board part stays one behind a build.
LEMMA StraightBehindPrep ==
  ASSUME NEW r, NEW p, NEW b, NEW a, Joins(r, p, b), AllPrep(p), Straight(b, a),
         Doing(b, {"write_bit", "write_id", "stop"}) = {}
  PROVE  Straight(r, a)
<1> DEFINE m == Len(p)
           n == Len(b)
<1>1. m \in Nat /\ n \in Nat /\ Len(r) = m + n
  BY DEF Joins
<1>2. ASSUME NEW i \in 1 .. Len(r), i <= m
      PROVE  PrepStep(r[i])
  <2>1. i \in 1 .. Len(p) /\ r[i] = p[i]
    BY <1>1, <1>2 DEF Joins
  <2> QED
    BY <2>1, Zenon DEF AllPrep
<1>3. ASSUME NEW i \in 1 .. Len(r), i > m
      PROVE  i - m \in 1 .. n /\ r[i] = b[i - m]
  BY <1>3 DEF Joins
<1>4. ASSUME NEW i \in 1 .. n
      PROVE  m + i \in 1 .. Len(r) /\ r[m + i] = b[i]
  BY <1>4 DEF Joins
<1>5. ASSUME NEW i \in 1 .. Len(r),
             r[i].do \in {"program", "verdict", "check", "capture", "reuse", "stop"}
               \/ r[i].slot \in {"smoke", "final"}
      PROVE  i > m
  BY <1>1, <1>2, <1>5, PrepIsSilent
<1> HIDE DEF m, n
<1>6. IsSequence(r)
  BY DEF Joins
<1>7. \A i \in 1 .. Len(r) : r[i].stage # "trial" /\ r[i].do # "trial_end"
  <2> TAKE i \in 1 .. Len(r)
  <2>1. CASE i <= m
    BY <1>2, <2>1, PrepIsSilent
  <2>2. CASE i > m
    <3>1. i - m \in 1 .. Len(b) /\ r[i] = b[i - m]
      BY <1>3, <2>2 DEF n
    <3> QED
      BY <3>1, Zenon DEF Straight
  <2> QED
    BY <1>1, <2>1, <2>2
<1>8. \A i \in Doing(r, {"program"}), j \in Doing(r, {"write_bit", "write_id"}) : j < i
  <2> TAKE i \in Doing(r, {"program"}), j \in Doing(r, {"write_bit", "write_id"})
  <2>1. i \in 1 .. Len(r) /\ j \in 1 .. Len(r) /\ i > m
    BY <1>5 DEF Doing
  <2>2. CASE j > m
    <3>1. j - m \in 1 .. Len(b) /\ b[j - m].do \in {"write_bit", "write_id", "stop"}
      BY <1>3, <2>1, <2>2 DEF n, Doing
    <3> QED
      BY <3>1, Zenon DEF Doing
  <2> QED
    BY <1>1, <2>1, <2>2
<1>9. \A i \in Doing(r, {"try_sim"}) : r[i].stage \in LongNames
  <2> TAKE i \in Doing(r, {"try_sim"})
  <2>1. i \in 1 .. Len(r) /\ r[i].do = "try_sim"
    BY DEF Doing
  <2>2. CASE i <= m
    BY <1>2, <2>1, <2>2, PrepIsSilent
  <2>3. CASE i > m
    <3>1. i - m \in Doing(b, {"try_sim"}) /\ r[i] = b[i - m]
      BY <1>3, <2>1, <2>3 DEF n, Doing
    <3> QED
      BY <3>1, Zenon DEF Straight
  <2> QED
    BY <1>1, <2>1, <2>2, <2>3
<1>10. \A i \in Doing(r, {"verdict"}) : i = Len(r) /\ r[i].slot = "final"
  <2> TAKE i \in Doing(r, {"verdict"})
  <2>1. i \in 1 .. Len(r) /\ r[i].do = "verdict"
    BY DEF Doing
  <2>2. i > m
    BY <1>5, <2>1
  <2>3. i - m \in Doing(b, {"verdict"}) /\ r[i] = b[i - m]
    BY <1>3, <2>1, <2>2 DEF n, Doing
  <2>4. i - m = n /\ b[i - m].slot = "final"
    BY <2>3, Zenon DEF Straight, n
  <2> QED
    BY <1>1, <2>1, <2>3, <2>4
<1>11. Doing(r, {"stop"}) = {}
  <2> SUFFICES ASSUME NEW i \in Doing(r, {"stop"}) PROVE FALSE
    OBVIOUS
  <2>1. i \in 1 .. Len(r) /\ r[i].do = "stop"
    BY DEF Doing
  <2>2. i - m \in Doing(b, {"write_bit", "write_id", "stop"})
    BY <1>3, <1>5, <2>1 DEF n, Doing
  <2> QED
    BY <2>2
<1>12. (\E i \in 1 .. Len(r) : r[i].slot = "final") => Doing(r, {"program"}) # {}
  <2> SUFFICES ASSUME NEW i \in 1 .. Len(r), r[i].slot = "final"
               PROVE  Doing(r, {"program"}) # {}
    OBVIOUS
  <2>1. i - m \in 1 .. Len(b) /\ b[i - m].slot = "final"
    BY <1>3, <1>5 DEF n
  <2>2. PICK k \in Doing(b, {"program"}) : TRUE
    BY <2>1, Zenon DEF Straight
  <2>3. m + k \in Doing(r, {"program"})
    BY <1>4, <2>2 DEF Doing, n
  <2> QED
    BY <2>3
<1>13. WellAsked(b, a)
  BY DEF Straight
<1>14. \A i \in Doing(r, {"check", "verdict", "capture"}) : r[i].slot \in {"smoke", "final"}
  <2> TAKE i \in Doing(r, {"check", "verdict", "capture"})
  <2>1. i \in 1 .. Len(r) /\ r[i].do \in {"check", "verdict", "capture"}
    BY DEF Doing
  <2>2. i - m \in Doing(b, {"check", "verdict", "capture"}) /\ r[i] = b[i - m]
    BY <1>3, <1>5, <2>1 DEF n, Doing
  <2> QED
    BY <1>13, <2>2, Zenon DEF WellAsked
<1>15. ASSUME NEW i \in 1 .. Len(r), NEW slot \in {"smoke", "final"}, Fills(r[i], slot),
              NEW j \in 1 .. i - 1
       PROVE  ~Fills(r[j], slot) /\ ~Asks(r[j], slot)
  <2>1. i > m
    BY <1>5, <1>15 DEF Fills
  <2>2. i - m \in 1 .. Len(b) /\ Fills(b[i - m], slot)
    BY <1>3, <1>15, <2>1 DEF n
  <2>3. j \in 1 .. Len(r)
    BY <1>1
  <2>4. CASE j <= m
    BY <1>2, <2>3, <2>4, PrepIsSilent
  <2>5. CASE j > m
    <3>1. j - m \in 1 .. (i - m) - 1 /\ r[j] = b[j - m]
      BY <1>1, <1>3, <2>3, <2>5
    <3>2. ~Fills(b[j - m], slot) /\ ~Asks(b[j - m], slot)
      BY <1>13, <2>2, <3>1, Zenon DEF WellAsked
    <3> QED
      BY <3>1, <3>2
  <2> QED
    BY <1>1, <2>3, <2>4, <2>5
<1>16. ASSUME NEW i \in Doing(r, {"capture"})
       PROVE  \E j \in i + 1 .. Len(r) :
                /\ Asks(r[j], r[i].slot)
                /\ \A f \in CaptureFacts(Mode(a)) \ Implied(r[j].needs) :
                     <<r[i].slot, f>> \in Tolerated(a)
  <2>1. i \in 1 .. Len(r) /\ r[i].do = "capture"
    BY DEF Doing
  <2>2. i > m
    BY <1>5, <2>1
  <2>3. i - m \in Doing(b, {"capture"}) /\ r[i] = b[i - m]
    BY <1>3, <2>1, <2>2 DEF n, Doing
  <2>4. PICK k \in (i - m) + 1 .. Len(b) :
          /\ Asks(b[k], b[i - m].slot)
          /\ \A f \in CaptureFacts(Mode(a)) \ Implied(b[k].needs) :
               <<b[i - m].slot, f>> \in Tolerated(a)
    BY <1>13, <2>3, Zenon DEF WellAsked
  <2>5. k \in 1 .. n /\ m + k \in i + 1 .. Len(r)
    BY <1>1, <1>3, <2>1, <2>2, <2>4 DEF n
  <2>6. r[m + k] = b[k]
    BY <1>4, <2>5
  <2> QED
    BY <2>3, <2>4, <2>5, <2>6
<1>17. WellAsked(r, a)
  BY <1>14, <1>15, <1>16 DEF WellAsked
<1> QED
  BY <1>6, <1>7, <1>8, <1>9, <1>10, <1>11, <1>12, <1>17, Zenon DEF Straight

\* A plan that never comes to the board is straight.
LEMMA StraightWithoutBoard ==
  ASSUME NEW s, NEW a, IsSequence(s), \A i \in 1 .. Len(s) : GateStep(s[i]) \/ BuildStep(s[i])
  PROVE  Straight(s, a)
<1>1. \A i \in 1 .. Len(s) :
        /\ s[i].stage # "trial" /\ s[i].slot = "none"
        /\ s[i].do \notin {"trial_end", "program", "verdict", "check", "capture", "reuse"}
        /\ s[i].do = "try_sim" => s[i].stage \in LongNames
  BY DEF GateStep, BuildStep, GateDos, BuildDos
<1>2. Doing(s, {"program"}) = {} /\ Doing(s, {"verdict"}) = {} /\ Doing(s, {"capture"}) = {}
      /\ Doing(s, {"check", "verdict", "capture"}) = {}
  BY <1>1 DEF Doing
<1>3. \A i \in 1 .. Len(s), slot \in {"smoke", "final"} : ~Fills(s[i], slot)
  BY <1>1 DEF Fills
<1>4. WellAsked(s, a)
  BY <1>2, <1>3, Zenon DEF WellAsked
<1>5. \A i \in Doing(s, {"try_sim"}) : s[i].stage \in LongNames
  BY <1>1 DEF Doing
<1>6. \A i \in 1 .. Len(s) : s[i].slot # "final"
  BY <1>1
<1> QED
  BY <1>1, <1>2, <1>4, <1>5, <1>6 DEF Straight

-----------------------------------------------------------------------------
(* Board parts with one capture.                                            *)

Quiet(x) ==
  /\ x.do \in {"gate", "named_gate", "program", "must", "find_bit", "find_payloads"}
  /\ x.stage # "trial" /\ x.slot = "none"

\* x asks for all of slot that a run may not miss.
Settles(x, slot, a) ==
  /\ Asks(x, slot) /\ x.stage # "trial"
  /\ \A f \in CaptureFacts(Mode(a)) \ Implied(x.needs) : <<slot, f>> \in Tolerated(a)

OneCapture(b, n, a) ==
  /\ IsSequence(b) /\ n \in Nat /\ Len(b) = n + 2
  /\ \A i \in 1 .. n : Quiet(b[i])
  /\ \E i \in 1 .. n : b[i].do = "program"
  /\ b[n + 1].do = "capture" /\ b[n + 1].stage # "trial" /\ b[n + 1].slot = "final"
  /\ Settles(b[n + 2], "final", a)

\* What Straight asks of a board part, its steps named one by one.
LEMMA OneCaptureIsStraight ==
  ASSUME NEW b, NEW n, NEW a, OneCapture(b, n, a)
  PROVE  Straight(b, a)
<1>1. n \in Nat /\ Len(b) = n + 2 /\ IsSequence(b)
  BY DEF OneCapture
<1>2. \A i \in 1 .. Len(b) : i \in 1 .. n \/ i = n + 1 \/ i = n + 2
  BY <1>1
<1>3. ASSUME NEW i \in 1 .. n
      PROVE  /\ b[i].stage # "trial" /\ b[i].slot = "none"
             /\ b[i].do \in {"gate", "named_gate", "program", "must", "find_bit", "find_payloads"}
  BY DEF OneCapture, Quiet
<1>4. b[n + 1].do = "capture" /\ b[n + 1].stage # "trial" /\ b[n + 1].slot = "final"
  BY DEF OneCapture
<1>5. /\ Asks(b[n + 2], "final") /\ b[n + 2].stage # "trial" /\ b[n + 2].slot = "final"
      /\ b[n + 2].do \in {"check", "verdict"}
      /\ \A f \in CaptureFacts(Mode(a)) \ Implied(b[n + 2].needs) :
           <<"final", f>> \in Tolerated(a)
  BY DEF OneCapture, Settles, Asks
<1>6. \A i \in 1 .. Len(b) : b[i].stage # "trial" /\ b[i].do # "trial_end"
  BY <1>2, <1>3, <1>4, <1>5
<1>7. /\ Doing(b, {"write_bit", "write_id"}) = {} /\ Doing(b, {"try_sim"}) = {}
      /\ Doing(b, {"stop"}) = {}
  BY <1>2, <1>3, <1>4, <1>5 DEF Doing
<1>8. \A i \in Doing(b, {"verdict"}) : i = Len(b) /\ b[i].slot = "final"
  BY <1>1, <1>2, <1>3, <1>4, <1>5 DEF Doing
<1>9. Doing(b, {"program"}) # {}
  BY <1>1 DEF Doing, OneCapture
<1>10. \A i \in Doing(b, {"check", "verdict", "capture"}) : b[i].slot \in {"smoke", "final"}
  BY <1>2, <1>3, <1>4, <1>5 DEF Doing
<1>11. ASSUME NEW i \in 1 .. Len(b), NEW slot \in {"smoke", "final"}, Fills(b[i], slot)
       PROVE  i = n + 1 /\ slot = "final"
  BY <1>2, <1>3, <1>4, <1>5, <1>11 DEF Fills
<1>12. \A j \in 1 .. n, slot \in {"smoke", "final"} : ~Fills(b[j], slot) /\ ~Asks(b[j], slot)
  BY <1>3 DEF Fills, Asks
<1>13. \A i \in Doing(b, {"capture"}) : i = n + 1
  BY <1>2, <1>3, <1>5 DEF Doing
<1>14. ASSUME NEW i \in 1 .. Len(b), NEW slot \in {"smoke", "final"}, Fills(b[i], slot),
              NEW j \in 1 .. i - 1
       PROVE  ~Fills(b[j], slot) /\ ~Asks(b[j], slot)
  <2>1. j \in 1 .. n
    BY <1>1, <1>11, <1>14
  <2> QED
    BY <1>12, <2>1
<1>15. n + 2 \in (n + 1) + 1 .. Len(b)
  BY <1>1
<1>16. WellAsked(b, a)
  BY <1>4, <1>5, <1>10, <1>13, <1>14, <1>15, Zenon DEF WellAsked
<1> QED
  BY <1>1, <1>6, <1>7, <1>8, <1>9, <1>16, Zenon DEF Straight

-----------------------------------------------------------------------------
(* Board parts with a smoke capture before the final one.                   *)

TwoCaptures(b, k, n, a) ==
  /\ IsSequence(b) /\ k \in Nat /\ n \in Nat /\ k + 1 < n + 1 /\ Len(b) = n + 2
  /\ \A i \in 1 .. n : i # k /\ i # k + 1 => Quiet(b[i])
  /\ \E i \in 1 .. n : i < k /\ b[i].do = "program"
  /\ b[k].do = "capture" /\ b[k].stage # "trial" /\ b[k].slot = "smoke"
  /\ b[k + 1].do = "check" /\ Settles(b[k + 1], "smoke", a)
  /\ Fills(b[n + 1], "final") /\ b[n + 1].stage # "trial"
  /\ Settles(b[n + 2], "final", a)

LEMMA TwoCapturesIsStraight ==
  ASSUME NEW b, NEW k, NEW n, NEW a, TwoCaptures(b, k, n, a)
  PROVE  Straight(b, a)
<1>1. n \in Nat /\ k \in Nat /\ k + 1 < n + 1 /\ Len(b) = n + 2 /\ IsSequence(b) /\ 1 <= k
  BY DEF TwoCaptures
<1>2. \A i \in 1 .. Len(b) : i \in (1 .. n) \ {k, k + 1} \/ i \in {k, k + 1, n + 1, n + 2}
  BY <1>1
<1>3. ASSUME NEW i \in (1 .. n) \ {k, k + 1}
      PROVE  /\ b[i].stage # "trial" /\ b[i].slot = "none"
             /\ b[i].do \in {"gate", "named_gate", "program", "must", "find_bit", "find_payloads"}
  BY DEF TwoCaptures, Quiet
<1>4. b[k].do = "capture" /\ b[k].stage # "trial" /\ b[k].slot = "smoke"
  BY DEF TwoCaptures
<1>5. /\ b[k + 1].stage # "trial" /\ b[k + 1].slot = "smoke" /\ b[k + 1].do = "check"
      /\ \A f \in CaptureFacts(Mode(a)) \ Implied(b[k + 1].needs) :
           <<"smoke", f>> \in Tolerated(a)
  BY DEF TwoCaptures, Settles, Asks
<1>6. /\ b[n + 1].stage # "trial"
      /\ \/ b[n + 1].do = "capture" /\ b[n + 1].slot = "final"
         \/ b[n + 1].do = "reuse"
  BY DEF TwoCaptures, Fills
<1>7. /\ b[n + 2].stage # "trial" /\ b[n + 2].slot = "final"
      /\ b[n + 2].do \in {"check", "verdict"}
      /\ \A f \in CaptureFacts(Mode(a)) \ Implied(b[n + 2].needs) :
           <<"final", f>> \in Tolerated(a)
  BY DEF TwoCaptures, Settles, Asks
<1>8. \A i \in 1 .. Len(b) : b[i].stage # "trial" /\ b[i].do # "trial_end"
  BY <1>2, <1>3, <1>4, <1>5, <1>6, <1>7
<1>9. /\ Doing(b, {"write_bit", "write_id"}) = {} /\ Doing(b, {"try_sim"}) = {}
      /\ Doing(b, {"stop"}) = {}
  BY <1>2, <1>3, <1>4, <1>5, <1>6, <1>7 DEF Doing
<1>10. \A i \in Doing(b, {"verdict"}) : i = Len(b) /\ b[i].slot = "final"
  BY <1>1, <1>2, <1>3, <1>4, <1>5, <1>6, <1>7 DEF Doing
<1>11. Doing(b, {"program"}) # {}
  <2>1. PICK i \in 1 .. n : b[i].do = "program"
    BY DEF TwoCaptures
  <2> QED
    BY <1>1, <2>1 DEF Doing
<1>12. \A i \in Doing(b, {"check", "verdict", "capture"}) : b[i].slot \in {"smoke", "final"}
  BY <1>2, <1>3, <1>4, <1>5, <1>6, <1>7 DEF Doing
<1>13. ASSUME NEW i \in 1 .. Len(b), NEW slot \in {"smoke", "final"}, Fills(b[i], slot)
       PROVE  (i = n + 1 /\ slot = "final") \/ (i = k /\ slot = "smoke")
  BY <1>2, <1>3, <1>4, <1>5, <1>6, <1>7, <1>13 DEF Fills
<1>14. \A j \in (1 .. n) \ {k, k + 1}, slot \in {"smoke", "final"} :
         ~Fills(b[j], slot) /\ ~Asks(b[j], slot)
  BY <1>3 DEF Fills, Asks
<1>15. /\ ~Fills(b[k], "final") /\ ~Asks(b[k], "final")
       /\ ~Fills(b[k + 1], "final") /\ ~Asks(b[k + 1], "final")
  BY <1>4, <1>5 DEF Fills, Asks
<1>16. ASSUME NEW i \in 1 .. Len(b), NEW slot \in {"smoke", "final"}, Fills(b[i], slot),
              NEW j \in 1 .. i - 1
       PROVE  ~Fills(b[j], slot) /\ ~Asks(b[j], slot)
  <2>1. CASE i = k
    <3>1. j \in (1 .. n) \ {k, k + 1}
      BY <1>1, <2>1
    <3> QED
      BY <1>14, <3>1
  <2>2. CASE i = n + 1 /\ slot = "final"
    <3>1. j \in (1 .. n) \ {k, k + 1} \/ j = k \/ j = k + 1
      BY <1>1, <2>2
    <3> QED
      BY <1>14, <1>15, <2>2, <3>1
  <2> QED
    BY <1>13, <1>16, <2>1, <2>2
<1>17. ASSUME NEW i \in Doing(b, {"capture"})
       PROVE  \E j \in i + 1 .. Len(b) :
                /\ Asks(b[j], b[i].slot)
                /\ \A f \in CaptureFacts(Mode(a)) \ Implied(b[j].needs) :
                     <<b[i].slot, f>> \in Tolerated(a)
  <2>1. i \in 1 .. Len(b) /\ b[i].do = "capture"
    BY DEF Doing
  <2>2. i = k \/ (i = n + 1 /\ b[i].slot = "final")
    BY <1>2, <1>3, <1>5, <1>6, <1>7, <2>1
  <2>3. CASE i = k
    <3>1. k + 1 \in i + 1 .. Len(b)
      BY <1>1, <2>3
    <3>2. Asks(b[k + 1], "smoke")
      BY DEF TwoCaptures, Settles
    <3> QED
      BY <1>4, <1>5, <2>3, <3>1, <3>2
  <2>4. CASE i = n + 1 /\ b[i].slot = "final"
    <3>1. n + 2 \in i + 1 .. Len(b)
      BY <1>1, <2>4
    <3>2. Asks(b[n + 2], "final")
      BY DEF TwoCaptures, Settles
    <3> QED
      BY <1>7, <2>4, <3>1, <3>2
  <2> QED
    BY <2>2, <2>3, <2>4
<1>18. WellAsked(b, a)
  BY <1>12, <1>16, <1>17 DEF WellAsked
<1> QED
  BY <1>1, <1>8, <1>9, <1>10, <1>11, <1>18, Zenon DEF Straight

-----------------------------------------------------------------------------
(* The board part of every mode asks for what it should.                    *)

\* A reader asks for all its capture can report, up to what is tolerated.
LEMMA NeedsCover ==
  ASSUME NEW a
  PROVE  /\ Mode(a) = "transport" => CaptureFacts(Mode(a)) \subseteq TransportNeeds
         /\ Mode(a) \in {"early", "early_board"} => CaptureFacts(Mode(a)) \subseteq EarlyNeeds
         /\ Mode(a) \in {"selftest", "selftest_board"} =>
              CaptureFacts(Mode(a)) \subseteq SelftestNeeds
         /\ Mode(a) = "steps" => CaptureFacts(Mode(a)) \subseteq StepsNeeds
         /\ Mode(a) = "step2" => CaptureFacts(Mode(a)) \subseteq Step2Needs
         /\ Mode(a) = "fetch_debug" => CaptureFacts(Mode(a)) \subseteq FetchNeeds
         /\ Mode(a) = "bridge" =>
              CaptureFacts(Mode(a)) \subseteq BridgeNeeds \cup {"ready"}
         /\ Mode(a) = "standard" =>
              /\ CaptureFacts(Mode(a)) \subseteq StandardNeeds \cup {"counters"}
              /\ CaptureFacts(Mode(a)) \subseteq SmokeNeeds \cup {"counters"}
BY DEF CaptureFacts, TransportNeeds, EarlyNeeds, SelftestNeeds, StepsNeeds, Step2Needs,
       FetchNeeds, BridgeNeeds, StandardNeeds, SmokeNeeds

LEMMA SettlesAll ==
  ASSUME NEW x, NEW a, NEW slot, Asks(x, slot), x.stage # "trial",
         CaptureFacts(Mode(a)) \subseteq x.needs
  PROVE  Settles(x, slot, a)
BY DEF Settles, Implied

LEMMA CountersTolerated ==
  ASSUME NEW a
  PROVE  /\ <<"smoke", "counters">> \in Tolerated(a) /\ <<"final", "counters">> \in Tolerated(a)
         /\ Mode(a) = "bridge" /\ a.impl # "board-only" => <<"final", "ready">> \in Tolerated(a)
         /\ Mode(a) = "standard" /\ a.impl = "board-only" =>
              <<"final", "not_bad">> \in Tolerated(a)
<1>1. \A s \in {"smoke", "final"}, f \in {"counters"} : <<s, f>> \in Tolerated(a)
  BY DEF Tolerated
<1>2. Mode(a) = "bridge" /\ a.impl # "board-only" => <<"final", "ready">> \in Tolerated(a)
  BY DEF Tolerated
<1>3. Mode(a) = "standard" /\ a.impl = "board-only" => <<"final", "not_bad">> \in Tolerated(a)
  BY DEF Tolerated
<1> QED
  BY <1>1, <1>2, <1>3

\* A board part that asks for needs about one capture.
LEMMA BridgeBoardAsks ==
  ASSUME NEW a, NEW needs,
         \A f \in CaptureFacts(Mode(a)) \ Implied(needs) : <<"final", f>> \in Tolerated(a)
  PROVE  OneCapture(BridgeBoard(needs), 2, a) /\ BoardPart(BridgeBoard(needs))
<1> DEFINE b == BridgeBoard(needs)
<1>1. IsSequence(b) /\ Len(b) = 4
  BY DEF BridgeBoard, IsSequence
<1>2. /\ b[1] = Open({"pyserial", "port"}) /\ b[2] = Program("program_jtag")
      /\ b[3] = Capture("uart_load_and_capture", "final") /\ b[4] = Check("final", needs)
  BY DEF BridgeBoard
<1> HIDE DEF b
<1>3. /\ b[1].do = "gate" /\ b[1].stage # "trial" /\ b[1].slot = "none"
      /\ b[2].do = "program" /\ b[2].stage # "trial" /\ b[2].slot = "none"
      /\ b[3].do = "capture" /\ b[3].stage # "trial" /\ b[3].slot = "final"
      /\ b[4].do = "check" /\ b[4].stage # "trial" /\ b[4].slot = "final" /\ b[4].needs = needs
  BY <1>2 DEF Open, Program, Capture, Check, Step
<1>4. Settles(b[2 + 2], "final", a)
  BY <1>3 DEF Settles, Asks
<1>5. \A i \in 1 .. 2 : Quiet(b[i])
  BY <1>3 DEF Quiet
<1>6. OneCapture(b, 2, a)
  BY <1>1, <1>3, <1>4, <1>5 DEF OneCapture
<1>7. BoardPart(b)
  BY <1>1, <1>3 DEF BoardPart, BoardDos
<1> QED
  BY <1>6, <1>7 DEF b

LEMMA TransportBoardAsks ==
  ASSUME NEW a, Mode(a) = "transport"
  PROVE  OneCapture(TransportBoard, 2, a) /\ BoardPart(TransportBoard)
<1>1. TransportBoard = BridgeBoard(TransportNeeds)
  BY DEF TransportBoard, BridgeBoard
<1>2. CaptureFacts(Mode(a)) \ Implied(TransportNeeds) = {}
  BY NeedsCover DEF Implied
<1> QED
  BY <1>1, <1>2, BridgeBoardAsks

LEMMA EarlyBoardAsks ==
  ASSUME NEW a, Mode(a) = "early"
  PROVE  OneCapture(EarlyBoard, 2, a) /\ BoardPart(EarlyBoard)
<1> DEFINE b == EarlyBoard
<1>1. IsSequence(b) /\ Len(b) = 4
  BY DEF EarlyBoard, IsSequence
<1>2. /\ b[1].do = "gate" /\ b[1].stage # "trial" /\ b[1].slot = "none"
      /\ b[2].do = "program" /\ b[2].stage # "trial" /\ b[2].slot = "none"
      /\ b[3].do = "capture" /\ b[3].stage # "trial" /\ b[3].slot = "final"
      /\ b[4].do = "check" /\ b[4].stage # "trial" /\ b[4].slot = "final"
      /\ b[4].needs = EarlyNeeds
  BY DEF EarlyBoard, Open, Program, Capture, Check, Step
<1> HIDE DEF b
<1>3. Settles(b[2 + 2], "final", a)
  BY <1>2, SettlesAll, NeedsCover DEF Asks
<1>4. \A i \in 1 .. 2 : Quiet(b[i])
  BY <1>2 DEF Quiet
<1>5. OneCapture(b, 2, a)
  BY <1>1, <1>2, <1>3, <1>4 DEF OneCapture
<1>6. BoardPart(b)
  BY <1>1, <1>2 DEF BoardPart, BoardDos
<1> QED
  BY <1>5, <1>6 DEF b

LEMMA FetchBoardAsks ==
  ASSUME NEW a, Mode(a) = "fetch_debug"
  PROVE  OneCapture(FetchBoard, 3, a) /\ BoardPart(FetchBoard)
<1> DEFINE b == FetchBoard
<1>1. IsSequence(b) /\ Len(b) = 5
  BY DEF FetchBoard, IsSequence
<1>2. /\ b[1].do = "gate" /\ b[1].stage # "trial" /\ b[1].slot = "none"
      /\ b[2].do = "program" /\ b[2].stage # "trial" /\ b[2].slot = "none"
      /\ b[3].do = "gate" /\ b[3].stage # "trial" /\ b[3].slot = "none"
      /\ b[4].do = "capture" /\ b[4].stage # "trial" /\ b[4].slot = "final"
      /\ b[5].do = "check" /\ b[5].stage # "trial" /\ b[5].slot = "final"
      /\ b[5].needs = FetchNeeds
  BY DEF FetchBoard, Open, Gate, Program, Capture, Check, Step
<1> HIDE DEF b
<1>3. Settles(b[3 + 2], "final", a)
  BY <1>2, SettlesAll, NeedsCover DEF Asks
<1>4. \A i \in 1 .. 3 : Quiet(b[i])
  BY <1>2 DEF Quiet
<1>5. OneCapture(b, 3, a)
  BY <1>1, <1>2, <1>3, <1>4 DEF OneCapture
<1>6. BoardPart(b)
  BY <1>1, <1>2 DEF BoardPart, BoardDos
<1> QED
  BY <1>5, <1>6 DEF b

\* One step and then four.
LEMMA OneAndFour ==
  ASSUME NEW x, NEW t, IsSequence(t), Len(t) = 4
  PROVE  /\ IsSequence(<<x>> \o t) /\ Len(<<x>> \o t) = 5
         /\ (<<x>> \o t)[1] = x
         /\ \A i \in 1 .. 4 : (<<x>> \o t)[1 + i] = t[i]
<1> DEFINE s == <<x>>
<1>1. IsSequence(s) /\ Len(s) = 1 /\ s[1] = x
  BY DEF IsSequence
<1> HIDE DEF s
<1>2. Joins(s \o t, s, t)
  BY <1>1, JoinsHolds, Zenon
<1> DEFINE r == s \o t
<1>3. Joins(r, s, t)
  BY <1>2
<1> HIDE DEF r
<1>4. IsSequence(r) /\ Len(r) = 5
  BY <1>1, <1>3 DEF Joins
<1>5. r[1] = x
  BY <1>1, <1>3, <1>4 DEF Joins
<1>6. \A i \in 1 .. 4 : r[1 + i] = t[i]
  BY <1>1, <1>3 DEF Joins
<1>7. r = <<x>> \o t
  BY DEF r, s
<1> QED
  BY <1>4, <1>5, <1>6, <1>7, Zenon

\* The selftest behind its opening step.
SelftestFrom(b, x, a) ==
  b = <<x>> \o SelftestSession /\ Mode(a) \in {"selftest", "selftest_board"}

LEMMA SelftestAsks ==
  ASSUME NEW a, NEW x, Quiet(x), NEW b, SelftestFrom(b, x, a)
  PROVE  OneCapture(b, 3, a) /\ b[1] = x /\ \A i \in 2 .. 5 : b[i].do \in BoardDos
<1> DEFINE t == SelftestSession
           r == <<x>> \o t
<1>1. IsSequence(t) /\ Len(t) = 4
  BY DEF SelftestSession, IsSequence
<1>2. /\ t[1].do = "named_gate" /\ t[1].stage # "trial" /\ t[1].slot = "none"
      /\ t[2].do = "program" /\ t[2].stage # "trial" /\ t[2].slot = "none"
      /\ t[3].do = "capture" /\ t[3].stage # "trial" /\ t[3].slot = "final"
      /\ t[4].do = "check" /\ t[4].stage # "trial" /\ t[4].slot = "final"
      /\ t[4].needs = SelftestNeeds
  BY DEF SelftestSession, Program, Capture, Check, Step
<1> HIDE DEF t
<1>3. IsSequence(r) /\ Len(r) = 5 /\ r[1] = x /\ \A i \in 1 .. 4 : r[1 + i] = t[i]
  BY <1>1, OneAndFour
<1> HIDE DEF r
<1>4. r[2] = t[1] /\ r[3] = t[2] /\ r[4] = t[3] /\ r[5] = t[4]
  <2>1. r[1 + 1] = t[1] /\ r[1 + 2] = t[2] /\ r[1 + 3] = t[3] /\ r[1 + 4] = t[4]
    BY <1>3
  <2> QED
    BY <2>1
<1>5. Settles(r[3 + 2], "final", a)
  <2>1. Mode(a) \in {"selftest", "selftest_board"}
    BY DEF SelftestFrom
  <2> QED
    BY <1>2, <1>4, <2>1, SettlesAll, NeedsCover DEF Asks
<1>6. \A i \in 1 .. 3 : Quiet(r[i])
  <2>1. Quiet(r[1]) /\ Quiet(r[2]) /\ Quiet(r[3])
    BY <1>2, <1>3, <1>4 DEF Quiet
  <2> QED
    BY <2>1
<1>7. OneCapture(r, 3, a)
  BY <1>2, <1>3, <1>4, <1>5, <1>6 DEF OneCapture
<1>8. \A i \in 2 .. 5 : r[i].do \in BoardDos
  BY <1>2, <1>4 DEF BoardDos
<1>9. b = r
  BY DEF SelftestFrom, r, t
<1> QED
  BY <1>3, <1>7, <1>8, <1>9

LEMMA BridgeOnlyAsks ==
  ASSUME NEW a, NEW needs,
         \A f \in CaptureFacts(Mode(a)) \ Implied(needs) : <<"final", f>> \in Tolerated(a)
  PROVE  OneCapture(BridgeOnly(needs), 3, a)
<1> DEFINE b == BridgeOnly(needs)
<1>1. IsSequence(b) /\ Len(b) = 5
  BY DEF BridgeOnly, IsSequence
<1>2. /\ b[1].do = "find_bit" /\ b[1].stage # "trial" /\ b[1].slot = "none"
      /\ b[2].do = "gate" /\ b[2].stage # "trial" /\ b[2].slot = "none"
      /\ b[3].do = "program" /\ b[3].stage # "trial" /\ b[3].slot = "none"
      /\ b[4].do = "capture" /\ b[4].stage # "trial" /\ b[4].slot = "final"
      /\ b[5].do = "verdict" /\ b[5].stage # "trial" /\ b[5].slot = "final"
      /\ b[5].needs = needs
  BY DEF BridgeOnly, Gate, Program, Capture, Verdict, Step
<1> HIDE DEF b
<1>3. Settles(b[3 + 2], "final", a)
  BY <1>2 DEF Settles, Asks
<1>4. \A i \in 1 .. 3 : Quiet(b[i])
  BY <1>2 DEF Quiet
<1>5. OneCapture(b, 3, a)
  BY <1>1, <1>2, <1>3, <1>4 DEF OneCapture
<1> QED
  BY <1>5 DEF b

\* The smoke benchmark: six steps, the last two its capture and its check.
IsSmoke(s, a) ==
  /\ IsSequence(s) /\ Len(s) = 6
  /\ \A i \in 1 .. 4 : Quiet(s[i])
  /\ \E i \in 1 .. 4 : s[i].do = "program"
  /\ s[5].do = "capture" /\ s[5].stage # "trial" /\ s[5].slot = "smoke"
  /\ s[6].do = "check" /\ Settles(s[6], "smoke", a)

\* The baseline: a capture of its own, or the smoke benchmark's again.
IsBaseline(s) ==
  /\ IsSequence(s) /\ Len(s) \in Nat \ {0}
  /\ \A i \in 1 .. Len(s) : i # Len(s) => Quiet(s[i])
  /\ Fills(s[Len(s)], "final") /\ s[Len(s)].stage # "trial"

\* Three parts in a row: the places of each.
InThreeParts(r, s, t, z) ==
  /\ IsSequence(r) /\ Len(r) = Len(t) + 7
  /\ \A i \in 1 .. 6 : r[i] = s[i]
  /\ \A i \in 1 .. Len(t) : r[6 + i] = t[i]
  /\ r[Len(t) + 7] = z

LEMMA ThreeParts ==
  ASSUME NEW s, NEW t, NEW z, IsSequence(s), IsSequence(t), Len(s) = 6
  PROVE  InThreeParts((s \o t) \o <<z>>, s, t, z)
<1> DEFINE u == <<z>>
           q == s \o t
           r == q \o u
<1>1. IsSequence(u) /\ Len(u) = 1 /\ u[1] = z
  BY DEF IsSequence
<1> HIDE DEF u
<1>2. Joins(q, s, t)
  BY JoinsHolds, Zenon
<1> HIDE DEF q
<1>3. IsSequence(q)
  BY <1>2 DEF Joins
<1>4. Joins(r, q, u)
  BY <1>1, <1>3, JoinsHolds, Zenon
<1> HIDE DEF r
<1>5. Len(t) \in Nat /\ Len(q) = 6 + Len(t)
  BY <1>2 DEF Joins
<1>6. IsSequence(r) /\ Len(r) = Len(t) + 7
  BY <1>1, <1>4, <1>5 DEF Joins
<1>7. ASSUME NEW i \in 1 .. 6
      PROVE  r[i] = s[i]
  <2>1. i \in 1 .. Len(q) /\ i \in 1 .. Len(r) /\ i <= Len(s) /\ i <= Len(q)
    BY <1>5, <1>6
  <2>2. r[i] = q[i]
    BY <1>4, <2>1, Zenon DEF Joins
  <2>3. q[i] = s[i]
    BY <1>2, <2>1, Zenon DEF Joins
  <2> QED
    BY <2>2, <2>3
<1>8. ASSUME NEW i \in 1 .. Len(t)
      PROVE  r[6 + i] = t[i]
  <2>1. 6 + i \in 1 .. Len(q) /\ 6 + i \in 1 .. Len(r) /\ 6 + i <= Len(q)
    BY <1>5, <1>6
  <2>2. r[6 + i] = q[6 + i]
    BY <1>4, <2>1, Zenon DEF Joins
  <2>3. q[6 + i] = t[i]
    BY <1>2 DEF Joins
  <2> QED
    BY <2>2, <2>3
<1>9. r[Len(t) + 7] = z
  <2>1. 1 \in 1 .. Len(u) /\ Len(q) + 1 = Len(t) + 7
    BY <1>1, <1>5
  <2>2. r[Len(q) + 1] = u[1]
    BY <1>4, <2>1, Zenon DEF Joins
  <2> QED
    BY <1>1, <2>1, <2>2
<1>10. InThreeParts(r, s, t, z)
  BY <1>6, <1>7, <1>8, <1>9 DEF InThreeParts
<1> QED
  BY <1>10 DEF r, q, u

LEMMA SmokeThenBaseline ==
  ASSUME NEW s, NEW t, NEW z, NEW a, IsSmoke(s, a), IsBaseline(t), Settles(z, "final", a)
  PROVE  TwoCaptures((s \o t) \o <<z>>, 5, Len(t) + 5, a)
<1> DEFINE r == (s \o t) \o <<z>>
           n == Len(t) + 5
<1>1. IsSequence(s) /\ IsSequence(t) /\ Len(s) = 6
  BY DEF IsSmoke, IsBaseline
<1>0. InThreeParts(r, s, t, z)
  BY <1>1, ThreeParts, Zenon
<1> HIDE DEF r
<1>2. /\ IsSequence(r) /\ Len(r) = Len(t) + 7
      /\ \A i \in 1 .. 6 : r[i] = s[i]
      /\ \A i \in 1 .. Len(t) : r[6 + i] = t[i]
      /\ r[Len(t) + 7] = z
  BY <1>0 DEF InThreeParts
<1>3. Len(t) \in Nat /\ Len(t) > 0
  BY DEF IsBaseline
<1>4. n \in Nat /\ 5 + 1 < n + 1 /\ Len(r) = n + 2 /\ n + 1 = 6 + Len(t) /\ n + 2 = Len(t) + 7
  BY <1>2, <1>3
<1>5. r[5] = s[5] /\ r[6] = s[6]
  BY <1>2
<1>6. r[n + 1] = t[Len(t)]
  <2>1. Len(t) \in 1 .. Len(t)
    BY <1>3
  <2> QED
    BY <1>2, <1>4, <2>1, Zenon
<1>7. ASSUME NEW i \in 1 .. n, i # 5, i # 5 + 1
      PROVE  Quiet(r[i])
  <2>1. CASE i <= 4
    <3>1. i \in 1 .. 6 /\ i \in 1 .. 4
      BY <2>1, <1>4
    <3> QED
      BY <1>2, <3>1, Zenon DEF IsSmoke
  <2>2. CASE i > 6
    <3>1. PICK j \in 1 .. Len(t) : i = 6 + j /\ j # Len(t)
      <4>1. i - 6 \in 1 .. Len(t) /\ i = 6 + (i - 6) /\ i - 6 # Len(t)
        BY <1>3, <1>4, <2>2
      <4> QED
        BY <4>1
    <3>2. r[i] = t[j]
      BY <1>2, <3>1
    <3>3. Quiet(t[j])
      BY <3>1, Zenon DEF IsBaseline
    <3> QED
      BY <3>2, <3>3
  <2> QED
    BY <1>4, <1>7, <2>1, <2>2
<1>8. \E i \in 1 .. n : i < 5 /\ r[i].do = "program"
  <2>1. PICK i \in 1 .. 4 : s[i].do = "program"
    BY DEF IsSmoke
  <2>2. i \in 1 .. 6 /\ i \in 1 .. n /\ i < 5
    BY <1>3, <2>1
  <2> QED
    BY <1>2, <2>1, <2>2, Zenon
<1>9. /\ r[5].do = "capture" /\ r[5].stage # "trial" /\ r[5].slot = "smoke"
      /\ r[5 + 1].do = "check" /\ Settles(r[5 + 1], "smoke", a)
  BY <1>5 DEF IsSmoke
<1>10. Fills(r[n + 1], "final") /\ r[n + 1].stage # "trial"
  BY <1>6, Zenon DEF IsBaseline
<1>11. Settles(r[n + 2], "final", a)
  BY <1>2, <1>4
<1> HIDE DEF n
<1>12. TwoCaptures(r, 5, n, a)
  BY <1>2, <1>4, <1>7, <1>8, <1>9, <1>10, <1>11 DEF TwoCaptures
<1> QED
  BY <1>12 DEF r, n

LEMMA BaselineIsOne ==
  ASSUME NEW a, NEW again, again.program # "trial", again.capture # "trial"
  PROVE  /\ IsBaseline(Baseline(a, again))
         /\ \A i \in 1 .. Len(Baseline(a, again)) : Baseline(a, again)[i].do \in BoardDos
<1>1. CASE a.runs = 1
  <2> DEFINE b == <<Step("reuse", "same", {}, "none")>>
  <2>1. Baseline(a, again) = b
    BY <1>1 DEF Baseline
  <2>2. IsSequence(b) /\ Len(b) = 1 /\ b[1].do = "reuse" /\ b[1].stage = "same"
    BY DEF IsSequence, Step
  <2> HIDE DEF b
  <2>3. IsBaseline(b)
    BY <2>2 DEF IsBaseline, Fills
  <2>4. \A i \in 1 .. Len(b) : b[i].do \in BoardDos
    BY <2>2 DEF BoardDos
  <2> QED
    BY <2>1, <2>3, <2>4
<1>2. CASE a.runs # 1
  <2> DEFINE b == <<Open({"port"}), Program(again.program), Capture(again.capture, "final")>>
  <2>1. Baseline(a, again) = b
    BY <1>2 DEF Baseline
  <2>2. IsSequence(b) /\ Len(b) = 3
    BY DEF IsSequence
  <2>3. /\ b[1].do = "gate" /\ b[1].stage # "trial" /\ b[1].slot = "none"
        /\ b[2].do = "program" /\ b[2].stage # "trial" /\ b[2].slot = "none"
        /\ b[3].do = "capture" /\ b[3].stage # "trial" /\ b[3].slot = "final"
    BY DEF Open, Program, Capture, Step
  <2> HIDE DEF b
  <2>4. IsBaseline(b)
    BY <2>2, <2>3 DEF IsBaseline, Fills, Quiet
  <2>5. \A i \in 1 .. Len(b) : b[i].do \in BoardDos
    BY <2>2, <2>3 DEF BoardDos
  <2> QED
    BY <2>1, <2>4, <2>5
<1> QED
  BY <1>1, <1>2

\* The check of the smoke benchmark, and the two last words on the baseline.
LEMMA StandardSettles ==
  ASSUME NEW a, Mode(a) = "standard"
  PROVE  /\ Settles(Check("smoke", SmokeNeeds), "smoke", a)
         /\ Settles(Check("final", StandardNeeds), "final", a)
         /\ a.impl = "board-only" =>
              Settles(Verdict("final", {"summary_ok", "start", "done"}), "final", a)
<1>1. CaptureFacts(Mode(a)) \subseteq {"not_bad", "summary", "summary_ok", "start", "done", "counters"}
  BY DEF CaptureFacts
<1>2. CaptureFacts(Mode(a)) \ Implied(SmokeNeeds) \subseteq {"counters"}
  BY <1>1 DEF SmokeNeeds, Implied
<1>3. CaptureFacts(Mode(a)) \ Implied(StandardNeeds) \subseteq {"counters"}
  BY <1>1 DEF StandardNeeds, Implied
<1>4. CaptureFacts(Mode(a)) \ Implied({"summary_ok", "start", "done"})
        \subseteq {"counters", "not_bad"}
  BY <1>1 DEF Implied
<1>5. Settles(Check("smoke", SmokeNeeds), "smoke", a)
  BY <1>2, CountersTolerated DEF Settles, Asks, Check, Step
<1>6. Settles(Check("final", StandardNeeds), "final", a)
  BY <1>3, CountersTolerated DEF Settles, Asks, Check, Step
<1>7. a.impl = "board-only" =>
        Settles(Verdict("final", {"summary_ok", "start", "done"}), "final", a)
  BY <1>4, CountersTolerated DEF Settles, Asks, Verdict, Step
<1> QED
  BY <1>5, <1>6, <1>7

LEMMA StandardBoardAsks ==
  ASSUME NEW a, Mode(a) = "standard"
  PROVE  /\ \E k, n : TwoCaptures(StandardBoard(a), k, n, a)
         /\ BoardPart(StandardBoard(a))
<1> DEFINE s == <<Open({"pyserial"}), Program("program_jtag"),
                  Gate("uart_load_and_capture_smoke", {"port"}),
                  Program("program_jtag_smoke"),
                  Capture("uart_load_and_capture_smoke", "smoke"),
                  Check("smoke", SmokeNeeds)>>
           again == [program |-> "program_jtag_baseline",
                     capture |-> "uart_load_and_capture_baseline"]
           t == Baseline(a, again)
           z == Check("final", StandardNeeds)
<1>1. StandardBoard(a) = (s \o t) \o <<z>>
  BY DEF StandardBoard
<1>2. IsSequence(s) /\ Len(s) = 6
  BY DEF IsSequence
<1>3. /\ s[1].do = "gate" /\ s[1].stage # "trial" /\ s[1].slot = "none"
      /\ s[2].do = "program" /\ s[2].stage # "trial" /\ s[2].slot = "none"
      /\ s[3].do = "gate" /\ s[3].stage # "trial" /\ s[3].slot = "none"
      /\ s[4].do = "program" /\ s[4].stage # "trial" /\ s[4].slot = "none"
      /\ s[5].do = "capture" /\ s[5].stage # "trial" /\ s[5].slot = "smoke"
      /\ s[6].do = "check" /\ s[6] = Check("smoke", SmokeNeeds)
  BY DEF Open, Gate, Program, Capture, Check, Step
<1> HIDE DEF s
<1>4. Settles(s[6], "smoke", a)
  BY <1>3, StandardSettles, Zenon
<1>5. Quiet(s[1]) /\ Quiet(s[2]) /\ Quiet(s[3]) /\ Quiet(s[4])
  BY <1>3 DEF Quiet
<1>6. \A i \in 1 .. 4 : Quiet(s[i])
  BY <1>5
<1>7. IsSmoke(s, a)
  BY <1>2, <1>3, <1>4, <1>6 DEF IsSmoke
<1>8. again.program # "trial" /\ again.capture # "trial"
  OBVIOUS
<1> HIDE DEF again
<1>9. IsBaseline(t) /\ \A i \in 1 .. Len(t) : t[i].do \in BoardDos
  BY <1>8, BaselineIsOne, Zenon
<1> HIDE DEF t
<1>10. Settles(z, "final", a) /\ z.do = "check" /\ z.stage # "trial"
  <2>1. Settles(z, "final", a)
    BY StandardSettles, Zenon
  <2>2. z.do = "check" /\ z.stage # "trial"
    BY DEF Check, Step
  <2> QED
    BY <2>1, <2>2
<1> HIDE DEF z
<1>11. TwoCaptures((s \o t) \o <<z>>, 5, Len(t) + 5, a)
  BY <1>7, <1>9, <1>10, SmokeThenBaseline, Zenon
<1> DEFINE r == (s \o t) \o <<z>>
<1>12. InThreeParts(r, s, t, z)
  <2>1. IsSequence(t)
    BY <1>9 DEF IsBaseline
  <2> QED
    BY <1>2, <2>1, ThreeParts, Zenon
<1> HIDE DEF r
<1>13. Len(t) \in Nat /\ Len(r) = Len(t) + 7
  BY <1>9, <1>12 DEF IsBaseline, InThreeParts
<1>14. \A i \in 1 .. Len(t) : t[i].stage # "trial"
  BY <1>9 DEF IsBaseline, Quiet
<1>15. ASSUME NEW i \in 1 .. Len(r)
       PROVE  r[i].do \in BoardDos /\ r[i].stage # "trial"
  <2>1. CASE i \in 1 .. 6
    <3>1. r[i] = s[i]
      BY <1>12, <2>1 DEF InThreeParts
    <3>2. i \in {1, 2, 3, 4, 5, 6}
      BY <2>1
    <3>3. \A j \in {1, 2, 3, 4, 5, 6} : s[j].do \in BoardDos /\ s[j].stage # "trial"
      <4>1. s[6].stage # "trial"
        BY <1>4 DEF Settles
      <4> QED
        BY <1>3, <4>1 DEF BoardDos
    <3> QED
      BY <3>1, <3>2, <3>3, Zenon
  <2>2. CASE i - 6 \in 1 .. Len(t)
    <3>1. PICK j \in 1 .. Len(t) : i = 6 + j
      BY <2>2
    <3>2. r[i] = t[j]
      BY <1>12, <3>1 DEF InThreeParts
    <3> QED
      BY <1>9, <1>14, <3>2
  <2>3. CASE i = Len(t) + 7
    BY <1>10, <1>12, <2>3 DEF InThreeParts, BoardDos
  <2> QED
    BY <1>13, <2>1, <2>2, <2>3
<1>16. BoardPart(r)
  BY <1>12, <1>15 DEF BoardPart, InThreeParts
<1> QED
  BY <1>1, <1>11, <1>16 DEF r

LEMMA StandardOnlyAsks ==
  ASSUME NEW a, Mode(a) = "standard", a.impl = "board-only"
  PROVE  \E k, n : TwoCaptures(StandardOnly(a), k, n, a)
<1> DEFINE s == <<Step("find_bit", "same", {"tools"}, "none"),
                  Step("find_payloads", "same", {}, "none"),
                  Gate(BoardOnlyStage, {"pyserial", "port"}), Program(BoardOnlyStage),
                  Capture(BoardOnlyStage, "smoke"), Check("smoke", SmokeNeeds)>>
           again == [program |-> BoardOnlyStage, capture |-> BoardOnlyStage]
           t == Baseline(a, again)
           z == Verdict("final", {"summary_ok", "start", "done"})
<1>1. StandardOnly(a) = (s \o t) \o <<z>>
  BY DEF StandardOnly
<1>2. IsSequence(s) /\ Len(s) = 6
  BY DEF IsSequence
<1>3. /\ s[1].do = "find_bit" /\ s[1].stage # "trial" /\ s[1].slot = "none"
      /\ s[2].do = "find_payloads" /\ s[2].stage # "trial" /\ s[2].slot = "none"
      /\ s[3].do = "gate" /\ s[3].stage # "trial" /\ s[3].slot = "none"
      /\ s[4].do = "program" /\ s[4].stage # "trial" /\ s[4].slot = "none"
      /\ s[5].do = "capture" /\ s[5].stage # "trial" /\ s[5].slot = "smoke"
      /\ s[6].do = "check" /\ s[6] = Check("smoke", SmokeNeeds)
  BY DEF Gate, Program, Capture, Check, Step, BoardOnlyStage
<1> HIDE DEF s
<1>4. Settles(s[6], "smoke", a)
  BY <1>3, StandardSettles, Zenon
<1>5. Quiet(s[1]) /\ Quiet(s[2]) /\ Quiet(s[3]) /\ Quiet(s[4])
  BY <1>3 DEF Quiet
<1>6. \A i \in 1 .. 4 : Quiet(s[i])
  BY <1>5
<1>7. IsSmoke(s, a)
  BY <1>2, <1>3, <1>4, <1>6 DEF IsSmoke
<1>8. again.program # "trial" /\ again.capture # "trial"
  BY DEF BoardOnlyStage
<1> HIDE DEF again
<1>9. IsBaseline(t)
  BY <1>8, BaselineIsOne, Zenon
<1> HIDE DEF t
<1>10. Settles(z, "final", a)
  BY StandardSettles, Zenon
<1> HIDE DEF z
<1>11. TwoCaptures((s \o t) \o <<z>>, 5, Len(t) + 5, a)
  BY <1>7, <1>9, <1>10, SmokeThenBaseline, Zenon
<1> QED
  BY <1>1, <1>11

-----------------------------------------------------------------------------
(* The plans of all command lines.                                          *)

\* The board part of every mode, behind a build.
LEMMA ModeBoardIsStraight ==
  ASSUME NEW a \in CommandLines, Mode(a) \notin {"early_board", "selftest_board"},
         a.impl # "board-only"
  PROVE  Straight(ModeBoard(a), a) /\ BoardPart(ModeBoard(a))
<1>1. CASE Mode(a) = "transport"
  <2>1. ModeBoard(a) = TransportBoard
    BY <1>1 DEF ModeBoard
  <2> QED
    BY <1>1, <2>1, TransportBoardAsks, OneCaptureIsStraight, Zenon
<1>2. CASE Mode(a) = "steps"
  <2>1. ModeBoard(a) = BridgeBoard(StepsNeeds)
    BY <1>2 DEF ModeBoard
  <2>2. CaptureFacts(Mode(a)) \ Implied(StepsNeeds) = {}
    BY <1>2, NeedsCover DEF Implied
  <2>3. \A f \in CaptureFacts(Mode(a)) \ Implied(StepsNeeds) : <<"final", f>> \in Tolerated(a)
    BY <2>2
  <2> QED
    BY <2>1, <2>3, BridgeBoardAsks, OneCaptureIsStraight, Zenon
<1>3. CASE Mode(a) = "step2"
  <2>1. ModeBoard(a) = BridgeBoard(Step2Needs)
    BY <1>3 DEF ModeBoard
  <2>2. CaptureFacts(Mode(a)) \ Implied(Step2Needs) = {}
    BY <1>3, NeedsCover DEF Implied
  <2>3. \A f \in CaptureFacts(Mode(a)) \ Implied(Step2Needs) : <<"final", f>> \in Tolerated(a)
    BY <2>2
  <2> QED
    BY <2>1, <2>3, BridgeBoardAsks, OneCaptureIsStraight, Zenon
<1>4. CASE Mode(a) = "bridge"
  <2>1. ModeBoard(a) = BridgeBoard(BridgeNeeds)
    BY <1>4 DEF ModeBoard
  <2>2. CaptureFacts(Mode(a)) \ Implied(BridgeNeeds) \subseteq {"ready"}
    BY <1>4, NeedsCover DEF Implied
  <2>3. <<"final", "ready">> \in Tolerated(a)
    BY <1>4, CountersTolerated
  <2>4. \A f \in CaptureFacts(Mode(a)) \ Implied(BridgeNeeds) : <<"final", f>> \in Tolerated(a)
    BY <2>2, <2>3
  <2> QED
    BY <2>1, <2>4, BridgeBoardAsks, OneCaptureIsStraight, Zenon
<1>5. CASE Mode(a) = "selftest"
  <2> DEFINE x == Open({"pyserial"})
             b == <<x>> \o SelftestSession
  <2>1. ModeBoard(a) = b
    BY <1>5 DEF ModeBoard, SelftestBoard
  <2>2. Quiet(x) /\ x.do = "gate" /\ x.stage # "trial"
    BY DEF Quiet, Open, Step
  <2>3. SelftestFrom(b, x, a)
    BY <1>5 DEF SelftestFrom
  <2> HIDE DEF x, b
  <2>4. OneCapture(b, 3, a) /\ b[1] = x /\ \A i \in 2 .. 5 : b[i].do \in BoardDos
    BY <2>2, <2>3, SelftestAsks, Zenon
  <2>5. Straight(b, a)
    BY <2>4, OneCaptureIsStraight, Zenon
  <2>6. Len(b) = 5 /\ IsSequence(b)
    BY <2>4 DEF OneCapture
  <2>7. b[1].do \in BoardDos
    BY <2>2, <2>4 DEF BoardDos
  <2>8. \A i \in 1 .. 5 : b[i].do \in BoardDos
    <3>1. \A i \in 1 .. 5 : i = 1 \/ i \in 2 .. 5
      OBVIOUS
    <3> QED
      BY <2>4, <2>7, <3>1, Zenon
  <2>9. \A i \in 1 .. 5 : b[i].stage # "trial"
    BY <2>5, <2>6 DEF Straight
  <2>10. BoardPart(b)
    BY <2>6, <2>8, <2>9 DEF BoardPart
  <2> QED
    BY <2>1, <2>5, <2>10
<1>6. CASE Mode(a) = "early"
  <2>1. ModeBoard(a) = EarlyBoard
    BY <1>6 DEF ModeBoard
  <2> QED
    BY <1>6, <2>1, EarlyBoardAsks, OneCaptureIsStraight, Zenon
<1>7. CASE Mode(a) = "fetch_debug"
  <2>1. ModeBoard(a) = FetchBoard
    BY <1>7 DEF ModeBoard
  <2> QED
    BY <1>7, <2>1, FetchBoardAsks, OneCaptureIsStraight, Zenon
<1>8. CASE Mode(a) = "standard"
  <2>1. ModeBoard(a) = StandardBoard(a)
    BY <1>8 DEF ModeBoard
  <2> QED
    BY <1>8, <2>1, StandardBoardAsks, TwoCapturesIsStraight, Zenon
<1> QED
  BY <1>1, <1>2, <1>3, <1>4, <1>5, <1>6, <1>7, <1>8, ModeIsOne DEF Flags

\* A board-only line of main: no other mode is accepted with it.
LEMMA BoardOnlyIsStraight ==
  ASSUME NEW a \in CommandLines, Mode(a) \in Bridges \cup {"standard"}, a.impl = "board-only"
  PROVE  Straight(Plan(a), a)
<1>1. CASE Mode(a) = "step2"
  <2>1. Plan(a) = BridgeOnly(Step2Needs)
    BY <1>1 DEF Plan
  <2>2. CaptureFacts(Mode(a)) \ Implied(Step2Needs) = {}
    BY <1>1, NeedsCover DEF Implied
  <2>3. \A f \in CaptureFacts(Mode(a)) \ Implied(Step2Needs) : <<"final", f>> \in Tolerated(a)
    BY <2>2
  <2> QED
    BY <2>1, <2>3, BridgeOnlyAsks, OneCaptureIsStraight, Zenon
<1>2. CASE Mode(a) = "steps"
  <2>1. Plan(a) = BridgeOnly(StepsNeeds)
    BY <1>2 DEF Plan
  <2>2. CaptureFacts(Mode(a)) \ Implied(StepsNeeds) = {}
    BY <1>2, NeedsCover DEF Implied
  <2>3. \A f \in CaptureFacts(Mode(a)) \ Implied(StepsNeeds) : <<"final", f>> \in Tolerated(a)
    BY <2>2
  <2> QED
    BY <2>1, <2>3, BridgeOnlyAsks, OneCaptureIsStraight, Zenon
<1>3. CASE Mode(a) = "bridge"
  <2> DEFINE needs == BridgeNeeds \cup {"ready"}
  <2>1. Plan(a) = BridgeOnly(needs)
    BY <1>3 DEF Plan
  <2>2. CaptureFacts(Mode(a)) \ Implied(needs) = {}
    BY <1>3, NeedsCover DEF Implied
  <2>3. \A f \in CaptureFacts(Mode(a)) \ Implied(needs) : <<"final", f>> \in Tolerated(a)
    BY <2>2
  <2> HIDE DEF needs
  <2> QED
    BY <2>1, <2>3, BridgeOnlyAsks, OneCaptureIsStraight, Zenon
<1>4. CASE Mode(a) = "standard"
  <2>1. Plan(a) = StandardOnly(a)
    BY <1>4 DEF Plan
  <2> QED
    BY <1>4, <2>1, StandardOnlyAsks, TwoCapturesIsStraight, Zenon
<1> QED
  BY <1>1, <1>2, <1>3, <1>4 DEF Bridges

LEMMA LegalModes ==
  ASSUME NEW a \in CommandLines, Legal(a), a.impl = "board-only"
  PROVE  Mode(a) \in Bridges \cup {"standard"}
BY DEF Legal, Mode

\* The flow of a line that starts with gates.
LEMMA GatesFirst ==
  ASSUME NEW a \in CommandLines, Legal(a), a.impl # "board-only",
         Mode(a) \notin {"early_board", "selftest_board"}
  PROVE  Plan(a) = (BasicGates \o ModeGates(a)) \o
                     (IF a.skip THEN << >>
                      ELSE IF a.impl = "synth-only" THEN Vivado(a)
                      ELSE Vivado(a) \o ModeBoard(a))
BY DEF Plan

\* A synth-only line stops behind its synthesis.
LEMMA VivadoStops ==
  ASSUME NEW a, a.impl = "synth-only"
  PROVE  /\ IsSequence(Vivado(a))
         /\ \A i \in 1 .. Len(Vivado(a)) : GateStep(Vivado(a)[i]) \/ BuildStep(Vivado(a)[i])
<1> DEFINE s == <<Open({"tools"}), Step("create", "create_project", Commands, "none"),
                  Step("synth", "synth", Commands, "none")>>
           t == <<Step("stop", "none", {}, "none")>>
<1>1. IsSequence(s) /\ Len(s) = 3
  BY DEF IsSequence
<1>2. GateStep(s[1]) /\ BuildStep(s[2]) /\ BuildStep(s[3])
  BY DEF Open, Step, GateStep, BuildStep, GateDos, BuildDos
<1>3. IsSequence(t) /\ Len(t) = 1 /\ BuildStep(t[1])
  BY DEF IsSequence, Step, BuildStep, BuildDos
<1>4. Vivado(a) = s \o t
  BY DEF Vivado
<1> HIDE DEF s, t
<1>5. \A i \in 1 .. Len(s) : GateStep(s[i]) \/ BuildStep(s[i])
  BY <1>1, <1>2
<1>6. \A i \in 1 .. Len(t) : GateStep(t[i]) \/ BuildStep(t[i])
  BY <1>3
<1>7. IsSequence(s \o t)
  BY <1>1, <1>3, PartsOfAPlan, Zenon
<1>8. ASSUME NEW i \in 1 .. Len(s \o t)
      PROVE  GateStep((s \o t)[i]) \/ BuildStep((s \o t)[i])
  <2>1. \/ i \in 1 .. Len(s) /\ (s \o t)[i] = s[i]
        \/ i - Len(s) \in 1 .. Len(t) /\ (s \o t)[i] = t[i - Len(s)]
    BY <1>1, <1>3, PlacesOfAPlan, Zenon
  <2> QED
    BY <1>5, <1>6, <2>1, Zenon
<1> QED
  BY <1>4, <1>7, <1>8

LEMMA BuildIsPrep ==
  ASSUME NEW v, IsBuild(v)
  PROVE  AllPrep(v)
<1>1. IsSequence(v) /\ Len(v) = 6
  BY DEF IsBuild
<1>2. \A i \in 1 .. 6 : i \in {1, 2, 3, 4, 5, 6}
  OBVIOUS
<1>3. \A j \in {1, 2, 3, 4, 5, 6} : PrepStep(v[j])
  BY DEF IsBuild, PrepStep, GateStep, BuildStep, GateDos, BuildDos
<1> QED
  BY <1>1, <1>2, <1>3, Zenon DEF AllPrep

\* Three parts in a row, whichever two are taken together.
LEMMA JoinsRegroup ==
  ASSUME NEW r, NEW t, NEW q, NEW g, NEW v, NEW b,
         Joins(r, g, t), Joins(t, v, b), Joins(q, g, v)
  PROVE  Joins(r, q, b)
<1>1. /\ IsSequence(r) /\ Len(g) \in Nat /\ Len(v) \in Nat /\ Len(b) \in Nat
      /\ Len(q) = Len(g) + Len(v) /\ Len(t) = Len(v) + Len(b) /\ Len(r) = Len(g) + Len(t)
  BY DEF Joins
<1>2. ASSUME NEW i \in 1 .. Len(g)
      PROVE  r[i] = g[i] /\ q[i] = g[i]
  <2>1. i \in 1 .. Len(r) /\ i \in 1 .. Len(q) /\ i <= Len(g)
    BY <1>1
  <2> QED
    BY <2>1, Zenon DEF Joins
<1>3. ASSUME NEW j \in 1 .. Len(t)
      PROVE  Len(g) + j \in 1 .. Len(r) /\ r[Len(g) + j] = t[j]
  BY <1>3, Zenon DEF Joins
<1>4. ASSUME NEW j \in 1 .. Len(v)
      PROVE  Len(g) + j \in 1 .. Len(q) /\ q[Len(g) + j] = v[j]
  BY <1>4, Zenon DEF Joins
<1>5. ASSUME NEW j \in 1 .. Len(v)
      PROVE  t[j] = v[j]
  <2>1. j \in 1 .. Len(t) /\ j <= Len(v)
    BY <1>1
  <2> QED
    BY <2>1, Zenon DEF Joins
<1>6. ASSUME NEW j \in 1 .. Len(b)
      PROVE  Len(v) + j \in 1 .. Len(t) /\ t[Len(v) + j] = b[j]
  BY <1>6, Zenon DEF Joins
<1>7. ASSUME NEW i \in 1 .. Len(r), i <= Len(q)
      PROVE  r[i] = q[i]
  <2>1. CASE i <= Len(g)
    BY <1>1, <1>2, <2>1
  <2>2. CASE i > Len(g)
    <3>1. PICK j \in 1 .. Len(v) : i = Len(g) + j
      <4>1. i - Len(g) \in 1 .. Len(v) /\ i = Len(g) + (i - Len(g))
        BY <1>1, <1>7, <2>2
      <4> QED
        BY <4>1
    <3>2. j \in 1 .. Len(t)
      BY <1>1
    <3> QED
      BY <1>3, <1>4, <1>5, <3>1, <3>2
  <2> QED
    BY <1>1, <2>1, <2>2
<1>8. ASSUME NEW j \in 1 .. Len(b)
      PROVE  Len(q) + j \in 1 .. Len(r) /\ r[Len(q) + j] = b[j]
  <2>1. Len(q) + j = Len(g) + (Len(v) + j)
    BY <1>1
  <2>2. r[Len(g) + (Len(v) + j)] = t[Len(v) + j] /\ Len(g) + (Len(v) + j) \in 1 .. Len(r)
    BY <1>3, <1>6
  <2> QED
    BY <1>6, <2>1, <2>2
<1>9. ASSUME NEW i \in 1 .. Len(r), i > Len(q)
      PROVE  i - Len(q) \in 1 .. Len(b) /\ r[i] = b[i - Len(q)]
  <2>1. i - Len(q) \in 1 .. Len(b) /\ i = Len(q) + (i - Len(q))
    BY <1>1, <1>9
  <2>2. r[Len(q) + (i - Len(q))] = b[i - Len(q)]
    BY <1>8, <2>1
  <2> QED
    BY <2>1, <2>2
<1>10. Len(q) \in Nat /\ Len(r) = Len(q) + Len(b)
  BY <1>1
<1> QED
  BY <1>1, <1>7, <1>8, <1>9, <1>10 DEF Joins

\* No command line but an early_board one has trials.
LEMMA PlanIsStraight ==
  ASSUME NEW a \in CommandLines, Legal(a), Mode(a) # "early_board"
  PROVE  Straight(Plan(a), a)
<1> DEFINE g == BasicGates \o ModeGates(a)
           v == Vivado(a)
           b == ModeBoard(a)
<1>1. CASE Mode(a) = "selftest_board"
  <2> DEFINE x == Must({"tools", "pyserial"})
             s == <<x>> \o SelftestSession
  <2>1. Plan(a) = s
    BY <1>1 DEF Plan, SelftestOnly
  <2>2. Quiet(x)
    BY DEF Quiet, Must, Step
  <2>3. SelftestFrom(s, x, a)
    BY <1>1 DEF SelftestFrom
  <2> HIDE DEF x, s
  <2>4. OneCapture(s, 3, a)
    BY <2>2, <2>3, SelftestAsks, Zenon
  <2> QED
    BY <2>1, <2>4, OneCaptureIsStraight, Zenon
<1>2. CASE a.impl = "board-only"
  BY <1>2, LegalModes, BoardOnlyIsStraight, Zenon
<1>3. ASSUME a.impl # "board-only", Mode(a) # "selftest_board"
      PROVE  Straight(Plan(a), a)
  <2>1. AllGates(g)
    BY ModeGatesAreGates, Zenon
  <2>2. AllPrep(g) /\ IsSequence(g)
    BY <2>1, Zenon DEF AllGates, AllPrep, PrepStep
  <2>3. CASE a.skip
    <3>1. Plan(a) = g \o << >>
      BY <1>3, <2>3, GatesFirst
    <3>2. IsSequence(<< >>) /\ Len(<< >>) = 0
      BY DEF IsSequence
    <3> DEFINE t == << >>
    <3> HIDE DEF g, t
    <3>3. IsSequence(t) /\ Len(t) = 0
      BY <3>2 DEF t
    <3>4. Joins(g \o t, g, t)
      BY <2>2, <3>3, JoinsHolds, Zenon
    <3> DEFINE r == g \o t
    <3>5. Joins(r, g, t)
      BY <3>4
    <3> HIDE DEF r
    <3>6. IsSequence(r) /\ Len(r) = Len(g) /\ Len(r) \in Nat
      BY <3>3, <3>5 DEF Joins
    <3>7. \A i \in 1 .. Len(r) : r[i] = g[i]
      BY <3>5, <3>6 DEF Joins
    <3>8. \A i \in 1 .. Len(r) : GateStep(r[i])
      BY <2>1, <3>6, <3>7, Zenon DEF AllGates
    <3>9. Straight(r, a)
      BY <3>6, <3>8, StraightWithoutBoard, Zenon
    <3> QED
      BY <3>1, <3>9 DEF r, t
  <2>4. CASE ~a.skip /\ a.impl = "synth-only"
    <3>1. Plan(a) = g \o v
      BY <1>3, <2>4, GatesFirst
    <3>2. IsSequence(v) /\ \A i \in 1 .. Len(v) : GateStep(v[i]) \/ BuildStep(v[i])
      BY <2>4, VivadoStops, Zenon
    <3> HIDE DEF g, v
    <3>3. \A i \in 1 .. Len(g) : GateStep(g[i])
      BY <2>1, Zenon DEF AllGates
    <3>4. IsSequence(g \o v)
      BY <2>2, <3>2, PartsOfAPlan, Zenon
    <3>5. ASSUME NEW i \in 1 .. Len(g \o v)
          PROVE  GateStep((g \o v)[i]) \/ BuildStep((g \o v)[i])
      <4>1. \/ i \in 1 .. Len(g) /\ (g \o v)[i] = g[i]
            \/ i - Len(g) \in 1 .. Len(v) /\ (g \o v)[i] = v[i - Len(g)]
        BY <2>2, <3>2, PlacesOfAPlan, Zenon
      <4> QED
        BY <3>2, <3>3, <4>1, Zenon
    <3>6. Straight(g \o v, a)
      BY <3>4, <3>5, StraightWithoutBoard, Zenon
    <3> QED
      BY <3>1, <3>6
  <2>5. CASE ~a.skip /\ a.impl # "synth-only"
    <3>1. Plan(a) = g \o (v \o b)
      BY <1>3, <2>5, GatesFirst
    <3>2. AllPrep(v) /\ IsSequence(v)
      BY <2>5, VivadoBuilds, BuildIsPrep, Zenon DEF AllPrep
    <3>3. Straight(b, a) /\ BoardPart(b)
      BY <1>3, ModeBoardIsStraight, Zenon
    <3> HIDE DEF g, v, b
    <3>4. Doing(b, {"write_bit", "write_id", "stop"}) = {}
      BY <3>3 DEF BoardPart, BoardDos, Doing
    <3>5. IsSequence(b)
      BY <3>3 DEF BoardPart
    <3>6. Joins(v \o b, v, b)
      BY <3>2, <3>5, JoinsHolds, Zenon
    <3> DEFINE t == v \o b
    <3>7. Joins(t, v, b)
      BY <3>6
    <3> HIDE DEF t
    <3>8. IsSequence(t)
      BY <3>7 DEF Joins
    <3>9. Joins(g \o t, g, t) /\ Joins(g \o v, g, v)
      BY <2>2, <3>2, <3>8, JoinsHolds, Zenon
    <3>10. Joins(g \o t, g \o v, b)
      BY <3>7, <3>9, JoinsRegroup, Zenon
    <3>11. AllPrep(g \o v)
      <4>1. IsSequence(g \o v)
        BY <3>9 DEF Joins
      <4>2. ASSUME NEW i \in 1 .. Len(g \o v)
            PROVE  PrepStep((g \o v)[i])
        <5>1. \/ i \in 1 .. Len(g) /\ (g \o v)[i] = g[i]
              \/ i - Len(g) \in 1 .. Len(v) /\ (g \o v)[i] = v[i - Len(g)]
          BY <2>2, <3>2, PlacesOfAPlan, Zenon
        <5> QED
          BY <2>2, <3>2, <5>1, Zenon DEF AllPrep
      <4> QED
        BY <4>1, <4>2, Zenon DEF AllPrep
    <3>12. Straight(g \o t, a)
      BY <3>3, <3>4, <3>10, <3>11, StraightBehindPrep, Zenon
    <3> QED
      BY <3>1, <3>12 DEF t
  <2> QED
    BY <2>3, <2>4, <2>5
<1> QED
  BY <1>1, <1>2, <1>3

\* One trial, or several in a row.
IsTrials(t) ==
  /\ IsSequence(t) /\ Len(t) >= 1
  /\ \A i \in 1 .. Len(t) :
       /\ t[i].do \in {"gate", "program", "capture", "trial_end"}
       /\ t[i].stage = "trial"
       /\ t[i].do = "capture" => t[i].slot = "final"
  /\ t[1].do = "gate"
  /\ \A i \in 1 .. Len(t) - 1 : t[i + 1].do = Follower(t[i].do)
  /\ t[Len(t)].do = "trial_end"

LEMMA OneTrial == IsTrials(Trial)
<1> DEFINE t == Trial
<1>1. IsSequence(t) /\ Len(t) = 4
  BY DEF Trial, IsSequence
<1>2. /\ t[1].do = "gate" /\ t[1].stage = "trial" /\ t[2].do = "program" /\ t[2].stage = "trial"
      /\ t[3].do = "capture" /\ t[3].stage = "trial" /\ t[3].slot = "final"
      /\ t[4].do = "trial_end" /\ t[4].stage = "trial"
  BY DEF Trial, Gate, Program, Capture, Step
<1> HIDE DEF t
<1>3. /\ Follower("gate") = "program" /\ Follower("program") = "capture"
      /\ Follower("capture") = "trial_end"
  BY DEF Follower
<1>4. \A i \in 1 .. Len(t) - 1 : t[i + 1].do = Follower(t[i].do)
  <2> TAKE i \in 1 .. Len(t) - 1
  <2>1. i = 1 \/ i = 2 \/ i = 3
    BY <1>1
  <2> QED
    BY <1>2, <1>3, <2>1
<1>5. IsTrials(t)
  BY <1>1, <1>2, <1>4 DEF IsTrials
<1> QED
  BY <1>5 DEF t

LEMMA TrialsInARow ==
  ASSUME NEW s, NEW t, IsTrials(s), IsTrials(t)
  PROVE  IsTrials(s \o t)
<1> DEFINE r == s \o t
<1>1. IsSequence(s) /\ IsSequence(t)
  BY DEF IsTrials
<1>2. Joins(r, s, t)
  BY <1>1, JoinsHolds, Zenon
<1> HIDE DEF r
<1>3. /\ IsSequence(r) /\ Len(s) \in Nat /\ Len(t) \in Nat /\ Len(r) = Len(s) + Len(t)
      /\ Len(s) >= 1 /\ Len(t) >= 1
  BY <1>2 DEF Joins, IsTrials
<1>4. ASSUME NEW i \in 1 .. Len(r)
      PROVE  \/ i \in 1 .. Len(s) /\ r[i] = s[i]
             \/ i - Len(s) \in 1 .. Len(t) /\ r[i] = t[i - Len(s)] /\ i > Len(s)
  <2>1. i <= Len(s) \/ i > Len(s)
    BY <1>3
  <2>2. i <= Len(s) => i \in 1 .. Len(s)
    BY <1>3
  <2> QED
    BY <1>2, <2>1, <2>2, Zenon DEF Joins
<1>5. \A i \in 1 .. Len(r) :
        /\ r[i].do \in {"gate", "program", "capture", "trial_end"}
        /\ r[i].stage = "trial"
        /\ r[i].do = "capture" => r[i].slot = "final"
  <2>1. \A k \in 1 .. Len(s) :
          /\ s[k].do \in {"gate", "program", "capture", "trial_end"}
          /\ s[k].stage = "trial"
          /\ s[k].do = "capture" => s[k].slot = "final"
    BY Zenon DEF IsTrials
  <2>2. \A k \in 1 .. Len(t) :
          /\ t[k].do \in {"gate", "program", "capture", "trial_end"}
          /\ t[k].stage = "trial"
          /\ t[k].do = "capture" => t[k].slot = "final"
    BY Zenon DEF IsTrials
  <2> TAKE i \in 1 .. Len(r)
  <2>3. CASE i \in 1 .. Len(s) /\ r[i] = s[i]
    BY <2>1, <2>3, Zenon
  <2>4. CASE i - Len(s) \in 1 .. Len(t) /\ r[i] = t[i - Len(s)]
    BY <2>2, <2>4, Zenon
  <2> QED
    BY <1>4, <2>3, <2>4, Zenon
<1>6. r[1] = s[1] /\ r[Len(s)] = s[Len(s)]
  <2>1. 1 \in 1 .. Len(r) /\ 1 <= Len(s) /\ Len(s) \in 1 .. Len(r) /\ Len(s) <= Len(s)
    BY <1>3
  <2> QED
    BY <1>2, <2>1, Zenon DEF Joins
<1>7. r[Len(s) + 1] = t[1] /\ r[Len(r)] = t[Len(t)]
  <2>1. 1 \in 1 .. Len(t) /\ Len(t) \in 1 .. Len(t) /\ Len(r) = Len(s) + Len(t)
    BY <1>3
  <2> QED
    BY <1>2, <2>1, Zenon DEF Joins
<1>8. \A i \in 1 .. Len(r) - 1 : r[i + 1].do = Follower(r[i].do)
  <2> TAKE i \in 1 .. Len(r) - 1
  <2>1. CASE i < Len(s)
    <3>1. /\ i \in 1 .. Len(s) - 1 /\ i \in 1 .. Len(r) /\ i <= Len(s)
          /\ i + 1 \in 1 .. Len(r) /\ i + 1 <= Len(s)
      BY <1>3, <2>1
    <3>2. r[i] = s[i] /\ r[i + 1] = s[i + 1]
      BY <1>2, <3>1, Zenon DEF Joins
    <3>3. s[i + 1].do = Follower(s[i].do)
      BY <3>1, Zenon DEF IsTrials
    <3> QED
      BY <3>2, <3>3
  <2>2. CASE i = Len(s)
    BY <1>6, <1>7, <2>2 DEF IsTrials, Follower
  <2>3. CASE i > Len(s)
    <3>1. PICK j \in 1 .. Len(t) - 1 : i = Len(s) + j
      <4>1. i - Len(s) \in 1 .. Len(t) - 1 /\ i = Len(s) + (i - Len(s))
        BY <1>3, <2>3
      <4> QED
        BY <4>1
    <3>2. j \in 1 .. Len(t) /\ j + 1 \in 1 .. Len(t) /\ i + 1 = Len(s) + (j + 1)
      BY <1>3, <3>1
    <3>3. r[Len(s) + j] = t[j] /\ r[Len(s) + (j + 1)] = t[j + 1]
      BY <1>2, <3>2, Zenon DEF Joins
    <3>4. t[j + 1].do = Follower(t[j].do)
      BY <3>1, Zenon DEF IsTrials
    <3> QED
      BY <3>1, <3>2, <3>3, <3>4
  <2> QED
    BY <1>3, <2>1, <2>2, <2>3
<1>9. Len(r) >= 1 /\ r[1].do = "gate" /\ r[Len(r)].do = "trial_end"
  BY <1>3, <1>6, <1>7 DEF IsTrials
<1>10. IsTrials(r)
  BY <1>3, <1>5, <1>8, <1>9 DEF IsTrials
<1> QED
  BY <1>10 DEF r

\* An early_board line looks for the manifest and then tries.
LEMMA PlanOfTrials ==
  ASSUME NEW a, Mode(a) = "early_board"
  PROVE  Trials(Plan(a))
<1> DEFINE s == <<Step("find_audit", "same", {"tools", "pyserial"}, "none")>>
           t == IF a.sweep THEN Trial \o Trial \o Trial ELSE Trial
           r == s \o t
<1>1. Plan(a) = r
  BY DEF Plan, EarlyOnly
<1>2. IsSequence(s) /\ Len(s) = 1 /\ s[1].do = "find_audit"
  BY DEF IsSequence, Step
<1>3. IsTrials(t)
  <2>1. IsTrials(Trial \o Trial)
    BY OneTrial, TrialsInARow, Zenon
  <2>2. IsTrials((Trial \o Trial) \o Trial)
    BY <2>1, OneTrial, TrialsInARow, Zenon
  <2> QED
    BY <2>2, OneTrial
<1> HIDE DEF s, t
<1>4. Joins(r, s, t)
  <2>1. IsSequence(t)
    BY <1>3 DEF IsTrials
  <2> QED
    BY <1>2, <2>1, JoinsHolds, Zenon
<1> HIDE DEF r
<1>5. IsSequence(r) /\ Len(t) \in Nat /\ Len(t) >= 1 /\ Len(r) = 1 + Len(t)
  BY <1>2, <1>3, <1>4 DEF Joins, IsTrials
<1>6. r[1] = s[1]
  BY <1>2, <1>4, <1>5 DEF Joins
<1>7. ASSUME NEW j \in 1 .. Len(t)
      PROVE  r[1 + j] = t[j]
  BY <1>2, <1>4, <1>7 DEF Joins
<1>8. ASSUME NEW i \in 2 .. Len(r)
      PROVE  \E j \in 1 .. Len(t) : i = 1 + j /\ r[i] = t[j]
  <2>1. i - 1 \in 1 .. Len(t) /\ i = 1 + (i - 1)
    BY <1>5
  <2>2. r[1 + (i - 1)] = t[i - 1]
    BY <1>7, <2>1
  <2> QED
    BY <2>1, <2>2
<1>9. \A i \in 2 .. Len(r) :
        /\ r[i].do \in {"gate", "program", "capture", "trial_end"}
        /\ r[i].stage = "trial"
        /\ r[i].do = "capture" => r[i].slot = "final"
  <2> TAKE i \in 2 .. Len(r)
  <2>1. PICK j \in 1 .. Len(t) : r[i] = t[j]
    BY <1>8
  <2> QED
    BY <1>3, <2>1, Zenon DEF IsTrials
<1>10. r[2] = t[1]
  <2>1. 1 \in 1 .. Len(t)
    BY <1>5
  <2>2. r[1 + 1] = t[1]
    BY <1>7, <2>1
  <2> QED
    BY <2>2
<1>11. \A i \in 1 .. Len(r) - 1 : r[i + 1].do = Follower(r[i].do)
  <2> TAKE i \in 1 .. Len(r) - 1
  <2>1. CASE i = 1
    <3>1. r[1].do = "find_audit" /\ r[2].do = "gate"
      BY <1>2, <1>3, <1>6, <1>10 DEF IsTrials
    <3> QED
      BY <2>1, <3>1 DEF Follower
  <2>2. CASE i > 1
    <3>1. PICK j \in 1 .. Len(t) - 1 : i = 1 + j
      <4>1. i - 1 \in 1 .. Len(t) - 1 /\ i = 1 + (i - 1)
        BY <1>5, <2>2
      <4> QED
        BY <4>1
    <3>2. j \in 1 .. Len(t) /\ j + 1 \in 1 .. Len(t) /\ i + 1 = 1 + (j + 1)
      BY <1>5, <3>1
    <3>3. r[1 + j] = t[j] /\ r[1 + (j + 1)] = t[j + 1]
      BY <1>7, <3>2
    <3>4. t[j + 1].do = Follower(t[j].do)
      BY <1>3, <3>1, Zenon DEF IsTrials
    <3> QED
      BY <3>1, <3>2, <3>3, <3>4
  <2> QED
    BY <2>1, <2>2
<1>12. r[Len(r)].do = "trial_end"
  <2>1. Len(t) \in 1 .. Len(t)
    BY <1>5
  <2>2. r[1 + Len(t)] = t[Len(t)]
    BY <1>7, <2>1
  <2> QED
    BY <1>3, <1>5, <2>2 DEF IsTrials
<1>13. \A i \in Doing(r, {"capture"}) : r[i].slot = "final"
  <2> TAKE i \in Doing(r, {"capture"})
  <2>1. i \in 1 .. Len(r) /\ r[i].do = "capture"
    BY DEF Doing
  <2>2. i # 1
    BY <1>2, <1>6, <2>1
  <2>3. i \in 2 .. Len(r)
    BY <1>5, <2>1, <2>2
  <2> QED
    BY <1>9, <2>1, <2>3
<1>14. Trials(r)
  BY <1>2, <1>5, <1>6, <1>9, <1>11, <1>12, <1>13 DEF Trials
<1> QED
  BY <1>1, <1>14

\* A run that simulates, builds and programs has a plan that does so in order.
LEMMA FullBuilds ==
  ASSUME NEW a \in CommandLines, Legal(a), Full(a)
  PROVE  Straight(Plan(a), a) /\ \E n \in Nat : Builds(Plan(a), n)
<1> DEFINE g == BasicGates \o ModeGates(a)
           v == Vivado(a)
           b == ModeBoard(a)
<1>1. /\ Mode(a) \notin {"early_board", "selftest_board"} /\ ~a.skip
      /\ a.impl # "board-only" /\ a.impl # "synth-only"
  BY DEF Full
<1>2. Straight(Plan(a), a)
  BY <1>1, PlanIsStraight
<1>3. Plan(a) = g \o (v \o b)
  BY <1>1, GatesFirst
<1>4. AllGates(g)
  BY ModeGatesAreGates, Zenon
<1>5. IsBuild(v)
  BY <1>1, VivadoBuilds
<1>6. BoardPart(b)
  BY <1>1, ModeBoardIsStraight, Zenon
<1> HIDE DEF g, v, b
<1>7. Builds(g \o (v \o b), Len(g))
  BY <1>4, <1>5, <1>6, BuildsBehindGates, Zenon
<1>8. Len(g) \in Nat
  BY <1>4 DEF AllGates, IsSequence
<1> QED
  BY <1>2, <1>3, <1>7, <1>8, Zenon

-----------------------------------------------------------------------------
(* What one step does to a run: it ends it, badly or well, or in a trial it *)
(* jumps to the end of the trial, or it moves on.                           *)

Stops ==
  /\ job' = Idle /\ last'.args = job.args /\ last'.code = 1
  /\ run' = run /\ HasFields(disk', DiskFields)

\* The four places a run may pass at.
PassesHere ==
  \/ job.at > Len(Steps)
  \/ /\ job.at \in 1 .. Len(Steps)
     /\ \/ Now.do = "stop"
        \/ Now.do = "verdict" /\ Now.needs \subseteq Evidence
        \/ Now.do = "trial_end" /\ TrialPassed

Passes ==
  /\ job' = Idle /\ last'.args = job.args /\ last'.wrong = job.wrong
  /\ UNCHANGED <<disk, fpga, run>>
  /\ PassesHere

Jumps ==
  /\ job.at \in 1 .. Len(Steps) /\ Stage = "trial"
  /\ Now.do \notin {"find_audit", "capture", "trial_end"}
  /\ HasFields(job', JobFields) /\ job'.args = job.args /\ job'.at = NextTrialEnd
  /\ job'.raised = TRUE
  /\ last' = last /\ run' = run /\ HasFields(disk', DiskFields)

\* What is built, and what lies on the board.
BuildMoves ==
  /\ Now.do # "synth" => disk'.synth = disk.synth
  /\ Now.do = "synth" => disk'.synth = BoardHex(job.args)
  /\ Now.do # "write_bit" => disk'.bit = disk.bit
  /\ Now.do = "write_bit" => Stamped(disk.synth, run, disk'.bit)
  /\ Now.do # "write_id" => disk'.id = disk.id
  /\ Now.do = "write_id" => disk'.id = run
  /\ Now.do = "timing" => disk.bit.hold
  /\ Now.do # "program" => fpga' = fpga
  /\ Now.do = "program" => fpga' = disk.bit /\ IdReadBack

\* What is known of the board's answers, and what was lost.
EvidenceMoves ==
  /\ Now.do \notin {"capture", "try_sim", "trial_end"} => job'.wrong = job.wrong
  /\ Now.do \notin {"capture", "reuse", "trial_end"} =>
       job'.smoke = job.smoke /\ job'.final = job.final
  /\ Now.do = "try_sim" => job'.wrong \subseteq job.wrong \cup {<<Stage, "long">>}
  /\ Now.do = "check" => Now.needs \subseteq Evidence
  /\ Now.do = "reuse" => job'.smoke = job.smoke /\ job'.final = job.smoke
  /\ Now.do = "capture" =>
       \E seen \in Shown(Mode(job.args)) :
         /\ job'.wrong = job.wrong \cup LostIn(Now.slot, Mode(job.args), seen)
         /\ Now.slot = "smoke" => job'.smoke = seen /\ job'.final = job.final
         /\ Now.slot = "final" => job'.final = seen /\ job'.smoke = job.smoke

TrialMoves ==
  /\ Now.do # "trial_end" => job'.raised = job.raised
  /\ Now.do = "trial_end" =>
       job'.raised = FALSE /\ job'.wrong = {} /\ job.at # Len(Steps)

Goes ==
  /\ job.at \in 1 .. Len(Steps) /\ Now.do \notin {"stop", "verdict"}
  /\ HasFields(job', JobFields) /\ job'.args = job.args
  /\ job'.at = job.at + 1 /\ job'.stage = Stage
  /\ last' = last /\ run' = run /\ HasFields(disk', DiskFields)
  /\ BuildMoves /\ EvidenceMoves /\ TrialMoves

\* The fields of a run behind a step.
LEMMA Moved ==
  ASSUME HasFields(job, JobFields), Advance(Reached)
  PROVE  /\ HasFields(job', JobFields) /\ job'.args = job.args
         /\ job'.at = job.at + 1 /\ job'.stage = Stage
         /\ job'.wrong = job.wrong /\ job'.smoke = job.smoke /\ job'.final = job.final
         /\ job'.raised = job.raised
BY DEF HasFields, JobFields, Advance, Reached

LEMMA MovedLong ==
  ASSUME HasFields(job, JobFields), NEW w, Advance([Reached EXCEPT !.wrong = @ \cup {w}])
  PROVE  /\ HasFields(job', JobFields) /\ job'.args = job.args
         /\ job'.at = job.at + 1 /\ job'.stage = Stage
         /\ job'.wrong = job.wrong \cup {w} /\ job'.smoke = job.smoke /\ job'.final = job.final
         /\ job'.raised = job.raised
BY DEF HasFields, JobFields, Advance, Reached

LEMMA MovedReuse ==
  ASSUME HasFields(job, JobFields), Advance([Reached EXCEPT !.final = job.smoke])
  PROVE  /\ HasFields(job', JobFields) /\ job'.args = job.args
         /\ job'.at = job.at + 1 /\ job'.stage = Stage
         /\ job'.wrong = job.wrong /\ job'.smoke = job.smoke /\ job'.final = job.smoke
         /\ job'.raised = job.raised
BY DEF HasFields, JobFields, Advance, Reached

LEMMA MovedTrial ==
  ASSUME HasFields(job, JobFields),
         Advance([Reached EXCEPT !.raised = FALSE, !.final = {}, !.wrong = {}])
  PROVE  /\ HasFields(job', JobFields) /\ job'.args = job.args
         /\ job'.at = job.at + 1 /\ job'.stage = Stage
         /\ job'.wrong = {} /\ job'.raised = FALSE
BY DEF HasFields, JobFields, Advance, Reached

\* A capture fills the slot of its step.
Captured(slot, seen, lost) == Advance([Reached EXCEPT ![slot] = seen, !.wrong = @ \cup lost])

LEMMA MovedCapture ==
  ASSUME HasFields(job, JobFields), NEW slot \in {"smoke", "final"}, NEW seen, NEW lost,
         Captured(slot, seen, lost)
  PROVE  /\ HasFields(job', JobFields) /\ job'.args = job.args
         /\ job'.at = job.at + 1 /\ job'.stage = Stage
         /\ job'.wrong = job.wrong \cup lost /\ job'.raised = job.raised
         /\ slot = "smoke" => job'.smoke = seen /\ job'.final = job.final
         /\ slot = "final" => job'.final = seen /\ job'.smoke = job.smoke
<1>1. CASE slot = "smoke"
  <2>1. Advance([Reached EXCEPT !.smoke = seen, !.wrong = @ \cup lost])
    BY <1>1, Zenon DEF Captured
  <2> QED
    BY <1>1, <2>1 DEF HasFields, JobFields, Advance, Reached
<1>2. CASE slot = "final"
  <2>1. Advance([Reached EXCEPT !.final = seen, !.wrong = @ \cup lost])
    BY <1>2, Zenon DEF Captured
  <2> QED
    BY <1>2, <2>1 DEF HasFields, JobFields, Advance, Reached
<1> QED
  BY <1>1, <1>2

\* A step that raises ends the run, or the trial.
LEMMA Raised ==
  ASSUME HasFields(job, JobFields), job.at \in 1 .. Len(Steps),
         Now.do \notin {"find_audit", "capture", "trial_end"},
         NEW stage, NEW d, HasFields(d, DiskFields), Raise(stage, d), run' = run
  PROVE  Stops \/ Jumps
<1>1. CASE InTrial
  <2>1. job' = [job EXCEPT !.at = NextTrialEnd, !.raised = TRUE, !.stage = stage]
    BY <1>1 DEF Raise
  <2>2. HasFields(job', JobFields) /\ job'.args = job.args /\ job'.at = NextTrialEnd
        /\ job'.raised = TRUE
    BY <2>1 DEF HasFields, JobFields
  <2> QED
    BY <1>1, <2>2 DEF Raise, Jumps, InTrial
<1>2. CASE ~InTrial
  BY <1>2 DEF Raise, Report, End, Stops
<1> QED
  BY <1>1, <1>2

LEMMA OutcomeMoves ==
  ASSUME HasFields(job, JobFields), job.at \in 1 .. Len(Steps),
         Now.do \notin {"find_audit", "capture", "trial_end"},
         NEW stage, NEW before, NEW after, HasFields(before, DiskFields),
         Outcome(stage, before, after), run' = run
  PROVE  Stops \/ Jumps \/ (Advance(Reached) /\ disk' = after /\ last' = last)
<1>1. CASE \E f \in Now.needs : Lose(f, stage, before)
  <2>1. PICK f \in Now.needs : Lose(f, stage, before)
    BY <1>1
  <2>2. CASE f = "tools"
    BY <2>1, <2>2 DEF Lose, Quit, End, Stops
  <2>3. CASE f # "tools"
    <3>1. Raise(stage, before)
      BY <2>1, <2>3 DEF Lose
    <3> QED
      BY <3>1, Raised, Zenon
  <2> QED
    BY <2>2, <2>3
<1> QED
  BY <1>1 DEF Outcome

\* The plan a run is in.
LEMMA WhosePlan ==
  ASSUME FlowTypeOK, Running
  PROVE  /\ job.args \in CommandLines /\ Legal(job.args) /\ IsSequence(Steps)
         /\ Mode(job.args) # "early_board" => Straight(Steps, job.args)
         /\ Mode(job.args) = "early_board" => Trials(Steps)
         /\ Full(job.args) =>
              Straight(Steps, job.args) /\ \E n \in Nat : Builds(Steps, n)
<1>1. job.args \in Requests /\ Legal(job.args)
  BY DEF FlowTypeOK
<1>2. job.args \in CommandLines
  BY <1>1, RequestsAssumption
<1>3. Steps = Plan(job.args)
  BY <1>1 DEF Steps, Plans
<1>4. Mode(job.args) # "early_board" => Straight(Steps, job.args)
  BY <1>1, <1>2, <1>3, PlanIsStraight, Zenon
<1>5. Mode(job.args) = "early_board" => Trials(Steps)
  BY <1>3, PlanOfTrials, Zenon
<1>6. Full(job.args) => Straight(Steps, job.args) /\ \E n \in Nat : Builds(Steps, n)
  BY <1>1, <1>2, <1>3, FullBuilds, Zenon
<1>7. IsSequence(Steps)
  BY <1>4, <1>5, Zenon DEF Straight, Trials
<1> QED
  BY <1>1, <1>2, <1>4, <1>5, <1>6, <1>7

\* Where a step starts from.
Placed ==
  /\ HasFields(job, JobFields) /\ HasFields(disk, DiskFields)
  /\ job.at \in 1 .. Len(Steps) + 1 /\ Len(Steps) \in Nat
  /\ job.at \in 1 .. Len(Steps) /\ Now.do = "capture" => Now.slot \in {"smoke", "final"}

LEMMA RunIsPlaced ==
  ASSUME FlowTypeOK, Running
  PROVE  Placed
<1>1. /\ HasFields(job, JobFields) /\ HasFields(disk, DiskFields)
      /\ job.at \in 1 .. Len(Steps) + 1
  BY DEF FlowTypeOK
<1>2. Len(Steps) \in Nat
  BY WhosePlan DEF IsSequence
<1>3. ASSUME job.at \in 1 .. Len(Steps), Now.do = "capture"
      PROVE  Now.slot \in {"smoke", "final"}
  <2>1. job.at \in Doing(Steps, {"capture"})
        /\ job.at \in Doing(Steps, {"check", "verdict", "capture"})
    BY <1>3 DEF Doing, Now
  <2>2. CASE Mode(job.args) # "early_board"
    <3>1. WellAsked(Steps, job.args)
      BY <2>2, WhosePlan, Zenon DEF Straight
    <3> QED
      BY <2>1, <3>1, Zenon DEF WellAsked, Now
  <2>3. CASE Mode(job.args) = "early_board"
    <3>1. Trials(Steps)
      BY <2>3, WhosePlan, Zenon
    <3>2. Steps[job.at].slot = "final"
      BY <2>1, <3>1, Zenon DEF Trials
    <3> QED
      BY <3>2 DEF Now
  <2> QED
    BY <2>2, <2>3
<1> QED
  BY <1>1, <1>2, <1>3 DEF Placed

\* A place an activity is at, and that it is its own.
LEMMA Here ==
  ASSUME Placed, NEW do, At(do)
  PROVE  job.at \in 1 .. Len(Steps) /\ Now.do = do /\ HasFields(job, JobFields)
         /\ HasFields(disk, DiskFields)
BY DEF Placed, At

\* A step that only moves on.
OnlyDos == {"gate", "named_gate", "sim", "smoke_payload", "base_payload", "audit_payload",
            "create", "find_audit", "find_bit", "find_payloads", "must", "timing", "check",
            "synth", "write_bit", "write_id", "program"}

LEMMA MovesOn ==
  ASSUME Placed, NEW do \in OnlyDos, At(do), Advance(Reached), last' = last, run' = run,
         HasFields(disk', DiskFields), BuildMoves, do = "check" => Now.needs \subseteq Evidence
  PROVE  Goes
<1>1. job.at \in 1 .. Len(Steps) /\ Now.do = do /\ HasFields(job, JobFields)
  BY Here, Zenon
<1>2. /\ HasFields(job', JobFields) /\ job'.args = job.args
      /\ job'.at = job.at + 1 /\ job'.stage = Stage
      /\ job'.wrong = job.wrong /\ job'.smoke = job.smoke /\ job'.final = job.final
      /\ job'.raised = job.raised
  BY <1>1, Moved, Zenon
<1>3. Now.do \notin {"capture", "try_sim", "trial_end", "reuse", "stop", "verdict"}
  BY <1>1 DEF OnlyDos
<1>4. EvidenceMoves
  BY <1>1, <1>2, <1>3 DEF EvidenceMoves
<1>5. TrialMoves
  BY <1>2, <1>3 DEF TrialMoves
<1> QED
  BY <1>1, <1>2, <1>3, <1>4, <1>5, Zenon DEF Goes

\* The disk behind a step that builds nothing of the design.
LEMMA BuildIsKept ==
  ASSUME NEW do, Now.do = do, do \notin {"synth", "write_bit", "write_id", "timing", "program"},
         disk'.synth = disk.synth, disk'.bit = disk.bit, disk'.id = disk.id, fpga' = fpga
  PROVE  BuildMoves
<1>1. Now.do \notin {"synth", "write_bit", "write_id", "timing", "program"}
  OBVIOUS
<1>2. /\ Now.do # "synth" /\ Now.do # "write_bit" /\ Now.do # "write_id"
      /\ Now.do # "timing" /\ Now.do # "program"
  BY <1>1
<1> QED
  BY <1>2, Zenon DEF BuildMoves

\* The activities one by one.
LEMMA GateSteps ==
  ASSUME Placed, RunGate \/ RunNamedGate \/ RunSim
  PROVE  Stops \/ Jumps \/ Goes
<1>1. PICK do \in {"gate", "named_gate", "sim"} : At(do)
  BY DEF RunGate, RunNamedGate, RunSim
<1>2. \E stage, d : Outcome(stage, d, d) /\ d \in {disk, SimImage}
  BY DEF RunGate, RunNamedGate, RunSim
<1>3. PICK stage, d : Outcome(stage, d, d) /\ d \in {disk, SimImage}
  BY <1>2
<1>4. run' = run /\ fpga' = fpga
  BY DEF RunGate, RunNamedGate, RunSim
<1>5. job.at \in 1 .. Len(Steps) /\ Now.do = do /\ HasFields(job, JobFields)
      /\ HasFields(disk, DiskFields)
  BY <1>1, Here, Zenon
<1>6. /\ HasFields(d, DiskFields) /\ d.synth = disk.synth /\ d.bit = disk.bit
      /\ d.id = disk.id
  BY <1>3, <1>5 DEF SimImage, HasFields, DiskFields
<1>7. Now.do \notin {"find_audit", "capture", "trial_end"}
  BY <1>5
<1>8. Stops \/ Jumps \/ (Advance(Reached) /\ disk' = d /\ last' = last)
  BY <1>3, <1>4, <1>5, <1>6, <1>7, OutcomeMoves, Zenon
<1>9. ASSUME Advance(Reached), disk' = d, last' = last
      PROVE  Goes
  <2>1. do \notin {"synth", "write_bit", "write_id", "timing", "program"} /\ do \in OnlyDos
        /\ do # "check"
    BY DEF OnlyDos
  <2>2. BuildMoves
    BY <1>4, <1>5, <1>6, <1>9, <2>1, BuildIsKept
  <2>3. HasFields(disk', DiskFields)
    BY <1>6, <1>9, Zenon
  <2> QED
    BY <1>1, <1>4, <1>9, <2>1, <2>2, <2>3, MovesOn, Zenon
<1> QED
  BY <1>8, <1>9

LEMMA PayloadSteps ==
  ASSUME Placed, BuildSmoke \/ BuildBaseline \/ BuildAudit
  PROVE  Stops \/ Jumps \/ Goes
<1>1. PICK do \in {"smoke_payload", "base_payload", "audit_payload"} : At(do)
  BY DEF BuildSmoke, BuildBaseline, BuildAudit
<1>2. HasFields(disk, DiskFields) /\ job.at \in 1 .. Len(Steps) /\ Now.do = do
      /\ HasFields(job, JobFields)
  BY <1>1, Here, Zenon
<1>3. PICK d : /\ Outcome(Stage, disk, d)
               /\ d \in {[disk EXCEPT !.smoke = 10], [disk EXCEPT !.base = job.args.runs],
                         [disk EXCEPT !.audit = TRUE]}
  BY DEF BuildSmoke, BuildBaseline, BuildAudit
<1>4. run' = run /\ fpga' = fpga
  BY DEF BuildSmoke, BuildBaseline, BuildAudit
<1>5. /\ HasFields(d, DiskFields) /\ d.synth = disk.synth /\ d.bit = disk.bit
      /\ d.id = disk.id
  BY <1>2, <1>3 DEF HasFields, DiskFields
<1>6. Now.do \notin {"find_audit", "capture", "trial_end"}
  BY <1>2
<1>7. Stops \/ Jumps \/ (Advance(Reached) /\ disk' = d /\ last' = last)
  BY <1>2, <1>3, <1>4, <1>6, OutcomeMoves, Zenon
<1>8. ASSUME Advance(Reached), disk' = d, last' = last
      PROVE  Goes
  <2>1. do \notin {"synth", "write_bit", "write_id", "timing", "program"} /\ do \in OnlyDos
        /\ do # "check"
    BY DEF OnlyDos
  <2>2. BuildMoves
    BY <1>2, <1>4, <1>5, <1>8, <2>1, BuildIsKept
  <2>3. HasFields(disk', DiskFields)
    BY <1>5, <1>8, Zenon
  <2> QED
    BY <1>1, <1>4, <1>8, <2>1, <2>2, <2>3, MovesOn, Zenon
<1> QED
  BY <1>7, <1>8

LEMMA CreateSteps ==
  ASSUME Placed, CreateProject
  PROVE  Stops \/ Jumps \/ Goes
<1>1. At("create") /\ run' = run /\ fpga' = fpga
  BY DEF CreateProject
<1>2. HasFields(disk, DiskFields) /\ job.at \in 1 .. Len(Steps) /\ Now.do = "create"
      /\ HasFields(job, JobFields)
  BY <1>1, Here, Zenon
<1>3. ASSUME NEW d, d.synth = disk.synth, d.bit = disk.bit, d.id = disk.id,
             HasFields(d, DiskFields), Advance(Reached), disk' = d, last' = last
      PROVE  Goes
  <2>1. "create" \notin {"synth", "write_bit", "write_id", "timing", "program"}
        /\ "create" \in OnlyDos /\ "create" # "check"
    BY DEF OnlyDos
  <2>2. BuildMoves
    BY <1>1, <1>2, <1>3, <2>1, BuildIsKept
  <2>3. HasFields(disk', DiskFields)
    BY <1>3, Zenon
  <2> QED
    BY <1>1, <1>3, <2>1, <2>2, <2>3, MovesOn, Zenon
<1>4. CASE NeedsCreate
  <2> DEFINE before == [disk EXCEPT !.project = "no_mig"]
             after == [disk EXCEPT !.project = "ready", !.hex = BoardHex(job.args)]
  <2>1. Outcome(Stage, before, after)
    BY <1>4 DEF CreateProject
  <2>2. /\ HasFields(before, DiskFields) /\ HasFields(after, DiskFields)
        /\ after.synth = disk.synth /\ after.bit = disk.bit /\ after.id = disk.id
    BY <1>2 DEF HasFields, DiskFields
  <2> HIDE DEF before, after
  <2>3. Now.do \notin {"find_audit", "capture", "trial_end"}
    BY <1>2
  <2>4. Stops \/ Jumps \/ (Advance(Reached) /\ disk' = after /\ last' = last)
    BY <1>1, <1>2, <2>1, <2>2, <2>3, OutcomeMoves, Zenon
  <2> QED
    BY <1>3, <2>2, <2>4, Zenon
<1>5. CASE ~NeedsCreate
  <2>1. Advance(Reached) /\ disk' = disk /\ last' = last
    BY <1>5, Zenon DEF CreateProject
  <2> QED
    BY <1>2, <1>3, <2>1, Zenon
<1> QED
  BY <1>4, <1>5

LEMMA SynthSteps ==
  ASSUME Placed, Synth
  PROVE  Stops \/ Jumps \/ Goes
<1> DEFINE before == [disk EXCEPT !.hex = RefreshRom]
           after == [disk EXCEPT !.hex = RefreshRom, !.synth = RefreshRom]
<1>1. At("synth") /\ run' = run /\ fpga' = fpga /\ Outcome(Stage, before, after)
  BY DEF Synth
<1>2. HasFields(disk, DiskFields) /\ job.at \in 1 .. Len(Steps) /\ Now.do = "synth"
      /\ HasFields(job, JobFields)
  BY <1>1, Here, Zenon
<1>3. /\ HasFields(before, DiskFields) /\ HasFields(after, DiskFields)
      /\ after.synth = RefreshRom /\ after.bit = disk.bit /\ after.id = disk.id
  BY <1>2 DEF HasFields, DiskFields
<1> HIDE DEF before, after
<1>4. Now.do \notin {"find_audit", "capture", "trial_end"}
  BY <1>2
<1>5. Stops \/ Jumps \/ (Advance(Reached) /\ disk' = after /\ last' = last)
  BY <1>1, <1>2, <1>3, <1>4, OutcomeMoves, Zenon
<1>6. ASSUME Advance(Reached), disk' = after, last' = last
      PROVE  Goes
  <2>1. "synth" \in OnlyDos /\ "synth" # "check"
    BY DEF OnlyDos
  <2>2. disk'.synth = BoardHex(job.args) /\ disk'.bit = disk.bit /\ disk'.id = disk.id
    BY <1>3, <1>6 DEF RefreshRom
  <2>3. Now.do # "write_bit" /\ Now.do # "write_id" /\ Now.do # "timing" /\ Now.do # "program"
        /\ Now.do = "synth"
    BY <1>2
  <2>4. BuildMoves
    BY <1>1, <2>2, <2>3, Zenon DEF BuildMoves
  <2>5. HasFields(disk', DiskFields)
    BY <1>3, <1>6, Zenon
  <2> QED
    BY <1>1, <1>6, <2>1, <2>4, <2>5, MovesOn, Zenon
<1> QED
  BY <1>5, <1>6

LEMMA WriteBitSteps ==
  ASSUME Placed, WriteBitstream
  PROVE  Stops \/ Jumps \/ Goes
<1>1. PICK hold \in BOOLEAN :
        Outcome(Stage, disk, [disk EXCEPT !.bit = [disk.synth EXCEPT !.id = run, !.hold = hold]])
  BY Zenon DEF WriteBitstream
<1> DEFINE bit == [disk.synth EXCEPT !.id = run, !.hold = hold]
           after == [disk EXCEPT !.bit = bit]
<1>2. Outcome(Stage, disk, after)
  BY <1>1, Zenon
<1> HIDE DEF bit
<1>3. At("write_bit") /\ run' = run /\ fpga' = fpga
  BY Zenon DEF WriteBitstream
<1>4. HasFields(disk, DiskFields) /\ job.at \in 1 .. Len(Steps) /\ Now.do = "write_bit"
      /\ HasFields(job, JobFields)
  BY <1>3, Here, Zenon
<1>5. /\ HasFields(after, DiskFields)
      /\ after.synth = disk.synth /\ after.bit = bit /\ after.id = disk.id
  BY <1>4 DEF HasFields, DiskFields
<1> HIDE DEF after
<1>6. Now.do \notin {"find_audit", "capture", "trial_end"}
  BY <1>4
<1>7. Stops \/ Jumps \/ (Advance(Reached) /\ disk' = after /\ last' = last)
  BY <1>2, <1>3, <1>4, <1>6, OutcomeMoves, Zenon
<1>8. ASSUME Advance(Reached), disk' = after, last' = last
      PROVE  Goes
  <2>1. "write_bit" \in OnlyDos /\ "write_bit" # "check"
    BY DEF OnlyDos
  <2>2. disk'.synth = disk.synth /\ disk'.bit = bit /\ disk'.id = disk.id
    BY <1>5, <1>8
  <2>3. Now.do # "synth" /\ Now.do # "write_id" /\ Now.do # "timing" /\ Now.do # "program"
        /\ Now.do = "write_bit"
    BY <1>4
  <2>4. Stamped(disk.synth, run, disk'.bit)
    BY <2>2, Zenon DEF bit, Stamped
  <2>5. BuildMoves
    BY <1>3, <2>2, <2>3, <2>4, Zenon DEF BuildMoves
  <2>6. HasFields(disk', DiskFields)
    BY <1>5, <1>8, Zenon
  <2> QED
    BY <1>3, <1>8, <2>1, <2>5, <2>6, MovesOn, Zenon
<1> QED
  BY <1>7, <1>8

LEMMA WriteIdSteps ==
  ASSUME Placed, WriteBuildId
  PROVE  Stops \/ Jumps \/ Goes
<1> DEFINE after == [disk EXCEPT !.id = run]
<1>1. At("write_id") /\ run' = run /\ fpga' = fpga /\ Outcome(Stage, disk, after)
  BY DEF WriteBuildId
<1>2. HasFields(disk, DiskFields) /\ job.at \in 1 .. Len(Steps) /\ Now.do = "write_id"
      /\ HasFields(job, JobFields)
  BY <1>1, Here, Zenon
<1>3. /\ HasFields(after, DiskFields)
      /\ after.synth = disk.synth /\ after.bit = disk.bit /\ after.id = run
  BY <1>2 DEF HasFields, DiskFields
<1> HIDE DEF after
<1>4. Now.do \notin {"find_audit", "capture", "trial_end"}
  BY <1>2
<1>5. Stops \/ Jumps \/ (Advance(Reached) /\ disk' = after /\ last' = last)
  BY <1>1, <1>2, <1>3, <1>4, OutcomeMoves, Zenon
<1>6. ASSUME Advance(Reached), disk' = after, last' = last
      PROVE  Goes
  <2>1. "write_id" \in OnlyDos /\ "write_id" # "check"
    BY DEF OnlyDos
  <2>2. disk'.synth = disk.synth /\ disk'.bit = disk.bit /\ disk'.id = run
    BY <1>3, <1>6
  <2>3. Now.do # "synth" /\ Now.do # "write_bit" /\ Now.do # "timing" /\ Now.do # "program"
        /\ Now.do = "write_id"
    BY <1>2
  <2>4. BuildMoves
    BY <1>1, <2>2, <2>3, Zenon DEF BuildMoves
  <2>5. HasFields(disk', DiskFields)
    BY <1>3, <1>6, Zenon
  <2> QED
    BY <1>1, <1>6, <2>1, <2>4, <2>5, MovesOn, Zenon
<1> QED
  BY <1>5, <1>6

LEMMA TimingSteps ==
  ASSUME Placed, CheckTiming
  PROVE  Stops \/ Jumps \/ Goes
<1>1. At("timing") /\ run' = run /\ fpga' = fpga
  BY DEF CheckTiming
<1>2. HasFields(disk, DiskFields) /\ job.at \in 1 .. Len(Steps) /\ Now.do = "timing"
      /\ HasFields(job, JobFields)
  BY <1>1, Here, Zenon
<1>3. CASE TimingMet
  <2>1. Advance(Reached) /\ disk' = disk /\ last' = last
    BY <1>3, Zenon DEF CheckTiming
  <2>2. Now.do # "synth" /\ Now.do # "write_bit" /\ Now.do # "write_id" /\ Now.do # "program"
    BY <1>2
  <2>3. disk'.synth = disk.synth /\ disk'.bit = disk.bit /\ disk'.id = disk.id
    BY <2>1, Zenon
  <2>4. BuildMoves
    BY <1>1, <1>3, <2>2, <2>3, Zenon DEF BuildMoves, TimingMet
  <2>5. "timing" \in OnlyDos /\ "timing" # "check" /\ HasFields(disk', DiskFields)
    BY <1>2, <2>1 DEF OnlyDos
  <2> QED
    BY <1>1, <2>1, <2>4, <2>5, MovesOn, Zenon
<1>4. CASE ~TimingMet
  <2>1. Raise(Stage, disk)
    BY <1>4, Zenon DEF CheckTiming
  <2>2. Now.do \notin {"find_audit", "capture", "trial_end"}
    BY <1>2
  <2> QED
    BY <1>1, <1>2, <2>1, <2>2, Raised, Zenon
<1> QED
  BY <1>3, <1>4

LEMMA ProgramSteps ==
  ASSUME Placed, ProgramBoard
  PROVE  Stops \/ Jumps \/ Goes
<1>1. At("program") /\ run' = run
  BY DEF ProgramBoard
<1>2. HasFields(disk, DiskFields) /\ job.at \in 1 .. Len(Steps) /\ Now.do = "program"
      /\ HasFields(job, JobFields)
  BY <1>1, Here, Zenon
<1>3. /\ HasFields(Started, DiskFields)
      /\ Started.synth = disk.synth /\ Started.bit = disk.bit /\ Started.id = disk.id
  BY <1>2 DEF Started, HasFields, DiskFields
<1>4. CASE Raise(Stage, Started)
  <2>1. Now.do \notin {"find_audit", "capture", "trial_end"}
    BY <1>2
  <2> QED
    BY <1>1, <1>2, <1>3, <1>4, <2>1, Raised, Zenon
<1>5. CASE ~Raise(Stage, Started)
  <2>1. /\ fpga' = disk.bit /\ IdReadBack
        /\ Advance(Reached) /\ disk' = Started /\ last' = last
    BY <1>5, Zenon DEF ProgramBoard
  <2>2. Now.do # "synth" /\ Now.do # "write_bit" /\ Now.do # "write_id" /\ Now.do # "timing"
    BY <1>2
  <2>3. disk'.synth = disk.synth /\ disk'.bit = disk.bit /\ disk'.id = disk.id
    BY <1>3, <2>1, Zenon
  <2>4. BuildMoves
    BY <1>2, <2>1, <2>2, <2>3, Zenon DEF BuildMoves
  <2>5. "program" \in OnlyDos /\ "program" # "check" /\ HasFields(disk', DiskFields)
    BY <1>3, <2>1 DEF OnlyDos
  <2> QED
    BY <1>1, <2>1, <2>4, <2>5, MovesOn, Zenon
<1> QED
  BY <1>4, <1>5

LEMMA LongSimSteps ==
  ASSUME Placed, RunLongSim
  PROVE  Stops \/ Goes
<1>1. At("try_sim") /\ run' = run /\ fpga' = fpga /\ disk' = SimImage
  BY DEF RunLongSim
<1>2. HasFields(disk, DiskFields) /\ job.at \in 1 .. Len(Steps) /\ Now.do = "try_sim"
      /\ HasFields(job, JobFields)
  BY <1>1, Here, Zenon
<1>3. /\ HasFields(disk', DiskFields)
      /\ disk'.synth = disk.synth /\ disk'.bit = disk.bit /\ disk'.id = disk.id
  BY <1>1, <1>2 DEF SimImage, HasFields, DiskFields
<1>4. CASE Quit
  BY <1>1, <1>3, <1>4 DEF Quit, End, Stops
<1>5. ASSUME HasFields(job', JobFields), job'.args = job.args, job'.at = job.at + 1,
             job'.stage = Stage, job'.wrong \subseteq job.wrong \cup {<<Stage, "long">>},
             job'.smoke = job.smoke, job'.final = job.final, job'.raised = job.raised,
             last' = last
      PROVE  Goes
  <2>1. "try_sim" \notin {"synth", "write_bit", "write_id", "timing", "program"}
    OBVIOUS
  <2>2. BuildMoves
    BY <1>1, <1>2, <1>3, <2>1, BuildIsKept
  <2>3. /\ Now.do # "capture" /\ Now.do # "check" /\ Now.do # "reuse" /\ Now.do # "trial_end"
        /\ Now.do \notin {"stop", "verdict"}
    BY <1>2
  <2>4. EvidenceMoves
    BY <1>2, <1>5, <2>3 DEF EvidenceMoves
  <2>5. TrialMoves
    BY <1>5, <2>3 DEF TrialMoves
  <2> QED
    BY <1>1, <1>2, <1>3, <1>5, <2>2, <2>3, <2>4, <2>5, Zenon DEF Goes
<1>6. CASE Advance(Reached) /\ last' = last
  <2>1. /\ HasFields(job', JobFields) /\ job'.args = job.args
        /\ job'.at = job.at + 1 /\ job'.stage = Stage
        /\ job'.wrong = job.wrong /\ job'.smoke = job.smoke /\ job'.final = job.final
        /\ job'.raised = job.raised
    BY <1>2, <1>6, Moved, Zenon
  <2>2. job'.wrong \subseteq job.wrong \cup {<<Stage, "long">>}
    BY <2>1
  <2> QED
    BY <1>5, <1>6, <2>1, <2>2, Zenon
<1>7. CASE Advance([Reached EXCEPT !.wrong = @ \cup {<<Stage, "long">>}]) /\ last' = last
  <2>1. /\ HasFields(job', JobFields) /\ job'.args = job.args
        /\ job'.at = job.at + 1 /\ job'.stage = Stage
        /\ job'.wrong = job.wrong \cup {<<Stage, "long">>}
        /\ job'.smoke = job.smoke /\ job'.final = job.final
        /\ job'.raised = job.raised
    BY <1>2, <1>7, MovedLong
  <2>2. job'.wrong \subseteq job.wrong \cup {<<Stage, "long">>}
    BY <2>1
  <2> QED
    BY <1>5, <1>7, <2>1, <2>2, Zenon
<1> QED
  BY <1>4, <1>6, <1>7, Zenon DEF RunLongSim

LEMMA CaptureSteps ==
  ASSUME Placed, CaptureUart
  PROVE  Goes
<1>1. At("capture") /\ run' = run /\ fpga' = fpga /\ disk' = disk /\ last' = last
  BY Zenon DEF CaptureUart
<1>2. HasFields(disk, DiskFields) /\ job.at \in 1 .. Len(Steps) /\ Now.do = "capture"
      /\ HasFields(job, JobFields)
  BY <1>1, Here, Zenon
<1>3. Now.slot \in {"smoke", "final"}
  BY <1>2, Zenon DEF Placed
<1>4. PICK seen \in Shown(Mode(job.args)) :
        Captured(Now.slot, seen, LostIn(Now.slot, Mode(job.args), seen))
  BY Zenon DEF CaptureUart, Captured
<1>5. /\ HasFields(job', JobFields) /\ job'.args = job.args
      /\ job'.at = job.at + 1 /\ job'.stage = Stage
      /\ job'.wrong = job.wrong \cup LostIn(Now.slot, Mode(job.args), seen)
      /\ job'.raised = job.raised
      /\ Now.slot = "smoke" => job'.smoke = seen /\ job'.final = job.final
      /\ Now.slot = "final" => job'.final = seen /\ job'.smoke = job.smoke
  BY <1>2, <1>3, <1>4, MovedCapture, Zenon
<1>6. "capture" \notin {"synth", "write_bit", "write_id", "timing", "program"}
  OBVIOUS
<1>7. disk'.synth = disk.synth /\ disk'.bit = disk.bit /\ disk'.id = disk.id
      /\ HasFields(disk', DiskFields)
  BY <1>1, <1>2, Zenon
<1>8. BuildMoves
  BY <1>1, <1>2, <1>6, <1>7, BuildIsKept
<1>9. /\ Now.do # "try_sim" /\ Now.do # "check" /\ Now.do # "reuse" /\ Now.do # "trial_end"
      /\ Now.do \notin {"stop", "verdict"}
      /\ Now.do \in {"capture", "try_sim", "trial_end"} /\ Now.do \in {"capture", "reuse", "trial_end"}
  BY <1>2
<1>10. EvidenceMoves
  BY <1>5, <1>9, Zenon DEF EvidenceMoves
<1>11. TrialMoves
  BY <1>5, <1>9, Zenon DEF TrialMoves
<1> QED
  BY <1>1, <1>2, <1>5, <1>7, <1>8, <1>9, <1>10, <1>11, Zenon DEF Goes

LEMMA ReuseSteps ==
  ASSUME Placed, ReuseSmoke
  PROVE  Goes
<1>1. At("reuse") /\ run' = run /\ fpga' = fpga /\ disk' = disk /\ last' = last
      /\ Advance([Reached EXCEPT !.final = job.smoke])
  BY DEF ReuseSmoke
<1>2. HasFields(disk, DiskFields) /\ job.at \in 1 .. Len(Steps) /\ Now.do = "reuse"
      /\ HasFields(job, JobFields)
  BY <1>1, Here, Zenon
<1>3. /\ HasFields(job', JobFields) /\ job'.args = job.args
      /\ job'.at = job.at + 1 /\ job'.stage = Stage
      /\ job'.wrong = job.wrong /\ job'.smoke = job.smoke /\ job'.final = job.smoke
      /\ job'.raised = job.raised
  BY <1>1, <1>2, MovedReuse
<1>4. "reuse" \notin {"synth", "write_bit", "write_id", "timing", "program"}
  OBVIOUS
<1>5. disk'.synth = disk.synth /\ disk'.bit = disk.bit /\ disk'.id = disk.id
      /\ HasFields(disk', DiskFields)
  BY <1>1, <1>2, Zenon
<1>6. BuildMoves
  BY <1>1, <1>2, <1>4, <1>5, BuildIsKept
<1>7. /\ Now.do # "try_sim" /\ Now.do # "check" /\ Now.do # "capture" /\ Now.do # "trial_end"
      /\ Now.do \notin {"stop", "verdict"} /\ Now.do \in {"capture", "reuse", "trial_end"}
  BY <1>2
<1>8. EvidenceMoves
  BY <1>3, <1>7, Zenon DEF EvidenceMoves
<1>9. TrialMoves
  BY <1>3, <1>7, Zenon DEF TrialMoves
<1> QED
  BY <1>1, <1>2, <1>3, <1>5, <1>6, <1>7, <1>8, <1>9, Zenon DEF Goes

LEMMA CheckSteps ==
  ASSUME Placed, CheckEvidence
  PROVE  Stops \/ Jumps \/ Goes
<1>1. At("check") /\ run' = run /\ fpga' = fpga
  BY DEF CheckEvidence
<1>2. HasFields(disk, DiskFields) /\ job.at \in 1 .. Len(Steps) /\ Now.do = "check"
      /\ HasFields(job, JobFields)
  BY <1>1, Here, Zenon
<1>3. CASE Now.needs \subseteq Evidence
  <2>1. Advance(Reached) /\ disk' = disk /\ last' = last
    BY <1>3, Zenon DEF CheckEvidence
  <2>2. "check" \notin {"synth", "write_bit", "write_id", "timing", "program"}
        /\ "check" \in OnlyDos
    BY DEF OnlyDos
  <2>3. disk'.synth = disk.synth /\ disk'.bit = disk.bit /\ disk'.id = disk.id
        /\ HasFields(disk', DiskFields)
    BY <1>2, <2>1, Zenon
  <2>4. BuildMoves
    BY <1>1, <1>2, <2>2, <2>3, BuildIsKept
  <2> QED
    BY <1>1, <1>3, <2>1, <2>2, <2>3, <2>4, MovesOn, Zenon
<1>4. CASE ~(Now.needs \subseteq Evidence)
  <2>1. Raise(Stage, disk)
    BY <1>4, Zenon DEF CheckEvidence
  <2>2. Now.do \notin {"find_audit", "capture", "trial_end"}
    BY <1>2
  <2> QED
    BY <1>1, <1>2, <2>1, <2>2, Raised, Zenon
<1> QED
  BY <1>3, <1>4

LEMMA FindSteps ==
  ASSUME Placed, FindAudit \/ FindBitstream \/ FindPayloads \/ RunMust
  PROVE  Stops \/ Goes
<1>1. PICK do \in {"find_audit", "find_bit", "find_payloads", "must"} : At(do)
  BY DEF FindAudit, FindBitstream, FindPayloads, RunMust
<1>2. PICK found : Missing(found)
  BY DEF FindAudit, FindBitstream, FindPayloads, RunMust
<1>3. run' = run /\ fpga' = fpga /\ disk' = disk
  BY DEF FindAudit, FindBitstream, FindPayloads, RunMust
<1>4. HasFields(disk, DiskFields) /\ job.at \in 1 .. Len(Steps) /\ Now.do = do
      /\ HasFields(job, JobFields)
  BY <1>1, Here, Zenon
<1>5. disk'.synth = disk.synth /\ disk'.bit = disk.bit /\ disk'.id = disk.id
      /\ HasFields(disk', DiskFields)
  BY <1>3, <1>4, Zenon
<1>6. CASE Quit
  BY <1>3, <1>5, <1>6 DEF Quit, End, Stops
<1>7. CASE Advance(Reached) /\ last' = last
  <2>1. do \notin {"synth", "write_bit", "write_id", "timing", "program"}
        /\ do \in OnlyDos /\ do # "check"
    BY DEF OnlyDos
  <2>2. BuildMoves
    BY <1>3, <1>4, <1>5, <2>1, BuildIsKept
  <2> QED
    BY <1>1, <1>3, <1>5, <1>7, <2>1, <2>2, MovesOn, Zenon
<1> QED
  BY <1>2, <1>6, <1>7, Zenon DEF Missing

LEMMA EndTrialSteps ==
  ASSUME Placed, EndTrial
  PROVE  Stops \/ Passes \/ Goes
<1>1. At("trial_end") /\ run' = run /\ fpga' = fpga
  BY DEF EndTrial
<1>2. HasFields(disk, DiskFields) /\ job.at \in 1 .. Len(Steps) /\ Now.do = "trial_end"
      /\ HasFields(job, JobFields)
  BY <1>1, Here, Zenon
<1>3. CASE LastTrial
  <2>1. Report(IF TrialPassed THEN 0 ELSE 1, "none", disk)
    BY <1>3, Zenon DEF EndTrial
  <2>2. /\ job' = Idle /\ disk' = disk /\ last'.args = job.args /\ last'.wrong = job.wrong
        /\ last'.code = IF TrialPassed THEN 0 ELSE 1
    BY <2>1 DEF Report, End
  <2>3. HasFields(disk', DiskFields)
    BY <1>2, <2>2, Zenon
  <2>4. CASE TrialPassed
    <3>1. PassesHere
      BY <1>2, <2>4, Zenon DEF PassesHere
    <3> QED
      BY <1>1, <2>2, <3>1 DEF Passes
  <2>5. CASE ~TrialPassed
    BY <1>1, <2>2, <2>3, <2>5 DEF Stops
  <2> QED
    BY <2>4, <2>5
<1>4. CASE ~LastTrial
  <2>1. /\ Advance([Reached EXCEPT !.raised = FALSE, !.final = {}, !.wrong = {}])
        /\ disk' = disk /\ last' = last
    BY <1>4, Zenon DEF EndTrial
  <2>2. job.at # Len(Steps)
    BY <1>4 DEF LastTrial
  <2>3. /\ HasFields(job', JobFields) /\ job'.args = job.args
        /\ job'.at = job.at + 1 /\ job'.stage = Stage
        /\ job'.wrong = {} /\ job'.raised = FALSE
    BY <1>2, <2>1, MovedTrial
  <2>4. disk'.synth = disk.synth /\ disk'.bit = disk.bit /\ disk'.id = disk.id
        /\ HasFields(disk', DiskFields)
    BY <1>2, <2>1, Zenon
  <2>5. "trial_end" \notin {"synth", "write_bit", "write_id", "timing", "program"}
    OBVIOUS
  <2>6. BuildMoves
    BY <1>1, <1>2, <2>4, <2>5, BuildIsKept
  <2>7. /\ Now.do # "try_sim" /\ Now.do # "check" /\ Now.do # "capture" /\ Now.do # "reuse"
        /\ Now.do \notin {"stop", "verdict"} /\ Now.do \in {"capture", "reuse", "trial_end"}
        /\ Now.do \in {"capture", "try_sim", "trial_end"}
    BY <1>2
  <2>8. EvidenceMoves
    BY <2>7, Zenon DEF EvidenceMoves
  <2>9. TrialMoves
    BY <1>2, <2>2, <2>3, Zenon DEF TrialMoves
  <2> QED
    BY <1>1, <1>2, <2>1, <2>3, <2>4, <2>6, <2>7, <2>8, <2>9, Zenon DEF Goes
<1> QED
  BY <1>3, <1>4

LEMMA LastSteps ==
  ASSUME Placed, StopAfterSynth \/ GiveVerdict \/ Finish \/ Interrupt
  PROVE  Stops \/ Passes
<1>1. run' = run /\ fpga' = fpga /\ disk' = disk /\ job' = Idle
      /\ last'.args = job.args /\ last'.wrong = job.wrong
  BY DEF StopAfterSynth, GiveVerdict, Finish, Interrupt, Report, Quit, End
<1>2. HasFields(disk', DiskFields)
  BY <1>1, Zenon DEF Placed
<1>3. CASE StopAfterSynth
  <2>1. At("stop")
    BY <1>3 DEF StopAfterSynth
  <2>2. job.at \in 1 .. Len(Steps) /\ Now.do = "stop"
    BY <2>1, Here, Zenon
  <2>3. PassesHere
    BY <2>2, Zenon DEF PassesHere
  <2> QED
    BY <1>1, <2>3 DEF Passes
<1>4. CASE GiveVerdict
  <2>1. At("verdict")
    BY <1>4 DEF GiveVerdict
  <2>2. job.at \in 1 .. Len(Steps) /\ Now.do = "verdict"
    BY <2>1, Here, Zenon
  <2>3. CASE Now.needs \subseteq Evidence
    <3>1. PassesHere
      BY <2>2, <2>3, Zenon DEF PassesHere
    <3> QED
      BY <1>1, <3>1 DEF Passes
  <2>4. CASE ~(Now.needs \subseteq Evidence)
    <3>1. Report(1, "none", disk)
      BY <1>4, <2>4, Zenon DEF GiveVerdict
    <3>2. last'.code = 1
      BY <3>1 DEF Report, End
    <3> QED
      BY <1>1, <1>2, <3>2 DEF Stops
  <2> QED
    BY <2>3, <2>4
<1>5. CASE Finish
  <2>1. PassesHere
    BY <1>5 DEF Finish, PassesHere
  <2> QED
    BY <1>1, <2>1 DEF Passes
<1>6. CASE Interrupt
  <2>1. last'.code = 1
    BY <1>6 DEF Interrupt, Quit, End
  <2> QED
    BY <1>1, <1>2, <2>1 DEF Stops
<1> QED
  BY <1>3, <1>4, <1>5, <1>6

\* Every step of a run is one of the four.
LEMMA StepOfRunMoves ==
  ASSUME Placed, StepOfRun \/ Interrupt
  PROVE  Stops \/ Passes \/ Jumps \/ Goes
BY GateSteps, PayloadSteps, CreateSteps, SynthSteps, WriteBitSteps, WriteIdSteps, TimingSteps,
   ProgramSteps, LongSimSteps, CaptureSteps, ReuseSteps, CheckSteps, FindSteps, EndTrialSteps,
   LastSteps, Zenon DEF StepOfRun

-----------------------------------------------------------------------------
(* The steps keep the invariants.                                           *)

\* Outside a sweep no stage is a trial's.
LEMMA StageIsNoTrial ==
  ASSUME FlowTypeOK, Running, BoardIsKnown, Straight(Steps, job.args),
         job.at \in 1 .. Len(Steps)
  PROVE  Stage # "trial"
<1>1. job.stage # "trial"
  BY Zenon DEF BoardIsKnown
<1>2. Now.stage # "trial"
  BY Zenon DEF Straight, Now
<1> QED
  BY <1>1, <1>2, Zenon DEF Stage

\* A failure jumps to the end of the trial it is in.
LEMMA JumpLands ==
  ASSUME FlowTypeOK, Running, BoardIsKnown, Jumps
  PROVE  /\ Mode(job.args) = "early_board" /\ Trials(Steps)
         /\ NextTrialEnd \in 1 .. Len(Steps) /\ Steps[NextTrialEnd].do = "trial_end"
<1>1. job.at \in 1 .. Len(Steps) /\ Stage = "trial"
      /\ Now.do \notin {"find_audit", "capture", "trial_end"}
  BY DEF Jumps
<1>2. Mode(job.args) = "early_board" /\ Trials(Steps)
  BY <1>1, WhosePlan, StageIsNoTrial, Zenon
<1> DEFINE s == Steps
           p == job.at
<1>3. /\ Len(s) \in Nat /\ p \in 1 .. Len(s) /\ s[p].do \notin {"find_audit", "capture", "trial_end"}
      /\ s[1].do = "find_audit" /\ s[Len(s)].do = "trial_end"
      /\ \A i \in 1 .. Len(s) - 1 : s[i + 1].do = Follower(s[i].do)
      /\ \A i \in 2 .. Len(s) : s[i].do \in {"gate", "program", "capture", "trial_end"}
  BY <1>1, <1>2 DEF Trials, IsSequence, Now
<1>4. NextTrialEnd = CHOOSE i \in p .. Len(s) :
                       s[i].do = "trial_end" /\ \A j \in p .. i - 1 : s[j].do # "trial_end"
  BY DEF NextTrialEnd
<1> HIDE DEF s, p
<1>5. /\ Follower("gate") = "program" /\ Follower("program") = "capture"
      /\ Follower("capture") = "trial_end"
  BY DEF Follower
<1>6. p # 1 /\ p # Len(s)
  BY <1>3
<1>7. s[p].do \in {"gate", "program"} /\ p + 1 \in 1 .. Len(s) /\ s[p + 1].do = Follower(s[p].do)
  BY <1>3, <1>6
<1>8. ASSUME NEW i \in 1 .. Len(s), s[i].do = "program"
      PROVE  /\ i + 2 \in 1 .. Len(s) /\ s[i + 1].do = "capture" /\ s[i + 2].do = "trial_end"
  <2>1. i # Len(s)
    BY <1>3, <1>8
  <2>2. i \in 1 .. Len(s) - 1
    BY <1>3, <2>1
  <2>3. s[i + 1].do = "capture"
    BY <1>3, <1>5, <1>8, <2>2
  <2>4. i + 1 # Len(s)
    BY <1>3, <2>3
  <2>5. i + 1 \in 1 .. Len(s) - 1
    BY <1>3, <2>2, <2>4
  <2>6. s[(i + 1) + 1].do = "trial_end"
    BY <1>3, <1>5, <2>3, <2>5
  <2> QED
    BY <1>3, <2>2, <2>3, <2>5, <2>6
<1>9. \E i \in p .. Len(s) :
        s[i].do = "trial_end" /\ \A j \in p .. i - 1 : s[j].do # "trial_end"
  <2>1. CASE s[p].do = "program"
    <3>1. /\ p + 2 \in p .. Len(s) /\ s[p + 1].do = "capture" /\ s[p + 2].do = "trial_end"
      BY <1>3, <1>8, <2>1
    <3>2. \A j \in p .. (p + 2) - 1 : j = p \/ j = p + 1
      BY <1>3
    <3>3. \A j \in p .. (p + 2) - 1 : s[j].do # "trial_end"
      BY <2>1, <3>1, <3>2
    <3> QED
      BY <3>1, <3>3
  <2>2. CASE s[p].do = "gate"
    <3>1. s[p + 1].do = "program"
      BY <1>5, <1>7, <2>2
    <3>2. /\ (p + 1) + 2 \in 1 .. Len(s) /\ s[(p + 1) + 1].do = "capture"
          /\ s[(p + 1) + 2].do = "trial_end"
      BY <1>7, <1>8, <3>1
    <3>3. p + 3 \in p .. Len(s) /\ s[p + 2].do = "capture" /\ s[p + 3].do = "trial_end"
      BY <1>3, <3>2
    <3>4. \A j \in p .. (p + 3) - 1 : j = p \/ j = p + 1 \/ j = p + 2
      BY <1>3
    <3>5. \A j \in p .. (p + 3) - 1 : s[j].do # "trial_end"
      BY <2>2, <3>1, <3>3, <3>4
    <3> QED
      BY <3>3, <3>5
  <2> QED
    BY <1>7, <2>1, <2>2
<1>10. NextTrialEnd \in p .. Len(s) /\ s[NextTrialEnd].do = "trial_end"
  BY <1>4, <1>9, Zenon
<1>11. NextTrialEnd \in 1 .. Len(s)
  BY <1>3, <1>10
<1> QED
  BY <1>2, <1>10, <1>11 DEF s

\* The plan does not change while a run goes on.
LEMMA SameSteps ==
  ASSUME job'.args = job.args
  PROVE  Steps' = Steps
BY DEF Steps, Plans

LEMMA TypeKept ==
  ASSUME FlowTypeOK, Running, BoardIsKnown, Stops \/ Passes \/ Jumps \/ Goes
  PROVE  FlowTypeOK'
<1>1. job.args \in Requests /\ Legal(job.args) /\ run \in Nat /\ HasFields(disk, DiskFields)
      /\ last = Idle /\ job.raised \in BOOLEAN
  BY DEF FlowTypeOK
<1>2. CASE Stops
  BY <1>1, <1>2 DEF Stops, FlowTypeOK, Running
<1>3. CASE Passes
  BY <1>1, <1>3 DEF Passes, FlowTypeOK, Running
<1>4. CASE Jumps
  <2>1. /\ HasFields(job', JobFields) /\ job'.args = job.args /\ job'.at = NextTrialEnd
        /\ job'.raised = TRUE /\ last' = last /\ run' = run /\ HasFields(disk', DiskFields)
    BY <1>4 DEF Jumps
  <2>2. NextTrialEnd \in 1 .. Len(Steps)
    BY <1>4, JumpLands
  <2>3. Steps' = Steps /\ Len(Steps) \in Nat
    BY <2>1, SameSteps, WhosePlan DEF IsSequence
  <2>4. job'.at \in 1 .. Len(Steps') + 1
    BY <2>1, <2>2, <2>3
  <2> QED
    BY <1>1, <2>1, <2>4 DEF FlowTypeOK
<1>5. CASE Goes
  <2>1. /\ HasFields(job', JobFields) /\ job'.args = job.args /\ job'.at = job.at + 1
        /\ last' = last /\ run' = run /\ HasFields(disk', DiskFields)
        /\ job.at \in 1 .. Len(Steps)
    BY <1>5 DEF Goes
  <2>2. job'.raised \in BOOLEAN
    <3>1. TrialMoves
      BY <1>5, Zenon DEF Goes
    <3> QED
      BY <1>1, <3>1, Zenon DEF TrialMoves
  <2>3. Steps' = Steps /\ Len(Steps) \in Nat
    BY <2>1, SameSteps, WhosePlan DEF IsSequence
  <2>4. job'.at \in 1 .. Len(Steps') + 1
    BY <2>1, <2>3
  <2> QED
    BY <1>1, <2>1, <2>2, <2>4 DEF FlowTypeOK
<1> QED
  BY <1>2, <1>3, <1>4, <1>5

\* What a run has built is behind its steps.
LEMMA OwnBuildKept ==
  ASSUME FlowTypeOK, Running, BoardIsKnown, OwnBuild, Stops \/ Passes \/ Jumps \/ Goes
  PROVE  OwnBuild'
<1>1. CASE Stops \/ Passes
  BY <1>1 DEF Stops, Passes, OwnBuild, Running
<1>2. CASE Jumps
  <2>1. Mode(job'.args) = "early_board"
    BY <1>2, JumpLands DEF Jumps
  <2> QED
    BY <2>1 DEF OwnBuild, Full
<1>3. CASE Goes
  <2> SUFFICES ASSUME Full(job.args), NEW n \in Nat, Builds(Steps, n)
               PROVE  /\ job'.at > n + 3 => disk'.synth = BoardHex(job.args)
                      /\ job'.at > n + 4 => Stamped(BoardHex(job.args), run, disk'.bit)
                      /\ job'.at > n + 5 => disk'.id = run
                      /\ job'.at > n + 6 => disk'.bit.hold
    <3>1. job'.args = job.args /\ run' = run
      BY <1>3 DEF Goes
    <3>2. Steps' = Steps
      BY <3>1, SameSteps
    <3> QED
      BY <3>1, <3>2 DEF OwnBuild
  <2>1. job'.at = job.at + 1 /\ job.at \in 1 .. Len(Steps) /\ BuildMoves
    BY <1>3 DEF Goes
  <2>2. Len(Steps) \in Nat
    BY WhosePlan DEF IsSequence
  <2> DEFINE p == job.at
             s == Steps
             a == job.args
  <2>3. /\ p > n + 3 => disk.synth = BoardHex(a)
        /\ p > n + 4 => Stamped(BoardHex(a), run, disk.bit)
        /\ p > n + 5 => disk.id = run
        /\ p > n + 6 => disk.bit.hold
    BY Zenon DEF OwnBuild
  <2>4. /\ p <= n + 2 => s[p].do \in GateDos \cup {"create"}
        /\ p = n + 3 => s[p].do = "synth"
        /\ p = n + 4 => s[p].do = "write_bit"
        /\ p = n + 5 => s[p].do = "write_id"
        /\ p = n + 6 => s[p].do = "timing"
        /\ p >= n + 7 => s[p].do \in BoardDos
    BY <2>1, <2>2 DEF Builds
  <2>5. Now.do = s[p].do
    BY DEF Now
  <2>6. CASE p <= n + 2
    BY <2>1, <2>6
  <2>7. CASE p = n + 3
    <3>1. disk'.synth = BoardHex(a)
      BY <2>1, <2>4, <2>5, <2>7 DEF BuildMoves
    <3> QED
      BY <2>1, <2>7, <3>1
  <2>8. CASE p = n + 4
    <3>1. disk'.synth = disk.synth /\ Stamped(disk.synth, run, disk'.bit)
      BY <2>1, <2>4, <2>5, <2>8 DEF BuildMoves
    <3>2. disk.synth = BoardHex(a)
      BY <2>3, <2>8
    <3>3. Stamped(BoardHex(a), run, disk'.bit)
      BY <3>1, <3>2, Zenon
    <3> QED
      BY <2>1, <2>8, <3>1, <3>2, <3>3
  <2>9. CASE p = n + 5
    <3>1. disk'.synth = disk.synth /\ disk'.bit = disk.bit /\ disk'.id = run
      BY <2>1, <2>4, <2>5, <2>9 DEF BuildMoves
    <3> QED
      BY <2>1, <2>3, <2>9, <3>1
  <2>10. CASE p = n + 6
    <3>1. disk'.synth = disk.synth /\ disk'.bit = disk.bit /\ disk'.id = disk.id /\ disk.bit.hold
      BY <2>1, <2>4, <2>5, <2>10 DEF BuildMoves
    <3> QED
      BY <2>1, <2>3, <2>10, <3>1
  <2>11. CASE p >= n + 7
    <3>1. Now.do \notin {"synth", "write_bit", "write_id"}
      BY <2>4, <2>5, <2>11 DEF BoardDos
    <3>2. disk'.synth = disk.synth /\ disk'.bit = disk.bit /\ disk'.id = disk.id
      BY <2>1, <3>1 DEF BuildMoves
    <3> QED
      BY <2>1, <2>3, <2>11, <3>2
  <2> QED
    BY <2>1, <2>2, <2>6, <2>7, <2>8, <2>9, <2>10, <2>11
<1> QED
  BY <1>1, <1>2, <1>3

\* Nothing is written behind a programming, so the ids stay equal.
LEMMA BoardKept ==
  ASSUME FlowTypeOK, Running, BoardIsKnown, Stops \/ Passes \/ Jumps \/ Goes
  PROVE  BoardIsKnown'
<1>1. CASE Stops \/ Passes
  BY <1>1 DEF Stops, Passes, BoardIsKnown, Running
<1>2. CASE Jumps
  <2>1. job'.args = job.args /\ Trials(Steps)
    BY <1>2, JumpLands DEF Jumps
  <2>2. Steps' = Steps
    BY <2>1, SameSteps
  <2>3. ~Straight(Steps, job.args)
    <3>1. Len(Steps) \in 1 .. Len(Steps) /\ Steps[Len(Steps)].do = "trial_end"
      BY <2>1 DEF Trials, IsSequence
    <3> QED
      BY <3>1, Zenon DEF Straight
  <2> QED
    BY <2>1, <2>2, <2>3 DEF BoardIsKnown
<1>3. CASE Goes
  <2> SUFFICES ASSUME Straight(Steps, job.args)
               PROVE  /\ job'.stage # "trial"
                      /\ (\E j \in Doing(Steps, {"program"}) : j < job'.at) => OnBoard'
    <3>1. job'.args = job.args
      BY <1>3 DEF Goes
    <3>2. Steps' = Steps
      BY <3>1, SameSteps
    <3> QED
      BY <3>1, <3>2 DEF BoardIsKnown
  <2>1. job'.at = job.at + 1 /\ job.at \in 1 .. Len(Steps) /\ BuildMoves /\ job'.stage = Stage
    BY <1>3 DEF Goes
  <2>2. job'.stage # "trial"
    BY <2>1, StageIsNoTrial, Zenon
  <2>3. ASSUME NEW j \in Doing(Steps, {"program"}), j < job'.at
        PROVE  OnBoard'
    <3>1. j \in 1 .. Len(Steps)
      BY DEF Doing
    <3>2. CASE Now.do = "program"
      <4>1. fpga' = disk.bit /\ disk'.id = disk.id /\ IdReadBack
        BY <2>1, <3>2 DEF BuildMoves
      <4> QED
        BY <4>1 DEF IdReadBack, OnBoard
    <3>3. CASE Now.do # "program"
      <4>1. j # job.at
        BY <3>3 DEF Doing, Now
      <4>2. j < job.at
        BY <2>1, <2>3, <3>1, <4>1
      <4>3. OnBoard
        BY <4>2, Zenon DEF BoardIsKnown
      <4>4. Now.do # "write_id"
        <5>1. ASSUME Now.do = "write_id"
              PROVE  FALSE
          <6>1. job.at \in Doing(Steps, {"write_bit", "write_id"})
            BY <2>1, <5>1 DEF Doing, Now
          <6>2. job.at < j
            BY <6>1, Zenon DEF Straight
          <6> QED
            BY <2>1, <3>1, <4>2, <6>2
        <5> QED
          BY <5>1
      <4>5. fpga' = fpga /\ disk'.id = disk.id
        BY <2>1, <3>3, <4>4 DEF BuildMoves
      <4> QED
        BY <4>3, <4>5 DEF OnBoard
    <3> QED
      BY <3>2, <3>3
  <2> QED
    BY <2>2, <2>3
<1> QED
  BY <1>1, <1>2, <1>3

\* What a capture can show goes together as the dump does.
LEMMA ShownIsClosed ==
  ASSUME NEW mode, NEW seen \in Shown(mode)
  PROVE  "summary_ok" \in seen => "summary" \in seen
<1> DEFINE can == Can(fpga.image, mode)
<1>1. "summary_ok" \in CaptureFacts(mode) => "summary" \in CaptureFacts(mode)
  BY DEF CaptureFacts
<1>2. can \in {CaptureFacts(mode), CaptureFacts(mode) \ {"probe"}, CaptureFacts(mode) \cap {"not_bad"}}
  BY DEF Can
<1> HIDE DEF can
<1>3. "summary_ok" \in can => "summary" \in can
  BY <1>1, <1>2
<1>4. seen = can \/ seen = can \cap {"not_bad"} \/ \E f \in can : seen = can \ Without(f)
  BY DEF Shown, can
<1>5. ASSUME NEW f
      PROVE  "summary_ok" \in can \ Without(f) => "summary" \in can \ Without(f)
  <2>1. Without(f) = {"summary", "summary_ok"}
        \/ Without(f) = {"found", "magic_ok", "load_start", "first_ack", "summary", "summary_ok"}
        \/ (Without(f) = {f} /\ f # "summary")
    BY DEF Without
  <2> QED
    BY <1>3, <2>1
<1> QED
  BY <1>3, <1>4, <1>5

\* A slot keeps its words until the step that fills it.
LEMMA SlotsKept ==
  ASSUME Goes, Now.do # "trial_end", NEW slot \in {"smoke", "final"}, ~Fills(Now, slot),
         Now.do = "capture" => Now.slot \in {"smoke", "final"}
  PROVE  InSlot(job', slot) = InSlot(job, slot)
<1>1. EvidenceMoves
  BY DEF Goes
<1>2. CASE Now.do = "capture"
  <2>1. Now.slot # slot /\ Now.slot \in {"smoke", "final"}
    BY <1>2 DEF Fills
  <2>2. /\ Now.slot = "smoke" => job'.final = job.final
        /\ Now.slot = "final" => job'.smoke = job.smoke
    BY <1>1, <1>2, Zenon DEF EvidenceMoves
  <2> QED
    BY <2>1, <2>2 DEF InSlot
<1>3. CASE Now.do = "reuse"
  <2>1. slot = "smoke"
    BY <1>3 DEF Fills
  <2>2. job'.smoke = job.smoke
    BY <1>1, <1>3, Zenon DEF EvidenceMoves
  <2> QED
    BY <2>1, <2>2 DEF InSlot
<1>4. CASE Now.do \notin {"capture", "reuse", "trial_end"}
  <2>1. job'.smoke = job.smoke /\ job'.final = job.final
    BY <1>1, <1>4, Zenon DEF EvidenceMoves
  <2> QED
    BY <2>1, Zenon DEF InSlot
<1> QED
  BY <1>2, <1>3, <1>4

\* What is lost by a place, and what a check saw behind it.
LostBy(s, p, j) ==
  \A w \in j.wrong :
    \/ w \in LongNames \X {"long"}
    \/ \E i \in Doing(s, {"capture"}) :
         \E f \in CaptureFacts(Mode(j.args)) \ InSlot(j, s[i].slot) :
           i < p /\ w = <<s[i].slot, f>>
SeenBy(s, p, j) ==
  \A i \in Doing(s, {"check"}) : i < p => s[i].needs \subseteq InSlot(j, s[i].slot)
Closed(j) ==
  \A slot \in {"smoke", "final"} :
    "summary_ok" \in InSlot(j, slot) => "summary" \in InSlot(j, slot)
NoEnd(s, p) == \A i \in Doing(s, {"verdict", "stop"}) : i >= p

LEMMA EvidenceInParts ==
  EvidenceIsKept <=>
    (Running /\ Straight(Steps, job.args) =>
       LostBy(Steps, job.at, job) /\ Closed(job) /\ SeenBy(Steps, job.at, job)
       /\ NoEnd(Steps, job.at))
BY Zenon DEF EvidenceIsKept, LostBy, SeenBy, Closed, NoEnd

\* In a straight plan, what fills a slot comes before all that reads it.
LEMMA FillsFirst ==
  ASSUME NEW s, NEW a, Straight(s, a), NEW p \in 1 .. Len(s), NEW slot \in {"smoke", "final"},
         Fills(s[p], slot), NEW i \in 1 .. Len(s), i < p
  PROVE  ~Fills(s[i], slot) /\ ~Asks(s[i], slot)
<1>1. i \in 1 .. p - 1
  OBVIOUS
<1> QED
  BY <1>1, Zenon DEF Straight, WellAsked

LEMMA GoesIsStraight ==
  ASSUME Goes, Straight(Steps, job.args)
  PROVE  /\ job.at \in 1 .. Len(Steps) /\ Now.do # "trial_end"
         /\ Now.do \in {"capture", "check", "verdict"} => Now.slot \in {"smoke", "final"}
         /\ Now.do = "try_sim" => Now.stage \in LongNames
<1>1. job.at \in 1 .. Len(Steps)
  BY DEF Goes
<1>2. Now.do # "trial_end"
  BY <1>1, Zenon DEF Straight, Now
<1>3. ASSUME Now.do \in {"capture", "check", "verdict"}
      PROVE  Now.slot \in {"smoke", "final"}
  <2>1. job.at \in Doing(Steps, {"check", "verdict", "capture"})
    BY <1>1, <1>3 DEF Doing, Now
  <2> QED
    BY <2>1, Zenon DEF Straight, WellAsked, Now
<1>4. ASSUME Now.do = "try_sim"
      PROVE  Now.stage \in LongNames
  <2>1. job.at \in Doing(Steps, {"try_sim"})
    BY <1>1, <1>4 DEF Doing, Now
  <2> QED
    BY <2>1, Zenon DEF Straight, Now
<1> QED
  BY <1>1, <1>2, <1>3, <1>4

LEMMA LostKept ==
  ASSUME Goes, Straight(Steps, job.args), LostBy(Steps, job.at, job)
  PROVE  LostBy(Steps, job'.at, job')
<1> DEFINE s == Steps
           p == job.at
<1>1. /\ p \in 1 .. Len(s) /\ Now.do # "trial_end" /\ Now = s[p]
      /\ Now.do = "capture" => Now.slot \in {"smoke", "final"}
      /\ Now.do = "try_sim" => Now.stage \in LongNames
  BY GoesIsStraight DEF Now
<1>2. EvidenceMoves /\ job'.at = p + 1 /\ job'.args = job.args
  BY DEF Goes
<1> SUFFICES ASSUME NEW w \in job'.wrong
             PROVE  \/ w \in LongNames \X {"long"}
                    \/ \E i \in Doing(s, {"capture"}) :
                         \E f \in CaptureFacts(Mode(job.args)) \ InSlot(job', s[i].slot) :
                           i < p + 1 /\ w = <<s[i].slot, f>>
  BY <1>2 DEF LostBy
<1>3. CASE w \in job.wrong
  <2>1. CASE w \in LongNames \X {"long"}
    BY <2>1
  <2>2. CASE ~(w \in LongNames \X {"long"})
    <3>1. PICK i \in Doing(s, {"capture"}) :
            \E f \in CaptureFacts(Mode(job.args)) \ InSlot(job, s[i].slot) :
              i < p /\ w = <<s[i].slot, f>>
      BY <1>3, <2>2, Zenon DEF LostBy
    <3>2. i \in 1 .. Len(s) /\ s[i].do = "capture" /\ i < p
      BY <3>1 DEF Doing
    <3>3. s[i].slot \in {"smoke", "final"}
      <4>1. i \in Doing(s, {"check", "verdict", "capture"})
        BY <3>2 DEF Doing
      <4> QED
        BY <4>1, Zenon DEF Straight, WellAsked
    <3>4. Fills(s[i], s[i].slot)
      BY <3>2, Zenon DEF Fills
    <3>5. ~Fills(Now, s[i].slot)
      BY <1>1, <3>2, <3>3, <3>4, FillsFirst, Zenon
    <3>6. InSlot(job', s[i].slot) = InSlot(job, s[i].slot)
      BY <1>1, <3>3, <3>5, SlotsKept, Zenon
    <3>7. i < p + 1
      BY <1>1, <3>2
    <3> QED
      BY <3>1, <3>6, <3>7, Zenon
  <2> QED
    BY <2>1, <2>2
<1>4. CASE w \notin job.wrong
  <2>1. Now.do \in {"capture", "try_sim", "trial_end"}
    BY <1>2, <1>4, Zenon DEF EvidenceMoves
  <2>2. CASE Now.do = "try_sim"
    <3>1. w = <<Stage, "long">>
      <4>1. job'.wrong \subseteq job.wrong \cup {<<Stage, "long">>}
        BY <1>2, <2>2, Zenon DEF EvidenceMoves
      <4> QED
        BY <1>4, <4>1
    <3>2. Stage = Now.stage /\ Stage \in LongNames
      BY <1>1, <2>2 DEF Stage, LongNames
    <3> QED
      BY <3>1, <3>2
  <2>3. CASE Now.do = "capture"
    <3>1. PICK seen \in Shown(Mode(job.args)) :
            /\ job'.wrong = job.wrong \cup LostIn(Now.slot, Mode(job.args), seen)
            /\ Now.slot = "smoke" => job'.smoke = seen /\ job'.final = job.final
            /\ Now.slot = "final" => job'.final = seen /\ job'.smoke = job.smoke
      BY <1>2, <2>3, Zenon DEF EvidenceMoves
    <3>2. InSlot(job', Now.slot) = seen
      BY <1>1, <2>3, <3>1 DEF InSlot
    <3>3. w \in LostIn(Now.slot, Mode(job.args), seen)
      BY <1>4, <3>1
    <3>4. PICK f \in CaptureFacts(Mode(job.args)) \ seen : w = <<Now.slot, f>>
      BY <3>3, Zenon DEF LostIn
    <3>5. p \in Doing(s, {"capture"}) /\ p < p + 1
      BY <1>1, <2>3 DEF Doing
    <3>6. f \in CaptureFacts(Mode(job.args)) \ InSlot(job', s[p].slot) /\ w = <<s[p].slot, f>>
      BY <1>1, <3>2, <3>4, Zenon
    <3> QED
      BY <3>5, <3>6, Zenon
  <2> QED
    BY <1>1, <2>1, <2>2, <2>3
<1> QED
  BY <1>3, <1>4

LEMMA ClosedKept ==
  ASSUME Goes, Straight(Steps, job.args), Closed(job)
  PROVE  Closed(job')
<1>1. /\ Now.do # "trial_end"
      /\ Now.do = "capture" => Now.slot \in {"smoke", "final"}
  BY GoesIsStraight
<1>2. EvidenceMoves
  BY DEF Goes
<1> SUFFICES ASSUME NEW slot \in {"smoke", "final"}
             PROVE  "summary_ok" \in InSlot(job', slot) => "summary" \in InSlot(job', slot)
  BY DEF Closed
<1>3. CASE ~Fills(Now, slot)
  <2>1. InSlot(job', slot) = InSlot(job, slot)
    BY <1>1, <1>3, SlotsKept, Zenon
  <2> QED
    BY <2>1, Zenon DEF Closed
<1>4. CASE Now.do = "capture" /\ Now.slot = slot
  <2>1. PICK seen \in Shown(Mode(job.args)) :
          /\ Now.slot = "smoke" => job'.smoke = seen /\ job'.final = job.final
          /\ Now.slot = "final" => job'.final = seen /\ job'.smoke = job.smoke
    BY <1>2, <1>4, Zenon DEF EvidenceMoves
  <2>2. InSlot(job', slot) = seen
    BY <1>4, <2>1 DEF InSlot
  <2> QED
    BY <2>2, ShownIsClosed, Zenon
<1>5. CASE Now.do = "reuse" /\ slot = "final"
  <2>1. job'.final = job.smoke
    BY <1>2, <1>5, Zenon DEF EvidenceMoves
  <2>2. InSlot(job', slot) = InSlot(job, "smoke")
    BY <1>5, <2>1 DEF InSlot
  <2> QED
    BY <2>2, Zenon DEF Closed
<1> QED
  BY <1>3, <1>4, <1>5, Zenon DEF Fills

LEMMA SeenKept ==
  ASSUME Goes, Straight(Steps, job.args), SeenBy(Steps, job.at, job)
  PROVE  SeenBy(Steps, job'.at, job')
<1> DEFINE s == Steps
           p == job.at
<1>1. /\ p \in 1 .. Len(s) /\ Now.do # "trial_end" /\ Now = s[p]
      /\ Now.do = "capture" => Now.slot \in {"smoke", "final"}
      /\ Now.do = "check" => Now.slot \in {"smoke", "final"}
  BY GoesIsStraight DEF Now
<1>2. EvidenceMoves /\ job'.at = p + 1
  BY DEF Goes
<1> SUFFICES ASSUME NEW i \in Doing(s, {"check"}), i < p + 1
             PROVE  s[i].needs \subseteq InSlot(job', s[i].slot)
  BY <1>2 DEF SeenBy
<1>3. i \in 1 .. Len(s) /\ s[i].do = "check"
  BY DEF Doing
<1>4. s[i].slot \in {"smoke", "final"}
  <2>1. i \in Doing(s, {"check", "verdict", "capture"})
    BY <1>3 DEF Doing
  <2> QED
    BY <2>1, Zenon DEF Straight, WellAsked
<1>5. CASE i = p
  <2>1. Now.needs \subseteq Evidence
    BY <1>1, <1>2, <1>3, <1>5, Zenon DEF EvidenceMoves
  <2>2. Evidence = InSlot(job, Now.slot)
    BY Zenon DEF Evidence, InSlot
  <2>3. ~Fills(Now, Now.slot)
    BY <1>1, <1>3, <1>5 DEF Fills
  <2>4. InSlot(job', Now.slot) = InSlot(job, Now.slot)
    BY <1>1, <1>3, <1>5, <2>3, SlotsKept, Zenon
  <2> QED
    BY <1>1, <1>5, <2>1, <2>2, <2>4, Zenon
<1>6. CASE i # p
  <2>1. i < p
    BY <1>1, <1>3, <1>6
  <2>2. s[i].needs \subseteq InSlot(job, s[i].slot)
    BY <2>1, Zenon DEF SeenBy
  <2>3. Asks(s[i], s[i].slot)
    BY <1>3 DEF Asks
  <2>4. ~Fills(Now, s[i].slot)
    BY <1>1, <1>3, <1>4, <2>1, <2>3, FillsFirst, Zenon
  <2>5. InSlot(job', s[i].slot) = InSlot(job, s[i].slot)
    BY <1>1, <1>4, <2>4, SlotsKept, Zenon
  <2> QED
    BY <2>2, <2>5, Zenon
<1> QED
  BY <1>5, <1>6

\* What is lost was lost in a capture or a long simulation, and what was
\* asked for was there.
LEMMA EvidenceKept ==
  ASSUME FlowTypeOK, Running, BoardIsKnown, EvidenceIsKept, Stops \/ Passes \/ Jumps \/ Goes
  PROVE  EvidenceIsKept'
<1>1. CASE Stops \/ Passes
  BY <1>1 DEF Stops, Passes, EvidenceIsKept, Running
<1>2. CASE Jumps
  <2>1. job'.args = job.args /\ Trials(Steps)
    BY <1>2, JumpLands DEF Jumps
  <2>2. Steps' = Steps
    BY <2>1, SameSteps
  <2>3. ~Straight(Steps, job.args)
    <3>1. Len(Steps) \in 1 .. Len(Steps) /\ Steps[Len(Steps)].do = "trial_end"
      BY <2>1 DEF Trials, IsSequence
    <3> QED
      BY <3>1, Zenon DEF Straight
  <2> QED
    BY <2>1, <2>2, <2>3, Zenon DEF EvidenceIsKept
<1>3. CASE Goes
  <2>1. job'.args = job.args /\ job'.at = job.at + 1 /\ job.at \in 1 .. Len(Steps)
        /\ Now.do \notin {"stop", "verdict"}
    BY <1>3 DEF Goes
  <2>2. Steps' = Steps
    BY <2>1, SameSteps
  <2>3. ASSUME Straight(Steps, job.args)
        PROVE  /\ LostBy(Steps, job'.at, job') /\ Closed(job') /\ SeenBy(Steps, job'.at, job')
               /\ NoEnd(Steps, job'.at)
    <3>1. /\ LostBy(Steps, job.at, job) /\ Closed(job) /\ SeenBy(Steps, job.at, job)
          /\ NoEnd(Steps, job.at)
      BY <2>3, EvidenceInParts, Zenon
    <3>2. LostBy(Steps, job'.at, job') /\ Closed(job') /\ SeenBy(Steps, job'.at, job')
      BY <1>3, <2>3, <3>1, LostKept, ClosedKept, SeenKept, Zenon
    <3>3. NoEnd(Steps, job'.at)
      <4> SUFFICES ASSUME NEW i \in Doing(Steps, {"verdict", "stop"})
                   PROVE  i >= job.at + 1
        BY <2>1 DEF NoEnd
      <4>1. i >= job.at
        BY <3>1, Zenon DEF NoEnd
      <4>2. i # job.at /\ i \in 1 .. Len(Steps)
        BY <2>1 DEF Doing, Now
      <4> QED
        BY <2>1, <4>1, <4>2
    <3> QED
      BY <3>2, <3>3
  <2> SUFFICES ASSUME Straight(Steps, job.args)
               PROVE  /\ LostBy(Steps, job'.at, job') /\ Closed(job')
                      /\ SeenBy(Steps, job'.at, job') /\ NoEnd(Steps, job'.at)
    <3>1. (EvidenceIsKept <=>
             (Running /\ Straight(Steps, job.args) =>
               LostBy(Steps, job.at, job) /\ Closed(job) /\ SeenBy(Steps, job.at, job)
               /\ NoEnd(Steps, job.at)))'
      BY EvidenceInParts, PTL
    <3>2. Straight(Steps', job'.args) = Straight(Steps, job.args)
      BY <2>1, <2>2, Zenon
    <3>3. /\ LostBy(Steps', job'.at, job') = LostBy(Steps, job'.at, job')
          /\ SeenBy(Steps', job'.at, job') = SeenBy(Steps, job'.at, job')
          /\ NoEnd(Steps', job'.at) = NoEnd(Steps, job'.at)
      BY <2>2, Zenon
    <3> QED
      BY <3>1, <3>2, <3>3, Zenon
  <2> QED
    BY <2>3
<1> QED
  BY <1>1, <1>2, <1>3

\* A trial programs the board before it captures, and starts with nothing lost.
LEMMA TrialsKept ==
  ASSUME FlowTypeOK, Running, BoardIsKnown, TrialsInOrder, Stops \/ Passes \/ Jumps \/ Goes
  PROVE  TrialsInOrder'
<1>1. CASE Stops \/ Passes
  BY <1>1 DEF Stops, Passes, TrialsInOrder, Running
<1>2. CASE Jumps
  <2>1. job'.args = job.args /\ job'.at = NextTrialEnd /\ job'.raised = TRUE
    BY <1>2 DEF Jumps
  <2>2. Steps' = Steps
    BY <2>1, SameSteps
  <2>3. NextTrialEnd \in 1 .. Len(Steps) /\ Steps[NextTrialEnd].do = "trial_end"
    BY <1>2, JumpLands
  <2>4. Now' = Steps[NextTrialEnd]
    BY <2>1, <2>2 DEF Now
  <2>5. job'.at <= Len(Steps') /\ Now'.do = "trial_end"
    <3>1. Len(Steps) \in Nat
      BY WhosePlan DEF IsSequence
    <3> QED
      BY <2>1, <2>2, <2>3, <2>4, <3>1
  <2> QED
    BY <2>1, <2>5 DEF TrialsInOrder
<1>3. CASE Goes
  <2>1. /\ job'.args = job.args /\ job'.at = job.at + 1 /\ job.at \in 1 .. Len(Steps)
        /\ BuildMoves /\ EvidenceMoves /\ TrialMoves
    BY <1>3 DEF Goes
  <2>2. Steps' = Steps
    BY <2>1, SameSteps
  <2> SUFFICES ASSUME Trials(Steps)
               PROVE  /\ job'.at <= Len(Steps)
                      /\ job'.raised => Steps[job'.at].do = "trial_end"
                      /\ Steps[job'.at].do # "trial_end" => job'.wrong = {}
                      /\ Steps[job'.at].do = "trial_end" /\ ~job'.raised =>
                           job'.wrong \subseteq
                             {<<"final", f>> : f \in CaptureFacts(Mode(job.args)) \ job'.final}
                      /\ Steps[job'.at].do = "capture"
                           \/ (Steps[job'.at].do = "trial_end" /\ ~job'.raised) => OnBoard'
    BY <2>1, <2>2 DEF TrialsInOrder, Now
  <2> DEFINE s == Steps
             p == job.at
             do == Now.do
             then == Steps[job'.at].do
  <2>3. /\ p \in 1 .. Len(s) /\ Len(s) \in Nat /\ s[p] = Now
        /\ job.raised => do = "trial_end"
        /\ do # "trial_end" => job.wrong = {}
        /\ do = "capture" \/ (do = "trial_end" /\ ~job.raised) => OnBoard
    BY <2>1 DEF TrialsInOrder, Trials, IsSequence, Now
  <2>4. p # Len(s)
    <3>1. CASE do = "trial_end"
      BY <2>1, <3>1 DEF TrialMoves
    <3>2. CASE do # "trial_end"
      BY <2>3, <3>2 DEF Trials
    <3> QED
      BY <3>1, <3>2
  <2>5. p \in 1 .. Len(s) - 1 /\ job'.at <= Len(s)
    BY <2>1, <2>3, <2>4
  <2>6. then = Follower(do)
    <3>1. s[p + 1].do = Follower(s[p].do)
      BY <2>5, Zenon DEF Trials
    <3> QED
      BY <2>1, <2>3, <3>1, Zenon
  <2>7. do \in {"find_audit", "gate", "program", "capture", "trial_end"}
    <3>1. p = 1 \/ p \in 2 .. Len(s)
      BY <2>3
    <3> QED
      BY <2>3, <3>1, Zenon DEF Trials
  <2>8. do # "trial_end" => job'.raised = job.raised /\ ~job.raised
    BY <2>1, <2>3, Zenon DEF TrialMoves
  <2>9. CASE do = "find_audit" \/ do = "gate"
    <3>1. then \in {"gate", "program"}
      BY <2>6, <2>9 DEF Follower
    <3>2. job'.wrong = job.wrong
      BY <2>1, <2>9 DEF EvidenceMoves
    <3>3. job'.wrong = {} /\ ~job'.raised
      BY <2>3, <2>8, <2>9, <3>2
    <3> QED
      BY <2>5, <3>1, <3>3
  <2>10. CASE do = "program"
    <3>1. then = "capture"
      BY <2>6, <2>10 DEF Follower
    <3>2. job'.wrong = job.wrong
      BY <2>1, <2>10 DEF EvidenceMoves
    <3>3. fpga' = disk.bit /\ disk'.id = disk.id /\ IdReadBack
      BY <2>1, <2>10 DEF BuildMoves
    <3>4. OnBoard'
      BY <3>3 DEF IdReadBack, OnBoard
    <3>5. job'.wrong = {} /\ ~job'.raised
      BY <2>3, <2>8, <2>10, <3>2
    <3> QED
      BY <2>5, <3>1, <3>4, <3>5
  <2>11. CASE do = "capture"
    <3>1. then = "trial_end"
      BY <2>6, <2>11 DEF Follower
    <3>2. fpga' = fpga /\ disk'.id = disk.id
      BY <2>1, <2>11 DEF BuildMoves
    <3>3. OnBoard'
      BY <2>3, <2>11, <3>2 DEF OnBoard
    <3>4. Now.slot = "final"
      <4>1. p \in Doing(s, {"capture"})
        BY <2>3, <2>11 DEF Doing
      <4> QED
        BY <2>3, <4>1, Zenon DEF Trials
    <3>5. PICK seen \in Shown(Mode(job.args)) :
            /\ job'.wrong = job.wrong \cup LostIn(Now.slot, Mode(job.args), seen)
            /\ Now.slot = "final" => job'.final = seen /\ job'.smoke = job.smoke
      BY <2>1, <2>11, Zenon DEF EvidenceMoves
    <3>6. job.wrong = {}
      BY <2>3, <2>11
    <3>7. job'.final = seen /\ job'.wrong = LostIn("final", Mode(job.args), seen)
      BY <3>4, <3>5, <3>6
    <3>8. job'.wrong \subseteq
            {<<"final", f>> : f \in CaptureFacts(Mode(job.args)) \ job'.final}
      BY <3>7, Zenon DEF LostIn
    <3> QED
      BY <2>5, <3>1, <3>3, <3>8
  <2>12. CASE do = "trial_end"
    <3>1. then = "gate"
      BY <2>6, <2>12 DEF Follower
    <3>2. job'.raised = FALSE /\ job'.wrong = {}
      BY <2>1, <2>12 DEF TrialMoves
    <3> QED
      BY <2>5, <3>1, <3>2
  <2> QED
    BY <2>7, <2>9, <2>10, <2>11, <2>12
<1> QED
  BY <1>1, <1>2, <1>3

-----------------------------------------------------------------------------
(* A run that passes.                                                       *)

LEMMA LongIsTolerated ==
  ASSUME NEW a
  PROVE  LongNames \X {"long"} \subseteq Tolerated(a)
BY DEF Tolerated, LongNames

\* What is asked for and there cannot have been lost.
LEMMA AskedIsThere ==
  ASSUME NEW j, NEW slot \in {"smoke", "final"}, Closed(j), NEW needs,
         needs \subseteq InSlot(j, slot), NEW f, f \notin InSlot(j, slot)
  PROVE  f \notin Implied(needs)
BY DEF Closed, Implied

\* In a straight plan every reader of a slot has found what it asks for.
LEMMA ReadersSatisfied ==
  ASSUME FlowTypeOK, Running, EvidenceIsKept, PassesHere, Straight(Steps, job.args),
         Doing(Steps, {"capture"}) # {}, NEW j \in 1 .. Len(Steps),
         NEW slot \in {"smoke", "final"}, Asks(Steps[j], slot)
  PROVE  Steps[j].needs \subseteq InSlot(job, slot)
<1> DEFINE s == Steps
           p == job.at
<1>1. /\ LostBy(s, p, job) /\ Closed(job) /\ SeenBy(s, p, job) /\ NoEnd(s, p)
  BY EvidenceInParts, Zenon
<1>2. Len(s) \in Nat /\ p \in 1 .. Len(s) + 1
  BY WhosePlan DEF IsSequence, FlowTypeOK
<1>3. s[j].slot = slot /\ (s[j].do = "check" \/ s[j].do = "verdict")
  BY DEF Asks
<1>4. Now.do # "trial_end" \/ p > Len(s)
  <2>1. CASE p \in 1 .. Len(s)
    BY <2>1, Zenon DEF Straight, Now
  <2> QED
    BY <1>2, <2>1
<1>5. \/ p > Len(s)
      \/ p \in 1 .. Len(s) /\ Now.do = "verdict" /\ Now.needs \subseteq Evidence
  <2>1. ASSUME p \in 1 .. Len(s), Now.do = "stop"
        PROVE  FALSE
    <3>1. p \in Doing(s, {"stop"})
      BY <2>1 DEF Doing, Now
    <3> QED
      BY <3>1, Zenon DEF Straight
  <2> QED
    BY <1>2, <1>4, <2>1 DEF PassesHere
<1>6. CASE s[j].do = "check"
  <2>1. j \in Doing(s, {"check"})
    BY <1>6 DEF Doing
  <2>2. j < p
    <3>1. CASE p > Len(s)
      BY <1>2, <3>1
    <3>2. CASE p \in 1 .. Len(s) /\ Now.do = "verdict"
      <4>1. p \in Doing(s, {"verdict"}) /\ j # p
        BY <1>6, <3>2 DEF Doing, Now
      <4>2. p = Len(s)
        BY <4>1, Zenon DEF Straight
      <4> QED
        BY <1>2, <4>1, <4>2
    <3> QED
      BY <1>5, <3>1, <3>2
  <2> QED
    BY <1>1, <1>3, <2>1, <2>2, Zenon DEF SeenBy
<1>7. CASE s[j].do = "verdict"
  <2>1. j \in Doing(s, {"verdict"}) /\ j \in Doing(s, {"verdict", "stop"})
    BY <1>7 DEF Doing
  <2>2. j >= p /\ j = Len(s)
    BY <1>1, <2>1, Zenon DEF NoEnd, Straight
  <2>3. p \in 1 .. Len(s) /\ Now.do = "verdict" /\ Now.needs \subseteq Evidence
    BY <1>2, <1>5, <2>2
  <2>4. p \in Doing(s, {"verdict"})
    BY <2>3 DEF Doing, Now
  <2>5. p = Len(s)
    BY <2>4, Zenon DEF Straight
  <2>6. Now = s[j]
    BY <2>2, <2>5 DEF Now
  <2>7. Evidence = InSlot(job, Now.slot)
    BY Zenon DEF Evidence, InSlot
  <2> QED
    BY <1>3, <2>3, <2>6, <2>7, Zenon
<1> QED
  BY <1>3, <1>6, <1>7

LEMMA StraightPasses ==
  ASSUME FlowTypeOK, Running, BoardIsKnown, EvidenceIsKept, PassesHere,
         Straight(Steps, job.args)
  PROVE  /\ job.wrong \subseteq Tolerated(job.args)
         /\ (\E i \in 1 .. Len(Steps) : Steps[i].slot = "final") => OnBoard
<1> DEFINE s == Steps
           p == job.at
<1>1. /\ LostBy(s, p, job) /\ Closed(job) /\ SeenBy(s, p, job) /\ NoEnd(s, p)
  BY EvidenceInParts, Zenon
<1>2. Len(s) \in Nat /\ p \in 1 .. Len(s) + 1
  BY WhosePlan DEF IsSequence, FlowTypeOK
<1>3. ASSUME NEW w \in job.wrong
      PROVE  w \in Tolerated(job.args)
  <2>1. CASE w \in LongNames \X {"long"}
    BY <2>1, LongIsTolerated
  <2>2. CASE ~(w \in LongNames \X {"long"})
    <3>1. PICK i \in Doing(s, {"capture"}) :
            \E f \in CaptureFacts(Mode(job.args)) \ InSlot(job, s[i].slot) :
              i < p /\ w = <<s[i].slot, f>>
      BY <1>1, <1>3, <2>2, Zenon DEF LostBy
    <3>2. PICK f \in CaptureFacts(Mode(job.args)) \ InSlot(job, s[i].slot) :
            w = <<s[i].slot, f>>
      BY <3>1, Zenon
    <3>3. PICK j \in i + 1 .. Len(s) :
            /\ Asks(s[j], s[i].slot)
            /\ \A g \in CaptureFacts(Mode(job.args)) \ Implied(s[j].needs) :
                 <<s[i].slot, g>> \in Tolerated(job.args)
      BY <3>1, Zenon DEF Straight, WellAsked
    <3>4. s[i].slot \in {"smoke", "final"}
      <4>1. i \in Doing(s, {"check", "verdict", "capture"})
        BY <3>1 DEF Doing
      <4> QED
        BY <4>1, Zenon DEF Straight, WellAsked
    <3>5. j \in 1 .. Len(s) /\ Doing(s, {"capture"}) # {}
      BY <1>2, <3>1, <3>3 DEF Doing
    <3>6. s[j].needs \subseteq InSlot(job, s[i].slot)
      BY <3>3, <3>4, <3>5, ReadersSatisfied, Zenon
    <3>7. f \notin InSlot(job, s[i].slot) /\ f \in CaptureFacts(Mode(job.args))
      BY <3>2
    <3>8. f \notin Implied(s[j].needs)
      BY <1>1, <3>4, <3>6, <3>7, AskedIsThere, Zenon
    <3>9. f \in CaptureFacts(Mode(job.args)) \ Implied(s[j].needs)
      BY <3>7, <3>8
    <3> QED
      BY <3>2, <3>3, <3>9, Zenon
  <2> QED
    BY <2>1, <2>2
<1>4. ASSUME NEW i \in 1 .. Len(s), s[i].slot = "final"
      PROVE  OnBoard
  <2>1. PICK j \in Doing(s, {"program"}) : TRUE
    <3>1. Doing(s, {"program"}) # {}
      BY <1>4, Zenon DEF Straight
    <3> QED
      BY <3>1
  <2>2. j \in 1 .. Len(s) /\ s[j].do = "program"
    BY <2>1 DEF Doing
  <2>3. CASE p > Len(s)
    <3>1. j < p
      BY <1>2, <2>2, <2>3
    <3> QED
      BY <2>1, <3>1, Zenon DEF BoardIsKnown
  <2>4. CASE p \in 1 .. Len(s)
    <3>1. Now.do # "trial_end"
      BY <2>4, Zenon DEF Straight, Now
    <3>2. Now.do # "stop"
      <4>1. ASSUME Now.do = "stop"
            PROVE  FALSE
        <5>1. p \in Doing(s, {"stop"})
          BY <2>4, <4>1 DEF Doing, Now
        <5> QED
          BY <1>4, <5>1, Zenon DEF Straight
      <4> QED
        BY <4>1
    <3>3. Now.do = "verdict"
      BY <1>2, <2>4, <3>1, <3>2 DEF PassesHere
    <3>4. p \in Doing(s, {"verdict"}) /\ j # p
      BY <2>2, <2>4, <3>3 DEF Doing, Now
    <3>5. p = Len(s)
      BY <3>4, Zenon DEF Straight
    <3>6. j < p
      BY <1>2, <2>2, <3>4, <3>5
    <3> QED
      BY <2>1, <3>6, Zenon DEF BoardIsKnown
  <2> QED
    BY <1>2, <2>3, <2>4
<1> QED
  BY <1>3, <1>4

LEMMA TrialPasses ==
  ASSUME FlowTypeOK, Running, TrialsInOrder, PassesHere, Mode(job.args) = "early_board"
  PROVE  job.wrong \subseteq Tolerated(job.args) /\ OnBoard
<1>1. Trials(Steps)
  BY WhosePlan, Zenon
<1>2. /\ job.at <= Len(Steps) /\ Len(Steps) \in Nat /\ job.at \in 1 .. Len(Steps) + 1
  BY <1>1 DEF TrialsInOrder, Trials, IsSequence, FlowTypeOK
<1>3. job.at \in 1 .. Len(Steps)
  BY <1>2
<1>4. Now.do \in {"find_audit", "gate", "program", "capture", "trial_end"}
  <2>1. job.at = 1 \/ job.at \in 2 .. Len(Steps)
    BY <1>2
  <2> QED
    BY <1>1, <2>1, Zenon DEF Trials, Now
<1>5. Now.do = "trial_end" /\ TrialPassed
  BY <1>2, <1>4 DEF PassesHere
<1>6. ~job.raised /\ EarlyNeeds \subseteq job.final
  BY <1>5 DEF TrialPassed
<1>7. /\ job.wrong \subseteq {<<"final", f>> : f \in CaptureFacts(Mode(job.args)) \ job.final}
      /\ OnBoard
  BY <1>1, <1>5, <1>6, Zenon DEF TrialsInOrder
<1>8. CaptureFacts(Mode(job.args)) \subseteq EarlyNeeds
  BY NeedsCover
<1>9. CaptureFacts(Mode(job.args)) \ job.final = {}
  BY <1>6, <1>8
<1>10. job.wrong \subseteq {}
  BY <1>7, <1>9
<1> QED
  BY <1>7, <1>10

\* A run that passes leaves behind what its result says.
LEMMA PassKept ==
  ASSUME FlowInv, Running, Stops \/ Passes \/ Jumps \/ Goes
  PROVE  PassMeansEvidence' /\ ReportedIdIsOnBoard'
<1>1. /\ FlowTypeOK /\ BoardIsKnown /\ EvidenceIsKept /\ TrialsInOrder
      /\ last = Idle
  BY DEF FlowInv, FlowTypeOK
<1>2. CASE Stops
  BY <1>2 DEF Stops, PassMeansEvidence, ReportedIdIsOnBoard, Passed
<1>3. CASE Jumps \/ Goes
  BY <1>1, <1>3 DEF Jumps, Goes, PassMeansEvidence, ReportedIdIsOnBoard, Passed
<1>4. CASE Passes
  <2>1. /\ last'.args = job.args /\ last'.wrong = job.wrong
        /\ disk' = disk /\ fpga' = fpga /\ PassesHere
    BY <1>4 DEF Passes
  <2>2. /\ job.wrong \subseteq Tolerated(job.args)
        /\ (\E i \in 1 .. Len(Steps) : Steps[i].slot = "final") => OnBoard
    BY <1>1, <2>1, WhosePlan, StraightPasses, TrialPasses, Zenon
  <2>3. Plans[last'.args] = Steps /\ DOMAIN Steps = 1 .. Len(Steps)
    <3>1. IsSequence(Steps)
      BY <1>1, WhosePlan, Zenon
    <3>2. DOMAIN [i \in 1 .. Len(Steps) |-> Steps[i]] = 1 .. Len(Steps)
      OBVIOUS
    <3>3. DOMAIN Steps = 1 .. Len(Steps)
      BY <3>1, <3>2, Zenon DEF IsSequence
    <3> QED
      BY <2>1, <3>3 DEF Steps
  <2>4. PassMeansEvidence'
    BY <2>1, <2>2 DEF PassMeansEvidence
  <2>5. ReportedIdIsOnBoard'
    <3> SUFFICES ASSUME \E i \in DOMAIN Plans[last'.args] : Plans[last'.args][i].slot = "final"
                 PROVE  disk'.id # 0 /\ fpga'.id = disk'.id
      BY DEF ReportedIdIsOnBoard
    <3>1. OnBoard
      BY <2>2, <2>3, Zenon
    <3> QED
      BY <2>1, <3>1 DEF OnBoard
  <2> QED
    BY <2>4, <2>5
<1> QED
  BY <1>2, <1>3, <1>4

-----------------------------------------------------------------------------
(* The invariant of the flow, and what it says of the properties.           *)

LEMMA InitHolds ==
  ASSUME Init
  PROVE  FlowInv
<1>1. ~Running /\ last = Idle
  BY DEF Init, Running
<1>2. FlowTypeOK
  BY <1>1 DEF Init, FlowTypeOK, HasFields, DiskFields
<1>3. PassMeansEvidence /\ ReportedIdIsOnBoard
  BY <1>1 DEF PassMeansEvidence, ReportedIdIsOnBoard, Passed
<1> QED
  BY <1>1, <1>2, <1>3, Zenon DEF FlowInv, OwnBuild, BoardIsKnown, EvidenceIsKept, TrialsInOrder

LEMMA BeginKeeps ==
  ASSUME FlowInv, NEW a \in Requests, Begin(a)
  PROVE  FlowInv'
<1>1. /\ run \in Nat /\ HasFields(disk, DiskFields) /\ disk' = disk /\ fpga' = fpga
      /\ run' = run + 1
  BY DEF FlowInv, FlowTypeOK, Begin
<1>2. CASE ~Legal(a)
  <2>1. /\ job' = Idle /\ last'.args = a /\ last'.code = 1
    BY <1>2 DEF Begin
  <2>2. ~Running'
    BY <2>1 DEF Running
  <2>3. FlowTypeOK'
    BY <1>1, <2>1, <2>2 DEF FlowTypeOK
  <2>4. PassMeansEvidence' /\ ReportedIdIsOnBoard'
    BY <2>1 DEF PassMeansEvidence, ReportedIdIsOnBoard, Passed
  <2> QED
    BY <2>2, <2>3, <2>4, Zenon DEF FlowInv, OwnBuild, BoardIsKnown, EvidenceIsKept, TrialsInOrder
<1>3. CASE Legal(a)
  <2>1. job' = Fresh(a) /\ last' = Idle
    BY <1>3 DEF Begin
  <2>2. /\ job'.args = a /\ job'.at = 1 /\ job'.stage = "init" /\ job'.wrong = {}
        /\ job'.smoke = {} /\ job'.final = {} /\ job'.raised = FALSE
        /\ HasFields(job', JobFields)
    BY <2>1 DEF Fresh, HasFields, JobFields
  <2>3. Steps' = Plan(a)
    BY <2>2 DEF Steps, Plans
  <2>4. a \in CommandLines
    BY RequestsAssumption
  <2>5. IsSequence(Plan(a))
    BY <1>3, <2>4, PlanIsStraight, PlanOfTrials, Zenon DEF Straight, Trials
  <2>6. Len(Steps') \in Nat
    BY <2>3, <2>5 DEF IsSequence
  <2>7. FlowTypeOK'
    <3>1. job'.at \in 1 .. Len(Steps') + 1 /\ run' \in Nat
      BY <1>1, <2>2, <2>6
    <3>2. HasFields(disk', DiskFields)
      BY <1>1, Zenon
    <3> QED
      BY <1>3, <2>1, <2>2, <3>1, <3>2, Zenon DEF FlowTypeOK
  <2>8. OwnBuild'
    BY <2>2 DEF OwnBuild
  <2>9. BoardIsKnown'
    <3>1. \A j \in Doing(Steps', {"program"}) : ~(j < 1)
      BY <2>6 DEF Doing
    <3> QED
      BY <2>2, <3>1 DEF BoardIsKnown
  <2>10. EvidenceIsKept'
    <3>1. \A i \in Doing(Steps', {"check"}) : ~(i < 1)
      BY <2>6 DEF Doing
    <3>2. \A i \in Doing(Steps', {"verdict", "stop"}) : i >= 1
      BY <2>6 DEF Doing
    <3>3. \A slot : InSlot(job', slot) = {}
      BY <2>2 DEF InSlot
    <3> QED
      BY <2>2, <3>1, <3>2, <3>3 DEF EvidenceIsKept
  <2>11. TrialsInOrder'
    <3> SUFFICES ASSUME Trials(Steps')
                 PROVE  /\ job'.at <= Len(Steps') /\ Now'.do = "find_audit"
      BY <2>2 DEF TrialsInOrder
    <3>1. Now' = Steps'[1]
      BY <2>2 DEF Now
    <3> QED
      BY <2>2, <2>6, <3>1 DEF Trials
  <2>12. PassMeansEvidence' /\ ReportedIdIsOnBoard'
    BY <2>1 DEF PassMeansEvidence, ReportedIdIsOnBoard, Passed
  <2> QED
    BY <2>7, <2>8, <2>9, <2>10, <2>11, <2>12 DEF FlowInv
<1> QED
  BY <1>2, <1>3

LEMMA RunKeeps ==
  ASSUME FlowInv, StepOfRun \/ Interrupt
  PROVE  FlowInv'
<1>1. Running
  BY Zenon DEF StepOfRun, Interrupt, RunGate, RunNamedGate, RunSim, RunLongSim, BuildSmoke,
         BuildBaseline, BuildAudit, CreateProject, Synth, StopAfterSynth, WriteBitstream,
         WriteBuildId, CheckTiming, ProgramBoard, CaptureUart, ReuseSmoke, CheckEvidence,
         GiveVerdict, FindAudit, FindBitstream, FindPayloads, RunMust, EndTrial, Finish, At
<1>2. FlowTypeOK /\ OwnBuild /\ BoardIsKnown /\ EvidenceIsKept /\ TrialsInOrder
  BY DEF FlowInv
<1>3. Stops \/ Passes \/ Jumps \/ Goes
  BY <1>1, <1>2, RunIsPlaced, StepOfRunMoves, Zenon
<1>4. FlowTypeOK' /\ OwnBuild' /\ BoardIsKnown' /\ EvidenceIsKept' /\ TrialsInOrder'
  BY <1>1, <1>2, <1>3, TypeKept, OwnBuildKept, BoardKept, EvidenceKept, TrialsKept, Zenon
<1>5. PassMeansEvidence' /\ ReportedIdIsOnBoard'
  BY <1>1, <1>3, PassKept, Zenon
<1> QED
  BY <1>4, <1>5, Zenon DEF FlowInv

LEMMA StutterKeeps ==
  ASSUME FlowInv, UNCHANGED vars
  PROVE  FlowInv'
<1>1. disk' = disk /\ fpga' = fpga /\ job' = job /\ last' = last /\ run' = run
  BY DEF vars
<1>2. Running' = Running /\ Steps' = Steps /\ Now' = Now /\ OnBoard' = OnBoard
      /\ Passed' = Passed
  BY <1>1 DEF Running, Steps, Now, OnBoard, Passed
<1>3. FlowTypeOK'
  BY <1>1, <1>2 DEF FlowInv, FlowTypeOK
<1>4. OwnBuild'
  BY <1>1, <1>2 DEF FlowInv, OwnBuild
<1>5. BoardIsKnown'
  BY <1>1, <1>2 DEF FlowInv, BoardIsKnown
<1>6. EvidenceIsKept'
  BY <1>1, <1>2 DEF FlowInv, EvidenceIsKept
<1>7. TrialsInOrder'
  BY <1>1, <1>2 DEF FlowInv, TrialsInOrder
<1>8. PassMeansEvidence' /\ ReportedIdIsOnBoard'
  BY <1>1, <1>2 DEF FlowInv, PassMeansEvidence, ReportedIdIsOnBoard
<1> QED
  BY <1>3, <1>4, <1>5, <1>6, <1>7, <1>8 DEF FlowInv

\* The flow keeps its invariant: each run knows what it has built, what the
\* board holds and what its captures did not show (main and the run_*_flow
\* functions, whose activities come in the order of Plan).
THEOREM FlowInvHolds == Spec => []FlowInv
<1>1. FlowInv /\ [Next]_vars => FlowInv'
  BY BeginKeeps, RunKeeps, StutterKeeps, Zenon DEF Next
<1> QED
  BY <1>1, InitHolds, PTL DEF Spec

\* No invocation, however many came before it and wherever they were stopped,
\* exits with 0 while anything is missing that its flow is meant to see:
\* every capture fact is asked for behind the capture, or tolerated.
THEOREM PassMeansEvidenceHolds == Spec => []PassMeansEvidence
<1>1. FlowInv => PassMeansEvidence
  BY DEF FlowInv
<1> QED
  BY <1>1, FlowInvHolds, PTL

\* The build id that a passing board run prints is that of the design on the
\* board: no plan writes a bitstream or an id behind a programming.
THEOREM ReportedIdIsOnBoardHolds == Spec => []ReportedIdIsOnBoard
<1>1. FlowInv => ReportedIdIsOnBoard
  BY DEF FlowInv
<1> QED
  BY <1>1, FlowInvHolds, PTL

\* What a bitstream is when it was stamped for this run and hold is met.
LEMMA StampedHold ==
  ASSUME NEW a, NEW r, NEW bit, Stamped(BoardHex(a), r, bit), bit.hold
  PROVE  bit = [image |-> Image(a), board |-> TRUE, hold |-> TRUE, id |-> r]
<1>1. PICK hold \in BOOLEAN : bit = [BoardHex(a) EXCEPT !.id = r, !.hold = hold]
  BY Zenon DEF Stamped
<1>2. bit = [image |-> Image(a), board |-> TRUE, hold |-> hold, id |-> r]
  BY <1>1 DEF BoardHex, Blank
<1>3. hold
  BY <1>2
<1>4. hold = TRUE
  BY <1>3
<1> QED
  BY <1>2, <1>4

\* A run that simulates, builds and programs puts on the board what it has
\* built itself, whatever bitstream, ROM or build id it found on the disk.
THEOREM RunsOwnBuildHolds == Spec => RunsOwnBuild
<1> DEFINE Own == fpga' # fpga /\ Full(job.args) =>
                    fpga' = [image |-> Image(job.args), board |-> TRUE, hold |-> TRUE, id |-> run]
<1>1. ASSUME FlowInv, Next, fpga' # fpga, Full(job.args)
      PROVE  fpga' = [image |-> Image(job.args), board |-> TRUE, hold |-> TRUE, id |-> run]
  <2>1. ProgramBoard
    BY <1>1, Zenon DEF Next, Begin, StepOfRun, Interrupt, RunGate, RunNamedGate, RunSim,
       RunLongSim, BuildSmoke, BuildBaseline, BuildAudit, CreateProject, Synth, StopAfterSynth,
       WriteBitstream, WriteBuildId, CheckTiming, CaptureUart, ReuseSmoke, CheckEvidence,
       GiveVerdict, FindAudit, FindBitstream, FindPayloads, RunMust, EndTrial, Finish
  <2>2. fpga' = disk.bit
    BY <1>1, <2>1, Zenon DEF ProgramBoard
  <2>3. Running /\ Now.do = "program" /\ FlowTypeOK /\ OwnBuild
    BY <1>1, <2>1 DEF ProgramBoard, At, FlowInv
  <2>4. job.at \in 1 .. Len(Steps) /\ Len(Steps) \in Nat
    <3>1. Placed /\ At("program")
      BY <2>1, <2>3, RunIsPlaced, Zenon DEF ProgramBoard
    <3> QED
      BY <3>1, Here, Zenon DEF Placed
  <2>5. PICK n \in Nat : Builds(Steps, n)
    BY <1>1, <2>3, WhosePlan, Zenon
  <2>6. job.at > n + 6
    <3>1. /\ Steps[n + 3].do = "synth" /\ Steps[n + 4].do = "write_bit"
          /\ Steps[n + 5].do = "write_id" /\ Steps[n + 6].do = "timing"
      BY <2>5, Zenon DEF Builds
    <3>2. job.at \notin 1 .. n + 2
      <4>1. \A i \in 1 .. n + 2 : Steps[i].do # "program"
        BY <2>5 DEF Builds, GateDos
      <4> QED
        BY <2>3, <4>1, Zenon DEF Now
    <3>3. job.at # n + 3 /\ job.at # n + 4 /\ job.at # n + 5 /\ job.at # n + 6
      BY <2>3, <3>1 DEF Now
    <3> QED
      BY <2>4, <3>2, <3>3
  <2>7. Stamped(BoardHex(job.args), run, disk.bit) /\ disk.bit.hold
    <3>1. job.at > n + 4
      BY <2>4, <2>6
    <3> QED
      BY <1>1, <2>3, <2>5, <2>6, <3>1, Zenon DEF OwnBuild
  <2> QED
    BY <2>2, <2>7, StampedHold, Zenon
<1>2. FlowInv /\ [Next]_vars => [Own]_vars
  BY <1>1, Zenon
<1> QED
  BY <1>2, FlowInvHolds, PTL DEF Spec, RunsOwnBuild
=============================================================================
