----------------------------- MODULE BenchFlow -----------------------------
(***************************************************************************)
(* The board benchmark flow, run_fpga_benchmark_ddr3.py: one invocation    *)
(* runs a list of steps (simulations, payload builds, Vivado, JTAG         *)
(* programming, UART captures, evidence checks) that depends on the command *)
(* line, and stops at the first one that raises.  Invocations share the    *)
(* build directory and the board: a later one may find the bitstream, the  *)
(* payloads, the ROM image and the summary of an earlier one, which may    *)
(* have been another mode or have been interrupted half-way.               *)
(*                                                                         *)
(* What an activity may get wrong is a set of facts; a step loses at most  *)
(* one of them per execution.  Which facts the code asks for is what the   *)
(* steps say, and what the properties weigh against the truth.             *)
(***************************************************************************)
EXTENDS Naturals, Sequences, FiniteSets

CONSTANTS
    Requests,    \* the command lines a user may type
    MaxRuns      \* bound: invocations of the script

Flags == {"fetch_debug", "transport", "bridge", "steps", "step2", "early",
          "early_board", "selftest", "selftest_board"}
Bridges == {"bridge", "steps", "step2"}
Impls == {"aggressive", "incremental", "synth-only", "board-only"}

CommandLines ==
    [flags : SUBSET Flags, impl : Impls, skip : BOOLEAN, runs : Nat,
     long : BOOLEAN, sweep : BOOLEAN]

ASSUME RequestsAssumption == Requests \subseteq CommandLines
ASSUME MaxRunsAssumption == MaxRuns \in Nat

(* ---------------------------- command line ---------------------------- *)

Legal(a) ==
    /\ Cardinality(a.flags) <= 1
    /\ a.sweep => a.flags = {"early_board"}
    /\ a.impl = "board-only" => a.flags = {} \/ a.flags \subseteq Bridges

Mode(a) == IF a.flags = {} THEN "standard" ELSE CHOOSE f \in a.flags : TRUE

\* A run that simulates, builds and then programs what it built.
Full(a) ==
    /\ Mode(a) \notin {"early_board", "selftest_board"}
    /\ a.impl \notin {"board-only", "synth-only"}
    /\ ~a.skip

\* The log directory, where summary.txt goes: three modes share one.
Dir(a) ==
    IF Mode(a) \in {"standard", "fetch_debug", "transport"} THEN "benchmark"
    ELSE Mode(a)

\* The design the environment asks for: the ROM and the Verilog defines.
ImageOf(mode) ==
    CASE mode = "standard" -> "loader"
      [] mode = "fetch_debug" -> "probe"
      [] mode = "early_board" -> "early"
      [] mode = "selftest_board" -> "selftest"
      [] OTHER -> mode

Image(a) == ImageOf(Mode(a))

(* -------------------------------- steps -------------------------------- *)

\* A step: what it does, the stage it is reported under ("same" keeps
\* the current one), the facts it raises without, and the capture it fills or reads.
Step(do, stage, needs, slot) ==
    [do |-> do, stage |-> stage, needs |-> needs, slot |-> slot]

Gate(stage, needs) == Step("gate", stage, needs, "none")
Sim(stage, needs) == Step("sim", stage, needs, "none")
Open(needs) == Step("gate", "same", needs, "none")

\* "tools": a missing executable leaves the process by SystemExit, which no
\* handler of the flow catches.
Commands == {"exit_0"}
TopSim == {"rom", "tools", "compiled", "ran", "token"}

BasicGates == <<Gate("basic", Commands), Gate("basic_fpga_config", Commands)>>

TransportCases == {"tools", "compiled", "nominal", "jitter", "gap", "ack", "combo"}
TransportTop == TopSim
TransportPayloads == {}
TransportGates ==
    <<Gate("transport_tb_matrix", TransportCases),
      Sim("transport_top_sim", TransportTop),
      Gate("build_transport_board_payloads", TransportPayloads)>>

StressCases == {"tools", "compiled", "25to100", "20to100", "30to100", "25to200"}
StepsTop == TopSim
StepsGates ==
    <<Gate("bridge_stress_tb", StressCases), Sim("bridge_steps_top_sim", StepsTop)>>

Step2Top == TopSim
Step2Gates ==
    <<Gate("bridge_stress_tb", StressCases), Sim("step2_only_top_sim", Step2Top)>>

BridgeTop == TopSim
BridgeGates ==
    <<Gate("bridge_stress_tb", StressCases), Sim("bridge_top_sim", BridgeTop)>>

SelftestTop == TopSim \cup {"sequence"}
SelftestGates == <<Sim("loader_beacon_selftest_top_sim", SelftestTop)>>

\* What run_loader_top_sim asks of the log, by the kind of simulation.
LoaderChecks(kind) ==
    CASE kind = "early" -> {"ready", "magic_ok", "load_start", "first_ack", "summary_ok"}
      [] kind = "fault" -> {"ready", "bad_magic_byte", "summary", "any_bad"}
      [] kind = "prefix" -> {"target"}
      [] kind = "quick" -> {"exec_pass"}
      [] OTHER -> {}

LoaderTop(kind) == TopSim \cup LoaderChecks(kind)

DhrystoneBuild == Commands
AsmPayload == {"tools", "exit_0"}

AuditManifest == Step("audit_payload", "build_loader_early_audit_manifest", {}, "none")

EarlyGates ==
    <<Gate("build_dhrystone_payload", DhrystoneBuild),
      AuditManifest,
      Sim("loader_early_audit_top_sim", LoaderTop("early")),
      Sim("loader_early_audit_fault_b0", LoaderTop("fault")),
      Sim("loader_early_audit_fault_b1", LoaderTop("fault")),
      Sim("loader_early_audit_fault_b2", LoaderTop("fault")),
      Sim("loader_early_audit_fault_b3", LoaderTop("fault"))>>

FetchGates ==
    <<Gate("build_fetch_probe_payload", AsmPayload),
      Sim("loader_top_sim", LoaderTop("fetch"))>>

QuickGates ==
    <<Gate("build_loader_quick_payload", AsmPayload),
      Sim("loader_quick_sim", LoaderTop("quick")),
      Step("smoke_payload", "build_dhrystone_smoke_payload", DhrystoneBuild, "none"),
      Sim("loader_full_payload_prefix1_sim", LoaderTop("prefix"))>>

\* Their failure is written down and forgotten; the stage goes back.
LongSims ==
    <<Step("try_sim", "loader_full_payload_prefix4_sim", LoaderTop("prefix"), "none"),
      Step("try_sim", "loader_full_payload_long_sim", LoaderTop("prefix"), "none"),
      Gate("loader_full_payload_prefix1_sim", {})>>

BaselinePayload(a) ==
    IF a.runs = 1 THEN Gate("build_dhrystone_baseline_payload", {})
    ELSE Step("base_payload", "build_dhrystone_baseline_payload", DhrystoneBuild, "none")

StandardGates(a) ==
    QuickGates \o (IF a.long THEN LongSims ELSE <<>>) \o <<BaselinePayload(a)>>

ModeGates(a) ==
    CASE Mode(a) = "transport" -> TransportGates
      [] Mode(a) = "steps" -> StepsGates
      [] Mode(a) = "step2" -> Step2Gates
      [] Mode(a) = "selftest" -> SelftestGates
      [] Mode(a) = "early" -> EarlyGates
      [] Mode(a) = "bridge" -> BridgeGates
      [] Mode(a) = "fetch_debug" -> FetchGates
      [] OTHER -> StandardGates(a)

(* -------------------------------- Vivado ------------------------------- *)

\* The bitstream and its build id are written once the design is routed and
\* its setup slack is not negative; the script looks at hold afterwards.
Implementation(a) ==
    LET stage == IF a.impl = "incremental" THEN "impl_incremental" ELSE "impl_aggressive"
        extra == IF a.impl = "incremental" THEN {"reference", "reuse"} ELSE {}
    IN  <<Step("write_bit", stage, {"routed", "setup"} \cup extra, "none"),
          Step("write_id", stage, Commands, "none"),
          Step("timing", stage, {}, "none")>>

Vivado(a) ==
    <<Open({"tools"}),
      Step("create", "create_project", Commands, "none"),
      Step("synth", "synth", Commands, "none")>> \o
    (IF a.impl = "synth-only" THEN <<Step("stop", "none", {}, "none")>>
     ELSE Implementation(a))

(* --------------------------------- board ------------------------------- *)

Program(stage) == Step("program", stage, {"cable"}, "none")
Capture(stage, slot) == Step("capture", stage, {}, slot)
Check(slot, needs) == Step("check", "same", needs, slot)
Verdict(slot, needs) == Step("verdict", "same", needs, slot)

\* What a capture of each mode can report, good things only: "not_bad" says
\* that no failure was reported.
CaptureFacts(mode) ==
    CASE mode = "standard" ->
            {"not_bad", "summary", "summary_ok", "start", "done", "counters"}
      [] mode = "fetch_debug" -> {"not_bad", "summary", "summary_ok", "probe"}
      [] mode \in {"early", "early_board"} ->
            {"found", "not_bad", "ready", "magic_ok", "load_start", "first_ack",
             "summary", "summary_ok"}
      [] mode \in {"selftest", "selftest_board"} -> {"sequence"}
      [] mode = "bridge" -> {"not_bad", "ready", "two_ok"}
      [] mode = "steps" -> {"not_bad", "ready", "step1", "step2", "step3", "all_ok"}
      [] mode = "step2" -> {"not_bad", "ready", "case1", "case2", "case3", "case4",
                            "case5", "summary", "summary_ok"}
      [] OTHER -> {"not_bad", "sessions"}

SmokeNeeds == {"not_bad", "summary", "summary_ok", "start", "done"}
\* Mutant: the dump may have ended badly as long as the benchmark printed.
StandardNeedsPrinted == {"not_bad", "summary", "start", "done"}

StandardNeeds == {"not_bad", "summary", "summary_ok", "start", "done"}
FetchNeeds == {"not_bad", "summary", "summary_ok", "probe"}
EarlyNeeds == {"found", "not_bad", "ready", "magic_ok", "load_start", "first_ack",
               "summary", "summary_ok"}
SelftestNeeds == {"sequence"}
Step2Needs == {"not_bad", "ready", "case1", "case2", "case3", "case4", "case5",
               "summary", "summary_ok"}
StepsNeeds == {"not_bad", "ready", "step1", "step2", "step3", "all_ok"}
BridgeNeeds == {"not_bad", "two_ok"}
TransportNeeds == {"not_bad", "sessions"}

BridgeBoard(needs) ==
    <<Open({"pyserial", "port"}), Program("program_jtag"),
      Capture("uart_load_and_capture", "final"), Check("final", needs)>>

TransportBoard ==
    <<Open({"pyserial", "port"}), Program("program_jtag"),
      Capture("uart_load_and_capture", "final"), Check("final", TransportNeeds)>>

EarlyBoard ==
    <<Open({"pyserial", "port"}), Program("program_jtag"),
      Capture("uart_load_and_capture_early_audit", "final"),
      Check("final", EarlyNeeds)>>

FetchBoard ==
    <<Open({"pyserial"}), Program("program_jtag"),
      Gate("uart_load_and_capture", {"port"}),
      Capture("uart_load_and_capture", "final"), Check("final", FetchNeeds)>>

\* The selftest names a failure after its JTAG log, which exists from the
\* moment the programming command is started.
SelftestSession ==
    <<Step("named_gate", "uart_capture_beacon_selftest", {"port"}, "none"),
      Program("uart_capture_beacon_selftest"),
      Capture("uart_capture_beacon_selftest", "final"),
      Check("final", SelftestNeeds)>>

SelftestBoard == <<Open({"pyserial"})>> \o SelftestSession

Baseline(a, again) ==
    IF a.runs = 1 THEN <<Step("reuse", "same", {}, "none")>>
    ELSE <<Open({"port"}), Program(again.program), Capture(again.capture, "final")>>

StandardBoard(a) ==
    <<Open({"pyserial"}), Program("program_jtag"),
      Gate("uart_load_and_capture_smoke", {"port"}),
      Program("program_jtag_smoke"),
      Capture("uart_load_and_capture_smoke", "smoke"),
      Check("smoke", SmokeNeeds)>> \o
    Baseline(a, [program |-> "program_jtag_baseline",
                 capture |-> "uart_load_and_capture_baseline"]) \o
    <<Check("final", StandardNeeds)>>

ModeBoard(a) ==
    CASE Mode(a) = "transport" -> TransportBoard
      [] Mode(a) = "steps" -> BridgeBoard(StepsNeeds)
      [] Mode(a) = "step2" -> BridgeBoard(Step2Needs)
      [] Mode(a) = "bridge" -> BridgeBoard(BridgeNeeds)
      [] Mode(a) = "selftest" -> SelftestBoard
      [] Mode(a) = "early" -> EarlyBoard
      [] Mode(a) = "fetch_debug" -> FetchBoard
      [] OTHER -> StandardBoard(a)

(* ------------------------ runs on an old bitstream ---------------------- *)

Must(needs) == Step("must", "same", needs, "none")

SelftestOnly == <<Must({"tools", "pyserial"})>> \o SelftestSession

Trial ==
    <<Gate("trial", {"port"}), Program("trial"), Capture("trial", "final"),
      Step("trial_end", "trial", {}, "final")>>

EarlyOnly(a) ==
    <<Step("find_audit", "same", {"tools", "pyserial"}, "none")>> \o
    (IF a.sweep THEN Trial \o Trial \o Trial ELSE Trial)

BridgeOnly(needs) ==
    <<Step("find_bit", "same", {"tools"}, "none"),
      Gate("board_only_uart_capture", {"pyserial", "port"}),
      Program("board_only_uart_capture"),
      Capture("board_only_uart_capture", "final"),
      Verdict("final", needs)>>

BoardOnlyStage == "board_only_uart_load_and_capture"

\* The last word is the baseline's: its "not_bad" is not asked for again.
StandardOnly(a) ==
    <<Step("find_bit", "same", {"tools"}, "none"), Step("find_payloads", "same", {}, "none"),
      Gate(BoardOnlyStage, {"pyserial", "port"}), Program(BoardOnlyStage),
      Capture(BoardOnlyStage, "smoke"), Check("smoke", SmokeNeeds)>> \o
    Baseline(a, [program |-> BoardOnlyStage, capture |-> BoardOnlyStage]) \o
    <<Verdict("final", {"summary_ok", "start", "done"})>>

\* The whole flow of a command line.
Plan(a) ==
    CASE Mode(a) = "selftest_board" -> SelftestOnly
      [] Mode(a) = "early_board" -> EarlyOnly(a)
      [] a.impl = "board-only" /\ Mode(a) = "step2" -> BridgeOnly(Step2Needs)
      [] a.impl = "board-only" /\ Mode(a) = "steps" -> BridgeOnly(StepsNeeds)
      [] a.impl = "board-only" /\ Mode(a) = "bridge" ->
            BridgeOnly(BridgeNeeds \cup {"ready"})
      [] a.impl = "board-only" /\ Mode(a) = "standard" -> StandardOnly(a)
      [] OTHER -> BasicGates \o ModeGates(a) \o
                  (IF a.skip THEN <<>>
                   ELSE IF a.impl = "synth-only" THEN Vivado(a)
                   ELSE Vivado(a) \o ModeBoard(a))

(* -------------------------------- state --------------------------------- *)

VARIABLES
    disk,    \* the build directory
    fpga,    \* the design the board holds
    job,     \* the running invocation, or Idle
    last,    \* how the last invocation ended, or Idle
    run      \* number of invocations started

vars == <<disk, fpga, job, last, run>>

Idle == [at |-> 0]
Blank == [image |-> "none", board |-> TRUE, hold |-> TRUE, id |-> 0]
Init ==
    /\ disk = [project |-> "none", hex |-> Blank, synth |-> Blank, bit |-> Blank,
               id |-> 0, smoke |-> 0, base |-> 0, audit |-> FALSE, logs |-> {}]
    /\ fpga = Blank
    /\ job = Idle
    /\ last = Idle
    /\ run = 0

\* What main starts with.
Fresh(a) ==
    [args |-> a, at |-> 1, stage |-> "init", wrong |-> {}, smoke |-> {}, final |-> {},
     raised |-> FALSE]

Running == job # Idle
\* The flows of the command lines in use.
Plans == [a \in Requests |-> Plan(a)]
Steps == Plans[job.args]
Now == Steps[job.at]
Stage == IF Now.stage = "same" THEN job.stage ELSE Now.stage

Advance(new) == job' = [new EXCEPT !.at = @ + 1]
Reached == [job EXCEPT !.stage = Stage]

\* The process is over: code, reported stage, whether a summary was written.
End(code, failed, reported) ==
    /\ job' = Idle
    /\ last' = [args |-> job.args, code |-> code, failed |-> failed,
                reported |-> reported, wrong |-> job.wrong]

Quit == End(1, "none", FALSE)

\* The exit that writes summary.txt.
Report(code, failed, d) == End(code, failed, TRUE) /\ disk' = d

\* A trial keeps its failure to itself and lets the sweep go on.
NextTrialEnd ==
    CHOOSE i \in job.at .. Len(Steps) :
        Steps[i].do = "trial_end" /\ \A j \in job.at .. i - 1 : Steps[j].do # "trial_end"

InTrial == Stage = "trial"

Raise(stage, d) ==
    IF InTrial
    THEN /\ job' = [job EXCEPT !.at = NextTrialEnd, !.raised = TRUE, !.stage = stage]
         /\ disk' = d
         /\ UNCHANGED last
    ELSE Report(1, stage, d)

\* A missing fact: "tools" is SystemExit, the rest are exceptions.
Lose(f, stage, d) ==
    IF f = "tools" THEN Quit /\ disk' = d ELSE Raise(stage, d)

(* ------------------------------- actions -------------------------------- *)

Begin(a) ==
    /\ ~Running /\ run < MaxRuns
    /\ run' = run + 1
    /\ IF Legal(a)
       THEN job' = Fresh(a) /\ last' = Idle
       ELSE /\ job' = Idle
            /\ last' = [args |-> a, code |-> 1, failed |-> "none", reported |-> FALSE,
                        wrong |-> {}]
    /\ UNCHANGED <<disk, fpga>>

At(do) == Running /\ job.at <= Len(Steps) /\ Now.do = do

\* The outcomes of an activity: its work is done, or a fact is missing.
Outcome(stage, before, after) ==
    \/ Advance(Reached) /\ disk' = after /\ UNCHANGED last
    \/ \E f \in Now.needs : Lose(f, stage, before)

RunGate ==
    /\ At("gate")
    /\ Outcome(Stage, disk, disk)
    /\ UNCHANGED <<fpga, run>>

RunNamedGate ==
    /\ At("named_gate")
    /\ Outcome(IF Dir(job.args) \in disk.logs THEN Stage ELSE "program_jtag", disk, disk)
    /\ UNCHANGED <<fpga, run>>

\* A simulation first builds its ROM into the tree the board build reads.
SimImage == [disk EXCEPT !.hex = [Blank EXCEPT !.image = Image(job.args), !.board = FALSE]]

RunSim ==
    /\ At("sim")
    /\ Outcome(Stage, SimImage, SimImage)
    /\ UNCHANGED <<fpga, run>>

RunLongSim ==
    /\ At("try_sim")
    /\ disk' = SimImage
    /\ \/ Advance(Reached) /\ UNCHANGED last
       \/ \E f \in Now.needs \ {"tools"} :
             /\ Advance([Reached EXCEPT !.wrong = @ \cup {<<Stage, "long">>}])
             /\ UNCHANGED last
       \/ Quit
    /\ UNCHANGED <<fpga, run>>

BuildSmoke ==
    /\ At("smoke_payload")
    /\ Outcome(Stage, disk, [disk EXCEPT !.smoke = 10])
    /\ UNCHANGED <<fpga, run>>

BuildBaseline ==
    /\ At("base_payload")
    /\ Outcome(Stage, disk, [disk EXCEPT !.base = job.args.runs])
    /\ UNCHANGED <<fpga, run>>

BuildAudit ==
    /\ At("audit_payload")
    /\ Outcome(Stage, disk, [disk EXCEPT !.audit = TRUE])
    /\ UNCHANGED <<fpga, run>>

\* The project is created only when it, or its memory interface, is missing.
NeedsCreate == disk.project # "ready"

BoardHex(a) == [Blank EXCEPT !.image = Image(a)]

CreateProject ==
    /\ At("create")
    /\ IF NeedsCreate
       THEN Outcome(Stage, [disk EXCEPT !.project = "no_mig"],
                    [disk EXCEPT !.project = "ready", !.hex = BoardHex(job.args)])
       ELSE Advance(Reached) /\ UNCHANGED <<disk, last>>
    /\ UNCHANGED <<fpga, run>>

\* Mutant: synthesis reads the ROM that lies there.
RomKept == disk.hex

\* Synthesis builds the board ROM again before it reads it.
RefreshRom == BoardHex(job.args)

Synth ==
    /\ At("synth")
    /\ Outcome(Stage, [disk EXCEPT !.hex = RefreshRom],
               [disk EXCEPT !.hex = RefreshRom, !.synth = RefreshRom])
    /\ UNCHANGED <<fpga, run>>

StopAfterSynth ==
    /\ At("stop")
    /\ Report(0, "none", disk)
    /\ UNCHANGED <<fpga, run>>

WriteBitstream ==
    /\ At("write_bit")
    /\ \E hold \in BOOLEAN :
          Outcome(Stage, disk,
                  [disk EXCEPT !.bit = [disk.synth EXCEPT !.id = run, !.hold = hold]])
    /\ UNCHANGED <<fpga, run>>

WriteBuildId ==
    /\ At("write_id")
    /\ Outcome(Stage, disk, [disk EXCEPT !.id = run])
    /\ UNCHANGED <<fpga, run>>

TimingMet == disk.bit.hold

CheckTiming ==
    /\ At("timing")
    /\ IF TimingMet THEN Advance(Reached) /\ UNCHANGED <<disk, last>>
       ELSE Raise(Stage, disk)
    /\ UNCHANGED <<fpga, run>>

\* Mutant: the build id is read but not compared.
IdJustRead == disk.id # 0

\* The board is programmed and its build id read back and compared.
IdReadBack == disk.id # 0 /\ disk.id = disk.bit.id

Started == [disk EXCEPT !.logs = @ \cup {Dir(job.args)}]

ProgramBoard ==
    /\ At("program")
    /\ \/ /\ disk.bit.id # 0 /\ disk.id # 0
          /\ fpga' = disk.bit
          /\ IF IdReadBack
             THEN Advance(Reached) /\ disk' = Started /\ UNCHANGED last
             ELSE Raise(Stage, Started)
       \/ Raise(Stage, Started) /\ UNCHANGED fpga
    /\ UNCHANGED run

\* What the design on the board can say to this capture.  The selftest ROM
\* plays the whole early-audit sequence by itself.
Can(image, mode) ==
    CASE image = ImageOf(mode) -> CaptureFacts(mode)
      [] mode \in {"early", "early_board"} /\ image = "selftest" -> CaptureFacts(mode)
      [] mode = "standard" /\ image = "probe" -> CaptureFacts(mode)
      [] mode = "fetch_debug" /\ image = "loader" -> CaptureFacts(mode) \ {"probe"}
      [] OTHER -> CaptureFacts(mode) \cap {"not_bad"}

\* A fact takes those with it that are read off the same beacon.
Without(f) ==
    CASE f = "summary" -> {"summary", "summary_ok"}
      [] f = "found" -> {"found", "magic_ok", "load_start", "first_ack", "summary",
                         "summary_ok"}
      [] OTHER -> {f}

Shown(mode) ==
    LET can == Can(fpga.image, mode)
    IN  {can, can \cap {"not_bad"}} \cup {can \ Without(f) : f \in can}

LostIn(slot, mode, seen) == {<<slot, f>> : f \in CaptureFacts(mode) \ seen}

CaptureUart ==
    /\ At("capture")
    /\ \E seen \in Shown(Mode(job.args)) :
          Advance([Reached EXCEPT
                     ![Now.slot] = seen,
                     !.wrong = @ \cup LostIn(Now.slot, Mode(job.args), seen)])
    /\ UNCHANGED <<disk, fpga, last, run>>

ReuseSmoke ==
    /\ At("reuse")
    /\ Advance([Reached EXCEPT !.final = job.smoke])
    /\ UNCHANGED <<disk, fpga, last, run>>

Evidence == IF Now.slot = "smoke" THEN job.smoke ELSE job.final

CheckEvidence ==
    /\ At("check")
    /\ IF Now.needs \subseteq Evidence THEN Advance(Reached) /\ UNCHANGED <<disk, last>>
       ELSE Raise(Stage, disk)
    /\ UNCHANGED <<fpga, run>>

\* The verdict of a board-only run: no exception, so no failed stage.
GiveVerdict ==
    /\ At("verdict")
    /\ Report(IF Now.needs \subseteq Evidence THEN 0 ELSE 1, "none", disk)
    /\ UNCHANGED <<fpga, run>>

Missing(found) ==
    \/ ~found /\ Quit
    \/ found /\ Advance(Reached) /\ UNCHANGED last
    \/ Now.needs # {} /\ Quit

FindAudit ==
    /\ At("find_audit") /\ Missing(disk.audit)
    /\ UNCHANGED <<disk, fpga, run>>

FindBitstream ==
    /\ At("find_bit") /\ Missing(disk.bit.id # 0)
    /\ UNCHANGED <<disk, fpga, run>>

FindPayloads ==
    /\ At("find_payloads")
    /\ Missing(disk.smoke # 0 /\ (job.args.runs = 1 \/ disk.base # 0))
    /\ UNCHANGED <<disk, fpga, run>>

RunMust ==
    /\ At("must") /\ Missing(TRUE)
    /\ UNCHANGED <<disk, fpga, run>>

TrialPassed == ~job.raised /\ EarlyNeeds \subseteq job.final

\* A trial that does not pass has no failed stage of its own either.
LastTrial == TrialPassed \/ job.at = Len(Steps)

EndTrial ==
    /\ At("trial_end")
    /\ IF LastTrial
       THEN Report(IF TrialPassed THEN 0 ELSE 1, "none", disk)
       ELSE /\ Advance([Reached EXCEPT !.raised = FALSE, !.final = {}, !.wrong = {}])
            /\ UNCHANGED <<disk, last>>
    /\ UNCHANGED <<fpga, run>>

\* Every step is behind: main reports no failed stage.
Finish ==
    /\ Running /\ job.at > Len(Steps)
    /\ Report(0, "none", disk)
    /\ UNCHANGED <<fpga, run>>

\* The user stops the script; nothing is reported.
Interrupt ==
    /\ Running
    /\ Quit
    /\ UNCHANGED <<disk, fpga, run>>

StepOfRun ==
    \/ RunGate \/ RunNamedGate \/ RunSim \/ RunLongSim
    \/ BuildSmoke \/ BuildBaseline \/ BuildAudit
    \/ CreateProject \/ Synth \/ StopAfterSynth
    \/ WriteBitstream \/ WriteBuildId \/ CheckTiming
    \/ ProgramBoard \/ CaptureUart \/ ReuseSmoke
    \/ CheckEvidence \/ GiveVerdict
    \/ FindAudit \/ FindBitstream \/ FindPayloads \/ RunMust \/ EndTrial
    \/ Finish

Next == (\E a \in Requests : Begin(a)) \/ StepOfRun \/ Interrupt

Spec == Init /\ [][Next]_vars

(* ------------------------------ properties ------------------------------ *)

\* What a run may miss and still pass: the long simulations, whose failure is
\* only written down; the counters; the READY line of a bridge audit behind a
\* build; a failure that the long benchmark of a board-only run reports.
Tolerated(a) ==
    {"loader_full_payload_prefix4_sim", "loader_full_payload_long_sim"} \X {"long"}
    \cup {"smoke", "final"} \X {"counters"}
    \cup {<<"final", f>> : f \in
             CASE Mode(a) = "bridge" /\ a.impl # "board-only" -> {"ready"}
               [] Mode(a) = "standard" /\ a.impl = "board-only" -> {"not_bad"}
               [] OTHER -> {}}

Passed == last # Idle /\ last.code = 0

\* main exits with 0 only when nothing went wrong that the flow is meant to see:
\* in its gates, in the smoke capture, in the final one, or, in a sweep, in the
\* trial that passed.
PassMeansEvidence == Passed => last.wrong \subseteq Tolerated(last.args)

\* A run that builds puts on the board what this very run built, for its own
\* mode, from the board's ROM and not a simulation's, with hold met.
RunsOwnBuild ==
    [][fpga' # fpga /\ Full(job.args) =>
         fpga' = [image |-> Image(job.args), board |-> TRUE, hold |-> TRUE, id |-> run]]_vars

\* The build id a passing board run prints is that of the design on the board,
\* though an interrupted run may leave a bitstream without its id.
ReportedIdIsOnBoard ==
    Passed /\ (\E i \in DOMAIN Plans[last.args] : Plans[last.args][i].slot = "final")
        => disk.id # 0 /\ fpga.id = disk.id
=============================================================================
