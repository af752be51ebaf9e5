# A verification development of SifangCore

SifangCore (`rtl/`, `fpga/rtl/`) is an RV32IM out-of-order core: two
instructions are dispatched per cycle, renamed, executed out of order on two
pipes, and retired in order, one per cycle. Beside it stands the board flow:
`fpga/scripts/run_fpga_benchmark_ddr3.py`, which simulates, builds, programs and
measures a board, the firmware it loads programs through, and the beacon that
firmware reports by. This directory holds TLA+ modules translated from the
Verilog, the Python, the assembler and the Tcl, the TLC configurations that
check them, and TLAPS proofs about the reorder buffer, renaming, scheduling and
pipe 1.

In the hardware modules one step is one clock edge of the modelled block;
right-hand sides are the values before the edge, as with non-blocking
assignments, and where the code assigns a register twice the later assignment
wins in the model too. In the modules of the board flow one step is what one
side does between two points where the other may act: a byte, a read, a wait
that ends, a step of the script.

## 1. The system

```
 stage_if/icache -> fetch_buffer -> decoder_dual -> [rename + dispatch] -> issue queues -> exec_pipe0 / exec_pipe1
                                        |                                         |               |
                              rename_map_table, freelist                     branch redirect   lsu_shell -> store_buffer
                                        |                                         |               |
                                       rob  <------------- write-backs -----------+---------------+-> mem_subsys
                                        |                                                             (l1_dcache_m1, l2_arbiter,
                                commit port / recovery walk -> csr_unit (traps)                        l2_cache, ddr3_mem_port, MMIO)
```

All blocks share one clock; the concurrency is that of registers which see each
other's outputs one cycle late. A *redirect* (branch mispredict, `mret`/`sret`,
exception, interrupt) is broadcast to every block in the cycle it is decided,
and each block filters its own instructions by comparing order ids. Everything
hard in this core is what happens around a redirect: what had just committed,
what was on its way, what returns late.

| Component | State | Operations | Correct when |
|---|---|---|---|
| Reorder buffer `rob.v` | ring of entries, head, tail, count, walk state, commit and recovery ports | dispatch x2, write-back x2, commit, flush marking, recovery walk | retires in program order, undoes youngest first, forgets nothing |
| Rename map `rename_map_table.v` | map, checkpoints | rename x2, undo, checkpoint, restore, drop | follows the surviving program after every redirect |
| Free list `freelist.v` | ring memory, two pointers, checkpoints | allocate x2, free, push back, image, restore, drop, rebuild | a queue of distinct registers, none in use |
| Rename glue `sifang_core.v` | quarantine, checkpoint-covers-walk flag, order counter | dispatch guards, restore/undo priority, rebuild | map, list and buffer agree; never wedged |
| Dispatch unit `dispatch_unit.v` | tags, result table, branch tracker, busy flags of the functional units, pipe-1 candidates | allocate tags, wake-up, issue arbitration, flush | a tag names one instruction; a unit is busy exactly while it works |
| Issue queues `issue_queue.v` | entries with source tags, ready flags | dispatch, wake-up, oldest-first select, flush, release | no lost wake-up, no wrong-path issue |
| Pipe 0 `exec_pipe0.v` | one registered branch result | ALU, CSR, branch resolution | one redirect per mispredict |
| Pipe 1 `exec_pipe1.v` and write-back arbiter | held memory request, pending results | AGU, MUL, DIV | every issued instruction answers once |
| Store buffer `store_buffer.v` | entries: address, data, order, committed | allocate, commit, flush, forward, drain | retired stores reach memory once, in order; loads see the youngest older store |
| Load/store shell `lsu_shell.v` | one request in flight, FSM, watchdog | accept, translate, request, respond, AMO, flush | a load returns its own data; no request is lost |
| L1 data cache `l1_dcache_m1.v` | tags, data, dirty, FSM | hit, miss, write-back, fill, snoop, flush | a dirty word is never lost |
| L2, DDR3 port, arbiters | MSHR-less FSMs, owner registers | request, grant, response | a response goes to the master that asked |
| CSR unit `csr_unit.v` | privilege, mstatus stack, mepc, mip/mie | CSR access, trap, xret | privilege stack discipline; traps precise |
| Fetch buffer, IF stage, I-cache, branch predictor | FIFO, PC, lines, counters | fetch, push, pop, redirect | instructions in order, none twice |
| PLIC, CLINT, UART, RoCC accelerator | registers, FIFOs, DMA FSM | MMIO, claim/complete, transfer | interrupts claimed once; FIFO order |

Not core logic: `rob_lite.v`, `scoreboard.v`, `l1_dcache_nb.v`,
`legacy_mem_subsys.v` and their kin are earlier versions of blocks above and
not instantiated in the default build; `verification` and `comp_test` are test
benches.

The board flow has three parts that interact:

```
 run_fpga_benchmark_ddr3.py: main
   |  gates, simulations, payloads, Vivado, JTAG            (build directory, board)
   +- drive_uart_loader  <- UART ->  rom/test_fpga_ddr3_loader.s
   |     header, chunks, checksums         acknowledgements, block replies
   +- beacon readers     <- UART --  debug_beacon_tx.v <- firmware events
         frames, sessions, verdict
```

| Component | State | Operations | Correct when |
|---|---|---|---|
| DDR3 loader, host side | phase, credits, queued replies, attempts | send header, chunk, checksum; take credit or reply; time out; retry a block | a reported pass means the image is in memory; never too far ahead of the board; always ends |
| DDR3 loader, firmware | phase, block registers, memory | receive, acknowledge, accept or reject a block, verify, jump | stores what was sent, rejects what was damaged |
| Beacon sender and readers | sequence number and repetitions; captured bytes, stream filter | send an event; decode, split into sessions, drop repetitions, classify | one bad byte costs no event; a verdict is about one boot |
| Early-audit capture | phase of the exchange | wait for READY, drain, header, grace, payload, summary | an undisturbed audit passes |
| Benchmark flow | build directory, board, the stage of a run | a mode's list of steps | success means evidence, of this run's own build |

What is hard, and what the properties are for: a redirect that arrives while
the walk of an earlier one still runs; the head's write-back, its commit and a
flush in one cycle; two copies of the checkpoint bookkeeping (map and list)
that must agree; tags that are freed and handed out again while late results
still carry them; an instruction killed between two registers of a pipeline
whose resource was already reserved for it; a load that asks for its data and
is flushed before the answer comes. In the board flow: answers that come after
the wait for them has ended, damaged bytes in a protocol whose only framing is
counting, two boots in one capture, and files of an earlier run or mode in the
place where the next one looks. `PROJECT.json` lists these hazards with
the lines where they bite and the properties that cover them.

## 2. Modules and the code

| Module | Stands for | State ↔ registers |
|---|---|---|
| `Program` | nothing in the code: what a reorder buffer promises, a set of order ids that grows and is cut off at the young end and retires at the old one | |
| `Rob` | `rob.v` | `rob[i]` the entry arrays, `robHead`, `robTail`, `robCount`, `recovering`/`recoverPtr` the walk FSM, `commit0` and `recoverOut` the two registered output ports |
| `Retire` | `Rob` and the pipeline that drives it (write-back, branch resolution, redirect priority, interrupts, dispatch offers) in `sifang_core.v`, `exec_pipe0.v`, `dispatch_unit.v`, `csr_unit.v` | `br` the registered branch result; `retired`, `squashed`, `undone` are histories |
| `RetireProofs` | theorems about the shape of `Retire`'s ring, about what it retires, cancels and undoes, and its refinement of `Program` | |
| `Freelist` | `freelist.v` | `flMem` the ring, pointers, checkpoint images |
| `FreeFifo` | what a free list promises: a queue of distinct registers with images | |
| `FreelistUse` | `Freelist` under every legal sequence of requests, refining `FreeFifo` | |
| `FreelistProofs` | theorems about `FreelistUse`: what the lists hold, and the refinement of `FreeFifo` | |
| `RenameMap` | `rename_map_table.v` | map and checkpoints |
| `Rename` | `Retire`, `Freelist` and `RenameMap` with the glue of `sifang_core.v` (dispatch guards, capture and restore, undo priority, quarantine, rebuild) | history `log`: the instruction and the register of every order id |
| `RenameProofs` | theorems about `Rename`: its registers, what carries over from `Retire`, what is handed back, what the map says of the program | |
| `InUseProofs` | theorems about the registers `Rename` has free: none is in use | |
| `IssueQueue` | `issue_queue.v` | slots, ring of stores with its head register |
| `Scheduler` | `IssueQueue` with the tag pool, the register table and the flushes of `dispatch_unit.v` | `tags`, `result`; `flight` is what the rest of the core does with issued instructions |
| `SchedulerProofs` | theorems about `Scheduler`: tags, wake-ups, operands, loads behind stores | |
| `Pipe1` | candidates and busy flags (`dispatch_unit.v`), arbiter, operand stages, `exec_pipe1.v`, `mul_unit.v`, `div_unit.v`, write-back port 1 (`sifang_core.v`) | `cand`, `busy`, `preRo`, `ro`, `mul`, `div`, `req`, `pend`; `lsu` is the load/store shell, abstracted |
| `Pipe1Proofs` | theorems about `Pipe1`: where instructions are, when units are busy | |
| `Loader` | `drive_uart_loader` and the block protocol beneath it in `run_fpga_benchmark_ddr3.py`, `rom/test_fpga_ddr3_loader.s`, and the serial line between them | `host` the locals of the nested functions, `board` the firmware's registers and memory, `h2b` and `b2h` the line, `faults` what it has done |
| `LoaderProofs` | theorems about `Loader`: what a pass rests on, the host's blocks and tries, the acceptances it counts | |
| `BeaconSessions` | the decoder, the stream filter and the three readers of the script, as operators | |
| `Beacon` | `debug_beacon_tx.v`, the event sequences of the firmware, the line, resets, and the script's captures | `board` the boot and its place, `past` earlier boots, `line`, `host` the bytes read and the phase |
| `BenchFlow` | `main` of the script, with the Tcl it runs | `disk` the build directory, `fpga` the design on the board, `job` the running invocation, `last` how the last one ended |
| `BenchFlowProofs` | theorems about `BenchFlow`: what the plans look like, what a run has built, what the board holds, what a pass rests on | |
| `MCRetire`, `MCRename`, `MCScheduler`, `MCPipe1`, `MCLoader`, `MCBeacon`, `MCFlow` | instances for TLC | |

`Beacon EXTENDS BeaconSessions`; `Loader` looks into the exchange of the payload
that `Beacon` takes as one step, and both are one step (`CaptureUart`) of
`BenchFlow`. `Retire EXTENDS Rob`, `Rename EXTENDS Retire`, so that the rename stage is
checked against the real walk and not against an idea of it. `Scheduler` and
`Pipe1` stand next to that stack: they see commits and redirects as inputs.
One action is one clock edge of all the registers of the module. Where several
`always` blocks or several assignments of one block meet in a cycle, they are
one action with the code's priorities. `Next` has more than one disjunct only
to tell cycles apart that fairness or coverage speaks about.

Order ids are unbounded numbers in the models and 24 bits in the code
(`define.v:175`); a wrap needs 2^24 dispatches without a reset and nothing in
the code handles it.

## 3. What TLC checks

| Run | Bounds | Shows |
|---|---|---|
| `retire` | 4 entries, 5 instructions; plain, faulting, branch and xret instructions; both kinds of interrupt | order of commits and undoes, shape of the ring, no mark left, refinement of `Program`, the buffer drains, walks end |
| `freelist` | ring of 3, pointers modulo 6, 1 checkpoint, 2 branches | refinement of `FreeFifo`: a queue of distinct registers with images |
| `rename` | 5 entries, 6 instructions, 2 architectural and 4 further registers, 2 checkpoints; writes, branches, xrets, external interrupts | the map follows the surviving program, no register is free and in use, one register returns per cycle, images stay consistent |
| `sched` | 2 slots, 5 instructions, 3 tags; loads, stores, branches; mispredicts and traps | operands are there at issue, no lost wake-up, tags unique, loads and stores stay behind stores until dead stores overfill their ring, every wait ends |
| `pipe1` | 3 programs of 4 instructions that put two of one unit beside each other unit, a divider of 5 iterations; redirects and traps at any time | every live instruction in exactly one place, but for a division that meets one a trap has left in the divider; busy while working, accesses answer |
| `loader` | an image of 7 bytes of base 4 in two blocks, chunks and sums of 2 bytes; 2 headers, 2 checksums, 2 tries of a block; one byte changed, or up to two lost, missed or late | a pass means a verified image and, after one fault, the payload itself; host and board in step, receive buffer not overrun, an undisturbed load passes, the host ends |
| `flow` | three invocations out of 26 command lines: every mode, every back end, what `main` refuses, the options that change the list of steps | a pass means evidence, the reported build is on the board, a run programs only its own build |
| `beacon` | shortened boots of the three firmwares (up to 6 items), 2 copies of a summary for 12, 6 unread bytes; one fault or one reset | the filter agrees with the decoder, one fault costs no event, verdicts are about one boot, an undisturbed audit passes |
| `rename_fault`, `rename_slots`, `sched_dep`, `loader_nack` | as small as the case allows; `rename_slots` follows one program of 9 instructions | one departure each, see below |

Why the bounds are enough for the cases they are about. A walk that is
interrupted by a second redirect needs three instructions behind a retired
one; a full ring that wraps needs more instructions than entries: 5 through 4
entries has both. In `rename` a checkpoint restore, a second branch inside its
shadow and a register that is freed, reallocated and undone need two
checkpoints and two spare registers more than the writes in flight. In `sched`
a reallocated tag with a late result needs one instruction more than there are
tags in flight at once, and two slots and 5 instructions are enough for dead
stores to overfill the ring of stores. In `pipe1` the divider's 32 iterations
are cut to 5: a collision at the write-back port arises from issue at any time,
and 5 are enough for a trap to leave a division running until the next one gets
there.

In `loader` two blocks, the second one shorter and with a partial last chunk,
are the least that tells "the next block" from "the same block again" and
reaches the tail; base 4 and two-byte sums keep coincidences of the additive
checksum possible, which is why `PassMeansIntact` speaks of one fault. In
`beacon` a frame can be cut at each of its places (6 unread bytes hold a frame
and one byte), and a summary needs two copies for one to be lost. A capture has
a fault or a reset, not both. In `flow` three invocations are needed: one that
builds, a second that is interrupted between bitstream and build id, and a
third that uses what is there.

Deadlock is checked in every hardware run, where a clock edge is always
possible, and in `beacon`, where only a finished capture may stop: that is how
the run shows that none of the waits of the early audit lasts for ever. `loader`
and `flow` really stop, when the host has ended and when no invocation is left,
and do not check it.

### Fairness

Safety runs need none. `retire` and `sched` assume one weak fairness, of
`Ticks`: the clock does not stop, and while something executes, cycles come in
which some of it writes back; the functional units do answer, the divider after
32 cycles, memory after the watchdog of `lsu_shell.v:853` at the latest. It
says nothing about which instruction answers, and nothing about redirects,
which may come or not. `pipe1` assumes it of `QuietCycle`, the clock without a
flush: an instruction may not rely on being killed. Its candidates, operands
and memory answers move when nothing else can. `loader` assumes weak fairness of
the two sides (`BoardStep`, `HostStep`): each is a program that runs, and every
wait of the code has a deadline, which may fire once nothing is on its way, or
too early at the price of a `late` fault. `beacon` and `flow` assume none.

### Findings

Each is a run that TLC ends with a counterexample; `PROJECT.json` quotes the
comment it contradicts.

- `sched_dep`: `reg_result` holds only the youngest producer of a register. A
  mispredict empties entries of cancelled producers and does not bring back the
  older one, so that a consumer on the right path is issued before its operand.
- `rename_fault`: the excepting instruction's mapping is undone ahead of the
  walk over the younger ones, which then put its freed register back.
- `rename_slots`: a branch that commits in the cycle of a younger branch's
  restore is dropped from the map's checkpoints (`rename_map_table.v:324-337`) and
  not from the list's, whose restore excludes the drop (`freelist.v:165`). The
  image that stays takes a slot until the next branch commits; when the slots run
  out meanwhile, the list finds one for a branch whose map found none, or the
  other way round. If the branch whose image only the list has mispredicts, the
  list goes back at once and the walk then pushes the same registers again: a
  few cycles later a register is on the list twice. The run stops at the restore
  (`RestoresTogether`); one more write at the end of its program and five free
  registers take it on to `FreeIsNotInUse`. Within the bounds of `rename` the
  slots never run out that way.
- `loader_nack`: the firmware assembles the host's checksum in the register
  that holds the block's length. An accepted block is counted by a saved copy, a
  rejected one is received again with the wrong length. Nothing but the header's
  sum then stands between a shifted image and a pass: with blocks of 2 bytes and
  the payload `<<0, 3, 0, 1, 0, 0>>` in `MCLoader`, one lost byte of a block's sum
  leads to an image that is not the payload and adds up like it.

Further departures of the code from what it says. The passing runs exclude them
by a bound, a constant or the inputs they choose, and changing it shows the
departure; or the property itself says how far it holds.

- `run_fpga_benchmark_ddr3.py:2743`: the order check does not remember header
  bytes, so that the second one is "hdr_b1_before_hdr_b0" and every audit that gets
  that far is classified as `beacon_transport_corruption`. The verdict of the run is
  reached in another way and is not affected. `EarlyPass` of `MCBeacon` leaves the
  header bytes out; `MCBeaconOrder.cfg`, a configuration beside the runs, plays the
  whole audit and TLC finds `OrderErrorIsTrue` violated.
- `freelist.v:72`: with 48 places and 7-bit pointers, as in the FPGA build, the
  list jumps when a pointer wraps. Give `MCFreelist.cfg` a `PtrMod` that is not a
  multiple of `FlDepth`: `ImplementsFifo` fails.
- `sifang_core.v:1711`: a trap drops no checkpoint; one whose branch is gone
  keeps registers in quarantine and forbids the rebuild, and dispatch stops with
  nothing in flight.
- `issue_queue.v:767`: dead stores keep their places in the ring of stores while
  their slots are free; the ring overfills, a push writes over the oldest
  record, and a load passes an older store. `sched` reaches this within its bounds.
  `LoadsStayBehindStores` speaks of the time up to an overfill, and again from the
  next trap on, which empties the ring: `overfilled` is the history of it. That
  the order depends on it shows without the exception: with `NumTags = 7`,
  `MaxOrder = 7` and a program of an `Alu(1, 2)`, a store, a branch, three more
  stores (`Store(1)`) and a load, through 3 slots, a load leaves ahead of an
  older store.
- `dispatch_unit.v:1880`: a redirect that kills a multiplication or division
  before its unit answers leaves the unit's busy flag set; `BusyWhileWorking` is
  the direction that holds.
- `dispatch_unit.v:1715`: a trap frees a divider that still runs, and the next
  division is dropped on arrival. `pipe1` reaches this too; `OnePlaceEach` has
  exactly these divisions as its exception (`dropped`), and checks that the dead
  result that leaves the divider later costs no other instruction its place.
  A dropped division never writes back and keeps the unit busy until a trap.

One more has no switch in a configuration: an interrupt raised by software (`mip` bits) is not held back
during a walk; if the walk is that of a branch with a checkpoint,
`branch_ckpt_recover_active_r` still tells it not to undo, and undoes of the
second redirect are lost (`sifang_core.v:1709-1743`); `rename` therefore lets
interrupt lines through only, which wait for the end of a walk.

### What the board-flow properties say, and what they leave open

`PassMeansIntact` and `BlocksInStep` each have a half that holds for every payload
(`PassMeansVerified`, `AcksAreAccepted`, proved below) and one that is as good as
the additive sums, and holds of the payload of the run. What the first half of
`PassMeansIntact` promises is what the board can know: it received as many bytes as
it was told to expect, and they add up, on the way and read back. That these are
the payload's bytes is more. Two faults may make up for each other, and some
payloads let one fault through, which TLC finds in the same instance: with
`<<0, 2, 1, 1, 0>>` a changed bit in the header's size drops a last byte that is
zero; with `<<2, 0, 3, 1, 2>>` the same bit, in the first of two headers sent blindly,
makes the second header the image: it adds up alike, and its own sum passes for
the block's.

`BlocksInStep` excludes a changed byte, which may turn a rejection (0x15) into an
acceptance (0x17), a single bit apart, and, in its second half, a second header,
which a board that already loads takes for data. Its second half needs a payload
without long runs of zeros: with `<<0, 1, 0, 0, 0, 0, 0>>` a board out of step
reads a sum of zero for a block it counts as empty, and accepts empty blocks ahead
of the host. `Outstanding` is what the UART's receive buffer relies on: each early
end of a wait lets one chunk more go ahead. It holds of every payload tried here;
with longer blocks a rejected block that is received again with too small a
length would be acknowledged more often than the host sends whole chunks.

`OneFaultLosesNothing` excludes frames whose check byte is the start byte
(`Ambiguous`): the READY of the early audit is such a frame (0xA5 0x00 0x01 0x01
0xA5), and behind a stray start byte it is read as another frame. Its second
copy then still announces the boot, but not always under its own number.
`PassIsOneBoot` says that facts of two boots are not mixed; the readers get there
by different means, the loader's and the early audit's by the last READY with
number 0, the selftest's by demanding a single session. The capture of a board
that is programmed while the port is open may begin with the earlier boot, and
when that boot was complete and the new one has said nothing yet, the pass is the
earlier one's: the property says so. The selftest cannot tell the READYs of two
boots apart, so that the first may contribute its READY. The early audit's
report chooses its session by progress (README.md:1366), its verdict by the last
READY; `ReportIsOfTheVerdict` relates the two. The choice "from the start on"
never applies when READY is repeated, since a session starts at the first copy
and the split is at the last. Failures count as progress in the choice, and a
CAL_FAIL of a second boot is dropped as a repetition when its number was seen.

`PassMeansEvidence` names in `Tolerated` what a successful run may have missed:
the long simulations, whose failure is written down and forgotten; the counters,
though README.md:1361 makes them part of the criterion; READY in a bridge audit
behind a build; a failure reported by the long benchmark of a board-only run,
whose last verdict does not ask for it. What the code reports of a failure is
less exact than whether it failed, and no property speaks of it: a COM port that
cannot be opened before programming is reported under the implementation's
stage, that of the baseline under the smoke's; a selftest names its failure after
a log that exists as soon as programming starts; a board-only run that lacks
evidence reports `FailedStage: none`; SystemExit and an interrupt leave the
previous summary.txt in place, which README.md:1355 tells the user to read. A
board-only run may use a bitstream whose hold timing failed (it is checked after
the bitstream is written), a baseline payload built for another number of runs,
and, for the early audit, a selftest bitstream, which plays the whole audit by
itself. `RunsOwnBuild` therefore speaks of runs that build, and
`ReportedIdIsOnBoard` of the id and not of the mode.

## 4. What is proved

Each theorem holds for every value of the constants its module's named
assumptions allow: every ring depth above 3, any number of registers, slots,
tags and checkpoints, every set of instructions and every bound on how many are
dispatched. Where a theorem needs more it says so in an ASSUME of its own:

- `PointersWrapWithRing` (`FreelistUse`): the pointers of the list run modulo a
  multiple of its size. It holds in the simulation build (64 places, 7-bit
  pointers) and not in that for the FPGA (48 places, `freelist.v:72`);
- `OrdinaryProgram` (`RenameProofs`): no instruction faults, none is a branch and
  an xret at once (the decoder knows no such one), and interrupts come by the
  interrupt lines. The run `rename_fault` shows that faults break the theorem;
  interrupts by software do too (below, and `sifang_core.v:1709`). It is what the
  run `rename` checks;
- `OrderedMemQueue` (`SchedulerProofs`): the queue is the memory queue, the one
  of the three that holds loads and stores and is built to keep their order.

None of these is about how the code behaves while it runs. Where the code keeps
a property only so far, the statement says how far, by a history variable that
no guard reads:

- `dropped` (`Pipe1`): the divisions that arrived while the divider worked on one
  that a trap had found there (those are `cut`);
- `overfilled` (`Scheduler`): a store was pushed onto a full ring since the last
  trap;
- `unmatched` (`Rename`): a mispredict put back an image of the list and none of
  the map. `slipped` tells when that can happen: a branch has retired in the
  cycle in which an image was put back, the case of `rename_slots`.

The retirement theorems make no assumption beyond `RobAssumption` and
`RetireAssumption`. All safety properties of the run `retire`, and its
refinement, are among them.

`RetireProofs`, the shape of the ring:

- `RingHolds`: the inductive invariant `RingInv`;
- `TypeIsInvariant`: `RetireTypeOK`;
- `ShapeIsInvariant`: `RingIsContiguous`;
- `NoMarkLeftIsInvariant`: `NoMarkLeft`.

None of the last three is inductive alone. The walk stops at the first unmarked
entry it meets from the tail; that it leaves no mark behind holds because the
marks are a suffix of the ring (`MarksAreASuffix`). A flush marks a suffix
because order ids grow along the ring (`OrdersGrow`), and dispatch, the only
step that adds entries, does not happen while entries are marked. The walk's
pointer is always at the last entry the ring still holds (`WalkIsAtTheTail`),
so that the tail it leaves at its end is the right one. `RingInv` is the
conjunction; the proof has one lemma per phase of `RobCycle` (running, marking,
undoing, holding, ending) and one for the driver's registers.

`RetireProofs`, the accounts of the program:

- `HistoryHolds`: the inductive invariant `HistoryInv`;
- `CommitsInOrderIsInvariant`, `UndoesYoungestFirstIsInvariant`,
  `WalkUndoesAllIsInvariant`: the properties of these names;
- `FlushesMarkTheCancelled`: a flush marks what it cancels, no more, no less;
- `RetireImplementsProgram`: `ImplementsProgram`, the refinement.

`HistoryInv` adds to `RingInv` that each instruction that entered is retired,
cancelled or a live entry (`EveryOneAccounted`, `LiveIsOpen`) and that a
cancelled one is undone or still a marked entry (`MarkedIsSquashed`,
`SquashedIsKept`). `CommitsInOrder` follows because the head is the oldest
entry and an ordered flush that lets it commit does not cancel it;
`UndoesYoungestFirst` because the walk's entry is the youngest. The one place
where the buffer alone would not do is the third case of its marks
(`rob.v:442-471`): an incomplete instruction at the very boundary of a flush is
marked although no redirect means it. If it were the head and completed in the
same cycle it would be marked and retire at once. That it never arises needs
the driver: the order id of an xret's flush is the xret's, and a branch
redirects a cycle after the write-back that completed it
(`ResolvedIsComplete`). Every cycle is then described once (`Passes`,
`Leaves`: some entries leave by one of two ports, the others are marked, new
ones enter), one lemma per phase shows that the phase is of that form, and the
accounts, the order properties and the simulation of `Program` are argued from
the form alone.

The lemmas about a cycle are stated for whatever dispatch hands over
(`HandsOver`, `BufferCycle`), so that they serve `Rename` as well.

`FreelistProofs`, the free list:

- `ListsAreSound`: the inductive invariant. The list and every valid image are
  windows of the ring whose registers are distinct and not register 0; there are
  fewer such registers than places, so that a window never fills the ring and a
  capture is never overtaken;
- `ListImplementsFifo`: `ImplementsFifo`. The refinement is proved request by
  request: the front of the window is what the queue hands out, a push extends it
  by one, the image of a branch is the window from its own head on.

`RenameProofs`, renaming around the buffer:

- `RenameInvariant`: everything `HistoryInv` says holds with the rename stage
  driving the buffer, and map, list, images and log keep their ranges; hence
  `RenameTypes` (`RenameTypeOK`) and `RenameImplementsProgram`;
- `OneReturnOnly`: `OneReturnPerCycle`, with faults and every kind of interrupt.
  The two output ports of the buffer take turns (`PortsTakeTurns`): it commits
  outside a walk only and hands over entries within one only.

`RenameProofs`, what the map says:

- `MapInvariant`: the inductive invariant `MapInv`;
- `MapIsThePrograms`: `MapFollowsProgram`.

`MapFollowsProgram` speaks of settled states only, and there is nothing to
induct on in between unless one says what the map is while it is being put
back. `Visible` does: the map is always that of the instructions no redirect has
cancelled and, in a walk that no image cuts short, of the cancelled ones the walk
has yet to undo. A cycle changes `Visible` in one of four ways (`Restored`,
`Dispatching`, `Skipping`, `Walking`), and the map in the same four. The walk is
right because what an entry overwrote is the register of the youngest visible
writer before it (`OldIsVisible`) and the entry handed over is the youngest
visible one (`UndoIsYoungest`); a restore because an image is that of the
instructions up to its branch (`ImagesAreVisible`) and what has retired is older
than the branch (`RetiredIsOld`). All of it depends on redirects that do not
overlap (`OneRedirect`): at most one branch or xret is unresolved, and none
during a walk. That is where `OrdinaryProgram` comes in.

`InUseProofs`, what is free:

- `InUseInvariant`: the inductive invariant `InUseInv`;
- `FreeIsNeverInUse` (`FreeIsNotInUse`), `ImagesFit` (`ImageIsConsistent`): both
  hold until a list has come back without its map (`~unmatched`);
- `MismatchNeedsSlip`: that takes a branch that retires in the cycle of a
  restore (`slipped`), whatever the program and the interrupts.

A register has one of three uses: an architectural register maps to it, a visible
instruction has overwritten it and its commit or undo has not yet handed it back
(`Olds`), or it is on the list. `Apart` says that no register has two of them and
none twice, also in the middle of a redirect; each event of a cycle moves one
register from one use to another (`ApartAllocates`, `ApartReleases`,
`ApartUndoes`). A restore moves many at once and needs two more facts. The map's
image names registers that the map still has or that a younger instruction has
overwritten since (`NamedIsHeld`, which rests on `MapInv`), so that none of them
is free. The list's image may hold registers that were handed out since, but none
that the map's image names (`ImageIsConsistent`) and none that an instruction up
to the branch has overwritten (`Spares`). When the list has no image the walk is
skipped and what the younger instructions took is lost, for good or until an
older image or a rebuild brings it back; when the
list has one and the map has none the walk hands registers back that the
restored list already holds: from then on nothing is claimed, not even past a
rebuild, since by then two architectural registers may share one. A rebuild
is safe because it comes with nothing in flight (`RebuiltIdle`).

`MismatchNeedsSlip` needs none of this. List and map have the same images of the
same branches in the same order of slots, captured together and dropped together;
each event of a cycle keeps them so but the one in which the map drops a retiring
branch's and the list, which is being put back, does not.

The proof uses that dispatch takes what the list can serve (`Served`) and nothing
of its three further guards (`Guarded`). With the images in step the guard of
the map never fires, and those of the checkpoints and of the quarantine hold
back registers that would be safe to hand out.

`SchedulerProofs`, tags and the issue queue:

- `SchedInvariant`: the inductive invariant, and `SchedTypes` (`SchedTypeOK`);
- `TagsNameOneInstruction` (`TagsNameOne`), `NoWakeupIsLost` (`NoLostWakeup`),
  `OperandsAreReady` (`OperandsReady`);
- `LoadsAndStoresInOrder` (`LoadsStayBehindStores`): until an overfill, and again
  from the next trap on; under `OrderedMemQueue`.

Tags name flights one to one, and each valid entry of the queue is the flight of
its tag; a source that is not ready names a tag whose flight has not finished,
or a wake-up held back for the entry. A flush cannot break that, because it frees
a tag only together with everything younger, and whoever waits is younger than
whom it waits for.

Loads stay behind stores because the ring is the queue of the stores in flight
(`StoreInv`): its records are in program order (`Fifo`) and every store in flight
has one, with the slot it holds in the queue. Records of dead stores may stand
between them; they leave at the head, one per cycle, and the check that finds a
head dead (slot, kind and order id) never takes a store in flight for one, though
the slot of a dead one may meanwhile hold another instruction (`TrimmedIs`). So
the head is never younger than the oldest store, and it blocks what is younger
than itself (`OlderStoreBlocks`). All of this holds as long as no push goes beyond
the ring's places; a trap leaves ring and flights empty (`TrapEmptiesRing`), so that
it holds again from there.

`Pipe1Proofs`, execution pipe 1:

- `Pipe1Invariant`: the inductive invariant, and `Pipe1Types` (`Pipe1TypeOK`);
- `NothingIsLost` (`OnePlaceEach`), `BusyUntilWriteback` (`BusyWhileWorking`).

The two properties depend on each other: a unit takes no second instruction
because its busy flag holds it off, and the flag stays set because nothing else
of that unit writes back. The invariant follows the dead as well. At most one
division is past the arbiter, but for one in the divider that a trap has cut:
after a trap the busy flag no longer speaks of it (`OneDivision`). At most one
multiplication is past it, since a new one takes longer to arrive than the one
before to drain. A memory result that waits for the write-back port waits for a
division, a multiplication and a division again at the worst, and has left
before the next access can answer (`PortFreesInTime`).

`BenchFlowProofs`, the benchmark flow, under `RequestsAssumption` alone: for
every set of command lines and any number of invocations, wherever each was
stopped and whatever failed in it:

- `FlowInvHolds`: the inductive invariant `FlowInv`, with the types in it;
- `PassMeansEvidenceHolds` (`PassMeansEvidence`), `ReportedIdIsOnBoardHolds`
  (`ReportedIdIsOnBoard`), `RunsOwnBuildHolds` (`RunsOwnBuild`, an action property).

A run is a place in the plan of its command line, so the proof has two halves.
The first is about plans. `PlanIsStraight` shows of every command line that
`main` accepts, but for the early audit on the board, that its plan is `Straight`:
nothing writes a bitstream or a build id behind a programming, each slot is filled
once and before anything is asked of it, and what a capture may miss is asked
for behind it or is in `Tolerated`. `PlanOfTrials` shows that the early audit on
the board is a sweep of `Trials`, the only plan that catches its own failures.
`FullBuilds` shows that a run that builds has project, synthesis, bitstream, id
and timing in that order (`Builds`).

The second is about what is known at each place. None of the three properties is
inductive: a pass is decided at the last step from what earlier ones left behind.
`OwnBuild` follows the run's own netlist into its bitstream and past the timing
check, where `RunsOwnBuild` finds it programmed; `BoardIsKnown` says that behind a
programming that did not raise, the id in the build directory is the design's on
the board; `EvidenceIsKept` says that whatever is wrong in a run so far is
missing from a capture behind it or is a long simulation's failure, and that
each check passed had what it asks for. `TrialsInOrder` says the same of a sweep: a trial
that raised waits for its end, and none reaches its verdict without a
programming of its own. What earlier runs left in the build directory is not
constrained at all, since nothing in the code constrains it.

`LoaderProofs`, the loader, under `LoaderAssumption` alone: for every payload and
every size of words, blocks and memory, any number of tries, and whatever the line
lost, changed or delayed within the `Faults` it is given:

- `LoaderInvHolds`: the inductive invariant `LoaderInv`;
- `PassMeansVerifiedHolds` (`PassMeansVerified`): a pass is about a board that has
  jumped to an image it received in full and found to add up;
- `HostKeepsToTries` (`HostTypeOK`): the host stays within its blocks and its tries
  of headers, sums and blocks, also where it goes on without an answer;
- `AcksAreAcceptedHolds` (`AcksAreAccepted`): as long as nothing was changed, the host
  counts no block that the board has not accepted, and has not sent the image to
  its end before all of it was, however often sums and blocks were sent again.

What the bytes on the line are is of no account to the invariant, which is why it
holds for every payload. `BoardChecks` says what the board has seen to by the stage
it is in; `SummaryMeansJump`, that the summary the host waits for is on the line or
seen only when the board has jumped, which no fault can imitate: a changed beacon
frame fails its check byte and is lost, a changed answer is the other answer.
`EachAckIsOfABlock` counts: the acceptances on the line, those in the host's queue and those it has
acted upon are together no more than the blocks accepted; the line may lose one
and makes none (`CountOfRemaining`, `CountOfConcat`), the host takes one from the
front of the line to its queue (`CountOfAppend`) and from there to its count
(`CountOfTail`). `HostInOrder` ties the count to the place in the image. The proof
has a lemma per action of board and host that sums up what it does to these
(`BoardSum`, `HostSum`), and two that take the invariant across the sums
(`BoardKeeps`, `HostKeeps`).

Model-checked only:

- liveness (`EveryInstructionLeaves`, `WalkEnds`, `EveryWaitEnds`,
  `EveryAccessAnswers`, `CleanLoadPasses`, `HostFinishes`, `CleanAuditPasses`) and
  everything that speaks of `ENABLED`: out of the prover's reach;
- of the loader, the halves of `PassMeansIntact` and `BlocksInStep` that depend on
  the payload, and `Outstanding`: the first two are not true of every payload (§3),
  and for a payload given they rest on sums over byte strings, an induction over
  data that the provers do not do. The rest of `LoaderTypeOK`, the bytes on the line
  and in memory, needs powers of `Base`, which the provers do not know;
- the properties of the beacon: `BeaconSessions` decodes by recursion over a byte
  string.

`FreelistUse` asks for a register at a time; that the core does is
`OneReturnPerCycle`, proved of `Rename`.

## 5. What is not modelled

- Values: register contents, ALU, multiplication and division results. The
  models tell apart who may read what and when.
- The source reference counts (`phys_src_refcnt`) of the simulation build, an
  additional dispatch guard; leaving it out allows more dispatches, so what
  holds here holds with it.
- Commit port 1 (never driven, `rob.v` retires one per cycle), a second thread
  (all thread ids are 0), epochs (constant 0 past dispatch).
- Memory, caches, front end, CSR unit and devices: planned below.
- The decoder and immediate generator, legacy blocks.
- In the hardware behind the load/store shell, known hazards that wait for their
  modules: the arbiter held by an answer that does not come, DMA that starves the
  core (`l2_arbiter.v`), a victim written back while it is snooped
  (`l1_dcache_m1.v`), a commit against an allocation and a trap against a commit
  (`store_buffer.v`), the resume address of an interrupt
  (`sifang_core.v:2607`), push, pop and flush in one cycle (`fetch_buffer.v`),
  claim against completion (`plic.v`).
- In the loader: the boot path that reports CAL_FAIL, in which no block is
  exchanged; the trace, counter and readback beacons, UART overrun and
  framing errors, drain timeouts, addresses and caches behind the readback.
- Of the beacon readers, the step-2, bridge and transport audits, which have
  protocols of their own; `BenchFlow` knows what they report.
- Of the flow, the reports other than the result, the log parsers of the
  simulations, resuming inside Vivado.
- The other scripts: `run_verilator_mainline.py` and
  `analyze_verilator_stall.py` start a simulator and read its log;
  `run_board_feedback.py`, `run_fpga_mainline_validation.py` and
  `run_fpga_autodebug.py` call other programs one after the other;
  `build_benchmark_image.py`, `generate_coe.py`, `build_rom_image.py` and
  `merge_hex_for_mem_subsys.py` convert files. They keep no state that a second
  actor or a second run could find changed.

## 6. Plan

Done: reorder buffer and retirement, free list, rename, scheduling, pipe 1,
the loader, the beacon, the benchmark flow, and the proofs about retirement, the
free list, the map, what is free, scheduling, pipe 1, the benchmark flow and the
loader. Next, in this order:

1. `StoreBuffer`: allocation before, with or after commit, flush, forwarding to
   loads, drain. Abstract specification: memory as the retired stores leave it.
   Property: a load sees the youngest older store or memory.
2. `LoadStore` (`lsu_shell.v` with `StoreBuffer` and an abstract memory port):
   late answers after a flush, the watchdog, drains against requests, atomics.
   It replaces the abstract shell in `Pipe1`.
3. `TrapEntry` (`csr_unit.v`, `sifang_core.v:2570-2640`): privilege stack,
   interrupt enables, and the resume address against what has retired.
4. `DataCache` (`l1_dcache_m1.v`) with `mem_subsys.v`'s routing, refining a
   memory; `L2` (`l2_arbiter.v`, `l2_cache.v`, `ddr3_mem_port.v`): answers go to
   the master that asked.
5. `Fetch` (`stage_if.v`, `fetch_buffer.v`, `icache.v`): instructions in order
   across redirects; `Plic`, UART receive queue, `RoCC` DMA, translation.
6. `Divide` and `Multiply` as functions against their definition, over small
   widths.

Runs that are about one module are merged when it pays, as `retire` and
`rename` were. Theorems worth proving next: `Outstanding` of
`Loader` for boards that never reject a block, and the second half of
`BlocksInStep` for payloads in which no block adds up to zero: with those
hypotheses both should follow from counts of the chunks and answers under way.
