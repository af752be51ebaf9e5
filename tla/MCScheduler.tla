---------------------------- MODULE MCScheduler ----------------------------
EXTENDS Scheduler

Alu(rd, rs) == [kind |-> "alu", rd |-> rd, srcs |-> {rs}]
Load(rd) == [kind |-> "load", rd |-> rd, srcs |-> {}]
Store(rs) == [kind |-> "store", rd |-> 0, srcs |-> {rs}]
Branch == [kind |-> "branch", rd |-> 0, srcs |-> {}]

AnyOf(S) == [o \in 0 .. MaxOrder - 1 |-> S]

AluProgram == AnyOf({Alu(1, 2), Alu(2, 1), Branch})
MixedProgram == AnyOf({Alu(1, 2), Alu(2, 1), Load(1)})
MemProgram == AnyOf({Load(1), Store(1), Branch})
AluKinds == {"alu", "branch"}
MixedKinds == {"alu", "load"}
MemKinds == {"load", "store"}
=============================================================================
