------------------------------ MODULE MCRetire ------------------------------
EXTENDS Retire

Instr(rd, branch, xret, exc) ==
  [rd |-> rd, branch |-> branch, xret |-> xret, exc |-> exc]

MCInstrs == {Instr(1, FALSE, FALSE, FALSE), Instr(1, FALSE, FALSE, TRUE),
             Instr(0, TRUE, FALSE, FALSE), Instr(0, FALSE, TRUE, FALSE)}
MCPhysRegs == {0}
=============================================================================
