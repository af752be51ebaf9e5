------------------------------ MODULE MCRename ------------------------------
EXTENDS Rename

Instr(rd, branch, xret, exc) ==
  [rd |-> rd, branch |-> branch, xret |-> xret, exc |-> exc]

Writes == {Instr(a, FALSE, FALSE, FALSE) : a \in 1 .. NumArch - 1}
Branches == {Instr(0, TRUE, FALSE, FALSE)}
Faults == {Instr(1, FALSE, FALSE, TRUE)}

Xrets == {Instr(0, FALSE, TRUE, FALSE)}

FaultProgram == Writes \cup Branches \cup Faults
TrapProgram == Writes \cup Branches \cup Xrets
AllPhys == 0 .. NumArch + NumFree - 1

\* A program in which a branch commits in the cycle of a younger one's restore,
\* with as many branches behind it as there are slots.
Write == Instr(1, FALSE, FALSE, FALSE)
Branch == Instr(0, TRUE, FALSE, FALSE)
SlotsProgram ==
  <<Write, Branch, Branch, Write, Branch, Write, Branch, Branch, Branch>>
SlotsInstrs == {Write, Branch}

SlotsNext ==
  /\ RenameNext
  /\ \A n \in DOMAIN log' : log'[n].ins = SlotsProgram[n]
SlotsSpec == RenameInit /\ [][SlotsNext]_renameVars
=============================================================================
