------------------------------ MODULE MCPipe1 ------------------------------
EXTENDS Pipe1

\* Two of one unit beside each of the others, and every pair of neighbours.
MixedPrograms ==
  {<<"MUL", "DIV", "MEM", "MEM">>, <<"MEM", "MUL", "MEM", "DIV">>,
   <<"DIV", "DIV", "MUL", "MUL">>}
=============================================================================
