------------------------------- MODULE MCFlow -------------------------------
(***************************************************************************)
(* Command lines for the benchmark flow: every mode, every back end, the   *)
(* combinations that main refuses, and the options that change the plan.   *)
(***************************************************************************)
EXTENDS BenchFlow

Line(flags, impl, skip, runs, long, sweep) ==
    [flags |-> flags, impl |-> impl, skip |-> skip, runs |-> runs, long |-> long,
     sweep |-> sweep]

MCRequests ==
    {Line({f}, "aggressive", FALSE, 3, FALSE, FALSE) : f \in Flags}
    \cup {Line({}, i, FALSE, r, FALSE, FALSE) : i \in Impls, r \in {1, 3}}
    \cup {Line({f}, "board-only", FALSE, 3, FALSE, FALSE) : f \in Bridges \cup {"early"}}
    \cup {Line({"early_board"}, "aggressive", FALSE, 3, FALSE, TRUE),
          Line({}, "aggressive", FALSE, 3, TRUE, FALSE),
          Line({}, "aggressive", TRUE, 3, FALSE, FALSE),
          Line({"bridge"}, "incremental", FALSE, 3, FALSE, FALSE),
          Line({"bridge", "early"}, "aggressive", FALSE, 3, FALSE, FALSE)}
=============================================================================
