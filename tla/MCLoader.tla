------------------------------ MODULE MCLoader ------------------------------
(* A small image and a line with few faults, for TLC. *)
EXTENDS Loader

MCPayload == <<2, 0, 1, 3, 2, 1, 2>>
MCMagic == <<3, 3>>
\* One fault, or a late answer besides one that is lost or late.
MCFaults == {f \in [lost : 0..1, corrupt : 0..1, late : 0..2] :
                 f.lost + f.corrupt + f.late <= IF f.corrupt = 1 THEN 1 ELSE 2}
=============================================================================
