------------------------------ MODULE MCBeacon ------------------------------
(***************************************************************************)
(* Shortened boot plans, with the codes of the firmware.  The early audit  *)
(* without its training and header bytes, the loader without its blocks,   *)
(* the selftest with three events of its fourteen.                         *)
(***************************************************************************)
EXTENDS Beacon

Event(type, arg) == [type |-> type, arg |-> arg, needs |-> ""]
After(needs, type, arg) == [type |-> type, arg |-> arg, needs |-> needs]
Text(arg) == [type |-> None, arg |-> arg, needs |-> ""]

EarlyPass ==
    <<Event(READY, 1), After("header", MAGIC_OK, 0), Event(LOAD_START, 0),
      After("payload", None, BLOCK_ACK_BYTE), Event(BLOCK_ACK, 0), Event(SUMMARY, \h0F)>>
EarlyFail == <<Event(READY, 1), After("header", BAD_MAGIC, 0), Event(SUMMARY, \h81)>>
EarlyDead == <<Event(\hE0, 0), Event(SUMMARY, \h80)>>

LoaderPass ==
    <<Event(BOOT, 0), Event(READY, 0), Text(\h06), Event(JUMP, 0), Event(SUMMARY, \h1F)>>
LoaderFail == <<Event(BOOT, 0), Event(READY, 0), Event(\hE2, 0), Event(SUMMARY, \h83)>>

MCExpected == <<<<READY, \hA1>>, <<IDLE_OK, \hB2>>, <<SUMMARY, \h0F>>>>
Selftest == [i \in DOMAIN MCExpected |-> Event(MCExpected[i][1], MCExpected[i][2])]

MCPlans == [loader |-> {LoaderPass, LoaderFail}, early |-> {EarlyPass, EarlyFail, EarlyDead},
            selftest |-> {Selftest}]
MCPassing == {EarlyPass, LoaderPass, Selftest}
MCNoise == {0, SOF, MAGIC_OK}
MCTroubles == {[resets |-> 0, faults |-> 1], [resets |-> 1, faults |-> 0]}

\* The whole early audit, as the firmware plays it, on a line without trouble.
WholeAudit ==
    <<Event(READY, 1), Event(IDLE_OK, 0), Event(TRAIN_START, 0),
      After("header", TRAIN_DONE, 20), Event(FLUSH_DONE, 0), Event(HEADER_ENTER, 0),
      Event(HDR_B0, \h42), Event(HDR_B1, \h4D), Event(HDR_B2, \h4B), Event(HDR_B3, \h31),
      Event(MAGIC_OK, 0), Event(LOAD_START, 0),
      After("payload", None, BLOCK_ACK_BYTE), Event(BLOCK_ACK, 0), Event(SUMMARY, \h0F)>>
WholePlans == [early |-> {WholeAudit}]
NoTroubles == {[resets |-> 0, faults |-> 0]}
=============================================================================
