------------------------------- MODULE Beacon -------------------------------
(***************************************************************************)
(* A capture of the debug beacon: a board that plays the events of its     *)
(* firmware onto the UART, a line that may lose or garble a byte, a board  *)
(* reset (JTAG programming happens with the port already open), and the    *)
(* script, which reads whatever chunk is there and analyses all it has     *)
(* after every read.  The early audit's script also answers the board: the *)
(* header when it is READY, the payload when it has taken the header.      *)
(*                                                                         *)
(* A boot plan is what one boot of the firmware sends, item by item: an    *)
(* event or a byte of text, and what the board must have received first.   *)
(***************************************************************************)
EXTENDS BeaconSessions

CONSTANTS
    Plans,         \* per reader, the boot plans of its firmware
    Passing,       \* the plans that a successful boot plays
    SummaryCopies, \* frames of a SUMMARY, 12 in debug_beacon_tx
    Noise,         \* what a garbled byte may turn into
    MaxUnread,     \* bound: bytes on the line that the script has not read
    Troubles       \* bound: resets and faults of one capture, a set of
                   \* [resets, faults]

Readers == {"loader", "early", "selftest"}
Item == [type : Byte \cup {None}, arg : Byte, needs : {"", "header", "payload"}]

ASSUME PlansAssumption ==
    /\ DOMAIN Plans \subseteq Readers
    /\ \A m \in DOMAIN Plans : Plans[m] \subseteq Seq(Item)
    /\ SummaryCopies \in 1 .. 12
ASSUME LineAssumption ==
    /\ Noise \subseteq Byte /\ MaxUnread \in Nat \ {0}
    /\ \A t \in Troubles : t.resets \in Nat /\ t.faults \in Nat

VARIABLES
    reader,    \* which of the three readers captures
    board,     \* the running boot and how far it is
    past,      \* the earlier boots, as they were when they were cut off
    line,      \* bytes sent and not yet read
    trouble,   \* resets and faults so far
    host       \* the script

vars == <<reader, board, past, line, trouble, host>>

\* A boot that begins when so many bytes are out.
Boot(plan, from) ==
    [plan |-> plan, at |-> 1, byte |-> 1, header |-> FALSE, payload |-> FALSE,
     from |-> from]

\* Where each reader's loop starts.
FirstPhase == IF reader = "early" THEN "wait" ELSE "listen"

Init ==
    /\ reader \in DOMAIN Plans
    /\ board \in {Boot(plan, 0) : plan \in Plans[reader]}
    /\ past = <<>>
    /\ line = <<>>
    /\ trouble = [resets |-> 0, faults |-> 0]
    /\ host = [raw |-> <<>>, pending |-> <<>>, text |-> <<>>, phase |-> FirstPhase]

(* -------------------------------- board --------------------------------- *)

\* Mutant: an event is sent once.
CopiesOnce(type) == IF type = SUMMARY THEN SummaryCopies ELSE 1

Copies(type) ==
    CASE type = SUMMARY -> SummaryCopies
      [] type \in {\hE0, BAD_MAGIC, TRAP} -> 3
      [] OTHER -> 2

\* The sequence number counts the events since the reset, in eight bits.
Number(plan, at) ==
    Cardinality({i \in 1 .. at - 1 : plan[i].type # None}) % 256

ItemBytes(plan, at) ==
    IF plan[at].type = None THEN <<plan[at].arg>>
    ELSE FlattenSeq([c \in 1 .. Copies(plan[at].type) |->
                       Frame(Number(plan, at), plan[at].type, plan[at].arg)])

Has(b, needs) ==
    CASE needs = "header" -> b.header
      [] needs = "payload" -> b.payload
      [] OTHER -> TRUE

\* One more reset or fault.
Strike(kind) ==
    /\ trouble' = [trouble EXCEPT ![kind] = @ + 1]
    /\ \E t \in Troubles : trouble'.resets <= t.resets /\ trouble'.faults <= t.faults

CanSend == board.at <= Len(board.plan) /\ Has(board, board.plan[board.at].needs)

Sent == ItemBytes(board.plan, board.at)[board.byte]
Advanced ==
    IF board.byte = Len(ItemBytes(board.plan, board.at))
    THEN [board EXCEPT !.at = @ + 1, !.byte = 1]
    ELSE [board EXCEPT !.byte = @ + 1]

SendByte ==
    /\ CanSend /\ Len(line) < MaxUnread
    /\ board' = Advanced
    /\ line' = Append(line, Sent)
    /\ UNCHANGED <<reader, past, trouble, host>>

LoseByte ==
    /\ CanSend /\ Strike("faults")
    /\ board' = Advanced
    /\ UNCHANGED <<reader, past, line, host>>

GarbleByte ==
    /\ CanSend /\ Len(line) < MaxUnread /\ Strike("faults")
    /\ board' = Advanced
    /\ \E b \in Noise \ {Sent} : line' = Append(line, b)
    /\ UNCHANGED <<reader, past, host>>

Reset ==
    /\ host.phase # "done" /\ Strike("resets")
    /\ past' = Append(past, board)
    /\ board' \in {Boot(plan, Len(host.raw) + Len(line)) : plan \in Plans[reader]}
    /\ UNCHANGED <<reader, line, host>>

(* -------------------------------- script -------------------------------- *)

\* The script's clocks are longer than any pause of a board that is at work:
\* they run out only when nothing is on its way.
Quiet == line = <<>> /\ ~CanSend

Events(raw) == Decode(raw).events
Analysis(raw) == EarlyAnalysis(Events(raw))
Facts(raw) == Analysis(raw).facts

\* What every read does: keep the bytes, feed the filter.
Ingested ==
    LET fed == Feed(host.pending \o line, <<>>)
    IN  [host EXCEPT !.raw = @ \o line, !.pending = fed.pending,
                     !.text = @ \o fed.text]

BLOCK_ACK_BYTE == \h17

\* Where the early audit goes on: a READY of number 0 opens the exchange.
Fresh(a) == a.found /\ a.seq = 0 /\ READY \in a.facts.seen
Ends(facts) == facts.bad \/ SUMMARY \in facts.seen
Opened(facts) ==
    IF facts.bad THEN "done" ELSE IF LOAD_START \in facts.seen THEN "pay" ELSE "sent"

EarlyPhase(phase, a) ==
    CASE phase = "wait" /\ Fresh(a) -> "drain"
      [] phase = "sent" -> Opened(a.facts)
      [] phase = "paid" /\ Ends(a.facts) -> "done"
      [] OTHER -> phase

SelftestDone(d) == SelftestAnalysis(d.events, d.bad).summary

AfterRead(raw) ==
    CASE reader = "early" -> EarlyPhase(host.phase, Analysis(raw))
      [] reader = "selftest" -> IF SelftestDone(Decode(raw)) THEN "done" ELSE host.phase
      [] OTHER -> host.phase

HostRead ==
    /\ line # <<>> /\ host.phase # "done"
    /\ host' = [Ingested EXCEPT !.phase = AfterRead(host.raw \o line)]
    /\ line' = <<>>
    /\ UNCHANGED <<reader, board, past, trouble>>

\* The drain ends when the line has been quiet for a while; then the header
\* goes out, to the boot that is there.
SendHeader ==
    /\ host.phase = "drain" /\ line = <<>>
    /\ board' = [board EXCEPT !.header = TRUE]
    /\ host' = [host EXCEPT !.phase = Opened(Facts(host.raw))]
    /\ UNCHANGED <<reader, past, line, trouble>>

\* LOAD_START did not come within the grace time: the payload goes out blind.
GraceOver ==
    /\ host.phase = "sent" /\ Quiet
    /\ host' = [host EXCEPT !.phase = "pay"]
    /\ UNCHANGED <<reader, board, past, line, trouble>>

\* The exchange of the payload, which module Loader looks into.
SendPayload ==
    /\ host.phase = "pay"
    /\ board' = [board EXCEPT !.payload = TRUE]
    /\ host' = [host EXCEPT !.phase = "paying"]
    /\ UNCHANGED <<reader, past, line, trouble>>

Acked == BLOCK_ACK_BYTE \in Range(host.text)

PayloadSent ==
    /\ host.phase = "paying" /\ Acked
    /\ host' = [host EXCEPT !.phase = IF Facts(host.raw).bad THEN "done" ELSE "paid"]
    /\ UNCHANGED <<reader, board, past, line, trouble>>

PayloadTimeout ==
    /\ host.phase = "paying" /\ ~Acked /\ Quiet
    /\ host' = [host EXCEPT !.phase = "done"]
    /\ UNCHANGED <<reader, board, past, line, trouble>>

Deadline ==
    /\ host.phase \in {"wait", "paid", "listen"} /\ Quiet
    /\ host' = [host EXCEPT !.phase = "done"]
    /\ UNCHANGED <<reader, board, past, line, trouble>>

\* The capture is over and written down; whatever else stops is a deadlock.
Finished == host.phase = "done" /\ UNCHANGED vars

Next ==
    \/ SendByte \/ LoseByte \/ GarbleByte \/ Reset
    \/ HostRead \/ SendHeader \/ GraceOver \/ SendPayload
    \/ PayloadSent \/ PayloadTimeout \/ Deadline
    \/ Finished

Spec == Init /\ [][Next]_vars

(* ------------------------------ properties ------------------------------ *)

\* However the bytes were cut into chunks and whatever was lost of them, the
\* filter has let through the text that the decoder finds in the whole, and holds
\* back less than a frame.
FilterIsDecode == host.text = Decode(host.raw).text /\ Len(host.pending) < 5

PlanEvents(b) == SelectSeq(SubSeq(b.plan, 1, b.at - 1), LAMBDA item : item.type # None)

\* A frame whose check byte is the start byte: behind a stray start byte it can
\* be taken for another one, and the READY of the early audit is such a frame.
Ambiguous(plan) ==
    \E i \in DOMAIN plan :
        plan[i].type # None /\ Chk(Number(plan, i), plan[i].type, plan[i].arg) = SOF

Said(s) == [i \in DOMAIN s |-> What(s[i])]

\* Every event is sent twice or more so that one bad byte costs none: what is
\* left after the repetitions are dropped is what the boot sent, in order, and
\* nothing that it did not send; a last event may be under way.  (Not so for a
\* plan with an ambiguous frame.)
OneFaultLosesNothing ==
    line = <<>> /\ past = <<>> /\ ~Ambiguous(board.plan) =>
        LET heard == Said(Deduped(Events(host.raw)))
            sent(b) == Said(PlanEvents(b))
        IN  host.phase = "done" \/ heard = sent(board)
            \/ (board.at <= Len(board.plan) /\ heard = sent([board EXCEPT !.at = @ + 1]))

\* The boot has sent its SUMMARY at least once, and was to succeed.
Complete(b) ==
    b.plan \in Passing /\ (b.at > Len(b.plan) \/ (b.at = Len(b.plan) /\ b.byte > 5))

\* A READY of the boot has been decoded.
Announced(b) ==
    \E i \in Places(Events(host.raw), {READY}) : Events(host.raw)[i].off >= b.from

\* A loader or an early audit that passes does so on one boot, the last that
\* announced itself: the facts are never put together from two.
PassIsOneBoot ==
    (reader = "early" /\ EarlyPassed(Analysis(host.raw)))
      \/ (reader = "loader" /\ LoaderPassed(LoaderAnalysis(Events(host.raw))))
    => \/ Complete(board)
       \/ past # <<>> /\ Complete(past[Len(past)]) /\ ~Announced(board)

\* A selftest that passes has heard the whole sequence from the last boot, and
\* of an earlier boot no more than its READY, which looks like the same one.
SelftestPassIsWhole ==
    LET d == Decode(host.raw)
    IN  reader = "selftest" /\ SelftestAnalysis(d.events, d.bad).pass =>
            \/ Complete(board) /\ \A i \in DOMAIN past : past[i].at <= 2
            \/ past # <<>> /\ Complete(past[Len(past)])

Covers(a) ==
    a.found => /\ a.chosen # <<>>
               /\ {MAGIC_OK, LOAD_START, SUMMARY} \cap a.facts.seen
                      \subseteq Kinds(a.chosen[1].events)

\* The session that the report describes has in it what the verdict rests on,
\* though the two are found in different ways and two boots whose READYs look
\* alike are one session to the one and not to the other.
ReportIsOfTheVerdict == reader = "early" => Covers(Analysis(host.raw))

\* An audit of a board that works, over a line that works, never ends without
\* passing; and it ends, for every step leads on and only the end is no deadlock.
CleanAuditPasses ==
    reader = "early" /\ board.plan \in Passing /\ host.phase = "done"
        /\ trouble = [resets |-> 0, faults |-> 0]
    => EarlyPassed(Analysis(host.raw))

Misplaced(d, i) ==
    LET earlier == {d[j].type : j \in 1 .. i - 1}
    IN  d[i].type \in earlier \/ Before(d[i].type) \cap earlier = {}

ErrorIsTrue(chosen) ==
    chosen # <<>> /\ chosen[1].error # None =>
        Misplaced(chosen[1].events, chosen[1].error)

\* When the session's order is called wrong at an event, the event was indeed
\* there before, or none of those that must precede it was.
OrderErrorIsTrue == reader = "early" => ErrorIsTrue(Analysis(host.raw).chosen)
=============================================================================
