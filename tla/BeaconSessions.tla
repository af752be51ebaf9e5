--------------------------- MODULE BeaconSessions ---------------------------
(***************************************************************************)
(* How run_fpga_benchmark_ddr3.py reads the debug beacon.  The board sends *)
(* five-byte frames between the bytes of its UART text, each event several *)
(* times under one sequence number; the script takes the frames out of the *)
(* bytes, cuts the events into sessions, one per boot as far as it can     *)
(* tell, drops the repetitions and reduces what is left to a verdict.      *)
(* There are three readers: of the DDR3 loader, of the early audit and of  *)
(* the beacon selftest.                                                    *)
(***************************************************************************)
EXTENDS Naturals, Sequences, SequencesExt, FiniteSetsExt, Bitwise

CONSTANT Expected   \* the selftest's sequence of <<type, argument>>

(* -------------------------------- frames -------------------------------- *)

Byte == 0 .. 255
SOF == \hA5

\* The exclusive or of two bytes, by their halves.
HalfXor == [x, y \in 0 .. 15 |-> x ^^ y]
XorOf(x, y) == 16 * HalfXor[x \div 16, y \div 16] + HalfXor[x % 16, y % 16]
Chk(seq, type, arg) == XorOf(XorOf(SOF, seq), XorOf(type, arg))

\* What debug_beacon_tx sends for one event.
Frame(seq, type, arg) == <<SOF, seq, type, arg, Chk(seq, type, arg)>>

FrameAt(raw, i) == raw[i + 4] = Chk(raw[i + 1], raw[i + 2], raw[i + 3])
EventAt(raw, i) ==
    [off |-> i - 1, seq |-> raw[i + 1], type |-> raw[i + 2], arg |-> raw[i + 3]]

\* The decoder: a start byte that begins no frame is text like any other, and
\* the search goes on behind it; a frame cut off by the end is left alone.
RECURSIVE DecodeFrom(_, _, _)
DecodeFrom(raw, i, found) ==
    IF i > Len(raw) \/ (raw[i] = SOF /\ i + 4 > Len(raw)) THEN found
    ELSE IF raw[i] = SOF /\ FrameAt(raw, i)
    THEN DecodeFrom(raw, i + 5, [found EXCEPT !.events = Append(@, EventAt(raw, i))])
    ELSE DecodeFrom(raw, i + 1,
                    [found EXCEPT !.text = Append(@, raw[i]),
                                  !.bad = IF raw[i] = SOF THEN @ + 1 ELSE @])

Decode(raw) == DecodeFrom(raw, 1, [events |-> <<>>, text |-> <<>>, bad |-> 0])

\* Mutant: a false start throws five bytes away.
RECURSIVE FeedDrops(_, _)
FeedDrops(pending, text) ==
    IF pending = <<>> \/ (Head(pending) = SOF /\ Len(pending) < 5)
    THEN [pending |-> pending, text |-> text]
    ELSE IF Head(pending) = SOF
    THEN FeedDrops(SubSeq(pending, 6, Len(pending)), text)
    ELSE FeedDrops(Tail(pending), Append(text, Head(pending)))

\* The same on a stream: what cannot be decided yet waits for the next chunk.
RECURSIVE Feed(_, _)
Feed(pending, text) ==
    IF pending = <<>> \/ (Head(pending) = SOF /\ Len(pending) < 5)
    THEN [pending |-> pending, text |-> text]
    ELSE IF Head(pending) = SOF /\ FrameAt(pending, 1)
    THEN Feed(SubSeq(pending, 6, Len(pending)), text)
    ELSE Feed(Tail(pending), Append(text, Head(pending)))

(* -------------------------------- events -------------------------------- *)

READY == \h01
LOAD_START == \h02
BOOT == \h03
BLOCK_ACK == \h11
BLOCK_NACK == \h12
DATA_DONE == \h13
READ_OK == \h21
LOAD_OK == \h22
JUMP == \h23
HDR_B0 == \h31
HDR_B1 == \h32
HDR_B2 == \h33
HDR_B3 == \h34
MAGIC_OK == \h35
IDLE_OK == \h36
TRAIN_START == \h37
TRAIN_DONE == \h38
FLUSH_DONE == \h39
HEADER_ENTER == \h3A
BAD_MAGIC == \hE1
RX_OVERRUN == \hE5
TRAIN_TIMEOUT == \hE9
FLUSH_TIMEOUT == \hEA
TRAP == \hEF
SUMMARY == \hF0

HeaderBytes == <<HDR_B0, HDR_B1, HDR_B2, HDR_B3>>

\* What the loader's reader knows and does not call bad.
LoaderGood ==
    {READY, BOOT, LOAD_START, BLOCK_ACK, BLOCK_NACK, DATA_DONE, \h14, \h16, \h18,
     \h19, \h1A, \h1B, \h1C, READ_OK, LOAD_OK, JUMP, SUMMARY}

\* What the early audit's reader calls bad; it passes over what it does not know.
EarlyBad ==
    {BAD_MAGIC, TRAIN_TIMEOUT, FLUSH_TIMEOUT, TRAP, BLOCK_NACK, \hE0, \hE2, \hE3,
     \hE4, RX_OVERRUN, \hE6, \hE7, \hE8}

None == 256

Kinds(s) == {s[i].type : i \in DOMAIN s}
Places(s, kinds) == {i \in DOMAIN s : s[i].type \in kinds}
LastArg(s, kind) ==
    LET at == Places(s, {kind}) IN IF at = {} THEN None ELSE s[Max(at)].arg
LastKind(s, kinds) ==
    LET at == Places(s, kinds) IN IF at = {} THEN None ELSE s[Max(at)].type

\* The first event of each sequence number.
Deduped(s) ==
    FoldLeft(LAMBDA kept, e :
                IF \E i \in DOMAIN kept : kept[i].seq = e.seq THEN kept
                ELSE Append(kept, e),
             <<>>, s)

\* Mutant: the session starts at the first READY.
SplitFirst(s, needZero) ==
    LET ready == Places(s, {READY})
        zero == {i \in ready : s[i].seq = 0}
        starts == IF zero # {} THEN zero ELSE IF needZero THEN {} ELSE ready
    IN  IF starts = {} THEN [found |-> FALSE, events |-> <<>>, off |-> None, seq |-> None]
        ELSE LET i == Min(starts)
             IN  [found |-> TRUE, events |-> SubSeq(s, i, Len(s)),
                  off |-> s[i].off, seq |-> s[i].seq]

\* The events from the last READY on that has sequence number 0; where the
\* reader can do without, from the last READY.
Split(s, needZero) ==
    LET ready == Places(s, {READY})
        zero == {i \in ready : s[i].seq = 0}
        starts == IF zero # {} THEN zero ELSE IF needZero THEN {} ELSE ready
    IN  IF starts = {} THEN [found |-> FALSE, events |-> <<>>, off |-> None, seq |-> None]
        ELSE LET i == Max(starts)
             IN  [found |-> TRUE, events |-> SubSeq(s, i, Len(s)),
                  off |-> s[i].off, seq |-> s[i].seq]

(* ----------------------------- loader reader ---------------------------- *)

LoaderSummaryOk(mask) == mask # None /\ mask % 32 = 31 /\ mask < 128

ReduceLoader(s) ==
    LET d == Deduped(s)
        acks == {d[i].arg : i \in Places(d, {BLOCK_ACK})}
    IN  [seen |-> Kinds(d) \cap LoaderGood,
         bad |-> Kinds(d) \ LoaderGood # {},
         badCode |-> LastKind(d, Byte \ LoaderGood),
         acks |-> Cardinality(Places(d, {BLOCK_ACK})),
         nacks |-> Cardinality(Places(d, {BLOCK_NACK})),
         maxAck |-> IF acks = {} THEN None ELSE Max(acks),
         summaryOk |-> LoaderSummaryOk(LastArg(d, SUMMARY)),
         frames |-> Len(d),
         dropped |-> Len(s) - Len(d)]

\* Without any READY all the events are the session.
LoaderAnalysis(s) ==
    LET session == Split(s, FALSE)
    IN  ReduceLoader(IF session.found THEN session.events ELSE s)

LoaderPassed(r) == SUMMARY \in r.seen /\ r.summaryOk /\ ~r.bad

(* -------------------------- early-audit reader -------------------------- *)

\* Mutant: the loader's bits are asked of the early audit.
EarlySummaryOkLoader(mask) == LoaderSummaryOk(mask)

EarlySummaryOk(mask) == mask # None /\ mask % 16 = 15 /\ mask < 128

FirstAck(d) == \E i \in Places(d, {BLOCK_ACK}) : d[i].arg = 0

ReduceEarly(s) ==
    LET d == Deduped(s)
    IN  [seen |-> Kinds(d) \ (EarlyBad \cup {BLOCK_ACK}),
         header |-> [b \in 1 .. 4 |-> LastArg(d, HeaderBytes[b])],
         firstAck |-> FirstAck(d),
         bad |-> Kinds(d) \cap EarlyBad # {},
         badCode |-> LastKind(d, EarlyBad),
         badMagic |-> BAD_MAGIC \in Kinds(d),
         summaryOk |-> EarlySummaryOk(LastArg(d, SUMMARY)),
         frames |-> Len(d),
         dropped |-> Len(s) - Len(d)]

Singletons ==
    {READY, IDLE_OK, TRAIN_START, TRAIN_DONE, TRAIN_TIMEOUT, FLUSH_DONE,
     FLUSH_TIMEOUT, HEADER_ENTER, MAGIC_OK, LOAD_START, SUMMARY}

\* What must have been seen before an event; only singletons are remembered.
Before(kind) ==
    CASE kind \in {TRAIN_DONE, TRAIN_TIMEOUT} -> {TRAIN_START}
      [] kind \in {FLUSH_DONE, FLUSH_TIMEOUT} -> {TRAIN_DONE, TRAIN_TIMEOUT}
      [] kind = HEADER_ENTER -> {FLUSH_DONE, FLUSH_TIMEOUT}
      [] kind = HDR_B0 -> {HEADER_ENTER}
      [] kind = HDR_B1 -> {HDR_B0}
      [] kind = HDR_B2 -> {HDR_B1}
      [] kind = HDR_B3 -> {HDR_B2}
      [] kind = MAGIC_OK -> {HDR_B3}
      [] kind = LOAD_START -> {MAGIC_OK}
      [] kind = BLOCK_ACK -> {LOAD_START}
      [] OTHER -> {}

SeenBefore(d, i) == {d[j].type : j \in 1 .. i - 1} \cap Singletons

Twice(d, i) == d[i].type \in SeenBefore(d, i)
TooEarly(d, i) ==
    Before(d[i].type) # {} /\ Before(d[i].type) \cap SeenBefore(d, i) = {}

\* The event that is out of order, or None.
OrderError(d) ==
    LET wrong == {i \in DOMAIN d : Twice(d, i) \/ TooEarly(d, i)}
    IN  IF wrong = {} THEN None ELSE Min(wrong)

EarlyDone(d) ==
    /\ {MAGIC_OK, LOAD_START} \subseteq Kinds(d)
    /\ FirstAck(d)
    /\ EarlySummaryOk(LastArg(d, SUMMARY))

FirstRung(ladder) == ladder[Min({i \in DOMAIN ladder : ladder[i][1]})][2]

\* The first rung that applies names the session.
Classify(d) ==
    LET has(kind) == kind \in Kinds(d)
        byte(b) == LastArg(d, HeaderBytes[b])
        headerBytes == Places(d, Range(HeaderBytes)) # {}
        flushed == has(FLUSH_DONE) \/ has(FLUSH_TIMEOUT)
        trained == has(TRAIN_DONE) \/ has(TRAIN_TIMEOUT)
        ladder == <<
            <<d = <<>>, "empty_session">>,
            <<OrderError(d) # None, "beacon_transport_corruption">>,
            <<EarlyDone(d), "pass">>,
            <<has(TRAIN_TIMEOUT), "train_timeout">>,
            <<has(FLUSH_TIMEOUT), "flush_timeout">>,
            <<has(RX_OVERRUN) /\ ~has(MAGIC_OK), "rx_overrun_before_magic_complete">>,
            <<byte(1) \in {0, \h4D, \h4B} \/ byte(2) = \h31,
              "leading_zero_or_shifted_magic">>,
            <<LastKind(d, EarlyBad) = TRAP, "trap_fail">>,
            <<has(BAD_MAGIC), "magic_byte_fail">>,
            <<has(HEADER_ENTER) /\ ~headerBytes, "stuck_before_header_byte0">>,
            <<headerBytes /\ ~has(MAGIC_OK), "magic_byte_fail">>,
            <<has(FLUSH_DONE) /\ ~has(HEADER_ENTER), "stuck_in_flush">>,
            <<has(TRAIN_DONE) /\ ~flushed, "stuck_in_flush">>,
            <<has(TRAIN_START) /\ ~trained, "stuck_in_train">>,
            <<has(IDLE_OK) /\ ~has(TRAIN_START), "stuck_in_train">>,
            <<has(SUMMARY), "ready_then_summary_only">>,
            <<~has(IDLE_OK), "stuck_before_idle_ok">>,
            <<TRUE, "other">> >>
    IN  FirstRung(ladder)

SummaryOf(d) ==
    [events |-> d, off |-> d[1].off, seq |-> d[1].seq, readyArg |-> LastArg(d, READY),
     class |-> Classify(d), error |-> OrderError(d)]

Summarize(s) == SummaryOf(Deduped(s))

Bit(p) == IF p THEN 1 ELSE 0

\* How far a session came, the most telling part first.
Progress(session) ==
    LET d == session.events
        has(kinds) == Bit(Kinds(d) \cap kinds # {})
    IN  <<Bit(EarlyDone(d)), Bit(FirstAck(d)), has({LOAD_START}), has({MAGIC_OK}),
          Cardinality(Kinds(d) \cap Range(HeaderBytes)),
          has({HEADER_ENTER}), has({FLUSH_DONE, FLUSH_TIMEOUT}),
          has({TRAIN_DONE, TRAIN_TIMEOUT}), has({TRAIN_START}), has({IDLE_OK}),
          has({SUMMARY}), has(EarlyBad), Len(d), session.off>>

\* The lexicographic order of tuples.
Above(p, q) ==
    \E k \in DOMAIN p : p[k] > q[k] /\ \A j \in 1 .. k - 1 : p[j] = q[j]

Furthest(sessions, key(_)) ==
    CHOOSE a \in sessions : \A b \in sessions : ~Above(key(b), key(a))

\* A READY begins a session when its number or its argument is another one
\* than the last READY's.
EarlySessions(s) ==
    LET cut == FoldLeft(
            LAMBDA c, e :
                LET new == e.type = READY /\ c.open # <<>> /\ c.sig # <<e.seq, e.arg>>
                IN  [closed |-> IF new THEN Append(c.closed, Summarize(c.open)) ELSE c.closed,
                     open |-> IF new THEN <<e>> ELSE Append(c.open, e),
                     sig |-> IF e.type = READY THEN <<e.seq, e.arg>> ELSE c.sig],
            [closed |-> <<>>, open |-> <<>>, sig |-> <<None, None>>], s)
    IN  IF cut.open = <<>> THEN cut.closed ELSE Append(cut.closed, Summarize(cut.open))

\* Mutant: the first of the sessions.
ChooseEarlyFirst(sessions, start) ==
    IF sessions = <<>> THEN <<>> ELSE <<sessions[1]>>

\* The furthest of the sessions from the start on; of those with the READY's
\* number when there is none, which is the rule, since a session starts at
\* the first copy of its READY and Split at the last; or of all.
ChooseEarly(sessions, start) ==
    LET all == Range(sessions)
        after == IF start.found THEN {a \in all : a.off >= start.off} ELSE all
        same == {a \in all : start.found /\ a.seq = start.seq}
        candidates == IF after # {} THEN after ELSE IF same # {} THEN same ELSE all
    IN  IF candidates = {} THEN <<>> ELSE <<Furthest(candidates, Progress)>>

\* The facts are those of the session from the start on, the class that of the
\* chosen one.
EarlyReport(start, chosen) ==
    [facts |-> ReduceEarly(start.events), found |-> start.found, seq |-> start.seq,
     chosen |-> chosen,
     class |-> IF chosen # <<>> THEN chosen[1].class
               ELSE IF start.found THEN "other" ELSE "session_start_not_found"]

EarlyAnalysis(s) ==
    EarlyReport(Split(s, TRUE), ChooseEarly(EarlySessions(s), Split(s, TRUE)))

EarlyPassed(a) ==
    /\ a.found
    /\ {READY, MAGIC_OK, LOAD_START, SUMMARY} \subseteq a.facts.seen
    /\ a.facts.firstAck
    /\ a.facts.summaryOk
    /\ ~a.facts.bad

(* ---------------------------- selftest reader --------------------------- *)

What(e) == <<e.type, e.arg>>

\* Neighbours that say the same are one event.
Collapse(s) ==
    FoldLeft(LAMBDA kept, e :
                IF kept # <<>> /\ kept[Len(kept)].seq = e.seq
                               /\ What(kept[Len(kept)]) = What(e)
                THEN kept ELSE Append(kept, e),
             <<>>, s)

\* How many events from the first on are the expected ones.
Matched(d) ==
    Max({0} \cup {n \in DOMAIN d :
                     \A i \in 1 .. n : i <= Len(Expected) /\ What(d[i]) = Expected[i]})

\* The summary of the events d, matched as far as n; again tells whether a
\* number came back behind them.
SelftestSummary(d, n, again) ==
    LET clean == ~again /\ n = Len(d)
        pass == clean /\ n = Len(Expected)
    IN  [events |-> d, off |-> d[1].off, matched |-> n, pass |-> pass,
         class |-> IF pass THEN "pass"
                   ELSE IF clean THEN "incomplete_sequence"
                   ELSE "beacon_transport_corruption"]

\* Mutant: a number heard before is passed over, as in the other readers.
SummarizeSelftestDeduped(s) ==
    SelftestSummary(Deduped(s), Matched(Deduped(s)), FALSE)

\* The events up to the first that brings a number back.
UpToRepeat(c) ==
    LET Repeats(i) == \E j \in 1 .. i - 1 : c[j].seq = c[i].seq
    IN  SubSeq(c, 1, Min({i \in DOMAIN c : Repeats(i)} \cup {Len(c) + 1}) - 1)

SummarizeSelftest(s) ==
    SelftestSummary(UpToRepeat(Collapse(s)), Matched(UpToRepeat(Collapse(s))),
                    UpToRepeat(Collapse(s)) # Collapse(s))

\* A READY begins a session only behind a SUMMARY.
SelftestSessions(s) ==
    LET cut == FoldLeft(
            LAMBDA c, e :
                IF e.type = READY /\ SUMMARY \in Kinds(c.open)
                THEN [closed |-> Append(c.closed, SummarizeSelftest(c.open)), open |-> <<e>>]
                ELSE [c EXCEPT !.open = Append(@, e)],
            [closed |-> <<>>, open |-> <<>>], s)
    IN  IF cut.open = <<>> THEN cut.closed
        ELSE Append(cut.closed, SummarizeSelftest(cut.open))

SelftestProgress(session) ==
    <<Bit(session.pass), session.matched, Bit(SUMMARY \in Kinds(session.events)),
      Len(session.events), session.off>>

SelftestReport(sessions, chosen, bad) ==
    LET pass == bad = 0 /\ Len(sessions) = 1 /\ sessions[1].pass
    IN  [pass |-> pass,
         summary |-> sessions # <<>> /\ SUMMARY \in Kinds(chosen.events),
         class |-> IF pass THEN "pass"
                   ELSE IF sessions = <<>> THEN IF bad > 0 THEN "bad_frame"
                                                ELSE "no_ready_session"
                   ELSE IF bad > 0 /\ chosen.class = "pass" THEN "bad_frame"
                   ELSE chosen.class]

SelftestAnalysis(s, bad) ==
    SelftestReport(SelftestSessions(s),
                   Furthest(Range(SelftestSessions(s)), SelftestProgress), bad)
=============================================================================
