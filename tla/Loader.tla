------------------------------- MODULE Loader -------------------------------
(***************************************************************************)
(* The DDR3 loader: the host tool that sends a benchmark image over the    *)
(* serial port (drive_uart_loader and the block protocol beneath it, in    *)
(* run_fpga_benchmark_ddr3.py) and the firmware that receives it           *)
(* (rom/test_fpga_ddr3_loader.s), joined by a serial line that may lose or *)
(* corrupt a symbol and by clocks that may run out too soon.               *)
(*                                                                         *)
(* A byte is a digit of base Base, a chunk and a checksum word are Word    *)
(* bytes, a block is BlockBytes bytes.  A beacon event, sent several times *)
(* with a check byte, is one symbol: a corrupted one is a lost one.        *)
(***************************************************************************)
EXTENDS Integers, Sequences, FiniteSets, SequencesExt

CONSTANTS Base, Word, BlockBytes, MaxSize,
          Payload,        \* the image, a sequence of bytes
          Magic,          \* the bytes a header starts with
          HeaderTries, ChecksumTries, BlockTries,
          AllowMiss,      \* an unanswered chunk is counted and passed over
          Faults          \* how many symbols may be lost, corrupted, late

NoFault == [lost |-> 0, corrupt |-> 0, late |-> 0]

ASSUME LoaderAssumption ==
    /\ {Base, Word, BlockBytes, MaxSize, HeaderTries, ChecksumTries, BlockTries} \subseteq Nat \ {0}
    /\ BlockBytes % Word = 0
    /\ Payload \in Seq(0..(Base - 1)) /\ Len(Payload) \in 1..MaxSize
    /\ AllowMiss \in BOOLEAN
    /\ NoFault \in Faults /\ Faults \subseteq [{"lost", "corrupt", "late"} -> Nat]

VARIABLES h2b, b2h,       \* the two directions of the serial line
          faults,         \* how many have been
          board, host

vars == <<h2b, b2h, faults, board, host>>
-----------------------------------------------------------------------------
Modulus == Base ^ Word
SumOf(bytes) == FoldLeft(LAMBDA a, b : (a + b) % Modulus, 0, bytes)
WordBytes(n) == [i \in 1..Word |-> (n \div (Base ^ (i - 1))) % Base]
Blocks == (Len(Payload) + BlockBytes - 1) \div BlockBytes
Block(k) == SubSeq(Payload, k * BlockBytes + 1,
                   IF (k + 1) * BlockBytes < Len(Payload) THEN (k + 1) * BlockBytes ELSE Len(Payload))
Header == Magic \o WordBytes(Len(Payload)) \o WordBytes(SumOf(Payload))

Bytes == 0..(Base - 1)
Replies == {"ack", "block_ack", "block_nack"}
Events == {"ready", "load_start", "summary_ok", "bad"}
Text == {"done"}

HostPcs == {"loop", "chunk", "ack", "checksum", "checksum_ack", "checksum_reply", "reply", "drain", "end"}
BoardPcs == {"boot", "magic", "size", "sum", "data", "checksum", "verify", "jumped", "failed"}

Init ==
    /\ h2b = <<>> /\ b2h = <<>>
    /\ faults = NoFault
    /\ board = [pc |-> "boot", sync |-> 0, word |-> <<>>, size |-> 0, expect |-> 0,
                accepted |-> 0, acc |-> 0, want |-> 0, got |-> 0, bsum |-> 0,
                start |-> 0, at |-> 0, blocks |-> 0, retried |-> FALSE,
                mem |-> [a \in 0..(MaxSize - 1) |-> 0]]
    /\ host = [pc |-> "loop", blk |-> 0, off |-> 0, attempt |-> 0, try |-> 0, credit |-> 0,
               replies |-> <<>>, ready |-> FALSE, started |-> FALSE, bad |-> FALSE, summary |-> FALSE,
               done |-> FALSE, sent |-> FALSE, headers |-> 0, acks |-> 0,
               ackTimeout |-> FALSE, retryHit |-> FALSE]
-----------------------------------------------------------------------------
(* The line: what is written arrives, short of one symbol, or with one     *)
(* symbol changed.  BLOCK_ACK (17) and BLOCK_NACK (15) are a bit apart.    *)
OtherBytes(x) == Bytes \ {x}
OtherReply(x) == IF x = "block_ack" THEN {"block_nack"}
                 ELSE IF x = "block_nack" THEN {"block_ack"} ELSE {}

Fault(kind) == LET f == [faults EXCEPT ![kind] = @ + 1] IN f \in Faults /\ faults' = f

Put(line, new, s, Other(_)) ==   \* new is the line after s was written to it
    \/ new = line \o s /\ UNCHANGED faults
    \/ \E i \in 1..Len(s) :
          \/ new = line \o RemoveAt(s, i) /\ Fault("lost")
          \/ \E x \in Other(s[i]) : new = line \o ReplaceAt(s, i, x) /\ Fault("corrupt")

Send(s) == Put(h2b, h2b', s, OtherBytes)        \* the host writes
Answer(s) == Put(b2h, b2h', s, OtherReply)      \* the board does

\* A wait may end although an answer is on its way: the other side was late.
Reading == {"magic", "size", "sum", "data", "checksum"}
BoardReads == board.pc \in Reading /\ ~(board.pc = "data" /\ board.got = board.want)
Quiet == /\ b2h = <<>>
         /\ board.pc \in {"boot", "failed", "jumped"} \/ (BoardReads /\ h2b = <<>>)
TimeIsUp == \/ Quiet /\ UNCHANGED faults
            \/ ~Quiet /\ Fault("late")
-----------------------------------------------------------------------------
(* The firmware.                                                           *)

\* Start-up empties the receive buffer: what had arrived is gone.
BoardBoot ==
    /\ board.pc = "boot"
    /\ board' = [board EXCEPT !.pc = "magic"]
    /\ \E k \in 0..Len(h2b) : h2b' = SubSeq(h2b, k + 1, Len(h2b))
    /\ Answer(<<"ready">>)
    /\ UNCHANGED host

NextSync(n, x) == IF x = Magic[n + 1] THEN n + 1 ELSE IF x = Magic[1] THEN 1 ELSE 0

RecvMagic ==
    /\ board.pc = "magic" /\ h2b # <<>>
    /\ LET n == NextSync(board.sync, Head(h2b)) IN
       board' = [board EXCEPT !.sync = n, !.pc = IF n = Len(Magic) THEN "size" ELSE @]
    /\ h2b' = Tail(h2b)
    /\ UNCHANGED <<b2h, faults, host>>

ValueOf(word) == FoldRight(LAMBDA b, v : b + Base * v, word, 0)
\* Mutant: forgets the short last block.
WantWholeBlocks(size, accepted) == BlockBytes

\* load_block_begin: the length of the block that starts, 0 at the end.
Want(size, accepted) ==
    IF size >= accepted /\ size - accepted < BlockBytes THEN size - accepted ELSE BlockBytes

BeginBlock(b) ==
    IF b.accepted = b.size THEN [b EXCEPT !.pc = "verify"]
    ELSE [b EXCEPT !.pc = "data", !.want = Want(b.size, b.accepted), !.got = 0, !.bsum = 0,
                   !.word = <<>>, !.start = b.at]

RecvSize ==
    /\ board.pc = "size" /\ h2b # <<>>
    /\ LET w == Append(board.word, Head(h2b)) IN
       board' = IF Len(w) < Word THEN [board EXCEPT !.word = w]
                ELSE [board EXCEPT !.word = <<>>, !.size = ValueOf(w), !.pc = "sum"]
    /\ h2b' = Tail(h2b)
    /\ UNCHANGED <<b2h, faults, host>>

\* The last header word; a size above the staging buffer ends the load.
RecvSum ==
    /\ board.pc = "sum" /\ h2b # <<>>
    /\ h2b' = Tail(h2b)
    /\ UNCHANGED host
    /\ LET w == Append(board.word, Head(h2b)) IN
       IF Len(w) < Word THEN board' = [board EXCEPT !.word = w] /\ UNCHANGED <<b2h, faults>>
       ELSE IF board.size > MaxSize
            THEN board' = [board EXCEPT !.word = <<>>, !.pc = "failed"] /\ Answer(<<"bad">>)
            ELSE /\ board' = BeginBlock([board EXCEPT !.word = <<>>, !.expect = ValueOf(w)])
                 /\ Answer(<<"load_start">>)

\* The word is stored at at; a partial one is padded with zeros.
Store(b, w) == [a \in DOMAIN b.mem |->
                  IF a \in b.at..(b.at + Word - 1)
                  THEN IF a - b.at + 1 <= Len(w) THEN w[a - b.at + 1] ELSE 0
                  ELSE b.mem[a]]

\* One byte of a block.  The last of a chunk, or of the block, stores the
\* word and acknowledges it.
RecvData ==
    /\ board.pc = "data" /\ board.got # board.want /\ h2b # <<>>
    /\ h2b' = Tail(h2b)
    /\ UNCHANGED host
    /\ LET w == Append(board.word, Head(h2b))
           b == [board EXCEPT !.got = @ + 1, !.bsum = (@ + Head(h2b)) % Modulus] IN
       IF Len(w) = Word \/ b.got = b.want
       THEN /\ board' = [b EXCEPT !.word = <<>>, !.mem = Store(b, w), !.at = @ + Word]
            /\ Answer(<<"ack">>)
       ELSE board' = [b EXCEPT !.word = w] /\ UNCHANGED <<b2h, faults>>

\* The block is complete: its checksum is read next.
BlockDataDone ==
    /\ board.pc = "data" /\ board.got = board.want
    /\ board' = [board EXCEPT !.pc = "checksum"]
    /\ UNCHANGED <<h2b, b2h, faults, host>>

\* recv_u32 builds its value in the register that holds the block's length
\* (all but the last byte); load_block_done keeps a copy, which is added on
\* acceptance, but a rejected block is received again without it.
RecvChecksum ==
    /\ board.pc = "checksum" /\ h2b # <<>>
    /\ h2b' = Tail(h2b)
    /\ UNCHANGED host
    /\ LET w == Append(board.word, Head(h2b)) IN
       IF Len(w) < Word THEN board' = [board EXCEPT !.word = w] /\ UNCHANGED <<b2h, faults>>
       ELSE IF ValueOf(w) = board.bsum
            THEN /\ board' = BeginBlock([board EXCEPT !.acc = (@ + board.bsum) % Modulus,
                                                      !.accepted = @ + board.want,
                                                      !.blocks = @ + 1, !.retried = FALSE])
                 /\ Answer(<<"ack", "block_ack">>)
            ELSE /\ board' = [board EXCEPT !.pc = "data", !.want = ValueOf(w) % (Modulus \div Base),
                                           !.got = 0, !.bsum = 0, !.word = <<>>,
                                           !.at = board.start, !.retried = TRUE]
                 /\ Answer(<<"ack", "block_nack">>)

\* load_done: the sum of what was accepted, then the sum of what is read
\* back; then the jump, and the program's last line.
Image(b, n) == [i \in 1..n |-> b.mem[i - 1]]
\* Mutant: jumps without comparing the sums.
BoardVerifyUnchecked ==
    /\ board.pc = "verify"
    /\ board' = [board EXCEPT !.pc = "jumped"]
    /\ Answer(<<"summary_ok", "done">>)
    /\ UNCHANGED <<h2b, host>>

BoardVerify ==
    /\ board.pc = "verify"
    /\ IF board.acc = board.expect /\ SumOf(Image(board, board.size)) = board.acc
       THEN board' = [board EXCEPT !.pc = "jumped"] /\ Answer(<<"summary_ok", "done">>)
       ELSE board' = [board EXCEPT !.pc = "failed"] /\ Answer(<<"bad">>)
    /\ UNCHANGED <<h2b, host>>

\* The host is in a wait that only an answer or its own clock ends.
HostWaits == \/ host.pc = "loop" /\ (host.sent \/ host.headers = HeaderTries)
             \/ host.pc \in {"ack", "checksum_ack"} /\ host.credit = 0
             \/ host.pc \in {"checksum_reply", "reply"} /\ host.replies = <<>>
             \/ host.pc = "end"

\* recv_byte has polled its five million times.
BoardRxTimeout ==
    /\ BoardReads /\ h2b = <<>> /\ b2h = <<>> /\ HostWaits
    /\ board' = [board EXCEPT !.pc = "failed"]
    /\ Answer(<<"bad">>)
    /\ UNCHANGED <<h2b, host>>

BoardStep ==
    \/ BoardBoot \/ RecvMagic \/ RecvSize \/ RecvSum \/ RecvData \/ BlockDataDone \/ RecvChecksum
    \/ BoardVerify \/ BoardRxTimeout
-----------------------------------------------------------------------------
(* The host.                                                               *)

\* ingest_serial_bytes: an acknowledgement is a credit, a block reply is
\* queued, an event sets its flag for good.
Ingest(h, x) ==
    [h EXCEPT !.credit = IF x = "ack" THEN @ + 1 ELSE @,
              !.replies = IF x \in {"block_ack", "block_nack"} THEN Append(@, x) ELSE @,
              !.ready = @ \/ x = "ready",
              !.started = @ \/ x = "load_start",
              !.bad = @ \/ x = "bad",
              !.summary = @ \/ x = "summary_ok",
              !.done = @ \/ x = "done"]

\* The payload starts on LOAD_START, or blindly when no READY ever came and
\* the headers are used up.
PayloadMayStart(h) ==
    h.headers > 0 /\ ~h.sent /\ (h.started \/ (~h.ready /\ h.headers >= HeaderTries))

Started(h) == [h EXCEPT !.pc = "chunk", !.blk = 0, !.off = 0, !.attempt = 0, !.try = 0]

\* One turn of the main loop with something read.
HostRead ==
    /\ host.pc = "loop" /\ b2h # <<>>
    /\ b2h' = Tail(b2h)
    /\ UNCHANGED board
    /\ LET h == Ingest(host, Head(b2h)) IN
       IF h.headers = 0 /\ h.ready
       THEN host' = [h EXCEPT !.headers = 1] /\ Send(Header)
       ELSE /\ UNCHANGED <<h2b, faults>>
            /\ host' = IF (h.sent /\ h.done) \/ h.bad THEN [h EXCEPT !.pc = "end"]
                       ELSE IF h.started /\ PayloadMayStart(h) THEN Started(h) ELSE h

\* The header again: blindly after a second without READY, then while
\* LOAD_START is missing.
HostHeaderAgain ==
    /\ host.pc = "loop" /\ ~host.sent /\ ~host.started /\ ~host.bad
    /\ host.headers < HeaderTries
    /\ host' = [host EXCEPT !.headers = @ + 1]
    /\ UNCHANGED <<b2h, board>>
    /\ \/ Quiet /\ Send(Header)
       \/ ~Quiet /\ Fault("late") /\ h2b' = h2b \o Header

HostBlindPayload ==
    /\ host.pc = "loop" /\ ~host.started /\ PayloadMayStart(host)
    /\ TimeIsUp
    /\ host' = Started(host)
    /\ UNCHANGED <<h2b, b2h, board>>

\* The capture's deadline.
HostDeadline ==
    /\ host.pc = "loop" /\ (host.sent \/ (host.headers >= HeaderTries /\ ~PayloadMayStart(host)))
    /\ TimeIsUp
    /\ host' = [host EXCEPT !.pc = "end"]
    /\ UNCHANGED <<h2b, b2h, board>>

\* Nothing more to send, or no use in sending: back to the main loop, which
\* ends at once on a failure.
Finished(h) == [h EXCEPT !.sent = TRUE, !.pc = IF h.ackTimeout \/ h.retryHit \/ h.bad THEN "end" ELSE "loop"]
TimedOut(h) == Finished([h EXCEPT !.ackTimeout = TRUE])

SendChunk ==
    /\ host.pc = "chunk"
    /\ LET b == Block(host.blk)
           to == IF host.off + Word < Len(b) THEN host.off + Word ELSE Len(b) IN
       Send(SubSeq(b, host.off + 1, to))
    /\ host' = [host EXCEPT !.off = @ + Word, !.pc = "ack"]
    /\ UNCHANGED <<b2h, board>>

AfterChunk(h) == [h EXCEPT !.pc = IF h.off < Len(Block(h.blk)) THEN "chunk" ELSE "checksum"]

SendChecksum ==
    /\ host.pc = "checksum"
    /\ Send(WordBytes(SumOf(Block(host.blk))))
    /\ host' = [host EXCEPT !.pc = "checksum_ack"]
    /\ UNCHANGED <<b2h, board>>
\* Mutant: leaves the credit it takes.
TakeCreditKept ==
    /\ host.pc \in {"ack", "checksum_ack"} /\ host.credit > 0
    /\ host' = IF host.pc = "ack" THEN AfterChunk(host) ELSE [host EXCEPT !.pc = "reply"]
    /\ UNCHANGED <<h2b, b2h, faults, board>>

\* A wait takes the credit it finds, and reads on while there is none.
TakeCredit ==
    /\ host.pc \in {"ack", "checksum_ack"} /\ host.credit > 0
    /\ LET h == [host EXCEPT !.credit = @ - 1] IN
       host' = IF h.pc = "ack" THEN AfterChunk(h) ELSE [h EXCEPT !.pc = "reply"]
    /\ UNCHANGED <<h2b, b2h, faults, board>>

ReadMore ==
    /\ b2h # <<>>
    /\ \/ host.pc \in {"ack", "checksum_ack"} /\ host.credit = 0
       \/ host.pc \in {"checksum_reply", "reply"} /\ host.replies = <<>>
       \/ host.pc = "drain"
    /\ host' = Ingest(host, Head(b2h))
    /\ b2h' = Tail(b2h)
    /\ UNCHANGED <<h2b, faults, board>>

\* An acknowledgement is missing.
AckMissed ==
    /\ host.pc \in {"ack", "checksum_ack"} /\ host.credit = 0
    /\ TimeIsUp
    /\ host' = IF ~AllowMiss THEN TimedOut(host)
               ELSE IF host.pc = "ack" THEN AfterChunk(host)
               ELSE [host EXCEPT !.pc = "checksum_reply"]
    /\ UNCHANGED <<h2b, b2h, board>>
\* Mutant: takes any reply for an acceptance.
OnReplyAnyIsAck(h, r) ==
    LET n == [h EXCEPT !.acks = @ + 1, !.blk = @ + 1, !.off = 0, !.attempt = 0, !.try = 0] IN
    IF n.blk = Blocks THEN Finished(n) ELSE [n EXCEPT !.pc = "chunk"]

\* The reply to a block: the next block, or the same one once more.
OnReply(h, r) ==
    IF r = "block_ack"
    THEN LET n == [h EXCEPT !.acks = @ + 1, !.blk = @ + 1, !.off = 0, !.attempt = 0, !.try = 0] IN
         IF n.blk = Blocks THEN Finished(n) ELSE [n EXCEPT !.pc = "chunk"]
    ELSE [h EXCEPT !.pc = "drain"]

TakeReply ==
    /\ host.pc \in {"checksum_reply", "reply"} /\ host.replies # <<>>
    /\ host' = OnReply([host EXCEPT !.replies = Tail(@)], Head(host.replies))
    /\ UNCHANGED <<h2b, b2h, faults, board>>
\* Mutant: sends the checksum without end.
ReplyMissedForever ==
    /\ host.pc \in {"checksum_reply", "reply"} /\ host.replies = <<>>
    /\ TimeIsUp
    /\ host' = IF host.pc = "reply" THEN TimedOut(host) ELSE [host EXCEPT !.pc = "checksum"]
    /\ UNCHANGED <<h2b, b2h, board>>
\* Mutant: tries once too often.
ReplyMissedOnceMore ==
    /\ host.pc \in {"checksum_reply", "reply"} /\ host.replies = <<>>
    /\ TimeIsUp
    /\ host' = IF host.pc = "reply" THEN TimedOut(host)
               ELSE IF host.try < ChecksumTries THEN [host EXCEPT !.try = @ + 1, !.pc = "checksum"]
               ELSE [host EXCEPT !.pc = "reply"]
    /\ UNCHANGED <<h2b, b2h, board>>

\* No reply: after a missed checksum acknowledgement the checksum goes out
\* again while tries are left, then one more wait; otherwise it is the end.
ReplyMissed ==
    /\ host.pc \in {"checksum_reply", "reply"} /\ host.replies = <<>>
    /\ TimeIsUp
    /\ host' = IF host.pc = "reply" THEN TimedOut(host)
               ELSE IF host.try + 1 < ChecksumTries THEN [host EXCEPT !.try = @ + 1, !.pc = "checksum"]
               ELSE [host EXCEPT !.pc = "reply"]
    /\ UNCHANGED <<h2b, b2h, board>>

\* After a rejected block the line is read until it has been quiet.
DrainQuiet ==
    /\ host.pc = "drain" /\ TimeIsUp
    /\ host' = IF host.attempt + 1 < BlockTries
               THEN [host EXCEPT !.attempt = @ + 1, !.off = 0, !.try = 0, !.pc = "chunk"]
               ELSE Finished([host EXCEPT !.retryHit = TRUE])
    /\ UNCHANGED <<h2b, b2h, board>>

HostStep ==
    \/ HostRead \/ HostHeaderAgain \/ HostBlindPayload \/ HostDeadline
    \/ SendChunk \/ SendChecksum \/ TakeCredit \/ ReadMore \/ AckMissed \/ TakeReply \/ ReplyMissed
    \/ DrainQuiet

Next == BoardStep \/ HostStep
Spec == Init /\ [][Next]_vars /\ WF_vars(BoardStep) /\ WF_vars(HostStep)
-----------------------------------------------------------------------------
\* The caller's verdict on a capture.
HostPasses == host.pc = "end" /\ ~host.bad /\ host.summary /\ host.done

HostTypeOK ==
    /\ host.pc \in HostPcs /\ host.blk \in 0..Blocks /\ host.attempt \in 0..(BlockTries - 1)
    /\ host.try \in 0..(ChecksumTries - 1) /\ host.headers \in 0..HeaderTries

LoaderTypeOK ==
    /\ h2b \in Seq(Bytes) /\ b2h \in Seq(Replies \cup Events \cup Text)
    /\ faults \in Faults
    /\ board.pc \in BoardPcs /\ board.word \in Seq(Bytes) /\ Len(board.word) < Word
    /\ board.mem \in [0..(MaxSize - 1) -> Bytes]
    /\ HostTypeOK

(***************************************************************************)
(* Whatever the line did, a pass is about a board that has jumped, and to  *)
(* an image it has received in full by its own count and read back with    *)
(* the sum the header announced.                                           *)
(***************************************************************************)
Verified ==
    /\ board.pc = "jumped" /\ board.accepted = board.size /\ ~(board.size > MaxSize)
    /\ board.acc = board.expect /\ SumOf(Image(board, board.size)) = board.expect

PassMeansVerified == HostPasses => Verified

(***************************************************************************)
(* With no more than one fault, retries included, that image is the        *)
(* payload, in full and in place.  This is as good as the sums: two faults *)
(* may make up for each other, and a payload that ends in zeros, or whose  *)
(* parts add up alike, may pass by one fault without being there.          *)
(***************************************************************************)
PassMeansIntact ==
    /\ PassMeansVerified
    /\ HostPasses /\ faults.lost + faults.corrupt + faults.late <= 1 =>
           board.size = Len(Payload) /\ Image(board, Len(Payload)) = Payload

(***************************************************************************)
(* As long as no byte and no reply was changed, the host counts no block   *)
(* that the board has not accepted, and when it has sent the image to its  *)
(* end the board has accepted as many blocks as there are.                 *)
(***************************************************************************)
AcksAreAccepted ==
    faults.corrupt = 0 =>
        /\ host.acks <= board.blocks
        /\ host.sent /\ ~host.ackTimeout /\ ~host.retryHit => Blocks <= board.blocks

(***************************************************************************)
(* Nor does the board go on to a second block ahead of the host, as long   *)
(* as no second header was taken for data.  This half is as good as the    *)
(* sums too: with a payload full of zeros, a board out of step accepts     *)
(* empty blocks.                                                           *)
(***************************************************************************)
BlocksInStep ==
    /\ AcksAreAccepted
    /\ faults.corrupt = 0 /\ host.headers = 1 => board.blocks <= host.acks + 1

(***************************************************************************)
(* The firmware has no receive buffer of its own: what is on its way to it *)
(* must fit the UART's.  While blocks are sent one chunk, or one checksum, *)
(* is outstanding; each answer the host did not wait for lets one more go  *)
(* ahead.                                                                  *)
(***************************************************************************)
Outstanding ==
    faults.lost + faults.corrupt = 0 /\ host.started /\ host.headers = 1 /\ board.pc \in Reading
        => Len(h2b) <= Word * (1 + faults.late)

(***************************************************************************)
(* With no fault on the line, no wait cut short and one header, the load   *)
(* passes.                                                                 *)
(***************************************************************************)
CleanLoadPasses == [](faults = NoFault /\ host.headers <= 1) => <>HostPasses

(***************************************************************************)
(* Whatever happens on the line the tool comes to a verdict.               *)
(***************************************************************************)
HostFinishes == <>(host.pc = "end")

(***************************************************************************)
(* A block received again has the size it had ("preserve block byte        *)
(* count", rom/test_fpga_ddr3_loader.s:341).  The firmware breaks this.    *)
(***************************************************************************)
RetriedBlockKeepsItsSize == board.retried => board.want = Want(board.size, board.accepted)
=============================================================================
