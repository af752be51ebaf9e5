---------------------------- MODULE LoaderProofs ----------------------------
(***************************************************************************)
(* Proofs about the loader, for every payload, block size and number of    *)
(* tries, and a line with any faults its model knows: what a pass has      *)
(* verified, that no block is counted that was not accepted, and that the  *)
(* host keeps to its tries.                                                *)
(*                                                                         *)
(* Nothing here depends on what a sum of bytes is.  That is left to the    *)
(* runs: what the sums cannot tell apart, the loader cannot either.        *)
(***************************************************************************)
EXTENDS Loader, FiniteSetTheorems, SequenceTheorems, TLAPS

\* The fields of the state's records.
BoardFields == {"pc", "sync", "word", "size", "expect", "accepted", "acc", "want", "got", "bsum",
                "start", "at", "blocks", "retried", "mem"}
HostFields == {"pc", "blk", "off", "attempt", "try", "credit", "replies", "ready", "started", "bad",
               "summary", "done", "sent", "headers", "acks", "ackTimeout", "retryHit"}
HasFields(r, fields) == r = [x \in fields |-> r[x]]

\* What the board sends.
Messages == Replies \cup Events \cup Text

\* How often x is in s.
Places(s, x) == {i \in 1 .. Len(s) : s[i] = x}
Count(s, x) == Cardinality(Places(s, x))

-----------------------------------------------------------------------------
(* Invariants.                                                              *)

LoaderShape ==
  /\ HasFields(board, BoardFields) /\ board.blocks \in Nat
  /\ HasFields(host, HostFields) /\ host.acks \in Nat /\ host.summary \in BOOLEAN
  /\ b2h \in Seq(Messages) /\ host.replies \in Seq(Messages)
  /\ faults \in Faults

\* The host sends the blocks in order, one more for each that is accepted.
Sending == {"chunk", "ack", "checksum", "checksum_ack", "checksum_reply", "reply", "drain"}

HostInOrder ==
  /\ HostTypeOK
  /\ host.acks = host.blk
  /\ host.pc \in Sending => ~host.sent /\ host.blk < Blocks
  /\ host.pc = "loop" /\ ~host.sent => host.blk = 0
  /\ host.sent /\ ~host.ackTimeout /\ ~host.retryHit => host.blk = Blocks

\* What the board has seen to by the stage it is in.
BoardChecks ==
  /\ board.pc \in {"data", "checksum", "verify", "jumped"} => ~(board.size > MaxSize)
  /\ board.pc \in {"verify", "jumped"} => board.accepted = board.size
  /\ board.pc = "jumped" =>
       board.acc = board.expect /\ SumOf(Image(board, board.size)) = board.expect

\* The summary is sent with the jump, and no fault makes one.
SummaryMeansJump ==
  host.summary \/ Places(b2h, "summary_ok") # {} => board.pc = "jumped"

\* An acceptance is on the line, in the host's queue or counted, or lost.
EachAckIsOfABlock ==
  faults.corrupt = 0 =>
    Count(b2h, "block_ack") + Count(host.replies, "block_ack") + host.acks <= board.blocks

LoaderInv == LoaderShape /\ HostInOrder /\ BoardChecks /\ SummaryMeansJump /\ EachAckIsOfABlock

-----------------------------------------------------------------------------
(* Counting.                                                                *)

LEMMA PlacesAreFinite ==
  ASSUME NEW s \in Seq(Messages), NEW x
  PROVE  IsFiniteSet(Places(s, x)) /\ Count(s, x) \in Nat
<1>1. Places(s, x) \in SUBSET (1 .. Len(s)) /\ Len(s) \in Int /\ 1 \in Int
  BY DEF Places
<1>2. IsFiniteSet(1 .. Len(s))
  BY <1>1, FS_Interval
<1>3. IsFiniteSet(Places(s, x))
  BY <1>1, <1>2, FS_Subset, Zenon
<1> QED
  BY <1>3, FS_CardinalityType DEF Count

\* What stands i places further in t than x stands in s.
LEMMA ShiftedPlaces ==
  ASSUME NEW S \in SUBSET Nat, NEW T \in SUBSET Nat, NEW n \in Int, IsFiniteSet(T),
         \A i \in S : i + n \in T
  PROVE  IsFiniteSet(S) /\ Cardinality(S) <= Cardinality(T)
<1> DEFINE f == [i \in S |-> i + n]
<1>1. f \in [S -> T]
  OBVIOUS
<1>2. \A a, b \in S : f[a] = f[b] => a = b
  OBVIOUS
<1>3. f \in Injection(S, T)
  BY <1>1, <1>2 DEF Injection, IsInjective
<1> QED
  BY <1>3, FS_Injection

LEMMA CountOfTail ==
  ASSUME NEW s \in Seq(Messages), s # <<>>, NEW x
  PROVE  Count(Tail(s), x) + (IF Head(s) = x THEN 1 ELSE 0) <= Count(s, x)
<1> DEFINE S == Places(Tail(s), x)
           T == Places(s, x) \ {1}
<1>1. /\ Tail(s) \in Seq(Messages) /\ Len(s) \in Nat /\ Len(Tail(s)) = Len(s) - 1 /\ Len(s) > 0
      /\ \A i \in 1 .. Len(Tail(s)) : Tail(s)[i] = s[i + 1]
      /\ Head(s) = s[1]
  BY HeadTailProperties, EmptySeq
<1>2. S \in SUBSET Nat /\ T \in SUBSET Nat
  BY <1>1 DEF Places
<1>3. \A i \in S : i + 1 \in T
  BY <1>1 DEF Places
<1>4. IsFiniteSet(Places(s, x)) /\ Count(s, x) \in Nat /\ IsFiniteSet(S) /\ Count(Tail(s), x) \in Nat
  BY <1>1, PlacesAreFinite, Zenon
<1>5. /\ IsFiniteSet(T)
      /\ Cardinality(T) = IF 1 \in Places(s, x) THEN Cardinality(Places(s, x)) - 1
                                                ELSE Cardinality(Places(s, x))
  BY <1>4, FS_RemoveElement
<1>6. Cardinality(S) <= Cardinality(T)
  <2>1. 1 \in Int
    OBVIOUS
  <2> QED
    BY <1>2, <1>3, <1>5, <2>1, ShiftedPlaces, Zenon
<1>7. Head(s) = x <=> 1 \in Places(s, x)
  BY <1>1 DEF Places
<1> QED
  BY <1>4, <1>5, <1>6, <1>7 DEF Count

LEMMA CountOfConcat ==
  ASSUME NEW s \in Seq(Messages), NEW t \in Seq(Messages), NEW x
  PROVE  Count(s \o t, x) <= Count(s, x) + Count(t, x)
<1> DEFINE A == {i \in Places(s \o t, x) : i <= Len(s)}
           B == {i \in Places(s \o t, x) : i > Len(s)}
<1>1. /\ s \o t \in Seq(Messages) /\ Len(s \o t) = Len(s) + Len(t)
      /\ Len(s) \in Nat /\ Len(t) \in Nat
      /\ \A i \in 1 .. Len(s) + Len(t) : (s \o t)[i] = IF i <= Len(s) THEN s[i] ELSE t[i - Len(s)]
  BY ConcatProperties, LenProperties
<1>2. /\ IsFiniteSet(Places(s, x)) /\ IsFiniteSet(Places(t, x)) /\ IsFiniteSet(Places(s \o t, x))
      /\ Count(s, x) \in Nat /\ Count(t, x) \in Nat /\ Count(s \o t, x) \in Nat
  BY <1>1, PlacesAreFinite, Zenon
<1>3. /\ A \in SUBSET Nat /\ B \in SUBSET Nat
      /\ Places(s, x) \in SUBSET Nat /\ Places(t, x) \in SUBSET Nat
  BY <1>1 DEF Places
<1>4. \A i \in A : i + 0 \in Places(s, x)
  BY <1>1 DEF Places
<1>5. \A i \in B : i + (0 - Len(s)) \in Places(t, x)
  BY <1>1 DEF Places
<1>6. IsFiniteSet(A) /\ Cardinality(A) <= Cardinality(Places(s, x))
  <2>1. 0 \in Int
    OBVIOUS
  <2> HIDE DEF A
  <2> QED
    BY <1>2, <1>3, <1>4, <2>1, ShiftedPlaces, Zenon
<1>7. IsFiniteSet(B) /\ Cardinality(B) <= Cardinality(Places(t, x))
  <2>1. 0 - Len(s) \in Int
    BY <1>1
  <2> HIDE DEF B
  <2> QED
    BY <1>2, <1>3, <1>5, <2>1, ShiftedPlaces, Zenon
<1>8. Places(s \o t, x) = A \cup B /\ A \cap B = {}
  BY <1>1, <1>3 DEF Places
<1> HIDE DEF A, B
<1>9. /\ Cardinality(A \cup B) = Cardinality(A) + Cardinality(B) - Cardinality(A \cap B)
      /\ Cardinality(A) \in Nat /\ Cardinality(B) \in Nat /\ Cardinality(A \cap B) = 0
  BY <1>6, <1>7, <1>8, FS_Union, FS_CardinalityType, FS_EmptySet, Zenon
<1> QED
  BY <1>2, <1>6, <1>7, <1>8, <1>9 DEF Count

\* What is left of a sequence without one element.
LEMMA Remaining ==
  ASSUME NEW s \in Seq(Messages), NEW i \in 1 .. Len(s)
  PROVE  /\ RemoveAt(s, i) \in Seq(Messages) /\ Len(RemoveAt(s, i)) = Len(s) - 1
         /\ \A j \in 1 .. Len(s) - 1 : RemoveAt(s, i)[j] = s[IF j < i THEN j ELSE j + 1]
<1> DEFINE a == SubSeq(s, 1, i - 1)
           b == SubSeq(s, i + 1, Len(s))
<1>1. Len(s) \in Nat /\ \A j \in 1 .. Len(s) : s[j] \in Messages
  BY LenProperties, ElementOfSeq
<1>2. /\ a \in Seq(Messages) /\ Len(a) = i - 1
      /\ \A j \in 1 .. i - 1 : a[j] = s[j]
  BY <1>1, SubSeqProperties
<1>3. /\ b \in Seq(Messages) /\ Len(b) = Len(s) - i
      /\ \A j \in 1 .. Len(s) - i : b[j] = s[i + j]
  BY <1>1, SubSeqProperties
<1> HIDE DEF a, b
<1>4. /\ a \o b \in Seq(Messages) /\ Len(a \o b) = Len(a) + Len(b)
      /\ \A j \in 1 .. Len(a) + Len(b) : (a \o b)[j] = IF j <= Len(a) THEN a[j] ELSE b[j - Len(a)]
  BY <1>2, <1>3, ConcatProperties
<1>5. RemoveAt(s, i) = a \o b
  BY DEF RemoveAt, a, b
<1>6. ASSUME NEW j \in 1 .. Len(s) - 1
      PROVE  (a \o b)[j] = s[IF j < i THEN j ELSE j + 1]
  <2>1. CASE j < i
    BY <1>1, <1>2, <1>3, <1>4, <2>1
  <2>2. CASE ~(j < i)
    <3>1. j - Len(a) \in 1 .. Len(s) - i /\ i + (j - Len(a)) = j + 1 /\ ~(j <= Len(a))
      BY <1>1, <1>2, <2>2
    <3>2. (a \o b)[j] = b[j - Len(a)]
      BY <1>1, <1>2, <1>3, <1>4, <3>1
    <3>3. b[j - Len(a)] = s[j + 1]
      BY <1>3, <3>1
    <3> QED
      BY <2>2, <3>2, <3>3
  <2> QED
    BY <2>1, <2>2, Zenon
<1>7. \A j \in 1 .. Len(s) - 1 : (a \o b)[j] = s[IF j < i THEN j ELSE j + 1]
  BY <1>6, Zenon
<1>8. Len(a \o b) = Len(s) - 1
  BY <1>1, <1>2, <1>3, <1>4
<1> QED
  BY <1>4, <1>5, <1>7, <1>8, Zenon

LEMMA CountOfRemaining ==
  ASSUME NEW s \in Seq(Messages), NEW i \in 1 .. Len(s), NEW x
  PROVE  Count(RemoveAt(s, i), x) <= Count(s, x)
<1> DEFINE S == Places(RemoveAt(s, i), x)
           T == Places(s, x)
           f == [j \in S |-> IF j < i THEN j ELSE j + 1]
<1>1. Len(s) \in Nat
  BY LenProperties
<1>2. /\ RemoveAt(s, i) \in Seq(Messages) /\ Len(RemoveAt(s, i)) = Len(s) - 1
      /\ \A j \in 1 .. Len(s) - 1 : RemoveAt(s, i)[j] = s[IF j < i THEN j ELSE j + 1]
  BY Remaining
<1>3. \A j \in S : j \in Int /\ (IF j < i THEN j ELSE j + 1) \in T
  <2>1. TAKE j \in S
  <2>2. j \in 1 .. Len(s) - 1 /\ RemoveAt(s, i)[j] = x
    BY <1>2 DEF Places
  <2>3. s[IF j < i THEN j ELSE j + 1] = x
    BY <1>2, <2>2
  <2>4. j \in Int /\ (IF j < i THEN j ELSE j + 1) \in 1 .. Len(s)
    BY <1>1, <2>2
  <2> QED
    BY <2>3, <2>4 DEF Places
<1>4. IsFiniteSet(T)
  BY PlacesAreFinite
<1> HIDE DEF S, T
<1>5. f \in [S -> T]
  BY <1>3
<1>6. \A a, b \in S : f[a] = f[b] => a = b
  BY <1>3
<1>7. f \in Injection(S, T)
  BY <1>5, <1>6 DEF Injection, IsInjective
<1>8. Cardinality(S) <= Cardinality(T)
  BY <1>4, <1>7, FS_Injection
<1> QED
  BY <1>8 DEF S, T, Count

-----------------------------------------------------------------------------
(* The line.                                                                *)

FaultsGrow == faults' \in Faults /\ (faults'.corrupt = 0 => faults.corrupt = 0)

LEMMA FaultCounts ==
  ASSUME LoaderShape, NEW kind \in {"lost", "corrupt", "late"}, Fault(kind)
  PROVE  FaultsGrow /\ (kind = "corrupt" => faults'.corrupt # 0)
<1>1. faults \in [{"lost", "corrupt", "late"} -> Nat]
  BY LoaderAssumption DEF LoaderShape
<1>2. faults' = [faults EXCEPT ![kind] = @ + 1] /\ faults' \in Faults
  BY DEF Fault
<1> QED
  BY <1>1, <1>2 DEF FaultsGrow

LEMMA SameFaults ==
  ASSUME LoaderShape, UNCHANGED faults
  PROVE  FaultsGrow
BY DEF LoaderShape, FaultsGrow

LEMMA WaitsCount ==
  ASSUME LoaderShape, TimeIsUp
  PROVE  FaultsGrow
<1>1. UNCHANGED faults \/ Fault("late")
  BY Zenon DEF TimeIsUp
<1> QED
  BY <1>1, SameFaults, FaultCounts

LEMMA SendCounts ==
  ASSUME LoaderShape, NEW s, Send(s)
  PROVE  FaultsGrow
<1>1. UNCHANGED faults \/ Fault("lost") \/ Fault("corrupt")
  BY Zenon DEF Send, Put
<1> QED
  BY <1>1, SameFaults, FaultCounts

\* What the board says arrives, or less of it; a fault may change a reply.
Arrives(s) ==
  \E u \in Seq(Messages) :
    /\ b2h' = b2h \o u
    /\ \A i \in 1 .. Len(u) : u[i] = "summary_ok" => \E j \in 1 .. Len(s) : s[j] = "summary_ok"
    /\ faults'.corrupt = 0 => Count(u, "block_ack") <= Count(s, "block_ack")

LEMMA AnswerArrives ==
  ASSUME LoaderShape, NEW s \in Seq(Messages), Answer(s)
  PROVE  FaultsGrow /\ Arrives(s)
<1>0. Len(s) \in Nat /\ \A i \in 1 .. Len(s) : s[i] \in Messages
  BY LenProperties, ElementOfSeq
<1>1. CASE b2h' = b2h \o s /\ UNCHANGED faults
  <2>1. Count(s, "block_ack") <= Count(s, "block_ack")
    BY PlacesAreFinite
  <2>2. Arrives(s)
    BY <1>1, <2>1, Zenon DEF Arrives
  <2> QED
    BY <1>1, <2>2, SameFaults
<1>2. ASSUME NEW i \in 1 .. Len(s), b2h' = b2h \o RemoveAt(s, i), Fault("lost")
      PROVE  FaultsGrow /\ Arrives(s)
  <2> DEFINE u == RemoveAt(s, i)
  <2>1. /\ u \in Seq(Messages) /\ Len(u) = Len(s) - 1
        /\ \A j \in 1 .. Len(s) - 1 : u[j] = s[IF j < i THEN j ELSE j + 1]
        /\ Count(u, "block_ack") <= Count(s, "block_ack")
    BY Remaining, CountOfRemaining
  <2>2. b2h' = b2h \o u
    BY <1>2
  <2> HIDE DEF u
  <2>3. ASSUME NEW j \in 1 .. Len(u), u[j] = "summary_ok"
        PROVE  \E k \in 1 .. Len(s) : s[k] = "summary_ok"
    <3>1. (IF j < i THEN j ELSE j + 1) \in 1 .. Len(s) /\ u[j] = s[IF j < i THEN j ELSE j + 1]
      BY <1>0, <2>1
    <3> QED
      BY <2>3, <3>1, Zenon
  <2>4. Arrives(s)
    BY <2>1, <2>2, <2>3, Zenon DEF Arrives
  <2> QED
    BY <1>2, <2>4, FaultCounts
<1>3. ASSUME NEW i \in 1 .. Len(s), NEW x \in OtherReply(s[i]),
             b2h' = b2h \o ReplaceAt(s, i, x), Fault("corrupt")
      PROVE  FaultsGrow /\ Arrives(s)
  <2> DEFINE u == [s EXCEPT ![i] = x]
  <2>1. x \in {"block_ack", "block_nack"} /\ x \in Messages
    BY DEF OtherReply, Messages, Replies
  <2>2. u \in Seq(Messages) /\ Len(u) = Len(s) /\ \A j \in 1 .. Len(s) : u[j] = IF j = i THEN x ELSE s[j]
    BY <1>0, <2>1, ExceptSeq
  <2>3. b2h' = b2h \o u
    BY <1>3 DEF ReplaceAt
  <2> HIDE DEF u
  <2>4. \A j \in 1 .. Len(u) : u[j] = "summary_ok" => \E k \in 1 .. Len(s) : s[k] = "summary_ok"
    BY <2>1, <2>2
  <2>5. FaultsGrow /\ faults'.corrupt # 0
    BY <1>3, FaultCounts
  <2> QED
    BY <2>2, <2>3, <2>4, <2>5, Zenon DEF Arrives
<1> QED
  BY <1>1, <1>2, <1>3, Zenon DEF Answer, Put

-----------------------------------------------------------------------------
(* The board's steps.                                                       *)

\* The board says s, which has a summary only when it jumps, and an
\* acceptance only for a block it has added.
Says(s) ==
  /\ Arrives(s)
  /\ \A i \in 1 .. Len(s) : s[i] = "summary_ok" => board'.pc = "jumped"
  /\ Count(s, "block_ack") + board.blocks <= board'.blocks

BoardSum ==
  /\ UNCHANGED host /\ FaultsGrow
  /\ HasFields(board', BoardFields) /\ board'.blocks \in Nat /\ board.blocks <= board'.blocks
  /\ BoardChecks'
  /\ board.pc # "jumped"
  /\ UNCHANGED b2h \/ \E s \in Seq(Messages) : Says(s)

LEMMA CountOfNone ==
  ASSUME NEW s, NEW x, \A i \in 1 .. Len(s) : s[i] # x
  PROVE  Count(s, x) = 0
<1>1. Places(s, x) = {}
  BY DEF Places
<1> QED
  BY <1>1, FS_EmptySet DEF Count

\* The board says one thing, and no more than that.
LEMMA SaysOne ==
  ASSUME LoaderShape, NEW x \in Messages \ {"summary_ok", "block_ack"}, Answer(<<x>>),
         board'.blocks = board.blocks
  PROVE  FaultsGrow /\ \E s \in Seq(Messages) : Says(s)
<1> DEFINE s == <<x>>
<1>1. s \in Seq(Messages) /\ \A i \in 1 .. Len(s) : s[i] # "summary_ok" /\ s[i] # "block_ack"
  OBVIOUS
<1>2. Answer(s)
  OBVIOUS
<1> HIDE DEF s
<1>3. Count(s, "block_ack") = 0
  BY <1>1, CountOfNone
<1>4. Count(s, "block_ack") + board.blocks <= board'.blocks
  BY <1>3 DEF LoaderShape
<1> QED
  BY <1>1, <1>2, <1>4, AnswerArrives, Zenon DEF Says

LEMMA SaysAccepted ==
  ASSUME LoaderShape, Answer(<<"ack", "block_ack">>), board'.blocks = board.blocks + 1
  PROVE  FaultsGrow /\ \E s \in Seq(Messages) : Says(s)
<1> DEFINE s == <<"ack", "block_ack">>
<1>1. s \in Seq(Messages) /\ \A i \in 1 .. Len(s) : s[i] # "summary_ok"
  BY DEF Messages, Replies
<1>2. Places(s, "block_ack") = {2}
  BY DEF Places
<1>3. Answer(s)
  OBVIOUS
<1> HIDE DEF s
<1>4. Count(s, "block_ack") = 1
  BY <1>2, FS_Singleton DEF Count
<1>5. Count(s, "block_ack") + board.blocks <= board'.blocks
  BY <1>4 DEF LoaderShape
<1> QED
  BY <1>1, <1>3, <1>5, AnswerArrives, Zenon DEF Says

LEMMA SaysRejected ==
  ASSUME LoaderShape, Answer(<<"ack", "block_nack">>), board'.blocks = board.blocks
  PROVE  FaultsGrow /\ \E s \in Seq(Messages) : Says(s)
<1> DEFINE s == <<"ack", "block_nack">>
<1>1. s \in Seq(Messages) /\ \A i \in 1 .. Len(s) : s[i] # "summary_ok" /\ s[i] # "block_ack"
  BY DEF Messages, Replies
<1>2. Answer(s)
  OBVIOUS
<1> HIDE DEF s
<1>3. Count(s, "block_ack") = 0
  BY <1>1, CountOfNone
<1>4. Count(s, "block_ack") + board.blocks <= board'.blocks
  BY <1>3 DEF LoaderShape
<1> QED
  BY <1>1, <1>2, <1>4, AnswerArrives, Zenon DEF Says

LEMMA SaysDone ==
  ASSUME LoaderShape, Answer(<<"summary_ok", "done">>), board'.blocks = board.blocks,
         board'.pc = "jumped"
  PROVE  FaultsGrow /\ \E s \in Seq(Messages) : Says(s)
<1> DEFINE s == <<"summary_ok", "done">>
<1>1. s \in Seq(Messages) /\ \A i \in 1 .. Len(s) : s[i] # "block_ack"
  BY DEF Messages, Events, Text
<1>2. Answer(s)
  OBVIOUS
<1> HIDE DEF s
<1>3. Count(s, "block_ack") = 0
  BY <1>1, CountOfNone
<1>4. Count(s, "block_ack") + board.blocks <= board'.blocks
  BY <1>3 DEF LoaderShape
<1> QED
  BY <1>1, <1>2, <1>4, AnswerArrives, Zenon DEF Says

\* A block begins, or there is none left.
LEMMA BlockBegins ==
  ASSUME NEW b, HasFields(b, BoardFields), ~(b.size > MaxSize),
         board' = BeginBlock(b)
  PROVE  /\ HasFields(board', BoardFields) /\ board'.blocks = b.blocks
         /\ BoardChecks'
<1>1. CASE b.accepted = b.size
  <2>1. board' = [b EXCEPT !.pc = "verify"]
    BY <1>1 DEF BeginBlock
  <2> QED
    BY <1>1, <2>1 DEF HasFields, BoardFields, BoardChecks
<1>2. CASE b.accepted # b.size
  <2>1. board' = [b EXCEPT !.pc = "data", !.want = Want(b.size, b.accepted), !.got = 0, !.bsum = 0,
                           !.word = <<>>, !.start = b.at]
    BY <1>2 DEF BeginBlock
  <2> QED
    BY <1>2, <2>1 DEF HasFields, BoardFields, BoardChecks
<1> QED
  BY <1>1, <1>2

\* A step before the verification that changes no count.
LEMMA BoardSumOf ==
  ASSUME LoaderShape, HasFields(board', BoardFields), board'.blocks = board.blocks,
         BoardChecks', board.pc # "jumped", UNCHANGED host, FaultsGrow,
         UNCHANGED b2h \/ \E s \in Seq(Messages) : Says(s)
  PROVE  BoardSum
BY DEF LoaderShape, BoardSum

LEMMA BoardBootSum ==
  ASSUME LoaderShape, BoardBoot
  PROVE  BoardSum
<1>1. board' = [board EXCEPT !.pc = "magic"] /\ board.pc = "boot" /\ UNCHANGED host
  BY DEF BoardBoot
<1>2. HasFields(board', BoardFields) /\ board'.blocks = board.blocks /\ BoardChecks'
  BY <1>1 DEF LoaderShape, HasFields, BoardFields, BoardChecks
<1>3. Answer(<<"ready">>) /\ "ready" \in Messages \ {"summary_ok", "block_ack"}
  BY Zenon DEF BoardBoot, Messages, Events
<1>4. FaultsGrow /\ \E s \in Seq(Messages) : Says(s)
  BY <1>2, <1>3, SaysOne
<1> QED
  BY <1>1, <1>2, <1>4, BoardSumOf

LEMMA RecvMagicSum ==
  ASSUME LoaderShape, RecvMagic
  PROVE  BoardSum
<1>1. PICK n : /\ board' = [board EXCEPT !.sync = n, !.pc = IF n = Len(Magic) THEN "size" ELSE @]
               /\ board.pc = "magic" /\ UNCHANGED <<b2h, faults, host>>
  BY Zenon DEF RecvMagic
<1>2. HasFields(board', BoardFields) /\ board'.blocks = board.blocks
      /\ board'.pc \in {"magic", "size"}
  BY <1>1 DEF LoaderShape, HasFields, BoardFields
<1>3. BoardChecks'
  BY <1>2 DEF BoardChecks
<1> QED
  BY <1>1, <1>2, <1>3, SameFaults, BoardSumOf

LEMMA RecvSizeSum ==
  ASSUME LoaderShape, RecvSize
  PROVE  BoardSum
<1>1. PICK w : /\ board' = IF Len(w) < Word THEN [board EXCEPT !.word = w]
                           ELSE [board EXCEPT !.word = <<>>, !.size = ValueOf(w), !.pc = "sum"]
               /\ board.pc = "size" /\ UNCHANGED <<b2h, faults, host>>
  BY Zenon DEF RecvSize
<1>2. HasFields(board', BoardFields) /\ board'.blocks = board.blocks /\ board'.pc \in {"size", "sum"}
  <2>1. CASE Len(w) < Word
    BY <1>1, <2>1 DEF LoaderShape, HasFields, BoardFields
  <2>2. CASE ~(Len(w) < Word)
    BY <1>1, <2>2 DEF LoaderShape, HasFields, BoardFields
  <2> QED
    BY <2>1, <2>2, Zenon
<1>3. BoardChecks'
  BY <1>2 DEF BoardChecks
<1> QED
  BY <1>1, <1>2, <1>3, SameFaults, BoardSumOf

LEMMA RecvSumSum ==
  ASSUME LoaderShape, RecvSum
  PROVE  BoardSum
<1> DEFINE w == Append(board.word, Head(h2b))
<1>1. board.pc = "sum" /\ UNCHANGED host
  BY DEF RecvSum
<1>2. CASE Len(w) < Word
  <2>1. board' = [board EXCEPT !.word = w] /\ UNCHANGED <<b2h, faults>>
    BY <1>2, Zenon DEF RecvSum
  <2>2. HasFields(board', BoardFields) /\ board'.blocks = board.blocks /\ BoardChecks'
    BY <1>1, <2>1 DEF LoaderShape, HasFields, BoardFields, BoardChecks
  <2> QED
    BY <1>1, <2>1, <2>2, SameFaults, BoardSumOf
<1>3. CASE ~(Len(w) < Word) /\ board.size > MaxSize
  <2>1. board' = [board EXCEPT !.word = <<>>, !.pc = "failed"] /\ Answer(<<"bad">>)
    BY <1>3, Zenon DEF RecvSum
  <2>2. HasFields(board', BoardFields) /\ board'.blocks = board.blocks /\ BoardChecks'
    BY <1>1, <2>1 DEF LoaderShape, HasFields, BoardFields, BoardChecks
  <2>3. FaultsGrow /\ \E s \in Seq(Messages) : Says(s)
    BY <2>1, <2>2, SaysOne DEF Messages, Events
  <2> QED
    BY <1>1, <2>2, <2>3, BoardSumOf
<1>4. CASE ~(Len(w) < Word) /\ ~(board.size > MaxSize)
  <2> DEFINE b == [board EXCEPT !.word = <<>>, !.expect = ValueOf(w)]
  <2>1. board' = BeginBlock(b) /\ Answer(<<"load_start">>)
    BY <1>4, Zenon DEF RecvSum
  <2>2. HasFields(b, BoardFields) /\ b.size = board.size /\ b.blocks = board.blocks
    BY DEF LoaderShape, HasFields, BoardFields
  <2> HIDE DEF b
  <2>3. HasFields(board', BoardFields) /\ board'.blocks = board.blocks /\ BoardChecks'
    BY <1>4, <2>1, <2>2, BlockBegins
  <2>4. FaultsGrow /\ \E s \in Seq(Messages) : Says(s)
    BY <2>1, <2>3, SaysOne DEF Messages, Events
  <2> QED
    BY <1>1, <2>3, <2>4, BoardSumOf
<1> QED
  BY <1>2, <1>3, <1>4, Zenon

LEMMA RecvDataSum ==
  ASSUME LoaderShape, BoardChecks, RecvData
  PROVE  BoardSum
<1> DEFINE w == Append(board.word, Head(h2b))
           b == [board EXCEPT !.got = @ + 1, !.bsum = (@ + Head(h2b)) % Modulus]
<1>1. board.pc = "data" /\ UNCHANGED host
  BY DEF RecvData
<1>2. /\ HasFields(b, BoardFields) /\ b.size = board.size /\ b.blocks = board.blocks
      /\ b.pc = board.pc
  BY DEF LoaderShape, HasFields, BoardFields
<1>3. \/ board' = [b EXCEPT !.word = <<>>, !.mem = Store(b, w), !.at = @ + Word] /\ Answer(<<"ack">>)
      \/ board' = [b EXCEPT !.word = w] /\ UNCHANGED <<b2h, faults>>
  BY Zenon DEF RecvData
<1> HIDE DEF b, w
<1>4. /\ HasFields(board', BoardFields) /\ board'.blocks = board.blocks
      /\ board'.pc = "data" /\ board'.size = board.size
  <2>1. CASE board' = [b EXCEPT !.word = <<>>, !.mem = Store(b, w), !.at = @ + Word]
    BY <1>1, <1>2, <2>1 DEF HasFields, BoardFields
  <2>2. CASE board' = [b EXCEPT !.word = w]
    BY <1>1, <1>2, <2>2 DEF HasFields, BoardFields
  <2> QED
    BY <1>3, <2>1, <2>2, Zenon
<1>5. BoardChecks'
  BY <1>1, <1>4 DEF BoardChecks
<1>6. CASE Answer(<<"ack">>)
  <2>1. FaultsGrow /\ \E s \in Seq(Messages) : Says(s)
    BY <1>4, <1>6, SaysOne DEF Messages, Replies
  <2> QED
    BY <1>1, <1>4, <1>5, <2>1, BoardSumOf
<1>7. CASE UNCHANGED <<b2h, faults>>
  BY <1>1, <1>4, <1>5, <1>7, SameFaults, BoardSumOf
<1> QED
  BY <1>3, <1>6, <1>7, Zenon

LEMMA BlockDataDoneSum ==
  ASSUME LoaderShape, BoardChecks, BlockDataDone
  PROVE  BoardSum
<1>1. /\ board' = [board EXCEPT !.pc = "checksum"] /\ board.pc = "data"
      /\ UNCHANGED <<b2h, faults, host>>
  BY DEF BlockDataDone
<1>2. HasFields(board', BoardFields) /\ board'.blocks = board.blocks /\ BoardChecks'
  BY <1>1 DEF LoaderShape, HasFields, BoardFields, BoardChecks
<1> QED
  BY <1>1, <1>2, SameFaults, BoardSumOf

LEMMA RecvChecksumSum ==
  ASSUME LoaderShape, BoardChecks, RecvChecksum
  PROVE  BoardSum
<1> DEFINE w == Append(board.word, Head(h2b))
<1>1. board.pc = "checksum" /\ UNCHANGED host /\ ~(board.size > MaxSize)
  BY DEF RecvChecksum, BoardChecks
<1>2. CASE Len(w) < Word
  <2>1. board' = [board EXCEPT !.word = w] /\ UNCHANGED <<b2h, faults>>
    BY <1>2, Zenon DEF RecvChecksum
  <2>2. HasFields(board', BoardFields) /\ board'.blocks = board.blocks /\ BoardChecks'
    BY <1>1, <2>1 DEF LoaderShape, HasFields, BoardFields, BoardChecks
  <2> QED
    BY <1>1, <2>1, <2>2, SameFaults, BoardSumOf
<1>3. CASE ~(Len(w) < Word) /\ ValueOf(w) = board.bsum
  <2> DEFINE b == [board EXCEPT !.acc = (@ + board.bsum) % Modulus, !.accepted = @ + board.want,
                                !.blocks = @ + 1, !.retried = FALSE]
  <2>1. board' = BeginBlock(b) /\ Answer(<<"ack", "block_ack">>)
    BY <1>3, Zenon DEF RecvChecksum
  <2>2. HasFields(b, BoardFields) /\ b.size = board.size /\ b.blocks = board.blocks + 1
    BY DEF LoaderShape, HasFields, BoardFields
  <2> HIDE DEF b
  <2>3. HasFields(board', BoardFields) /\ board'.blocks = board.blocks + 1 /\ BoardChecks'
    BY <1>1, <2>1, <2>2, BlockBegins
  <2>4. FaultsGrow /\ \E s \in Seq(Messages) : Says(s)
    BY <2>1, <2>3, SaysAccepted
  <2> QED
    BY <1>1, <2>3, <2>4 DEF BoardSum, LoaderShape
<1>4. CASE ~(Len(w) < Word) /\ ValueOf(w) # board.bsum
  <2>1. /\ board' = [board EXCEPT !.pc = "data", !.want = ValueOf(w) % (Modulus \div Base),
                                  !.got = 0, !.bsum = 0, !.word = <<>>,
                                  !.at = board.start, !.retried = TRUE]
        /\ Answer(<<"ack", "block_nack">>)
    BY <1>4, Zenon DEF RecvChecksum
  <2>2. HasFields(board', BoardFields) /\ board'.blocks = board.blocks /\ BoardChecks'
    BY <1>1, <2>1 DEF LoaderShape, HasFields, BoardFields, BoardChecks
  <2>3. FaultsGrow /\ \E s \in Seq(Messages) : Says(s)
    BY <2>1, <2>2, SaysRejected
  <2> QED
    BY <1>1, <2>2, <2>3, BoardSumOf
<1> QED
  BY <1>2, <1>3, <1>4, Zenon

LEMMA BoardVerifySum ==
  ASSUME LoaderShape, BoardChecks, BoardVerify
  PROVE  BoardSum
<1>1. board.pc = "verify" /\ UNCHANGED host /\ ~(board.size > MaxSize) /\ board.accepted = board.size
  BY DEF BoardVerify, BoardChecks
<1>2. CASE board.acc = board.expect /\ SumOf(Image(board, board.size)) = board.acc
  <2>1. board' = [board EXCEPT !.pc = "jumped"] /\ Answer(<<"summary_ok", "done">>)
    BY <1>2, Zenon DEF BoardVerify
  <2>2. /\ HasFields(board', BoardFields) /\ board'.blocks = board.blocks /\ board'.pc = "jumped"
        /\ board'.size = board.size /\ board'.accepted = board.accepted
        /\ board'.acc = board.acc /\ board'.expect = board.expect /\ board'.mem = board.mem
    BY <2>1 DEF LoaderShape, HasFields, BoardFields
  <2>3. Image(board', board'.size) = Image(board, board.size)
    BY <2>2 DEF Image
  <2>4. BoardChecks'
    BY <1>1, <1>2, <2>2, <2>3 DEF BoardChecks
  <2>5. FaultsGrow /\ \E s \in Seq(Messages) : Says(s)
    BY <2>1, <2>2, SaysDone
  <2> QED
    BY <1>1, <2>2, <2>4, <2>5, BoardSumOf
<1>3. CASE ~(board.acc = board.expect /\ SumOf(Image(board, board.size)) = board.acc)
  <2>1. board' = [board EXCEPT !.pc = "failed"] /\ Answer(<<"bad">>)
    BY <1>3, Zenon DEF BoardVerify
  <2>2. HasFields(board', BoardFields) /\ board'.blocks = board.blocks /\ BoardChecks'
    BY <2>1 DEF LoaderShape, HasFields, BoardFields, BoardChecks
  <2>3. FaultsGrow /\ \E s \in Seq(Messages) : Says(s)
    BY <2>1, <2>2, SaysOne DEF Messages, Events
  <2> QED
    BY <1>1, <2>2, <2>3, BoardSumOf
<1> QED
  BY <1>2, <1>3, Zenon

LEMMA BoardRxTimeoutSum ==
  ASSUME LoaderShape, BoardRxTimeout
  PROVE  BoardSum
<1>1. /\ board' = [board EXCEPT !.pc = "failed"] /\ board.pc \in Reading /\ UNCHANGED host
      /\ Answer(<<"bad">>)
  BY Zenon DEF BoardRxTimeout, BoardReads
<1>2. /\ HasFields(board', BoardFields) /\ board'.blocks = board.blocks /\ BoardChecks'
      /\ board.pc # "jumped"
  BY <1>1 DEF LoaderShape, HasFields, BoardFields, BoardChecks, Reading
<1>3. FaultsGrow /\ \E s \in Seq(Messages) : Says(s)
  BY <1>1, <1>2, SaysOne DEF Messages, Events
<1> QED
  BY <1>1, <1>2, <1>3, BoardSumOf

LEMMA BoardStepSum ==
  ASSUME LoaderShape, BoardChecks, BoardStep
  PROVE  BoardSum
BY BoardBootSum, RecvMagicSum, RecvSizeSum, RecvSumSum, RecvDataSum, BlockDataDoneSum,
   RecvChecksumSum, BoardVerifySum, BoardRxTimeoutSum, Zenon DEF BoardStep

-----------------------------------------------------------------------------
(* The host's steps.                                                        *)

Hears ==
  /\ b2h # <<>> /\ b2h' = Tail(b2h) /\ host'.acks = host.acks
  /\ host'.summary = (host.summary \/ Head(b2h) = "summary_ok")
  /\ host'.replies = IF Head(b2h) \in {"block_ack", "block_nack"}
                     THEN Append(host.replies, Head(b2h)) ELSE host.replies

CountsReply ==
  /\ UNCHANGED b2h /\ host.replies # <<>> /\ host'.replies = Tail(host.replies)
  /\ host'.acks = host.acks + (IF Head(host.replies) = "block_ack" THEN 1 ELSE 0)
  /\ host'.summary = host.summary

Otherwise ==
  /\ UNCHANGED b2h /\ host'.replies = host.replies /\ host'.acks = host.acks
  /\ host'.summary = host.summary

HostSum ==
  /\ UNCHANGED board /\ FaultsGrow
  /\ HasFields(host', HostFields)
  /\ HostInOrder'
  /\ Hears \/ CountsReply \/ Otherwise

LEMMA SomeBlocks == Blocks \in Nat /\ Blocks >= 1
<1>1. Len(Payload) \in Nat /\ Len(Payload) >= 1 /\ BlockBytes \in Nat /\ BlockBytes >= 1
  BY LoaderAssumption
<1> QED
  BY <1>1 DEF Blocks

LEMMA Limits ==
  /\ HeaderTries \in Nat /\ HeaderTries >= 1 /\ ChecksumTries \in Nat /\ ChecksumTries >= 1
  /\ BlockTries \in Nat /\ BlockTries >= 1
BY LoaderAssumption

\* What of the host HostInOrder speaks about.
SameOrder(h, g) ==
  /\ h.pc = g.pc /\ h.blk = g.blk /\ h.attempt = g.attempt /\ h.try = g.try
  /\ h.headers = g.headers /\ h.acks = g.acks /\ h.sent = g.sent
  /\ h.ackTimeout = g.ackTimeout /\ h.retryHit = g.retryHit

\* What has been read changes nothing in the order of things.
LEMMA IngestIs ==
  ASSUME LoaderShape, NEW x \in Messages
  PROVE  LET h == Ingest(host, x) IN
         /\ HasFields(h, HostFields) /\ SameOrder(h, host) /\ h.off = host.off
         /\ h.summary = (host.summary \/ x = "summary_ok")
         /\ h.replies = IF x \in {"block_ack", "block_nack"} THEN Append(host.replies, x) ELSE host.replies
<1> DEFINE credit == IF x = "ack" THEN host.credit + 1 ELSE host.credit
           replies == IF x \in {"block_ack", "block_nack"} THEN Append(host.replies, x) ELSE host.replies
           ready == host.ready \/ x = "ready"
           started == host.started \/ x = "load_start"
           bad == host.bad \/ x = "bad"
           summary == host.summary \/ x = "summary_ok"
           done == host.done \/ x = "done"
           h == Ingest(host, x)
<1>1. h = [host EXCEPT !.credit = credit, !.replies = replies, !.ready = ready,
                       !.started = started, !.bad = bad, !.summary = summary, !.done = done]
  BY Zenon DEF Ingest
<1> HIDE DEF h, credit, replies, ready, started, bad, summary, done
<1>2. HasFields(h, HostFields) /\ SameOrder(h, host) /\ h.off = host.off
  BY <1>1 DEF LoaderShape, HasFields, HostFields, SameOrder
<1>3. h.summary = summary /\ h.replies = replies
  BY <1>1 DEF LoaderShape, HasFields, HostFields
<1> QED
  BY <1>2, <1>3, Zenon DEF h, replies, summary

LEMMA HeadIsMessage ==
  ASSUME LoaderShape, b2h # <<>>
  PROVE  Head(b2h) \in Messages
BY HeadTailProperties DEF LoaderShape

\* With its end the image is sent, or given up.
LEMMA FinishedIs ==
  ASSUME NEW h, HasFields(h, HostFields)
  PROVE  LET g == Finished(h) IN
         /\ HasFields(g, HostFields) /\ g.sent = TRUE /\ g.pc \in {"end", "loop"}
         /\ g.blk = h.blk /\ g.attempt = h.attempt /\ g.try = h.try /\ g.headers = h.headers
         /\ g.acks = h.acks /\ g.ackTimeout = h.ackTimeout /\ g.retryHit = h.retryHit
         /\ g.summary = h.summary /\ g.replies = h.replies
BY DEF Finished, HasFields, HostFields

LEMMA TimedOutIs ==
  ASSUME LoaderShape, HostInOrder, host' = TimedOut(host)
  PROVE  /\ HasFields(host', HostFields) /\ HostInOrder'
         /\ host'.replies = host.replies /\ host'.acks = host.acks /\ host'.summary = host.summary
<1> DEFINE h == [host EXCEPT !.ackTimeout = TRUE]
<1>1. /\ HasFields(h, HostFields) /\ h.ackTimeout = TRUE /\ h.blk = host.blk /\ h.attempt = host.attempt
      /\ h.try = host.try /\ h.headers = host.headers /\ h.acks = host.acks
      /\ h.summary = host.summary /\ h.replies = host.replies
  BY DEF LoaderShape, HasFields, HostFields
<1>2. host' = Finished(h)
  BY DEF TimedOut
<1> HIDE DEF h
<1>3. /\ HasFields(host', HostFields) /\ host'.sent = TRUE /\ host'.pc \in {"end", "loop"}
      /\ host'.blk = h.blk /\ host'.attempt = h.attempt /\ host'.try = h.try
      /\ host'.headers = h.headers /\ host'.acks = h.acks /\ host'.ackTimeout = h.ackTimeout
      /\ host'.summary = h.summary /\ host'.replies = h.replies
  BY <1>1, <1>2, FinishedIs, Zenon
<1>4. HostInOrder'
  <2>1. HostTypeOK'
    <3>1. {"end", "loop"} \subseteq HostPcs
      BY DEF HostPcs
    <3> QED
      BY <1>1, <1>3, <3>1 DEF HostInOrder, HostTypeOK
  <2>2. host'.pc \notin Sending
    BY <1>3 DEF Sending
  <2>3. host'.acks = host'.blk
    BY <1>1, <1>3 DEF HostInOrder
  <2> QED
    BY <1>1, <1>3, <2>1, <2>2, <2>3, Zenon DEF HostInOrder
<1> QED
  BY <1>1, <1>3, <1>4

LEMMA OrderKept ==
  ASSUME HostInOrder, SameOrder(host', host)
  PROVE  HostInOrder'
BY DEF HostInOrder, HostTypeOK, SameOrder

\* A step within a block.
SameBlock(h, g) ==
  /\ h.blk = g.blk /\ h.headers = g.headers /\ h.acks = g.acks /\ h.sent = g.sent
  /\ h.ackTimeout = g.ackTimeout /\ h.retryHit = g.retryHit

LEMMA BlockGoesOn ==
  ASSUME HostInOrder, host.pc \in Sending, SameBlock(host', host), host'.pc \in Sending,
         host'.attempt \in 0 .. BlockTries - 1, host'.try \in 0 .. ChecksumTries - 1
  PROVE  HostInOrder'
BY DEF HostInOrder, HostTypeOK, SameBlock, HostPcs, Sending

\* The end of the invocation.
LEMMA HostEnds ==
  ASSUME HostInOrder, SameBlock(host', host), host'.attempt = host.attempt, host'.try = host.try,
         host'.pc = "end"
  PROVE  HostInOrder'
BY DEF HostInOrder, HostTypeOK, SameBlock, HostPcs, Sending

LEMMA PayloadStarts ==
  ASSUME NEW h, HasFields(h, HostFields), HostInOrder, SameOrder(h, host), host.pc = "loop", ~host.sent,
         host' = Started(h)
  PROVE  /\ HasFields(host', HostFields) /\ HostInOrder'
         /\ host'.replies = h.replies /\ host'.acks = h.acks /\ host'.summary = h.summary
<1>1. /\ HasFields(host', HostFields) /\ host'.pc = "chunk" /\ host'.blk = 0 /\ host'.attempt = 0
      /\ host'.try = 0 /\ host'.headers = h.headers /\ host'.acks = h.acks /\ host'.sent = h.sent
      /\ host'.ackTimeout = h.ackTimeout /\ host'.retryHit = h.retryHit
      /\ host'.replies = h.replies /\ host'.summary = h.summary
  BY DEF Started, HasFields, HostFields
<1>2. HostInOrder'
  BY <1>1, SomeBlocks, Limits DEF SameOrder, HostInOrder, HostTypeOK, HostPcs, Sending
<1> QED
  BY <1>1, <1>2

LEMMA HostReadSum ==
  ASSUME LoaderShape, HostInOrder, HostRead
  PROVE  HostSum
<1> DEFINE x == Head(b2h)
           h == Ingest(host, x)
<1>1. x \in Messages /\ b2h # <<>> /\ b2h' = Tail(b2h) /\ UNCHANGED board /\ host.pc = "loop"
  BY HeadIsMessage DEF HostRead
<1>2. /\ HasFields(h, HostFields) /\ SameOrder(h, host)
      /\ h.summary = (host.summary \/ x = "summary_ok")
      /\ h.replies = IF x \in {"block_ack", "block_nack"} THEN Append(host.replies, x) ELSE host.replies
  BY <1>1, IngestIs, Zenon
<1>3. \/ h.headers = 0 /\ host' = [h EXCEPT !.headers = 1] /\ Send(Header)
      \/ UNCHANGED <<h2b, faults>> /\ (\/ host' = [h EXCEPT !.pc = "end"]
                                       \/ ~h.sent /\ host' = Started(h)
                                       \/ host' = h)
  BY Zenon DEF HostRead, PayloadMayStart
<1> HIDE DEF h
<1>4. FaultsGrow
  BY <1>3, SendCounts, SameFaults, Zenon
<1>5. /\ HasFields(host', HostFields) /\ HostInOrder'
      /\ host'.replies = h.replies /\ host'.acks = h.acks /\ host'.summary = h.summary
  <2>1. CASE h.headers = 0 /\ host' = [h EXCEPT !.headers = 1]
    <3>1. /\ HasFields(host', HostFields) /\ host'.headers = 1 /\ host'.pc = h.pc /\ host'.blk = h.blk
          /\ host'.attempt = h.attempt /\ host'.try = h.try /\ host'.acks = h.acks
          /\ host'.sent = h.sent /\ host'.ackTimeout = h.ackTimeout /\ host'.retryHit = h.retryHit
          /\ host'.replies = h.replies /\ host'.summary = h.summary
      BY <1>2, <2>1 DEF HasFields, HostFields
    <3>2. HostInOrder'
      BY <1>2, <3>1, Limits DEF SameOrder, HostInOrder, HostTypeOK
    <3> QED
      BY <3>1, <3>2
  <2>2. CASE host' = [h EXCEPT !.pc = "end"]
    <3>1. /\ HasFields(host', HostFields) /\ host'.pc = "end" /\ SameBlock(host', h)
          /\ host'.attempt = h.attempt /\ host'.try = h.try
          /\ host'.replies = h.replies /\ host'.acks = h.acks /\ host'.summary = h.summary
      BY <1>2, <2>2 DEF HasFields, HostFields, SameBlock
    <3>2. HostInOrder'
      BY <1>2, <3>1, HostEnds DEF SameOrder, SameBlock
    <3> QED
      BY <3>1, <3>2
  <2>3. CASE ~h.sent /\ host' = Started(h)
    <3>1. ~host.sent
      BY <1>2, <2>3, Zenon DEF SameOrder
    <3> QED
      BY <1>1, <1>2, <2>3, <3>1, PayloadStarts
  <2>4. CASE host' = h
    BY <1>2, <2>4, OrderKept
  <2> QED
    BY <1>3, <2>1, <2>2, <2>3, <2>4, Zenon
<1>6. Hears
  BY <1>1, <1>2, <1>5, Zenon DEF Hears, SameOrder
<1> QED
  BY <1>1, <1>4, <1>5, <1>6, Zenon DEF HostSum

\* A step that neither reads nor counts.
LEMMA HostSumOf ==
  ASSUME FaultsGrow, UNCHANGED <<board, b2h>>, HasFields(host', HostFields), HostInOrder',
         host'.replies = host.replies, host'.acks = host.acks, host'.summary = host.summary
  PROVE  HostSum
BY DEF HostSum, Otherwise

LEMMA HostHeaderAgainSum ==
  ASSUME LoaderShape, HostInOrder, HostHeaderAgain
  PROVE  HostSum
<1>1. /\ host' = [host EXCEPT !.headers = @ + 1] /\ host.headers < HeaderTries
      /\ UNCHANGED <<b2h, board>>
  BY DEF HostHeaderAgain
<1>2. FaultsGrow
  BY SendCounts, FaultCounts, Zenon DEF HostHeaderAgain
<1>3. /\ HasFields(host', HostFields) /\ host'.headers = host.headers + 1
      /\ host'.pc = host.pc /\ host'.blk = host.blk /\ host'.attempt = host.attempt
      /\ host'.try = host.try /\ host'.acks = host.acks /\ host'.sent = host.sent
      /\ host'.ackTimeout = host.ackTimeout /\ host'.retryHit = host.retryHit
      /\ host'.replies = host.replies /\ host'.summary = host.summary
  BY <1>1 DEF LoaderShape, HasFields, HostFields
<1>4. HostInOrder'
  BY <1>1, <1>3, Limits DEF HostInOrder, HostTypeOK
<1> QED
  BY <1>1, <1>2, <1>3, <1>4, HostSumOf

LEMMA HostBlindPayloadSum ==
  ASSUME LoaderShape, HostInOrder, HostBlindPayload
  PROVE  HostSum
<1>1. /\ host.pc = "loop" /\ ~host.sent /\ host' = Started(host) /\ TimeIsUp
      /\ UNCHANGED <<b2h, board>>
  BY Zenon DEF HostBlindPayload, PayloadMayStart
<1>2. SameOrder(host, host) /\ HasFields(host, HostFields)
  BY DEF SameOrder, LoaderShape
<1>3. /\ HasFields(host', HostFields) /\ HostInOrder'
      /\ host'.replies = host.replies /\ host'.acks = host.acks /\ host'.summary = host.summary
  BY <1>1, <1>2, PayloadStarts
<1> QED
  BY <1>1, <1>3, WaitsCount, HostSumOf

LEMMA HostDeadlineSum ==
  ASSUME LoaderShape, HostInOrder, HostDeadline
  PROVE  HostSum
<1>1. /\ host' = [host EXCEPT !.pc = "end"] /\ TimeIsUp /\ UNCHANGED <<b2h, board>>
  BY Zenon DEF HostDeadline
<1>2. /\ HasFields(host', HostFields) /\ host'.pc = "end" /\ SameBlock(host', host)
      /\ host'.attempt = host.attempt /\ host'.try = host.try
      /\ host'.replies = host.replies /\ host'.acks = host.acks /\ host'.summary = host.summary
  BY <1>1 DEF LoaderShape, HasFields, HostFields, SameBlock
<1>3. HostInOrder'
  BY <1>2, HostEnds
<1> QED
  BY <1>1, <1>2, <1>3, WaitsCount, HostSumOf

LEMMA SendChunkSum ==
  ASSUME LoaderShape, HostInOrder, SendChunk
  PROVE  HostSum
<1>1. /\ host.pc = "chunk" /\ host' = [host EXCEPT !.off = @ + Word, !.pc = "ack"]
      /\ UNCHANGED <<b2h, board>>
  BY DEF SendChunk
<1>2. FaultsGrow
  BY SendCounts, Zenon DEF SendChunk
<1>3. /\ HasFields(host', HostFields) /\ host'.pc = "ack" /\ SameBlock(host', host)
      /\ host'.attempt = host.attempt /\ host'.try = host.try
      /\ host'.replies = host.replies /\ host'.acks = host.acks /\ host'.summary = host.summary
  BY <1>1 DEF LoaderShape, HasFields, HostFields, SameBlock
<1>4. HostInOrder'
  BY <1>1, <1>3, BlockGoesOn DEF Sending, HostInOrder, HostTypeOK
<1> QED
  BY <1>1, <1>2, <1>3, <1>4, HostSumOf

LEMMA SendChecksumSum ==
  ASSUME LoaderShape, HostInOrder, SendChecksum
  PROVE  HostSum
<1>1. /\ host.pc = "checksum" /\ host' = [host EXCEPT !.pc = "checksum_ack"]
      /\ UNCHANGED <<b2h, board>>
  BY DEF SendChecksum
<1>2. FaultsGrow
  BY SendCounts, Zenon DEF SendChecksum
<1>3. /\ HasFields(host', HostFields) /\ host'.pc = "checksum_ack" /\ SameBlock(host', host)
      /\ host'.attempt = host.attempt /\ host'.try = host.try
      /\ host'.replies = host.replies /\ host'.acks = host.acks /\ host'.summary = host.summary
  BY <1>1 DEF LoaderShape, HasFields, HostFields, SameBlock
<1>4. HostInOrder'
  BY <1>1, <1>3, BlockGoesOn DEF Sending, HostInOrder, HostTypeOK
<1> QED
  BY <1>1, <1>2, <1>3, <1>4, HostSumOf

\* Behind a chunk comes the next, or the checksum.
LEMMA AfterChunkIs ==
  ASSUME NEW h, HasFields(h, HostFields)
  PROVE  LET g == AfterChunk(h) IN
         /\ HasFields(g, HostFields) /\ g.pc \in {"chunk", "checksum"} /\ SameBlock(g, h)
         /\ g.attempt = h.attempt /\ g.try = h.try
         /\ g.replies = h.replies /\ g.summary = h.summary
BY DEF AfterChunk, HasFields, HostFields, SameBlock

LEMMA TakeCreditSum ==
  ASSUME LoaderShape, HostInOrder, TakeCredit
  PROVE  HostSum
<1> DEFINE h == [host EXCEPT !.credit = @ - 1]
<1>1. /\ host.pc \in {"ack", "checksum_ack"} /\ UNCHANGED <<h2b, b2h, faults, board>>
      /\ host' = IF h.pc = "ack" THEN AfterChunk(h) ELSE [h EXCEPT !.pc = "reply"]
  BY Zenon DEF TakeCredit
<1>2. /\ HasFields(h, HostFields) /\ SameBlock(h, host) /\ h.attempt = host.attempt /\ h.try = host.try
      /\ h.replies = host.replies /\ h.summary = host.summary
  BY DEF LoaderShape, HasFields, HostFields, SameBlock
<1> HIDE DEF h
<1>3. /\ HasFields(host', HostFields) /\ host'.pc \in {"chunk", "checksum", "reply"}
      /\ SameBlock(host', h) /\ host'.attempt = h.attempt /\ host'.try = h.try
      /\ host'.replies = h.replies /\ host'.summary = h.summary
  <2>1. CASE host' = AfterChunk(h)
    BY <1>2, <2>1, AfterChunkIs
  <2>2. CASE host' = [h EXCEPT !.pc = "reply"]
    BY <1>2, <2>2 DEF HasFields, HostFields, SameBlock
  <2> QED
    BY <1>1, <2>1, <2>2, Zenon
<1>4. SameBlock(host', host) /\ host'.acks = host.acks
  BY <1>2, <1>3 DEF SameBlock
<1>5. HostInOrder'
  BY <1>1, <1>2, <1>3, <1>4, BlockGoesOn DEF Sending, HostInOrder, HostTypeOK
<1> QED
  BY <1>1, <1>2, <1>3, <1>4, <1>5, SameFaults, HostSumOf

LEMMA ReadMoreSum ==
  ASSUME LoaderShape, HostInOrder, ReadMore
  PROVE  HostSum
<1> DEFINE x == Head(b2h)
<1>1. /\ b2h # <<>> /\ b2h' = Tail(b2h) /\ UNCHANGED <<h2b, faults, board>>
      /\ host' = Ingest(host, x)
  BY Zenon DEF ReadMore
<1>2. /\ HasFields(host', HostFields) /\ SameOrder(host', host)
      /\ host'.summary = (host.summary \/ x = "summary_ok")
      /\ host'.replies = IF x \in {"block_ack", "block_nack"} THEN Append(host.replies, x)
                         ELSE host.replies
  BY <1>1, HeadIsMessage, IngestIs, Zenon
<1>3. HostInOrder' /\ FaultsGrow
  BY <1>1, <1>2, OrderKept, SameFaults
<1>4. Hears
  BY <1>1, <1>2, Zenon DEF Hears, SameOrder
<1> QED
  BY <1>1, <1>2, <1>3, <1>4, Zenon DEF HostSum

LEMMA AckMissedSum ==
  ASSUME LoaderShape, HostInOrder, AckMissed
  PROVE  HostSum
<1>1. /\ host.pc \in {"ack", "checksum_ack"} /\ TimeIsUp /\ UNCHANGED <<h2b, b2h, board>>
      /\ \/ host' = TimedOut(host)
         \/ host' = AfterChunk(host)
         \/ host' = [host EXCEPT !.pc = "checksum_reply"]
  BY Zenon DEF AckMissed
<1>2. CASE host' = TimedOut(host)
  BY <1>1, <1>2, TimedOutIs, WaitsCount, HostSumOf
<1>3. CASE host' = AfterChunk(host) \/ host' = [host EXCEPT !.pc = "checksum_reply"]
  <2>1. /\ HasFields(host', HostFields) /\ host'.pc \in {"chunk", "checksum", "checksum_reply"}
        /\ SameBlock(host', host) /\ host'.attempt = host.attempt /\ host'.try = host.try
        /\ host'.replies = host.replies /\ host'.summary = host.summary
    <3>1. CASE host' = AfterChunk(host)
      BY <3>1, AfterChunkIs DEF LoaderShape
    <3>2. CASE host' = [host EXCEPT !.pc = "checksum_reply"]
      BY <3>2 DEF LoaderShape, HasFields, HostFields, SameBlock
    <3> QED
      BY <1>3, <3>1, <3>2
  <2>2. HostInOrder' /\ host'.acks = host.acks
    BY <1>1, <2>1, BlockGoesOn DEF Sending, HostInOrder, HostTypeOK, SameBlock
  <2> QED
    BY <1>1, <2>1, <2>2, WaitsCount, HostSumOf
<1> QED
  BY <1>1, <1>2, <1>3, Zenon

LEMMA TakeReplySum ==
  ASSUME LoaderShape, HostInOrder, TakeReply
  PROVE  HostSum
<1> DEFINE r == Head(host.replies)
           h == [host EXCEPT !.replies = Tail(@)]
           n == [h EXCEPT !.acks = @ + 1, !.blk = @ + 1, !.off = 0, !.attempt = 0, !.try = 0]
<1>1. /\ host.pc \in {"checksum_reply", "reply"} /\ host.replies # <<>>
      /\ host' = OnReply(h, r) /\ UNCHANGED <<h2b, b2h, faults, board>>
  BY Zenon DEF TakeReply
<1>2. /\ HasFields(h, HostFields) /\ SameBlock(h, host) /\ h.attempt = host.attempt /\ h.try = host.try
      /\ h.replies = Tail(host.replies) /\ h.summary = host.summary
  BY DEF LoaderShape, HasFields, HostFields, SameBlock
<1>3. host.acks \in Nat /\ host.acks = host.blk /\ host.blk < Blocks /\ host.blk \in 0 .. Blocks /\ ~host.sent
  BY <1>1 DEF LoaderShape, HostInOrder, HostTypeOK, Sending
<1> HIDE DEF h
<1>4. CASE r = "block_ack"
  <2>1. /\ HasFields(n, HostFields) /\ n.acks = host.acks + 1 /\ n.blk = host.blk + 1
        /\ n.attempt = 0 /\ n.try = 0 /\ n.headers = host.headers /\ n.sent = host.sent
        /\ n.replies = Tail(host.replies) /\ n.summary = host.summary
    BY <1>2 DEF HasFields, HostFields, SameBlock
  <2>2. host' = IF n.blk = Blocks THEN Finished(n) ELSE [n EXCEPT !.pc = "chunk"]
    BY <1>1, <1>4, Zenon DEF OnReply
  <2> HIDE DEF n
  <2>3. /\ HasFields(host', HostFields) /\ host'.acks = n.acks /\ host'.blk = n.blk
        /\ host'.attempt = 0 /\ host'.try = 0 /\ host'.headers = host.headers
        /\ host'.replies = n.replies /\ host'.summary = n.summary
        /\ IF n.blk = Blocks THEN host'.pc \in {"end", "loop"} /\ host'.sent = TRUE
           ELSE host'.pc = "chunk" /\ host'.sent = n.sent
    <3>1. CASE n.blk = Blocks
      BY <2>1, <2>2, <3>1, FinishedIs
    <3>2. CASE n.blk # Blocks
      BY <2>1, <2>2, <3>2 DEF HasFields, HostFields
    <3> QED
      BY <3>1, <3>2
  <2>4. HostInOrder'
    <3>1. CASE n.blk = Blocks
      BY <1>3, <2>1, <2>3, <3>1, SomeBlocks, Limits DEF HostInOrder, HostTypeOK, HostPcs, Sending
    <3>2. CASE n.blk # Blocks
      BY <1>3, <2>1, <2>3, <3>2, SomeBlocks, Limits DEF HostInOrder, HostTypeOK, HostPcs, Sending
    <3> QED
      BY <3>1, <3>2
  <2>5. CountsReply
    BY <1>1, <1>4, <2>1, <2>3 DEF CountsReply
  <2> QED
    BY <1>1, <2>3, <2>4, <2>5, SameFaults DEF HostSum
<1>5. CASE r # "block_ack"
  <2>1. host' = [h EXCEPT !.pc = "drain"]
    BY <1>1, <1>5, Zenon DEF OnReply
  <2>2. /\ HasFields(host', HostFields) /\ host'.pc = "drain" /\ SameBlock(host', host)
        /\ host'.attempt = host.attempt /\ host'.try = host.try
        /\ host'.replies = Tail(host.replies) /\ host'.summary = host.summary
    BY <1>2, <2>1 DEF HasFields, HostFields, SameBlock
  <2>3. HostInOrder'
    BY <1>1, <2>2, BlockGoesOn DEF Sending, HostInOrder, HostTypeOK
  <2>4. CountsReply
    BY <1>1, <1>3, <1>5, <2>2 DEF CountsReply, SameBlock
  <2> QED
    BY <1>1, <2>2, <2>3, <2>4, SameFaults DEF HostSum
<1> QED
  BY <1>4, <1>5

LEMMA ReplyMissedSum ==
  ASSUME LoaderShape, HostInOrder, ReplyMissed
  PROVE  HostSum
<1>1. /\ host.pc \in {"checksum_reply", "reply"} /\ TimeIsUp /\ UNCHANGED <<h2b, b2h, board>>
      /\ \/ host' = TimedOut(host)
         \/ host.try + 1 < ChecksumTries /\ host' = [host EXCEPT !.try = @ + 1, !.pc = "checksum"]
         \/ host' = [host EXCEPT !.pc = "reply"]
  BY Zenon DEF ReplyMissed
<1>2. CASE host' = TimedOut(host)
  BY <1>1, <1>2, TimedOutIs, WaitsCount, HostSumOf
<1>3. CASE host.try + 1 < ChecksumTries /\ host' = [host EXCEPT !.try = @ + 1, !.pc = "checksum"]
  <2>1. /\ HasFields(host', HostFields) /\ host'.pc = "checksum" /\ SameBlock(host', host)
        /\ host'.attempt = host.attempt /\ host'.try = host.try + 1
        /\ host'.replies = host.replies /\ host'.acks = host.acks /\ host'.summary = host.summary
    BY <1>3 DEF LoaderShape, HasFields, HostFields, SameBlock
  <2>2. host'.attempt \in 0 .. BlockTries - 1 /\ host'.try \in 0 .. ChecksumTries - 1
    BY <1>3, <2>1, Limits DEF HostInOrder, HostTypeOK
  <2>3. HostInOrder'
    BY <1>1, <2>1, <2>2, BlockGoesOn DEF Sending
  <2> QED
    BY <1>1, <2>1, <2>3, WaitsCount, HostSumOf
<1>4. CASE host' = [host EXCEPT !.pc = "reply"]
  <2>1. /\ HasFields(host', HostFields) /\ host'.pc = "reply" /\ SameBlock(host', host)
        /\ host'.attempt = host.attempt /\ host'.try = host.try
        /\ host'.replies = host.replies /\ host'.acks = host.acks /\ host'.summary = host.summary
    BY <1>4 DEF LoaderShape, HasFields, HostFields, SameBlock
  <2>2. HostInOrder'
    BY <1>1, <2>1, BlockGoesOn DEF Sending, HostInOrder, HostTypeOK
  <2> QED
    BY <1>1, <2>1, <2>2, WaitsCount, HostSumOf
<1> QED
  BY <1>1, <1>2, <1>3, <1>4, Zenon

LEMMA DrainQuietSum ==
  ASSUME LoaderShape, HostInOrder, DrainQuiet
  PROVE  HostSum
<1> DEFINE h == [host EXCEPT !.retryHit = TRUE]
<1>1. /\ host.pc = "drain" /\ TimeIsUp /\ UNCHANGED <<h2b, b2h, board>>
      /\ host' = IF host.attempt + 1 < BlockTries
                 THEN [host EXCEPT !.attempt = @ + 1, !.off = 0, !.try = 0, !.pc = "chunk"]
                 ELSE Finished(h)
  BY Zenon DEF DrainQuiet
<1>2. CASE host.attempt + 1 < BlockTries
  <2>1. host' = [host EXCEPT !.attempt = @ + 1, !.off = 0, !.try = 0, !.pc = "chunk"]
    BY <1>1, <1>2
  <2>2. /\ HasFields(host', HostFields) /\ host'.pc = "chunk" /\ SameBlock(host', host)
        /\ host'.attempt = host.attempt + 1 /\ host'.try = 0
        /\ host'.replies = host.replies /\ host'.acks = host.acks /\ host'.summary = host.summary
    BY <2>1 DEF LoaderShape, HasFields, HostFields, SameBlock
  <2>3. host'.attempt \in 0 .. BlockTries - 1 /\ host'.try \in 0 .. ChecksumTries - 1
    BY <1>2, <2>2, Limits DEF HostInOrder, HostTypeOK
  <2>4. HostInOrder'
    BY <1>1, <2>2, <2>3, BlockGoesOn DEF Sending
  <2> QED
    BY <1>1, <2>2, <2>4, WaitsCount, HostSumOf
<1>3. CASE ~(host.attempt + 1 < BlockTries)
  <2>1. host' = Finished(h)
    BY <1>1, <1>3
  <2>2. /\ HasFields(h, HostFields) /\ h.retryHit = TRUE /\ h.blk = host.blk /\ h.attempt = host.attempt
        /\ h.try = host.try /\ h.headers = host.headers /\ h.acks = host.acks
        /\ h.summary = host.summary /\ h.replies = host.replies
    BY DEF LoaderShape, HasFields, HostFields
  <2> HIDE DEF h
  <2>3. /\ HasFields(host', HostFields) /\ host'.sent = TRUE /\ host'.pc \in {"end", "loop"}
        /\ host'.blk = h.blk /\ host'.attempt = h.attempt /\ host'.try = h.try
        /\ host'.headers = h.headers /\ host'.acks = h.acks /\ host'.retryHit = h.retryHit
        /\ host'.summary = h.summary /\ host'.replies = h.replies
    BY <2>1, <2>2, FinishedIs
  <2>4. HostInOrder'
    BY <2>2, <2>3 DEF HostInOrder, HostTypeOK, HostPcs, Sending
  <2> QED
    BY <1>1, <2>2, <2>3, <2>4, WaitsCount, HostSumOf
<1> QED
  BY <1>2, <1>3

LEMMA HostStepSum ==
  ASSUME LoaderShape, HostInOrder, HostStep
  PROVE  HostSum
BY HostReadSum, HostHeaderAgainSum, HostBlindPayloadSum, HostDeadlineSum, SendChunkSum,
   SendChecksumSum, TakeCreditSum, ReadMoreSum, AckMissedSum, TakeReplySum, ReplyMissedSum,
   DrainQuietSum, Zenon DEF HostStep

-----------------------------------------------------------------------------
(* The invariant is kept.                                                   *)

LEMMA CountOfAppend ==
  ASSUME NEW s \in Seq(Messages), NEW y \in Messages, NEW x
  PROVE  Count(Append(s, y), x) <= Count(s, x) + (IF y = x THEN 1 ELSE 0)
<1> DEFINE t == <<y>>
<1>1. t \in Seq(Messages) /\ Append(s, y) = s \o t
  OBVIOUS
<1>2. Count(t, x) = IF y = x THEN 1 ELSE 0
  <2>1. CASE y = x
    <3>1. Places(t, x) = {1}
      BY <2>1 DEF Places
    <3> QED
      BY <2>1, <3>1, FS_Singleton DEF Count
  <2>2. CASE y # x
    BY <2>2, CountOfNone
  <2> QED
    BY <2>1, <2>2
<1> HIDE DEF t
<1>3. Count(s \o t, x) <= Count(s, x) + Count(t, x)
  BY <1>1, CountOfConcat
<1> QED
  BY <1>1, <1>2, <1>3

LEMMA BoardKeeps ==
  ASSUME LoaderInv, BoardSum
  PROVE  LoaderInv'
<1>1. /\ LoaderShape /\ HostInOrder /\ BoardChecks /\ SummaryMeansJump /\ EachAckIsOfABlock
      /\ host' = host /\ FaultsGrow /\ HasFields(board', BoardFields) /\ board'.blocks \in Nat
      /\ board.blocks <= board'.blocks /\ BoardChecks' /\ board.pc # "jumped"
      /\ b2h \in Seq(Messages) /\ host.replies \in Seq(Messages) /\ host.acks \in Nat
      /\ board.blocks \in Nat
  BY DEF LoaderInv, BoardSum, LoaderShape
<1>2. HostInOrder'
  BY <1>1 DEF HostInOrder, HostTypeOK
<1>3. /\ Count(b2h, "block_ack") \in Nat /\ Count(host.replies, "block_ack") \in Nat
      /\ ~host.summary /\ Places(b2h, "summary_ok") = {}
  BY <1>1, PlacesAreFinite, Zenon DEF SummaryMeansJump
<1>4. CASE UNCHANGED b2h
  <2>1. LoaderShape'
    BY <1>1, <1>4 DEF LoaderShape, FaultsGrow
  <2>2. SummaryMeansJump'
    BY <1>1, <1>3, <1>4 DEF SummaryMeansJump
  <2>3. EachAckIsOfABlock'
    BY <1>1, <1>3, <1>4 DEF EachAckIsOfABlock, FaultsGrow
  <2> QED
    BY <1>1, <1>2, <2>1, <2>2, <2>3, Zenon DEF LoaderInv
<1>5. ASSUME NEW s \in Seq(Messages), Says(s)
      PROVE  LoaderInv'
  <2>1. PICK u \in Seq(Messages) :
          /\ b2h' = b2h \o u
          /\ \A i \in 1 .. Len(u) : u[i] = "summary_ok" => \E j \in 1 .. Len(s) : s[j] = "summary_ok"
          /\ faults'.corrupt = 0 => Count(u, "block_ack") <= Count(s, "block_ack")
    BY <1>5, Zenon DEF Says, Arrives
  <2>2. /\ \A i \in 1 .. Len(s) : s[i] = "summary_ok" => board'.pc = "jumped"
        /\ Count(s, "block_ack") + board.blocks <= board'.blocks
    BY <1>5 DEF Says
  <2>3. /\ b2h' \in Seq(Messages) /\ Len(b2h') = Len(b2h) + Len(u)
        /\ Len(b2h) \in Nat /\ Len(u) \in Nat
        /\ \A i \in 1 .. Len(b2h) + Len(u) : b2h'[i] = IF i <= Len(b2h) THEN b2h[i] ELSE u[i - Len(b2h)]
    BY <1>1, <2>1, ConcatProperties, LenProperties
  <2>4. LoaderShape'
    BY <1>1, <2>3 DEF LoaderShape, FaultsGrow
  <2>5. SummaryMeansJump'
    <3>1. ASSUME NEW i \in 1 .. Len(b2h'), b2h'[i] = "summary_ok"
          PROVE  board'.pc = "jumped"
      <4>1. ~(i <= Len(b2h))
        <5>1. i <= Len(b2h) => i \in Places(b2h, "summary_ok")
          BY <2>3, <3>1 DEF Places
        <5> QED
          BY <1>3, <5>1
      <4>2. i - Len(b2h) \in 1 .. Len(u) /\ u[i - Len(b2h)] = "summary_ok"
        BY <2>3, <3>1, <4>1
      <4> QED
        BY <2>1, <2>2, <4>2, Zenon
    <3> QED
      BY <1>1, <1>3, <3>1 DEF SummaryMeansJump, Places
  <2>6. EachAckIsOfABlock'
    <3>1. /\ Count(b2h', "block_ack") <= Count(b2h, "block_ack") + Count(u, "block_ack")
          /\ Count(b2h', "block_ack") \in Nat /\ Count(u, "block_ack") \in Nat
          /\ Count(s, "block_ack") \in Nat
      BY <1>1, <2>1, <2>3, CountOfConcat, PlacesAreFinite
    <3>2. faults'.corrupt = 0 =>
            /\ Count(b2h, "block_ack") + Count(host.replies, "block_ack") + host.acks <= board.blocks
            /\ Count(u, "block_ack") <= Count(s, "block_ack")
      BY <1>1, <2>1 DEF EachAckIsOfABlock, FaultsGrow
    <3> DEFINE was == Count(b2h, "block_ack")    queued == Count(host.replies, "block_ack")
               is  == Count(b2h', "block_ack")   came == Count(u, "block_ack")
               says == Count(s, "block_ack")
    <3>3. /\ was \in Nat /\ queued \in Nat /\ is \in Nat /\ came \in Nat /\ says \in Nat
          /\ is <= was + came /\ says + board.blocks <= board'.blocks
          /\ host.acks \in Nat /\ board.blocks \in Nat /\ board'.blocks \in Nat
      BY <1>1, <1>3, <2>2, <3>1, Zenon
    <3>4. faults'.corrupt = 0 => is + queued + host.acks <= board'.blocks
      <4> HIDE DEF was, queued, is, came, says
      <4>1. faults'.corrupt = 0 => was + queued + host.acks <= board.blocks /\ came <= says
        BY <3>2, Zenon DEF was, queued, came, says
      <4> QED
        BY <3>3, <4>1
    <3> QED
      BY <1>1, <3>4, Zenon DEF EachAckIsOfABlock
  <2> QED
    BY <1>1, <1>2, <2>4, <2>5, <2>6, Zenon DEF LoaderInv
<1> QED
  BY <1>4, <1>5, Zenon DEF BoardSum

LEMMA HostKeeps ==
  ASSUME LoaderInv, HostSum
  PROVE  LoaderInv'
<1>1. /\ LoaderShape /\ HostInOrder /\ BoardChecks /\ SummaryMeansJump /\ EachAckIsOfABlock
      /\ board' = board /\ FaultsGrow /\ HasFields(host', HostFields) /\ HostInOrder'
      /\ b2h \in Seq(Messages) /\ host.replies \in Seq(Messages) /\ host.acks \in Nat
      /\ board.blocks \in Nat /\ host.summary \in BOOLEAN
  BY DEF LoaderInv, HostSum, LoaderShape
<1>2. BoardChecks'
  BY <1>1 DEF BoardChecks, Image
<1>3. Count(b2h, "block_ack") \in Nat /\ Count(host.replies, "block_ack") \in Nat
  BY <1>1, PlacesAreFinite
<1>4. CASE Hears
  <2> DEFINE x == Head(b2h)
  <2>1. /\ b2h # <<>> /\ b2h' = Tail(b2h) /\ host'.acks = host.acks
        /\ host'.summary = (host.summary \/ x = "summary_ok")
        /\ host'.replies = IF x \in {"block_ack", "block_nack"} THEN Append(host.replies, x)
                           ELSE host.replies
    BY <1>4, Zenon DEF Hears
  <2>2. /\ x \in Messages /\ x = b2h[1] /\ b2h' \in Seq(Messages) /\ Len(b2h) \in Nat /\ Len(b2h) > 0
        /\ Len(b2h') = Len(b2h) - 1 /\ \A i \in 1 .. Len(b2h') : b2h'[i] = b2h[i + 1]
    BY <1>1, <2>1, HeadTailProperties, EmptySeq
  <2>3. host'.replies \in Seq(Messages)
    BY <1>1, <2>1, <2>2, AppendProperties
  <2>4. host'.summary \in BOOLEAN
    BY <2>1, Zenon
  <2>5. LoaderShape'
    BY <1>1, <2>1, <2>2, <2>3, <2>4 DEF LoaderShape, FaultsGrow
  <2>6. SummaryMeansJump'
    <3>1. x = "summary_ok" => 1 \in Places(b2h, "summary_ok")
      BY <2>2 DEF Places
    <3>2. ASSUME NEW i \in Places(b2h', "summary_ok")
          PROVE  i + 1 \in Places(b2h, "summary_ok")
      BY <2>2 DEF Places
    <3>3. Places(b2h', "summary_ok") # {} => Places(b2h, "summary_ok") # {}
      BY <3>2
    <3>4. host'.summary => host.summary \/ Places(b2h, "summary_ok") # {}
      BY <2>1, <3>1, Zenon
    <3> QED
      BY <1>1, <3>3, <3>4, Zenon DEF SummaryMeansJump
  <2>7. EachAckIsOfABlock'
    <3>1. /\ Count(b2h', "block_ack") + (IF x = "block_ack" THEN 1 ELSE 0) <= Count(b2h, "block_ack")
          /\ Count(b2h', "block_ack") \in Nat /\ Count(host'.replies, "block_ack") \in Nat
      BY <1>1, <2>1, <2>2, <2>3, CountOfTail, PlacesAreFinite
    <3>2. Count(host'.replies, "block_ack") <=
            Count(host.replies, "block_ack") + (IF x = "block_ack" THEN 1 ELSE 0)
      <4>1. CASE x \in {"block_ack", "block_nack"}
        BY <1>1, <2>1, <2>2, <4>1, CountOfAppend
      <4>2. CASE x \notin {"block_ack", "block_nack"}
        BY <1>3, <2>1, <4>2
      <4> QED
        BY <4>1, <4>2
    <3> QED
      BY <1>1, <1>3, <2>1, <3>1, <3>2 DEF EachAckIsOfABlock, FaultsGrow
  <2> QED
    BY <1>1, <1>2, <2>5, <2>6, <2>7, Zenon DEF LoaderInv
<1>5. CASE CountsReply
  <2>1. /\ b2h' = b2h /\ host.replies # <<>> /\ host'.replies = Tail(host.replies)
        /\ host'.acks = host.acks + (IF Head(host.replies) = "block_ack" THEN 1 ELSE 0)
        /\ host'.summary = host.summary
    BY <1>5 DEF CountsReply
  <2>2. host'.replies \in Seq(Messages) /\ host'.acks \in Nat
    BY <1>1, <2>1, HeadTailProperties
  <2>3. LoaderShape'
    BY <1>1, <2>1, <2>2 DEF LoaderShape, FaultsGrow
  <2>4. SummaryMeansJump'
    BY <1>1, <2>1 DEF SummaryMeansJump
  <2>5. EachAckIsOfABlock'
    <3>1. /\ Count(host'.replies, "block_ack") + (IF Head(host.replies) = "block_ack" THEN 1 ELSE 0)
               <= Count(host.replies, "block_ack")
          /\ Count(host'.replies, "block_ack") \in Nat
      BY <1>1, <2>1, <2>2, CountOfTail, PlacesAreFinite
    <3>2. faults'.corrupt = 0 =>
            Count(b2h, "block_ack") + Count(host.replies, "block_ack") + host.acks <= board.blocks
      BY <1>1 DEF EachAckIsOfABlock, FaultsGrow
    <3>3. Count(b2h, "block_ack") \in Nat /\ Count(host.replies, "block_ack") \in Nat
      BY <1>1, PlacesAreFinite
    <3>4. faults'.corrupt = 0 =>
            Count(b2h, "block_ack") + Count(host'.replies, "block_ack") + host'.acks <= board.blocks
      BY <1>1, <2>1, <3>1, <3>2, <3>3
    <3> QED
      BY <1>1, <2>1, <3>4, Zenon DEF EachAckIsOfABlock
  <2> QED
    BY <1>1, <1>2, <2>3, <2>4, <2>5, Zenon DEF LoaderInv
<1>6. CASE Otherwise
  <2>1. /\ b2h' = b2h /\ host'.replies = host.replies /\ host'.acks = host.acks
        /\ host'.summary = host.summary
    BY <1>6 DEF Otherwise
  <2>2. LoaderShape' /\ SummaryMeansJump' /\ EachAckIsOfABlock'
    BY <1>1, <1>3, <2>1 DEF LoaderShape, SummaryMeansJump, EachAckIsOfABlock, FaultsGrow
  <2> QED
    BY <1>1, <1>2, <2>2, Zenon DEF LoaderInv
<1> QED
  BY <1>4, <1>5, <1>6, Zenon DEF HostSum

LEMMA LoaderStutters ==
  ASSUME LoaderInv, UNCHANGED vars
  PROVE  LoaderInv'
BY DEF vars, LoaderInv, LoaderShape, HostInOrder, HostTypeOK, BoardChecks, Image, SummaryMeansJump,
       EachAckIsOfABlock

LEMMA LoaderStarts ==
  ASSUME Init
  PROVE  LoaderInv
<1>1. /\ b2h = <<>> /\ faults = NoFault
      /\ HasFields(board, BoardFields) /\ board.pc = "boot" /\ board.blocks = 0
      /\ HasFields(host, HostFields) /\ host.pc = "loop" /\ host.blk = 0 /\ host.attempt = 0
      /\ host.try = 0 /\ host.headers = 0 /\ host.acks = 0 /\ host.replies = <<>>
      /\ host.summary = FALSE /\ host.sent = FALSE
  BY DEF Init, HasFields, BoardFields, HostFields
<1>2. LoaderShape
  <2>1. faults \in Faults
    BY <1>1, LoaderAssumption, Zenon
  <2>2. host.summary \in BOOLEAN
    BY <1>1, Zenon
  <2> QED
    BY <1>1, <2>1, <2>2 DEF LoaderShape
<1>3. HostInOrder
  BY <1>1, SomeBlocks, Limits DEF HostInOrder, HostTypeOK, HostPcs, Sending
<1>4. BoardChecks
  BY <1>1 DEF BoardChecks
<1>5. SummaryMeansJump
  <2>1. Places(b2h, "summary_ok") = {}
    BY <1>1 DEF Places
  <2> QED
    BY <1>1, <2>1 DEF SummaryMeansJump
<1>6. EachAckIsOfABlock
  <2>1. Count(b2h, "block_ack") = 0 /\ Count(host.replies, "block_ack") = 0
    BY <1>1, CountOfNone
  <2> QED
    BY <1>1, <2>1 DEF EachAckIsOfABlock
<1> QED
  BY <1>2, <1>3, <1>4, <1>5, <1>6 DEF LoaderInv

\* Host and board keep to their order, whatever the line does: the host's
\* blocks and tries (send_uart_payload_with_block_checksums), the stages of
\* the board (load_block_begin to load_done), and that summary and
\* acceptances come from the board alone.
THEOREM LoaderInvHolds == Spec => []LoaderInv
<1>1. LoaderInv /\ [Next]_vars => LoaderInv'
  <2>1. ASSUME LoaderInv, BoardStep PROVE LoaderInv'
    BY <2>1, BoardStepSum, BoardKeeps, Zenon DEF LoaderInv
  <2>2. ASSUME LoaderInv, HostStep PROVE LoaderInv'
    BY <2>2, HostStepSum, HostKeeps, Zenon DEF LoaderInv
  <2> QED
    BY <2>1, <2>2, LoaderStutters, Zenon DEF Next
<1> QED
  BY <1>1, LoaderStarts, PTL DEF Spec

\* The host stays within its blocks and within its tries of headers,
\* checksums and blocks, also when it goes on without an answer.
THEOREM HostKeepsToTries == Spec => []HostTypeOK
<1>1. LoaderInv => HostTypeOK
  BY DEF LoaderInv, HostInOrder
<1> QED
  BY <1>1, LoaderInvHolds, PTL

\* Whatever the line did and for every payload, a pass is about a board that
\* has jumped to an image it received in full by its own count and read back
\* with the sum the header announced (load_done, the caller's verdict).
THEOREM PassMeansVerifiedHolds == Spec => []PassMeansVerified
<1>1. LoaderInv => PassMeansVerified
  BY DEF LoaderInv, SummaryMeansJump, BoardChecks, PassMeansVerified, HostPasses, Verified
<1> QED
  BY <1>1, LoaderInvHolds, PTL

\* For every payload, and however often checksums and blocks are sent again:
\* the host counts no block that the board has not accepted, and has not sent
\* the image to its end before all of it was (wait_block_reply).
THEOREM AcksAreAcceptedHolds == Spec => []AcksAreAccepted
<1>1. LoaderInv => AcksAreAccepted
  <2>1. ASSUME LoaderInv, faults.corrupt = 0
        PROVE  /\ host.acks <= board.blocks
               /\ host.sent /\ ~host.ackTimeout /\ ~host.retryHit => Blocks <= board.blocks
    <3>1. /\ Count(b2h, "block_ack") \in Nat /\ Count(host.replies, "block_ack") \in Nat
          /\ host.acks \in Nat /\ board.blocks \in Nat
      BY <2>1, PlacesAreFinite DEF LoaderInv, LoaderShape
    <3>2. host.acks <= board.blocks
      BY <2>1, <3>1 DEF LoaderInv, EachAckIsOfABlock
    <3> QED
      BY <2>1, <3>2 DEF LoaderInv, HostInOrder
  <2> QED
    BY <2>1, Zenon DEF AcksAreAccepted
<1> QED
  BY <1>1, LoaderInvHolds, PTL

=============================================================================
