------------------------------ MODULE FreeFifo ------------------------------
(***************************************************************************)
(* What the free list promises, without a ring: a queue of distinct        *)
(* register numbers, served from the front and refilled at the back, whose *)
(* content can be imaged at a branch and put back.                         *)
(***************************************************************************)
EXTENDS Integers, Sequences, FiniteSets

CONSTANTS Registers, CkptDepth

VARIABLES
  list,      \* the free registers, next to be handed out first
  images,    \* [order, list] of the branches imaged
  granted    \* the registers handed out in this step

fifoVars == <<list, images, granted>>

Distinct(s) == \A i, j \in DOMAIN s : s[i] = s[j] => i = j
Lists == {s \in UNION {[1 .. n -> Registers] : n \in 0 .. Cardinality(Registers)} :
            Distinct(s)}

FifoInit == list \in Lists /\ images = {} /\ granted = <<>>

\* n registers leave at the front, at most one that is not there enters at the
\* back.  Branches
\* imaged in this step see the list without the registers handed out up to
\* them and without the one that enters; an image may be lost when the slots
\* are taken.  Images of committed branches go.
Serve(n) ==
  /\ n <= Len(list)
  /\ granted' = SubSeq(list, 1, n)
  /\ LET rest == SubSeq(list, n + 1, Len(list)) IN
       \/ list' = rest
       \/ \E r \in Registers \ {rest[k] : k \in DOMAIN rest} : list' = Append(rest, r)
  /\ \E drop \in {-1} \cup {i.order : i \in images} :
       LET kept == {i \in images : i.order > drop}
           new  == images' \ kept
       IN  /\ kept \subseteq images'
           /\ Cardinality(new) <= 2
           /\ Cardinality(images) + Cardinality(new) <= CkptDepth
           /\ \A i \in new : \E m \in 0 .. n :
                i.list = SubSeq(list, m + 1, Len(list))

\* A mispredicted branch puts its image back; younger images go.
PutBack(i) ==
  /\ list' = i.list
  /\ images' = {j \in images : j.order < i.order}
  /\ granted' = <<>>

\* With no image left, the list may be set up anew.
Renew ==
  /\ images = {} /\ images' = {}
  /\ list' \in Lists
  /\ granted' = <<>>

FifoNext ==
  \/ \E n \in 0 .. 2 : Serve(n)
  \/ \E i \in images : PutBack(i)
  \/ Renew

FifoSpec == FifoInit /\ [][FifoNext]_fifoVars
=============================================================================
