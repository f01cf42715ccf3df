------------------------------ MODULE RingQueue ------------------------------
(***************************************************************************)
(* ring_queue<_Ty, _Option, _Sty>: the circular buffer in which channel_t  *)
(* keeps its values.  One slot stays empty to tell full from empty, and    *)
(* every index is an unsigned _Sty, of Word values.                        *)
(*                                                                         *)
(* The class takes no lock: its calls are made one at a time, as           *)
(* channel_impl_v2 makes them under its own _lock.  m_count, which the     *)
(* default build does not compile, is left out.                            *)
(***************************************************************************)
EXTENDS Integers, Sequences

CONSTANTS
  Sz,         \* the constructor's argument
  Word,       \* the number of values of _Sty
  Item,
  NoItem,     \* std::nullopt, or a slot that was never written
  Optional    \* _Option

ASSUME WordAssumption == Sz \in Nat /\ Word \in Nat /\ Optional \in BOOLEAN
(* assert(sz < (std::numeric_limits<size_type>::max)()) *)
ASSUME SizeAssumption == Sz < Word - 1
ASSUME NoItemAssumption == NoItem \notin Item

VARIABLES
  bufferPtr,      \* m_bufferPtr, indexed from 0
  writeIndex,     \* m_writeIndex
  readIndex,      \* m_readIndex
  ret             \* the result of the last call and the value it moved

ringVars == <<bufferPtr, writeIndex, readIndex, ret>>

bufferSize == (Sz + 1) % Word
Slot == 0..(bufferSize - 1)

capacity == (bufferSize - 1) % Word

(* Mutant: one slot too far at the end of the buffer. *)
BugNextIndex(i) == IF i + 1 > bufferSize THEN 0 ELSE (i + 1) % Word

nextIndex(i) == ((i + 1) % bufferSize) % Word

(* Mutant: size() without the case of a wrapped write index. *)
BugSize == (writeIndex - readIndex) % Word

size == IF writeIndex >= readIndex
        THEN (writeIndex - readIndex) % Word
        ELSE (bufferSize + writeIndex - readIndex) % Word

empty == writeIndex = readIndex

full == nextIndex(writeIndex) = readIndex

RingInit ==
  /\ bufferPtr = [i \in Slot |-> NoItem]
  /\ writeIndex = 0
  /\ readIndex = 0
  /\ ret = <<FALSE, NoItem>>

(* Mutant: a push that does not look for room. *)
BugPush(v) ==
  /\ bufferPtr' = [bufferPtr EXCEPT ![writeIndex] = v]
  /\ writeIndex' = nextIndex(writeIndex)
  /\ ret' = <<TRUE, v>>
  /\ UNCHANGED readIndex

try_push(v) ==
  \/ /\ ~full
     /\ bufferPtr' = [bufferPtr EXCEPT ![writeIndex] = v]
     /\ writeIndex' = nextIndex(writeIndex)
     /\ ret' = <<TRUE, v>>
     /\ UNCHANGED readIndex
  \/ /\ full
     /\ ret' = <<FALSE, v>>
     /\ UNCHANGED <<bufferPtr, writeIndex, readIndex>>

(* The slot is reset when it holds an optional; otherwise what was moved   *)
(* from stays there until it is overwritten.                               *)
try_pop ==
  \/ /\ ~empty
     /\ ret' = <<TRUE, bufferPtr[readIndex]>>
     /\ bufferPtr' = [bufferPtr EXCEPT ![readIndex] = IF Optional THEN NoItem ELSE @]
     /\ readIndex' = nextIndex(readIndex)
     /\ UNCHANGED writeIndex
  \/ /\ empty
     /\ ret' = <<FALSE, NoItem>>
     /\ UNCHANGED <<bufferPtr, writeIndex, readIndex>>

RingNext == try_pop \/ \E v \in Item : try_push(v)

RingSpec == RingInit /\ [][RingNext]_ringVars
-----------------------------------------------------------------------------
RingTypeOK ==
  /\ bufferPtr \in [Slot -> Item \union {NoItem}]
  /\ writeIndex \in Slot
  /\ readIndex \in Slot
  /\ ret \in BOOLEAN \X (Item \union {NoItem})

(* The slots from readIndex on, oldest value first. *)
At(i) == IF readIndex + i < bufferSize THEN readIndex + i ELSE readIndex + i - bufferSize

Contents == [i \in 1..size |-> bufferPtr[At(i - 1)]]

(* empty(), full(), size() and capacity() are computed from the indices in *)
(* three different ways and agree, for every position of the indices.      *)
ObserversAgree ==
  /\ empty <=> size = 0
  /\ full <=> size = capacity
  /\ size \in 0..capacity
  /\ capacity = Sz

Fifo == INSTANCE BoundedFifo WITH
          Cap <- Sz, Value <- Item, NoVal <- NoItem, q <- Contents

(* ring_queue is a first-in first-out buffer of Sz values: no value is     *)
(* lost, doubled, reordered or made up where the indices wrap.             *)
ImplementsFifo == Fifo!Spec
=============================================================================
