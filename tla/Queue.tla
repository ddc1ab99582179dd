------------------------------- MODULE Queue -------------------------------
(***************************************************************************)
(* QUEUE_T of src/recskapa.h and the two critical sections of enqueue()    *)
(* and dequeue() in src/recskapa.c: a ring of Size slots that carries      *)
(* blocks from the main thread to the reader thread.  Put and Take are     *)
(* what each function does between locking and unlocking the mutex once    *)
(* its wait loop has let it through; waiting, waking and the exit flag     *)
(* belong to the threads and are in module Recorder.                       *)
(***************************************************************************)
EXTENDS Integers, Sequences

CONSTANTS
  Size,   \* MAX_QUEUE, the number of slots
  Block,  \* the blocks (BUFSZ pointers) that main can enqueue
  NULL    \* the null pointer, which main may enqueue as well

ASSUME QueueAssumption == Size \in Nat \ {0} /\ NULL \notin Block

VARIABLES
  in,         \* index of the next slot to fill
  out,        \* index of the oldest filled slot
  num_avail,  \* number of free slots
  num_used,   \* number of filled slots
  buffer      \* the slots

queueVars == <<in, out, num_avail, num_used, buffer>>

Entry == Block \cup {NULL}
Slot == 0 .. Size - 1

QueueTypeOK ==
  /\ in \in Slot /\ out \in Slot
  /\ num_avail \in 0 .. Size /\ num_used \in 0 .. Size
  /\ buffer \in [Slot -> Entry]

\* create_queue: calloc leaves every slot null and both indices 0.
QueueInit ==
  /\ in = 0 /\ out = 0
  /\ num_avail = Size /\ num_used = 0
  /\ buffer = [i \in Slot |-> NULL]

NextSlot(i) == (i + 1) % Size

Full == num_avail = 0
Empty == num_used = 0

\* Mutant of Put: the used counter is updated, the free one is not.
PutKeepsAvail(d) ==
  /\ buffer' = [buffer EXCEPT ![in] = d]
  /\ in' = NextSlot(in)
  /\ num_used' = num_used + 1
  /\ UNCHANGED <<out, num_avail>>

Put(d) ==
  /\ buffer' = [buffer EXCEPT ![in] = d]
  /\ in' = NextSlot(in)
  /\ num_avail' = num_avail - 1
  /\ num_used' = num_used + 1
  /\ UNCHANGED out

Oldest == buffer[out]

\* Mutant of Take: the counters move, the index of the oldest slot does not.
TakeKeepsOut ==
  /\ num_avail' = num_avail + 1
  /\ num_used' = num_used - 1
  /\ UNCHANGED <<in, out, buffer>>

\* The slot keeps its pointer: dequeue moves the index only.
Take ==
  /\ out' = NextSlot(out)
  /\ num_avail' = num_avail + 1
  /\ num_used' = num_used - 1
  /\ UNCHANGED <<in, buffer>>

\* What the queue holds, oldest first.
Contents == [i \in 1 .. num_used |-> buffer[(out + i - 1) % Size]]

(***************************************************************************)
(* The counters add up and locate the indices: num_avail and num_used are  *)
(* kept apart in the code, and only in = (out + num_used) mod Size makes   *)
(* a Put fill a free slot and a Take empty the oldest one.                 *)
(***************************************************************************)
QueueInv ==
  /\ num_avail + num_used = Size
  /\ in = (out + num_used) % Size
=============================================================================
