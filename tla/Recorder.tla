------------------------------ MODULE Recorder ------------------------------
(***************************************************************************)
(* The three threads of src/recskapa.c from "Recording..." on: main reads  *)
(* blocks from the tuner and enqueues them, the reader thread dequeues,    *)
(* optionally descrambles and writes them, the signal thread turns one     *)
(* signal into the exit flag.                                              *)
(*                                                                         *)
(* A critical section (lock .. unlock, or wake-up .. unlock or next wait)  *)
(* is one step: everything it touches but f_exit is guarded by the mutex,  *)
(* f_exit only ever goes from false to true and a section reads it once.   *)
(* The signalling after the unlock is a step of its own, as it is in the   *)
(* code, and so is the reader's unlocked look at f_exit and num_used.      *)
(***************************************************************************)
EXTENDS Queue, FiniteSets, SequencesExt

CONSTANTS
  MaxBlocks,  \* bound: how many blocks the tuner delivers
  MaxRetry,   \* 60: the waits an enqueue or dequeue makes before it gives up
  FREED       \* what a block's memory holds after free()

ASSUME RecorderAssumption ==
  /\ MaxBlocks \in Nat /\ MaxRetry \in Nat
  /\ Block = 1 .. MaxBlocks
  /\ FREED \notin Entry

VARIABLES
  f_exit,      \* the global exit flag
  expired,     \* recsec seconds have passed
  indefinite,  \* recsec is -1
  captured,    \* how many blocks main has read so far: they are 1..captured
  mpc,         \* where main is
  mbuf,        \* bufptr, the block in main's hand
  mexp,        \* what main's last look at the clock said
  mretry,      \* retry_count of main's enqueue
  rpc,         \* where the reader is
  qbuf,        \* the block in the reader's hand
  wbuf,        \* buf: what the reader is to write next
  held,        \* blocks put into the decoder that have not come out
  use_b1,      \* the reader still descrambles
  rretry,      \* retry_count of the reader's dequeue
  spc,         \* where the signal thread is
  pending,     \* signals sent and not yet accepted by sigwait
  woken,       \* condition-variable waiters that have been signalled
  file,        \* the output file
  lost         \* history: blocks dropped for good, by who dropped them

mainVars   == <<mpc, mbuf, mexp, mretry, captured>>
readerVars == <<rpc, qbuf, wbuf, held, use_b1, rretry, file>>
signalVars == <<spc>>
timeVars   == <<expired, indefinite>>
vars == <<queueVars, mainVars, readerVars, signalVars, timeVars,
          f_exit, pending, woken, lost>>

\* SIGTERM is handled as SIGINT is, SIGPIPE as SIGUSR2.
Signal == {"SIGINT", "SIGUSR1", "SIGUSR2"}

MainPC == {"loop", "read", "enqueue", "wait_avail", "signal_used", "after",
           "stop", "join_reader", "join_signal", "close", "done"}
ReaderPC == {"dequeue", "wait_used", "signal_avail", "decode", "write",
             "check", "finish", "final_write", "done"}
SignalPC == {"sigwait", "set_exit", "sig_avail", "sig_used", "done"}

TypeOK ==
  /\ QueueTypeOK
  /\ f_exit \in BOOLEAN /\ expired \in BOOLEAN /\ indefinite \in BOOLEAN
  /\ captured \in 0 .. MaxBlocks
  /\ mpc \in MainPC /\ mbuf \in Entry /\ mexp \in BOOLEAN
  /\ mretry \in 0 .. MaxRetry + 1
  /\ rpc \in ReaderPC /\ qbuf \in Entry /\ rretry \in 0 .. MaxRetry + 1
  /\ wbuf \in Seq(Block \cup {FREED}) /\ held \in Seq(Block)
  /\ use_b1 \in BOOLEAN
  /\ spc \in SignalPC /\ pending \subseteq Signal
  /\ woken \subseteq {"main", "reader"}
  /\ file \in Seq(Block \cup {FREED})
  /\ lost \in [{"queue", "decoder", "output"} -> SUBSET (Block \cup {FREED})]

Init ==
  /\ QueueInit
  /\ f_exit = FALSE /\ expired = FALSE /\ indefinite \in BOOLEAN
  /\ captured = 0
  /\ mpc = "loop" /\ mbuf = NULL /\ mexp = FALSE /\ mretry = 0
  /\ rpc = "dequeue" /\ qbuf = NULL /\ wbuf = <<>> /\ held = <<>>
  /\ use_b1 \in BOOLEAN /\ rretry = 0
  /\ spc = "sigwait" /\ pending = {} /\ woken = {}
  /\ file = <<>>
  /\ lost = [queue |-> {}, decoder |-> {}, output |-> {}]

-----------------------------------------------------------------------------
(* Shared steps.                                                           *)

\* pthread_kill on the signal thread: nothing once that thread is gone.
Kill(sig) == pending' = IF spc = "done" THEN pending ELSE pending \cup {sig}

\* pthread_cond_signal(&cond_used): only a thread that waits can be woken.
SignalUsed == woken' = IF rpc = "wait_used" THEN woken \cup {"reader"} ELSE woken
SignalAvail == woken' = IF mpc = "wait_avail" THEN woken \cup {"main"} ELSE woken

Lose(who, blocks) == lost' = [lost EXCEPT ![who] = @ \cup blocks]

-----------------------------------------------------------------------------
(* main().                                                                 *)

\* Top of the loop: the exit flag, the clock, and malloc, which may fail.
MainCheckExit ==
  /\ mpc = "loop"
  /\ \/ f_exit /\ mpc' = "stop" /\ UNCHANGED <<f_exit, mexp>>
     \/ ~f_exit /\ mexp' = expired /\ mpc' = "read" /\ UNCHANGED f_exit
     \/ ~f_exit /\ mexp' = expired /\ mpc' = "stop" /\ f_exit' = TRUE
  /\ UNCHANGED <<queueVars, readerVars, signalVars, timeVars, mbuf, mretry,
                 captured, pending, woken, lost>>

\* read() on the tuner delivers a block ...
MainRead ==
  /\ mpc = "read" /\ captured < MaxBlocks
  /\ captured' = captured + 1 /\ mbuf' = captured + 1
  /\ mpc' = "enqueue"
  /\ UNCHANGED <<queueVars, readerVars, signalVars, timeVars, mexp, mretry,
                 f_exit, pending, woken, lost>>

\* Mutant of MainReadNothing: the null entry is sent with the flag still down.
MainReadNothingKeepsFlag ==
  /\ mpc = "read"
  /\ UNCHANGED f_exit
  /\ IF mexp /\ ~indefinite
       THEN mpc' = "enqueue" /\ mbuf' = NULL
       ELSE mpc' = "loop" /\ UNCHANGED mbuf
  /\ UNCHANGED <<queueVars, readerVars, signalVars, timeVars, mexp, mretry,
                 captured, pending, woken, lost>>

\* ... or fails, which ends the recording if it was due and is retried if not.
MainReadNothing ==
  /\ mpc = "read"
  /\ IF mexp /\ ~indefinite
       THEN f_exit' = TRUE /\ mpc' = "enqueue" /\ mbuf' = NULL
       ELSE mpc' = "loop" /\ UNCHANGED <<f_exit, mbuf>>
  /\ UNCHANGED <<queueVars, readerVars, signalVars, timeVars, mexp, mretry,
                 captured, pending, woken, lost>>

\* enqueue(): the first section.
MainEnqueue ==
  /\ mpc = "enqueue" /\ mretry' = 0
  /\ IF Full THEN mpc' = "wait_avail" /\ UNCHANGED queueVars
             ELSE mpc' = "signal_used" /\ Put(mbuf)
  /\ UNCHANGED <<readerVars, signalVars, timeVars, mbuf, mexp, captured,
                 f_exit, pending, woken, lost>>

\* Mutant of MainWake: giving up drops the block without raising f_exit.
MainWakeDropsSilently ==
  /\ mpc = "wait_avail"
  /\ mretry' = mretry + 1 /\ woken' = woken \ {"main"}
  /\ UNCHANGED f_exit
  /\ IF mretry' > MaxRetry
       THEN mpc' = "after" /\ Lose("queue", {mbuf} \ {NULL}) /\ UNCHANGED queueVars
       ELSE /\ UNCHANGED lost
            /\ IF Full THEN mpc' = "wait_avail" /\ UNCHANGED queueVars
                       ELSE mpc' = "signal_used" /\ Put(mbuf)
  /\ UNCHANGED <<readerVars, signalVars, timeVars, mbuf, mexp, captured, pending>>

\* pthread_cond_timedwait returns: signalled, timed out or spuriously, the
\* code does not ask.  With the exit flag up the block is dropped.
MainWake ==
  /\ mpc = "wait_avail"
  /\ mretry' = mretry + 1 /\ woken' = woken \ {"main"}
  /\ f_exit' = (f_exit \/ mretry' > MaxRetry)
  /\ IF f_exit'
       THEN mpc' = "after" /\ Lose("queue", {mbuf} \ {NULL}) /\ UNCHANGED queueVars
       ELSE /\ UNCHANGED lost
            /\ IF Full THEN mpc' = "wait_avail" /\ UNCHANGED queueVars
                       ELSE mpc' = "signal_used" /\ Put(mbuf)
  /\ UNCHANGED <<readerVars, signalVars, timeVars, mbuf, mexp, captured, pending>>

\* Mutant of MainSignalUsed: the reader is not told of the new entry.
MainForgetsSignal ==
  /\ mpc = "signal_used" /\ mpc' = "after"
  /\ UNCHANGED <<queueVars, readerVars, signalVars, timeVars, mbuf, mexp, mretry,
                 captured, f_exit, pending, woken, lost>>

MainSignalUsed ==
  /\ mpc = "signal_used" /\ mpc' = "after" /\ SignalUsed
  /\ UNCHANGED <<queueVars, readerVars, signalVars, timeVars, mbuf, mexp, mretry,
                 captured, f_exit, pending, lost>>

\* Back from enqueue(): the null entry or the end of the time ends the loop.
MainAfter ==
  /\ mpc = "after"
  /\ mexp' = expired
  /\ mpc' = IF mbuf = NULL \/ (expired /\ ~indefinite) THEN "stop" ELSE "loop"
  /\ UNCHANGED <<queueVars, readerVars, signalVars, timeVars, mbuf, mretry,
                 captured, f_exit, pending, woken, lost>>

\* Mutant of MainStop: the signal thread is joined without being told to end.
MainStopNoKill ==
  /\ mpc = "stop" /\ mpc' = "join_reader"
  /\ UNCHANGED <<queueVars, readerVars, signalVars, timeVars, mbuf, mexp, mretry,
                 captured, f_exit, pending, woken, lost>>

MainStop ==
  /\ mpc = "stop" /\ mpc' = "join_reader" /\ Kill("SIGUSR1")
  /\ UNCHANGED <<queueVars, readerVars, signalVars, timeVars, mbuf, mexp, mretry,
                 captured, f_exit, woken, lost>>

\* The two joins, then the tuner, queue, file and decoder are released.
MainFinish ==
  /\ \/ mpc = "join_reader" /\ rpc = "done" /\ mpc' = "join_signal"
     \/ mpc = "join_signal" /\ spc = "done" /\ mpc' = "close"
     \/ mpc = "close" /\ mpc' = "done"
  /\ UNCHANGED <<queueVars, readerVars, signalVars, timeVars, mbuf, mexp, mretry,
                 captured, f_exit, pending, woken, lost>>

Main ==
  \/ MainCheckExit \/ MainRead \/ MainReadNothing \/ MainEnqueue \/ MainWake
  \/ MainSignalUsed \/ MainAfter \/ MainStop \/ MainFinish

-----------------------------------------------------------------------------
(* reader_func().                                                          *)

\* dequeue(): the first section, which does not look at f_exit.
ReaderDequeue ==
  /\ rpc = "dequeue" /\ rretry' = 0
  /\ IF Empty THEN rpc' = "wait_used" /\ UNCHANGED <<queueVars, qbuf>>
              ELSE rpc' = "signal_avail" /\ qbuf' = Oldest /\ Take
  /\ UNCHANGED <<mainVars, signalVars, timeVars, wbuf, held, use_b1, file,
                 f_exit, pending, woken, lost>>

\* Mutant of ReaderWake: giving up ends the reader but does not raise f_exit.
ReaderWakeGivesUpAlone ==
  /\ rpc = "wait_used"
  /\ rretry' = rretry + 1 /\ woken' = woken \ {"reader"}
  /\ UNCHANGED f_exit
  /\ IF f_exit \/ rretry' > MaxRetry
       THEN rpc' = "done" /\ UNCHANGED <<queueVars, qbuf>>
       ELSE IF Empty THEN rpc' = "wait_used" /\ UNCHANGED <<queueVars, qbuf>>
                     ELSE rpc' = "signal_avail" /\ qbuf' = Oldest /\ Take
  /\ UNCHANGED <<mainVars, signalVars, timeVars, wbuf, held, use_b1, file,
                 pending, lost>>

\* The timed wait returns.  With the exit flag up dequeue returns null, even
\* when an entry has arrived, and the reader leaves its loop.
ReaderWake ==
  /\ rpc = "wait_used"
  /\ rretry' = rretry + 1 /\ woken' = woken \ {"reader"}
  /\ f_exit' = (f_exit \/ rretry' > MaxRetry)
  /\ IF f_exit'
       THEN rpc' = "done" /\ UNCHANGED <<queueVars, qbuf>>
       ELSE IF Empty THEN rpc' = "wait_used" /\ UNCHANGED <<queueVars, qbuf>>
                     ELSE rpc' = "signal_avail" /\ qbuf' = Oldest /\ Take
  /\ UNCHANGED <<mainVars, signalVars, timeVars, wbuf, held, use_b1, file,
                 pending, lost>>

\* dequeue() returns; a null entry is taken for an empty queue.
ReaderSignalAvail ==
  /\ rpc = "signal_avail" /\ SignalAvail
  /\ rpc' = IF qbuf = NULL THEN "done" ELSE "decode"
  /\ UNCHANGED <<queueVars, mainVars, signalVars, timeVars, qbuf, wbuf, held,
                 use_b1, rretry, file, f_exit, pending, lost>>

\* b1_decode(): put the block, get whatever the decoder is ready to let go.
Descramble ==
  LET inside == Append(held, qbuf)
  IN  \E n \in 0 .. Len(inside) :
        /\ wbuf' = SubSeq(inside, 1, n)
        /\ held' = SubSeq(inside, n + 1, Len(inside))
        /\ UNCHANGED <<use_b1, lost>>

\* Mutant of FallBack: the descrambler is asked again after it has failed.
FallBackNot ==
  /\ use_b1' = use_b1 /\ wbuf' = <<qbuf>>
  /\ held' = held /\ UNCHANGED lost

\* b1_decode() fails: from this block on the input is written as it is, and
\* what the decoder holds is never asked for again.
FallBack ==
  /\ use_b1' = FALSE /\ wbuf' = <<qbuf>>
  /\ held' = <<>> /\ Lose("decoder", Range(held))

ReaderDecode ==
  /\ rpc = "decode" /\ rpc' = "write"
  /\ \/ use_b1 /\ (Descramble \/ FallBack)
     \/ ~use_b1 /\ wbuf' = <<qbuf>> /\ UNCHANGED <<held, use_b1, lost>>
  /\ UNCHANGED <<queueVars, mainVars, signalVars, timeVars, qbuf, rretry, file,
                 f_exit, pending, woken>>

\* write() takes all of it or a part of it: the rest is not written again.
WriteSome ==
  \E n \in 0 .. Len(wbuf) :
    /\ file' = file \o SubSeq(wbuf, 1, n)
    /\ Lose("output", Range(SubSeq(wbuf, n + 1, Len(wbuf))))

\* Mutant of WriteFails: the reader leaves without telling the signal thread.
WriteFailsSilently == Lose("output", Range(wbuf)) /\ UNCHANGED <<file, pending>>

WriteFails ==
  /\ Lose("output", Range(wbuf)) /\ UNCHANGED file
  /\ Kill("SIGUSR2")

ReaderWrite ==
  /\ rpc = "write" /\ wbuf' = <<>>
  /\ \/ WriteSome /\ rpc' = "check" /\ UNCHANGED pending
     \/ WriteFails /\ rpc' = "done"
  /\ UNCHANGED <<queueVars, mainVars, signalVars, timeVars, qbuf, held, use_b1,
                 rretry, f_exit, woken>>

\* The block is freed; then, without the mutex: f_exit && !num_used.
ReaderCheck ==
  /\ rpc = "check" /\ qbuf' = NULL
  /\ rpc' = IF f_exit /\ num_used = 0 THEN "finish" ELSE "dequeue"
  /\ UNCHANGED <<queueVars, mainVars, signalVars, timeVars, wbuf, held, use_b1,
                 rretry, file, f_exit, pending, woken, lost>>

\* b1_finish() empties the decoder.  Without a decoder, or when it fails, buf
\* is sbuf, which still points into the block freed above.
ReaderFinish ==
  /\ rpc = "finish" /\ rpc' = "final_write" /\ held' = <<>>
  /\ \/ use_b1 /\ wbuf' = held /\ UNCHANGED lost
     \/ wbuf' = <<FREED>> /\ Lose("decoder", Range(held))
  /\ UNCHANGED <<queueVars, mainVars, signalVars, timeVars, qbuf, use_b1, rretry,
                 file, f_exit, pending, woken>>

ReaderFinalWrite ==
  /\ rpc = "final_write" /\ rpc' = "done" /\ wbuf' = <<>>
  /\ \/ WriteSome /\ UNCHANGED pending
     \/ WriteFails
  /\ UNCHANGED <<queueVars, mainVars, signalVars, timeVars, qbuf, held, use_b1,
                 rretry, f_exit, woken>>

Reader ==
  \/ ReaderDequeue \/ ReaderWake \/ ReaderSignalAvail \/ ReaderDecode
  \/ ReaderWrite \/ ReaderCheck \/ ReaderFinish \/ ReaderFinalWrite

-----------------------------------------------------------------------------
(* process_signals() and cleanup().                                        *)

SignalAccept ==
  /\ spc = "sigwait"
  /\ \E sig \in pending : pending' = pending \ {sig}
  /\ spc' = "set_exit"
  /\ UNCHANGED <<queueVars, mainVars, readerVars, timeVars, f_exit, woken, lost>>

\* Mutant of SignalSetExit: both threads are woken, the flag stays down.
SignalForgetsExit ==
  /\ spc = "set_exit" /\ spc' = "sig_avail"
  /\ UNCHANGED <<queueVars, mainVars, readerVars, timeVars, f_exit, pending, woken,
                 lost>>

SignalSetExit ==
  /\ spc = "set_exit" /\ f_exit' = TRUE /\ spc' = "sig_avail"
  /\ UNCHANGED <<queueVars, mainVars, readerVars, timeVars, pending, woken, lost>>

SignalWakes ==
  /\ \/ spc = "sig_avail" /\ SignalAvail /\ spc' = "sig_used"
     \/ spc = "sig_used" /\ SignalUsed /\ spc' = "done"
  /\ UNCHANGED <<queueVars, mainVars, readerVars, timeVars, f_exit, pending, lost>>

SignalThread == SignalAccept \/ SignalSetExit \/ SignalWakes

-----------------------------------------------------------------------------
(* The outside: the user's signals and the clock.                          *)

UserSignal ==
  /\ pending' = pending \cup {"SIGINT"} /\ pending' # pending
  /\ UNCHANGED <<queueVars, mainVars, readerVars, signalVars, timeVars, f_exit,
                 woken, lost>>

TimePasses ==
  /\ ~expired /\ expired' = TRUE
  /\ UNCHANGED <<queueVars, mainVars, readerVars, signalVars, indefinite, f_exit,
                 pending, woken, lost>>

\* The process has exited.
Exited == mpc = "done" /\ UNCHANGED vars

Next == Main \/ Reader \/ SignalThread \/ UserSignal \/ TimePasses \/ Exited

Spec == Init /\ [][Next]_vars

\* Every thread runs, the tuner's read() and the file's write() return, and a
\* timed wait ends after a second.  Nothing is assumed of the user.
Fairness == WF_vars(Main) /\ WF_vars(Reader) /\ WF_vars(SignalThread)

FairSpec == Spec /\ Fairness

-----------------------------------------------------------------------------
(* Properties.                                                             *)

\* Everything that is still somewhere, from the file back to main's hand.
InReader == IF rpc \in {"signal_avail", "decode"} THEN <<qbuf>> ELSE <<>>
InMain == IF mpc \in {"enqueue", "wait_avail"} THEN <<mbuf>> ELSE <<>>
Pipeline == file \o wbuf \o held \o InReader \o Contents \o InMain

Lost == lost["queue"] \cup lost["decoder"] \cup (lost["output"] \ {FREED})

\* Null entries and freed memory aside, the blocks of s ...
Blocks(s) == Range(s) \cap Block

\* ... are there once each, in the order they were captured.
InOrder(s) ==
  \A i, j \in DOMAIN s : i < j /\ s[i] \in Block /\ s[j] \in Block => s[i] < s[j]

(***************************************************************************)
(* Whatever the threads do, the pipeline holds each block that was         *)
(* captured and not dropped, once and in the order it was captured.        *)
(***************************************************************************)
StreamAccounted ==
  InOrder(Pipeline) /\ Blocks(Pipeline) = (1 .. captured) \ Lost

(***************************************************************************)
(* While no write was short or failed and the decoder did not fail, the    *)
(* file is the beginning of the stream without a gap: enqueue drops a      *)
(* block only when no later one will be enqueued.                          *)
(***************************************************************************)
GaplessRecording ==
  lost["decoder"] = {} /\ lost["output"] = {} =>
    InOrder(file) /\ \A b \in Blocks(file) : 1 .. b \subseteq Blocks(file)

(***************************************************************************)
(* The reader never ends behind main's back: if it has ended, the exit     *)
(* flag is up or a signal that will raise it is on its way.                *)
(***************************************************************************)
ReaderGoneStops ==
  rpc = "done" =>
    f_exit \/ spc = "set_exit" \/ (spc = "sigwait" /\ pending # {})

(***************************************************************************)
(* What makes ReaderGoneStops inductive: the null entry, wherever it is on *)
(* its way from main to the reader, and a reader or signal thread past its *)
(* point of no return all mean that the exit flag is up; and a wait that   *)
(* goes on has retries left.                                               *)
(***************************************************************************)
ExitIsCertain ==
  /\ mpc \in {"enqueue", "wait_avail"} /\ mbuf = NULL => f_exit
  /\ \A i \in 1 .. num_used : Contents[i] = NULL => f_exit
  /\ rpc = "signal_avail" /\ qbuf = NULL => f_exit
  /\ rpc \in {"finish", "final_write"} => f_exit
  /\ spc \in {"sig_avail", "sig_used", "done"} => f_exit
  /\ rpc = "decode" => qbuf # NULL
  /\ mpc = "wait_avail" => mretry <= MaxRetry
  /\ rpc = "wait_used" => rretry <= MaxRetry

(***************************************************************************)
(* A thread does not wait for its timeout over work that is there: if the  *)
(* reader waits and the queue has an entry, or main waits and it has room, *)
(* the waiter has been signalled or its partner is about to signal it.     *)
(***************************************************************************)
NoLostWakeup ==
  /\ rpc = "wait_used" /\ num_used > 0 => "reader" \in woken \/ mpc = "signal_used"
  /\ mpc = "wait_avail" /\ num_avail > 0 => "main" \in woken \/ rpc = "signal_avail"

(***************************************************************************)
(* Once the exit flag is up, main captures at most the block whose read()  *)
(* it had already begun.                                                   *)
(***************************************************************************)
NoCaptureAfterExit == [][f_exit /\ mpc # "read" => captured' = captured /\ mpc' # "read"]_vars

(***************************************************************************)
(* The queue between the threads is the bounded first-in first-out channel *)
(* of BoundedFifo, whichever thread steps.                                 *)
(***************************************************************************)
Fifo == INSTANCE BoundedFifo WITH chan <- Contents
QueueIsFifo == Fifo!Spec

(***************************************************************************)
(* Every reason to stop ends the process, whichever thread raised it and   *)
(* wherever the others were: the exit flag, a signal, or the end of the    *)
(* recording time unless the recording is indefinite.                      *)
(***************************************************************************)
StopRequested == f_exit \/ pending # {} \/ (expired /\ ~indefinite)
StopTerminates == StopRequested ~> mpc = "done"

(***************************************************************************)
(* While nobody asks for the exit, each captured block reaches the file,   *)
(* unless the output dropped it or the descrambler keeps it for now.       *)
(***************************************************************************)
Settled(b) == b \in Range(file) \cup Range(held) \cup Lost
CapturedIsWritten == \A b \in Block : mbuf = b ~> Settled(b) \/ f_exit

-----------------------------------------------------------------------------
(* What comments of the code say and the code does not do.                 *)

SignalSeen == spc \in {"sig_avail", "sig_used", "done"}

(***************************************************************************)
(* recskapa.c:547 "Fall back to encrypted recording" (also 185): without   *)
(* the decoder the file is the captured stream as it came.  When a signal  *)
(* asks for the exit, and no write is short or fails, nothing is written   *)
(* from the memory of a block already freed.                               *)
(***************************************************************************)
OnlyStreamDataWritten ==
  ~use_b1 /\ SignalSeen /\ lost["output"] = {} => FREED \notin Range(file)

(***************************************************************************)
(* recskapa.c:206 "normal exit": when a signal has asked for the exit and  *)
(* the reader has ended, neither by running out of retries nor with a      *)
(* block in its hand because a write failed, it has taken out what the     *)
(* decoder still held.                                                     *)
(***************************************************************************)
NormalExitFinishes ==
  rpc = "done" /\ SignalSeen /\ rretry <= MaxRetry /\ qbuf = NULL /\ use_b1 => held = <<>>
=============================================================================
