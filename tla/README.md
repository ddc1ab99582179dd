# recskapa in TLA+

recskapa records a transport stream from a DVB tuner. One thread reads blocks from the
tuner, a second one descrambles them (optionally) with the keys of a smart card and writes
them to a file, a third one turns signals into a request to stop. This directory holds
TLA+ models of those threads and of the descrambler, TLC configurations that check them on
small instances, and proofs, checked by TLAPS, that the main safety results hold for every
size. The tuner, the path of the output file, the smart card and the cipher are modelled
too, so a recording is covered from its first argument to its exit.

- [1. The system](#1-the-system)
- [2. The modules and the code](#2-the-modules-and-the-code)
- [3. The runs](#3-the-runs)
- [4. What the code does not keep](#4-what-the-code-does-not-keep)
- [5. The proofs](#5-the-proofs)
- [6. What is not modelled](#6-what-is-not-modelled)
- [7. Plan](#7-plan)

## 1. The system

| Component | Source | State | Operations |
|---|---|---|---|
| Block queue | `recskapa.c` 30-146, `recskapa.h` | ring of pointers, two indices, two counters, a mutex, two condition variables | `create_queue`, `enqueue`, `dequeue`, `destroy_queue` |
| Threads | `recskapa.c` 148-330, 542-640 | `f_exit`, the block in each thread's hand, the signal set, the clock, the output file | main's capture loop, `reader_func`, `process_signals` |
| Decoder wrapper | `decoder.c` | which of descrambler, card and wrapper are allocated | `b1_startup`, `b1_decode`, `b1_finish`, `b1_shutdown` |
| Descrambler stream | `b1/arib_std_b1.c` 491-823, 1007-1300, 1526-1935, 2350-2399 | packets held back, position of a search, packets emitted, phase of each program and decryptor | `put`, `get`, `flush` |
| Descrambler tables | `b1/arib_std_b1.c` 1083-1494, 1937-2206 | PID map, programs and their stream lists, counted decryptors | `proc_pat`, `proc_pmt`, `proc_cat`, `teardown` |
| Section parser | `b1/ts_section_parser.c` | the section in work, the one accepted last, those ready, free elements, reference counts | `put`, `get`, `ret`, `get_count` |
| B-CAS card | `b1/b_cas_card.c` | context, handle, reader, status, answer buffer | `init`, `get_init_status`, `get_id`, `proc_ecm`, `release` |
| MULTI2 cipher | `b1/multi2.c` | system key, first chain value, scramble keys, work keys, which of them are set | `create`, `set_*`, `clear_scramble_key`, `encrypt`, `decrypt`, `release` |
| Tuner | `recskapacore.c` 24-65, 199-490 | three descriptors, the line of the channel list in work | `read_channels`, `tune`, `close_tuner` |
| Start and end | `recskapa.c` 332-565, 597-620, `recskapacore.c` 105-176, `mkpath.c` | options, recording time, output file, whether there is a decoder | `main`, `parse_time`, `mkpath`, `b1_startup`, `b1_shutdown` |

**How they interact.** main hands blocks to the reader through the queue. The reader calls
`b1_decode`, which `put`s a block into the descrambler and `get`s what has come out, and
writes that. `put` looks ahead in its buffer for a PAT, PMTs and ECMs before it emits
anything; the packets of a table go through a section parser, and the section changes the
PID map, the programs and the decryptors; an ECM goes to the card and its keys to the
cipher of a decryptor. A failed descrambler makes the reader fall back to the scrambled
blocks; a failed write or a full disk ends the reader, which signals the signal thread,
which raises `f_exit`, which main sees between two reads. main ends the reader by a null
entry and the signal thread by a signal to itself.

Around this, main goes through the arguments, the channel list, the tuner, the time, the
path and the output file, each of which may end the program, and then starts the decoder,
whose failure does not. The card's `init` fills a status with the system key; the
descrambler copies the system's number from it at once, and the system key whenever it
creates a cipher, while each reconnection fills it anew. At the end main closes tuner and
file and shuts the decoder down, if the start of it had succeeded.

**What is hard.**
Three threads that end each other by a flag, a sentinel, signals and two condition
variables, with timeouts in every wait; `f_exit` and `num_used` read without the lock;
`pthread_cond_signal` after the unlock. Packets that go through the descrambler twice: read
ahead for tables, then gone over from the head, with tables and keys that change in between.
Decryptors shared by streams of several programs and counted by hand. Sections spliced from
lost, repeated and damaged packets, in elements that are reused as soon as their count
is zero. A card that may fail at every call and is reconnected in the middle of an ECM, over
a reader that was chosen before, while ciphers keep the system key they were created with.
A start of twenty calls, each of which may fail and leave something open; another recorder
that makes the same directories, a file in the place of one. Work keys made when the scramble keys are set, whatever the
system key is by then; chaining and a broken last block in a cipher of 32-bit additions and
rotations.

**What makes each part correct.**

- Queue: a bounded FIFO channel; counters and indices agree.
- Threads: no block lost unaccounted, repeated or reordered; no gap in the file while
  nothing fails; no thread ends or waits behind the others' backs; each stop ends the
  process, each captured block gets written.
- Stream: packets come out complete and in order; each is descrambled with the keys of its
  own period; nothing is held back for a table that is there; what is held back is bounded.
- Tables: counts are exact, no entry points to something freed, the streams are bound as the
  last PMT says.
- Section parser: what is handed over behind the header of a section is the whole of it, in
  order, and once; what arrives whole is handed over at once.
- Card: handles are given back, answers are not mixed up, every ECM ends; a cipher's system
  key and scramble keys are from one card.
- Cipher: `decrypt` undoes `encrypt`; packets are descrambled with the keys of the last ECM
  and only while it is purchased.
- Start and end: the tuner is set to what the list says of the channel; the path is made
  unless somebody prevents it; every start ends in a recording or an error; at the exit
  nothing is left open.

PROJECT.json lists the hazards line by line with the properties that answer them.

## 2. The modules and the code

| Module | Models | EXTENDS / uses |
|---|---|---|
| `Queue` | the ring of `QUEUE_T`: `Put`, `Take`, `Contents` | |
| `BoundedFifo` | abstract: a FIFO channel of at most `Size` entries | |
| `Recorder` | the three threads around the queue | `Queue`, implements `BoundedFifo` |
| `PidMap` | `proc_pat`, `proc_pmt`, `proc_cat`, `teardown` on the PID map | |
| `SectionParser` | the operations of the parser on its elements | implements `SectionChannel` |
| `SectionChannel` | abstract: accepted sections are got in order, none twice in a row | |
| `SectionStream` | a broadcaster and a lossy reception around the parser | `SectionParser` |
| `B1Stream` | `put`, `get`, `flush` and the card's keys over whole packets | takes the results of `PidMap`, `SectionParser`, `BCasCard` as given |
| `BCasCard` | start, ECMs, reconnections and release of the card | |
| `Multi2` | the cipher, bit for bit, and the object's life under `proc_ecm` | |
| `Tuner` | `read_channels`, `tune`, `close_tuner` and the process's descriptors | |
| `Session` | main from the arguments to the exit, `mkpath`, `b1_startup`, `b1_shutdown`; which card a key is from | composes `Tuner` and `BCasCard` |
| `RecorderProofs`, `PidMapProofs`, `BindingProofs`, `SectionProofs`, `B1StreamProofs`, `BCasCardProofs`, `Multi2Proofs`, `SessionProofs` | theorems | `BindingProofs` builds on `PidMapProofs`, `SessionProofs` on `BCasCardProofs` |
| `MC...` | constants for TLC | |

`PROJECT.json` maps each definition to its lines.

**Recorder.** A critical section is one step: all it touches but `f_exit` is guarded by the
mutex, and `f_exit` only goes up. The signal after the unlock is a step of its own, and so
is the reader's unlocked look at `f_exit` and `num_used` (line 207). A wait ends because it was
signalled or because its second is over. The decoder "emits any beginning of what it holds
and the new block, or fails". `FREED` is what a freed block holds. SIGTERM acts as SIGINT,
SIGPIPE as SIGUSR2. A short `write` loses the rest, as in the code. `fileless` is never
true, since the output is opened or the program ends. `lost` is history.

**PidMap.** One turn of a loop over a list is one step, and while `pc` is not `idle` only the
same function goes on. Reference counts of PIDs are modulo `RefMod` (2^32 in the code).
`Conforming` is what is assumed of the broadcast: within a PMT no PID has two roles, a PID
that carries ECMs or EMMs does not become an elementary stream. Memory does not run out.

**SectionParser, SectionStream.** Bytes are parts `<<section, i>>`, stuffing, or noise. `Says` is
what any `HeaderParts` of them say when they are read as a header: the length, and whether the
format is the long one, which alone has a CRC. The headers that are broadcast announce the long
format; of spliced or damaged ones `Says` is any function. The CRC holds for the parts of one
section, in order, and for nothing else. Sections of several lengths are cut into packets in
every way the pointer field allows. Packets are lost, are damaged (the flag of a start, the
pointer, or another byte), or are put twice, as `proc_arib_std_b1` does with the packet of a new
PAT. `clean`, `due` and `accepted` are history.

**B1Stream.** The buffer is a sequence of units of 188 bytes: packets, and junk where the sync
byte is missing (`unit_size` starts at 188 in `create_arib_std_b1`, so `select_unit_size` is
never called). Blocks are cut at unit borders. A section fits into a packet; a program has one
elementary stream; a decryptor is alive while a program is bound to it. The ECM of
period n carries the keys of n and n + 1 (odd and even) and is broadcast before period n + 1
begins; a program is scrambled as its last PMT says; a PMT does not return to an ECM PID it has
left under the same PAT (`PidMap` has that case, see section 4). `MaxWait` stands for the
16 and 32 MB after which a search gives up, `SyncRun` for the eight packets of `resync`.
Packets arrive damaged (`transport_error_indicator`: the searches read them all the same, the
pass hands them on unread and unstripped) or broken (an adaptation field longer than the packet:
the pass goes on behind their first byte and must find the packets again). The CAT and memory that
runs out are left out. `sent` and `since` are history.

**BCasCard.** Each call of the card service is a step that succeeds or fails. `stat` is the
handle whose setup filled the status, `rbuf` the ECM whose answer it holds. After an error the
callers never come back, so a failure is final. It is checked as a part of `Session`.

**Multi2.** A 32-bit word is the set of its bits, so that sums and rotations can be proved
about as sets; `Carry` says when a bit of a sum is carried into, without recursion. Words
have `W` bits, `W` being 32 in the run. A call of `encrypt` or `decrypt` takes a step for each
block's way into the core, each turn of the core's loop and the way back. `encrypt`, which
recskapa never calls, is the broadcaster: an object of its own with the same round and the
keys of some card and ECM scrambles a packet, then `decrypt` may get it, with ECMs in between
that change, clear or release the descrambler's object. One packet is under way at a time.
`keys`, `granted`, `sealed`, `used`, `plain` and `trace` are history.

**Tuner.** The channel list is a sequence of lines; of a line there is whether it names the
channel, how many fields it has, its option letters and whether a newline ends it, which is
what the loops of `read_channels` look at. A line without a symbol rate that ends with a
newline has that newline as its last option letter. `fds` is the process's descriptor table
and `open` returns the lowest free number, so a program started without standard input
(`Inherited`) gets 0 for its front end. What `ioctl` and `poll` answer is free; the voltage and
tone calls, whose failure is only reported, are no steps.

**Session.** `at` is the place in main, across the functions it calls. Each call of the kernel
is a step. A path is the number of its directories; those that exist are a beginning of it.
The card model runs inside `at = "card"` and `at = "record"`; `cardOf` is the card each of its
connections was made to, and only a card that is in its reader answers. `ca_system_id` and
`m2_key` are the connections from whose setup the descrambler has its copies. The environment
may make directories of the same path and exchange a card; `plain` says that the next component
behind those directories is there but is a file. `raced`, `refused`, `m2_key` and `cardOf` are
history. `StopRecording` stands for the end of the threads, which is
`Recorder`'s subject.

## 3. The runs

Passing runs check every property listed; a run that ends in a violation is described in
section 4.

| Run | Bounds | Shows |
|---|---|---|
| `recorder` | queue of 2, 4 blocks, 1 retry | every interleaving of the threads, with and without the decoder, finite or indefinite |
| `recorder_live` | queue of 1, 2 blocks, 1 retry | each stop ends the process; until one, each block is written |
| `pidmap` | 1 program: 2 streams, 2 ECM PIDs, one of them also a stream's PID; or 2 programs of a stream each; 4 decryptors | counts, targets and bindings through all sequences of PMT, PAT, CAT and teardown |
| `sections` | sections of 3 and 11 parts, headers of 2, packets of 7, 5 packets, 1 damaged | the parser against `SectionChannel` and the broadcaster |
| `stream_keys` | 1 program, 7 units, blocks up to 3 | keys and periods |
| `stream_tables` | 2 programs, one ECM PID, null packets, junk, damaged and broken packets (2 of these at most), 6 units, blocks up to 2, the card grants, refuses, fails | order, completeness, tables, bound of the buffer |
| `session` | lists of up to 2 lines, 15 different ones, 2 readers, 2 retries, 3 ECMs, 5 polls, 2 directories, 1 exchange | a recording from its arguments to its exit, every call failing or not |
| `multi2` | 32 bits, 4 turns, 2 cards, 2 pairs of keys, payloads of 1, 8 and 21 bytes | the cipher and the keys it is used with |
| `recorder_freed`, `recorder_finish`, `pidmap_orphan`, `stream_rekey` | | section 4 |

**Why the bounds are enough.** A queue of two with four blocks wraps twice, is full and empty
in every position, and lets a block be dropped while an earlier one is in the queue, another in the
reader's hand, and a later one would follow. One retry is enough for the difference between
"wait again" and "give up". Four decryptors are more than the PIDs can keep alive, orphans
included: with three TLC finds a state that needs another. Two sections of 3 parts share a packet,
one of 11 spans two or three, and with a header of two parts the header itself is cut. Each spliced
or damaged header says something else: a section of either length, one shorter than the fields behind
its header, one longer than anything sent, or one in the short format, without a CRC. Seven units hold
PAT, PMT, ECM, a packet, a change of period, and a repetition of each of two of them. `MaxWait`
plus `MaxBlock` is below the number of units in `stream_tables`, so the limit is reached.
Two readers are the least for one to be passed over and another to be used, or for the
list to end behind the last; two retries allow a reconnection after a failed one; three ECMs an
answer, a failure and another answer. Two lines are the least for one to leave something to
the next, two directories for the second to be made after the first was there, was made or
was lost to another recorder. The real numbers of bits and turns and three lengths (no whole
block, no rest, both) show that the cipher's parts fit together; that they do for all keys and
lengths is proved (section 5).
Signals, timeouts and failures of `write`, of the card and of the decoder have no bound of their
own: they may happen wherever the code meets them.

**Properties.** Each is stated and commented in its module. The less obvious ones:

- `StreamAccounted` (Recorder): file, decoder, reader, queue and main's hand hold, in this order,
  each captured block that nobody dropped, once and in order. `GaplessRecording`: the file
  is a beginning of the stream unless the output or the decoder failed, since `enqueue` drops a
  block only when no later one follows.
- `ReaderGoneStops`, `ExitIsCertain`, `NoLostWakeup`: the bookkeeping between the threads.
- `KeepsDecryptor`, `BoundAsAnnounced` (PidMap): action properties over the whole of `proc_pmt`,
  which takes a step for each list entry.
- `KeepsUp` (SectionStream): a section whose parts were all put once is accepted with its
  last packet, whatever was lost or damaged before. `WholeBehindHeader`: what is handed over with the
  header of a section is that section, whole; of other headers see section 4.
- `PathMade` (Session): `mkpath` gets to the end or stops at the first obstacle, and what an obstacle
  is: a file in the way, a failed call, a directory another recorder made just now.
- `NotGarbled` and `WaitsForKeys` (B1Stream) are checked of one bought program whose PMT does
  not change, and proved of more (section 5). `NothingOverlooked`: a search never passes the table
  it waits for.
  `TablesFollow`: between two calls the tables are those of the packets that have come
  out, although both were read ahead. `InOrder` allows the packet of a new PAT to come
  out twice, as the code keeps it in the buffer (line 1914).
- `KeysOfOneCard` (Session): in mid-recording the system key of a cipher is of the card that is
  asked for its scramble keys, and never the zeros of a status that no card has filled. With
  such a status the system's number is 0 as well, so the descrambler finds no ECM PID and
  creates no cipher: the property holds because of `set_b_cas_card`, not because of `init`.
- `TunedAsListed` (Tuner) holds with incomplete lines before the right one because such a
  line, if another one follows, makes the search hang (section 4). Skipping the letter, the
  obvious repair, would break it (its mutant), since the settings get their defaults once, in
  front of the loop.
- `GivenBack` excepts a device with the number 0, which `close_tuner` takes for "not open".

**Fairness.** `recorder_live` assumes weak fairness of each thread: the scheduler runs a thread that
can run, `read` and `write` return, and a timed wait ends. The signals and the end of the recording time
are not fair, so nothing depends on them. `CapturedIsWritten` therefore speaks of the time
before a stop. `session` assumes weak fairness of main's and the card's steps together: calls of
the kernel and of the card service return. That ECMs arrive, that the recording is stopped,
and what others do to the path and the card is not fair. The other runs check safety only.

CHECK_DEADLOCK stays on everywhere: the final states have a stuttering action of their own (`Exited`,
`Down`, `Done`).

## 4. What the code does not keep

Each is a run that ends in a violation of one property, and a finding in `PROJECT.json`.

- `recorder_freed` (line 209): on the way out `buf` is reset to memory freed at line 203, and
  unless `b1_finish` replaces it, it is written to the file. The run records without a decoder
  and stops at a SIGINT: the file has the block, and then the freed memory once more.
- `recorder_finish` (line 174): a SIGINT whose flag goes up after the reader's check (line 207)
  meets it in `dequeue`, on an empty queue, and ends it without `b1_finish`: what the descrambler holds
  back is not written. (For the same reason the
  reader leaves entries in the queue when `f_exit` goes up during its wait, line 124.)
- `pidmap_orphan` (`arib_std_b1.c` 1361): `proc_pmt` registers the new program ECM PID before it
  releases the streams of the PMT before the last, which may clear the entry it has just
  made; the decryptor lives on without ECMs. With two programs the three PMTs may be spread over
  both of them, which is why `KeepsDecryptor` speaks of a program that is alone.
- `stream_rekey` (1843): a decryptor made in the middle of a pass gets its keys but not its
  phase; the next `put` waits for another ECM, and gives up after 32 MB. If
  the next ECM is one of a later period, the packets held back are descrambled with its keys.

Noticed without a run of their own:

- A PAT without programs and then one with programs (`arib_std_b1.c` 1089, 1915): `put` starts
  over in front of the first, which differs from the last one seen, takes it for new, stops
  there with the packet kept, and does the same in every later call: the buffer grows without
  limit, and the packet of the first one comes out once per call (which is why `ComesOutInOrder`
  is about streams without such a PAT). Without it, too, each change of the PAT while the buffer
  is full lets one more block in: the pass stops at it, what is behind it stays, and the next call
  appends before it looks. So the limit that line 765 speaks of is no bound of the buffer;
  `SbufLimit` says by how much it is exceeded, in blocks per pass or search cut short.
- A scrambled packet whose PID no table has named is descrambled with the keys of the only decryptor
  if there is one (`arib_std_b1.c` 1793). If `flush` comes while the PMT of a second program
  is missing, whose ECM PID is another one, that program's packets come out garbled.
- An option letter other than H, V, T or 1, or the newline of a line without a symbol rate,
  makes `read_channels` loop forever (`recskapacore.c` 251-273): `Hung`, which `StartEnds`
  excepts. An empty field for the symbol rate is taken as 0.
- `do_mkdir` takes a directory that another process makes between its `stat` and its `mkdir` for
  a failure (`mkpath.c` 17-20), and `mkpath` stops there: `raced`, one of the reasons that
  `PathMade` allows.
- The section parser checks the CRC only if the header announces the long format
  (`ts_section_parser.c` 308, 394). If a packet ends behind the first byte of a header and the next
  one is lost or damaged, the bytes that complete the header may announce the short format and a
  length, and what they make is handed over unchecked. The callers look at its table id alone
  (`arib_std_b1.c` 1108, 1332, 1653, 1954), so it is taken for a PAT, PMT, ECM or CAT. The tables of
  `B1Stream` fit into a packet, so it happens in `sections` only.
- A CAT that gives the PID of a listed stream to EMMs sets its count to 1 (`arib_std_b1.c` 1971)
  whatever lists it is in, so the release of the stream clears the entry of the EMM PID. `ProcCat` of
  `PidMap` leaves such a CAT out, like every other PID that changes its role, and with it the
  branch at 1961-1969.
- With all tuning options and a channel name as well, the name is taken for the recording time
  (`recskapa.c` 507), though the usage calls the channel optional.
- `tune` counts five events, not five times five seconds, and reads `revents` of a `poll` that
  has failed (`recskapacore.c` 431-434).
- `init_b_cas_card` succeeds when the last reader can be connected but its card does not answer
  the setup (174-176), with the reader's name behind the list; after a failed start neither
  descrambler nor card are released (`decoder.c` 51).
- After an exchange of the card (`b_cas_card.c` 458), a cipher that exists keeps the old card's
  system key; `KeysOfOneCard` speaks of the time before.
- `proc_pmt` returns 0 on every path, so the branches for its errors are dead.

## 5. The proofs

TLAPS checks all of them, with SMT, Zenon and the PTL decision procedure, from the assumptions
on the constants that the modules name: `QueueAssumption` (the size is positive, the null entry is no
block), `RecorderAssumption`, `CardAssumption`, `SessionAssumption` (numbers are naturals),
`TunerAssumption` (a list is a sequence of lines, of which only the last may lack its newline),
`Multi2Assumption` (words divide into bytes, a packet is as long as its blocks),
`LengthAssumption`, `HeaderAssumption`, `ElemsAssumption`, `NullAssumption`, `RoomAssumption` (a section
is as long as the fields of a long header at least, its header says what it is and no header
states less than its own length, a packet has room for more than the pointer field, null is no element,
no section and no bytes), `StuffingAssumption` (no section starts with the stuffing byte: 0xff is no table
id), and `PidMapAssumption`: a PID that carries PMTs carries nothing else, the values for "no
descriptor" and "clear" are no PIDs of a program and differ (0 and 0x1fff in the code), and a PAT has
too few programs to overflow the count of a PID, as it is one section; and `StreamAssumption`: the
values for "no table yet" and "clear" are no PIDs and no set of programs, a run is of more than one
packet and no longer than the limit of a search (8 packets and 16 MB in the code).

**Recorder.** `RecorderProofs` begins with lemmas about the ring: arithmetic modulo `Size`, then
`PutOK` and `TakeOK`: a `Put` into a queue that is not full appends to `Contents`, a `Take` from
one that is not empty removes its head, and both keep `QueueInv`. Then it shows that

    IInv == TypeOK /\ QueueInv /\ ExitIsCertain /\ ReaderGoneStops /\ NoLostWakeup

is inductive (`InitOK`, `MainStep`, `ReaderStep`, `OtherStep`, then `Invariance`). `ReaderGoneStops`
alone is not: the reader may end because of a null entry, so `ExitIsCertain` follows the null entry
from main's hand through the queue (where `QueueInv` says what `Contents` becomes) to the
reader's hand and says at each place that the exit flag is up. From `IInv` follow

- `TypeCorrect`, `QueueConsistent`, `ExitCertain`, `ReaderNeverLeavesMain`, `WakeupsAreSent`,
- `CaptureStops`: an action property, from the guards of main alone,
- `ImplementsFifo`: `Spec` implements `BoundedFifo` under `chan <- Contents`: each step
  of each thread is a `Send`, a `Receive` or a stutter,

for every queue size, number of blocks and number of retries.

The recorded stream has an invariant of its own, `SInv == Flow /\ Drops /\ Unwritten`
(`StreamInvariance`). `Flow` puts file, write buffer, decoder, reader, queue and main's hand one
behind the other and says that their blocks ascend, that they and the lost ones are all that was
captured, and that none is in two places; `Drops` that the queue has lost at most the block captured
last, and then no other is read; `Unwritten` that buffers are empty where the code has emptied them.
`StreamAccounted` alone is not inductive: it filters by `SelectSeq`, of which no induction is
possible, so `Flow` says by ranges and order what `PipelineIs` then turns into the filtered
sequence. `NoBlockUnaccounted` and `NoGap` follow.

**PidMap.** `PidMapProofs` speaks of tables and programs as values, so that the helpers of the code,
which are functions of the tables, have one lemma each (`RemoveIs`, `DropIs`, `Unuse`, `Use`, `Unref`,
`SetDecryptor`, `Bind`, ...). The inductive invariant is

    IInv == Shape /\ Good(tab, dec0, prog) /\ Sized(prog) /\ InPmt /\ InRelease

where `Good` is `Books` (a live decryptor's count is the number of its users and the hold of
`proc_pmt`; targets are live) with `Counts` (the count of a PID is the number of lists it is in,
each once; a PID in use is in a list) and `Owned` (a PMT entry leads to a program with that PMT
PID). None of the three holds without the others: that an entry is cleared when its count gets to
zero keeps the decryptors' books only because the count is that of the lists, and a list's head
may be unreferenced only because it is counted. `InPmt` says what is left of the PMT in work, and
that its streams are in no list yet; `InRelease` that the programs gone over are empty. `Types`,
`RefsAreCounted`, `TargetsAreLive` and `EntriesAreCounted` follow.

`BindingProofs` goes on to what a whole PMT does. Each helper *spares* the bindings and
registrations of the PIDs it is not about (`Spares`), and such changes compose. `Bindings` says that
each stream of the PMT is still to come or bound as announced, and that `dec0` is of the program's
ECM PID; `BoundAsAnnounced` follows (`StreamsAreBound`). For `KeepsDecryptor` (`RepeatedKeep`) the
invariant `Kept` says that a repeated stream and the registration of its decryptor are untouched in
all of `proc_pmt`. It needs three more: `NoSelf`, a stream's decryptor is never of the stream's own
PID; `Sole`, in a program that is alone the ECM PID of a listed stream's decryptor is listed with
it; and `Begun`, while the older lists are released the last one is as it was. By these both PIDs
are in the last list too, so that they are counted twice (`CountedTwice`) when the older one goes.
With a second program `Sole` fails, which is the case of `pidmap_orphan`.

**Section parser.** `IInv == ParserInv /\ StreamInv` is the parser's memory (each element in one
place, counted by its remaining uses; what is ready is as long as its header says and, if that announces
a CRC, whole; the section compared with cannot be taken for a new one) and the position of the broadcaster, from which come the parts in a packet. `Types`,
`OnePlace`, `CountedUses` and `WholeSections` follow, and `Implements`: the parser implements
`SectionChannel`. `KeepsUp` (`AcceptedInTime`) relates what the broadcaster has sent to what the
parser has gathered, and has an invariant of its own, `UpInv == Newest(...) /\ Shown /\ Ahead /\
Gathered`:

- `Newest`: what has been accepted ends with the section compared with, so that a section that is
  not accepted again is the one accepted just before.
- `Gathered`: after a put, the section that is being sent without a break is under way with all
  its parts so far, and those that were due are what has been accepted last.
- `Ahead`: within a put, the bytes still to be read are laid out as the sections due and the one
  being sent (`Trail`), and those due already taken from them have been accepted (`Follows`).
- `Shown`: the same of the packet as a whole, which may be put again.

`Trail` is where the lengths and offsets at the packet's edge are accounted for (`StartTells`: a
packet with a start shows the end of one section, at most two whole ones, and the beginning of
another or stuffing). All this holds for every set of sections and lengths, number of elements,
size of a packet, meaning of spliced and damaged headers, and everything that may be lost, damaged or
repeated.

**B1Stream.** `Base`, which gives `TypeCorrect`, says where the stream is: the buffer is the last part
of what was given to `put`, with at most the next unit of a pass junked (`Buffer`, which is what
makes a broken packet harmless), units say where they are in the stream (`Record`), and a search is
for the table that is missing, and starts at the head after another one (`Searching`). `Front` is
then the number of units that have been gone over, across the calls, and each result is an
invariant about it, inductive together with `Base`:

- `Complete`, for `NothingIsLost`: what is not behind `Front` came out or is excused. A unit
  skipped in a pass is less than a run away from a unit without its sync byte, since a run of good
  units would have been found (`AtIs`, `SkippedNear`), and that unit was broadcast as junk or is
  the broken packet. `flush` skips to the last such unit instead (`FlushAtEnd`).
- `Reach`, for `ComesOutInTurn`: nothing has come out from behind `Front` but the packet of the
  PAT at the head of the buffer. `Known`, for `ComesOutInOrder`: then its programs are the ones in
  force, so that it does not end the next pass again. An empty PAT makes `Known` false: the search
  reads on behind it.
- `Looked`, for `NothingIsOverlooked`: what the present search has gone over does not bring what it
  wants. It survives a change of the stage because `sbuf_offset` goes back to 0 with it.
- `Bounded`, for `LimitKept`: `MaxWait` and a block for each of: the call under way, the first PAT, each
  packet in `Cuts`, which came out and ended a pass. `Reach` is needed for `Cuts` to grow only.
  Without junk what is left behind a pass or in front of a vain search is shorter than a run.

Three results are about the streams for which the code keeps them, which are conditions on what is
broadcast, not on how it is cut, lost or answered:

- `TablesAsEmitted`, for `TablesFollow`, of streams without empty PATs (after one, a packet stays
  in the buffer and comes out once per call, section 4). `Sourced` says which unit each
  result came from; `Following` that the tables are those of the last PAT and PMTs that came
  out (`FollowsFrom`), that a pass begins with no PMT missing, and that while one is missing
  none has come out behind the last PAT: so what a search reads ahead, damaged or not, takes
  the place of nothing that has come out.
- `KeysAwaited`, for `WaitsForKeys`, of streams with one ECM PID and no program announced as clear
  (`OneDecryptor`), which the card does not refuse as unpurchased. `Ready` says that a pass
  begins only when nothing is missing, `Bought` that a decryptor past its first ECM has keys.
- `KeysMatch`, for `NotGarbled`, of streams with one decryptor again, without junk and broken
  packets and with whole ECMs (`Steady`); other packets may be damaged and the card may answer as it
  likes. `Timeline` says that each period has its ECM before the next; `Current`, of each decryptor,
  that it is alive while it has keys (`Holds`) and that from its first ECM on they are those of
  the newest one the pass has gone over (`Sound`), which is what makes it harmless that the
  search has read the first ECM ahead.

`NotGarbled` does not hold without `OneDecryptor`: of a program that changes from clear to scrambled for
the reason shown by `stream_rekey`, and of two ECM PIDs because a packet of a PID that is in no table
yet is descrambled with the only decryptor there is (section 4).

The others hold for every set of programs, ECM PIDs and packets, all faults; all of them for
every limit, run length and cut into blocks. The attempt corrected two properties that hold on the small instances: the old
`SbufLimit` allowed one block over the limit, however often the PAT changes, and `TypeOK` bounded
`sbuf_offset` after a failure in `flush` too.

**BCasCard.** `IInv == TypeOK /\ NoHandleLost /\ AnswersThisEcm /\ Progress`, where `Progress`
ties `stat`, the caller and the reader to the place in the code: without it `TypeOK` is not
inductive, since `connect_card` is called from two places and passes through states with a
handle whose setup is not done. `CardTypeCorrect`, `HandlesKept` and `OwnAnswer` hold for every
number of readers, retries and ECMs.

**Session.** Every step of a session is a step of `BCasCard` or leaves the card alone
(`CardSteps`), so the card's invariant holds in every recording (`CardInSession`,
`HandlesInSession`, `AnswersInSession`). The invariants of the session are added to it:

- `Keys`, for `OneCardsKeys`: connections are numbered as they are made; until a card is exchanged
  those to a reader reach that reader's card; once a setup was answered the reader is kept,
  and no ECM is sent before. The last part is why a status of zeros never gets into a cipher.
- `Path`, for `PathIsMade`: the directories gone over exist, and where `mkdir` is about to be
  called there is none unless `stat` failed or somebody has just made it.
- `Held` and `Handed`, for `AllGivenBack`: whatever is open is in the variable `close_tuner` or
  main will look at, and those variables are empty until the place where they are filled, so
  that no descriptor is overwritten.

- `Sought`, for `TunedRight`: no line follows one that has left something in the settings: with a newline it
  makes the search hang or is the one that was sought, without it it is the last; while options
  are read, the settings are the defaults and the letters gone over.
- `Referred` and `Simple`, for `SessionTypes`: each descriptor that is kept refers to what it was
  opened for, since only a free number is given out.

They hold for every channel list, depth of path, number of readers, retries, ECMs and exchanges.

**Multi2.** Each of `Pi1` to `Pi4` is its own inverse, being the `Xor` of a half with a function of
the other half, whatever the additions in it compute; so one turn of `core_decrypt` undoes one
of `core_encrypt` (`TurnBack`). For the loop and the chain the history variable `trace` keeps
the data of each block at each turn of the encryption, and the inductive invariant says that
the decryption is at the same place in it, going backwards, with the cipher text in the chain,
and that the rest is combined with the same key stream both times. From it follow
`DecryptInverts` (`RoundTrip`) and, with what the object's state says of its keys,
`KeysOfLastEcm` (`LatestKeys`), for every word size, number of turns, set of keys and length of
payload.

**Only model-checked.** Liveness (`StopTerminates`, `CapturedIsWritten`, `EcmEnds`, `StartEnds`),
which is out of reach of TLAPS. Every invariant and action property of the passing runs is
stated by a theorem.

## 6. What is not modelled

- `parse_time`'s arithmetic, the frequencies, the polarity and satellite names of the command
  line: formats of numbers. `calc_cn` and the voltage and tone calls, which leave no state.
- In `B1Stream`: two elementary streams in a program, the CAT (in `PidMap`), memory that runs
  out.
- What a card answers: its keys are whatever it says. `change_id_max` (never reached),
  `get_pwr_on_ctrl` (always refuses).
- `add_ref` of the cipher, `reset` of parser and descrambler and the statistics of programs and
  sections (no caller).

## 7. Plan

Done: the queue and the threads, the tables, the section parser, the card, the tuner and the
session around them, and the cipher, each with its proofs; the packet stream.

Next, models:

1. `B1Stream` with two elementary streams in a program, on smaller instances.
2. An abstract specification of the descrambler, a channel that delays, and `Recorder`'s decoder
   and `B1Stream` both shown to implement it: the link between the two models.
3. `parse_time` as an operator over option strings cut into tokens, against its usage text.

Next, proofs:

1. `KeysMatch` for several ECM PIDs, of the packets whose PMT has been found.
2. The descrambler's channel, once it is stated.
