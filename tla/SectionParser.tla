---------------------------- MODULE SectionParser ----------------------------
(***************************************************************************)
(* The section parser of src/b1/ts_section_parser.c: it puts the sections  *)
(* of one PID together from the payloads of its packets, drops the broken  *)
(* and the repeated ones and hands the others over one by one.             *)
(*                                                                         *)
(* A section is a member of Sections; its bytes come in parts, <<s, i>>    *)
(* being the i-th of them.  The first HeaderParts bytes (three, in the     *)
(* code) are its header: they say whether it is in the long format, and    *)
(* with it has a CRC, and how long it is.  Every section broadcast is in   *)
(* the long format, as those of a PAT, a PMT, a CAT and an ECM are; bytes  *)
(* spliced or damaged may say anything.  A CRC holds for the bytes of one  *)
(* section and for no other bytes.  The limit MAX_RAW_SECTION_SIZE is      *)
(* above the largest length a header can state, so that                    *)
(* append_section_data() cuts at the section's end and never at that       *)
(* limit.  A parser is fed one PID by all its callers, and allocation      *)
(* succeeds.                                                               *)
(***************************************************************************)
EXTENDS Naturals, Sequences, FiniteSets

CONSTANTS Sections,      \* the sections the stream may carry
          Length,        \* the number of parts of each
          HeaderParts,   \* bytes that tell the format and the length
          LongParts,     \* bytes without which no long section is complete
          Says,          \* what any HeaderParts bytes say as a header
          Noise,         \* bytes that damage may put in the place of others
          Elems,         \* the section elements that can be allocated
          Null, Stuffing

ASSUME ElemsAssumption == Elems \subseteq Nat /\ Null \notin Elems

VARIABLES raw,    \* the bytes between raw and tail of each element
          ref,    \* its reference count
          work,   \* the element of the section being put together
          last,   \* the element of the section committed last
          pool,   \* free elements, and those handed over or still compared with
          buff,   \* elements of the sections ready to be handed over
          stat,   \* the counts of sections: all, committed, broken
          rest,   \* the bytes put_include_section_start() has still to read
          pc      \* where the call in progress stands

parserVars == <<raw, ref, work, last, pool, buff, stat, rest, pc>>

Bytes(s) == [i \in 1 .. Length[s] |-> <<s, i>>]

Byte == {Stuffing} \cup Noise \cup UNION {{Bytes(s)[i] : i \in 1 .. Length[s]} : s \in Sections}

ASSUME LengthAssumption ==
  /\ HeaderParts \in Nat \ {0} /\ LongParts \in Nat /\ LongParts >= HeaderParts
  /\ Length \in [Sections -> {n \in Nat : n >= LongParts}]

\* A length stated is that of the bytes behind the header, so never less than it.
ASSUME HeaderAssumption ==
  /\ Says \in [[1 .. HeaderParts -> Byte]
                  -> [long : BOOLEAN, total : {n \in Nat : n >= HeaderParts}]]
  /\ \A s \in Sections :
       Says[[i \in 1 .. HeaderParts |-> <<s, i>>]] = [long |-> TRUE, total |-> Length[s]]

\* A null pointer is no section.
ASSUME NullAssumption == Null \notin Sections /\ Null \notin Seq(Byte)

\* No table id is 0xff: a section does not begin like the stuffing, which is how
\* put_include_section_start() sees the end of the sections of a packet.
ASSUME StuffingAssumption == \A s \in Sections : <<s, 1>> # Stuffing

InUse == {pool[i] : i \in DOMAIN pool} \union {buff[i] : i \in DOMAIN buff}
           \union ({work} \ {Null})

ParserInit ==
  /\ raw = [e \in Elems |-> <<>>] /\ ref = [e \in Elems |-> 0]
  /\ work = Null /\ last = Null
  /\ pool = <<>> /\ buff = <<>>
  /\ stat = [total |-> 0, unique |-> 0, error |-> 0]
  /\ rest = <<>> /\ pc = "idle"

(***************************************************************************)
(* Putting a section together.                                             *)
(***************************************************************************)
\* What the header bytes say, whosever they are.
Header(bytes) == Says[[i \in 1 .. HeaderParts |-> bytes[i]]]

\* extract_ts_section_header(): the fields behind the header of a long section
\* must be there before any of it is used.
HeaderKnown(bytes) ==
  /\ Len(bytes) >= HeaderParts
  /\ Header(bytes).long => Len(bytes) >= LongParts

Wanted(bytes) == Header(bytes).total

Complete(bytes) == HeaderKnown(bytes) /\ Len(bytes) >= Wanted(bytes)

\* Mutant of Joined: what follows the section in the packet is kept.
JoinedUncut(bytes) == bytes

\* append_section_data(): what reaches beyond the section is cut off.
Joined(bytes) == IF Complete(bytes) THEN SubSeq(bytes, 1, Wanted(bytes)) ELSE bytes

CrcHolds(bytes) == \E s \in Sections : bytes = Bytes(s)

\* Only a section in the long format has a CRC to be checked.
Sound(bytes) == Header(bytes).long => CrcHolds(bytes)

Same(bytes) == last # Null /\ raw[last] = bytes

Count(fields) ==
  stat' = [f \in DOMAIN stat |-> IF f \in fields THEN stat[f] + 1 ELSE stat[f]]

\* cancel_elem_*(): the element goes back to the free ones of a pool p.
Cancel(e, p, fields) ==
  /\ raw' = [raw EXCEPT ![e] = <<>>] /\ ref' = [ref EXCEPT ![e] = 0]
  /\ pool' = Append(p, e)
  /\ Count(fields)
  /\ UNCHANGED <<last, buff>>

\* The element compared with so far is given up.
Released(r) ==
  IF last # Null /\ r[last] > 0 THEN [r EXCEPT ![last] = @ - 1] ELSE r

\* Mutant of Commit: the section compared with before is not given up.
CommitKeepsLast(e, p, bytes) ==
  /\ raw' = [raw EXCEPT ![e] = bytes] /\ ref' = [ref EXCEPT ![e] = 2]
  /\ last' = e /\ buff' = Append(buff, e) /\ pool' = p
  /\ Count({"total", "unique"})

\* Mutant of Commit: a reference too many.
CommitThreeRefs(e, p, bytes) ==
  /\ raw' = [raw EXCEPT ![e] = bytes]
  /\ ref' = [Released(ref) EXCEPT ![e] = 3]
  /\ last' = e /\ buff' = Append(buff, e) /\ pool' = p
  /\ Count({"total", "unique"})

\* commit_elem_updated(): one reference for the caller to return, one for the
\* comparison with the sections to come.
Commit(e, p, bytes) ==
  /\ raw' = [raw EXCEPT ![e] = bytes]
  /\ ref' = [Released(ref) EXCEPT ![e] = 2]
  /\ last' = e /\ buff' = Append(buff, e) /\ pool' = p
  /\ Count({"total", "unique"})

\* Mutant of Settle: a section whose CRC fails is committed.
SettleAnyCrc(e, p, bytes) ==
  \/ Same(bytes) /\ Cancel(e, p, {"total"})
  \/ ~Same(bytes) /\ Commit(e, p, bytes)

\* A complete section in element e, which is in no list, p being the pool.
Settle(e, p, bytes) ==
  \/ ~Sound(bytes) /\ Cancel(e, p, {"total", "error"})
  \/ Sound(bytes) /\ Same(bytes) /\ Cancel(e, p, {"total"})
  \/ Sound(bytes) /\ ~Same(bytes) /\ Commit(e, p, bytes)

InProgress == IF work = Null THEN FALSE ELSE raw[work] # <<>>

\* put_exclude_section_start()
Continue(data) ==
  \/ ~InProgress /\ UNCHANGED <<raw, ref, work, last, pool, buff, stat>>
  \/ /\ InProgress
     /\ LET all == raw[work] \o data
        IN  \/ /\ ~Complete(all)
               /\ raw' = [raw EXCEPT ![work] = all]
               /\ UNCHANGED <<ref, work, last, pool, buff, stat>>
            \/ /\ Complete(all)
               /\ work' = Null
               /\ Settle(work, pool, Joined(all))

\* put_include_section_start(): a section in progress that the bytes before the
\* start did not complete is broken.
Abandon ==
  /\ work' = Null
  /\ \/ work = Null /\ UNCHANGED <<raw, ref, last, pool, buff, stat>>
     \/ /\ work # Null
        /\ Cancel(work, pool, IF InProgress THEN {"total", "error"} ELSE {})

\* Mutant of Reusable: a section handed over is free, compared with or not.
ReusableAny == DOMAIN pool

\* query_work_elem(): the first element of the pool nobody refers to, ...
Reusable == {i \in DOMAIN pool : ref[pool[i]] < 1}

\* ... or a new one.  Without one the parser would stop: the runs check that
\* Elems is large enough by looking for deadlocks.
Fresh == Elems \ InUse

\* The section that starts at the beginning of rest, in element e.
StartIn(e, p) ==
  LET bytes == Joined(rest)
      beyond == SubSeq(rest, Len(bytes) + 1, Len(rest))
  IN  \/ /\ ~Complete(rest)
         /\ raw' = [raw EXCEPT ![e] = rest] /\ ref' = [ref EXCEPT ![e] = 0]
         /\ work' = e /\ pool' = p
         /\ rest' = <<>> /\ pc' = "put"
         /\ UNCHANGED <<last, buff, stat>>
      \/ /\ Complete(rest)
         /\ Settle(e, p, bytes)
         /\ rest' = beyond
         /\ pc' = IF beyond # <<>> /\ beyond[1] # Stuffing THEN "start" ELSE "put"
         /\ UNCHANGED work

(***************************************************************************)
(* The calls.  A packet has the flag that a section starts in it, the      *)
(* pointer to that start and the bytes.                                    *)
(***************************************************************************)
\* No section starts in the packet.
PutExclude(packet) ==
  /\ pc = "idle" /\ ~packet.start
  /\ Continue(packet.bytes)
  /\ pc' = "put" /\ UNCHANGED rest

\* The pointer leads out of the packet: "input data is probably broken".
PutBroken(packet) ==
  /\ pc = "idle" /\ packet.start /\ packet.pointer >= Len(packet.bytes)
  /\ Abandon
  /\ pc' = "put" /\ UNCHANGED rest

PutInclude(packet) ==
  /\ pc = "idle" /\ packet.start /\ packet.pointer < Len(packet.bytes)
  /\ \/ packet.pointer > 0 /\ Continue(SubSeq(packet.bytes, 1, packet.pointer))
     \/ packet.pointer = 0 /\ UNCHANGED <<raw, ref, work, last, pool, buff, stat>>
  /\ rest' = SubSeq(packet.bytes, packet.pointer + 1, Len(packet.bytes))
  /\ pc' = "abandon"

PutAbandon ==
  /\ pc = "abandon" /\ Abandon
  /\ pc' = "start" /\ UNCHANGED rest

\* unlink_ts_section_list()
Unlinked(i) == SubSeq(pool, 1, i - 1) \o SubSeq(pool, i + 1, Len(pool))

PutStart ==
  /\ pc = "start"
  /\ \/ \E i \in Reusable :
          /\ \A j \in Reusable : i <= j
          /\ StartIn(pool[i], Unlinked(i))
     \/ /\ Reusable = {}
        /\ \E e \in Fresh : (\A f \in Fresh : e <= f) /\ StartIn(e, pool)

\* The caller asks for the count, and for the next packet if there is none.
NothingToGet ==
  /\ pc = "put" /\ buff = <<>>
  /\ pc' = "idle"
  /\ UNCHANGED <<raw, ref, work, last, pool, buff, stat, rest>>

\* Mutant of Get: the section stays ready.
GetPeeks ==
  /\ pc = "put" /\ buff # <<>>
  /\ pool' = Append(pool, Head(buff))
  /\ pc' = "got"
  /\ UNCHANGED <<raw, ref, work, last, buff, stat, rest>>

\* get_ts_section_parser(): of all sections ready the caller takes one.
Get ==
  /\ pc = "put" /\ buff # <<>>
  /\ pool' = Append(pool, Head(buff)) /\ buff' = Tail(buff)
  /\ pc' = "got"
  /\ UNCHANGED <<raw, ref, work, last, stat, rest>>

\* ret_ts_section_parser() finds the element in the pool by its data pointer:
\* it is the one Get has put at the end.
Ret ==
  /\ pc = "got"
  /\ LET e == pool[Len(pool)]
     IN  ref' = IF ref[e] > 0 THEN [ref EXCEPT ![e] = @ - 1] ELSE ref
  /\ pc' = "idle"
  /\ UNCHANGED <<raw, work, last, pool, buff, stat, rest>>

Put(packet) == PutExclude(packet) \/ PutBroken(packet) \/ PutInclude(packet)

Parse == PutAbandon \/ PutStart \/ NothingToGet \/ Get \/ Ret

(***************************************************************************)
(* Properties.                                                             *)
(***************************************************************************)
\* Elements allocated or free, statistics and the position of the call are of
\* their types: the memory of the parser (src/b1/ts_section_parser.c:24-35).
ParserTypeOK ==
  /\ raw \in [Elems -> Seq(Byte)] /\ ref \in [Elems -> 0 .. 2]
  /\ work \in Elems \cup {Null} /\ last \in Elems \cup {Null}
  /\ pool \in Seq(Elems) /\ buff \in Seq(Elems)
  /\ stat \in [{"total", "unique", "error"} -> Nat]
  /\ rest \in Seq(Byte)
  /\ pc \in {"idle", "abandon", "start", "put", "got"}

\* Every allocated element is in one place: the one being filled, the free
\* ones or the ready ones, and once there.  An element in two lists would be
\* filled while a caller still waits for it (list operations at 622-703).
InOnePlace ==
  /\ \A i, j \in DOMAIN pool : pool[i] = pool[j] => i = j
  /\ \A i, j \in DOMAIN buff : buff[i] = buff[j] => i = j
  /\ \A i \in DOMAIN pool, j \in DOMAIN buff : pool[i] # buff[j]
  /\ \A i \in DOMAIN pool : pool[i] # work
  /\ \A j \in DOMAIN buff : buff[j] # work

\* The count of an element is its remaining uses: one while it is the section
\* compared with, one until its caller returns it.  A count too low lets
\* query_work_elem() overwrite the section compared with, one too high makes
\* the element unusable for ever (commit_elem_updated at 512, ret at 201).
RefsAreUses ==
  \A e \in Elems :
    LET compared == IF e = last THEN 1 ELSE 0
        waiting  == IF \E j \in DOMAIN buff : buff[j] = e THEN 1 ELSE 0
        got      == IF pc = "got" /\ e = pool[Len(pool)] THEN 1 ELSE 0
    IN  ref[e] = compared + waiting + got

\* Bytes that begin with the header of a section are handed over only if they
\* are the whole of it, whatever packets are lost, damaged or repeated behind
\* the header.  Of bytes whose header itself is spliced or damaged the code
\* does not promise it: they may say that they have no CRC (crc32 at 308 and
\* 394, only under section_syntax_indicator).
BehindHeader(bytes) ==
  \A s \in Sections : SubSeq(bytes, 1, HeaderParts) = SubSeq(Bytes(s), 1, HeaderParts)
                        => bytes = Bytes(s)
WholeBehindHeader == \A j \in DOMAIN buff : BehindHeader(raw[buff[j]])

\* What a caller may be given: as many bytes as their header says, and whole
\* if the header says that there is a CRC.
Acceptable ==
  {bytes \in Seq(Byte) : Len(bytes) >= HeaderParts /\ Len(bytes) = Wanted(bytes) /\ Sound(bytes)}

\* What has been accepted stays as it is until it is handed over, comes out in
\* that order, and nothing is accepted twice in a row
\* (compare_elem_section at 467, get_ts_section_parser at 179).
Channel == INSTANCE SectionChannel WITH
  Content <- Acceptable, Nothing <- Null,
  newest <- IF last = Null THEN Null ELSE raw[last],
  backlog <- [i \in DOMAIN buff |-> raw[buff[i]]]
IsChannel == Channel!Spec
=============================================================================
