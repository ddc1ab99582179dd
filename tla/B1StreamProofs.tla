--------------------------- MODULE B1StreamProofs ---------------------------
(***************************************************************************)
(* Theorems of module B1Stream, for all sets of programs and packets, all  *)
(* cuts of the stream into blocks, all limits, and any faults.             *)
(***************************************************************************)
EXTENDS B1Stream, SequenceTheorems, FiniteSetTheorems, TLAPS

-----------------------------------------------------------------------------
(* Types of the data.                                                      *)

Kind == {"pat", "pmt", "ecm", "data", "null", "junk", "broken"}

Unit == [packet : Packet, pos : Nat, damaged : BOOLEAN, period : Nat]

Hows == {"as is", "scrambled", "flushed", "clear", "early", "garbled"}

Item == [pos : Nat, kind : Kind, how : Hows]

Dec == [phase : 0 .. 2, m2 : Nat, locked : BOOLEAN, last : Nat, since : Nat]

Places ==
  {"idle", "stage", "pat", "pmt", "ecm", "proc", "get", "last", "flush", "end"}
    \cup Failures

Shape ==
  /\ sent \in Seq(Unit) /\ sbuf \in Seq(Unit) /\ dbuf \in Seq(Item) /\ out \in Seq(Item)
  /\ given \in 0 .. Len(sent) /\ Len(sbuf) <= given
  /\ curr \in 0 .. Len(sbuf) /\ sbuf_offset \in Nat
  /\ pat \in (SUBSET Program) \cup {Null}
  /\ phase \in [Program -> 0 .. 2] /\ pmt \in [Program -> EcmPid \cup {Clear, Null}]
  /\ dec \in [EcmPid -> Dec]
  /\ pc \in Places

-----------------------------------------------------------------------------
(* The invariants.                                                         *)

\* The passes, in which units before the position have been gone over.
Passing == pc \in {"proc", "last", "flush"}

\* Units that have left the buffer, and those gone over as well.
Gone == given - Len(sbuf)
Front == Gone + (IF Passing THEN curr ELSE 0)

\* The broadcaster's record, of which a unit says where it is in it.
Record ==
  /\ Len(sent) <= MaxUnits /\ Len(sent) <= given + MaxBlock
  /\ \A i \in 1 .. Len(sent) :
       sent[i].pos = i /\ sent[i].packet \in Kinds /\ sent[i].period <= Period

\* No keys are from a later period.
Present == \A e \in EcmPid : dec[e].m2 <= Period

\* The unit a unit of the buffer was broadcast as, and what is left of a broken one.
Source(k) == sent[Gone + k]
Junked(u) == [u EXCEPT !.packet = [kind |-> "junk"]]

\* The buffer is the last part of the stream, with at most the next unit junked.
Buffer ==
  \A k \in 1 .. Len(sbuf) :
    \/ sbuf[k] = Source(k)
    \/ /\ Source(k).packet.kind = "broken" /\ sbuf[k] = Junked(Source(k))
       /\ pc \notin Failures => Gone + k <= Front + 1

\* A search is for what is missing, and starts at the head after another one.
Searching ==
  /\ pc \in {"pat", "pmt", "ecm"} => NextStage = pc
  /\ pc \in {"idle", "get", "stage"} /\ NextStage = "proc" => sbuf_offset = 0
  /\ pc = "proc" => sbuf_offset = 0 /\ pat # Null
  /\ pc \notin {"last", "flush", "end"} \cup Failures => sbuf_offset <= Len(sbuf)

Base == Shape /\ Record /\ Present /\ Buffer /\ Searching

\* What is not behind the position is emitted or excused.
Near(i) ==
  \/ sent[i].packet.kind = "null" /\ Strip /\ ~sent[i].damaged
  \/ sent[i].packet.kind = "broken"
  \/ \E j \in DOMAIN sent :
       sent[j].packet.kind = "junk" /\ i - j \in 1 - SyncRun .. SyncRun - 1
Ahead(i) == \E j \in DOMAIN sent : sent[j].packet.kind = "junk" /\ j > i
Released(i) == \E k \in DOMAIN Emitted : Emitted[k].pos = i
Complete ==
  pc \notin Failures =>
    \A i \in 1 .. (IF pc = "end" THEN given ELSE Front) :
      Near(i) \/ Released(i) \/ (pc \in {"flush", "end"} /\ Ahead(i))

\* The packet of a PAT that ended a pass is the first one of the buffer.
Again ==
  /\ sbuf # <<>> /\ sbuf[1].packet.kind = "pat"
  /\ Passing => curr = 0
Reach ==
  pc \notin Failures =>
    \A k \in DOMAIN Emitted :
      \/ Emitted[k].pos <= Front
      \/ Emitted[k].pos = Front + 1 /\ Emitted[k].kind = "pat" /\ Again

\* No PAT without programs is broadcast.
NoEmptyPat == \A packet \in Kinds : packet.kind = "pat" => packet.programs # {}

\* It came out as the last one, and its programs are known.
Known ==
  pc \notin Failures /\ NoEmptyPat =>
    \A k \in DOMAIN Emitted :
      \/ Emitted[k].pos <= Front
      \/ k = Len(Emitted) /\ pat = sbuf[1].packet.programs

\* The position up to which a search has been, and what it has not passed over.
Searched == IF pc \in {"pat", "pmt", "ecm"} THEN curr ELSE sbuf_offset
Missed(i, stage) ==
  LET packet == sbuf[i].packet
  IN  \/ stage = "pat" /\ packet.kind = "pat" /\ packet.programs # {}
      \/ stage = "pmt" /\ packet.kind = "pmt"
         /\ packet.program \in pat /\ phase[packet.program] = 0
      \/ stage = "ecm" /\ IsNewEcm(sbuf[i]) /\ dec[packet.pid].phase = 0
Looked ==
  pc \in {"idle", "get", "stage", "pat", "pmt", "ecm"} =>
    \A i \in 1 .. Searched : Near(Gone + i) \/ ~Missed(i, NextStage)

\* The limit.
Clean == \A i \in DOMAIN sent : sent[i].packet.kind # "junk"
Cuts ==
  {i \in DOMAIN Emitted :
     IF i < Len(Emitted) THEN Emitted[i].pos = Emitted[i + 1].pos
     ELSE Emitted[i].pos > Front}
Blocks ==
  (IF pat = Null THEN 0 ELSE 1) + (IF pc \in {"idle", "get"} THEN 0 ELSE 1) + Cardinality(Cuts)
Bounded ==
  Clean /\ pc \notin {"last", "flush", "end"} \cup Failures
    => Len(sbuf) <= MaxWait + MaxBlock * Blocks

IInv == Base /\ Complete /\ Reach /\ Known /\ Looked /\ Bounded

-----------------------------------------------------------------------------
(* Packets and units.                                                      *)

\* What a packet of each kind carries.
LEMMA PacketParts ==
  ASSUME NEW p \in Packet
  PROVE  /\ p.kind \in Kind
         /\ p.kind = "pat" => p.programs \in SUBSET Program
         /\ p.kind = "pmt" => p.program \in Program /\ p.ecm \in EcmPid \cup {Clear}
         /\ p.kind = "ecm" => p.pid \in EcmPid
BY DEF Packet, Kind

LEMMA JunkIsPacket == [kind |-> "junk"] \in Packet
BY DEF Packet

\* A broken packet that has been gone into.
LEMMA JunkedIs ==
  ASSUME NEW u \in Unit
  PROVE  /\ Junked(u) \in Unit /\ Junked(u).packet.kind = "junk"
         /\ Junked(u).pos = u.pos /\ Junked(u).damaged = u.damaged
         /\ Junked(u).period = u.period
BY JunkIsPacket DEF Junked, Unit

\* A unit of the buffer in the broadcaster's record.
LEMMA UnitIs ==
  ASSUME Shape, Record, Buffer, NEW k \in 1 .. Len(sbuf)
  PROVE  /\ Gone \in Nat /\ Gone + k \in 1 .. given /\ given <= Len(sent)
         /\ Source(k) \in Unit /\ sbuf[k] \in Unit
         /\ sbuf[k].pos = Gone + k /\ sbuf[k].period <= Period
         /\ sbuf[k].damaged = sent[Gone + k].damaged
         /\ \/ sbuf[k].packet = sent[Gone + k].packet /\ sbuf[k].packet \in Kinds
            \/ sbuf[k].packet.kind = "junk" /\ sent[Gone + k].packet.kind = "broken"
<1>1. /\ Gone \in Nat /\ Gone + k \in 1 .. given /\ given <= Len(sent)
      /\ Gone + k \in 1 .. Len(sent)
  BY DEF Shape, Gone
<1>2. Source(k) \in Unit /\ sbuf[k] \in Unit
  BY <1>1, ElementOfSeq DEF Shape, Source
<1>3. Source(k).pos = Gone + k /\ Source(k).period <= Period /\ Source(k).packet \in Kinds
  BY <1>1 DEF Record, Source
<1>4. CASE sbuf[k] = Source(k)
  BY <1>1, <1>2, <1>3, <1>4 DEF Source
<1>5. CASE sbuf[k] = Junked(Source(k)) /\ Source(k).packet.kind = "broken"
  BY <1>1, <1>2, <1>3, <1>5, JunkedIs DEF Source
<1> QED BY <1>4, <1>5 DEF Buffer

-----------------------------------------------------------------------------
(* Where the loops find their next packet.                                 *)

LEMMA AtIs ==
  ASSUME Shape, NEW at \in At
  PROVE  /\ at \in 1 .. Len(sbuf) /\ curr < at /\ Sync(at)
         /\ \A j \in curr + 1 .. at - 1 :
              \E k \in j .. j + SyncRun - 1 : k <= Len(sbuf) /\ ~Sync(k)
<1> USE StreamAssumption
<1>1. curr \in Nat /\ Len(sbuf) \in Nat /\ SyncRun \in Nat /\ SyncRun > 1
  BY DEF Shape, StreamAssumption
<1>2. CASE at = curr + 1 /\ Sync(curr + 1) /\ curr + 1 < Len(sbuf)
  BY <1>1, <1>2
<1>3. CASE /\ at \in curr + 1 .. Len(sbuf) /\ InRun(at)
           /\ \A j \in curr + 1 .. at - 1 : ~InRun(j)
  <2>1. Sync(at)
    BY <1>1, <1>3 DEF InRun
  <2>2. ASSUME NEW j \in curr + 1 .. at - 1
        PROVE  \E k \in j .. j + SyncRun - 1 : k <= Len(sbuf) /\ ~Sync(k)
    <3>1. ~InRun(j) /\ at + SyncRun - 1 <= Len(sbuf)
      BY <1>3 DEF InRun
    <3>2. j + SyncRun - 1 <= Len(sbuf)
      BY <1>1, <1>3, <3>1
    <3>3. PICK k \in j .. j + SyncRun - 1 : ~Sync(k)
      BY <3>1, <3>2 DEF InRun
    <3> QED BY <1>1, <1>3, <3>2, <3>3
  <2> QED BY <1>1, <1>3, <2>1, <2>2
<1> QED BY <1>1, <1>2, <1>3 DEF At

LEMMA FlushAtIs ==
  ASSUME Shape, NEW at \in FlushAt
  PROVE  /\ at \in 1 .. Len(sbuf) /\ curr < at /\ Sync(at)
         /\ \A j \in curr + 1 .. at - 1 : \E k \in j .. Len(sbuf) : ~Sync(k)
<1>1. curr \in Nat /\ Len(sbuf) \in Nat
  BY DEF Shape
<1>2. CASE at = curr + 1 /\ Sync(curr + 1) /\ curr < Len(sbuf)
  BY <1>1, <1>2
<1>3. CASE /\ at \in curr + 1 .. Len(sbuf) /\ ~Sync(at - 1)
           /\ \A k \in at .. Len(sbuf) : Sync(k)
  BY <1>1, <1>3
<1> QED BY <1>1, <1>2, <1>3 DEF FlushAt

\* When flush() finds no packet any more, the last unit is junk.
LEMMA FlushAtEnd ==
  ASSUME Shape, FlushAt = {}, curr < Len(sbuf)
  PROVE  ~Sync(Len(sbuf))
<1>1. curr \in Nat /\ Len(sbuf) \in Nat
  BY DEF Shape
<1>2. SUFFICES ASSUME Sync(Len(sbuf)) PROVE FALSE
  OBVIOUS
<1> DEFINE T == {i \in curr + 1 .. Len(sbuf) : \A k \in i .. Len(sbuf) : Sync(k)}
<1>3. Len(sbuf) \in T /\ T \subseteq Nat /\ T # {}
  BY <1>1, <1>2
<1> HIDE DEF T
<1>4. PICK m \in T : \A y \in T : ~ (<<y, m>> \in OpToRel(<, Nat))
  BY <1>3, NatLessThanWellFounded, WFMin
<1>5. \A y \in T : m <= y
  <2>1. SUFFICES ASSUME NEW y \in T, ~(m <= y) PROVE FALSE
    OBVIOUS
  <2>2. y \in Nat /\ m \in Nat /\ y < m
    BY <1>3, <2>1
  <2>3. <<y, m>> \in OpToRel(<, Nat)
    BY <2>2 DEF OpToRel
  <2> QED BY <1>4, <2>3
<1>6. ~Sync(curr + 1)
  BY <1>1 DEF FlushAt
<1>7. m \in curr + 1 .. Len(sbuf) /\ \A k \in m .. Len(sbuf) : Sync(k)
  BY <1>4 DEF T
<1>8. m # curr + 1
  BY <1>1, <1>6, <1>7
<1>9. ~Sync(m - 1)
  <2>1. SUFFICES ASSUME Sync(m - 1) PROVE FALSE
    OBVIOUS
  <2>2. m - 1 \in T
    BY <1>1, <1>7, <1>8, <2>1 DEF T
  <2> QED BY <1>1, <1>5, <1>7, <2>2
<1>10. m \in FlushAt
  BY <1>1, <1>6, <1>7, <1>9 DEF FlushAt
<1> QED BY <1>10

-----------------------------------------------------------------------------
(* The tables.                                                             *)

Tables ==
  /\ pat \in (SUBSET Program) \cup {Null}
  /\ phase \in [Program -> 0 .. 2] /\ pmt \in [Program -> EcmPid \cup {Clear, Null}]
  /\ dec \in [EcmPid -> Dec] /\ Present

LEMMA TablesOf == Shape /\ Present => Tables
BY DEF Shape, Tables

LEMMA NewDecIs == NewDec \in Dec /\ NewDec.m2 = 0
BY DEF NewDec, Dec

LEMMA NewPatOK ==
  ASSUME Tables, NEW programs \in SUBSET Program, NewPat(programs),
         Period \in Nat, Period' = Period
  PROVE  Tables'
BY NewDecIs DEF Tables, NewPat, Present

LEMMA NewPmtOK ==
  ASSUME Tables, NEW p \in Program, NEW ecm \in EcmPid \cup {Clear}, NewPmt(p, ecm),
         Period \in Nat, Period' = Period
  PROVE  /\ pmt' \in [Program -> EcmPid \cup {Clear, Null}]
         /\ dec' \in [EcmPid -> Dec] /\ Present'
<1>1. pmt' \in [Program -> EcmPid \cup {Clear, Null}]
  BY DEF Tables, NewPmt
<1>2. dec' \in [EcmPid -> Dec]
  BY NewDecIs DEF Tables, NewPmt
<1>3. Present'
  BY NewDecIs DEF Tables, NewPmt, Present
<1> QED BY <1>1, <1>2, <1>3

\* What the ECM in a unit makes of a decryptor.
LEMMA OutcomeCases ==
  ASSUME NEW d \in Dec, NEW u \in Unit, NEW o \in EcmOutcomes(d, u)
  PROVE  /\ o.dec \in Dec /\ o.dec.phase = d.phase /\ o.ok \in BOOLEAN
         /\ o.dec.last = u.period
         /\ \/ /\ ~d.locked /\ o.ok /\ o.dec.m2 = u.period /\ ~o.dec.locked
               /\ o.dec.since = IF d.since = 0 THEN u.pos ELSE d.since
            \/ /\ ~d.locked /\ o.ok /\ o.dec.m2 = 0 /\ o.dec.locked
               /\ "unpurchased" \in Answers
            \/ /\ d.locked /\ o.ok /\ o.dec.m2 = d.m2 /\ o.dec.locked
            \/ /\ ~d.locked /\ ~o.ok /\ o.dec.m2 = d.m2 /\ ~o.dec.locked
<1> DEFINE seen == [d EXCEPT !.last = u.period]
           shut == [seen EXCEPT !.m2 = 0, !.locked = TRUE]
           keyed == Keyed(seen, u)
<1>1. /\ seen \in Dec /\ seen.phase = d.phase /\ seen.m2 = d.m2 /\ seen.last = u.period
      /\ seen.locked = d.locked /\ seen.since = d.since
  BY DEF Dec, Unit
<1>2. /\ keyed \in Dec /\ keyed.phase = d.phase /\ keyed.m2 = u.period
      /\ keyed.last = u.period /\ keyed.locked = d.locked
      /\ keyed.since = IF d.since = 0 THEN u.pos ELSE d.since
  <2> HIDE DEF seen
  <2> QED BY <1>1 DEF Dec, Unit, Keyed
<1>3. /\ shut \in Dec /\ shut.phase = d.phase /\ shut.m2 = 0 /\ shut.locked
      /\ shut.last = u.period
  BY DEF Dec, Unit
<1>4. \/ d.locked /\ o = [dec |-> seen, ok |-> TRUE]
      \/ ~d.locked /\ o = [dec |-> seen, ok |-> FALSE]
      \/ ~d.locked /\ o = [dec |-> keyed, ok |-> TRUE]
      \/ ~d.locked /\ "unpurchased" \in Answers /\ o = [dec |-> shut, ok |-> TRUE]
  <2>1. CASE d.locked
    BY <2>1 DEF EcmOutcomes
  <2>2. CASE ~d.locked
    <3>1. PICK a \in Answers :
            o = [dec |-> CASE a = "purchased" -> keyed
                           [] a = "unpurchased" -> shut
                           [] a = "error" -> seen,
                 ok |-> a # "error"]
      BY <2>2 DEF EcmOutcomes
    <3>2. a \in {"purchased", "unpurchased", "error"}
      BY StreamAssumption DEF Answer
    <3> HIDE DEF seen, shut, keyed
    <3> QED BY <2>2, <3>1, <3>2
  <2> QED BY <2>1, <2>2
<1> HIDE DEF seen, shut, keyed
<1>5. CASE d.locked /\ o = [dec |-> seen, ok |-> TRUE]
  BY <1>1, <1>5
<1>6. CASE ~d.locked /\ o = [dec |-> seen, ok |-> FALSE]
  BY <1>1, <1>6
<1>7. CASE ~d.locked /\ o = [dec |-> keyed, ok |-> TRUE]
  BY <1>2, <1>7
<1>8. CASE ~d.locked /\ "unpurchased" \in Answers /\ o = [dec |-> shut, ok |-> TRUE]
  BY <1>3, <1>8
<1> QED BY <1>4, <1>5, <1>6, <1>7, <1>8

LEMMA OutcomeIs ==
  ASSUME NEW d \in Dec, NEW u \in Unit, NEW o \in EcmOutcomes(d, u)
  PROVE  /\ o.dec \in Dec /\ o.dec.phase = d.phase /\ o.ok \in BOOLEAN
         /\ o.dec.m2 \in {d.m2, 0, u.period}
BY OutcomeCases

LEMMA DecOK ==
  ASSUME Tables, NEW e \in EcmPid, NEW d \in Dec, d.m2 <= Period,
         dec' = [dec EXCEPT ![e] = d], Period' = Period
  PROVE  dec' \in [EcmPid -> Dec] /\ Present'
BY DEF Tables, Present

\* The tables that a packet is taken for.
LEMMA IsEcmIs ==
  ASSUME Tables, NEW u, IsEcm(u)
  PROVE  u.packet.pid \in EcmPid /\ u.packet.kind = "ecm"
BY DEF IsEcm, Alive

-----------------------------------------------------------------------------
(* A packet of a pass.                                                     *)

ItemOf(u) == [pos |-> u.pos, kind |-> u.packet.kind, how |-> How(u)]

LEMMA ItemIs ==
  ASSUME NEW u \in Unit
  PROVE  ItemOf(u) \in Item
<1>1. How(u) \in Hows
  BY DEF How, Hows
<1>2. u.packet \in Packet /\ u.pos \in Nat
  BY DEF Unit
<1> QED BY <1>1, <1>2, PacketParts DEF ItemOf, Item, Unit

\* The period is that of the last unit.
LEMMA PeriodIs == Shape => Period \in Nat
<1>1. SUFFICES ASSUME Shape PROVE Period \in Nat
  OBVIOUS
<1>2. CASE sent = <<>>
  BY <1>2 DEF Period
<1>3. CASE sent # <<>>
  <2>1. Len(sent) \in 1 .. Len(sent) /\ sent \in Seq(Unit)
    BY <1>1, <1>3, EmptySeq DEF Shape
  <2>2. sent[Len(sent)] \in Unit
    BY <2>1, ElementOfSeq
  <2> QED BY <1>3, <2>2 DEF Period, Unit
<1> QED BY <1>2, <1>3

\* What is emitted of a unit.
LEMMA EmitIs ==
  ASSUME Base, NEW at \in 1 .. Len(sbuf), Emit(sbuf[at])
  PROVE  /\ dbuf' \in Seq(Item)
         /\ \/ Stripped(sbuf[at]) /\ dbuf' = dbuf
            \/ ~Stripped(sbuf[at]) /\ dbuf' = Append(dbuf, ItemOf(sbuf[at]))
         /\ ItemOf(sbuf[at]) \in Item
<1>1. sbuf[at] \in Unit /\ dbuf \in Seq(Item)
  BY UnitIs DEF Base, Shape
<1>2. ItemOf(sbuf[at]) \in Item
  BY <1>1, ItemIs
<1>3. \/ Stripped(sbuf[at]) /\ dbuf' = dbuf
      \/ ~Stripped(sbuf[at]) /\ dbuf' = Append(dbuf, ItemOf(sbuf[at]))
  BY DEF Emit, ItemOf
<1> QED BY <1>1, <1>2, <1>3, AppendProperties

\* What becomes of the tables.
LEMMA ProcessTables ==
  ASSUME Base, NEW at \in 1 .. Len(sbuf), Process(at, TRUE), sent' = sent
  PROVE  Tables'
<1> DEFINE u == sbuf[at]
<1>1. Tables /\ Period \in Nat /\ Period' = Period
  BY TablesOf, PeriodIs DEF Base, Period
<1>2. u \in Unit /\ u.period <= Period /\ u.packet \in Packet
  BY UnitIs DEF Base, Unit
<1>3. \/ /\ IsNewEcm(u)
         /\ \E o \in EcmOutcomes(dec[u.packet.pid], u) :
              dec' = [dec EXCEPT ![u.packet.pid] = o.dec]
         /\ UNCHANGED tables
      \/ IsNewPmt(u) /\ NewPmt(u.packet.program, u.packet.ecm) /\ UNCHANGED <<pat, phase>>
      \/ IsNewPat(u) /\ NewPat(u.packet.programs)
      \/ UNCHANGED <<tables, dec>>
  BY DEF Process
<1> HIDE DEF u
<1>4. CASE /\ IsNewEcm(u)
           /\ \E o \in EcmOutcomes(dec[u.packet.pid], u) :
                dec' = [dec EXCEPT ![u.packet.pid] = o.dec]
           /\ UNCHANGED tables
  <2>1. u.packet.pid \in EcmPid
    BY <1>1, <1>4, IsEcmIs DEF IsNewEcm
  <2>2. PICK o \in EcmOutcomes(dec[u.packet.pid], u) :
               dec' = [dec EXCEPT ![u.packet.pid] = o.dec]
    BY <1>4
  <2>3. dec[u.packet.pid] \in Dec /\ dec[u.packet.pid].m2 <= Period
    BY <1>1, <2>1 DEF Tables, Present
  <2>4. o.dec \in Dec /\ o.dec.m2 \in {dec[u.packet.pid].m2, 0, u.period}
    BY <1>2, <2>3, OutcomeIs
  <2>5. o.dec.m2 <= Period
    BY <1>1, <1>2, <2>3, <2>4
  <2>6. dec' \in [EcmPid -> Dec] /\ Present'
    BY <1>1, <2>1, <2>2, <2>4, <2>5, DecOK
  <2> QED BY <1>1, <1>4, <2>6 DEF Tables, tables
<1>5. CASE /\ IsNewPmt(u) /\ NewPmt(u.packet.program, u.packet.ecm)
           /\ UNCHANGED <<pat, phase>>
  <2>1. u.packet.program \in Program /\ u.packet.ecm \in EcmPid \cup {Clear}
    BY <1>2, <1>5, PacketParts DEF IsNewPmt, IsPmt
  <2> QED BY <1>1, <1>5, <2>1, NewPmtOK DEF Tables
<1>6. CASE IsNewPat(u) /\ NewPat(u.packet.programs)
  <2>1. u.packet.programs \in SUBSET Program
    BY <1>2, <1>6, PacketParts DEF IsNewPat
  <2> QED BY <1>1, <1>6, <2>1, NewPatOK
<1>7. CASE UNCHANGED <<tables, dec>>
  BY <1>1, <1>7 DEF Tables, tables, Present
<1> QED BY <1>3, <1>4, <1>5, <1>6, <1>7

-----------------------------------------------------------------------------
(* Moves in the buffer.                                                    *)

\* The buffer stays, and the position does not go back.
LEMMA BufferStays ==
  ASSUME Base, UNCHANGED <<sent, given, sbuf>>,
         pc' \notin Failures => pc \notin Failures /\ Front <= Front', curr' \in Nat
  PROVE  Buffer' /\ Gone' = Gone
<1>1. /\ Gone' = Gone /\ sbuf' = sbuf /\ Len(sbuf) \in Nat
      /\ \A k \in 1 .. Len(sbuf) : Source(k)' = Source(k)
  BY DEF Gone, Source, Base, Shape
<1>2. Gone \in Nat
  BY DEF Base, Shape, Gone
<1>3. SUFFICES ASSUME NEW k \in 1 .. Len(sbuf)
               PROVE  \/ sbuf'[k] = Source(k)'
                      \/ /\ Source(k)'.packet.kind = "broken"
                         /\ sbuf'[k] = Junked(Source(k)')
                         /\ pc' \notin Failures => Gone' + k <= Front' + 1
  BY <1>1 DEF Buffer, Junked
<1>4. \/ sbuf[k] = Source(k)
      \/ /\ Source(k).packet.kind = "broken" /\ sbuf[k] = Junked(Source(k))
         /\ pc \notin Failures => Gone + k <= Front + 1
  BY DEF Base, Buffer
<1>5. Source(k)' = Source(k) /\ sbuf'[k] = sbuf[k]
  BY <1>1
<1>6. (pc \notin Failures => Gone + k <= Front + 1)
        => (pc' \notin Failures => Gone' + k <= Front' + 1)
  BY <1>1, <1>2 DEF Base, Shape, Gone, Front
<1> QED BY <1>4, <1>5, <1>6

\* The first n units leave the buffer.
LEMMA DropIs ==
  ASSUME Base, UNCHANGED <<sent, given>>, NEW n \in 0 .. Len(sbuf), Drop(n)
  PROVE  /\ sbuf' \in Seq(Unit) /\ Len(sbuf') = Len(sbuf) - n /\ curr' = 0
         /\ Gone \in Nat /\ Gone' = Gone + n /\ Front' = Gone + n
         /\ \A k \in 1 .. Len(sbuf') : sbuf'[k] = sbuf[n + k] /\ Source(k)' = Source(n + k)
<1>1. sbuf \in Seq(Unit) /\ Len(sbuf) \in Nat /\ given \in Nat /\ Len(sbuf) <= given
  BY DEF Base, Shape
<1>2. \A i \in n + 1 .. Len(sbuf) : sbuf[i] \in Unit
  BY <1>1, ElementOfSeq
<1>3. /\ sbuf' \in Seq(Unit) /\ Len(sbuf') = Len(sbuf) - n
      /\ \A k \in 1 .. Len(sbuf) - n : sbuf'[k] = sbuf[n + k]
  BY <1>1, <1>2, SubSeqProperties DEF Drop
<1>4. Gone \in Nat /\ Gone' = Gone + n
  BY <1>1, <1>3 DEF Gone
<1>5. \A k \in 1 .. Len(sbuf') : Source(k)' = Source(n + k)
  BY <1>1, <1>3, <1>4 DEF Source
<1>6. curr' = 0 /\ Front' = Gone + n
  BY <1>4 DEF Front, Drop
<1> QED BY <1>1, <1>3, <1>4, <1>5, <1>6

LEMMA DropBuffer ==
  ASSUME Base, UNCHANGED <<sent, given>>, NEW n \in 0 .. Len(sbuf), Drop(n),
         pc \notin Failures, Front \in Nat, Front <= Gone + n
  PROVE  Buffer'
<1>1. /\ Len(sbuf') = Len(sbuf) - n /\ Len(sbuf) \in Nat
      /\ Gone \in Nat /\ Gone' = Gone + n /\ Front' = Gone + n
      /\ \A k \in 1 .. Len(sbuf') : sbuf'[k] = sbuf[n + k] /\ Source(k)' = Source(n + k)
  <2>1. Len(sbuf) \in Nat
    BY DEF Base, Shape
  <2> QED BY <2>1, DropIs
<1>2. SUFFICES ASSUME NEW k \in 1 .. Len(sbuf')
               PROVE  \/ sbuf'[k] = Source(k)'
                      \/ /\ Source(k)'.packet.kind = "broken"
                         /\ sbuf'[k] = Junked(Source(k)')
                         /\ pc' \notin Failures => Gone' + k <= Front' + 1
  BY DEF Buffer, Junked
<1>3. n + k \in 1 .. Len(sbuf)
  BY <1>1
<1>4. \/ sbuf[n + k] = Source(n + k)
      \/ /\ Source(n + k).packet.kind = "broken" /\ sbuf[n + k] = Junked(Source(n + k))
         /\ Gone + (n + k) <= Front + 1
  BY <1>3 DEF Base, Buffer
<1> QED BY <1>1, <1>4

-----------------------------------------------------------------------------
(* Base is inductive.                                                      *)

LEMMA FrontIs ==
  ASSUME Base
  PROVE  /\ Gone \in Nat /\ Front \in Nat /\ Gone <= Front /\ Front <= Gone + curr
         /\ Gone + Len(sbuf) = given /\ Front <= given
BY DEF Base, Shape, Gone, Front

LEMMA InitBase == Init => Base
<1> SUFFICES ASSUME Init PROVE Base
  OBVIOUS
<1> USE StreamAssumption
<1>1. Shape
  <2>1. /\ <<>> \in Seq(Unit) /\ <<>> \in Seq(Item) /\ Len(<<>>) = 0
    BY EmptySeq
  <2> QED BY <2>1, NewDecIs DEF Init, Shape, Places
<1>2. Record
  BY DEF Init, Record, StreamAssumption
<1>3. Present
  BY NewDecIs DEF Init, Present, Period
<1>4. Buffer
  BY DEF Init, Buffer
<1>5. Searching
  BY DEF Init, Searching
<1> QED BY <1>1, <1>2, <1>3, <1>4, <1>5 DEF Base

LEMMA BroadcastBase ==
  ASSUME Base, Broadcast
  PROVE  Base'
<1> USE StreamAssumption DEF Base
<1>1. PICK packet \in Kinds, damaged \in BOOLEAN :
        sent' = Append(sent, [packet |-> packet, pos |-> Len(sent) + 1,
                              damaged |-> damaged,
                              period |-> IF Turns(packet) THEN Period + 1 ELSE Period])
  BY DEF Broadcast
<1> DEFINE u == [packet |-> packet, pos |-> Len(sent) + 1, damaged |-> damaged,
                 period |-> IF Turns(packet) THEN Period + 1 ELSE Period]
<1>2. Period \in Nat /\ Len(sent) \in Nat /\ sent \in Seq(Unit)
  BY PeriodIs DEF Shape
<1>3. u \in Unit /\ u.period \in Nat /\ Period <= u.period /\ u.packet \in Kinds
      /\ u.pos = Len(sent) + 1
  BY <1>2 DEF Unit
<1>4. sent' = Append(sent, u)
  BY <1>1
<1> HIDE DEF u
<1>5. /\ sent' \in Seq(Unit) /\ Len(sent') = Len(sent) + 1 /\ sent' # <<>>
      /\ \A i \in 1 .. Len(sent) : sent'[i] = sent[i]
      /\ sent'[Len(sent) + 1] = u
  BY <1>2, <1>3, <1>4, AppendProperties
<1>6. Period' = u.period
  BY <1>5 DEF Period
<1>7. UNCHANGED <<given, sbuf, sbuf_offset, dbuf, out, tables, dec, curr, pc>>
      /\ Len(sent) < MaxUnits /\ Len(sent) - given < MaxBlock
  BY DEF Broadcast
<1>8. Shape'
  BY <1>2, <1>5, <1>7 DEF Shape, tables
<1>9. Record'
  <2>1. Len(sent') <= MaxUnits /\ Len(sent') <= given' + MaxBlock
    BY <1>2, <1>5, <1>7 DEF Shape
  <2>2. ASSUME NEW i \in 1 .. Len(sent')
        PROVE  sent'[i].pos = i /\ sent'[i].packet \in Kinds /\ sent'[i].period <= Period'
    <3>1. CASE i = Len(sent) + 1
      BY <1>3, <1>5, <1>6, <3>1
    <3>2. CASE i # Len(sent) + 1
      <4>1. i \in 1 .. Len(sent) /\ sent'[i] = sent[i]
        BY <1>2, <1>5, <3>2
      <4>2. sent[i] \in Unit
        BY <1>2, <4>1, ElementOfSeq
      <4>3. sent[i].pos = i /\ sent[i].packet \in Kinds /\ sent[i].period <= Period
        BY <4>1 DEF Record
      <4>4. sent[i].period <= u.period
        BY <1>2, <1>3, <4>2, <4>3 DEF Unit
      <4> QED BY <1>6, <4>1, <4>3, <4>4
    <3> QED BY <3>1, <3>2
  <2> QED BY <2>1, <2>2 DEF Record
<1>10. Present'
  <2>1. \A e \in EcmPid : dec'[e] = dec[e] /\ dec[e].m2 \in Nat /\ dec[e].m2 <= Period
    BY <1>7 DEF Present, Shape, Dec
  <2>2. \A e \in EcmPid : dec'[e].m2 <= u.period
    BY <1>2, <1>3, <2>1
  <2> QED BY <1>6, <2>2 DEF Present
<1>11. Buffer'
  <2>1. Gone' = Gone /\ Front' = Front /\ Gone \in Nat
    BY <1>7 DEF Gone, Front, Passing, Shape
  <2>2. \A k \in 1 .. Len(sbuf) : Gone + k \in 1 .. Len(sent)
    BY DEF Gone, Shape
  <2>3. \A k \in 1 .. Len(sbuf) : Source(k)' = Source(k)
    BY <1>5, <2>1, <2>2 DEF Source
  <2> QED BY <1>7, <2>1, <2>3 DEF Buffer, Junked
<1>12. Searching'
  BY <1>7 DEF Searching, NextStage, PmtFound, EcmFound, Found, Alive, tables
<1> QED BY <1>8, <1>9, <1>10, <1>11, <1>12

LEMMA PutBase ==
  ASSUME Base, Put
  PROVE  Base'
<1> USE DEF Base
<1> DEFINE new == SubSeq(sent, given + 1, Len(sent))
<1>1. /\ sbuf' = sbuf \o new /\ given' = Len(sent) /\ pc' = "stage" /\ pc = "idle"
      /\ UNCHANGED <<sent, sbuf_offset, dbuf, out, tables, dec, curr>>
      /\ given < Len(sent)
  BY DEF Put
<1>2. /\ sent \in Seq(Unit) /\ sbuf \in Seq(Unit) /\ given \in Nat
      /\ Len(sent) \in Nat /\ Len(sbuf) \in Nat
      /\ \A i \in given + 1 .. Len(sent) : sent[i] \in Unit
  <2>1. sent \in Seq(Unit) /\ sbuf \in Seq(Unit) /\ given \in Nat
        /\ Len(sent) \in Nat /\ Len(sbuf) \in Nat
    BY DEF Shape
  <2> QED BY <2>1, ElementOfSeq
<1>3. /\ new \in Seq(Unit) /\ Len(new) = Len(sent) - given
      /\ \A k \in 1 .. Len(sent) - given : new[k] = sent[given + k]
  BY <1>1, <1>2, SubSeqProperties
<1> HIDE DEF new
<1>4. /\ sbuf' \in Seq(Unit) /\ Len(sbuf') = Len(sbuf) + (Len(sent) - given)
      /\ \A k \in 1 .. Len(sbuf) + (Len(sent) - given) :
           sbuf'[k] = IF k <= Len(sbuf) THEN sbuf[k] ELSE sent[given + (k - Len(sbuf))]
  <2>1. /\ sbuf' \in Seq(Unit) /\ Len(sbuf') = Len(sbuf) + Len(new)
        /\ \A k \in 1 .. Len(sbuf) + Len(new) :
             sbuf'[k] = IF k <= Len(sbuf) THEN sbuf[k] ELSE new[k - Len(sbuf)]
    BY <1>1, <1>2, <1>3, ConcatProperties
  <2>2. \A k \in 1 .. Len(sbuf) + Len(new) :
          ~(k <= Len(sbuf)) => new[k - Len(sbuf)] = sent[given + (k - Len(sbuf))]
    <3>1. \A k \in 1 .. Len(sbuf) + Len(new) :
            ~(k <= Len(sbuf)) => k - Len(sbuf) \in 1 .. Len(sent) - given
      BY <1>1, <1>2, <1>3
    <3> QED BY <1>3, <3>1
  <2> QED BY <1>3, <2>1, <2>2
<1>5. Shape'
  BY <1>1, <1>2, <1>4 DEF Shape, tables, Places
<1>6. Record' /\ Present'
  BY <1>1, <1>2, StreamAssumption DEF Record, Present, Period, Shape
<1>7. Buffer'
  <2>1. Gone' = Gone /\ Front' = Gone /\ Front = Gone /\ Gone = given - Len(sbuf) /\ Gone \in Nat
    BY <1>1, <1>2, <1>4 DEF Gone, Front, Passing, Shape
  <2>2. ASSUME NEW k \in 1 .. Len(sbuf')
        PROVE  \/ sbuf'[k] = Source(k)'
               \/ /\ Source(k)'.packet.kind = "broken" /\ sbuf'[k] = Junked(Source(k)')
                  /\ Gone' + k <= Front' + 1
    <3>1. CASE k <= Len(sbuf)
      <4>1. k \in 1 .. Len(sbuf) /\ sbuf'[k] = sbuf[k] /\ Source(k)' = Source(k)
        BY <1>1, <1>2, <1>4, <2>1, <3>1 DEF Source
      <4>2. \/ sbuf[k] = Source(k)
            \/ /\ Source(k).packet.kind = "broken" /\ sbuf[k] = Junked(Source(k))
               /\ Gone + k <= Front + 1
        BY <1>1, <4>1 DEF Buffer, Failures
      <4> QED BY <2>1, <4>1, <4>2
    <3>2. CASE ~(k <= Len(sbuf))
      <4>1. sbuf'[k] = sent[given + (k - Len(sbuf))]
        BY <1>4, <3>2
      <4>2. given + (k - Len(sbuf)) = Gone + k
        BY <1>2, <2>1, <1>4
      <4>3. Source(k)' = sent[Gone + k]
        BY <1>1, <2>1 DEF Source
      <4> QED BY <4>1, <4>2, <4>3
    <3> QED BY <3>1, <3>2
  <2> QED BY <2>2 DEF Buffer, Junked
<1>8. Searching'
  BY <1>1, <1>2, <1>4
     DEF Searching, NextStage, PmtFound, EcmFound, Found, Alive, tables, Shape, Failures
<1> QED BY <1>5, <1>6, <1>7, <1>8

\* A step that changes nothing but the place and the position.
LEMMA PlaceBase ==
  ASSUME Base, UNCHANGED <<sent, given, sbuf, sbuf_offset, tables, dec>>,
         dbuf' \in Seq(Item), out' \in Seq(Item),
         pc' \in Places, curr' \in 0 .. Len(sbuf), pc \notin Failures,
         Front <= Front', Searching'
  PROVE  Base'
<1>1. Shape' /\ Record' /\ Present'
  BY DEF Base, Shape, Record, Present, Period, tables
<1>2. Buffer'
  <2>1. curr' \in Nat
    BY DEF Base, Shape
  <2> QED BY <2>1, BufferStays
<1> QED BY <1>1, <1>2 DEF Base

LEMMA StageBase ==
  ASSUME Base, Stage
  PROVE  Base'
<1>1. /\ pc = "stage" /\ pc' = NextStage
      /\ UNCHANGED <<sent, given, sbuf, sbuf_offset, dbuf, out, tables, dec>>
      /\ curr' = IF NextStage = "proc" THEN 0 ELSE sbuf_offset
  BY DEF Stage
<1>2. NextStage \in {"pat", "pmt", "ecm", "proc"}
  BY DEF NextStage
<1>3. NextStage' = NextStage
  BY <1>1 DEF NextStage, PmtFound, EcmFound, Found, Alive, tables
<1>4. NextStage = "proc" => pat # Null
  BY DEF NextStage
<1>5. pc' \in Places /\ pc \notin Failures
  BY <1>1, <1>2 DEF Places, Failures
<1>6. curr' \in 0 .. Len(sbuf)
  BY <1>1 DEF Base, Shape, Searching, Failures
<1>7. Front <= Front'
  BY <1>1, <1>6 DEF Front, Gone, Passing, Base, Shape
<1>8. Searching'
  BY <1>1, <1>2, <1>3, <1>4 DEF Base, Searching, tables, Failures
<1> QED BY <1>1, <1>5, <1>6, <1>7, <1>8, PlaceBase DEF Base, Shape

\* A search that goes on or ends at a unit.
LEMMA SearchBase ==
  ASSUME Base, pc \in {"pat", "pmt", "ecm"}, UNCHANGED <<sent, given, sbuf, dbuf, out>>,
         Tables', curr' \in 0 .. Len(sbuf), sbuf_offset' \in 0 .. Len(sbuf),
         pc' \in {pc, "stage", "get"} \cup Failures,
         pc' = pc => NextStage' = pc,
         pc' = "stage" => sbuf_offset' = 0,
         pc' = "get" => NextStage' # "proc"
  PROVE  Base'
<1>1. Shape' /\ Record' /\ Present'
  BY DEF Base, Shape, Record, Period, Tables, Places
<1>2. Front <= Front' /\ curr' \in Nat
  BY DEF Front, Gone, Passing, Base, Shape, Failures
<1>3. Buffer'
  BY <1>2, BufferStays DEF Failures
<1>4. Searching'
  BY DEF Base, Searching, Shape, Failures
<1> QED BY <1>1, <1>3, <1>4 DEF Base

LEMMA SearchEndsIs ==
  ASSUME Base, pc \in {"pat", "pmt", "ecm"}, NEW at \in 0 .. Len(sbuf)
  PROVE  /\ SearchEnds(at, FALSE) =>
              /\ curr' = at /\ sbuf_offset' = at
              /\ (pc' = "get" /\ at < MaxWait) \/ pc' \in Failures
         /\ SearchEnds(at, TRUE) => curr' = at /\ sbuf_offset' = 0 /\ pc' = "stage"
         /\ SearchGoesOn(at) => curr' = at /\ sbuf_offset' = sbuf_offset /\ pc' = pc
         /\ sbuf_offset \in 0 .. Len(sbuf)
BY DEF SearchEnds, SearchGoesOn, NoneInHead, Failures, Base, Searching, Shape

LEMMA SearchInVainBase ==
  ASSUME Base, SearchInVain
  PROVE  Base'
<1>1. /\ pc \in {"pat", "pmt", "ecm"} /\ SearchEnds(curr, FALSE)
      /\ UNCHANGED <<sent, given, sbuf, dbuf, out, tables, dec>>
  BY DEF SearchInVain
<1>2. curr \in 0 .. Len(sbuf) /\ Tables
  BY TablesOf DEF Base, Shape
<1>3. /\ curr' = curr /\ sbuf_offset' = curr
      /\ pc' = "get" \/ pc' \in Failures
  BY <1>1, <1>2, SearchEndsIs
<1>4. Tables'
  BY <1>1, <1>2 DEF Tables, Present, Period, tables
<1>5. NextStage' = NextStage /\ NextStage = pc
  BY <1>1 DEF NextStage, PmtFound, EcmFound, Found, Alive, tables, Base, Searching
<1> QED BY <1>1, <1>2, <1>3, <1>4, <1>5, SearchBase DEF Failures

LEMMA FindPatBase ==
  ASSUME Base, FindPat
  PROVE  Base'
<1>1. pc = "pat" /\ UNCHANGED <<sent, given, sbuf, dbuf, out>>
  BY DEF FindPat
<1>2. PICK at \in At :
       IF IsNewPat(sbuf[at])
       THEN NewPat(sbuf[at].packet.programs) /\ SearchEnds(at, pat' # {})
       ELSE SearchGoesOn(at) /\ UNCHANGED <<tables, dec>>
  BY DEF FindPat
<1>3. at \in 1 .. Len(sbuf) /\ at \in 0 .. Len(sbuf)
  BY AtIs DEF Base, Shape
<1>4. Tables /\ Period \in Nat /\ Period' = Period
  BY <1>1, TablesOf, PeriodIs DEF Base, Period
<1>5. NextStage = "pat"
  BY <1>1 DEF Base, Searching
<1>6. CASE IsNewPat(sbuf[at])
  <2>1. sbuf[at].packet.programs \in SUBSET Program
    BY <1>3, <1>6, UnitIs, PacketParts DEF IsNewPat, Base, Unit
  <2>2. Tables' /\ pat' = sbuf[at].packet.programs
    BY <1>2, <1>4, <1>6, <2>1, NewPatOK DEF NewPat
  <2>3. CASE pat' = {}
    <3>1. SearchEnds(at, FALSE)
      BY <1>2, <1>6, <2>3
    <3>2. curr' = at /\ sbuf_offset' = at /\ (pc' = "get" \/ pc' \in Failures)
      BY <1>1, <1>3, <3>1, SearchEndsIs
    <3>3. NextStage' = "pat"
      BY <2>3 DEF NextStage
    <3> QED BY <1>1, <1>3, <2>2, <3>2, <3>3, SearchBase DEF Failures
  <2>4. CASE pat' # {}
    <3>1. SearchEnds(at, TRUE)
      BY <1>2, <1>6, <2>4
    <3>2. curr' = at /\ sbuf_offset' = 0 /\ pc' = "stage"
      BY <1>1, <1>3, <3>1, SearchEndsIs
    <3> QED BY <1>1, <1>3, <2>2, <3>2, SearchBase DEF Failures
  <2> QED BY <2>3, <2>4
<1>7. CASE ~IsNewPat(sbuf[at])
  <2>1. /\ curr' = at /\ sbuf_offset' = sbuf_offset /\ pc' = pc
        /\ sbuf_offset \in 0 .. Len(sbuf) /\ UNCHANGED <<tables, dec>>
    BY <1>1, <1>2, <1>3, <1>7, SearchEndsIs
  <2>2. Tables'
    BY <1>4, <2>1 DEF Tables, Present, tables
  <2>3. NextStage' = NextStage
    BY <2>1 DEF NextStage, PmtFound, EcmFound, Found, Alive, tables
  <2> QED BY <1>1, <1>3, <1>5, <2>1, <2>2, <2>3, SearchBase DEF Failures
<1> QED BY <1>6, <1>7

LEMMA FindPmtBase ==
  ASSUME Base, FindPmt
  PROVE  Base'
<1>1. pc = "pmt" /\ UNCHANGED <<sent, given, sbuf, dbuf, out>>
  BY DEF FindPmt
<1>2. PICK at \in At :
       \/ ~IsPmt(sbuf[at]) /\ SearchGoesOn(at) /\ UNCHANGED <<tables, dec>>
       \/ /\ IsPmt(sbuf[at])
          /\ LET packet == sbuf[at].packet
                 p == packet.program
             IN  \/ /\ phase[p] = 0 /\ NewPmt(p, packet.ecm)
                    /\ phase' = [phase EXCEPT ![p] = 1]
                 \/ /\ phase[p] # 0 /\ UNCHANGED <<pmt, dec>>
                    /\ phase' = [phase EXCEPT ![p] = 2]
          /\ UNCHANGED pat
          /\ IF PmtFound' THEN SearchEnds(at, TRUE) ELSE SearchGoesOn(at)
  BY DEF FindPmt
<1>3. at \in 1 .. Len(sbuf) /\ at \in 0 .. Len(sbuf)
  BY AtIs DEF Base, Shape
<1>4. Tables /\ Period \in Nat /\ Period' = Period
  BY <1>1, TablesOf, PeriodIs DEF Base, Period
<1>5. NextStage = "pmt"
  BY <1>1 DEF Base, Searching
<1>6. CASE ~IsPmt(sbuf[at]) /\ SearchGoesOn(at) /\ UNCHANGED <<tables, dec>>
  <2>1. /\ curr' = at /\ sbuf_offset' = sbuf_offset /\ pc' = pc
        /\ sbuf_offset \in 0 .. Len(sbuf)
    BY <1>1, <1>3, <1>6, SearchEndsIs
  <2>2. Tables'
    BY <1>4, <1>6 DEF Tables, Present, tables
  <2>3. NextStage' = NextStage
    BY <1>6 DEF NextStage, PmtFound, EcmFound, Found, Alive, tables
  <2> QED BY <1>1, <1>3, <1>5, <2>1, <2>2, <2>3, SearchBase DEF Failures
<1>7. CASE IsPmt(sbuf[at])
  <2> DEFINE packet == sbuf[at].packet
             p == packet.program
  <2>1. p \in Program /\ packet.ecm \in EcmPid \cup {Clear}
    BY <1>3, <1>7, UnitIs, PacketParts DEF IsPmt, Base, Unit
  <2>2. \/ phase[p] = 0 /\ NewPmt(p, packet.ecm) /\ phase' = [phase EXCEPT ![p] = 1]
        \/ phase[p] # 0 /\ UNCHANGED <<pmt, dec>> /\ phase' = [phase EXCEPT ![p] = 2]
    BY <1>2, <1>7
  <2>3. pat' = pat /\ IF PmtFound' THEN SearchEnds(at, TRUE) ELSE SearchGoesOn(at)
    BY <1>2, <1>7
  <2> HIDE DEF p, packet
  <2>4. Tables'
    <3>1. phase' \in [Program -> 0 .. 2]
      BY <1>4, <2>1, <2>2 DEF Tables
    <3>2. CASE NewPmt(p, packet.ecm)
      BY <1>4, <2>1, <2>3, <3>1, <3>2, NewPmtOK DEF Tables
    <3>3. CASE UNCHANGED <<pmt, dec>>
      BY <1>4, <2>3, <3>1, <3>3 DEF Tables, Present
    <3> QED BY <2>2, <3>2, <3>3
  <2>5. CASE PmtFound'
    <3>1. curr' = at /\ sbuf_offset' = 0 /\ pc' = "stage"
      BY <1>1, <1>3, <2>3, <2>5, SearchEndsIs
    <3> QED BY <1>1, <1>3, <2>4, <3>1, SearchBase DEF Failures
  <2>6. CASE ~PmtFound'
    <3>1. /\ curr' = at /\ sbuf_offset' = sbuf_offset /\ pc' = pc
          /\ sbuf_offset \in 0 .. Len(sbuf)
      BY <1>1, <1>3, <2>3, <2>6, SearchEndsIs
    <3>2. NextStage' = "pmt"
      BY <1>5, <2>3, <2>6 DEF NextStage
    <3> QED BY <1>1, <1>3, <2>4, <3>1, <3>2, SearchBase DEF Failures
  <2> QED BY <2>5, <2>6
<1> QED BY <1>2, <1>6, <1>7

\* The cases of a unit that find_ecm() looks at.
LEMMA FindEcmIs ==
  ASSUME Base, FindEcm
  PROVE  /\ pc = "ecm" /\ UNCHANGED <<sent, given, sbuf, dbuf, out, tables>>
         /\ \E at \in At :
              /\ at \in 1 .. Len(sbuf)
              /\ \/ /\ ~IsEcm(sbuf[at]) \/ ~IsNewEcm(sbuf[at])
                    /\ SearchGoesOn(at) /\ dec' = dec
                 \/ /\ IsEcm(sbuf[at])
                    /\ \E d \in Dec :
                         /\ dec' = [dec EXCEPT ![sbuf[at].packet.pid] = d]
                         /\ d.m2 <= Period
                         /\ \/ /\ pc' = "ECM_PROC_FAILURE"
                               /\ curr' = at /\ sbuf_offset' = at
                            \/ SearchEnds(at, TRUE)
                            \/ d.phase # 0 /\ ~EcmFound' /\ SearchGoesOn(at)
<1>1. pc = "ecm" /\ UNCHANGED <<sent, given, sbuf, dbuf, out, tables>>
  BY DEF FindEcm
<1>2. Tables /\ Period \in Nat
  BY TablesOf, PeriodIs, SMTT(30) DEF Base
<1>3. PICK at \in At :
       \/ ~IsEcm(sbuf[at]) /\ SearchGoesOn(at) /\ UNCHANGED dec
       \/ /\ IsEcm(sbuf[at]) /\ ~IsNewEcm(sbuf[at])
          /\ SearchGoesOn(at) /\ UNCHANGED dec
       \/ /\ IsEcm(sbuf[at])
          /\ \E o \in EcmOutcomes(dec[sbuf[at].packet.pid], sbuf[at]) :
               /\ dec' = [dec EXCEPT ![sbuf[at].packet.pid] =
                            [o.dec EXCEPT !.phase = IF o.ok THEN 1 ELSE 0]]
               /\ \/ /\ ~o.ok /\ pc' = "ECM_PROC_FAILURE"
                     /\ curr' = at /\ sbuf_offset' = at
                  \/ o.ok /\ EcmFound' /\ SearchEnds(at, TRUE)
                  \/ o.ok /\ ~EcmFound' /\ SearchGoesOn(at)
       \/ /\ IsEcm(sbuf[at]) /\ dec' = [dec EXCEPT ![sbuf[at].packet.pid].phase = 2]
          /\ SearchEnds(at, TRUE)
  BY DEF FindEcm
<1>4. at \in 1 .. Len(sbuf)
  BY AtIs DEF Base
<1> DEFINE u == sbuf[at]
           e == u.packet.pid
<1>5. u \in Unit /\ u.period <= Period /\ u.period \in Nat
  BY <1>4, UnitIs DEF Base, Unit
<1>6. CASE IsEcm(u) /\ dec' = [dec EXCEPT ![e].phase = 2] /\ SearchEnds(at, TRUE)
  <2>1. e \in EcmPid
    BY <1>2, <1>6, IsEcmIs
  <2>2. dec[e] \in Dec /\ dec[e].m2 <= Period
    BY <1>2, <2>1 DEF Tables, Present
  <2>3. [dec[e] EXCEPT !.phase = 2] \in Dec /\ [dec[e] EXCEPT !.phase = 2].m2 <= Period
    BY <2>2 DEF Dec
  <2>4. dec' = [dec EXCEPT ![e] = [dec[e] EXCEPT !.phase = 2]]
    BY <1>6
  <2> QED BY <1>1, <1>4, <1>6, <2>3, <2>4
<1>7. CASE /\ IsEcm(u)
           /\ \E o \in EcmOutcomes(dec[e], u) :
                /\ dec' = [dec EXCEPT ![e] = [o.dec EXCEPT !.phase = IF o.ok THEN 1 ELSE 0]]
                /\ \/ /\ ~o.ok /\ pc' = "ECM_PROC_FAILURE"
                      /\ curr' = at /\ sbuf_offset' = at
                   \/ o.ok /\ EcmFound' /\ SearchEnds(at, TRUE)
                   \/ o.ok /\ ~EcmFound' /\ SearchGoesOn(at)
  <2>1. e \in EcmPid
    BY <1>2, <1>7, IsEcmIs
  <2>2. dec[e] \in Dec /\ dec[e].m2 <= Period
    BY <1>2, <2>1 DEF Tables, Present
  <2>3. PICK o \in EcmOutcomes(dec[e], u) :
          /\ dec' = [dec EXCEPT ![e] = [o.dec EXCEPT !.phase = IF o.ok THEN 1 ELSE 0]]
          /\ \/ /\ ~o.ok /\ pc' = "ECM_PROC_FAILURE"
                /\ curr' = at /\ sbuf_offset' = at
             \/ o.ok /\ EcmFound' /\ SearchEnds(at, TRUE)
             \/ o.ok /\ ~EcmFound' /\ SearchGoesOn(at)
    BY <1>7
  <2>4. o.dec \in Dec /\ o.dec.m2 \in {dec[e].m2, 0, u.period}
    BY <1>5, <2>2, OutcomeIs
  <2> DEFINE d == [o.dec EXCEPT !.phase = IF o.ok THEN 1 ELSE 0]
  <2>5. d \in Dec /\ d.m2 = o.dec.m2 /\ d.phase = IF o.ok THEN 1 ELSE 0
    BY <2>4 DEF Dec
  <2>6. d.m2 <= Period
    BY <1>2, <1>5, <2>2, <2>4, <2>5
  <2>7. dec' = [dec EXCEPT ![e] = d]
    BY <2>3
  <2> HIDE DEF d
  <2>8. \/ pc' = "ECM_PROC_FAILURE" /\ curr' = at /\ sbuf_offset' = at
        \/ SearchEnds(at, TRUE)
        \/ d.phase # 0 /\ ~EcmFound' /\ SearchGoesOn(at)
    <3>1. \/ pc' = "ECM_PROC_FAILURE" /\ curr' = at /\ sbuf_offset' = at
          \/ SearchEnds(at, TRUE)
          \/ o.ok /\ ~EcmFound' /\ SearchGoesOn(at)
      BY <2>3
    <3>2. o.ok => d.phase # 0
      BY <2>5
    <3> QED BY <3>1, <3>2
  <2> HIDE DEF u, e
  <2>9. \E dd \in Dec :
          /\ dec' = [dec EXCEPT ![e] = dd] /\ dd.m2 <= Period
          /\ \/ pc' = "ECM_PROC_FAILURE" /\ curr' = at /\ sbuf_offset' = at
             \/ SearchEnds(at, TRUE)
             \/ dd.phase # 0 /\ ~EcmFound' /\ SearchGoesOn(at)
    BY <2>5, <2>6, <2>7, <2>8
  <2> QED BY <1>1, <1>4, <1>7, <2>9 DEF u, e
<1> QED BY <1>1, <1>3, <1>4, <1>6, <1>7

LEMMA FindEcmBase ==
  ASSUME Base, FindEcm
  PROVE  Base'
<1>1. pc = "ecm" /\ UNCHANGED <<sent, given, sbuf, dbuf, out, tables>>
  BY FindEcmIs
<1>2. PICK at \in 1 .. Len(sbuf) :
        \/ SearchGoesOn(at) /\ dec' = dec
        \/ /\ IsEcm(sbuf[at])
           /\ \E d \in Dec :
                /\ dec' = [dec EXCEPT ![sbuf[at].packet.pid] = d]
                /\ d.m2 <= Period
                /\ \/ /\ pc' = "ECM_PROC_FAILURE"
                      /\ curr' = at /\ sbuf_offset' = at
                   \/ SearchEnds(at, TRUE)
                   \/ ~EcmFound' /\ SearchGoesOn(at)
  BY FindEcmIs
<1>3. at \in 0 .. Len(sbuf)
  BY DEF Base, Shape
<1>4. Tables /\ Period \in Nat /\ Period' = Period
  BY <1>1, TablesOf, PeriodIs DEF Base, Period
<1>5. NextStage = "ecm" /\ sbuf_offset \in 0 .. Len(sbuf)
  BY <1>1, SearchEndsIs DEF Base, Searching, Shape
<1>6. pat \notin {Null, {}} /\ PmtFound /\ PmtFound' /\ pat' = pat
  BY <1>1, <1>5 DEF NextStage, PmtFound, tables
<1>7. CASE SearchGoesOn(at) /\ dec' = dec
  <2>1. curr' = at /\ sbuf_offset' = sbuf_offset /\ pc' = pc
    BY <1>1, <1>3, <1>7, SearchEndsIs
  <2>2. Tables'
    BY <1>1, <1>4, <1>7 DEF Tables, Present, tables
  <2>3. NextStage' = NextStage
    BY <1>1, <1>7 DEF NextStage, PmtFound, EcmFound, Found, Alive, tables
  <2> QED BY <1>1, <1>3, <1>5, <2>1, <2>2, <2>3, SearchBase DEF Failures
<1>8. CASE /\ IsEcm(sbuf[at])
           /\ \E d \in Dec :
                /\ dec' = [dec EXCEPT ![sbuf[at].packet.pid] = d]
                /\ d.m2 <= Period
                /\ \/ /\ pc' = "ECM_PROC_FAILURE"
                      /\ curr' = at /\ sbuf_offset' = at
                   \/ SearchEnds(at, TRUE)
                   \/ ~EcmFound' /\ SearchGoesOn(at)
  <2>1. sbuf[at].packet.pid \in EcmPid
    BY <1>4, <1>8, IsEcmIs
  <2>2. dec' \in [EcmPid -> Dec] /\ Present'
    BY <1>4, <1>8, <2>1, DecOK
  <2>3. Tables'
    BY <1>1, <1>4, <2>2 DEF Tables, tables
  <2>4. CASE pc' = "ECM_PROC_FAILURE" /\ curr' = at /\ sbuf_offset' = at
    BY <1>1, <1>3, <2>3, <2>4, SearchBase DEF Failures
  <2>5. CASE SearchEnds(at, TRUE)
    <3>1. curr' = at /\ sbuf_offset' = 0 /\ pc' = "stage"
      BY <1>1, <1>3, <2>5, SearchEndsIs
    <3> QED BY <1>1, <1>3, <2>3, <3>1, SearchBase DEF Failures
  <2>6. CASE ~EcmFound' /\ SearchGoesOn(at)
    <3>1. curr' = at /\ sbuf_offset' = sbuf_offset /\ pc' = pc
      BY <1>1, <1>3, <2>6, SearchEndsIs
    <3>2. NextStage' = "ecm"
      BY <1>6, <2>6 DEF NextStage
    <3> QED BY <1>1, <1>3, <1>5, <2>3, <3>1, <3>2, SearchBase DEF Failures
  <2> QED BY <1>8, <2>4, <2>5, <2>6
<1> QED BY <1>2, <1>7, <1>8

-----------------------------------------------------------------------------
(* The passes.                                                             *)

\* A packet of the pass is emitted; a new PAT cuts the pass short.
CutAt(at) ==
  /\ sbuf[at].packet.kind = "pat" /\ ~sbuf[at].damaged
  /\ pat' = sbuf[at].packet.programs /\ pat # sbuf[at].packet.programs
  /\ pc' = After /\ Drop(at - 1)
GoneOverAt(at) ==
  sbuf' = sbuf /\ curr' = at /\ pc' \in {pc, "ECM_PROC_FAILURE"}

LEMMA ProcIs ==
  ASSUME Base, Proc
  PROVE  /\ pc \in {"proc", "last"} /\ UNCHANGED <<sent, given, sbuf_offset, out>> /\ Tables'
         /\ \E at \in At :
              /\ at \in 1 .. Len(sbuf) /\ curr < at
              /\ sbuf[at].packet.kind # "broken" /\ Emit(sbuf[at])
              /\ CutAt(at) \/ (GoneOverAt(at) /\ pat' = pat)
<1>1. pc \in {"proc", "last"} /\ UNCHANGED <<sent, given, sbuf_offset, out>>
  BY DEF Proc
<1>2. PICK at \in At :
        IF IsNewPat(sbuf[at]) /\ ~PassesBy(sbuf[at])
        THEN Process(at, pc' = After /\ Drop(at - 1))
        ELSE Process(at, FALSE) /\ UNCHANGED sbuf
  BY DEF Proc
<1>3. at \in 1 .. Len(sbuf) /\ curr < at
  BY AtIs DEF Base
<1>4. Process(at, TRUE) /\ sbuf[at].packet.kind # "broken" /\ Emit(sbuf[at])
  BY <1>2 DEF Process
<1>5. Tables'
  BY <1>1, <1>3, <1>4, ProcessTables
<1>6. CASE IsNewPat(sbuf[at]) /\ ~PassesBy(sbuf[at])
  <2>1. ~IsNewEcm(sbuf[at]) /\ ~IsNewPmt(sbuf[at])
    BY <1>6 DEF IsNewPat, IsNewEcm, IsNewPmt, IsEcm, IsPmt
  <2>2. NewPat(sbuf[at].packet.programs) /\ pc' = After /\ Drop(at - 1)
    BY <1>2, <1>6, <2>1 DEF Process
  <2>3. CutAt(at)
    BY <1>6, <2>2 DEF CutAt, NewPat, IsNewPat, PassesBy
  <2> QED BY <1>1, <1>3, <1>4, <1>5, <2>3
<1>7. CASE ~(IsNewPat(sbuf[at]) /\ ~PassesBy(sbuf[at]))
  <2>1. Process(at, FALSE) /\ UNCHANGED sbuf
    BY <1>2, <1>7
  <2>2. curr' = at /\ pat' = pat /\ pc' \in {pc, "ECM_PROC_FAILURE"}
    BY <2>1 DEF Process, tables
  <2> QED BY <1>1, <1>3, <1>4, <1>5, <2>1, <2>2 DEF GoneOverAt
<1> QED BY <1>6, <1>7

LEMMA FlushPacketIs ==
  ASSUME Base, FlushPacket
  PROVE  /\ pc = "flush" /\ UNCHANGED <<sent, given, sbuf_offset, out>> /\ Tables'
         /\ \E at \in FlushAt :
              /\ at \in 1 .. Len(sbuf) /\ curr < at
              /\ sbuf[at].packet.kind # "broken" /\ Emit(sbuf[at])
              /\ GoneOverAt(at)
<1>1. pc = "flush" /\ UNCHANGED <<sent, given, sbuf_offset, out, sbuf>>
  BY DEF FlushPacket
<1>2. PICK at \in FlushAt : Process(at, curr' = at /\ UNCHANGED pc)
  BY DEF FlushPacket
<1>3. at \in 1 .. Len(sbuf) /\ curr < at
  BY FlushAtIs DEF Base
<1>4. Process(at, TRUE) /\ sbuf[at].packet.kind # "broken" /\ Emit(sbuf[at])
  BY <1>2 DEF Process
<1>5. Tables'
  BY <1>1, <1>3, <1>4, ProcessTables
<1>6. curr' = at /\ pc' \in {pc, "ECM_PROC_FAILURE"}
  BY <1>2 DEF Process
<1> QED BY <1>1, <1>2, <1>3, <1>4, <1>5, <1>6 DEF GoneOverAt

LEMMA BrokenIs ==
  ASSUME Base, Broken
  PROVE  /\ pc \in {"proc", "last", "flush"}
         /\ UNCHANGED <<sent, given, sbuf_offset, dbuf, out, tables, dec, pc>>
         /\ \E at \in IF pc = "flush" THEN FlushAt ELSE At :
              /\ at \in 1 .. Len(sbuf) /\ curr < at /\ sbuf[at].packet.kind = "broken"
              /\ sbuf' = [sbuf EXCEPT ![at] = Junked(@)] /\ curr' = at - 1
BY AtIs, FlushAtIs DEF Base, Broken, Junked

\* A packet gone over.
LEMMA GoneOverBase ==
  ASSUME Base, Passing, UNCHANGED <<sent, given, sbuf_offset, out>>, Tables',
         NEW at \in 1 .. Len(sbuf), curr < at, Emit(sbuf[at]), GoneOverAt(at),
         pc = "proc" => pat' = pat
  PROVE  Base'
<1>1. dbuf' \in Seq(Item)
  BY EmitIs
<1>2. /\ Shape' /\ Record' /\ Present' /\ at \in Nat
  BY <1>1 DEF Base, Shape, Record, Period, Tables, GoneOverAt, Places, Failures
<1>3. pc' \notin Failures => pc \notin Failures /\ Front <= Front'
  BY DEF Front, Gone, Passing, GoneOverAt, Failures, Base, Shape
<1>4. Buffer'
  BY <1>2, <1>3, BufferStays DEF GoneOverAt
<1>5. Searching'
  BY DEF Base, Searching, GoneOverAt, Passing, Shape, Failures
<1> QED BY <1>2, <1>4, <1>5 DEF Base

LEMMA ProcBase ==
  ASSUME Base, Proc
  PROVE  Base'
<1>1. pc \in {"proc", "last"} /\ UNCHANGED <<sent, given, sbuf_offset, out>> /\ Tables'
  BY ProcIs
<1>2. PICK at \in 1 .. Len(sbuf) :
        curr < at /\ Emit(sbuf[at]) /\ (CutAt(at) \/ (GoneOverAt(at) /\ pat' = pat))
  BY ProcIs
<1>3. CASE GoneOverAt(at) /\ pat' = pat
  BY <1>1, <1>2, <1>3, GoneOverBase DEF Passing
<1>4. CASE CutAt(at)
  <2>1. dbuf' \in Seq(Item)
    BY <1>2, EmitIs
  <2>2. at - 1 \in 0 .. Len(sbuf) /\ Drop(at - 1) /\ pc \notin Failures /\ curr \in Nat
    BY <1>1, <1>4 DEF CutAt, Base, Shape, Failures
  <2>3. /\ sbuf' \in Seq(Unit) /\ Len(sbuf') = Len(sbuf) - (at - 1) /\ curr' = 0
        /\ Gone \in Nat
    BY <1>1, <2>2, DropIs
  <2>4. Front \in Nat /\ Front <= Gone + (at - 1)
    BY <1>2, <2>2, <2>3 DEF Front
  <2>5. Buffer'
    BY <1>1, <2>2, <2>4, DropBuffer
  <2>6. pc' \in {"get", "flush"} /\ (pc = "proc" => pc' = "get") /\ (pc = "last" => pc' = "flush")
    BY <1>1, <1>4 DEF CutAt, After
  <2>7. Shape' /\ Record' /\ Present'
    BY <1>1, <2>1, <2>2, <2>3, <2>6 DEF Base, Shape, Record, Period, Tables, Places
  <2>8. Searching'
    BY <1>1, <2>2, <2>3, <2>6 DEF Base, Searching, Shape, Failures
  <2> QED BY <2>5, <2>7, <2>8 DEF Base
<1> QED BY <1>2, <1>3, <1>4

LEMMA FlushPacketBase ==
  ASSUME Base, FlushPacket
  PROVE  Base'
<1>1. pc = "flush" /\ UNCHANGED <<sent, given, sbuf_offset, out>> /\ Tables'
  BY FlushPacketIs
<1>2. PICK at \in 1 .. Len(sbuf) : curr < at /\ Emit(sbuf[at]) /\ GoneOverAt(at)
  BY FlushPacketIs
<1> QED BY <1>1, <1>2, GoneOverBase DEF Passing

LEMMA BrokenBase ==
  ASSUME Base, Broken
  PROVE  Base'
<1>1. /\ pc \in {"proc", "last", "flush"}
      /\ UNCHANGED <<sent, given, sbuf_offset, dbuf, out, tables, dec, pc>>
  BY BrokenIs
<1>2. PICK at \in 1 .. Len(sbuf) :
        /\ curr < at /\ sbuf[at].packet.kind = "broken"
        /\ sbuf' = [sbuf EXCEPT ![at] = Junked(@)] /\ curr' = at - 1
  BY BrokenIs
<1>3. sbuf[at] \in Unit /\ sbuf \in Seq(Unit) /\ Len(sbuf) \in Nat /\ curr \in Nat
  BY UnitIs DEF Base, Shape
<1>4. Junked(sbuf[at]) \in Unit
  BY <1>3, JunkedIs
<1>5. /\ sbuf' \in Seq(Unit) /\ Len(sbuf') = Len(sbuf) /\ sbuf'[at] = Junked(sbuf[at])
      /\ \A k \in 1 .. Len(sbuf) : k # at => sbuf'[k] = sbuf[k]
  BY <1>2, <1>3, <1>4, ExceptSeq
<1>6. Shape' /\ Record' /\ Present'
  BY <1>1, <1>2, <1>3, <1>5 DEF Base, Shape, Record, Present, Period, tables
<1>7. Buffer'
  <2>1. /\ Gone \in Nat /\ Gone' = Gone /\ Front' = Gone + (at - 1) /\ Front = Gone + curr
        /\ \A k \in 1 .. Len(sbuf) : Source(k)' = Source(k)
    BY <1>1, <1>2, <1>5, FrontIs DEF Gone, Front, Passing, Source
  <2>2. ASSUME NEW k \in 1 .. Len(sbuf')
        PROVE  \/ sbuf'[k] = Source(k)'
               \/ /\ Source(k)'.packet.kind = "broken" /\ sbuf'[k] = Junked(Source(k)')
                  /\ Gone' + k <= Front' + 1
    <3>1. \/ sbuf[k] = Source(k)
          \/ /\ Source(k).packet.kind = "broken" /\ sbuf[k] = Junked(Source(k))
             /\ Gone + k <= Front + 1
      BY <1>1, <1>5 DEF Base, Buffer, Failures
    <3>2. Source(k)' = Source(k) /\ k \in Nat
      BY <1>5, <2>1
    <3>3. CASE k = at
      <4>1. Junked(Source(k)).packet.kind = "junk"
        BY <1>5, UnitIs, JunkedIs DEF Base
      <4>2. sbuf[k] = Source(k)
        BY <1>2, <3>1, <3>3, <4>1
      <4>3. Gone' + k <= Front' + 1
        BY <2>1, <3>2, <3>3
      <4> QED BY <1>2, <1>5, <3>2, <3>3, <4>2, <4>3
    <3>4. CASE k # at
      <4>1. Gone + k <= Front + 1 => Gone' + k <= Front' + 1
        BY <1>2, <1>3, <2>1, <3>2
      <4> QED BY <1>5, <3>1, <3>2, <3>4, <4>1
    <3> QED BY <3>3, <3>4
  <2> QED BY <2>2 DEF Buffer, Junked
<1>8. Searching'
  BY <1>1, <1>5 DEF Base, Searching, tables, Failures
<1> QED BY <1>6, <1>7, <1>8 DEF Base

\* What has been gone over leaves the buffer.
LEMMA DropBase ==
  ASSUME Base, Passing, UNCHANGED <<sent, given, sbuf_offset, tables, dec>>,
         dbuf' \in Seq(Item), out' \in Seq(Item), Drop(curr),
         pc' \in {"get", "flush", "end"}, pc = "proc" => pc' = "get",
         pc # "proc" => pc' # "get"
  PROVE  Base'
<1>1. curr \in 0 .. Len(sbuf) /\ curr \in Nat /\ Len(sbuf) \in Nat
  BY DEF Base, Shape
<1>2. /\ sbuf' \in Seq(Unit) /\ Len(sbuf') = Len(sbuf) - curr /\ curr' = 0
      /\ Gone \in Nat
  BY <1>1, DropIs
<1>3. Front = Gone + curr
  BY DEF Front
<1>4. Buffer'
  BY <1>1, <1>2, <1>3, DropBuffer DEF Passing, Failures
<1>5. Shape' /\ Record' /\ Present'
  BY <1>1, <1>2 DEF Base, Shape, Record, Present, Period, tables, Places
<1>6. Searching'
  BY <1>1, <1>2 DEF Base, Searching, Passing, Failures
<1> QED BY <1>4, <1>5, <1>6 DEF Base

LEMMA ProcEndsBase ==
  ASSUME Base, ProcEnds
  PROVE  Base'
<1>1. /\ pc \in {"proc", "last"} /\ Drop(curr) /\ pc' = After
      /\ UNCHANGED <<sent, given, sbuf_offset, dbuf, out, tables, dec>>
  BY DEF ProcEnds
<1>2. pc' \in {"get", "flush"} /\ (pc = "proc" => pc' = "get") /\ (pc = "last" => pc' = "flush")
  BY <1>1 DEF After
<1>3. dbuf \in Seq(Item) /\ out \in Seq(Item)
  BY DEF Base, Shape
<1> QED BY <1>1, <1>2, <1>3, DropBase DEF Passing

LEMMA FlushEndsBase ==
  ASSUME Base, FlushEnds
  PROVE  Base'
<1>1. /\ pc = "flush" /\ Drop(curr) /\ pc' = "end" /\ out' = out \o dbuf /\ dbuf' = <<>>
      /\ UNCHANGED <<sent, given, sbuf_offset, tables, dec>>
  BY DEF FlushEnds
<1>2. dbuf' \in Seq(Item) /\ out' \in Seq(Item)
  BY <1>1, EmptySeq, ConcatProperties DEF Base, Shape
<1> QED BY <1>1, <1>2, DropBase DEF Passing

LEMMA GetBase ==
  ASSUME Base, Get
  PROVE  Base'
<1>1. /\ pc = "get" /\ pc' = "idle" /\ out' = out \o dbuf /\ dbuf' = <<>>
      /\ UNCHANGED <<sent, given, sbuf, sbuf_offset, tables, dec, curr>>
  BY DEF Get
<1>2. dbuf' \in Seq(Item) /\ out' \in Seq(Item)
  BY <1>1, EmptySeq, ConcatProperties DEF Base, Shape
<1>3. Searching'
  BY <1>1 DEF Base, Searching, NextStage, PmtFound, EcmFound, Found, Alive, tables, Failures
<1>4. Front <= Front' /\ pc' \in Places /\ pc \notin Failures /\ curr' \in 0 .. Len(sbuf)
  BY <1>1 DEF Front, Gone, Passing, Base, Shape, Places, Failures
<1> QED BY <1>1, <1>2, <1>3, <1>4, PlaceBase

LEMMA FlushBase ==
  ASSUME Base, Flush
  PROVE  Base'
<1>1. /\ pc = "idle" /\ pc' = "last" /\ curr' = 0
      /\ UNCHANGED <<sent, given, sbuf, sbuf_offset, dbuf, out, tables, dec>>
  BY DEF Flush
<1>2. Searching'
  BY <1>1 DEF Searching
<1>3. Front <= Front' /\ pc' \in Places /\ pc \notin Failures /\ curr' \in 0 .. Len(sbuf)
  BY <1>1 DEF Front, Gone, Passing, Base, Shape, Places, Failures
<1>4. dbuf' \in Seq(Item) /\ out' \in Seq(Item)
  BY <1>1 DEF Base, Shape
<1> QED BY <1>1, <1>2, <1>3, <1>4, PlaceBase

LEMMA StutterBase ==
  ASSUME Base, UNCHANGED vars
  PROVE  Base'
<1> USE DEF vars, tables
<1>1. Shape' /\ Record' /\ Present'
  BY DEF Base, Shape, Record, Period, Present
<1>2. Buffer'
  <2>1. /\ Gone' = Gone /\ Front' = Front /\ sbuf' = sbuf /\ pc' = pc
        /\ \A k : Source(k)' = Source(k)
    BY DEF Gone, Front, Passing, Source
  <2> QED BY <2>1 DEF Base, Buffer, Junked
<1>3. Searching'
  BY DEF Base, Searching, NextStage, PmtFound, EcmFound, Found, Alive
<1> QED BY <1>1, <1>2, <1>3 DEF Base

LEMMA BaseStep == Base /\ [Next]_vars => Base'
BY BroadcastBase, PutBase, StageBase, SearchInVainBase, FindPatBase, FindPmtBase,
   FindEcmBase, ProcBase, BrokenBase, ProcEndsBase, GetBase, FlushBase, FlushPacketBase,
   FlushEndsBase, StutterBase DEF Next, Search, Done

\* Every variable is of its type, and the positions are inside the buffer
\* (ARIB_STD_B1_PRIVATE_DATA, src/b1/arib_std_b1.c:85-116).
THEOREM TypeCorrect == Spec => []TypeOK
<1>1. ASSUME Base PROVE TypeOK
  <2> USE DEF Base
  <2>1. Len(sent) <= MaxUnits /\ \A i \in DOMAIN sent : sent[i].packet \in Kinds /\ sent[i].pos = i
    BY <1>1 DEF Shape, Record
  <2>2. /\ given \in 0 .. Len(sent) /\ curr \in 0 .. Len(sbuf)
        /\ pat \in (SUBSET Program) \cup {Null} /\ phase \in [Program -> 0 .. 2]
        /\ pmt \in [Program -> EcmPid \cup {Clear, Null}]
    BY <1>1 DEF Shape
  <2>3. sbuf_offset \in 0 .. Len(sbuf) \/ pc \in {"last", "flush", "end"} \cup Failures
    BY <1>1 DEF Shape, Searching
  <2>4. ASSUME NEW e \in EcmPid
        PROVE  dec[e].phase \in 0 .. 2 /\ dec[e].m2 \in 0 .. Period
    BY <1>1, PeriodIs DEF Shape, Present, Dec
  <2> QED BY <2>1, <2>2, <2>3, <2>4 DEF TypeOK
<1> QED BY <1>1, InitBase, BaseStep, PTL DEF Spec

-----------------------------------------------------------------------------
(* What has been emitted.                                                  *)

LEMMA EmittedIs ==
  ASSUME Base
  PROVE  /\ Emitted \in Seq(Item) /\ Len(Emitted) \in Nat
         /\ DOMAIN Emitted = 1 .. Len(Emitted)
         /\ \A k \in DOMAIN Emitted : Emitted[k] \in Item /\ Emitted[k].pos \in Nat
<1>1. Emitted \in Seq(Item)
  BY ConcatProperties DEF Base, Shape, Emitted
<1>2. \A k \in 1 .. Len(Emitted) : Emitted[k] \in Item
  BY <1>1, ElementOfSeq
<1> QED BY <1>1, <1>2, LenProperties DEF Item

LEMMA EmittedHandedOver ==
  ASSUME Base, out' = out \o dbuf, dbuf' = <<>>
  PROVE  Emitted' = Emitted
<1>1. out' \in Seq(Item)
  BY ConcatProperties DEF Base, Shape
<1> QED BY <1>1, ConcatEmptySeq DEF Emitted

LEMMA EmittedNext ==
  ASSUME Base, NEW at \in 1 .. Len(sbuf), Emit(sbuf[at]), out' = out
  PROVE  \/ Stripped(sbuf[at]) /\ Emitted' = Emitted
         \/ /\ ~Stripped(sbuf[at])
            /\ Emitted' = Append(Emitted, ItemOf(sbuf[at]))
            /\ ItemOf(sbuf[at]) \in Item
<1>1. CASE Stripped(sbuf[at]) /\ dbuf' = dbuf
  BY <1>1 DEF Emitted
<1>2. CASE ~Stripped(sbuf[at]) /\ dbuf' = Append(dbuf, ItemOf(sbuf[at]))
  <2> DEFINE x == ItemOf(sbuf[at])
  <2>1. x \in Item /\ dbuf \in Seq(Item) /\ out \in Seq(Item) /\ <<x>> \in Seq(Item)
    BY EmitIs DEF Base, Shape
  <2>2. dbuf' = dbuf \o <<x>>
    BY <1>2, <2>1, AppendIsConcat
  <2> HIDE DEF x
  <2>3. out \o (dbuf \o <<x>>) = (out \o dbuf) \o <<x>> /\ out \o dbuf \in Seq(Item)
    BY <2>1, ConcatAssociative, ConcatProperties
  <2>4. (out \o dbuf) \o <<x>> = Append(out \o dbuf, x)
    BY <2>1, <2>3, AppendIsConcat
  <2>5. Emitted' = Append(Emitted, x)
    BY <2>2, <2>3, <2>4 DEF Emitted
  <2> QED BY <1>2, <2>1, <2>5 DEF x
<1> QED BY <1>1, <1>2, EmitIs

\* The same, item by item.
LEMMA EmittedAppended ==
  ASSUME Base, NEW at \in 1 .. Len(sbuf), ~Stripped(sbuf[at]),
         Emitted' = Append(Emitted, ItemOf(sbuf[at])), ItemOf(sbuf[at]) \in Item
  PROVE  /\ Len(Emitted') = Len(Emitted) + 1
         /\ DOMAIN Emitted' = 1 .. Len(Emitted) + 1
         /\ \A k \in 1 .. Len(Emitted) : Emitted'[k] = Emitted[k]
         /\ Emitted'[Len(Emitted) + 1].pos = Gone + at
         /\ Emitted'[Len(Emitted) + 1].kind = sbuf[at].packet.kind
<1>1. Emitted \in Seq(Item)
  BY EmittedIs
<1>2. /\ Emitted' \in Seq(Item) /\ Len(Emitted') = Len(Emitted) + 1
      /\ \A k \in 1 .. Len(Emitted) : Emitted'[k] = Emitted[k]
      /\ Emitted'[Len(Emitted) + 1] = ItemOf(sbuf[at])
  BY <1>1, AppendProperties
<1>3. ItemOf(sbuf[at]).pos = Gone + at /\ ItemOf(sbuf[at]).kind = sbuf[at].packet.kind
  BY UnitIs DEF Base, ItemOf
<1>4. DOMAIN Emitted' = 1 .. Len(Emitted')
  BY <1>2, LenProperties
<1> QED BY <1>2, <1>3, <1>4

-----------------------------------------------------------------------------
(* Nothing is lost.                                                        *)

\* A unit that lacks its sync byte was broadcast so, or is the broken one.
LEMMA NoSync ==
  ASSUME Base, pc \notin Failures, NEW k \in 1 .. Len(sbuf), ~Sync(k)
  PROVE  /\ Gone + k \in DOMAIN sent
         /\ \/ sent[Gone + k].packet.kind = "junk"
            \/ sent[Gone + k].packet.kind = "broken" /\ k <= curr + 1
<1>1. sbuf[k].packet.kind = "junk"
  BY DEF Sync, Base, Shape
<1>2. Gone \in Nat /\ Front \in Nat /\ Front <= Gone + curr /\ k \in Nat /\ curr \in Nat
  BY FrontIs DEF Base, Shape
<1>3. Gone + k \in DOMAIN sent
  BY UnitIs DEF Base, Shape
<1>4. CASE sbuf[k] = Source(k)
  BY <1>1, <1>3, <1>4 DEF Source
<1>5. CASE Source(k).packet.kind = "broken" /\ Gone + k <= Front + 1
  BY <1>2, <1>3, <1>5 DEF Source
<1> QED BY <1>4, <1>5 DEF Base, Buffer

LEMMA SkippedNear ==
  ASSUME Base, pc \notin Failures, NEW at \in At, NEW j \in curr + 1 .. at - 1
  PROVE  Near(Gone + j)
<1>1. PICK k \in j .. j + SyncRun - 1 : k <= Len(sbuf) /\ ~Sync(k)
  BY AtIs DEF Base
<1>2. /\ SyncRun \in Nat /\ curr \in Nat /\ Gone \in Nat /\ j \in Nat /\ curr < j
      /\ k \in 1 .. Len(sbuf) /\ Len(sbuf) \in Nat
  BY <1>1, AtIs, FrontIs, StreamAssumption DEF Base, Shape
<1>3. Gone + k \in DOMAIN sent
  BY <1>1, <1>2, NoSync
<1>4. CASE sent[Gone + k].packet.kind = "junk"
  <2>1. (Gone + j) - (Gone + k) \in 1 - SyncRun .. SyncRun - 1
    BY <1>1, <1>2
  <2> QED BY <1>3, <1>4, <2>1 DEF Near
<1>5. CASE sent[Gone + k].packet.kind = "broken" /\ k <= curr + 1
  <2>1. k = j
    BY <1>1, <1>2, <1>5
  <2> QED BY <1>5, <2>1 DEF Near
<1> QED BY <1>1, <1>2, <1>4, <1>5, NoSync

\* A unit with junk at or behind it.
LEMMA FlushSkipped ==
  ASSUME Base, pc \notin Failures, NEW j \in curr + 1 .. Len(sbuf),
         NEW k \in j .. Len(sbuf), ~Sync(k)
  PROVE  Near(Gone + j) \/ Ahead(Gone + j)
<1>1. /\ SyncRun \in Nat /\ SyncRun > 1 /\ curr \in Nat /\ Gone \in Nat /\ j \in Nat
      /\ curr < j /\ k \in 1 .. Len(sbuf) /\ Len(sbuf) \in Nat
  BY FrontIs, StreamAssumption DEF Base, Shape
<1>2. Gone + k \in DOMAIN sent
  BY <1>1, NoSync
<1>3. CASE sent[Gone + k].packet.kind = "junk"
  <2>1. CASE k = j
    <3>1. (Gone + j) - (Gone + k) \in 1 - SyncRun .. SyncRun - 1
      BY <1>1, <2>1
    <3> QED BY <1>2, <1>3, <3>1 DEF Near
  <2>2. CASE k # j
    <3>1. Gone + k > Gone + j
      BY <1>1, <2>2
    <3> QED BY <1>2, <1>3, <3>1 DEF Ahead
  <2> QED BY <2>1, <2>2
<1>4. CASE sent[Gone + k].packet.kind = "broken" /\ k <= curr + 1
  <2>1. k = j
    BY <1>1, <1>4
  <2> QED BY <1>4, <2>1 DEF Near
<1> QED BY <1>1, <1>3, <1>4, NoSync

\* The units skipped before the next packet of a pass, and what it leaves.
LEMMA PassComplete ==
  ASSUME Base, Complete, Passing, sent' = sent, NEW at \in 1 .. Len(sbuf), curr < at,
         \A j \in curr + 1 .. at - 1 : Near(Gone + j) \/ (pc = "flush" /\ Ahead(Gone + j)),
         \A i \in 1 .. given : Released(i) => Released(i)',
         pc' # "end", pc = "flush" => pc' \in {"flush"} \cup Failures,
         \/ Front' = Gone + (at - 1)
         \/ /\ Front' = Gone + at
            /\ \A i \in 1 .. given : i = Gone + at => Near(i) \/ Released(i)'
  PROVE  Complete'
<1>1. SUFFICES ASSUME pc' \notin Failures, NEW i \in 1 .. Front'
               PROVE  Near(i)' \/ Released(i)' \/ (pc' \in {"flush", "end"} /\ Ahead(i)')
  BY DEF Complete
<1>2. Near(i)' = Near(i) /\ Ahead(i)' = Ahead(i)
  BY DEF Near, Ahead
<1>3. /\ Gone \in Nat /\ curr \in Nat /\ Front = Gone + curr /\ Len(sbuf) \in Nat
      /\ Front \in Nat /\ Front <= given
  BY FrontIs DEF Base, Shape, Front
<1>4. pc \notin Failures \cup {"end"} /\ i \in Nat /\ i >= 1
  BY <1>3 DEF Passing, Failures
<1>5. CASE i <= Front
  <2>1. i \in 1 .. Front /\ i \in 1 .. given
    BY <1>3, <1>4, <1>5 DEF Base, Shape
  <2>2. Near(i) \/ Released(i) \/ (pc \in {"flush", "end"} /\ Ahead(i))
    BY <1>4, <2>1 DEF Complete
  <2> QED BY <1>1, <1>2, <1>4, <2>1, <2>2
<1>6. CASE i = Gone + at /\ (Near(i) \/ Released(i)')
  BY <1>2, <1>6
<1>7. CASE i > Front /\ i <= Gone + (at - 1)
  <2>1. i - Gone \in curr + 1 .. at - 1 /\ Gone + (i - Gone) = i
    BY <1>3, <1>4, <1>7
  <2>2. Near(i) \/ (pc = "flush" /\ Ahead(i))
    BY <2>1
  <2> QED BY <1>1, <1>2, <2>2
<1>8. \/ i <= Front
      \/ i > Front /\ i <= Gone + (at - 1)
      \/ i = Gone + at /\ (Near(i) \/ Released(i)')
  <2>1. CASE Front' = Gone + (at - 1)
    BY <1>3, <1>4, <2>1
  <2>2. CASE /\ Front' = Gone + at
             /\ \A k \in 1 .. given : k = Gone + at => Near(k) \/ Released(k)'
    <3>1. Gone + at \in 1 .. given
      BY UnitIs DEF Base
    <3> QED BY <1>3, <1>4, <2>2, <3>1
  <2> QED BY <2>1, <2>2
<1> QED BY <1>5, <1>6, <1>7, <1>8

\* A packet that is emitted is released, and none that was is taken back.
LEMMA EmittedReleased ==
  ASSUME Base, NEW at \in 1 .. Len(sbuf), Emit(sbuf[at]), out' = out
  PROVE  /\ \A i \in 1 .. given : Released(i) => Released(i)'
         /\ \A i \in 1 .. given : i = Gone + at => Near(i) \/ Released(i)'
<1>1. /\ Gone + at \in 1 .. given /\ sbuf[at].damaged = sent[Gone + at].damaged
      /\ \/ sbuf[at].packet = sent[Gone + at].packet
         \/ sbuf[at].packet.kind = "junk"
  BY UnitIs DEF Base
<1>2. CASE Stripped(sbuf[at]) /\ Emitted' = Emitted
  BY <1>1, <1>2 DEF Stripped, Near, Released
<1>3. CASE /\ ~Stripped(sbuf[at]) /\ Emitted' = Append(Emitted, ItemOf(sbuf[at]))
           /\ ItemOf(sbuf[at]) \in Item
  <2>1. /\ DOMAIN Emitted' = 1 .. Len(Emitted) + 1
        /\ \A k \in 1 .. Len(Emitted) : Emitted'[k] = Emitted[k]
        /\ Emitted'[Len(Emitted) + 1].pos = Gone + at
    BY <1>3, EmittedAppended
  <2>2. DOMAIN Emitted = 1 .. Len(Emitted) /\ Len(Emitted) \in Nat
    BY EmittedIs
  <2>3. \A i \in 1 .. given : i = Gone + at => Released(i)'
    <3>1. Len(Emitted) + 1 \in DOMAIN Emitted'
      BY <2>1, <2>2
    <3> QED BY <1>1, <2>1, <3>1 DEF Released
  <2> QED BY <2>1, <2>2, <2>3 DEF Released
<1> QED BY <1>2, <1>3, EmittedNext

\* Steps that leave what has been emitted and where the position is.
LEMMA QuietComplete ==
  ASSUME Base, Complete, sent' = sent, Emitted' = Emitted, Front' = Front,
         pc \notin {"flush", "end"} \cup Failures, pc' # "end"
  PROVE  Complete'
<1>1. \A i : Near(i)' = Near(i) /\ Released(i)' = Released(i)
  BY DEF Near, Released
<1> QED BY <1>1 DEF Complete

\* Where the steps that are no pass leave the position.
LEMMA QuietStep ==
  ASSUME Base, Put \/ Stage \/ Search \/ ProcEnds \/ Get \/ Flush
  PROVE  /\ sent' = sent /\ Emitted' = Emitted /\ Front' = Front
         /\ pc \notin {"flush", "end"} \cup Failures /\ pc' # "end"
<1> USE DEF Failures
<1>1. CASE Put
  <2>1. /\ sbuf' = sbuf \o SubSeq(sent, given + 1, Len(sent)) /\ given' = Len(sent)
        /\ pc = "idle" /\ pc' = "stage" /\ UNCHANGED <<sent, dbuf, out>> /\ given < Len(sent)
    BY <1>1 DEF Put
  <2>2. \A i \in given + 1 .. Len(sent) : sent[i] \in Unit
    BY <2>1, ElementOfSeq DEF Base, Shape
  <2>3. /\ SubSeq(sent, given + 1, Len(sent)) \in Seq(Unit)
        /\ Len(SubSeq(sent, given + 1, Len(sent))) = Len(sent) - given
    BY <2>1, <2>2, SubSeqProperties DEF Base, Shape
  <2>4. Len(sbuf') = Len(sbuf) + (Len(sent) - given)
    BY <2>1, <2>3, ConcatProperties DEF Base, Shape
  <2> QED BY <2>1, <2>4 DEF Emitted, Front, Gone, Passing, Base, Shape
<1>2. CASE Stage
  BY <1>2 DEF Stage, NextStage, Emitted, Front, Gone, Passing, Base, Shape
<1>3. CASE Search
  <2>1. /\ pc \in {"pat", "pmt", "ecm"} /\ UNCHANGED <<sent, given, sbuf, dbuf, out>>
    BY <1>3 DEF Search, SearchInVain, FindPat, FindPmt, FindEcm
  <2>2. pc' \in {pc, "stage", "get"} \cup Failures
    BY <1>3, <2>1 DEF Search, SearchInVain, FindPat, FindPmt, FindEcm, SearchEnds, SearchGoesOn,
                       NoneInHead
  <2> QED BY <2>1, <2>2 DEF Emitted, Front, Gone, Passing, Base, Shape
<1>4. CASE ProcEnds
  <2>1. /\ pc \in {"proc", "last"} /\ Drop(curr) /\ pc' \in {"get", "flush"}
        /\ UNCHANGED <<sent, given, dbuf, out>>
    BY <1>4 DEF ProcEnds, After
  <2>2. curr \in 0 .. Len(sbuf)
    BY DEF Base, Shape
  <2>3. Front' = Gone + curr
    BY <2>1, <2>2, DropIs
  <2> QED BY <2>1, <2>3 DEF Emitted, Front, Passing
<1>5. CASE Get
  <2>1. /\ pc = "get" /\ pc' = "idle" /\ UNCHANGED <<sent, given, sbuf>>
        /\ out' = out \o dbuf /\ dbuf' = <<>>
    BY <1>5 DEF Get
  <2> QED BY <2>1, EmittedHandedOver DEF Front, Gone, Passing
<1>6. CASE Flush
  BY <1>6 DEF Flush, Emitted, Front, Gone, Passing, Base, Shape
<1> QED BY <1>1, <1>2, <1>3, <1>4, <1>5, <1>6

\* The units that flush() skips.
LEMMA FlushAtSkips ==
  ASSUME Base, pc \notin Failures, NEW at \in FlushAt
  PROVE  \A j \in curr + 1 .. at - 1 : Near(Gone + j) \/ Ahead(Gone + j)
<1>1. SUFFICES ASSUME NEW j \in curr + 1 .. at - 1
               PROVE  Near(Gone + j) \/ Ahead(Gone + j)
  OBVIOUS
<1>2. PICK k \in j .. Len(sbuf) : ~Sync(k)
  BY FlushAtIs DEF Base
<1>3. j \in curr + 1 .. Len(sbuf)
  BY FlushAtIs DEF Base, Shape
<1> QED BY <1>2, <1>3, FlushSkipped

LEMMA CompleteStep == Base /\ Complete /\ [Next]_vars => Complete'
<1> SUFFICES ASSUME Base, Complete, [Next]_vars PROVE Complete'
  OBVIOUS
<1>1. CASE Put \/ Stage \/ Search \/ ProcEnds \/ Get \/ Flush
  BY <1>1, QuietStep, QuietComplete
<1>2. CASE Broadcast
  <2>1. /\ pc = "idle" /\ UNCHANGED <<given, sbuf, dbuf, out, curr, pc>>
        /\ sent \in Seq(Unit)
    BY <1>2 DEF Broadcast, Base, Shape
  <2>2. PICK u : sent' = Append(sent, u)
    BY <1>2 DEF Broadcast
  <2>3. /\ Len(sent') = Len(sent) + 1 /\ \A i \in 1 .. Len(sent) : sent'[i] = sent[i]
        /\ DOMAIN sent = 1 .. Len(sent) /\ DOMAIN sent' = 1 .. Len(sent')
        /\ Len(sent) \in Nat
    BY <2>1, <2>2
  <2>4. Front' = Front /\ Front \in Nat /\ Front <= Len(sent) /\ Emitted' = Emitted
    BY <2>1, FrontIs DEF Front, Gone, Passing, Emitted, Base, Shape
  <2>5. ASSUME NEW i \in 1 .. Front PROVE (Near(i) => Near(i)') /\ Released(i)' = Released(i)
    <3>1. i \in 1 .. Len(sent) /\ \A j \in DOMAIN sent : j \in DOMAIN sent' /\ sent'[j] = sent[j]
      BY <2>3, <2>4
    <3> QED BY <2>4, <3>1 DEF Near, Released
  <2>6. pc' = pc /\ \A i \in 1 .. Front : Near(i) \/ Released(i)
    BY <2>1 DEF Complete, Failures
  <2> QED BY <2>1, <2>4, <2>5, <2>6 DEF Complete
<1>3. CASE Proc
  <2>1. /\ pc \in {"proc", "last"} /\ UNCHANGED <<sent, given, out>>
        /\ pc \notin Failures /\ Passing /\ pc # "flush"
    BY <1>3, ProcIs DEF Failures, Passing
  <2>2. PICK at \in At :
          /\ at \in 1 .. Len(sbuf) /\ curr < at /\ Emit(sbuf[at])
          /\ CutAt(at) \/ GoneOverAt(at)
    BY <1>3, ProcIs
  <2>3. \A j \in curr + 1 .. at - 1 : Near(Gone + j)
    BY <2>1, <2>2, SkippedNear
  <2>4. /\ \A i \in 1 .. given : Released(i) => Released(i)'
        /\ \A i \in 1 .. given : i = Gone + at => Near(i) \/ Released(i)'
    BY <2>1, <2>2, EmittedReleased
  <2>5. CASE CutAt(at)
    <3>1. at - 1 \in 0 .. Len(sbuf) /\ Drop(at - 1) /\ pc' \in {"get", "flush"}
      BY <2>2, <2>5 DEF CutAt, After, Base, Shape
    <3>2. Front' = Gone + (at - 1)
      BY <2>1, <3>1, DropIs
    <3> QED BY <2>1, <2>2, <2>3, <2>4, <3>1, <3>2, PassComplete
  <2>6. CASE GoneOverAt(at)
    <3>1. CASE pc' = "ECM_PROC_FAILURE"
      BY <3>1 DEF Complete, Failures
    <3>2. CASE pc' = pc
      <4>1. Front' = Gone + at
        BY <2>1, <2>6, <3>2 DEF Front, Gone, Passing, GoneOverAt
      <4> QED BY <2>1, <2>2, <2>3, <2>4, <3>2, <4>1, PassComplete
    <3> QED BY <2>6, <3>1, <3>2 DEF GoneOverAt
  <2> QED BY <2>2, <2>5, <2>6
<1>4. CASE FlushPacket
  <2>1. /\ pc = "flush" /\ UNCHANGED <<sent, given, out>> /\ pc \notin Failures /\ Passing
    BY <1>4, FlushPacketIs DEF Failures, Passing
  <2>2. PICK at \in FlushAt :
          at \in 1 .. Len(sbuf) /\ curr < at /\ Emit(sbuf[at]) /\ GoneOverAt(at)
    BY <1>4, FlushPacketIs
  <2>3. \A j \in curr + 1 .. at - 1 : Near(Gone + j) \/ Ahead(Gone + j)
    BY <2>1, <2>2, FlushAtSkips
  <2>4. /\ \A i \in 1 .. given : Released(i) => Released(i)'
        /\ \A i \in 1 .. given : i = Gone + at => Near(i) \/ Released(i)'
    BY <2>1, <2>2, EmittedReleased
  <2>5. CASE pc' = "ECM_PROC_FAILURE"
    BY <2>5 DEF Complete, Failures
  <2>6. CASE pc' = pc
    <3>1. Front' = Gone + at
      BY <2>1, <2>2, <2>6 DEF Front, Gone, Passing, GoneOverAt
    <3> QED BY <2>1, <2>2, <2>3, <2>4, <2>6, <3>1, PassComplete
  <2> QED BY <2>2, <2>5, <2>6 DEF GoneOverAt
<1>5. CASE Broken
  <2>1. /\ pc \in {"proc", "last", "flush"} /\ UNCHANGED <<sent, given, dbuf, out, pc>>
        /\ pc \notin Failures /\ Passing
    BY <1>5, BrokenIs DEF Failures, Passing
  <2>2. PICK at \in IF pc = "flush" THEN FlushAt ELSE At :
          /\ at \in 1 .. Len(sbuf) /\ curr < at
          /\ sbuf' = [sbuf EXCEPT ![at] = Junked(@)] /\ curr' = at - 1
    BY <1>5, BrokenIs
  <2>3. \A j \in curr + 1 .. at - 1 : Near(Gone + j) \/ (pc = "flush" /\ Ahead(Gone + j))
    BY <2>1, <2>2, SkippedNear, FlushAtSkips
  <2>4. /\ \A i \in 1 .. given : Released(i) => Released(i)'
    BY <2>1 DEF Released, Emitted
  <2>5. Len(sbuf') = Len(sbuf)
    BY <2>2 DEF Base, Shape
  <2>6. Front' = Gone + (at - 1)
    BY <2>1, <2>2, <2>5 DEF Front, Gone, Passing
  <2> QED BY <2>1, <2>2, <2>3, <2>4, <2>6, PassComplete
<1>6. CASE FlushEnds
  <2>1. /\ pc = "flush" /\ FlushAt = {} /\ pc' = "end" /\ UNCHANGED <<sent, given>>
        /\ out' = out \o dbuf /\ dbuf' = <<>>
    BY <1>6 DEF FlushEnds
  <2>2. Emitted' = Emitted /\ pc \notin Failures
    BY <2>1, EmittedHandedOver DEF Failures
  <2>3. \A i : /\ Near(i)' = Near(i) /\ Ahead(i)' = Ahead(i)
               /\ Released(i)' = Released(i)
    BY <2>1, <2>2 DEF Near, Ahead, Released
  <2>4. /\ Gone \in Nat /\ curr \in Nat /\ Front = Gone + curr /\ Len(sbuf) \in Nat
        /\ Gone + Len(sbuf) = given /\ curr <= Len(sbuf)
    BY <2>1, FrontIs DEF Base, Shape, Front, Passing
  <2>5. ASSUME NEW i \in 1 .. given
        PROVE  Near(i) \/ Released(i) \/ Ahead(i)
    <3>1. CASE i <= Front
      <4>1. i \in 1 .. Front
        BY <2>4, <3>1
      <4> QED BY <2>1, <2>2, <4>1 DEF Complete
    <3>2. CASE i > Front
      <4>1. curr < Len(sbuf) /\ i - Gone \in curr + 1 .. Len(sbuf) /\ Gone + (i - Gone) = i
            /\ Len(sbuf) \in i - Gone .. Len(sbuf)
        BY <2>4, <3>2
      <4>2. ~Sync(Len(sbuf))
        BY <2>1, <4>1, FlushAtEnd DEF Base
      <4>3. Near(Gone + (i - Gone)) \/ Ahead(Gone + (i - Gone))
        BY <2>2, <4>1, <4>2, FlushSkipped
      <4> QED BY <4>1, <4>3
    <3> QED BY <2>4, <3>1, <3>2
  <2> QED BY <2>1, <2>3, <2>5 DEF Complete
<1>7. CASE UNCHANGED vars
  BY <1>7 DEF vars, Complete, Front, Gone, Passing, Near, Released, Ahead, Emitted
<1> QED BY <1>1, <1>2, <1>3, <1>4, <1>5, <1>6, <1>7 DEF Next, Done

\* Whatever the searches, the passes and the changes of the tables in between,
\* every packet given to put() comes out or is held back, and none is held back
\* after flush() (put_arib_std_b1, flush_arib_std_b1).
THEOREM NothingIsLost == Spec => []NothingLost
<1>1. Init => Complete
  BY InitBase, FrontIs DEF Init, Complete, Front, Gone, Passing
<1>2. ASSUME Base, Complete PROVE NothingLost
  <2>1. SUFFICES ASSUME pc \in {"idle", "end"}, NEW i \in 1 .. given
                 PROVE  \/ Excused(i) \/ Released(i)
                        \/ pc = "idle" /\ \E k \in DOMAIN sbuf : sbuf[k].pos = i
    BY DEF NothingLost, Released
  <2>2. CASE Near(i) \/ Released(i) \/ (pc = "end" /\ Ahead(i))
    BY <2>2 DEF Near, Ahead, Excused
  <2>3. CASE i \in 1 .. Front \/ pc = "end"
    BY <1>2, <2>1, <2>2, <2>3 DEF Complete, Failures
  <2>4. CASE i > Front /\ pc = "idle"
    <3>1. /\ Gone \in Nat /\ Front = Gone /\ Gone + Len(sbuf) = given /\ Len(sbuf) \in Nat
          /\ DOMAIN sbuf = 1 .. Len(sbuf)
      BY <1>2, <2>4, FrontIs DEF Base, Shape, Front, Passing
    <3>2. i - Gone \in 1 .. Len(sbuf) /\ Gone + (i - Gone) = i
      BY <2>4, <3>1
    <3>3. sbuf[i - Gone].pos = i
      BY <1>2, <3>2, UnitIs DEF Base
    <3> QED BY <2>4, <3>1, <3>2, <3>3
  <2>5. Front \in Nat
    BY <1>2, FrontIs
  <2> QED BY <2>1, <2>3, <2>4, <2>5
<1> QED BY <1>1, <1>2, InitBase, BaseStep, CompleteStep, PTL DEF Spec

-----------------------------------------------------------------------------
(* The order of what comes out.                                            *)

\* Steps that emit nothing and leave the position where it is.
LEMMA QuietReach ==
  ASSUME Base, Reach, Known, Emitted' = Emitted, Front' = Front,
         pc' \notin Failures => pc \notin Failures,
         pc' \notin Failures /\ Again => Again',
         pc' \notin Failures /\ NoEmptyPat /\ Again /\ pat = sbuf[1].packet.programs
           => pat' = sbuf'[1].packet.programs
  PROVE  Reach' /\ Known'
<1>1. ASSUME pc' \notin Failures, NEW k \in DOMAIN Emitted, ~(Emitted[k].pos <= Front)
      PROVE  /\ Emitted[k].pos = Front + 1 /\ Emitted[k].kind = "pat" /\ Again /\ Again'
             /\ NoEmptyPat => k = Len(Emitted) /\ pat' = sbuf'[1].packet.programs
  BY <1>1 DEF Reach, Known
<1>2. Reach'
  BY <1>1 DEF Reach
<1>3. Known'
  BY <1>1 DEF Known
<1> QED BY <1>2, <1>3

\* The first unit of the buffer is the same after a step that drops none.
LEMMA KeptAgain ==
  ASSUME Base, UNCHANGED <<sent, given>>, Again, Passing, Drop(curr)
  PROVE  Len(sbuf') = Len(sbuf) /\ sbuf' # <<>> /\ sbuf'[1] = sbuf[1] /\ curr' = 0
<1>1. curr = 0 /\ sbuf # <<>> /\ sbuf \in Seq(Unit) /\ 0 \in 0 .. Len(sbuf) /\ Len(sbuf) \in Nat
  BY DEF Again, Base, Shape
<1>2. /\ sbuf' \in Seq(Unit) /\ Len(sbuf') = Len(sbuf) - 0 /\ curr' = 0
      /\ \A k \in 1 .. Len(sbuf') : sbuf'[k] = sbuf[0 + k]
  BY <1>1, DropIs
<1>3. Len(sbuf) # 0
  BY <1>1, EmptySeq
<1> QED BY <1>1, <1>2, <1>3, EmptySeq

\* A PAT that is waited for is not the one at the head of the buffer.
LEMMA HeadPat ==
  ASSUME Base, Again, NoEmptyPat, pat = sbuf[1].packet.programs
  PROVE  pat \notin {Null, {}}
<1>1. 1 \in 1 .. Len(sbuf)
  BY EmptySeq DEF Again, Base, Shape
<1>2. sbuf[1].packet \in Kinds /\ sbuf[1].packet.kind = "pat"
  BY <1>1, UnitIs DEF Again, Base
<1>3. sbuf[1].packet \in Packet
  BY <1>2, StreamAssumption
<1> QED BY <1>2, <1>3, PacketParts, StreamAssumption DEF NoEmptyPat

LEMMA QuietReachStep ==
  ASSUME Base, Reach, Known, Put \/ Stage \/ Search \/ ProcEnds \/ Get \/ Flush
  PROVE  Reach' /\ Known'
<1>1. Emitted' = Emitted /\ Front' = Front /\ pc \notin Failures
  BY QuietStep
<1>2. SUFFICES ASSUME pc' \notin Failures, Again
               PROVE  /\ Again'
                      /\ NoEmptyPat /\ pat = sbuf[1].packet.programs
                           => pat' = sbuf'[1].packet.programs
  BY <1>1, QuietReach
<1>3. CASE Put
  <2>1. /\ sbuf' = sbuf \o SubSeq(sent, given + 1, Len(sent)) /\ pat' = pat
        /\ pc' = "stage" /\ given < Len(sent)
    BY <1>3 DEF Put, tables
  <2>2. \A i \in given + 1 .. Len(sent) : sent[i] \in Unit
    BY <2>1, ElementOfSeq DEF Base, Shape
  <2>3. /\ SubSeq(sent, given + 1, Len(sent)) \in Seq(Unit) /\ sbuf \in Seq(Unit)
        /\ Len(SubSeq(sent, given + 1, Len(sent))) = Len(sent) - given
        /\ given \in Nat /\ Len(sent) \in Nat
    BY <2>1, <2>2, SubSeqProperties DEF Base, Shape
  <2>4. 1 \in 1 .. Len(sbuf) /\ Len(sbuf) \in Nat
    BY <1>2, <2>3, EmptySeq DEF Again
  <2>5. /\ sbuf' \in Seq(Unit) /\ sbuf'[1] = sbuf[1]
        /\ Len(sbuf') = Len(sbuf) + (Len(sent) - given)
    BY <2>1, <2>3, <2>4, ConcatProperties
  <2>6. Len(sbuf') # 0
    BY <2>1, <2>3, <2>4, <2>5
  <2>7. sbuf' # <<>>
    BY <2>5, <2>6, EmptySeq
  <2> QED BY <1>2, <2>1, <2>5, <2>7 DEF Again, Passing
<1>4. CASE Stage
  BY <1>2, <1>4 DEF Stage, NextStage, Again, Passing, tables
<1>5. CASE Search
  <2>1. /\ pc \in {"pat", "pmt", "ecm"} /\ UNCHANGED <<sent, given, sbuf, dbuf, out>>
    BY <1>5 DEF Search, SearchInVain, FindPat, FindPmt, FindEcm
  <2>2. pc' \in {pc, "stage", "get"} \cup Failures
    BY <1>5, <2>1 DEF Search, SearchInVain, FindPat, FindPmt, FindEcm, SearchEnds, SearchGoesOn,
                       NoneInHead, Failures
  <2>3. Again'
    BY <1>2, <2>1, <2>2 DEF Again, Passing, Failures
  <2>4. pat' = pat \/ NextStage = "pat"
    BY <1>5 DEF Search, SearchInVain, FindPat, FindPmt, FindEcm, tables, Base, Searching
  <2>5. CASE NextStage = "pat"
    <3>1. pat \in {Null, {}}
      BY <2>5 DEF NextStage
    <3> QED BY <1>2, <2>3, <3>1, HeadPat
  <2> QED BY <2>1, <2>3, <2>4, <2>5
<1>6. CASE ProcEnds
  <2>1. /\ Passing /\ Drop(curr) /\ pc' \in {"get", "flush"} /\ UNCHANGED <<sent, given>>
        /\ pat' = pat
    BY <1>6 DEF ProcEnds, After, Passing, tables
  <2> QED BY <1>2, <2>1, KeptAgain DEF Again
<1>7. CASE Get
  BY <1>2, <1>7 DEF Get, Again, Passing, tables
<1>8. CASE Flush
  BY <1>2, <1>8 DEF Flush, Again, Passing, tables
<1> QED BY <1>3, <1>4, <1>5, <1>6, <1>7, <1>8

\* A packet of a pass that does not cut it short.
LEMMA GoneOverReach ==
  ASSUME Base, Reach, Passing, NEW at \in 1 .. Len(sbuf), curr < at, Emit(sbuf[at]),
         GoneOverAt(at), UNCHANGED <<given, out>>
  PROVE  Reach' /\ Known'
<1>1. SUFFICES ASSUME pc' = pc, pc \notin Failures
               PROVE  \A k \in DOMAIN Emitted' : Emitted'[k].pos <= Front'
  BY DEF Reach, Known, GoneOverAt, Failures
<1>2. /\ Gone \in Nat /\ curr \in Nat /\ at \in Nat /\ Front = Gone + curr
      /\ Front' = Gone + at
  BY <1>1, FrontIs DEF Base, Shape, Front, Gone, Passing, GoneOverAt
<1>3. \A k \in DOMAIN Emitted : Emitted[k].pos \in Nat /\ Emitted[k].pos <= Gone + at
  <2>1. \A k \in DOMAIN Emitted : Emitted[k].pos \in Nat /\ Emitted[k].pos <= Front + 1
    BY <1>1, <1>2, EmittedIs DEF Reach
  <2> QED BY <1>2, <2>1
<1>4. CASE Stripped(sbuf[at]) /\ Emitted' = Emitted
  BY <1>2, <1>3, <1>4
<1>5. CASE /\ ~Stripped(sbuf[at]) /\ Emitted' = Append(Emitted, ItemOf(sbuf[at]))
           /\ ItemOf(sbuf[at]) \in Item
  <2>1. /\ DOMAIN Emitted' = 1 .. Len(Emitted) + 1
        /\ \A k \in 1 .. Len(Emitted) : Emitted'[k] = Emitted[k]
        /\ Emitted'[Len(Emitted) + 1].pos = Gone + at
    BY <1>5, EmittedAppended
  <2>2. DOMAIN Emitted = 1 .. Len(Emitted) /\ Len(Emitted) \in Nat
    BY EmittedIs
  <2>3. ASSUME NEW k \in 1 .. Len(Emitted) + 1 PROVE Emitted'[k].pos <= Gone + at
    <3>1. CASE k = Len(Emitted) + 1
      BY <1>2, <2>1, <3>1
    <3>2. CASE k # Len(Emitted) + 1
      BY <1>3, <2>1, <2>2, <3>2
    <3> QED BY <3>1, <3>2
  <2> QED BY <1>2, <2>1, <2>3
<1> QED BY <1>4, <1>5, EmittedNext

\* A PAT that cuts the pass short.
LEMMA CutReach ==
  ASSUME Base, Reach, Known, Passing, pc \notin Failures,
         NEW at \in 1 .. Len(sbuf), curr < at, Emit(sbuf[at]), CutAt(at),
         UNCHANGED <<sent, given, out>>
  PROVE  /\ Reach' /\ Known' /\ Again'
         /\ ~Stripped(sbuf[at]) /\ Emitted' = Append(Emitted, ItemOf(sbuf[at]))
         /\ ItemOf(sbuf[at]) \in Item
<1>1. /\ Gone \in Nat /\ curr \in Nat /\ at \in Nat /\ Len(sbuf) \in Nat /\ Front = Gone + curr
      /\ at - 1 \in 0 .. Len(sbuf) /\ Drop(at - 1) /\ at <= Len(sbuf)
  BY FrontIs DEF Base, Shape, Front, CutAt
<1>2. /\ sbuf' \in Seq(Unit) /\ Len(sbuf') = Len(sbuf) - (at - 1) /\ Front' = Gone + (at - 1)
      /\ \A k \in 1 .. Len(sbuf') : sbuf'[k] = sbuf[(at - 1) + k]
      /\ curr' = 0
  BY <1>1, DropIs
<1>3. sbuf'[1] = sbuf[at] /\ Len(sbuf') # 0
  <2>1. 1 \in 1 .. Len(sbuf') /\ (at - 1) + 1 = at
    BY ONLY <1>1, <1>2
  <2> QED BY <1>2, <2>1
<1>4. Again'
  BY <1>2, <1>3, EmptySeq DEF Again, CutAt
<1>5. /\ ~Stripped(sbuf[at]) /\ Emitted' = Append(Emitted, ItemOf(sbuf[at]))
      /\ ItemOf(sbuf[at]) \in Item
  BY EmittedNext DEF Stripped, CutAt
<1>6. /\ DOMAIN Emitted' = 1 .. Len(Emitted) + 1 /\ Len(Emitted') = Len(Emitted) + 1
      /\ \A k \in 1 .. Len(Emitted) : Emitted'[k] = Emitted[k]
      /\ Emitted'[Len(Emitted) + 1].pos = Gone + at
      /\ Emitted'[Len(Emitted) + 1].kind = "pat"
  BY <1>5, EmittedAppended DEF CutAt
<1>7. /\ DOMAIN Emitted = 1 .. Len(Emitted) /\ Len(Emitted) \in Nat
      /\ \A k \in 1 .. Len(Emitted) : Emitted[k].pos \in Nat
  BY EmittedIs
<1>8. ASSUME NEW k \in 1 .. Len(Emitted) + 1, ~(Emitted'[k].pos <= Front')
      PROVE  /\ Emitted'[k].pos = Front' + 1 /\ Emitted'[k].kind = "pat"
             /\ NoEmptyPat => k = Len(Emitted') /\ pat' = sbuf'[1].packet.programs
  <2>1. CASE k = Len(Emitted) + 1
    <3>1. Emitted'[k].pos = Front' + 1 /\ Emitted'[k].kind = "pat" /\ k = Len(Emitted')
      BY ONLY <1>1, <1>2, <1>6, <2>1
    <3>2. pat' = sbuf'[1].packet.programs
      BY <1>3 DEF CutAt
    <3> QED BY <3>1, <3>2
  <2>2. CASE k \in 1 .. Len(Emitted)
    <3>1. Emitted'[k] = Emitted[k] /\ Emitted[k].pos \in Nat /\ k \in DOMAIN Emitted
      BY <1>6, <1>7, <2>2
    <3>2. ~(Emitted[k].pos <= Front)
      BY <1>1, <1>2, <1>8, <3>1
    <3>3. /\ Emitted[k].pos = Front + 1 /\ Emitted[k].kind = "pat" /\ Again
          /\ NoEmptyPat => pat = sbuf[1].packet.programs
      BY <3>1, <3>2 DEF Reach, Known
    <3>4. curr = 0
      BY <3>3 DEF Again
    <3>5. at = 1
      BY <1>1, <1>2, <1>8, <3>1, <3>3, <3>4
    <3>6. ~NoEmptyPat
      BY <3>3, <3>5 DEF CutAt
    <3> QED BY <1>1, <1>2, <3>1, <3>3, <3>4, <3>5, <3>6
  <2> QED BY <1>7, <2>1, <2>2
<1>9. Reach' /\ Known'
  BY <1>4, <1>6, <1>8 DEF Reach, Known
<1> QED BY <1>4, <1>5, <1>9

\* A broken packet is none of a PAT.
LEMMA BrokenReach ==
  ASSUME Base, Reach, Known, Broken
  PROVE  Reach' /\ Known'
<1>1. /\ pc \in {"proc", "last", "flush"} /\ UNCHANGED <<sent, given, dbuf, out, pc>>
      /\ pc \notin Failures /\ Passing
  BY BrokenIs DEF Failures, Passing
<1>2. PICK at \in 1 .. Len(sbuf) :
        /\ curr < at /\ sbuf[at].packet.kind = "broken"
        /\ sbuf' = [sbuf EXCEPT ![at] = Junked(@)] /\ curr' = at - 1
  BY BrokenIs
<1>3. Len(sbuf') = Len(sbuf)
  BY <1>2 DEF Base, Shape
<1>4. /\ Gone \in Nat /\ curr \in Nat /\ at \in Nat /\ Front = Gone + curr
      /\ Front' = Gone + (at - 1)
  BY <1>1, <1>2, <1>3, FrontIs DEF Base, Shape, Front, Gone, Passing
<1>5. Emitted' = Emitted
  BY <1>1 DEF Emitted
<1>6. ASSUME NEW k \in DOMAIN Emitted PROVE Emitted[k].pos <= Front'
  <2>1. Emitted[k].pos \in Nat
    BY EmittedIs
  <2>2. CASE Emitted[k].pos <= Front
    BY <1>2, <1>4, <2>1, <2>2
  <2>3. CASE Emitted[k].pos = Front + 1 /\ Again
    <3>1. at # 1 /\ curr = 0
      BY <1>1, <1>2, <2>3 DEF Again
    <3> QED BY <1>2, <1>4, <2>1, <2>3, <3>1
  <2> QED BY <1>1, <2>2, <2>3 DEF Reach
<1> QED BY <1>5, <1>6 DEF Reach, Known

LEMMA ReachStep == Base /\ Reach /\ Known /\ [Next]_vars => Reach' /\ Known'
<1> SUFFICES ASSUME Base, Reach, Known, [Next]_vars PROVE Reach' /\ Known'
  OBVIOUS
<1>1. CASE Put \/ Stage \/ Search \/ ProcEnds \/ Get \/ Flush
  BY <1>1, QuietReachStep
<1>2. CASE Broadcast
  <2>1. UNCHANGED <<given, sbuf, dbuf, out, pat, curr, pc>>
    BY <1>2 DEF Broadcast, tables
  <2> QED BY <2>1, QuietReach DEF Emitted, Front, Gone, Passing, Again
<1>3. CASE Proc
  <2>1. /\ pc \in {"proc", "last"} /\ UNCHANGED <<sent, given, out>>
        /\ pc \notin Failures /\ Passing
    BY <1>3, ProcIs DEF Failures, Passing
  <2>2. PICK at \in 1 .. Len(sbuf) :
          curr < at /\ Emit(sbuf[at]) /\ (CutAt(at) \/ GoneOverAt(at))
    BY <1>3, ProcIs
  <2> QED BY <2>1, <2>2, GoneOverReach, CutReach
<1>4. CASE FlushPacket
  <2>1. Passing /\ UNCHANGED <<given, out>>
    BY <1>4, FlushPacketIs DEF Passing
  <2>2. PICK at \in 1 .. Len(sbuf) : curr < at /\ Emit(sbuf[at]) /\ GoneOverAt(at)
    BY <1>4, FlushPacketIs
  <2> QED BY <2>1, <2>2, GoneOverReach
<1>5. CASE Broken
  BY <1>5, BrokenReach
<1>6. CASE FlushEnds
  <2>1. /\ pc = "flush" /\ pc' = "end" /\ UNCHANGED <<sent, given>> /\ pat' = pat
        /\ out' = out \o dbuf /\ dbuf' = <<>> /\ Drop(curr)
    BY <1>6 DEF FlushEnds, tables
  <2>2. curr \in 0 .. Len(sbuf) /\ Passing /\ pc \notin Failures
    BY <2>1 DEF Base, Shape, Passing, Failures
  <2>3. Front' = Front
    BY <2>1, <2>2, DropIs DEF Front
  <2>4. Emitted' = Emitted
    BY <2>1, EmittedHandedOver
  <2>5. Again => Again' /\ sbuf'[1] = sbuf[1]
    BY <2>1, <2>2, KeptAgain DEF Again
  <2> QED BY <2>1, <2>2, <2>3, <2>4, <2>5, QuietReach
<1>7. CASE UNCHANGED vars
  BY <1>7, QuietReach DEF vars, tables, Emitted, Front, Gone, Passing, Again
<1> QED BY <1>1, <1>2, <1>3, <1>4, <1>5, <1>6, <1>7 DEF Next, Done

\* What comes out is the stream in its order: nothing overtakes, and only a PAT
\* comes out more than once, without a packet in between.
InTurn ==
  \A i, j \in DOMAIN Emitted : i < j =>
    \/ Emitted[i].pos < Emitted[j].pos
    \/ Emitted[i].pos = Emitted[j].pos /\ Emitted[i].kind = "pat"

\* A packet that comes out, and what came out before it.
LEMMA EmissionInTurn ==
  ASSUME Base, Reach, Passing, NEW at \in 1 .. Len(sbuf), curr < at, Emit(sbuf[at]), out' = out
  PROVE  /\ InTurn => InTurn'
         /\ Known /\ NoEmptyPat /\ InOrder => InOrder'
<1>1. /\ Gone \in Nat /\ curr \in Nat /\ at \in Nat /\ Front = Gone + curr /\ pc \notin Failures
  BY FrontIs DEF Base, Shape, Front, Passing, Failures
<1>2. \A k \in DOMAIN Emitted :
        /\ Emitted[k].pos \in Nat
        /\ Emitted[k].pos < Gone + at \/ (Emitted[k].pos = Gone + at /\ Emitted[k].kind = "pat")
        /\ Known /\ NoEmptyPat => Emitted[k].pos < Gone + at \/ k = Len(Emitted)
  <2>1. SUFFICES ASSUME NEW k \in DOMAIN Emitted
                 PROVE  /\ Emitted[k].pos \in Nat
                        /\ \/ Emitted[k].pos < Gone + at
                           \/ Emitted[k].pos = Gone + at /\ Emitted[k].kind = "pat"
                        /\ Known /\ NoEmptyPat => Emitted[k].pos < Gone + at \/ k = Len(Emitted)
    OBVIOUS
  <2>2. Emitted[k].pos \in Nat
    BY EmittedIs
  <2>3. CASE Emitted[k].pos <= Front
    BY <1>1, <2>2, <2>3
  <2>4. CASE ~(Emitted[k].pos <= Front)
    <3>1. Emitted[k].pos = Front + 1 /\ Emitted[k].kind = "pat"
      BY <1>1, <2>4 DEF Reach
    <3>2. Known /\ NoEmptyPat => k = Len(Emitted)
      BY <1>1, <2>4 DEF Known
    <3> QED BY <1>1, <2>2, <3>1, <3>2
  <2> QED BY <2>3, <2>4
<1>3. CASE Stripped(sbuf[at]) /\ Emitted' = Emitted
  BY <1>3 DEF InTurn, InOrder
<1>4. CASE /\ ~Stripped(sbuf[at]) /\ Emitted' = Append(Emitted, ItemOf(sbuf[at]))
           /\ ItemOf(sbuf[at]) \in Item
  <2>1. /\ DOMAIN Emitted' = 1 .. Len(Emitted) + 1
        /\ \A k \in 1 .. Len(Emitted) : Emitted'[k] = Emitted[k]
        /\ Emitted'[Len(Emitted) + 1].pos = Gone + at
    BY <1>4, EmittedAppended
  <2>2. DOMAIN Emitted = 1 .. Len(Emitted) /\ Len(Emitted) \in Nat
    BY EmittedIs
  <2>3. ASSUME NEW i \in DOMAIN Emitted', NEW j \in DOMAIN Emitted', i < j
        PROVE  /\ i \in DOMAIN Emitted /\ Emitted'[i] = Emitted[i]
               /\ \/ j \in DOMAIN Emitted /\ Emitted'[j] = Emitted[j]
                  \/ j = Len(Emitted) + 1 /\ Emitted'[j].pos = Gone + at
    BY <2>1, <2>2, <2>3
  <2>4. InTurn => InTurn'
    BY <1>2, <2>3 DEF InTurn
  <2>5. ASSUME Known, NoEmptyPat, InOrder
        PROVE  InOrder'
    <3>1. SUFFICES ASSUME NEW i \in DOMAIN Emitted', NEW j \in DOMAIN Emitted', i < j
                   PROVE  \/ Emitted'[i].pos < Emitted'[j].pos
                          \/ /\ Emitted'[i].pos = Emitted'[j].pos /\ j = i + 1
                             /\ Emitted'[i].kind = "pat"
      BY DEF InOrder
    <3>2. i \in DOMAIN Emitted /\ Emitted'[i] = Emitted[i]
      BY <2>3, <3>1
    <3>3. CASE j \in DOMAIN Emitted /\ Emitted'[j] = Emitted[j]
      BY <2>5, <3>1, <3>2, <3>3 DEF InOrder
    <3>4. CASE j = Len(Emitted) + 1 /\ Emitted'[j].pos = Gone + at
      BY <1>2, <2>5, <3>2, <3>4
    <3> QED BY <2>3, <3>1, <3>3, <3>4
  <2> QED BY <2>4, <2>5
<1> QED BY <1>3, <1>4, EmittedNext

LEMMA InTurnStep ==
  ASSUME Base, Reach, [Next]_vars
  PROVE  /\ InTurn => InTurn'
         /\ Known /\ NoEmptyPat /\ InOrder => InOrder'
<1>1. CASE Emitted' = Emitted
  BY <1>1 DEF InTurn, InOrder
<1>2. CASE Proc
  <2>1. Passing /\ out' = out
    BY <1>2, ProcIs DEF Passing
  <2>2. PICK at \in 1 .. Len(sbuf) : curr < at /\ Emit(sbuf[at])
    BY <1>2, ProcIs
  <2> QED BY <2>1, <2>2, EmissionInTurn
<1>3. CASE FlushPacket
  <2>1. Passing /\ out' = out
    BY <1>3, FlushPacketIs DEF Passing
  <2>2. PICK at \in 1 .. Len(sbuf) : curr < at /\ Emit(sbuf[at])
    BY <1>3, FlushPacketIs
  <2> QED BY <2>1, <2>2, EmissionInTurn
<1>4. CASE Put \/ Stage \/ Search \/ ProcEnds \/ Get \/ Flush
  BY <1>1, <1>4, QuietStep
<1>5. CASE Broadcast \/ Broken \/ UNCHANGED vars
  BY <1>1, <1>5, BrokenIs DEF Broadcast, vars, Emitted
<1>6. CASE FlushEnds
  BY <1>1, <1>6, EmittedHandedOver DEF FlushEnds
<1> QED BY <1>2, <1>3, <1>4, <1>5, <1>6 DEF Next, Done

LEMMA InitReach == Init => Reach /\ Known /\ InTurn /\ InOrder
<1> SUFFICES ASSUME Init PROVE Reach /\ Known /\ InTurn /\ InOrder
  OBVIOUS
<1>1. Emitted = <<>>
  BY ConcatEmptySeq, EmptySeq DEF Init, Emitted
<1>2. DOMAIN Emitted = {}
  BY <1>1
<1> QED BY <1>2 DEF Reach, Known, InTurn, InOrder

\* Of any stream, packets come out in the order they went in, and none but a
\* PAT more than once (proc_arib_std_b1).
THEOREM ComesOutInTurn == Spec => []InTurn
BY InitBase, BaseStep, InitReach, ReachStep, InTurnStep, PTL DEF Spec

\* Of a stream without empty PATs, one that ends a pass comes out twice at most
\* (proc_arib_std_b1 at 1914 keeps it in the buffer).
THEOREM ComesOutInOrder == NoEmptyPat => (Spec => []InOrder)
<1> SUFFICES ASSUME NoEmptyPat PROVE Spec => []InOrder
  OBVIOUS
<1>1. Base /\ Reach /\ Known /\ InOrder /\ [Next]_vars => InOrder'
  BY InTurnStep
<1> QED BY <1>1, InitBase, BaseStep, InitReach, ReachStep, PTL DEF Spec

-----------------------------------------------------------------------------
(* What a search has passed over.                                          *)

\* A search goes on, or stops for more data, behind unit at.
LEMMA LookedOn ==
  ASSUME Base, Looked, pc \in {"pat", "pmt", "ecm"}, UNCHANGED <<sent, given, sbuf>>,
         NEW at \in At, Searched' = at, NextStage' = NextStage, ~Missed(at, NextStage)',
         \A i \in 1 .. Len(sbuf) : Missed(i, NextStage)' => Missed(i, NextStage)
  PROVE  Looked'
<1>1. Gone' = Gone /\ \A i : Near(i)' = Near(i)
  BY DEF Gone, Near
<1>2. at \in 1 .. Len(sbuf) /\ Len(sbuf) \in Nat /\ curr \in Nat /\ pc \notin Failures
  BY AtIs DEF Base, Shape, Failures
<1>3. ASSUME NEW i \in 1 .. at
      PROVE  Near(Gone + i) \/ ~Missed(i, NextStage)'
  <2>1. CASE i <= curr
    <3>1. Near(Gone + i) \/ ~Missed(i, NextStage)
      BY <1>2, <2>1 DEF Looked, Searched
    <3> QED BY <1>2, <3>1
  <2>2. CASE i = at
    BY <2>2
  <2>3. CASE i > curr /\ i # at
    BY <1>2, <2>3, SkippedNear
  <2> QED BY <1>2, <2>1, <2>2, <2>3
<1> QED BY <1>1, <1>3 DEF Looked

LEMMA FindPatLooked ==
  ASSUME Base, Looked, FindPat
  PROVE  Looked'
<1>1. pc = "pat" /\ UNCHANGED <<sent, given, sbuf, dbuf, out>> /\ NextStage = "pat"
  BY DEF FindPat, Base, Searching
<1>2. PICK at \in At :
       IF IsNewPat(sbuf[at])
       THEN NewPat(sbuf[at].packet.programs) /\ SearchEnds(at, pat' # {})
       ELSE SearchGoesOn(at) /\ UNCHANGED <<tables, dec>>
  BY DEF FindPat
<1>3. at \in 1 .. Len(sbuf) /\ at \in 0 .. Len(sbuf) /\ pat \in {Null, {}}
  BY <1>1, AtIs DEF Base, Shape, NextStage
<1>4. \A i : Missed(i, "pat")' <=> Missed(i, "pat")
  BY <1>1 DEF Missed
<1>5. CASE IsNewPat(sbuf[at]) /\ pat' # {}
  <2>1. pc' = "stage" /\ sbuf_offset' = 0
    BY <1>1, <1>2, <1>3, <1>5, SearchEndsIs
  <2> QED BY <2>1 DEF Looked, Searched
<1>6. CASE IsNewPat(sbuf[at]) /\ pat' = {}
  <2>1. SearchEnds(at, FALSE) /\ sbuf[at].packet.programs = {}
    BY <1>2, <1>6 DEF NewPat
  <2>2. sbuf_offset' = at /\ (pc' = "get" \/ pc' \in Failures)
    BY <1>1, <1>3, <2>1, SearchEndsIs
  <2>3. NextStage' = "pat" /\ ~Missed(at, "pat")
    BY <1>6, <2>1 DEF NextStage, Missed, IsNewPat
  <2>4. CASE pc' \in Failures
    BY <2>4 DEF Looked, Failures
  <2>5. CASE pc' = "get"
    <3>1. Searched' = at
      BY <2>2, <2>5 DEF Searched
    <3> QED BY <1>1, <1>4, <2>3, <3>1, LookedOn
  <2> QED BY <2>2, <2>4, <2>5
<1>7. CASE ~IsNewPat(sbuf[at])
  <2>1. curr' = at /\ pc' = pc /\ UNCHANGED <<tables, dec>>
    BY <1>1, <1>2, <1>3, <1>7, SearchEndsIs
  <2>2. NextStage' = "pat" /\ Searched' = at
    BY <1>1, <1>3, <2>1 DEF NextStage, tables, Searched
  <2>3. ~Missed(at, "pat")
    <3>1. CASE sbuf[at].packet.kind = "pat"
      <4>1. sbuf[at].packet \in Packet
        BY <1>3, UnitIs DEF Base, Unit
      <4>2. sbuf[at].packet.programs # Null /\ pat = sbuf[at].packet.programs
        BY <1>7, <3>1, <4>1, PacketParts, StreamAssumption DEF IsNewPat
      <4> QED BY <1>3, <3>1, <4>2 DEF Missed
    <3>2. CASE sbuf[at].packet.kind # "pat"
      BY <3>2 DEF Missed
    <3> QED BY <3>1, <3>2
  <2> QED BY <1>1, <1>4, <2>2, <2>3, LookedOn
<1> QED BY <1>5, <1>6, <1>7

LEMMA FindPmtLooked ==
  ASSUME Base, Looked, FindPmt
  PROVE  Looked'
<1>1. pc = "pmt" /\ UNCHANGED <<sent, given, sbuf, dbuf, out>> /\ NextStage = "pmt"
  BY DEF FindPmt, Base, Searching
<1>2. PICK at \in At :
       \/ ~IsPmt(sbuf[at]) /\ SearchGoesOn(at) /\ UNCHANGED <<tables, dec>>
       \/ /\ IsPmt(sbuf[at])
          /\ \/ phase' = [phase EXCEPT ![sbuf[at].packet.program] = 1]
             \/ phase' = [phase EXCEPT ![sbuf[at].packet.program] = 2]
          /\ UNCHANGED pat
          /\ IF PmtFound' THEN SearchEnds(at, TRUE) ELSE SearchGoesOn(at)
  BY DEF FindPmt
<1>3. at \in 1 .. Len(sbuf) /\ at \in 0 .. Len(sbuf) /\ pat \notin {Null, {}}
      /\ phase \in [Program -> 0 .. 2] /\ pat \in SUBSET Program
  BY <1>1, AtIs DEF Base, Shape, NextStage
<1>4. CASE ~IsPmt(sbuf[at]) /\ SearchGoesOn(at) /\ UNCHANGED <<tables, dec>>
  <2>1. curr' = at /\ pc' = pc
    BY <1>1, <1>3, <1>4, SearchEndsIs
  <2>2. NextStage' = NextStage /\ Searched' = at
    BY <1>1, <1>4, <2>1 DEF NextStage, PmtFound, EcmFound, Found, Alive, tables, Searched
  <2>3. ~Missed(at, "pmt")
    BY <1>3, <1>4 DEF Missed, IsPmt
  <2>4. \A i : Missed(i, "pmt")' <=> Missed(i, "pmt")
    BY <1>1, <1>4 DEF Missed, tables
  <2> QED BY <1>1, <2>2, <2>3, <2>4, LookedOn
<1>5. CASE IsPmt(sbuf[at]) /\ PmtFound'
  <2>1. pc' = "stage" /\ sbuf_offset' = 0
    BY <1>1, <1>2, <1>3, <1>5, SearchEndsIs
  <2> QED BY <2>1 DEF Looked, Searched
<1>6. CASE IsPmt(sbuf[at]) /\ ~PmtFound'
  <2>1. /\ SearchGoesOn(at) /\ pat' = pat
        /\ phase'[sbuf[at].packet.program] # 0
        /\ \A p \in Program : phase'[p] = 0 => phase[p] = 0
    BY <1>2, <1>3, <1>6 DEF IsPmt
  <2>2. curr' = at /\ pc' = pc
    BY <1>1, <1>3, <2>1, SearchEndsIs
  <2>3. NextStage' = "pmt" /\ Searched' = at
    BY <1>1, <1>3, <1>6, <2>1, <2>2 DEF NextStage, Searched
  <2>4. ~Missed(at, "pmt")' /\ \A i : Missed(i, "pmt")' => Missed(i, "pmt")
    BY <1>1, <1>3, <2>1 DEF Missed
  <2> QED BY <1>1, <2>3, <2>4, LookedOn
<1> QED BY <1>2, <1>4, <1>5, <1>6

LEMMA FindEcmLooked ==
  ASSUME Base, Looked, FindEcm
  PROVE  Looked'
<1>1. pc = "ecm" /\ UNCHANGED <<sent, given, sbuf, dbuf, out, tables>> /\ NextStage = "ecm"
  BY FindEcmIs DEF Base, Searching
<1>2. PICK at \in At :
        /\ at \in 1 .. Len(sbuf)
        /\ \/ /\ ~IsEcm(sbuf[at]) \/ ~IsNewEcm(sbuf[at])
              /\ SearchGoesOn(at) /\ dec' = dec
           \/ /\ IsEcm(sbuf[at])
              /\ \E d \in Dec :
                   /\ dec' = [dec EXCEPT ![sbuf[at].packet.pid] = d]
                   /\ d.m2 <= Period
                   /\ \/ /\ pc' = "ECM_PROC_FAILURE"
                         /\ curr' = at /\ sbuf_offset' = at
                      \/ SearchEnds(at, TRUE)
                      \/ d.phase # 0 /\ ~EcmFound' /\ SearchGoesOn(at)
  BY FindEcmIs
<1>3. /\ at \in 0 .. Len(sbuf) /\ dec \in [EcmPid -> Dec]
      /\ pat \notin {Null, {}} /\ PmtFound
  BY <1>1, <1>2 DEF Base, Shape, NextStage
<1>4. \A u : IsEcm(u)' <=> IsEcm(u)
  BY <1>1 DEF IsEcm, Alive, tables
<1>5. CASE /\ ~IsEcm(sbuf[at]) \/ ~IsNewEcm(sbuf[at])
           /\ SearchGoesOn(at) /\ dec' = dec
  <2>1. curr' = at /\ pc' = pc
    BY <1>1, <1>3, <1>5, SearchEndsIs
  <2>2. NextStage' = NextStage /\ Searched' = at
    BY <1>1, <1>5, <2>1 DEF NextStage, PmtFound, EcmFound, Found, Alive, tables, Searched
  <2>3. \A i : Missed(i, "ecm")' <=> Missed(i, "ecm")
    BY <1>1, <1>4, <1>5 DEF Missed, IsNewEcm, tables
  <2>4. ~Missed(at, "ecm")
    BY <1>5 DEF Missed, IsNewEcm
  <2> QED BY <1>1, <1>2, <2>2, <2>3, <2>4, LookedOn
<1>6. CASE pc' = "ECM_PROC_FAILURE"
  BY <1>6 DEF Looked
<1>7. CASE SearchEnds(at, TRUE)
  <2>1. pc' = "stage" /\ sbuf_offset' = 0
    BY <1>1, <1>3, <1>7, SearchEndsIs
  <2> QED BY <2>1 DEF Looked, Searched
<1>8. CASE /\ IsEcm(sbuf[at]) /\ ~EcmFound' /\ SearchGoesOn(at)
           /\ \E d \in Dec : d.phase # 0 /\ dec' = [dec EXCEPT ![sbuf[at].packet.pid] = d]
  <2>1. curr' = at /\ pc' = pc
    BY <1>1, <1>3, <1>8, SearchEndsIs
  <2>2. NextStage' = "ecm" /\ Searched' = at
    BY <1>1, <1>3, <1>8, <2>1 DEF NextStage, PmtFound, tables, Searched
  <2>3. sbuf[at].packet.pid \in EcmPid
    BY <1>8 DEF IsEcm, Alive
  <2>4. /\ dec'[sbuf[at].packet.pid].phase # 0
        /\ \A e \in EcmPid : e # sbuf[at].packet.pid => dec'[e] = dec[e]
    BY <1>3, <1>8, <2>3
  <2>5. ASSUME NEW i, Missed(i, "ecm")'
        PROVE  Missed(i, "ecm") /\ i # at
    <3>1. /\ IsEcm(sbuf[i]) /\ dec'[sbuf[i].packet.pid].last # sbuf[i].period
          /\ dec'[sbuf[i].packet.pid].phase = 0
      BY <1>1, <1>4, <2>5 DEF Missed, IsNewEcm
    <3>2. sbuf[i].packet.pid \in EcmPid
      BY <3>1 DEF IsEcm, Alive
    <3>3. sbuf[i].packet.pid # sbuf[at].packet.pid
      BY <2>4, <3>1
    <3>4. dec'[sbuf[i].packet.pid] = dec[sbuf[i].packet.pid]
      BY <2>4, <3>2, <3>3
    <3> QED BY <3>1, <3>3, <3>4 DEF Missed, IsNewEcm
  <2> QED BY <1>1, <2>2, <2>5, LookedOn
<1> QED BY <1>2, <1>5, <1>6, <1>7, <1>8

\* Steps that keep the tables and what has been searched.
LEMMA QuietLooked ==
  ASSUME Base, Looked, UNCHANGED <<tables, dec>>, Gone' = Gone,
         pc \in {"idle", "get", "stage", "pat", "pmt", "ecm"}, Searched' = Searched,
         \A i \in 1 .. Len(sbuf) : sbuf'[i] = sbuf[i],
         \A i \in 1 .. given : Near(i) => Near(i)'
  PROVE  Looked'
<1>1. NextStage' = NextStage
  BY DEF NextStage, PmtFound, EcmFound, Found, Alive, tables
<1>2. ASSUME NEW i \in 1 .. Len(sbuf)
      PROVE  Missed(i, NextStage)' <=> Missed(i, NextStage)
  BY <1>1, <1>2 DEF Missed, IsNewEcm, IsEcm, Alive, tables
<1>3. /\ Searched \in 0 .. Len(sbuf) /\ Len(sbuf) \in Nat
      /\ \A i \in 1 .. Len(sbuf) : Gone + i \in 1 .. given
  BY DEF Base, Shape, Searching, Searched, Failures, Gone
<1>4. ASSUME NEW i \in 1 .. Searched
      PROVE  Near(Gone + i) \/ ~Missed(i, NextStage)'
  <2>1. i \in 1 .. Len(sbuf)
    BY <1>3
  <2> QED BY <1>1, <1>2, <2>1 DEF Looked
<1>5. \A k \in 1 .. given : Near(k) => Near(k)'
  OBVIOUS
<1>6. ASSUME NEW i \in 1 .. Searched, NEW k \in 1 .. given, k = Gone + i
      PROVE  Near(k)' \/ ~Missed(i, NextStage)'
  BY <1>4, <1>5, <1>6
<1>7. \A i \in 1 .. Searched' :
        \A k \in 1 .. given : k = Gone' + i => Near(k)' \/ ~Missed(i, NextStage)'
  BY <1>6
<1>8. ASSUME NEW i \in 1 .. Searched'
      PROVE  Near(Gone + i)' \/ ~Missed(i, NextStage)'
  <2>1. Gone + i \in 1 .. given
    BY <1>3, <1>8
  <2>2. PICK k \in 1 .. given : k = Gone' + i
    BY <2>1
  <2>3. Near(k)' \/ ~Missed(i, NextStage)'
    BY <1>7, <2>2
  <2>4. Near(Gone + i)' <=> Near(k)'
    BY <2>2
  <2> QED BY <2>3, <2>4
<1> QED BY <1>8 DEF Looked

LEMMA LookedStep == Base /\ Looked /\ [Next]_vars => Looked'
<1> SUFFICES ASSUME Base, Looked, [Next]_vars PROVE Looked'
  OBVIOUS
<1>1. CASE Broadcast
  <2>1. /\ pc = "idle" /\ UNCHANGED <<given, sbuf, sbuf_offset, curr, pc, tables, dec>>
    BY <1>1 DEF Broadcast
  <2>2. PICK u : sent' = Append(sent, u)
    BY <1>1 DEF Broadcast
  <2>3. /\ DOMAIN sent = 1 .. Len(sent) /\ DOMAIN sent' = 1 .. Len(sent) + 1
        /\ \A i \in 1 .. Len(sent) : sent'[i] = sent[i]
        /\ Len(sent) \in Nat /\ given \in 0 .. Len(sent)
    BY <2>2 DEF Base, Shape
  <2>4. \A i \in 1 .. given : Near(i) => Near(i)'
    BY <2>3 DEF Near
  <2>5. Gone' = Gone /\ Searched' = Searched
    BY <2>1 DEF Gone, Searched
  <2> QED BY <2>1, <2>4, <2>5, QuietLooked
<1>2. CASE Put
  <2>1. /\ sbuf' = sbuf \o SubSeq(sent, given + 1, Len(sent)) /\ given' = Len(sent)
        /\ pc = "idle" /\ pc' = "stage" /\ UNCHANGED <<sent, sbuf_offset, tables, dec>>
        /\ given < Len(sent)
    BY <1>2 DEF Put
  <2>2. \A i \in given + 1 .. Len(sent) : sent[i] \in Unit
    BY <2>1, ElementOfSeq DEF Base, Shape
  <2>3. /\ SubSeq(sent, given + 1, Len(sent)) \in Seq(Unit) /\ sbuf \in Seq(Unit)
        /\ Len(SubSeq(sent, given + 1, Len(sent))) = Len(sent) - given
        /\ given \in Nat /\ Len(sent) \in Nat /\ Len(sbuf) \in Nat
    BY <2>1, <2>2, SubSeqProperties DEF Base, Shape
  <2>4. /\ Len(sbuf') = Len(sbuf) + (Len(sent) - given)
        /\ \A i \in 1 .. Len(sbuf) : sbuf'[i] = sbuf[i]
    BY <2>1, <2>3, ConcatProperties
  <2>5. Gone' = Gone /\ Searched' = Searched
    BY <2>1, <2>3, <2>4 DEF Gone, Searched
  <2> QED BY <2>1, <2>4, <2>5, QuietLooked DEF Near
<1>3. CASE Stage
  <2>1. /\ pc = "stage" /\ pc' = NextStage
        /\ UNCHANGED <<sent, given, sbuf, sbuf_offset, tables, dec>>
        /\ curr' = IF NextStage = "proc" THEN 0 ELSE sbuf_offset
        /\ NextStage \in {"pat", "pmt", "ecm", "proc"}
    BY <1>3 DEF Stage, NextStage
  <2>2. CASE NextStage = "proc"
    BY <2>1, <2>2 DEF Looked
  <2>3. CASE NextStage # "proc"
    BY <2>1, <2>3, QuietLooked DEF Gone, Searched, Near
  <2> QED BY <2>2, <2>3
<1>4. CASE SearchInVain
  <2>1. /\ pc \in {"pat", "pmt", "ecm"} /\ SearchEnds(curr, FALSE)
        /\ UNCHANGED <<sent, given, sbuf, tables, dec>>
    BY <1>4 DEF SearchInVain
  <2>2. curr \in 0 .. Len(sbuf)
    BY DEF Base, Shape
  <2>3. sbuf_offset' = curr /\ (pc' = "get" \/ pc' \in Failures)
    BY <2>1, <2>2, SearchEndsIs
  <2>4. CASE pc' \in Failures
    BY <2>4 DEF Looked, Failures
  <2>5. CASE pc' = "get"
    BY <2>1, <2>3, <2>5, QuietLooked DEF Gone, Searched, Near
  <2> QED BY <2>3, <2>4, <2>5
<1>5. CASE FindPat \/ FindPmt \/ FindEcm
  BY <1>5, FindPatLooked, FindPmtLooked, FindEcmLooked
<1>6. CASE Proc \/ ProcEnds
  <2>1. pc \in {"proc", "last"} /\ sbuf_offset' = sbuf_offset
    BY <1>6 DEF Proc, ProcEnds
  <2>2. pc' \in {pc, After} \cup Failures
    BY <1>6, <2>1, ProcIs DEF ProcEnds, CutAt, GoneOverAt, Failures
  <2>3. CASE pc = "proc" /\ pc' = "get"
    <3>1. Searched' = 0
      BY <2>1, <2>3 DEF Base, Searching, Searched
    <3> QED BY <3>1 DEF Looked
  <2>4. CASE pc' \in {"proc", "last", "flush"} \cup Failures
    BY <2>4 DEF Looked, Failures
  <2> QED BY <2>1, <2>2, <2>3, <2>4 DEF After
<1>7. CASE Get
  BY <1>7, QuietLooked DEF Get, Gone, Searched, Near
<1>8. CASE Broken
  BY <1>8, BrokenIs DEF Looked
<1>9. CASE Flush \/ FlushEnds
  BY <1>9 DEF Flush, FlushEnds, Looked
<1>10. CASE FlushPacket
  BY <1>10, FlushPacketIs DEF GoneOverAt, Looked
<1>11. CASE UNCHANGED vars
  <2>1. CASE pc \in {"idle", "get", "stage", "pat", "pmt", "ecm"}
    BY <1>11, <2>1, QuietLooked DEF vars, tables, Gone, Searched, Near
  <2>2. CASE pc \notin {"idle", "get", "stage", "pat", "pmt", "ecm"}
    BY <1>11, <2>2 DEF vars, Looked
  <2> QED BY <2>1, <2>2
<1> QED
  BY <1>1, <1>2, <1>3, <1>4, <1>5, <1>6, <1>7, <1>8, <1>9, <1>10, <1>11 DEF Next, Search, Done

\* The stream is not held back for a table that a search has passed over, and
\* none of the changes of the stage leaves the position of the search before
\* on (find_pat, find_pmt, find_ecm and sbuf_offset in put_arib_std_b1).
THEOREM NothingIsOverlooked == Spec => []NothingOverlooked
<1>1. Init => Looked
  BY DEF Init, Looked, Searched
<1>2. ASSUME Base, Looked PROVE NothingOverlooked
  <2>1. SUFFICES ASSUME pc = "idle",
                        NEW i \in {k \in 1 .. sbuf_offset : ~Excused(sbuf[k].pos)}
                 PROVE  ~Missed(i, NextStage)
    BY DEF NothingOverlooked, Missed
  <2>2. i \in 1 .. Len(sbuf)
    BY <1>2, <2>1 DEF Base, Shape, Searching, Failures
  <2>3. sbuf[i].pos = Gone + i
    BY <1>2, <2>2, UnitIs DEF Base
  <2>4. ~Near(Gone + i)
    BY <2>1, <2>3 DEF Near, Excused
  <2> QED BY <1>2, <2>1, <2>4 DEF Looked, Searched
<1> QED BY <1>1, <1>2, InitBase, BaseStep, LookedStep, PTL DEF Spec

-----------------------------------------------------------------------------
(* How full the buffer gets.                                               *)

\* Counting positions.
LEMMA SubCount ==
  ASSUME NEW n \in Nat, NEW T \in SUBSET (1 .. n), NEW S \in SUBSET T
  PROVE  /\ Cardinality(S) \in Nat /\ Cardinality(T) \in Nat
         /\ Cardinality(S) <= Cardinality(T)
         /\ \A x \in T \ S : Cardinality(S) + 1 <= Cardinality(T)
<1>1. IsFiniteSet(1 .. n)
  BY FS_Interval
<1>2. IsFiniteSet(T)
  BY <1>1, FS_Subset
<1>3. IsFiniteSet(S) /\ Cardinality(S) <= Cardinality(T)
  BY <1>2, FS_Subset
<1>4. Cardinality(S) \in Nat /\ Cardinality(T) \in Nat
  BY <1>2, <1>3, FS_CardinalityType
<1>5. ASSUME NEW x \in T \ S
      PROVE  Cardinality(S) + 1 <= Cardinality(T)
  <2>1. S \cup {x} \in SUBSET T /\ Cardinality(S \cup {x}) = Cardinality(S) + 1
    BY <1>3, FS_AddElement
  <2>2. Cardinality(S \cup {x}) <= Cardinality(T)
    BY <1>2, <2>1, FS_Subset
  <2> QED BY <2>1, <2>2
<1> QED BY <1>3, <1>4, <1>5

\* Room for blocks.
LEMMA Room ==
  ASSUME NEW m \in Nat, NEW a \in Nat, NEW b \in Nat, a <= b
  PROVE  m * a \in Nat /\ m * a <= m * b /\ m * (a + 1) = m * a + m
OBVIOUS

\* Of a clean stream a unit lacks its sync byte only where a broken packet is
\* being gone into.
LEMMA CleanSync ==
  ASSUME Base, Clean, pc \notin Failures, NEW k \in 1 .. Len(sbuf), k > curr + 1
  PROVE  Sync(k)
<1>1. SUFFICES ASSUME ~Sync(k) PROVE FALSE
  OBVIOUS
<1>2. curr \in Nat /\ k \in Nat
  BY DEF Base, Shape
<1> QED BY <1>1, <1>2, NoSync DEF Clean

\* What is left when no packet is found any more.
LEMMA AtNone ==
  ASSUME Base, Clean, pc \notin Failures, At = {}
  PROVE  \/ Len(sbuf) <= curr + 1
         \/ ~Sync(curr + 1) /\ Len(sbuf) <= curr + SyncRun
<1>1. curr \in Nat /\ Len(sbuf) \in Nat /\ SyncRun \in Nat /\ SyncRun > 1
  BY StreamAssumption DEF Base, Shape
<1>2. SUFFICES ASSUME Len(sbuf) > curr + 1
               PROVE  ~Sync(curr + 1) /\ Len(sbuf) <= curr + SyncRun
  BY <1>1
<1>3. \A k \in curr + 2 .. Len(sbuf) : Sync(k)
  BY <1>1, CleanSync
<1>4. ~Sync(curr + 1)
  <2>1. Sync(curr + 2)
    BY <1>1, <1>2, <1>3
  <2> QED BY <1>1, <1>2, <2>1 DEF At
<1>5. Len(sbuf) <= curr + SyncRun
  <2>1. SUFFICES ASSUME Len(sbuf) > curr + SyncRun PROVE FALSE
    BY <1>1
  <2>2. InRun(curr + 2)
    BY <1>1, <1>3, <2>1 DEF InRun
  <2>3. ~InRun(curr + 1)
    BY <1>1, <1>4 DEF InRun
  <2>4. /\ curr + 2 \in curr + 1 .. Len(sbuf)
        /\ \A j \in curr + 1 .. (curr + 2) - 1 : ~InRun(j)
    BY <1>1, <2>1, <2>3
  <2>5. curr + 2 \in {i \in curr + 1 .. Len(sbuf) :
                        InRun(i) /\ \A j \in curr + 1 .. i - 1 : ~InRun(j)}
    BY <2>2, <2>4
  <2> QED BY <1>1, <1>2, <1>4, <2>5 DEF At
<1> QED BY <1>4, <1>5

\* The packet at the head of the buffer is the next one.
LEMMA AtHead ==
  ASSUME Base, Clean, Passing, Again, NEW at \in At
  PROVE  at = 1 /\ sbuf[1].packet.kind = "pat"
<1>1. curr = 0 /\ sbuf[1].packet.kind = "pat" /\ sbuf # <<>> /\ pc \notin Failures
  BY DEF Again, Passing, Failures
<1>2. Len(sbuf) \in Nat /\ curr + 1 < Len(sbuf)
  BY DEF Base, Shape, At
<1>3. Sync(1)
  BY <1>1, <1>2 DEF Sync, Base, Shape
<1>4. Sync(2)
  BY <1>1, <1>2, CleanSync
<1> QED BY <1>1, <1>2, <1>3, <1>4 DEF At

LEMMA BlocksIs ==
  ASSUME Base
  PROVE  /\ Cuts \in SUBSET (1 .. Len(Emitted)) /\ Len(Emitted) \in Nat
         /\ Cardinality(Cuts) \in Nat /\ Blocks \in Nat
<1>1. Cuts \in SUBSET (1 .. Len(Emitted)) /\ Len(Emitted) \in Nat
  BY EmittedIs DEF Cuts
<1>2. Cardinality(Cuts) \in Nat
  BY <1>1, SubCount
<1> QED BY <1>1, <1>2 DEF Blocks

Limited == pc \notin {"last", "flush", "end"} \cup Failures

\* A step that adds no more to the buffer than a block for each new turn.
LEMMA BoundedKept ==
  ASSUME Base, Bounded, Clean, Limited, NEW n \in Nat, NEW d \in {0, 1},
         Blocks' = n, Blocks + d <= n, Len(sbuf') <= Len(sbuf) + MaxBlock * d,
         Len(sbuf') \in Nat
  PROVE  Bounded'
<1>1. Blocks \in Nat /\ MaxBlock \in Nat /\ MaxWait \in Nat /\ Len(sbuf) \in Nat
  BY BlocksIs, StreamAssumption DEF Base, Shape
<1>2. Len(sbuf) <= MaxWait + MaxBlock * Blocks
  BY DEF Bounded, Limited
<1>3. /\ MaxBlock * Blocks \in Nat /\ MaxBlock * n \in Nat
      /\ MaxBlock * Blocks + MaxBlock * d <= MaxBlock * n
  <2>1. CASE d = 0
    BY <1>1, <2>1, Room
  <2>2. CASE d = 1
    <3>1. /\ MaxBlock * (Blocks + 1) = MaxBlock * Blocks + MaxBlock
          /\ MaxBlock * (Blocks + 1) <= MaxBlock * n
      BY <1>1, <2>2, Room
    <3>2. MaxBlock * Blocks \in Nat /\ MaxBlock * n \in Nat
      BY <1>1, Room
    <3> QED BY <1>1, <2>2, <3>1, <3>2
  <2> QED BY <2>1, <2>2
<1>4. MaxBlock * d \in Nat
  BY <1>1
<1>5. Len(sbuf') <= MaxWait + MaxBlock * n
  BY <1>1, <1>2, <1>3, <1>4
<1> QED BY <1>5 DEF Bounded

\* A step after which the buffer is no longer than what a search wants.
LEMMA BoundedShort ==
  ASSUME NEW n \in Nat, Blocks' = n, Len(sbuf') \in Nat, Len(sbuf') <= MaxWait
  PROVE  Bounded'
<1>1. MaxBlock \in Nat /\ MaxWait \in Nat
  BY StreamAssumption
<1>2. MaxBlock * n \in Nat
  BY <1>1, Room
<1>3. Len(sbuf') <= MaxWait + MaxBlock * n
  BY <1>1, <1>2
<1> QED BY <1>3 DEF Bounded

\* Steps that emit nothing cut nothing.
LEMMA QuietCuts ==
  ASSUME Base, Emitted' = Emitted, Front' = Front
  PROVE  Cuts' = Cuts
BY DEF Cuts

\* A packet gone over takes no cut back.
LEMMA GoneOverCuts ==
  ASSUME Base, Reach, Clean, Passing, NEW at \in At, at \in 1 .. Len(sbuf), curr < at,
         Emit(sbuf[at]), GoneOverAt(at), UNCHANGED <<given, out>>, pc' = pc
  PROVE  Cuts \subseteq Cuts' /\ \E n \in Nat : Cuts' \subseteq 1 .. n
<1>1. /\ Gone \in Nat /\ curr \in Nat /\ at \in Nat /\ Front = Gone + curr
      /\ Front' = Gone + at /\ pc \notin Failures
  BY FrontIs DEF Base, Shape, Front, Gone, Passing, GoneOverAt, Failures
<1>2. /\ DOMAIN Emitted = 1 .. Len(Emitted) /\ Len(Emitted) \in Nat
      /\ \A k \in DOMAIN Emitted : Emitted[k].pos \in Nat
  BY EmittedIs
<1>3. ASSUME Len(Emitted) \in Cuts
      PROVE  at = 1 /\ sbuf[at].packet.kind = "pat" /\ Emitted[Len(Emitted)].pos = Gone + at
  <2>1. Len(Emitted) \in DOMAIN Emitted /\ ~(Emitted[Len(Emitted)].pos <= Front)
    BY <1>1, <1>2, <1>3 DEF Cuts
  <2>2. Again /\ Emitted[Len(Emitted)].pos = Front + 1
    BY <1>1, <2>1 DEF Reach
  <2>3. curr = 0
    BY <2>2 DEF Again
  <2> QED BY <1>1, <2>2, <2>3, AtHead
<1>4. CASE Stripped(sbuf[at]) /\ Emitted' = Emitted
  <2>1. Len(Emitted) \notin Cuts
    BY <1>3, <1>4 DEF Stripped
  <2>2. Cuts \subseteq Cuts'
    BY <1>2, <1>4, <2>1 DEF Cuts
  <2> QED BY <1>2, <1>4, <2>2 DEF Cuts
<1>5. CASE /\ ~Stripped(sbuf[at]) /\ Emitted' = Append(Emitted, ItemOf(sbuf[at]))
           /\ ItemOf(sbuf[at]) \in Item
  <2>1. /\ DOMAIN Emitted' = 1 .. Len(Emitted) + 1 /\ Len(Emitted') = Len(Emitted) + 1
        /\ \A k \in 1 .. Len(Emitted) : Emitted'[k] = Emitted[k]
        /\ Emitted'[Len(Emitted) + 1].pos = Gone + at
    BY <1>5, EmittedAppended
  <2>2. ASSUME NEW k \in Cuts PROVE k \in Cuts'
    <3>1. k \in 1 .. Len(Emitted) /\ k < Len(Emitted') /\ k \in DOMAIN Emitted'
      BY <1>2, <2>1 DEF Cuts
    <3>2. CASE k < Len(Emitted)
      <4>1. Emitted[k].pos = Emitted[k + 1].pos /\ k + 1 \in 1 .. Len(Emitted)
        BY <1>2, <3>1, <3>2 DEF Cuts
      <4>2. Emitted'[k].pos = Emitted'[k + 1].pos
        BY <2>1, <3>1, <4>1
      <4> QED BY <3>1, <4>2 DEF Cuts
    <3>3. CASE k = Len(Emitted)
      <4>1. Emitted'[k].pos = Emitted'[k + 1].pos
        BY <1>3, <2>1, <3>1, <3>3
      <4> QED BY <3>1, <4>1 DEF Cuts
    <3> QED BY <1>2, <3>1, <3>2, <3>3
  <2>3. Cuts' \subseteq 1 .. (Len(Emitted) + 1) /\ Len(Emitted) + 1 \in Nat
    BY <1>2, <2>1 DEF Cuts
  <2> QED BY <2>2, <2>3
<1> QED BY <1>4, <1>5, EmittedNext

\* A new PAT adds a cut.
LEMMA CutCuts ==
  ASSUME Base, Reach, Known, Clean, Passing, NEW at \in At, at \in 1 .. Len(sbuf), curr < at,
         Emit(sbuf[at]), CutAt(at), UNCHANGED <<sent, given, out>>
  PROVE  /\ Cuts \subseteq Cuts' /\ \E n \in Nat : Cuts' \subseteq 1 .. n
         /\ Cuts' \ Cuts # {}
<1>1. /\ Gone \in Nat /\ curr \in Nat /\ at \in Nat /\ Front = Gone + curr
      /\ at - 1 \in 0 .. Len(sbuf) /\ Drop(at - 1) /\ pc \notin Failures
  BY FrontIs DEF Base, Shape, Front, Passing, Failures, CutAt
<1>2. Front' = Gone + (at - 1)
  BY <1>1, DropIs
<1>3. /\ Emitted' = Append(Emitted, ItemOf(sbuf[at]))
      /\ ~Stripped(sbuf[at]) /\ ItemOf(sbuf[at]) \in Item
  BY <1>1, CutReach
<1>4. /\ DOMAIN Emitted' = 1 .. Len(Emitted) + 1 /\ Len(Emitted') = Len(Emitted) + 1
      /\ \A k \in 1 .. Len(Emitted) : Emitted'[k] = Emitted[k]
      /\ Emitted'[Len(Emitted) + 1].pos = Gone + at
  BY <1>3, EmittedAppended
<1>5. /\ DOMAIN Emitted = 1 .. Len(Emitted) /\ Len(Emitted) \in Nat
      /\ \A k \in DOMAIN Emitted : Emitted[k].pos \in Nat
  BY EmittedIs
<1>6. ASSUME Len(Emitted) \in Cuts
      PROVE  Emitted[Len(Emitted)].pos = Gone + at
  <2>1. Len(Emitted) \in DOMAIN Emitted /\ ~(Emitted[Len(Emitted)].pos <= Front)
    BY <1>1, <1>5, <1>6 DEF Cuts
  <2>2. Again /\ Emitted[Len(Emitted)].pos = Front + 1
    BY <1>1, <2>1 DEF Reach
  <2>3. curr = 0
    BY <2>2 DEF Again
  <2> QED BY <1>1, <2>2, <2>3, AtHead
<1>7. ASSUME NEW k \in Cuts PROVE k \in Cuts'
  <2>1. k \in 1 .. Len(Emitted) /\ k < Len(Emitted') /\ k \in DOMAIN Emitted'
    BY <1>4, <1>5 DEF Cuts
  <2>2. CASE k < Len(Emitted)
    <3>1. Emitted[k].pos = Emitted[k + 1].pos /\ k + 1 \in 1 .. Len(Emitted)
      BY <1>5, <2>1, <2>2 DEF Cuts
    <3>2. Emitted'[k].pos = Emitted'[k + 1].pos
      BY <1>4, <2>1, <3>1
    <3> QED BY <2>1, <3>2 DEF Cuts
  <2>3. CASE k = Len(Emitted)
    <3>1. Emitted'[k].pos = Emitted'[k + 1].pos
      BY <1>4, <1>6, <2>1, <2>3
    <3> QED BY <2>1, <3>1 DEF Cuts
  <2> QED BY <1>5, <2>1, <2>2, <2>3
<1>8. Len(Emitted) + 1 \in Cuts' \ Cuts
  <2>1. /\ Len(Emitted) + 1 \in DOMAIN Emitted' /\ Len(Emitted) + 1 \notin DOMAIN Emitted
        /\ ~(Len(Emitted) + 1 < Len(Emitted'))
    BY ONLY <1>4, <1>5
  <2>2. Emitted'[Len(Emitted) + 1].pos > Front'
    BY ONLY <1>1, <1>2, <1>4
  <2> QED BY <2>1, <2>2 DEF Cuts
<1>9. Cuts' \subseteq 1 .. (Len(Emitted) + 1) /\ Len(Emitted) + 1 \in Nat
  BY <1>4, <1>5 DEF Cuts
<1> QED BY <1>7, <1>8, <1>9

\* The searches.
LEMMA SearchBounded ==
  ASSUME Base, Bounded, Clean, Search
  PROVE  Bounded'
<1>1. /\ pc \in {"pat", "pmt", "ecm"} /\ Limited /\ UNCHANGED <<sent, given, sbuf, dbuf, out>>
      /\ Len(sbuf') = Len(sbuf) /\ Len(sbuf) \in Nat
  <2>1. pc \in {"pat", "pmt", "ecm"} /\ UNCHANGED <<sent, given, sbuf, dbuf, out>>
    BY DEF Search, SearchInVain, FindPat, FindPmt, FindEcm
  <2> QED BY <2>1 DEF Limited, Failures, Base, Shape
<1>2. Cuts' = Cuts
  BY QuietStep, QuietCuts
<1>3. Cardinality(Cuts) \in Nat
  BY BlocksIs
<1> DEFINE c == Cardinality(Cuts)
<1> HIDE DEF c
<1>4. Blocks = (IF pat = Null THEN 0 ELSE 1) + 1 + c /\ c \in Nat
  BY <1>1, <1>3 DEF Blocks, c
<1>5. Blocks' = (IF pat' = Null THEN 0 ELSE 1) + (IF pc' \in {"idle", "get"} THEN 0 ELSE 1) + c
  BY <1>2 DEF Blocks, c
<1>6. Blocks \in Nat /\ Blocks' \in Nat
  BY <1>4, <1>5
<1>7. ASSUME Blocks <= Blocks'
      PROVE  Bounded'
  <2>1. PICK n \in Nat : n = Blocks'
    BY <1>6
  <2>2. Blocks + 0 <= n /\ Len(sbuf') <= Len(sbuf) + MaxBlock * 0
    BY <1>1, <1>6, <1>7, <2>1, StreamAssumption
  <2> QED BY <1>1, <2>1, <2>2, BoundedKept
<1>8. CASE pc' \in Failures
  BY <1>8 DEF Bounded
<1>9. CASE SearchInVain
  <2>1. /\ SearchEnds(curr, FALSE) /\ At = {} /\ UNCHANGED tables
        /\ curr \in 0 .. Len(sbuf)
    BY <1>9 DEF SearchInVain, Base, Shape
  <2>2. (pc' = "get" /\ curr < MaxWait) \/ pc' \in Failures
    BY <1>1, <2>1, SearchEndsIs
  <2>3. CASE curr < MaxWait
    <3>1. \/ Len(sbuf) <= curr + 1
          \/ ~Sync(curr + 1) /\ Len(sbuf) <= curr + SyncRun /\ curr + 1 \in 1 .. Len(sbuf)
      <4>1. pc \notin Failures
        BY <1>1 DEF Failures
      <4> QED BY <1>1, <2>1, <4>1, AtNone
    <3>2. ASSUME ~Sync(curr + 1), curr + 1 \in 1 .. Len(sbuf)
          PROVE  curr = 0
      <4>1. sbuf[curr + 1].packet.kind = "junk" /\ pc \notin Failures
        BY <1>1, <3>2 DEF Sync, Base, Shape, Failures
      <4>2. /\ Gone \in Nat /\ Front = Gone /\ curr \in Nat
            /\ Gone + (curr + 1) \in DOMAIN sent
        BY <1>1, <3>2, UnitIs DEF Base, Shape, Front, Passing
      <4>3. sent[Gone + (curr + 1)].packet.kind # "junk"
        BY <4>2 DEF Clean
      <4>4. Gone + (curr + 1) <= Front + 1
        BY <3>2, <4>1, <4>3 DEF Base, Buffer, Source
      <4> QED BY <4>2, <4>4
    <3>3. Len(sbuf) <= MaxWait
      BY <1>1, <2>1, <2>3, <3>1, <3>2, StreamAssumption
    <3>4. PICK n \in Nat : n = Blocks'
      BY <1>6
    <3> QED BY <1>1, <3>3, <3>4, BoundedShort
  <2> QED BY <1>8, <2>2, <2>3
<1>10. CASE FindPat
  <2>1. PICK at \in At :
          IF IsNewPat(sbuf[at])
          THEN NewPat(sbuf[at].packet.programs) /\ SearchEnds(at, pat' # {})
          ELSE SearchGoesOn(at) /\ UNCHANGED <<tables, dec>>
    BY <1>10 DEF FindPat
  <2>2. at \in 1 .. Len(sbuf) /\ at \in 0 .. Len(sbuf) /\ pat \in {Null, {}}
    BY <1>1, <1>10, AtIs DEF FindPat, Base, Shape, Searching, NextStage
  <2>3. CASE IsNewPat(sbuf[at])
    <3>1. pat' # Null /\ pat' = sbuf[at].packet.programs /\ pat # pat'
      <4>1. sbuf[at].packet \in Packet
        BY <2>2, UnitIs DEF Base, Unit
      <4> QED BY <2>1, <2>3, <4>1, PacketParts, StreamAssumption DEF IsNewPat, NewPat
    <3>2. CASE pat' = {}
      <4>1. pat = Null
        BY <2>2, <3>1, <3>2
      <4> QED BY <1>4, <1>5, <1>7, <3>1, <4>1
    <3>3. CASE pat' # {}
      <4>1. pc' = "stage"
        BY <1>1, <2>1, <2>2, <2>3, <3>3, SearchEndsIs
      <4> QED BY <1>4, <1>5, <1>7, <3>1, <4>1
    <3> QED BY <3>2, <3>3
  <2>4. CASE ~IsNewPat(sbuf[at])
    <3>1. pc' = pc /\ pat' = pat
      BY <1>1, <2>1, <2>2, <2>4, SearchEndsIs DEF tables
    <3> QED BY <1>1, <1>4, <1>5, <1>7, <3>1
  <2> QED BY <2>3, <2>4
<1>11. CASE FindPmt
  <2>1. pat' = pat /\ \E at \in At : SearchEnds(at, TRUE) \/ SearchGoesOn(at)
    BY <1>11 DEF FindPmt, tables
  <2>2. pc' \in {pc, "stage"}
    BY <1>1, <2>1 DEF SearchEnds, SearchGoesOn
  <2> QED BY <1>1, <1>4, <1>5, <1>7, <2>1, <2>2
<1>12. CASE FindEcm
  <2>1. pat' = pat /\ \E at \in At : SearchEnds(at, TRUE) \/ SearchGoesOn(at) \/ pc' \in Failures
    BY <1>12, FindEcmIs DEF tables, Failures
  <2>2. pc' \in {pc, "stage"} \cup Failures
    BY <1>1, <2>1 DEF SearchEnds, SearchGoesOn
  <2> QED BY <1>1, <1>4, <1>5, <1>7, <1>8, <2>1, <2>2
<1> QED BY <1>9, <1>10, <1>11, <1>12 DEF Search

LEMMA BoundedStep == Base /\ Reach /\ Known /\ Bounded /\ [Next]_vars => Bounded'
<1> SUFFICES ASSUME Base, Reach, Known, Bounded, [Next]_vars PROVE Bounded'
  OBVIOUS
<1>1. Clean' => Clean
  <2>1. sent' = sent \/ \E u : sent' = Append(sent, u)
    BY QuietStep, ProcIs, FlushPacketIs, BrokenIs DEF Next, Broadcast, FlushEnds, Done, vars
  <2>2. ASSUME NEW u, sent' = Append(sent, u), NEW i \in DOMAIN sent
        PROVE  i \in DOMAIN sent' /\ sent'[i] = sent[i]
    BY <2>2 DEF Base, Shape
  <2> QED BY <2>1, <2>2 DEF Clean
<1>2. SUFFICES ASSUME Clean, Limited, Limited' PROVE Bounded'
  <2>1. ~Limited => ~Limited'
    <3>1. pc \in {"last", "flush", "end"} \cup Failures
           => pc' \in {"last", "flush", "end"} \cup Failures
      BY ProcIs, FlushPacketIs, BrokenIs
         DEF Next, Broadcast, Put, Stage, Search, SearchInVain, FindPat, FindPmt, FindEcm,
             ProcEnds, Get, Flush, FlushEnds, Done, vars, After, CutAt, GoneOverAt, Failures
    <3> QED BY <3>1 DEF Limited
  <2> QED BY <1>1, <2>1 DEF Bounded, Limited
<1>3. /\ Blocks \in Nat /\ Cardinality(Cuts) \in Nat /\ Len(sbuf) \in Nat
      /\ Cuts \in SUBSET (1 .. Len(Emitted)) /\ Len(Emitted) \in Nat
      /\ MaxBlock \in Nat /\ MaxWait \in Nat
  BY BlocksIs, StreamAssumption DEF Base, Shape
<1>4. ASSUME Blocks' = Blocks, Len(sbuf') = Len(sbuf)
      PROVE  Bounded'
  <2>1. PICK n \in Nat : n = Blocks'
    BY <1>3, <1>4
  <2>2. Blocks + 0 <= n /\ Len(sbuf') <= Len(sbuf) + MaxBlock * 0
    BY <1>3, <1>4, <2>1
  <2> QED BY <1>2, <1>3, <1>4, <2>1, <2>2, BoundedKept
<1>5. CASE Broadcast \/ UNCHANGED vars
  <2>1. UNCHANGED <<given, sbuf, dbuf, out, curr, pc, pat>>
    BY <1>5 DEF Broadcast, vars, tables
  <2> QED BY <1>4, <2>1 DEF Blocks, Cuts, Emitted, Front, Gone, Passing
<1>6. CASE Put
  <2>1. /\ sbuf' = sbuf \o SubSeq(sent, given + 1, Len(sent))
        /\ pc = "idle" /\ pc' = "stage" /\ pat' = pat /\ given < Len(sent)
    BY <1>6 DEF Put, tables
  <2>2. \A i \in given + 1 .. Len(sent) : sent[i] \in Unit
    BY <2>1, ElementOfSeq DEF Base, Shape
  <2>3. /\ SubSeq(sent, given + 1, Len(sent)) \in Seq(Unit) /\ sbuf \in Seq(Unit)
        /\ Len(SubSeq(sent, given + 1, Len(sent))) = Len(sent) - given
        /\ given \in Nat /\ Len(sent) \in Nat /\ Len(sent) <= given + MaxBlock
    BY <2>1, <2>2, SubSeqProperties DEF Base, Shape, Record
  <2>4. Len(sbuf') = Len(sbuf) + (Len(sent) - given)
    BY <2>1, <2>3, ConcatProperties
  <2>5. Cuts' = Cuts
    BY <1>6, QuietStep, QuietCuts
  <2>6. Blocks' = Blocks + 1
    BY <1>3, <2>1, <2>5 DEF Blocks
  <2>7. PICK n \in Nat : n = Blocks'
    BY <1>3, <2>6
  <2>8. Blocks + 1 <= n /\ Len(sbuf') <= Len(sbuf) + MaxBlock * 1 /\ Len(sbuf') \in Nat
    BY <1>3, <2>1, <2>3, <2>4, <2>6, <2>7
  <2> QED BY <1>2, <2>7, <2>8, BoundedKept
<1>7. CASE Stage
  <2>1. /\ UNCHANGED <<sbuf, pat>> /\ pc \notin {"idle", "get"} /\ pc' \notin {"idle", "get"}
    BY <1>7 DEF Stage, NextStage, tables
  <2>2. Cuts' = Cuts
    BY <1>7, QuietStep, QuietCuts
  <2> QED BY <1>4, <2>1, <2>2 DEF Blocks
<1>8. CASE Search
  BY <1>2, <1>8, SearchBounded
<1>9. CASE Proc
  <2>1. /\ pc = "proc" /\ UNCHANGED <<sent, given, sbuf_offset, out>> /\ Passing /\ pat # Null
    BY <1>2, <1>9, ProcIs DEF Limited, Passing, Base, Searching
  <2>2. PICK at \in At :
          /\ at \in 1 .. Len(sbuf) /\ curr < at
          /\ sbuf[at].packet.kind # "broken" /\ Emit(sbuf[at])
          /\ CutAt(at) \/ (GoneOverAt(at) /\ pat' = pat)
    BY <1>9, ProcIs
  <2> DEFINE c == Cardinality(Cuts)
  <2> HIDE DEF c
  <2>3. CASE GoneOverAt(at) /\ pat' = pat
    <3>1. pc' = pc /\ sbuf' = sbuf
      BY <1>2, <2>3 DEF GoneOverAt, Limited, Failures
    <3>2. Cuts \subseteq Cuts' /\ \E n \in Nat : Cuts' \subseteq 1 .. n
      BY <1>2, <2>1, <2>2, <2>3, <3>1, GoneOverCuts
    <3>3. Cardinality(Cuts') \in Nat /\ Cardinality(Cuts) <= Cardinality(Cuts')
      BY <3>2, SubCount
    <3>4. Blocks' \in Nat /\ Blocks <= Blocks'
      BY <1>3, <2>1, <2>3, <3>1, <3>3 DEF Blocks
    <3>5. PICK n \in Nat : n = Blocks'
      BY <3>4
    <3>6. Blocks + 0 <= n /\ Len(sbuf') <= Len(sbuf) + MaxBlock * 0
      BY <1>3, <3>1, <3>4, <3>5
    <3> QED BY <1>2, <1>3, <3>1, <3>5, <3>6, BoundedKept
  <2>4. CASE CutAt(at)
    <3>1. /\ at - 1 \in 0 .. Len(sbuf) /\ Drop(at - 1) /\ pc' = "get"
          /\ pat' = sbuf[at].packet.programs /\ sbuf[at].packet.kind = "pat"
      BY <2>1, <2>2, <2>4 DEF CutAt, After, Base, Shape
    <3>2. Len(sbuf') = Len(sbuf) - (at - 1)
      BY <2>1, <3>1, DropIs
    <3>3. /\ Cuts \subseteq Cuts' /\ \E n \in Nat : Cuts' \subseteq 1 .. n
          /\ Cuts' \ Cuts # {}
      BY <1>2, <2>1, <2>2, <2>4, CutCuts
    <3>4. Cardinality(Cuts') \in Nat /\ Cardinality(Cuts) + 1 <= Cardinality(Cuts')
      BY <3>3, SubCount
    <3>5. pat' # Null
      <4>1. sbuf[at].packet \in Packet
        BY <2>2, UnitIs DEF Base, Unit
      <4> QED BY <3>1, <4>1, PacketParts, StreamAssumption
    <3>6. Blocks' \in Nat /\ Blocks <= Blocks'
      BY <1>3, <2>1, <3>1, <3>4, <3>5 DEF Blocks
    <3>7. PICK n \in Nat : n = Blocks'
      BY <3>6
    <3>8. /\ Blocks + 0 <= n /\ Len(sbuf') <= Len(sbuf) + MaxBlock * 0
          /\ Len(sbuf') \in Nat
      BY <1>3, <3>1, <3>2, <3>6, <3>7
    <3> QED BY <1>2, <3>7, <3>8, BoundedKept
  <2> QED BY <2>2, <2>3, <2>4
<1>10. CASE Broken
  <2>1. /\ pc \in {"proc", "last", "flush"} /\ UNCHANGED <<sent, given, dbuf, out, pc, pat>>
        /\ pc \notin Failures /\ Passing /\ pc # "flush"
    BY <1>2, <1>10, BrokenIs DEF Failures, Passing, tables, Limited
  <2>2. PICK at \in At :
          /\ at \in 1 .. Len(sbuf) /\ curr < at /\ sbuf[at].packet.kind = "broken"
          /\ sbuf' = [sbuf EXCEPT ![at] = Junked(@)] /\ curr' = at - 1
    BY <1>10, <2>1, BrokenIs
  <2>3. Len(sbuf') = Len(sbuf)
    BY <2>2 DEF Base, Shape
  <2>4. /\ Gone \in Nat /\ curr \in Nat /\ at \in Nat /\ Front = Gone + curr
        /\ Front' = Gone + (at - 1)
    BY <2>1, <2>2, <2>3, FrontIs DEF Base, Shape, Front, Gone, Passing
  <2>5. ~Again
    BY <1>2, <2>1, <2>2, AtHead
  <2>6. Emitted' = Emitted
    BY <2>1 DEF Emitted
  <2>7. \A k \in DOMAIN Emitted : Emitted[k].pos \in Nat /\ Emitted[k].pos <= Front
    BY <2>1, <2>5, EmittedIs DEF Reach
  <2>8. \A k \in DOMAIN Emitted : ~(Emitted[k].pos > Front) /\ ~(Emitted[k].pos > Front')
    BY <2>2, <2>4, <2>7
  <2>9. Cuts' = Cuts
    BY <2>6, <2>8 DEF Cuts
  <2> QED BY <1>4, <2>1, <2>3, <2>9 DEF Blocks
<1>11. CASE ProcEnds
  <2>1. /\ pc = "proc" /\ pc' = "get" /\ Drop(curr) /\ At = {} /\ UNCHANGED <<sent, given>>
        /\ curr \in 0 .. Len(sbuf) /\ pc \notin Failures
    BY <1>2, <1>11 DEF ProcEnds, After, Limited, Base, Shape, Failures
  <2>2. Len(sbuf') = Len(sbuf) - curr
    BY <2>1, DropIs
  <2>3. Len(sbuf) <= curr + 1 \/ Len(sbuf) <= curr + SyncRun
    BY <1>2, <2>1, AtNone
  <2>4. Len(sbuf') \in Nat /\ Len(sbuf') <= MaxWait
    BY <1>3, <2>1, <2>2, <2>3, StreamAssumption
  <2>5. Cuts' = Cuts
    BY <1>11, QuietStep, QuietCuts
  <2>6. Blocks' \in Nat
    BY <1>3, <2>5 DEF Blocks
  <2>7. PICK n \in Nat : n = Blocks'
    BY <2>6
  <2> QED BY <2>4, <2>7, BoundedShort
<1>12. CASE Get
  <2>1. UNCHANGED <<sbuf, pat>> /\ pc = "get" /\ pc' = "idle"
    BY <1>12 DEF Get, tables
  <2>2. Cuts' = Cuts
    BY <1>12, QuietStep, QuietCuts
  <2> QED BY <1>4, <2>1, <2>2 DEF Blocks
<1>13. CASE Flush \/ FlushPacket \/ FlushEnds
  BY <1>2, <1>13, FlushPacketIs DEF Flush, FlushEnds, Limited
<1> QED BY <1>5, <1>6, <1>7, <1>8, <1>9, <1>10, <1>11, <1>12, <1>13 DEF Next, Done

\* Of a stream without junk, the limit of the search is kept but for a block
\* each time a PAT ends a call in mid-buffer (put_arib_std_b1 at 756-805,
\* proc_arib_std_b1 at 1915).
THEOREM LimitKept == Spec => []SbufLimit
<1>1. Init => Bounded
  <2>1. SUFFICES ASSUME Init PROVE Bounded
    OBVIOUS
  <2>2. Blocks \in Nat /\ Len(sbuf) = 0
    BY <2>1, InitBase, BlocksIs DEF Init
  <2>3. MaxBlock * Blocks \in Nat
    BY <2>2, Room, StreamAssumption
  <2> QED BY <2>2, <2>3, StreamAssumption DEF Bounded
<1>2. ASSUME Base, Bounded PROVE SbufLimit
  <2>1. SUFFICES ASSUME pc = "idle", Clean
                 PROVE  Len(sbuf) <= MaxWait + MaxBlock * (1 + Cardinality(StartedOver))
    BY DEF SbufLimit, Clean
  <2>2. Front = given - Len(sbuf)
    BY <1>2, <2>1 DEF Front, Gone, Passing, Base, Shape
  <2>3. StartedOver = Cuts
    BY <2>2 DEF StartedOver, Cuts
  <2>4. Blocks \in Nat /\ Cardinality(Cuts) \in Nat /\ Len(sbuf) \in Nat
    BY <1>2, BlocksIs DEF Base, Shape
  <2>5. 1 + Cardinality(Cuts) \in Nat /\ Blocks <= 1 + Cardinality(Cuts)
    BY <2>1, <2>4 DEF Blocks
  <2>6. /\ MaxBlock * Blocks <= MaxBlock * (1 + Cardinality(Cuts))
        /\ MaxBlock * Blocks \in Nat /\ MaxBlock * (1 + Cardinality(Cuts)) \in Nat
    BY <2>4, <2>5, Room, StreamAssumption
  <2>7. Len(sbuf) <= MaxWait + MaxBlock * Blocks
    BY <1>2, <2>1 DEF Bounded, Failures
  <2>8. Len(sbuf) <= MaxWait + MaxBlock * (1 + Cardinality(Cuts))
    BY <2>4, <2>6, <2>7, StreamAssumption
  <2> QED BY <2>3, <2>8
<1> QED BY <1>1, <1>2, InitBase, BaseStep, InitReach, ReachStep, BoundedStep, PTL DEF Spec

-----------------------------------------------------------------------------
(* What has come out, and the stream it came from.                         *)

LEMMA MaxIs ==
  ASSUME NEW n \in Nat, NEW S, S \subseteq 0 .. n, S # {}
  PROVE  Max(S) \in S /\ \A y \in S : y <= Max(S)
<1> DEFINE T == {n - x : x \in S}
<1>1. T \subseteq Nat /\ T # {}
  <2>1. \A x \in S : x \in 0 .. n /\ n - x \in Nat
    OBVIOUS
  <2> QED BY <2>1
<1> HIDE DEF T
<1>2. PICK m \in T : \A y \in T : ~ (<<y, m>> \in OpToRel(<, Nat))
  BY <1>1, NatLessThanWellFounded, WFMin
<1>3. PICK x \in S : m = n - x
  BY DEF T
<1>4. ASSUME NEW y \in S PROVE x >= y
  <2>1. SUFFICES ASSUME ~(x >= y) PROVE FALSE
    OBVIOUS
  <2>2. n - y \in T /\ n - y \in Nat /\ m \in Nat /\ n - y < m
    BY <1>1, <1>3, <2>1 DEF T
  <2>3. <<n - y, m>> \in OpToRel(<, Nat)
    BY <2>2 DEF OpToRel
  <2> QED BY <1>2, <2>2, <2>3
<1>5. \A y \in S : Max(S) >= y /\ Max(S) \in S
  BY <1>4 DEF Max
<1> QED BY <1>5

\* The unit of an emitted packet.
UnitOf(k) == sent[Emitted[k].pos]
Sourced ==
  \A k \in DOMAIN Emitted :
    Emitted[k].pos \in 1 .. given /\ Emitted[k].kind = UnitOf(k).packet.kind

\* A packet that has its sync byte is as it was broadcast.
LEMMA SyncIs ==
  ASSUME Base, NEW at \in 1 .. Len(sbuf), Sync(at)
  PROVE  /\ sbuf[at] = sent[Gone + at] /\ Gone + at \in 1 .. given /\ given <= Len(sent)
         /\ sbuf[at] \in Unit /\ sbuf[at].pos = Gone + at /\ sbuf[at].packet \in Kinds
<1>1. sbuf[at].packet.kind # "junk"
  BY DEF Sync
<1>2. /\ Gone + at \in 1 .. given /\ given <= Len(sent) /\ Source(at) \in Unit
      /\ sbuf[at] \in Unit /\ sbuf[at].pos = Gone + at
      /\ sbuf[at].packet \in Kinds \/ sbuf[at].packet.kind = "junk"
  BY UnitIs DEF Base
<1>3. sbuf[at] # Junked(Source(at))
  BY <1>1, <1>2, JunkedIs
<1> QED BY <1>1, <1>2, <1>3 DEF Base, Buffer, Source

LEMMA SourcedEmission ==
  ASSUME Base, Sourced, NEW at \in 1 .. Len(sbuf), Sync(at), Emit(sbuf[at]),
         UNCHANGED <<sent, given, out>>
  PROVE  /\ Sourced'
         /\ \A k \in DOMAIN Emitted :
              k \in DOMAIN Emitted' /\ Emitted'[k] = Emitted[k] /\ UnitOf(k)' = UnitOf(k)
         /\ \/ Stripped(sbuf[at]) /\ Emitted' = Emitted
            \/ /\ DOMAIN Emitted' = 1 .. Len(Emitted) + 1 /\ Len(Emitted') = Len(Emitted) + 1
               /\ \A k : k = Len(Emitted) + 1 =>
                    /\ Emitted'[k] = ItemOf(sbuf[at]) /\ UnitOf(k)' = sbuf[at]
                    /\ Emitted'[k].kind = sbuf[at].packet.kind
<1>0. PICK n : n = Len(Emitted) + 1
  OBVIOUS
<1>1. DOMAIN Emitted = 1 .. Len(Emitted) /\ Len(Emitted) \in Nat /\ Emitted \in Seq(Item)
  BY EmittedIs
<1>2. sbuf[at] = sent[Gone + at] /\ Gone + at \in 1 .. given
  BY SyncIs
<1>3. CASE Stripped(sbuf[at]) /\ Emitted' = Emitted
  BY <1>3 DEF Sourced, UnitOf
<1>4. CASE /\ ~Stripped(sbuf[at]) /\ Emitted' = Append(Emitted, ItemOf(sbuf[at]))
           /\ ItemOf(sbuf[at]) \in Item
  <2>1. /\ Len(Emitted') = n /\ DOMAIN Emitted' = 1 .. n
        /\ \A k \in 1 .. Len(Emitted) : Emitted'[k] = Emitted[k]
        /\ Emitted'[n].pos = Gone + at /\ Emitted'[n].kind = sbuf[at].packet.kind
    BY <1>0, <1>4, EmittedAppended
  <2>2. Emitted'[n] = ItemOf(sbuf[at])
    BY <1>0, <1>1, <1>4, AppendProperties
  <2>3. UnitOf(n)' = sbuf[at]
    BY <1>2, <2>1 DEF UnitOf
  <2>4. \A k \in DOMAIN Emitted :
          k \in DOMAIN Emitted' /\ Emitted'[k] = Emitted[k] /\ UnitOf(k)' = UnitOf(k)
    BY <1>0, <1>1, <2>1 DEF UnitOf
  <2>5. ASSUME NEW k \in DOMAIN Emitted'
        PROVE  Emitted'[k].pos \in 1 .. given /\ Emitted'[k].kind = UnitOf(k)'.packet.kind
    <3>1. CASE k = n
      BY <1>2, <2>1, <2>3, <3>1
    <3>2. CASE k \in DOMAIN Emitted
      BY <2>4, <3>2 DEF Sourced
    <3> QED BY <1>0, <1>1, <2>1, <3>1, <3>2
  <2>6. Sourced'
    BY <2>5 DEF Sourced
  <2> QED BY <1>0, <2>1, <2>2, <2>3, <2>4, <2>6
<1> QED BY <1>3, <1>4, EmittedNext

LEMMA SourcedQuiet ==
  ASSUME Base, Sourced, Emitted' = Emitted, given' >= given, given' \in Nat,
         sent' = sent \/ \E u \in Unit : sent' = Append(sent, u)
  PROVE  Sourced' /\ \A k \in DOMAIN Emitted : UnitOf(k)' = UnitOf(k)
<1>1. sent \in Seq(Unit) /\ Len(sent) \in Nat /\ given \in Nat /\ given <= Len(sent)
  BY DEF Base, Shape
<1>2. \A i \in 1 .. given : sent'[i] = sent[i]
  BY <1>1, AppendProperties
<1>3. \A k \in DOMAIN Emitted : Emitted[k].pos \in 1 .. given
  BY DEF Sourced
<1>4. \A k \in DOMAIN Emitted : UnitOf(k)' = UnitOf(k)
  BY <1>2, <1>3 DEF UnitOf
<1> QED BY <1>1, <1>3, <1>4 DEF Sourced

\* Which steps emit nothing.
LEMMA QuietIs ==
  ASSUME Base, Broadcast \/ Put \/ Stage \/ Search \/ Broken \/ ProcEnds \/ Get \/ Flush
                 \/ FlushEnds \/ UNCHANGED vars
  PROVE  /\ Emitted' = Emitted /\ given' >= given /\ given' \in Nat
         /\ sent' = sent \/ \E u \in Unit : sent' = Append(sent, u)
<1>1. given \in Nat /\ Len(sent) \in Nat /\ given <= Len(sent)
  BY DEF Base, Shape
<1>2. CASE Put
  BY <1>1, <1>2, QuietStep DEF Put
<1>3. CASE Stage \/ ProcEnds \/ Get \/ Flush
  BY <1>1, <1>3, QuietStep DEF Stage, ProcEnds, Get, Flush
<1>4. CASE Search
  <2>1. given' = given
    BY <1>4 DEF Search, SearchInVain, FindPat, FindPmt, FindEcm
  <2> QED BY <1>1, <1>4, <2>1, QuietStep
<1>5. CASE Broken
  BY <1>1, <1>5, BrokenIs DEF Emitted
<1>6. CASE FlushEnds
  BY <1>1, <1>6, EmittedHandedOver DEF FlushEnds
<1>7. CASE UNCHANGED vars
  BY <1>1, <1>7 DEF vars, Emitted
<1>8. CASE Broadcast
  <2>1. UNCHANGED <<given, out, dbuf>>
    BY <1>8 DEF Broadcast
  <2>2. PICK packet \in Kinds, damaged \in BOOLEAN :
          sent' = Append(sent, [packet |-> packet, pos |-> Len(sent) + 1,
                               damaged |-> damaged,
                               period |-> IF Turns(packet) THEN Period + 1 ELSE Period])
    BY <1>8 DEF Broadcast
  <2>3. packet \in Packet /\ Period \in Nat
    BY StreamAssumption, PeriodIs DEF Base
  <2>4. [packet |-> packet, pos |-> Len(sent) + 1, damaged |-> damaged,
         period |-> IF Turns(packet) THEN Period + 1 ELSE Period] \in Unit
    BY <1>1, <2>3 DEF Unit
  <2> QED BY <1>1, <2>1, <2>2, <2>4 DEF Emitted
<1> QED BY <1>2, <1>3, <1>4, <1>5, <1>6, <1>7, <1>8

\* What a packet of a pass does to tables and decryptors.
Reads(u) ==
  \/ /\ ~u.damaged /\ u.packet.kind = "pat" /\ NewPat(u.packet.programs)
     /\ pc' = IF pc = "flush" THEN pc ELSE After
  \/ /\ ~u.damaged /\ IsPmt(u) /\ NewPmt(u.packet.program, u.packet.ecm)
     /\ UNCHANGED <<pat, phase, pc>>
  \/ /\ ~u.damaged /\ IsNewEcm(u) /\ UNCHANGED tables
     /\ \E o \in EcmOutcomes(dec[u.packet.pid], u) :
          /\ dec' = [dec EXCEPT ![u.packet.pid] = o.dec]
          /\ pc' = IF o.ok THEN pc ELSE "ECM_PROC_FAILURE"
  \/ PassesBy(u) /\ UNCHANGED <<tables, dec, pc>>

\* Which of the tables a packet agrees with.
Agrees(u) ==
  /\ u.packet.kind = "pat" => pat = u.packet.programs
  /\ u.packet.kind = "pmt" /\ pat # Null /\ u.packet.program \in pat
       => pmt[u.packet.program] = u.packet.ecm

LEMMA ReadsTables ==
  ASSUME NEW u, Reads(u)
  PROVE  \/ ~u.damaged /\ u.packet.kind = "pat" /\ NewPat(u.packet.programs)
         \/ /\ ~u.damaged /\ u.packet.kind = "pmt" /\ NewPmt(u.packet.program, u.packet.ecm)
            /\ UNCHANGED <<pat, phase>>
         \/ UNCHANGED tables /\ (u.damaged \/ Agrees(u))
<1>1. CASE PassesBy(u) /\ UNCHANGED tables
  BY <1>1 DEF PassesBy, Agrees, IsNewPmt, IsPmt, IsNewPat
<1>2. CASE IsNewEcm(u) /\ UNCHANGED tables
  BY <1>2 DEF IsNewEcm, IsEcm, Agrees
<1> QED BY <1>1, <1>2 DEF Reads, IsPmt

LEMMA PassIs ==
  ASSUME Base, Proc \/ FlushPacket
  PROVE  /\ Passing /\ UNCHANGED <<sent, given, out>>
         /\ \E at \in IF pc = "flush" THEN FlushAt ELSE At :
              /\ at \in 1 .. Len(sbuf) /\ curr < at /\ Sync(at)
              /\ Emit(sbuf[at]) /\ Reads(sbuf[at])
              /\ \/ GoneOverAt(at) /\ (pc # "flush" => pat' = pat)
                 \/ CutAt(at) /\ pc # "flush"
<1>1. CASE Proc
  <2>1. /\ Passing /\ UNCHANGED <<sent, given, out>> /\ pc # "flush"
    BY <1>1 DEF Proc, Passing
  <2>2. PICK at \in At :
          IF IsNewPat(sbuf[at]) /\ ~PassesBy(sbuf[at])
          THEN Process(at, pc' = After /\ Drop(at - 1))
          ELSE Process(at, FALSE) /\ UNCHANGED sbuf
    BY <1>1 DEF Proc
  <2>3. at \in 1 .. Len(sbuf) /\ curr < at /\ Sync(at)
    BY AtIs DEF Base
  <2>4. CASE IsNewPat(sbuf[at]) /\ ~PassesBy(sbuf[at])
    <3>1. ~IsNewEcm(sbuf[at]) /\ ~IsNewPmt(sbuf[at])
      BY <2>4 DEF IsNewPat, IsNewEcm, IsNewPmt, IsEcm, IsPmt
    <3>2. Emit(sbuf[at]) /\ NewPat(sbuf[at].packet.programs) /\ pc' = After /\ Drop(at - 1)
      BY <2>2, <2>4, <3>1 DEF Process
    <3>3. CutAt(at) /\ Reads(sbuf[at])
      BY <2>1, <2>4, <3>2 DEF CutAt, Reads, NewPat, IsNewPat, PassesBy
    <3> QED BY <2>1, <2>3, <3>2, <3>3
  <2>5. CASE ~(IsNewPat(sbuf[at]) /\ ~PassesBy(sbuf[at]))
    <3>1. Process(at, FALSE) /\ UNCHANGED sbuf
      BY <2>2, <2>5
    <3>2. Emit(sbuf[at]) /\ Reads(sbuf[at])
      BY <3>1 DEF Process, Reads, PassesBy, IsNewPmt
    <3>3. GoneOverAt(at) /\ pat' = pat
      BY <3>1 DEF Process, GoneOverAt, tables
    <3> QED BY <2>1, <2>3, <3>2, <3>3
  <2> QED BY <2>4, <2>5
<1>2. CASE FlushPacket
  <2>1. /\ Passing /\ UNCHANGED <<sent, given, out, sbuf>> /\ pc = "flush"
    BY <1>2 DEF FlushPacket, Passing
  <2>2. PICK at \in FlushAt : Process(at, curr' = at /\ UNCHANGED pc)
    BY <1>2 DEF FlushPacket
  <2>3. at \in 1 .. Len(sbuf) /\ curr < at /\ Sync(at)
    BY FlushAtIs DEF Base
  <2>4. Emit(sbuf[at]) /\ Reads(sbuf[at])
    BY <2>1, <2>2 DEF Process, Reads, PassesBy, IsNewPmt, IsNewPat
  <2>5. GoneOverAt(at)
    BY <2>1, <2>2 DEF Process, GoneOverAt
  <2> QED BY <2>1, <2>3, <2>4, <2>5
<1> QED BY <1>1, <1>2

LEMMA SourcedStep == Base /\ Sourced /\ [Next]_vars => Sourced'
<1> SUFFICES ASSUME Base, Sourced, [Next]_vars PROVE Sourced'
  OBVIOUS
<1>1. CASE Proc \/ FlushPacket
  <2>1. UNCHANGED <<sent, given, out>>
    BY <1>1, PassIs
  <2>2. PICK at \in 1 .. Len(sbuf) : Sync(at) /\ Emit(sbuf[at])
    BY <1>1, PassIs
  <2> QED BY <2>1, <2>2, SourcedEmission
<1>2. CASE ~(Proc \/ FlushPacket)
  BY <1>2, QuietIs, SourcedQuiet DEF Next, Done
<1> QED BY <1>1, <1>2

\* A packet of a PAT that came out.
LEMMA PatIs ==
  ASSUME Base, Sourced, NEW i \in DOMAIN Emitted, Emitted[i].kind = "pat"
  PROVE  /\ UnitOf(i).packet \in Kinds /\ UnitOf(i).packet.kind = "pat"
         /\ UnitOf(i).packet.programs \in SUBSET Program
<1>1. Emitted[i].pos \in 1 .. given /\ given <= Len(sent) /\ given \in Nat /\ Len(sent) \in Nat
  BY DEF Sourced, Base, Shape
<1>2. Emitted[i].pos \in 1 .. Len(sent)
  BY <1>1
<1>3. UnitOf(i).packet \in Kinds /\ UnitOf(i).packet.kind = "pat"
  BY <1>2 DEF UnitOf, Base, Record, Sourced
<1> QED BY <1>3, PacketParts, StreamAssumption

-----------------------------------------------------------------------------
(* The tables are those of what came out.                                  *)

PatAt(i) == Emitted[i].kind = "pat" /\ ~UnitOf(i).damaged
PmtAt(i, p) == Emitted[i].kind = "pmt" /\ ~UnitOf(i).damaged /\ UnitOf(i).packet.program = p
LatestPat(i) == PatAt(i) /\ \A j \in DOMAIN Emitted : PatAt(j) => j <= i
LatestPmt(i, p) == PmtAt(i, p) /\ \A j \in DOMAIN Emitted : PmtAt(j, p) => j <= i

Late == {"last", "flush", "end"} \cup Failures

\* While PMTs are missing, none has come out behind the last PAT.
FollowsFrom(i) ==
  /\ pat = UnitOf(i).packet.programs
  /\ \A p \in pat, m \in DOMAIN Emitted :
       m >= i /\ LatestPmt(m, p) => pmt[p] = UnitOf(m).packet.ecm
  /\ pc \notin Late /\ ~PmtFound =>
       \A p \in pat, m \in DOMAIN Emitted : m >= i => ~PmtAt(m, p)
Following ==
  /\ pc = "proc" => PmtFound
  /\ \A i \in DOMAIN Emitted : LatestPat(i) => FollowsFrom(i)

LEMMA FollowingQuiet ==
  ASSUME Following, Emitted' = Emitted,
         \A k \in DOMAIN Emitted : UnitOf(k)' = UnitOf(k),
         UNCHANGED tables, pc' = "proc" => PmtFound, pc \in Late => pc' \in Late
  PROVE  Following'
<1>1. PmtFound' = PmtFound
  BY DEF PmtFound, Found, tables
<1>2. \A p : \A k \in DOMAIN Emitted : PatAt(k)' = PatAt(k) /\ PmtAt(k, p)' = PmtAt(k, p)
  BY DEF PatAt, PmtAt
<1>3. \A p : \A k \in DOMAIN Emitted :
        LatestPat(k)' = LatestPat(k) /\ LatestPmt(k, p)' = LatestPmt(k, p)
  BY <1>2 DEF LatestPat, LatestPmt
<1>4. ASSUME NEW i \in DOMAIN Emitted, LatestPat(i)'
      PROVE  FollowsFrom(i)'
  <2>1. FollowsFrom(i)
    BY <1>3, <1>4 DEF Following
  <2>2. pat' = pat /\ pmt' = pmt
    BY DEF tables
  <2> QED BY <1>1, <1>2, <1>3, <2>1, <2>2 DEF FollowsFrom
<1> QED BY <1>1, <1>4 DEF Following

\* A search changes the tables only where none has come out.
LEMMA FollowingSearch ==
  ASSUME Base, Sourced, Following, NoEmptyPat, Search
  PROVE  Following'
<1>1. /\ Emitted' = Emitted /\ sent' = sent /\ pc \in {"pat", "pmt", "ecm"} /\ NextStage = pc
  <2>1. pc \in {"pat", "pmt", "ecm"}
    BY DEF Search, SearchInVain, FindPat, FindPmt, FindEcm
  <2> QED BY <2>1, QuietStep DEF Base, Searching
<1>2. \A k \in DOMAIN Emitted : UnitOf(k)' = UnitOf(k)
  BY <1>1 DEF UnitOf
<1>3. pc' # "proc" /\ pc \notin Late
  BY <1>1 DEF Search, SearchInVain, FindPat, FindPmt, FindEcm, SearchEnds, SearchGoesOn,
              NoneInHead, Late, Failures
<1>4. CASE UNCHANGED tables
  BY <1>2, <1>3, <1>4, <1>1, FollowingQuiet
<1>5. \A p : \A k \in DOMAIN Emitted : PatAt(k)' = PatAt(k) /\ PmtAt(k, p)' = PmtAt(k, p)
  BY <1>1, <1>2 DEF PatAt, PmtAt
<1>6. \A p : \A k \in DOMAIN Emitted :
        LatestPat(k)' = LatestPat(k) /\ LatestPmt(k, p)' = LatestPmt(k, p)
  BY <1>1, <1>5 DEF LatestPat, LatestPmt
<1>7. CASE FindPat
  <2>1. pat \in {Null, {}}
    BY <1>1, <1>7 DEF FindPat, NextStage
  <2>2. ASSUME NEW i \in DOMAIN Emitted, LatestPat(i)
        PROVE  FALSE
    <3>1. pat = UnitOf(i).packet.programs /\ Emitted[i].kind = "pat"
      BY <2>2 DEF Following, FollowsFrom, LatestPat, PatAt
    <3>2. UnitOf(i).packet.programs # {} /\ UnitOf(i).packet.programs \in SUBSET Program
      BY <3>1, PatIs DEF NoEmptyPat
    <3> QED BY <2>1, <3>1, <3>2, StreamAssumption
  <2> QED BY <1>1, <1>3, <1>6, <2>2 DEF Following
<1>8. CASE FindPmt
  <2>1. ~PmtFound /\ pat' = pat
    BY <1>1, <1>8 DEF FindPmt, NextStage, tables
  <2>2. ASSUME NEW i \in DOMAIN Emitted, LatestPat(i)'
        PROVE  FollowsFrom(i)'
    <3>1. FollowsFrom(i)
      BY <1>6, <2>2 DEF Following
    <3>2. \A p \in pat, m \in DOMAIN Emitted : m >= i => ~PmtAt(m, p)
      BY <1>3, <2>1, <3>1 DEF FollowsFrom
    <3>3. pat = UnitOf(i).packet.programs
      BY <3>1 DEF FollowsFrom
    <3> QED BY <1>1, <1>2, <1>5, <2>1, <3>2, <3>3 DEF FollowsFrom, LatestPmt
  <2> QED BY <1>1, <1>3, <2>2 DEF Following
<1> QED BY <1>4, <1>7, <1>8 DEF Search, SearchInVain, FindEcm

\* The packets of a pass.
LEMMA FollowingPass ==
  ASSUME Base, Sourced, Following, Proc \/ FlushPacket
  PROVE  Following'
<1>1. Passing /\ UNCHANGED <<sent, given, out>>
  BY PassIs
<1>2. PICK at \in 1 .. Len(sbuf) :
        /\ Sync(at) /\ Emit(sbuf[at]) /\ Reads(sbuf[at])
        /\ \/ GoneOverAt(at) /\ (pc # "flush" => pat' = pat)
           \/ CutAt(at)
  BY PassIs
<1> DEFINE u == sbuf[at]
<1>3. /\ \A k \in DOMAIN Emitted :
           k \in DOMAIN Emitted' /\ Emitted'[k] = Emitted[k] /\ UnitOf(k)' = UnitOf(k)
      /\ \/ Stripped(u) /\ Emitted' = Emitted
         \/ /\ DOMAIN Emitted' = 1 .. Len(Emitted) + 1 /\ Len(Emitted') = Len(Emitted) + 1
            /\ \A k : k = Len(Emitted) + 1 =>
                 /\ UnitOf(k)' = u /\ Emitted'[k].kind = u.packet.kind
  BY <1>1, <1>2, SourcedEmission
<1>4. DOMAIN Emitted = 1 .. Len(Emitted) /\ Len(Emitted) \in Nat
  BY EmittedIs
<1>5. u \in Unit /\ u.packet \in Packet /\ u.damaged \in BOOLEAN
  BY <1>2, SyncIs DEF Unit
<1>6. /\ u.packet.kind = "pat" => u.packet.programs \in SUBSET Program
      /\ u.packet.kind = "pmt" => u.packet.program \in Program
  BY <1>5, PacketParts
<1>7. pat \in (SUBSET Program) \cup {Null} /\ pmt \in [Program -> EcmPid \cup {Clear, Null}]
  BY DEF Base, Shape
<1>8. \A p : \A k \in DOMAIN Emitted : PatAt(k)' = PatAt(k) /\ PmtAt(k, p)' = PmtAt(k, p)
  BY <1>3 DEF PatAt, PmtAt
<1> HIDE DEF u
<1>9. \/ ~u.damaged /\ u.packet.kind = "pat" /\ NewPat(u.packet.programs)
      \/ /\ ~u.damaged /\ u.packet.kind = "pmt" /\ NewPmt(u.packet.program, u.packet.ecm)
         /\ UNCHANGED <<pat, phase>>
      \/ UNCHANGED tables /\ (u.damaged \/ Agrees(u))
  BY <1>2, ReadsTables DEF u
<1>10. pc' \in {pc, "ECM_PROC_FAILURE"} \/ (pc' = After /\ u.packet.kind = "pat" /\ ~u.damaged)
  BY <1>2 DEF GoneOverAt, CutAt, u
<1>11. pc' = "proc" => pc = "proc" /\ UNCHANGED <<pat, phase>> /\ PmtFound'
  <2>1. SUFFICES ASSUME pc' = "proc" PROVE pc = "proc" /\ UNCHANGED <<pat, phase>>
    BY DEF Following, PmtFound, Found
  <2>2. pc = "proc"
    BY <1>10, <2>1 DEF After
  <2>3. Reads(u)
    BY <1>2 DEF u
  <2>4. After # "proc"
    BY DEF After
  <2> QED BY <2>1, <2>2, <2>3, <2>4 DEF Reads, tables
<1>12. CASE Stripped(u) /\ Emitted' = Emitted
  <2>1. UNCHANGED tables
    BY <1>9, <1>12 DEF Stripped
  <2>2. pc' = "proc" => PmtFound
    BY <1>11 DEF Following
  <2>3. pc \in Late => pc' \in Late
    BY <1>1, <1>10 DEF Late, Failures, After, Passing
  <2> QED BY <1>3, <1>12, <2>1, <2>2, <2>3, FollowingQuiet
<1>13. ASSUME NEW n, n = Len(Emitted) + 1, DOMAIN Emitted' = 1 .. n,
              UnitOf(n)' = u, Emitted'[n].kind = u.packet.kind
       PROVE  Following'
  <2>1. PatAt(n)' <=> u.packet.kind = "pat" /\ ~u.damaged
    BY <1>13 DEF PatAt
  <2>2. \A p : PmtAt(n, p)' <=> u.packet.kind = "pmt" /\ ~u.damaged /\ u.packet.program = p
    BY <1>13 DEF PmtAt
  <2>3. SUFFICES ASSUME NEW i \in 1 .. n, LatestPat(i)'
                 PROVE  FollowsFrom(i)'
    BY <1>11, <1>13 DEF Following
  <2>4. CASE PatAt(n)'
    <3>1. i = n
      BY <1>13, <2>3, <2>4, <1>4 DEF LatestPat
    <3>2. pat' = u.packet.programs
      BY <1>9, <2>1, <2>4 DEF Agrees, NewPat, tables
    <3>3. \A p : \A m \in 1 .. n : m >= i => ~PmtAt(m, p)'
      BY <1>4, <1>13, <2>1, <2>2, <2>4, <3>1
    <3> QED BY <1>13, <3>1, <3>2, <3>3 DEF FollowsFrom, LatestPmt
  <2>5. CASE ~PatAt(n)'
    <3>1. i \in DOMAIN Emitted /\ PatAt(i)' /\ \A j \in DOMAIN Emitted : PatAt(j)' => j <= i
      BY <1>3, <1>4, <1>13, <2>3, <2>5 DEF LatestPat
    <3>2. LatestPat(i)
      BY <1>8, <3>1 DEF LatestPat
    <3>3. /\ pat = UnitOf(i).packet.programs
          /\ \A p \in pat, m \in DOMAIN Emitted :
               m >= i /\ LatestPmt(m, p) => pmt[p] = UnitOf(m).packet.ecm
      BY <3>1, <3>2 DEF Following, FollowsFrom
    <3>4. ~(~u.damaged /\ u.packet.kind = "pat")
      BY <2>1, <2>5
    <3>5. pat' = pat /\ UnitOf(i)' = UnitOf(i) /\ pat \in SUBSET Program /\ pat # Null
      <4>1. pat' = pat /\ UnitOf(i)' = UnitOf(i)
        BY <1>3, <1>9, <3>1, <3>4 DEF tables
      <4>2. UnitOf(i).packet.programs \in SUBSET Program
        BY <3>1, <3>2, PatIs DEF LatestPat, PatAt
      <4> QED BY <3>3, <4>1, <4>2, StreamAssumption
    <3>6. pc' \in Late \/ PmtFound'
      BY <1>1, <1>10, <1>11, <3>4 DEF Passing, Late, Failures
    <3>7. ASSUME NEW p \in pat', NEW m \in 1 .. n, m >= i, LatestPmt(m, p)'
          PROVE  pmt'[p] = UnitOf(m)'.packet.ecm
      <4>1. CASE m = n
        <5>1. ~u.damaged /\ u.packet.kind = "pmt" /\ u.packet.program = p
          BY <2>2, <3>7, <4>1 DEF LatestPmt
        <5>2. p \in pat /\ p \in Program /\ pat # Null
          BY <3>5, <3>7
        <5> QED BY <1>7, <1>9, <1>13, <4>1, <5>1, <5>2 DEF Agrees, NewPmt, tables
      <4>2. CASE m # n
        <5>1. m \in DOMAIN Emitted /\ UnitOf(m)' = UnitOf(m)
          BY <1>3, <1>4, <1>13, <4>2
        <5>2. PmtAt(m, p)' /\ \A j \in 1 .. n : PmtAt(j, p)' => j <= m
          BY <1>13, <3>7 DEF LatestPmt
        <5>3. LatestPmt(m, p)
          BY <1>4, <1>8, <1>13, <5>1, <5>2 DEF LatestPmt
        <5>4. pmt[p] = UnitOf(m).packet.ecm
          BY <3>3, <3>5, <3>7, <5>1, <5>3
        <5>5. ~PmtAt(n, p)'
          BY <1>4, <1>13, <4>2, <5>2
        <5>6. ~(~u.damaged /\ u.packet.kind = "pmt" /\ u.packet.program = p)
          BY <2>2, <5>5
        <5>7. pmt'[p] = pmt[p]
          <6>1. p \in Program
            BY <3>5, <3>7
          <6> QED BY <1>7, <1>9, <3>4, <5>6, <6>1 DEF NewPmt, tables
        <5> QED BY <5>1, <5>4, <5>7
      <4> QED BY <4>1, <4>2
    <3> QED BY <1>13, <3>3, <3>5, <3>6, <3>7 DEF FollowsFrom
  <2> QED BY <2>4, <2>5
<1> QED BY <1>3, <1>12, <1>13

LEMMA FollowingStep == NoEmptyPat /\ Base /\ Sourced /\ Following /\ [Next]_vars => Following'
<1> SUFFICES ASSUME NoEmptyPat, Base, Sourced, Following, [Next]_vars PROVE Following'
  OBVIOUS
<1>1. CASE Proc \/ FlushPacket
  BY <1>1, FollowingPass
<1>2. CASE Search
  BY <1>2, FollowingSearch
<1>3. CASE Broadcast \/ Put \/ Stage \/ Broken \/ ProcEnds \/ Get \/ Flush \/ FlushEnds
             \/ UNCHANGED vars
  <2>1. Emitted' = Emitted /\ \A k \in DOMAIN Emitted : UnitOf(k)' = UnitOf(k)
    BY <1>3, QuietIs, SourcedQuiet
  <2>2. UNCHANGED tables
    <3>1. CASE Broken
      BY <3>1, BrokenIs
    <3>2. CASE Broadcast \/ Put \/ Stage \/ ProcEnds \/ Get
      BY <3>2 DEF Broadcast, Put, Stage, ProcEnds, Get
    <3>3. CASE Flush \/ FlushEnds \/ UNCHANGED vars
      BY <3>3 DEF Flush, FlushEnds, vars, tables
    <3> QED BY <1>3, <3>1, <3>2, <3>3
  <2>3. pc' = "proc" => PmtFound
    BY <1>3, BrokenIs DEF Broadcast, Put, Stage, ProcEnds, Get, Flush, FlushEnds, vars,
                          After, Following, NextStage
  <2>4. pc \in Late => pc' \in Late
    BY <1>3, BrokenIs DEF Broadcast, Put, Stage, ProcEnds, Get, Flush, FlushEnds, vars,
                          After, Late, Failures
  <2> QED BY <2>1, <2>2, <2>3, <2>4, FollowingQuiet
<1> QED BY <1>1, <1>2, <1>3 DEF Next, Done

\* Of a stream without empty PATs, the tables between calls are those of the last
\* PAT that has come out and of the last PMT that has come out after it, although
\* the searches look ahead of both and read damaged ones
\* (find_pat and find_pmt against proc_arib_std_b1, lines 1031 and 1763).
THEOREM TablesAsEmitted == NoEmptyPat => (Spec => []TablesFollow)
<1> SUFFICES ASSUME NoEmptyPat PROVE Spec => []TablesFollow
  OBVIOUS
<1>1. Init => Sourced /\ Following
  <2> SUFFICES ASSUME Init PROVE Sourced /\ Following
    OBVIOUS
  <2>1. Emitted = <<>>
    BY ConcatEmptySeq, EmptySeq DEF Init, Emitted
  <2>2. DOMAIN Emitted = {}
    BY <2>1
  <2> QED BY <2>2 DEF Sourced, Following, Init
<1>2. ASSUME Base, Sourced, Following PROVE TablesFollow
  <2> DEFINE whole == {i \in DOMAIN Emitted : ~UnitOf(i).damaged}
             Last(is) == IF is \cap whole = {} THEN 0 ELSE Max(is \cap whole)
             pats == {i \in DOMAIN Emitted : Emitted[i].kind = "pat"}
             a == Last(pats)
             pmts(p) == {i \in a .. Len(Emitted) :
                           Emitted[i].kind = "pmt" /\ UnitOf(i).packet.program = p}
  <2>1. DOMAIN Emitted = 1 .. Len(Emitted) /\ Len(Emitted) \in Nat
    BY <1>2, EmittedIs
  <2>2. whole \subseteq 1 .. Len(Emitted) /\ pats \cap whole \subseteq 0 .. Len(Emitted)
    BY <2>1
  <2>3. ASSUME a # 0 PROVE a \in DOMAIN Emitted /\ LatestPat(a)
    <3>1. a \in pats \cap whole /\ \A y \in pats \cap whole : y <= a
      BY <2>1, <2>2, <2>3, MaxIs
    <3> HIDE DEF a
    <3> QED BY <3>1 DEF LatestPat, PatAt
  <2>4. ASSUME a # 0, NEW p \in pat, NEW b, b = Last(pmts(p)), b # 0
        PROVE  b \in DOMAIN Emitted /\ b >= a /\ LatestPmt(b, p)
    <3>1. a \in DOMAIN Emitted /\ a \in Nat
      BY <2>1, <2>3, <2>4
    <3> HIDE DEF a
    <3>2. pmts(p) \cap whole \subseteq 0 .. Len(Emitted)
      BY <2>1, <2>2, <3>1
    <3>3. b \in pmts(p) \cap whole /\ \A y \in pmts(p) \cap whole : y <= b
      BY <2>1, <2>4, <3>2, MaxIs
    <3>4. b \in DOMAIN Emitted /\ b >= a /\ PmtAt(b, p)
      BY <2>1, <3>1, <3>3 DEF PmtAt
    <3>5. ASSUME NEW j \in DOMAIN Emitted, PmtAt(j, p) PROVE j <= b
      <4>1. CASE j < a
        BY <2>1, <3>1, <3>4, <4>1
      <4>2. CASE j >= a
        <5>1. j \in pmts(p) \cap whole
          BY <2>1, <3>1, <3>5, <4>2 DEF PmtAt
        <5> QED BY <3>3, <5>1
      <4> QED BY <2>1, <3>1, <4>1, <4>2
    <3> QED BY <3>4, <3>5 DEF LatestPmt
  <2>5. a # 0 => /\ pat = UnitOf(a).packet.programs
                 /\ \A p \in pat : Last(pmts(p)) # 0 =>
                      pmt[p] = UnitOf(Last(pmts(p))).packet.ecm
    <3>1. SUFFICES ASSUME a # 0
                   PROVE  /\ pat = UnitOf(a).packet.programs
                          /\ \A p \in pat : Last(pmts(p)) # 0 =>
                               pmt[p] = UnitOf(Last(pmts(p))).packet.ecm
      OBVIOUS
    <3>2. FollowsFrom(a)
      BY <1>2, <2>3, <3>1 DEF Following
    <3>3. ASSUME NEW p \in pat, Last(pmts(p)) # 0
          PROVE  pmt[p] = UnitOf(Last(pmts(p))).packet.ecm
      <4>1. PICK b : b = Last(pmts(p))
        OBVIOUS
      <4>2. b \in DOMAIN Emitted /\ b >= a /\ LatestPmt(b, p)
        BY <2>4, <3>1, <3>3, <4>1
      <4> HIDE DEF a, Last, pmts
      <4>3. pmt[p] = UnitOf(b).packet.ecm
        BY <3>2, <4>2 DEF FollowsFrom
      <4> QED BY <4>1, <4>3
    <3>4. pat = UnitOf(a).packet.programs
      BY <3>2 DEF FollowsFrom
    <3> QED BY <3>3, <3>4
  <2> QED BY <2>5 DEF TablesFollow, UnitOf
<1>3. NoEmptyPat /\ Base /\ Sourced /\ Following /\ [Next]_vars => Sourced' /\ Following'
  BY SourcedStep, FollowingStep
<1> QED BY <1>1, <1>2, <1>3, InitBase, BaseStep, PTL DEF Spec

-----------------------------------------------------------------------------
(* The keys of the one decryptor.                                          *)

\* All programs are scrambled, by one broadcaster's keys.
OneDecryptor ==
  /\ \A d, e \in EcmPid : d = e
  /\ \A packet \in Kinds : packet.kind = "pmt" => packet.ecm # Clear

\* put() goes over the buffer when no table is missing.
Ready ==
  /\ \A p \in Program : pmt[p] # Clear /\ (phase[p] # 0 => pmt[p] # Null)
  /\ pc = "proc" => NextStage = "proc"

LEMMA AliveIs ==
  ASSUME OneDecryptor, NEW programs \in SUBSET Program, programs # Null,
         NEW q \in [Program -> EcmPid \cup {Clear, Null}], NEW p \in programs, q[p] \in EcmPid
  PROVE  Alive(programs, q) = EcmPid /\ EcmPid = {q[p]} /\ Cardinality(EcmPid) = 1
<1>1. EcmPid = {q[p]}
  BY DEF OneDecryptor
<1>2. q[p] \in Alive(programs, q)
  BY DEF Alive
<1>3. Alive(programs, q) \subseteq EcmPid
  BY DEF Alive
<1>4. Alive(programs, q) = EcmPid
  BY <1>1, <1>2, <1>3
<1>5. Cardinality({q[p]}) = 1
  BY FS_Singleton
<1> QED BY <1>1, <1>4, <1>5

\* The decryptor of every packet is there when nothing is missing.
LEMMA ReadyIs ==
  ASSUME OneDecryptor, Base, Ready, NextStage = "proc"
  PROVE  /\ pat \in SUBSET Program /\ pat # Null /\ \E p \in pat : pmt[p] \in EcmPid
         /\ Alive(pat, pmt) = EcmPid /\ \E e : EcmPid = {e}
         /\ \A e \in EcmPid : dec[e].phase # 0
         /\ \A p \in Program : Decryptor(p) = EcmPid
<1>1. /\ pat \in SUBSET Program /\ pat # Null /\ pat # {} /\ PmtFound /\ EcmFound
      /\ pmt \in [Program -> EcmPid \cup {Clear, Null}] /\ phase \in [Program -> 0 .. 2]
  BY DEF NextStage, Base, Shape
<1>2. PICK p \in pat : phase[p] # 0
  <2>1. CASE \E n \in {phase[p] : p \in pat} : n = 2
    BY <2>1
  <2>2. CASE \A n \in {phase[p] : p \in pat} : n # 0
    BY <1>1, <2>2
  <2> QED BY <1>1, <2>1, <2>2 DEF PmtFound, Found
<1>3. p \in Program /\ pmt[p] \in EcmPid
  BY <1>1, <1>2 DEF Ready
<1>4. Alive(pat, pmt) = EcmPid /\ EcmPid = {pmt[p]} /\ Cardinality(EcmPid) = 1
  BY <1>1, <1>3, AliveIs
<1>5. dec[pmt[p]].phase # 0
  BY <1>1, <1>4 DEF EcmFound, Found
<1>6. ASSUME NEW r \in Program PROVE Decryptor(r) = EcmPid
  <2>1. CASE r \in pat /\ pmt[r] # Null
    <3>1. pmt[r] \in EcmPid
      BY <1>1, <2>1 DEF Ready
    <3>2. pmt[r] # Clear /\ EcmPid = {pmt[r]}
      BY <1>4, <3>1, StreamAssumption
    <3> QED BY <1>1, <2>1, <3>2 DEF Decryptor
  <2>2. CASE ~(r \in pat /\ pmt[r] # Null)
    BY <1>1, <1>4, <2>2 DEF Decryptor
  <2> QED BY <2>1, <2>2
<1>7. \A e \in EcmPid : dec[e].phase # 0
  BY <1>4, <1>5
<1> QED BY <1>1, <1>2, <1>3, <1>4, <1>6, <1>7

\* What the packet that a search has found does to tables and decryptors.
FindsTable(u) ==
  \/ u.packet.kind = "pat" /\ NewPat(u.packet.programs)
  \/ /\ IsPmt(u) /\ NewPmt(u.packet.program, u.packet.ecm) /\ pat' = pat
     /\ phase' = [phase EXCEPT ![u.packet.program] = 1]
  \/ /\ IsPmt(u) /\ phase[u.packet.program] # 0 /\ UNCHANGED <<pat, pmt, dec>>
     /\ phase' = [phase EXCEPT ![u.packet.program] = 2]
FindsEcm(u) ==
  LET e == u.packet.pid
  IN  \/ /\ IsEcm(u) /\ dec[e].phase = 0
         /\ \E o \in EcmOutcomes(dec[e], u) :
              /\ dec' = [dec EXCEPT ![e] = [o.dec EXCEPT !.phase = IF o.ok THEN 1 ELSE 0]]
              /\ ~o.ok => pc' = "ECM_PROC_FAILURE"
      \/ IsEcm(u) /\ dec[e].phase # 0 /\ dec' = [dec EXCEPT ![e].phase = 2]

LEMMA SearchIs ==
  ASSUME Base, Search
  PROVE  /\ UNCHANGED <<sent, given, sbuf, dbuf, out>> /\ pc \in {"pat", "pmt", "ecm"}
         /\ pc' \notin {"proc", "last", "flush", "end"}
         /\ \/ UNCHANGED <<tables, dec>>
            \/ \E at \in 1 .. Len(sbuf) :
                 /\ Sync(at)
                 /\ FindsTable(sbuf[at]) \/ (FindsEcm(sbuf[at]) /\ UNCHANGED tables)
<1>1. UNCHANGED <<sent, given, sbuf, dbuf, out>> /\ pc \in {"pat", "pmt", "ecm"}
  BY DEF Search, SearchInVain, FindPat, FindPmt, FindEcm
<1>2. pc' \notin {"proc", "last", "flush", "end"}
  BY <1>1 DEF Search, SearchInVain, FindPat, FindPmt, FindEcm, SearchEnds, SearchGoesOn,
              NoneInHead
<1>3. CASE SearchInVain
  BY <1>1, <1>2, <1>3 DEF SearchInVain, tables
<1>4. CASE FindPat
  <2>1. PICK at \in At :
          \/ IsNewPat(sbuf[at]) /\ NewPat(sbuf[at].packet.programs)
          \/ UNCHANGED <<tables, dec>>
    BY <1>4 DEF FindPat
  <2>2. at \in 1 .. Len(sbuf) /\ Sync(at)
    BY AtIs DEF Base
  <2> QED BY <1>1, <1>2, <2>1, <2>2 DEF FindsTable, IsNewPat
<1>5. CASE FindPmt
  <2>1. PICK at \in At :
          \/ UNCHANGED <<tables, dec>>
          \/ /\ IsPmt(sbuf[at]) /\ pat' = pat
             /\ \/ /\ NewPmt(sbuf[at].packet.program, sbuf[at].packet.ecm)
                   /\ phase' = [phase EXCEPT ![sbuf[at].packet.program] = 1]
                \/ /\ phase[sbuf[at].packet.program] # 0 /\ UNCHANGED <<pmt, dec>>
                   /\ phase' = [phase EXCEPT ![sbuf[at].packet.program] = 2]
    BY <1>5 DEF FindPmt
  <2>2. at \in 1 .. Len(sbuf) /\ Sync(at)
    BY AtIs DEF Base
  <2> QED BY <1>1, <1>2, <2>1, <2>2 DEF FindsTable
<1>6. CASE FindEcm
  <2>1. UNCHANGED tables
    BY <1>6 DEF FindEcm
  <2>2. PICK at \in At : dec' = dec \/ FindsEcm(sbuf[at])
    BY <1>6 DEF FindEcm, FindsEcm
  <2>3. at \in 1 .. Len(sbuf) /\ Sync(at)
    BY AtIs DEF Base
  <2> QED BY <1>1, <1>2, <2>1, <2>2, <2>3
<1> QED BY <1>3, <1>4, <1>5, <1>6, SMTT(30) DEF Search

\* A table read leaves the maps of the programs.
LEMMA ReadyNewPat ==
  ASSUME Base, NEW programs, NewPat(programs), pc' # "proc"
  PROVE  Ready'
BY StreamAssumption DEF Ready, NewPat

LEMMA ReadySearch ==
  ASSUME OneDecryptor, Base, Ready, Search
  PROVE  Ready'
<1>1. pc' # "proc"
  BY SearchIs
<1>2. pmt \in [Program -> EcmPid \cup {Clear, Null}] /\ phase \in [Program -> 0 .. 2]
  BY DEF Base, Shape
<1>3. CASE UNCHANGED tables
  BY <1>1, <1>3 DEF Ready, tables
<1>4. ASSUME NEW at \in 1 .. Len(sbuf), Sync(at), FindsTable(sbuf[at])
      PROVE  Ready'
  <2> DEFINE u == sbuf[at]
             p == u.packet.program
  <2>1. u.packet \in Kinds /\ u.packet \in Packet
    BY <1>4, SyncIs DEF Unit
  <2>2. u.packet.kind = "pmt" =>
          p \in Program /\ u.packet.ecm \in EcmPid /\ u.packet.ecm # Clear /\ Clear # Null
    BY <2>1, PacketParts, StreamAssumption DEF OneDecryptor
  <2> HIDE DEF u
  <2>3. CASE u.packet.kind = "pat" /\ NewPat(u.packet.programs)
    BY <1>1, <2>3, ReadyNewPat
  <2>4. CASE /\ IsPmt(u) /\ NewPmt(p, u.packet.ecm)
             /\ phase' = [phase EXCEPT ![p] = 1]
    BY <1>1, <1>2, <2>2, <2>4, StreamAssumption DEF Ready, NewPmt, IsPmt
  <2>5. CASE /\ IsPmt(u) /\ phase[p] # 0 /\ pmt' = pmt
             /\ phase' = [phase EXCEPT ![p] = 2]
    BY <1>1, <1>2, <2>2, <2>5 DEF Ready, IsPmt
  <2> QED BY <1>4, <2>3, <2>4, <2>5 DEF FindsTable, u
<1> QED BY <1>3, <1>4, SearchIs DEF tables

LEMMA ReadyPass ==
  ASSUME OneDecryptor, Base, Ready, Proc \/ FlushPacket
  PROVE  Ready'
<1>1. PICK at \in 1 .. Len(sbuf) : Sync(at) /\ Reads(sbuf[at])
  BY PassIs
<1> DEFINE u == sbuf[at]
<1>2. u \in Unit /\ u.packet \in Kinds /\ u.packet \in Packet /\ u.period \in Nat
  BY <1>1, SyncIs DEF Unit
<1>3. u.packet.kind = "pmt" =>
        /\ u.packet.program \in Program /\ u.packet.ecm \in EcmPid /\ u.packet.ecm # Clear
        /\ Clear # Null /\ u.packet.ecm # Null
  BY <1>2, PacketParts, StreamAssumption DEF OneDecryptor
<1>4. /\ pmt \in [Program -> EcmPid \cup {Clear, Null}] /\ phase \in [Program -> 0 .. 2]
      /\ dec \in [EcmPid -> Dec] /\ Tables
  BY TablesOf DEF Base, Shape
<1> HIDE DEF u
<1>5. CASE NewPat(u.packet.programs) /\ pc' = IF pc = "flush" THEN pc ELSE After
  BY <1>5, ReadyNewPat DEF After
<1>6. CASE IsPmt(u) /\ NewPmt(u.packet.program, u.packet.ecm) /\ UNCHANGED <<pat, phase, pc>>
  <2> DEFINE p == u.packet.program
  <2>1. /\ p \in Program /\ p \in pat /\ pmt' = [pmt EXCEPT ![p] = u.packet.ecm]
        /\ pmt'[p] \in EcmPid /\ pmt' \in [Program -> EcmPid \cup {Clear, Null}]
    BY <1>3, <1>4, <1>6 DEF IsPmt, NewPmt
  <2>2. \A q \in Program : pmt'[q] # Clear /\ (phase'[q] # 0 => pmt'[q] # Null)
    <3>1. \A q \in Program : pmt'[q] = pmt[q] \/ pmt'[q] = u.packet.ecm
      BY <1>4, <2>1
    <3>2. phase' = phase /\ u.packet.kind = "pmt"
      BY <1>6 DEF IsPmt
    <3> QED BY <1>3, <3>1, <3>2 DEF Ready
  <2>3. CASE pc' # "proc"
    BY <2>2, <2>3 DEF Ready
  <2>4. CASE pc' = "proc"
    <3>1. NextStage = "proc" /\ pat \notin {Null, {}} /\ PmtFound
      BY <1>6, <2>4 DEF Ready, NextStage
    <3>2. /\ pat \in SUBSET Program /\ pat # Null /\ Alive(pat, pmt) = EcmPid
          /\ \A e \in EcmPid : dec[e].phase # 0
      BY <3>1, ReadyIs
    <3>3. Alive(pat, pmt') = EcmPid
      BY <2>1, <3>2, AliveIs
    <3>4. \A e \in EcmPid : dec'[e] = dec[e]
      BY <1>6, <3>2, <3>3 DEF NewPmt
    <3>5. EcmFound'
      BY <1>6, <3>2, <3>3, <3>4 DEF EcmFound, Found
    <3>6. PmtFound'
      BY <1>6, <3>1 DEF PmtFound
    <3>7. NextStage' = "proc"
      BY <1>6, <3>1, <3>5, <3>6 DEF NextStage
    <3> QED BY <2>2, <3>7 DEF Ready
  <2> QED BY <2>3, <2>4
<1>7. CASE /\ IsNewEcm(u) /\ UNCHANGED tables
           /\ \E o \in EcmOutcomes(dec[u.packet.pid], u) :
                /\ dec' = [dec EXCEPT ![u.packet.pid] = o.dec]
                /\ pc' = IF o.ok THEN pc ELSE "ECM_PROC_FAILURE"
  <2>1. PICK o \in EcmOutcomes(dec[u.packet.pid], u) :
          /\ dec' = [dec EXCEPT ![u.packet.pid] = o.dec]
          /\ pc' = IF o.ok THEN pc ELSE "ECM_PROC_FAILURE"
    BY <1>7
  <2>2. u.packet.pid \in EcmPid
    BY <1>4, <1>7, IsEcmIs DEF IsNewEcm
  <2>3. o.dec.phase = dec[u.packet.pid].phase
    BY <1>2, <1>4, <2>1, <2>2, OutcomeCases
  <2>4. \A e \in EcmPid : dec'[e].phase = dec[e].phase
    BY <1>4, <2>1, <2>2, <2>3
  <2>5. pat' = pat /\ phase' = phase /\ pmt' = pmt
    BY <1>7 DEF tables
  <2>6. Alive(pat, pmt) \subseteq EcmPid
    BY DEF Alive
  <2>7. {dec'[e].phase : e \in Alive(pat, pmt)} = {dec[e].phase : e \in Alive(pat, pmt)}
    BY <2>4, <2>6
  <2>8. NextStage' = NextStage
    BY <2>5, <2>7 DEF NextStage, PmtFound, EcmFound
  <2>9. pc' = "proc" => pc = "proc"
    BY <2>1
  <2> QED BY <2>5, <2>8, <2>9 DEF Ready
<1>8. CASE UNCHANGED <<tables, dec, pc>>
  BY <1>8 DEF Ready, tables, NextStage, PmtFound, EcmFound
<1> QED BY <1>1, <1>5, <1>6, <1>7, <1>8 DEF Reads, u

\* Everything but searches and passes.
LEMMA TablesStay ==
  ASSUME Base, Broadcast \/ Put \/ Stage \/ Broken \/ ProcEnds \/ Get \/ Flush
                 \/ FlushEnds \/ UNCHANGED vars
  PROVE  UNCHANGED <<tables, dec>> /\ (pc' = "proc" => pc = "proc" \/ NextStage = "proc")
<1>1. CASE Broken \/ UNCHANGED vars
  BY <1>1, BrokenIs DEF vars, tables
<1>2. CASE Broadcast \/ Put \/ Stage \/ ProcEnds
  BY <1>2 DEF Broadcast, Put, Stage, ProcEnds, After
<1>3. CASE Get \/ Flush \/ FlushEnds
  BY <1>3 DEF Get, Flush, FlushEnds
<1> QED BY <1>1, <1>2, <1>3

LEMMA ReadyStep == OneDecryptor /\ Base /\ Ready /\ [Next]_vars => Ready'
<1> SUFFICES ASSUME OneDecryptor, Base, Ready, [Next]_vars PROVE Ready'
  OBVIOUS
<1>1. CASE Search
  BY <1>1, ReadySearch
<1>2. CASE Proc \/ FlushPacket
  BY <1>2, ReadyPass
<1>3. CASE Broadcast \/ Put \/ Stage \/ Broken \/ ProcEnds \/ Get \/ Flush
             \/ FlushEnds \/ UNCHANGED vars
  <2>1. UNCHANGED <<tables, dec>> /\ (pc' = "proc" => pc = "proc" \/ NextStage = "proc")
    BY <1>3, TablesStay
  <2>2. NextStage' = NextStage
    BY <2>1 DEF tables, NextStage, PmtFound, EcmFound
  <2> QED BY <2>1, <2>2 DEF Ready, tables
<1> QED BY <1>1, <1>2, <1>3 DEF Next, Done

\* Every decryptor that an ECM has been found for has keys.
Bought == \A e \in EcmPid : ~dec[e].locked /\ (dec[e].phase # 0 => dec[e].m2 # 0)

\* Periods are counted from 1.
Counted == \A i \in 1 .. Len(sent) : sent[i].period \in Nat /\ sent[i].period >= 1

LEMMA CountedStep == Base /\ Counted /\ [Next]_vars => Counted'
<1> SUFFICES ASSUME Base, Counted, [Next]_vars PROVE Counted'
  OBVIOUS
<1>1. sent \in Seq(Unit) /\ Len(sent) \in Nat
  BY DEF Base, Shape
<1>2. CASE Broadcast
  <2>1. Period \in Nat /\ Period >= 1
    <3>1. CASE sent = <<>>
      BY <3>1 DEF Period
    <3>2. CASE sent # <<>>
      <4>1. Len(sent) \in 1 .. Len(sent)
        BY <1>1, <3>2, EmptySeq
      <4> QED BY <3>2, <4>1 DEF Counted, Period
    <3> QED BY <3>1, <3>2
  <2>2. PICK u : sent' = Append(sent, u) /\ u.period \in {Period, Period + 1}
    BY <1>2 DEF Broadcast
  <2>3. /\ Len(sent') = Len(sent) + 1 /\ sent'[Len(sent) + 1] = u
        /\ \A i \in 1 .. Len(sent) : sent'[i] = sent[i]
    BY <1>1, <2>2, AppendProperties
  <2>4. ASSUME NEW i \in 1 .. Len(sent')
        PROVE  sent'[i].period \in Nat /\ sent'[i].period >= 1
    <3>1. CASE i = Len(sent) + 1
      BY <2>1, <2>2, <2>3, <3>1
    <3>2. CASE i # Len(sent) + 1
      BY <1>1, <2>3, <2>4, <3>2 DEF Counted
    <3> QED BY <3>1, <3>2
  <2> QED BY <2>4 DEF Counted
<1>3. CASE Search \/ Proc \/ FlushPacket
  BY <1>3, SearchIs, PassIs DEF Counted
<1>4. CASE Put \/ Stage \/ Broken \/ ProcEnds \/ Get
  BY <1>4 DEF Put, Stage, Broken, ProcEnds, Get, Counted
<1>5. CASE Flush \/ FlushEnds \/ UNCHANGED vars
  BY <1>5 DEF Flush, FlushEnds, vars, Counted
<1> QED BY <1>2, <1>3, <1>4, <1>5 DEF Next, Done

LEMMA BoughtNew ==
  ASSUME Bought, \A e \in EcmPid : dec'[e] \in {dec[e], NewDec}
  PROVE  Bought'
<1>1. ~NewDec.locked /\ NewDec.phase = 0
  BY DEF NewDec
<1> QED BY <1>1 DEF Bought

LEMMA BoughtStep ==
  "unpurchased" \notin Answers /\ Base /\ Counted /\ Bought /\ [Next]_vars => Bought'
<1> SUFFICES ASSUME "unpurchased" \notin Answers, Base, Counted, Bought, [Next]_vars
             PROVE  Bought'
  OBVIOUS
<1>1. dec \in [EcmPid -> Dec] /\ Tables
  BY TablesOf DEF Base, Shape
<1>2. \A programs : NewPat(programs) => Bought'
  BY BoughtNew DEF NewPat
<1>3. \A p, ecm : NewPmt(p, ecm) => Bought'
  BY BoughtNew DEF NewPmt
<1>4. ASSUME NEW at \in 1 .. Len(sbuf), Sync(at), IsEcm(sbuf[at]),
             NEW o \in EcmOutcomes(dec[sbuf[at].packet.pid], sbuf[at]), NEW d \in Dec,
             d.m2 = o.dec.m2, d.locked = o.dec.locked,
             d.phase # 0 => o.ok \/ dec[sbuf[at].packet.pid].phase # 0,
             dec' = [dec EXCEPT ![sbuf[at].packet.pid] = d]
      PROVE  Bought'
  <2> DEFINE u == sbuf[at]
             e == u.packet.pid
  <2>1. u \in Unit /\ u.period \in Nat /\ u.period >= 1
    <3>1. u = sent[Gone + at] /\ Gone + at \in 1 .. given /\ given <= Len(sent) /\ u \in Unit
      BY <1>4, SyncIs
    <3>2. given \in Nat /\ Len(sent) \in Nat
      BY DEF Base, Shape
    <3>3. Gone + at \in 1 .. Len(sent)
      BY <3>1, <3>2
    <3> HIDE DEF u
    <3> QED BY <3>1, <3>3 DEF Counted
  <2>2. e \in EcmPid
    BY <1>1, <1>4, IsEcmIs
  <2>3. dec[e] \in Dec /\ ~dec[e].locked /\ (dec[e].phase # 0 => dec[e].m2 # 0)
    BY <1>1, <2>2 DEF Bought
  <2> HIDE DEF u
  <2>4. \/ o.ok /\ o.dec.m2 = u.period /\ ~o.dec.locked
        \/ ~o.ok /\ o.dec.m2 = dec[e].m2 /\ ~o.dec.locked
    BY <1>4, <2>1, <2>3, OutcomeCases DEF u
  <2>5. ~d.locked /\ (d.phase # 0 => d.m2 # 0)
    BY <1>4, <2>1, <2>3, <2>4 DEF u
  <2>6. \A f \in EcmPid : dec'[f] = IF f = e THEN d ELSE dec[f]
    BY <1>1, <1>4, <2>2 DEF u
  <2> QED BY <2>5, <2>6 DEF Bought
<1>5. CASE Search
  <2>1. CASE dec' = dec
    BY <2>1 DEF Bought
  <2>2. ASSUME NEW at \in 1 .. Len(sbuf), FindsTable(sbuf[at]) PROVE Bought'
    BY <1>2, <1>3, <2>2 DEF FindsTable, Bought
  <2>3. ASSUME NEW at \in 1 .. Len(sbuf), Sync(at), FindsEcm(sbuf[at]) PROVE Bought'
    <3> DEFINE u == sbuf[at]
               e == u.packet.pid
    <3>1. IsEcm(u) /\ e \in EcmPid /\ dec[e] \in Dec /\ u \in Unit
      BY <1>1, <2>3, IsEcmIs, SyncIs DEF FindsEcm
    <3>2. CASE dec' = [dec EXCEPT ![e].phase = 2] /\ dec[e].phase # 0
      <4>1. \A f \in EcmPid : /\ dec'[f].locked = dec[f].locked /\ dec'[f].m2 = dec[f].m2
                              /\ dec'[f].phase # 0 => dec[f].phase # 0
        BY <1>1, <3>1, <3>2 DEF Dec
      <4> QED BY <4>1 DEF Bought
    <3>3. ASSUME NEW o \in EcmOutcomes(dec[e], u),
                 dec' = [dec EXCEPT ![e] = [o.dec EXCEPT !.phase = IF o.ok THEN 1 ELSE 0]]
          PROVE  Bought'
      <4> DEFINE d == [o.dec EXCEPT !.phase = IF o.ok THEN 1 ELSE 0]
      <4>1. o.dec \in Dec
        BY <3>1, <3>3, OutcomeCases
      <4>2. /\ d \in Dec /\ d.m2 = o.dec.m2 /\ d.locked = o.dec.locked
            /\ d.phase # 0 => o.ok
        BY <4>1 DEF Dec
      <4>3. dec' = [dec EXCEPT ![e] = d]
        BY <3>3
      <4> HIDE DEF d
      <4> QED BY <1>4, <2>3, <3>1, <4>2, <4>3
    <3> QED BY <2>3, <3>2, <3>3 DEF FindsEcm
  <2> QED BY <1>5, <2>1, <2>2, <2>3, SearchIs
<1>6. CASE Proc \/ FlushPacket
  <2>1. PICK at \in 1 .. Len(sbuf) : Sync(at) /\ Reads(sbuf[at])
    BY <1>6, PassIs
  <2> DEFINE u == sbuf[at]
             e == u.packet.pid
  <2>2. CASE IsNewEcm(u) /\ \E o \in EcmOutcomes(dec[e], u) : dec' = [dec EXCEPT ![e] = o.dec]
    <3>1. IsEcm(u) /\ e \in EcmPid /\ dec[e] \in Dec /\ u \in Unit
      BY <1>1, <2>1, <2>2, IsEcmIs, SyncIs DEF IsNewEcm
    <3>2. PICK o \in EcmOutcomes(dec[e], u) : dec' = [dec EXCEPT ![e] = o.dec]
      BY <2>2
    <3>3. o.dec \in Dec /\ o.dec.phase = dec[e].phase
      BY <3>1, <3>2, OutcomeCases
    <3> QED BY <1>4, <2>1, <3>1, <3>2, <3>3
  <2>3. CASE dec' = dec
    BY <2>3 DEF Bought
  <2> QED BY <1>2, <1>3, <2>1, <2>2, <2>3 DEF Reads
<1>7. CASE Broadcast \/ Put \/ Stage \/ Broken \/ ProcEnds \/ Get \/ Flush
             \/ FlushEnds \/ UNCHANGED vars
  BY <1>7, TablesStay DEF Bought
<1> QED BY <1>5, <1>6, <1>7 DEF Next, Done

\* A packet is emitted with keys.
LEMMA WaitsPass ==
  ASSUME OneDecryptor, Base, Ready, Bought, Sourced, WaitsForKeys, Proc \/ FlushPacket
  PROVE  WaitsForKeys'
<1>1. Passing /\ UNCHANGED <<sent, given, out>>
  BY PassIs
<1>2. PICK at \in 1 .. Len(sbuf) : Sync(at) /\ Emit(sbuf[at])
  BY PassIs
<1> DEFINE u == sbuf[at]
<1>3. u \in Unit /\ u.packet \in Packet
  BY <1>2, SyncIs DEF Unit
<1>4. How(u) # "scrambled"
  <2>1. SUFFICES ASSUME How(u) = "scrambled" PROVE FALSE
    OBVIOUS
  <2> HIDE DEF u
  <2> DEFINE keyed == {e \in Decryptor(u.packet.program) : dec[e].m2 # 0}
  <2>2. u.packet.kind = "data" /\ u.packet.ecm # Clear /\ keyed = {} /\ pc = "proc"
    BY <2>1 DEF How
  <2>3. u.packet.ecm \in EcmPid /\ u.packet.program \in Program
    BY <1>3, <2>2 DEF Packet
  <2>4. Decryptor(u.packet.program) = EcmPid /\ \A e \in EcmPid : dec[e].phase # 0
    BY <2>2, <2>3, ReadyIs DEF Ready
  <2> QED BY <2>2, <2>3, <2>4 DEF Bought
<1>5. CASE Emitted' = Emitted
  BY <1>5 DEF WaitsForKeys
<1>6. ASSUME NEW n, n = Len(Emitted) + 1, DOMAIN Emitted' = 1 .. n, Emitted'[n] = ItemOf(u),
             \A k \in DOMAIN Emitted : Emitted'[k] = Emitted[k]
      PROVE  WaitsForKeys'
  <2>1. DOMAIN Emitted = 1 .. Len(Emitted) /\ Len(Emitted) \in Nat
    BY EmittedIs
  <2>2. ItemOf(u).how # "scrambled"
    BY <1>4 DEF ItemOf
  <2>3. \A k \in 1 .. n : k = n \/ k \in DOMAIN Emitted
    BY <1>6, <2>1
  <2> HIDE DEF u
  <2> QED BY <1>6, <2>2, <2>3 DEF WaitsForKeys
<1> QED BY <1>1, <1>2, <1>5, <1>6, SourcedEmission

\* Of a stream with one decryptor whose programs have been bought, no packet comes
\* out scrambled before flush(), whatever is lost or damaged, because put() holds
\* them back until an ECM has brought keys (put_arib_std_b1, lines 736-800).
THEOREM KeysAwaited ==
  OneDecryptor /\ "unpurchased" \notin Answers => (Spec => []WaitsForKeys)
<1> SUFFICES ASSUME OneDecryptor, "unpurchased" \notin Answers
             PROVE  Spec => []WaitsForKeys
  OBVIOUS
<1> DEFINE Inv == Base /\ Sourced /\ Ready /\ Counted /\ Bought /\ WaitsForKeys
<1>1. Init => Inv
  <2> SUFFICES ASSUME Init PROVE Inv
    OBVIOUS
  <2>1. Emitted = <<>> /\ DOMAIN Emitted = {}
    BY ConcatEmptySeq, EmptySeq DEF Init, Emitted
  <2>2. Sourced /\ WaitsForKeys
    BY <2>1 DEF Sourced, WaitsForKeys
  <2>3. Ready /\ Counted /\ Bought
    BY StreamAssumption DEF Init, Ready, Counted, Bought, NewDec
  <2> QED BY <2>2, <2>3, InitBase
<1>2. Inv /\ [Next]_vars => Inv'
  <2> SUFFICES ASSUME Inv, [Next]_vars PROVE Inv'
    OBVIOUS
  <2>1. Base' /\ Sourced' /\ Ready' /\ Counted' /\ Bought'
    BY BaseStep, SourcedStep, ReadyStep, CountedStep, BoughtStep
  <2>2. WaitsForKeys'
    <3>1. CASE Proc \/ FlushPacket
      BY <3>1, WaitsPass
    <3>2. CASE ~(Proc \/ FlushPacket)
      BY <3>2, QuietIs DEF Next, Done, WaitsForKeys
    <3> QED BY <3>1, <3>2
  <2> QED BY <2>1, <2>2
<1> QED BY <1>1, <1>2, PTL DEF Spec

-----------------------------------------------------------------------------
(* The keys are those of the packet's period.                              *)

\* Nothing hides a packet, and no ECM comes that the pass does not read.
Steady ==
  \A packet \in Kinds :
    packet.kind \notin {"junk", "broken"} /\ (packet \in Damaged => packet.kind # "ecm")

EcmAt(i) == sent[i].packet.kind = "ecm"

\* The periods follow one another, each with an ECM before the next.
Timeline ==
  /\ \A i \in 1 .. Len(sent) : sent[i].damaged => sent[i].packet \in Damaged
  /\ \A i, j \in 1 .. Len(sent) : i <= j => sent[i].period <= sent[j].period
  /\ \A i \in 1 .. Len(sent) : \A n \in 2 .. sent[i].period - 1 :
       \E j \in 1 .. i - 1 : EcmAt(j) /\ sent[j].period = n

\* A decryptor's keys are those of the newest ECM it has passed: from the first
\* one it has read on, which the search may have seen ahead of the pass.
Newest(d, f) ==
  d.since <= f =>
    /\ \E x \in d.since .. f : EcmAt(x) /\ sent[x].period = d.m2
    /\ \A x \in d.since .. f : EcmAt(x) => sent[x].period <= d.m2
Sound(d, f) ==
  /\ d.locked => d.m2 = 0
  /\ d.m2 = 0 /\ ~d.locked => d.since = 0
  /\ d.m2 # 0 =>
       d.last = d.m2 /\ d.since \in 1 .. given /\ EcmAt(d.since) /\ Newest(d, f)
Holds(e) ==
  /\ dec[e].m2 # 0 => e \in Alive(pat, pmt)
  /\ dec[e].phase = 0 /\ pc \notin Late => dec[e] = NewDec
Current == pc \notin Failures => \A e \in EcmPid : Holds(e) /\ Sound(dec[e], Front)

LEMMA TimelineBroadcast ==
  ASSUME Base, Counted, Timeline, Broadcast
  PROVE  Timeline'
<1>1. sent \in Seq(Unit) /\ Len(sent) \in Nat
  BY DEF Base, Shape
<1>2. \A i \in 1 .. Len(sent) : sent[i].period \in Nat /\ sent[i].period >= 1
  BY DEF Counted
<1>3. PICK packet \in Kinds, damaged \in BOOLEAN :
        /\ MayBroadcast(packet) /\ (damaged => packet \in Damaged)
        /\ sent' = Append(sent, [packet |-> packet, pos |-> Len(sent) + 1,
                                damaged |-> damaged,
                                period |-> IF Turns(packet) THEN Period + 1 ELSE Period])
  BY DEF Broadcast
<1>4. PICK m : m = Len(sent) + 1
  OBVIOUS
<1>5. /\ Len(sent') = m /\ \A i \in 1 .. Len(sent) : sent'[i] = sent[i]
      /\ sent'[m].packet = packet /\ sent'[m].damaged = damaged
      /\ sent'[m].period = IF Turns(packet) THEN Period + 1 ELSE Period
  BY <1>1, <1>3, <1>4, AppendProperties
<1>6. /\ Period \in Nat
      /\ \A i \in 1 .. Len(sent) : sent[i].period <= Period
      /\ Len(sent) = 0 => Period = 1
      /\ Len(sent) # 0 => Period = sent[Len(sent)].period
  BY <1>1, PeriodIs, EmptySeq DEF Base, Record, Period
<1>7. \A n \in 2 .. Period - 1 : \E j \in 1 .. Len(sent) : EcmAt(j) /\ sent[j].period = n
  <2>1. CASE Len(sent) = 0
    BY <1>6, <2>1
  <2>2. CASE Len(sent) # 0
    <3>1. Len(sent) \in 1 .. Len(sent)
      BY <1>1, <2>2
    <3>2. \A n \in 2 .. Period - 1 :
            \E j \in 1 .. Len(sent) - 1 : EcmAt(j) /\ sent[j].period = n
      BY <1>6, <2>2, <3>1 DEF Timeline
    <3>3. 1 .. Len(sent) - 1 \subseteq 1 .. Len(sent)
      BY <1>1
    <3> QED BY <3>2, <3>3
  <2> QED BY <2>1, <2>2
<1>8. ASSUME Turns(packet), Period >= 2
      PROVE  \E j \in 1 .. Len(sent) : EcmAt(j) /\ sent[j].period = Period
  <2>1. packet.kind = "data" /\ packet.ecm # Clear /\ EcmSent = EcmPid
    BY <1>3, <1>6, <1>8 DEF Turns, MayBroadcast
  <2>2. packet \in Packet
    BY StreamAssumption
  <2>3. packet.ecm \in EcmPid
    BY <2>1, <2>2 DEF Packet
  <2>4. PICK i \in DOMAIN sent : sent[i].packet.kind = "ecm" /\ sent[i].period = Period
    BY <2>1, <2>3 DEF EcmSent
  <2>5. DOMAIN sent = 1 .. Len(sent)
    BY <1>1, LenProperties
  <2> QED BY <2>4, <2>5 DEF EcmAt
<1>9. \A n \in 2 .. sent'[m].period - 1 :
        \E j \in 1 .. Len(sent) : EcmAt(j) /\ sent[j].period = n
  <2>1. SUFFICES ASSUME NEW n \in 2 .. sent'[m].period - 1
                 PROVE  \E j \in 1 .. Len(sent) : EcmAt(j) /\ sent[j].period = n
    OBVIOUS
  <2>2. CASE n \in 2 .. Period - 1
    BY <1>7, <2>2
  <2>3. CASE n \notin 2 .. Period - 1
    <3>1. Turns(packet) /\ n = Period /\ Period >= 2
      BY <1>5, <1>6, <2>1, <2>3
    <3> QED BY <1>8, <3>1
  <2> QED BY <2>2, <2>3
<1>10. \A i \in 1 .. m : i = m \/ i \in 1 .. Len(sent)
  BY <1>1, <1>4
<1>11. \A i \in 1 .. m : sent'[i].damaged => sent'[i].packet \in Damaged
  BY <1>3, <1>5, <1>10 DEF Timeline
<1>12. \A i, j \in 1 .. m : i <= j => sent'[i].period <= sent'[j].period
  <2>1. SUFFICES ASSUME NEW i \in 1 .. m, NEW j \in 1 .. m, i <= j
                 PROVE  sent'[i].period <= sent'[j].period
    OBVIOUS
  <2>2. CASE j = m
    BY <1>1, <1>2, <1>5, <1>6, <1>10, <2>2
  <2>3. CASE j # m
    <3>1. i \in 1 .. Len(sent) /\ j \in 1 .. Len(sent)
      BY <1>1, <1>4, <2>1, <2>3
    <3> QED BY <1>5, <2>1, <3>1 DEF Timeline
  <2> QED BY <2>2, <2>3
<1>13. ASSUME NEW i \in 1 .. m, NEW n \in 2 .. sent'[i].period - 1
       PROVE  \E j \in 1 .. i - 1 : EcmAt(j)' /\ sent'[j].period = n
  <2>1. PICK j \in 1 .. i - 1 : EcmAt(j) /\ sent[j].period = n
    <3>1. CASE i = m
      BY <1>1, <1>4, <1>9, <1>13, <3>1
    <3>2. CASE i # m
      BY <1>5, <1>10, <1>13, <3>2 DEF Timeline
    <3> QED BY <3>1, <3>2
  <2>2. j \in 1 .. Len(sent)
    BY <1>1, <1>4
  <2> QED BY <1>5, <2>1, <2>2 DEF EcmAt
<1> QED BY <1>5, <1>11, <1>12, <1>13 DEF Timeline

LEMMA TimelineStep == Base /\ Counted /\ Timeline /\ [Next]_vars => Timeline'
<1> SUFFICES ASSUME Base, Counted, Timeline, [Next]_vars PROVE Timeline'
  OBVIOUS
<1>1. CASE sent' = sent
  BY <1>1 DEF Timeline, EcmAt
<1>2. CASE Search \/ Proc \/ FlushPacket
  BY <1>1, <1>2, SearchIs, PassIs
<1>3. CASE Put \/ Stage \/ Broken \/ ProcEnds \/ Get
  BY <1>1, <1>3 DEF Put, Stage, Broken, ProcEnds, Get
<1>4. CASE Flush \/ FlushEnds \/ UNCHANGED vars
  BY <1>1, <1>4 DEF Flush, FlushEnds, vars
<1> QED BY <1>2, <1>3, <1>4, TimelineBroadcast DEF Next, Done

\* The next packet of a pass is the next unit.
LEMMA NextUnit ==
  ASSUME Base, Steady, NEW at \in At \cup FlushAt
  PROVE  at = curr + 1
<1>1. curr \in Nat /\ Len(sbuf) \in Nat
  BY DEF Base, Shape
<1>2. ASSUME NEW k \in 1 .. Len(sbuf) PROVE Sync(k)
  <2>1. /\ sbuf[k].packet \in Kinds \/ sent[Gone + k].packet.kind = "broken"
        /\ Gone + k \in 1 .. given /\ given <= Len(sent)
    BY UnitIs DEF Base
  <2>2. sent[Gone + k].packet \in Kinds
    BY <2>1 DEF Base, Shape, Record
  <2>3. sbuf[k].packet.kind # "junk"
    BY <2>1, <2>2 DEF Steady
  <2>4. DOMAIN sbuf = 1 .. Len(sbuf)
    BY LenProperties DEF Base, Shape
  <2> QED BY <2>3, <2>4 DEF Sync
<1>3. CASE at \in At
  BY <1>1, <1>2, <1>3 DEF At
<1>4. CASE at \in FlushAt
  BY <1>1, <1>2, <1>4 DEF FlushAt
<1> QED BY <1>3, <1>4

\* A decryptor as its steps leave it.
LEMMA SoundNew == \A f : Sound(NewDec, f)
BY DEF Sound, NewDec

\* A packet passed that is no new ECM.
LEMMA SoundPassed ==
  ASSUME NEW f \in Nat, NEW d \in Dec, Sound(d, f),
         d.m2 # 0 /\ EcmAt(f + 1) => sent[f + 1].period = d.last
  PROVE  Sound(d, f + 1)
<1>1. SUFFICES ASSUME d.m2 # 0, d.since <= f + 1
               PROVE  /\ \E x \in d.since .. f + 1 : EcmAt(x) /\ sent[x].period = d.m2
                      /\ \A x \in d.since .. f + 1 : EcmAt(x) => sent[x].period <= d.m2
  BY DEF Sound, Newest
<1>2. /\ d.last = d.m2 /\ d.since \in 1 .. given /\ EcmAt(d.since) /\ Newest(d, f)
  BY <1>1 DEF Sound
<1>3. EcmAt(f + 1) => sent[f + 1].period = d.m2
  BY <1>1, <1>2
<1>4. CASE d.since <= f
  <2>1. /\ \E x \in d.since .. f : EcmAt(x) /\ sent[x].period = d.m2
        /\ \A x \in d.since .. f : EcmAt(x) => sent[x].period <= d.m2
    BY <1>2, <1>4 DEF Newest
  <2>2. \A x \in d.since .. f + 1 : x \in d.since .. f \/ x = f + 1
    BY <1>2
  <2>3. \A x \in d.since .. f : x \in d.since .. f + 1
    BY <1>2
  <2> QED BY <1>3, <2>1, <2>2, <2>3
<1>5. CASE d.since = f + 1
  <2>1. f + 1 \in d.since .. f + 1 /\ \A x \in d.since .. f + 1 : x = f + 1
    BY <1>5
  <2>2. EcmAt(f + 1) /\ sent[f + 1].period = d.m2
    BY <1>2, <1>3, <1>5
  <2>3. d.m2 \in Nat
    BY DEF Dec
  <2> QED BY <2>1, <2>2, <2>3
<1> QED BY <1>1, <1>2, <1>4, <1>5

\* An ECM passed and read.
LEMMA SoundRead ==
  ASSUME Base, Timeline, Counted, NEW f \in Nat, f + 1 <= given, EcmAt(f + 1),
         NEW d \in Dec, Sound(d, f), NEW o \in EcmOutcomes(d, sent[f + 1]), o.ok
  PROVE  Sound(o.dec, f + 1)
<1>1. /\ given \in Nat /\ Len(sent) \in Nat /\ given <= Len(sent) /\ f + 1 \in 1 .. given
      /\ f + 1 \in 1 .. Len(sent) /\ \A i \in 1 .. Len(sent) : sent[i] \in Unit
  BY ElementOfSeq DEF Base, Shape
<1> DEFINE u == sent[f + 1]
<1>2. u \in Unit /\ u.pos = f + 1 /\ u.period \in Nat /\ u.period >= 1
  BY <1>1 DEF Base, Record, Counted
<1>3. \A x \in 1 .. f + 1 : sent[x].period <= u.period
  BY <1>1 DEF Timeline
<1> HIDE DEF u
<1>4. /\ o.dec \in Dec /\ o.dec.last = u.period
      /\ \/ /\ ~d.locked /\ o.dec.m2 = u.period /\ ~o.dec.locked
            /\ o.dec.since = IF d.since = 0 THEN u.pos ELSE d.since
         \/ o.dec.m2 = 0 /\ o.dec.locked
         \/ d.locked /\ o.dec.m2 = d.m2 /\ o.dec.locked
  BY <1>2, OutcomeCases DEF u
<1>5. CASE o.dec.locked
  BY <1>4, <1>5 DEF Sound
<1>6. CASE /\ ~d.locked /\ o.dec.m2 = u.period /\ ~o.dec.locked
           /\ o.dec.since = IF d.since = 0 THEN u.pos ELSE d.since
  <2>1. o.dec.since \in 1 .. given /\ EcmAt(o.dec.since)
    <3>1. CASE d.m2 = 0
      BY <1>1, <1>2, <1>6, <3>1 DEF Sound
    <3>2. CASE d.m2 # 0
      BY <1>6, <3>2 DEF Sound
    <3> QED BY <3>1, <3>2
  <2>2. CASE o.dec.since <= f + 1
    <3>1. f + 1 \in o.dec.since .. f + 1 /\ sent[f + 1].period = o.dec.m2
      BY <1>6, <2>1, <2>2 DEF u
    <3>2. \A x \in o.dec.since .. f + 1 : sent[x].period <= o.dec.m2
      BY <1>1, <1>3, <1>6, <2>1
    <3> QED BY <1>2, <1>4, <1>6, <2>1, <3>1, <3>2 DEF Sound, Newest
  <2>3. CASE ~(o.dec.since <= f + 1)
    BY <1>2, <1>4, <1>6, <2>1, <2>3 DEF Sound, Newest
  <2> QED BY <2>2, <2>3
<1> QED BY <1>4, <1>5, <1>6

\* The first ECM, ahead of the pass.
LEMMA SoundFound ==
  ASSUME Base, Counted, NEW f \in Nat, NEW j \in 1 .. given, f < j, EcmAt(j),
         NEW o \in EcmOutcomes(NewDec, sent[j]), o.ok
  PROVE  Sound(o.dec, f)
<1>1. /\ given \in Nat /\ Len(sent) \in Nat /\ given <= Len(sent) /\ j \in 1 .. Len(sent)
      /\ \A i \in 1 .. Len(sent) : sent[i] \in Unit
  BY ElementOfSeq DEF Base, Shape
<1>2. sent[j] \in Unit /\ sent[j].pos = j /\ sent[j].period \in Nat /\ sent[j].period >= 1
  BY <1>1 DEF Base, Record, Counted
<1>3. NewDec \in Dec /\ ~NewDec.locked /\ NewDec.since = 0
  BY NewDecIs DEF NewDec
<1>4. /\ o.dec \in Dec /\ o.dec.last = sent[j].period
      /\ \/ /\ o.dec.m2 = sent[j].period /\ ~o.dec.locked /\ o.dec.since = j
         \/ o.dec.m2 = 0 /\ o.dec.locked
  BY <1>2, <1>3, OutcomeCases
<1> QED BY <1>1, <1>2, <1>4 DEF Sound, Newest

\* A step that leaves the keys, and passes no unit.
LEMMA CurrentQuiet ==
  ASSUME Base, Current, UNCHANGED <<tables, dec>>, Front' = Front, given' >= given,
         given' \in Nat, sent' = sent \/ \E u \in Unit : sent' = Append(sent, u),
         pc \in Late => pc' \in Late, pc \in Failures => pc' \in Failures
  PROVE  Current'
<1>1. /\ sent \in Seq(Unit) /\ Len(sent) \in Nat /\ given \in Nat /\ given <= Len(sent)
      /\ Front \in Nat /\ Front <= given
  BY FrontIs DEF Base, Shape, Front, Gone
<1>2. \A i \in 1 .. given : sent'[i] = sent[i]
  BY <1>1, AppendProperties, SMTT(30)
<1>3. \A i \in 1 .. given : EcmAt(i)' = EcmAt(i) /\ sent'[i].period = sent[i].period
  BY <1>2 DEF EcmAt
<1>4. ASSUME NEW e \in EcmPid, Sound(dec[e], Front)
      PROVE  Sound(dec[e], Front)'
  <2>1. dec'[e] = dec[e]
    OBVIOUS
  <2>2. SUFFICES ASSUME dec[e].m2 # 0
                 PROVE  /\ dec[e].since \in 1 .. given' /\ EcmAt(dec[e].since)'
                        /\ Newest(dec[e], Front)'
    BY <1>4, <2>1 DEF Sound
  <2>3. dec[e].since \in 1 .. given /\ EcmAt(dec[e].since) /\ Newest(dec[e], Front)
    BY <1>4, <2>2 DEF Sound
  <2>4. \A x \in dec[e].since .. Front : x \in 1 .. given
    BY <1>1, <2>3
  <2>5. dec[e].since \in 1 .. given' /\ EcmAt(dec[e].since)'
    BY <1>1, <1>3, <2>3
  <2>6. Newest(dec[e], Front)'
    BY <1>3, <2>1, <2>3, <2>4 DEF Newest
  <2> QED BY <2>5, <2>6
<1>5. SUFFICES ASSUME pc' \notin Failures, NEW e \in EcmPid
               PROVE  Holds(e)' /\ Sound(dec[e], Front)'
  BY DEF Current
<1>6. Holds(e) /\ Sound(dec[e], Front)
  BY <1>5 DEF Current
<1> QED BY <1>4, <1>6 DEF Holds, tables

\* A PAT: all keys are gone.
LEMMA CurrentNewPat ==
  ASSUME Base, NEW programs, NewPat(programs)
  PROVE  Current'
<1>1. \A e \in EcmPid : dec'[e] = NewDec
  BY DEF NewPat
<1>2. ASSUME NEW e \in EcmPid PROVE Holds(e)' /\ Sound(dec[e], Front)'
  <2>1. dec'[e] = NewDec /\ NewDec.m2 = 0 /\ ~NewDec.locked /\ NewDec.since = 0
    BY <1>1 DEF NewDec
  <2> QED BY <2>1 DEF Holds, Sound
<1> QED BY <1>2 DEF Current

\* A PMT: its decryptor stays, or is new.
LEMMA HoldsNewPmt ==
  ASSUME OneDecryptor, Base, Current, pc \notin Failures, NEW p \in pat, pat # Null,
         NEW ecm \in EcmPid, NewPmt(p, ecm), pat' = pat, pc \in Late => pc' \in Late,
         NEW e \in EcmPid
  PROVE  Holds(e)' /\ dec'[e] \in {dec[e], NewDec}
<1>1. /\ pat \in SUBSET Program /\ pmt \in [Program -> EcmPid \cup {Clear, Null}]
      /\ pmt' = [pmt EXCEPT ![p] = ecm]
  BY DEF Base, Shape, NewPmt
<1>2. pmt' \in [Program -> EcmPid \cup {Clear, Null}] /\ pmt'[p] \in EcmPid
  BY <1>1
<1>3. Alive(pat, pmt') = EcmPid
  BY <1>1, <1>2, AliveIs
<1>4. dec'[e] = IF e \in Alive(pat, pmt) \cap Alive(pat, pmt') THEN dec[e] ELSE NewDec
  BY DEF NewPmt
<1>5. Holds(e)
  BY DEF Current
<1>6. CASE e \in Alive(pat, pmt)
  BY <1>3, <1>4, <1>5, <1>6 DEF Holds
<1>7. CASE e \notin Alive(pat, pmt)
  BY <1>4, <1>7 DEF Holds, NewDec
<1> QED BY <1>4, <1>6, <1>7

LEMMA CurrentSearch ==
  ASSUME OneDecryptor, Steady, Base, Ready, Counted, Timeline, Current, Search
  PROVE  Current'
<1>1. /\ UNCHANGED <<sent, given, sbuf>> /\ pc \in {"pat", "pmt", "ecm"}
      /\ Front' = Front /\ pc \notin Failures /\ pc \notin Late
      /\ given \in Nat /\ Front \in Nat
  BY SearchIs, QuietStep, FrontIs DEF Late, Failures, Base, Shape
<1>2. dec \in [EcmPid -> Dec] /\ Tables
  BY TablesOf DEF Base, Shape
<1>3. CASE UNCHANGED <<tables, dec>>
  BY <1>1, <1>3, CurrentQuiet
<1>4. \A d : Sound(d, Front)' <=> Sound(d, Front)
  BY <1>1 DEF Sound, Newest, EcmAt
<1>5. ASSUME NEW at \in 1 .. Len(sbuf), Sync(at), FindsTable(sbuf[at])
      PROVE  Current'
  <2> DEFINE u == sbuf[at]
             p == u.packet.program
  <2>1. u.packet \in Kinds /\ u.packet \in Packet
    BY <1>5, SyncIs DEF Unit
  <2>2. u.packet.kind = "pmt" => p \in Program /\ u.packet.ecm \in EcmPid
    BY <2>1, PacketParts DEF OneDecryptor
  <2> HIDE DEF u
  <2>3. CASE u.packet.kind = "pat" /\ NewPat(u.packet.programs)
    BY <2>3, CurrentNewPat
  <2>4. CASE IsPmt(u) /\ NewPmt(p, u.packet.ecm) /\ pat' = pat
    <3>1. p \in pat /\ pat # Null /\ u.packet.ecm \in EcmPid
      BY <2>2, <2>4 DEF IsPmt
    <3>2. \A e \in EcmPid : Holds(e)' /\ dec'[e] \in {dec[e], NewDec}
      BY <1>1, <2>4, <3>1, HoldsNewPmt
    <3>3. \A e \in EcmPid : Sound(dec[e], Front) /\ Sound(NewDec, Front)
      BY <1>1, SoundNew DEF Current
    <3>4. \A e \in EcmPid : Sound(dec'[e], Front)
      BY <3>2, <3>3
    <3>5. \A e \in EcmPid : Sound(dec[e], Front)'
      BY <1>1, <3>4 DEF Sound, Newest, EcmAt
    <3> QED BY <3>2, <3>5 DEF Current
  <2>5. CASE IsPmt(u) /\ UNCHANGED <<pat, pmt, dec>>
    <3>1. \A e \in EcmPid : Holds(e) /\ Sound(dec[e], Front)
      BY <1>1 DEF Current
    <3>2. \A e \in EcmPid : Holds(e)'
      BY <1>1, <2>5, <3>1 DEF Holds
    <3>3. \A e \in EcmPid : Sound(dec[e], Front)'
      BY <1>1, <2>5, <3>1, SMTT(30) DEF Sound, Newest, EcmAt
    <3> QED BY <3>2, <3>3 DEF Current
  <2> QED BY <1>5, <2>3, <2>4, <2>5 DEF FindsTable, u
<1>6. ASSUME NEW at \in 1 .. Len(sbuf), Sync(at), FindsEcm(sbuf[at]), UNCHANGED tables
      PROVE  Current'
  <2>1. IsEcm(sbuf[at])
    BY <1>6 DEF FindsEcm
  <2>2. PICK e \in EcmPid : e = sbuf[at].packet.pid /\ e \in Alive(pat, pmt)
    BY <1>2, <2>1, IsEcmIs DEF IsEcm
  <2>3. PICK j \in 1 .. given : Front < j /\ sbuf[at] = sent[j] /\ sbuf[at] \in Unit
    <3>1. sbuf[at] = sent[Gone + at] /\ Gone + at \in 1 .. given /\ sbuf[at] \in Unit
      BY <1>6, SyncIs
    <3>2. Front = Gone /\ Gone \in Nat
      BY <1>1, FrontIs DEF Front, Passing
    <3> QED BY <3>1, <3>2
  <2>4. EcmAt(j) /\ \A f \in EcmPid : f = e
    BY <1>2, <2>1, <2>3, IsEcmIs DEF EcmAt, OneDecryptor
  <2>5. Holds(e) /\ Sound(dec[e], Front) /\ dec[e] \in Dec
    BY <1>1, <1>2 DEF Current
  <2>6. SUFFICES ASSUME pc' \notin Failures PROVE Holds(e)' /\ Sound(dec[e], Front)'
    BY <2>4 DEF Current
  <2>7. pat' = pat /\ pmt' = pmt
    BY <1>6 DEF tables
  <2>8. CASE dec[e].phase # 0 /\ dec' = [dec EXCEPT ![e].phase = 2]
    <3>1. /\ dec'[e].m2 = dec[e].m2 /\ dec'[e].last = dec[e].last
          /\ dec'[e].locked = dec[e].locked /\ dec'[e].since = dec[e].since
          /\ dec'[e].phase = 2
      BY <1>2, <2>5, <2>8 DEF Dec
    <3>2. Holds(e)'
      BY <2>2, <2>7, <3>1 DEF Holds
    <3>3. Sound(dec'[e], Front)
      BY <2>5, <3>1 DEF Sound, Newest
    <3> QED BY <1>1, <3>2, <3>3 DEF Sound, Newest, EcmAt
  <2>9. ASSUME dec[e].phase = 0, NEW o \in EcmOutcomes(dec[e], sent[j]),
               dec' = [dec EXCEPT ![e] = [o.dec EXCEPT !.phase = IF o.ok THEN 1 ELSE 0]],
               ~o.ok => pc' = "ECM_PROC_FAILURE"
        PROVE  Holds(e)' /\ Sound(dec[e], Front)'
    <3>1. o.ok
      BY <2>6, <2>9 DEF Failures
    <3>2. dec[e] = NewDec
      BY <1>1, <2>5, <2>9 DEF Holds
    <3>3. Sound(o.dec, Front)
      BY <1>1, <2>3, <2>4, <2>9, <3>1, <3>2, SoundFound
    <3>4. o.dec \in Dec
      BY <2>3, <2>5, <2>9, OutcomeCases
    <3>5. dec'[e] = [o.dec EXCEPT !.phase = 1]
      BY <1>2, <2>9, <3>1
    <3>6. /\ dec'[e].m2 = o.dec.m2 /\ dec'[e].last = o.dec.last
          /\ dec'[e].locked = o.dec.locked /\ dec'[e].since = o.dec.since
          /\ dec'[e].phase = 1
      BY <3>4, <3>5 DEF Dec
    <3>7. Holds(e)'
      BY <2>2, <2>7, <3>6 DEF Holds
    <3>8. Sound(dec'[e], Front)
      BY <3>3, <3>6 DEF Sound, Newest
    <3> QED BY <1>1, <3>7, <3>8 DEF Sound, Newest, EcmAt
  <2> QED BY <1>6, <2>2, <2>3, <2>8, <2>9 DEF FindsEcm
<1> QED BY <1>3, <1>5, <1>6, SearchIs

LEMMA CurrentPass ==
  ASSUME OneDecryptor, Steady, Base, Ready, Counted, Timeline, Current, Proc \/ FlushPacket
  PROVE  Current'
<1>1. Passing /\ UNCHANGED <<sent, given, out>> /\ pc \notin Failures
  BY PassIs DEF Passing, Failures
<1>2. PICK at \in IF pc = "flush" THEN FlushAt ELSE At :
        /\ at \in 1 .. Len(sbuf) /\ Sync(at) /\ Reads(sbuf[at])
        /\ (GoneOverAt(at) /\ (pc # "flush" => pat' = pat)) \/ (CutAt(at) /\ pc # "flush")
  BY PassIs
<1>3. at = curr + 1
  BY <1>2, NextUnit
<1>4. PICK f \in Nat : f = Front
  BY FrontIs
<1>5. /\ sbuf[at] = sent[f + 1] /\ sbuf[at] \in Unit /\ sbuf[at].packet \in Kinds
      /\ f + 1 \in 1 .. given /\ given \in Nat
      /\ f + 1 \in 1 .. Len(sent)
  <2>1. /\ sbuf[at] = sent[Gone + at] /\ sbuf[at] \in Unit /\ sbuf[at].packet \in Kinds
        /\ Gone + at \in 1 .. given /\ given <= Len(sent)
    BY <1>2, SyncIs
  <2>2. Gone + at = f + 1
    BY <1>1, <1>3, <1>4 DEF Front, Gone, Base, Shape
  <2>3. given \in Nat /\ Len(sent) \in Nat
    BY DEF Base, Shape
  <2> QED BY <2>1, <2>2, <2>3
<1>6. dec \in [EcmPid -> Dec] /\ Tables
  BY TablesOf DEF Base, Shape
<1> DEFINE u == sent[f + 1]
<1>7. GoneOverAt(at) /\ pc' \notin Failures => Front' = f + 1
  <2>1. SUFFICES ASSUME GoneOverAt(at), pc' \notin Failures PROVE Front' = f + 1
    OBVIOUS
  <2>2. pc' = pc /\ curr' = curr + 1 /\ Gone' = Gone /\ curr \in Nat /\ Gone \in Nat
    BY <1>1, <1>3, <2>1, FrontIs DEF GoneOverAt, Failures, Gone, Base, Shape
  <2> QED BY <1>1, <1>4, <2>2 DEF Front, Passing
<1>8. CASE NewPat(u.packet.programs)
  BY <1>8, CurrentNewPat
<1>9. u.damaged => ~EcmAt(f + 1)
  BY <1>5 DEF Timeline, Steady, EcmAt
<1>10. EcmAt(f + 1) <=> u.packet.kind = "ecm"
  BY DEF EcmAt
<1>11. \A d : Sound(d, f + 1)' <=> Sound(d, f + 1)
  BY <1>1 DEF Sound, Newest, EcmAt
<1> HIDE DEF u
<1>12. ASSUME GoneOverAt(at), pc' \notin Failures, NEW e \in EcmPid, Sound(dec'[e], f + 1),
              Holds(e)'
       PROVE  Holds(e)' /\ Sound(dec[e], Front)'
  <2>1. Front' = f + 1
    BY <1>7, <1>12
  <2> QED BY <1>1, <1>12, <2>1 DEF Sound, Newest, EcmAt
<1>13. ASSUME NEW e \in EcmPid PROVE Holds(e) /\ Sound(dec[e], f) /\ dec[e] \in Dec
  BY <1>1, <1>4, <1>6 DEF Current
<1>14. CASE IsPmt(u) /\ NewPmt(u.packet.program, u.packet.ecm) /\ UNCHANGED <<pat, phase, pc>>
  <2>1. u.packet \in Packet /\ u.packet \in Kinds
    BY <1>5 DEF u, Unit
  <2>2. /\ u.packet.program \in pat /\ pat # Null /\ u.packet.ecm \in EcmPid
        /\ u.packet.kind = "pmt"
    BY <1>14, <2>1, PacketParts DEF IsPmt, OneDecryptor
  <2>3. GoneOverAt(at)
    BY <1>2, <1>14 DEF CutAt
  <2>4. ASSUME NEW e \in EcmPid PROVE Holds(e)' /\ Sound(dec'[e], f + 1)
    <3>1. Holds(e)' /\ dec'[e] \in {dec[e], NewDec}
      BY <1>1, <1>14, <2>2, HoldsNewPmt
    <3>2. Sound(dec[e], f + 1)
      BY <1>10, <1>13, <2>2, SoundPassed
    <3> QED BY <3>1, <3>2, SoundNew
  <2> QED BY <1>12, <2>3, <2>4 DEF Current
<1>15. CASE /\ ~u.damaged /\ IsNewEcm(u) /\ UNCHANGED tables
            /\ \E o \in EcmOutcomes(dec[u.packet.pid], u) :
                 /\ dec' = [dec EXCEPT ![u.packet.pid] = o.dec]
                 /\ pc' = IF o.ok THEN pc ELSE "ECM_PROC_FAILURE"
  <2>1. PICK e : e = u.packet.pid
    OBVIOUS
  <2>2. e \in EcmPid /\ u.packet.kind = "ecm" /\ e \in Alive(pat, pmt)
    BY <1>6, <1>15, <2>1, IsEcmIs DEF IsNewEcm, IsEcm
  <2>3. PICK o \in EcmOutcomes(dec[e], u) :
          dec' = [dec EXCEPT ![e] = o.dec] /\ pc' = IF o.ok THEN pc ELSE "ECM_PROC_FAILURE"
    BY <1>15, <2>1
  <2>4. GoneOverAt(at)
    BY <1>2, <1>15 DEF CutAt, tables
  <2>5. SUFFICES ASSUME pc' \notin Failures PROVE Holds(e)' /\ Sound(dec'[e], f + 1)
    BY <1>12, <2>2, <2>4 DEF Current, OneDecryptor
  <2>6. o.ok /\ dec'[e] = o.dec /\ pc' = pc
    BY <1>6, <2>2, <2>3, <2>5 DEF Failures
  <2>7. Sound(o.dec, f + 1)
    BY <1>5, <1>10, <1>13, <2>2, <2>3, <2>6, SoundRead DEF u
  <2>8. o.dec.phase = dec[e].phase
    BY <1>5, <1>13, <2>2, <2>3, OutcomeCases DEF u
  <2>9. dec'[e].phase = 0 => pc' \in Late
    <3>1. CASE pc = "proc"
      BY <2>2, <2>6, <2>8, <3>1, ReadyIs DEF Ready
    <3>2. CASE pc # "proc"
      BY <1>1, <2>6, <3>2 DEF Passing, Late
    <3> QED BY <3>1, <3>2
  <2>10. Holds(e)'
    BY <1>15, <2>2, <2>9 DEF Holds, tables
  <2> QED BY <2>6, <2>7, <2>10
<1>16. CASE PassesBy(u) /\ UNCHANGED <<tables, dec, pc>>
  <2>1. GoneOverAt(at)
    BY <1>2, <1>16 DEF CutAt, tables
  <2>2. ASSUME NEW e \in EcmPid PROVE Holds(e)' /\ Sound(dec'[e], f + 1)
    <3>1. Holds(e)'
      BY <1>13, <1>16 DEF Holds, tables
    <3>2. dec[e].m2 # 0 /\ EcmAt(f + 1) => sent[f + 1].period = dec[e].last
      <4>1. SUFFICES ASSUME dec[e].m2 # 0, EcmAt(f + 1)
                     PROVE  u.period = dec[e].last
        BY DEF u
      <4>2. u.packet \in Packet /\ u.packet.kind = "ecm"
        BY <1>5, <1>10, <4>1 DEF u, Unit
      <4>3. u.packet.pid = e /\ e \in Alive(pat, pmt)
        BY <1>13, <4>1, <4>2, PacketParts DEF OneDecryptor, Holds
      <4> QED BY <1>9, <1>16, <4>1, <4>2, <4>3 DEF PassesBy, IsNewEcm, IsEcm
    <3>3. Sound(dec[e], f + 1)
      BY <1>13, <3>2, SoundPassed
    <3> QED BY <1>16, <3>1, <3>3
  <2> QED BY <1>12, <2>1, <2>2 DEF Current
<1>17. Reads(u)
  BY <1>2, <1>5 DEF u
<1> QED BY <1>8, <1>14, <1>15, <1>16, <1>17 DEF Reads

LEMMA CurrentStep ==
  OneDecryptor /\ Steady /\ Base /\ Ready /\ Counted /\ Timeline /\ Current /\ [Next]_vars
    => Current'
<1> SUFFICES ASSUME OneDecryptor, Steady, Base, Ready, Counted, Timeline, Current, [Next]_vars
             PROVE  Current'
  OBVIOUS
<1>1. CASE Search
  BY <1>1, CurrentSearch
<1>2. CASE Proc \/ FlushPacket
  BY <1>2, CurrentPass
<1>3. CASE Broken
  <2>1. PICK at \in At \cup FlushAt : at \in 1 .. Len(sbuf) /\ sbuf[at].packet.kind = "broken"
    BY <1>3, BrokenIs
  <2>2. sbuf[at].packet \in Kinds \/ sbuf[at].packet.kind = "junk"
    BY <2>1, UnitIs DEF Base
  <2> QED BY <2>1, <2>2 DEF Steady
<1>4. CASE Broadcast \/ Put \/ Stage \/ ProcEnds \/ Get \/ Flush \/ FlushEnds \/ UNCHANGED vars
  <2>1. UNCHANGED <<tables, dec>>
    BY <1>4, TablesStay
  <2>2. /\ given' >= given /\ given' \in Nat
        /\ sent' = sent \/ \E u \in Unit : sent' = Append(sent, u)
    BY <1>4, QuietIs
  <2>3. Front' = Front
    <3>1. CASE Put \/ Stage \/ ProcEnds \/ Get \/ Flush
      BY <3>1, QuietStep
    <3>2. CASE FlushEnds
      <4>1. /\ pc = "flush" /\ pc' = "end" /\ Drop(curr) /\ UNCHANGED <<sent, given>>
            /\ curr \in 0 .. Len(sbuf)
        BY <3>2 DEF FlushEnds, Base, Shape
      <4> QED BY <4>1, DropIs DEF Front, Passing
    <3>3. CASE Broadcast \/ UNCHANGED vars
      BY <3>3 DEF Broadcast, vars, Front, Gone, Passing
    <3> QED BY <1>4, <3>1, <3>2, <3>3
  <2>4. /\ pc \in Late => pc' \in Late
        /\ pc \in Failures => pc' \in Failures
    <3>1. CASE Broadcast \/ Put \/ Stage \/ ProcEnds
      BY <3>1 DEF Broadcast, Put, Stage, ProcEnds, After, Late, Failures
    <3>2. CASE Get \/ Flush \/ FlushEnds \/ UNCHANGED vars
      BY <3>2 DEF Get, Flush, FlushEnds, vars, Late, Failures
    <3> QED BY <1>4, <3>1, <3>2
  <2> QED BY <2>1, <2>2, <2>3, <2>4, CurrentQuiet
<1> QED BY <1>1, <1>2, <1>3, <1>4 DEF Next, Done

\* What is descrambled has come after the ECM its keys are from, and before the
\* ECM of the period after the next.
LEMMA NoneGarbled ==
  ASSUME OneDecryptor, Steady, Base, Counted, Timeline, Current, Passing,
         NEW at \in 1 .. Len(sbuf), at = curr + 1, Sync(at)
  PROVE  How(sbuf[at]) # "garbled"
<1>1. PICK f \in Nat : f = Front /\ Gone + at = f + 1
  <2>1. Gone \in Nat /\ curr \in Nat /\ Front = Gone + curr /\ Front \in Nat
    BY FrontIs DEF Front, Base, Shape
  <2> QED BY <2>1
<1> DEFINE u == sbuf[at]
<1>2. /\ u = sent[f + 1] /\ u \in Unit /\ u.packet \in Packet /\ u.pos = f + 1
      /\ f + 1 \in 1 .. given /\ given <= Len(sent) /\ given \in Nat /\ Len(sent) \in Nat
      /\ f + 1 \in 1 .. Len(sent)
  <2>1. u = sent[Gone + at] /\ u \in Unit /\ u.pos = Gone + at
        /\ Gone + at \in 1 .. given /\ given <= Len(sent)
    BY SyncIs
  <2>2. given \in Nat /\ Len(sent) \in Nat
    BY DEF Base, Shape
  <2> QED BY <1>1, <2>1, <2>2 DEF Unit
<1>3. dec \in [EcmPid -> Dec]
  BY DEF Base, Shape
<1> HIDE DEF u
<1>4. SUFFICES ASSUME How(u) = "garbled" PROVE FALSE
  BY DEF u
<1>5. u.packet.kind = "data" /\ u.packet.ecm # Clear
  BY <1>4 DEF How
<1> DEFINE keyed == {d \in Decryptor(u.packet.program) : dec[d].m2 # 0}
<1>6. PICK e \in keyed :
        /\ ~(e = u.packet.ecm /\ u.period \in {dec[e].m2, dec[e].m2 + 1})
        /\ ~(u.pos < dec[e].since)
  BY <1>4 DEF How
<1>7. e \in EcmPid /\ e = u.packet.ecm /\ dec[e].m2 # 0
  <2>1. u.packet.ecm \in EcmPid /\ u.packet.program \in Program
    BY <1>2, <1>5 DEF Packet
  <2>2. Decryptor(u.packet.program) \subseteq EcmPid
    BY <2>1 DEF Decryptor, Alive, Base, Shape
  <2> QED BY <1>6, <2>1, <2>2 DEF OneDecryptor
<1> DEFINE m == dec[e].m2
           s == dec[e].since
<1>8. /\ m \in Nat /\ m # 0 /\ s \in 1 .. given /\ EcmAt(s) /\ Newest(dec[e], f)
      /\ u.period \notin {m, m + 1} /\ s <= f + 1
  <2>1. Sound(dec[e], f)
    BY <1>1, <1>7 DEF Current, Passing, Failures
  <2>2. dec[e].m2 \in Nat /\ dec[e].since \in Nat
    BY <1>3, <1>7 DEF Dec
  <2>3. s \in 1 .. given /\ EcmAt(s) /\ Newest(dec[e], f)
    BY <1>7, <2>1 DEF Sound
  <2>4. u.period \notin {m, m + 1} /\ ~(f + 1 < s)
    BY <1>2, <1>6, <1>7
  <2>5. m \in Nat /\ m # 0 /\ s \in Nat
    BY <1>7, <2>2
  <2> HIDE DEF m, s, keyed
  <2> QED BY <2>3, <2>4, <2>5
<1>9. s <= f
  <2>1. s # f + 1
    BY <1>2, <1>5, <1>8 DEF EcmAt
  <2> QED BY <1>8, <2>1
<1>10. /\ \E x \in s .. f : EcmAt(x) /\ sent[x].period = m
       /\ \A x \in s .. f : EcmAt(x) => sent[x].period <= m
  BY <1>8, <1>9 DEF Newest
<1>11. \A x \in 1 .. f + 1 : /\ sent[x].period <= u.period
                             /\ sent[x].period \in Nat /\ x \in 1 .. Len(sent)
  BY <1>2 DEF Timeline, Counted
<1> HIDE DEF m, s
<1>12. u.period \in Nat /\ u.period >= m + 2
  <2>1. PICK x \in s .. f : sent[x].period = m
    BY <1>10
  <2>2. x \in 1 .. f + 1 /\ f + 1 \in 1 .. f + 1
    BY <1>8, <2>1
  <2>3. m <= u.period /\ u.period \in Nat
    BY <1>2, <1>11, <2>1, <2>2
  <2> QED BY <1>8, <2>3
<1>13. PICK y \in 1 .. f : EcmAt(y) /\ sent[y].period = u.period - 1
  <2>1. u.period - 1 \in 2 .. u.period - 1
    BY <1>8, <1>12
  <2>2. \A n \in 2 .. sent[f + 1].period - 1 :
          \E j \in 1 .. (f + 1) - 1 : EcmAt(j) /\ sent[j].period = n
    BY <1>2 DEF Timeline
  <2> QED BY <1>2, <2>1, <2>2
<1>14. CASE y < s
  <2>1. sent[y].period <= sent[s].period
    BY <1>2, <1>8, <1>9, <1>13, <1>14, SMTT(30) DEF Timeline
  <2>2. sent[s].period <= m /\ sent[s].period \in Nat
    BY <1>8, <1>9, <1>10, <1>11
  <2> QED BY <1>8, <1>12, <1>13, <2>1, <2>2, SMTT(30)
<1>15. CASE y >= s
  <2>1. sent[y].period <= m
    BY <1>8, <1>10, <1>13, <1>15
  <2> QED BY <1>8, <1>12, <1>13, <2>1
<1> QED BY <1>8, <1>13, <1>14, <1>15

LEMMA GarbledPass ==
  ASSUME OneDecryptor, Steady, Base, Sourced, Counted, Timeline, Current, NotGarbled,
         Proc \/ FlushPacket
  PROVE  NotGarbled'
<1>1. Passing /\ UNCHANGED <<sent, given, out>>
  BY PassIs
<1>2. PICK at \in At \cup FlushAt : at \in 1 .. Len(sbuf) /\ Sync(at) /\ Emit(sbuf[at])
  BY PassIs
<1>3. How(sbuf[at]) # "garbled"
  BY <1>1, <1>2, NextUnit, NoneGarbled
<1>4. CASE Emitted' = Emitted
  BY <1>4 DEF NotGarbled
<1>5. ASSUME NEW n, n = Len(Emitted) + 1, DOMAIN Emitted' = 1 .. n,
             Emitted'[n] = ItemOf(sbuf[at]),
             \A k \in DOMAIN Emitted : Emitted'[k] = Emitted[k]
      PROVE  NotGarbled'
  <2>1. DOMAIN Emitted = 1 .. Len(Emitted) /\ Len(Emitted) \in Nat
    BY EmittedIs
  <2>2. ItemOf(sbuf[at]).how # "garbled"
    BY <1>3 DEF ItemOf
  <2>3. \A k \in 1 .. n : k = n \/ k \in DOMAIN Emitted
    BY <1>5, <2>1
  <2> QED BY <1>5, <2>2, <2>3 DEF NotGarbled
<1> QED BY <1>1, <1>2, <1>4, <1>5, SourcedEmission

\* Of a stream with one decryptor that arrives with its sync bytes and its ECMs
\* whole, every packet that comes out descrambled from the first ECM on has been
\* descrambled with the keys of its period, although put() has read an ECM ahead
\* of the pass and reads it again (find_ecm and proc_ecm against
\* proc_arib_std_b1, lines 1385 and 1826), and whatever the card answers.
THEOREM KeysMatch == OneDecryptor /\ Steady => (Spec => []NotGarbled)
<1> SUFFICES ASSUME OneDecryptor, Steady PROVE Spec => []NotGarbled
  OBVIOUS
<1> DEFINE Inv == /\ Base /\ Sourced /\ Ready /\ Counted /\ Timeline /\ Current
                  /\ NotGarbled
<1>1. Init => Inv
  <2> SUFFICES ASSUME Init PROVE Inv
    OBVIOUS
  <2>1. Emitted = <<>> /\ DOMAIN Emitted = {}
    BY ConcatEmptySeq, EmptySeq DEF Init, Emitted
  <2>2. Sourced /\ NotGarbled
    BY <2>1 DEF Sourced, NotGarbled
  <2>3. Ready /\ Counted /\ Timeline
    BY StreamAssumption DEF Init, Ready, Counted, Timeline
  <2>4. Current
    BY SoundNew DEF Init, Current, Holds, NewDec
  <2> QED BY <2>2, <2>3, <2>4, InitBase
<1>2. Inv /\ [Next]_vars => Inv'
  <2> SUFFICES ASSUME Inv, [Next]_vars PROVE Inv'
    OBVIOUS
  <2>1. Base' /\ Sourced' /\ Ready' /\ Counted' /\ Timeline' /\ Current'
    BY BaseStep, SourcedStep, ReadyStep, CountedStep, TimelineStep, CurrentStep
  <2>2. NotGarbled'
    <3>1. CASE Proc \/ FlushPacket
      BY <3>1, GarbledPass
    <3>2. CASE ~(Proc \/ FlushPacket)
      BY <3>2, QuietIs DEF Next, Done, NotGarbled
    <3> QED BY <3>1, <3>2
  <2> QED BY <2>1, <2>2
<1> QED BY <1>1, <1>2, PTL DEF Spec

=============================================================================
