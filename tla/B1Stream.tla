------------------------------ MODULE B1Stream ------------------------------
(***************************************************************************)
(* The packet pipeline of the descrambler, src/b1/arib_std_b1.c: put()     *)
(* holds the stream back until it has found a PAT, then the PMTs, then the *)
(* ECMs, looking ahead in the buffer each time, and then goes over the     *)
(* buffer again from its head, descrambles and emits the packets and       *)
(* follows the tables; get() hands the emitted packets over; flush() emits *)
(* the rest.  Each turn of one of the loops over packets is a step.        *)
(*                                                                         *)
(* The buffer is a sequence of units of 188 bytes (unit_size is never      *)
(* anything else): packets, and junk where the sync byte is missing.       *)
(* Sections fit into one packet and a parser hands over what differs from  *)
(* the section before (module SectionParser).  Of the tables (module       *)
(* PidMap) there is what a scrambled packet needs: a program has one       *)
(* elementary stream, of the same name, bound to the decryptor of the ECM  *)
(* PID its PMT announces; a decryptor is alive while a program is bound to *)
(* it.  The CAT and memory that runs out are left out.  A negative result  *)
(* is the last the caller wants (src/recskapa.c:184), so what the code     *)
(* clears after one is left as it is.                                      *)
(*                                                                         *)
(* A damaged packet has transport_error_indicator set and what it carries  *)
(* is whole by chance; damaged so that it cannot be read it is like a      *)
(* damaged null packet.  A broken one has an adaptation field longer than  *)
(* itself, and its PID is none of the tables'.                             *)
(*                                                                         *)
(* Keys change with the period: the ECM of period n brings the keys of n   *)
(* and n + 1, one for each value of transport_scrambling_control, and is   *)
(* broadcast before period n + 1 begins.                                   *)
(***************************************************************************)
EXTENDS Integers, Sequences, FiniteSetsExt

CONSTANTS
  Program,      \* programs, by the PID of their PMT
  EcmPid,
  Clear,        \* announced by the PMT of a program without CA descriptor
  Null,
  Kinds,        \* the units broadcast: Packet or a part of it
  Damaged,      \* those of them that may arrive damaged
  Strip,        \* the option to leave null packets out
  SyncRun,      \* 8 in the code: packets in a row that resync() wants
  MaxWait,      \* 32 MB (16 MB for the PAT) in the code: units scanned in vain
  Answers,      \* what the card may answer: a subset of Answer
  MaxFaults,    \* bound: damaged and broken packets and junk
  MaxUnits,     \* bound: units broadcast
  MaxBlock      \* bound: units in one put()

Answer == {"purchased", "unpurchased", "error"}

Packet ==
  [kind : {"pat"}, programs : SUBSET Program]
    \cup [kind : {"pmt"}, program : Program, ecm : EcmPid \cup {Clear}]
    \cup [kind : {"ecm"}, pid : EcmPid]
    \cup [kind : {"data"}, program : Program, ecm : EcmPid \cup {Clear}, turn : BOOLEAN]
    \cup [kind : {"null", "junk", "broken"}]

ASSUME StreamAssumption ==
  /\ Null \notin EcmPid \cup {Clear} /\ Clear \notin EcmPid
  /\ Kinds \subseteq Packet /\ Answers \subseteq Answer /\ Damaged \subseteq Kinds
  /\ Strip \in BOOLEAN /\ MaxFaults \in Nat
  /\ {SyncRun, MaxWait, MaxUnits, MaxBlock} \subseteq Nat \ {0}
  /\ SyncRun > 1 /\ SyncRun <= MaxWait
  /\ \A programs \in SUBSET Program : programs # Null

VARIABLES
  sent,      \* history: the units broadcast
  given,     \* number of them handed to put()
  sbuf,      \* prv->sbuf: units to go over
  sbuf_offset,  \* where the search for PAT, PMT or ECM goes on
  dbuf,      \* prv->dbuf: emitted, to be fetched by get()
  out,       \* fetched by get()
  pat,       \* the programs of the last PAT, Null before the first
  phase,     \* of each program: 0, 1 a PMT found, 2 its PID seen again
  pmt,       \* what the last PMT of each program announced, Null without one
  dec,       \* the decryptor of each ECM PID
  curr,      \* units before the loop's position
  pc         \* the loop put() or flush() is in

tables == <<pat, phase, pmt>>
vars == <<sent, given, sbuf, sbuf_offset, dbuf, out, pat, phase, pmt, dec, curr, pc>>

Failures == {"NO_PAT_IN_HEAD", "NO_PMT_IN_HEAD", "NO_ECM_IN_HEAD", "ECM_PROC_FAILURE"}

\* A decryptor: the period of the last ECM it has read and of the one its keys
\* are from (0 for none), and, as history, the position of the first of those.
NewDec == [phase |-> 0, m2 |-> 0, locked |-> FALSE, last |-> 0, since |-> 0]

Init ==
  /\ sent = <<>> /\ given = 0
  /\ sbuf = <<>> /\ sbuf_offset = 0 /\ dbuf = <<>> /\ out = <<>>
  /\ pat = Null
  /\ phase = [p \in Program |-> 0] /\ pmt = [p \in Program |-> Null]
  /\ dec = [e \in EcmPid |-> NewDec]
  /\ curr = 0 /\ pc = "idle"

(***************************************************************************)
(* The broadcaster and the tuner.                                          *)
(***************************************************************************)
Period == IF sent = <<>> THEN 1 ELSE sent[Len(sent)].period

\* The ECMs broadcast in this period, and what a program's last PMT says.
EcmSent == {sent[i].packet.pid : i \in {k \in DOMAIN sent :
              sent[k].packet.kind = "ecm" /\ sent[k].period = Period}}
Announced(p) ==
  LET is == {i \in DOMAIN sent : sent[i].packet.kind = "pmt" /\ sent[i].packet.program = p}
  IN  IF is = {} THEN Null ELSE sent[Max(is)].packet.ecm

Turns(packet) == packet.kind = "data" /\ packet.turn

\* A PMT brings its program back to an ECM PID that it has left under the same
\* PAT: what then becomes of the map is in module PidMap.
Returns(packet) ==
  LET Last(i) == Max({0} \cup {k \in 1 .. i - 1 : sent[k].packet.kind = "pat"})
      newPat == {i \in DOMAIN sent : /\ sent[i].packet.kind = "pat" /\ Last(i) # 0
                                     /\ sent[Last(i)].packet # sent[i].packet}
  IN  \E i, j \in DOMAIN sent :
        /\ i < j /\ \A k \in newPat : k < i
        /\ sent[i].packet = packet /\ sent[j].packet.kind = "pmt"
        /\ sent[j].packet.program = packet.program /\ sent[j].packet # packet

\* A program is scrambled as its PMT says, and its PMT does not return.  A new
\* period begins with a packet scrambled with its keys, once the ECMs of the
\* period that ends have been broadcast; in period 1, into which the recording
\* began, that was before.
MayBroadcast(packet) ==
  /\ packet.kind = "data" =>
       /\ Announced(packet.program) \in {Null, packet.ecm}
       /\ packet.turn => packet.ecm # Clear /\ (Period = 1 \/ EcmSent = EcmPid)
  /\ packet.kind = "pmt" => packet.ecm = Clear \/ ~Returns(packet)

Faulty(u) == u.damaged \/ u.packet.kind \in {"junk", "broken"}

Broadcast ==
  /\ pc = "idle" /\ Len(sent) < MaxUnits /\ Len(sent) - given < MaxBlock
  /\ \E packet \in Kinds, damaged \in BOOLEAN :
       /\ MayBroadcast(packet)
       /\ damaged => packet \in Damaged
       /\ sent' = Append(sent, [packet |-> packet, pos |-> Len(sent) + 1,
                               damaged |-> damaged,
                               period |-> IF Turns(packet) THEN Period + 1 ELSE Period])
  /\ Cardinality({i \in DOMAIN sent' : Faulty(sent'[i])}) <= MaxFaults
  /\ UNCHANGED <<given, sbuf, sbuf_offset, dbuf, out, tables, dec, curr, pc>>

(***************************************************************************)
(* Going over the buffer.                                                  *)
(***************************************************************************)
Sync(i) == i \in DOMAIN sbuf /\ sbuf[i].packet.kind # "junk"

\* resync()
InRun(i) == i + SyncRun - 1 <= Len(sbuf) /\ \A k \in i .. i + SyncRun - 1 : Sync(k)

\* Where the loop of put() finds its next packet: the next unit, if it and its
\* neighbour have their sync bytes, else the first unit of a run.  At most one.
At ==
  IF curr + 1 >= Len(sbuf) THEN {}
  ELSE IF Sync(curr + 1) /\ Sync(curr + 2) THEN {curr + 1}
  ELSE {i \in curr + 1 .. Len(sbuf) : InRun(i) /\ \A j \in curr + 1 .. i - 1 : ~InRun(j)}

\* Mutant of FlushAt: the last packet stays behind.
FlushAtNeighbour == At

\* The same in flush(), by resync_force(): the last packet has no neighbour.
FlushAt ==
  IF curr >= Len(sbuf) THEN {}
  ELSE IF Sync(curr + 1) THEN {curr + 1}
  ELSE {i \in curr + 1 .. Len(sbuf) :
          /\ \A k \in i .. Len(sbuf) : Sync(k)
          /\ ~Sync(i - 1)}

(***************************************************************************)
(* The tables.                                                             *)
(***************************************************************************)
\* Decryptors are alive while a program of the PAT is bound to them.
Alive(programs, announcedBy) ==
  IF programs = Null THEN {} ELSE {announcedBy[p] : p \in programs} \cap EcmPid

\* proc_pat(): every program, and with it every decryptor, starts anew.
NewPat(programs) ==
  /\ pat' = programs
  /\ phase' = [p \in Program |-> 0] /\ pmt' = [p \in Program |-> Null]
  /\ dec' = [e \in EcmPid |-> NewDec]

\* proc_pmt(): a decryptor no program is bound to any more is removed.
NewPmt(p, ecm) ==
  /\ pmt' = [pmt EXCEPT ![p] = ecm]
  /\ dec' = [e \in EcmPid |->
               IF e \in Alive(pat, pmt) \cap Alive(pat, pmt') THEN dec[e] ELSE NewDec]

\* Mutant of Found: the counts of phases 0 and 1 are swapped.
FoundSwapped(phases) == (\E n \in phases : n = 2) \/ (\A n \in phases : n # 1)

\* check_pmt_complete() and check_ecm_complete(): all have been found, or one
\* has come round again.
Found(phases) == (\E n \in phases : n = 2) \/ (\A n \in phases : n # 0)
PmtFound == Found({phase[p] : p \in pat})
EcmFound == Found({dec[e].phase : e \in Alive(pat, pmt)})

\* The decryptor for a packet of program p: the one its PMT says, or the only
\* one there is if the PID is not in the tables.
Decryptor(p) ==
  IF pat # Null /\ p \in pat /\ pmt[p] # Null THEN {pmt[p]} \ {Clear}
  ELSE IF Cardinality(Alive(pat, pmt)) = 1 THEN Alive(pat, pmt) ELSE {}

\* Mutant of Keyed: the keys are set with the rest of the new cipher only.
KeyedOnce(d, u) ==
  [d EXCEPT !.m2 = IF @ = 0 THEN u.period ELSE @, !.since = IF @ = 0 THEN u.pos ELSE @]

\* set_scramble_key() with the keys in unit u.
Keyed(d, u) == [d EXCEPT !.m2 = u.period, !.since = IF @ = 0 THEN u.pos ELSE @]

\* proc_ecm(): what it makes of decryptor d and the ECM in unit u, and whether
\* it reports an error, for each answer of the card.  After "unpurchased" the
\* card is not asked again.
EcmOutcomes(d, u) ==
  LET seen == [d EXCEPT !.last = u.period]
  IN  IF d.locked THEN {[dec |-> seen, ok |-> TRUE]}
      ELSE {[dec |-> CASE a = "purchased" -> Keyed(seen, u)
                       [] a = "unpurchased" -> [seen EXCEPT !.m2 = 0, !.locked = TRUE]
                       [] a = "error" -> seen,
             ok |-> a # "error"] : a \in Answers}

\* The packets of the PIDs registered in the map, and those with a section that
\* differs from the last one of their PID.
IsPmt(u) == u.packet.kind = "pmt" /\ pat # Null /\ u.packet.program \in pat
IsEcm(u) == u.packet.kind = "ecm" /\ u.packet.pid \in Alive(pat, pmt)

IsNewPat(u) == u.packet.kind = "pat" /\ pat # u.packet.programs
\* Mutant of IsNewPmt: a program's PMT is read once.
IsFirstPmt(u) == IsPmt(u) /\ pmt[u.packet.program] = Null

IsNewPmt(u) == IsPmt(u) /\ pmt[u.packet.program] # u.packet.ecm
IsNewEcm(u) == IsEcm(u) /\ dec[u.packet.pid].last # u.period

(***************************************************************************)
(* put(): append, then search or go over the buffer.                       *)
(***************************************************************************)
Put ==
  /\ pc = "idle" /\ given < Len(sent)
  /\ sbuf' = sbuf \o SubSeq(sent, given + 1, Len(sent)) /\ given' = Len(sent)
  /\ pc' = "stage"
  /\ UNCHANGED <<sent, sbuf_offset, dbuf, out, tables, dec, curr>>

\* What is searched for: the first table that is missing.
NextStage ==
  IF pat \in {Null, {}} THEN "pat"
  ELSE IF ~PmtFound THEN "pmt"
  ELSE IF ~EcmFound THEN "ecm"
  ELSE "proc"

Stage ==
  /\ pc = "stage"
  /\ pc' = NextStage
  /\ curr' = IF NextStage = "proc" THEN 0 ELSE sbuf_offset
  /\ UNCHANGED <<sent, given, sbuf, sbuf_offset, dbuf, out, tables, dec>>

NoneInHead ==
  CASE pc = "pat" -> "NO_PAT_IN_HEAD" [] pc = "pmt" -> "NO_PMT_IN_HEAD"
    [] pc = "ecm" -> "NO_ECM_IN_HEAD"

\* Mutant of SearchEnds: the next search goes on where this one has ended.
SearchEndsThere(at, found) ==
  /\ sbuf_offset' = at /\ curr' = at
  /\ pc' = IF found THEN "stage" ELSE IF at < MaxWait THEN "get" ELSE NoneInHead

\* Mutant of SearchEnds: there is no limit.
SearchEndsNever(at, found) ==
  /\ sbuf_offset' = IF found THEN 0 ELSE at
  /\ curr' = at /\ pc' = IF found THEN "stage" ELSE "get"

\* A search ends before unit at + 1: with success, for more data, or for good.
SearchEnds(at, found) ==
  /\ sbuf_offset' = IF found THEN 0 ELSE at
  /\ curr' = at
  /\ pc' = IF found THEN "stage" ELSE IF at < MaxWait THEN "get" ELSE NoneInHead

SearchGoesOn(at) == curr' = at /\ UNCHANGED <<sbuf_offset, pc>>

\* find_pat(), find_pmt() and find_ecm() when the data is used up.
SearchInVain ==
  /\ pc \in {"pat", "pmt", "ecm"} /\ At = {}
  /\ SearchEnds(curr, FALSE)
  /\ UNCHANGED <<sent, given, sbuf, dbuf, out, tables, dec>>

FindPat ==
  /\ pc = "pat"
  /\ \E at \in At :
       IF IsNewPat(sbuf[at])
       THEN NewPat(sbuf[at].packet.programs) /\ SearchEnds(at, pat' # {})
       ELSE SearchGoesOn(at) /\ UNCHANGED <<tables, dec>>
  /\ UNCHANGED <<sent, given, sbuf, dbuf, out>>

\* A PMT of each program, but only until one of them comes round again.
FindPmt ==
  /\ pc = "pmt"
  /\ \E at \in At :
       \/ ~IsPmt(sbuf[at]) /\ SearchGoesOn(at) /\ UNCHANGED <<tables, dec>>
       \/ /\ IsPmt(sbuf[at])
          /\ LET packet == sbuf[at].packet
                 p == packet.program
             IN  \/ /\ phase[p] = 0 /\ NewPmt(p, packet.ecm)
                    /\ phase' = [phase EXCEPT ![p] = 1]
                 \/ /\ phase[p] # 0 /\ UNCHANGED <<pmt, dec>>
                    /\ phase' = [phase EXCEPT ![p] = 2]
          /\ UNCHANGED pat
          /\ IF PmtFound' THEN SearchEnds(at, TRUE) ELSE SearchGoesOn(at)
  /\ UNCHANGED <<sent, given, sbuf, dbuf, out>>

\* An ECM of each decryptor, with the same exception.
FindEcm ==
  /\ pc = "ecm" /\ UNCHANGED tables
  /\ \E at \in At :
       LET u == sbuf[at]
           e == u.packet.pid
       IN  \/ ~IsEcm(u) /\ SearchGoesOn(at) /\ UNCHANGED dec
           \/ /\ IsEcm(u) /\ dec[e].phase = 0 /\ ~IsNewEcm(u)
              /\ SearchGoesOn(at) /\ UNCHANGED dec
           \/ /\ IsEcm(u) /\ dec[e].phase = 0 /\ IsNewEcm(u)
              /\ \E o \in EcmOutcomes(dec[e], u) :
                   /\ dec' = [dec EXCEPT ![e] = [o.dec EXCEPT !.phase = IF o.ok THEN 1 ELSE 0]]
                   /\ \/ /\ ~o.ok /\ pc' = "ECM_PROC_FAILURE"
                         /\ curr' = at /\ sbuf_offset' = at
                      \/ o.ok /\ EcmFound' /\ SearchEnds(at, TRUE)
                      \/ o.ok /\ ~EcmFound' /\ SearchGoesOn(at)
           \/ /\ IsEcm(u) /\ dec[e].phase # 0
              /\ dec' = [dec EXCEPT ![e].phase = 2]
              /\ SearchEnds(at, TRUE)
  /\ UNCHANGED <<sent, given, sbuf, dbuf, out>>

\* What becomes of a packet's payload.  "early" is a packet from before the
\* first ECM of its decryptor, descrambled with keys that are not its own.
How(u) ==
  IF u.packet.kind # "data" \/ u.damaged THEN "as is"
  ELSE IF u.packet.ecm = Clear THEN "as is"
  ELSE LET keyed == {e \in Decryptor(u.packet.program) : dec[e].m2 # 0}
       IN  IF keyed = {} THEN IF pc = "proc" THEN "scrambled" ELSE "flushed"
           ELSE LET e == CHOOSE e \in keyed : TRUE
                IN  IF e = u.packet.ecm /\ u.period \in {dec[e].m2, dec[e].m2 + 1}
                    THEN "clear"
                    ELSE IF u.pos < dec[e].since THEN "early" ELSE "garbled"

\* Mutant of Stripped: the PID of a damaged packet is trusted.
StrippedAnyway(u) == u.packet.kind = "null" /\ Strip

\* A damaged packet may be anything.
Stripped(u) == u.packet.kind = "null" /\ Strip /\ ~u.damaged

Emit(u) ==
  dbuf' = IF Stripped(u) THEN dbuf
          ELSE Append(dbuf, [pos |-> u.pos, kind |-> u.packet.kind, how |-> How(u)])

\* Nothing is read from the packet; the searches do read a damaged one.
PassesBy(u) == u.damaged \/ ~(IsNewEcm(u) \/ IsNewPmt(u) \/ IsNewPat(u))

\* A packet of the loops of proc_arib_std_b1() and flush_arib_std_b1(): emitted,
\* descrambled if it can be, and followed if it carries a table.  newPat says
\* what the loop does after a new PAT.
Process(at, newPat) ==
  LET u == sbuf[at]
  IN  /\ u.packet.kind # "broken"
      /\ Emit(u)
      /\ \/ /\ ~PassesBy(u) /\ IsNewEcm(u)
            /\ \E o \in EcmOutcomes(dec[u.packet.pid], u) :
                 /\ dec' = [dec EXCEPT ![u.packet.pid] = o.dec]
                 /\ pc' = IF o.ok THEN pc ELSE "ECM_PROC_FAILURE"
            /\ curr' = at /\ UNCHANGED tables
         \/ /\ ~PassesBy(u) /\ IsNewPmt(u) /\ NewPmt(u.packet.program, u.packet.ecm)
            /\ curr' = at /\ UNCHANGED <<pat, phase, pc>>
         \/ ~PassesBy(u) /\ IsNewPat(u) /\ NewPat(u.packet.programs) /\ newPat
         \/ PassesBy(u) /\ curr' = at /\ UNCHANGED <<tables, dec, pc>>

\* What follows a pass over the buffer.
After == IF pc = "proc" THEN "get" ELSE "flush"

\* Mutants of Drop: the position stays where it was; the last unit that has been
\* gone over stays as well; the next one goes, too.
DropKeepsCurr(n) == sbuf' = SubSeq(sbuf, n + 1, Len(sbuf)) /\ curr' = curr
DropLess(n) == sbuf' = SubSeq(sbuf, Max({n, 1}), Len(sbuf)) /\ curr' = 0
DropMore(n) == sbuf' = SubSeq(sbuf, n + 2, Len(sbuf)) /\ curr' = 0

\* The units that have been gone over leave the buffer.
Drop(n) == sbuf' = SubSeq(sbuf, n + 1, Len(sbuf)) /\ curr' = 0

\* proc_arib_std_b1(): a new PAT ends the loop, and its packet stays in the
\* buffer although it has been emitted.
Proc ==
  /\ pc \in {"proc", "last"}
  /\ \E at \in At :
       IF IsNewPat(sbuf[at]) /\ ~PassesBy(sbuf[at])
       THEN Process(at, pc' = After /\ Drop(at - 1))
       ELSE Process(at, FALSE) /\ UNCHANGED sbuf
  /\ UNCHANGED <<sent, given, sbuf_offset, out>>

\* A broken packet: the loop goes on behind its first byte, so what is left of
\* it is junk.
Broken ==
  /\ pc \in {"proc", "last", "flush"}
  /\ \E at \in IF pc = "flush" THEN FlushAt ELSE At :
       /\ sbuf[at].packet.kind = "broken"
       /\ sbuf' = [sbuf EXCEPT ![at].packet = [kind |-> "junk"]] /\ curr' = at - 1
  /\ UNCHANGED <<sent, given, sbuf_offset, dbuf, out, tables, dec, pc>>

ProcEnds ==
  /\ pc \in {"proc", "last"} /\ At = {}
  /\ Drop(curr) /\ pc' = After
  /\ UNCHANGED <<sent, given, sbuf_offset, dbuf, out, tables, dec>>

\* get(): the caller of put() fetches what has been emitted.
Get ==
  /\ pc = "get"
  /\ out' = out \o dbuf /\ dbuf' = <<>> /\ pc' = "idle"
  /\ UNCHANGED <<sent, given, sbuf, sbuf_offset, tables, dec, curr>>

(***************************************************************************)
(* flush(): once, at the end.                                              *)
(***************************************************************************)
Flush ==
  /\ pc = "idle" /\ given = Len(sent)
  /\ pc' = "last" /\ curr' = 0
  /\ UNCHANGED <<sent, given, sbuf, sbuf_offset, dbuf, out, tables, dec>>

FlushPacket ==
  /\ pc = "flush"
  /\ \E at \in FlushAt : Process(at, curr' = at /\ UNCHANGED pc)
  /\ UNCHANGED <<sent, given, sbuf, sbuf_offset, out>>

FlushEnds ==
  /\ pc = "flush" /\ FlushAt = {}
  /\ out' = out \o dbuf /\ dbuf' = <<>> /\ pc' = "end"
  /\ Drop(curr)
  /\ UNCHANGED <<sent, given, sbuf_offset, tables, dec>>

\* An error, or the end: the recorder does not call the descrambler again.
Done == pc \in Failures \cup {"end"} /\ UNCHANGED vars

Search == SearchInVain \/ FindPat \/ FindPmt \/ FindEcm

Next ==
  \/ Broadcast \/ Put \/ Stage \/ Search \/ Proc \/ Broken \/ ProcEnds \/ Get
  \/ Flush \/ FlushPacket \/ FlushEnds \/ Done

Spec == Init /\ [][Next]_vars

(***************************************************************************)
(* Properties.                                                             *)
(***************************************************************************)
Emitted == out \o dbuf

\* Every variable is of its type, and the position in the buffer and the one
\* where the search goes on are inside it (ARIB_STD_B1_PRIVATE_DATA,
\* src/b1/arib_std_b1.c:85-116).
TypeOK ==
  /\ Len(sent) <= MaxUnits /\ given \in 0 .. Len(sent)
  /\ \A i \in DOMAIN sent : sent[i].packet \in Kinds /\ sent[i].pos = i
  /\ curr \in 0 .. Len(sbuf)
  /\ sbuf_offset \in 0 .. Len(sbuf) \/ pc \in {"last", "flush", "end"} \cup Failures
  /\ pat \in (SUBSET Program) \cup {Null}
  /\ phase \in [Program -> 0 .. 2] /\ pmt \in [Program -> EcmPid \cup {Clear, Null}]
  /\ \A e \in EcmPid : dec[e].phase \in 0 .. 2 /\ dec[e].m2 \in 0 .. Period

\* Packets come out in the order they went in and once, but for the packet of
\* a PAT that changes the programs, which may come out twice in a row
\* (proc_arib_std_b1 at 1914 keeps it in the buffer).
InOrder ==
  \A i, j \in DOMAIN Emitted : i < j =>
    \/ Emitted[i].pos < Emitted[j].pos
    \/ Emitted[i].pos = Emitted[j].pos /\ j = i + 1 /\ Emitted[i].kind = "pat"

\* What may stay away: null packets that are stripped, broken packets, junk, and
\* packets less than a run away from it; flush() gives up what precedes the last
\* junk.
Excused(i) ==
  \/ sent[i].packet.kind = "null" /\ Strip /\ ~sent[i].damaged
  \/ sent[i].packet.kind = "broken"
  \/ \E j \in DOMAIN sent :
       /\ sent[j].packet.kind = "junk"
       /\ i - j \in 1 - SyncRun .. SyncRun - 1 \/ (pc = "end" /\ j > i)

\* Whatever the searches, the passes over the buffer and the changes of the
\* tables in between, every packet given to put() has come out when it returns
\* or is held back, and after flush() none is held back
\* (put_arib_std_b1, flush_arib_std_b1).
NothingLost ==
  pc \in {"idle", "end"} =>
    \A i \in 1 .. given :
      \/ Excused(i)
      \/ \E k \in DOMAIN Emitted : Emitted[k].pos = i
      \/ pc = "idle" /\ \E k \in DOMAIN sbuf : sbuf[k].pos = i

\* The stream is not held back for a table that has been passed over: when
\* put() returns while one is missing, no packet before the position where the
\* search will go on brings it (sbuf_offset is set back after each search),
\* unless it was too close to junk to be seen.
NothingOverlooked ==
  pc = "idle" =>
    \A i \in {k \in 1 .. sbuf_offset : ~Excused(sbuf[k].pos)} :
      LET packet == sbuf[i].packet
      IN  /\ ~ (NextStage = "pat" /\ packet.kind = "pat" /\ packet.programs # {})
          /\ ~ (/\ NextStage = "pmt" /\ packet.kind = "pmt"
                /\ packet.program \in pat /\ phase[packet.program] = 0)
          /\ ~ (/\ NextStage = "ecm" /\ IsNewEcm(sbuf[i])
                /\ dec[packet.pid].phase = 0)

\* Between calls, the tables are those of the last PAT that has come out, and
\* of the last PMT that has come out after it, although the searches look
\* ahead of both and read tables of damaged packets, which the pass does not
\* (find_pat and find_pmt against proc_arib_std_b1, lines 1031 and 1763).
TablesFollow ==
  LET unitOf(i) == sent[Emitted[i].pos]
      whole == {i \in DOMAIN Emitted : ~unitOf(i).damaged}
      Last(is) == IF is \cap whole = {} THEN 0 ELSE Max(is \cap whole)
      lastPat == Last({i \in DOMAIN Emitted : Emitted[i].kind = "pat"})
      lastPmt(p) == Last({i \in lastPat .. Len(Emitted) :
                            Emitted[i].kind = "pmt" /\ unitOf(i).packet.program = p})
  IN  pc \in {"idle", "end"} /\ lastPat # 0 =>
        /\ pat = unitOf(lastPat).packet.programs
        /\ \A p \in pat : lastPmt(p) # 0 => pmt[p] = unitOf(lastPmt(p)).packet.ecm

\* A packet that comes out descrambled, from the first ECM of its program on,
\* has been descrambled with the keys of its period and decryptor, although
\* ECMs are read in the search, ahead of the packets, and again in the pass
\* over the buffer (find_ecm, proc_arib_std_b1).
NotGarbled == \A i \in DOMAIN Emitted : Emitted[i].how # "garbled"

\* A scrambled packet is held back until there are keys: none comes out
\* scrambled before flush().  Of a stream with one program, bought.
WaitsForKeys == \A i \in DOMAIN Emitted : Emitted[i].how # "scrambled"

\* The packets after which put() has started over: they came out and are still,
\* or were, in the buffer, to come out once more.
StartedOver ==
  {i \in DOMAIN Emitted :
     IF i < Len(Emitted) THEN Emitted[i].pos = Emitted[i + 1].pos
     ELSE Emitted[i].pos > given - Len(sbuf)}

\* What the branches for the limit of the search say, "exceed sbuf limit"
\* (src/b1/arib_std_b1.c:765, 782, 799), is kept but for a block each time a
\* PAT ends a call in mid-buffer: a new one in the pass (1915), or one without
\* programs that ends the first search (756).  Of a stream without junk, as
\* resync() does not count what it waits for.
SbufLimit ==
  pc = "idle" /\ (\A i \in DOMAIN sent : sent[i].packet.kind # "junk")
    => Len(sbuf) <= MaxWait + MaxBlock * (1 + Cardinality(StartedOver))

\* What the name of the error says, NO_ECM_IN_HEAD
\* (src/b1/arib_std_b1_error_code.h:9): no ECM of a decryptor has been seen.
NoEcmInHead ==
  pc = "NO_ECM_IN_HEAD" =>
    \E e \in Alive(pat, pmt) :
      \A i \in 1 .. sbuf_offset : sbuf[i].packet.kind = "ecm" => sbuf[i].packet.pid # e
=============================================================================
