---------------------------- MODULE SectionStream ----------------------------
(***************************************************************************)
(* The section parser and the packets it is fed.  A broadcaster cuts the   *)
(* sections of one PID into packets of Room parts, of which the first is   *)
(* the pointer field when a section starts in the packet (ISO 13818-1, as  *)
(* put_include_section_start() reads it).  Reception loses packets and     *)
(* damages them, and a packet may be put twice: the transport stream may   *)
(* carry it twice, the parser does not look at the continuity counter, and *)
(* proc_arib_std_b1() itself starts again with the packet that brought a   *)
(* new PAT (src/b1/arib_std_b1.c:1914).  Damaged packets are put, too: the *)
(* searches do not look at transport_error_indicator (1229-1257), the pass *)
(* does (1763), but not all damage is noticed by then.                     *)
(***************************************************************************)
EXTENDS SectionParser

CONSTANTS Room,          \* parts that fit into a packet
          MaxPackets,    \* bound: packets broadcast or repeated
          MaxDamaged     \* bound: packets damaged

ASSUME RoomAssumption ==
  Room \in Nat \ {0, 1} /\ MaxPackets \in Nat /\ MaxDamaged \in Nat

VARIABLES sending,   \* the section that is not yet wholly sent, or Null
          sent,      \* how many of its parts have been
          packets,   \* packets broadcast or repeated
          damaged,   \* packets damaged
          packet,    \* the last one put to the parser
          clean,     \* history: each part sent of the section has been put once
          due,       \* history: the sections that the last packet put completes
                     \* and whose every part has been put once, in order
          accepted   \* history: the section compared with when that packet was
                     \* put, and those accepted since

streamVars == <<sending, sent, packets, damaged, packet, clean, due>>
vars == <<raw, ref, work, last, pool, buff, stat, rest, pc,
          sending, sent, packets, damaged, packet, clean, due, accepted>>

Init ==
  /\ ParserInit
  /\ sending = Null /\ sent = 0 /\ packets = 0 /\ damaged = 0
  /\ packet = [start |-> FALSE, pointer |-> 0, bytes |-> <<>>]
  /\ clean = TRUE /\ due = <<>> /\ accepted = <<>>

(***************************************************************************)
(* The broadcaster.  A cut is a packet, the sections it completes, and the *)
(* section left in progress with the number of its parts that were sent.   *)
(***************************************************************************)
Remainder ==
  IF sending = Null THEN <<>> ELSE SubSeq(Bytes(sending), sent + 1, Length[sending])

Filled(bytes, room) ==
  [i \in 1 .. room |-> IF i <= Len(bytes) THEN bytes[i] ELSE Stuffing]

Ended == IF sending = Null THEN <<>> ELSE <<sending>>

\* The section in progress goes on, and none starts.
Continuation ==
  LET ends == Len(Remainder) <= Room
  IN  [packet |-> [start |-> FALSE, pointer |-> 0, bytes |-> Filled(Remainder, Room)],
       completes |-> IF ends THEN Ended ELSE <<>>,
       sending |-> IF ends THEN Null ELSE sending,
       sent |-> IF ends THEN 0 ELSE sent + Room]

\* It ends, and sections before and s, or s alone, start after it.
Start(before, s) ==
  LET ahead == Remainder \o before
      ends  == Len(ahead) + Length[s] <= Room - 1
  IN  [packet |-> [start |-> TRUE, pointer |-> Len(Remainder),
                   bytes |-> Filled(ahead \o Bytes(s), Room - 1)],
       completes |-> Ended \o (IF before = <<>> THEN <<>> ELSE <<before[1][1]>>)
                           \o (IF ends THEN <<s>> ELSE <<>>),
       sending |-> IF ends THEN Null ELSE s,
       sent |-> IF ends THEN 0 ELSE Room - 1 - Len(ahead)]

Cuts ==
  {c \in {Start(before, s) : before \in {<<>>} \cup {Bytes(t) : t \in Sections},
                             s \in Sections} : c.sending = Null \/ c.sent > 0}
    \cup (IF sending = Null THEN {} ELSE {Continuation})

Send(c) ==
  /\ pc = "idle" /\ packets < MaxPackets
  /\ packets' = packets + 1
  /\ sending' = c.sending /\ sent' = c.sent

\* A new section in progress has started in the packet of the cut.
Fresher(c) == c.packet.start \/ c.sending = Null

Receive(c) ==
  /\ Send(c) /\ Put(c.packet)
  /\ packet' = c.packet
  /\ due' = IF clean \/ c.completes = <<>> THEN c.completes ELSE Tail(c.completes)
  /\ clean' = (clean \/ Fresher(c))
  /\ UNCHANGED damaged

Lose(c) ==
  /\ Send(c)
  /\ due' = <<>> /\ clean' = (c.sending = Null)
  /\ UNCHANGED <<raw, ref, work, last, pool, buff, stat, rest, pc, packet, damaged>>

\* A packet with the flag that a section starts in it has a byte for the pointer.
Flagged(k) ==
  IF k.start THEN k ELSE [start |-> TRUE, pointer |-> 0, bytes |-> Tail(k.bytes)]

\* The flag of a start set, the pointer or another byte changed.
Damaged(k) ==
  {[Flagged(k) EXCEPT !.pointer = p] : p \in 0 .. Room}
    \cup {[k EXCEPT !.bytes[i] = x] : i \in 1 .. Len(k.bytes), x \in Noise}

\* The packet arrives damaged and is put all the same.
ReceiveDamaged(c) ==
  /\ damaged < MaxDamaged /\ damaged' = damaged + 1
  /\ Send(c) /\ packet' \in Damaged(c.packet)
  /\ Put(packet')
  /\ due' = <<>> /\ clean' = (c.sending = Null)

\* The last packet is put once more: the parts of a section that starts in it
\* start anew, those of one that goes on are put twice.
Repeat ==
  /\ packet.bytes # <<>> /\ Put(packet)
  /\ packets < MaxPackets /\ packets' = packets + 1
  /\ due' = <<>>
  /\ clean' = (clean /\ (packet.start \/ sending = Null))
  /\ UNCHANGED <<sending, sent, packet, damaged>>

\* What is accepted now, counted from the section compared with at the put.
Accepting ==
  LET before == IF pc # "idle" THEN accepted
                ELSE IF last = Null THEN <<>> ELSE <<raw[last]>>
  IN  IF stat'.unique > stat.unique THEN Append(before, raw'[last']) ELSE before

Broadcast == \E c \in Cuts : Receive(c) \/ Lose(c) \/ ReceiveDamaged(c)

\* The bound is reached.
Done == pc = "idle" /\ packets = MaxPackets /\ UNCHANGED vars

Next ==
  \/ /\ Broadcast \/ Repeat \/ (Parse /\ UNCHANGED streamVars)
     /\ accepted' = Accepting
  \/ Done

Spec == Init /\ [][Next]_vars

(***************************************************************************)
(* Properties.                                                             *)
(***************************************************************************)
\* The parser's memory and the broadcaster's position are of their types.
TypeOK ==
  /\ ParserTypeOK
  /\ sending \in Sections \cup {Null} /\ sent \in Nat
  /\ packets \in 0 .. MaxPackets /\ damaged \in 0 .. MaxDamaged
  /\ sending # Null => sent \in 1 .. Length[sending] - 1
  /\ clean \in BOOLEAN /\ (sending = Null => clean)
  /\ due \in Seq(Sections)

\* A section whose every part was put once is accepted by the put that brings
\* its last part, or is the one accepted just before it; whatever was lost,
\* damaged or repeated earlier, and however the sections are cut into packets
\* (put_include_section_start at 324, put_exclude_section_start at 290).
KeepsUp ==
  pc = "idle" /\ due # <<>> =>
    \E at \in [1 .. Len(due) -> 1 .. Len(accepted)] :
      /\ at[Len(due)] = Len(accepted)
      /\ \A i \in 1 .. Len(due) : accepted[at[i]] = Bytes(due[i])
      /\ \A i \in 1 .. Len(due) - 1 :
           at[i + 1] = IF due[i] = due[i + 1] THEN at[i] ELSE at[i] + 1
=============================================================================
