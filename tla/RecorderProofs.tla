--------------------------- MODULE RecorderProofs ---------------------------
(***************************************************************************)
(* Theorems of module Recorder, for every queue size, retry limit and      *)
(* number of blocks.  They rest on what Put and Take do to the ring of     *)
(* module Queue: both keep the counters and indices in step, and seen      *)
(* through Contents Put is an append and Take removes the head.            *)
(***************************************************************************)
EXTENDS Recorder, SequenceTheorems, TLAPS

-----------------------------------------------------------------------------
(* The ring of module Queue.                                               *)

\* The remainders the ring's index arithmetic meets: no wrap, or one.
LEMMA ModSmall ==
  ASSUME NEW a \in Nat, NEW n \in Nat \ {0}, a < n
  PROVE  a % n = a
OBVIOUS

LEMMA ModWrap ==
  ASSUME NEW a \in Nat, NEW n \in Nat \ {0}, n <= a, a < 2 * n
  PROVE  a % n = a - n
OBVIOUS

\* Both at once, for an index a below twice the size.
LEMMA ModSum ==
  ASSUME NEW n \in Nat \ {0}, NEW a \in Nat, a < 2 * n
  PROVE  a % n = IF a < n THEN a ELSE a - n
<1>1. CASE a < n
  BY <1>1, ModSmall
<1>2. CASE n <= a
  BY <1>2, ModWrap
<1> QED BY <1>1, <1>2

\* Advancing an index that is k slots past out is the same as adding k + 1.
LEMMA NextSlotSum ==
  ASSUME NEW n \in Nat \ {0}, NEW o \in 0 .. n - 1, NEW k \in 0 .. n - 1
  PROVE  (((o + k) % n) + 1) % n = (o + k + 1) % n
<1> DEFINE a == o + k
           b == o + k + 1
           c == (a % n) + 1
<1>1. a \in Nat /\ b \in Nat /\ a < 2 * n /\ b < 2 * n /\ b = a + 1
  OBVIOUS
<1> HIDE DEF a, b
<1>2. a % n = IF a < n THEN a ELSE a - n
  BY <1>1, ModSum
<1>3. b % n = IF b < n THEN b ELSE b - n
  BY <1>1, ModSum
<1>4. c \in Nat /\ c < 2 * n /\ c = (IF a < n THEN b ELSE b - n)
  BY <1>1, <1>2
<1> HIDE DEF c
<1>5. c % n = IF c < n THEN c ELSE c - n
  BY <1>4, ModSum
<1>6. c % n = b % n
  BY <1>1, <1>3, <1>4, <1>5
<1> QED BY <1>6 DEF a, b, c

\* Advancing out and counting k further slots is the same as adding k + 1.
LEMMA SlotSumNext ==
  ASSUME NEW n \in Nat \ {0}, NEW o \in 0 .. n - 1, NEW k \in 0 .. n - 1
  PROVE  (((o + 1) % n) + k) % n = (o + k + 1) % n
<1> DEFINE a == o + 1
           b == (a % n) + k
           c == o + k + 1
<1>1. a \in Nat /\ c \in Nat /\ a <= n /\ c < 2 * n /\ c = a + k
  OBVIOUS
<1> HIDE DEF a, c
<1>a. a < 2 * n
  BY <1>1
<1>2. a % n = IF a < n THEN a ELSE a - n
  BY <1>1, <1>a, ModSum
<1>3. b \in Nat /\ b < 2 * n /\ b = (IF a < n THEN c ELSE c - n)
  BY <1>1, <1>2
<1> HIDE DEF b
<1>4. b % n = IF b < n THEN b ELSE b - n
  BY <1>3, ModSum
<1>5. c % n = IF c < n THEN c ELSE c - n
  BY <1>1, ModSum
<1>6. b % n = c % n
  BY <1>1, <1>3, <1>4, <1>5
<1> QED BY <1>6 DEF a, b, c

\* Two slots less than Size apart are different.
LEMMA SlotsDiffer ==
  ASSUME NEW n \in Nat \ {0}, NEW o \in 0 .. n - 1, NEW k \in 0 .. n - 1,
         NEW j \in 0 .. n - 1, j < k
  PROVE  (o + j) % n # (o + k) % n
<1> DEFINE a == o + j
           b == o + k
<1>1. a \in Nat /\ b \in Nat /\ a < b /\ b < 2 * n /\ a < 2 * n /\ b - a < n
  OBVIOUS
<1> HIDE DEF a, b
<1>2. a % n = IF a < n THEN a ELSE a - n
  BY <1>1, ModSum
<1>3. b % n = IF b < n THEN b ELSE b - n
  BY <1>1, ModSum
<1>4. a % n # b % n
  BY <1>1, <1>2, <1>3
<1> QED BY <1>4 DEF a, b

LEMMA ModInSlot ==
  ASSUME NEW a \in Nat, NEW n \in Nat \ {0}
  PROVE  a % n \in 0 .. n - 1
OBVIOUS

\* create_queue leaves an empty ring in a consistent state.
LEMMA QueueInitOK ==
  ASSUME QueueInit
  PROVE  QueueTypeOK /\ QueueInv /\ Contents = <<>>
<1>1. 0 % Size = 0
  BY QueueAssumption, ModSmall
<1>2. QueueTypeOK
  BY QueueAssumption DEF QueueInit, QueueTypeOK, Slot, Entry
<1>3. QueueInv
  BY <1>1, QueueAssumption DEF QueueInit, QueueInv
<1>4. Contents = <<>>
  BY DEF QueueInit, Contents
<1> QED BY <1>2, <1>3, <1>4

\* Reading n slots of a ring from slot o on gives a sequence of n entries.
LEMMA RingSeq ==
  ASSUME NEW E, NEW k \in Nat \ {0}, NEW o \in 0 .. k - 1, NEW n \in Nat,
         NEW b \in [0 .. k - 1 -> E]
  PROVE  LET c == [i \in 1 .. n |-> b[(o + i - 1) % k]]
         IN  /\ c \in Seq(E) /\ Len(c) = n
             /\ \A i \in 1 .. n : c[i] = b[(o + i - 1) % k]
<1>1. ASSUME NEW i \in 1 .. n PROVE b[(o + i - 1) % k] \in E
  <2>1. o + i - 1 \in Nat
    OBVIOUS
  <2>2. (o + i - 1) % k \in 0 .. k - 1
    BY <2>1, ModInSlot
  <2> QED BY <2>2
<1> QED BY <1>1

\* What Contents is: a sequence of num_used entries.
LEMMA ContentsType ==
  ASSUME QueueTypeOK
  PROVE  /\ Contents \in Seq(Entry) /\ Len(Contents) = num_used
         /\ \A i \in 1 .. num_used : Contents[i] = buffer[(out + i - 1) % Size]
<1>1. num_used \in Nat /\ out \in 0 .. Size - 1 /\ buffer \in [0 .. Size - 1 -> Entry]
  BY QueueAssumption DEF QueueTypeOK, Slot
<1> QED BY <1>1, RingSeq, QueueAssumption DEF Contents

\* The same of the contents after a step.
LEMMA ContentsTypePrime ==
  ASSUME QueueTypeOK'
  PROVE  /\ Contents' \in Seq(Entry) /\ Len(Contents') = num_used'
         /\ \A i \in 1 .. num_used' : Contents'[i] = buffer'[(out' + i - 1) % Size]
<1>1. num_used' \in Nat /\ out' \in 0 .. Size - 1 /\ buffer' \in [0 .. Size - 1 -> Entry]
  BY QueueAssumption DEF QueueTypeOK, Slot
<1> DEFINE c(n, o, b) == [i \in 1 .. n |-> b[(o + i - 1) % Size]]
<1>2. ASSUME NEW n \in Nat, NEW o \in 0 .. Size - 1, NEW b \in [0 .. Size - 1 -> Entry]
      PROVE  /\ c(n, o, b) \in Seq(Entry) /\ Len(c(n, o, b)) = n
             /\ \A i \in 1 .. n : c(n, o, b)[i] = b[(o + i - 1) % Size]
  BY RingSeq, QueueAssumption
<1>3. Contents' = c(num_used', out', buffer')
  BY DEF Contents
<1> HIDE DEF c
<1> QED BY <1>1, <1>2, <1>3

\* enqueue's section on a queue that is not full.
LEMMA PutOK ==
  ASSUME QueueTypeOK, QueueInv, ~Full, NEW d \in Entry, Put(d)
  PROVE  QueueTypeOK' /\ QueueInv' /\ Contents' = Append(Contents, d)
<1> USE QueueAssumption
<1>1. /\ in \in 0 .. Size - 1 /\ out \in 0 .. Size - 1
      /\ num_avail \in 1 .. Size /\ num_used \in 0 .. Size - 1
      /\ out' = out /\ num_used' = num_used + 1 /\ num_avail' = num_avail - 1
      /\ in = (out + num_used) % Size
  BY DEF QueueTypeOK, QueueInv, Full, Put, Slot
<1>2. in' = (out' + num_used') % Size
  <2>1. (((out + num_used) % Size) + 1) % Size = (out + num_used + 1) % Size
    BY <1>1, NextSlotSum
  <2>2. out + num_used + 1 = out + (num_used + 1)
    BY <1>1
  <2>3. in' = (in + 1) % Size
    BY DEF Put, NextSlot
  <2> QED BY <1>1, <2>1, <2>2, <2>3
<1>3. in' \in Slot
  BY <1>1, ModInSlot DEF Put, NextSlot, Slot
<1>4. QueueTypeOK'
  BY <1>1, <1>3 DEF QueueTypeOK, Put, Slot
<1>5. QueueInv'
  BY <1>1, <1>2 DEF QueueInv
<1>6. Contents' = Append(Contents, d)
  <2> DEFINE s == Contents
             t == Contents'
  <2>1. s \in Seq(Entry) /\ Len(s) = num_used
    BY ContentsType
  <2>2. Append(s, d) \in Seq(Entry) /\ Len(Append(s, d)) = num_used + 1
    BY <2>1
  <2>3. /\ t \in Seq(Entry) /\ Len(t) = num_used + 1
        /\ \A i \in 1 .. num_used + 1 : t[i] = buffer'[(out + i - 1) % Size]
    BY <1>1, <1>4, ContentsTypePrime
  <2>4. ASSUME NEW i \in 1 .. num_used + 1
        PROVE  buffer'[(out + i - 1) % Size] = Append(s, d)[i]
    <3>1. CASE i = num_used + 1
      <4>1. out + i - 1 = out + num_used
        BY <1>1, <3>1
      <4>2. buffer'[in] = d
        BY DEF Put, QueueTypeOK
      <4>3. Append(s, d)[i] = d
        BY <2>1, <3>1, AppendProperties
      <4> QED BY <1>1, <4>1, <4>2, <4>3
    <3>2. CASE i \in 1 .. num_used
      <4>1. (out + (i - 1)) % Size # (out + num_used) % Size
        <5>1. i - 1 \in 0 .. Size - 1 /\ i - 1 < num_used
          BY <1>1, <3>2
        <5> QED BY <1>1, <5>1, SlotsDiffer
      <4>2. out + i - 1 = out + (i - 1)
        BY <1>1
      <4>3. (out + i - 1) % Size # in /\ (out + i - 1) % Size \in Slot
        BY <1>1, <3>2, <4>1, <4>2, ModInSlot DEF Slot
      <4>4. buffer'[(out + i - 1) % Size] = buffer[(out + i - 1) % Size]
        BY <4>3 DEF Put, QueueTypeOK
      <4>5. s[i] = buffer[(out + i - 1) % Size]
        BY <3>2, ContentsType
      <4>6. Append(s, d)[i] = s[i]
        BY <2>1, <3>2
      <4> QED BY <4>4, <4>5, <4>6
    <3> QED
      <4>1. i = num_used + 1 \/ i \in 1 .. num_used
        BY <1>1
      <4> QED BY <3>1, <3>2, <4>1
  <2> HIDE DEF s, t
  <2>5. \A i \in 1 .. Len(t) : t[i] = Append(s, d)[i]
    BY <2>3, <2>4
  <2>6. t = Append(s, d)
    BY <2>2, <2>3, <2>5, SeqEqual
  <2> QED BY <2>6 DEF s, t
<1> QED BY <1>4, <1>5, <1>6

\* dequeue's section on a queue that is not empty.
LEMMA TakeOK ==
  ASSUME QueueTypeOK, QueueInv, ~Empty, Take
  PROVE  /\ QueueTypeOK' /\ QueueInv'
         /\ Contents # <<>> /\ Contents' = Tail(Contents)
         /\ Oldest = Head(Contents) /\ Oldest \in Entry
<1> USE QueueAssumption
<1>1. /\ in \in 0 .. Size - 1 /\ out \in 0 .. Size - 1
      /\ num_avail \in 0 .. Size - 1 /\ num_used \in 1 .. Size
      /\ in' = in /\ num_used' = num_used - 1 /\ num_avail' = num_avail + 1
      /\ in = (out + num_used) % Size /\ buffer' = buffer
      /\ out' = (out + 1) % Size
  BY DEF QueueTypeOK, QueueInv, Empty, Take, NextSlot, Slot
<1>2. out' \in 0 .. Size - 1
  BY <1>1, ModInSlot
<1>3. QueueTypeOK'
  BY <1>1, <1>2 DEF QueueTypeOK, Slot
<1>4. QueueInv'
  <2>1. (((out + 1) % Size) + (num_used - 1)) % Size = (out + (num_used - 1) + 1) % Size
    BY <1>1, SlotSumNext
  <2>2. out + (num_used - 1) + 1 = out + num_used
    BY <1>1
  <2> QED BY <1>1, <2>1, <2>2 DEF QueueInv
<1>5. Contents \in Seq(Entry) /\ Len(Contents) = num_used
  BY ContentsType
<1>6. Contents[1] = Oldest
  <2>1. out % Size = out /\ out + 1 - 1 = out
    BY <1>1, ModSmall
  <2>2. Contents[1] = buffer[(out + 1 - 1) % Size]
    BY <1>1, ContentsType
  <2>3. (out + 1 - 1) % Size = out
    BY <2>1
  <2> QED BY <2>2, <2>3 DEF Oldest
<1>7. Contents' = Tail(Contents)
  <2> DEFINE s == Contents
             t == Contents'
  <2>1. Tail(s) \in Seq(Entry) /\ Len(Tail(s)) = num_used - 1
    BY <1>1, <1>5
  <2>2. /\ t \in Seq(Entry) /\ Len(t) = num_used - 1
        /\ \A i \in 1 .. num_used - 1 : t[i] = buffer[(((out + 1) % Size) + i - 1) % Size]
    BY <1>1, <1>3, ContentsTypePrime
  <2>3. ASSUME NEW i \in 1 .. num_used - 1
        PROVE  buffer[(((out + 1) % Size) + i - 1) % Size] = Tail(s)[i]
    <3>1. (((out + 1) % Size) + (i - 1)) % Size = (out + (i - 1) + 1) % Size
      BY <1>1, SlotSumNext
    <3>2. ((out + 1) % Size) + i - 1 = ((out + 1) % Size) + (i - 1)
      BY <1>1, <1>2
    <3>3. out + (i - 1) + 1 = out + (i + 1) - 1
      BY <1>1
    <3>4. s[i + 1] = buffer[(out + (i + 1) - 1) % Size]
      BY <1>1, ContentsType
    <3>5. Tail(s)[i] = s[i + 1]
      BY <1>1, <1>5
    <3> QED BY <3>1, <3>2, <3>3, <3>4, <3>5
  <2> HIDE DEF s, t
  <2>4. \A i \in 1 .. Len(t) : t[i] = Tail(s)[i]
    BY <2>2, <2>3
  <2>5. t = Tail(s)
    BY <2>1, <2>2, <2>4, SeqEqual
  <2> QED BY <2>5 DEF s, t
<1>8. Contents # <<>> /\ Oldest = Head(Contents) /\ Oldest \in Entry
  BY <1>1, <1>5, <1>6
<1> QED BY <1>3, <1>4, <1>7, <1>8

-----------------------------------------------------------------------------
(* Recorder.                                                               *)

USE QueueAssumption, RecorderAssumption

\* The inductive invariant of the safety theorems.
IInv == TypeOK /\ QueueInv /\ ExitIsCertain /\ ReaderGoneStops /\ NoLostWakeup

-----------------------------------------------------------------------------
(* Types of the data the steps build.                                      *)

\* The history of lost blocks keeps its type.
LEMMA LoseType ==
  ASSUME lost \in [{"queue", "decoder", "output"} -> SUBSET (Block \cup {FREED})],
         NEW who \in {"queue", "decoder", "output"},
         NEW S \in SUBSET (Block \cup {FREED}), Lose(who, S)
  PROVE  lost' \in [{"queue", "decoder", "output"} -> SUBSET (Block \cup {FREED})]
BY DEF Lose

\* A part of a sequence, and what the two parts hold.
LEMMA CutType ==
  ASSUME NEW E, NEW s \in Seq(E), NEW n \in 0 .. Len(s)
  PROVE  /\ SubSeq(s, 1, n) \in Seq(E)
         /\ SubSeq(s, n + 1, Len(s)) \in Seq(E)
         /\ Range(SubSeq(s, n + 1, Len(s))) \subseteq E
<1>1. Len(s) \in Nat
  BY LenProperties
<1>2. \A i \in 1 .. n : s[i] \in E
  BY <1>1, ElementOfSeq
<1>3. \A i \in n + 1 .. Len(s) : s[i] \in E
  BY <1>1, ElementOfSeq
<1>4. SubSeq(s, 1, n) \in Seq(E)
  BY <1>1, <1>2, SubSeqProperties
<1>5. SubSeq(s, n + 1, Len(s)) \in Seq(E)
  BY <1>1, <1>3, SubSeqProperties
<1> QED BY <1>4, <1>5, RangeOfSeq

\* A write keeps the types.
LEMMA WriteSomeType ==
  ASSUME TypeOK, WriteSome
  PROVE  /\ file' \in Seq(Block \cup {FREED})
         /\ lost' \in [{"queue", "decoder", "output"} -> SUBSET (Block \cup {FREED})]
<1> DEFINE E == Block \cup {FREED}
<1>1. PICK n \in 0 .. Len(wbuf) :
        /\ file' = file \o SubSeq(wbuf, 1, n)
        /\ Lose("output", Range(SubSeq(wbuf, n + 1, Len(wbuf))))
  BY DEF WriteSome
<1>2. wbuf \in Seq(E) /\ file \in Seq(E)
  BY DEF TypeOK
<1>3. /\ SubSeq(wbuf, 1, n) \in Seq(E)
      /\ Range(SubSeq(wbuf, n + 1, Len(wbuf))) \subseteq E
  BY <1>2, CutType
<1> HIDE DEF E
<1>4. file' \in Seq(E)
  BY <1>1, <1>2, <1>3, ConcatProperties
<1>5. lost' \in [{"queue", "decoder", "output"} -> SUBSET E]
  BY <1>1, <1>3, LoseType DEF TypeOK, E
<1> QED BY <1>4, <1>5 DEF E

\* A failed write keeps the types.
LEMMA WriteFailsType ==
  ASSUME TypeOK, WriteFails
  PROVE  /\ file' \in Seq(Block \cup {FREED})
         /\ lost' \in [{"queue", "decoder", "output"} -> SUBSET (Block \cup {FREED})]
         /\ pending' \subseteq Signal
<1>1. Range(wbuf) \in SUBSET (Block \cup {FREED})
  BY RangeOfSeq DEF TypeOK
<1>2. Lose("output", Range(wbuf))
  BY DEF WriteFails
<1>3. lost' \in [{"queue", "decoder", "output"} -> SUBSET (Block \cup {FREED})]
  BY <1>1, <1>2, LoseType DEF TypeOK
<1> QED BY <1>3 DEF WriteFails, TypeOK, Kill, Signal

\* The decoder keeps the types.
LEMMA DescrambleType ==
  ASSUME TypeOK, qbuf \in Block, Descramble
  PROVE  /\ wbuf' \in Seq(Block \cup {FREED}) /\ held' \in Seq(Block)
         /\ use_b1' = use_b1 /\ lost' = lost
<1> DEFINE s == Append(held, qbuf)
<1>1. s \in Seq(Block)
  BY AppendProperties DEF TypeOK
<1>2. PICK n \in 0 .. Len(s) :
        wbuf' = SubSeq(s, 1, n) /\ held' = SubSeq(s, n + 1, Len(s))
  BY DEF Descramble
<1>3. wbuf' \in Seq(Block) /\ held' \in Seq(Block)
  BY <1>1, <1>2, CutType
<1>4. wbuf' \in Seq(Block \cup {FREED})
  BY <1>3, SeqMonotonic
<1> QED BY <1>3, <1>4 DEF Descramble

\* The decoder's failure keeps the types.
LEMMA FallBackType ==
  ASSUME TypeOK, qbuf \in Block, FallBack
  PROVE  /\ wbuf' \in Seq(Block \cup {FREED}) /\ held' \in Seq(Block)
         /\ use_b1' \in BOOLEAN
         /\ lost' \in [{"queue", "decoder", "output"} -> SUBSET (Block \cup {FREED})]
<1>1. Range(held) \in SUBSET (Block \cup {FREED})
  BY RangeOfSeq DEF TypeOK
<1>2. Lose("decoder", Range(held))
  BY DEF FallBack
<1>3. lost' \in [{"queue", "decoder", "output"} -> SUBSET (Block \cup {FREED})]
  BY <1>1, <1>2, LoseType DEF TypeOK
<1>4. wbuf' \in Seq(Block \cup {FREED})
  <2>1. wbuf' = <<qbuf>> /\ qbuf \in Block \cup {FREED}
    BY DEF FallBack
  <2> QED BY <2>1
<1>5. held' = <<>> /\ use_b1' \in BOOLEAN
  BY DEF FallBack
<1> QED BY <1>3, <1>4, <1>5, EmptySeq

-----------------------------------------------------------------------------
(* What a queue step means for the entries.                                *)

\* A null entry in the queue after a Put was there or is the one put.
LEMMA PutNull ==
  ASSUME QueueTypeOK, QueueInv, ~Full, NEW d \in Entry, Put(d),
         NEW i \in 1 .. num_used', Contents'[i] = NULL
  PROVE  d = NULL \/ \E j \in 1 .. num_used : Contents[j] = NULL
<1>1. Contents \in Seq(Entry) /\ Len(Contents) = num_used /\ num_used \in Nat
  BY ContentsType DEF QueueTypeOK
<1>2. Contents' = Append(Contents, d) /\ num_used' = num_used + 1
  BY PutOK DEF Put
<1>3. i \in 1 .. num_used \/ i = num_used + 1
  BY <1>1, <1>2
<1>4. CASE i \in 1 .. num_used
  BY <1>1, <1>2, <1>4, AppendProperties
<1>5. CASE i = num_used + 1
  BY <1>1, <1>2, <1>5, AppendProperties
<1> QED BY <1>3, <1>4, <1>5

\* A null entry in the queue after a Take, or the one taken, was there before.
LEMMA TakeNull ==
  ASSUME QueueTypeOK, QueueInv, ~Empty, Take
  PROVE  /\ \A i \in 1 .. num_used' : Contents'[i] = NULL =>
              \E j \in 1 .. num_used : Contents[j] = NULL
         /\ Oldest = NULL => \E j \in 1 .. num_used : Contents[j] = NULL
<1>1. Contents \in Seq(Entry) /\ Len(Contents) = num_used /\ num_used \in Nat \ {0}
  BY ContentsType DEF QueueTypeOK, Empty
<1>2. /\ Contents # <<>> /\ Contents' = Tail(Contents) /\ num_used' = num_used - 1
      /\ Oldest = Head(Contents)
  BY TakeOK DEF Take
<1>3. ASSUME NEW i \in 1 .. num_used', Contents'[i] = NULL
      PROVE  \E j \in 1 .. num_used : Contents[j] = NULL
  <2>1. Contents'[i] = Contents[i + 1]
    BY <1>1, <1>2, HeadTailProperties
  <2>2. i + 1 \in 1 .. num_used
    BY <1>1, <1>2
  <2> QED BY <1>3, <2>1, <2>2
<1>4. Oldest = Contents[1] /\ 1 \in 1 .. num_used
  BY <1>1, <1>2
<1> QED BY <1>3, <1>4

\* Steps that leave the queue's variables leave the queue.
LEMMA SameContents ==
  ASSUME UNCHANGED queueVars
  PROVE  /\ Contents' = Contents /\ num_used' = num_used /\ num_avail' = num_avail
         /\ (QueueTypeOK => QueueTypeOK') /\ (QueueInv => QueueInv')
BY DEF queueVars, Contents, QueueTypeOK, QueueInv

-----------------------------------------------------------------------------
(* The invariant, one lemma per thread.                                    *)

\* The first state.
LEMMA InitOK == ASSUME Init PROVE IInv
<1>1. QueueTypeOK /\ QueueInv /\ Contents = <<>>
  BY QueueInitOK DEF Init
<1>2. TypeOK
  <2>1. lost \in [{"queue", "decoder", "output"} -> SUBSET (Block \cup {FREED})]
    BY DEF Init
  <2>2. /\ file \in Seq(Block \cup {FREED}) /\ wbuf \in Seq(Block \cup {FREED})
        /\ held \in Seq(Block)
    BY EmptySeq DEF Init
  <2>3. /\ f_exit \in BOOLEAN /\ expired \in BOOLEAN /\ indefinite \in BOOLEAN
        /\ mexp \in BOOLEAN /\ use_b1 \in BOOLEAN
    BY Zenon DEF Init
  <2>5. /\ captured \in 0 .. MaxBlocks
        /\ mretry \in 0 .. MaxRetry + 1 /\ rretry \in 0 .. MaxRetry + 1
    BY DEF Init
  <2>4. /\ mpc \in MainPC /\ rpc \in ReaderPC /\ spc \in SignalPC
        /\ mbuf \in Entry /\ qbuf \in Entry
        /\ pending \subseteq Signal /\ woken \subseteq {"main", "reader"}
    BY DEF Init, MainPC, ReaderPC, SignalPC, Entry
  <2> QED
    BY <1>1, <2>1, <2>2, <2>3, <2>4, <2>5 DEF TypeOK
<1>3. num_used = 0
  BY DEF Init, QueueInit
<1>4. ExitIsCertain /\ ReaderGoneStops /\ NoLostWakeup
  BY <1>3 DEF Init, ExitIsCertain, ReaderGoneStops, NoLostWakeup
<1> QED BY <1>1, <1>2, <1>4 DEF IInv

\* Steps of any thread that leave the queue alone.
LEMMA MainStep == ASSUME IInv, Main PROVE IInv'
<1> USE DEF IInv
<1>1. CASE MainCheckExit
  <2> USE <1>1 DEF MainCheckExit
  <2>1. TypeOK' /\ QueueInv'
    BY SameContents DEF TypeOK, MainPC, readerVars, signalVars, timeVars
  <2>2. ExitIsCertain'
    BY SameContents DEF ExitIsCertain, readerVars, signalVars
  <2>3. ReaderGoneStops' /\ NoLostWakeup'
    BY SameContents DEF ReaderGoneStops, NoLostWakeup, readerVars, signalVars
  <2> QED BY <2>1, <2>2, <2>3
<1>2. CASE MainRead
  <2> USE <1>2 DEF MainRead
  <2>1. TypeOK' /\ QueueInv'
    BY SameContents DEF TypeOK, MainPC, readerVars, signalVars, timeVars, Entry
  <2>2. ExitIsCertain'
    BY SameContents DEF ExitIsCertain, readerVars, signalVars, TypeOK
  <2>3. ReaderGoneStops' /\ NoLostWakeup'
    BY SameContents DEF ReaderGoneStops, NoLostWakeup, readerVars, signalVars
  <2> QED BY <2>1, <2>2, <2>3
<1>4. CASE MainEnqueue
  <2> USE <1>4 DEF MainEnqueue
  <2>1. CASE Full
    <3> USE <2>1
    <3>1. TypeOK' /\ QueueInv'
      BY SameContents DEF TypeOK, MainPC, readerVars, signalVars, timeVars
    <3>2. ExitIsCertain'
      BY SameContents DEF ExitIsCertain, readerVars, signalVars
    <3>3. ReaderGoneStops' /\ NoLostWakeup'
      BY SameContents DEF ReaderGoneStops, NoLostWakeup, readerVars, signalVars, Full
    <3> QED BY <3>1, <3>2, <3>3
  <2>2. CASE ~Full
    <3>1. mbuf \in Entry /\ Put(mbuf) /\ QueueTypeOK
      BY <2>2 DEF TypeOK
    <3>2. QueueTypeOK' /\ QueueInv'
      BY <2>2, <3>1, PutOK
    <3>3. TypeOK'
      BY <2>2, <3>2 DEF TypeOK, MainPC, readerVars, signalVars, timeVars
    <3>4. ExitIsCertain'
      BY <2>2, <3>1, PutNull DEF ExitIsCertain, readerVars, signalVars
    <3>5. ReaderGoneStops' /\ NoLostWakeup'
      BY <2>2 DEF ReaderGoneStops, NoLostWakeup, readerVars, signalVars
    <3> QED BY <3>2, <3>3, <3>4, <3>5
  <2> QED BY <2>1, <2>2
<1>3. CASE MainReadNothing
  <2> USE <1>3 DEF MainReadNothing
  <2>1. TypeOK' /\ QueueInv'
    BY SameContents DEF TypeOK, MainPC, readerVars, signalVars, timeVars, Entry
  <2>2. ExitIsCertain'
    BY SameContents DEF ExitIsCertain, readerVars, signalVars
  <2>3. ReaderGoneStops' /\ NoLostWakeup'
    BY SameContents DEF ReaderGoneStops, NoLostWakeup, readerVars, signalVars
  <2> QED BY <2>1, <2>2, <2>3
<1>5. CASE MainWake
  <2> USE <1>5 DEF MainWake
  <2>1. mretry <= MaxRetry /\ mretry \in Nat /\ mretry' = mretry + 1
    BY DEF ExitIsCertain, TypeOK
  <2>5. ~(mretry' > MaxRetry) => mretry' <= MaxRetry
    BY <2>1
  <2>6. ~f_exit' => ~f_exit /\ mretry' <= MaxRetry
    BY <2>5, Zenon
  <2>2. CASE f_exit'
    <3> USE <2>2
    <3>1. {mbuf} \ {NULL} \in SUBSET (Block \cup {FREED})
      BY DEF TypeOK, Entry
    <3>2. lost' \in [{"queue", "decoder", "output"} -> SUBSET (Block \cup {FREED})]
      BY <3>1, LoseType DEF TypeOK
    <3>3. TypeOK' /\ QueueInv'
      BY <2>1, <3>2, SameContents DEF TypeOK, MainPC, readerVars, signalVars, timeVars
    <3>4. ExitIsCertain'
      BY SameContents DEF ExitIsCertain, readerVars, signalVars
    <3>5. ReaderGoneStops' /\ NoLostWakeup'
      BY SameContents DEF ReaderGoneStops, NoLostWakeup, readerVars, signalVars
    <3> QED BY <3>3, <3>4, <3>5
  <2>3. CASE ~f_exit' /\ Full
    <3> USE <2>3
    <3>1. TypeOK' /\ QueueInv'
      BY <2>1, SameContents DEF TypeOK, MainPC, readerVars, signalVars, timeVars
    <3>2. ExitIsCertain'
      BY <2>6, SameContents DEF ExitIsCertain, readerVars, signalVars
    <3>3. ReaderGoneStops'
      BY <2>6 DEF ReaderGoneStops, readerVars, signalVars
    <3>4. NoLostWakeup'
      BY SameContents DEF NoLostWakeup, readerVars, Full
    <3> QED BY <3>1, <3>2, <3>3, <3>4
  <2>4. CASE ~f_exit' /\ ~Full
    <3>1. mbuf \in Entry /\ Put(mbuf) /\ QueueTypeOK
      BY <2>4 DEF TypeOK
    <3>2. QueueTypeOK' /\ QueueInv'
      BY <2>4, <3>1, PutOK
    <3>3. TypeOK'
      BY <2>1, <2>4, <3>2 DEF TypeOK, MainPC, readerVars, signalVars, timeVars
    <3>4. ExitIsCertain'
      BY <2>4, <3>1, PutNull DEF ExitIsCertain, readerVars, signalVars
    <3>5. ReaderGoneStops' /\ NoLostWakeup'
      BY <2>4 DEF ReaderGoneStops, NoLostWakeup, readerVars, signalVars
    <3> QED BY <3>2, <3>3, <3>4, <3>5
  <2> QED BY <2>2, <2>3, <2>4
<1>6. CASE MainSignalUsed
  <2> USE <1>6 DEF MainSignalUsed, SignalUsed
  <2>1. TypeOK' /\ QueueInv'
    BY SameContents DEF TypeOK, MainPC, readerVars, signalVars, timeVars
  <2>2. ExitIsCertain'
    BY SameContents DEF ExitIsCertain, readerVars, signalVars
  <2>3. ReaderGoneStops' /\ NoLostWakeup'
    BY SameContents DEF ReaderGoneStops, NoLostWakeup, readerVars, signalVars
  <2> QED BY <2>1, <2>2, <2>3
<1>7. CASE MainAfter
  <2> USE <1>7 DEF MainAfter
  <2>1. TypeOK' /\ QueueInv'
    BY SameContents DEF TypeOK, MainPC, readerVars, signalVars, timeVars
  <2>2. ExitIsCertain'
    BY SameContents DEF ExitIsCertain, readerVars, signalVars
  <2>3. ReaderGoneStops' /\ NoLostWakeup'
    BY SameContents DEF ReaderGoneStops, NoLostWakeup, readerVars, signalVars
  <2> QED BY <2>1, <2>2, <2>3
<1>8. CASE MainStop
  <2> USE <1>8 DEF MainStop, Kill
  <2>1. TypeOK' /\ QueueInv'
    BY SameContents DEF TypeOK, MainPC, readerVars, signalVars, timeVars, Signal
  <2>2. ExitIsCertain'
    BY SameContents DEF ExitIsCertain, readerVars, signalVars
  <2>3. ReaderGoneStops' /\ NoLostWakeup'
    BY SameContents DEF ReaderGoneStops, NoLostWakeup, readerVars, signalVars
  <2> QED BY <2>1, <2>2, <2>3
<1>9. CASE MainFinish
  <2> USE <1>9 DEF MainFinish
  <2>1. TypeOK' /\ QueueInv'
    BY SameContents DEF TypeOK, MainPC, readerVars, signalVars, timeVars
  <2>2. ExitIsCertain'
    BY SameContents DEF ExitIsCertain, readerVars, signalVars
  <2>3. ReaderGoneStops' /\ NoLostWakeup'
    BY SameContents DEF ReaderGoneStops, NoLostWakeup, readerVars, signalVars
  <2> QED BY <2>1, <2>2, <2>3
<1> QED
  BY <1>1, <1>2, <1>3, <1>4, <1>5, <1>6, <1>7, <1>8, <1>9 DEF Main

\* The reader's steps.
LEMMA ReaderStep == ASSUME IInv, Reader PROVE IInv'
<1> USE DEF IInv
<1>1. CASE ReaderDequeue
  <2> USE <1>1 DEF ReaderDequeue
  <2>1. CASE Empty
    <3> USE <2>1
    <3>1. TypeOK' /\ QueueInv'
      BY SameContents DEF TypeOK, ReaderPC, mainVars, signalVars, timeVars
    <3>2. ExitIsCertain'
      BY SameContents DEF ExitIsCertain, mainVars, signalVars
    <3>3. ReaderGoneStops' /\ NoLostWakeup'
      BY SameContents DEF ReaderGoneStops, NoLostWakeup, mainVars, signalVars, Empty
    <3> QED BY <3>1, <3>2, <3>3
  <2>2. CASE ~Empty
    <3>1. Take /\ QueueTypeOK /\ qbuf' = Oldest
      BY <2>2 DEF TypeOK
    <3>2. QueueTypeOK' /\ QueueInv' /\ Oldest \in Entry
      BY <2>2, <3>1, TakeOK
    <3>3. TypeOK'
      BY <2>2, <3>2 DEF TypeOK, ReaderPC, mainVars, signalVars, timeVars
    <3>4. ExitIsCertain'
      BY <2>2, <3>1, TakeNull DEF ExitIsCertain, mainVars, signalVars
    <3>5. ReaderGoneStops' /\ NoLostWakeup'
      BY <2>2 DEF ReaderGoneStops, NoLostWakeup, mainVars, signalVars
    <3> QED BY <3>2, <3>3, <3>4, <3>5
  <2> QED BY <2>1, <2>2
<1>2. CASE ReaderWake
  <2> USE <1>2 DEF ReaderWake
  <2>1. rretry <= MaxRetry /\ rretry \in Nat /\ rretry' = rretry + 1
    BY DEF ExitIsCertain, TypeOK
  <2>5. ~(rretry' > MaxRetry) => rretry' <= MaxRetry
    BY <2>1
  <2>6. ~f_exit' => ~f_exit /\ rretry' <= MaxRetry
    BY <2>5, Zenon
  <2>2. CASE f_exit' \/ Empty
    <3> USE <2>2
    <3>1. TypeOK' /\ QueueInv'
      BY <2>1, SameContents DEF TypeOK, ReaderPC, mainVars, signalVars, timeVars
    <3>2. ExitIsCertain'
      BY <2>6, SameContents DEF ExitIsCertain, mainVars, signalVars
    <3>3. ReaderGoneStops' /\ NoLostWakeup'
      BY SameContents DEF ReaderGoneStops, NoLostWakeup, mainVars, signalVars, Empty
    <3> QED BY <3>1, <3>2, <3>3
  <2>3. CASE ~f_exit' /\ ~Empty
    <3>1. Take /\ QueueTypeOK /\ qbuf' = Oldest
      BY <2>3 DEF TypeOK
    <3>2. QueueTypeOK' /\ QueueInv' /\ Oldest \in Entry
      BY <2>3, <3>1, TakeOK
    <3>3. TypeOK'
      BY <2>1, <2>3, <3>2 DEF TypeOK, ReaderPC, mainVars, signalVars, timeVars
    <3>4. ExitIsCertain'
      BY <2>3, <3>1, TakeNull DEF ExitIsCertain, mainVars, signalVars
    <3>5. ReaderGoneStops' /\ NoLostWakeup'
      BY <2>3 DEF ReaderGoneStops, NoLostWakeup, mainVars, signalVars
    <3> QED BY <3>2, <3>3, <3>4, <3>5
  <2> QED BY <2>2, <2>3
<1>3. CASE ReaderSignalAvail
  <2> USE <1>3 DEF ReaderSignalAvail, SignalAvail
  <2>1. TypeOK' /\ QueueInv'
    BY SameContents DEF TypeOK, ReaderPC, mainVars, signalVars, timeVars
  <2>2. ExitIsCertain'
    BY SameContents DEF ExitIsCertain, mainVars, signalVars
  <2>3. ReaderGoneStops' /\ NoLostWakeup'
    BY SameContents DEF ReaderGoneStops, NoLostWakeup, ExitIsCertain, mainVars, signalVars
  <2> QED BY <2>1, <2>2, <2>3
<1>4. CASE ReaderDecode
  <2> USE <1>4 DEF ReaderDecode
  <2>1. qbuf \in Block
    BY DEF ExitIsCertain, TypeOK, Entry
  <2>2. /\ wbuf' \in Seq(Block \cup {FREED}) /\ held' \in Seq(Block)
        /\ use_b1' \in BOOLEAN
        /\ lost' \in [{"queue", "decoder", "output"} -> SUBSET (Block \cup {FREED})]
    <3>1. CASE Descramble
      BY <2>1, <3>1, DescrambleType DEF TypeOK
    <3>2. CASE FallBack
      BY <2>1, <3>2, FallBackType
    <3>3. CASE wbuf' = <<qbuf>> /\ UNCHANGED <<held, use_b1, lost>>
      BY <2>1, <3>3 DEF TypeOK
    <3> QED BY <3>1, <3>2, <3>3
  <2>3. TypeOK' /\ QueueInv'
    BY <2>2, SameContents DEF TypeOK, ReaderPC, mainVars, signalVars, timeVars
  <2>4. ExitIsCertain'
    BY SameContents DEF ExitIsCertain, mainVars, signalVars
  <2>5. ReaderGoneStops' /\ NoLostWakeup'
    BY SameContents DEF ReaderGoneStops, NoLostWakeup, mainVars, signalVars
  <2> QED BY <2>3, <2>4, <2>5
<1> DEFINE Written == /\ file' \in Seq(Block \cup {FREED})
                      /\ pending' \subseteq Signal
                      /\ lost' \in [{"queue", "decoder", "output"} ->
                                       SUBSET (Block \cup {FREED})]
<1>5. ASSUME WriteSome, pending' = pending PROVE Written
  BY <1>5, WriteSomeType DEF TypeOK
<1>6. ASSUME WriteFails PROVE Written
  BY <1>6, WriteFailsType
<1>7. CASE ReaderWrite
  <2> USE <1>7 DEF ReaderWrite
  <2>1. Written
    BY <1>5, <1>6
  <2>2. TypeOK' /\ QueueInv'
    BY <2>1, EmptySeq, SameContents DEF TypeOK, ReaderPC, mainVars, signalVars, timeVars
  <2>3. ExitIsCertain'
    BY SameContents DEF ExitIsCertain, mainVars, signalVars
  <2>4. ReaderGoneStops' /\ NoLostWakeup'
    <3>1. CASE rpc' = "check"
      BY <3>1, SameContents DEF ReaderGoneStops, NoLostWakeup, mainVars, signalVars
    <3>2. CASE WriteFails
      BY <3>2, SameContents DEF ReaderGoneStops, NoLostWakeup, ExitIsCertain, WriteFails,
           Kill, mainVars, signalVars, TypeOK, SignalPC
    <3> QED BY <3>1, <3>2
  <2> QED BY <2>2, <2>3, <2>4
<1>8. CASE ReaderCheck
  <2> USE <1>8 DEF ReaderCheck
  <2>1. TypeOK' /\ QueueInv'
    BY SameContents DEF TypeOK, ReaderPC, mainVars, signalVars, timeVars, Entry
  <2>2. ExitIsCertain'
    BY SameContents DEF ExitIsCertain, mainVars, signalVars
  <2>3. ReaderGoneStops' /\ NoLostWakeup'
    BY SameContents DEF ReaderGoneStops, NoLostWakeup, mainVars, signalVars
  <2> QED BY <2>1, <2>2, <2>3
<1>9. CASE ReaderFinish
  <2> USE <1>9 DEF ReaderFinish
  <2>1. /\ wbuf' \in Seq(Block \cup {FREED})
        /\ lost' \in [{"queue", "decoder", "output"} -> SUBSET (Block \cup {FREED})]
    <3>1. CASE wbuf' = held /\ lost' = lost
      BY <3>1, SeqMonotonic DEF TypeOK
    <3>2. CASE wbuf' = <<FREED>> /\ Lose("decoder", Range(held))
      <4>1. Range(held) \in SUBSET (Block \cup {FREED})
        BY RangeOfSeq DEF TypeOK
      <4>2. lost' \in [{"queue", "decoder", "output"} -> SUBSET (Block \cup {FREED})]
        BY <3>2, <4>1, LoseType DEF TypeOK
      <4> QED BY <3>2, <4>2
    <3> QED BY <3>1, <3>2
  <2>2. TypeOK' /\ QueueInv'
    BY <2>1, EmptySeq, SameContents DEF TypeOK, ReaderPC, mainVars, signalVars, timeVars
  <2>3. ExitIsCertain'
    BY SameContents DEF ExitIsCertain, mainVars, signalVars
  <2>4. ReaderGoneStops' /\ NoLostWakeup'
    BY SameContents DEF ReaderGoneStops, NoLostWakeup, mainVars, signalVars
  <2> QED BY <2>2, <2>3, <2>4
<1>10. CASE ReaderFinalWrite
  <2> USE <1>10 DEF ReaderFinalWrite
  <2>1. Written
    BY <1>5, <1>6
  <2>2. TypeOK' /\ QueueInv'
    BY <2>1, EmptySeq, SameContents DEF TypeOK, ReaderPC, mainVars, signalVars, timeVars
  <2>3. ExitIsCertain'
    BY SameContents DEF ExitIsCertain, mainVars, signalVars
  <2>4. ReaderGoneStops' /\ NoLostWakeup'
    BY SameContents DEF ReaderGoneStops, NoLostWakeup, ExitIsCertain, mainVars, signalVars
  <2> QED BY <2>2, <2>3, <2>4
<1> QED
  BY <1>1, <1>2, <1>3, <1>4, <1>7, <1>8, <1>9, <1>10 DEF Reader

\* The steps of signals and time.
LEMMA OtherStep ==
  ASSUME IInv, SignalThread \/ UserSignal \/ TimePasses \/ UNCHANGED vars
  PROVE  IInv'
<1> USE DEF IInv
<1>1. CASE SignalAccept
  <2> USE <1>1 DEF SignalAccept
  <2>1. TypeOK' /\ QueueInv'
    BY SameContents DEF TypeOK, SignalPC, mainVars, readerVars, timeVars
  <2>2. ExitIsCertain'
    BY SameContents DEF ExitIsCertain, mainVars, readerVars
  <2>3. ReaderGoneStops' /\ NoLostWakeup'
    BY SameContents DEF ReaderGoneStops, NoLostWakeup, mainVars, readerVars
  <2> QED BY <2>1, <2>2, <2>3
<1>2. CASE SignalSetExit
  <2> USE <1>2 DEF SignalSetExit
  <2>1. TypeOK' /\ QueueInv'
    BY SameContents DEF TypeOK, SignalPC, mainVars, readerVars, timeVars
  <2>2. ExitIsCertain'
    BY SameContents DEF ExitIsCertain, mainVars, readerVars
  <2>3. ReaderGoneStops' /\ NoLostWakeup'
    BY SameContents DEF ReaderGoneStops, NoLostWakeup, mainVars, readerVars
  <2> QED BY <2>1, <2>2, <2>3
<1>3. CASE SignalWakes
  <2> USE <1>3 DEF SignalWakes, SignalAvail, SignalUsed
  <2>1. TypeOK' /\ QueueInv'
    BY SameContents DEF TypeOK, SignalPC, mainVars, readerVars, timeVars
  <2>2. ExitIsCertain'
    BY SameContents DEF ExitIsCertain, mainVars, readerVars
  <2>3. ReaderGoneStops'
    BY DEF ReaderGoneStops, ExitIsCertain, mainVars, readerVars
  <2>4. NoLostWakeup'
    BY SameContents DEF NoLostWakeup, mainVars, readerVars
  <2> QED BY <2>1, <2>2, <2>3, <2>4
<1>4. CASE UserSignal
  <2> USE <1>4 DEF UserSignal
  <2>1. TypeOK' /\ QueueInv'
    BY SameContents DEF TypeOK, Signal, mainVars, readerVars, signalVars, timeVars
  <2>2. ExitIsCertain'
    BY SameContents DEF ExitIsCertain, mainVars, readerVars, signalVars
  <2>3. ReaderGoneStops' /\ NoLostWakeup'
    BY SameContents DEF ReaderGoneStops, NoLostWakeup, mainVars, readerVars, signalVars
  <2> QED BY <2>1, <2>2, <2>3
<1>5. CASE TimePasses
  <2> USE <1>5 DEF TimePasses
  <2>1. TypeOK' /\ QueueInv'
    BY SameContents DEF TypeOK, mainVars, readerVars, signalVars
  <2>2. ExitIsCertain'
    BY SameContents DEF ExitIsCertain, mainVars, readerVars, signalVars
  <2>3. ReaderGoneStops' /\ NoLostWakeup'
    BY SameContents DEF ReaderGoneStops, NoLostWakeup, mainVars, readerVars, signalVars
  <2> QED BY <2>1, <2>2, <2>3
<1>6. CASE UNCHANGED vars
  <2> USE <1>6 DEF vars, mainVars, readerVars, signalVars, timeVars
  <2>1. TypeOK' /\ QueueInv'
    BY SameContents DEF TypeOK
  <2>2. ExitIsCertain'
    BY SameContents DEF ExitIsCertain
  <2>3. ReaderGoneStops' /\ NoLostWakeup'
    BY SameContents DEF ReaderGoneStops, NoLostWakeup
  <2> QED BY <2>1, <2>2, <2>3
<1> QED
  BY <1>1, <1>2, <1>3, <1>4, <1>5, <1>6 DEF SignalThread

-----------------------------------------------------------------------------
(* The theorems.                                                           *)

\* IInv holds throughout: no step of the three threads of recskapa.c leaves it.
THEOREM Invariance == Spec => []IInv
<1>1. Init => IInv
  BY InitOK
<1>2. IInv /\ [Next]_vars => IInv'
  <2> SUFFICES ASSUME IInv, [Next]_vars PROVE IInv'
    OBVIOUS
  <2>1. CASE Main
    BY <2>1, MainStep
  <2>2. CASE Reader
    BY <2>2, ReaderStep
  <2>3. CASE SignalThread \/ UserSignal \/ TimePasses \/ UNCHANGED vars
    BY <2>3, OtherStep
  <2> QED BY <2>1, <2>2, <2>3 DEF Next, Exited
<1> QED BY <1>1, <1>2, PTL DEF Spec

\* Every variable keeps its type; no sequence, index or counter leaves it.
THEOREM TypeCorrect == Spec => []TypeOK
BY Invariance, PTL DEF IInv

\* The counters and indices of QUEUE_T agree whichever thread works on it.
THEOREM QueueConsistent == Spec => []QueueInv
BY Invariance, PTL DEF IInv

\* A null entry, a finishing reader or a finished signal thread imply f_exit.
THEOREM ExitCertain == Spec => []ExitIsCertain
BY Invariance, PTL DEF IInv

\* The reader never ends without main being told to stop.
THEOREM ReaderNeverLeavesMain == Spec => []ReaderGoneStops
BY Invariance, PTL DEF IInv

\* Neither waiter sleeps over work that is there without a signal under way.
THEOREM WakeupsAreSent == Spec => []NoLostWakeup
BY Invariance, PTL DEF IInv

\* Once the exit flag is up no further read of the tuner begins.
THEOREM CaptureStops == Spec => NoCaptureAfterExit
<1>1. ASSUME Next, f_exit, mpc # "read"
      PROVE  captured' = captured /\ mpc' # "read"
  <2>1. CASE Main
    BY <1>1, <2>1 DEF Main, MainCheckExit, MainRead, MainReadNothing, MainEnqueue,
       MainWake, MainSignalUsed, MainAfter, MainStop, MainFinish
  <2>2. CASE Reader
    BY <1>1, <2>2 DEF Reader, ReaderDequeue, ReaderWake, ReaderSignalAvail,
       ReaderDecode, ReaderWrite, ReaderCheck, ReaderFinish, ReaderFinalWrite, mainVars
  <2>3. CASE SignalThread \/ UserSignal \/ TimePasses \/ Exited
    BY <1>1, <2>3 DEF SignalThread, SignalAccept, SignalSetExit, SignalWakes,
       UserSignal, TimePasses, Exited, mainVars, vars
  <2> QED BY <1>1, <2>1, <2>2, <2>3 DEF Next
<1>2. [Next]_vars => [f_exit /\ mpc # "read" => captured' = captured /\ mpc' # "read"]_vars
  BY <1>1
<1> QED BY <1>2, PTL DEF Spec, NoCaptureAfterExit

\* Contents moves as the channel of BoundedFifo does, or not at all.
THEOREM ImplementsFifo == Spec => QueueIsFifo
<1>1. Init => Fifo!Init
  BY QueueInitOK DEF Init, Fifo!Init
<1>2. ASSUME IInv, ~Full, Put(mbuf) PROVE Fifo!Next
  <2>1. mbuf \in Entry /\ QueueTypeOK /\ QueueInv
    BY <1>2 DEF IInv, TypeOK
  <2>2. Contents' = Append(Contents, mbuf)
    BY <1>2, <2>1, PutOK
  <2>3. Len(Contents) < Size
    BY <1>2, <2>1, ContentsType DEF Full, QueueInv, QueueTypeOK
  <2> QED BY <2>1, <2>2, <2>3 DEF Fifo!Next, Fifo!Send
<1>3. ASSUME IInv, ~Empty, Take PROVE Fifo!Next
  BY <1>3, TakeOK DEF IInv, TypeOK, Fifo!Next, Fifo!Receive
<1>4. IInv /\ [Next]_vars => [Fifo!Next]_Contents
  <2> SUFFICES ASSUME IInv, [Next]_vars PROVE Fifo!Next \/ Contents' = Contents
    OBVIOUS
  <2>1. CASE Main
    <3>1. UNCHANGED queueVars \/ (~Full /\ Put(mbuf))
      BY <2>1 DEF Main, MainCheckExit, MainRead, MainReadNothing, MainEnqueue,
         MainWake, MainSignalUsed, MainAfter, MainStop, MainFinish
    <3> QED BY <1>2, <3>1, SameContents
  <2>2. CASE Reader
    <3>1. UNCHANGED queueVars \/ (~Empty /\ Take)
      BY <2>2 DEF Reader, ReaderDequeue, ReaderWake, ReaderSignalAvail,
         ReaderDecode, ReaderWrite, ReaderCheck, ReaderFinish, ReaderFinalWrite
    <3> QED BY <1>3, <3>1, SameContents
  <2>3. CASE SignalThread \/ UserSignal \/ TimePasses \/ Exited \/ UNCHANGED vars
    <3>1. UNCHANGED queueVars
      BY <2>3 DEF SignalThread, SignalAccept, SignalSetExit, SignalWakes,
         UserSignal, TimePasses, Exited, vars
    <3> QED BY <3>1, SameContents
  <2> QED BY <2>1, <2>2, <2>3 DEF Next
<1> QED BY <1>1, <1>4, Invariance, PTL DEF Spec, QueueIsFifo, Fifo!Spec

-----------------------------------------------------------------------------
(* What a sequence of blocks, null entries and freed memory holds.         *)

Item == Block \cup {NULL, FREED}
Below(X, Y) == \A x \in X, y \in Y : x < y

\* What two sequences hold behind each other.
LEMMA JoinedBlocks ==
  ASSUME NEW s \in Seq(Item), NEW t \in Seq(Item)
  PROVE  /\ s \o t \in Seq(Item) /\ Blocks(s \o t) = Blocks(s) \cup Blocks(t)
         /\ InOrder(s \o t) <=> InOrder(s) /\ InOrder(t) /\ Below(Blocks(s), Blocks(t))
<1> DEFINE u == s \o t
           a == Len(s)
           b == Len(t)
<1>1. /\ u \in Seq(Item) /\ a \in Nat /\ b \in Nat /\ Len(u) = a + b
      /\ DOMAIN s = 1 .. a /\ DOMAIN t = 1 .. b /\ DOMAIN u = 1 .. a + b
      /\ \A i \in 1 .. a : i \in 1 .. a + b /\ u[i] = s[i]
      /\ \A i \in 1 .. b : a + i \in 1 .. a + b /\ u[a + i] = t[i]
  BY ConcatProperties
<1>2. \A i \in 1 .. a + b : i \in 1 .. a \/ (i - a \in 1 .. b /\ u[i] = t[i - a])
  <2>1. ASSUME NEW i \in 1 .. a + b, i \notin 1 .. a
        PROVE  i - a \in 1 .. b /\ u[i] = t[i - a]
    <3>1. i - a \in 1 .. b /\ a + (i - a) = i
      BY <1>1, <2>1
    <3> QED BY <1>1, <3>1
  <2> QED BY <2>1
<1> HIDE DEF u, a, b
<1>3. /\ \A x : x \in Blocks(s) <=> \E i \in 1 .. a : s[i] = x /\ x \in Block
      /\ \A x : x \in Blocks(t) <=> \E i \in 1 .. b : t[i] = x /\ x \in Block
      /\ \A x : x \in Blocks(u) <=> \E i \in 1 .. a + b : u[i] = x /\ x \in Block
  BY <1>1 DEF Blocks, Range
<1>4. Blocks(u) = Blocks(s) \cup Blocks(t)
  <2>1. ASSUME NEW x \in Blocks(u) PROVE x \in Blocks(s) \cup Blocks(t)
    BY <1>1, <1>2, <1>3
  <2>2. ASSUME NEW x \in Blocks(s) \cup Blocks(t) PROVE x \in Blocks(u)
    BY <1>1, <1>3
  <2> QED BY <2>1, <2>2
<1>5. ASSUME InOrder(u)
      PROVE  InOrder(s) /\ InOrder(t) /\ Below(Blocks(s), Blocks(t))
  <2>1. InOrder(s)
    BY <1>1, <1>5 DEF InOrder
  <2>2. ASSUME NEW i \in 1 .. b, NEW j \in 1 .. b, i < j, t[i] \in Block, t[j] \in Block
        PROVE  t[i] < t[j]
    <3>1. a + i < a + j /\ a + i \in DOMAIN u /\ a + j \in DOMAIN u
      BY <1>1, <2>2
    <3> QED BY <1>1, <1>5, <2>2, <3>1 DEF InOrder
  <2>3. ASSUME NEW x \in Blocks(s), NEW y \in Blocks(t)
        PROVE  x < y
    <3>1. PICK i \in 1 .. a : s[i] = x /\ x \in Block
      BY <1>3
    <3>2. PICK j \in 1 .. b : t[j] = y /\ y \in Block
      BY <1>3
    <3>3. i < a + j
      BY <1>1
    <3> QED BY <1>1, <1>5, <3>1, <3>2, <3>3 DEF InOrder
  <2> QED BY <1>1, <2>1, <2>2, <2>3 DEF InOrder, Below
<1>6. ASSUME InOrder(s), InOrder(t), Below(Blocks(s), Blocks(t)),
             NEW i \in 1 .. a + b, NEW j \in 1 .. a + b, i < j, u[i] \in Block, u[j] \in Block
      PROVE  u[i] < u[j]
  <2>1. CASE j \in 1 .. a
    <3>1. i \in 1 .. a
      BY <1>1, <1>6, <2>1
    <3> QED BY <1>1, <1>6, <2>1, <3>1 DEF InOrder
  <2>2. CASE i \in 1 .. a /\ j \notin 1 .. a
    <3>1. u[i] \in Blocks(s) /\ u[j] \in Blocks(t)
      BY <1>1, <1>2, <1>3, <1>6, <2>2
    <3> QED BY <1>6, <3>1 DEF Below
  <2>3. CASE i \notin 1 .. a /\ j \notin 1 .. a
    <3>1. /\ i - a \in 1 .. b /\ u[i] = t[i - a] /\ j - a \in 1 .. b /\ u[j] = t[j - a]
          /\ i - a < j - a
      BY <1>1, <1>2, <1>6, <2>3
    <3> QED BY <1>1, <1>6, <3>1 DEF InOrder
  <2> QED BY <1>1, <1>6, <2>1, <2>2, <2>3
<1>7. ASSUME InOrder(s), InOrder(t), Below(Blocks(s), Blocks(t)) PROVE InOrder(u)
  BY <1>1, <1>6, <1>7 DEF InOrder
<1> QED BY <1>1, <1>4, <1>5, <1>7 DEF u

\* A single entry, and none.
LEMMA FewBlocks ==
  ASSUME NEW x \in Item
  PROVE  /\ <<x>> \in Seq(Item) /\ <<>> \in Seq(Item)
         /\ Blocks(<<x>>) = {x} \cap Block /\ Blocks(<<>>) = {}
         /\ InOrder(<<x>>) /\ InOrder(<<>>)
<1>1. DOMAIN <<x>> = {1} /\ <<x>>[1] = x
  OBVIOUS
<1>2. Blocks(<<x>>) = {x} \cap Block
  BY <1>1 DEF Blocks, Range
<1>3. InOrder(<<x>>)
  BY <1>1 DEF InOrder
<1>4. Blocks(<<>>) = {} /\ InOrder(<<>>)
  BY DEF Blocks, Range, InOrder
<1> QED BY <1>2, <1>3, <1>4

\* A sequence is what its two parts make.
LEMMA Rejoined ==
  ASSUME NEW s \in Seq(Item), NEW a \in Seq(Item), NEW b \in Seq(Item),
         Len(s) = Len(a) + Len(b), \A i \in 1 .. Len(a) : a[i] = s[i],
         \A i \in 1 .. Len(b) : b[i] = s[Len(a) + i]
  PROVE  s = a \o b
<1> DEFINE c == a \o b
           k == Len(a)
           l == Len(b)
<1>1. k \in Nat /\ l \in Nat /\ Len(s) = k + l /\ c \in Seq(Item) /\ Len(c) = k + l
  BY ConcatProperties
<1>2. ASSUME NEW i \in 1 .. k + l
      PROVE  c[i] = s[i]
  <2>1. CASE i <= k
    <3>1. i \in 1 .. k
      BY <1>1, <2>1
    <3>2. c[i] = a[i]
      BY <1>1, <3>1, ConcatProperties
    <3> QED BY <3>1, <3>2
  <2>2. CASE ~(i <= k)
    <3> DEFINE j == i - k
    <3>1. j \in 1 .. l /\ k + j = i
      BY <1>1, <2>2
    <3>2. c[i] = b[j]
      BY <1>1, <2>2, ConcatProperties
    <3>3. b[j] = s[k + j]
      BY <3>1
    <3> QED BY <3>1, <3>2, <3>3
  <2> QED BY <2>1, <2>2
<1> HIDE DEF c, k, l
<1>3. c = s
  BY <1>1, <1>2, SeqEqual
<1> QED BY <1>3 DEF c

\* A sequence is its two parts behind each other.
LEMMA CutBlocks ==
  ASSUME NEW s \in Seq(Item), NEW k \in 0 .. Len(s)
  PROVE  LET a == SubSeq(s, 1, k)
             b == SubSeq(s, k + 1, Len(s))
         IN  /\ a \in Seq(Item) /\ b \in Seq(Item) /\ Blocks(s) = Blocks(a) \cup Blocks(b)
             /\ InOrder(s) <=> InOrder(a) /\ InOrder(b) /\ Below(Blocks(a), Blocks(b))
<1> DEFINE n == Len(s)
           m == k + 1
           a == SubSeq(s, 1, k)
           b == SubSeq(s, m, n)
<1>1. n \in Nat /\ k \in 0 .. n /\ \A i \in 1 .. n : s[i] \in Item
  BY LenProperties, ElementOfSeq
<1>2. /\ a \in Seq(Item) /\ Len(a) = k /\ \A i \in 1 .. k : a[i] = s[i]
  <2>1. \A i \in 1 .. k : s[i] \in Item
    BY <1>1
  <2> QED BY <1>1, <2>1, SubSeqProperties
<1>3. m \in Int /\ n \in Int /\ (\A i \in m .. n : s[i] \in Item) /\ m <= n + 1
  BY <1>1
<1>4. n - m + 1 = n - k /\ (\A i \in 1 .. n - k : m + i - 1 = k + i) /\ n = k + (n - k)
  BY <1>1
<1> HIDE DEF m, n, a
<1>5. /\ b \in Seq(Item) /\ Len(b) = (IF m <= n THEN n - m + 1 ELSE 0)
      /\ \A i \in 1 .. n - m + 1 : b[i] = s[m + i - 1]
  BY <1>3, SubSeqProperties
<1> HIDE DEF b
<1>6. Len(b) = n - k
  BY <1>1, <1>3, <1>4, <1>5
<1>7. \A i \in 1 .. n - k : b[i] = s[k + i]
  BY <1>4, <1>5
<1>8. s = a \o b
  <2>1. Len(s) = Len(a) + Len(b) /\ Len(a) = k
    BY <1>2, <1>4, <1>6 DEF n
  <2>2. \A i \in 1 .. Len(a) : a[i] = s[i]
    BY <1>2
  <2>3. \A i \in 1 .. Len(b) : b[i] = s[Len(a) + i]
    BY <1>2, <1>6, <1>7
  <2> QED BY <1>2, <1>5, <2>1, <2>2, <2>3, Rejoined
<1>9. /\ Blocks(s) = Blocks(a) \cup Blocks(b)
      /\ InOrder(s) <=> InOrder(a) /\ InOrder(b) /\ Below(Blocks(a), Blocks(b))
  BY <1>2, <1>5, <1>8, JoinedBlocks
<1> QED BY <1>2, <1>5, <1>9 DEF a, b, m, n

-----------------------------------------------------------------------------
(* The pipeline as sets of blocks: F in the file, W to be written, H held  *)
(* by the decoder, R in the reader's hand, Q in the queue and M in main's  *)
(* hand, out of the first n, L being dropped.                              *)

Sets(F, W, H, R, Q, M, n, L) ==
  /\ Below(F, W) /\ Below(F \cup W, H) /\ Below(F \cup W \cup H, R)
  /\ Below(F \cup W \cup H \cup R, Q) /\ Below(F \cup W \cup H \cup R \cup Q, M)
  /\ F \cup W \cup H \cup R \cup Q \cup M = (1 .. n) \ L
  /\ L \subseteq 1 .. n /\ n \in Nat

\* Nothing is before itself.
LEMMA Irreflexive ==
  ASSUME NEW n \in Nat, NEW X \in SUBSET (1 .. n), NEW Y \in SUBSET (1 .. n), Below(X, Y)
  PROVE  X \cap Y = {}
<1>1. ASSUME NEW x \in X \cap Y PROVE FALSE
  <2>1. x \in Int /\ x < x
    BY DEF Below
  <2> QED BY <2>1
<1> QED BY <1>1

\* Enqueue.
LEMMA SetsPut ==
  ASSUME NEW F, NEW W, NEW H, NEW R, NEW Q, NEW M, NEW n, NEW L, Sets(F, W, H, R, Q, M, n, L)
  PROVE  Below(Q, M) /\ Sets(F, W, H, R, Q \cup M, {}, n, L)
BY DEF Sets, Below

\* Enqueue gives up.
LEMMA SetsDrop ==
  ASSUME NEW F, NEW W, NEW H, NEW R, NEW Q, NEW M, NEW n, NEW L, Sets(F, W, H, R, Q, M, n, L)
  PROVE  Sets(F, W, H, R, Q, {}, n, L \cup M)
<1> DEFINE P == F \cup W \cup H \cup R \cup Q
<1>1. Below(P, M) /\ P \cup M = (1 .. n) \ L /\ L \subseteq 1 .. n /\ n \in Nat
  BY DEF Sets
<1>2. P \cap M = {}
  <2>1. P \in SUBSET (1 .. n) /\ M \in SUBSET (1 .. n)
    BY <1>1
  <2> HIDE DEF P
  <2> QED BY <1>1, <2>1, Irreflexive
<1>3. P = (1 .. n) \ (L \cup M) /\ L \cup M \subseteq 1 .. n
  BY <1>1, <1>2
<1> QED BY <1>3 DEF Sets, Below

\* A block is read from the tuner.
LEMMA SetsRead ==
  ASSUME NEW F, NEW W, NEW H, NEW R, NEW Q, NEW n, NEW L, Sets(F, W, H, R, Q, {}, n, L)
  PROVE  Sets(F, W, H, R, Q, {n + 1}, n + 1, L)
<1> DEFINE P == F \cup W \cup H \cup R \cup Q
<1>1. P = (1 .. n) \ L /\ L \subseteq 1 .. n /\ n \in Nat
  BY DEF Sets
<1>2. 1 .. n + 1 = (1 .. n) \cup {n + 1} /\ n + 1 \notin 1 .. n /\ n + 1 \in Nat
  BY <1>1
<1>3. P \cup {n + 1} = (1 .. n + 1) \ L /\ L \subseteq 1 .. n + 1
  BY <1>1, <1>2
<1>4. Below(P, {n + 1})
  BY <1>1 DEF Below
<1>5. Below(P, {n + 1}) /\ P \cup {n + 1} = (1 .. n + 1) \ L /\ L \subseteq 1 .. n + 1 /\ n + 1 \in Nat
  BY <1>2, <1>3, <1>4
<1> QED BY <1>5 DEF Sets

\* Dequeue: X is the first entry, Y the others.
LEMMA SetsTake ==
  ASSUME NEW F, NEW W, NEW H, NEW Q, NEW M, NEW n, NEW L, Sets(F, W, H, {}, Q, M, n, L),
         NEW X, NEW Y, Q = X \cup Y, Below(X, Y)
  PROVE  Sets(F, W, H, X, Y, M, n, L)
BY DEF Sets, Below

\* The decoder lets go of X and keeps Y.
LEMMA SetsDecode ==
  ASSUME NEW F, NEW H, NEW R, NEW Q, NEW M, NEW n, NEW L, Sets(F, {}, H, R, Q, M, n, L),
         NEW X, NEW Y, H \cup R = X \cup Y, Below(X, Y)
  PROVE  Below(H, R) /\ Sets(F, X, Y, {}, Q, M, n, L)
BY DEF Sets, Below

\* What the decoder holds is given up.
LEMMA SetsFallBack ==
  ASSUME NEW F, NEW H, NEW R, NEW Q, NEW M, NEW n, NEW L, Sets(F, {}, H, R, Q, M, n, L)
  PROVE  Sets(F, R, {}, {}, Q, M, n, L \cup H)
<1> DEFINE P == R \cup Q \cup M
<1>1. /\ Below(F, H) /\ Below(H, P) /\ F \cup H \cup P = (1 .. n) \ L
      /\ L \subseteq 1 .. n /\ n \in Nat
  BY DEF Sets, Below
<1>2. F \cap H = {} /\ H \cap P = {}
  <2>1. F \in SUBSET (1 .. n) /\ H \in SUBSET (1 .. n) /\ P \in SUBSET (1 .. n)
    BY <1>1
  <2> HIDE DEF P
  <2> QED BY <1>1, <2>1, Irreflexive
<1>3. F \cup P = (1 .. n) \ (L \cup H) /\ L \cup H \subseteq 1 .. n
  BY <1>1, <1>2
<1> QED BY <1>3 DEF Sets, Below

\* X of what is to be written is written, Y is dropped.
LEMMA SetsWrite ==
  ASSUME NEW F, NEW W, NEW H, NEW R, NEW Q, NEW M, NEW n, NEW L, Sets(F, W, H, R, Q, M, n, L),
         NEW X, NEW Y, W = X \cup Y, Below(X, Y)
  PROVE  Below(F, X) /\ Sets(F \cup X, {}, H, R, Q, M, n, L \cup Y)
<1> DEFINE P == H \cup R \cup Q \cup M
           G == F \cup X
<1>1. /\ Below(F, X) /\ Below(G, Y) /\ Below(Y, P) /\ G \cup Y \cup P = (1 .. n) \ L
      /\ L \subseteq 1 .. n /\ n \in Nat
  BY DEF Sets, Below
<1>2. G \cap Y = {} /\ Y \cap P = {}
  <2>1. G \in SUBSET (1 .. n) /\ Y \in SUBSET (1 .. n) /\ P \in SUBSET (1 .. n)
    BY <1>1
  <2> HIDE DEF P, G
  <2> QED BY <1>1, <2>1, Irreflexive
<1>3. G \cup P = (1 .. n) \ (L \cup Y) /\ L \cup Y \subseteq 1 .. n
  BY <1>1, <1>2
<1> QED BY <1>1, <1>3 DEF Sets, Below

-----------------------------------------------------------------------------
(* The pipeline as sequences, and the operations on it.                    *)

Loss == [{"queue", "decoder", "output"} -> SUBSET (Block \cup {FREED})]
Lossier(l, who, S, k) == k = [l EXCEPT ![who] = @ \cup S]
Gone(l) == l["queue"] \cup l["decoder"] \cup (l["output"] \ {FREED})

Data(f, w, h, r, q, m, n, l) ==
  /\ f \in Seq(Item) /\ w \in Seq(Item) /\ h \in Seq(Item) /\ q \in Seq(Item)
  /\ InOrder(f) /\ InOrder(w) /\ InOrder(h) /\ InOrder(q)
  /\ Sets(Blocks(f), Blocks(w), Blocks(h), Blocks(r), Blocks(q), Blocks(m), n, Gone(l))

\* What is dropped now, on top of what was dropped.
LEMMA GoneMore ==
  ASSUME NEW l \in Loss, NEW who \in {"queue", "decoder", "output"},
         NEW S \in SUBSET (Block \cup {FREED}), who = "output" \/ S \subseteq Block,
         NEW k, Lossier(l, who, S, k)
  PROVE  Gone(k) = Gone(l) \cup (S \cap Block)
<1>1. FREED \notin Block
  BY DEF Entry
<1>2. k = [l EXCEPT ![who] = l[who] \cup S]
  BY DEF Lossier
<1>3. CASE who = "queue"
  BY <1>1, <1>2, <1>3 DEF Gone, Loss
<1>4. CASE who = "decoder"
  BY <1>1, <1>2, <1>4 DEF Gone, Loss
<1>5. CASE who = "output"
  BY <1>1, <1>2, <1>5 DEF Gone, Loss
<1> QED BY <1>3, <1>4, <1>5

\* Losing at the queue adds to what is gone.
LEMMA GoneQueue ==
  ASSUME NEW l \in Loss, NEW S \in SUBSET Block, NEW k, Lossier(l, "queue", S, k)
  PROVE  Gone(k) = Gone(l) \cup S
<1>1. S \in SUBSET (Block \cup {FREED}) /\ S \cap Block = S
  OBVIOUS
<1>2. Gone(k) = Gone(l) \cup (S \cap Block)
  BY <1>1, GoneMore
<1> QED BY <1>1, <1>2

\* enqueue takes a block from main to the end of the queue.
LEMMA DataPut ==
  ASSUME NEW f, NEW w, NEW h, NEW r, NEW q, NEW x \in Entry, NEW n, NEW l,
         Data(f, w, h, r, q, <<x>>, n, l)
  PROVE  Data(f, w, h, r, Append(q, x), <<>>, n, l)
<1> DEFINE e == <<x>>
           p == Append(q, x)
<1>1. q \in Seq(Item) /\ x \in Item
  BY DEF Data, Item, Entry
<1>2. e \in Seq(Item) /\ InOrder(e) /\ Blocks(<<>>) = {} /\ p = q \o e
  BY <1>1, FewBlocks
<1> HIDE DEF e, p
<1>3. Sets(Blocks(f), Blocks(w), Blocks(h), Blocks(r), Blocks(q), Blocks(e), n, Gone(l))
  BY DEF Data, e
<1>4. /\ Below(Blocks(q), Blocks(e))
      /\ Sets(Blocks(f), Blocks(w), Blocks(h), Blocks(r), Blocks(q) \cup Blocks(e), {}, n, Gone(l))
  BY <1>3, SetsPut
<1>5. p \in Seq(Item) /\ InOrder(p) /\ Blocks(p) = Blocks(q) \cup Blocks(e)
  BY <1>1, <1>2, <1>4, JoinedBlocks DEF Data
<1>6. Data(f, w, h, r, p, <<>>, n, l)
  BY <1>2, <1>4, <1>5 DEF Data
<1> QED BY <1>6 DEF p

\* enqueue drops main's block.
LEMMA DataDrop ==
  ASSUME NEW f, NEW w, NEW h, NEW r, NEW q, NEW x \in Entry, NEW n, NEW l \in Loss, NEW k,
         Data(f, w, h, r, q, <<x>>, n, l), Lossier(l, "queue", {x} \ {NULL}, k)
  PROVE  Data(f, w, h, r, q, <<>>, n, k)
<1>1. x \in Item /\ {x} \ {NULL} \subseteq Block
  BY DEF Item, Entry
<1>2. Blocks(<<>>) = {} /\ Blocks(<<x>>) = {x} \cap Block
  BY <1>1, FewBlocks
<1>3. Gone(k) = Gone(l) \cup ({x} \ {NULL})
  BY <1>1, GoneQueue
<1>4. {x} \ {NULL} = {x} \cap Block
  BY <1>1
<1>5. Gone(k) = Gone(l) \cup Blocks(<<x>>)
  BY <1>2, <1>3, <1>4
<1>6. Sets(Blocks(f), Blocks(w), Blocks(h), Blocks(r), Blocks(q), Blocks(<<x>>), n, Gone(l))
  BY DEF Data
<1>7. Sets(Blocks(f), Blocks(w), Blocks(h), Blocks(r), Blocks(q), {}, n, Gone(l) \cup Blocks(<<x>>))
  BY <1>6, SetsDrop
<1> QED BY <1>2, <1>5, <1>7 DEF Data

\* main reads the next block.
LEMMA DataRead ==
  ASSUME NEW f, NEW w, NEW h, NEW r, NEW q, NEW n, NEW l,
         Data(f, w, h, r, q, <<>>, n, l), n \in Nat, n < MaxBlocks
  PROVE  Data(f, w, h, r, q, <<n + 1>>, n + 1, l)
<1> DEFINE x == n + 1
<1>1. x \in Item /\ x \in Block
  BY DEF Item
<1> HIDE DEF x
<1>2. Blocks(<<>>) = {} /\ Blocks(<<x>>) = {x}
  BY <1>1, FewBlocks
<1>3. Sets(Blocks(f), Blocks(w), Blocks(h), Blocks(r), Blocks(q), {}, n, Gone(l))
  BY <1>2 DEF Data
<1>4. Sets(Blocks(f), Blocks(w), Blocks(h), Blocks(r), Blocks(q), {x}, x, Gone(l))
  BY <1>3, SetsRead DEF x
<1>5. Data(f, w, h, r, q, <<x>>, x, l)
  BY <1>2, <1>4 DEF Data
<1> QED BY <1>5 DEF x

\* The null entry is no block, neither in main's hand nor in the reader's.
LEMMA DataNull ==
  ASSUME NEW f, NEW w, NEW h, NEW r, NEW q, NEW m, NEW n, NEW l
  PROVE  /\ Data(f, w, h, r, q, <<>>, n, l) => Data(f, w, h, r, q, <<NULL>>, n, l)
         /\ Data(f, w, h, <<NULL>>, q, m, n, l) => Data(f, w, h, <<>>, q, m, n, l)
<1>1. Blocks(<<>>) = {} /\ Blocks(<<NULL>>) = {NULL} \cap Block /\ NULL \notin Block
  BY FewBlocks DEF Item
<1>2. Blocks(<<NULL>>) = Blocks(<<>>)
  BY <1>1
<1> QED BY <1>2 DEF Data

\* dequeue takes the queue's head to the reader.
LEMMA DataTake ==
  ASSUME NEW f, NEW w, NEW h, NEW q, NEW m, NEW n, NEW l,
         Data(f, w, h, <<>>, q, m, n, l), q # <<>>
  PROVE  Data(f, w, h, <<Head(q)>>, Tail(q), m, n, l)
<1> DEFINE e == <<Head(q)>>
           p == Tail(q)
<1>1. q \in Seq(Item) /\ InOrder(q)
  BY DEF Data
<1>2. Head(q) \in Item /\ p \in Seq(Item)
  BY <1>1
<1>3. e \in Seq(Item) /\ Blocks(<<>>) = {}
  BY <1>2, FewBlocks
<1>4. q = e \o p
  <2>1. Len(e) = 1 /\ e[1] = q[1] /\ Len(p) = Len(q) - 1 /\ Len(q) \in Nat
    BY <1>1, HeadTailProperties
  <2>2. \A i \in 1 .. Len(p) : p[i] = q[i + 1]
    BY <1>1, HeadTailProperties
  <2>3. \A i \in 1 .. Len(e) : e[i] = q[i]
    BY <2>1
  <2> HIDE DEF e, p
  <2>4. Len(q) = Len(e) + Len(p) /\ \A i \in 1 .. Len(p) : p[i] = q[Len(e) + i]
    BY <2>1, <2>2
  <2> QED BY <1>1, <1>2, <1>3, <2>3, <2>4, Rejoined
<1> HIDE DEF e, p
<1>5. /\ InOrder(p) /\ Blocks(q) = Blocks(e) \cup Blocks(p) /\ Below(Blocks(e), Blocks(p))
  BY <1>1, <1>2, <1>3, <1>4, JoinedBlocks
<1>6. Sets(Blocks(f), Blocks(w), Blocks(h), {}, Blocks(q), Blocks(m), n, Gone(l))
  BY <1>3 DEF Data
<1>7. Sets(Blocks(f), Blocks(w), Blocks(h), Blocks(e), Blocks(p), Blocks(m), n, Gone(l))
  BY <1>5, <1>6, SetsTake
<1>8. Data(f, w, h, e, p, m, n, l)
  BY <1>2, <1>5, <1>7 DEF Data
<1> QED BY <1>8 DEF e, p

\* The decoder gives the beginning of what it holds.
LEMMA DataDecode ==
  ASSUME NEW f, NEW h, NEW x \in Block, NEW q, NEW m, NEW n, NEW l,
         Data(f, <<>>, h, <<x>>, q, m, n, l), NEW k \in 0 .. Len(Append(h, x))
  PROVE  Data(f, SubSeq(Append(h, x), 1, k), SubSeq(Append(h, x), k + 1, Len(Append(h, x))),
              <<>>, q, m, n, l)
<1> DEFINE e == <<x>>
           s == Append(h, x)
           a == SubSeq(s, 1, k)
           b == SubSeq(s, k + 1, Len(s))
<1>1. h \in Seq(Item) /\ x \in Item /\ InOrder(h)
  BY DEF Data, Item
<1>2. e \in Seq(Item) /\ InOrder(e) /\ Blocks(<<>>) = {} /\ s = h \o e
  BY <1>1, FewBlocks
<1> HIDE DEF e, s
<1>3. Sets(Blocks(f), {}, Blocks(h), Blocks(e), Blocks(q), Blocks(m), n, Gone(l))
  BY <1>2 DEF Data, e
<1>4. Below(Blocks(h), Blocks(e))
  <2>1. Blocks(h) \cup Blocks(e) = Blocks(h) \cup Blocks(e)
    OBVIOUS
  <2> QED BY <1>3 DEF Sets, Below
<1>5. s \in Seq(Item) /\ InOrder(s) /\ Blocks(s) = Blocks(h) \cup Blocks(e)
  BY <1>1, <1>2, <1>4, JoinedBlocks
<1>6. k \in 0 .. Len(s)
  BY DEF s
<1>7. /\ a \in Seq(Item) /\ b \in Seq(Item) /\ Blocks(s) = Blocks(a) \cup Blocks(b)
      /\ InOrder(a) /\ InOrder(b) /\ Below(Blocks(a), Blocks(b))
  BY <1>5, <1>6, CutBlocks
<1> HIDE DEF a, b
<1>8. Sets(Blocks(f), Blocks(a), Blocks(b), {}, Blocks(q), Blocks(m), n, Gone(l))
  BY <1>3, <1>5, <1>7, SetsDecode
<1>9. Data(f, a, b, <<>>, q, m, n, l)
  BY <1>2, <1>7, <1>8 DEF Data
<1> QED BY <1>9 DEF a, b, s

\* A block goes to the output as it is, and what the decoder holds is dropped.
LEMMA DataFallBack ==
  ASSUME NEW f, NEW h \in Seq(Block), NEW x \in Item, NEW q, NEW m, NEW n, NEW l \in Loss, NEW k,
         Data(f, <<>>, h, <<x>>, q, m, n, l), Lossier(l, "decoder", Range(h), k)
  PROVE  Data(f, <<x>>, <<>>, <<>>, q, m, n, k)
<1>1. Range(h) \subseteq Block /\ Blocks(h) = Range(h)
  <2>1. Range(h) \subseteq Block
    BY RangeOfSeq
  <2> QED BY <2>1 DEF Blocks
<1>2. Gone(k) = Gone(l) \cup (Range(h) \cap Block)
  <2> DEFINE S == Range(h)
  <2>1. S \in SUBSET (Block \cup {FREED}) /\ S \subseteq Block /\ Lossier(l, "decoder", S, k)
    BY <1>1
  <2> HIDE DEF S
  <2>2. Gone(k) = Gone(l) \cup (S \cap Block)
    BY <2>1, GoneMore
  <2> QED BY <2>2 DEF S
<1>3. Gone(k) = Gone(l) \cup Blocks(h)
  BY <1>1, <1>2
<1>4. /\ <<x>> \in Seq(Item) /\ InOrder(<<x>>) /\ <<>> \in Seq(Item) /\ InOrder(<<>>)
      /\ Blocks(<<>>) = {}
  BY FewBlocks
<1>5. Sets(Blocks(f), {}, Blocks(h), Blocks(<<x>>), Blocks(q), Blocks(m), n, Gone(l))
  BY <1>4 DEF Data
<1>6. Sets(Blocks(f), Blocks(<<x>>), {}, {}, Blocks(q), Blocks(m), n, Gone(l) \cup Blocks(h))
  BY <1>5, SetsFallBack
<1> QED BY <1>3, <1>4, <1>6 DEF Data

\* A part of what is to be written is written, the rest is dropped.
LEMMA DataWrite ==
  ASSUME NEW f, NEW w \in Seq(Block \cup {FREED}), NEW h, NEW r, NEW q, NEW m, NEW n,
         NEW l \in Loss, Data(f, w, h, r, q, m, n, l), NEW j \in 0 .. Len(w), NEW k,
         Lossier(l, "output", Range(SubSeq(w, j + 1, Len(w))), k)
  PROVE  Data(f \o SubSeq(w, 1, j), <<>>, h, r, q, m, n, k)
<1> DEFINE a == SubSeq(w, 1, j)
           b == SubSeq(w, j + 1, Len(w))
           g == f \o a
<1>1. f \in Seq(Item) /\ InOrder(f) /\ w \in Seq(Item) /\ InOrder(w)
  BY DEF Data
<1>2. /\ a \in Seq(Item) /\ b \in Seq(Item) /\ Blocks(w) = Blocks(a) \cup Blocks(b)
      /\ InOrder(a) /\ InOrder(b) /\ Below(Blocks(a), Blocks(b))
  BY <1>1, CutBlocks
<1>3. Range(b) \in SUBSET (Block \cup {FREED})
  BY CutType
<1>4. Lossier(l, "output", Range(b), k)
  OBVIOUS
<1> HIDE DEF a, b
<1>5. Gone(k) = Gone(l) \cup Blocks(b)
  <2> DEFINE S == Range(b)
  <2>1. S \in SUBSET (Block \cup {FREED}) /\ Lossier(l, "output", S, k)
    BY <1>3, <1>4
  <2> HIDE DEF S
  <2>2. Gone(k) = Gone(l) \cup (S \cap Block)
    BY <2>1, GoneMore
  <2> QED BY <2>2 DEF S, Blocks
<1>6. Sets(Blocks(f), Blocks(w), Blocks(h), Blocks(r), Blocks(q), Blocks(m), n, Gone(l))
  BY DEF Data
<1>7. /\ Below(Blocks(f), Blocks(a))
      /\ Sets(Blocks(f) \cup Blocks(a), {}, Blocks(h), Blocks(r), Blocks(q), Blocks(m), n,
              Gone(l) \cup Blocks(b))
  BY <1>2, <1>6, SetsWrite
<1>8. g \in Seq(Item) /\ InOrder(g) /\ Blocks(g) = Blocks(f) \cup Blocks(a)
  BY <1>1, <1>2, <1>7, JoinedBlocks
<1> HIDE DEF g
<1>9. <<>> \in Seq(Item) /\ InOrder(<<>>) /\ Blocks(<<>>) = {}
  BY FewBlocks DEF Item
<1>10. Data(g, <<>>, h, r, q, m, n, k)
  BY <1>5, <1>7, <1>8, <1>9 DEF Data
<1> QED BY <1>10 DEF g, a

\* Nothing of what is to be written is written.
LEMMA DataUnwritten ==
  ASSUME NEW f, NEW w \in Seq(Block \cup {FREED}), NEW h, NEW r, NEW q, NEW m, NEW n,
         NEW l \in Loss, Data(f, w, h, r, q, m, n, l), NEW k,
         Lossier(l, "output", Range(w), k)
  PROVE  Data(f, <<>>, h, r, q, m, n, k)
<1>1. /\ f \in Seq(Item) /\ Len(w) \in Nat /\ 0 \in 0 .. Len(w)
  BY DEF Data
<1>2. SubSeq(w, 0 + 1, Len(w)) = w /\ f \o SubSeq(w, 1, 0) = f
  <2>1. SubSeq(w, 1, Len(w)) = w
    OBVIOUS
  <2>2. SubSeq(w, 1, 0) = <<>>
    OBVIOUS
  <2>3. f \o <<>> = f
    BY <1>1
  <2>4. 0 + 1 = 1
    OBVIOUS
  <2> QED BY <2>1, <2>2, <2>3, <2>4
<1> DEFINE j == 0
<1>3. Lossier(l, "output", Range(SubSeq(w, j + 1, Len(w))), k) /\ j \in 0 .. Len(w)
  BY <1>1, <1>2
<1> HIDE DEF j
<1>4. Data(f \o SubSeq(w, 1, j), <<>>, h, r, q, m, n, k)
  BY <1>3, DataWrite
<1> QED BY <1>2, <1>4 DEF j

\* At the end the output gets what the decoder still holds ...
LEMMA DataFinish ==
  ASSUME NEW f, NEW h, NEW q, NEW m, NEW n, NEW l, Data(f, <<>>, h, <<>>, q, m, n, l)
  PROVE  Data(f, h, <<>>, <<>>, q, m, n, l)
<1>1. Blocks(<<>>) = {} /\ <<>> \in Seq(Item) /\ InOrder(<<>>)
  BY FewBlocks DEF Item
<1>2. Sets(Blocks(f), {}, Blocks(h), {}, Blocks(q), Blocks(m), n, Gone(l))
  BY <1>1 DEF Data
<1>3. Blocks(h) \cup {} = Blocks(h) \cup {} /\ Below(Blocks(h), {})
  BY DEF Below
<1>4. Sets(Blocks(f), Blocks(h), {}, {}, Blocks(q), Blocks(m), n, Gone(l))
  BY <1>2, <1>3, SetsDecode
<1> QED BY <1>1, <1>4 DEF Data

\* ... or freed memory, and what the decoder holds is dropped.
LEMMA DataFreed ==
  ASSUME NEW f, NEW h \in Seq(Block), NEW q, NEW m, NEW n, NEW l \in Loss, NEW k,
         Data(f, <<>>, h, <<>>, q, m, n, l), Lossier(l, "decoder", Range(h), k)
  PROVE  Data(f, <<FREED>>, <<>>, <<>>, q, m, n, k)
<1> DEFINE x == FREED
<1>1. x \in Item /\ Blocks(<<x>>) = {} /\ Blocks(<<>>) = {}
  <2>1. x \in Item /\ x \notin Block
    BY DEF Item, Entry
  <2> QED BY <2>1, FewBlocks
<1> HIDE DEF x
<1>2. Data(f, <<>>, h, <<x>>, q, m, n, l)
  BY <1>1 DEF Data
<1>3. Data(f, <<x>>, <<>>, <<>>, q, m, n, k)
  BY <1>1, <1>2, DataFallBack
<1> QED BY <1>3 DEF x

-----------------------------------------------------------------------------
(* The inductive invariant of the recorded stream.  Besides the order of   *)
(* the blocks it says which of them the queue may have dropped: only the   *)
(* last one, after which no other is read.                                 *)

Flow == Data(file, wbuf, held, InReader, Contents, InMain, captured, lost)

Drops ==
  /\ lost["queue"] \subseteq {captured}
  /\ lost["queue"] # {} => f_exit /\ mpc # "read"
  /\ mpc \in {"enqueue", "wait_avail"} /\ mbuf # NULL => mbuf = captured

Unwritten ==
  /\ rpc \notin {"write", "final_write"} => wbuf = <<>>
  /\ ~use_b1 => held = <<>>

SInv == Flow /\ Drops /\ Unwritten

\* What the type invariant says of the places of blocks.
LEMMA LossTypes ==
  ASSUME IInv
  PROVE  /\ lost \in Loss /\ held \in Seq(Block) /\ wbuf \in Seq(Block \cup {FREED})
         /\ mbuf \in Entry /\ qbuf \in Entry /\ captured \in Nat
         /\ QueueTypeOK /\ QueueInv
BY DEF IInv, TypeOK, Loss

\* A step of main that moves no block.
MainKeeps ==
  /\ UNCHANGED <<queueVars, captured, lost, mbuf>>
  /\ mpc' # "read" \/ ~f_exit
  /\ f_exit => f_exit'
  /\ mpc \in {"enqueue", "wait_avail"} <=> mpc' \in {"enqueue", "wait_avail"}

\* The steps of main.
LEMMA MainStream ==
  ASSUME IInv, SInv, Main
  PROVE  SInv'
<1> DEFINE q == Contents'
           m == InMain'
           k == lost'
<1>1. /\ Data(file, wbuf, held, InReader, Contents, InMain, captured, lost)
      /\ Drops /\ Unwritten
  BY DEF SInv, Flow
<1>2. UNCHANGED readerVars
  BY DEF Main, MainCheckExit, MainRead, MainReadNothing, MainEnqueue, MainWake, MainSignalUsed,
         MainAfter, MainStop, MainFinish
<1>3. /\ file' = file /\ wbuf' = wbuf /\ held' = held /\ InReader' = InReader /\ Unwritten'
  BY <1>1, <1>2 DEF readerVars, InReader, Unwritten
<1>4. ASSUME Data(file, wbuf, held, InReader, q, m, captured', k) PROVE Flow'
  BY <1>3, <1>4 DEF Flow
<1> HIDE DEF q, m, k
<1>5. CASE MainRead
  <2>1. /\ UNCHANGED queueVars /\ mpc = "read" /\ mpc' = "enqueue" /\ captured < MaxBlocks
        /\ captured' = captured + 1 /\ mbuf' = captured + 1 /\ UNCHANGED <<lost, f_exit>>
    BY <1>5 DEF MainRead
  <2>2. q = Contents /\ InMain = <<>> /\ m = <<captured + 1>> /\ k = lost
    BY <2>1, SameContents DEF InMain, q, m, k
  <2>3. Flow'
    BY <1>1, <1>4, <2>1, <2>2, LossTypes, DataRead
  <2>4. Drops'
    BY <1>1, <2>1 DEF Drops
  <2> QED BY <1>3, <2>3, <2>4 DEF SInv
<1>6. CASE MainReadNothing
  <2>1. /\ UNCHANGED queueVars /\ mpc = "read" /\ UNCHANGED <<captured, lost>>
        /\ \/ mpc' = "enqueue" /\ mbuf' = NULL /\ f_exit' = TRUE
           \/ mpc' = "loop" /\ UNCHANGED <<f_exit, mbuf>>
    BY <1>6 DEF MainReadNothing
  <2>2. q = Contents /\ InMain = <<>> /\ k = lost /\ (m = <<>> \/ m = <<NULL>>)
    BY <2>1, SameContents DEF InMain, q, m, k
  <2>3. Flow'
    BY <1>1, <1>4, <2>1, <2>2, DataNull
  <2>4. Drops'
    BY <1>1, <2>1 DEF Drops
  <2> QED BY <1>3, <2>3, <2>4 DEF SInv
<1>7. CASE (MainEnqueue \/ MainWake) /\ mpc' = "signal_used"
  <2>1. /\ mpc \in {"enqueue", "wait_avail"} /\ ~Full /\ Put(mbuf)
        /\ UNCHANGED <<captured, lost, mbuf>> /\ (f_exit => f_exit')
    <3>1. CASE MainEnqueue
      BY <1>7, <3>1 DEF MainEnqueue
    <3>2. CASE MainWake
      <4>1. f_exit => f_exit'
        BY <3>2, Zenon DEF MainWake
      <4> QED BY <1>7, <3>2, <4>1 DEF MainWake
    <3> QED BY <1>7, <3>1, <3>2
  <2>2. q = Append(Contents, mbuf) /\ InMain = <<mbuf>> /\ m = <<>> /\ k = lost
    BY <1>7, <2>1, LossTypes, PutOK DEF InMain, q, m, k
  <2>3. Flow'
    BY <1>1, <1>4, <2>1, <2>2, LossTypes, DataPut
  <2>4. Drops'
    BY <1>1, <1>7, <2>1 DEF Drops
  <2> QED BY <1>3, <2>3, <2>4 DEF SInv
<1>8. CASE MainWake /\ mpc' = "after"
  <2>1. /\ mpc = "wait_avail" /\ UNCHANGED queueVars /\ f_exit'
        /\ UNCHANGED <<captured, mbuf>> /\ Lossier(lost, "queue", {mbuf} \ {NULL}, k)
    BY <1>8 DEF MainWake, Lose, Lossier, k
  <2>2. q = Contents /\ InMain = <<mbuf>> /\ m = <<>>
    BY <1>8, <2>1, SameContents DEF InMain, q, m
  <2>3. Flow'
    BY <1>1, <1>4, <2>1, <2>2, LossTypes, DataDrop
  <2>4. k["queue"] \subseteq {captured}
    BY <1>1, <2>1, LossTypes DEF Drops, Lossier, Loss
  <2>5. Drops'
    BY <1>8, <2>1, <2>4 DEF Drops, k
  <2> QED BY <1>3, <2>3, <2>5 DEF SInv
<1>9. CASE MainKeeps
  <2>1. q = Contents /\ m = InMain /\ k = lost
    BY <1>9, SameContents DEF MainKeeps, InMain, q, m, k
  <2>2. Flow'
    BY <1>1, <1>4, <1>9, <2>1 DEF MainKeeps
  <2>3. Drops'
    BY <1>1, <1>9 DEF Drops, MainKeeps
  <2> QED BY <1>3, <2>2, <2>3 DEF SInv
<1>10. \/ MainRead \/ MainReadNothing \/ MainKeeps
       \/ MainEnqueue /\ mpc' = "signal_used"
       \/ MainWake /\ mpc' \in {"signal_used", "after"}
  <2>1. CASE MainCheckExit
    BY <2>1 DEF MainCheckExit, MainKeeps
  <2>2. CASE MainEnqueue
    BY <2>2 DEF MainEnqueue, MainKeeps
  <2>3. CASE MainWake
    BY <2>3 DEF MainWake, MainKeeps
  <2>4. CASE MainSignalUsed \/ MainAfter \/ MainStop \/ MainFinish
    BY <2>4 DEF MainSignalUsed, MainAfter, MainStop, MainFinish, MainKeeps
  <2> QED BY <2>1, <2>2, <2>3, <2>4 DEF Main
<1> QED BY <1>5, <1>6, <1>7, <1>8, <1>9, <1>10

\* A loss of decoder or output is none of the queue.
LEMMA QueueLoss ==
  ASSUME NEW l \in Loss, NEW who \in {"decoder", "output"}, NEW S, NEW k, Lossier(l, who, S, k)
  PROVE  k["queue"] = l["queue"]
BY DEF Lossier, Loss

\* The steps of the reader.
LEMMA ReaderStream ==
  ASSUME IInv, SInv, Reader
  PROVE  SInv'
<1> DEFINE f == file'
           w == wbuf'
           h == held'
           r == InReader'
           q == Contents'
           k == lost'
<1>1. /\ Data(file, wbuf, held, InReader, Contents, InMain, captured, lost)
      /\ Drops /\ Unwritten
  BY DEF SInv, Flow
<1>2. UNCHANGED mainVars /\ (f_exit => f_exit')
  <2>1. CASE ReaderWake
    BY <2>1, Zenon DEF ReaderWake
  <2>2. CASE Reader /\ ~ReaderWake
    BY <2>2 DEF Reader, ReaderDequeue, ReaderSignalAvail, ReaderDecode, ReaderWrite, ReaderCheck,
           ReaderFinish, ReaderFinalWrite
  <2> QED BY <2>1, <2>2
<1>3. mpc' = mpc /\ mbuf' = mbuf /\ captured' = captured /\ InMain' = InMain
  BY <1>2 DEF mainVars, InMain
<1>4. ASSUME Data(f, w, h, r, q, InMain, captured, k), k["queue"] = lost["queue"], Unwritten'
      PROVE  SInv'
  <2>1. Flow'
    BY <1>3, <1>4 DEF Flow
  <2>2. Drops'
    BY <1>1, <1>2, <1>3, <1>4 DEF Drops
  <2> QED BY <1>4, <2>1, <2>2 DEF SInv
<1>5. /\ lost \in Loss /\ held \in Seq(Block) /\ wbuf \in Seq(Block \cup {FREED})
      /\ qbuf \in Entry /\ QueueTypeOK /\ QueueInv
  BY LossTypes
<1> HIDE DEF f, w, h, r, q, k
<1>6. CASE (ReaderDequeue \/ ReaderWake) /\ rpc' = "signal_avail"
  <2>1. /\ rpc \in {"dequeue", "wait_used"} /\ ~Empty /\ Take /\ qbuf' = Oldest
        /\ UNCHANGED <<wbuf, held, use_b1, file, lost>>
    BY <1>6 DEF ReaderDequeue, ReaderWake
  <2>2. InReader = <<>> /\ r = <<Oldest>>
    BY <1>6, <2>1 DEF InReader, r
  <2>3. Contents # <<>> /\ q = Tail(Contents) /\ Oldest = Head(Contents)
    BY <1>5, <2>1, TakeOK DEF q
  <2>4. Data(f, w, h, r, q, InMain, captured, k)
    BY <1>1, <2>1, <2>2, <2>3, DataTake DEF f, w, h, k
  <2>5. Unwritten'
    BY <1>1, <1>6, <2>1 DEF Unwritten
  <2> QED BY <1>4, <2>1, <2>4, <2>5 DEF k
<1>7. CASE (ReaderDequeue \/ ReaderWake) /\ rpc' # "signal_avail"
  <2>1. /\ rpc \in {"dequeue", "wait_used"} /\ rpc' \in {"wait_used", "done"} /\ UNCHANGED queueVars
        /\ UNCHANGED <<wbuf, held, use_b1, file, lost>>
    BY <1>7 DEF ReaderDequeue, ReaderWake
  <2>2. InReader = <<>> /\ r = <<>> /\ q = Contents
    BY <2>1, SameContents DEF InReader, r, q
  <2>3. Data(f, w, h, r, q, InMain, captured, k)
    BY <1>1, <2>1, <2>2 DEF f, w, h, k
  <2>4. Unwritten'
    BY <1>1, <2>1 DEF Unwritten
  <2> QED BY <1>4, <2>1, <2>3, <2>4 DEF k
<1>8. CASE ReaderSignalAvail
  <2>1. /\ rpc = "signal_avail" /\ rpc' = (IF qbuf = NULL THEN "done" ELSE "decode")
        /\ UNCHANGED queueVars /\ UNCHANGED <<qbuf, wbuf, held, use_b1, file, lost>>
    BY <1>8 DEF ReaderSignalAvail
  <2>2. InReader = <<qbuf>> /\ r = (IF qbuf = NULL THEN <<>> ELSE <<qbuf>>) /\ q = Contents
    BY <2>1, SameContents DEF InReader, r, q
  <2>3. Data(f, w, h, r, q, InMain, captured, k)
    <3>1. CASE qbuf = NULL
      BY <1>1, <2>1, <2>2, <3>1, DataNull DEF f, w, h, k
    <3>2. CASE qbuf # NULL
      BY <1>1, <2>1, <2>2, <3>2 DEF f, w, h, k
    <3> QED BY <3>1, <3>2
  <2>4. Unwritten'
    BY <1>1, <2>1 DEF Unwritten
  <2> QED BY <1>4, <2>1, <2>3, <2>4 DEF k
<1>9. CASE ReaderDecode
  <2>1. /\ rpc = "decode" /\ rpc' = "write" /\ UNCHANGED queueVars /\ f = file
    BY <1>9 DEF ReaderDecode, f
  <2>2. /\ InReader = <<qbuf>> /\ r = <<>> /\ q = Contents /\ wbuf = <<>>
        /\ qbuf \in Block /\ qbuf \in Item
    <3>1. InReader = <<qbuf>> /\ r = <<>> /\ q = Contents /\ wbuf = <<>>
      BY <1>1, <2>1, SameContents DEF InReader, r, q, Unwritten
    <3>2. qbuf # NULL
      BY <2>1 DEF IInv, ExitIsCertain
    <3> QED BY <1>5, <3>1, <3>2 DEF Entry, Item
  <2>3. Data(file, <<>>, held, <<qbuf>>, Contents, InMain, captured, lost)
    BY <1>1, <2>2
  <2>4. CASE use_b1 /\ Descramble
    <3>1. PICK n \in 0 .. Len(Append(held, qbuf)) :
            /\ w = SubSeq(Append(held, qbuf), 1, n)
            /\ h = SubSeq(Append(held, qbuf), n + 1, Len(Append(held, qbuf)))
      BY <2>4 DEF Descramble, w, h
    <3>2. k = lost /\ use_b1' = use_b1
      BY <2>4 DEF Descramble, k
    <3>3. Data(f, w, h, r, q, InMain, captured, k)
      BY <2>1, <2>2, <2>3, <3>1, <3>2, DataDecode
    <3>4. Unwritten'
      BY <2>1, <2>4, <3>2 DEF Unwritten
    <3> QED BY <1>4, <3>2, <3>3, <3>4
  <2>5. CASE FallBack
    <3>1. w = <<qbuf>> /\ h = <<>> /\ Lossier(lost, "decoder", Range(held), k)
      BY <2>5 DEF FallBack, Lose, Lossier, w, h, k
    <3>2. Data(f, w, h, r, q, InMain, captured, k)
      BY <1>5, <2>1, <2>2, <2>3, <3>1, DataFallBack
    <3>3. k["queue"] = lost["queue"]
      BY <1>5, <3>1, QueueLoss
    <3>4. Unwritten'
      BY <2>1, <3>1 DEF Unwritten, h
    <3> QED BY <1>4, <3>2, <3>3, <3>4
  <2>6. CASE ~use_b1 /\ wbuf' = <<qbuf>> /\ UNCHANGED <<held, use_b1, lost>>
    <3>1. held = <<>> /\ w = <<qbuf>> /\ h = <<>> /\ k = lost
      BY <1>1, <2>6 DEF Unwritten, w, h, k
    <3>2. Lossier(lost, "decoder", Range(held), lost)
      <4>1. Range(held) = {}
        BY <3>1 DEF Range
      <4>2. lost["decoder"] \cup Range(held) = lost["decoder"]
        BY <4>1
      <4>3. lost = [lost EXCEPT !["decoder"] = lost["decoder"]]
        BY <1>5 DEF Loss
      <4> QED BY <4>2, <4>3 DEF Lossier
    <3>3. Data(f, w, h, r, q, InMain, captured, k)
      BY <1>5, <2>1, <2>2, <2>3, <3>1, <3>2, DataFallBack
    <3>4. Unwritten'
      BY <2>1, <3>1 DEF Unwritten, h
    <3> QED BY <1>4, <3>1, <3>3, <3>4
  <2> QED BY <1>9, <2>4, <2>5, <2>6 DEF ReaderDecode
<1>10. CASE ReaderWrite \/ ReaderFinalWrite
  <2>1. /\ rpc \in {"write", "final_write"} /\ rpc' \in {"check", "done"} /\ UNCHANGED queueVars
        /\ w = <<>> /\ UNCHANGED <<held, use_b1>> /\ (WriteSome \/ WriteFails)
    BY <1>10 DEF ReaderWrite, ReaderFinalWrite, w
  <2>2. InReader = <<>> /\ r = <<>> /\ q = Contents /\ h = held
    BY <2>1, SameContents DEF InReader, r, q, h
  <2>3. Data(file, wbuf, held, r, q, InMain, captured, lost)
    BY <1>1, <2>2
  <2>4. Data(f, <<>>, held, r, q, InMain, captured, k) /\ k["queue"] = lost["queue"]
    <3>1. CASE WriteSome
      <4>1. PICK n \in 0 .. Len(wbuf) :
              /\ f = file \o SubSeq(wbuf, 1, n)
              /\ Lossier(lost, "output", Range(SubSeq(wbuf, n + 1, Len(wbuf))), k)
        BY <3>1 DEF WriteSome, Lose, Lossier, f, k
      <4>2. Data(file \o SubSeq(wbuf, 1, n), <<>>, held, r, q, InMain, captured, k)
        BY <1>5, <2>3, <4>1, DataWrite
      <4>3. k["queue"] = lost["queue"]
        BY <1>5, <4>1, QueueLoss
      <4> QED BY <4>1, <4>2, <4>3
    <3>2. CASE WriteFails
      <4>1. f = file /\ Lossier(lost, "output", Range(wbuf), k)
        BY <3>2 DEF WriteFails, Lose, Lossier, f, k
      <4>2. Data(f, <<>>, held, r, q, InMain, captured, k)
        BY <1>5, <2>3, <4>1, DataUnwritten
      <4>3. k["queue"] = lost["queue"]
        BY <1>5, <4>1, QueueLoss
      <4> QED BY <4>2, <4>3
    <3> QED BY <2>1, <3>1, <3>2
  <2>5. Data(f, w, h, r, q, InMain, captured, k)
    BY <2>1, <2>2, <2>4
  <2>6. Unwritten'
    BY <1>1, <2>1 DEF Unwritten, w
  <2> QED BY <1>4, <2>4, <2>5, <2>6
<1>11. CASE ReaderCheck
  <2>1. /\ rpc = "check" /\ rpc' \in {"finish", "dequeue"} /\ UNCHANGED queueVars
        /\ UNCHANGED <<wbuf, held, use_b1, file, lost>>
    BY <1>11 DEF ReaderCheck
  <2>2. InReader = <<>> /\ r = <<>> /\ q = Contents
    BY <2>1, SameContents DEF InReader, r, q
  <2>3. Data(f, w, h, r, q, InMain, captured, k)
    BY <1>1, <2>1, <2>2 DEF f, w, h, k
  <2>4. Unwritten'
    BY <1>1, <2>1 DEF Unwritten
  <2> QED BY <1>4, <2>1, <2>3, <2>4 DEF k
<1>12. CASE ReaderFinish
  <2>1. /\ rpc = "finish" /\ rpc' = "final_write" /\ UNCHANGED queueVars /\ h = <<>> /\ f = file
        /\ \/ w = held /\ k = lost
           \/ w = <<FREED>> /\ Lossier(lost, "decoder", Range(held), k)
    BY <1>12 DEF ReaderFinish, Lose, Lossier, f, w, h, k
  <2>2. InReader = <<>> /\ r = <<>> /\ q = Contents /\ wbuf = <<>>
    BY <1>1, <2>1, SameContents DEF InReader, r, q, Unwritten
  <2>3. Data(f, <<>>, held, <<>>, q, InMain, captured, lost)
    BY <1>1, <2>1, <2>2
  <2>4. Data(f, w, h, r, q, InMain, captured, k) /\ k["queue"] = lost["queue"]
    <3>1. CASE w = held /\ k = lost
      BY <2>1, <2>2, <2>3, <3>1, DataFinish
    <3>2. CASE w = <<FREED>> /\ Lossier(lost, "decoder", Range(held), k)
      <4>1. Data(f, <<FREED>>, <<>>, <<>>, q, InMain, captured, k)
        BY <1>5, <2>3, <3>2, DataFreed
      <4>2. k["queue"] = lost["queue"]
        BY <1>5, <3>2, QueueLoss
      <4> QED BY <2>1, <2>2, <3>2, <4>1, <4>2
    <3> QED BY <2>1, <3>1, <3>2
  <2>5. Unwritten'
    BY <2>1 DEF Unwritten, h
  <2> QED BY <1>4, <2>4, <2>5
<1> QED BY <1>6, <1>7, <1>8, <1>9, <1>10, <1>11, <1>12 DEF Reader

\* The other steps move no block.
LEMMA OtherStream ==
  ASSUME SInv, SignalThread \/ UserSignal \/ TimePasses \/ UNCHANGED vars
  PROVE  SInv'
<1>1. UNCHANGED <<queueVars, mainVars, readerVars, lost>> /\ (f_exit => f_exit')
  BY DEF SignalThread, SignalAccept, SignalSetExit, SignalWakes, UserSignal, TimePasses, vars
<1>2. Contents' = Contents
  BY <1>1, SameContents
<1>3. Flow'
  BY <1>1, <1>2 DEF SInv, Flow, mainVars, readerVars, InReader, InMain
<1>4. Drops' /\ Unwritten'
  BY <1>1 DEF SInv, Drops, Unwritten, mainVars, readerVars
<1> QED BY <1>3, <1>4 DEF SInv

\* The first state, of the stream.
LEMMA InitStream ==
  ASSUME Init
  PROVE  SInv
<1>1. /\ file = <<>> /\ wbuf = <<>> /\ held = <<>> /\ InReader = <<>> /\ InMain = <<>>
      /\ captured = 0 /\ Contents = <<>>
      /\ lost = [queue |-> {}, decoder |-> {}, output |-> {}]
  BY QueueInitOK DEF Init, InReader, InMain
<1>2. <<>> \in Seq(Item) /\ InOrder(<<>>) /\ Blocks(<<>>) = {}
  BY FewBlocks DEF Item
<1>3. Gone(lost) = {}
  BY <1>1 DEF Gone
<1>4. Sets({}, {}, {}, {}, {}, {}, 0, {})
  <2>1. 1 .. 0 = {}
    OBVIOUS
  <2> QED BY <2>1 DEF Sets, Below
<1>5. Flow
  BY <1>1, <1>2, <1>3, <1>4 DEF Flow, Data
<1> QED BY <1>1, <1>5 DEF Init, SInv, Drops, Unwritten

\* s holds the blocks X, in order.
Stretch(s, X) == s \in Seq(Item) /\ Blocks(s) = X /\ InOrder(s)

\* Two stretches of blocks in a row are one.
LEMMA Longer ==
  ASSUME NEW s, NEW X, NEW t, NEW Y, Stretch(s, X), Stretch(t, Y), Below(X, Y)
  PROVE  Stretch(s \o t, X \cup Y)
<1>1. s \in Seq(Item) /\ t \in Seq(Item) /\ InOrder(s) /\ InOrder(t) /\ Below(Blocks(s), Blocks(t))
  BY DEF Stretch
<1>2. s \o t \in Seq(Item) /\ Blocks(s \o t) = Blocks(s) \cup Blocks(t) /\ InOrder(s \o t)
  BY <1>1, JoinedBlocks
<1> QED BY <1>2 DEF Stretch

\* The blocks of the pipeline, all of its parts together.
LEMMA PipelineIs ==
  ASSUME IInv, SInv
  PROVE  InOrder(Pipeline) /\ Blocks(Pipeline) = (1 .. captured) \ Gone(lost)
<1> DEFINE r == InReader
           m == InMain
           F == Blocks(file)
           W == Blocks(wbuf)
           H == Blocks(held)
           R == Blocks(r)
           Q == Blocks(Contents)
           M == Blocks(m)
<1>1. r \in Seq(Item) /\ InOrder(r) /\ m \in Seq(Item) /\ InOrder(m)
  <2>1. qbuf \in Item /\ mbuf \in Item /\ (r = <<>> \/ r = <<qbuf>>) /\ (m = <<>> \/ m = <<mbuf>>)
    BY LossTypes DEF Item, Entry, InReader, InMain
  <2> HIDE DEF r, m
  <2> QED BY <2>1, FewBlocks
<1>2. /\ Stretch(file, F) /\ Stretch(wbuf, W) /\ Stretch(held, H) /\ Stretch(Contents, Q)
      /\ Sets(F, W, H, R, Q, M, captured, Gone(lost))
  BY DEF SInv, Flow, Data, Stretch
<1>3. Stretch(r, R) /\ Stretch(m, M)
  BY <1>1 DEF Stretch
<1>4. Pipeline = file \o wbuf \o held \o r \o Contents \o m
  BY DEF Pipeline
<1> HIDE DEF r, m, F, W, H, R, Q, M
<1>5. /\ Below(F, W) /\ Below(F \cup W, H) /\ Below(F \cup W \cup H, R)
      /\ Below(F \cup W \cup H \cup R, Q) /\ Below(F \cup W \cup H \cup R \cup Q, M)
      /\ F \cup W \cup H \cup R \cup Q \cup M = (1 .. captured) \ Gone(lost)
  BY <1>2 DEF Sets
<1>6. Stretch(file \o wbuf, F \cup W)
  BY <1>2, <1>5, Longer
<1>7. Stretch(file \o wbuf \o held, F \cup W \cup H)
  BY <1>2, <1>5, <1>6, Longer
<1>8. Stretch(file \o wbuf \o held \o r, F \cup W \cup H \cup R)
  BY <1>3, <1>5, <1>7, Longer
<1>9. Stretch(file \o wbuf \o held \o r \o Contents, F \cup W \cup H \cup R \cup Q)
  BY <1>2, <1>5, <1>8, Longer
<1>10. Stretch(file \o wbuf \o held \o r \o Contents \o m, F \cup W \cup H \cup R \cup Q \cup M)
  BY <1>3, <1>5, <1>9, Longer
<1> QED BY <1>4, <1>5, <1>10 DEF Stretch

-----------------------------------------------------------------------------
(* The theorems about the recorded stream.                                 *)

\* No step of any thread takes the stream out of SInv.
THEOREM StreamInvariance == Spec => [](IInv /\ SInv)
<1>1. Init => SInv
  BY InitStream
<1>2. IInv /\ SInv /\ [Next]_vars => SInv'
  <2> SUFFICES ASSUME IInv, SInv, [Next]_vars PROVE SInv'
    OBVIOUS
  <2>1. CASE Main
    BY <2>1, MainStream
  <2>2. CASE Reader
    BY <2>2, ReaderStream
  <2>3. CASE SignalThread \/ UserSignal \/ TimePasses \/ UNCHANGED vars
    BY <2>3, OtherStream
  <2> QED BY <2>1, <2>2, <2>3 DEF Next, Exited
<1> QED BY <1>1, <1>2, Invariance, PTL DEF Spec

\* Every block that was captured and that nobody dropped is in the file, the
\* decoder, the reader's or main's hand or the queue, once and in the order of
\* the capture, for every queue size and interleaving (src/recskapa.c:56-222).
THEOREM NoBlockUnaccounted == Spec => []StreamAccounted
<1>1. IInv /\ SInv => StreamAccounted
  BY PipelineIs DEF StreamAccounted, Lost, Gone
<1> QED BY <1>1, StreamInvariance, PTL

\* Without a failure of the output or the decoder the file is the beginning of
\* the stream without a gap: what enqueue drops is the last block captured
\* (src/recskapa.c:81-95).
THEOREM NoGap == Spec => []GaplessRecording
<1>1. IInv /\ SInv => GaplessRecording
  <2> SUFFICES ASSUME IInv, SInv, lost["decoder"] = {}, lost["output"] = {}
               PROVE  InOrder(file) /\ \A b \in Blocks(file) : 1 .. b \subseteq Blocks(file)
    BY DEF GaplessRecording
  <2> DEFINE F == Blocks(file)
             P == Blocks(wbuf) \cup Blocks(held) \cup Blocks(InReader) \cup Blocks(Contents)
                    \cup Blocks(InMain)
  <2>1. /\ InOrder(file) /\ Below(F, P) /\ F \cup P = (1 .. captured) \ Gone(lost) /\ captured \in Nat
    BY LossTypes DEF SInv, Flow, Data, Sets, Below
  <2>2. Gone(lost) \subseteq {captured}
    BY DEF SInv, Drops, Gone
  <2> HIDE DEF F, P
  <2>3. ASSUME NEW b \in F, NEW c \in 1 .. b
        PROVE  c \in F
    <3>1. b \in 1 .. captured /\ b \notin Gone(lost)
      BY <2>1
    <3>2. c \in 1 .. captured /\ c <= b /\ (c = b \/ c # captured)
      BY <2>1, <3>1
    <3>3. c = b \/ c \in F \cup P
      BY <2>1, <2>2, <3>2
    <3>4. c \notin P
      BY <2>1, <3>1, <3>2 DEF Below
    <3> QED BY <3>3, <3>4
  <2> QED BY <2>1, <2>3 DEF F
<1> QED BY <1>1, StreamInvariance, PTL
=============================================================================
