---------------------------- MODULE Multi2Proofs ----------------------------
(***************************************************************************)
(* Theorems of module Multi2, for words of any width, any number of turns, *)
(* all keys and all packets.                                               *)
(***************************************************************************)
EXTENDS Multi2, TLAPS

-----------------------------------------------------------------------------
(* The core: what a turn does, a turn of the other kind takes back.        *)

LEMMA XorTwice == ASSUME NEW a, NEW b PROVE Xor(Xor(a, b), b) = a
BY DEF Xor

LEMMA XorDataTwice == ASSUME NEW a \in Data, NEW b PROVE XorData(XorData(a, b), b) = a
<1>1. a = [l |-> a.l, r |-> a.r]
  BY DEF Data
<1>2. Xor(Xor(a.l, b.l), b.l) = a.l /\ Xor(Xor(a.r, b.r), b.r) = a.r
  BY XorTwice
<1> QED BY <1>1, <1>2 DEF XorData

LEMMA XorWord == ASSUME NEW a \in Word, NEW b \in Word PROVE Xor(a, b) \in Word
BY DEF Xor, Word

LEMMA XorDataType == ASSUME NEW a \in Data, NEW b \in Data PROVE XorData(a, b) \in Data
BY XorWord DEF XorData, Data

LEMMA AddWord == ASSUME NEW a, NEW b, NEW one PROVE Add(a, b, one) \in Word
BY DEF Add, Word

LEMMA RotateWord == ASSUME NEW a \in Word, NEW n \in Nat PROVE Rotate(a, n) \in Word
<1>1. ASSUME NEW k \in a PROVE (k + n) % W \in Bit
  <2>1. k \in Int /\ W \in Nat /\ W > 0
    BY Multi2Assumption DEF Multi2Assumption, Word, Bit
  <2> QED BY <2>1 DEF Bit
<1> QED BY <1>1 DEF Rotate, Word

\* The functions of the core stay within a word.
LEMMA FWord ==
  ASSUME NEW d \in Word, NEW a, NEW b
  PROVE  F2(d, a) \in Word /\ F3(d, a, b) \in Word /\ F4(d, a) \in Word
<1>1. F2(d, a) \in Word
  <2> DEFINE t0 == Plus(d, a)
             t1 == MinusOne(Plus(Rotate(t0, 1), t0))
  <2>1. t1 \in Word
    BY AddWord DEF MinusOne, Plus
  <2> HIDE DEF t1
  <2>2. Xor(Rotate(t1, 4), t1) \in Word
    BY <2>1, RotateWord, XorWord
  <2> QED BY <2>2 DEF F2, t1
<1>2. F3(d, a, b) \in Word
  <2> DEFINE t0 == Plus(d, a)
             t1 == PlusOne(Rotate(t0, 2), t0)
             t2 == Xor(Rotate(t1, 8), t1)
             t3 == Plus(t2, b)
             t4 == Minus(Rotate(t3, 1), t3)
  <2>1. t4 \in Word
    BY AddWord DEF Minus
  <2> HIDE DEF t4
  <2>2. t4 \cup d \in Word
    BY <2>1 DEF Word
  <2>3. Xor(Rotate(t4, 16), t4 \cup d) \in Word
    BY <2>1, <2>2, RotateWord, XorWord
  <2> QED BY <2>3 DEF F3, t4
<1>3. F4(d, a) \in Word
  BY AddWord DEF F4, PlusOne
<1> QED BY <1>1, <1>2, <1>3

LEMMA PiType ==
  ASSUME NEW d \in Data, NEW a, NEW b
  PROVE  Pi1(d) \in Data /\ Pi2(d, a) \in Data /\ Pi3(d, a, b) \in Data /\ Pi4(d, a) \in Data
<1>1. d.l \in Word /\ d.r \in Word
  BY DEF Data
<1>2. Pi1(d) \in Data
  BY <1>1, XorWord DEF Pi1, Data
<1>3. Pi2(d, a) \in Data
  BY <1>1, XorWord, FWord DEF Pi2, Data
<1>4. Pi3(d, a, b) \in Data
  BY <1>1, XorWord, FWord DEF Pi3, Data
<1>5. Pi4(d, a) \in Data
  BY <1>1, XorWord, FWord DEF Pi4, Data
<1> QED BY <1>2, <1>3, <1>4, <1>5

\* Each of the four is its own inverse.
LEMMA PiTwice ==
  ASSUME NEW d \in Data, NEW a, NEW b
  PROVE  /\ Pi1(Pi1(d)) = d /\ Pi2(Pi2(d, a), a) = d
         /\ Pi3(Pi3(d, a, b), a, b) = d /\ Pi4(Pi4(d, a), a) = d
<1>1. d = [l |-> d.l, r |-> d.r]
  BY DEF Data
<1>2. Pi1(Pi1(d)) = d
  BY <1>1, XorTwice DEF Pi1
<1>3. Pi2(Pi2(d, a), a) = d
  BY <1>1, XorTwice DEF Pi2
<1>4. Pi3(Pi3(d, a, b), a, b) = d
  BY <1>1, XorTwice DEF Pi3
<1>5. Pi4(Pi4(d, a), a) = d
  BY <1>1, XorTwice DEF Pi4
<1> QED BY <1>2, <1>3, <1>4, <1>5

\* core_decrypt() takes the steps of core_encrypt() back, in the opposite order.
LEMMA TurnBack ==
  ASSUME NEW d \in Data, NEW w
  PROVE  Encrypted(d, w) \in Data /\ Decrypted(d, w) \in Data /\ Decrypted(Encrypted(d, w), w) = d
<1> DEFINE d1 == Pi1(d)
           d2 == Pi2(d1, w[1])
           d3 == Pi3(d2, w[2], w[3])
           d4 == Pi4(d3, w[4])
           d5 == Pi1(d4)
           d6 == Pi2(d5, w[5])
           d7 == Pi3(d6, w[6], w[7])
           d8 == Pi4(d7, w[8])
<1>1. d1 \in Data /\ d2 \in Data /\ d3 \in Data /\ d4 \in Data
  <2>1. d1 \in Data BY PiType
  <2>2. d2 \in Data BY <2>1, PiType
  <2>3. d3 \in Data BY <2>2, PiType
  <2> QED BY <2>1, <2>2, <2>3, PiType
<1>2. d5 \in Data /\ d6 \in Data /\ d7 \in Data /\ d8 \in Data
  <2>1. d5 \in Data BY <1>1, PiType
  <2>2. d6 \in Data BY <2>1, PiType
  <2>3. d7 \in Data BY <2>2, PiType
  <2> QED BY <2>1, <2>2, <2>3, PiType
<1>3. Encrypted(d, w) = d8
  BY DEF Encrypted
<1>4. Pi4(d8, w[8]) = d7 /\ Pi3(d7, w[6], w[7]) = d6 /\ Pi2(d6, w[5]) = d5 /\ Pi1(d5) = d4
  BY <1>1, <1>2, PiTwice
<1>5. Pi4(d4, w[4]) = d3 /\ Pi3(d3, w[2], w[3]) = d2 /\ Pi2(d2, w[1]) = d1 /\ Pi1(d1) = d
  BY <1>1, <1>2, PiTwice
<1>6. Decrypted(d8, w) = d
  <2> HIDE DEF d1, d2, d3, d4, d5, d6, d7, d8
  <2> QED BY <1>4, <1>5 DEF Decrypted
<1>7. Decrypted(d, w) \in Data
  <2> DEFINE e1 == Pi4(d, w[8])
             e2 == Pi3(e1, w[6], w[7])
             e3 == Pi2(e2, w[5])
             e4 == Pi1(e3)
             e5 == Pi4(e4, w[4])
             e6 == Pi3(e5, w[2], w[3])
             e7 == Pi2(e6, w[1])
  <2>1. e1 \in Data BY PiType
  <2>2. e2 \in Data BY <2>1, PiType
  <2>3. e3 \in Data BY <2>2, PiType
  <2>4. e4 \in Data BY <2>3, PiType
  <2>5. e5 \in Data BY <2>4, PiType
  <2>6. e6 \in Data BY <2>5, PiType
  <2>7. e7 \in Data BY <2>6, PiType
  <2>8. Decrypted(d, w) = Pi1(e7)
    BY DEF Decrypted
  <2> QED BY <2>7, <2>8, PiType
<1> QED BY <1>2, <1>3, <1>6, <1>7

LEMMA Head8Type == ASSUME NEW d \in Data, NEW n PROVE Head8(d, n) \in Data
BY DEF Head8, Data, Word

LEMMA ScheduleType ==
  ASSUME NEW sys, NEW d \in Data PROVE Schedule(sys, d) \in WorkKey
<1> DEFINE b1 == Pi1(d)
           b2 == Pi2(b1, sys[1])
           b3 == Pi3(b2, sys[2], sys[3])
           b4 == Pi4(b3, sys[4])
           b5 == Pi1(b4)
           b6 == Pi2(b5, sys[5])
           b7 == Pi3(b6, sys[6], sys[7])
           b8 == Pi4(b7, sys[8])
           b9 == Pi1(b8)
<1>1. b2 \in Data /\ b3 \in Data /\ b4 \in Data /\ b5 \in Data
  <2>1. b1 \in Data BY PiType
  <2>2. b2 \in Data BY <2>1, PiType
  <2>3. b3 \in Data BY <2>2, PiType
  <2>4. b4 \in Data BY <2>3, PiType
  <2> QED BY <2>2, <2>3, <2>4, PiType
<1>2. b6 \in Data /\ b7 \in Data /\ b8 \in Data /\ b9 \in Data
  <2>1. b6 \in Data BY <1>1, PiType
  <2>2. b7 \in Data BY <2>1, PiType
  <2>3. b8 \in Data BY <2>2, PiType
  <2> QED BY <2>1, <2>2, <2>3, PiType
<1>3. Schedule(sys, d) = <<b2.l, b3.r, b4.l, b5.r, b6.l, b7.r, b8.l, b9.r>>
  BY DEF Schedule
<1> HIDE DEF b1, b2, b3, b4, b5, b6, b7, b8, b9
<1>4. /\ b2.l \in Word /\ b3.r \in Word /\ b4.l \in Word /\ b5.r \in Word
      /\ b6.l \in Word /\ b7.r \in Word /\ b8.l \in Word /\ b9.r \in Word
  BY <1>1, <1>2 DEF Data
<1> HIDE DEF Word
<1> QED BY <1>3, <1>4 DEF WorkKey

-----------------------------------------------------------------------------
(* The inductive invariant.                                                *)

Object ==
  [cbc_init : Data, sys : WorkKey, scr : [{Odd, Even} -> Data], wrk : [{Odd, Even} -> WorkKey],
   round : Nat, state : SUBSET {"CBC_INIT", "SYSTEM_KEY", "SCRAMBLE_KEY"}]
Sealed == [type : 0 .. 3, sys : WorkKey, cbc : Data, key : Data]

TypeOK ==
  /\ created \in BOOLEAN /\ m2 \in Object /\ granted \in BOOLEAN
  /\ keys \in [sys : WorkKey, cbc : Data, scr : [{Odd, Even} -> Data]]
  /\ sealed \in Sealed /\ used \in Sealed
  /\ plain \in Seq(Data) /\ buf \in Seq(Data) /\ Len(plain) = Len(buf) /\ size \in Nat
  /\ call \in {"none", "encrypt", "decrypt"} /\ pc \in {"idle", "load", "core"}
  /\ chain \in Data /\ dst \in Data
  /\ p \in 1 .. Len(buf) + 1 /\ i \in Nat
  /\ trace \in Seq(Seq(Data))

\* The object has the keys of the card since it was created, its work keys are
\* those of the last ECM, and it has none without a purchase.
ObjectKeyed ==
  /\ granted => created
  /\ created =>
       /\ m2.sys = keys.sys /\ m2.cbc_init = keys.cbc /\ m2.round = Round
       /\ {"CBC_INIT", "SYSTEM_KEY"} \subseteq m2.state
       /\ "SCRAMBLE_KEY" \in m2.state => granted
  /\ granted => \A t \in {Odd, Even} : m2.wrk[t] = Schedule(keys.sys, keys.scr[t])

\* The key of the packet.
Key == Schedule(sealed.sys, sealed.key)

\* What the encryption has combined block q with; what went into the core; its
\* turns, all of them; and what was written.
ChainOf(q) == IF q = 1 THEN sealed.cbc ELSE trace[q - 1][Round + 1]
First(q) == IF Whole(q) THEN XorData(plain[q], ChainOf(q)) ELSE ChainOf(q)
Turns(q) == \A n \in 1 .. Len(trace[q]) - 1 : trace[q][n + 1] = Encrypted(trace[q][n], Key)
Traced(q) == Len(trace[q]) = Round + 1 /\ trace[q][1] = First(q) /\ Turns(q)
Written(q) ==
  IF Whole(q) THEN trace[q][Round + 1]
  ELSE XorData(plain[q], Head8(trace[q][Round + 1], size - (q - 1) * BlockSize))

\* Only the last block may be incomplete, and every call goes to its end.
InCall ==
  /\ \A q \in 1 .. Len(buf) - 1 : Whole(q)
  /\ pc = "core" => p <= Len(buf) /\ i <= Round
  /\ pc # "idle" => call # "none"
  /\ call = "none" => Len(trace) = 0
  /\ call # "none" => turns = Round
  /\ pc = "idle" /\ call # "none" => p = Len(buf) + 1

\* The encryption leaves behind it what the trace says.
Encrypting ==
  call = "encrypt" =>
    /\ pc # "idle" => prm = Key
    /\ p <= Len(buf) => chain = ChainOf(p)
    /\ \A q \in 1 .. p - 1 : Traced(q) /\ buf[q] = Written(q)
    /\ \A q \in p .. Len(buf) : buf[q] = plain[q]
    /\ pc # "core" => Len(trace) = p - 1
    /\ pc = "core" =>
         /\ Len(trace) = p /\ Len(trace[p]) = i + 1
         /\ trace[p][1] = First(p) /\ Turns(p) /\ dst = trace[p][i + 1]

\* The decryption goes back along the trace.
Decrypting ==
  call = "decrypt" =>
    /\ prm = Schedule(used.sys, used.key)
    /\ pc # "idle" => granted /\ used.sys = keys.sys
    /\ Len(trace) = Len(buf) /\ \A q \in 1 .. Len(buf) : Traced(q)
    /\ used = sealed =>
         /\ p <= Len(buf) => chain = ChainOf(p)
         /\ \A q \in 1 .. p - 1 : buf[q] = plain[q]
         /\ \A q \in p .. Len(buf) : buf[q] = Written(q)
         /\ pc = "core" =>
              dst = IF Whole(p) THEN trace[p][Round + 1 - i] ELSE trace[p][i + 1]

IInv == TypeOK /\ ObjectKeyed /\ InCall /\ Encrypting /\ Decrypting

-----------------------------------------------------------------------------
(* The initial state, and the steps between calls.                         *)

LEMMA ZeroType ==
  /\ ZeroData \in Data /\ Created.sys \in WorkKey /\ Created \in Object /\ NoPacket \in Sealed
  /\ NoKeys \in [sys : WorkKey, cbc : Data, scr : [{Odd, Even} -> Data]]
<1>1. {} \in Word
  BY DEF Word
<1>2. ZeroData \in Data
  BY <1>1 DEF ZeroData, Data
<1>3. [n \in 1 .. 8 |-> {}] \in WorkKey
  BY <1>1 DEF WorkKey
<1>4. Created.sys = [n \in 1 .. 8 |-> {}] /\ Created.scr = [t \in {Odd, Even} |-> ZeroData]
  BY DEF Created
<1>5. Created \in Object
  BY <1>2, <1>3 DEF Created, Object
<1>6. NoPacket \in Sealed
  BY <1>2, <1>3, <1>4 DEF NoPacket, Sealed
<1>7. NoKeys \in [sys : WorkKey, cbc : Data, scr : [{Odd, Even} -> Data]]
  BY <1>2, <1>3, <1>4 DEF NoKeys
<1> QED BY <1>2, <1>3, <1>4, <1>5, <1>6, <1>7

LEMMA InitOK == ASSUME Init PROVE IInv
<1> USE DEF Init
<1>1. TypeOK
  <2>1. created \in BOOLEAN /\ granted \in BOOLEAN
    OBVIOUS
  <2>2. /\ m2 \in Object /\ keys \in [sys : WorkKey, cbc : Data, scr : [{Odd, Even} -> Data]]
        /\ sealed \in Sealed /\ used \in Sealed /\ chain \in Data /\ dst \in Data
    BY ZeroType
  <2>3. /\ plain \in Seq(Data) /\ buf \in Seq(Data) /\ Len(plain) = Len(buf) /\ size \in Nat
        /\ trace \in Seq(Seq(Data)) /\ p \in 1 .. Len(buf) + 1 /\ i \in Nat
    OBVIOUS
  <2> QED BY <2>1, <2>2, <2>3 DEF TypeOK
<1>2. ObjectKeyed
  BY DEF ObjectKeyed
<1>3. InCall
  BY DEF InCall
<1>4. Encrypting /\ Decrypting
  BY DEF Encrypting, Decrypting
<1> QED BY <1>1, <1>2, <1>3, <1>4 DEF IInv

\* What the functions of the object make of it.
LEMMA ScrambleKeyObject ==
  ASSUME NEW m \in Object, NEW scr \in [{Odd, Even} -> Data]
  PROVE  LET s == SetScrambleKey(m, scr)
         IN  /\ s \in Object /\ s.sys = m.sys /\ s.cbc_init = m.cbc_init /\ s.round = m.round
             /\ s.state = m.state \cup {"SCRAMBLE_KEY"}
             /\ \A t \in {Odd, Even} : s.wrk[t] = Schedule(m.sys, scr[t])
<1> DEFINE wrk == [t \in {Odd, Even} |-> Schedule(m.sys, scr[t])]
           s == SetScrambleKey(m, scr)
<1>1. wrk \in [{Odd, Even} -> WorkKey]
  BY ScheduleType
<1>2. \A t \in {Odd, Even} : wrk[t] = Schedule(m.sys, scr[t])
  OBVIOUS
<1> HIDE DEF wrk
<1>3. s = [m EXCEPT !.scr = scr, !.wrk = wrk, !.state = @ \cup {"SCRAMBLE_KEY"}]
  BY DEF SetScrambleKey, wrk
<1> HIDE DEF s
<1>4. s \in Object
  BY <1>1, <1>3 DEF Object
<1>5. /\ s.sys = m.sys /\ s.cbc_init = m.cbc_init /\ s.round = m.round
      /\ s.state = m.state \cup {"SCRAMBLE_KEY"} /\ s.wrk = wrk
  BY <1>3 DEF Object
<1> QED BY <1>2, <1>4, <1>5 DEF s

LEMMA NewCipherObject ==
  ASSUME NEW card \in Card, NEW scr \in [{Odd, Even} -> Data]
  PROVE  LET s == NewCipher(Created, card, scr)
         IN  /\ s \in Object /\ s.sys = card.sys /\ s.cbc_init = card.cbc /\ s.round = Round
             /\ s.state = {"CBC_INIT", "SYSTEM_KEY", "SCRAMBLE_KEY"}
             /\ \A t \in {Odd, Even} : s.wrk[t] = Schedule(card.sys, scr[t])
<1> DEFINE m == SetRound(SetInitCbc(SetSystemKey(Created, card.sys), card.cbc), Round)
           m1 == SetSystemKey(Created, card.sys)
           ms == SetInitCbc(m1, card.cbc)
<1>1. m1 \in Object /\ m1.sys = card.sys /\ m1.state = {"SYSTEM_KEY"}
  <2>1. Created \in Object /\ Created.state = {}
    BY ZeroType DEF Created
  <2> QED BY <2>1 DEF SetSystemKey, Object, Card
<1> HIDE DEF m1
<1>2. /\ ms \in Object /\ ms.sys = card.sys /\ ms.cbc_init = card.cbc
      /\ ms.state = {"CBC_INIT", "SYSTEM_KEY"}
  BY <1>1 DEF SetInitCbc, Object, Card
<1> HIDE DEF ms
<1>3. /\ m \in Object /\ m.sys = card.sys /\ m.cbc_init = card.cbc /\ m.round = Round
      /\ m.state = {"CBC_INIT", "SYSTEM_KEY"}
  <2>1. m = SetRound(ms, Round)
    BY DEF m1, ms
  <2> HIDE DEF m
  <2> QED BY <1>2, <2>1, Multi2Assumption DEF Multi2Assumption, SetRound, Object
<1> HIDE DEF m
<1>4. NewCipher(Created, card, scr) = SetScrambleKey(m, scr)
  BY DEF NewCipher, m
<1> QED BY <1>3, <1>4, ScrambleKeyObject

\* Whether the packets and calls are as before.
PacketKept == UNCHANGED <<packet, locals, trace, used>>

\* An ECM changes the object between the calls.
LEMMA KeptCall ==
  ASSUME IInv, PacketKept, pc = "idle"
  PROVE  InCall' /\ Encrypting' /\ Decrypting'
<1> USE DEF PacketKept, packet, locals
<1>1. InCall'
  BY DEF IInv, InCall, Whole
<1>2. Encrypting'
  BY DEF IInv, Encrypting, Key, ChainOf, First, Turns, Traced, Written, Whole
<1>3. Decrypting'
  BY DEF IInv, Decrypting, Key, ChainOf, First, Turns, Traced, Written, Whole
<1> QED BY <1>1, <1>2, <1>3

LEMMA EcmStep == ASSUME IInv, Ecm PROVE IInv'
<1> USE DEF IInv
<1>1. PacketKept /\ pc = "idle"
  BY DEF Ecm, Purchased, Failed, Unpurchased, PacketKept
<1>2. InCall' /\ Encrypting' /\ Decrypting'
  BY <1>1, KeptCall
<1>3. /\ sealed' \in Sealed /\ used' \in Sealed
      /\ plain' \in Seq(Data) /\ buf' \in Seq(Data) /\ Len(plain') = Len(buf') /\ size' \in Nat
      /\ call' \in {"none", "encrypt", "decrypt"} /\ pc' \in {"idle", "load", "core"}
      /\ chain' \in Data /\ dst' \in Data
      /\ p' \in 1 .. Len(buf') + 1 /\ i' \in Nat
      /\ trace' \in Seq(Seq(Data))
  BY <1>1 DEF PacketKept, packet, locals, TypeOK
<1>4. CASE Purchased
  <2>1. PICK scr \in Scrambles :
          \/ created /\ m2' = SetScrambleKey(m2, scr) /\ keys' = [keys EXCEPT !.scr = scr]
          \/ \E card \in Cards : /\ m2' = NewCipher(Created, card, scr)
                                 /\ keys' = [sys |-> card.sys, cbc |-> card.cbc, scr |-> scr]
    BY <1>4 DEF Purchased
  <2>2. scr \in [{Odd, Even} -> Data]
    BY Multi2Assumption DEF Multi2Assumption
  <2>3. created' = TRUE /\ granted' = TRUE
    BY <1>4 DEF Purchased
  <2>4. CASE created /\ m2' = SetScrambleKey(m2, scr) /\ keys' = [keys EXCEPT !.scr = scr]
    <3>1. keys' \in [sys : WorkKey, cbc : Data, scr : [{Odd, Even} -> Data]]
      BY <2>2, <2>4 DEF TypeOK
    <3>2. keys'.sys = keys.sys /\ keys'.cbc = keys.cbc /\ keys'.scr = scr
      BY <2>4 DEF TypeOK
    <3>3. /\ m2' \in Object /\ m2'.sys = m2.sys /\ m2'.cbc_init = m2.cbc_init
          /\ m2'.round = m2.round /\ m2'.state = m2.state \cup {"SCRAMBLE_KEY"}
          /\ \A t \in {Odd, Even} : m2'.wrk[t] = Schedule(m2.sys, scr[t])
      BY <2>2, <2>4, ScrambleKeyObject DEF TypeOK
    <3>4. TypeOK'
      BY <1>3, <2>3, <3>1, <3>3 DEF TypeOK
    <3>5. ObjectKeyed'
      BY <2>3, <2>4, <3>2, <3>3 DEF ObjectKeyed
    <3> QED BY <1>2, <3>4, <3>5
  <2>5. CASE \E card \in Cards : /\ m2' = NewCipher(Created, card, scr)
                                 /\ keys' = [sys |-> card.sys, cbc |-> card.cbc, scr |-> scr]
    <3>1. PICK card \in Cards : /\ m2' = NewCipher(Created, card, scr)
                                /\ keys' = [sys |-> card.sys, cbc |-> card.cbc, scr |-> scr]
      BY <2>5
    <3>2. card \in Card
      BY Multi2Assumption DEF Multi2Assumption
    <3>3. keys' \in [sys : WorkKey, cbc : Data, scr : [{Odd, Even} -> Data]]
      BY <2>2, <3>1, <3>2 DEF Card
    <3>4. /\ m2' \in Object /\ m2'.sys = card.sys /\ m2'.cbc_init = card.cbc
          /\ m2'.round = Round /\ m2'.state = {"CBC_INIT", "SYSTEM_KEY", "SCRAMBLE_KEY"}
          /\ \A t \in {Odd, Even} : m2'.wrk[t] = Schedule(card.sys, scr[t])
      BY <2>2, <3>1, <3>2, NewCipherObject
    <3>5. keys'.sys = card.sys /\ keys'.cbc = card.cbc /\ keys'.scr = scr
      BY <3>1
    <3>6. TypeOK'
      BY <1>3, <2>3, <3>3, <3>4 DEF TypeOK
    <3>7. ObjectKeyed'
      BY <2>3, <3>4, <3>5 DEF ObjectKeyed
    <3> QED BY <1>2, <3>6, <3>7
  <2> QED BY <2>1, <2>4, <2>5
<1>5. CASE Failed
  <2>1. /\ created /\ m2' = ClearScrambleKey(m2) /\ granted' = FALSE
        /\ created' = created /\ keys' = keys
    BY <1>5 DEF Failed
  <2>2. Created.scr \in [{Odd, Even} -> Data] /\ Created.wrk \in [{Odd, Even} -> WorkKey]
    BY ZeroType DEF Object
  <2>3. /\ m2' \in Object /\ m2'.sys = m2.sys /\ m2'.cbc_init = m2.cbc_init
        /\ m2'.round = m2.round /\ m2'.state = m2.state \ {"SCRAMBLE_KEY"}
    BY <2>1, <2>2 DEF ClearScrambleKey, Object, TypeOK
  <2>4. TypeOK'
    BY <1>3, <2>1, <2>3 DEF TypeOK
  <2>5. ObjectKeyed'
    BY <2>1, <2>3 DEF ObjectKeyed
  <2> QED BY <1>2, <2>4, <2>5
<1>6. CASE Unpurchased
  <2>1. m2' = Created /\ granted' = FALSE /\ created' = FALSE /\ keys' = keys
    BY <1>6 DEF Unpurchased
  <2>2. TypeOK'
    BY <1>3, <2>1, ZeroType DEF TypeOK
  <2>3. ObjectKeyed'
    BY <2>1 DEF ObjectKeyed
  <2> QED BY <1>2, <2>2, <2>3
<1> QED BY <1>4, <1>5, <1>6 DEF Ecm

-----------------------------------------------------------------------------
(* The steps of the calls.                                                 *)

LEMMA EmitStep == ASSUME IInv, Emit PROVE IInv'
<1> USE DEF IInv, Emit, cipher
<1>1. TypeOK'
  <2>1. /\ created' \in BOOLEAN /\ granted' \in BOOLEAN /\ m2' \in Object
        /\ keys' \in [sys : WorkKey, cbc : Data, scr : [{Odd, Even} -> Data]]
    BY DEF TypeOK
  <2>2. sealed' \in Sealed /\ used' \in Sealed /\ chain' \in Data /\ dst' \in Data
    BY ZeroType
  <2>3. /\ plain' \in Seq(Data) /\ buf' \in Seq(Data) /\ Len(plain') = Len(buf')
        /\ size' \in Nat /\ trace' \in Seq(Seq(Data)) /\ p' \in 1 .. Len(buf') + 1
        /\ i' \in Nat /\ call' = "none" /\ pc' = "idle"
    OBVIOUS
  <2> QED BY <2>1, <2>2, <2>3 DEF TypeOK
<1>2. ObjectKeyed'
  BY DEF ObjectKeyed
<1>3. InCall'
  BY DEF InCall
<1>4. Encrypting' /\ Decrypting'
  BY DEF Encrypting, Decrypting
<1> QED BY <1>1, <1>2, <1>3, <1>4

\* The broadcaster's object has the keys of the packet.
LEMMA EncryptStep == ASSUME IInv, Encrypt PROVE IInv'
<1> USE DEF IInv
<1>1. PICK b \in Packets, type \in 1 .. 3, card \in Cards, scr \in Scrambles :
        /\ Start("encrypt", NewCipher(Created, card, scr), type)
        /\ sealed' = [type |-> type, sys |-> card.sys, cbc |-> card.cbc,
                      key |-> scr[Parity(type)]]
        /\ plain' = b.blocks /\ buf' = b.blocks /\ size' = b.size
  BY DEF Encrypt
<1>2. /\ created' = created /\ m2' = m2 /\ granted' = granted /\ keys' = keys
      /\ used' = used /\ trace' = trace /\ dst' = dst /\ i' = i
      /\ call' = "encrypt" /\ pc' = "load" /\ p' = 1 /\ call = "none"
  BY <1>1 DEF Encrypt, cipher, Start
<1>3. card \in Card /\ scr \in [{Odd, Even} -> Data] /\ Parity(type) \in {Odd, Even}
  BY Multi2Assumption DEF Multi2Assumption, Parity
<1>4. /\ b.blocks \in Seq(Data) /\ b.size \in Nat \ {0}
      /\ (Len(b.blocks) - 1) * BlockSize < b.size
  BY Multi2Assumption DEF Multi2Assumption
<1>5. /\ turns' = Round /\ chain' = card.cbc
      /\ prm' = Schedule(card.sys, scr[Parity(type)])
  BY <1>1, <1>3, NewCipherObject DEF Start
<1>6. card.sys \in WorkKey /\ card.cbc \in Data /\ scr[Parity(type)] \in Data
  BY <1>3 DEF Card
<1>7. sealed' \in Sealed
  BY <1>1, <1>6 DEF Sealed
<1>8. sealed'.sys = card.sys /\ sealed'.cbc = card.cbc /\ sealed'.key = scr[Parity(type)]
  BY <1>1
<1>9. TypeOK'
  <2>1. created' \in BOOLEAN /\ granted' \in BOOLEAN
    BY <1>2 DEF TypeOK
  <2>2. /\ m2' \in Object /\ used' \in Sealed /\ dst' \in Data /\ i' \in Nat
        /\ keys' \in [sys : WorkKey, cbc : Data, scr : [{Odd, Even} -> Data]]
        /\ trace' \in Seq(Seq(Data)) /\ chain' \in Data
    BY <1>2, <1>5, <1>6 DEF TypeOK
  <2>3. /\ plain' \in Seq(Data) /\ buf' \in Seq(Data) /\ Len(plain') = Len(buf')
        /\ size' \in Nat /\ p' \in 1 .. Len(buf') + 1
    BY <1>1, <1>2, <1>4
  <2> QED BY <1>2, <1>7, <2>1, <2>2, <2>3 DEF TypeOK
<1>10. ObjectKeyed'
  BY <1>2 DEF ObjectKeyed
<1>11. InCall'
  <2>1. \A q \in 1 .. Len(b.blocks) - 1 : q * BlockSize <= b.size
    <3>1. Len(b.blocks) \in Nat /\ BlockSize \in Nat
      BY <1>4, Multi2Assumption DEF Multi2Assumption, BlockSize
    <3> SUFFICES ASSUME NEW q \in 1 .. Len(b.blocks) - 1 PROVE q * BlockSize <= b.size
      OBVIOUS
    <3> DEFINE k == Len(b.blocks) - 1 - q
    <3>2. k \in Nat /\ Len(b.blocks) - 1 = q + k
      BY <3>1
    <3> HIDE DEF k
    <3>3. q * BlockSize \in Nat /\ k * BlockSize \in Nat
      BY <3>1, <3>2
    <3>4. (Len(b.blocks) - 1) * BlockSize = q * BlockSize + k * BlockSize
      BY <3>1, <3>2
    <3> QED BY <1>4, <3>3, <3>4
  <2>2. \A q \in 1 .. Len(buf') - 1 : Whole(q)'
    BY <1>1, <2>1 DEF Whole
  <2> QED BY <1>2, <1>5, <2>2 DEF InCall
<1>12. Len(trace') = 0
  BY <1>2 DEF InCall, TypeOK
<1>13. Encrypting' /\ Decrypting'
  BY <1>1, <1>2, <1>5, <1>8, <1>12 DEF Encrypting, Decrypting, Key, ChainOf
<1> QED BY <1>9, <1>10, <1>11, <1>13

\* The descrambler's object has the keys of the last ECM.
LEMMA DecryptStep == ASSUME IInv, Decrypt PROVE IInv'
<1> USE DEF IInv
<1>1. /\ UNCHANGED <<created, m2, granted, keys, sealed, plain, buf, size, trace, dst, i>>
      /\ call = "encrypt" /\ pc = "idle" /\ created /\ AllSet(m2)
      /\ call' = "decrypt" /\ pc' = "load" /\ p' = 1
      /\ prm' = m2.wrk[Parity(sealed.type)] /\ turns' = m2.round /\ chain' = m2.cbc_init
      /\ used' = [type |-> sealed.type, sys |-> keys.sys, cbc |-> keys.cbc,
                  key |-> keys.scr[Parity(sealed.type)]]
  BY DEF Decrypt, Start, cipher, packet
<1>2. Parity(sealed.type) \in {Odd, Even}
  BY DEF Parity
<1>3. granted
  BY <1>1 DEF AllSet, ObjectKeyed
<1>4. used' \in Sealed
  BY <1>1, <1>2 DEF TypeOK, Sealed
<1>5. /\ used'.sys = keys.sys /\ used'.cbc = keys.cbc
      /\ used'.key = keys.scr[Parity(sealed.type)]
  BY <1>1
<1>6. turns' = Round /\ chain' = keys.cbc /\ prm' = Schedule(keys.sys, used'.key)
  BY <1>1, <1>2, <1>3, <1>5 DEF ObjectKeyed
<1>7. TypeOK'
  <2>1. created' \in BOOLEAN /\ granted' \in BOOLEAN
    BY <1>1 DEF TypeOK
  <2>2. chain' \in Data
    BY <1>6 DEF TypeOK
  <2>3. p' \in 1 .. Len(buf') + 1
    BY <1>1 DEF TypeOK
  <2> QED BY <1>1, <1>4, <2>1, <2>2, <2>3 DEF TypeOK
<1>8. ObjectKeyed'
  BY <1>1 DEF ObjectKeyed
<1>9. InCall'
  BY <1>1, <1>6 DEF InCall, Whole
<1>10. Len(trace) = Len(buf)
  BY <1>1 DEF InCall, Encrypting, TypeOK
<1>11. \A q \in 1 .. Len(buf) : Traced(q) /\ buf[q] = Written(q)
  BY <1>1 DEF InCall, Encrypting, TypeOK
<1>12. Encrypting'
  BY <1>1 DEF Encrypting
<1>13. Decrypting'
  <2>1. \A q : Traced(q)' = Traced(q) /\ Written(q)' = Written(q) /\ ChainOf(q)' = ChainOf(q)
    BY <1>1 DEF Traced, Written, ChainOf, First, Turns, Key, Whole
  <2>2. used' = sealed' => chain' = ChainOf(1)
    BY <1>1, <1>5, <1>6 DEF ChainOf
  <2> QED BY <1>1, <1>3, <1>5, <1>6, <1>10, <1>11, <2>1, <2>2 DEF Decrypting
<1> QED BY <1>7, <1>8, <1>9, <1>12, <1>13

\* What a step of the core leaves alone.
LEMMA CoreKept ==
  ASSUME IInv, UNCHANGED <<cipher, used, sealed, plain, size, call, prm, turns>>,
         pc # "idle", buf' \in Seq(Data), Len(buf') = Len(buf), pc' \in {"idle", "load", "core"},
         chain' \in Data, dst' \in Data, p' \in 1 .. Len(buf) + 1, i' \in Nat,
         trace' \in Seq(Seq(Data))
  PROVE  TypeOK' /\ ObjectKeyed'
<1>1. created' \in BOOLEAN /\ granted' \in BOOLEAN
  BY DEF IInv, TypeOK, cipher
<1>2. TypeOK'
  BY <1>1 DEF IInv, TypeOK, cipher
<1>3. ObjectKeyed'
  BY DEF IInv, ObjectKeyed, cipher
<1> QED BY <1>2, <1>3

\* The trace of the blocks that are done is kept.
LEMMA TraceKept ==
  ASSUME IInv, UNCHANGED <<sealed, plain, size>>,
         NEW q \in Nat \ {0}, \A k \in 1 .. q : trace'[k] = trace[k]
  PROVE  /\ Traced(q)' = Traced(q) /\ Written(q)' = Written(q)
         /\ ChainOf(q)' = ChainOf(q) /\ ChainOf(q + 1)' = ChainOf(q + 1)
<1>1. trace'[q] = trace[q] /\ (q # 1 => trace'[q - 1] = trace[q - 1])
  OBVIOUS
<1>2. ChainOf(q)' = ChainOf(q) /\ ChainOf(q + 1)' = ChainOf(q + 1)
  BY <1>1 DEF ChainOf
<1>3. Written(q)' = Written(q)
  BY <1>1 DEF Written, Whole
<1>4. Traced(q)' = Traced(q)
  BY <1>1, <1>2 DEF Traced, First, Turns, Key, Whole
<1> QED BY <1>2, <1>3, <1>4

LEMMA ReturnStep == ASSUME IInv, Return PROVE IInv'
<1> USE DEF IInv, Return, packet
<1>1. p = Len(buf) + 1
  BY DEF TypeOK
<1>2. TypeOK' /\ ObjectKeyed'
  BY CoreKept DEF TypeOK
<1>3. InCall'
  BY <1>1 DEF InCall, Whole
<1>4. Encrypting'
  BY DEF Encrypting, Key, ChainOf, First, Turns, Traced, Written, Whole
<1>5. Decrypting'
  BY DEF Decrypting, Key, ChainOf, First, Turns, Traced, Written, Whole
<1> QED BY <1>2, <1>3, <1>4, <1>5

\* A block goes into the core: the first element of its trace, or the last.
LEMMA LoadStep == ASSUME IInv, Load PROVE IInv'
<1> USE DEF IInv, packet
<1>1. /\ UNCHANGED <<cipher, used, sealed, plain, buf, size, call, prm, turns, chain, p>>
      /\ pc = "load" /\ p <= Len(buf) /\ pc' = "core" /\ dst' = Loaded /\ i' = 0
      /\ trace' = IF call = "encrypt" THEN Append(trace, <<Loaded>>) ELSE trace
  BY DEF Load
<1>2. buf[p] \in Data /\ Loaded \in Data
  BY <1>1, XorDataType DEF Loaded, TypeOK
<1>3. trace' \in Seq(Seq(Data))
  <2>1. <<Loaded>> \in Seq(Data)
    BY <1>2
  <2> QED BY <1>1, <2>1 DEF TypeOK
<1>4. TypeOK' /\ ObjectKeyed'
  BY <1>1, <1>2, <1>3, CoreKept DEF TypeOK
<1>5. InCall'
  BY <1>1, Multi2Assumption DEF InCall, Whole, Multi2Assumption
<1>6. Encrypting'
  <2> SUFFICES ASSUME call = "encrypt" PROVE Encrypting'
    BY <1>1 DEF Encrypting
  <2>1. Len(trace) = p - 1 /\ trace' = Append(trace, <<Loaded>>)
    BY <1>1 DEF Encrypting
  <2>2. /\ Len(trace') = p /\ trace'[p] = <<Loaded>>
        /\ \A k \in 1 .. p - 1 : trace'[k] = trace[k]
    BY <1>1, <2>1 DEF TypeOK
  <2>3. \A q \in 1 .. p - 1 : Traced(q)' /\ buf'[q] = Written(q)'
    <3> SUFFICES ASSUME NEW q \in 1 .. p - 1 PROVE Traced(q)' /\ buf'[q] = Written(q)'
      OBVIOUS
    <3>1. q \in Nat \ {0} /\ \A k \in 1 .. q : trace'[k] = trace[k]
      BY <2>2 DEF TypeOK
    <3>2. Traced(q)' = Traced(q) /\ Written(q)' = Written(q)
      BY <1>1, <3>1, TraceKept
    <3> QED BY <1>1, <3>2 DEF Encrypting
  <2>4. ChainOf(p)' = ChainOf(p)
    BY <1>1, <2>2 DEF ChainOf, TypeOK
  <2>5. First(p)' = Loaded
    BY <1>1, <2>4 DEF First, Loaded, Encrypting, TypeOK, Whole
  <2>6. Len(trace'[p]) = 1 /\ trace'[p][1] = Loaded
    BY <2>2
  <2>7. Turns(p)'
    <3>1. p' = p /\ 1 - 1 = 0
      BY <1>1
    <3>2. \A n \in 1 .. 0 : FALSE
      OBVIOUS
    <3> QED BY <2>6, <3>1, <3>2 DEF Turns
  <2>8. prm' = Key' /\ chain' = ChainOf(p)' /\ \A q \in p .. Len(buf) : buf'[q] = plain'[q]
    BY <1>1, <2>4 DEF Encrypting, Key
  <2> QED BY <1>1, <2>2, <2>3, <2>5, <2>6, <2>7, <2>8 DEF Encrypting
<1>7. Decrypting'
  <2> SUFFICES ASSUME call = "decrypt" PROVE Decrypting'
    BY <1>1 DEF Decrypting
  <2>1. trace' = trace
    BY <1>1
  <2>2. \A q : Traced(q)' = Traced(q) /\ Written(q)' = Written(q) /\ ChainOf(q)' = ChainOf(q)
    BY <1>1, <2>1 DEF Traced, Written, ChainOf, First, Turns, Key, Whole
  <2>3. used = sealed => dst' = IF Whole(p) THEN trace[p][Round + 1] ELSE trace[p][1]
    <3> SUFFICES ASSUME used = sealed
                 PROVE  dst' = IF Whole(p) THEN trace[p][Round + 1] ELSE trace[p][1]
      OBVIOUS
    <3>1. p \in 1 .. Len(buf)
      BY <1>1 DEF TypeOK
    <3>2. buf[p] = Written(p) /\ chain = ChainOf(p) /\ Traced(p)
      BY <3>1 DEF Decrypting
    <3>3. CASE Whole(p)
      BY <1>1, <3>2, <3>3 DEF Loaded, Written
    <3>4. CASE ~Whole(p)
      BY <1>1, <3>2, <3>4 DEF Loaded, Traced, First
    <3> QED BY <3>3, <3>4
  <2>4. Whole(p)' = Whole(p) /\ Round + 1 - 0 = Round + 1 /\ 0 + 1 = 1
    BY <1>1, Multi2Assumption DEF Whole, Multi2Assumption
  <2>5. used = sealed => dst' = IF Whole(p)' THEN trace'[p'][Round + 1 - i'] ELSE trace'[p'][i' + 1]
    BY <1>1, <2>1, <2>3, <2>4
  <2> QED BY <1>1, <2>1, <2>2, <2>5 DEF Decrypting, cipher
<1> QED BY <1>4, <1>5, <1>6, <1>7

\* A turn goes one element up the trace or, decrypting, one down.
LEMMA TurnStep == ASSUME IInv, Turn PROVE IInv'
<1> USE DEF IInv, packet
<1>1. /\ UNCHANGED <<cipher, used, sealed, plain, buf, size, call, pc, prm, turns, chain, p>>
      /\ pc = "core" /\ i < turns /\ dst' = Turned /\ i' = i + 1
      /\ trace' = IF call = "encrypt" THEN [trace EXCEPT ![p] = Append(@, Turned)] ELSE trace
  BY DEF Turn
<1>2. p \in 1 .. Len(buf) /\ turns = Round /\ i \in Nat /\ i < Round /\ Round \in Nat
  BY <1>1, Multi2Assumption DEF InCall, TypeOK, Multi2Assumption
<1>3. Turned \in Data
  BY TurnBack DEF Turned, TypeOK
<1>4. call = "encrypt" => /\ p \in 1 .. Len(trace)
                          /\ trace[p] \in Seq(Data) /\ Append(trace[p], Turned) \in Seq(Data)
  BY <1>1, <1>2, <1>3 DEF Encrypting, TypeOK
<1>5. trace' \in Seq(Seq(Data))
  BY <1>1, <1>4 DEF TypeOK
<1>6. TypeOK' /\ ObjectKeyed'
  BY <1>1, <1>2, <1>3, <1>5, CoreKept DEF TypeOK
<1>7. InCall'
  BY <1>1, <1>2 DEF InCall, Whole
<1>8. Encrypting'
  <2> SUFFICES ASSUME call = "encrypt" PROVE Encrypting'
    BY <1>1 DEF Encrypting
  <2>1. /\ Len(trace) = p /\ Len(trace[p]) = i + 1 /\ trace[p][1] = First(p) /\ Turns(p)
        /\ dst = trace[p][i + 1] /\ prm = Key /\ chain = ChainOf(p)
    BY <1>1, <1>2 DEF Encrypting
  <2>2. trace' = [trace EXCEPT ![p] = Append(trace[p], Turned)]
    BY <1>1
  <2>3. /\ Len(trace') = p /\ trace'[p] = Append(trace[p], Turned)
        /\ \A k \in 1 .. p - 1 : trace'[k] = trace[k]
    BY <1>2, <1>4, <2>1, <2>2 DEF TypeOK
  <2>4. /\ Len(trace'[p]) = i + 2 /\ trace'[p][i + 2] = Turned
        /\ \A n \in 1 .. i + 1 : trace'[p][n] = trace[p][n]
    BY <1>2, <1>3, <1>4, <2>1, <2>3
  <2>5. Turned = Encrypted(dst, Key)
    BY <2>1 DEF Turned
  <2>6. \A q \in 1 .. p - 1 : Traced(q)' /\ buf'[q] = Written(q)'
    <3> SUFFICES ASSUME NEW q \in 1 .. p - 1 PROVE Traced(q)' /\ buf'[q] = Written(q)'
      OBVIOUS
    <3>1. q \in Nat \ {0} /\ \A k \in 1 .. q : trace'[k] = trace[k]
      BY <1>2, <2>3
    <3>2. Traced(q)' = Traced(q) /\ Written(q)' = Written(q)
      BY <1>1, <3>1, TraceKept
    <3> QED BY <1>1, <3>2 DEF Encrypting
  <2>7. ChainOf(p)' = ChainOf(p) /\ Key' = Key
    BY <1>1, <1>2, <2>3 DEF ChainOf, Key
  <2>8. First(p)' = First(p)
    BY <1>1, <2>7 DEF First, Whole
  <2>9. Turns(p)'
    <3> SUFFICES ASSUME NEW n \in 1 .. i + 1
                 PROVE  trace'[p][n + 1] = Encrypted(trace'[p][n], Key)
      BY <1>1, <1>2, <2>4, <2>7 DEF Turns
    <3>1. CASE n = i + 1
      BY <1>2, <2>1, <2>4, <2>5, <3>1
    <3>2. CASE n # i + 1
      <4>1. n \in 1 .. i /\ n + 1 \in 1 .. i + 1 /\ Len(trace[p]) - 1 = i
        BY <1>2, <2>1, <3>2
      <4> QED BY <2>1, <2>4, <4>1 DEF Turns
    <3> QED BY <3>1, <3>2
  <2>10. trace'[p][1] = First(p)' /\ dst' = trace'[p][i' + 1] /\ Len(trace'[p]) = i' + 1
    BY <1>1, <1>2, <2>1, <2>4, <2>8
  <2>11. prm' = Key' /\ chain' = ChainOf(p)' /\ \A q \in p .. Len(buf) : buf'[q] = plain'[q]
    BY <1>1, <2>1, <2>7 DEF Encrypting
  <2> QED BY <1>1, <2>3, <2>6, <2>9, <2>10, <2>11 DEF Encrypting
<1>9. Decrypting'
  <2> SUFFICES ASSUME call = "decrypt" PROVE Decrypting'
    BY <1>1 DEF Decrypting
  <2>1. trace' = trace
    BY <1>1
  <2>2. \A q : Traced(q)' = Traced(q) /\ Written(q)' = Written(q) /\ ChainOf(q)' = ChainOf(q)
    BY <1>1, <2>1 DEF Traced, Written, ChainOf, First, Turns, Key, Whole
  <2>3. used = sealed => Turned = IF Whole(p) THEN trace[p][Round - i] ELSE trace[p][i + 2]
    <3> SUFFICES ASSUME used = sealed
                 PROVE  Turned = IF Whole(p) THEN trace[p][Round - i] ELSE trace[p][i + 2]
      OBVIOUS
    <3>1. prm = Key /\ Traced(p)
      BY <1>2 DEF Decrypting, Key
    <3>2. dst = IF Whole(p) THEN trace[p][Round + 1 - i] ELSE trace[p][i + 1]
      BY <1>1 DEF Decrypting
    <3>3. /\ trace[p] \in Seq(Data) /\ Len(trace[p]) = Round + 1
          /\ \A n \in 1 .. Round : trace[p][n + 1] = Encrypted(trace[p][n], Key)
      BY <1>2, <3>1 DEF Traced, Turns, TypeOK, Decrypting
    <3>4. CASE Whole(p)
      <4>1. Round - i \in 1 .. Round /\ Round - i + 1 = Round + 1 - i
        BY <1>2
      <4>2. dst = Encrypted(trace[p][Round - i], Key) /\ trace[p][Round - i] \in Data
        BY <1>2, <3>2, <3>3, <3>4, <4>1
      <4> QED BY <3>1, <3>4, <4>2, TurnBack DEF Turned
    <3>5. CASE ~Whole(p)
      <4>1. i + 1 \in 1 .. Round /\ i + 1 + 1 = i + 2
        BY <1>2
      <4> QED BY <3>1, <3>2, <3>3, <3>5, <4>1 DEF Turned
    <3> QED BY <3>4, <3>5
  <2>4. Whole(p)' = Whole(p) /\ Round + 1 - i' = Round - i /\ i' + 1 = i + 2
    BY <1>1, <1>2 DEF Whole
  <2>5. used = sealed => dst' = IF Whole(p)' THEN trace'[p'][Round + 1 - i'] ELSE trace'[p'][i' + 1]
    BY <1>1, <2>1, <2>3, <2>4
  <2> QED BY <1>1, <2>1, <2>2, <2>5 DEF Decrypting, cipher
<1> QED BY <1>6, <1>7, <1>8, <1>9

\* The block is written: the next one is combined with the cipher text.
LEMMA StoreStep == ASSUME IInv, Store PROVE IInv'
<1> USE DEF IInv
<1>1. /\ UNCHANGED <<cipher, used, sealed, plain, size, call, prm, turns, dst, i, trace>>
      /\ pc = "core" /\ i = turns /\ pc' = "load" /\ p' = p + 1
      /\ buf' = [buf EXCEPT ![p] = Stored] /\ chain' = Chained
  BY DEF Store
<1>2. /\ p \in 1 .. Len(buf) /\ turns = Round /\ i = Round /\ Round \in Nat
      /\ buf \in Seq(Data) /\ Len(buf) \in Nat
  BY <1>1, Multi2Assumption DEF InCall, TypeOK, Multi2Assumption
<1>3. Stored \in Data /\ Chained \in Data
  BY <1>2, XorDataType, Head8Type DEF Stored, Chained, TypeOK
<1>4. /\ buf' \in Seq(Data) /\ Len(buf') = Len(buf) /\ buf'[p] = Stored
      /\ \A q \in 1 .. Len(buf) : q # p => buf'[q] = buf[q]
  BY <1>1, <1>2, <1>3
<1>5. TypeOK' /\ ObjectKeyed'
  BY <1>1, <1>2, <1>3, <1>4, CoreKept DEF TypeOK
<1>6. InCall'
  BY <1>1, <1>2, <1>4 DEF InCall, Whole
<1>7. \A q : Traced(q)' = Traced(q) /\ Written(q)' = Written(q) /\ ChainOf(q)' = ChainOf(q)
  BY <1>1 DEF Traced, Written, ChainOf, First, Turns, Key, Whole
<1>8. p + 1 <= Len(buf) => Whole(p)
  BY <1>2 DEF InCall
<1>9. ChainOf(p + 1) = trace[p][Round + 1]
  BY <1>2 DEF ChainOf
<1>10. Encrypting'
  <2> SUFFICES ASSUME call = "encrypt" PROVE Encrypting'
    BY <1>1 DEF Encrypting
  <2>1. /\ Len(trace) = p /\ Len(trace[p]) = Round + 1 /\ trace[p][1] = First(p) /\ Turns(p)
        /\ dst = trace[p][Round + 1] /\ prm = Key /\ buf[p] = plain[p]
    BY <1>1, <1>2 DEF Encrypting
  <2>2. Traced(p)
    BY <2>1 DEF Traced
  <2>3. Stored = Written(p)
    BY <1>1, <2>1 DEF Stored, Written
  <2>4. \A q \in 1 .. p : Traced(q)' /\ buf'[q] = Written(q)'
    <3> SUFFICES ASSUME NEW q \in 1 .. p PROVE Traced(q) /\ buf'[q] = Written(q)
      BY <1>7
    <3>1. CASE q = p
      BY <1>4, <2>2, <2>3, <3>1
    <3>2. CASE q # p
      <4>1. q \in 1 .. p - 1 /\ q \in 1 .. Len(buf)
        BY <1>2, <3>2
      <4> QED BY <1>4, <3>2, <4>1 DEF Encrypting
    <3> QED BY <3>1, <3>2
  <2>5. \A q \in p + 1 .. Len(buf) : buf'[q] = plain'[q]
    BY <1>1, <1>2, <1>4 DEF Encrypting
  <2>6. p + 1 <= Len(buf) => chain' = ChainOf(p + 1)
    BY <1>1, <1>8, <1>9, <2>1 DEF Chained
  <2>7. ChainOf(p)' = ChainOf(p + 1)
    BY <1>1 DEF ChainOf
  <2>8. prm' = Key'
    BY <1>1, <2>1 DEF Key
  <2>9. 1 .. p' - 1 = 1 .. p /\ Len(trace') = p' - 1
    BY <1>1, <1>2, <2>1
  <2> QED BY <1>1, <1>4, <2>4, <2>5, <2>6, <2>7, <2>8, <2>9 DEF Encrypting
<1>11. Decrypting'
  <2> SUFFICES ASSUME call = "decrypt" PROVE Decrypting'
    BY <1>1 DEF Decrypting
  <2>1. used = sealed =>
          /\ p + 1 <= Len(buf) => chain' = ChainOf(p + 1)
          /\ buf'[p] = plain[p]
    <3> SUFFICES ASSUME used = sealed
                 PROVE  /\ p + 1 <= Len(buf) => chain' = ChainOf(p + 1)
                        /\ buf'[p] = plain[p]
      OBVIOUS
    <3>1. buf[p] = Written(p) /\ chain = ChainOf(p) /\ Traced(p)
      BY <1>2 DEF Decrypting
    <3>2. dst = IF Whole(p) THEN trace[p][Round + 1 - i] ELSE trace[p][i + 1]
      BY <1>1 DEF Decrypting
    <3>3. plain[p] \in Data /\ Round + 1 - i = 1
      BY <1>2 DEF TypeOK
    <3>4. CASE Whole(p)
      <4>1. dst = XorData(plain[p], chain)
        BY <3>1, <3>2, <3>3, <3>4 DEF Traced, First
      <4>2. buf'[p] = XorData(XorData(plain[p], chain), chain)
        BY <1>4, <3>4, <4>1 DEF Stored
      <4>3. chain' = ChainOf(p + 1)
        BY <1>1, <1>9, <3>1, <3>4 DEF Chained, Written
      <4> QED BY <3>3, <4>2, <4>3, XorDataTwice
    <3>5. CASE ~Whole(p)
      <4> DEFINE rest == Head8(trace[p][Round + 1], size - (p - 1) * BlockSize)
      <4>1. buf[p] = XorData(plain[p], rest)
        BY <3>1, <3>5 DEF Written
      <4>2. buf'[p] = XorData(buf[p], rest)
        BY <1>2, <1>4, <3>2, <3>5 DEF Stored
      <4> HIDE DEF rest
      <4>3. buf'[p] = plain[p]
        BY <3>3, <4>1, <4>2, XorDataTwice
      <4> QED BY <1>8, <3>5, <4>3
    <3> QED BY <3>4, <3>5
  <2>2. used = sealed => \A q \in 1 .. p : buf'[q] = plain'[q]
    BY <1>1, <1>2, <1>4, <2>1 DEF Decrypting
  <2>3. used = sealed => \A q \in p + 1 .. Len(buf) : buf'[q] = Written(q)'
    BY <1>1, <1>2, <1>4, <1>7 DEF Decrypting
  <2>4. ChainOf(p)' = ChainOf(p + 1) /\ 1 .. p' - 1 = 1 .. p
    BY <1>1, <1>2 DEF ChainOf
  <2>5. /\ prm' = Schedule(used'.sys, used'.key)
        /\ pc' # "idle" => granted' /\ used'.sys = keys'.sys
        /\ Len(trace') = Len(buf') /\ \A q \in 1 .. Len(buf') : Traced(q)'
    BY <1>1, <1>4, <1>7 DEF Decrypting, cipher
  <2> QED BY <1>1, <1>4, <2>1, <2>2, <2>3, <2>4, <2>5 DEF Decrypting
<1> QED BY <1>5, <1>6, <1>10, <1>11

LEMMA NextStep == ASSUME IInv, [Next]_vars PROVE IInv'
<1>1. CASE Ecm
  BY <1>1, EcmStep
<1>2. CASE Encrypt
  BY <1>2, EncryptStep
<1>3. CASE Decrypt
  BY <1>3, DecryptStep
<1>4. CASE Core
  BY <1>4, LoadStep, TurnStep, StoreStep, ReturnStep DEF Core
<1>5. CASE Emit
  BY <1>5, EmitStep
<1>6. CASE UNCHANGED vars
  <2>1. PacketKept /\ UNCHANGED <<created, m2, granted, keys>>
    BY <1>6 DEF vars, cipher, PacketKept
  <2>2. TypeOK' /\ ObjectKeyed'
    BY <2>1 DEF IInv, TypeOK, ObjectKeyed, PacketKept, packet, locals
  <2>3. InCall' /\ Encrypting' /\ Decrypting'
    BY <2>1 DEF IInv, InCall, Encrypting, Decrypting, Key, ChainOf, First, Turns, Traced,
                Written, Whole, PacketKept, packet, locals
  <2> QED BY <2>2, <2>3 DEF IInv
<1> QED BY <1>1, <1>2, <1>3, <1>4, <1>5, <1>6 DEF Next

-----------------------------------------------------------------------------
(* The theorems.                                                           *)

THEOREM Invariance == Spec => []IInv
<1>1. Init => IInv
  BY InitOK
<1>2. IInv /\ [Next]_vars => IInv'
  BY NextStep
<1> QED BY <1>1, <1>2, PTL DEF Spec

\* decrypt() with the keys of encrypt() gives the packet back, whatever the width
\* of the words, the number of turns, the keys and the length (multi2.c:263-391).
THEOREM DecryptInverts == Spec => []RoundTrip
<1>1. IInv => RoundTrip
  <2> SUFFICES ASSUME IInv, call = "decrypt", pc = "idle", used = sealed PROVE buf = plain
    BY DEF RoundTrip
  <2>1. /\ plain \in Seq(Data) /\ buf \in Seq(Data) /\ Len(plain) = Len(buf)
        /\ p = Len(buf) + 1 /\ Len(buf) \in Nat
    BY DEF IInv, TypeOK, InCall
  <2>2. \A q \in 1 .. Len(buf) : buf[q] = plain[q]
    BY <2>1 DEF IInv, Decrypting
  <2> QED BY <2>1, <2>2
<1> QED BY <1>1, Invariance, PTL

\* A call of decrypt() is made under the last ECM, which was purchased, and with
\* the work key of its scramble keys (src/b1/arib_std_b1.c:1671-1707).
THEOREM KeysOfLastEcm == Spec => []LatestKeys
<1>1. IInv => LatestKeys
  BY DEF IInv, Decrypting, LatestKeys
<1> QED BY <1>1, Invariance, PTL
=============================================================================
