------------------------------- MODULE Multi2 -------------------------------
(***************************************************************************)
(* The cipher, src/b1/multi2.c, and the object of a decryptor as the       *)
(* descrambler uses it: the ECMs create it, change its keys, clear or      *)
(* release it (proc_ecm() of src/b1/arib_std_b1.c), and packets are        *)
(* descrambled in between.  What encrypt() makes of a packet is what the   *)
(* broadcaster, with an object of its own, sends.  Each block's way into   *)
(* the core, each turn of the core's loop and the way back is a step.      *)
(*                                                                         *)
(* A word is the set of its bits that are 1; a block is two words.  A      *)
(* buffer is a sequence of blocks of which the last may be incomplete.     *)
(* Wrong parameters are left out: there is an object and a buffer in every *)
(* call, and a packet without payload is not descrambled.                  *)
(***************************************************************************)
EXTENDS Integers, Sequences

CONSTANTS
  W,         \* 32 in the code: bits of a word
  Round,     \* 4 in the code
  Cards,     \* system keys and first chain values of the cards
  Scrambles, \* odd and even scramble keys an ECM may bring
  Packets    \* payloads: blocks, and the number of bytes

Bit == 0 .. W - 1
Word == SUBSET Bit
Data == [l : Word, r : Word]
WorkKey == [1 .. 8 -> Word]

\* Of scr[] and wrk[].
Odd == 0
Even == 1
Card == [sys : WorkKey, cbc : Data]

\* Bytes of a block: 8 in the code.
BlockSize == W \div 4

ASSUME Multi2Assumption ==
  /\ W \in Nat \ {0} /\ W % 4 = 0 /\ Round \in Nat
  /\ Cards \subseteq Card /\ Scrambles \subseteq [{Odd, Even} -> Data]
  /\ \A b \in Packets :
       /\ b.blocks \in Seq(Data) /\ b.size \in Nat \ {0}
       /\ (Len(b.blocks) - 1) * BlockSize < b.size
       /\ b.size <= Len(b.blocks) * BlockSize

VARIABLES
  created,  \* dec->m2 is there
  m2,       \* the object
  granted,  \* history: the last ECM was purchased
  keys,     \* history: what it brought, with the card's keys it came on top of
  sealed,   \* history: type and keys the packet was scrambled with
  used,     \* history: of the call of decrypt(), the same by the last ECM
  plain,    \* history: the packet as it was
  buf, size,
  call,     \* the one under way, or the last
  pc,
  prm, turns,  \* in the call: the work key, the number of turns
  chain,    \* dst of encrypt(), cbc of decrypt()
  p,        \* the block it is at
  dst, i,   \* in the core: the data and the number of turns
  trace     \* history: the data of each block at each turn of the encryption

cipher == <<created, m2, granted, keys>>
packet == <<sealed, plain, buf, size>>
locals == <<call, pc, prm, turns, chain, p, dst, i>>
vars == <<cipher, used, packet, locals, trace>>

(***************************************************************************)
(* Arithmetic.                                                             *)
(***************************************************************************)
Xor(a, b) == (a \ b) \cup (b \ a)
Rotate(a, n) == {(k + n) % W : k \in a}

\* Does a carry come in at bit k of a + b, or of a + b + 1?
Carry(a, b, one, k) ==
  \/ \E j \in 0 .. k - 1 : j \in a \cap b /\ \A n \in j + 1 .. k - 1 : n \in a \cup b
  \/ one /\ \A n \in 0 .. k - 1 : n \in a \cup b
Add(a, b, one) == {k \in Bit : (k \in Xor(a, b)) # Carry(a, b, one, k)}

Plus(a, b) == Add(a, b, FALSE)
PlusOne(a, b) == Add(a, b, TRUE)
Minus(a, b) == Add(a, Bit \ b, TRUE)
MinusOne(a) == Plus(a, Bit)

XorData(a, b) == [l |-> Xor(a.l, b.l), r |-> Xor(a.r, b.r)]
ZeroData == [l |-> {}, r |-> {}]

(***************************************************************************)
(* The core.                                                               *)
(***************************************************************************)
F2(r, a) ==
  LET t0 == Plus(r, a)
      t1 == MinusOne(Plus(Rotate(t0, 1), t0))
  IN  Xor(Rotate(t1, 4), t1)

F3(l, a, b) ==
  LET t0 == Plus(l, a)
      t1 == PlusOne(Rotate(t0, 2), t0)
      t2 == Xor(Rotate(t1, 8), t1)
      t3 == Plus(t2, b)
      t4 == Minus(Rotate(t3, 1), t3)
  IN  Xor(Rotate(t4, 16), t4 \cup l)

F4(r, a) ==
  LET t0 == Plus(r, a)
  IN  PlusOne(Rotate(t0, 2), t0)

Pi1(d) == [l |-> d.l, r |-> Xor(d.r, d.l)]
Pi2(d, a) == [l |-> Xor(d.l, F2(d.r, a)), r |-> d.r]

\* Mutant of Pi3: the half that is changed goes into the function.
Pi3Changed(d, a, b) == [l |-> d.l, r |-> Xor(d.r, F3(d.r, a, b))]
Pi3(d, a, b) == [l |-> d.l, r |-> Xor(d.r, F3(d.l, a, b))]
Pi4(d, a) == [l |-> Xor(d.l, F4(d.r, a)), r |-> d.r]

\* core_schedule()
Schedule(sys, key) ==
  LET b2 == Pi2(Pi1(key), sys[1])
      b3 == Pi3(b2, sys[2], sys[3])
      b4 == Pi4(b3, sys[4])
      b5 == Pi1(b4)
      b6 == Pi2(b5, sys[5])
      b7 == Pi3(b6, sys[6], sys[7])
      b8 == Pi4(b7, sys[8])
      b9 == Pi1(b8)
  IN  <<b2.l, b3.r, b4.l, b5.r, b6.l, b7.r, b8.l, b9.r>>

\* One turn of core_encrypt().
Encrypted(d, w) ==
  LET half == Pi4(Pi3(Pi2(Pi1(d), w[1]), w[2], w[3]), w[4])
  IN  Pi4(Pi3(Pi2(Pi1(half), w[5]), w[6], w[7]), w[8])

\* Mutant of Decrypted: the first half's words of the work key come first.
DecryptedInOrder(d, w) ==
  LET half == Pi1(Pi2(Pi3(Pi4(d, w[4]), w[2], w[3]), w[1]))
  IN  Pi1(Pi2(Pi3(Pi4(half, w[8]), w[6], w[7]), w[5]))

\* One turn of core_decrypt().
Decrypted(d, w) ==
  LET half == Pi1(Pi2(Pi3(Pi4(d, w[8]), w[6], w[7]), w[5]))
  IN  Pi1(Pi2(Pi3(Pi4(half, w[4]), w[2], w[3]), w[1]))

(***************************************************************************)
(* The object's functions.                                                 *)
(***************************************************************************)
Created ==
  [cbc_init |-> ZeroData, sys |-> [n \in 1 .. 8 |-> {}], scr |-> [t \in {Odd, Even} |-> ZeroData],
   wrk |-> [t \in {Odd, Even} |-> [n \in 1 .. 8 |-> {}]], round |-> 4, state |-> {}]

SetRound(m, val) == [m EXCEPT !.round = val]
SetSystemKey(m, val) == [m EXCEPT !.sys = val, !.state = @ \cup {"SYSTEM_KEY"}]
SetInitCbc(m, val) == [m EXCEPT !.cbc_init = val, !.state = @ \cup {"CBC_INIT"}]

\* The work keys are made of the system key the object has at that time.
SetScrambleKey(m, val) ==
  [m EXCEPT !.scr = val, !.wrk = [t \in {Odd, Even} |-> Schedule(m.sys, val[t])],
            !.state = @ \cup {"SCRAMBLE_KEY"}]

\* Mutant of ClearScrambleKey: the state is kept.
ClearScrambleKeyNot(m) ==
  [m EXCEPT !.scr = Created.scr, !.wrk = Created.wrk]

ClearScrambleKey(m) ==
  [m EXCEPT !.scr = Created.scr, !.wrk = Created.wrk, !.state = @ \ {"SCRAMBLE_KEY"}]

AllSet(m) == m.state = {"CBC_INIT", "SYSTEM_KEY", "SCRAMBLE_KEY"}
Parity(type) == IF type = 2 THEN Even ELSE Odd

(***************************************************************************)
(* proc_ecm() of the descrambler.                                          *)
(***************************************************************************)
\* Mutant of NewCipher: the keys of the card come after those of the ECM.
NewCipherLate(m, card, scr) ==
  SetRound(SetInitCbc(SetSystemKey(SetScrambleKey(m, scr), card.sys), card.cbc), Round)

NewCipher(m, card, scr) ==
  SetScrambleKey(SetRound(SetInitCbc(SetSystemKey(m, card.sys), card.cbc), Round), scr)

NoKeys == [sys |-> Created.sys, cbc |-> ZeroData, scr |-> Created.scr]
NoPacket == [type |-> 0, sys |-> Created.sys, cbc |-> ZeroData, key |-> ZeroData]

Init ==
  /\ created = FALSE /\ m2 = Created /\ granted = FALSE /\ keys = NoKeys
  /\ sealed = NoPacket /\ used = NoPacket
  /\ plain = <<>> /\ buf = <<>> /\ size = 0
  /\ call = "none" /\ pc = "idle" /\ prm = Created.sys /\ turns = 0 /\ chain = ZeroData
  /\ p = 1 /\ dst = ZeroData /\ i = 0 /\ trace = <<>>

\* The first one creates the cipher, the others change its scramble keys.
Purchased ==
  /\ pc = "idle"
  /\ \E scr \in Scrambles :
       \/ /\ created
          /\ m2' = SetScrambleKey(m2, scr) /\ keys' = [keys EXCEPT !.scr = scr]
       \/ /\ ~created
          /\ \E card \in Cards :
               /\ m2' = NewCipher(Created, card, scr)
               /\ keys' = [sys |-> card.sys, cbc |-> card.cbc, scr |-> scr]
  /\ created' = TRUE /\ granted' = TRUE
  /\ UNCHANGED <<used, packet, locals, trace>>

\* The card has failed.
Failed ==
  /\ pc = "idle" /\ created
  /\ m2' = ClearScrambleKey(m2) /\ granted' = FALSE
  /\ UNCHANGED <<created, keys, used, packet, locals, trace>>

\* The decryptor is locked then, and asks the card no more: a cipher that is
\* created after this is the one of another decryptor.
Unpurchased ==
  /\ pc = "idle" /\ created
  /\ created' = FALSE /\ m2' = Created /\ granted' = FALSE
  /\ UNCHANGED <<keys, used, packet, locals, trace>>

(***************************************************************************)
(* encrypt() and decrypt().                                                *)
(***************************************************************************)
Start(c, m, type) ==
  /\ call' = c /\ pc' = "load" /\ p' = 1
  /\ prm' = m.wrk[Parity(type)] /\ turns' = m.round /\ chain' = m.cbc_init
  /\ UNCHANGED <<dst, i>>

\* The broadcaster scrambles a packet with transport_scrambling_control = type.
Encrypt ==
  /\ pc = "idle" /\ call = "none"
  /\ \E b \in Packets, type \in 1 .. 3, card \in Cards, scr \in Scrambles :
       /\ Start("encrypt", NewCipher(Created, card, scr), type)
       /\ sealed' = [type |-> type, sys |-> card.sys, cbc |-> card.cbc,
                     key |-> scr[Parity(type)]]
       /\ plain' = b.blocks /\ buf' = b.blocks /\ size' = b.size
  /\ UNCHANGED <<cipher, used, trace>>

\* The descrambler has received it.  Without all the keys decrypt() only returns
\* an error.
Decrypt ==
  /\ pc = "idle" /\ call = "encrypt" /\ created /\ AllSet(m2)
  /\ Start("decrypt", m2, sealed.type)
  /\ used' = [type |-> sealed.type, sys |-> keys.sys, cbc |-> keys.cbc,
              key |-> keys.scr[Parity(sealed.type)]]
  /\ UNCHANGED <<cipher, packet, trace>>

\* while(size >= 8)
Whole(q) == q * BlockSize <= size

\* What goes into the core: a block, or for the rest the last block's result.
Loaded ==
  IF ~Whole(p) THEN chain
  ELSE IF call = "encrypt" THEN XorData(buf[p], chain) ELSE buf[p]

Load ==
  /\ pc = "load" /\ p <= Len(buf)
  /\ pc' = "core" /\ dst' = Loaded /\ i' = 0
  /\ trace' = IF call = "encrypt" THEN Append(trace, <<Loaded>>) ELSE trace
  /\ UNCHANGED <<cipher, used, packet, call, prm, turns, chain, p>>

\* Mutant of Turned: the key stream of the rest is decrypted.
TurnedBack == IF call = "decrypt" THEN Decrypted(dst, prm) ELSE Encrypted(dst, prm)

\* The rest is made of a key stream, in both directions.
Turned == IF call = "decrypt" /\ Whole(p) THEN Decrypted(dst, prm) ELSE Encrypted(dst, prm)

Turn ==
  /\ pc = "core" /\ i < turns
  /\ dst' = Turned /\ i' = i + 1
  /\ trace' = IF call = "encrypt" THEN [trace EXCEPT ![p] = Append(@, Turned)] ELSE trace
  /\ UNCHANGED <<cipher, used, packet, call, pc, prm, turns, chain, p>>

\* The bits of a block that are in its first n bytes.
Head8(d, n) ==
  [l |-> {k \in d.l : W - 1 - k < 8 * n}, r |-> {k \in d.r : 2 * W - 1 - k < 8 * n}]

Stored ==
  IF ~Whole(p) THEN XorData(buf[p], Head8(dst, size - (p - 1) * BlockSize))
  ELSE IF call = "encrypt" THEN dst ELSE XorData(dst, chain)

\* The block of cipher text is what the next one is combined with.
Chained == IF ~Whole(p) THEN chain ELSE IF call = "encrypt" THEN dst ELSE buf[p]

Store ==
  /\ pc = "core" /\ i = turns
  /\ buf' = [buf EXCEPT ![p] = Stored] /\ chain' = Chained
  /\ p' = p + 1 /\ pc' = "load"
  /\ UNCHANGED <<cipher, used, sealed, plain, size, call, prm, turns, dst, i, trace>>

Return ==
  /\ pc = "load" /\ p > Len(buf)
  /\ pc' = "idle"
  /\ UNCHANGED <<cipher, used, packet, call, prm, turns, chain, p, dst, i, trace>>

\* The packet is handed on, descrambled or not.
Emit ==
  /\ pc = "idle" /\ call # "none"
  /\ call' = "none" /\ sealed' = NoPacket /\ used' = NoPacket
  /\ plain' = <<>> /\ buf' = <<>> /\ size' = 0 /\ trace' = <<>>
  /\ prm' = Created.sys /\ turns' = 0 /\ chain' = ZeroData
  /\ p' = 1 /\ dst' = ZeroData /\ i' = 0
  /\ UNCHANGED <<cipher, pc>>

Ecm == Purchased \/ Failed \/ Unpurchased
Core == Load \/ Turn \/ Store \/ Return
Next == Ecm \/ Encrypt \/ Decrypt \/ Core \/ Emit

Spec == Init /\ [][Next]_vars

(***************************************************************************)
(* Properties.                                                             *)
(***************************************************************************)
\* A packet descrambled with the keys it was scrambled with is the packet as it
\* was, whatever its length, its type and the number of turns: chaining, the
\* order of the work key and the rest that is no whole block fit together; and
\* the keys are those of the card and of the last ECM, not those the object
\* happens to hold (encrypt_multi2, decrypt_multi2, core_schedule at 414-443).
RoundTrip == call = "decrypt" /\ pc = "idle" /\ used = sealed => buf = plain

\* Nothing is descrambled with keys of an earlier ECM: a call has begun only if
\* the last ECM was purchased, and its work key is made of this ECM's scramble
\* key and the system key the object was created with (proc_ecm at
\* src/b1/arib_std_b1.c:1671-1707).
LatestKeys ==
  call = "decrypt" /\ pc # "idle" => granted /\ prm = Schedule(keys.sys, used.key)
=============================================================================
