--------------------------- MODULE SectionProofs ---------------------------
(***************************************************************************)
(* Theorems of the section parser, for every set of sections and lengths,  *)
(* every size of packet and pool and every loss, repetition and damage: no *)
(* element is in two places or counted wrongly, what begins with the       *)
(* header of a section is handed over whole or not at all, and what is     *)
(* handed over is what was accepted, in order.                             *)
(***************************************************************************)
EXTENDS SectionStream, SequenceTheorems, TLAPS

-----------------------------------------------------------------------------
(* The elements, as predicates on contents rw, counts rf, the element l    *)
(* compared with, the pool p, the ready ones b and the one got, g.         *)

Ran(f) == {f[i] : i \in DOMAIN f}
Inj(f) == \A i, j \in DOMAIN f : f[i] = f[j] => i = j
One(c) == IF c THEN 1 ELSE 0

Lists(p, b) ==
  p \in Seq(Elems) /\ b \in Seq(Elems) /\ Inj(p) /\ Inj(b) /\ Ran(p) \cap Ran(b) = {}
Refs(rf, l, b, g) ==
  \A e \in Elems : rf[e] = One(e = l) + One(e \in Ran(b)) + One(e = g)
Latest(rw, l, p, b) ==
  l # Null => l \in Elems /\ l \in Ran(p) \cup Ran(b) /\ rw[l] \in Acceptable
Waiting(rw, b) == \A e \in Ran(b) : rw[e] \in Acceptable

Core(rw, rf, l, p, b, g) ==
  /\ rw \in [Elems -> Seq(Byte)] /\ rf \in [Elems -> Int]
  /\ Lists(p, b) /\ Refs(rf, l, b, g) /\ Latest(rw, l, p, b) /\ Waiting(rw, b)

Got == IF pc = "got" THEN pool[Len(pool)] ELSE Null

\* The inductive invariant of the parser.  Beyond what the theorems state, the
\* element compared with is never one that may be taken.
ParserInv ==
  /\ Core(raw, ref, last, pool, buff, Got)
  /\ work \in Elems \cup {Null} /\ work \notin Ran(pool) \cup Ran(buff)
  /\ stat \in [{"total", "unique", "error"} -> Nat] /\ rest \in Seq(Byte)
  /\ pc \in {"idle", "abandon", "start", "put", "got"}
  /\ pc = "start" => work = Null
  /\ pc = "got" => pool # <<>>

-----------------------------------------------------------------------------
(* Lists of elements.                                                      *)

\* A list's elements, and its domain.
LEMMA RanIs ==
  ASSUME NEW f \in Seq(Elems)
  PROVE  /\ DOMAIN f = 1 .. Len(f) /\ Len(f) \in Nat /\ Ran(f) \subseteq Elems
         /\ \A e : e \in Ran(f) <=> \E i \in 1 .. Len(f) : f[i] = e
BY DEF Ran

\* An element that is not in a list is appended to it.
LEMMA Appended ==
  ASSUME NEW f \in Seq(Elems), Inj(f), NEW e \in Elems, e \notin Ran(f),
         NEW h, h = Append(f, e)
  PROVE  h \in Seq(Elems) /\ Inj(h) /\ Ran(h) = Ran(f) \cup {e} /\ h # <<>> /\ h[Len(h)] = e
<1>1. /\ h \in Seq(Elems) /\ Len(h) = Len(f) + 1 /\ h[Len(f) + 1] = e /\ Len(f) \in Nat
      /\ \A i \in 1 .. Len(f) : h[i] = f[i]
  OBVIOUS
<1>2. /\ DOMAIN h = 1 .. Len(f) + 1 /\ DOMAIN f = 1 .. Len(f)
      /\ \A x : x \in Ran(f) <=> \E i \in 1 .. Len(f) : f[i] = x
      /\ \A x : x \in Ran(h) <=> \E i \in 1 .. Len(f) + 1 : h[i] = x
  <2>1. /\ DOMAIN h = 1 .. Len(h)
        /\ \A x : x \in Ran(h) <=> \E i \in 1 .. Len(h) : h[i] = x
    BY <1>1, RanIs
  <2>2. /\ DOMAIN f = 1 .. Len(f)
        /\ \A x : x \in Ran(f) <=> \E i \in 1 .. Len(f) : f[i] = x
    BY RanIs
  <2> QED BY <1>1, <2>1, <2>2
<1>3. Ran(h) = Ran(f) \cup {e}
  <2>1. ASSUME NEW x \in Ran(h)
        PROVE  x \in Ran(f) \cup {e}
    BY <1>1, <1>2
  <2>2. ASSUME NEW x \in Ran(f)
        PROVE  x \in Ran(h)
    BY <1>1, <1>2
  <2>3. e \in Ran(h)
    BY <1>1, <1>2
  <2> QED BY <2>1, <2>2, <2>3
<1>4. ASSUME NEW i \in 1 .. Len(f) + 1, NEW j \in 1 .. Len(f) + 1, h[i] = h[j]
      PROVE  i = j
  <2>1. CASE i <= Len(f) /\ j <= Len(f)
    BY <1>1, <1>2, <1>4, <2>1 DEF Inj
  <2>2. CASE i = Len(f) + 1 /\ j <= Len(f)
    BY <1>1, <1>2, <1>4, <2>2
  <2>3. CASE i <= Len(f) /\ j = Len(f) + 1
    BY <1>1, <1>2, <1>4, <2>3
  <2> QED BY <1>1, <2>1, <2>2, <2>3
<1> QED BY <1>1, <1>2, <1>3, <1>4 DEF Inj

\* The first element of a list is taken.
LEMMA Taken ==
  ASSUME NEW f \in Seq(Elems), Inj(f), f # <<>>, NEW h, h = Tail(f)
  PROVE  h \in Seq(Elems) /\ Inj(h) /\ Ran(h) = Ran(f) \ {Head(f)} /\ Head(f) \in Ran(f)
<1>1. /\ h \in Seq(Elems) /\ Len(h) = Len(f) - 1 /\ Head(f) = f[1] /\ Len(f) \in Nat /\ Len(f) > 0
      /\ \A i \in 1 .. Len(h) : h[i] = f[i + 1] /\ i + 1 \in 1 .. Len(f)
  BY HeadTailProperties
<1>2. /\ DOMAIN h = 1 .. Len(h) /\ DOMAIN f = 1 .. Len(f)
      /\ \A x : x \in Ran(f) <=> \E i \in 1 .. Len(f) : f[i] = x
      /\ \A x : x \in Ran(h) <=> \E i \in 1 .. Len(h) : h[i] = x
  BY <1>1, RanIs
<1>3. Inj(h)
  <2>1. ASSUME NEW i \in 1 .. Len(h), NEW j \in 1 .. Len(h), h[i] = h[j]
        PROVE  i = j
    <3>1. i + 1 = j + 1
      BY <1>1, <1>2, <2>1 DEF Inj
    <3> QED BY <3>1
  <2> QED BY <1>2, <2>1 DEF Inj
<1>4. ASSUME NEW x \in Ran(h)
      PROVE  x \in Ran(f) /\ x # Head(f)
  <2>1. PICK i \in 1 .. Len(h) : h[i] = x
    BY <1>2
  <2>2. f[i + 1] = x /\ i + 1 \in 1 .. Len(f) /\ i + 1 # 1 /\ 1 \in 1 .. Len(f)
    BY <1>1, <2>1
  <2> QED BY <1>1, <1>2, <2>2 DEF Inj
<1>5. ASSUME NEW x \in Ran(f), x # Head(f)
      PROVE  x \in Ran(h)
  <2>1. PICK i \in 1 .. Len(f) : f[i] = x
    BY <1>2
  <2>2. i # 1
    BY <1>1, <1>5, <2>1
  <2>3. i - 1 \in 1 .. Len(h) /\ h[i - 1] = f[i]
    BY <1>1, <2>2
  <2> QED BY <1>2, <2>1, <2>3
<1>6. Head(f) \in Ran(f)
  BY <1>1, <1>2
<1> QED BY <1>1, <1>3, <1>4, <1>5, <1>6

\* An element is taken out of the middle of the pool.
LEMMA UnlinkedIs ==
  ASSUME pool \in Seq(Elems), Inj(pool), NEW i \in DOMAIN pool, NEW h, h = Unlinked(i)
  PROVE  h \in Seq(Elems) /\ Inj(h) /\ Ran(h) = Ran(pool) \ {pool[i]} /\ pool[i] \in Elems
<1> DEFINE f == pool
           n == Len(f)
<1>1. /\ n \in Nat /\ DOMAIN f = 1 .. n /\ i \in 1 .. n
      /\ \A x : x \in Ran(f) <=> \E k \in 1 .. n : f[k] = x
      /\ \A k \in 1 .. n : f[k] \in Elems
  BY RanIs
<1> DEFINE a == SubSeq(f, 1, i - 1)
           b == SubSeq(f, i + 1, n)
<1>2. /\ a \in Seq(Elems) /\ Len(a) = i - 1 /\ \A k \in 1 .. i - 1 : a[k] = f[k]
      /\ b \in Seq(Elems) /\ Len(b) = n - i /\ \A k \in 1 .. n - i : b[k] = f[i + k]
  <2>1. a \in Seq(Elems) /\ Len(a) = i - 1 /\ \A k \in 1 .. i - 1 : a[k] = f[k]
    <3>1. \A k \in 1 .. i - 1 : f[k] \in Elems
      BY <1>1
    <3> QED BY <1>1, <3>1, SubSeqProperties
  <2>2. /\ b \in Seq(Elems) /\ Len(b) = (IF i + 1 <= n THEN n - (i + 1) + 1 ELSE 0)
        /\ \A k \in 1 .. n - (i + 1) + 1 : b[k] = f[i + 1 + k - 1]
    <3>1. \A k \in i + 1 .. n : f[k] \in Elems
      BY <1>1
    <3>2. i + 1 \in Int /\ n \in Int
      BY <1>1
    <3> HIDE DEF n, f
    <3> QED BY <3>1, <3>2, SubSeqProperties
  <2>3. \A k \in 1 .. n - i : i + 1 + k - 1 = i + k
    BY <1>1
  <2>4. Len(b) = n - i /\ n - (i + 1) + 1 = n - i
    BY <1>1, <2>2
  <2> HIDE DEF a, b, n, f
  <2> QED BY <2>1, <2>2, <2>3, <2>4
<1>3. h = a \o b
  BY DEF Unlinked
<1> HIDE DEF a, b, n, f
<1>4. /\ h \in Seq(Elems) /\ Len(h) = n - 1
      /\ \A k \in 1 .. n - 1 : h[k] = IF k < i THEN f[k] ELSE f[k + 1]
  <2>1. /\ h \in Seq(Elems) /\ Len(h) = (i - 1) + (n - i)
        /\ \A k \in 1 .. (i - 1) + (n - i) : h[k] = IF k <= i - 1 THEN a[k] ELSE b[k - (i - 1)]
    BY <1>2, <1>3, ConcatProperties, SMTT(30)
  <2>2. ASSUME NEW k \in 1 .. n - 1
        PROVE  h[k] = IF k < i THEN f[k] ELSE f[k + 1]
    <3>1. k \in 1 .. (i - 1) + (n - i)
      BY <1>1
    <3>2. CASE k < i
      BY <1>1, <1>2, <2>1, <3>1, <3>2, SMTT(20)
    <3>3. CASE ~(k < i)
      <4>1. k - (i - 1) \in 1 .. n - i /\ i + (k - (i - 1)) = k + 1
        BY <1>1, <3>3
      <4>2. h[k] = b[k - (i - 1)]
        <5>1. ~(k <= i - 1)
          BY <1>1, <3>3
        <5>2. h[k] = IF k <= i - 1 THEN a[k] ELSE b[k - (i - 1)]
          BY <2>1, <3>1
        <5> QED BY <5>1, <5>2
      <4>3. b[k - (i - 1)] = f[k + 1]
        BY <1>2, <4>1
      <4> QED BY <3>3, <4>2, <4>3
    <3> QED BY <3>2, <3>3
  <2>3. (i - 1) + (n - i) = n - 1
    BY <1>1
  <2> QED BY <2>1, <2>2, <2>3
<1>5. /\ DOMAIN h = 1 .. n - 1 /\ \A x : x \in Ran(h) <=> \E k \in 1 .. n - 1 : h[k] = x
  BY <1>4, RanIs
<1>6. Inj(h)
  <2>1. ASSUME NEW j \in 1 .. n - 1, NEW k \in 1 .. n - 1, h[j] = h[k]
        PROVE  j = k
    <3> DEFINE J == IF j < i THEN j ELSE j + 1
               K == IF k < i THEN k ELSE k + 1
    <3>1. J \in 1 .. n /\ K \in 1 .. n /\ h[j] = f[J] /\ h[k] = f[K]
      BY <1>1, <1>4
    <3>2. J = K
      BY <1>1, <2>1, <3>1 DEF Inj, f
    <3> QED BY <1>1, <3>2
  <2> QED BY <1>5, <2>1 DEF Inj
<1>7. ASSUME NEW x \in Ran(h)
      PROVE  x \in Ran(f) /\ x # f[i]
  <2>1. PICK k \in 1 .. n - 1 : h[k] = x
    BY <1>5
  <2>2. PICK K \in 1 .. n : K # i /\ f[K] = x
    BY <1>1, <1>4, <2>1
  <2> QED BY <1>1, <2>2 DEF Inj, f
<1>8. ASSUME NEW x \in Ran(f), x # f[i]
      PROVE  x \in Ran(h)
  <2>1. PICK K \in 1 .. n : f[K] = x
    BY <1>1
  <2>2. K # i
    BY <1>8, <2>1
  <2> DEFINE k == IF K < i THEN K ELSE K - 1
  <2>3. k \in 1 .. n - 1 /\ h[k] = f[K]
    BY <1>1, <1>4, <2>2
  <2> QED BY <1>5, <2>1, <2>3
<1>9. Ran(h) = Ran(f) \ {f[i]}
  BY <1>7, <1>8
<1> QED BY <1>1, <1>4, <1>6, <1>9 DEF f

-----------------------------------------------------------------------------
(* What the operations do to the elements.                                 *)

\* An element in no list changes: nobody sees it.
Fill(rw, rf, e, bytes, rw2, rf2) ==
  rw2 = [rw EXCEPT ![e] = bytes] /\ (rf2 = rf \/ rf2 = [rf EXCEPT ![e] = 0])
Apart(rw, rf, l, p, b, g, e) == Core(rw, rf, l, p, b, g) /\ e # l

\* An element in none of the lists may be filled without disturbing the others.
LEMMA Refilled ==
  ASSUME NEW rw, NEW rf, NEW l, NEW p, NEW b, NEW g, Core(rw, rf, l, p, b, g),
         NEW e \in Elems, e \notin Ran(p) \cup Ran(b), e # g, NEW bytes \in Seq(Byte),
         NEW rw2, NEW rf2, Fill(rw, rf, e, bytes, rw2, rf2)
  PROVE  Apart(rw2, rf2, l, p, b, g, e)
<1>1. /\ rw \in [Elems -> Seq(Byte)] /\ rf \in [Elems -> Int]
      /\ Lists(p, b) /\ Refs(rf, l, b, g) /\ Latest(rw, l, p, b) /\ Waiting(rw, b)
  BY DEF Core
<1>2. e # l
  BY <1>1, ElemsAssumption DEF Latest, ElemsAssumption
<1>3. rf[e] = 0
  BY <1>1, <1>2 DEF Refs, One
<1>4. rf2 = rf /\ rw2 \in [Elems -> Seq(Byte)] /\ \A x \in Elems \ {e} : rw2[x] = rw[x]
  BY <1>1, <1>3 DEF Fill
<1>5. Ran(b) \subseteq Elems
  BY <1>1, RanIs DEF Lists
<1>6. Latest(rw2, l, p, b)
  BY <1>1, <1>2, <1>4 DEF Latest
<1>7. Waiting(rw2, b)
  BY <1>1, <1>4, <1>5 DEF Waiting
<1> QED BY <1>1, <1>2, <1>3, <1>4, <1>6, <1>7 DEF Core, Apart

\* It goes back to the pool.
LEMMA Pooled ==
  ASSUME NEW rw, NEW rf, NEW l, NEW p, NEW b, Core(rw, rf, l, p, b, Null),
         NEW e \in Elems, e \notin Ran(p) \cup Ran(b)
  PROVE  Core(rw, rf, l, Append(p, e), b, Null) /\ Ran(Append(p, e)) = Ran(p) \cup {e}
<1> DEFINE q == Append(p, e)
<1>1. /\ Lists(p, b) /\ Latest(rw, l, p, b) /\ p \in Seq(Elems) /\ Inj(p)
  BY DEF Core, Lists
<1>2. q \in Seq(Elems) /\ Inj(q) /\ Ran(q) = Ran(p) \cup {e}
  BY <1>1, Appended
<1>3. Lists(q, b) /\ Latest(rw, l, q, b)
  BY <1>1, <1>2 DEF Lists, Latest
<1> QED BY <1>2, <1>3 DEF Core

\* It is taken from the pool, nobody referring to it.
LEMMA Reused ==
  ASSUME Core(raw, ref, last, pool, buff, Null), NEW i \in Reusable
  PROVE  /\ Core(raw, ref, last, Unlinked(i), buff, Null)
         /\ pool[i] \in Elems /\ pool[i] \notin Ran(Unlinked(i)) \cup Ran(buff)
         /\ Ran(Unlinked(i)) \subseteq Ran(pool)
<1>1. /\ Lists(pool, buff) /\ Refs(ref, last, buff, Null) /\ Latest(raw, last, pool, buff)
      /\ pool \in Seq(Elems) /\ Inj(pool) /\ i \in DOMAIN pool /\ ref[pool[i]] < 1
      /\ ref \in [Elems -> Int]
  BY DEF Core, Lists, Reusable
<1> DEFINE h == Unlinked(i)
           e == pool[i]
<1>2. h \in Seq(Elems) /\ Inj(h) /\ Ran(h) = Ran(pool) \ {e} /\ e \in Elems
  BY <1>1, UnlinkedIs
<1>3. e \in Ran(pool)
  BY <1>1 DEF Ran
<1> HIDE DEF h
<1>4. e # last
  <2>1. ref[e] = One(e = last) + One(e \in Ran(buff)) + One(e = Null)
    BY <1>1, <1>2 DEF Refs
  <2> HIDE DEF e
  <2> QED BY <1>1, <2>1 DEF One, e
<1>5. Lists(h, buff) /\ Latest(raw, last, h, buff)
  BY <1>1, <1>2, <1>4 DEF Lists, Latest
<1>6. e \notin Ran(buff)
  BY <1>1, <1>3 DEF Lists
<1> QED BY <1>2, <1>5, <1>6 DEF Core, h

\* An element with a whole section is committed.
LEMMA Committed ==
  ASSUME NEW p, Core(raw, ref, last, p, buff, Null),
         NEW e \in Elems, e \notin Ran(p) \cup Ran(buff), NEW bytes \in Seq(Byte),
         bytes \in Acceptable, Commit(e, p, bytes)
  PROVE  Core(raw', ref', last', pool', buff', Null) /\ Ran(pool') \cup Ran(buff') = Ran(p) \cup Ran(buff) \cup {e}
<1>1. /\ raw \in [Elems -> Seq(Byte)] /\ ref \in [Elems -> Int]
      /\ Lists(p, buff) /\ Refs(ref, last, buff, Null) /\ Latest(raw, last, p, buff)
      /\ Waiting(raw, buff) /\ Ran(buff) \subseteq Elems
      /\ Null \notin Elems
  BY RanIs, ElemsAssumption DEF Core, Lists, ElemsAssumption
<1> DEFINE b == buff'
           r == Released(ref)
<1>2. /\ raw' = [raw EXCEPT ![e] = bytes] /\ ref' = [r EXCEPT ![e] = 2]
      /\ last' = e /\ b = Append(buff, e) /\ pool' = p
  BY DEF Commit
<1>3. b \in Seq(Elems) /\ Inj(b) /\ Ran(b) = Ran(buff) \cup {e}
  BY <1>1, <1>2, Appended DEF Lists
<1>4. /\ r \in [Elems -> Int]
      /\ \A x \in Elems : r[x] = One(x \in Ran(buff))
  <2>1. \A x \in Elems : ref[x] = One(x = last) + One(x \in Ran(buff))
    <3> SUFFICES ASSUME NEW x \in Elems
                 PROVE  ref[x] = One(x = last) + One(x \in Ran(buff))
      OBVIOUS
    <3>1. ref[x] = One(x = last) + One(x \in Ran(buff)) + One(x = Null)
      BY <1>1 DEF Refs
    <3>2. One(x = Null) = 0
      BY <1>1 DEF One
    <3>3. One(x = last) \in Nat /\ One(x \in Ran(buff)) \in Nat
      BY DEF One
    <3> QED BY <3>1, <3>2, <3>3
  <2>2. CASE last = Null
    <3>1. ASSUME NEW x \in Elems
          PROVE  ref[x] = One(x \in Ran(buff))
      <4>1. One(x = last) = 0
        BY <1>1, <2>2 DEF One
      <4>2. One(x \in Ran(buff)) \in Nat
        BY DEF One
      <4> QED BY <2>1, <4>1, <4>2
    <3> QED BY <1>1, <2>2, <3>1 DEF Released
  <2>3. CASE last # Null
    <3>1. last \in Elems
      BY <1>1, <2>3 DEF Latest
    <3>2. ref[last] > 0
      BY <2>1, <3>1 DEF One
    <3>3. r = [ref EXCEPT ![last] = ref[last] - 1]
      BY <2>3, <3>2 DEF Released
    <3> QED BY <1>1, <2>1, <3>1, <3>3 DEF One
  <2> QED BY <2>2, <2>3
<1> HIDE DEF b, r
<1>5. Lists(p, b)
  BY <1>1, <1>3 DEF Lists
<1>6. /\ ref' \in [Elems -> Int] /\ ref'[e] = 2 /\ \A x \in Elems \ {e} : ref'[x] = r[x]
      /\ raw' \in [Elems -> Seq(Byte)] /\ raw'[e] = bytes /\ \A x \in Elems \ {e} : raw'[x] = raw[x]
  BY <1>1, <1>2, <1>4
<1>7. Refs(ref', e, b, Null)
  <2>1. ASSUME NEW x \in Elems
        PROVE  ref'[x] = One(x = e) + One(x \in Ran(b)) + One(x = Null)
    <3>1. CASE x = e
      BY <1>1, <1>3, <1>6, <3>1 DEF One
    <3>2. CASE x # e
      BY <1>1, <1>3, <1>4, <1>6, <3>2 DEF One
    <3> QED BY <3>1, <3>2
  <2> QED BY <2>1 DEF Refs
<1>8. Latest(raw', e, p, b)
  BY <1>3, <1>6 DEF Latest
<1>9. Waiting(raw', b)
  BY <1>1, <1>3, <1>6 DEF Waiting
<1> QED BY <1>2, <1>3, <1>5, <1>6, <1>7, <1>8, <1>9 DEF Core, b

-----------------------------------------------------------------------------
(* What the operations do to the channel of accepted sections.             *)

\* A section is accepted, handed over, or nothing happens to them.
Passes == [Channel!Next]_(Channel!vars)

\* The operation changes nothing that was accepted.
LEMMA NothingPasses ==
  ASSUME last' = last, buff' = buff, buff \in Seq(Elems), last \in Elems \cup {Null},
         \A e \in Ran(buff) : raw'[e] = raw[e], last # Null => raw'[last] = raw[last]
  PROVE  Passes
<1>1. \A i \in DOMAIN buff : raw'[buff[i]] = raw[buff[i]]
  BY DEF Ran
<1> QED BY <1>1 DEF Passes, Channel!vars

\* A section is accepted.
LEMMA Accepted ==
  ASSUME NEW p, Core(raw, ref, last, p, buff, Null),
         NEW e \in Elems, e \notin Ran(p) \cup Ran(buff), NEW bytes \in Seq(Byte),
         bytes \in Acceptable, ~Same(bytes), Commit(e, p, bytes)
  PROVE  Passes
<1>1. /\ buff \in Seq(Elems) /\ raw \in [Elems -> Seq(Byte)] /\ Null \notin Elems
  BY ElemsAssumption DEF Core, Lists, ElemsAssumption
<1>2. raw' = [raw EXCEPT ![e] = bytes] /\ last' = e /\ buff' = Append(buff, e)
  BY DEF Commit
<1> DEFINE newest == IF last = Null THEN Null ELSE raw[last]
           back(rw, b) == [i \in DOMAIN b |-> rw[b[i]]]
<1>3. bytes \in Acceptable /\ bytes # newest
  BY NullAssumption DEF Same, NullAssumption
<1>4. (IF last' = Null THEN Null ELSE raw'[last']) = bytes
  BY <1>1, <1>2
<1>5. back(raw', buff') = Append(back(raw, buff), bytes)
  <2> DEFINE B == back(raw, buff)
             B2 == back(raw', buff')
             n == Len(buff)
  <2>1. /\ n \in Nat /\ DOMAIN buff = 1 .. n /\ buff' \in Seq(Elems) /\ DOMAIN buff' = 1 .. n + 1
        /\ \A i \in 1 .. n : buff'[i] = buff[i] /\ buff[i] # e
        /\ buff'[n + 1] = e
    BY <1>1, <1>2 DEF Ran
  <2>2. B \in Seq(Seq(Byte)) /\ Len(B) = n /\ \A i \in 1 .. n : B[i] = raw[buff[i]]
    BY <1>1, <2>1
  <2>3. B2 \in Seq(Seq(Byte)) /\ Len(B2) = n + 1 /\ \A i \in 1 .. n + 1 : B2[i] = raw'[buff'[i]]
    BY <1>1, <1>2, <2>1
  <2>4. \A i \in 1 .. n : B2[i] = B[i]
    BY <1>1, <1>2, <2>1, <2>2, <2>3
  <2>5. B2[n + 1] = bytes
    BY <1>1, <1>2, <2>1, <2>3
  <2> HIDE DEF B, B2, n
  <2>6. /\ Append(B, bytes) \in Seq(Seq(Byte)) /\ Len(Append(B, bytes)) = n + 1
        /\ Append(B, bytes)[n + 1] = bytes /\ \A i \in 1 .. n : Append(B, bytes)[i] = B[i]
    BY <2>2
  <2>7. \A i \in 1 .. n + 1 : B2[i] = Append(B, bytes)[i]
    BY <2>1, <2>4, <2>5, <2>6
  <2>8. B2 = Append(B, bytes)
    <3> DEFINE A == Append(B, bytes)
    <3>1. A \in Seq(Seq(Byte)) /\ Len(A) = Len(B2) /\ \A i \in 1 .. Len(B2) : B2[i] = A[i]
      BY <2>3, <2>6, <2>7
    <3> HIDE DEF A
    <3>2. B2 = A
      BY <2>3, <3>1, SeqEqual
    <3> QED BY <3>2 DEF A
  <2> QED BY <2>8 DEF B, B2
<1> HIDE DEF newest, back
<1>6. Channel!Accept
  BY <1>3, <1>4, <1>5 DEF Channel!Accept, newest, back
<1> QED BY <1>6 DEF Passes, Channel!Next

\* A section is handed over.
LEMMA HandedOver ==
  ASSUME buff \in Seq(Elems), raw \in [Elems -> Seq(Byte)], buff # <<>>,
         buff' = Tail(buff), raw' = raw, last' = last
  PROVE  Passes
<1> DEFINE B == [i \in DOMAIN buff |-> raw[buff[i]]]
           B2 == [i \in DOMAIN buff' |-> raw'[buff'[i]]]
<1>1. /\ buff' \in Seq(Elems) /\ Len(buff') = Len(buff) - 1 /\ Len(buff) \in Nat /\ Len(buff) > 0
      /\ DOMAIN buff = 1 .. Len(buff) /\ DOMAIN buff' = 1 .. Len(buff')
      /\ \A i \in 1 .. Len(buff') : buff'[i] = buff[i + 1]
  BY HeadTailProperties
<1>2. B \in Seq(Seq(Byte)) /\ Len(B) = Len(buff) /\ \A i \in 1 .. Len(buff) : B[i] = raw[buff[i]]
  BY <1>1
<1>3. B2 \in Seq(Seq(Byte)) /\ Len(B2) = Len(buff') /\ \A i \in 1 .. Len(buff') : B2[i] = raw[buff'[i]]
  BY <1>1
<1> HIDE DEF B, B2
<1>4. /\ B # <<>> /\ Tail(B) \in Seq(Seq(Byte)) /\ Len(Tail(B)) = Len(B) - 1
      /\ \A i \in 1 .. Len(Tail(B)) : Tail(B)[i] = B[i + 1]
  <2>1. B # <<>>
    BY <1>1, <1>2
  <2> QED BY <1>2, <2>1, HeadTailProperties
<1>5. B2 = Tail(B)
  <2> DEFINE A == Tail(B)
  <2>1. A \in Seq(Seq(Byte)) /\ Len(A) = Len(B2) /\ \A i \in 1 .. Len(B2) : B2[i] = A[i]
    BY <1>1, <1>2, <1>3, <1>4
  <2> HIDE DEF A
  <2>2. B2 = A
    BY <1>3, <2>1, SeqEqual
  <2> QED BY <2>2 DEF A
<1>6. Channel!Get
  BY <1>4, <1>5 DEF Channel!Get, B, B2
<1> QED BY <1>6 DEF Passes, Channel!Next

-----------------------------------------------------------------------------
(* The steps of the parser.                                                *)

Stat == [{"total", "unique", "error"} -> Nat]

\* The statistics keep their type.
LEMMA Counted ==
  ASSUME stat \in Stat, NEW fields, Count(fields)
  PROVE  stat' \in Stat
BY DEF Stat, Count

\* The lists are those of p and the element e.
Moved(p, e) ==
  /\ Core(raw', ref', last', pool', buff', Null)
  /\ Ran(pool') \cup Ran(buff') = Ran(p) \cup Ran(buff) \cup {e}
  /\ stat' \in Stat /\ Passes

\* An element is given back to the pool.
LEMMA Cancelled ==
  ASSUME NEW p, Core(raw, ref, last, p, buff, Null), stat \in Stat,
         NEW e \in Elems, e \notin Ran(p) \cup Ran(buff), NEW fields, Cancel(e, p, fields)
  PROVE  Moved(p, e)
<1>1. /\ raw' = [raw EXCEPT ![e] = <<>>] /\ ref' = [ref EXCEPT ![e] = 0] /\ pool' = Append(p, e)
      /\ last' = last /\ buff' = buff /\ stat' \in Stat
  BY Counted DEF Cancel
<1>2. <<>> \in Seq(Byte) /\ e # Null
  BY ElemsAssumption DEF ElemsAssumption
<1> DEFINE w == raw'
           r == ref'
<1>3. Fill(raw, ref, e, <<>>, w, r)
  BY <1>1 DEF Fill
<1> HIDE DEF w, r
<1>4. Core(w, r, last, p, buff, Null) /\ e # last
  <2>1. Apart(w, r, last, p, buff, Null, e)
    BY <1>2, <1>3, Refilled
  <2> QED BY <2>1 DEF Apart
<1>5. Core(w, r, last, Append(p, e), buff, Null) /\ Ran(Append(p, e)) = Ran(p) \cup {e}
  BY <1>4, Pooled
<1>6. /\ buff \in Seq(Elems) /\ last \in Elems \cup {Null}
      /\ raw \in [Elems -> Seq(Byte)] /\ Ran(buff) \subseteq Elems
  BY RanIs DEF Core, Lists, Latest
<1>7. \A x \in Elems \ {e} : raw'[x] = raw[x]
  BY <1>1, <1>6
<1>8. Passes
  <2>1. \A x \in Ran(buff) : raw'[x] = raw[x]
    BY <1>6, <1>7
  <2>2. last # Null => raw'[last] = raw[last]
    BY <1>4, <1>6, <1>7
  <2> QED BY <1>1, <1>6, <2>1, <2>2, NothingPasses
<1> QED BY <1>1, <1>5, <1>8 DEF Moved, w, r

\* What the bytes of a header may say.
LEMMA HeaderIs ==
  ASSUME NEW bytes \in Seq(Byte), Len(bytes) >= HeaderParts
  PROVE  /\ Header(bytes) \in [long : BOOLEAN, total : {n \in Nat : n >= HeaderParts}]
         /\ Wanted(bytes) \in Nat /\ Wanted(bytes) >= HeaderParts
<1> DEFINE h == [i \in 1 .. HeaderParts |-> bytes[i]]
<1>1. HeaderParts \in Nat /\ Len(bytes) \in Nat
  BY LengthAssumption DEF LengthAssumption
<1>2. \A i \in 1 .. HeaderParts : bytes[i] \in Byte
  BY <1>1
<1>3. h \in [1 .. HeaderParts -> Byte]
  BY <1>2
<1> HIDE DEF h
<1>4. Says[h] \in [long : BOOLEAN, total : {n \in Nat : n >= HeaderParts}]
  BY <1>3, HeaderAssumption DEF HeaderAssumption
<1>5. Header(bytes) = Says[h]
  BY DEF Header, h
<1> QED BY <1>4, <1>5 DEF Wanted

\* What append_section_data() leaves of complete bytes: as many as the header says.
LEMMA JoinedIs ==
  ASSUME NEW all \in Seq(Byte), Complete(all), NEW c, c = Joined(all)
  PROVE  /\ c \in Seq(Byte) /\ Len(c) = Wanted(c) /\ Len(c) >= HeaderParts
         /\ Len(c) = Wanted(all) /\ Len(c) <= Len(all)
         /\ \A i \in 1 .. Len(c) : c[i] = all[i]
<1>1. HeaderParts \in Nat /\ Len(all) \in Nat /\ Len(all) >= HeaderParts
  BY LengthAssumption DEF LengthAssumption, Complete, HeaderKnown
<1> DEFINE n == Wanted(all)
<1>2. n \in Nat /\ n >= HeaderParts /\ n <= Len(all) /\ c = SubSeq(all, 1, n)
  BY <1>1, HeaderIs DEF Complete, Joined
<1> HIDE DEF n
<1>3. \A i \in 1 .. n : all[i] \in Byte
  BY <1>1, <1>2
<1>4. /\ c \in Seq(Byte) /\ Len(c) = (IF 1 <= n THEN n - 1 + 1 ELSE 0)
      /\ \A i \in 1 .. n - 1 + 1 : c[i] = all[1 + i - 1]
  BY <1>2, <1>3, SubSeqProperties
<1>5. Len(c) = n /\ \A i \in 1 .. n : c[i] = all[i]
  BY <1>2, <1>4
<1>6. [i \in 1 .. HeaderParts |-> c[i]] = [i \in 1 .. HeaderParts |-> all[i]]
  BY <1>1, <1>2, <1>5
<1>7. Wanted(c) = n
  BY <1>6 DEF Wanted, Header, n
<1> QED BY <1>2, <1>4, <1>5, <1>7 DEF n

\* As many bytes as their header says.
AsLong(bytes) == bytes \in Seq(Byte) /\ Len(bytes) >= HeaderParts /\ Len(bytes) = Wanted(bytes)

\* A complete element is cancelled or committed; both keep the books.
LEMMA Settled ==
  ASSUME NEW p, Core(raw, ref, last, p, buff, Null), stat \in Stat,
         NEW e \in Elems, e \notin Ran(p) \cup Ran(buff),
         NEW bytes, AsLong(bytes), Settle(e, p, bytes)
  PROVE  Moved(p, e)
<1>1. CASE \E fields : Cancel(e, p, fields)
  BY <1>1, Cancelled
<1>2. CASE Sound(bytes) /\ ~Same(bytes) /\ Commit(e, p, bytes)
  <2>1. bytes \in Acceptable /\ bytes \in Seq(Byte)
    BY <1>2 DEF AsLong, Acceptable
  <2>2. /\ Core(raw', ref', last', pool', buff', Null)
        /\ Ran(pool') \cup Ran(buff') = Ran(p) \cup Ran(buff) \cup {e}
    BY <1>2, <2>1, Committed
  <2>3. Passes
    BY <1>2, <2>1, Accepted
  <2>4. stat' \in Stat
    BY <1>2, Counted DEF Commit
  <2> QED BY <2>2, <2>3, <2>4 DEF Moved
<1> QED BY <1>1, <1>2 DEF Settle

\* The invariant without what depends on where the call stands.
Kept ==
  /\ Core(raw, ref, last, pool, buff, Null)
  /\ work \in Elems \cup {Null} /\ work \notin Ran(pool) \cup Ran(buff)
  /\ stat \in Stat

\* Outside get and ret no element is in the caller's hand.
LEMMA KeptHolds ==
  ASSUME ParserInv, pc # "got"
  PROVE  Kept
<1>1. Got = Null
  BY DEF Got
<1> QED BY <1>1 DEF ParserInv, Kept, Stat

\* What a step of put has to show of the state it leaves.
LEMMA KeptEnough ==
  ASSUME Kept', rest' \in Seq(Byte), pc' \in {"idle", "abandon", "start", "put"},
         pc' = "start" => work' = Null
  PROVE  ParserInv'
<1>1. Got' = Null
  BY DEF Got
<1> QED BY <1>1 DEF ParserInv, Kept, Stat

\* A step that leaves the elements alone.
LEMMA Untouched ==
  ASSUME Kept, UNCHANGED <<raw, ref, work, last, pool, buff, stat>>
  PROVE  Kept' /\ Passes
<1>1. Kept'
  BY DEF Kept
<1>2. buff \in Seq(Elems) /\ last \in Elems \cup {Null}
  BY DEF Kept, Core, Lists, Latest
<1>3. Passes
  BY <1>2, NothingPasses
<1> QED BY <1>1, <1>3

\* put, first part: the section under way grows, and is settled when complete.
LEMMA StepContinue ==
  ASSUME Kept, NEW data \in Seq(Byte), Continue(data)
  PROVE  Kept' /\ Passes
<1>1. CASE ~InProgress
  BY <1>1, Untouched DEF Continue
<1>2. CASE InProgress
  <2> DEFINE bytes == raw[work] \o data
             joined == Joined(bytes)
  <2>1. /\ work \in Elems /\ work # Null /\ raw[work] \in Seq(Byte)
        /\ Core(raw, ref, last, pool, buff, Null) /\ stat \in Stat
        /\ work \notin Ran(pool) \cup Ran(buff)
    BY <1>2 DEF Kept, InProgress, Core
  <2>2. bytes \in Seq(Byte)
    <3> DEFINE a == raw[work]
    <3>1. a \in Seq(Byte)
      BY <2>1
    <3> HIDE DEF a
    <3>2. a \o data \in Seq(Byte)
      BY <3>1
    <3> QED BY <3>2 DEF a
  <2>3. \/ /\ raw' = [raw EXCEPT ![work] = bytes]
           /\ UNCHANGED <<ref, work, last, pool, buff, stat>>
        \/ Complete(bytes) /\ work' = Null /\ Settle(work, pool, joined)
    BY <1>2 DEF Continue
  <2> HIDE DEF bytes, joined
  <2>4. Complete(bytes) => AsLong(joined)
    BY <2>2, JoinedIs DEF AsLong, joined
  <2>5. CASE /\ raw' = [raw EXCEPT ![work] = bytes]
             /\ UNCHANGED <<ref, work, last, pool, buff, stat>>
    <3>1. Fill(raw, ref, work, bytes, raw', ref)
      BY <2>5 DEF Fill
    <3> DEFINE w == raw'
               e == work
    <3>2. /\ Fill(raw, ref, e, bytes, w, ref) /\ e \in Elems /\ e \notin Ran(pool) \cup Ran(buff)
          /\ e # Null
      BY <2>1, <3>1
    <3> HIDE DEF w, e
    <3>3. Apart(w, ref, last, pool, buff, Null, e)
      BY <2>1, <2>2, <3>2, Refilled
    <3>4. /\ raw' [work] = bytes /\ \A x \in Elems \ {work} : raw'[x] = raw[x]
      BY <2>1, <2>5 DEF Core
    <3>5. Kept'
      BY <2>1, <2>5, <3>3, <3>4 DEF Kept, Apart, w, e
    <3>6. /\ buff \in Seq(Elems) /\ last \in Elems \cup {Null} /\ work # last
          /\ Ran(buff) \subseteq Elems
      BY <2>1, <3>3, RanIs DEF Apart, Core, Lists, Latest, e
    <3>7. Passes
      <4>1. \A x \in Ran(buff) : raw'[x] = raw[x]
        BY <2>1, <3>4, <3>6
      <4>2. last # Null => raw'[last] = raw[last]
        BY <3>4, <3>6
      <4> QED BY <2>5, <3>6, <4>1, <4>2, NothingPasses
    <3> QED BY <3>5, <3>7
  <2>6. CASE Complete(bytes) /\ work' = Null /\ Settle(work, pool, joined)
    <3>1. Moved(pool, work)
      BY <2>1, <2>4, <2>6, Settled
    <3>2. Ran(pool') \cup Ran(buff') \subseteq Elems
      BY <3>1, RanIs DEF Moved, Core, Lists
    <3> QED BY <2>6, <3>1, <3>2, ElemsAssumption DEF Moved, Kept, ElemsAssumption
  <2> QED BY <2>3, <2>5, <2>6
<1> QED BY <1>1, <1>2

\* put, at the pointer: a section that did not end there is given up.
LEMMA StepAbandon ==
  ASSUME Kept, Abandon
  PROVE  Kept' /\ work' = Null /\ Passes
<1>1. CASE work = Null /\ UNCHANGED <<raw, ref, last, pool, buff, stat>>
  BY <1>1, Untouched DEF Abandon
<1>2. CASE work # Null /\ \E fields : Cancel(work, pool, fields)
  <2>1. /\ work \in Elems /\ work \notin Ran(pool) \cup Ran(buff)
        /\ Core(raw, ref, last, pool, buff, Null) /\ stat \in Stat
    BY <1>2 DEF Kept
  <2>2. Moved(pool, work)
    BY <1>2, <2>1, Cancelled
  <2>3. Ran(pool') \cup Ran(buff') \subseteq Elems
    BY <2>2, RanIs DEF Moved, Core, Lists
  <2>4. work' = Null
    BY DEF Abandon
  <2> QED BY <2>2, <2>3, <2>4, ElemsAssumption DEF Moved, Kept, ElemsAssumption
<1> QED BY <1>1, <1>2 DEF Abandon

\* A section is started in an element that is in no list any more.
LEMMA StepStartIn ==
  ASSUME NEW p, Core(raw, ref, last, p, buff, Null), stat \in Stat, work = Null,
         NEW e \in Elems, e \notin Ran(p) \cup Ran(buff),
         rest \in Seq(Byte), StartIn(e, p)
  PROVE  /\ Kept' /\ Passes /\ rest' \in Seq(Byte)
         /\ pc' = "put" \/ (pc' = "start" /\ work' = Null)
<1> DEFINE bytes == Joined(rest)
           beyond == SubSeq(rest, Len(bytes) + 1, Len(rest))
<1>1. \/ /\ raw' = [raw EXCEPT ![e] = rest] /\ ref' = [ref EXCEPT ![e] = 0]
         /\ work' = e /\ pool' = p /\ rest' = <<>> /\ pc' = "put"
         /\ UNCHANGED <<last, buff, stat>>
      \/ /\ Complete(rest) /\ Settle(e, p, bytes) /\ rest' = beyond /\ work' = work
         /\ pc' \in {"start", "put"}
  BY DEF StartIn
<1>2. Complete(rest) => AsLong(bytes) /\ Len(bytes) \in Nat
  <2>1. ASSUME Complete(rest)
        PROVE  bytes \in Seq(Byte) /\ Len(bytes) = Wanted(bytes) /\ Len(bytes) >= HeaderParts
    BY <2>1, JoinedIs
  <2> HIDE DEF bytes
  <2> QED BY <2>1 DEF AsLong
<1>3. Complete(rest) => beyond \in Seq(Byte)
  <2> DEFINE n == Len(rest)
             k == Len(bytes) + 1
  <2>1. ASSUME Complete(rest)
        PROVE  n \in Int /\ k \in Int /\ \A i \in k .. n : rest[i] \in Byte
    BY <1>2, <2>1
  <2> HIDE DEF n, k
  <2>2. Complete(rest) => SubSeq(rest, k, n) \in Seq(Byte)
    BY <2>1, SubSeqProperties
  <2> QED BY <2>2 DEF n, k
<1> HIDE DEF bytes, beyond
<1>4. CASE /\ raw' = [raw EXCEPT ![e] = rest] /\ ref' = [ref EXCEPT ![e] = 0]
           /\ work' = e /\ pool' = p /\ rest' = <<>> /\ pc' = "put"
           /\ UNCHANGED <<last, buff, stat>>
  <2> DEFINE w == raw'
             r == ref'
  <2>1. Fill(raw, ref, e, rest, w, r) /\ e # Null
    BY <1>4, ElemsAssumption DEF Fill, ElemsAssumption
  <2> HIDE DEF w, r
  <2>2. Apart(w, r, last, p, buff, Null, e)
    BY <2>1, Refilled
  <2>3. raw'[e] = rest /\ \A x \in Elems \ {e} : raw'[x] = raw[x]
    BY <1>4 DEF Core
  <2>4. Kept'
    BY <1>4, <2>2, <2>3 DEF Kept, Apart, w, r
  <2>5. /\ buff \in Seq(Elems) /\ last \in Elems \cup {Null} /\ e # last
        /\ Ran(buff) \subseteq Elems
    BY <2>2, RanIs DEF Apart, Core, Lists, Latest
  <2>6. Passes
    <3>1. \A x \in Ran(buff) : raw'[x] = raw[x]
      BY <2>3, <2>5
    <3>2. last # Null => raw'[last] = raw[last]
      BY <2>3, <2>5
    <3> QED BY <1>4, <2>5, <3>1, <3>2, NothingPasses
  <2>7. rest' \in Seq(Byte)
    BY <1>4
  <2> QED BY <1>4, <2>4, <2>6, <2>7
<1>5. CASE /\ Complete(rest) /\ Settle(e, p, bytes) /\ rest' = beyond /\ work' = work
           /\ pc' \in {"start", "put"}
  <2>1. Moved(p, e)
    BY <1>2, <1>5, Settled
  <2>2. Ran(pool') \cup Ran(buff') \subseteq Elems
    BY <2>1, RanIs DEF Moved, Core, Lists
  <2>3. Kept' /\ Passes
    BY <1>5, <2>1, <2>2, ElemsAssumption DEF Moved, Kept, ElemsAssumption
  <2> QED BY <1>3, <1>5, <2>3
<1> QED BY <1>1, <1>4, <1>5

\* What put_ts_section_parser() is given.
PacketOK(k) == k.start \in BOOLEAN /\ k.pointer \in Nat /\ k.bytes \in Seq(Byte)

\* A put of a packet.
LEMMA StepPut ==
  ASSUME ParserInv, NEW k, PacketOK(k), Put(k)
  PROVE  ParserInv' /\ Passes
<1>1. /\ pc = "idle" /\ Kept /\ rest \in Seq(Byte)
      /\ k.start \in BOOLEAN /\ k.pointer \in Nat /\ k.bytes \in Seq(Byte)
  BY KeptHolds DEF ParserInv, Put, PutExclude, PutBroken, PutInclude, PacketOK
<1>2. CASE PutExclude(k)
  <2>1. Kept' /\ Passes
    BY <1>1, <1>2, StepContinue DEF PutExclude
  <2> QED BY <1>1, <1>2, <2>1, KeptEnough DEF PutExclude
<1>3. CASE PutBroken(k)
  <2>1. Kept' /\ Passes
    BY <1>1, <1>3, StepAbandon DEF PutBroken
  <2> QED BY <1>1, <1>3, <2>1, KeptEnough DEF PutBroken
<1>4. CASE PutInclude(k)
  <2> DEFINE bytes == k.bytes
             n == Len(bytes)
             a == k.pointer
             b == SubSeq(bytes, a + 1, n)
  <2>1. /\ a \in Nat /\ a < n /\ n \in Nat /\ bytes \in Seq(Byte)
        /\ rest' = b /\ pc' = "abandon"
    BY <1>1, <1>4 DEF PutInclude
  <2> HIDE DEF n
  <2>2. \A i \in 1 .. n : bytes[i] \in Byte
    BY <2>1 DEF n
  <2>3. b \in Seq(Byte)
    <3> DEFINE m == a + 1
    <3>1. m \in Int /\ n \in Int /\ m <= n /\ \A i \in m .. n : bytes[i] \in Byte
      BY <2>1, <2>2
    <3> HIDE DEF m
    <3>2. SubSeq(bytes, m, n) \in Seq(Byte)
      BY <3>1, SubSeqProperties
    <3> QED BY <3>2 DEF m
  <2>4. SubSeq(bytes, 1, a) \in Seq(Byte)
    <3>1. \A i \in 1 .. a : bytes[i] \in Byte
      BY <2>1, <2>2
    <3> QED BY <2>1, <3>1, SubSeqProperties
  <2>5. CASE a > 0 /\ Continue(SubSeq(bytes, 1, a))
    <3>1. Kept' /\ Passes
      BY <1>1, <2>4, <2>5, StepContinue
    <3> QED BY <2>1, <2>3, <3>1, KeptEnough
  <2>6. CASE UNCHANGED <<raw, ref, work, last, pool, buff, stat>>
    <3>1. Kept' /\ Passes
      BY <1>1, <2>6, Untouched
    <3> QED BY <2>1, <2>3, <3>1, KeptEnough
  <2> QED BY <1>4, <2>5, <2>6 DEF PutInclude
<1> QED BY <1>2, <1>3, <1>4 DEF Put

\* put, behind the pointer: one turn of the loop over the sections that start.
LEMMA StepStart ==
  ASSUME ParserInv, PutStart
  PROVE  ParserInv' /\ Passes
<1>1. /\ Kept /\ work = Null /\ rest \in Seq(Byte) /\ stat \in Stat
      /\ Core(raw, ref, last, pool, buff, Null)
  BY KeptHolds DEF ParserInv, PutStart, Kept
<1>2. ASSUME NEW p, NEW e \in Elems, Core(raw, ref, last, p, buff, Null),
             e \notin Ran(p) \cup Ran(buff), StartIn(e, p)
      PROVE  /\ Kept' /\ Passes /\ rest' \in Seq(Byte)
             /\ pc' = "put" \/ (pc' = "start" /\ work' = Null)
  BY <1>1, <1>2, StepStartIn
<1>3. /\ Kept' /\ Passes /\ rest' \in Seq(Byte)
      /\ pc' = "put" \/ (pc' = "start" /\ work' = Null)
  <2>1. CASE \E i \in Reusable : StartIn(pool[i], Unlinked(i))
    <3>1. PICK i \in Reusable : StartIn(pool[i], Unlinked(i))
      BY <2>1
    <3> DEFINE p == Unlinked(i)
               e == pool[i]
    <3>2. /\ Core(raw, ref, last, p, buff, Null)
          /\ e \in Elems /\ e \notin Ran(p) \cup Ran(buff) /\ StartIn(e, p)
      BY <1>1, <3>1, Reused
    <3> HIDE DEF p, e
    <3> QED BY <1>2, <3>2
  <2>2. CASE \E e \in Fresh : StartIn(e, pool)
    <3>1. PICK e \in Fresh : StartIn(e, pool)
      BY <2>2
    <3>2. e \in Elems /\ e \notin Ran(pool) \cup Ran(buff)
      BY DEF Fresh, InUse, Ran
    <3> QED BY <1>1, <1>2, <3>1, <3>2
  <2> QED BY <2>1, <2>2 DEF PutStart
<1> QED BY <1>3, KeptEnough

\* A section is handed out.
LEMMA StepGet ==
  ASSUME ParserInv, Get
  PROVE  ParserInv' /\ Passes
<1>1. /\ pc = "put" /\ pc' = "got" /\ buff # <<>> /\ pool' = Append(pool, Head(buff)) /\ buff' = Tail(buff)
      /\ UNCHANGED <<raw, ref, work, last, stat, rest>>
      /\ Kept /\ rest \in Seq(Byte)
      /\ Core(raw, ref, last, pool, buff, Null)
  BY KeptHolds DEF ParserInv, Get, Kept
<1> DEFINE e == Head(buff)
           q == pool'
           b == buff'
<1>2. /\ raw \in [Elems -> Seq(Byte)] /\ ref \in [Elems -> Int]
      /\ Lists(pool, buff) /\ Refs(ref, last, buff, Null) /\ Latest(raw, last, pool, buff)
      /\ Waiting(raw, buff) /\ pool \in Seq(Elems) /\ buff \in Seq(Elems)
      /\ Inj(pool) /\ Inj(buff) /\ Ran(pool) \cap Ran(buff) = {} /\ Ran(buff) \subseteq Elems
  BY <1>1, RanIs DEF Core, Lists
<1>3. b \in Seq(Elems) /\ Inj(b) /\ Ran(b) = Ran(buff) \ {e} /\ e \in Ran(buff)
  BY <1>1, <1>2, Taken
<1>4. q \in Seq(Elems) /\ Inj(q) /\ Ran(q) = Ran(pool) \cup {e} /\ q # <<>> /\ q[Len(q)] = e
  <2>1. e \in Elems /\ e \notin Ran(pool) /\ q = Append(pool, e)
    BY <1>1, <1>2, <1>3
  <2> HIDE DEF e, q
  <2> QED BY <1>2, <2>1, Appended
<1> HIDE DEF e, q, b
<1>5. Lists(q, b) /\ Latest(raw, last, q, b) /\ Waiting(raw, b)
  BY <1>2, <1>3, <1>4 DEF Lists, Latest, Waiting
<1>6. Refs(ref, last, b, e)
  <2>1. ASSUME NEW x \in Elems
        PROVE  ref[x] = One(x = last) + One(x \in Ran(b)) + One(x = e)
    <3>1. ref[x] = One(x = last) + One(x \in Ran(buff)) + One(x = Null) /\ One(x = last) \in Nat
      BY <1>2 DEF Refs, One
    <3>2. One(x = Null) = 0
      BY ElemsAssumption DEF One, ElemsAssumption
    <3>3. CASE x = e
      <4>1. One(x \in Ran(buff)) = 1 /\ One(x \in Ran(b)) = 0 /\ One(x = e) = 1
        BY <1>3, <3>3 DEF One
      <4> QED BY <3>1, <3>2, <4>1
    <3>4. CASE x # e
      <4>1. One(x = e) = 0
        BY <3>4 DEF One
      <4>2. One(x \in Ran(b)) = One(x \in Ran(buff)) /\ One(x \in Ran(b)) \in Nat
        BY <1>3, <3>4 DEF One
      <4> QED BY <3>1, <3>2, <4>1, <4>2
    <3> QED BY <3>3, <3>4
  <2> QED BY <2>1 DEF Refs
<1>7. Core(raw, ref, last, q, b, e)
  BY <1>2, <1>5, <1>6 DEF Core
<1>8. Got' = e
  BY <1>1, <1>4 DEF Got, q
<1>9. work \in Elems \cup {Null} /\ work \notin Ran(q) \cup Ran(b)
  BY <1>1, <1>3, <1>4 DEF Kept
<1>10. Passes
  BY <1>1, <1>2, HandedOver
<1> QED BY <1>1, <1>4, <1>7, <1>8, <1>9, <1>10 DEF ParserInv, Kept, Stat, q, b

\* A section is given back; its element is free when nothing uses it.
LEMMA StepRet ==
  ASSUME ParserInv, Ret
  PROVE  ParserInv' /\ Passes
<1> DEFINE e == pool[Len(pool)]
           r == ref'
<1>1. /\ pc = "got" /\ pc' = "idle" /\ pool # <<>>
      /\ Core(raw, ref, last, pool, buff, e)
      /\ r = (IF ref[e] > 0 THEN [ref EXCEPT ![e] = ref[e] - 1] ELSE ref)
      /\ UNCHANGED <<raw, work, last, pool, buff, stat, rest>>
  BY DEF ParserInv, Ret, Got
<1>2. /\ raw \in [Elems -> Seq(Byte)] /\ ref \in [Elems -> Int]
      /\ Lists(pool, buff) /\ Refs(ref, last, buff, e) /\ Latest(raw, last, pool, buff)
      /\ Waiting(raw, buff) /\ pool \in Seq(Elems) /\ buff \in Seq(Elems)
  BY <1>1 DEF Core, Lists
<1>3. e \in Elems
  BY <1>1, <1>2
<1> HIDE DEF e, r
<1>4. \A x \in Elems : /\ ref[x] = One(x = last) + One(x \in Ran(buff)) + One(x = e)
                       /\ One(x = last) \in Nat /\ One(x \in Ran(buff)) \in Nat
  BY <1>2 DEF Refs, One
<1>5. One(e = e) = 1
  BY DEF One
<1>6. ref[e] > 0
  BY <1>3, <1>4, <1>5
<1>7. r \in [Elems -> Int] /\ r[e] = ref[e] - 1 /\ \A x \in Elems \ {e} : r[x] = ref[x]
  BY <1>1, <1>2, <1>3, <1>6
<1>8. Refs(r, last, buff, Null)
  <2>1. ASSUME NEW x \in Elems
        PROVE  r[x] = One(x = last) + One(x \in Ran(buff)) + One(x = Null)
    <3>1. One(x = Null) = 0
      BY ElemsAssumption DEF One, ElemsAssumption
    <3>2. CASE x = e
      BY <1>3, <1>4, <1>5, <1>7, <3>1, <3>2
    <3>3. CASE x # e
      <4>1. One(x = e) = 0
        BY <3>3 DEF One
      <4> QED BY <1>4, <1>7, <3>1, <3>3, <4>1
    <3> QED BY <3>2, <3>3
  <2> QED BY <2>1 DEF Refs
<1>9. Core(raw, r, last, pool, buff, Null)
  BY <1>2, <1>7, <1>8 DEF Core
<1>10. Kept'
  BY <1>1, <1>9 DEF Kept, ParserInv, Stat, r
<1>11. Passes
  BY <1>1, <1>2, NothingPasses DEF Latest
<1> QED BY <1>1, <1>10, <1>11, KeptEnough DEF ParserInv

\* Every step of the parser by itself.
LEMMA StepParse ==
  ASSUME ParserInv, Parse
  PROVE  ParserInv' /\ Passes
<1>1. CASE PutAbandon
  <2>1. Kept /\ pc' = "start" /\ rest' = rest /\ rest \in Seq(Byte)
    BY <1>1, KeptHolds DEF PutAbandon, ParserInv
  <2>2. Kept' /\ work' = Null /\ Passes
    BY <1>1, <2>1, StepAbandon DEF PutAbandon
  <2> QED BY <2>1, <2>2, KeptEnough
<1>2. CASE NothingToGet
  <2>1. Kept /\ pc' = "idle" /\ rest' = rest /\ rest \in Seq(Byte)
    BY <1>2, KeptHolds DEF NothingToGet, ParserInv
  <2>2. Kept' /\ Passes
    BY <1>2, <2>1, Untouched DEF NothingToGet
  <2> QED BY <2>1, <2>2, KeptEnough
<1> QED BY <1>1, <1>2, StepStart, StepGet, StepRet DEF Parse

-----------------------------------------------------------------------------
(* The packets of the broadcaster.                                         *)

\* What the assumptions say of the packets.
LEMMA Consts ==
  /\ Room \in Nat /\ Room > 1 /\ MaxPackets \in Nat /\ MaxDamaged \in Nat
  /\ \A s \in Sections : Length[s] \in Nat /\ Length[s] > 0
BY RoomAssumption, LengthAssumption DEF RoomAssumption, LengthAssumption

\* The bytes of a section.
LEMMA BytesAre ==
  ASSUME NEW s \in Sections
  PROVE  /\ Bytes(s) \in Seq(Byte) /\ Len(Bytes(s)) = Length[s]
         /\ Bytes(s)[1][1] = s /\ \A i \in 1 .. Length[s] : Bytes(s)[i] = <<s, i>>
<1>1. Length[s] \in Nat /\ 1 \in 1 .. Length[s]
  BY Consts
<1>2. \A i \in 1 .. Length[s] : Bytes(s)[i] = <<s, i>> /\ Bytes(s)[i] \in Byte
  BY DEF Bytes, Byte
<1>3. Bytes(s) = [i \in 1 .. Length[s] |-> Bytes(s)[i]]
  BY DEF Bytes
<1>4. Bytes(s) \in [1 .. Length[s] -> Byte]
  BY <1>2, <1>3
<1>5. Bytes(s) \in Seq(Byte) /\ Len(Bytes(s)) = Length[s]
  BY <1>1, <1>4
<1> QED BY <1>1, <1>2, <1>5

\* A packet filled up with stuffing.
LEMMA FilledIs ==
  ASSUME NEW bytes \in Seq(Byte), NEW room \in Nat
  PROVE  /\ Filled(bytes, room) \in Seq(Byte) /\ Len(Filled(bytes, room)) = room
         /\ \A i \in 1 .. room : i <= Len(bytes) => Filled(bytes, room)[i] = bytes[i]
<1>1. Stuffing \in Byte
  BY DEF Byte
<1>2. Filled(bytes, room) \in [1 .. room -> Byte]
  BY <1>1 DEF Filled
<1>3. \A i \in 1 .. room : i <= Len(bytes) => Filled(bytes, room)[i] = bytes[i]
  BY DEF Filled
<1> QED BY <1>2, <1>3

\* What is still to be sent, and how far it is sent.
SentOK(s, n) ==
  /\ s \in Sections \cup {Null} /\ n \in Nat
  /\ s # Null => n \in 1 .. Length[s] - 1

\* The bytes of a section not yet sent.
LEMMA RemainderIs ==
  ASSUME SentOK(sending, sent)
  PROVE  /\ Remainder \in Seq(Byte)
         /\ sending # Null => Len(Remainder) = Length[sending] - sent
<1>1. CASE sending = Null
  BY <1>1 DEF Remainder
<1>2. CASE sending # Null
  <2> DEFINE bytes == Bytes(sending)
             m == sent + 1
             n == Length[sending]
  <2>1. sending \in Sections /\ sent \in 1 .. n - 1 /\ n \in Nat
    BY <1>2, Consts DEF SentOK
  <2>2. bytes \in Seq(Byte) /\ Len(bytes) = n
    BY <2>1, BytesAre
  <2>3. m \in Int /\ n \in Int /\ m <= n /\ n - m + 1 = n - sent
    BY <2>1
  <2>4. Remainder = SubSeq(bytes, m, n)
    BY <1>2 DEF Remainder
  <2> HIDE DEF bytes, m, n
  <2>5. \A i \in m .. n : bytes[i] \in Byte
    <3>1. 1 <= m
      BY <2>1 DEF m
    <3> QED BY <2>2, <2>3, <3>1
  <2>6. /\ SubSeq(bytes, m, n) \in Seq(Byte)
        /\ Len(SubSeq(bytes, m, n)) = IF m <= n THEN n - m + 1 ELSE 0
    BY <2>3, <2>5, SubSeqProperties
  <2> QED BY <2>3, <2>4, <2>6 DEF n
<1> QED BY <1>1, <1>2

\* A cut the broadcaster may make.
CutOK(c) ==
  /\ c.packet \in [start : BOOLEAN, pointer : Nat, bytes : Seq(Byte)]
  /\ PacketOK(c.packet) /\ Len(c.packet.bytes) > 0 /\ Len(c.packet.bytes) <= Room
  /\ c.completes \in Seq(Sections) /\ SentOK(c.sending, c.sent)

\* A packet that only goes on with a section.
LEMMA ContinuationOK ==
  ASSUME SentOK(sending, sent), sending # Null
  PROVE  CutOK(Continuation)
<1> DEFINE c == Continuation
           ends == Len(Remainder) <= Room
<1>1. /\ Room \in Nat /\ Room > 0 /\ sending \in Sections /\ Length[sending] \in Nat /\ sent \in Nat /\ sent > 0
  BY Consts DEF SentOK
<1>2. /\ c.packet = [start |-> FALSE, pointer |-> 0, bytes |-> Filled(Remainder, Room)]
      /\ c.completes = (IF ends THEN Ended ELSE <<>>)
      /\ c.sending = (IF ends THEN Null ELSE sending)
      /\ c.sent = (IF ends THEN 0 ELSE sent + Room)
  BY DEF Continuation
<1>3. Remainder \in Seq(Byte) /\ Len(Remainder) = Length[sending] - sent
  BY RemainderIs
<1>4. Filled(Remainder, Room) \in Seq(Byte) /\ Len(Filled(Remainder, Room)) = Room
  BY <1>1, <1>3, FilledIs
<1>5. c.completes \in Seq(Sections)
  BY <1>1, <1>2 DEF Ended
<1>6. SentOK(c.sending, c.sent)
  <2>1. CASE ends
    BY <1>2, <2>1 DEF SentOK
  <2>2. CASE ~ends
    <3>1. sent + Room \in 1 .. Length[sending] - 1
      BY <1>1, <1>3, <2>2
    <3> QED BY <1>1, <1>2, <2>2, <3>1 DEF SentOK
  <2> QED BY <2>1, <2>2
<1> HIDE DEF c, ends
<1>7. /\ c.packet.start = FALSE /\ c.packet.pointer = 0
      /\ c.packet.bytes = Filled(Remainder, Room)
  BY <1>2
<1>8. PacketOK(c.packet)
  <2> DEFINE k == c.packet
  <2>1. k.start = FALSE /\ k.pointer = 0 /\ k.bytes \in Seq(Byte)
    BY <1>4, <1>7
  <2> HIDE DEF k
  <2>2. k.start \in BOOLEAN /\ ~k.start
    BY <2>1
  <2>3. PacketOK(k)
    BY <2>1, <2>2 DEF PacketOK
  <2> QED BY <2>3 DEF k
<1>9. c.packet \in [start : BOOLEAN, pointer : Nat, bytes : Seq(Byte)]
  BY <1>2, <1>4
<1>10. Len(c.packet.bytes) = Room /\ Len(c.packet.bytes) > 0
  BY <1>1, <1>4, <1>7
<1> QED BY <1>5, <1>6, <1>8, <1>9, <1>10 DEF CutOK, c

\* A packet in which a section starts.
LEMMA StartOK ==
  ASSUME SentOK(sending, sent), NEW before \in {<<>>} \cup {Bytes(t) : t \in Sections},
         NEW s \in Sections,
         Start(before, s).sending = Null \/ Start(before, s).sent > 0
  PROVE  CutOK(Start(before, s))
<1> DEFINE c == Start(before, s)
           r == Remainder
           ahead == Remainder \o before
           all == ahead \o Bytes(s)
           ends == Len(ahead) + Length[s] <= Room - 1
           f == Filled(all, Room - 1)
<1>1. /\ Room \in Nat /\ Room > 1 /\ Length[s] \in Nat /\ Length[s] > 0 /\ Room - 1 \in Nat
  BY Consts
<1>2. /\ c.packet = [start |-> TRUE, pointer |-> Len(r), bytes |-> f]
      /\ c.completes = Ended \o (IF before = <<>> THEN <<>> ELSE <<before[1][1]>>)
                           \o (IF ends THEN <<s>> ELSE <<>>)
      /\ c.sending = (IF ends THEN Null ELSE s)
      /\ c.sent = (IF ends THEN 0 ELSE Room - 1 - Len(ahead))
  BY DEF Start
<1>3. r \in Seq(Byte)
  BY RemainderIs
<1>4. /\ before \in Seq(Byte)
      /\ before # <<>> => before[1][1] \in Sections
  <2>1. CASE before = <<>>
    BY <2>1
  <2>2. CASE \E t \in Sections : before = Bytes(t)
    BY <2>2, BytesAre, Consts
  <2> QED BY <2>1, <2>2
<1>5. Bytes(s) \in Seq(Byte) /\ Len(Bytes(s)) = Length[s]
  BY BytesAre
<1> HIDE DEF r
<1>6. ahead \in Seq(Byte) /\ Len(ahead) = Len(r) + Len(before) /\ Len(r) \in Nat /\ Len(before) \in Nat
  BY <1>3, <1>4 DEF r
<1> HIDE DEF ahead
<1>7. all \in Seq(Byte)
  <2> DEFINE tail == Bytes(s)
  <2>1. tail \in Seq(Byte)
    BY <1>5
  <2> HIDE DEF tail
  <2>2. ahead \o tail \in Seq(Byte)
    BY <1>6, <2>1
  <2> QED BY <2>2 DEF tail
<1> HIDE DEF all
<1>8. f \in Seq(Byte) /\ Len(f) = Room - 1
  BY <1>1, <1>7, FilledIs
<1> HIDE DEF f
<1>9. c.completes \in Seq(Sections)
  <2> DEFINE x == Ended
             y == IF before = <<>> THEN <<>> ELSE <<before[1][1]>>
             z == IF ends THEN <<s>> ELSE <<>>
  <2>1. x \in Seq(Sections)
    BY DEF Ended, SentOK
  <2>2. y \in Seq(Sections)
    BY <1>4
  <2>3. z \in Seq(Sections)
    OBVIOUS
  <2>4. c.completes = x \o y \o z
    BY <1>2
  <2> HIDE DEF x, y, z, c
  <2> QED BY <2>1, <2>2, <2>3, <2>4
<1>10. SentOK(c.sending, c.sent)
  <2>1. CASE ends
    BY <1>2, <2>1 DEF SentOK
  <2>2. CASE ~ends
    <3>1. c.sending = s /\ c.sent = Room - 1 - Len(ahead)
      BY <1>2, <2>2
    <3>2. s # Null /\ ~(Start(before, s).sending = Null)
      BY <3>1, NullAssumption DEF NullAssumption
    <3>3. Room - 1 - Len(ahead) > 0
      BY <3>1, <3>2
    <3>4. Room - 1 - Len(ahead) \in 1 .. Length[s] - 1
      BY <1>1, <1>6, <2>2, <3>3
    <3> HIDE DEF c
    <3> QED BY <3>1, <3>4 DEF SentOK
  <2> QED BY <2>1, <2>2
<1> HIDE DEF c, ends
<1>11. c.packet.start = TRUE /\ c.packet.pointer = Len(r) /\ c.packet.bytes = f
  BY <1>2
<1>12. PacketOK(c.packet)
  BY <1>6, <1>8, <1>11 DEF PacketOK
<1>13. c.packet \in [start : BOOLEAN, pointer : Nat, bytes : Seq(Byte)]
  BY <1>2, <1>6, <1>8
<1> QED BY <1>1, <1>8, <1>9, <1>10, <1>11, <1>12, <1>13 DEF CutOK, c

\* Every packet the broadcaster may send is one the parser can be given.
LEMMA CutsOK ==
  ASSUME SentOK(sending, sent), NEW c \in Cuts
  PROVE  CutOK(c)
<1>1. CASE c \in (IF sending = Null THEN {} ELSE {Continuation})
  BY <1>1, ContinuationOK
<1>2. CASE \E before \in {<<>>} \cup {Bytes(t) : t \in Sections}, s \in Sections :
             c = Start(before, s) /\ (c.sending = Null \/ c.sent > 0)
  <2>1. PICK before \in {<<>>} \cup {Bytes(t) : t \in Sections}, s \in Sections :
               c = Start(before, s) /\ (c.sending = Null \/ c.sent > 0)
    BY <1>2
  <2> QED BY <2>1, StartOK
<1> QED BY <1>1, <1>2 DEF Cuts

-----------------------------------------------------------------------------
(* The inductive invariant of the parser and its stream.                   *)

StreamInv ==
  /\ SentOK(sending, sent) /\ PacketOK(packet)
  /\ packets \in 0 .. MaxPackets /\ damaged \in 0 .. MaxDamaged
  /\ clean \in BOOLEAN /\ (sending = Null => clean) /\ due \in Seq(Sections)

IInv == ParserInv /\ StreamInv

\* What a packet sent leaves the broadcaster with.
LEMMA StepSend ==
  ASSUME StreamInv, NEW c, CutOK(c), Send(c)
  PROVE  SentOK(sending', sent') /\ packets' \in 0 .. MaxPackets /\ sending' = c.sending
<1>1. packets \in 0 .. MaxPackets /\ packets < MaxPackets /\ MaxPackets \in Nat
  BY Consts DEF StreamInv, Send
<1> QED BY <1>1 DEF Send, CutOK

\* A packet arrives.
LEMMA StepReceive ==
  ASSUME IInv, NEW c, CutOK(c), Receive(c)
  PROVE  IInv' /\ Passes
<1>1. ParserInv /\ StreamInv /\ PacketOK(c.packet) /\ Put(c.packet) /\ c.completes \in Seq(Sections)
  BY DEF IInv, CutOK, Receive
<1>2. ParserInv' /\ Passes
  BY <1>1, StepPut
<1>3. SentOK(sending', sent') /\ packets' \in 0 .. MaxPackets /\ sending' = c.sending
  BY <1>1, StepSend DEF Receive
<1>4. due' \in Seq(Sections)
  <2> DEFINE d == c.completes
  <2>1. d \in Seq(Sections) /\ (due' = d \/ (d # <<>> /\ due' = Tail(d)))
    BY <1>1 DEF Receive
  <2> HIDE DEF d
  <2> QED BY <2>1
<1>5. clean' \in BOOLEAN /\ (sending' = Null => clean')
  BY <1>3 DEF Receive, Fresher
<1>6. PacketOK(packet') /\ damaged' \in 0 .. MaxDamaged
  BY <1>1 DEF Receive, StreamInv
<1> QED BY <1>2, <1>3, <1>4, <1>5, <1>6 DEF IInv, StreamInv

\* A packet is lost.
LEMMA StepLose ==
  ASSUME IInv, NEW c, CutOK(c), Lose(c)
  PROVE  IInv' /\ Passes
<1>1. /\ ParserInv /\ StreamInv
      /\ UNCHANGED <<raw, ref, work, last, pool, buff, stat, rest, pc, packet, damaged>>
  BY DEF IInv, Lose
<1>2. ParserInv'
  BY <1>1 DEF ParserInv, Got
<1>3. Passes
  <2>1. Kept
    BY <1>1, KeptHolds DEF ParserInv, Lose, Send
  <2> QED BY <1>1, <2>1, Untouched
<1>4. SentOK(sending', sent') /\ packets' \in 0 .. MaxPackets /\ sending' = c.sending
  BY <1>1, StepSend DEF Lose
<1>5. /\ due' = <<>> /\ clean' = (c.sending = Null) /\ PacketOK(packet')
      /\ damaged' \in 0 .. MaxDamaged
  BY <1>1 DEF Lose, StreamInv
<1>6. clean' \in BOOLEAN /\ (sending' = Null => clean')
  BY <1>4, <1>5
<1>7. due' \in Seq(Sections)
  BY <1>5
<1> QED BY <1>2, <1>3, <1>4, <1>5, <1>6, <1>7 DEF IInv, StreamInv

\* A damaged packet is still one the parser can be given.
LEMMA DamagedOK ==
  ASSUME NEW c, CutOK(c), NEW q \in Damaged(c.packet)
  PROVE  PacketOK(q)
<1> DEFINE k == c.packet
<1>1. k \in [start : BOOLEAN, pointer : Nat, bytes : Seq(Byte)] /\ Len(k.bytes) > 0
  BY DEF CutOK
<1>2. q \in {[Flagged(k) EXCEPT !.pointer = n] : n \in 0 .. Room}
             \cup {[k EXCEPT !.bytes[i] = x] : i \in 1 .. Len(k.bytes), x \in Noise}
  BY DEF Damaged
<1> HIDE DEF k
<1>3. CASE \E n \in 0 .. Room : q = [Flagged(k) EXCEPT !.pointer = n]
  <2> DEFINE g == Flagged(k)
  <2>1. PICK n \in 0 .. Room : q = [g EXCEPT !.pointer = n]
    BY <1>3
  <2>2. g \in [start : BOOLEAN, pointer : Nat, bytes : Seq(Byte)]
    <3>1. CASE k.start
      BY <1>1, <3>1 DEF Flagged
    <3>2. CASE ~k.start
      <4> DEFINE b == Tail(k.bytes)
      <4>1. b \in Seq(Byte)
        <5>1. k.bytes \in Seq(Byte) /\ k.bytes # <<>>
          BY <1>1
        <5> QED BY <5>1
      <4> HIDE DEF b
      <4>2. g = [start |-> TRUE, pointer |-> 0, bytes |-> b]
        BY <3>2 DEF Flagged, b
      <4> QED BY <4>1, <4>2
    <3> QED BY <3>1, <3>2
  <2> HIDE DEF g
  <2>3. q.start = g.start /\ q.pointer = n /\ q.bytes = g.bytes /\ n \in Nat
    BY <2>1, <2>2, Consts
  <2> QED BY <2>2, <2>3 DEF PacketOK
<1>4. CASE \E i \in 1 .. Len(k.bytes), x \in Noise : q = [k EXCEPT !.bytes[i] = x]
  <2>1. PICK i \in 1 .. Len(k.bytes), x \in Noise : q = [k EXCEPT !.bytes[i] = x]
    BY <1>4
  <2> DEFINE b == [k.bytes EXCEPT ![i] = x]
  <2>2. x \in Byte
    BY DEF Byte
  <2>3. b \in Seq(Byte)
    BY <1>1, <2>2
  <2>4. q = [k EXCEPT !.bytes = b]
    BY <2>1
  <2> HIDE DEF b
  <2>5. q.start = k.start /\ q.pointer = k.pointer /\ q.bytes = b
    BY <1>1, <2>4
  <2> QED BY <1>1, <2>3, <2>5 DEF PacketOK
<1> QED BY <1>2, <1>3, <1>4

\* A packet arrives damaged.
LEMMA StepDamaged ==
  ASSUME IInv, NEW c, CutOK(c), ReceiveDamaged(c)
  PROVE  IInv' /\ Passes
<1>1. ParserInv /\ StreamInv /\ Put(packet') /\ PacketOK(packet')
  BY DamagedOK DEF IInv, ReceiveDamaged
<1>2. ParserInv' /\ Passes
  BY <1>1, StepPut
<1>3. SentOK(sending', sent') /\ packets' \in 0 .. MaxPackets /\ sending' = c.sending
  BY <1>1, StepSend DEF ReceiveDamaged
<1>4. damaged' \in 0 .. MaxDamaged
  <2>1. damaged \in 0 .. MaxDamaged /\ damaged < MaxDamaged /\ damaged' = damaged + 1 /\ MaxDamaged \in Nat
    BY <1>1, Consts DEF ReceiveDamaged, StreamInv
  <2> QED BY <2>1
<1>5. clean' \in BOOLEAN /\ (sending' = Null => clean') /\ due' = <<>>
  BY <1>3 DEF ReceiveDamaged
<1>6. due' \in Seq(Sections)
  BY <1>5
<1> QED BY <1>1, <1>2, <1>3, <1>4, <1>5, <1>6 DEF IInv, StreamInv

\* The packet of a new PAT is put again.
LEMMA StepRepeat ==
  ASSUME IInv, Repeat
  PROVE  IInv' /\ Passes
<1>1. /\ ParserInv /\ StreamInv /\ PacketOK(packet) /\ Put(packet)
      /\ UNCHANGED <<sending, sent, packet, damaged>>
  BY DEF IInv, StreamInv, Repeat
<1>2. ParserInv' /\ Passes
  BY <1>1, StepPut
<1>3. packets' \in 0 .. MaxPackets
  BY <1>1, Consts DEF StreamInv, Repeat
<1>4. clean' \in BOOLEAN /\ (sending' = Null => clean') /\ due' = <<>>
  BY <1>1 DEF Repeat, StreamInv
<1>5. due' \in Seq(Sections)
  BY <1>4
<1>6. SentOK(sending', sent') /\ PacketOK(packet') /\ damaged' \in 0 .. MaxDamaged
  BY <1>1 DEF StreamInv
<1> QED BY <1>2, <1>3, <1>4, <1>5, <1>6 DEF IInv, StreamInv

\* The initial states.
LEMMA Start0 ==
  ASSUME Init
  PROVE  IInv /\ Channel!Init
<1>1. /\ raw = [e \in Elems |-> <<>>] /\ ref = [e \in Elems |-> 0]
      /\ work = Null /\ last = Null /\ pool = <<>> /\ buff = <<>>
      /\ stat = [total |-> 0, unique |-> 0, error |-> 0]
      /\ rest = <<>> /\ pc = "idle"
      /\ sending = Null /\ sent = 0 /\ packets = 0 /\ damaged = 0
      /\ packet = [start |-> FALSE, pointer |-> 0, bytes |-> <<>>]
      /\ clean = TRUE /\ due = <<>>
  BY DEF Init, ParserInit
<1>2. raw \in [Elems -> Seq(Byte)] /\ ref \in [Elems -> Int]
  BY <1>1
<1>3. /\ pool \in Seq(Elems) /\ buff \in Seq(Elems)
      /\ Ran(pool) = {} /\ Ran(buff) = {} /\ Inj(pool) /\ Inj(buff)
  BY <1>1 DEF Ran, Inj
<1>4. Refs(ref, last, buff, Null)
  <2>1. ASSUME NEW e \in Elems
        PROVE  ref[e] = One(e = last) + One(e \in Ran(buff)) + One(e = Null)
    <3>1. One(e = last) = 0 /\ One(e \in Ran(buff)) = 0 /\ One(e = Null) = 0
      BY <1>1, <1>3, ElemsAssumption DEF One, ElemsAssumption
    <3> QED BY <1>1, <3>1
  <2> QED BY <2>1 DEF Refs
<1>5. Core(raw, ref, last, pool, buff, Null)
  BY <1>1, <1>2, <1>3, <1>4 DEF Core, Lists, Latest, Waiting
<1>6. stat \in [{"total", "unique", "error"} -> Nat]
  BY <1>1
<1>7. rest \in Seq(Byte) /\ due \in Seq(Sections)
  BY <1>1
<1>8. ParserInv
  BY <1>1, <1>3, <1>5, <1>6, <1>7 DEF ParserInv, Got
<1>9. PacketOK(packet)
  <2>1. packet.start = FALSE /\ packet.pointer = 0 /\ packet.bytes = <<>>
    BY <1>1
  <2>2. packet.bytes \in Seq(Byte) /\ packet.pointer \in Nat
    BY <2>1
  <2>3. packet.start \in BOOLEAN /\ ~packet.start
    BY <2>1, Zenon
  <2> QED BY <2>2, <2>3 DEF PacketOK
<1>10. SentOK(sending, sent) /\ packets \in 0 .. MaxPackets /\ damaged \in 0 .. MaxDamaged
  BY <1>1, Consts DEF SentOK
<1>11. Channel!Init
  BY <1>1, <1>3 DEF Channel!Init
<1> QED BY <1>1, <1>7, <1>8, <1>9, <1>10, <1>11 DEF IInv, StreamInv

\* Every step of the parser and its stream.
LEMMA StepAny ==
  ASSUME IInv, [Next]_vars
  PROVE  IInv' /\ Passes
<1>1. CASE Broadcast
  <2>1. PICK c \in Cuts : Receive(c) \/ Lose(c) \/ ReceiveDamaged(c)
    BY <1>1 DEF Broadcast
  <2>2. CutOK(c)
    BY CutsOK DEF IInv, StreamInv
  <2> QED BY <2>1, <2>2, StepReceive, StepLose, StepDamaged
<1>2. CASE Repeat
  BY <1>2, StepRepeat
<1>3. CASE Parse /\ UNCHANGED streamVars
  <2>1. ParserInv' /\ Passes
    BY <1>3, StepParse DEF IInv
  <2>2. StreamInv'
    BY <1>3 DEF IInv, StreamInv, streamVars
  <2> QED BY <2>1, <2>2 DEF IInv
<1>4. CASE UNCHANGED vars
  <2>1. IInv'
    BY <1>4 DEF IInv, ParserInv, StreamInv, Got, vars
  <2>2. Passes
    BY <1>4 DEF vars, Passes, Channel!vars
  <2> QED BY <2>1, <2>2
<1> QED BY <1>1, <1>2, <1>3, <1>4 DEF Next, Done

-----------------------------------------------------------------------------
(* The theorems.                                                           *)

\* Every reachable state satisfies the inductive invariant.
THEOREM Inductive == Spec => []IInv
<1>1. Init => IInv
  BY Start0
<1>2. IInv /\ [Next]_vars => IInv'
  BY StepAny
<1> QED BY <1>1, <1>2, PTL DEF Spec

\* The parser's memory and the broadcaster's position are of their types; no
\* element is ever referred to more than twice (src/b1/ts_section_parser.c:24-35).
THEOREM Types == Spec => []TypeOK
<1>1. IInv => TypeOK
  <2> SUFFICES ASSUME IInv PROVE TypeOK
    OBVIOUS
  <2>1. /\ Core(raw, ref, last, pool, buff, Got) /\ ParserInv /\ StreamInv
    BY DEF IInv, ParserInv
  <2>2. ref \in [Elems -> 0 .. 2]
    <3>1. /\ ref \in [Elems -> Int] /\ Lists(pool, buff) /\ Refs(ref, last, buff, Got)
          /\ pool \in Seq(Elems) /\ Ran(pool) \cap Ran(buff) = {}
      BY <2>1 DEF Core, Lists
    <3>2. Got = Null \/ Got \in Ran(pool)
      <4>1. pool # <<>> => Len(pool) \in DOMAIN pool
        BY <3>1
      <4> QED BY <2>1, <4>1 DEF Got, ParserInv, Ran
    <3>3. ASSUME NEW e \in Elems
          PROVE  ref[e] \in 0 .. 2
      <4>1. ref[e] = One(e = last) + One(e \in Ran(buff)) + One(e = Got)
        BY <3>1 DEF Refs
      <4>2. One(e = last) \in 0 .. 1 /\ One(e \in Ran(buff)) \in 0 .. 1 /\ One(e = Got) \in 0 .. 1
        BY DEF One
      <4>3. One(e \in Ran(buff)) = 0 \/ One(e = Got) = 0
        <5>1. e # Null
          BY ElemsAssumption DEF ElemsAssumption
        <5> QED BY <3>1, <3>2, <5>1 DEF One
      <4> QED BY <4>1, <4>2, <4>3
    <3> QED BY <3>1, <3>3
  <2>3. ParserTypeOK
    BY <2>1, <2>2 DEF ParserTypeOK, ParserInv, Core, Lists, Latest
  <2> QED BY <2>1, <2>3 DEF TypeOK, StreamInv, SentOK
<1> QED BY <1>1, Inductive, PTL

\* Every allocated element is in one place: being filled, free or ready
\* (the list operations at src/b1/ts_section_parser.c:622-703).
THEOREM OnePlace == Spec => []InOnePlace
<1>1. IInv => InOnePlace
  <2> SUFFICES ASSUME IInv PROVE InOnePlace
    OBVIOUS
  <2>1. /\ Inj(pool) /\ Inj(buff) /\ Ran(pool) \cap Ran(buff) = {}
        /\ work \notin Ran(pool) \cup Ran(buff)
    BY DEF IInv, ParserInv, Core, Lists
  <2>2. (\A i \in DOMAIN pool : pool[i] \in Ran(pool)) /\ (\A j \in DOMAIN buff : buff[j] \in Ran(buff))
    BY DEF Ran
  <2>3. \A i, j \in DOMAIN pool : pool[i] = pool[j] => i = j
    BY <2>1 DEF Inj
  <2>4. \A i, j \in DOMAIN buff : buff[i] = buff[j] => i = j
    BY <2>1 DEF Inj
  <2>5. \A i \in DOMAIN pool, j \in DOMAIN buff : pool[i] # buff[j]
    BY <2>1, <2>2
  <2>6. (\A i \in DOMAIN pool : pool[i] # work) /\ (\A j \in DOMAIN buff : buff[j] # work)
    BY <2>1, <2>2
  <2> QED BY <2>3, <2>4, <2>5, <2>6 DEF InOnePlace
<1> QED BY <1>1, Inductive, PTL

\* The count of an element is the number of its remaining uses
\* (commit_elem_updated at src/b1/ts_section_parser.c:512, ret at 201).
THEOREM CountedUses == Spec => []RefsAreUses
<1>1. IInv => RefsAreUses
  <2> SUFFICES ASSUME IInv PROVE RefsAreUses
    OBVIOUS
  <2>1. Refs(ref, last, buff, Got)
    BY DEF IInv, ParserInv, Core
  <2>2. ASSUME NEW e \in Elems
        PROVE  /\ One(e = last) = (IF e = last THEN 1 ELSE 0)
               /\ One(e \in Ran(buff)) = (IF \E j \in DOMAIN buff : buff[j] = e THEN 1 ELSE 0)
               /\ One(e = Got) = (IF pc = "got" /\ e = pool[Len(pool)] THEN 1 ELSE 0)
    <3>1. e # Null
      BY ElemsAssumption DEF ElemsAssumption
    <3>2. One(e = last) = (IF e = last THEN 1 ELSE 0)
      BY DEF One
    <3>3. One(e \in Ran(buff)) = (IF \E j \in DOMAIN buff : buff[j] = e THEN 1 ELSE 0)
      BY DEF One, Ran
    <3>4. One(e = Got) = (IF pc = "got" /\ e = pool[Len(pool)] THEN 1 ELSE 0)
      BY <3>1 DEF One, Got
    <3> QED BY <3>2, <3>3, <3>4
  <2> QED BY <2>1, <2>2 DEF Refs, RefsAreUses
<1> QED BY <1>1, Inductive, PTL

\* The header of a section says how long it is, and that it has a CRC.
LEMMA HeaderOf ==
  ASSUME NEW s \in Sections, NEW bytes, \A i \in 1 .. HeaderParts : bytes[i] = <<s, i>>
  PROVE  Header(bytes).long = TRUE /\ Wanted(bytes) = Length[s]
<1>1. [i \in 1 .. HeaderParts |-> bytes[i]] = [i \in 1 .. HeaderParts |-> <<s, i>>]
  OBVIOUS
<1>2. Header(bytes) = [long |-> TRUE, total |-> Length[s]]
  BY <1>1, HeaderAssumption DEF Header, HeaderAssumption
<1> QED BY <1>2 DEF Wanted

\* The first parts of bytes that begin like a section.
LEMMA BeginsLike ==
  ASSUME NEW bytes \in Seq(Byte), Len(bytes) >= HeaderParts, NEW s \in Sections,
         SubSeq(bytes, 1, HeaderParts) = SubSeq(Bytes(s), 1, HeaderParts)
  PROVE  \A i \in 1 .. HeaderParts : bytes[i] = <<s, i>>
<1> DEFINE h == HeaderParts
           b == Bytes(s)
<1>1. h \in Nat /\ Length[s] \in Nat /\ Length[s] >= h
  BY LengthAssumption DEF LengthAssumption
<1>2. b \in Seq(Byte) /\ Len(b) = Length[s] /\ \A i \in 1 .. Length[s] : b[i] = <<s, i>>
  BY BytesAre
<1>3. SubSeq(bytes, 1, h) = SubSeq(b, 1, h) /\ Len(bytes) >= h
  OBVIOUS
<1> HIDE DEF h, b
<1>4. ASSUME NEW x \in Seq(Byte), Len(x) >= h
      PROVE  \A i \in 1 .. h : SubSeq(x, 1, h)[i] = x[i]
  <2>1. \A i \in 1 .. h : x[i] \in Byte
    BY <1>1, <1>4
  <2>2. \A i \in 1 .. h - 1 + 1 : SubSeq(x, 1, h)[i] = x[1 + i - 1]
    BY <1>1, <2>1, SubSeqProperties
  <2> QED BY <1>1, <2>2
<1>5. ASSUME NEW i \in 1 .. h
      PROVE  bytes[i] = <<s, i>>
  <2>1. SubSeq(bytes, 1, h)[i] = bytes[i] /\ SubSeq(b, 1, h)[i] = b[i]
    BY <1>1, <1>2, <1>3, <1>4
  <2>2. b[i] = <<s, i>>
    BY <1>1, <1>2
  <2> QED BY <1>3, <2>1, <2>2
<1> QED BY <1>5 DEF h

\* What is acceptable and begins with the header of a section is that section,
\* for its header says that there is a CRC.
LEMMA AcceptableIs ==
  ASSUME NEW bytes \in Acceptable
  PROVE  BehindHeader(bytes)
<1>1. bytes \in Seq(Byte) /\ Len(bytes) >= HeaderParts /\ Sound(bytes)
  BY DEF Acceptable
<1> SUFFICES ASSUME NEW s \in Sections,
                    SubSeq(bytes, 1, HeaderParts) = SubSeq(Bytes(s), 1, HeaderParts)
             PROVE  bytes = Bytes(s)
  BY DEF BehindHeader
<1>2. \A i \in 1 .. HeaderParts : bytes[i] = <<s, i>>
  BY <1>1, BeginsLike
<1>3. PICK x \in Sections : bytes = Bytes(x)
  BY <1>1, <1>2, HeaderOf DEF Sound, CrcHolds
<1>4. x = s
  <2>1. 1 \in 1 .. HeaderParts /\ 1 \in 1 .. Length[x]
    BY Consts, LengthAssumption DEF LengthAssumption
  <2>2. bytes[1] = <<x, 1>> /\ bytes[1] = <<s, 1>>
    BY <1>2, <1>3, <2>1, BytesAre
  <2> QED BY <2>2
<1> QED BY <1>3, <1>4

\* Behind the header of a section only the whole of it is handed over, whatever
\* is lost, damaged or repeated (crc32 at src/b1/ts_section_parser.c:308 and 394).
THEOREM WholeSections == Spec => []WholeBehindHeader
<1>1. IInv => WholeBehindHeader
  <2> SUFFICES ASSUME IInv, NEW j \in DOMAIN buff
               PROVE  BehindHeader(raw[buff[j]])
    BY DEF WholeBehindHeader
  <2>1. raw[buff[j]] \in Acceptable
    BY DEF IInv, ParserInv, Core, Waiting, Ran
  <2> QED BY <2>1, AcceptableIs
<1> QED BY <1>1, Inductive, PTL

\* The parser implements the abstract channel: what its callers get are the
\* accepted sections, unaltered, in the order they were accepted, and none
\* accepted twice in a row (src/b1/ts_section_parser.c:179, 467).
THEOREM Implements == Spec => IsChannel
<1>1. Init => Channel!Init
  BY Start0
<1>2. IInv /\ [Next]_vars => [Channel!Next]_(Channel!vars)
  BY StepAny DEF Passes
<1> QED BY <1>1, <1>2, Inductive, PTL DEF Spec, IsChannel, Channel!Spec

-----------------------------------------------------------------------------
(* The bytes that are still to be read, and the sections in them.          *)

\* The bytes b hold section x from position o on, ...
Whole(b, o, x) == o + Length[x] <= Len(b) /\ \A i \in 1 .. Length[x] : b[o + i] = <<x, i>>

\* ... end with the first n parts of section s, or with stuffing, ...
Partial(b, o, s, n) ==
  IF s = Null THEN o < Len(b) => b[o + 1] = Stuffing
  ELSE Len(b) = o + n /\ \A i \in 1 .. n : b[o + i] = <<s, i>>

\* ... and do so behind the sections ws, of which a packet completes at most two.
Trail(b, ws, s, n) ==
  \/ ws = <<>> /\ Partial(b, 0, s, n)
  \/ \E x \in Sections : ws = <<x>> /\ Whole(b, 0, x) /\ Partial(b, Length[x], s, n)
  \/ \E x \in Sections, y \in Sections :
       /\ ws = <<x, y>> /\ Whole(b, 0, x) /\ Whole(b, Length[x], y)
       /\ Partial(b, Length[x] + Length[y], s, n)

\* At the beginning of the bytes.
LEMMA FromTheFirst ==
  ASSUME NEW b, NEW x \in Sections, NEW n \in Nat
  PROVE  /\ Whole(b, 0, x) => Length[x] <= Len(b) /\ \A i \in 1 .. Length[x] : b[i] = <<x, i>>
         /\ Partial(b, 0, x, n) => Len(b) = n /\ \A i \in 1 .. n : b[i] = <<x, i>>
<1>1. Length[x] \in Nat /\ x # Null
  BY Consts, NullAssumption DEF NullAssumption
<1>2. \A i \in 1 .. Length[x] : 0 + i = i
  BY <1>1
<1>3. \A i \in 1 .. n : 0 + i = i
  OBVIOUS
<1>4. 0 + Length[x] = Length[x] /\ 0 + n = n
  BY <1>1
<1>5. ASSUME Whole(b, 0, x)
      PROVE  Length[x] <= Len(b) /\ \A i \in 1 .. Length[x] : b[i] = <<x, i>>
  BY <1>2, <1>4, <1>5 DEF Whole
<1>6. ASSUME Partial(b, 0, x, n)
      PROVE  Len(b) = n /\ \A i \in 1 .. n : b[i] = <<x, i>>
  BY <1>1, <1>3, <1>4, <1>6 DEF Partial
<1> QED BY <1>5, <1>6

\* Bytes that hold a whole section are cut at its end.
LEMMA CutThere ==
  ASSUME NEW all \in Seq(Byte), NEW x \in Sections, Whole(all, 0, x)
  PROVE  Joined(all) = Bytes(x) /\ Complete(all)
<1> DEFINE n == Length[x]
           c == Joined(all)
<1>1. /\ n \in Nat /\ n >= HeaderParts /\ n >= LongParts /\ HeaderParts \in Nat
      /\ LongParts \in Nat /\ Len(all) \in Nat
  BY LengthAssumption DEF LengthAssumption
<1>2. n <= Len(all) /\ \A i \in 1 .. n : all[i] = <<x, i>>
  BY FromTheFirst
<1>3. Bytes(x) \in Seq(Byte) /\ Len(Bytes(x)) = n /\ \A i \in 1 .. n : Bytes(x)[i] = <<x, i>>
  BY BytesAre
<1>4. Header(all).long = TRUE /\ Wanted(all) = n
  <2>1. \A i \in 1 .. HeaderParts : all[i] = <<x, i>>
    BY <1>1, <1>2
  <2> QED BY <2>1, HeaderOf
<1>5. Complete(all)
  BY <1>1, <1>2, <1>4 DEF Complete, HeaderKnown
<1>6. c \in Seq(Byte) /\ Len(c) = n /\ \A i \in 1 .. n : c[i] = all[i]
  BY <1>4, <1>5, JoinedIs
<1> HIDE DEF n, c
<1>7. c = Bytes(x)
  BY <1>2, <1>3, <1>6, SeqEqual
<1> QED BY <1>5, <1>7 DEF c

\* Bytes that do not reach the end of their section are not complete.
LEMMA NotThereYet ==
  ASSUME NEW all \in Seq(Byte), NEW s \in Sections,
         NEW n \in 1 .. Length[s] - 1, Partial(all, 0, s, n)
  PROVE  ~Complete(all)
<1>1. Length[s] \in Nat /\ n \in Nat /\ n < Length[s] /\ HeaderParts \in Nat
  BY Consts, LengthAssumption DEF LengthAssumption
<1>2. Len(all) = n /\ \A i \in 1 .. n : all[i] = <<s, i>>
  BY <1>1, FromTheFirst
<1>3. CASE n < HeaderParts
  BY <1>1, <1>2, <1>3 DEF Complete, HeaderKnown
<1>4. CASE n >= HeaderParts
  <2>1. \A i \in 1 .. HeaderParts : all[i] = <<s, i>>
    BY <1>1, <1>2, <1>4
  <2>2. Wanted(all) = Length[s]
    BY <2>1, HeaderOf
  <2> QED BY <1>1, <1>2, <2>2 DEF Complete
<1> QED BY <1>1, <1>3, <1>4

\* What is left behind the first m bytes.
LEMMA BehindIs ==
  ASSUME NEW b \in Seq(Byte), NEW m \in Nat, m <= Len(b),
         NEW h, h = SubSeq(b, m + 1, Len(b))
  PROVE  h \in Seq(Byte) /\ Len(h) = Len(b) - m /\ \A i \in 1 .. Len(b) - m : h[i] = b[m + i]
<1> DEFINE k == m + 1
           n == Len(b)
<1>1. k \in Int /\ n \in Int /\ n \in Nat /\ k > 0 /\ k = m + 1
  OBVIOUS
<1>2. \A i \in k .. n : b[i] \in Byte
  BY <1>1
<1>3. h = SubSeq(b, k, n) /\ m <= n
  OBVIOUS
<1> HIDE DEF k, n
<1>4. /\ h \in Seq(Byte) /\ Len(h) = (IF k <= n THEN n - k + 1 ELSE 0)
      /\ \A i \in 1 .. n - k + 1 : h[i] = b[k + i - 1]
  BY <1>1, <1>2, <1>3, SubSeqProperties
<1>5. n - k + 1 = n - m /\ \A i \in 1 .. n - m : k + i - 1 = m + i
  BY <1>1
<1>6. Len(h) = n - m
  BY <1>1, <1>3, <1>4
<1> QED BY <1>4, <1>5, <1>6 DEF n

\* Behind the first section the others follow, at their distances from it.
LEMMA ShiftedWhole ==
  ASSUME NEW b \in Seq(Byte), NEW m \in Nat, m <= Len(b),
         NEW h, h = SubSeq(b, m + 1, Len(b)), NEW o \in Nat, NEW q, q = m + o,
         NEW x \in Sections, Whole(b, q, x)
  PROVE  Whole(h, o, x)
<1>1. h \in Seq(Byte) /\ Len(h) = Len(b) - m /\ \A i \in 1 .. Len(b) - m : h[i] = b[m + i]
  BY BehindIs
<1>2. Len(b) \in Nat
  OBVIOUS
<1>3. /\ Length[x] \in Nat /\ m + o + Length[x] <= Len(b)
      /\ \A i \in 1 .. Length[x] : b[m + o + i] = <<x, i>>
  BY Consts DEF Whole
<1>4. ASSUME NEW i \in 1 .. Length[x]
      PROVE  h[o + i] = <<x, i>>
  <2>1. o + i \in 1 .. Len(b) - m /\ m + (o + i) = m + o + i
    BY <1>2, <1>3
  <2> QED BY <1>1, <1>3, <2>1
<1>5. o + Length[x] <= Len(h)
  BY <1>1, <1>2, <1>3
<1> QED BY <1>4, <1>5 DEF Whole

\* So does what ends them.
LEMMA ShiftedPartial ==
  ASSUME NEW b \in Seq(Byte), NEW m \in Nat, m <= Len(b),
         NEW h, h = SubSeq(b, m + 1, Len(b)), NEW o \in Nat, NEW q, q = m + o,
         NEW s \in Sections \cup {Null}, NEW n \in Nat, Partial(b, q, s, n)
  PROVE  Partial(h, o, s, n)
<1>1. h \in Seq(Byte) /\ Len(h) = Len(b) - m /\ \A i \in 1 .. Len(b) - m : h[i] = b[m + i]
  BY BehindIs
<1>2. Len(b) \in Nat
  OBVIOUS
<1>3. CASE s = Null
  <2>1. ASSUME o < Len(h)
        PROVE  h[o + 1] = Stuffing
    <3>1. m + o < Len(b) /\ o + 1 \in 1 .. Len(b) - m /\ m + (o + 1) = m + o + 1
      BY <1>1, <1>2, <2>1
    <3>2. b[m + o + 1] = Stuffing
      BY <1>3, <3>1 DEF Partial
    <3> QED BY <1>1, <3>1, <3>2
  <2> QED BY <1>3, <2>1 DEF Partial
<1>4. CASE s # Null
  <2>1. Len(b) = m + o + n /\ \A i \in 1 .. n : b[m + o + i] = <<s, i>>
    BY <1>4 DEF Partial
  <2>2. ASSUME NEW i \in 1 .. n
        PROVE  h[o + i] = <<s, i>>
    <3>1. o + i \in 1 .. Len(b) - m /\ m + (o + i) = m + o + i
      BY <1>2, <2>1
    <3> QED BY <1>1, <2>1, <3>1
  <2>3. Len(h) = o + n
    BY <1>1, <2>1
  <2> QED BY <1>4, <2>2, <2>3 DEF Partial
<1> QED BY <1>3, <1>4

-----------------------------------------------------------------------------
(* What has been accepted.                                                 *)

\* The sections accepted end with the one compared with.
Newest(a, rw, l) ==
  /\ a \in Seq(Seq(Byte)) /\ (l = Null => a = <<>>)
  /\ l # Null => a # <<>> /\ a[Len(a)] = rw[l]

\* What counts as accepted when a step begins: at a put it is counted anew.
Before ==
  IF pc # "idle" THEN accepted ELSE IF last = Null THEN <<>> ELSE <<raw[last]>>

\* The step accepts nothing, or accepts these bytes.
Still == stat'.unique = stat.unique /\ last' = last /\ (last # Null => raw'[last] = raw[last])
Gains(bytes) ==
  /\ stat'.unique = stat.unique + 1 /\ last' # Null /\ raw'[last'] = bytes
  /\ bytes \in Seq(Byte) /\ ~Same(bytes)

\* Of the sections d the first k are those accepted last, each once in a row.
Follows(d, k, a) ==
  k > 0 => \E at \in [1 .. k -> 1 .. Len(a)] :
             /\ at[k] = Len(a)
             /\ \A i \in 1 .. k : a[at[i]] = Bytes(d[i])
             /\ \A i \in 1 .. k - 1 : at[i + 1] = IF d[i] = d[i + 1] THEN at[i] ELSE at[i] + 1

Compared == raw \in [Elems -> Seq(Byte)] /\ last \in Elems \cup {Null} /\ stat \in Stat

\* A put starts with the section compared with.
LEMMA BeforeIs ==
  ASSUME Compared, Newest(accepted, raw, last)
  PROVE  Newest(Before, raw, last) /\ (pc # "idle" => Before = accepted)
<1>1. CASE pc # "idle"
  BY <1>1 DEF Before
<1>2. CASE pc = "idle" /\ last = Null
  <2>1. Before = <<>> /\ Before \in Seq(Seq(Byte))
    BY <1>2 DEF Before
  <2> QED BY <1>2, <2>1 DEF Newest
<1>3. CASE pc = "idle" /\ last # Null
  <2>1. Before = <<raw[last]>> /\ raw[last] \in Seq(Byte)
    BY <1>3 DEF Before, Compared
  <2> DEFINE x == raw[last]
  <2>2. x \in Seq(Byte) /\ Before = <<x>>
    BY <2>1
  <2> HIDE DEF x
  <2>3. <<x>> \in Seq(Seq(Byte)) /\ <<x>> # <<>> /\ <<x>>[Len(<<x>>)] = x
    BY <2>2
  <2> QED BY <1>3, <2>2, <2>3 DEF Newest, x
<1> QED BY <1>1, <1>2, <1>3

\* A step that accepts nothing.
LEMMA NothingAccepted ==
  ASSUME Compared, Newest(Before, raw, last), Still, accepted' = Accepting
  PROVE  accepted' = Before /\ Newest(accepted', raw', last')
<1>1. accepted' = IF stat'.unique > stat.unique THEN Append(Before, raw'[last']) ELSE Before
  BY DEF Accepting, Before
<1>2. stat.unique \in Nat
  BY DEF Compared, Stat
<1>3. accepted' = Before
  BY <1>1, <1>2 DEF Still
<1> QED BY <1>3 DEF Still, Newest

\* A step that accepts a section.
LEMMA OneAccepted ==
  ASSUME Compared, Newest(Before, raw, last), NEW bytes, Gains(bytes), accepted' = Accepting
  PROVE  accepted' = Append(Before, bytes) /\ Newest(accepted', raw', last')
<1>1. accepted' = IF stat'.unique > stat.unique THEN Append(Before, raw'[last']) ELSE Before
  BY DEF Accepting, Before
<1>2. stat.unique \in Nat
  BY DEF Compared, Stat
<1>3. accepted' = Append(Before, bytes)
  BY <1>1, <1>2 DEF Gains
<1>4. Before \in Seq(Seq(Byte)) /\ bytes \in Seq(Byte) /\ last' # Null /\ raw'[last'] = bytes
  BY DEF Newest, Gains
<1> DEFINE b == Before
           q == Append(b, bytes)
<1>5. b \in Seq(Seq(Byte)) /\ accepted' = q
  BY <1>3, <1>4
<1> HIDE DEF b
<1>6. /\ q \in Seq(Seq(Byte)) /\ q # <<>> /\ Len(q) = Len(b) + 1
      /\ q[Len(b) + 1] = bytes
  BY <1>4, <1>5, AppendProperties
<1> HIDE DEF q
<1>7. q[Len(q)] = bytes
  BY <1>6
<1> QED BY <1>3, <1>4, <1>5, <1>6, <1>7 DEF Newest

\* The bytes of a section tell which it is.
LEMMA BytesTell ==
  ASSUME NEW x \in Sections, NEW y \in Sections, Bytes(x) = Bytes(y)
  PROVE  x = y
BY BytesAre

\* The section that follows is accepted, or is the one accepted just before.
LEMMA OneMore ==
  ASSUME Compared, Newest(Before, raw, last), accepted' = Accepting,
         NEW d \in Seq(Sections), NEW k \in Nat, k + 1 <= Len(d), Follows(d, k, Before),
         \/ Still /\ Same(Bytes(d[k + 1]))
         \/ Gains(Bytes(d[k + 1]))
  PROVE  Follows(d, k + 1, accepted') /\ Newest(accepted', raw', last')
<1> DEFINE x == d[k + 1]
           b == Before
           a == accepted'
           h == k + 1
<1>1. /\ x \in Sections /\ h \in Nat /\ h > 0 /\ h - 1 = k /\ \A i \in 1 .. Len(d) : d[i] \in Sections
  OBVIOUS
<1>2. b \in Seq(Seq(Byte)) /\ (last = Null => b = <<>>) /\ (last # Null => b # <<>> /\ b[Len(b)] = raw[last])
  BY DEF Newest
<1>3. \/ a = b /\ last # Null /\ raw[last] = Bytes(x)
      \/ a = Append(b, Bytes(x)) /\ (last = Null \/ raw[last] # Bytes(x)) /\ Bytes(x) \in Seq(Byte)
  <2>1. CASE Still /\ Same(Bytes(x))
    BY <2>1, NothingAccepted DEF Same
  <2>2. CASE Gains(Bytes(x))
    BY <2>2, OneAccepted DEF Gains, Same
  <2> QED BY <2>1, <2>2
<1>4. Newest(a, raw', last')
  BY NothingAccepted, OneAccepted
<1> HIDE DEF x, b, a, h
<1>5. /\ a \in Seq(Seq(Byte)) /\ Len(a) \in Nat /\ Len(a) > 0 /\ a[Len(a)] = Bytes(x)
      /\ Len(b) \in Nat /\ Len(b) <= Len(a) /\ \A i \in 1 .. Len(b) : a[i] = b[i]
  <2>1. CASE a = b /\ last # Null /\ raw[last] = Bytes(x)
    BY <1>2, <2>1
  <2>2. CASE a = Append(b, Bytes(x)) /\ Bytes(x) \in Seq(Byte)
    <3> DEFINE y == Bytes(x)
    <3> HIDE DEF y
    <3>1. y \in Seq(Byte) /\ a = Append(b, y)
      BY <2>2 DEF y
    <3>2. /\ a \in Seq(Seq(Byte)) /\ Len(a) = Len(b) + 1 /\ a[Len(b) + 1] = y /\ Len(b) \in Nat
          /\ \A i \in 1 .. Len(b) : a[i] = b[i]
      BY <1>2, <3>1
    <3> QED BY <3>2 DEF y
  <2> QED BY <1>3, <2>1, <2>2
<1>6. CASE k = 0
  <2> DEFINE f == [i \in 1 .. 1 |-> Len(a)]
  <2>1. f \in [1 .. 1 -> 1 .. Len(a)] /\ f[1] = Len(a)
    BY <1>5
  <2>2. h = 1 /\ x = d[1] /\ 1 .. 1 - 1 = {}
    BY <1>6 DEF h, x
  <2> HIDE DEF f
  <2>3. Follows(d, 1, a)
    BY <1>5, <2>1, <2>2 DEF Follows
  <2> QED BY <1>4, <2>2, <2>3 DEF a, h
<1>7. CASE k > 0
  <2>1. PICK at \in [1 .. k -> 1 .. Len(b)] :
          /\ at[k] = Len(b)
          /\ \A i \in 1 .. k : b[at[i]] = Bytes(d[i])
          /\ \A i \in 1 .. k - 1 : at[i + 1] = IF d[i] = d[i + 1] THEN at[i] ELSE at[i] + 1
    BY <1>7 DEF Follows, b
  <2>2. /\ k \in 1 .. k /\ at[k] \in 1 .. Len(b) /\ b[Len(b)] = Bytes(d[k]) /\ d[k] \in Sections
        /\ x = d[k + 1] /\ b # <<>>
    BY <1>1, <1>2, <1>5, <1>7, <2>1, SMTT(20) DEF x
  <2>3. last # Null /\ raw[last] = Bytes(d[k])
    BY <1>2, <2>2
  <2>4. Len(a) = IF d[k] = d[k + 1] THEN Len(b) ELSE Len(b) + 1
    <3>1. CASE a = b /\ raw[last] = Bytes(x)
      BY <1>1, <2>2, <2>3, <3>1, BytesTell
    <3>2. CASE a = Append(b, Bytes(x)) /\ raw[last] # Bytes(x) /\ Bytes(x) \in Seq(Byte)
      <4>1. d[k] # x
        BY <2>3, <3>2
      <4> DEFINE y == Bytes(x)
      <4> HIDE DEF y
      <4>2. Len(a) = Len(b) + 1
        BY <1>2, <3>2 DEF y
      <4> QED BY <2>2, <4>1, <4>2
    <3> QED BY <1>3, <2>3, <3>1, <3>2
  <2> DEFINE f == [i \in 1 .. h |-> IF i <= k THEN at[i] ELSE Len(a)]
  <2>5. h = k + 1 /\ Len(a) \in 1 .. Len(a) /\ (\A i \in 1 .. k : at[i] \in 1 .. Len(a))
    BY <1>5, <2>1 DEF h
  <2>6. /\ f \in [1 .. h -> 1 .. Len(a)] /\ f[h] = Len(a) /\ \A i \in 1 .. k : f[i] = at[i]
    BY <1>1, <2>5
  <2> HIDE DEF f
  <2>7. ASSUME NEW i \in 1 .. h
        PROVE  a[f[i]] = Bytes(d[i])
    <3>1. CASE i \in 1 .. k
      <4>1. f[i] = at[i] /\ at[i] \in 1 .. Len(b) /\ b[at[i]] = Bytes(d[i])
        BY <2>1, <2>6, <3>1
      <4> QED BY <1>5, <4>1
    <3>2. CASE i = h
      BY <1>5, <2>2, <2>5, <2>6, <3>2
    <3> QED BY <2>5, <3>1, <3>2
  <2>8. ASSUME NEW i \in 1 .. h - 1
        PROVE  f[i + 1] = IF d[i] = d[i + 1] THEN f[i] ELSE f[i] + 1
    <3>1. CASE i \in 1 .. k - 1
      <4>1. i \in 1 .. k /\ i + 1 \in 1 .. k
        BY <1>1, <3>1
      <4> QED BY <2>1, <2>6, <3>1, <4>1
    <3>2. CASE i = k
      <4>1. f[i] = Len(b) /\ f[i + 1] = Len(a)
        BY <2>1, <2>2, <2>5, <2>6, <3>2
      <4> QED BY <2>4, <3>2, <4>1
    <3> QED BY <1>1, <3>1, <3>2
  <2>9. Follows(d, h, a)
    BY <2>6, <2>7, <2>8 DEF Follows
  <2> QED BY <1>4, <2>9 DEF a, h
<1> QED BY <1>6, <1>7

-----------------------------------------------------------------------------
(* What the operations accept.                                             *)

\* An element given back accepts nothing.
LEMMA CancelStill ==
  ASSUME Compared, NEW e \in Elems, e # last, NEW p, NEW fields, "unique" \notin fields,
         Cancel(e, p, fields)
  PROVE  Still
<1>1. /\ raw' = [raw EXCEPT ![e] = <<>>] /\ last' = last
      /\ stat' = [f \in DOMAIN stat |-> IF f \in fields THEN stat[f] + 1 ELSE stat[f]]
  BY DEF Cancel, Count
<1>2. stat'.unique = stat.unique
  BY <1>1 DEF Compared, Stat
<1>3. last # Null => raw'[last] = raw[last]
  BY <1>1 DEF Compared
<1> QED BY <1>1, <1>2, <1>3 DEF Still

\* A complete section is accepted, unless it is broken or the one compared with.
LEMMA SettleTells ==
  ASSUME Compared, NEW e \in Elems, e # last, NEW p, NEW bytes \in Seq(Byte), Settle(e, p, bytes)
  PROVE  (Still /\ (Sound(bytes) => Same(bytes))) \/ Gains(bytes)
<1>1. CASE ~Sound(bytes) /\ Cancel(e, p, {"total", "error"})
  BY <1>1, CancelStill
<1>2. CASE Sound(bytes) /\ Same(bytes) /\ Cancel(e, p, {"total"})
  BY <1>2, CancelStill
<1>3. CASE Sound(bytes) /\ ~Same(bytes) /\ Commit(e, p, bytes)
  <2>1. /\ raw' = [raw EXCEPT ![e] = bytes] /\ last' = e
        /\ stat' = [f \in DOMAIN stat |-> IF f \in {"total", "unique"} THEN stat[f] + 1 ELSE stat[f]]
    BY <1>3 DEF Commit, Count
  <2>2. stat'.unique = stat.unique + 1
    BY <2>1 DEF Compared, Stat
  <2>3. e # Null /\ raw'[e] = bytes
    BY <2>1, ElemsAssumption DEF Compared, ElemsAssumption
  <2> QED BY <1>3, <2>1, <2>2, <2>3 DEF Gains
<1> QED BY <1>1, <1>2, <1>3 DEF Settle

\* The element that is filled or taken is not the one compared with.
LEMMA NotCompared ==
  ASSUME NEW p, Core(raw, ref, last, p, buff, Null), stat \in Stat,
         NEW e, e \notin Ran(p) \cup Ran(buff), e # Null
  PROVE  Compared /\ e # last
BY DEF Core, Latest, Compared

\* The bytes of a section in progress and those that follow them.
LEMMA GoesOn ==
  ASSUME NEW a \in Seq(Byte), NEW d \in Seq(Byte), NEW s \in Sections,
         NEW n \in 1 .. Length[s] - 1, Partial(a, 0, s, n),
         NEW m \in 0 .. Length[s] - n, m <= Len(d), \A i \in 1 .. m : d[i] = <<s, n + i>>
  PROVE  /\ m = Length[s] - n => Whole(a \o d, 0, s)
         /\ m = Len(d) => Partial(a \o d, 0, s, n + m)
<1>1. /\ Length[s] \in Nat /\ n \in Nat /\ m \in Nat /\ n + m <= Length[s] /\ s # Null
      /\ Len(a) = n /\ \A i \in 1 .. n : a[i] = <<s, i>>
  <2>1. Length[s] \in Nat /\ n \in Nat /\ m \in Nat /\ n + m <= Length[s] /\ s # Null
    BY Consts, NullAssumption DEF NullAssumption
  <2>2. Len(a) = n /\ \A i \in 1 .. n : a[i] = <<s, i>>
    BY <2>1, FromTheFirst
  <2> QED BY <2>1, <2>2
<1> DEFINE all == a \o d
<1>2. /\ Len(all) = Len(a) + Len(d) /\ Len(d) \in Nat
      /\ \A i \in 1 .. Len(a) + Len(d) : all[i] = IF i <= Len(a) THEN a[i] ELSE d[i - Len(a)]
  OBVIOUS
<1> HIDE DEF all
<1>3. ASSUME NEW i \in 1 .. n + m
      PROVE  all[i] = <<s, i>>
  <2>1. i \in 1 .. Len(a) + Len(d)
    BY <1>1, <1>2
  <2>2. CASE i <= n
    BY <1>1, <1>2, <2>1, <2>2
  <2>3. CASE ~(i <= n)
    <3>1. i - n \in 1 .. m /\ n + (i - n) = i
      BY <1>1, <2>3
    <3>2. all[i] = d[i - n]
      BY <1>1, <1>2, <2>1, <2>3
    <3> QED BY <3>1, <3>2
  <2> QED BY <2>2, <2>3
<1>4. ASSUME m = Length[s] - n
      PROVE  Whole(all, 0, s)
  <2>1. n + m = Length[s] /\ 0 + Length[s] <= Len(all)
    <3> DEFINE l == Length[s]
               k == Len(d)
               h == Len(all)
    <3>1. h = n + k /\ k \in Nat /\ l \in Nat /\ n \in Nat /\ m \in Nat
      BY <1>1, <1>2, Zenon
    <3>2. m = l - n /\ m <= k
      BY <1>4
    <3> HIDE DEF l, k, h
    <3>3. n + m = l
      BY <3>1, <3>2
    <3>4. 0 + l <= h
      BY <3>1, <3>2, <3>3
    <3> QED BY <3>3, <3>4 DEF l, h
  <2>2. ASSUME NEW i \in 1 .. Length[s]
        PROVE  all[0 + i] = <<s, i>>
    <3>1. i \in 1 .. n + m
      <4>1. n + m = Length[s]
        BY <2>1
      <4> QED BY <4>1, Zenon
    <3>2. 0 + i = i
      BY <1>1
    <3> QED BY <1>3, <3>1, <3>2
  <2> QED BY <2>1, <2>2 DEF Whole
<1>5. ASSUME m = Len(d)
      PROVE  Partial(all, 0, s, n + m)
  <2>1. Len(all) = 0 + (n + m)
    BY <1>1, <1>2, <1>5
  <2>2. ASSUME NEW i \in 1 .. n + m
        PROVE  all[0 + i] = <<s, i>>
    <3>1. 0 + i = i
      BY <1>1
    <3> QED BY <1>3, <3>1
  <2> QED BY <1>1, <2>1, <2>2 DEF Partial
<1> QED BY <1>4, <1>5 DEF all

\* put, first part: it may accept a section.
LEMMA ContinueTells ==
  ASSUME Kept, NEW data \in Seq(Byte), Continue(data)
  PROVE  Still \/ \E bytes : Gains(bytes)
<1>1. CASE ~InProgress
  BY <1>1 DEF Continue, Still
<1>2. CASE InProgress
  <2> DEFINE bytes == raw[work] \o data
             joined == Joined(bytes)
  <2>1. /\ work \in Elems /\ work # Null /\ raw[work] \in Seq(Byte)
        /\ Core(raw, ref, last, pool, buff, Null) /\ stat \in Stat
        /\ work \notin Ran(pool) \cup Ran(buff)
    BY <1>2 DEF Kept, InProgress, Core
  <2>2. Compared /\ work # last
    BY <2>1, NotCompared
  <2>3. bytes \in Seq(Byte)
    <3> DEFINE a == raw[work]
    <3>1. a \in Seq(Byte)
      BY <2>1
    <3> HIDE DEF a
    <3>2. a \o data \in Seq(Byte)
      BY <3>1
    <3> QED BY <3>2 DEF a
  <2>4. \/ /\ raw' = [raw EXCEPT ![work] = bytes]
           /\ UNCHANGED <<ref, work, last, pool, buff, stat>>
        \/ Complete(bytes) /\ Settle(work, pool, joined)
    BY <1>2 DEF Continue
  <2> HIDE DEF bytes, joined
  <2>5. CASE /\ raw' = [raw EXCEPT ![work] = bytes]
             /\ UNCHANGED <<ref, work, last, pool, buff, stat>>
    BY <2>2, <2>5 DEF Still, Compared
  <2>6. CASE Complete(bytes) /\ Settle(work, pool, joined)
    <3>1. joined \in Seq(Byte)
      BY <2>3, <2>6, JoinedIs DEF joined
    <3> QED BY <2>1, <2>2, <2>6, <3>1, SettleTells
  <2> QED BY <2>4, <2>5, <2>6
<1> QED BY <1>1, <1>2

\* The section under way.
UnderWay(s, n) == work # Null /\ Partial(raw[work], 0, s, n)

\* Its parts that are put together so far, in the element that is filled.
LEMMA UnderWayIs ==
  ASSUME Kept, NEW s \in Sections, NEW n \in 1 .. Length[s] - 1, UnderWay(s, n)
  PROVE  /\ work \in Elems /\ raw[work] \in Seq(Byte) /\ Compared /\ work # last /\ InProgress
<1>1. /\ work \in Elems /\ raw[work] \in Seq(Byte) /\ stat \in Stat
      /\ Core(raw, ref, last, pool, buff, Null) /\ work \notin Ran(pool) \cup Ran(buff)
  BY DEF Kept, Core, UnderWay
<1>2. Len(raw[work]) = n /\ n > 0
  BY Consts, FromTheFirst DEF UnderWay
<1>3. raw[work] # <<>>
  BY <1>2
<1>4. Compared /\ work # last
  BY <1>1, NotCompared DEF UnderWay
<1> QED BY <1>1, <1>3, <1>4 DEF InProgress, UnderWay

\* put, first part: the section under way ends and is accepted.
LEMMA ContinueEnds ==
  ASSUME Kept, NEW s \in Sections, NEW n \in 1 .. Length[s] - 1, UnderWay(s, n),
         NEW data \in Seq(Byte), Len(data) >= Length[s] - n,
         \A i \in 1 .. Length[s] - n : data[i] = <<s, n + i>>, Continue(data)
  PROVE  (Still /\ Same(Bytes(s))) \/ Gains(Bytes(s))
<1> DEFINE a == raw[work]
<1>1. a \in Seq(Byte) /\ work \in Elems /\ Compared /\ work # last /\ InProgress /\ Partial(a, 0, s, n)
  BY UnderWayIs DEF UnderWay
<1>2. Whole(a \o data, 0, s)
  <2> DEFINE m == Length[s] - n
  <2>1. m \in 0 .. Length[s] - n /\ m <= Len(data) /\ m = Length[s] - n
    BY Consts
  <2> HIDE DEF a, m
  <2> QED BY <1>1, <2>1, GoesOn
<1>3. Joined(a \o data) = Bytes(s) /\ Complete(a \o data)
  <2> HIDE DEF a
  <2>1. a \o data \in Seq(Byte)
    BY <1>1
  <2> QED BY <1>2, <2>1, CutThere
<1>4. Settle(work, pool, Bytes(s))
  BY <1>1, <1>3 DEF Continue
<1>5. Sound(Bytes(s)) /\ Bytes(s) \in Seq(Byte)
  BY BytesAre DEF Sound, CrcHolds
<1> QED BY <1>1, <1>4, <1>5, SettleTells

\* put, first part: the section under way goes on.
LEMMA ContinueGrows ==
  ASSUME Kept, NEW s \in Sections, NEW n \in 1 .. Length[s] - 1, UnderWay(s, n),
         NEW data \in Seq(Byte), n + Len(data) < Length[s],
         \A i \in 1 .. Len(data) : data[i] = <<s, n + i>>, Continue(data)
  PROVE  Still /\ UnderWay(s, n + Len(data))'
<1> DEFINE a == raw[work]
           m == Len(data)
           q == n + m
           all == a \o data
<1>1. a \in Seq(Byte) /\ work \in Elems /\ Compared /\ work # last /\ InProgress /\ Partial(a, 0, s, n)
  BY UnderWayIs DEF UnderWay
<1>2. /\ m \in 0 .. Length[s] - n /\ m = Len(data) /\ m <= Len(data) /\ q \in 1 .. Length[s] - 1
      /\ \A i \in 1 .. m : data[i] = <<s, n + i>>
  BY Consts
<1>3. Partial(all, 0, s, q)
  <2> HIDE DEF a, m
  <2> QED BY <1>1, <1>2, GoesOn
<1>4. ~Complete(all)
  <2> HIDE DEF a
  <2>1. all \in Seq(Byte)
    BY <1>1
  <2> HIDE DEF q, all
  <2> QED BY <1>2, <1>3, <2>1, NotThereYet
<1>5. raw' = [raw EXCEPT ![work] = all] /\ UNCHANGED <<ref, work, last, pool, buff, stat>>
  BY <1>1, <1>4 DEF Continue
<1> HIDE DEF all
<1>6. raw'[work] = all /\ (last # Null => raw'[last] = raw[last])
  BY <1>1, <1>5 DEF Compared
<1> HIDE DEF q
<1>7. work' # Null /\ raw'[work'] = all
  BY <1>5, <1>6 DEF UnderWay
<1> QED BY <1>3, <1>5, <1>6, <1>7 DEF Still, UnderWay, q

\* put, at the pointer: nothing is accepted.
LEMMA AbandonTells ==
  ASSUME Kept, Abandon
  PROVE  Still
<1>1. CASE work = Null /\ UNCHANGED <<raw, ref, last, pool, buff, stat>>
  BY <1>1 DEF Still
<1>2. CASE work # Null /\ \E fields \in {{"total", "error"}, {}} : Cancel(work, pool, fields)
  <2>1. /\ work \in Elems /\ work \notin Ran(pool) \cup Ran(buff) /\ work # Null
        /\ Core(raw, ref, last, pool, buff, Null) /\ stat \in Stat
    BY <1>2 DEF Kept
  <2>2. Compared /\ work # last
    BY <2>1, NotCompared
  <2> QED BY <1>2, <2>1, <2>2, CancelStill
<1> QED BY <1>1, <1>2 DEF Abandon

\* The next of the sections that start is accepted, and the others follow.
LEMMA TurnWhole ==
  ASSUME NEW p, Core(raw, ref, last, p, buff, Null), stat \in Stat,
         NEW e \in Elems, e \notin Ran(p) \cup Ran(buff),
         rest \in Seq(Byte), NEW x \in Sections, Whole(rest, 0, x), StartIn(e, p)
  PROVE  /\ (Still /\ Same(Bytes(x))) \/ Gains(Bytes(x))
         /\ rest' = SubSeq(rest, Length[x] + 1, Len(rest)) /\ Length[x] <= Len(rest)
         /\ pc' = IF rest' # <<>> /\ rest'[1] # Stuffing THEN "start" ELSE "put"
<1>1. e # Null
  BY ElemsAssumption DEF ElemsAssumption
<1>2. Joined(rest) = Bytes(x) /\ Complete(rest)
  BY CutThere
<1>3. Bytes(x) \in Seq(Byte) /\ Len(Bytes(x)) = Length[x] /\ Sound(Bytes(x))
  BY BytesAre DEF Sound, CrcHolds
<1>4. /\ Settle(e, p, Bytes(x)) /\ rest' = SubSeq(rest, Length[x] + 1, Len(rest))
      /\ pc' = IF rest' # <<>> /\ rest'[1] # Stuffing THEN "start" ELSE "put"
  BY <1>2, <1>3 DEF StartIn
<1>5. Compared /\ e # last
  BY <1>1, NotCompared
<1>6. (Still /\ Same(Bytes(x))) \/ Gains(Bytes(x))
  BY <1>3, <1>4, <1>5, SettleTells
<1> QED BY <1>4, <1>6, FromTheFirst

\* The last of the sections that start goes on in the next packet.
LEMMA TurnPart ==
  ASSUME NEW p, Core(raw, ref, last, p, buff, Null), stat \in Stat,
         NEW e \in Elems, e \notin Ran(p) \cup Ran(buff),
         rest \in Seq(Byte), NEW s \in Sections, NEW n \in 1 .. Length[s] - 1,
         Partial(rest, 0, s, n), StartIn(e, p)
  PROVE  Still /\ UnderWay(s, n)' /\ pc' = "put"
<1>1. e # Null
  BY ElemsAssumption DEF ElemsAssumption
<1>2. ~Complete(rest)
  BY NotThereYet
<1>3. /\ raw' = [raw EXCEPT ![e] = rest] /\ work' = e /\ pc' = "put"
      /\ UNCHANGED <<last, buff, stat>>
  BY <1>2 DEF StartIn
<1>4. Compared /\ e # last
  BY <1>1, NotCompared
<1>5. raw'[e] = rest /\ (last # Null => raw'[last] = raw[last])
  BY <1>3, <1>4 DEF Compared
<1>6. UnderWay(s, n)'
  BY <1>1, <1>3, <1>5 DEF UnderWay
<1> QED BY <1>3, <1>5, <1>6 DEF Still

\* Some section starts, whichever: it may be accepted.
LEMMA TurnTells ==
  ASSUME NEW p, Core(raw, ref, last, p, buff, Null), stat \in Stat,
         NEW e \in Elems, e \notin Ran(p) \cup Ran(buff),
         rest \in Seq(Byte), StartIn(e, p)
  PROVE  Still \/ \E bytes : Gains(bytes)
<1> DEFINE bytes == Joined(rest)
<1>1. \/ raw' = [raw EXCEPT ![e] = rest] /\ UNCHANGED <<last, buff, stat>>
      \/ Complete(rest) /\ Settle(e, p, bytes)
  BY DEF StartIn
<1>2. Complete(rest) => bytes \in Seq(Byte)
  BY JoinedIs
<1>3. Compared /\ e # last
  BY NotCompared, ElemsAssumption DEF ElemsAssumption
<1> HIDE DEF bytes
<1>4. CASE raw' = [raw EXCEPT ![e] = rest] /\ UNCHANGED <<last, buff, stat>>
  BY <1>3, <1>4 DEF Still, Compared
<1>5. CASE Complete(rest) /\ Settle(e, p, bytes)
  BY <1>2, <1>3, <1>5, SettleTells
<1> QED BY <1>1, <1>4, <1>5

-----------------------------------------------------------------------------
(* What the broadcaster puts into a packet.                                *)

\* The bytes of a section not yet sent go on where those sent have stopped.
LEMMA RemainderGoesOn ==
  ASSUME SentOK(sending, sent), sending # Null
  PROVE  \A i \in 1 .. Length[sending] - sent : Remainder[i] = <<sending, sent + i>>
<1> DEFINE bytes == Bytes(sending)
           n == Length[sending]
<1>1. sending \in Sections /\ sent \in Nat /\ n \in Nat /\ sent < n
  BY Consts DEF SentOK
<1>2. bytes \in Seq(Byte) /\ Len(bytes) = n /\ \A i \in 1 .. n : bytes[i] = <<sending, i>>
  BY <1>1, BytesAre DEF Bytes
<1>3. Remainder = SubSeq(bytes, sent + 1, Len(bytes))
  BY <1>2 DEF Remainder
<1> HIDE DEF bytes, n
<1>4. Len(Remainder) = Len(bytes) - sent /\ \A i \in 1 .. Len(bytes) - sent : Remainder[i] = bytes[sent + i]
  <2>1. sent <= Len(bytes)
    BY <1>1, <1>2
  <2> QED BY <1>1, <1>2, <1>3, <2>1, BehindIs
<1>5. ASSUME NEW i \in 1 .. n - sent
      PROVE  Remainder[i] = <<sending, sent + i>>
  <2>1. sent + i \in 1 .. n
    BY <1>1
  <2> QED BY <1>2, <1>4, <2>1
<1> QED BY <1>5 DEF n

\* Behind the bytes the packet is filled with stuffing.
LEMMA FilledOut ==
  ASSUME NEW bytes \in Seq(Byte), NEW room \in Nat
  PROVE  \A i \in 1 .. room : i > Len(bytes) => Filled(bytes, room)[i] = Stuffing
BY DEF Filled

\* Bytes behind others.
LEMMA JoinsAll ==
  ASSUME NEW a \in Seq(Byte), NEW b \in Seq(Byte)
  PROVE  /\ a \o b \in Seq(Byte) /\ Len(a \o b) = Len(a) + Len(b)
         /\ \A i \in 1 .. Len(a) : (a \o b)[i] = a[i]
         /\ \A i \in 1 .. Len(b) : (a \o b)[Len(a) + i] = b[i]
OBVIOUS

\* A packet that only goes on with a section.
LEMMA ContinuationTells ==
  ASSUME SentOK(sending, sent), sending # Null, NEW c, c = Continuation
  PROVE  /\ ~c.packet.start /\ c.packet.bytes \in Seq(Byte) /\ Len(c.packet.bytes) = Room
         /\ \/ /\ Length[sending] - sent <= Room
               /\ c.completes = <<sending>> /\ c.sending = Null
               /\ \A i \in 1 .. Length[sending] - sent : c.packet.bytes[i] = <<sending, sent + i>>
            \/ /\ sent + Room < Length[sending]
               /\ c.completes = <<>> /\ c.sending = sending /\ c.sent = sent + Room
               /\ \A i \in 1 .. Room : c.packet.bytes[i] = <<sending, sent + i>>
<1> DEFINE r == Remainder
           f == Filled(r, Room)
           m == Length[sending] - sent
<1>1. /\ c.packet.start = FALSE /\ c.packet.bytes = f
      /\ Len(r) <= Room => c.completes = Ended /\ c.sending = Null
      /\ ~(Len(r) <= Room) => c.completes = <<>> /\ c.sending = sending /\ c.sent = sent + Room
  BY DEF Continuation
<1>2. r \in Seq(Byte) /\ Len(r) = m /\ \A i \in 1 .. m : r[i] = <<sending, sent + i>>
  BY RemainderIs, RemainderGoesOn
<1>3. Ended = <<sending>>
  BY DEF Ended
<1>4. Room \in Nat /\ Length[sending] \in Nat /\ sent \in Nat /\ m \in Nat
  BY Consts DEF SentOK
<1> HIDE DEF r
<1>5. f \in Seq(Byte) /\ Len(f) = Room /\ \A i \in 1 .. Room : i <= Len(r) => f[i] = r[i]
  BY <1>2, <1>4, FilledIs
<1> HIDE DEF f
<1>6. CASE Len(r) <= Room
  <2>1. ASSUME NEW i \in 1 .. m
        PROVE  f[i] = <<sending, sent + i>>
    <3>1. i \in 1 .. Room /\ i <= Len(r)
      BY <1>2, <1>4, <1>6
    <3> QED BY <1>2, <1>5, <3>1
  <2> QED BY <1>1, <1>2, <1>3, <1>5, <1>6, <2>1
<1>7. CASE ~(Len(r) <= Room)
  <2>1. sent + Room < Length[sending] /\ m > Room
    BY <1>2, <1>4, <1>7
  <2>2. ASSUME NEW i \in 1 .. Room
        PROVE  f[i] = <<sending, sent + i>>
    <3>1. i \in 1 .. m /\ i <= Len(r)
      BY <1>2, <1>4, <2>1
    <3> QED BY <1>2, <1>5, <3>1
  <2> QED BY <1>1, <1>5, <1>7, <2>1, <2>2
<1> QED BY <1>6, <1>7

\* Where the sections lie in a packet that is filled from position q on.
LEMMA LaidOut ==
  ASSUME NEW f \in Seq(Byte), NEW q \in Nat, q <= Len(f),
         NEW h, h = SubSeq(f, q + 1, Len(f)), NEW o \in Nat, NEW x \in Sections
  PROVE  /\ /\ q + o + Length[x] <= Len(f)
            /\ \A i \in 1 .. Length[x] : f[q + o + i] = <<x, i>>
            => Whole(h, o, x)
         /\ \A n \in Nat : /\ Len(f) = q + o + n /\ \A i \in 1 .. n : f[q + o + i] = <<x, i>>
                           => Partial(h, o, x, n)
         /\ \A n : (q + o < Len(f) => f[q + o + 1] = Stuffing) => Partial(h, o, Null, n)
<1>1. x # Null
  BY NullAssumption DEF NullAssumption
<1>2. /\ h \in Seq(Byte) /\ Len(h) = Len(f) - q /\ \A i \in 1 .. Len(f) - q : h[i] = f[q + i]
      /\ Len(f) \in Nat /\ Length[x] \in Nat
  BY BehindIs, Consts
<1>3. ASSUME q + o + Length[x] <= Len(f), \A i \in 1 .. Length[x] : f[q + o + i] = <<x, i>>
      PROVE  Whole(h, o, x)
  <2>1. ASSUME NEW i \in 1 .. Length[x]
        PROVE  h[o + i] = <<x, i>>
    <3>1. o + i \in 1 .. Len(f) - q /\ q + (o + i) = q + o + i
      BY <1>2, <1>3
    <3> QED BY <1>2, <1>3, <3>1
  <2>2. o + Length[x] <= Len(h)
    BY <1>2, <1>3
  <2> QED BY <2>1, <2>2 DEF Whole
<1>4. ASSUME NEW n \in Nat, Len(f) = q + o + n, \A i \in 1 .. n : f[q + o + i] = <<x, i>>
      PROVE  Partial(h, o, x, n)
  <2>1. ASSUME NEW i \in 1 .. n
        PROVE  h[o + i] = <<x, i>>
    <3>1. o + i \in 1 .. Len(f) - q /\ q + (o + i) = q + o + i
      BY <1>2, <1>4
    <3> QED BY <1>2, <1>4, <3>1
  <2>2. Len(h) = o + n
    BY <1>2, <1>4
  <2> QED BY <1>1, <2>1, <2>2 DEF Partial
<1>5. ASSUME NEW n, q + o < Len(f) => f[q + o + 1] = Stuffing
      PROVE  Partial(h, o, Null, n)
  <2>1. ASSUME o < Len(h)
        PROVE  h[o + 1] = Stuffing
    <3>1. q + o < Len(f) /\ o + 1 \in 1 .. Len(f) - q /\ q + (o + 1) = q + o + 1
      BY <1>2, <2>1
    <3> QED BY <1>2, <1>5, <3>1
  <2> QED BY <2>1 DEF Partial
<1> QED BY <1>3, <1>4, <1>5

\* A packet in which sections start.
LEMMA StartTells ==
  ASSUME SentOK(sending, sent), NEW before \in {<<>>} \cup {Bytes(t) : t \in Sections},
         NEW s \in Sections, NEW c, c = Start(before, s), c.sending = Null \/ c.sent > 0
  PROVE  /\ c.packet.start /\ c.packet.bytes \in Seq(Byte) /\ c.packet.pointer = Len(Remainder)
         /\ Len(Remainder) \in Nat /\ Len(Remainder) < Len(c.packet.bytes)
         /\ \A i \in 1 .. Len(Remainder) : c.packet.bytes[i] = Remainder[i]
         /\ \E ws : /\ c.completes = Ended \o ws /\ ws \in Seq(Sections)
                    /\ ws # <<>> \/ c.sending # Null
                    /\ Trail(SubSeq(c.packet.bytes, Len(Remainder) + 1, Len(c.packet.bytes)),
                             ws, c.sending, c.sent)
<1> DEFINE r == Remainder
           ahead == r \o before
           all == ahead \o Bytes(s)
           ends == Len(ahead) + Length[s] <= Room - 1
           f == Filled(all, Room - 1)
           q == Len(r)
           o == Len(before)
           h == SubSeq(f, q + 1, Len(f))
           ys == IF before = <<>> THEN <<>> ELSE <<before[1][1]>>
           zs == IF ends THEN <<s>> ELSE <<>>
<1>1. /\ Room \in Nat /\ Room > 1 /\ Length[s] \in Nat /\ Length[s] > 0 /\ Room - 1 \in Nat
      /\ s # Null /\ Null \notin Sections
  BY Consts, NullAssumption DEF NullAssumption
<1>2. /\ c.packet.start = TRUE /\ c.packet.pointer = q /\ c.packet.bytes = f
      /\ c.completes = Ended \o ys \o zs
      /\ c.sending = (IF ends THEN Null ELSE s)
      /\ c.sent = (IF ends THEN 0 ELSE Room - 1 - Len(ahead))
  BY DEF Start
<1>3. r \in Seq(Byte)
  BY RemainderIs
<1>4. /\ before \in Seq(Byte)
      /\ \/ before = <<>> /\ ys = <<>> /\ o = 0
         \/ \E t \in Sections : ys = <<t>> /\ o = Length[t] /\ \A i \in 1 .. o : before[i] = <<t, i>>
  <2>1. CASE before = <<>>
    BY <2>1
  <2>2. CASE \E t \in Sections : before = Bytes(t)
    <3>1. PICK t \in Sections : before = Bytes(t)
      BY <2>2
    <3>2. before \in Seq(Byte) /\ o = Length[t] /\ o > 0 /\ before[1][1] = t
      BY <3>1, BytesAre, Consts
    <3>3. \A i \in 1 .. o : before[i] = <<t, i>>
      BY <3>1, <3>2 DEF Bytes
    <3>4. before # <<>>
      BY <3>2
    <3> QED BY <3>2, <3>3, <3>4
  <2> QED BY <2>1, <2>2
<1>5. Bytes(s) \in Seq(Byte) /\ Len(Bytes(s)) = Length[s] /\ \A i \in 1 .. Length[s] : Bytes(s)[i] = <<s, i>>
  BY BytesAre DEF Bytes
<1>6. /\ ahead \in Seq(Byte) /\ Len(ahead) = q + o /\ q \in Nat /\ o \in Nat
      /\ \A i \in 1 .. q : ahead[i] = r[i]
      /\ \A i \in 1 .. o : ahead[q + i] = before[i]
  <2>1. q \in Nat /\ o \in Nat
    BY <1>3, <1>4
  <2> HIDE DEF r
  <2> QED BY <1>3, <1>4, <2>1, JoinsAll
<1> HIDE DEF ahead, r, q, o
<1>7. /\ all \in Seq(Byte) /\ Len(all) = q + o + Length[s]
      /\ \A i \in 1 .. q + o : all[i] = ahead[i]
      /\ \A i \in 1 .. Length[s] : all[q + o + i] = <<s, i>>
  <2> DEFINE bs == Bytes(s)
  <2>1. bs \in Seq(Byte) /\ Len(bs) = Length[s] /\ \A i \in 1 .. Length[s] : bs[i] = <<s, i>>
    BY <1>5
  <2>2. all = ahead \o bs
    OBVIOUS
  <2> HIDE DEF bs, all
  <2>3. /\ all \in Seq(Byte) /\ Len(all) = Len(ahead) + Len(bs)
        /\ \A i \in 1 .. Len(ahead) : all[i] = ahead[i]
        /\ \A i \in 1 .. Len(bs) : all[Len(ahead) + i] = bs[i]
    BY <1>6, <2>1, <2>2, JoinsAll
  <2> QED BY <1>6, <2>1, <2>3
<1> HIDE DEF all
<1>8. /\ f \in Seq(Byte) /\ Len(f) = Room - 1
      /\ \A i \in 1 .. Room - 1 : i <= Len(all) => f[i] = all[i]
      /\ \A i \in 1 .. Room - 1 : i > Len(all) => f[i] = Stuffing
  BY <1>1, <1>7, FilledIs, FilledOut
<1>9. /\ ends => q + o + Length[s] <= Room - 1
      /\ ~ends => Room - 1 - (q + o) > 0 /\ Room - 1 - (q + o) < Length[s]
                  /\ c.sent = Room - 1 - (q + o) /\ c.sending = s
      /\ q + o < Room - 1
  BY <1>1, <1>2, <1>6
<1> HIDE DEF f
<1>10. \A i \in 1 .. q : f[i] = r[i]
  <2>1. ASSUME NEW i \in 1 .. q
        PROVE  f[i] = r[i]
    <3>1. i \in 1 .. Room - 1 /\ i <= Len(all) /\ i \in 1 .. q + o
      BY <1>1, <1>6, <1>7, <1>9
    <3> QED BY <1>6, <1>7, <1>8, <3>1
  <2> QED BY <2>1
<1>11. q \in Nat /\ q < Len(f) /\ q <= Len(f)
  BY <1>1, <1>6, <1>8, <1>9
\* The section that starts last.
<1>12. /\ ends => Whole(h, o, s) /\ Partial(h, o + Length[s], Null, c.sent)
       /\ ~ends => Partial(h, o, s, c.sent)
  <2>1. ASSUME ends
        PROVE  Whole(h, o, s) /\ Partial(h, o + Length[s], Null, c.sent)
    <3>1. ASSUME NEW i \in 1 .. Length[s]
          PROVE  f[q + o + i] = <<s, i>>
      <4>1. q + o + i \in 1 .. Room - 1 /\ q + o + i <= Len(all)
        BY <1>1, <1>6, <1>7, <1>9, <2>1
      <4> QED BY <1>7, <1>8, <4>1
    <3>2. q + o + Length[s] <= Len(f)
      BY <1>8, <1>9, <2>1
    <3>3. Whole(h, o, s)
      BY <1>6, <1>8, <1>11, <3>1, <3>2, LaidOut
    <3> DEFINE o2 == o + Length[s]
    <3>4. ASSUME q + o2 < Len(f)
          PROVE  f[q + o2 + 1] = Stuffing
      <4>1. q + o2 + 1 \in 1 .. Room - 1 /\ q + o2 + 1 > Len(all)
        BY <1>1, <1>6, <1>7, <1>8, <3>4, SMTT(20)
      <4> QED BY <1>8, <4>1
    <3>5. o2 \in Nat
      BY <1>1, <1>6
    <3> HIDE DEF o2
    <3>6. Partial(h, o2, Null, c.sent)
      BY <1>8, <1>11, <3>4, <3>5, LaidOut
    <3> QED BY <3>3, <3>6 DEF o2
  <2>2. ASSUME ~ends
        PROVE  Partial(h, o, s, c.sent)
    <3> DEFINE n == c.sent
    <3>1. n \in Nat /\ n = Room - 1 - (q + o) /\ n < Length[s] /\ Len(f) = q + o + n
      BY <1>1, <1>6, <1>8, <1>9, <2>2
    <3> HIDE DEF n
    <3>2. ASSUME NEW i \in 1 .. n
          PROVE  f[q + o + i] = <<s, i>>
      <4>1. q + o + i \in 1 .. Room - 1 /\ q + o + i <= Len(all) /\ i \in 1 .. Length[s]
        BY <1>1, <1>6, <1>7, <1>8, <3>1
      <4> QED BY <1>7, <1>8, <4>1
    <3>3. Partial(h, o, s, n)
      BY <1>6, <1>8, <1>11, <3>1, <3>2, LaidOut
    <3> QED BY <3>3 DEF n
  <2> QED BY <2>1, <2>2
\* The section before it.
<1>13. ASSUME NEW t \in Sections, o = Length[t], \A i \in 1 .. o : before[i] = <<t, i>>
       PROVE  Whole(h, 0, t)
  <2>1. ASSUME NEW i \in 1 .. Length[t]
        PROVE  f[q + 0 + i] = <<t, i>>
    <3>0. i \in 1 .. o /\ i \in Nat /\ 1 <= i /\ i <= o
      BY <1>6, <1>13
    <3>1. q + i \in 1 .. Room - 1 /\ q + i <= Len(all) /\ q + i \in 1 .. q + o /\ q + 0 + i = q + i
      <4>1. q + i \in 1 .. q + o /\ q + 0 + i = q + i
        BY <1>6, <3>0
      <4>2. q + i \in 1 .. Room - 1
        BY <1>1, <1>6, <1>9, <3>0
      <4>3. q + i <= Len(all)
        BY <1>1, <1>6, <1>7, <3>0, SMTT(20)
      <4> QED BY <4>1, <4>2, <4>3
    <3>2. f[q + i] = ahead[q + i] /\ ahead[q + i] = before[i]
      BY <1>6, <1>7, <1>8, <3>0, <3>1
    <3> QED BY <1>13, <3>0, <3>1, <3>2
  <2>2. q + 0 + Length[t] <= Len(f) /\ 0 \in Nat
    BY <1>1, <1>6, <1>8, <1>9, <1>13
  <2> QED BY <1>8, <1>11, <2>1, <2>2, LaidOut
<1>14. Ended \in Seq(Sections)
  BY DEF Ended, SentOK
<1>15. PICK ws : /\ Trail(h, ws, c.sending, c.sent) /\ ws \in Seq(Sections)
                 /\ c.completes = Ended \o ws /\ (ws # <<>> \/ c.sending # Null)
  <2> DEFINE Fits(w) == /\ Trail(h, w, c.sending, c.sent) /\ w \in Seq(Sections)
                        /\ c.completes = Ended \o w /\ (w # <<>> \/ c.sending # Null)
  <2> SUFFICES \E w : Fits(w)
    OBVIOUS
  <2> HIDE DEF h
  <2>1. CASE ys = <<>> /\ o = 0
    <3>1. CASE ends
      <4>1. 0 + Length[s] = Length[s] /\ c.sending = Null /\ zs = <<s>>
        BY <1>1, <1>2, <3>1
      <4>2. Trail(h, <<s>>, c.sending, c.sent)
        BY <1>12, <2>1, <3>1, <4>1 DEF Trail
      <4>3. Ended \o <<>> \o <<s>> = Ended \o <<s>>
        BY <1>14
      <4>4. c.completes = Ended \o <<s>>
        BY <1>2, <2>1, <4>1, <4>3
      <4>5. <<s>> \in Seq(Sections) /\ <<s>> # <<>>
        OBVIOUS
      <4> QED BY <4>2, <4>4, <4>5
    <3>2. CASE ~ends
      <4>1. c.sending = s /\ zs = <<>>
        BY <1>9, <3>2
      <4>2. Trail(h, <<>>, c.sending, c.sent)
        BY <1>12, <2>1, <3>2, <4>1 DEF Trail
      <4>3. Ended \o <<>> \o <<>> = Ended \o <<>>
        BY <1>14
      <4>4. c.completes = Ended \o <<>>
        BY <1>2, <2>1, <4>1, <4>3
      <4>5. <<>> \in Seq(Sections)
        OBVIOUS
      <4> QED BY <1>1, <4>1, <4>2, <4>4, <4>5
    <3> QED BY <3>1, <3>2
  <2>2. CASE \E t \in Sections : ys = <<t>> /\ o = Length[t] /\ \A i \in 1 .. o : before[i] = <<t, i>>
    <3>1. PICK t \in Sections : ys = <<t>> /\ o = Length[t] /\ \A i \in 1 .. o : before[i] = <<t, i>>
      BY <2>2
    <3>2. Whole(h, 0, t)
      BY <1>13, <3>1
    <3>3. CASE ends
      <4>1. c.sending = Null /\ zs = <<s>>
        BY <1>2, <3>3
      <4>2. Trail(h, <<t, s>>, c.sending, c.sent)
        BY <1>12, <3>1, <3>2, <3>3, <4>1 DEF Trail
      <4>3. Ended \o <<t>> \o <<s>> = Ended \o <<t, s>>
        BY <1>14
      <4>4. c.completes = Ended \o <<t, s>>
        BY <1>2, <3>1, <4>1, <4>3
      <4>5. <<t, s>> \in Seq(Sections) /\ <<t, s>> # <<>>
        OBVIOUS
      <4> QED BY <4>2, <4>4, <4>5
    <3>4. CASE ~ends
      <4>1. c.sending = s /\ zs = <<>>
        BY <1>9, <3>4
      <4>2. Trail(h, <<t>>, c.sending, c.sent)
        BY <1>12, <3>1, <3>2, <3>4, <4>1 DEF Trail
      <4>3. Ended \o <<t>> \o <<>> = Ended \o <<t>>
        BY <1>14
      <4>4. c.completes = Ended \o <<t>>
        BY <1>2, <3>1, <4>1, <4>3
      <4>5. <<t>> \in Seq(Sections) /\ <<t>> # <<>>
        OBVIOUS
      <4> QED BY <4>2, <4>4, <4>5
    <3> QED BY <3>3, <3>4
  <2> QED BY <1>4, <2>1, <2>2
<1>16. c.packet.start /\ c.packet.bytes \in Seq(Byte) /\ c.packet.pointer = q /\ c.packet.bytes = f
  BY <1>2, <1>8
<1> QED BY <1>10, <1>11, <1>15, <1>16 DEF r, q, h

-----------------------------------------------------------------------------
(* The inductive invariant of keeping up.                                  *)

\* The sections ws are those of d behind the first k.
Left(d, k, ws) == Len(ws) = Len(d) - k /\ \A i \in 1 .. Len(ws) : ws[i] = d[k + i]

\* A packet has a pointer to sections of which the last is the one being sent.
Opens(k, s, n) ==
  /\ k.pointer < Len(k.bytes)
  /\ \E ws : Trail(SubSeq(k.bytes, k.pointer + 1, Len(k.bytes)), ws, s, n)

\* The bytes still to be read hold what is due of the packet and not accepted yet.
Coming ==
  \E ws : /\ Trail(rest, ws, sending, sent) /\ (ws # <<>> \/ sending # Null)
          /\ due # <<>> => \E k \in 0 .. Len(due) : Left(due, k, ws) /\ Follows(due, k, accepted)

\* The section being sent, each of its parts put once, starts in the last packet,
\* is in the bytes still to be read, or is under way with all its parts.
Shown == clean /\ sending # Null /\ packet.start => Opens(packet, sending, sent)
Ahead == pc \in {"abandon", "start"} /\ (due # <<>> \/ (clean /\ sending # Null)) => Coming
Gathered ==
  pc \in {"put", "got", "idle"} =>
    (clean /\ sending # Null => UnderWay(sending, sent)) /\ Follows(due, Len(due), accepted)

UpInv == Newest(accepted, raw, last) /\ Shown /\ Ahead /\ Gathered

\* What the invariant of the parser says of the section compared with.
LEMMA ComparedHolds ==
  ASSUME ParserInv
  PROVE  Compared
BY DEF ParserInv, Core, Latest, Compared, Stat

\* The sections accepted end with the one compared with after any step.
LEMMA NewestKept ==
  ASSUME ParserInv, Newest(accepted, raw, last), accepted' = Accepting,
         Still \/ \E bytes : Gains(bytes)
  PROVE  Newest(accepted, raw, last)'
<1>1. Compared /\ Newest(Before, raw, last)
  BY ComparedHolds, BeforeIs
<1> QED BY <1>1, NothingAccepted, OneAccepted

\* No section is due and none goes on that was put without a break.
LEMMA NothingDue ==
  ASSUME Newest(accepted, raw, last)', due' = <<>>, ~(clean' /\ sending' # Null)
  PROVE  UpInv'
<1>1. ~(Len(due') > 0)
  BY SMT
<1>2. Follows(due, Len(due), accepted)'
  BY <1>1 DEF Follows
<1> QED BY <1>2 DEF UpInv, Shown, Ahead, Gathered

\* A put may accept a section.
LEMMA PutTells ==
  ASSUME ParserInv, NEW k, PacketOK(k), Put(k)
  PROVE  Still \/ \E bytes : Gains(bytes)
<1>1. pc = "idle" /\ Kept /\ k.pointer \in Nat /\ k.bytes \in Seq(Byte)
  BY KeptHolds DEF Put, PutExclude, PutBroken, PutInclude, PacketOK
<1>2. CASE PutExclude(k)
  BY <1>1, <1>2, ContinueTells DEF PutExclude
<1>3. CASE PutBroken(k)
  BY <1>1, <1>3, AbandonTells DEF PutBroken
<1>4. CASE PutInclude(k)
  <2>1. CASE Continue(SubSeq(k.bytes, 1, k.pointer))
    <3> DEFINE bytes == k.bytes
               a == k.pointer
    <3>1. bytes \in Seq(Byte) /\ a \in Nat /\ a < Len(bytes)
      BY <1>1, <1>4 DEF PutInclude
    <3> HIDE DEF bytes, a
    <3>2. \A i \in 1 .. a : bytes[i] \in Byte
      BY <3>1
    <3>3. SubSeq(bytes, 1, a) \in Seq(Byte)
      BY <3>1, <3>2, SubSeqProperties
    <3> QED BY <1>1, <2>1, <3>3, ContinueTells DEF bytes, a
  <2>2. CASE UNCHANGED <<raw, ref, work, last, pool, buff, stat>>
    BY <2>2 DEF Still
  <2> QED BY <1>4, <2>1, <2>2 DEF PutInclude
<1> QED BY <1>2, <1>3, <1>4 DEF Put

\* A packet is lost.
LEMMA UpLose ==
  ASSUME IInv, UpInv, NEW c, Lose(c), accepted' = Accepting
  PROVE  UpInv'
<1>1. Still
  BY DEF Lose, Still
<1>2. Newest(accepted, raw, last)'
  BY <1>1, NewestKept DEF IInv, UpInv
<1>3. due' = <<>> /\ ~(clean' /\ sending' # Null)
  BY DEF Lose, Send
<1> QED BY <1>2, <1>3, NothingDue

\* A packet arrives damaged.
LEMMA UpDamaged ==
  ASSUME IInv, UpInv, NEW c, CutOK(c), ReceiveDamaged(c), accepted' = Accepting
  PROVE  UpInv'
<1>1. IInv'
  BY StepDamaged
<1>2. PacketOK(packet') /\ Put(packet')
  BY <1>1 DEF IInv, StreamInv, ReceiveDamaged
<1>3. Newest(accepted, raw, last)'
  BY <1>2, PutTells, NewestKept DEF IInv, UpInv
<1>4. due' = <<>> /\ ~(clean' /\ sending' # Null)
  BY DEF ReceiveDamaged, Send
<1> QED BY <1>3, <1>4, NothingDue

\* The last packet is put once more.
LEMMA UpRepeat ==
  ASSUME IInv, UpInv, Repeat, accepted' = Accepting
  PROVE  UpInv'
<1>1. /\ ParserInv /\ StreamInv /\ PacketOK(packet) /\ Put(packet) /\ due' = <<>>
      /\ clean' = (clean /\ (packet.start \/ sending = Null))
      /\ UNCHANGED <<sending, sent, packet>>
  BY DEF IInv, StreamInv, Repeat
<1>2. Newest(accepted, raw, last)'
  BY <1>1, PutTells, NewestKept DEF UpInv
<1>3. CASE ~(clean' /\ sending' # Null)
  BY <1>1, <1>2, <1>3, NothingDue
<1>4. CASE clean' /\ sending' # Null
  <2>1. clean /\ sending # Null /\ packet.start
    BY <1>1, <1>4
  <2>2. Opens(packet, sending, sent)
    BY <2>1 DEF UpInv, Shown
  <2>3. PutInclude(packet)
    <3>1. packet.pointer < Len(packet.bytes) /\ packet.pointer \in Nat /\ Len(packet.bytes) \in Nat
      BY <1>1, <2>2 DEF Opens, PacketOK
    <3>2. ~(packet.pointer >= Len(packet.bytes))
      BY <3>1
    <3> QED BY <1>1, <2>1, <3>2 DEF Put, PutExclude, PutBroken
  <2>4. /\ rest' = SubSeq(packet.bytes, packet.pointer + 1, Len(packet.bytes)) /\ pc' = "abandon"
    BY <2>3 DEF PutInclude
  <2>5. PICK ws : Trail(rest', ws, sending, sent)
    BY <2>2, <2>4 DEF Opens
  <2>6. Trail(rest, ws, sending, sent)'
    BY <1>1, <2>5
  <2>7. Coming'
    BY <1>1, <1>4, <2>6 DEF Coming
  <2>8. Shown'
    BY <1>1, <2>2 DEF Shown
  <2> QED BY <1>2, <2>4, <2>7, <2>8 DEF UpInv, Ahead, Gathered
<1> QED BY <1>3, <1>4

\* The bytes at the pointer are skipped; what starts there is still to be read.
LEMMA UpAbandon ==
  ASSUME IInv, UpInv, PutAbandon, UNCHANGED streamVars, accepted' = Accepting
  PROVE  UpInv'
<1>1. /\ ParserInv /\ Kept /\ pc = "abandon" /\ pc' = "start" /\ rest' = rest /\ Abandon
      /\ UNCHANGED <<sending, sent, packet, clean, due>>
  BY KeptHolds DEF IInv, PutAbandon, streamVars
<1>2. Still
  BY <1>1, AbandonTells
<1>3. Newest(accepted, raw, last)'
  BY <1>1, <1>2, NewestKept DEF UpInv
<1>4. accepted' = accepted
  <2>1. Compared /\ Newest(Before, raw, last) /\ Before = accepted
    BY <1>1, ComparedHolds, BeforeIs DEF UpInv
  <2> QED BY <1>2, <2>1, NothingAccepted
<1>5. Coming => Coming'
  BY <1>1, <1>4 DEF Coming
<1>6. Ahead'
  BY <1>1, <1>5 DEF UpInv, Ahead
<1>7. Shown'
  BY <1>1 DEF UpInv, Shown
<1> QED BY <1>1, <1>3, <1>6, <1>7 DEF UpInv, Gathered

\* The caller takes a section, gives it back or finds none.
LEMMA UpRest ==
  ASSUME IInv, UpInv, NothingToGet \/ Get \/ Ret, UNCHANGED streamVars, accepted' = Accepting
  PROVE  UpInv'
<1>1. /\ ParserInv /\ pc \in {"put", "got"} /\ pc' \in {"idle", "got"}
      /\ UNCHANGED <<raw, work, last, stat, rest>>
      /\ UNCHANGED <<sending, sent, packet, clean, due>>
  BY DEF IInv, NothingToGet, Get, Ret, streamVars
<1>2. Still
  BY <1>1 DEF Still
<1>3. Newest(accepted, raw, last)'
  BY <1>1, <1>2, NewestKept DEF UpInv
<1>4. accepted' = accepted
  <2>1. Compared /\ Newest(Before, raw, last) /\ Before = accepted
    BY <1>1, ComparedHolds, BeforeIs DEF UpInv
  <2> QED BY <1>2, <2>1, NothingAccepted
<1>5. Gathered'
  BY <1>1, <1>4 DEF UpInv, Gathered, UnderWay
<1>6. Shown'
  BY <1>1 DEF UpInv, Shown
<1> QED BY <1>1, <1>3, <1>5, <1>6 DEF UpInv, Ahead

\* One more of the sections that are due has been accepted.
LEMMA OneLess ==
  ASSUME NEW d \in Seq(Sections), NEW k \in 0 .. Len(d), NEW ws, NEW x, NEW zs,
         \/ ws = <<x>> /\ zs = <<>>
         \/ \E y : ws = <<x, y>> /\ zs = <<y>>,
         Left(d, k, ws)
  PROVE  k + 1 \in 0 .. Len(d) /\ d[k + 1] = x /\ Left(d, k + 1, zs)
<1>1. k \in Nat /\ Len(d) \in Nat
  OBVIOUS
<1>2. CASE ws = <<x>> /\ zs = <<>>
  <2>1. Len(ws) = 1 /\ Len(zs) = 0 /\ ws[1] = x /\ 1 \in 1 .. Len(ws)
    BY <1>2
  <2>2. Len(d) - k = 1 /\ d[k + 1] = x
    <3>1. Len(ws) = Len(d) - k /\ ws[1] = d[k + 1]
      BY <2>1 DEF Left
    <3>2. ws[1] = x /\ Len(ws) = 1
      BY <2>1
    <3> HIDE DEF Left
    <3> QED BY <1>1, <3>1, <3>2
  <2> QED BY <1>1, <2>1, <2>2 DEF Left
<1>3. CASE \E y : ws = <<x, y>> /\ zs = <<y>>
  <2>1. PICK y : ws = <<x, y>> /\ zs = <<y>>
    BY <1>3
  <2>2. /\ Len(ws) = 2 /\ Len(zs) = 1 /\ ws[1] = x /\ ws[2] = y /\ zs[1] = y
        /\ 1 \in 1 .. Len(ws) /\ 2 \in 1 .. Len(ws)
    BY <2>1
  <2>3. Len(d) - k = 2 /\ d[k + 1] = x /\ d[k + 2] = y
    BY <1>1, <2>2 DEF Left
  <2>4. \A i \in 1 .. Len(zs) : i = 1 /\ k + 1 + i = k + 2
    BY <1>1, <2>2
  <2>5. \A i \in 1 .. Len(zs) : zs[i] = d[k + 1 + i]
    BY <2>2, <2>3, <2>4
  <2> QED BY <1>1, <2>2, <2>3, <2>5 DEF Left
<1> QED BY <1>2, <1>3

\* The first of the sections that start is x, and the sections zs follow it.
Leads(b, ws, x, zs, s, n) ==
  /\ \/ ws = <<x>> /\ zs = <<>>
     \/ \E y : ws = <<x, y>> /\ zs = <<y>>
  /\ Whole(b, 0, x) /\ Trail(SubSeq(b, Length[x] + 1, Len(b)), zs, s, n)

\* Behind the first of the sections that start the others follow.
LEMMA Behind ==
  ASSUME NEW b \in Seq(Byte), NEW ws, NEW s \in Sections \cup {Null}, NEW n \in Nat,
         Trail(b, ws, s, n), ws # <<>>
  PROVE  \E x \in Sections : \E zs : Leads(b, ws, x, zs, s, n)
<1>1. \A x \in Sections : Length[x] \in Nat /\ Length[x] + 0 = Length[x]
  BY Consts
<1>2. CASE \E x \in Sections : ws = <<x>> /\ Whole(b, 0, x) /\ Partial(b, Length[x], s, n)
  <2>1. PICK x \in Sections : ws = <<x>> /\ Whole(b, 0, x) /\ Partial(b, Length[x], s, n)
    BY <1>2
  <2> DEFINE m == Length[x]
             h == SubSeq(b, m + 1, Len(b))
  <2>2. m \in Nat /\ m <= Len(b) /\ Partial(b, m, s, n)
    BY <1>1, <2>1, FromTheFirst
  <2>3. Partial(h, 0, s, n)
    <3>1. h = SubSeq(b, m + 1, Len(b))
      OBVIOUS
    <3>2. m = m + 0 /\ 0 \in Nat
      BY <2>2
    <3> HIDE DEF m, h
    <3> QED BY <2>2, <3>1, <3>2, ShiftedPartial, ZenonT(120)
  <2>4. Trail(h, <<>>, s, n)
    BY <2>3 DEF Trail
  <2> QED BY <2>1, <2>4 DEF Leads
<1>3. CASE \E x \in Sections, y \in Sections :
             /\ ws = <<x, y>> /\ Whole(b, 0, x) /\ Whole(b, Length[x], y)
             /\ Partial(b, Length[x] + Length[y], s, n)
  <2>1. PICK x \in Sections, y \in Sections :
             /\ ws = <<x, y>> /\ Whole(b, 0, x) /\ Whole(b, Length[x], y)
             /\ Partial(b, Length[x] + Length[y], s, n)
    BY <1>3
  <2> DEFINE m == Length[x]
             o == Length[y]
             h == SubSeq(b, m + 1, Len(b))
  <2>2. m \in Nat /\ o \in Nat /\ m <= Len(b) /\ Whole(b, m, y) /\ Partial(b, m + o, s, n)
    BY <1>1, <2>1, FromTheFirst
  <2>3. Whole(h, 0, y) /\ Partial(h, o, s, n)
    <3>1. h = SubSeq(b, m + 1, Len(b))
      OBVIOUS
    <3>2. m = m + 0 /\ 0 \in Nat
      BY <2>2
    <3> HIDE DEF m, o, h
    <3>3. Whole(h, 0, y)
      <4>1. m \in Nat /\ m <= Len(b) /\ Whole(b, m, y)
        BY <2>2
      <4> QED BY <3>1, <3>2, <4>1, ShiftedWhole, ZenonT(120)
    <3>4. Partial(h, o, s, n)
      <4> DEFINE q == m + o
      <4>1. q = m + o /\ Partial(b, q, s, n)
        BY <2>2
      <4> HIDE DEF q
      <4> QED BY <2>2, <3>1, <4>1, ShiftedPartial, ZenonT(120)
    <3> QED BY <3>3, <3>4
  <2>4. Trail(h, <<y>>, s, n)
    BY <2>3 DEF Trail
  <2> QED BY <2>1, <2>4 DEF Leads
<1> QED BY <1>2, <1>3 DEF Trail

\* Where nothing but stuffing is left, the loop over the sections ends, and only there.
LEMMA EndsWhereStuffed ==
  ASSUME NEW b \in Seq(Byte), NEW ws, NEW s \in Sections \cup {Null}, NEW n \in Nat,
         s # Null => n > 0, Trail(b, ws, s, n)
  PROVE  (b # <<>> /\ b[1] # Stuffing) <=> (ws # <<>> \/ s # Null)
<1>1. CASE ws = <<>> /\ s = Null /\ Partial(b, 0, s, n)
  <2>1. 0 < Len(b) => b[1] = Stuffing
    BY <1>1 DEF Partial
  <2>2. b # <<>> => 0 < Len(b)
    OBVIOUS
  <2> QED BY <1>1, <2>1, <2>2
<1>2. CASE ws = <<>> /\ s # Null /\ Partial(b, 0, s, n)
  <2>1. n > 0 /\ Len(b) = n /\ \A i \in 1 .. n : b[i] = <<s, i>>
    BY <1>2, FromTheFirst
  <2>2. b # <<>> /\ b[1] = <<s, 1>>
    BY <2>1
  <2> QED BY <1>2, <2>2, StuffingAssumption DEF StuffingAssumption
<1>3. CASE \E x \in Sections : Whole(b, 0, x) /\ ws # <<>>
  <2>1. PICK x \in Sections : Whole(b, 0, x) /\ ws # <<>>
    BY <1>3
  <2>2. Length[x] \in Nat /\ Length[x] > 0
    BY Consts
  <2>3. Length[x] <= Len(b) /\ \A i \in 1 .. Length[x] : b[i] = <<x, i>>
    BY <2>1, <2>2, FromTheFirst
  <2>4. b # <<>> /\ b[1] = <<x, 1>>
    BY <2>2, <2>3
  <2> QED BY <2>1, <2>4, StuffingAssumption DEF StuffingAssumption
<1>4. Trail(b, ws, s, n) => \/ ws = <<>> /\ Partial(b, 0, s, n)
                            \/ \E x \in Sections : Whole(b, 0, x) /\ ws # <<>>
  <2>1. \A x, y : <<x>> # <<>> /\ <<x, y>> # <<>>
    OBVIOUS
  <2> QED BY <2>1 DEF Trail
<1> QED BY <1>1, <1>2, <1>3, <1>4

\* One turn of the loop, with the element it takes.
LEMMA UpTurn ==
  ASSUME IInv, UpInv, pc = "start", UNCHANGED streamVars, accepted' = Accepting,
         NEW p, Core(raw, ref, last, p, buff, Null),
         NEW e \in Elems, e \notin Ran(p) \cup Ran(buff), StartIn(e, p)
  PROVE  UpInv'
<1>1. /\ ParserInv /\ rest \in Seq(Byte) /\ stat \in Stat /\ SentOK(sending, sent)
      /\ due \in Seq(Sections) /\ UNCHANGED <<sending, sent, packet, clean, due>>
  BY DEF IInv, ParserInv, StreamInv, streamVars, Stat
<1>2. Compared /\ Newest(Before, raw, last) /\ Before = accepted
  BY <1>1, ComparedHolds, BeforeIs DEF UpInv
<1>3. Newest(accepted, raw, last)'
  <2>1. Still \/ \E bytes : Gains(bytes)
    BY <1>1, TurnTells
  <2> QED BY <1>1, <2>1, NewestKept DEF UpInv
<1>4. Shown'
  BY <1>1 DEF UpInv, Shown
<1>5. CASE ~(due # <<>> \/ (clean /\ sending # Null))
  BY <1>1, <1>3, <1>5, NothingDue
<1>6. CASE due # <<>> \/ (clean /\ sending # Null)
  <2>1. Coming
    BY <1>6 DEF UpInv, Ahead
  <2>2. PICK ws : /\ Trail(rest, ws, sending, sent) /\ (ws # <<>> \/ sending # Null)
                  /\ due # <<>> => \E k \in 0 .. Len(due) : Left(due, k, ws) /\ Follows(due, k, accepted)
    BY <2>1 DEF Coming
  <2>3. sending \in Sections \cup {Null} /\ sent \in Nat /\ (sending # Null => sent > 0)
    <3>1. sending # Null => Length[sending] \in Nat /\ sent \in 1 .. Length[sending] - 1
      BY <1>1, Consts DEF SentOK
    <3> QED BY <1>1, <3>1 DEF SentOK
  <2>4. CASE ws # <<>>
    <3>1. PICK x \in Sections : \E zs : Leads(rest, ws, x, zs, sending, sent)
      BY <1>1, <2>2, <2>3, <2>4, Behind
    <3>2. PICK zs :
            /\ \/ ws = <<x>> /\ zs = <<>>
               \/ \E y : ws = <<x, y>> /\ zs = <<y>>
            /\ Whole(rest, 0, x)
            /\ Trail(SubSeq(rest, Length[x] + 1, Len(rest)), zs, sending, sent)
      BY <3>1 DEF Leads
    <3>3. /\ (Still /\ Same(Bytes(x))) \/ Gains(Bytes(x))
          /\ rest' = SubSeq(rest, Length[x] + 1, Len(rest)) /\ Length[x] <= Len(rest)
          /\ pc' = IF rest' # <<>> /\ rest'[1] # Stuffing THEN "start" ELSE "put"
      BY <1>1, <3>2, TurnWhole
    <3>4. Trail(rest', zs, sending, sent)
      BY <3>2, <3>3
    <3>5. rest' \in Seq(Byte)
      <4>1. Length[x] \in Nat
        BY Consts
      <4> QED BY <1>1, <3>3, <4>1, BehindIs
    <3>6. /\ pc' = "start" => zs # <<>> \/ sending # Null
          /\ pc' # "start" => zs = <<>> /\ sending = Null
          /\ pc' \in {"start", "put"}
      BY <2>3, <3>3, <3>4, <3>5, EndsWhereStuffed
    <3>7. ASSUME due # <<>>
          PROVE  \E k \in 0 .. Len(due) : Left(due, k, zs) /\ Follows(due, k, accepted')
      <4>1. PICK k \in 0 .. Len(due) : Left(due, k, ws) /\ Follows(due, k, accepted)
        BY <2>2, <3>7
      <4>2. k + 1 \in 0 .. Len(due) /\ due[k + 1] = x /\ Left(due, k + 1, zs)
        BY <1>1, <3>2, <4>1, OneLess
      <4>3. k \in Nat /\ k + 1 <= Len(due)
        BY <1>1, <4>1, <4>2
      <4>4. (Still /\ Same(Bytes(due[k + 1]))) \/ Gains(Bytes(due[k + 1]))
        BY <3>3, <4>2
      <4>5. Follows(due, k + 1, accepted')
        BY <1>1, <1>2, <4>1, <4>3, <4>4, OneMore
      <4> QED BY <4>2, <4>5
    <3>8. CASE pc' = "start"
      <4>1. Coming'
        BY <1>1, <3>4, <3>6, <3>7, <3>8 DEF Coming
      <4> QED BY <1>3, <1>4, <3>8, <4>1 DEF UpInv, Ahead, Gathered
    <3>9. CASE pc' # "start"
      <4>1. Follows(due, Len(due), accepted')
        <5>1. CASE due = <<>>
          <6>1. ~(Len(due) > 0)
            BY <5>1
          <6> QED BY <6>1 DEF Follows
        <5>2. CASE due # <<>>
          <6>1. PICK k \in 0 .. Len(due) : Left(due, k, zs) /\ Follows(due, k, accepted')
            BY <3>7, <5>2
          <6>2. Len(zs) = 0
            BY <3>6, <3>9
          <6>3. k = Len(due)
            BY <1>1, <6>1, <6>2 DEF Left
          <6> QED BY <6>1, <6>3
        <5> QED BY <5>1, <5>2
      <4>2. Gathered'
        BY <1>1, <3>6, <3>9, <4>1 DEF Gathered
      <4> QED BY <1>3, <1>4, <3>6, <3>9, <4>2 DEF UpInv, Ahead
    <3> QED BY <3>8, <3>9
  <2>5. CASE ws = <<>>
    <3>1. sending \in Sections /\ sending # Null /\ sent \in 1 .. Length[sending] - 1
      BY <1>1, <2>2, <2>5 DEF SentOK
    <3>2. Partial(rest, 0, sending, sent)
      <4>1. \A x, y : <<x>> # <<>> /\ <<x, y>> # <<>>
        OBVIOUS
      <4> QED BY <2>2, <2>5, <4>1 DEF Trail
    <3>3. PICK s \in Sections, n \in Nat : s = sending /\ n = sent
      BY <2>3, <3>1
    <3>4. n \in 1 .. Length[s] - 1 /\ Partial(rest, 0, s, n)
      BY <3>1, <3>2, <3>3
    <3>5. Still /\ UnderWay(s, n)' /\ pc' = "put"
      BY <1>1, <3>4, TurnPart
    <3>6. accepted' = accepted
      BY <1>2, <3>5, NothingAccepted
    <3>7. Follows(due, Len(due), accepted)
      <4>1. CASE due = <<>>
        <5>1. ~(Len(due) > 0)
          BY <4>1
        <5> QED BY <5>1 DEF Follows
      <4>2. CASE due # <<>>
        <5>1. PICK k \in 0 .. Len(due) : Left(due, k, ws) /\ Follows(due, k, accepted)
          BY <2>2, <4>2
        <5>2. Len(ws) = 0
          BY <2>5
        <5>3. k = Len(due)
          BY <1>1, <5>1, <5>2 DEF Left
        <5> QED BY <5>1, <5>3
      <4> QED BY <4>1, <4>2
    <3>8. UnderWay(sending, sent)'
      BY <1>1, <3>3, <3>5 DEF UnderWay
    <3>9. Gathered'
      BY <1>1, <3>6, <3>7, <3>8 DEF Gathered
    <3> QED BY <1>3, <1>4, <3>5, <3>9 DEF UpInv, Ahead
  <2> QED BY <2>4, <2>5
<1> QED BY <1>5, <1>6

\* The loop takes an element that is free.
LEMMA UpStart ==
  ASSUME IInv, UpInv, PutStart, UNCHANGED streamVars, accepted' = Accepting
  PROVE  UpInv'
<1>1. /\ pc = "start" /\ Core(raw, ref, last, pool, buff, Null)
  BY KeptHolds DEF IInv, PutStart, Kept
<1>2. CASE \E i \in Reusable : StartIn(pool[i], Unlinked(i))
  <2>1. PICK i \in Reusable : StartIn(pool[i], Unlinked(i))
    BY <1>2
  <2> DEFINE p == Unlinked(i)
             e == pool[i]
  <2>2. /\ Core(raw, ref, last, p, buff, Null)
        /\ e \in Elems /\ e \notin Ran(p) \cup Ran(buff) /\ StartIn(e, p)
    BY <1>1, <2>1, Reused
  <2> HIDE DEF p, e
  <2> QED BY <1>1, <2>2, UpTurn
<1>3. CASE \E e \in Fresh : StartIn(e, pool)
  <2>1. PICK e \in Fresh : StartIn(e, pool)
    BY <1>3
  <2>2. e \in Elems /\ e \notin Ran(pool) \cup Ran(buff)
    BY DEF Fresh, InUse, Ran
  <2> QED BY <1>1, <2>1, <2>2, UpTurn
<1> QED BY <1>2, <1>3 DEF PutStart

\* The packet that arrives only goes on with the section being sent.
LEMMA UpContinuation ==
  ASSUME IInv, UpInv, sending # Null, NEW c, c = Continuation, CutOK(c), Receive(c),
         accepted' = Accepting
  PROVE  UpInv'
<1> DEFINE f == c.packet.bytes
<1>1. /\ ParserInv /\ SentOK(sending, sent) /\ Put(c.packet) /\ PacketOK(c.packet)
      /\ sending' = c.sending /\ sent' = c.sent /\ packet' = c.packet
      /\ due' = (IF clean \/ c.completes = <<>> THEN c.completes ELSE Tail(c.completes))
      /\ clean' = (clean \/ Fresher(c))
  BY DEF IInv, StreamInv, CutOK, Receive, Send
<1>2. /\ ~c.packet.start /\ f \in Seq(Byte) /\ Len(f) = Room
      /\ \/ /\ Length[sending] - sent <= Room
            /\ c.completes = <<sending>> /\ c.sending = Null
            /\ \A i \in 1 .. Length[sending] - sent : f[i] = <<sending, sent + i>>
         \/ /\ sent + Room < Length[sending]
            /\ c.completes = <<>> /\ c.sending = sending /\ c.sent = sent + Room
            /\ \A i \in 1 .. Room : f[i] = <<sending, sent + i>>
  BY <1>1, ContinuationTells
<1>3. Newest(accepted, raw, last)'
  BY <1>1, PutTells, NewestKept DEF UpInv
<1>4. PutExclude(c.packet)
  BY <1>1, <1>2 DEF Put, PutBroken, PutInclude
<1>5. pc = "idle" /\ pc' = "put" /\ Continue(f) /\ Kept
  BY <1>1, <1>4, KeptHolds DEF PutExclude
<1>6. PICK s \in Sections, n \in Nat : s = sending /\ n = sent
  BY <1>1 DEF SentOK
<1>7. n \in 1 .. Length[s] - 1 /\ s # Null /\ Length[s] \in Nat /\ Room \in Nat
  BY <1>1, <1>6, Consts DEF SentOK
<1>8. Compared /\ Newest(Before, raw, last)
  BY <1>1, ComparedHolds, BeforeIs DEF UpInv
<1> HIDE DEF f
<1>9. CASE ~clean
  <2>1. due' = <<>>
    <3>1. Tail(<<sending>>) = <<>>
      OBVIOUS
    <3> QED BY <1>1, <1>2, <1>9, <3>1
  <2>2. ~(clean' /\ sending' # Null)
    BY <1>1, <1>2, <1>9 DEF Fresher
  <2> QED BY <1>3, <2>1, <2>2, NothingDue
<1>10. ASSUME clean
       PROVE  UnderWay(s, n)
  BY <1>5, <1>6, <1>7, <1>10 DEF UpInv, Gathered
<1>11. CASE clean /\ c.completes = <<s>> /\ c.sending = Null /\ Length[s] - n <= Room
            /\ \A i \in 1 .. Length[s] - n : f[i] = <<s, n + i>>
  <2>1. Len(f) >= Length[s] - n
    BY <1>2, <1>7, <1>11
  <2>2. (Still /\ Same(Bytes(s))) \/ Gains(Bytes(s))
    BY <1>2, <1>5, <1>7, <1>10, <1>11, <2>1, ContinueEnds
  <2>3. PICK d \in Seq(Sections), k \in Nat :
          d = <<s>> /\ Len(d) = 1 /\ d[1] = s /\ k = 0 /\ k + 1 <= Len(d) /\ k + 1 = 1
    <3>1. <<s>> \in Seq(Sections) /\ Len(<<s>>) = 1 /\ <<s>>[1] = s
      OBVIOUS
    <3>2. 0 \in Nat /\ 0 + 1 = 1 /\ 0 + 1 <= 1
      OBVIOUS
    <3> QED BY <3>1, <3>2
  <2>4. Follows(d, k, Before)
    BY <2>3 DEF Follows
  <2>5. (Still /\ Same(Bytes(d[k + 1]))) \/ Gains(Bytes(d[k + 1]))
    BY <2>2, <2>3
  <2>6. Follows(d, k + 1, accepted')
    BY <1>8, <2>3, <2>4, <2>5, OneMore
  <2>7. due' = d /\ Len(d) = k + 1
    BY <1>1, <1>11, <2>3
  <2>8. Follows(due, Len(due), accepted)'
    BY <2>6, <2>7
  <2>9. sending' = Null
    BY <1>1, <1>11
  <2>10. Gathered' /\ Shown' /\ Ahead'
    BY <1>5, <2>8, <2>9 DEF Gathered, Shown, Ahead
  <2> QED BY <1>3, <2>10 DEF UpInv
<1>12. CASE clean /\ c.completes = <<>> /\ c.sending = s /\ c.sent = n + Room
            /\ n + Room < Length[s] /\ \A i \in 1 .. Room : f[i] = <<s, n + i>>
  <2>1. Still /\ UnderWay(s, n + Len(f))'
    BY <1>2, <1>5, <1>7, <1>10, <1>12, ContinueGrows
  <2>2. /\ work' # Null /\ Partial(raw'[work'], 0, s, n + Room)
    <3>1. \A m : m = Len(f) => (work' # Null /\ Partial(raw'[work'], 0, s, n + m))
      BY <2>1, <1>5 DEF UnderWay
    <3> QED BY <1>2, <3>1
  <2>3. sending' = s /\ sent' = n + Room /\ due' = <<>>
    BY <1>1, <1>12
  <2>4. UnderWay(sending, sent)'
    BY <2>2, <2>3 DEF UnderWay
  <2>5. Follows(due, Len(due), accepted)'
    <3>1. ~(Len(due') > 0)
      BY <2>3, SMT
    <3> QED BY <3>1 DEF Follows
  <2>6. ~packet'.start
    BY <1>1, <1>2
  <2>7. Gathered' /\ Shown' /\ Ahead'
    BY <1>5, <2>4, <2>5, <2>6 DEF Gathered, Shown, Ahead
  <2> QED BY <1>3, <2>7 DEF UpInv
<1> QED BY <1>2, <1>6, <1>9, <1>11, <1>12

\* A section put before others.
LEMMA Prefixed ==
  ASSUME NEW s \in Sections, NEW ws \in Seq(Sections), NEW d, d = <<s>> \o ws
  PROVE  /\ d \in Seq(Sections) /\ d # <<>> /\ Len(d) = Len(ws) + 1 /\ Len(ws) \in Nat /\ d[1] = s
         /\ Tail(d) = ws /\ \A i \in 1 .. Len(ws) : d[1 + i] = ws[i]
<1> DEFINE e == <<s>>
<1>1. e \in Seq(Sections) /\ Len(e) = 1 /\ e[1] = s /\ d = e \o ws
  OBVIOUS
<1> HIDE DEF e
<1>2. /\ d \in Seq(Sections) /\ Len(d) = Len(e) + Len(ws) /\ Len(ws) \in Nat
      /\ \A i \in 1 .. Len(e) : d[i] = e[i]
      /\ \A i \in 1 .. Len(ws) : d[Len(e) + i] = ws[i]
  BY <1>1
<1>3. /\ Len(d) = Len(ws) + 1 /\ d[1] = s /\ \A i \in 1 .. Len(ws) : d[1 + i] = ws[i]
  BY <1>1, <1>2
<1>4. d # <<>>
  BY <1>2, <1>3
<1> DEFINE t == Tail(d)
<1>5. t \in Seq(Sections) /\ Len(t) = Len(ws) /\ \A i \in 1 .. Len(ws) : t[i] = d[i + 1]
  <2>1. /\ Tail(d) \in Seq(Sections) /\ Len(Tail(d)) = Len(d) - 1
        /\ \A i \in 1 .. Len(Tail(d)) : Tail(d)[i] = d[i + 1]
    BY <1>2, <1>4, HeadTailProperties
  <2> HIDE DEF t
  <2> QED BY <1>2, <1>3, <2>1 DEF t
<1> HIDE DEF t
<1>6. \A i \in 1 .. Len(t) : t[i] = ws[i]
  BY <1>2, <1>3, <1>5
<1>7. t = ws
  BY <1>5, <1>6, SeqEqual
<1> QED BY <1>2, <1>3, <1>4, <1>7 DEF t

\* Sections start in the packet that arrives.
LEMMA UpStarts ==
  ASSUME IInv, UpInv, NEW before \in {<<>>} \cup {Bytes(t) : t \in Sections},
         NEW x \in Sections, NEW c, c = Start(before, x), c.sending = Null \/ c.sent > 0,
         CutOK(c), Receive(c), accepted' = Accepting
  PROVE  UpInv'
<1> DEFINE f == c.packet.bytes
           q == Len(Remainder)
           data == SubSeq(f, 1, q)
<1>1. /\ ParserInv /\ SentOK(sending, sent) /\ (sending = Null => clean) /\ clean \in BOOLEAN
      /\ Put(c.packet) /\ PacketOK(c.packet)
      /\ sending' = c.sending /\ sent' = c.sent /\ packet' = c.packet
      /\ due' = (IF clean \/ c.completes = <<>> THEN c.completes ELSE Tail(c.completes))
      /\ clean' = (clean \/ Fresher(c))
  BY DEF IInv, StreamInv, CutOK, Receive, Send
<1>2. /\ c.packet.start /\ f \in Seq(Byte) /\ c.packet.pointer = q
      /\ q \in Nat /\ q < Len(f) /\ \A i \in 1 .. q : f[i] = Remainder[i]
      /\ \E ws : /\ c.completes = Ended \o ws /\ ws \in Seq(Sections)
                 /\ ws # <<>> \/ c.sending # Null
                 /\ Trail(SubSeq(f, q + 1, Len(f)), ws, c.sending, c.sent)
  <2>1. SentOK(sending, sent) /\ (c.sending = Null \/ c.sent > 0)
    BY <1>1
  <2> QED BY <2>1, StartTells, ZenonT(60)
<1>3. Newest(accepted, raw, last)'
  <2>1. Still \/ \E bytes : Gains(bytes)
    <3>1. ParserInv /\ PacketOK(c.packet) /\ Put(c.packet)
      BY <1>1
    <3> QED BY <3>1, PutTells
  <2>2. ParserInv /\ Newest(accepted, raw, last)
    BY <1>1 DEF UpInv
  <2> HIDE DEF f, q, data
  <2> QED BY <2>1, <2>2, NewestKept
<1>4. Compared /\ Newest(Before, raw, last)
  BY <1>1, ComparedHolds, BeforeIs DEF UpInv
<1> HIDE DEF q, f
<1>5. PutInclude(c.packet)
  <2>1. ~(c.packet.pointer >= Len(c.packet.bytes))
    BY <1>2 DEF f
  <2> QED BY <1>1, <1>2, <2>1 DEF Put, PutExclude, PutBroken
<1>6. /\ pc = "idle" /\ pc' = "abandon" /\ rest' = SubSeq(f, q + 1, Len(f)) /\ Kept
      /\ q > 0 => Continue(data)
  BY <1>1, <1>2, <1>5, KeptHolds DEF PutInclude, f
<1>7. PICK ws : /\ c.completes = Ended \o ws /\ ws \in Seq(Sections)
                /\ ws # <<>> \/ c.sending # Null
                /\ Trail(SubSeq(f, q + 1, Len(f)), ws, c.sending, c.sent)
  BY <1>2
<1>8. Trail(rest', ws, sending', sent')
  BY <1>1, <1>6, <1>7
<1>9. Opens(c.packet, c.sending, c.sent)
  BY <1>2, <1>7 DEF Opens, f
<1>10. Shown'
  BY <1>1, <1>9 DEF Shown
<1>11. clean' = TRUE
  BY <1>1, <1>2 DEF Fresher
<1>12. ASSUME NEW k \in Nat, k \in 0 .. Len(due'), Left(due', k, ws), Follows(due', k, accepted')
       PROVE  UpInv'
  <2>1. Coming'
    BY <1>1, <1>7, <1>8, <1>12 DEF Coming
  <2> QED BY <1>3, <1>6, <1>10, <2>1 DEF UpInv, Ahead, Gathered
<1>13. CASE due' = ws
  <2>1. PICK k \in Nat : k = 0
    OBVIOUS
  <2>2. k \in 0 .. Len(ws) /\ Len(ws) \in Nat
    BY <1>7, <2>1
  <2>3. Left(ws, k, ws)
    BY <2>1, <2>2 DEF Left
  <2>4. Follows(ws, k, accepted')
    BY <2>1 DEF Follows
  <2> QED BY <1>12, <1>13, <2>2, <2>3, <2>4
<1>14. CASE sending = Null
  <2>1. Ended = <<>> /\ Ended \o ws = ws
    BY <1>7, <1>14 DEF Ended
  <2> QED BY <1>1, <1>7, <1>13, <1>14, <2>1
<1>15. CASE sending # Null
  <2>1. PICK s \in Sections, n \in Nat : s = sending /\ n = sent
    BY <1>1, <1>15 DEF SentOK
  <2>2. n \in 1 .. Length[s] - 1 /\ s # Null /\ Length[s] \in Nat
    BY <1>1, <1>15, <2>1, Consts DEF SentOK
  <2>3. PICK d : d = <<s>> \o ws
    OBVIOUS
  <2>4. /\ d \in Seq(Sections) /\ d # <<>> /\ Len(d) = Len(ws) + 1 /\ Len(ws) \in Nat /\ d[1] = s
        /\ Tail(d) = ws /\ \A i \in 1 .. Len(ws) : d[1 + i] = ws[i]
    BY <1>7, <2>3, Prefixed
  <2>5. c.completes = d
    BY <1>7, <1>15, <2>1, <2>3 DEF Ended
  <2>6. CASE ~clean
    BY <1>1, <1>13, <2>4, <2>5, <2>6
  <2>7. CASE clean
    <3>1. due' = d
      BY <1>1, <2>5, <2>7
    <3>2. UnderWay(s, n)
      BY <1>6, <2>1, <2>2, <2>7 DEF UpInv, Gathered
    <3>3. q = Length[s] - n /\ q > 0
      BY <1>1, <1>15, <2>1, <2>2, RemainderIs DEF q
    <3>4. data \in Seq(Byte) /\ Len(data) = q /\ \A i \in 1 .. q : data[i] = f[i]
      <4>1. \A i \in 1 .. q : f[i] \in Byte
        BY <1>2
      <4> QED BY <1>2, <4>1, SubSeqProperties
    <3>5. \A i \in 1 .. q : data[i] = <<s, n + i>>
      BY <1>1, <1>2, <1>15, <2>1, <3>3, <3>4, RemainderGoesOn
    <3> HIDE DEF data
    <3>6. Continue(data) /\ Len(data) >= Length[s] - n /\ \A i \in 1 .. Length[s] - n : data[i] = <<s, n + i>>
      BY <1>2, <1>6, <3>3, <3>4, <3>5
    <3>7. (Still /\ Same(Bytes(s))) \/ Gains(Bytes(s))
      BY <1>6, <2>2, <3>2, <3>4, <3>6, ContinueEnds
    <3>8. PICK k \in Nat : k = 0 /\ k + 1 = 1
      OBVIOUS
    <3>9. Follows(d, k, Before) /\ k + 1 <= Len(d)
      BY <2>4, <3>8 DEF Follows
    <3>10. (Still /\ Same(Bytes(d[k + 1]))) \/ Gains(Bytes(d[k + 1]))
      BY <2>4, <3>7, <3>8
    <3>11. Follows(d, k + 1, accepted')
      BY <1>4, <2>4, <3>9, <3>10, OneMore
    <3>12. PICK j \in Nat : j = k + 1
      OBVIOUS
    <3>13. j = 1 /\ j \in 0 .. Len(d)
      BY <2>4, <3>8, <3>12
    <3>14. Left(d, j, ws)
      BY <2>4, <3>13 DEF Left
    <3> QED BY <1>12, <3>1, <3>11, <3>12, <3>13, <3>14
  <2> QED BY <2>6, <2>7
<1> QED BY <1>14, <1>15

\* A packet arrives.
LEMMA UpReceive ==
  ASSUME IInv, UpInv, NEW c \in Cuts, Receive(c), accepted' = Accepting
  PROVE  UpInv'
<1>1. CutOK(c)
  BY CutsOK DEF IInv, StreamInv
<1>2. CASE c \in (IF sending = Null THEN {} ELSE {Continuation})
  BY <1>1, <1>2, UpContinuation
<1>3. CASE \E before \in {<<>>} \cup {Bytes(t) : t \in Sections}, s \in Sections :
             c = Start(before, s) /\ (c.sending = Null \/ c.sent > 0)
  <2>1. PICK before \in {<<>>} \cup {Bytes(t) : t \in Sections}, s \in Sections :
               c = Start(before, s) /\ (c.sending = Null \/ c.sent > 0)
    BY <1>3
  <2> QED BY <1>1, <2>1, UpStarts
<1> QED BY <1>2, <1>3 DEF Cuts

\* Nothing is sent at first.
LEMMA Up0 ==
  ASSUME Init
  PROVE  UpInv
<1>1. /\ last = Null /\ pc = "idle" /\ sending = Null /\ due = <<>> /\ accepted = <<>>
  BY DEF Init, ParserInit
<1>2. Newest(accepted, raw, last)
  <2>1. <<>> \in Seq(Seq(Byte))
    OBVIOUS
  <2> QED BY <1>1, <2>1 DEF Newest
<1>3. Follows(due, Len(due), accepted)
  <2>1. ~(Len(due) > 0)
    BY <1>1, SMT
  <2> QED BY <2>1 DEF Follows
<1> QED BY <1>1, <1>2, <1>3 DEF UpInv, Shown, Ahead, Gathered

\* Every step of the parser and its stream.
LEMMA UpAny ==
  ASSUME IInv, UpInv, [Next]_vars
  PROVE  UpInv'
<1>1. CASE Broadcast /\ accepted' = Accepting
  <2>1. PICK c \in Cuts : Receive(c) \/ Lose(c) \/ ReceiveDamaged(c)
    BY <1>1 DEF Broadcast
  <2>2. CutOK(c)
    BY CutsOK DEF IInv, StreamInv
  <2> QED BY <1>1, <2>1, <2>2, UpReceive, UpLose, UpDamaged
<1>2. CASE Repeat /\ accepted' = Accepting
  BY <1>2, UpRepeat
<1>3. CASE Parse /\ UNCHANGED streamVars /\ accepted' = Accepting
  BY <1>3, UpAbandon, UpStart, UpRest DEF Parse
<1>4. CASE UNCHANGED vars
  <2>1. UNCHANGED <<raw, work, last, rest, pc, sending, sent, packet, clean, due, accepted>>
    BY <1>4 DEF vars
  <2>2. Coming => Coming'
    BY <2>1 DEF Coming
  <2>3. Gathered'
    BY <2>1 DEF UpInv, Gathered, UnderWay
  <2> QED BY <2>1, <2>2, <2>3 DEF UpInv, Shown, Ahead
<1> QED BY <1>1, <1>2, <1>3, <1>4 DEF Next, Done

\* A section whose every part was put once is accepted by the put that brings
\* its last part, or is the one accepted just before it, however sections are cut
\* into packets and whatever was lost, damaged or repeated before
\* (src/b1/ts_section_parser.c:290 and 324).
THEOREM AcceptedInTime == Spec => []KeepsUp
<1>1. Init => UpInv
  BY Up0
<1>2. IInv /\ UpInv /\ [Next]_vars => UpInv'
  BY UpAny
<1>3. IInv /\ UpInv => KeepsUp
  <2> SUFFICES ASSUME IInv, UpInv, pc = "idle", due # <<>>
               PROVE  KeepsUp
    BY DEF KeepsUp
  <2>1. Len(due) > 0
    BY DEF IInv, StreamInv
  <2>2. Follows(due, Len(due), accepted)
    BY DEF UpInv, Gathered
  <2> QED BY <2>1, <2>2 DEF Follows, KeepsUp
<1> QED BY <1>1, <1>2, <1>3, Inductive, PTL DEF Spec
=============================================================================
