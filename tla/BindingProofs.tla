--------------------------- MODULE BindingProofs ---------------------------
(***************************************************************************)
(* Theorems of module PidMap about what a whole PMT does, over the steps   *)
(* that proc_pmt takes for it: its streams are bound to the decryptors it  *)
(* announces, and those it repeats keep theirs.                            *)
(***************************************************************************)
EXTENDS PidMapProofs

-----------------------------------------------------------------------------
(* What a change of the tables spares: the bindings of the PIDs outside S, *)
(* the registrations of decryptors that live on, and their ECM PIDs.       *)

Spares(t, w, S) ==
  /\ \A q \in Pid \ S :
       /\ t.map[q].type = "OTHER" => w.map[q].type = "OTHER" /\ w.map[q].target = t.map[q].target
       /\ t.map[q].type = "ECM" /\ t.map[q].target \in w.live =>
            w.map[q].type = "ECM" /\ w.map[q].target = t.map[q].target
       /\ w.map[q].type = "OTHER" => t.map[q].type = "OTHER"
  /\ \A d \in t.live \cap w.live : w.ecm[d] = t.ecm[d]

\* ... without a new decryptor.
Lessens(t, w, S) == w \in Tables /\ w.live \subseteq t.live /\ Spares(t, w, S)

\* One change after another, the second without a new decryptor.
LEMMA SparesThen ==
  ASSUME NEW t, NEW u, NEW w, NEW S, Spares(t, u, S), Lessens(u, w, S)
  PROVE  Spares(t, w, S) /\ (u.live \subseteq t.live => Lessens(t, w, S))
BY DEF Spares, Lessens

\* What is spared outside S is spared outside a larger set.
LEMMA SparesLess ==
  ASSUME NEW t, NEW w, NEW S, NEW R, S \subseteq R
  PROVE  (Spares(t, w, S) => Spares(t, w, R)) /\ (Lessens(t, w, S) => Lessens(t, w, R))
BY DEF Spares, Lessens

\* Nothing changed, or one entry.
LEMMA EntrySpares ==
  ASSUME NEW t \in Tables, NEW p, NEW v, NEW u, u = t \/ SetTo(t, u, p, v)
  PROVE  Lessens(t, u, {p})
BY DEF Lessens, Spares, SetTo

\* A count set.
LEMMA CountSpares ==
  ASSUME NEW t \in Tables, NEW d \in Dec, NEW n \in Int, NEW u, u = [t EXCEPT !.ref[d] = n]
  PROVE  Lessens(t, u, {})
<1>1. u \in Tables /\ u.map = t.map /\ u.live = t.live /\ u.ecm = t.ecm
  BY CountIs
<1> QED BY <1>1 DEF Lessens, Spares

\* remove_decryptor.
LEMMA RemoveSpares ==
  ASSUME NEW t \in Tables, NEW d \in Dec, NEW w, w = remove_decryptor(t, d)
  PROVE  Lessens(t, w, {})
<1>1. /\ w \in Tables /\ w.live = t.live \ {d}
      /\ \A e \in Dec \ {d} : w.ecm[e] = t.ecm[e]
      /\ \A q \in Pid : IF RegisteredFor(t, q, d) THEN Freed(t.map[q], w.map[q])
                                                  ELSE w.map[q] = t.map[q]
  BY RemoveIs
<1>2. t.live \subseteq Dec
  BY DEF Tables
<1> QED BY <1>1, <1>2 DEF Lessens, Spares, RegisteredFor, Freed

\* A reference dropped.
LEMMA DropSpares ==
  ASSUME NEW t \in Tables, NEW d \in Dec, NEW w, w = Drop(t, d)
  PROVE  Lessens(t, w, {})
<1>1. /\ w \in Tables /\ Dropped(t, w, d)
      /\ \A q \in Pid : IF t.ref[d] < 2 /\ RegisteredFor(t, q, d)
                           THEN Freed(t.map[q], w.map[q]) ELSE w.map[q] = t.map[q]
  BY DropIs
<1>2. t.live \subseteq Dec /\ t.ref[d] \in Int
  BY DEF Tables
<1>3. CASE t.ref[d] < 2
  BY <1>1, <1>2, <1>3 DEF Dropped, Lessens, Spares, RegisteredFor, Freed
<1>4. CASE t.ref[d] >= 2
  <2>1. w.live = t.live /\ \A q \in Pid : w.map[q] = t.map[q]
    BY <1>1, <1>2, <1>4 DEF Dropped
  <2>2. \A e \in Dec : w.ecm[e] = t.ecm[e]
    BY <1>1, <1>4 DEF Dropped
  <2> QED BY <1>1, <1>2, <2>1, <2>2 DEF Lessens, Spares
<1> QED BY <1>2, <1>3, <1>4

\* An entry of a stream leads to a decryptor or to none.
Leads(t, p) == t.map[p].type = "OTHER" => t.map[p].target \in Dec \cup {NULL}

\* The decryptor an entry was bound to is released.
LEMMA ReleaseSpares ==
  ASSUME NEW t \in Tables, NEW p, Leads(t, p)
  PROVE  Lessens(t, Release(t, p), {})
<1>1. CASE t.map[p].type = "OTHER" /\ t.map[p].target # NULL
  BY <1>1, DropSpares DEF Release, Leads
<1>2. CASE ~(t.map[p].type = "OTHER" /\ t.map[p].target # NULL)
  BY <1>2 DEF Release, Lessens, Spares
<1> QED BY <1>1, <1>2

\* unref_stream.
LEMMA UnrefSpares ==
  ASSUME NEW t, NEW h, Books(t, h, NULL), NEW p \in Pid,
         NEW w, w = unref_stream(t, p)
  PROVE  Lessens(t, w, {p})
<1> DEFINE n == Decr(t.map[p].ref)
           u == Release(t, p)
<1>1. t \in Tables /\ Leads(t, p) /\ n \in 0 .. RefMod - 1
  BY AnEntry, Consts DEF Books, Targets, Target, Tables, Leads, Decr
<1>2. w = IF n >= 1 THEN [t EXCEPT !.map[p].ref = n] ELSE [u EXCEPT !.map[p] = Blank]
  BY DEF unref_stream, Release
<1> HIDE DEF n, u
<1>3. CASE n >= 1
  <2> DEFINE v == Record(n, t.map[p].type, t.map[p].target)
  <2>1. v \in Entry
    BY <1>1, AnEntry, MakeEntry
  <2>2. SetTo(t, w, p, v)
    BY <1>1, <1>2, <1>3, <2>1, SetRef
  <2> QED BY <1>1, <2>2, EntrySpares
<1>4. CASE ~(n >= 1)
  <2>1. Lessens(t, u, {})
    BY <1>1, ReleaseSpares DEF u
  <2>2. Blank \in Entry
    BY Consts DEF Blank, Entry, Type
  <2>3. SetTo(u, w, p, Blank)
    BY <1>2, <1>4, <2>1, <2>2, SetIs DEF Lessens
  <2>4. Lessens(u, w, {p}) /\ Lessens(t, u, {p})
    BY <2>1, <2>3, EntrySpares, SparesLess DEF Lessens
  <2> QED BY <2>4, SparesThen DEF Lessens
<1> QED BY <1>3, <1>4

\* set_decryptor: the PID's entry leads to the decryptor, which is one of the PID.
RegisteredAs(u, p, d) ==
  /\ u.map[p].type = "ECM" /\ u.map[p].target = d /\ d # NULL /\ d \in u.live /\ u.ecm[d] = p

\* set_decryptor makes it so, and spares the other PIDs.
LEMMA RegisterSpares ==
  ASSUME NEW t, NEW h, Books(t, h, NULL), NEW p \in EcmPid,
         t.map[p].type \notin {"EMM", "PMT"}, NEW r \in set_decryptor(t, p)
  PROVE  /\ Spares(t, r[1], {p}) /\ RegisteredAs(r[1], p, r[2])
         /\ Registered(t, p) => r = <<t, t.map[p].target>>
<1>1. /\ t \in Tables /\ t.live \subseteq Dec /\ p \in Pid /\ Leads(t, p)
      /\ Books(r[1], h, r[2]) /\ r[1] \in Tables /\ r[1].live \subseteq Dec
      /\ r[2] \in r[1].live /\ r[1].map[p].type = "ECM"
  <2>1. Books(r[1], h, r[2]) /\ r[2] \in r[1].live /\ r[1].map[p].type = "ECM"
    BY SetDecryptor
  <2> QED BY <2>1, Consts DEF Books, Targets, Target, Tables, Leads
<1>2. r[2] # NULL /\ r[1].ecm[r[1].map[p].target] = p
  BY <1>1, Consts DEF Books, Targets, Target
<1>3. CASE Registered(t, p)
  <2>1. r = <<t, t.map[p].target>>
    BY <1>3 DEF set_decryptor
  <2> QED BY <1>1, <1>2, <2>1 DEF RegisteredAs, Spares
<1>4. CASE ~Registered(t, p)
  <2>1. PICK d \in Dec \ t.live : r = <<Register(t, p, d), d>>
    BY <1>4 DEF set_decryptor
  <2> DEFINE n == [t EXCEPT !.live = @ \cup {d}, !.ref[d] = 0, !.ecm[d] = p]
             u == Release(n, p)
             w == Register(t, p, d)
             v == Record(u.map[p].ref, "ECM", d)
  <2>2. Alive(t, n, d, t.live \cup {d}, p)
    BY Made
  <2> HIDE DEF n
  <2>3. n \in Tables /\ n.map = t.map /\ n.live = t.live \cup {d} /\ Leads(n, p)
    BY <1>1, <2>2 DEF Alive, Leads
  <2>4. Spares(t, n, {})
    BY <1>1, <2>2 DEF Alive, Spares
  <2>5. w = [u EXCEPT !.map[p].type = "ECM", !.map[p].target = d]
    BY <2>3 DEF Register, Release, n
  <2>6. Lessens(n, u, {}) /\ u \in Tables
    BY <2>3, ReleaseSpares DEF Lessens
  <2> HIDE DEF u, w
  <2>7. v \in Entry /\ v.type = "ECM" /\ v.target = d
    BY <1>1, <2>6, AnEntry, MakeEntry DEF Type
  <2>8. v = Record(u.map[p].ref, "ECM", d)
    OBVIOUS
  <2> HIDE DEF v
  <2>9. SetTo(u, w, p, v)
    BY <1>1, <2>5, <2>6, <2>7, <2>8, SetTypeTarget
  <2>10. Spares(t, u, {p})
    <3>1. Spares(t, u, {})
      BY <2>4, <2>6, SparesThen
    <3> QED BY <3>1, SparesLess
  <2>11. Lessens(u, w, {p}) /\ w.map[p].target = d
    BY <2>6, <2>7, <2>9, EntrySpares DEF SetTo
  <2>12. Spares(t, w, {p})
    BY <2>10, <2>11, SparesThen
  <2>13. r[1] = w /\ r[2] = d
    BY <2>1 DEF w
  <2> QED BY <1>1, <1>2, <1>4, <2>11, <2>12, <2>13 DEF RegisteredAs
<1> QED BY <1>3, <1>4

\* A stream's entry, and what the call makes of it.
Binds(t, p, d, w) ==
  /\ t \in Tables /\ p \in Pid /\ t.map[p].type = "OTHER" /\ Leads(t, p)
  /\ d \in Dec \cup {NULL} /\ w = bind_stream_decryptor(t, p, d)

\* bind_stream_decryptor: the entry leads to the decryptor, or to none.
LEMMA BindSpares ==
  ASSUME NEW t, NEW p, NEW d, NEW w, Binds(t, p, d, w)
  PROVE  /\ Lessens(t, w, {p}) /\ w.map[p].type = "OTHER" /\ w.map[p].target = d
         /\ t.map[p].target = d => w = t
<1> USE DEF Binds
<1> DEFINE old == t.map[p].target
           less == [t EXCEPT !.ref[old] = @ - 1]
           u == IF old = NULL THEN t
                ELSE IF less.ref[old] = 0 THEN remove_decryptor(less, old) ELSE less
           v == [u EXCEPT !.map[p].target = d]
<1>1. w = IF old = d THEN t ELSE IF d # NULL THEN [v EXCEPT !.ref[d] = @ + 1] ELSE v
  BY DEF bind_stream_decryptor
<1>2. old \in Dec \cup {NULL}
  BY DEF Leads
<1>3. CASE old = d
  BY <1>1, <1>3 DEF Lessens, Spares
<1>4. CASE old # d
  <2>1. Lessens(t, u, {})
    <3>1. CASE old = NULL
      BY <3>1 DEF Lessens, Spares
    <3>2. CASE old # NULL
      <4>1. old \in Dec /\ t.ref[old] - 1 \in Int /\ less = [t EXCEPT !.ref[old] = t.ref[old] - 1]
        BY <1>2, <3>2 DEF Tables
      <4>2. u = less \/ u = remove_decryptor(less, old)
        BY <3>2
      <4> HIDE DEF u, less, old
      <4>3. Lessens(t, less, {}) /\ less \in Tables
        BY <4>1, CountSpares DEF Lessens
      <4>4. Lessens(less, remove_decryptor(less, old), {})
        BY <4>1, <4>3, RemoveSpares
      <4> QED BY <4>2, <4>3, <4>4, SparesThen DEF Lessens
    <3> QED BY <3>1, <3>2
  <2>2. u \in Tables /\ u.map[p].type = "OTHER"
    BY <2>1 DEF Lessens, Spares
  <2> HIDE DEF u
  <2> DEFINE m == Record(u.map[p].ref, u.map[p].type, d)
  <2>3. m \in Entry /\ m.type = "OTHER" /\ m.target = d
    BY <2>2, AnEntry, MakeEntry
  <2> HIDE DEF m
  <2>4. SetTo(u, v, p, m)
    BY <2>2, <2>3, SetTarget DEF m
  <2>5. Lessens(u, v, {p}) /\ v.map[p] = m /\ v \in Tables
    BY <2>2, <2>4, EntrySpares DEF SetTo
  <2> HIDE DEF v, old
  <2>6. Lessens(v, w, {}) /\ w.map = v.map
    <3>1. CASE d = NULL
      BY <1>1, <1>4, <2>5, <3>1 DEF Lessens, Spares
    <3>2. CASE d # NULL
      <4>1. d \in Dec /\ v.ref[d] + 1 \in Int /\ w = [v EXCEPT !.ref[d] = v.ref[d] + 1]
        BY <1>1, <1>4, <2>5, <3>2 DEF Tables
      <4> QED BY <2>5, <4>1, CountSpares, CountIs
    <3> QED BY <3>1, <3>2
  <2>7. Lessens(t, v, {p})
    <3>1. Lessens(t, u, {p})
      BY <2>1, SparesLess
    <3> QED BY <2>5, <3>1, SparesThen DEF Lessens
  <2>8. Lessens(t, w, {p})
    <3>1. Lessens(v, w, {p})
      BY <2>6, SparesLess
    <3> QED BY <2>7, <3>1, SparesThen DEF Lessens
  <2> QED BY <1>4, <2>3, <2>5, <2>6, <2>8 DEF old
<1> QED BY <1>3, <1>4

-----------------------------------------------------------------------------
(* A turn of proc_pmt for one stream e.                                    *)
\* Counting an ECM PID leaves the decryptors.
LEMMA AddSpares ==
  ASSUME NEW t, NEW h, NEW j, Books(t, h, j), NEW p \in Pid, NEW list,
         NEW w, w = AddEcmCount(t, list, p)
  PROVE  /\ Lessens(t, w, {}) /\ Books(w, h, j) /\ w.live = t.live /\ w.ecm = t.ecm
         /\ \A q \in Pid : w.map[q].type = t.map[q].type /\ w.map[q].target = t.map[q].target
<1> DEFINE n == Inc(t.map[p].ref)
<1>1. t \in Tables /\ n \in 0 .. RefMod - 1
  BY AnEntry, Consts DEF Books, Inc
<1>2. w = t \/ w = [t EXCEPT !.map[p].ref = n]
  BY DEF AddEcmCount
<1> HIDE DEF n
<1>3. CASE w = t
  BY <1>1, <1>3 DEF Lessens, Spares
<1>4. CASE w = [t EXCEPT !.map[p].ref = n]
  <2>1. Recounted(t, w, h, j, p, n)
    BY <1>1, <1>4, Recount
  <2>2. /\ Books(w, h, j) /\ w.live = t.live /\ w.ecm = t.ecm
        /\ \A q \in Pid : w.map[q].type = t.map[q].type /\ w.map[q].target = t.map[q].target
    BY <2>1 DEF Recounted
  <2> QED BY <2>2 DEF Lessens, Spares, Books
<1> QED BY <1>2, <1>3, <1>4

\* Decryptor j is the one of the PID that e names; e names none otherwise.
Named(t, e, j) ==
  /\ e.ecm \in EcmPid /\ Registered(t, e.ecm) => j = t.map[e.ecm].target
  /\ e.ecm \notin EcmPid => j = NULL

\* Tables u and decryptor j after the search for the decryptor of e.
SearchIs(t, h, e, u, j) ==
  /\ Spares(t, u, {e.ecm}) /\ Books(u, h, j) /\ u.map[e.pid].type \in {"OTHER", "UNKNOWN"}
  /\ e.ecm \in EcmPid => RegisteredAs(u, e.ecm, j)
  /\ Named(t, e, j)

\* The search finds or makes a decryptor of the ECM PID of e.
LEMMA SearchSpares ==
  ASSUME NEW t, NEW h, NEW P, NEW i, NEW m, Ready(t, h, P, i, m),
         NEW e, e = Head(m.es), NEW r, Searched(t, P, i, e, r)
  PROVE  SearchIs(t, h, e, r[1], r[2])
<1>1. /\ Good(t, h, P) /\ i \in 1 .. Len(P) /\ Roles(m) /\ Free(t, m)
      /\ Books(t, h, NULL) /\ Owned(t, P)
      /\ e \in Es /\ PidOf(m, e.pid) /\ EcmOf(m, e.ecm)
  <2>1. Roles(m) /\ m.es # <<>> /\ [m EXCEPT !.es = Tail(@)] = [m EXCEPT !.es = Tail(@)]
    BY DEF Ready
  <2>2. e \in Es /\ PidOf(m, e.pid) /\ EcmOf(m, e.ecm)
    BY <2>1, Rest
  <2> QED BY <2>2 DEF Ready, Good
<1>2. e.pid \in Pid /\ e.pid \in EsPid
  BY <1>1, Consts DEF Es
<1>3. ASSUME NEW u, NEW j, Free(u, m), NEW Q, Owned(u, Q), Books(u, h, j)
      PROVE  u.map[e.pid].type \in {"OTHER", "UNKNOWN"}
  <2>1. u.map[e.pid].type \in Type /\ u.map[e.pid].type \notin {"ECM", "EMM", "PMT"}
    BY <1>1, <1>2, <1>3, AnEntry, Consts DEF Free, Owned, Books
  <2> QED BY <2>1 DEF Type
<1>4. CASE e.ecm \notin EcmPid /\ r = <<t, NULL>>
  BY <1>1, <1>3, <1>4 DEF SearchIs, Spares, Named
<1>5. CASE /\ e.ecm \in EcmPid
           /\ \E s \in set_decryptor(t, e.ecm) : r = <<AddEcmCount(s[1], P[i].streams, e.ecm), s[2]>>
  <2> DEFINE p == e.ecm
  <2>1. PICK s \in set_decryptor(t, p) : r = <<AddEcmCount(s[1], P[i].streams, p), s[2]>>
    BY <1>5
  <2>2. p \in EcmPid /\ p \in Pid /\ t.map[p].type \notin {"EMM", "PMT"}
    BY <1>1, <1>5, Consts DEF Free, Owned
  <2> DEFINE Q == [P EXCEPT ![i].streams = AddEcm(P[i].streams, p)]
  <2>3. Q = [P EXCEPT ![i].streams = AddEcm(P[i].streams, p)]
    OBVIOUS
  <2> HIDE DEF Q
  <2>4. Found(AddEcmCount(s[1], P[i].streams, e.ecm), h, s[2], Q, m, e)
    BY <1>1, <1>5, <2>1, <2>3, FindDecryptor
  <2>5. Found(r[1], h, r[2], Q, m, e)
    BY <2>1, <2>4
  <2>6. r[1].map[e.pid].type \in {"OTHER", "UNKNOWN"} /\ Books(r[1], h, r[2])
    BY <1>3, <2>5 DEF Found
  <2> HIDE DEF p
  <2>7. /\ Spares(t, s[1], {p}) /\ RegisteredAs(s[1], p, s[2])
        /\ Registered(t, p) => s = <<t, t.map[p].target>>
    BY <1>1, <2>1, <2>2, RegisterSpares
  <2> DEFINE u == s[1]
             w == r[1]
  <2>8. Books(u, h, s[2])
    BY <1>1, <2>1, <2>2, SetDecryptor
  <2>9. w = AddEcmCount(u, P[i].streams, p) /\ r[2] = s[2]
    BY <2>1
  <2>10. RegisteredAs(u, p, r[2]) /\ Spares(t, u, {p})
    BY <2>7, <2>9
  <2> HIDE DEF u, w
  <2>11. /\ Lessens(u, w, {}) /\ w.live = u.live /\ w.ecm = u.ecm
         /\ \A q \in Pid : w.map[q].type = u.map[q].type /\ w.map[q].target = u.map[q].target
    BY <2>2, <2>8, <2>9, AddSpares
  <2>12. Spares(t, w, {p})
    <3>1. Lessens(u, w, {p})
      BY <2>11, SparesLess
    <3> QED BY <2>10, <3>1, SparesThen
  <2>13. RegisteredAs(w, p, r[2])
    BY <2>2, <2>10, <2>11 DEF RegisteredAs
  <2>14. Registered(t, p) => r[2] = t.map[p].target
    BY <2>7, <2>9
  <2> QED BY <2>2, <2>6, <2>12, <2>13, <2>14 DEF SearchIs, Named, p, w
<1> QED BY <1>4, <1>5 DEF Searched

\* Tables w after the turn, when the search led to decryptor j.
TurnIs(t, h, e, j, w) ==
  /\ Spares(t, w, {e.pid, e.ecm}) /\ Named(t, e, j)
  /\ w.map[e.pid].type = "OTHER" /\ w.map[e.pid].target = select_active_decryptor(h, j, e.ecm)
  /\ e.ecm \in EcmPid =>
       /\ j # NULL /\ w.map[e.ecm].type # "OTHER"
       /\ j \in w.live => w.ecm[j] = e.ecm /\ w.map[e.ecm].type = "ECM" /\ w.map[e.ecm].target = j

\* The stream is bound to its decryptor; the others keep theirs.
LEMMA TurnSpares ==
  ASSUME NEW t, NEW h, NEW e \in Es, NEW u, NEW j, SearchIs(t, h, e, u, j), e.pid # e.ecm,
         h \in Dec \cup {NULL},
         NEW w, w = bind_stream_decryptor(
                      [u EXCEPT !.map[e.pid].type = "OTHER", !.map[e.pid].ref = Inc(@)],
                      e.pid, select_active_decryptor(h, j, e.ecm))
  PROVE  TurnIs(t, h, e, j, w)
<1> DEFINE p == e.pid
           d == select_active_decryptor(h, j, e.ecm)
           x == [u EXCEPT !.map[p].type = "OTHER", !.map[p].ref = Inc(@)]
           n == Inc(u.map[p].ref)
           v == Record(n, "OTHER", u.map[p].target)
<1>1. /\ u \in Tables /\ p \in Pid /\ Books(u, h, j) /\ Spares(t, u, {e.ecm}) /\ Named(t, e, j)
      /\ e.ecm \in EcmPid => RegisteredAs(u, e.ecm, j)
      /\ u.map[p].type \in {"OTHER", "UNKNOWN"} /\ u.live \subseteq Dec
  BY Consts DEF SearchIs, Books, Es, Tables
<1>2. u.map[p].target \in Dec \cup {NULL}
  BY <1>1 DEF Books, Targets, Target
<1>3. d \in Dec \cup {NULL}
  BY <1>1 DEF select_active_decryptor, Named, RegisteredAs
<1>4. n \in 0 .. RefMod - 1
  BY <1>1, AnEntry, Consts DEF Inc
<1>5. v \in Entry /\ v.type = "OTHER" /\ v.target = u.map[p].target
  BY <1>1, <1>2, <1>4, MakeEntry DEF Type
<1>6. x = [u EXCEPT !.map[p].type = "OTHER", !.map[p].ref = n] /\ v = Record(n, "OTHER", u.map[p].target)
  OBVIOUS
<1>7. w = bind_stream_decryptor(x, p, d)
  OBVIOUS
<1> HIDE DEF x, n, v, d
<1>8. SetTo(u, x, p, v)
  BY <1>1, <1>5, <1>6, SetTypeRef
<1>9. Lessens(u, x, {p}) /\ x \in Tables /\ x.map[p].type = "OTHER" /\ Leads(x, p)
  BY <1>1, <1>2, <1>5, <1>8, EntrySpares DEF SetTo, Leads
<1>10. Lessens(x, w, {p}) /\ w.map[p].type = "OTHER" /\ w.map[p].target = d
  <2>1. Binds(x, p, d, w)
    BY <1>1, <1>3, <1>7, <1>9 DEF Binds
  <2> HIDE DEF p
  <2> QED BY ONLY <2>1, BindSpares
<1>11. Spares(t, w, {p, e.ecm})
  <2> DEFINE S == {p, e.ecm}
  <2>1. Spares(t, u, S) /\ Lessens(u, x, S) /\ Lessens(x, w, S)
    BY <1>1, <1>9, <1>10, SparesLess
  <2> HIDE DEF S
  <2>2. Spares(t, x, S)
    BY <2>1, SparesThen
  <2> QED BY <2>1, <2>2, SparesThen DEF S
<1>12. ASSUME e.ecm \in EcmPid
       PROVE  /\ j # NULL /\ w.map[e.ecm].type # "OTHER"
              /\ j \in w.live => w.ecm[j] = e.ecm /\ w.map[e.ecm].type = "ECM" /\ w.map[e.ecm].target = j
  <2> DEFINE q == e.ecm
  <2>1. q \in Pid /\ q # p /\ RegisteredAs(u, q, j)
    BY <1>1, <1>12, Consts
  <2> HIDE DEF q
  <2>2. /\ x.map[q] = u.map[q] /\ x.live = u.live /\ x.ecm = u.ecm
        /\ x.map[q].type = "ECM" /\ x.map[q].target = j /\ j # NULL /\ j \in x.live /\ x.ecm[j] = q
    BY <1>8, <2>1 DEF SetTo, RegisteredAs
  <2>3. w.map[q].type # "OTHER"
    BY <1>10, <2>1, <2>2 DEF Lessens, Spares
  <2>4. j \in w.live => w.map[q].type = "ECM" /\ w.map[q].target = j
    BY <1>10, <2>1, <2>2 DEF Lessens, Spares
  <2>5. j \in w.live => w.ecm[j] = q
    <3>1. \A c \in x.live \cap w.live : w.ecm[c] = x.ecm[c]
      BY <1>10 DEF Lessens, Spares
    <3> QED BY <2>2, <3>1
  <2> QED BY <2>2, <2>3, <2>4, <2>5 DEF q
<1> QED BY <1>1, <1>10, <1>11, <1>12 DEF TurnIs, p, d

-----------------------------------------------------------------------------
(* The streams of the PMT that were passed are bound as it announces.      *)
\* Stream e is in the list of PMT m.
Lists(m, e) == \E k \in 1 .. Len(m.es) : m.es[k] = e

\* The elementary stream p is bound to a decryptor of q, or to none.
BoundTo(t, p, q) ==
  /\ t.map[p].type = "OTHER"
  /\ IF q = NONE THEN t.map[p].target = NULL
                 ELSE t.map[p].target # NULL /\ t.ecm[t.map[p].target] = q

\* proc_pmt holds decryptor h of the program's ECM PID q, if it has one.
Principal(t, h, q) == IF q \in EcmPid THEN h # NULL /\ t.ecm[h] = q ELSE h = NULL

\* Of PMT o, m is left.
Announcing(t, h, o, m) ==
  /\ Roles(o) /\ m.ecm = o.ecm /\ Principal(t, h, o.ecm)
  /\ \A e \in Es : Lists(m, e) => Lists(o, e)
  /\ \A e \in Es : Lists(o, e) => Lists(m, e) \/ BoundTo(t, e.pid, Announced(o, e))

\* Streams of one PMT are told apart by their PIDs.
LEMMA ListsOnce ==
  ASSUME NEW o, Roles(o), NEW e, Lists(o, e)
  PROVE  /\ e \in Es /\ PidOf(o, e.pid) /\ EcmOf(o, e.ecm)
         /\ \A f : Lists(o, f) /\ f.pid = e.pid => f = e
         /\ \A f : Lists(o, f) => f.pid # e.ecm
<1>1. PICK k \in 1 .. Len(o.es) : o.es[k] = e
  BY DEF Lists
<1>2. o.es \in Seq(Es)
  BY DEF Roles
<1>3. e \in Es /\ PidOf(o, e.pid) /\ EcmOf(o, e.ecm)
  BY <1>1, <1>2 DEF PidOf, EcmOf
<1>4. ASSUME NEW f, Lists(o, f)
      PROVE  (f.pid = e.pid => f = e) /\ f.pid # e.ecm
  <2>1. PICK l \in 1 .. Len(o.es) : o.es[l] = f
    BY <1>4 DEF Lists
  <2>2. f.pid = e.pid => f = e
    BY <1>1, <2>1 DEF Roles
  <2>3. PidOf(o, f.pid)
    BY <2>1 DEF PidOf
  <2> QED BY <1>3, <2>2, <2>3 DEF Roles
<1> QED BY <1>3, <1>4

\* The head of what is left, and the others.
LEMMA ListsTail ==
  ASSUME NEW m, Roles(m), m.es # <<>>, NEW n, n = [m EXCEPT !.es = Tail(@)]
  PROVE  /\ Head(m.es) \in Es /\ Lists(m, Head(m.es)) /\ n.ecm = m.ecm
         /\ \A e : Lists(n, e) => Lists(m, e)
         /\ \A e : Lists(m, e) => Lists(n, e) \/ e = Head(m.es)
<1>1. m.es \in Seq(Es)
  BY DEF Roles
<1>2. n.es = Tail(m.es) /\ n.ecm = m.ecm
  BY DEF Roles
<1>3. /\ Len(m.es) \in Nat /\ Len(m.es) > 0 /\ Head(m.es) = m.es[1] /\ m.es[1] \in Es
      /\ Len(n.es) = Len(m.es) - 1
      /\ \A k \in 1 .. Len(n.es) : n.es[k] = m.es[k + 1] /\ k + 1 \in 1 .. Len(m.es)
  BY <1>1, <1>2, HeadTailProperties
<1>4. Lists(m, Head(m.es))
  BY <1>3 DEF Lists
<1>5. \A e : Lists(n, e) => Lists(m, e)
  BY <1>3 DEF Lists
<1>6. ASSUME NEW e, Lists(m, e), e # Head(m.es)
      PROVE  Lists(n, e)
  <2>1. PICK k \in 1 .. Len(m.es) : m.es[k] = e
    BY <1>6 DEF Lists
  <2>2. k - 1 \in 1 .. Len(n.es) /\ (k - 1) + 1 = k
    BY <1>3, <1>6, <2>1
  <2>3. n.es[k - 1] = e
    BY <1>3, <2>1, <2>2
  <2> QED BY <2>2, <2>3 DEF Lists
<1> QED BY <1>2, <1>3, <1>4, <1>5, <1>6

\* A binding spared is one to a decryptor of the same ECM PID.
LEMMA BoundKept ==
  ASSUME NEW t, NEW w, NEW S, Spares(t, w, S), Targets(t), Targets(w),
         NEW p \in Pid \ S, NEW q, BoundTo(t, p, q)
  PROVE  BoundTo(w, p, q)
<1>1. t.map[p].type = "OTHER" /\ w.map[p].type = "OTHER" /\ w.map[p].target = t.map[p].target
  BY DEF BoundTo, Spares
<1>2. ASSUME t.map[p].target # NULL
      PROVE  w.ecm[t.map[p].target] = t.ecm[t.map[p].target]
  <2>1. t.map[p].target \in t.live \cap w.live
    BY <1>1, <1>2 DEF Targets, Target
  <2> QED BY <2>1 DEF Spares
<1> QED BY <1>1, <1>2 DEF BoundTo

\* The decryptor held is one of the same ECM PID.
LEMMA PrincipalKept ==
  ASSUME NEW t, NEW w, NEW S, Spares(t, w, S), NEW h, h \in t.live \cup {NULL},
         h \in w.live \cup {NULL}, NEW q, Principal(t, h, q)
  PROVE  Principal(w, h, q)
BY DEF Principal, Spares

\* The stream of a turn is bound as announced.
LEMMA TurnBinds ==
  ASSUME NEW t, NEW h, NEW e \in Es, NEW j, NEW w, TurnIs(t, h, e, j, w), Targets(w),
         NEW o, Principal(w, h, o.ecm)
  PROVE  BoundTo(w, e.pid, Announced(o, e))
<1> DEFINE d == select_active_decryptor(h, j, e.ecm)
<1>1. /\ e.pid \in Pid /\ w.map[e.pid].type = "OTHER" /\ w.map[e.pid].target = d
      /\ e.ecm \in EcmPid \/ e.ecm = NONE \/ e.ecm = CLEAR
      /\ NONE \notin EcmPid /\ CLEAR \notin EcmPid /\ NONE # CLEAR
  BY Consts, PidMapAssumption DEF TurnIs, Es, PidMapAssumption
<1>2. d # NULL => d \in w.live
  BY <1>1 DEF Targets, Target
<1>3. CASE e.ecm \in EcmPid
  <2>1. Announced(o, e) = e.ecm
    BY <1>1, <1>3 DEF Announced
  <2>2. d = j /\ d # NULL /\ (j \in w.live => w.ecm[j] = e.ecm)
    BY <1>3 DEF TurnIs, select_active_decryptor
  <2> QED BY <1>1, <1>2, <1>3, <2>1, <2>2 DEF BoundTo
<1>4. CASE e.ecm = CLEAR
  <2>1. Announced(o, e) = NONE
    BY <1>1, <1>4 DEF Announced
  <2>2. d = NULL
    BY <1>1, <1>4 DEF TurnIs, Named, select_active_decryptor
  <2> QED BY <1>1, <2>1, <2>2 DEF BoundTo
<1>5. CASE e.ecm = NONE
  <2>1. d = h
    BY <1>1, <1>5 DEF TurnIs, Named, select_active_decryptor
  <2>2. Announced(o, e) = IF o.ecm \in EcmPid THEN o.ecm ELSE NONE
    BY <1>1, <1>5 DEF Announced
  <2> QED BY <1>1, <2>1, <2>2 DEF BoundTo, Principal
<1> QED BY <1>1, <1>3, <1>4, <1>5

\* A turn of proc_pmt for the first stream that is left.
LEMMA TurnAnnounces ==
  ASSUME NEW t, NEW h, NEW o, NEW m, Announcing(t, h, o, m), Roles(m), m.es # <<>>,
         NEW n, n = [m EXCEPT !.es = Tail(@)], NEW j, NEW w, TurnIs(t, h, Head(m.es), j, w),
         Targets(t), Targets(w), h \in t.live \cup {NULL}, h \in w.live \cup {NULL}
  PROVE  Announcing(w, h, o, n)
<1> DEFINE e == Head(m.es)
<1>1. /\ e \in Es /\ Lists(m, e) /\ n.ecm = m.ecm
      /\ \A f : Lists(n, f) => Lists(m, f)
      /\ \A f : Lists(m, f) => Lists(n, f) \/ f = e
  BY ListsTail
<1>2. TurnIs(t, h, e, j, w)
  OBVIOUS
<1> HIDE DEF e
<1>3. /\ Roles(o) /\ m.ecm = o.ecm /\ Principal(t, h, o.ecm) /\ Lists(o, e)
      /\ \A f \in Es : Lists(m, f) => Lists(o, f)
      /\ \A f \in Es : Lists(o, f) => Lists(m, f) \/ BoundTo(t, f.pid, Announced(o, f))
  BY <1>1 DEF Announcing
<1>4. Spares(t, w, {e.pid, e.ecm})
  BY <1>2 DEF TurnIs
<1>5. Principal(w, h, o.ecm)
  BY <1>3, <1>4, PrincipalKept
<1>6. BoundTo(w, e.pid, Announced(o, e))
  BY <1>1, <1>2, <1>5, TurnBinds
<1>7. ASSUME NEW f \in Es, Lists(o, f), ~Lists(n, f)
      PROVE  BoundTo(w, f.pid, Announced(o, f))
  <2>1. CASE f = e
    BY <1>6, <2>1
  <2>2. CASE f # e
    <3>1. BoundTo(t, f.pid, Announced(o, f))
      BY <1>1, <1>3, <1>7, <2>2
    <3>2. f.pid # e.pid /\ f.pid # e.ecm
      BY <1>3, <1>7, <2>2, ListsOnce
    <3>3. f.pid \in Pid \ {e.pid, e.ecm}
      BY <3>2, Consts DEF Es
    <3> QED BY <1>4, <3>1, <3>3, BoundKept
  <2> QED BY <2>1, <2>2
<1> QED BY <1>1, <1>3, <1>5, <1>7 DEF Announcing

-----------------------------------------------------------------------------
(* What the steps of proc_pmt do to the tables.                            *)

\* Tables w and decryptor h once the program's ECM PID q has its decryptor.
BeginIs(t, q, h, w) ==
  /\ Spares(t, w, {q})
  /\ q \in EcmPid => RegisteredAs(w, q, h) /\ (Registered(t, q) => h = t.map[q].target)
  /\ q \notin EcmPid => h = NULL

\* proc_pmt begins.
LEMMA BeginSpares ==
  ASSUME IInv, NEW i \in 1 .. Len(prog), NEW p \in Pmts[Len(prog)], PmtBegin(i, p)
  PROVE  Roles(p) /\ BeginIs(tab, p.ecm, dec0', tab')
<1>1. Conforming(i, p) /\ dec0 = NULL
  BY DEF IInv, InPmt, PmtBegin
<1>2. Roles(p) /\ Free(tab, p)
  BY <1>1, Received
<1>3. Books(tab, NULL, NULL) /\ Owned(tab, prog) /\ NONE \notin EcmPid /\ CLEAR \notin EcmPid
  BY <1>1, Consts DEF IInv, Good
<1>4. CASE p.ecm \in {NONE, CLEAR} /\ dec0' = NULL /\ UNCHANGED tab
  <2>1. Spares(tab, tab, {p.ecm})
    BY DEF Spares
  <2> QED BY <1>2, <1>3, <1>4, <2>1 DEF BeginIs
<1>5. CASE /\ p.ecm \in EcmPid
           /\ \E r \in set_decryptor(tab, p.ecm) : tab' = [r[1] EXCEPT !.ref[r[2]] = @ + 1] /\ dec0' = r[2]
  <2> DEFINE q == p.ecm
  <2>1. PICK r \in set_decryptor(tab, q) : tab' = [r[1] EXCEPT !.ref[r[2]] = @ + 1] /\ dec0' = r[2]
    BY <1>5
  <2>2. q \in EcmPid /\ tab.map[q].type \notin {"EMM", "PMT"}
    BY <1>2, <1>3, <1>5, Consts DEF Free, Owned, EcmOf
  <2> HIDE DEF q
  <2>3. /\ Spares(tab, r[1], {q}) /\ RegisteredAs(r[1], q, r[2])
        /\ Registered(tab, q) => r = <<tab, tab.map[q].target>>
    BY <1>3, <2>1, <2>2, RegisterSpares
  <2>4. Books(r[1], NULL, r[2]) /\ r[1] \in Tables /\ r[2] \in r[1].live
    <3>1. Books(r[1], NULL, r[2]) /\ r[2] \in r[1].live
      BY <1>3, <2>1, <2>2, SetDecryptor
    <3> QED BY <3>1 DEF Books
  <2> DEFINE u == r[1]
             d == r[2]
  <2>5. u \in Tables /\ d \in Dec /\ u.ref[d] + 1 \in Int /\ tab' = [u EXCEPT !.ref[d] = u.ref[d] + 1]
    BY <2>1, <2>4 DEF Tables
  <2>6. Spares(tab, u, {q}) /\ RegisteredAs(u, q, d) /\ (Registered(tab, q) => d = tab.map[q].target)
    BY <2>3
  <2>7. dec0' = d
    BY <2>1
  <2> HIDE DEF u, d
  <2>8. Lessens(u, tab', {}) /\ tab'.map = u.map /\ tab'.live = u.live /\ tab'.ecm = u.ecm
    BY <2>5, CountSpares, CountIs
  <2>9. Spares(tab, tab', {q})
    <3>1. Lessens(u, tab', {q})
      BY <2>8, SparesLess
    <3> QED BY <2>6, <3>1, SparesThen
  <2>10. RegisteredAs(tab', q, d)
    BY <2>6, <2>8 DEF RegisteredAs
  <2> QED BY <1>2, <2>2, <2>6, <2>7, <2>9, <2>10 DEF BeginIs, q
<1> QED BY <1>4, <1>5 DEF PmtBegin

\* Stream p of an old list is dropped: its entry stays when another list has it.
UnrefIs(t, p, w) ==
  /\ Lessens(t, w, {p}) /\ p \in Pid
  /\ t.map[p].ref > 1 => w.map[p].type = t.map[p].type /\ w.map[p].target = t.map[p].target
  /\ w.map[p].type = "OTHER" => t.map[p].type = "OTHER" /\ w.map[p].target = t.map[p].target

\* An entry of a list is dropped.
LEMMA ListSpares ==
  ASSUME IInv, cur \in 1 .. Len(prog), NEW z \in {"streams", "old"}, prog[cur][z] # <<>>,
         tab' = unref_stream(tab, Head(prog[cur][z]))
  PROVE  UnrefIs(tab, Head(prog[cur][z]), tab')
<1> DEFINE p == Head(prog[cur][z])
<1>1. /\ tab' = unref_stream(tab, p)
      /\ Books(tab, dec0, NULL) /\ Counts(tab, prog) /\ tab \in Tables
  BY DEF IInv, Good, Books
<1>2. p \in Pid /\ tab.map[p].ref > 0
  BY <1>1, HeadCounted
<1> HIDE DEF p
<1>3. Lessens(tab, tab', {p})
  BY <1>1, <1>2, UnrefSpares
<1>4. Unreffed(tab, dec0, p, tab')
  BY <1>1, <1>2, Unref
<1>5. tab.map[p].ref \in Nat
  BY <1>1, <1>2, AnEntry, Consts
<1>6. ASSUME tab.map[p].ref > 1
      PROVE  tab'.map[p].type = tab.map[p].type /\ tab'.map[p].target = tab.map[p].target
  <2>1. tab'.map[p].ref # 0
    BY <1>4, <1>5, <1>6 DEF Unreffed
  <2> QED BY <1>4, <2>1 DEF Unreffed
<1>7. tab'.map[p].type = "OTHER" => tab.map[p].type = "OTHER" /\ tab'.map[p].target = tab.map[p].target
  BY <1>4 DEF Unreffed
<1> QED BY <1>2, <1>3, <1>6, <1>7 DEF UnrefIs, p

\* A stream of the PMT before the last is dropped.
LEMMA OldSpares ==
  ASSUME IInv, PmtUnref
  PROVE  UnrefIs(tab, Head(prog[cur].old), tab')
<1>1. cur \in 1 .. Len(prog) /\ prog \in Seq(Program)
  BY DEF IInv, InPmt, Good, Counts, PmtUnref
<1>2. prog[cur]["old"] = prog[cur].old
  BY <1>1, ListsAre
<1>3. prog[cur]["old"] # <<>> /\ tab' = unref_stream(tab, Head(prog[cur]["old"]))
  BY <1>2 DEF PmtUnref
<1>4. UnrefIs(tab, Head(prog[cur]["old"]), tab')
  BY <1>1, <1>3, ListSpares
<1> QED BY <1>2, <1>4

\* The lists are saved: no type and no target changes.
SaveAs(t, w) ==
  /\ Lessens(t, w, {})
  /\ \A q \in Pid : w.map[q].type = t.map[q].type /\ w.map[q].target = t.map[q].target

\* proc_pmt saves the lists.
LEMMA SaveSpares ==
  ASSUME IInv, PmtSave
  PROVE  SaveAs(tab, tab')
<1>1. Books(tab, dec0, NULL) /\ tab \in Tables
  BY DEF IInv, Good, Books
<1>2. CASE tab' = tab
  BY <1>1, <1>2 DEF SaveAs, Lessens, Spares
<1>3. CASE pmt.ecm \in EcmPid /\ tab' = AddEcmCount(tab, <<>>, pmt.ecm)
  <2> DEFINE p == pmt.ecm
  <2>1. p \in Pid /\ tab' = AddEcmCount(tab, <<>>, p)
    BY <1>3, Consts
  <2> HIDE DEF p
  <2> QED BY <1>1, <2>1, AddSpares DEF SaveAs
<1> QED BY <1>2, <1>3 DEF PmtSave

\* A turn for a stream.
LEMMA StreamSpares ==
  ASSUME IInv, PmtStream
  PROVE  \E j : TurnIs(tab, dec0, Head(pmt.es), j, tab')
<1>1. /\ cur \in 1 .. Len(prog) /\ pmt.es # <<>>
      /\ Good(tab, dec0, prog) /\ Roles(pmt) /\ Free(tab, pmt) /\ Unlisted(prog, cur, pmt)
      /\ dec0 \in Dec \cup {NULL}
  BY DEF IInv, Shape, InPmt, PmtStream
<1> DEFINE e == Head(pmt.es)
           i == cur
           P == prog
           w == tab'
           found == IF e.ecm \in EcmPid
                      THEN {<<AddEcmCount(s[1], P[i].streams, e.ecm), s[2]>> :
                              s \in set_decryptor(tab, e.ecm)}
                      ELSE {<<tab, NULL>>}
<1>2. PICK r \in found :
        w = bind_stream_decryptor(
              [r[1] EXCEPT !.map[e.pid].type = "OTHER", !.map[e.pid].ref = Inc(@)],
              e.pid, select_active_decryptor(dec0, r[2], e.ecm))
  BY DEF PmtStream
<1>3. Searched(tab, P, i, e, r)
  BY DEF Searched
<1>4. e = Head(pmt.es)
  OBVIOUS
<1>5. Ready(tab, dec0, P, i, pmt)
  BY <1>1 DEF Ready
<1>6. e \in Es /\ e.pid # e.ecm
  <2>1. e \in Es /\ Lists(pmt, e)
    <3> DEFINE n == [pmt EXCEPT !.es = Tail(@)]
    <3>1. n = [pmt EXCEPT !.es = Tail(@)]
      OBVIOUS
    <3> HIDE DEF n
    <3> QED BY <1>1, <3>1, ListsTail
  <2> QED BY <1>1, <2>1, ListsOnce
<1> HIDE DEF e, i, P, w, found
<1>7. SearchIs(tab, dec0, e, r[1], r[2])
  BY <1>3, <1>4, <1>5, SearchSpares
<1> DEFINE u == r[1]
           j == r[2]
<1>8. /\ SearchIs(tab, dec0, e, u, j)
      /\ w = bind_stream_decryptor(
               [u EXCEPT !.map[e.pid].type = "OTHER", !.map[e.pid].ref = Inc(@)],
               e.pid, select_active_decryptor(dec0, j, e.ecm))
  BY <1>2, <1>7
<1> HIDE DEF u, j
<1>9. TurnIs(tab, dec0, e, j, w)
  BY <1>1, <1>6, <1>8, TurnSpares
<1> QED BY <1>9 DEF e, w

\* proc_pmt gives its own decryptor back.
LEMMA LastSpares ==
  ASSUME IInv, PmtLast
  PROVE  Lessens(tab, tab', {})
<1>1. tab \in Tables /\ dec0 \in Dec \cup {NULL} /\ tab' = (IF dec0 # NULL THEN Drop(tab, dec0) ELSE tab)
  BY DEF IInv, Shape, Good, Books, PmtLast
<1>2. CASE dec0 = NULL
  BY <1>1, <1>2 DEF Lessens, Spares
<1>3. CASE dec0 # NULL
  BY <1>1, <1>3, DropSpares
<1> QED BY <1>2, <1>3

-----------------------------------------------------------------------------
(* BoundAsAnnounced: the invariant of the loop over the streams says that  *)
(* each stream of the PMT is still to come or bound as announced.          *)

InLoop == pc \in {"unref", "streams"}
Bindings ==
  InLoop => Announcing(tab, dec0, prev.pmt, pmt) /\ (pc = "unref" => pmt = prev.pmt)

\* What the loop takes from the invariant of the tables.
LEMMA LoopFacts ==
  ASSUME IInv
  PROVE  Targets(tab) /\ tab \in Tables /\ dec0 \in tab.live \cup {NULL} /\ (InLoop => Roles(pmt))
BY DEF IInv, Good, Books, InPmt, InLoop

\* The steps that are not of proc_pmt end outside of its loop.
LEMMA OtherSteps ==
  ASSUME Next, ~PmtUnref, ~PmtSave, ~PmtStream, ~PmtLast, InLoop',
         \A i \in 1 .. Len(prog) : \A p \in Pmts[Len(prog)] : ~PmtBegin(i, p)
  PROVE  UNCHANGED vars
BY DEF Next, InLoop, ReleaseBegin, ReleaseStream, ReleaseProgram, PatBuild, Teardown, ProcCat, Down

\* The bindings through a step.
LEMMA BindingsKept ==
  ASSUME IInv, IInv', Bindings, [Next]_vars
  PROVE  Bindings'
<1> SUFFICES ASSUME InLoop'
             PROVE  /\ Announcing(tab', dec0', prev'.pmt, pmt')
                    /\ pc' = "unref" => pmt' = prev'.pmt
  BY DEF Bindings
<1>1. /\ Targets(tab) /\ tab \in Tables /\ dec0 \in tab.live \cup {NULL} /\ (InLoop => Roles(pmt))
      /\ Targets(tab') /\ tab' \in Tables /\ dec0' \in tab'.live \cup {NULL}
  BY LoopFacts DEF IInv, Good, Books
<1> DEFINE t == tab
           w == tab'
           h == dec0
           o == prev.pmt
<1>2. ASSUME NEW i \in 1 .. Len(prog), NEW p \in Pmts[Len(prog)], PmtBegin(i, p)
      PROVE  /\ Announcing(tab', dec0', prev'.pmt, pmt')
             /\ pc' = "unref" => pmt' = prev'.pmt
  <2>1. Roles(p) /\ BeginIs(tab, p.ecm, dec0', tab') /\ pmt' = p /\ prev'.pmt = p
    BY <1>2, BeginSpares DEF PmtBegin
  <2>2. Principal(tab', dec0', p.ecm)
    BY <2>1 DEF BeginIs, RegisteredAs, Principal
  <2> QED BY <2>1, <2>2 DEF Announcing
<1>3. ASSUME pc = "unref", dec0' = dec0, prev' = prev, pmt' = pmt, NEW S, Spares(tab, tab', S)
      PROVE  /\ Announcing(tab', dec0', prev'.pmt, pmt')
             /\ pc' = "unref" => pmt' = prev'.pmt
  <2>1. Announcing(t, h, o, pmt) /\ pmt = o
    BY <1>3 DEF Bindings, InLoop
  <2>2. Principal(t, h, o.ecm) /\ Spares(t, w, S) /\ h \in t.live \cup {NULL} /\ h \in w.live \cup {NULL}
    BY <1>1, <1>3, <2>1 DEF Announcing
  <2> HIDE DEF t, w, h, o
  <2>3. Principal(w, h, o.ecm)
    BY <2>2, PrincipalKept
  <2>4. Announcing(w, h, o, pmt)
    BY <2>1, <2>3 DEF Announcing
  <2> QED BY <1>3, <2>1, <2>4 DEF t, w, h, o
<1>4. CASE PmtUnref
  <2>1. Spares(tab, tab', {Head(prog[cur].old)})
    BY <1>4, OldSpares DEF UnrefIs, Lessens
  <2> QED BY <1>3, <1>4, <2>1 DEF PmtUnref
<1>5. CASE PmtSave
  <2>1. Spares(tab, tab', {})
    BY <1>5, SaveSpares DEF SaveAs, Lessens
  <2> QED BY <1>3, <1>5, <2>1 DEF PmtSave
<1>6. CASE PmtStream
  <2> DEFINE m == pmt
             n == pmt'
  <2>1. PICK j : TurnIs(t, h, Head(m.es), j, w)
    BY <1>6, StreamSpares
  <2>2. /\ Announcing(t, h, o, m) /\ Roles(m) /\ m.es # <<>> /\ n = [m EXCEPT !.es = Tail(@)]
        /\ Targets(t) /\ Targets(w) /\ h \in t.live \cup {NULL} /\ h \in w.live \cup {NULL}
    BY <1>1, <1>6 DEF Bindings, InLoop, PmtStream
  <2>3. dec0' = h /\ prev'.pmt = o /\ pc' = "streams"
    BY <1>6 DEF PmtStream
  <2> HIDE DEF t, w, h, o, m, n
  <2>4. Announcing(w, h, o, n)
    BY <2>1, <2>2, TurnAnnounces
  <2> QED BY <2>3, <2>4 DEF w, n
<1>7. CASE PmtLast
  BY <1>7 DEF PmtLast, InLoop
<1>8. CASE UNCHANGED vars
  BY <1>8 DEF vars, Bindings, InLoop
<1> QED BY <1>2, <1>4, <1>5, <1>6, <1>7, <1>8, OtherSteps

\* After a PMT each of its streams is bound to a live decryptor of the ECM PID
\* the PMT gives for it, or to none if it gives none, whichever decryptors were
\* made, freed or rebound while proc_pmt went through the lists.
THEOREM StreamsAreBound == Spec => BoundAsAnnounced
<1>1. Init => Bindings
  BY DEF Init, Bindings, InLoop
<1>2. IInv /\ IInv' /\ Bindings /\ [Next]_vars => Bindings'
  BY BindingsKept
<1>3. ASSUME IInv, IInv', Bindings, PmtLast, NEW k \in 1 .. Len(prev.pmt.es)
      PROVE  LET e == prev.pmt.es[k]
                 q == Announced(prev.pmt, e)
                 d == tab'.map[e.pid].target
             IN  IF q = NONE THEN d = NULL ELSE d \in tab'.live /\ tab'.ecm[d] = q
  <2> DEFINE e == prev.pmt.es[k]
             q == Announced(prev.pmt, e)
             w == tab'
  <2>1. Announcing(tab, dec0, prev.pmt, pmt) /\ ~Lists(pmt, e) /\ Lists(prev.pmt, e)
    BY <1>3 DEF Bindings, InLoop, PmtLast, Lists
  <2>2. e \in Es
    BY <2>1, ListsOnce DEF Announcing
  <2>3. BoundTo(tab, e.pid, q) /\ e.pid \in Pid \ {}
    BY <2>1, <2>2, Consts DEF Announcing, Es
  <2>4. Spares(tab, w, {}) /\ Targets(tab) /\ Targets(w)
    BY <1>3, LastSpares DEF Lessens, IInv, Good, Books
  <2> HIDE DEF e, q, w
  <2>5. BoundTo(w, e.pid, q)
    BY <2>3, <2>4, BoundKept
  <2>6. IF q = NONE THEN w.map[e.pid].target = NULL
        ELSE w.map[e.pid].target \in w.live /\ w.ecm[w.map[e.pid].target] = q
    BY <2>3, <2>4, <2>5 DEF BoundTo, Targets, Target
  <2> QED BY <2>6 DEF e, q, w
<1>4. IInv /\ IInv' /\ Bindings /\ [Next]_vars =>
        [PmtLast => \A k \in 1 .. Len(prev.pmt.es) :
           LET e == prev.pmt.es[k]
               q == Announced(prev.pmt, e)
               d == tab'.map[e.pid].target
           IN  IF q = NONE THEN d = NULL ELSE d \in tab'.live /\ tab'.ecm[d] = q]_vars
  BY <1>3
<1> QED BY <1>1, <1>2, <1>4, Inductive, PTL DEF Spec, BoundAsAnnounced

-----------------------------------------------------------------------------
(* No step but a turn of proc_pmt binds a stream: what is bound after it    *)
(* was bound before, to the same decryptor of the same ECM PID.             *)

Loosens(t, w, S) ==
  /\ \A q \in Pid \ S : w.map[q].type = "OTHER" =>
       t.map[q].type = "OTHER" /\ w.map[q].target = t.map[q].target
  /\ \A d \in t.live \cap w.live : w.ecm[d] = t.ecm[d]

\* Entries that are not spared are no new bindings either.
LEMMA LoosensIs ==
  ASSUME NEW t, NEW w, NEW S, Spares(t, w, S), NEW R,
         \A q \in (Pid \cap S) \ R : w.map[q].type = "OTHER" =>
            t.map[q].type = "OTHER" /\ w.map[q].target = t.map[q].target
  PROVE  Loosens(t, w, R)
BY DEF Loosens, Spares

\* An entry cleared or given to EMMs, or the map wiped.
LEMMA ClearedLoosens ==
  ASSUME NEW t \in Tables, NEW p \in Pid, NEW v, v.type # "OTHER", NEW w, w = [t EXCEPT !.map[p] = v]
  PROVE  Loosens(t, w, {})
<1>1. w.live = t.live /\ w.ecm = t.ecm /\ w.map = [t.map EXCEPT ![p] = v]
  BY DEF Tables
<1>2. w.map[p] = v /\ \A q \in Pid \ {p} : w.map[q] = t.map[q]
  BY <1>1 DEF Tables
<1> QED BY <1>1, <1>2 DEF Loosens

\* A stream dropped by proc_pmt, proc_pat or teardown.
LEMMA UnrefLoosens ==
  ASSUME NEW t, NEW p, NEW w, UnrefIs(t, p, w)
  PROVE  Loosens(t, w, {})
BY DEF UnrefIs, Lessens, Spares, Loosens

\* Each step but a turn.
LEMMA StepLoosens ==
  ASSUME IInv, [Next]_vars, ~PmtStream
  PROVE  Loosens(tab, tab', {})
<1>1. tab \in Tables /\ Books(tab, dec0, NULL) /\ prog \in Seq(Program) /\ Counts(tab, prog)
  BY DEF IInv, Good, Books, Counts
<1>2. ASSUME NEW i \in 1 .. Len(prog), NEW p \in Pmts[Len(prog)], PmtBegin(i, p)
      PROVE  Loosens(tab, tab', {})
  <2>1. Roles(p) /\ BeginIs(tab, p.ecm, dec0', tab')
    BY <1>2, BeginSpares
  <2>2. p.ecm \in Pid => p.ecm \in EcmPid
    BY <2>1, Consts DEF Roles
  <2>3. Spares(tab, tab', {p.ecm}) /\ (p.ecm \in EcmPid => tab'.map[p.ecm].type = "ECM")
    BY <2>1 DEF BeginIs, RegisteredAs
  <2> QED BY <2>2, <2>3 DEF Spares, Loosens
<1>3. CASE PmtUnref
  BY <1>3, OldSpares, UnrefLoosens
<1>4. CASE PmtSave
  BY <1>4, SaveSpares DEF SaveAs, Lessens, Spares, Loosens
<1>5. CASE PmtLast
  BY <1>5, LastSpares DEF Lessens, Spares, Loosens
<1>6. CASE UNCHANGED tab
  BY <1>6 DEF Loosens
<1>7. CASE ReleaseStream
  <2>1. cur \in 1 .. Len(prog)
    BY <1>7 DEF IInv, InRelease, ReleaseStream
  <2>2. prog[cur]["old"] = prog[cur].old /\ prog[cur]["streams"] = prog[cur].streams
    BY <1>1, <2>1, ListsAre
  <2>3. \E z \in {"streams", "old"} :
          prog[cur][z] # <<>> /\ tab' = unref_stream(tab, Head(prog[cur][z]))
    BY <1>7, <2>2 DEF ReleaseStream
  <2>4. PICK z \in {"streams", "old"} :
          prog[cur][z] # <<>> /\ tab' = unref_stream(tab, Head(prog[cur][z]))
    BY <2>3
  <2>5. UnrefIs(tab, Head(prog[cur][z]), tab')
    BY <2>1, <2>4, ListSpares
  <2> QED BY <2>5, UnrefLoosens
<1>8. CASE ReleaseProgram
  <2>1. cur \in 1 .. Len(prog)
    BY <1>8 DEF IInv, InRelease, ReleaseProgram
  <2>2. prog[cur] \in Program
    BY <1>1, <2>1
  <2>3. prog[cur].pmt_pid \in Pid /\ Blank.type # "OTHER"
    BY <2>2, Consts DEF Program, Blank
  <2> QED BY <1>1, <1>8, <2>3, ClearedLoosens DEF ReleaseProgram
<1>9. CASE PatBuild
  <2> DEFINE f == tab'.map
  <2>1. tab.live = {}
    BY <1>9, NobodyLeft DEF PatBuild
  <2>2. ASSUME NEW q \in Pid
        PROVE  f[q].type # "OTHER"
    BY <1>1, <1>9 DEF PatBuild, Tables, Blank
  <2> QED BY <2>1, <2>2 DEF Loosens
<1>10. CASE Teardown
  <2>1. tab.live = {}
    BY <1>10, NobodyLeft DEF Teardown
  <2>2. \A q \in Pid : tab'.map[q].type # "OTHER"
    BY <1>1, <1>10 DEF Teardown, Tables, Blank
  <2> QED BY <2>1, <2>2 DEF Loosens
<1>11. ASSUME NEW q \in EmmPid, ProcCat(q)
       PROVE  Loosens(tab, tab', {})
  <2>1. q \in Pid /\ Leads(tab, q)
    BY <1>1, Consts DEF Books, Targets, Target, Leads, Tables
  <2>2. Lessens(tab, Release(tab, q), {})
    BY <1>1, <2>1, ReleaseSpares
  <2> DEFINE u == Release(tab, q)
             v == [ref |-> 1, type |-> "EMM", target |-> NULL]
             w == tab'
  <2>3. w = [u EXCEPT !.map[q] = v] /\ v.type # "OTHER"
    BY <1>11 DEF ProcCat, Release
  <2>4. Lessens(tab, u, {}) /\ u \in Tables
    BY <2>2 DEF Lessens
  <2> HIDE DEF u, v, w
  <2>5. Loosens(u, w, {}) /\ w.live = u.live
    <3>1. w.live = u.live
      BY <2>3, <2>4 DEF Tables
    <3> QED BY <2>1, <2>3, <2>4, <3>1, ClearedLoosens
  <2>6. Loosens(tab, w, {})
    BY <2>4, <2>5 DEF Lessens, Spares, Loosens
  <2> QED BY <2>6 DEF w
<1>12. UNCHANGED vars => UNCHANGED tab
  BY DEF vars
<1>13. ASSUME NEW new \in Pats \cup {NULL}, ReleaseBegin(new)
       PROVE  UNCHANGED tab
  BY <1>13 DEF ReleaseBegin
<1> QED BY <1>2, <1>3, <1>4, <1>5, <1>6, <1>7, <1>8, <1>9, <1>10, <1>11, <1>12, <1>13 DEF Next, Down

-----------------------------------------------------------------------------
(* No stream is bound to a decryptor of its own PID.                       *)

NoSelf(t) ==
  \A p \in Pid : t.map[p].type = "OTHER" /\ t.map[p].target # NULL => t.ecm[t.map[p].target] # p

\* What is not bound anew is not bound to itself.
LEMMA SelfKept ==
  ASSUME NEW t, NEW w, NEW S, Loosens(t, w, S), Targets(t), Targets(w), NoSelf(t),
         \A p \in Pid \cap S : w.map[p].type = "OTHER" /\ w.map[p].target # NULL =>
           w.ecm[w.map[p].target] # p
  PROVE  NoSelf(w)
<1>1. ASSUME NEW p \in Pid \ S, w.map[p].type = "OTHER", w.map[p].target # NULL
      PROVE  w.ecm[w.map[p].target] # p
  <2>1. t.map[p].type = "OTHER" /\ w.map[p].target = t.map[p].target
    BY <1>1 DEF Loosens
  <2>2. w.map[p].target \in t.live \cap w.live
    BY <1>1, <2>1 DEF Targets, Target
  <2> QED BY <1>1, <2>1, <2>2 DEF Loosens, NoSelf
<1> QED BY <1>1 DEF NoSelf

\* The ECM PIDs of a PMT are not its streams'.
LEMMA AnnouncedIs ==
  ASSUME NEW o, Roles(o), NEW e, Lists(o, e), NEW q, q = Announced(o, e), q # NONE
  PROVE  /\ q \in EcmPid /\ q \in Pid
         /\ e.ecm \in EcmPid => q = e.ecm
         /\ e.ecm \notin EcmPid => q = o.ecm /\ e.ecm = NONE
         /\ \A f : Lists(o, f) => f.pid # q
<1>1. e \in Es /\ EcmOf(o, e.ecm) /\ EcmOf(o, o.ecm) /\ (e.ecm \in EcmPid => e.ecm # NONE)
  BY ListsOnce, Consts DEF EcmOf
<1>2. \/ e.ecm \in EcmPid /\ q = e.ecm
      \/ e.ecm \notin EcmPid /\ e.ecm = NONE /\ o.ecm \in EcmPid /\ q = o.ecm
  BY <1>1 DEF Announced
<1>3. EcmOf(o, q)
  BY <1>1, <1>2
<1>4. \A f : Lists(o, f) => f.pid # q
  BY <1>3, ListsOnce DEF Roles
<1> QED BY <1>2, <1>4, Consts

\* What is left of a PMT after a turn no longer has its stream.
LEMMA HeadGone ==
  ASSUME NEW m, Roles(m), m.es # <<>>, NEW n, n = [m EXCEPT !.es = Tail(@)], NEW e, e = Head(m.es)
  PROVE  Lists(m, e) /\ e \in Es /\ ~Lists(n, e)
<1>1. Lists(m, e) /\ e \in Es
  BY ListsTail
<1>2. Roles(n) /\ \A q : PidOf(n, q) => q # e.pid
  BY Rest
<1>3. ~Lists(n, e)
  BY <1>2, ListsOnce
<1> QED BY <1>1, <1>3

\* A turn of proc_pmt, with what the invariants say of it.
TurnOf(t, h, o, L, m, e, j, w, l) ==
  /\ TurnIs(t, h, e, j, w) /\ e \in Es /\ Lists(o, e) /\ Roles(o) /\ m.ecm = o.ecm
  /\ BoundTo(w, e.pid, Announced(o, e)) /\ e.pid \in Pid
  /\ Loosens(t, w, {e.pid})
  /\ \A q : Contains(l, q) <=> Contains(L, q) \/ q = e.pid \/ (e.ecm \in EcmPid /\ q = e.ecm)

\* Each PmtStream is such a turn.
LEMMA StreamTurns ==
  ASSUME IInv, IInv', Bindings, Bindings', PmtStream
  PROVE  /\ Len(prog') = Len(prog)
         /\ \E e, j : TurnOf(tab, dec0, prev.pmt, prog[cur].streams, pmt, e, j, tab', prog'[cur].streams)
<1> DEFINE e == Head(pmt.es)
           list == prog[cur].streams
           long == WithEcm(list, e)
           l == Append(long, e.pid)
<1>1. /\ Roles(pmt) /\ pmt.es # <<>> /\ pmt' = [pmt EXCEPT !.es = Tail(@)]
      /\ prev' = prev /\ InLoop /\ InLoop' /\ prog \in Seq(Program) /\ cur \in 1 .. Len(prog)
      /\ prog' = [prog EXCEPT ![cur].streams = l]
  BY DEF PmtStream, IInv, InPmt, InLoop, Good, Counts, WithEcm
<1>2. Lists(pmt, e) /\ e \in Es /\ ~Lists(pmt', e)
  BY <1>1, HeadGone
<1>3. PICK j : TurnIs(tab, dec0, e, j, tab')
  BY StreamSpares
<1>4. list \in Seq(Pid) /\ e.pid \in Pid
  BY <1>1, <1>2, ListsAre, Consts DEF Es
<1> HIDE DEF e, list
<1>5. long \in Seq(Pid) /\ \A q : Contains(long, q) <=> Contains(list, q) \/ (e.ecm \in EcmPid /\ q = e.ecm)
  <2>1. CASE e.ecm \notin EcmPid \/ Contains(list, e.ecm)
    BY <1>4, <2>1 DEF WithEcm, AddEcm
  <2>2. CASE e.ecm \in EcmPid /\ ~Contains(list, e.ecm)
    <3>1. long = Append(list, e.ecm) /\ e.ecm \in Pid
      BY <2>2, Consts DEF WithEcm, AddEcm
    <3> QED BY <1>4, <2>2, <3>1, ContainsAppend
  <2> QED BY <2>1, <2>2
<1> HIDE DEF long
<1>6. l \in Seq(Pid) /\ \A q : Contains(l, q) <=> Contains(long, q) \/ q = e.pid
  BY <1>4, <1>5, ContainsAppend
<1> HIDE DEF l
<1>7. prog'[cur].streams = l /\ Len(prog') = Len(prog)
  <2>1. Listed(prog, prog', cur, "streams", l)
    BY <1>1, <1>6, SetStreams
  <2>2. prog' \in Seq(Program) /\ cur \in 1 .. Len(prog')
    BY <1>1, <2>1 DEF Listed, Changed
  <2>3. prog'[cur]["streams"] = prog'[cur].streams
    BY <2>2, ListsAre
  <2> QED BY <2>1, <2>3 DEF Listed, Changed
<1>8. Lists(prev.pmt, e) /\ Roles(prev.pmt) /\ pmt.ecm = prev.pmt.ecm
  BY <1>1, <1>2 DEF Bindings, Announcing
<1>9. BoundTo(tab', e.pid, Announced(prev.pmt, e))
  BY <1>1, <1>2, <1>8 DEF Bindings, Announcing
<1>10. Loosens(tab, tab', {e.pid})
  <2>1. e.ecm \in Pid => e.ecm \in EcmPid
    BY <1>2, Consts DEF Es
  <2> QED BY <1>3, <2>1 DEF TurnIs, Spares, Loosens
<1> QED BY <1>2, <1>3, <1>4, <1>5, <1>6, <1>7, <1>8, <1>9, <1>10 DEF TurnOf, list

-----------------------------------------------------------------------------
(* What the lists tell while proc_pmt goes on: the ECM PID of the program  *)
(* carries no stream, and the PID of a stream's decryptor is listed with   *)
(* the stream when no other program could hold it.                         *)

Begun ==
  /\ pc = "unref" => /\ prog[cur].streams = prev.streams
                     /\ pmt.ecm \in Pid => tab.map[pmt.ecm].type # "OTHER"
  /\ pc = "streams" /\ pmt.ecm \in EcmPid => Contains(prog[cur].streams, pmt.ecm)

\* Of list l, each bound stream has the PID of its decryptor listed as well.
Together(t, l) ==
  \A p \in Pid : Contains(l, p) /\ t.map[p].type = "OTHER" /\ t.map[p].target # NULL =>
    Contains(l, t.ecm[t.map[p].target])
Sole == pc # "release" /\ Len(prog) = 1 => Together(tab, prog[1].streams)

\* A list that stays, while no stream is bound anew.
LEMMA TogetherKept ==
  ASSUME NEW t, NEW w, Loosens(t, w, {}), Targets(t), Targets(w), NEW l, Together(t, l)
  PROVE  Together(w, l)
<1>1. ASSUME NEW p \in Pid, Contains(l, p), w.map[p].type = "OTHER", w.map[p].target # NULL
      PROVE  Contains(l, w.ecm[w.map[p].target])
  <2>1. t.map[p].type = "OTHER" /\ w.map[p].target = t.map[p].target
    BY <1>1 DEF Loosens
  <2>2. w.map[p].target \in t.live \cap w.live
    BY <1>1, <2>1 DEF Targets, Target
  <2>3. w.ecm[w.map[p].target] = t.ecm[w.map[p].target]
    BY <2>2 DEF Loosens
  <2> QED BY <1>1, <2>1, <2>3 DEF Together
<1> QED BY <1>1 DEF Together

\* The steps of proc_pmt before the streams leave the list of the program.
LEMMA UnrefLists ==
  ASSUME IInv, PmtUnref
  PROVE  Len(prog') = Len(prog) /\ prog'[cur].streams = prog[cur].streams
<1> DEFINE l == Tail(prog[cur].old)
<1>1. /\ prog \in Seq(Program) /\ cur \in 1 .. Len(prog) /\ prog[cur].old # <<>>
      /\ prog' = [prog EXCEPT ![cur].old = l]
  BY DEF PmtUnref, IInv, InPmt, Good, Counts
<1>2. prog[cur] \in Program
  BY <1>1
<1>3. prog[cur].old \in Seq(Pid)
  BY <1>2 DEF Program
<1>4. l \in Seq(Pid)
  BY <1>1, <1>3, HeadTailProperties
<1> HIDE DEF l
<1>5. Listed(prog, prog', cur, "old", l)
  BY <1>1, <1>4, SetOld
<1>6. /\ prog' \in Seq(Program) /\ Len(prog') = Len(prog)
      /\ prog'[cur]["streams"] = prog[cur]["streams"]
  BY <1>1, <1>5 DEF Listed, Changed
<1> QED BY <1>1, <1>6, ListsAre

\* Saving the lists makes a new one with the program's ECM PID, if it has one.
LEMMA SaveLists ==
  ASSUME IInv, PmtSave
  PROVE  /\ Len(prog') = Len(prog)
         /\ \A q : Contains(prog'[cur].streams, q) <=> pmt.ecm \in EcmPid /\ q = pmt.ecm
<1> DEFINE l == IF pmt.ecm \in EcmPid THEN <<pmt.ecm>> ELSE <<>>
<1>1. /\ prog \in Seq(Program) /\ cur \in 1 .. Len(prog)
      /\ prog' = [prog EXCEPT ![cur].old = prog[cur].streams, ![cur].streams = l]
  BY DEF PmtSave, IInv, InPmt, Good, Counts
<1>2. l \in Seq(Pid) /\ \A q : Contains(l, q) <=> pmt.ecm \in EcmPid /\ q = pmt.ecm
  <2>1. CASE pmt.ecm \in EcmPid
    BY <2>1, Consts DEF Contains
  <2>2. CASE pmt.ecm \notin EcmPid
    BY <2>2, ContainsEmpty
  <2> QED BY <2>1, <2>2
<1> HIDE DEF l
<1>3. PICK M : SaveSteps(prog, M, prog', cur, l)
  BY <1>1, <1>2, SaveIs
<1>4. prog' \in Seq(Program) /\ Len(prog') = Len(prog) /\ prog'[cur]["streams"] = l
  BY <1>3 DEF SaveSteps, SameOwners, Changed
<1> QED BY <1>1, <1>2, <1>4, ListsAre

\* In the loop of proc_pmt, and when it is the only program.
LEMMA OnlyOne ==
  ASSUME IInv, InLoop
  PROVE  cur \in 1 .. Len(prog) /\ (Len(prog) = 1 => cur = 1)
BY DEF IInv, InLoop, InPmt

\* The first of these through a step.
LEMMA BegunKept ==
  ASSUME IInv, IInv', Bindings, Bindings', Begun, [Next]_vars
  PROVE  Begun'
<1>1. ASSUME NEW i \in 1 .. Len(prog), NEW p \in Pmts[Len(prog)], PmtBegin(i, p)
      PROVE  Begun'
  <2>1. Roles(p) /\ BeginIs(tab, p.ecm, dec0', tab')
    BY <1>1, BeginSpares
  <2>2. p.ecm \in Pid => p.ecm \in EcmPid
    BY <2>1, Consts DEF Roles
  <2> QED BY <1>1, <2>1, <2>2 DEF BeginIs, RegisteredAs, Begun, PmtBegin
<1>2. CASE PmtUnref
  <2>1. prog'[cur].streams = prog[cur].streams
    BY <1>2, UnrefLists
  <2>2. pmt.ecm \in Pid /\ tab'.map[pmt.ecm].type = "OTHER" => tab.map[pmt.ecm].type = "OTHER"
    <3>1. ~PmtStream
      BY <1>2 DEF PmtUnref, PmtStream
    <3>2. Loosens(tab, tab', {})
      BY <3>1, StepLoosens
    <3> QED BY <3>2 DEF Loosens
  <2> QED BY <1>2, <2>1, <2>2 DEF Begun, PmtUnref
<1>3. CASE PmtSave
  <2>1. \A q : Contains(prog'[cur].streams, q) <=> pmt.ecm \in EcmPid /\ q = pmt.ecm
    BY <1>3, SaveLists
  <2> QED BY <1>3, <2>1 DEF Begun, PmtSave
<1>4. CASE PmtStream
  <2> DEFINE L == prog[cur].streams
             l == prog'[cur].streams
             w == tab'
  <2>1. PICK e, j : TurnOf(tab, dec0, prev.pmt, L, pmt, e, j, w, l)
    BY <1>4, StreamTurns
  <2>2. \A q : Contains(L, q) => Contains(l, q)
    BY <2>1 DEF TurnOf
  <2>3. cur' = cur /\ pc = "streams" /\ pc' = "streams" /\ pmt'.ecm = pmt.ecm
    BY <1>4 DEF PmtStream, IInv, Shape
  <2>4. pmt.ecm \in EcmPid => Contains(L, pmt.ecm)
    BY <2>3 DEF Begun
  <2>5. pmt.ecm \in EcmPid => Contains(l, pmt.ecm)
    BY <2>2, <2>4
  <2> QED BY <2>3, <2>5 DEF Begun
<1>5. CASE PmtLast
  BY <1>5 DEF PmtLast, Begun
<1>6. CASE UNCHANGED vars
  BY <1>6 DEF vars, Begun
<1>7. CASE ~InLoop'
  BY <1>7 DEF InLoop, Begun
<1> QED BY <1>1, <1>2, <1>3, <1>4, <1>5, <1>6, <1>7, OtherSteps

\* The second.
LEMMA SoleKept ==
  ASSUME IInv, IInv', Bindings, Bindings', Begun, Sole, [Next]_vars
  PROVE  Sole'
<1> SUFFICES ASSUME pc' # "release", Len(prog') = 1
             PROVE  Together(tab', prog'[1].streams)
  BY DEF Sole
<1>1. Targets(tab) /\ Targets(tab') /\ prog \in Seq(Program)
  BY DEF IInv, Good, Books, Counts
<1>2. ASSUME ~PmtStream, pc # "release", Len(prog) = 1, prog'[1].streams = prog[1].streams
      PROVE  Together(tab', prog'[1].streams)
  <2>1. Loosens(tab, tab', {})
    BY <1>2, StepLoosens
  <2>2. Together(tab, prog[1].streams)
    BY <1>2 DEF Sole
  <2> QED BY <1>1, <1>2, <2>1, <2>2, TogetherKept
<1>3. CASE pc # "release" /\ prog' = prog /\ ~PmtStream
  BY <1>2, <1>3
<1>4. CASE PmtUnref
  <2>1. cur = 1 /\ Len(prog) = 1 /\ prog'[1].streams = prog[1].streams
    BY <1>4, UnrefLists, OnlyOne DEF InLoop, PmtUnref
  <2> QED BY <1>2, <1>4, <2>1 DEF PmtUnref, PmtStream
<1>5. CASE PmtSave
  <2>1. /\ cur = 1 /\ \A q : Contains(prog'[1].streams, q) <=> pmt.ecm \in EcmPid /\ q = pmt.ecm
    BY <1>5, SaveLists, OnlyOne DEF InLoop, PmtSave
  <2>2. pmt.ecm \in Pid => tab'.map[pmt.ecm].type # "OTHER"
    BY <1>5, SaveSpares DEF SaveAs, Begun, PmtSave
  <2> QED BY <2>1, <2>2 DEF Together
<1>6. CASE PmtStream
  <2>1. cur = 1 /\ Len(prog) = 1 /\ pc = "streams"
    BY <1>6, StreamTurns, OnlyOne DEF InLoop, PmtStream
  <2> DEFINE L == prog[1].streams
             l == prog'[1].streams
             w == tab'
             o == prev.pmt
  <2>2. PICK e, j : TurnOf(tab, dec0, o, L, pmt, e, j, w, l)
    BY <1>6, <2>1, StreamTurns
  <2>3. Together(tab, L) /\ (pmt.ecm \in EcmPid => Contains(L, pmt.ecm)) /\ Targets(w)
    BY <1>1, <2>1 DEF Sole, Begun
  <2> HIDE DEF L, l, w, o
  <2>4. \A q : Contains(l, q) <=> Contains(L, q) \/ q = e.pid \/ (e.ecm \in EcmPid /\ q = e.ecm)
    BY <2>2 DEF TurnOf
  <2>5. ASSUME w.map[e.pid].target # NULL
        PROVE  Contains(l, w.ecm[w.map[e.pid].target])
    <3> DEFINE q == Announced(o, e)
    <3>1. q # NONE /\ w.ecm[w.map[e.pid].target] = q
      BY <2>2, <2>5 DEF TurnOf, BoundTo
    <3>2. Roles(o) /\ Lists(o, e) /\ pmt.ecm = o.ecm
      BY <2>2 DEF TurnOf
    <3>3. /\ q \in EcmPid
          /\ e.ecm \in EcmPid => q = e.ecm
          /\ e.ecm \notin EcmPid => q = o.ecm
      BY <3>1, <3>2, AnnouncedIs
    <3> HIDE DEF q
    <3> QED BY <2>3, <2>4, <3>1, <3>2, <3>3
  <2>6. ASSUME NEW p \in Pid \ {e.pid}, Contains(l, p), w.map[p].type = "OTHER", w.map[p].target # NULL
        PROVE  Contains(l, w.ecm[w.map[p].target])
    <3>1. tab.map[p].type = "OTHER" /\ w.map[p].target = tab.map[p].target
      BY <2>2, <2>6 DEF TurnOf, Loosens
    <3>2. w.map[p].target \in tab.live \cap w.live
      BY <1>1, <2>3, <2>6, <3>1 DEF Targets, Target
    <3>3. w.ecm[w.map[p].target] = tab.ecm[w.map[p].target]
      BY <2>2, <3>2 DEF TurnOf, Loosens
    <3>4. e.ecm \in EcmPid => p # e.ecm
      BY <2>2, <2>6 DEF TurnOf, TurnIs
    <3>5. Contains(L, p)
      BY <2>4, <2>6, <3>4
    <3> QED BY <2>3, <2>4, <2>6, <3>1, <3>3, <3>5 DEF Together
  <2>7. e.pid \in Pid
    BY <2>2 DEF TurnOf
  <2>8. Together(w, l)
    BY <2>5, <2>6 DEF Together
  <2> QED BY <2>8 DEF w, l
<1>7. CASE PatBuild
  <2>1. 1 \in 1 .. Len(pat) /\ prog'[1].streams = <<>>
    BY <1>7 DEF PatBuild, IInv, Shape
  <2> QED BY <2>1, ContainsEmpty DEF Together
<1>8. CASE Teardown
  BY <1>8 DEF Teardown
<1>9. ASSUME NEW i \in 1 .. Len(prog), NEW p \in Pmts[Len(prog)], PmtBegin(i, p)
      PROVE  Together(tab', prog'[1].streams)
  BY <1>3, <1>9 DEF PmtBegin, PmtStream
<1>10. ASSUME NEW q \in EmmPid, ProcCat(q)
       PROVE  Together(tab', prog'[1].streams)
  BY <1>3, <1>10 DEF ProcCat, PmtStream
<1>11. CASE PmtLast
  BY <1>3, <1>11 DEF PmtLast, PmtStream
<1>12. CASE UNCHANGED vars
  BY <1>12 DEF vars, Sole
<1>13. ~ReleaseStream /\ ~ReleaseProgram /\ \A new \in Pats \cup {NULL} : ~ReleaseBegin(new)
  BY DEF ReleaseStream, ReleaseProgram, ReleaseBegin
<1> QED BY <1>4, <1>5, <1>6, <1>7, <1>8, <1>9, <1>10, <1>11, <1>12, <1>13 DEF Next, Down

-----------------------------------------------------------------------------
(* KeepsDecryptor: a stream that a PMT repeats with its ECM PID.           *)

\* PMT o repeats stream e, which is in list L and bound in tables t.
Repeated(o, t, L, e) ==
  LET q == Announced(o, e)
      m == t.map[e.pid]
  IN  /\ q # NONE /\ Contains(L, e.pid)
      /\ m.type = "OTHER" /\ m.target # NULL
      /\ t.ecm[m.target] = q /\ t.map[q].target = m.target

\* Stream p keeps decryptor d, which is registered for q still.
Keeping(t, p, q, d) ==
  /\ t.map[p].type = "OTHER" /\ t.map[p].target = d
  /\ t.map[q].type = "ECM" /\ t.map[q].target = d
Before(e) == prev.tab.map[e.pid].target
Kept ==
  InLoop /\ Len(prog) = 1 => \A e \in Es :
    Lists(prev.pmt, e) /\ Repeated(prev.pmt, prev.tab, prev.streams, e) =>
      LET q == Announced(prev.pmt, e)
      IN  /\ Keeping(tab, e.pid, q, Before(e))
          /\ q = prev.pmt.ecm => dec0 = Before(e)

\* A stream keeps its decryptor through a change that spares both PIDs.
LEMMA KeepingKept ==
  ASSUME NEW t, NEW w, NEW S, Spares(t, w, S), Targets(w), NEW p \in Pid \ S, NEW q \in Pid \ S,
         NEW d, d # NULL, Keeping(t, p, q, d)
  PROVE  Keeping(w, p, q, d)
<1>1. w.map[p].type = "OTHER" /\ w.map[p].target = d
  BY DEF Keeping, Spares
<1>2. d \in w.live
  BY <1>1 DEF Targets, Target
<1> QED BY <1>1, <1>2 DEF Keeping, Spares

\* What a repeated stream is before the PMT.
LEMMA RepeatedIs ==
  ASSUME NEW o, Roles(o), NEW t, NEW L, NEW e \in Es, Lists(o, e), Repeated(o, t, L, e),
         NEW q, q = Announced(o, e), NEW d, d = t.map[e.pid].target
  PROVE  /\ q \in EcmPid /\ q \in Pid /\ e.pid \in Pid /\ d # NULL /\ Contains(L, e.pid)
         /\ t.map[e.pid].type = "OTHER" /\ t.ecm[d] = q /\ t.map[q].target = d
<1>1. q # NONE
  BY DEF Repeated
<1>2. q \in EcmPid /\ q \in Pid
  BY <1>1, AnnouncedIs
<1> QED BY <1>2, Consts DEF Repeated, Es

\* The decryptor of a repeated stream is registered.
LEMMA RepeatedKeeps ==
  ASSUME NEW o, Roles(o), NEW t, NEW L, NEW e \in Es, Lists(o, e), Repeated(o, t, L, e),
         t \in Tables, Targets(t), NoSelf(t), NEW P, Owned(t, P)
  PROVE  Keeping(t, e.pid, Announced(o, e), t.map[e.pid].target)
<1> DEFINE q == Announced(o, e)
           d == t.map[e.pid].target
<1>1. /\ q \in EcmPid /\ q \in Pid /\ e.pid \in Pid /\ d # NULL
      /\ t.map[e.pid].type = "OTHER" /\ t.ecm[d] = q /\ t.map[q].target = d
  BY RepeatedIs
<1> HIDE DEF q
<1>2. t.map[q].type # "OTHER"
  BY <1>1 DEF NoSelf
<1>3. t.map[q].type \notin {"UNKNOWN", "EMM"}
  BY <1>1 DEF Targets, Target
<1>4. t.map[q].type # "PMT"
  BY <1>1, Consts DEF Owned
<1>5. t.map[q].type \in Type
  BY <1>1, AnEntry
<1> QED BY <1>1, <1>2, <1>3, <1>4, <1>5 DEF Type, Keeping, q

\* A PID that is in both lists of a program is counted twice.
LEMMA CountedTwice ==
  ASSUME NEW t, NEW P, Counts(t, P), NEW i \in 1 .. Len(P), NEW p \in Pid,
         Contains(P[i]["streams"], p), Contains(P[i]["old"], p)
  PROVE  t.map[p].ref > 1
<1> DEFINE S == In(P, p)
           a == <<i, "streams">>
           b == <<i, "old">>
<1>1. a \in S /\ b \in S /\ a # b
  BY InIff
<1>2. IsFiniteSet(S) /\ Cardinality(S) \in Nat /\ t.map[p].ref = Cardinality(S)
  BY <1>1, InCount DEF Counts, Counted
<1> HIDE DEF S, a, b
<1>3. Cardinality(S) # 0
  BY <1>1, <1>2, FS_EmptySet
<1>4. Cardinality(S) # 1
  BY <1>1, <1>2, FS_Singleton
<1> QED BY <1>2, <1>3, <1>4

\* A turn for stream f keeps what e has.
LEMMA TurnKeeps ==
  ASSUME NEW t, NEW h, NEW o, NEW L, NEW m, NEW f, NEW j, NEW w, NEW l,
         TurnOf(t, h, o, L, m, f, j, w, l), Targets(w),
         NEW e \in Es, Lists(o, e), NEW q, q = Announced(o, e), q # NONE,
         NEW d, d # NULL, Keeping(t, e.pid, q, d), q = o.ecm => h = d
  PROVE  Keeping(w, e.pid, q, d)
<1>1. /\ TurnIs(t, h, f, j, w) /\ f \in Es /\ Lists(o, f) /\ Roles(o)
      /\ Spares(t, w, {f.pid, f.ecm}) /\ Named(t, f, j)
      /\ w.map[f.pid].type = "OTHER" /\ w.map[f.pid].target = select_active_decryptor(h, j, f.ecm)
      /\ f.ecm \in EcmPid /\ j \in w.live => w.map[f.ecm].type = "ECM" /\ w.map[f.ecm].target = j
  BY DEF TurnOf, TurnIs
<1>2. /\ q \in Pid /\ e.pid \in Pid /\ q # f.pid /\ e.pid # f.ecm /\ (f # e => e.pid # f.pid)
      /\ q \in EcmPid
  <2>1. q \in EcmPid /\ q \in Pid /\ q # f.pid
    BY <1>1, AnnouncedIs
  <2>2. e.pid # f.ecm /\ (f # e => e.pid # f.pid)
    BY <1>1, ListsOnce
  <2> QED BY <2>1, <2>2, Consts DEF Es
<1>3. q = f.ecm => j = d
  BY <1>1, <1>2 DEF Named, Registered, Keeping
<1>4. w.map[e.pid].type = "OTHER" /\ w.map[e.pid].target = d
  <2>1. CASE f # e
    BY <1>1, <1>2, <2>1 DEF Spares, Keeping
  <2>2. CASE f = e
    <3>1. /\ e.ecm \in EcmPid => q = e.ecm
          /\ e.ecm \notin EcmPid => q = o.ecm /\ e.ecm = NONE
      BY <1>1, AnnouncedIs
    <3>2. CASE e.ecm \in EcmPid
      BY <1>1, <1>3, <2>2, <3>1, <3>2 DEF select_active_decryptor
    <3>3. CASE e.ecm \notin EcmPid
      <4>1. j = NULL /\ h = d /\ e.ecm # CLEAR
        BY <1>1, <2>2, <3>1, <3>3, PidMapAssumption DEF Named, PidMapAssumption
      <4> QED BY <1>1, <2>2, <4>1 DEF select_active_decryptor
    <3> QED BY <3>2, <3>3
  <2> QED BY <2>1, <2>2
<1>5. d \in w.live
  BY <1>2, <1>4 DEF Targets, Target
<1>6. w.map[q].type = "ECM" /\ w.map[q].target = d
  <2>1. CASE q = f.ecm
    BY <1>1, <1>2, <1>3, <1>5, <2>1
  <2>2. CASE q # f.ecm
    BY <1>1, <1>2, <1>5, <2>2 DEF Spares, Keeping
  <2> QED BY <2>1, <2>2
<1> QED BY <1>4, <1>6 DEF Keeping

\* proc_pmt begins: what is repeated has its decryptor registered.
LEMMA BeginKeeps ==
  ASSUME IInv, NoSelf(tab), NEW i \in 1 .. Len(prog), NEW p \in Pmts[Len(prog)], PmtBegin(i, p)
  PROVE  Kept'
<1> DEFINE t == tab
           w == tab'
           L == prog[i].streams
<1>1. Roles(p) /\ BeginIs(t, p.ecm, dec0', w) /\ Targets(w)
  BY BeginSpares, LoopFacts, StepBegin DEF IInv, Good, Books
<1>2. Targets(t) /\ t \in Tables /\ Owned(t, prog) /\ NoSelf(t)
  BY DEF IInv, Good, Books
<1>3. prev'.pmt = p /\ prev'.tab = t /\ prev'.streams = L
  BY DEF PmtBegin
<1> HIDE DEF t, w, L
<1>4. ASSUME NEW e \in Es, Lists(p, e), Repeated(p, t, L, e), NEW q, q = Announced(p, e),
             NEW d, d = t.map[e.pid].target
      PROVE  Keeping(w, e.pid, q, d) /\ (q = p.ecm => dec0' = d)
  <2>1. /\ q \in EcmPid /\ q \in Pid /\ e.pid \in Pid /\ d # NULL
    BY <1>1, <1>4, RepeatedIs
  <2>2. Keeping(t, e.pid, q, d)
    BY <1>1, <1>2, <1>4, RepeatedKeeps
  <2>3. e.pid # p.ecm
    BY <1>1, <1>4, ListsOnce DEF Roles, EcmOf
  <2>4. CASE q = p.ecm
    <3>1. dec0' = d /\ RegisteredAs(w, q, d)
      BY <1>1, <2>1, <2>2, <2>4 DEF BeginIs, Registered, Keeping
    <3>2. w.map[e.pid].type = "OTHER" /\ w.map[e.pid].target = d
      BY <1>1, <2>1, <2>2, <2>3 DEF BeginIs, Spares, Keeping
    <3> QED BY <3>1, <3>2 DEF Keeping, RegisteredAs
  <2>5. CASE q # p.ecm
    <3>1. Spares(t, w, {p.ecm}) /\ e.pid \in Pid \ {p.ecm} /\ q \in Pid \ {p.ecm}
      BY <1>1, <2>1, <2>3, <2>5 DEF BeginIs
    <3> QED BY <1>1, <2>1, <2>2, <2>5, <3>1, KeepingKept
  <2> QED BY <2>4, <2>5
<1> QED BY <1>3, <1>4 DEF Kept, Before, t, w

\* An entry of the old list is dropped: what is repeated is in the other list.
LEMMA UnrefKeeps ==
  ASSUME IInv, IInv', Bindings, Begun, Sole, Kept, PmtUnref
  PROVE  Kept'
<1> DEFINE t == tab
           w == tab'
           o == prev.pmt
           x == Head(prog[cur].old)
           L == prog[1].streams
<1> SUFFICES ASSUME Len(prog') = 1, NEW e \in Es, Lists(o, e), Repeated(o, prev.tab, prev.streams, e),
                    NEW q, q = Announced(o, e), NEW d, d = Before(e)
             PROVE  Keeping(w, e.pid, q, d) /\ (q = o.ecm => dec0 = d)
  BY DEF Kept, PmtUnref, Before
<1>1. Len(prog) = 1 /\ cur = 1 /\ InLoop /\ prev.streams = L /\ prog \in Seq(Program)
  BY UnrefLists, OnlyOne DEF PmtUnref, InLoop, Begun, IInv, Good, Counts
<1>2. Roles(o) /\ Targets(t) /\ Targets(w) /\ Counts(t, prog)
  BY <1>1 DEF Bindings, Announcing, IInv, Good, Books
<1>3. /\ q \in EcmPid /\ q \in Pid /\ e.pid \in Pid /\ d # NULL /\ Contains(L, e.pid)
  BY <1>1, <1>2, RepeatedIs DEF Before
<1>4. Keeping(t, e.pid, q, d) /\ (q = o.ecm => dec0 = d)
  BY <1>1 DEF Kept
<1>5. Together(t, L)
  BY <1>1 DEF Sole, PmtUnref
<1>6. UnrefIs(t, x, w)
  BY OldSpares
<1>7. Contains(prog[1]["old"], x)
  <2> DEFINE k == prog[1]["old"]
  <2>1. prog[1].old # <<>> /\ k = prog[1].old /\ k \in Seq(Pid) /\ x = Head(k)
    BY <1>1, ListsAre DEF PmtUnref
  <2> HIDE DEF x, k
  <2>2. k # <<>>
    BY <2>1
  <2>3. x = k[1] /\ 1 \in 1 .. Len(k)
    BY <2>1, <2>2, HeadTailProperties
  <2> QED BY <2>3 DEF Contains, k
<1>8. L = prog[1]["streams"] /\ 1 \in 1 .. Len(prog)
  BY <1>1, ListsAre
<1> HIDE DEF t, w, o, x, L
<1>9. Contains(L, q)
  <2>1. t.ecm[d] = q
    BY <1>2, <1>3, <1>4 DEF Targets, Target, Keeping
  <2> QED BY <1>3, <1>4, <1>5, <2>1 DEF Together, Keeping
<1>10. x \in {e.pid, q} => t.map[x].ref > 1
  BY <1>2, <1>3, <1>7, <1>8, <1>9, CountedTwice
<1>11. e.pid # q
  BY <1>4 DEF Keeping
<1>12. w.map[e.pid].type = "OTHER" /\ w.map[e.pid].target = d
  BY <1>3, <1>4, <1>6, <1>10 DEF UnrefIs, Lessens, Spares, Keeping
<1>13. d \in w.live
  BY <1>2, <1>3, <1>12 DEF Targets, Target
<1>14. w.map[q].type = "ECM" /\ w.map[q].target = d
  BY <1>3, <1>4, <1>6, <1>10, <1>13 DEF UnrefIs, Lessens, Spares, Keeping
<1> QED BY <1>4, <1>12, <1>14 DEF Keeping

\* What is repeated keeps its decryptor through a step.
LEMMA KeptKept ==
  ASSUME IInv, IInv', Bindings, Bindings', NoSelf(tab), Begun, Sole, Kept, [Next]_vars
  PROVE  Kept'
<1>1. CASE PmtSave
  <2>1. \A q \in Pid : tab'.map[q].type = tab.map[q].type /\ tab'.map[q].target = tab.map[q].target
    BY <1>1, SaveSpares DEF SaveAs
  <2> SUFFICES ASSUME Len(prog') = 1, NEW e \in Es, Lists(prev.pmt, e),
                      Repeated(prev.pmt, prev.tab, prev.streams, e)
               PROVE  LET q == Announced(prev.pmt, e)
                      IN  /\ Keeping(tab', e.pid, q, Before(e))
                          /\ q = prev.pmt.ecm => dec0 = Before(e)
    BY <1>1 DEF Kept, PmtSave, Before
  <2> DEFINE q == Announced(prev.pmt, e)
  <2>2. Len(prog) = 1 /\ InLoop
    BY <1>1, SaveLists DEF InLoop, PmtSave
  <2>3. Roles(prev.pmt)
    BY <2>2 DEF Bindings, Announcing
  <2>4. q \in Pid /\ e.pid \in Pid
    BY <2>3, RepeatedIs
  <2>5. Keeping(tab, e.pid, q, Before(e)) /\ (q = prev.pmt.ecm => dec0 = Before(e))
    BY <2>2 DEF Kept
  <2> QED BY <2>1, <2>4, <2>5 DEF Keeping
<1>2. CASE PmtStream
  <2> DEFINE o == prev.pmt
             w == tab'
             L == prog[cur].streams
             l == prog'[cur].streams
  <2> SUFFICES ASSUME Len(prog') = 1, NEW e \in Es, Lists(o, e),
                      Repeated(o, prev.tab, prev.streams, e)
               PROVE  LET q == Announced(o, e)
                      IN  /\ Keeping(w, e.pid, q, Before(e))
                          /\ q = o.ecm => dec0 = Before(e)
    BY <1>2 DEF Kept, PmtStream, Before
  <2> DEFINE q == Announced(o, e)
             d == Before(e)
  <2>1. Len(prog) = 1 /\ InLoop
    BY <1>2, StreamTurns DEF InLoop, PmtStream
  <2>2. Roles(o) /\ Targets(w)
    BY <2>1 DEF Bindings, Announcing, IInv, Good, Books
  <2>3. q # NONE /\ d # NULL
    BY DEF Repeated, Before
  <2>4. Keeping(tab, e.pid, q, d) /\ (q = o.ecm => dec0 = d)
    BY <2>1 DEF Kept
  <2>5. PICK f, j : TurnOf(tab, dec0, o, L, pmt, f, j, w, l)
    BY <1>2, StreamTurns
  <2>6. q = Announced(o, e)
    OBVIOUS
  <2> HIDE DEF o, w, L, l, q, d
  <2>7. Keeping(w, e.pid, q, d)
    BY <2>2, <2>3, <2>4, <2>5, <2>6, TurnKeeps
  <2> QED BY <2>4, <2>7 DEF q, d
<1>3. CASE PmtLast
  BY <1>3 DEF PmtLast, Kept, InLoop
<1>4. CASE UNCHANGED vars
  BY <1>4 DEF vars, Kept, InLoop, Before
<1>5. CASE ~InLoop'
  BY <1>5 DEF Kept
<1> QED BY <1>1, <1>2, <1>3, <1>4, <1>5, BeginKeeps, UnrefKeeps, OtherSteps

\* No stream is bound to itself, through a step.
LEMMA NoSelfKept ==
  ASSUME IInv, IInv', Bindings, Bindings', NoSelf(tab), [Next]_vars
  PROVE  NoSelf(tab)'
<1>1. Targets(tab) /\ Targets(tab')
  BY DEF IInv, Good, Books
<1>2. CASE ~PmtStream
  <2>1. Loosens(tab, tab', {})
    BY <1>2, StepLoosens
  <2>2. NoSelf(tab')
    BY <1>1, <2>1, SelfKept
  <2> QED BY <2>2 DEF NoSelf
<1>3. CASE PmtStream
  <2> DEFINE o == prev.pmt
             w == tab'
             L == prog[cur].streams
             l == prog'[cur].streams
  <2>1. PICK e, j : TurnOf(tab, dec0, o, L, pmt, e, j, w, l)
    BY <1>3, StreamTurns
  <2> HIDE DEF o, w, L, l
  <2>2. /\ Loosens(tab, w, {e.pid}) /\ BoundTo(w, e.pid, Announced(o, e))
        /\ Roles(o) /\ Lists(o, e)
    BY <2>1 DEF TurnOf
  <2> DEFINE q == Announced(o, e)
  <2>3. q # NONE => q # e.pid
    BY <2>2, AnnouncedIs
  <2>4. w.map[e.pid].target # NULL => w.ecm[w.map[e.pid].target] # e.pid
    BY <2>2, <2>3 DEF BoundTo
  <2>5. \A p \in Pid \cap {e.pid} : w.map[p].type = "OTHER" /\ w.map[p].target # NULL =>
           w.ecm[w.map[p].target] # p
    BY <2>4
  <2>6. Targets(w)
    BY <1>1 DEF w
  <2>7. NoSelf(w)
    BY <1>1, <2>2, <2>5, <2>6, SelfKept
  <2> QED BY <2>7 DEF NoSelf, w
<1> QED BY <1>2, <1>3

\* A PMT of a program that is alone, which repeats a stream and its ECM PID,
\* leaves the stream with its decryptor, and so with its key, although the
\* lists are released and made anew and the stream is bound again.
THEOREM RepeatedKeep == Spec => KeepsDecryptor
<1> DEFINE KInv == Bindings /\ NoSelf(tab) /\ Begun /\ Sole /\ Kept
<1>1. Init => KInv
  <2> SUFFICES ASSUME Init
               PROVE  KInv
    OBVIOUS
  <2>1. NoSelf(tab)
    BY DEF Init, NoSelf, Blank
  <2>2. Begun /\ Sole /\ Kept /\ Bindings
    BY DEF Init, Begun, Sole, Kept, Bindings, InLoop
  <2> QED BY <2>1, <2>2
<1>2. IInv /\ IInv' /\ KInv /\ [Next]_vars => KInv'
  <2> SUFFICES ASSUME IInv, IInv', KInv, [Next]_vars
               PROVE  KInv'
    OBVIOUS
  <2>1. Bindings'
    BY BindingsKept
  <2>2. NoSelf(tab)' /\ Begun' /\ Sole' /\ Kept'
    BY <2>1, NoSelfKept, BegunKept, SoleKept, KeptKept
  <2> QED BY <2>1, <2>2
<1>3. ASSUME IInv, KInv, PmtLast, NEW k \in 1 .. Len(prev.pmt.es)
      PROVE  LET e == prev.pmt.es[k]
                 q == Announced(prev.pmt, e)
                 m == prev.tab.map[e.pid]
             IN  q # NONE /\ Contains(prev.streams, e.pid)
                   /\ m.type = "OTHER" /\ m.target # NULL
                   /\ prev.tab.ecm[m.target] = q /\ prev.tab.map[q].target = m.target
                   /\ Len(prog) = 1
                 => tab'.map[e.pid].target = m.target
  <2> DEFINE e == prev.pmt.es[k]
             o == prev.pmt
  <2> SUFFICES ASSUME Len(prog) = 1, Repeated(o, prev.tab, prev.streams, e)
               PROVE  tab'.map[e.pid].target = Before(e)
    BY DEF Repeated, Before
  <2>1. Lists(o, e) /\ Roles(o) /\ InLoop
    BY <1>3 DEF Bindings, InLoop, PmtLast, Lists, Announcing
  <2>2. e \in Es
    BY <2>1, ListsOnce
  <2>3. Keeping(tab, e.pid, Announced(o, e), Before(e)) /\ e.pid \in Pid
    BY <1>3, <2>1, <2>2, Consts DEF Kept, Es
  <2>4. Spares(tab, tab', {})
    BY <1>3, LastSpares DEF Lessens
  <2> QED BY <2>3, <2>4 DEF Keeping, Spares
<1>4. IInv /\ KInv /\ [Next]_vars =>
        [PmtLast => \A k \in 1 .. Len(prev.pmt.es) :
           LET e == prev.pmt.es[k]
               q == Announced(prev.pmt, e)
               m == prev.tab.map[e.pid]
           IN  q # NONE /\ Contains(prev.streams, e.pid)
                 /\ m.type = "OTHER" /\ m.target # NULL
                 /\ prev.tab.ecm[m.target] = q /\ prev.tab.map[q].target = m.target
                 /\ Len(prog) = 1
               => tab'.map[e.pid].target = m.target]_vars
  BY <1>3
<1> HIDE DEF KInv
<1> QED BY <1>1, <1>2, <1>4, Inductive, PTL DEF Spec, KeepsDecryptor
=============================================================================
