--------------------------- MODULE PidMapProofs ---------------------------
(***************************************************************************)
(* Theorems of module PidMap, for every set of PIDs, decryptors, PATs and  *)
(* PMTs: the counts of decryptors and of entries and the targets of the    *)
(* map are right after every step of proc_pmt, proc_pat, proc_cat and      *)
(* teardown.                                                               *)
(***************************************************************************)
EXTENDS PidMap, FiniteSetTheorems, SequenceTheorems, TLAPS

Entry == [ref : 0 .. RefMod - 1, type : Type, target : Dec \cup Nat \cup {NULL}]
Tables == [map : [Pid -> Entry], live : SUBSET Dec, ref : [Dec -> Int], ecm : [Dec -> EcmPid]]
Record(r, y, a) == [ref |-> r, type |-> y, target |-> a]

\* What the assumption says of the constants.
LEMMA Consts ==
  /\ RefMod \in Nat /\ RefMod > 1
  /\ NULL \notin Dec /\ NULL \notin Nat
  /\ EcmPid \subseteq Pid /\ EsPid \subseteq Pid /\ PmtPid \subseteq Pid /\ EmmPid \subseteq Pid
  /\ PmtPid \cap (EsPid \cup EcmPid \cup EmmPid) = {}
  /\ NONE \notin Pid /\ CLEAR \notin Pid
  /\ AnyEcm \in EcmPid
BY PidMapAssumption DEF PidMapAssumption, Pid, AnyEcm

-----------------------------------------------------------------------------
(* The tables, part by part.                                               *)

\* Tables of which parts were replaced.
LEMMA TablesMade ==
  ASSUME NEW t \in Tables, NEW u,
         u.map \in [Pid -> Entry], u.live \in SUBSET Dec,
         u.ref \in [Dec -> Int], u.ecm \in [Dec -> EcmPid],
         u = [t EXCEPT !.map = u.map, !.live = u.live, !.ref = u.ref, !.ecm = u.ecm]
  PROVE  u \in Tables
<1> DEFINE a == [t EXCEPT !.map = u.map]
           b == [a EXCEPT !.live = u.live]
           c == [b EXCEPT !.ref = u.ref]
<1>1. a \in Tables
  BY DEF Tables
<1>2. b \in Tables
  BY <1>1 DEF Tables
<1>3. c \in Tables
  BY <1>2 DEF Tables
<1>4. u = [c EXCEPT !.ecm = u.ecm]
  OBVIOUS
<1> HIDE DEF c
<1> QED BY <1>3, <1>4 DEF Tables

\* Table u is t with v for the entry of p.
SetTo(t, u, p, v) ==
  /\ u \in Tables /\ u.live = t.live /\ u.ref = t.ref /\ u.ecm = t.ecm
  /\ u.map[p] = v /\ \A q \in Pid \ {p} : u.map[q] = t.map[q]

\* An entry replaced as a whole.
LEMMA SetIs ==
  ASSUME NEW t \in Tables, NEW p \in Pid, NEW v \in Entry,
         NEW u, u = [t EXCEPT !.map[p] = v]
  PROVE  SetTo(t, u, p, v)
<1>1. /\ u.live = t.live /\ u.ref = t.ref /\ u.ecm = t.ecm
      /\ u.map = [t.map EXCEPT ![p] = v]
  BY DEF Tables
<1>2. u = [t EXCEPT !.map = u.map, !.live = u.live, !.ref = u.ref, !.ecm = u.ecm]
  BY <1>1 DEF Tables
<1>3. /\ u.map \in [Pid -> Entry] /\ u.live \in SUBSET Dec
      /\ u.ref \in [Dec -> Int] /\ u.ecm \in [Dec -> EcmPid]
  BY <1>1 DEF Tables
<1> QED BY <1>1, <1>2, <1>3, TablesMade DEF Tables, SetTo

\* Setting fields of an entry sets the entry.
LEMMA SetRef ==
  ASSUME NEW t \in Tables, NEW p \in Pid, NEW n, NEW u, NEW v \in Entry,
         v = Record(n, t.map[p].type, t.map[p].target),
         u = [t EXCEPT !.map[p].ref = n]
  PROVE  SetTo(t, u, p, v)
<1>1. [t.map EXCEPT ![p].ref = n] = [t.map EXCEPT ![p] = v]
  BY DEF Tables, Entry, Record
<1>2. [t EXCEPT !.map[p].ref = n] = [t EXCEPT !.map = [t.map EXCEPT ![p].ref = n]]
  BY DEF Tables
<1>3. [t EXCEPT !.map[p] = v] = [t EXCEPT !.map = [t.map EXCEPT ![p] = v]]
  BY DEF Tables
<1>4. u = [t EXCEPT !.map[p] = v]
  BY <1>1, <1>2, <1>3
<1> QED BY <1>4, SetIs

\* An entry whose target is set.
LEMMA SetTarget ==
  ASSUME NEW t \in Tables, NEW p \in Pid, NEW a, NEW u, NEW v \in Entry,
         v = Record(t.map[p].ref, t.map[p].type, a),
         u = [t EXCEPT !.map[p].target = a]
  PROVE  SetTo(t, u, p, v)
<1>1. [t.map EXCEPT ![p].target = a] = [t.map EXCEPT ![p] = v]
  BY DEF Tables, Entry, Record
<1>2. [t EXCEPT !.map[p].target = a] = [t EXCEPT !.map = [t.map EXCEPT ![p].target = a]]
  BY DEF Tables
<1>3. [t EXCEPT !.map[p] = v] = [t EXCEPT !.map = [t.map EXCEPT ![p] = v]]
  BY DEF Tables
<1>4. u = [t EXCEPT !.map[p] = v]
  BY <1>1, <1>2, <1>3
<1> QED BY <1>4, SetIs

\* An entry whose type and target are set.
LEMMA SetTypeTarget ==
  ASSUME NEW t \in Tables, NEW p \in Pid, NEW y, NEW a, NEW u, NEW v \in Entry,
         v = Record(t.map[p].ref, y, a),
         u = [t EXCEPT !.map[p].type = y, !.map[p].target = a]
  PROVE  SetTo(t, u, p, v)
<1>1. [t.map EXCEPT ![p].type = y, ![p].target = a] = [t.map EXCEPT ![p] = v]
  BY DEF Tables, Entry, Record
<1>2. [t EXCEPT !.map[p].type = y, !.map[p].target = a] = [t EXCEPT !.map = [t.map EXCEPT ![p].type = y, ![p].target = a]]
  BY DEF Tables
<1>3. [t EXCEPT !.map[p] = v] = [t EXCEPT !.map = [t.map EXCEPT ![p] = v]]
  BY DEF Tables
<1>4. u = [t EXCEPT !.map[p] = v]
  BY <1>1, <1>2, <1>3
<1> QED BY <1>4, SetIs

\* An entry whose type and count are set.
LEMMA SetTypeRef ==
  ASSUME NEW t \in Tables, NEW p \in Pid, NEW y, NEW n, NEW u, NEW v \in Entry,
         v = Record(n, y, t.map[p].target),
         u = [t EXCEPT !.map[p].type = y, !.map[p].ref = n]
  PROVE  SetTo(t, u, p, v)
<1>1. [t.map EXCEPT ![p].type = y, ![p].ref = n] = [t.map EXCEPT ![p] = v]
  BY DEF Tables, Entry, Record
<1>2. [t EXCEPT !.map[p].type = y, !.map[p].ref = n] = [t EXCEPT !.map = [t.map EXCEPT ![p].type = y, ![p].ref = n]]
  BY DEF Tables
<1>3. [t EXCEPT !.map[p] = v] = [t EXCEPT !.map = [t.map EXCEPT ![p] = v]]
  BY DEF Tables
<1>4. u = [t EXCEPT !.map[p] = v]
  BY <1>1, <1>2, <1>3
<1> QED BY <1>4, SetIs

\* What setting the count of a decryptor does.
LEMMA CountIs ==
  ASSUME NEW t \in Tables, NEW d \in Dec, NEW n \in Int,
         NEW u, u = [t EXCEPT !.ref[d] = n]
  PROVE  /\ u \in Tables /\ u.map = t.map /\ u.live = t.live /\ u.ecm = t.ecm
         /\ u.ref[d] = n /\ \A e \in Dec \ {d} : u.ref[e] = t.ref[e]
<1>1. /\ u.map = t.map /\ u.live = t.live /\ u.ecm = t.ecm
      /\ u.ref = [t.ref EXCEPT ![d] = n]
  BY DEF Tables
<1>2. u = [t EXCEPT !.map = u.map, !.live = u.live, !.ref = u.ref, !.ecm = u.ecm]
  BY <1>1 DEF Tables
<1>3. /\ u.map \in [Pid -> Entry] /\ u.live \in SUBSET Dec
      /\ u.ref \in [Dec -> Int] /\ u.ecm \in [Dec -> EcmPid]
  BY <1>1 DEF Tables
<1> QED BY <1>1, <1>2, <1>3, TablesMade DEF Tables

\* A decryptor that is made or freed: L is what is alive then.
Alive(t, u, d, L, p) ==
  /\ u \in Tables /\ u.map = t.map /\ u.live = L
  /\ u.ref[d] = 0 /\ u.ecm[d] = p
  /\ \A e \in Dec \ {d} : u.ref[e] = t.ref[e] /\ u.ecm[e] = t.ecm[e]

\* A decryptor made: alive, without users, of its ECM PID.
LEMMA AliveIs ==
  ASSUME NEW t \in Tables, NEW d \in Dec, NEW L, L \subseteq Dec, NEW p \in EcmPid,
         NEW u, u = [t EXCEPT !.live = L, !.ref[d] = 0, !.ecm[d] = p]
  PROVE  Alive(t, u, d, L, p)
<1>1. /\ u.map = t.map /\ u.live = L
      /\ u.ref = [t.ref EXCEPT ![d] = 0] /\ u.ecm = [t.ecm EXCEPT ![d] = p]
  BY DEF Tables
<1>2. u = [t EXCEPT !.map = u.map, !.live = u.live, !.ref = u.ref, !.ecm = u.ecm]
  BY <1>1 DEF Tables
<1>3. /\ u.map \in [Pid -> Entry] /\ u.live \in SUBSET Dec
      /\ u.ref \in [Dec -> Int] /\ u.ecm \in [Dec -> EcmPid]
  BY <1>1 DEF Tables
<1>4. u \in Tables
  BY <1>2, <1>3, TablesMade
<1> QED BY <1>1, <1>4 DEF Tables, Alive

\* Whether the entry is that of decryptor d, registered for the PID.
RegisteredFor(t, q, d) == q = t.ecm[d] /\ t.map[q].type = "ECM" /\ t.map[q].target = d
Unregistered(m) == Record(m.ref, "UNKNOWN", NULL)
Freed(m, n) == n.ref = m.ref /\ n.type = "UNKNOWN" /\ n.target = NULL

\* The tables after remove_decryptor.
LEMMA RemoveIs ==
  ASSUME NEW t \in Tables, NEW d \in Dec, NEW w, w = remove_decryptor(t, d)
  PROVE  /\ w \in Tables /\ w.live = t.live \ {d}
         /\ \A e \in Dec \ {d} : w.ref[e] = t.ref[e] /\ w.ecm[e] = t.ecm[e]
         /\ \A q \in Pid : IF RegisteredFor(t, q, d) THEN Freed(t.map[q], w.map[q])
                                                     ELSE w.map[q] = t.map[q]
<1> DEFINE u == [t EXCEPT !.live = @ \ {d}, !.ref[d] = 0, !.ecm[d] = AnyEcm]
           p == t.ecm[d]
           v == [u EXCEPT !.map[p].type = "UNKNOWN", !.map[p].target = NULL]
<1>1. t.live \ {d} \subseteq Dec
  BY DEF Tables
<1>2. Alive(t, u, d, t.live \ {d}, AnyEcm)
  <2>1. u = [t EXCEPT !.live = t.live \ {d}, !.ref[d] = 0, !.ecm[d] = AnyEcm]
    OBVIOUS
  <2> HIDE DEF u
  <2> QED BY <1>1, <2>1, AliveIs, Consts
<1>3. p \in Pid /\ t.map[p] \in Entry
  BY Consts DEF Tables
<1>4. w = IF t.map[p].type = "ECM" /\ t.map[p].target = d THEN v ELSE u
  BY DEF remove_decryptor
<1> HIDE DEF u, p
<1>5. Unregistered(t.map[p]) \in Entry
  BY <1>3 DEF Entry, Type, Unregistered, Record
<1>6. u \in Tables /\ u.map = t.map
  BY <1>2 DEF Alive
<1>7. SetTo(u, v, p, Unregistered(t.map[p]))
  BY <1>3, <1>5, <1>6, SetTypeTarget DEF Unregistered
<1> HIDE DEF v
<1>8. CASE t.map[p].type = "ECM" /\ t.map[p].target = d
  <2>1. w = v /\ Freed(t.map[p], w.map[p])
    BY <1>4, <1>7, <1>8 DEF SetTo, Unregistered, Record, Freed
  <2> QED BY <1>2, <1>7, <1>8, <2>1 DEF p, RegisteredFor, Alive, SetTo
<1>9. CASE ~(t.map[p].type = "ECM" /\ t.map[p].target = d)
  BY <1>2, <1>4, <1>9 DEF p, RegisteredFor, Alive
<1> QED BY <1>8, <1>9

\* The tables after a reference was dropped: pointwise, as it is cited below.
Dropped(t, w, d) ==
  /\ w.live = IF t.ref[d] < 2 THEN t.live \ {d} ELSE t.live
  /\ \A e \in Dec \ {d} : w.ref[e] = t.ref[e] /\ w.ecm[e] = t.ecm[e]
  /\ t.ref[d] >= 2 => w.ref[d] = t.ref[d] - 1 /\ w.ecm[d] = t.ecm[d]

\* remove_decryptor: the last use of a decryptor takes its registrations with it.
LEMMA DropIs ==
  ASSUME NEW t \in Tables, NEW d \in Dec, NEW w, w = Drop(t, d)
  PROVE  /\ w \in Tables /\ Dropped(t, w, d)
         /\ \A q \in Pid : IF t.ref[d] < 2 /\ RegisteredFor(t, q, d)
                              THEN Freed(t.map[q], w.map[q]) ELSE w.map[q] = t.map[q]
<1> DEFINE u == [t EXCEPT !.ref[d] = @ - 1]
<1>1. t.ref[d] \in Int
  BY DEF Tables
<1>2. w = IF u.ref[d] < 1 THEN remove_decryptor(u, d) ELSE u
  BY DEF Drop
<1>3. u = [t EXCEPT !.ref[d] = t.ref[d] - 1]
  OBVIOUS
<1> HIDE DEF u
<1>4. /\ u \in Tables /\ u.map = t.map /\ u.live = t.live /\ u.ecm = t.ecm
      /\ u.ref[d] = t.ref[d] - 1 /\ \A e \in Dec \ {d} : u.ref[e] = t.ref[e]
  BY <1>1, <1>3, CountIs
<1>5. CASE t.ref[d] < 2
  <2>1. w = remove_decryptor(u, d)
    BY <1>1, <1>2, <1>4, <1>5
  <2>2. \A q \in Pid : RegisteredFor(u, q, d) <=> RegisteredFor(t, q, d)
    BY <1>4 DEF RegisteredFor
  <2> QED BY <1>1, <1>4, <1>5, <2>1, <2>2, RemoveIs DEF Dropped
<1>6. CASE ~(t.ref[d] < 2)
  BY <1>1, <1>2, <1>4, <1>6 DEF Dropped
<1> QED BY <1>5, <1>6

-----------------------------------------------------------------------------
(* The books of the decryptors, as a predicate on tables t.                *)

Uses(t, p, d) == t.map[p].type = "OTHER" /\ t.map[p].target = d
UsersOf(t, d) == {p \in Pid : Uses(t, p, d)}
UsedAlike(t, u, d, S) == \A q \in Pid \ S : Uses(u, q, d) <=> Uses(t, q, d)
One(b) == IF b THEN 1 ELSE 0

\* No entry of the map but those of PMTs points to something released.
Target(t, p) ==
  /\ t.map[p].type = "OTHER" => t.map[p].target \in t.live \cup {NULL}
  /\ t.map[p].type = "ECM" => t.map[p].target \in t.live /\ t.ecm[t.map[p].target] = p
  /\ t.map[p].type \in {"UNKNOWN", "EMM"} => t.map[p].target = NULL
Targets(t) == \A p \in Pid : Target(t, p)

\* Decryptor h is held by proc_pmt; and j, just registered, may have no user.
Books(t, h, j) ==
  /\ t \in Tables /\ Targets(t)
  /\ h \in t.live \cup {NULL}
  /\ \A d \in t.live :
       /\ t.ref[d] = Cardinality(UsersOf(t, d)) + One(d = h)
       /\ d # j => t.ref[d] > 0

\* What a change of the decryptors leaves of the entries: all but a decryptor's
\* registration, which goes with the decryptor; and those of the PIDs in S.
Keeps(t, u, S) ==
  \A q \in Pid \ S :
    /\ u.map[q].ref = t.map[q].ref
    /\ \/ u.map[q].type = t.map[q].type /\ u.map[q].target = t.map[q].target
       \/ t.map[q].type = "ECM" /\ u.map[q].type = "UNKNOWN" /\ u.map[q].target = NULL

\* The users of a decryptor can be counted.
LEMMA UsersCount ==
  ASSUME NEW t, NEW d
  PROVE  IsFiniteSet(UsersOf(t, d)) /\ Cardinality(UsersOf(t, d)) \in Nat
<1>1. UsersOf(t, d) \in SUBSET Pid
  BY DEF UsersOf
<1>2. IsFiniteSet(Pid)
  BY PidMapAssumption DEF PidMapAssumption
<1> QED BY <1>1, <1>2, FS_Subset, FS_CardinalityType

\* Entries that are used alike have the same users ...
LEMMA SameUsers ==
  ASSUME NEW t, NEW u, NEW d, UsedAlike(t, u, d, {})
  PROVE  UsersOf(u, d) = UsersOf(t, d)
BY DEF UsersOf, UsedAlike

\* ... and one entry that is changed is one user more, or one less.
LEMMA OneUserMore ==
  ASSUME NEW t, NEW u, NEW d, NEW p \in Pid,
         UsedAlike(t, u, d, {p}), Uses(u, p, d), ~Uses(t, p, d)
  PROVE  Cardinality(UsersOf(u, d)) = Cardinality(UsersOf(t, d)) + 1
<1>1. UsersOf(u, d) = UsersOf(t, d) \cup {p} /\ p \notin UsersOf(t, d)
  BY DEF UsersOf, UsedAlike
<1>2. IsFiniteSet(UsersOf(t, d))
  BY UsersCount
<1>3. Cardinality(UsersOf(t, d) \cup {p}) = Cardinality(UsersOf(t, d)) + 1
  BY <1>1, <1>2, FS_AddElement
<1> QED BY <1>1, <1>3

\* Counts and the hold do not matter to the users: the books of tables whose
\* decryptors are the same and whose entries have the same types and targets.
LEMMA SameBooks ==
  ASSUME NEW t, NEW u \in Tables, NEW h, NEW j, Books(t, h, j),
         u.live = t.live, u.ref = t.ref, u.ecm = t.ecm,
         \A q \in Pid : u.map[q].type = t.map[q].type /\ u.map[q].target = t.map[q].target
  PROVE  Books(u, h, j)
<1>1. \A d : UsersOf(u, d) = UsersOf(t, d)
  BY SameUsers DEF UsedAlike, Uses
<1>2. Targets(u)
  BY DEF Books, Targets, Target
<1> QED BY <1>1, <1>2 DEF Books

\* proc_pmt lets go of the decryptor it holds.
LEMMA LetGo ==
  ASSUME NEW t, NEW d \in Dec, Books(t, d, NULL), NEW w, w = Drop(t, d)
  PROVE  Books(w, NULL, NULL) /\ Keeps(t, w, {})
<1>1. t \in Tables /\ d \in t.live
  BY Consts DEF Books
<1>2. /\ w \in Tables /\ Dropped(t, w, d)
      /\ \A q \in Pid : IF t.ref[d] < 2 /\ RegisteredFor(t, q, d)
                           THEN Freed(t.map[q], w.map[q]) ELSE w.map[q] = t.map[q]
  BY <1>1, DropIs
<1>3. /\ t.ref[d] = Cardinality(UsersOf(t, d)) + 1
      /\ Cardinality(UsersOf(t, d)) \in Nat
  BY <1>1, UsersCount DEF Books, One
<1>4. Keeps(t, w, {})
  BY <1>2 DEF Keeps, RegisteredFor, Freed
<1>5. \A e : UsersOf(w, e) = UsersOf(t, e)
  <2>1. \A e : UsedAlike(t, w, e, {})
    BY <1>2 DEF RegisteredFor, Freed, UsedAlike, Uses
  <2> QED BY <2>1, SameUsers
<1>6. t.ref[d] < 2 => UsersOf(t, d) = {}
  <2>1. Cardinality(UsersOf(t, d)) = 0 => UsersOf(t, d) = {}
    BY UsersCount, FS_EmptySet
  <2> QED BY <1>3, <2>1
<1>7. ASSUME NEW q \in Pid
      PROVE  Target(w, q)
  <2>1. Target(t, q)
    BY DEF Books, Targets
  <2>2. t.live \subseteq Dec /\ t.ref[d] \in Int
    BY <1>1 DEF Tables
  <2>3. CASE t.ref[d] < 2 /\ RegisteredFor(t, q, d)
    BY <1>2, <2>3 DEF Freed, Target
  <2>4. CASE t.ref[d] < 2 /\ ~RegisteredFor(t, q, d)
    <3>1. w.map[q] = t.map[q] /\ w.live = t.live \ {d}
      BY <1>2, <2>4 DEF Dropped
    <3>2. t.map[q].type = "OTHER" => t.map[q].target # d
      BY <1>6, <2>4 DEF UsersOf, Uses
    <3>3. t.map[q].type = "ECM" => t.map[q].target # d
      BY <2>1, <2>4 DEF RegisteredFor, Target
    <3> QED BY <1>2, <2>1, <2>2, <3>1, <3>2, <3>3 DEF Dropped, Target
  <2>5. CASE t.ref[d] >= 2
    <3>1. w.map[q] = t.map[q] /\ w.live = t.live
      BY <1>2, <2>2, <2>5 DEF Dropped
    <3>2. \A e \in Dec : w.ecm[e] = t.ecm[e]
      BY <1>2, <2>5 DEF Dropped
    <3> QED BY <2>1, <2>2, <3>1, <3>2 DEF Target
  <2> QED BY <2>2, <2>3, <2>4, <2>5
<1>8. ASSUME NEW e \in w.live
      PROVE  w.ref[e] = Cardinality(UsersOf(w, e)) + One(e = NULL) /\ w.ref[e] > 0
  <2>1. e \in t.live /\ e \in Dec /\ e # NULL /\ t.ref[d] \in Int
    BY <1>1, <1>2, <1>8, Consts DEF Dropped, Tables
  <2>2. CASE e = d
    BY <1>2, <1>3, <1>5, <1>8, <2>1, <2>2 DEF Dropped, One
  <2>3. CASE e # d
    BY <1>2, <1>5, <2>1, <2>3 DEF Dropped, One, Books
  <2> QED BY <2>2, <2>3
<1> QED BY <1>2, <1>4, <1>7, <1>8 DEF Books, Targets

\* What clearing or rebinding an entry does to the decryptor it was bound to.
Release(t, p) ==
  IF t.map[p].type = "OTHER" /\ t.map[p].target # NULL THEN Drop(t, t.map[p].target) ELSE t

\* Entry v uses no decryptor, but may be the registration of one for p.
Unused(t, p, v) ==
  /\ v.type \in {"OTHER", "UNKNOWN", "EMM"} => v.target = NULL
  /\ v.type = "ECM" => v.target \in t.live /\ t.ecm[v.target] = p /\ v.target # t.map[p].target

\* The entry of p is released and replaced by one that uses no decryptor.
Replaceable(t, h, j, p, v) ==
  Books(t, h, j) /\ Unused(t, p, v) /\ (j = NULL \/ j # t.map[p].target)
Replaced(t, h, j, p, v, w) ==
  /\ Books(w, h, j) /\ Keeps(t, w, {p}) /\ w.map[p] = v
  /\ \A e \in t.live \ {t.map[p].target} :
       e \in w.live /\ w.ref[e] = t.ref[e] /\ w.ecm[e] = t.ecm[e]

\* An entry replaced after the decryptor it used was given back.
LEMMA Unuse ==
  ASSUME NEW t, NEW h, NEW j, NEW p \in Pid, NEW v \in Entry, Replaceable(t, h, j, p, v),
         NEW w, SetTo(Release(t, p), w, p, v)
  PROVE  Replaced(t, h, j, p, v, w)
<1> USE DEF Replaceable
<1>1. /\ t \in Tables /\ t.live \subseteq Dec /\ t.ref \in [Dec -> Int]
      /\ \A q \in Pid : Target(t, q)
  BY DEF Books, Targets, Tables
<1>2. w.map[p] = v /\ w \in Tables
  BY DEF SetTo
<1>3. CASE t.map[p].type = "OTHER" /\ t.map[p].target # NULL
  <2> DEFINE d == t.map[p].target
             u == Drop(t, d)
  <2>1. d \in t.live /\ d \in Dec /\ d # j
    BY <1>1, <1>3 DEF Target
  <2>2. Release(t, p) = u
    BY <1>3 DEF Release
  <2> HIDE DEF u, d
  <2>3. /\ u \in Tables /\ Dropped(t, u, d)
        /\ \A q \in Pid : IF t.ref[d] < 2 /\ RegisteredFor(t, q, d)
                             THEN Freed(t.map[q], u.map[q]) ELSE u.map[q] = t.map[q]
    BY <1>1, <2>1, DropIs DEF u
  <2>4. /\ w.live = u.live /\ w.ref = u.ref /\ w.ecm = u.ecm
        /\ \A q \in Pid \ {p} : w.map[q] = u.map[q]
    BY <2>2 DEF SetTo
  <2>5. Cardinality(UsersOf(t, d)) = Cardinality(UsersOf(w, d)) + 1
    <3>1. UsedAlike(w, t, d, {p})
      BY <2>3, <2>4 DEF RegisteredFor, Freed, UsedAlike, Uses
    <3>2. Uses(t, p, d) /\ ~Uses(w, p, d)
      BY <1>2, <1>3 DEF d, Uses, Unused
    <3> QED BY <3>1, <3>2, OneUserMore
  <2>6. \A e \in Dec \ {d} : UsersOf(w, e) = UsersOf(t, e)
    <3> SUFFICES ASSUME NEW e \in Dec \ {d}
                 PROVE  UsersOf(w, e) = UsersOf(t, e)
      OBVIOUS
    <3>1. \A q \in Pid \ {p} : Uses(w, q, e) <=> Uses(t, q, e)
      BY <2>3, <2>4 DEF RegisteredFor, Freed, Uses
    <3>2. ~Uses(t, p, e)
      BY DEF d, Uses
    <3>3. ~Uses(w, p, e)
      BY <1>2, Consts DEF Uses, Unused
    <3> QED BY <3>1, <3>2, <3>3, SameUsers DEF UsedAlike
  <2>7. /\ t.ref[d] = Cardinality(UsersOf(w, d)) + 1 + One(d = h)
        /\ Cardinality(UsersOf(w, d)) \in Nat
    BY <2>1, <2>5, UsersCount DEF Books
  <2>8. t.ref[d] < 2 => UsersOf(w, d) = {} /\ d # h
    <3>1. Cardinality(UsersOf(w, d)) = 0 => UsersOf(w, d) = {}
      BY UsersCount, FS_EmptySet
    <3> QED BY <2>7, <3>1 DEF One
  <2>9. \A e \in t.live \ {d} :
          e \in w.live /\ w.ref[e] = t.ref[e] /\ w.ecm[e] = t.ecm[e]
    BY <1>1, <2>3, <2>4 DEF Dropped
  <2>10. t.ref[d] >= 2 => d \in w.live /\ w.ref[d] = t.ref[d] - 1 /\ w.ecm[d] = t.ecm[d]
    BY <1>1, <2>1, <2>3, <2>4 DEF Dropped
  <2>11. w.live \subseteq t.live /\ (t.ref[d] < 2 => d \notin w.live)
    BY <2>3, <2>4 DEF Dropped
  <2>12. Keeps(t, w, {p})
    BY <2>3, <2>4 DEF Keeps, RegisteredFor, Freed
  <2>13. ASSUME NEW q \in Pid
         PROVE  Target(w, q)
    <3>1. Target(t, q)
      BY <1>1
    <3>2. CASE q = p
      <4>1. v.type = "ECM" => v.target \in w.live /\ w.ecm[v.target] = p
        BY <2>9 DEF d, Unused
      <4> QED BY <1>2, <3>2, <4>1 DEF Target, Unused
    <3>3. CASE q # p /\ t.ref[d] < 2 /\ RegisteredFor(t, q, d)
      BY <2>3, <2>4, <3>3 DEF Freed, Target
    <3>4. CASE q # p /\ t.ref[d] < 2 /\ ~RegisteredFor(t, q, d)
      <4>1. w.map[q] = t.map[q]
        BY <2>3, <2>4, <3>4
      <4>2. t.map[q].type = "OTHER" => t.map[q].target # d
        BY <2>8, <3>4, <4>1 DEF UsersOf, Uses
      <4>3. t.map[q].type = "ECM" => t.map[q].target # d
        BY <3>1, <3>4 DEF RegisteredFor, Target
      <4> QED BY <2>9, <3>1, <4>1, <4>2, <4>3 DEF Target
    <3>5. CASE q # p /\ t.ref[d] >= 2
      <4>1. w.map[q] = t.map[q]
        BY <1>1, <2>1, <2>3, <2>4, <3>5
      <4> QED BY <2>9, <2>10, <3>1, <3>5, <4>1 DEF Target
    <3>6. t.ref[d] \in Int
      BY <1>1, <2>1
    <3> QED BY <3>2, <3>3, <3>4, <3>5, <3>6
  <2>14. h \in w.live \cup {NULL}
    <3>1. t.ref[d] \in Int /\ h \in t.live \cup {NULL}
      BY <1>1, <2>1 DEF Books
    <3> QED BY <2>8, <2>9, <2>10, <3>1
  <2>15. ASSUME NEW e \in w.live
         PROVE  /\ w.ref[e] = Cardinality(UsersOf(w, e)) + One(e = h)
                /\ e # j => w.ref[e] > 0
    <3>1. t.ref[d] \in Int /\ e \in t.live /\ e \in Dec
      BY <1>1, <2>1, <2>11
    <3>2. CASE e = d
      <4>1. t.ref[d] >= 2
        BY <2>11, <3>1, <3>2
      <4> QED BY <2>7, <2>10, <3>1, <3>2, <4>1 DEF One
    <3>3. CASE e # d
      BY <2>6, <2>9, <3>1, <3>3 DEF Books
    <3> QED BY <3>2, <3>3
  <2>16. Books(w, h, j)
    BY <1>2, <2>13, <2>14, <2>15 DEF Books, Targets
  <2> QED BY <1>2, <2>9, <2>12, <2>16 DEF d, Replaced
<1>4. CASE ~(t.map[p].type = "OTHER" /\ t.map[p].target # NULL)
  <2>1. SetTo(t, w, p, v)
    BY <1>4 DEF Release
  <2>2. /\ w.live = t.live /\ w.ref = t.ref /\ w.ecm = t.ecm
        /\ \A q \in Pid \ {p} : w.map[q] = t.map[q]
    BY <2>1 DEF SetTo
  <2>3. \A e \in Dec : UsersOf(w, e) = UsersOf(t, e)
    BY <1>2, <1>4, <2>2, Consts DEF UsersOf, Uses, Unused
  <2>4. Targets(w)
    BY <1>1, <1>2, <2>2 DEF Targets, Target, Unused
  <2>5. Books(w, h, j)
    BY <1>1, <1>2, <2>2, <2>3, <2>4 DEF Books
  <2> QED BY <1>2, <2>2, <2>5 DEF Keeps, Replaced
<1> QED BY <1>3, <1>4

\* Entry p, of a stream without a decryptor, gets decryptor d.
LEMMA Use ==
  ASSUME NEW t, NEW h, NEW j, Books(t, h, j), NEW p \in Pid, NEW d \in t.live, j \in {d, NULL},
         t.map[p].type = "OTHER", t.map[p].target = NULL,
         NEW m \in Entry, m.type = "OTHER", m.target = d,
         NEW v, SetTo(t, v, p, m), NEW w, w = [v EXCEPT !.ref[d] = @ + 1]
  PROVE  Books(w, h, NULL) /\ w.map = v.map
<1>1. t \in Tables /\ t.live \subseteq Dec /\ t.ref \in [Dec -> Int]
  BY DEF Books, Tables
<1>2. /\ v \in Tables /\ v.live = t.live /\ v.ref = t.ref /\ v.ecm = t.ecm
      /\ v.map[p] = m /\ \A q \in Pid \ {p} : v.map[q] = t.map[q]
  BY DEF SetTo
<1>3. v.ref[d] \in Int /\ d \in Dec /\ d # NULL
  BY <1>1, <1>2, Consts
<1>4. w = [v EXCEPT !.ref[d] = v.ref[d] + 1]
  OBVIOUS
<1>5. /\ w \in Tables /\ w.map = v.map /\ w.live = v.live /\ w.ecm = v.ecm
      /\ w.ref[d] = v.ref[d] + 1 /\ \A e \in Dec \ {d} : w.ref[e] = v.ref[e]
  BY <1>2, <1>3, <1>4, CountIs
<1>6. Cardinality(UsersOf(w, d)) = Cardinality(UsersOf(t, d)) + 1
  <2>1. UsedAlike(t, w, d, {p})
    BY <1>2, <1>5 DEF UsedAlike, Uses
  <2>2. Uses(w, p, d)
    BY <1>2, <1>5 DEF Uses
  <2>3. ~Uses(t, p, d)
    BY <1>3 DEF Uses
  <2> QED BY <2>1, <2>2, <2>3, OneUserMore
<1>7. \A e \in Dec \ {d} : UsersOf(w, e) = UsersOf(t, e)
  BY <1>2, <1>5, Consts DEF UsersOf, Uses
<1>8. Targets(w)
  BY <1>2, <1>5 DEF Books, Targets, Target
<1>9. ASSUME NEW e \in w.live
      PROVE  w.ref[e] = Cardinality(UsersOf(w, e)) + One(e = h) /\ w.ref[e] > 0
  <2>1. /\ t.ref[e] = Cardinality(UsersOf(t, e)) + One(e = h)
        /\ e # j => t.ref[e] > 0
    BY <1>2, <1>5 DEF Books
  <2>2. CASE e = d
    BY <1>2, <1>5, <1>6, <2>1, <2>2, UsersCount DEF One
  <2>3. CASE e # d
    BY <1>1, <1>2, <1>5, <1>7, <2>1, <2>3, Consts
  <2> QED BY <2>2, <2>3
<1> QED BY <1>2, <1>5, <1>8, <1>9 DEF Books

\* proc_pmt holds on to decryptor d.
LEMMA Hold ==
  ASSUME NEW t, NEW j, Books(t, NULL, j), NEW d \in t.live, j \in {d, NULL},
         NEW w, w = [t EXCEPT !.ref[d] = @ + 1]
  PROVE  Books(w, d, NULL) /\ w.map = t.map
<1>1. t \in Tables /\ t.live \subseteq Dec /\ t.ref \in [Dec -> Int]
  BY DEF Books, Tables
<1>2. t.ref[d] \in Int /\ d \in Dec /\ d # NULL
  BY <1>1, Consts
<1>3. w = [t EXCEPT !.ref[d] = t.ref[d] + 1]
  OBVIOUS
<1>4. /\ w \in Tables /\ w.map = t.map /\ w.live = t.live /\ w.ecm = t.ecm
      /\ w.ref[d] = t.ref[d] + 1 /\ \A e \in Dec \ {d} : w.ref[e] = t.ref[e]
  BY <1>1, <1>2, <1>3, CountIs
<1>5. \A e : UsersOf(w, e) = UsersOf(t, e)
  BY <1>4 DEF UsersOf, Uses
<1>6. Targets(w)
  BY <1>4 DEF Books, Targets, Target
<1>7. ASSUME NEW e \in w.live
      PROVE  w.ref[e] = Cardinality(UsersOf(w, e)) + One(e = d) /\ w.ref[e] > 0
  <2>1. /\ t.ref[e] = Cardinality(UsersOf(t, e)) + One(e = NULL)
        /\ e # j => t.ref[e] > 0
    BY <1>4 DEF Books
  <2>2. CASE e = d
    BY <1>2, <1>4, <1>5, <2>1, <2>2, UsersCount DEF One
  <2>3. CASE e # d
    BY <1>1, <1>4, <1>5, <2>1, <2>3, Consts DEF One
  <2> QED BY <2>2, <2>3
<1> QED BY <1>4, <1>6, <1>7 DEF Books

\* A new decryptor, not registered yet.
LEMMA Made ==
  ASSUME NEW t, NEW h, Books(t, h, NULL), NEW d \in Dec \ t.live, NEW p \in EcmPid,
         NEW n, n = [t EXCEPT !.live = @ \cup {d}, !.ref[d] = 0, !.ecm[d] = p]
  PROVE  Books(n, h, d) /\ Alive(t, n, d, t.live \cup {d}, p)
<1>1. t \in Tables /\ t.live \subseteq Dec /\ h \in t.live \cup {NULL} /\ h # d
  BY Consts DEF Books, Tables
<1>2. Alive(t, n, d, t.live \cup {d}, p)
  <2>1. n = [t EXCEPT !.live = t.live \cup {d}, !.ref[d] = 0, !.ecm[d] = p]
    OBVIOUS
  <2>2. t.live \cup {d} \subseteq Dec
    BY <1>1
  <2> QED BY <1>1, <2>1, <2>2, AliveIs
<1>3. UsersOf(n, d) = {} /\ \A e : UsersOf(n, e) = UsersOf(t, e)
  <2>1. \A e : UsersOf(n, e) = UsersOf(t, e)
    BY <1>2 DEF UsersOf, Uses, Alive
  <2>2. UsersOf(t, d) = {}
    BY Consts DEF UsersOf, Uses, Books, Targets, Target
  <2> QED BY <2>1, <2>2
<1>4. Targets(n)
  BY <1>1, <1>2 DEF Books, Targets, Target, Alive
<1>5. ASSUME NEW e \in n.live
      PROVE  /\ n.ref[e] = Cardinality(UsersOf(n, e)) + One(e = h)
             /\ e # d => n.ref[e] > 0
  <2>1. CASE e = d
    BY <1>1, <1>2, <1>3, <2>1, FS_EmptySet DEF Alive, One
  <2>2. CASE e # d
    <3>1. e \in t.live /\ e \in Dec /\ n.ref[e] = t.ref[e] /\ e # NULL
      BY <1>1, <1>2, <2>2, Consts DEF Alive
    <3> QED BY <1>3, <3>1 DEF Books
  <2> QED BY <2>1, <2>2
<1> QED BY <1>1, <1>2, <1>4, <1>5 DEF Books, Alive

-----------------------------------------------------------------------------
(* The helpers of the module.                                              *)

\* AnEntry: the fields of an entry and their types.
LEMMA AnEntry ==
  ASSUME NEW t \in Tables, NEW p \in Pid
  PROVE  /\ t.map[p] \in Entry /\ t.map[p] = Record(t.map[p].ref, t.map[p].type, t.map[p].target)
         /\ t.map[p].ref \in 0 .. RefMod - 1
         /\ t.map[p].type \in Type /\ t.map[p].target \in Dec \cup Nat \cup {NULL}
BY DEF Tables, Entry, Record

\* Entries made of their fields.
LEMMA MakeEntry ==
  ASSUME NEW n \in 0 .. RefMod - 1, NEW y \in Type, NEW a \in Dec \cup Nat \cup {NULL}
  PROVE  /\ Record(n, y, a) \in Entry /\ Record(n, y, a).ref = n
         /\ Record(n, y, a).type = y /\ Record(n, y, a).target = a
BY DEF Entry, Record

\* Releasing leaves the counts of the entries, and the entry itself.
LEMMA ReleaseIs ==
  ASSUME NEW t, NEW h, NEW j, Books(t, h, j), NEW p \in Pid
  PROVE  /\ Release(t, p) \in Tables /\ Release(t, p).map[p].ref = t.map[p].ref
         /\ t.map[p].type = "OTHER" => Release(t, p).map[p] = t.map[p]
<1>1. t \in Tables /\ t.live \subseteq Dec /\ Target(t, p)
  BY DEF Books, Targets, Tables
<1>2. CASE t.map[p].type = "OTHER" /\ t.map[p].target # NULL
  <2>1. t.map[p].target \in Dec /\ Release(t, p) = Drop(t, t.map[p].target)
    BY <1>1, <1>2 DEF Target, Release
  <2>2. /\ Release(t, p) \in Tables
        /\ IF t.ref[t.map[p].target] < 2 /\ RegisteredFor(t, p, t.map[p].target)
             THEN Freed(t.map[p], Release(t, p).map[p]) ELSE Release(t, p).map[p] = t.map[p]
    BY <1>1, <2>1, DropIs
  <2> QED BY <1>2, <2>2 DEF RegisteredFor
<1>3. CASE ~(t.map[p].type = "OTHER" /\ t.map[p].target # NULL)
  BY <1>1, <1>3 DEF Release
<1> QED BY <1>2, <1>3

\* Setting the count of an entry leaves the books alone.
Recounted(t, u, h, j, p, n) ==
  /\ Books(u, h, j) /\ u.live = t.live /\ u.ref = t.ref /\ u.ecm = t.ecm
  /\ u.map[p].ref = n /\ u.map[p].type = t.map[p].type /\ u.map[p].target = t.map[p].target
  /\ \A q \in Pid \ {p} : u.map[q] = t.map[q]

\* Only the count of an entry changes.
LEMMA Recount ==
  ASSUME NEW t, NEW h, NEW j, Books(t, h, j), NEW p \in Pid, NEW n \in 0 .. RefMod - 1,
         NEW u, u = [t EXCEPT !.map[p].ref = n]
  PROVE  Recounted(t, u, h, j, p, n)
<1> DEFINE v == Record(n, t.map[p].type, t.map[p].target)
<1>1. t \in Tables
  BY DEF Books
<1>2. v \in Entry /\ v.ref = n /\ v.type = t.map[p].type /\ v.target = t.map[p].target
  BY <1>1, AnEntry, MakeEntry
<1>3. SetTo(t, u, p, v)
  BY <1>1, <1>2, SetRef
<1> HIDE DEF v
<1>4. /\ u \in Tables /\ u.live = t.live /\ u.ref = t.ref /\ u.ecm = t.ecm
      /\ u.map[p] = v /\ \A q \in Pid \ {p} : u.map[q] = t.map[q]
  BY <1>3 DEF SetTo
<1>5. \A q \in Pid : u.map[q].type = t.map[q].type /\ u.map[q].target = t.map[q].target
  BY <1>2, <1>4
<1>6. Books(u, h, j)
  BY <1>4, <1>5, SameBooks
<1> QED BY <1>2, <1>4, <1>6 DEF Recounted

\* unref_stream of a PID that is counted: its count is one less, and at zero its
\* entry is cleared.
Unreffed(t, h, p, w) ==
  /\ Books(w, h, NULL) /\ Keeps(t, w, {p})
  /\ w.map[p].ref = t.map[p].ref - 1
  /\ w.map[p].type = IF w.map[p].ref = 0 THEN "UNKNOWN" ELSE t.map[p].type
  /\ w.map[p].ref # 0 => w.map[p].target = t.map[p].target

\* unref_stream keeps the books.
LEMMA Unref ==
  ASSUME NEW t, NEW h, Books(t, h, NULL), NEW p \in Pid, t.map[p].ref > 0,
         NEW w, w = unref_stream(t, p)
  PROVE  Unreffed(t, h, p, w)
<1> DEFINE n == t.map[p].ref - 1
<1>1. t \in Tables
  BY DEF Books
<1>2. t.map[p].ref \in 1 .. RefMod - 1 /\ n \in 0 .. RefMod - 1
  BY <1>1, AnEntry, Consts
<1>3. Decr(t.map[p].ref) = n
  BY <1>2, Consts DEF Decr
<1>4. w = IF n >= 1 THEN [t EXCEPT !.map[p].ref = n] ELSE [Release(t, p) EXCEPT !.map[p] = Blank]
  BY <1>3 DEF unref_stream, Release
<1> HIDE DEF n
<1>5. CASE n >= 1
  <2>1. w = [t EXCEPT !.map[p].ref = n]
    BY <1>4, <1>5
  <2>2. /\ Books(w, h, NULL) /\ w.map[p].ref = n
        /\ w.map[p].type = t.map[p].type /\ w.map[p].target = t.map[p].target
        /\ \A q \in Pid \ {p} : w.map[q] = t.map[q]
    BY <1>2, <2>1, Recount DEF Recounted
  <2> QED BY <1>2, <1>5, <2>2 DEF Keeps, n, Unreffed
<1>6. CASE ~(n >= 1)
  <2>1. n = 0
    BY <1>2, <1>6
  <2>2. Blank \in Entry /\ Blank.ref = 0 /\ Blank.type = "UNKNOWN" /\ Blank.target = NULL
    BY Consts DEF Blank, Entry, Type
  <2>3. SetTo(Release(t, p), w, p, Blank)
    BY <1>4, <1>6, <2>2, ReleaseIs, SetIs
  <2>4. Replaceable(t, h, NULL, p, Blank)
    BY <2>2 DEF Unused, Replaceable
  <2>5. Books(w, h, NULL) /\ Keeps(t, w, {p}) /\ w.map[p] = Blank
    <3>1. Replaced(t, h, NULL, p, Blank, w)
      BY <2>2, <2>3, <2>4, Unuse
    <3> QED BY <3>1 DEF Replaced
  <2> QED BY <2>1, <2>2, <2>5 DEF n, Unreffed
<1> QED BY <1>5, <1>6

\* A PID that is given a decryptor: the one it has, or a new one.
LEMMA SetDecryptor ==
  ASSUME NEW t, NEW h, Books(t, h, NULL), NEW p \in EcmPid,
         t.map[p].type \notin {"EMM", "PMT"},
         NEW r \in set_decryptor(t, p)
  PROVE  /\ Books(r[1], h, r[2]) /\ r[2] \in r[1].live /\ Keeps(t, r[1], {p})
         /\ r[1].map[p].ref = t.map[p].ref /\ r[1].map[p].type = "ECM"
<1>1. /\ t \in Tables /\ t.live \subseteq Dec /\ p \in Pid
      /\ Target(t, p) /\ t.map[p].type \in Type
  <2>1. t \in Tables /\ p \in Pid
    BY Consts DEF Books
  <2> QED BY <2>1, AnEntry DEF Books, Targets, Tables
<1>2. CASE Registered(t, p)
  <2>1. r = <<t, t.map[p].target>> /\ t.map[p].type = "ECM"
    BY <1>2 DEF set_decryptor, Registered
  <2>2. Books(t, h, t.map[p].target)
    BY <1>1, Consts DEF Books
  <2>3. Keeps(t, t, {p}) /\ t.map[p].target \in t.live
    BY <1>1, <2>1 DEF Keeps, Target
  <2> QED BY <2>1, <2>2, <2>3
<1>3. CASE ~Registered(t, p)
  <2>1. PICK d \in Dec \ t.live : r = <<Register(t, p, d), d>>
    BY <1>3 DEF set_decryptor
  <2> DEFINE n == [t EXCEPT !.live = @ \cup {d}, !.ref[d] = 0, !.ecm[d] = p]
             u == Release(n, p)
             w == Register(t, p, d)
             v == Record(t.map[p].ref, "ECM", d)
  <2>2. Books(n, h, d) /\ Alive(t, n, d, t.live \cup {d}, p)
    BY Made
  <2> HIDE DEF n
  <2>3. n \in Tables /\ n.map = t.map /\ n.live = t.live \cup {d} /\ n.ecm[d] = p
    BY <2>2 DEF Alive
  <2>4. w = [u EXCEPT !.map[p].type = "ECM", !.map[p].target = d]
    BY <2>3 DEF Register, Release, n
  <2>5. u \in Tables /\ u.map[p].ref = t.map[p].ref
    BY <1>1, <2>2, <2>3, ReleaseIs
  <2>6. v \in Entry /\ v.ref = t.map[p].ref /\ v.type = "ECM" /\ v.target = d
    BY <1>1, AnEntry, MakeEntry DEF Type
  <2> HIDE DEF u, w
  <2>7. v = Record(u.map[p].ref, "ECM", d)
    BY <2>5
  <2> HIDE DEF v
  <2>8. SetTo(u, w, p, v)
    BY <1>1, <2>4, <2>5, <2>6, <2>7, SetTypeTarget
  <2>9. d # n.map[p].target
    BY <1>1, <1>3, <2>3, Consts DEF Target, Registered, Type
  <2>10. Replaceable(n, h, d, p, v)
    BY <2>2, <2>3, <2>6, <2>9 DEF Unused, Replaceable
  <2>11. /\ Books(w, h, d) /\ Keeps(n, w, {p}) /\ w.map[p] = v
         /\ \A e \in n.live \ {n.map[p].target} : e \in w.live
    <3>1. Replaced(n, h, d, p, v, w)
      BY <1>1, <2>6, <2>8, <2>10, Unuse DEF u
    <3> QED BY <3>1 DEF Replaced
  <2>12. d \in w.live /\ Keeps(t, w, {p})
    BY <2>3, <2>9, <2>11 DEF Keeps
  <2>13. r[1] = w /\ r[2] = d
    BY <2>1 DEF w
  <2> QED BY <2>6, <2>11, <2>12, <2>13
<1> QED BY <1>2, <1>3

\* An elementary stream is bound to d, or to none.
Bound(t, h, p, w) ==
  /\ Books(w, h, NULL) /\ Keeps(t, w, {p})
  /\ w.map[p].ref = t.map[p].ref /\ w.map[p].type = "OTHER"

\* bind_stream_decryptor keeps the books.
LEMMA Bind ==
  ASSUME NEW t, NEW h, NEW j, NEW d, Books(t, h, j), d \in t.live \cup {NULL}, j \in {d, NULL},
         NEW p \in Pid, t.map[p].type = "OTHER",
         NEW w, w = bind_stream_decryptor(t, p, d)
  PROVE  Bound(t, h, p, w)
<1> USE DEF Bound
<1> DEFINE old == t.map[p].target
<1>1. /\ t \in Tables /\ t.live \subseteq Dec /\ t.ref \in [Dec -> Int]
      /\ Target(t, p) /\ old \in t.live \cup {NULL}
  BY DEF Books, Targets, Tables, Target
<1>2. CASE old = d
  <2>1. w = t
    BY <1>2 DEF bind_stream_decryptor
  <2>2. d \in t.live => t.ref[d] > 0
    <3> SUFFICES ASSUME d \in t.live
                 PROVE  t.ref[d] > 0
      OBVIOUS
    <3>1. p \in UsersOf(t, d)
      BY <1>2 DEF UsersOf, Uses
    <3>2. Cardinality(UsersOf(t, d)) # 0 /\ Cardinality(UsersOf(t, d)) \in Nat
      BY <3>1, UsersCount, FS_EmptySet
    <3> QED BY <3>2 DEF Books, One
  <2>3. Books(t, h, NULL)
    BY <2>2, Consts DEF Books
  <2> QED BY <2>1, <2>3 DEF Keeps
<1>3. CASE old # d
  <2> DEFINE u == Release(t, p)
             v == [u EXCEPT !.map[p].target = d]
             m(a) == Record(t.map[p].ref, "OTHER", a)
             x == [u EXCEPT !.map[p] = m(NULL)]
  <2>1. w = IF d # NULL THEN [v EXCEPT !.ref[d] = @ + 1] ELSE v
    <3> DEFINE less == [t EXCEPT !.ref[old] = @ - 1]
    <3>1. old # NULL => less.ref[old] \in Int /\ (less.ref[old] = 0 <=> less.ref[old] < 1)
      <4> SUFFICES ASSUME old # NULL
                   PROVE  less.ref[old] \in Int /\ (less.ref[old] = 0 <=> less.ref[old] < 1)
        OBVIOUS
      <4>1. old \in t.live /\ old \in Dec /\ old # j
        BY <1>1, <1>3
      <4>2. t.ref[old] \in Int /\ t.ref[old] > 0
        BY <1>1, <4>1 DEF Books
      <4>3. less = [t EXCEPT !.ref[old] = t.ref[old] - 1]
        OBVIOUS
      <4> HIDE DEF less, old
      <4>4. less.ref[old] = t.ref[old] - 1
        BY <1>1, <4>1, <4>2, <4>3, CountIs
      <4> QED BY <4>2, <4>4
    <3>2. u = IF old = NULL THEN t ELSE IF less.ref[old] = 0 THEN remove_decryptor(less, old) ELSE less
      BY <3>1 DEF Release, Drop
    <3> HIDE DEF u
    <3> QED BY <1>3, <3>2, ZenonT(60) DEF bind_stream_decryptor
  <2>2. u \in Tables /\ u.map[p].ref = t.map[p].ref /\ u.map[p].type = "OTHER"
    BY ReleaseIs
  <2>3. \A a \in {d, NULL} : m(a) \in Entry /\ m(a).ref = t.map[p].ref /\ m(a).type = "OTHER" /\ m(a).target = a
    BY <1>1, AnEntry, MakeEntry DEF Type
  <2>4. m(d) = Record(u.map[p].ref, u.map[p].type, d)
    BY <2>2
  <2> HIDE DEF m, u
  <2>5. SetTo(u, v, p, m(d)) /\ SetTo(u, x, p, m(NULL))
    <3>1. SetTo(u, v, p, m(d))
      BY <2>2, <2>3, <2>4, SetTarget
    <3>2. SetTo(u, x, p, m(NULL))
      BY <2>2, <2>3, SetIs
    <3> QED BY <3>1, <3>2
  <2>6. Replaceable(t, h, j, p, m(NULL))
    BY <1>3, <2>3 DEF Unused, Replaceable
  <2> HIDE DEF x, v
  <2>7. /\ Books(x, h, j) /\ Keeps(t, x, {p}) /\ x.map[p] = m(NULL)
        /\ \A e \in t.live \ {old} : e \in x.live
    <3>1. Replaced(t, h, j, p, m(NULL), x)
      BY <2>3, <2>5, <2>6, Unuse DEF u
    <3> QED BY <3>1 DEF Replaced
  <2>8. CASE d = NULL
    <3>1. w = v /\ j = NULL
      BY <2>1, <2>8
    <3>2. Books(v, h, j) /\ Keeps(t, v, {p}) /\ v.map[p] = m(NULL)
      <4>1. Replaced(t, h, j, p, m(NULL), v)
        BY <2>3, <2>5, <2>6, <2>8, Unuse DEF u
      <4> QED BY <4>1 DEF Replaced
    <3> QED BY <2>3, <3>1, <3>2
  <2>9. CASE d # NULL
    <3>1. w = [v EXCEPT !.ref[d] = @ + 1]
      BY <2>1, <2>9
    <3>2. d \in x.live
      BY <1>3, <2>7, <2>9
    <3>3. SetTo(x, v, p, m(d))
      BY <2>5 DEF SetTo
    <3>4. Books(w, h, NULL) /\ w.map = v.map
      BY <2>3, <2>7, <3>1, <3>2, <3>3, Use
    <3>5. v.map[p] = m(d) /\ \A q \in Pid \ {p} : v.map[q] = x.map[q]
      BY <3>3 DEF SetTo
    <3> QED BY <2>3, <2>7, <3>4, <3>5 DEF Keeps
  <2> QED BY <2>8, <2>9
<1> QED BY <1>2, <1>3

-----------------------------------------------------------------------------
(* The lists of the programs.                                              *)

In(P, p) == {x \in (1 .. Len(P)) \X {"streams", "old"} : Contains(P[x[1]][x[2]], p)}

\* The places of p, one by one.
LEMMA InIff ==
  ASSUME NEW P, NEW p
  PROVE  /\ \A k \in 1 .. Len(P), z \in {"streams", "old"} :
              <<k, z>> \in In(P, p) <=> Contains(P[k][z], p)
         /\ \A x \in In(P, p) : \E k \in 1 .. Len(P), z \in {"streams", "old"} : x = <<k, z>>
BY DEF In

\* There are no more places than two for each program.
LEMMA InCount ==
  ASSUME NEW P \in Seq(Program), NEW p
  PROVE  /\ IsFiniteSet(In(P, p)) /\ Cardinality(In(P, p)) \in Nat
         /\ Cardinality(In(P, p)) <= 2 * Len(P)
<1> DEFINE A == 1 .. Len(P)
           B == {"streams", "old"}
           S == A \X B
<1>1. IsFiniteSet(A) /\ Cardinality(A) = Len(P) /\ Len(P) \in Nat
  <2>1. Len(P) \in Nat
    OBVIOUS
  <2> DEFINE n == Len(P)
  <2> HIDE DEF n
  <2>2. IsFiniteSet(1 .. n) /\ Cardinality(1 .. n) = IF 1 > n THEN 0 ELSE n - 1 + 1
    BY <2>1, FS_Interval DEF n
  <2> QED BY <2>1, <2>2 DEF n
<1>2. IsFiniteSet(B) /\ Cardinality(B) = 2
  <2> DEFINE C == {"streams"}
  <2>1. IsFiniteSet(C) /\ Cardinality(C) = 1 /\ "old" \notin C /\ B = C \cup {"old"}
    BY FS_Singleton
  <2> HIDE DEF B, C
  <2>2. IsFiniteSet(C \cup {"old"}) /\ Cardinality(C \cup {"old"}) = 1 + 1
    BY <2>1, FS_AddElement
  <2> QED BY <2>1, <2>2
<1> HIDE DEF A, B
<1>3. IsFiniteSet(S) /\ Cardinality(S) = Len(P) * 2
  <2>1. IsFiniteSet(A \X B) /\ Cardinality(A \X B) = Cardinality(A) * Cardinality(B)
    BY <1>1, <1>2, FS_Product, Zenon
  <2> QED BY <1>1, <1>2, <2>1
<1>4. In(P, p) \in SUBSET S
  BY DEF In, A, B
<1> HIDE DEF S
<1>5. IsFiniteSet(In(P, p)) /\ Cardinality(In(P, p)) <= Cardinality(S)
  BY <1>3, <1>4, FS_Subset
<1>6. Cardinality(In(P, p)) \in Nat
  BY <1>5, FS_CardinalityType
<1>7. Len(P) * 2 = 2 * Len(P)
  BY <1>1
<1> QED BY <1>3, <1>5, <1>6, <1>7

\* A list is shortened or lengthened by one.
LEMMA ContainsTail ==
  ASSUME NEW list \in Seq(Pid), list # <<>>, Once(list), NEW q
  PROVE  /\ Once(Tail(list)) /\ Tail(list) \in Seq(Pid) /\ Head(list) \in Pid
         /\ Contains(list, Head(list))
         /\ Contains(Tail(list), q) <=> (Contains(list, q) /\ q # Head(list))
<1>1. /\ Len(Tail(list)) = Len(list) - 1 /\ Len(list) \in Nat \ {0} /\ Tail(list) \in Seq(Pid)
      /\ Head(list) = list[1] /\ Head(list) \in Pid
      /\ \A i \in 1 .. Len(list) - 1 : Tail(list)[i] = list[i + 1]
  BY HeadTailProperties, LenProperties
<1>2. Once(Tail(list))
  BY <1>1 DEF Once
<1>3. Contains(list, Head(list))
  BY <1>1 DEF Contains
<1>4. ASSUME Contains(Tail(list), q)
      PROVE  Contains(list, q) /\ q # Head(list)
  <2>1. PICK i \in 1 .. Len(list) - 1 : list[i + 1] = q
    BY <1>1, <1>4 DEF Contains
  <2>2. i + 1 \in 1 .. Len(list) /\ i + 1 # 1 /\ 1 \in 1 .. Len(list)
    BY <1>1
  <2> QED BY <1>1, <2>1, <2>2 DEF Contains, Once
<1>5. ASSUME Contains(list, q), q # Head(list)
      PROVE  Contains(Tail(list), q)
  <2>1. PICK i \in 1 .. Len(list) : list[i] = q
    BY <1>5 DEF Contains
  <2>2. i # 1 /\ i - 1 \in 1 .. Len(list) - 1 /\ (i - 1) + 1 = i
    BY <1>1, <1>5, <2>1
  <2> QED BY <1>1, <2>1, <2>2 DEF Contains
<1> QED BY <1>1, <1>2, <1>3, <1>4, <1>5

\* A PID appended to a list.
LEMMA ContainsAppend ==
  ASSUME NEW list \in Seq(Pid), NEW p \in Pid, NEW q
  PROVE  /\ Append(list, p) \in Seq(Pid)
         /\ Contains(Append(list, p), q) <=> (Contains(list, q) \/ q = p)
         /\ Once(list) /\ ~Contains(list, p) => Once(Append(list, p))
<1>1. /\ Append(list, p) \in Seq(Pid) /\ Len(list) \in Nat
      /\ Len(Append(list, p)) = Len(list) + 1
      /\ \A i \in 1 .. Len(list) : Append(list, p)[i] = list[i]
      /\ Append(list, p)[Len(list) + 1] = p
  BY AppendProperties, LenProperties
<1>2. Contains(Append(list, p), q) <=> (Contains(list, q) \/ q = p)
  BY <1>1 DEF Contains
<1>3. Once(list) /\ ~Contains(list, p) => Once(Append(list, p))
  BY <1>1 DEF Contains, Once
<1> QED BY <1>1, <1>2, <1>3

\* Nothing is in the empty list.
LEMMA ContainsEmpty ==
  ~(\E q : Contains(<<>>, q)) /\ Once(<<>>) /\ <<>> \in Seq(Pid)
BY DEF Contains, Once

\* The counts of the entries and the lists, as a predicate on tables t and programs P.
Counted(t, P, p) ==
  /\ In(P, p) # {} => p \in EsPid \cup EcmPid
  /\ t.map[p].type = "EMM" => In(P, p) = {}
  /\ t.map[p].type = "OTHER" => In(P, p) # {}
  /\ p \in EsPid \cup EcmPid /\ t.map[p].type # "EMM" => t.map[p].ref = Cardinality(In(P, p))

Counts(t, P) ==
  /\ P \in Seq(Program) /\ 2 * Len(P) < RefMod
  /\ \A i \in 1 .. Len(P), w \in {"streams", "old"} : Once(P[i][w])
  /\ \A p \in Pid : Counted(t, P, p)

\* Only one list is another.
Changed(P, Q, i, w) ==
  /\ i \in 1 .. Len(P) /\ w \in {"streams", "old"}
  /\ Q \in Seq(Program) /\ Len(Q) = Len(P)
  /\ \A k \in 1 .. Len(P), z \in {"streams", "old"} : <<k, z>> # <<i, w>> => Q[k][z] = P[k][z]

\* The two lists of a program, by field and by name.
LEMMA ListsAre ==
  ASSUME NEW P \in Seq(Program), NEW i \in 1 .. Len(P), NEW w \in {"streams", "old"}
  PROVE  /\ P[i] \in Program /\ P[i][w] \in Seq(Pid)
         /\ P[i]["streams"] = P[i].streams /\ P[i]["old"] = P[i].old
<1>1. P[i] \in Program
  BY ElementOfSeq
<1> QED BY <1>1 DEF Program

\* The places of q are the same, but for the one list.
OtherPlaces(P, Q, i, w, q) ==
  /\ \A x : x # <<i, w>> => (x \in In(Q, q) <=> x \in In(P, q))
  /\ <<i, w>> \in In(Q, q) <=> Contains(Q[i][w], q)
  /\ <<i, w>> \in In(P, q) <=> Contains(P[i][w], q)

\* Where a PID is listed outside the list that changes.
LEMMA InChanged ==
  ASSUME NEW P, NEW i, NEW w, NEW Q, Changed(P, Q, i, w), NEW q
  PROVE  OtherPlaces(P, Q, i, w, q)
<1>0. i \in 1 .. Len(P) /\ w \in {"streams", "old"}
  BY DEF Changed
<1>1. Len(Q) = Len(P)
  BY DEF Changed
<1>2. /\ <<i, w>> \in In(Q, q) <=> Contains(Q[i][w], q)
      /\ <<i, w>> \in In(P, q) <=> Contains(P[i][w], q)
  BY <1>0, <1>1, InIff
<1>3. ASSUME NEW x, x # <<i, w>>
      PROVE  x \in In(Q, q) <=> x \in In(P, q)
  <2>1. ASSUME NEW k \in 1 .. Len(P), NEW z \in {"streams", "old"}, x = <<k, z>>
        PROVE  x \in In(Q, q) <=> x \in In(P, q)
    <3>1. Q[k][z] = P[k][z]
      BY <1>3, <2>1 DEF Changed
    <3>2. <<k, z>> \in In(Q, q) <=> Contains(Q[k][z], q)
      BY <1>1, InIff
    <3>3. <<k, z>> \in In(P, q) <=> Contains(P[k][z], q)
      BY InIff
    <3> QED BY <2>1, <3>1, <3>2, <3>3
  <2> QED BY <1>1, <2>1, InIff
<1> QED BY <1>2, <1>3 DEF OtherPlaces

\* A list b that has all of a but p, or all of it and p; and what that is for the places.
Without(a, b, p) == Contains(a, p) /\ \A q : Contains(b, q) <=> (Contains(a, q) /\ q # p)
With(a, b, p) == ~Contains(a, p) /\ \A q : Contains(b, q) <=> (Contains(a, q) \/ q = p)
Leaves(P, Q, i, w, p) ==
  /\ In(Q, p) = In(P, p) \ {<<i, w>>} /\ <<i, w>> \in In(P, p)
  /\ \A q : q # p => In(Q, q) = In(P, q)
Enters(P, Q, i, w, p) ==
  /\ In(Q, p) = In(P, p) \cup {<<i, w>>} /\ <<i, w>> \notin In(P, p)
  /\ \A q : q # p => In(Q, q) = In(P, q)

\* A PID leaves one list.
LEMMA InLess ==
  ASSUME NEW P, NEW i, NEW w, NEW Q, Changed(P, Q, i, w), NEW p, Without(P[i][w], Q[i][w], p)
  PROVE  Leaves(P, Q, i, w, p)
<1>1. OtherPlaces(P, Q, i, w, p) /\ \A q : OtherPlaces(P, Q, i, w, q)
  BY InChanged
<1>2. <<i, w>> \in In(P, p)
  BY <1>1 DEF OtherPlaces, Without
<1>3. ASSUME NEW x
      PROVE  x \in In(Q, p) <=> x \in In(P, p) \ {<<i, w>>}
  <2>1. CASE x = <<i, w>>
    BY <1>1, <2>1 DEF OtherPlaces, Without
  <2>2. CASE x # <<i, w>>
    BY <1>1, <2>2 DEF OtherPlaces
  <2> QED BY <2>1, <2>2
<1>4. ASSUME NEW q, q # p
      PROVE  In(Q, q) = In(P, q)
  <2>1. Contains(Q[i][w], q) <=> Contains(P[i][w], q)
    BY <1>4 DEF Without
  <2>2. ASSUME NEW x
        PROVE  x \in In(Q, q) <=> x \in In(P, q)
    <3>1. CASE x = <<i, w>>
      BY <1>1, <2>1, <3>1 DEF OtherPlaces
    <3>2. CASE x # <<i, w>>
      BY <1>1, <3>2 DEF OtherPlaces
    <3> QED BY <3>1, <3>2
  <2> QED BY <2>2
<1> QED BY <1>2, <1>3, <1>4 DEF Leaves

\* A PID enters one list.
LEMMA InMore ==
  ASSUME NEW P, NEW i, NEW w, NEW Q, Changed(P, Q, i, w), NEW p, With(P[i][w], Q[i][w], p)
  PROVE  Enters(P, Q, i, w, p)
<1>1. OtherPlaces(P, Q, i, w, p) /\ \A q : OtherPlaces(P, Q, i, w, q)
  BY InChanged
<1>2. <<i, w>> \notin In(P, p)
  BY <1>1 DEF OtherPlaces, With
<1>3. ASSUME NEW x
      PROVE  x \in In(Q, p) <=> x \in In(P, p) \cup {<<i, w>>}
  <2>1. CASE x = <<i, w>>
    BY <1>1, <2>1 DEF OtherPlaces, With
  <2>2. CASE x # <<i, w>>
    BY <1>1, <2>2 DEF OtherPlaces
  <2> QED BY <2>1, <2>2
<1>4. ASSUME NEW q, q # p
      PROVE  In(Q, q) = In(P, q)
  <2>1. Contains(Q[i][w], q) <=> Contains(P[i][w], q)
    BY <1>4 DEF With
  <2>2. ASSUME NEW x
        PROVE  x \in In(Q, q) <=> x \in In(P, q)
    <3>1. CASE x = <<i, w>>
      BY <1>1, <2>1, <3>1 DEF OtherPlaces
    <3>2. CASE x # <<i, w>>
      BY <1>1, <3>2 DEF OtherPlaces
    <3> QED BY <3>1, <3>2
  <2> QED BY <2>2
<1> QED BY <1>2, <1>3, <1>4 DEF Enters

\* A change of the decryptors, and of the type of one entry, leaves the counts.
LEMMA CountsKept ==
  ASSUME NEW t, NEW u, NEW P, Counts(t, P), NEW p \in Pid, Keeps(t, u, {p}),
         u.map[p].ref = t.map[p].ref,
         \/ u.map[p].type = t.map[p].type
         \/ t.map[p].type # "EMM" /\ u.map[p].type \notin {"OTHER", "EMM"}
  PROVE  Counts(u, P)
<1>1. ASSUME NEW q \in Pid
      PROVE  Counted(u, P, q)
  <2>1. Counted(t, P, q)
    BY DEF Counts
  <2>2. CASE q = p
    BY <2>1, <2>2 DEF Counted
  <2>3. CASE q # p
    BY <2>1, <2>3 DEF Counted, Keeps
  <2> QED BY <2>2, <2>3
<1> QED BY <1>1 DEF Counts

\* What is in a list is counted.
LEMMA HeadCounted ==
  ASSUME NEW t \in Tables, NEW P, Counts(t, P),
         NEW i \in 1 .. Len(P), NEW w \in {"streams", "old"}, P[i][w] # <<>>
  PROVE  /\ Head(P[i][w]) \in Pid /\ t.map[Head(P[i][w])].ref > 0
         /\ <<i, w>> \in In(P, Head(P[i][w]))
<1> DEFINE p == Head(P[i][w])
<1>1. P \in Seq(Program) /\ P[i][w] \in Seq(Pid) /\ Once(P[i][w])
  BY ListsAre DEF Counts
<1>2. p \in Pid /\ Contains(P[i][w], p)
  BY <1>1, ContainsTail
<1> HIDE DEF p
<1>3. <<i, w>> \in In(P, p)
  BY <1>2 DEF In
<1>4. Cardinality(In(P, p)) > 0
  <2>1. In(P, p) # {}
    BY <1>3
  <2> QED BY <1>1, <2>1, InCount, FS_EmptySet
<1>5. t.map[p].ref = Cardinality(In(P, p))
  BY <1>2, <1>3 DEF Counts, Counted
<1> QED BY <1>2, <1>3, <1>4, <1>5 DEF p

\* The first of a list leaves it and its count.
LEMMA Shrink ==
  ASSUME NEW t \in Tables, NEW P, Counts(t, P),
         NEW i \in 1 .. Len(P), NEW w \in {"streams", "old"}, P[i][w] # <<>>,
         NEW Q, Changed(P, Q, i, w), Q[i][w] = Tail(P[i][w]),
         NEW p, p = Head(P[i][w]),
         NEW u, Keeps(t, u, {p}), u.map[p].ref = t.map[p].ref - 1,
         u.map[p].type = IF u.map[p].ref = 0 THEN "UNKNOWN" ELSE t.map[p].type
  PROVE  Counts(u, Q)
<1>1. P \in Seq(Program) /\ P[i][w] \in Seq(Pid) /\ Once(P[i][w])
  BY ListsAre DEF Counts
<1>2. p \in Pid /\ <<i, w>> \in In(P, p) /\ Q \in Seq(Program) /\ Len(Q) = Len(P)
  BY HeadCounted DEF Changed
<1>3. Without(P[i][w], Q[i][w], p)
  BY <1>1, ContainsTail DEF Without
<1>4. Leaves(P, Q, i, w, p)
  BY <1>3, InLess
<1>5. In(Q, p) = In(P, p) \ {<<i, w>>} /\ \A q : q # p => In(Q, q) = In(P, q)
  BY <1>4 DEF Leaves
<1>6. /\ Cardinality(In(Q, p)) = Cardinality(In(P, p)) - 1
      /\ IsFiniteSet(In(Q, p)) /\ Cardinality(In(Q, p)) \in Nat
  <2>1. IsFiniteSet(In(P, p))
    BY <1>1, InCount
  <2>2. Cardinality(In(P, p) \ {<<i, w>>}) = Cardinality(In(P, p)) - 1
    BY <1>2, <2>1, FS_RemoveElement
  <2> QED BY <1>2, <1>5, <2>2, InCount
<1>7. ASSUME NEW k \in 1 .. Len(Q), NEW z \in {"streams", "old"}
      PROVE  Once(Q[k][z])
  <2>1. CASE <<k, z>> = <<i, w>>
    BY <1>1, <2>1, ContainsTail
  <2>2. CASE <<k, z>> # <<i, w>>
    BY <1>2, <2>2 DEF Changed, Counts
  <2> QED BY <2>1, <2>2
<1>8. Counted(u, Q, p)
  <2>1. Counted(t, P, p) /\ In(P, p) # {}
    BY <1>2 DEF Counts
  <2>2. /\ p \in EsPid \cup EcmPid /\ t.map[p].type # "EMM"
        /\ u.map[p].ref = Cardinality(In(Q, p))
    BY <1>6, <2>1 DEF Counted
  <2>3. In(Q, p) = {} <=> Cardinality(In(Q, p)) = 0
    BY <1>6, FS_EmptySet
  <2>4. /\ u.map[p].type # "EMM"
        /\ u.map[p].type = "OTHER" => In(Q, p) # {}
    BY <2>2, <2>3
  <2> QED BY <2>2, <2>4 DEF Counted
<1>9. ASSUME NEW q \in Pid, q # p
      PROVE  Counted(u, Q, q)
  BY <1>5, <1>9 DEF Counts, Counted, Keeps
<1> QED BY <1>2, <1>7, <1>8, <1>9 DEF Counts

\* The count does not wrap below its modulus.
LEMMA IncIs ==
  ASSUME NEW n \in Nat, n + 1 < RefMod
  PROVE  Inc(n) = n + 1
BY Consts DEF Inc

\* A PID that is not in the list is appended to it and counted.
Longer(P, Q, i, w, p) ==
  Changed(P, Q, i, w) /\ ~Contains(P[i][w], p) /\ Q[i][w] = Append(P[i][w], p)
Raised(t, u, p) ==
  /\ \A q \in Pid \ {p} : u.map[q].ref = t.map[q].ref /\ u.map[q].type = t.map[q].type
  /\ u.map[p].ref = Inc(t.map[p].ref) /\ t.map[p].type # "EMM" /\ u.map[p].type # "EMM"

\* A list and the count of its new PID grow together.
LEMMA Grow ==
  ASSUME NEW t \in Tables, NEW P, Counts(t, P), NEW p \in EsPid \cup EcmPid,
         NEW i, NEW w, NEW Q, Longer(P, Q, i, w, p), NEW u, Raised(t, u, p)
  PROVE  Counts(u, Q)
<1>0. /\ Changed(P, Q, i, w) /\ ~Contains(P[i][w], p) /\ Q[i][w] = Append(P[i][w], p)
      /\ i \in 1 .. Len(P) /\ w \in {"streams", "old"}
      /\ \A q \in Pid \ {p} : u.map[q].ref = t.map[q].ref /\ u.map[q].type = t.map[q].type
      /\ u.map[p].ref = Inc(t.map[p].ref) /\ t.map[p].type # "EMM" /\ u.map[p].type # "EMM"
  BY DEF Longer, Raised, Changed
<1>1. /\ P \in Seq(Program) /\ P[i][w] \in Seq(Pid) /\ Once(P[i][w])
      /\ 2 * Len(P) < RefMod /\ Counted(t, P, p)
      /\ p \in Pid /\ Q \in Seq(Program) /\ Len(Q) = Len(P)
  BY <1>0, ListsAre, Consts DEF Counts, Changed
<1>2. With(P[i][w], Q[i][w], p)
  BY <1>0, <1>1, ContainsAppend DEF With
<1>3. Enters(P, Q, i, w, p)
  BY <1>0, <1>2, InMore
<1>4. /\ In(Q, p) = In(P, p) \cup {<<i, w>>} /\ <<i, w>> \notin In(P, p)
      /\ \A q : q # p => In(Q, q) = In(P, q)
  BY <1>3 DEF Enters
<1>5. Cardinality(In(Q, p)) = Cardinality(In(P, p)) + 1
  <2>1. IsFiniteSet(In(P, p))
    BY <1>1, InCount
  <2>2. Cardinality(In(P, p) \cup {<<i, w>>}) = Cardinality(In(P, p)) + 1
    BY <1>4, <2>1, FS_AddElement
  <2> QED BY <1>4, <2>2
<1>6. u.map[p].ref = Cardinality(In(Q, p))
  <2>1. /\ Cardinality(In(P, p)) \in Nat /\ Cardinality(In(Q, p)) <= 2 * Len(Q)
        /\ Len(P) \in Nat
    BY <1>1, InCount
  <2>2. t.map[p].ref = Cardinality(In(P, p))
    BY <1>0, <1>1 DEF Counted
  <2>3. Cardinality(In(P, p)) + 1 < RefMod
    BY <1>1, <1>5, <2>1, Consts
  <2>4. Inc(Cardinality(In(P, p))) = Cardinality(In(P, p)) + 1
    BY <2>1, <2>3, IncIs
  <2> QED BY <1>0, <1>5, <2>2, <2>4
<1>7. ASSUME NEW k \in 1 .. Len(Q), NEW z \in {"streams", "old"}
      PROVE  Once(Q[k][z])
  <2>1. CASE <<k, z>> = <<i, w>>
    BY <1>0, <1>1, <2>1, ContainsAppend
  <2>2. CASE <<k, z>> # <<i, w>>
    BY <1>0, <1>1, <2>2 DEF Changed, Counts
  <2> QED BY <2>1, <2>2
<1>8. Counted(u, Q, p)
  BY <1>0, <1>4, <1>6 DEF Counted
<1>9. ASSUME NEW q \in Pid, q # p
      PROVE  Counted(u, Q, q)
  BY <1>0, <1>4, <1>9 DEF Counts, Counted
<1> QED BY <1>1, <1>7, <1>8, <1>9 DEF Counts

\* The current list of a program becomes the older one.
Saved(P, Q, i) ==
  /\ Q \in Seq(Program) /\ Len(Q) = Len(P)
  /\ Q[i].old = P[i].streams /\ Q[i].streams = <<>>
  /\ \A k \in 1 .. Len(P) : k # i => Q[k] = P[k]

\* Making the present list the old one moves no PID in or out.
LEMMA Moved ==
  ASSUME NEW t, NEW P, Counts(t, P), NEW i \in 1 .. Len(P), P[i].old = <<>>,
         NEW Q, Saved(P, Q, i)
  PROVE  Counts(t, Q)
<1>1. P \in Seq(Program) /\ P[i].streams = P[i]["streams"] /\ P[i].old = P[i]["old"]
  BY ListsAre DEF Counts
<1>2. /\ Q \in Seq(Program) /\ Len(Q) = Len(P)
      /\ Q[i]["old"] = P[i]["streams"] /\ Q[i]["streams"] = <<>>
      /\ \A k \in 1 .. Len(P) : k # i => Q[k] = P[k]
  BY <1>1, ListsAre DEF Saved
<1>3. ASSUME NEW q
      PROVE  /\ <<i, "old">> \notin In(P, q) /\ <<i, "streams">> \notin In(Q, q)
             /\ <<i, "old">> \in In(Q, q) <=> <<i, "streams">> \in In(P, q)
             /\ \A x : x # <<i, "old">> /\ x # <<i, "streams">> => (x \in In(Q, q) <=> x \in In(P, q))
  <2>1. /\ <<i, "old">> \notin In(P, q) /\ <<i, "streams">> \notin In(Q, q)
        /\ <<i, "old">> \in In(Q, q) <=> <<i, "streams">> \in In(P, q)
    BY <1>1, <1>2, InIff, ContainsEmpty
  <2>2. ASSUME NEW x, x # <<i, "old">>, x # <<i, "streams">>
        PROVE  x \in In(Q, q) <=> x \in In(P, q)
    <3>1. ASSUME NEW k \in 1 .. Len(P), NEW z \in {"streams", "old"}, x = <<k, z>>
          PROVE  x \in In(Q, q) <=> x \in In(P, q)
      <4>1. Q[k] = P[k]
        BY <1>2, <2>2, <3>1
      <4>2. <<k, z>> \in In(Q, q) <=> Contains(Q[k][z], q)
        BY <1>2, InIff
      <4>3. <<k, z>> \in In(P, q) <=> Contains(P[k][z], q)
        BY InIff
      <4> QED BY <3>1, <4>1, <4>2, <4>3
    <3> QED BY <1>2, <3>1, InIff
  <2> QED BY <2>1, <2>2
<1>4. ASSUME NEW q
      PROVE  Cardinality(In(Q, q)) = Cardinality(In(P, q)) /\ (In(Q, q) = {} <=> In(P, q) = {})
  <2>1. IsFiniteSet(In(P, q)) /\ Cardinality(In(P, q)) \in Nat
    BY <1>1, InCount
  <2>2. CASE <<i, "streams">> \in In(P, q)
    <3> DEFINE S == In(P, q) \ {<<i, "streams">>}
    <3>1. IsFiniteSet(S) /\ Cardinality(S) = Cardinality(In(P, q)) - 1 /\ <<i, "old">> \notin S
      BY <1>3, <2>1, <2>2, FS_RemoveElement
    <3> HIDE DEF S
    <3>2. Cardinality(S \cup {<<i, "old">>}) = Cardinality(S) + 1
      BY <3>1, FS_AddElement
    <3>3. In(Q, q) = S \cup {<<i, "old">>}
      BY <1>3, <2>2 DEF S
    <3>4. Cardinality(In(Q, q)) = Cardinality(In(P, q))
      BY <2>1, <3>1, <3>2, <3>3
    <3>5. In(Q, q) # {} /\ In(P, q) # {}
      BY <2>2, <3>3
    <3> QED BY <3>4, <3>5
  <2>3. CASE <<i, "streams">> \notin In(P, q)
    <3>1. In(Q, q) = In(P, q)
      BY <1>3, <2>3, SMTT(30)
    <3> QED BY <3>1
  <2> QED BY <2>2, <2>3
<1>5. ASSUME NEW k \in 1 .. Len(Q), NEW z \in {"streams", "old"}
      PROVE  Once(Q[k][z])
  <2>1. CASE k = i
    BY <1>2, <2>1, ContainsEmpty DEF Counts
  <2>2. CASE k # i
    BY <1>2, <2>2 DEF Counts
  <2> QED BY <2>1, <2>2
<1> QED BY <1>2, <1>4, <1>5 DEF Counts, Counted

-----------------------------------------------------------------------------
(* The steps, on tables and programs.                                      *)

\* An entry of a PMT leads to the program with that PMT PID.
Owned(t, P) ==
  \A p \in Pid : t.map[p].type = "PMT" =>
    /\ p \in PmtPid
    /\ t.map[p].target \in 1 .. Len(P) /\ P[t.map[p].target].pmt_pid = p
Good(t, h, P) == Books(t, h, NULL) /\ Counts(t, P) /\ Owned(t, P)

\* The PIDs of a PMT and their roles; and what the map says of them.
PidOf(m, q) == \E k \in 1 .. Len(m.es) : m.es[k].pid = q
EcmOf(m, q) == q = m.ecm \/ \E k \in 1 .. Len(m.es) : m.es[k].ecm = q
Roles(m) ==
  /\ m \in [ecm : EcmPid \cup {NONE, CLEAR}, es : Seq(Es)]
  /\ \A j, k \in 1 .. Len(m.es) : m.es[j].pid = m.es[k].pid => j = k
  /\ \A q : PidOf(m, q) => ~EcmOf(m, q)
Free(t, m) ==
  \A q \in Pid : /\ PidOf(m, q) => t.map[q].type \notin {"ECM", "EMM"}
                 /\ EcmOf(m, q) => t.map[q].type # "EMM"
Unlisted(P, i, m) == \A q : PidOf(m, q) => ~Contains(P[i].streams, q)

\* Programs that differ in their lists at most.
SameOwners(P, Q) == Len(Q) = Len(P) /\ \A k \in 1 .. Len(P) : Q[k].pmt_pid = P[k].pmt_pid

\* PMT entries still lead to their programs.
LEMMA OwnedKept ==
  ASSUME NEW t, NEW u, NEW P, NEW Q, Owned(t, P), SameOwners(P, Q), NEW p \in Pid, Keeps(t, u, {p}),
         \/ u.map[p].type # "PMT"
         \/ u.map[p].type = t.map[p].type /\ u.map[p].target = t.map[p].target
  PROVE  Owned(u, Q)
<1>1. ASSUME NEW q \in Pid, u.map[q].type = "PMT"
      PROVE  t.map[q].type = "PMT" /\ u.map[q].target = t.map[q].target
  <2>1. CASE q = p
    BY <1>1, <2>1
  <2>2. CASE q # p
    BY <1>1, <2>2 DEF Keeps
  <2> QED BY <2>1, <2>2
<1> QED BY <1>1 DEF Owned, SameOwners

\* The PIDs of a PMT stay free for their roles.
LEMMA FreeKept ==
  ASSUME NEW t, NEW u, NEW m, Free(t, m), NEW p \in Pid, Keeps(t, u, {p}),
         \/ u.map[p].type \in {"OTHER", "UNKNOWN"}
         \/ u.map[p].type = t.map[p].type
         \/ u.map[p].type = "ECM" /\ ~PidOf(m, p)
  PROVE  Free(u, m)
<1>1. ASSUME NEW q \in Pid
      PROVE  /\ PidOf(m, q) => u.map[q].type \notin {"ECM", "EMM"}
             /\ EcmOf(m, q) => u.map[q].type # "EMM"
  <2>1. /\ PidOf(m, q) => t.map[q].type \notin {"ECM", "EMM"}
        /\ EcmOf(m, q) => t.map[q].type # "EMM"
    BY DEF Free
  <2>2. CASE q = p
    BY <2>1, <2>2
  <2>3. CASE q # p
    BY <2>1, <2>3 DEF Keeps
  <2> QED BY <2>2, <2>3
<1> QED BY <1>1 DEF Free

\* What setting a list of a program does.
Listed(P, Q, i, w, l) == Changed(P, Q, i, w) /\ Q[i][w] = l /\ SameOwners(P, Q)

\* The old list of one program is set.
LEMMA SetOld ==
  ASSUME NEW P \in Seq(Program), NEW i \in 1 .. Len(P), NEW l \in Seq(Pid),
         NEW Q, Q = [P EXCEPT ![i].old = l]
  PROVE  Listed(P, Q, i, "old", l)
<1>1. P[i] \in Program
  BY ListsAre
<1>2. [P[i] EXCEPT !.old = l] \in Program
  BY <1>1 DEF Program
<1>3. Q = [P EXCEPT ![i] = [P[i] EXCEPT !.old = l]]
  OBVIOUS
<1> DEFINE v == [P[i] EXCEPT !.old = l]
<1>4. v["old"] = l /\ v["streams"] = P[i]["streams"] /\ v.pmt_pid = P[i].pmt_pid
  BY <1>1 DEF Program
<1> HIDE DEF v
<1>5. /\ Q \in Seq(Program) /\ Len(Q) = Len(P) /\ Q[i] = v
      /\ \A k \in 1 .. Len(P) : k # i => Q[k] = P[k]
  BY <1>2, <1>3, ExceptSeq DEF v
<1> QED BY <1>4, <1>5 DEF Changed, SameOwners, Listed

\* The present list of one program is set.
LEMMA SetStreams ==
  ASSUME NEW P \in Seq(Program), NEW i \in 1 .. Len(P), NEW l \in Seq(Pid),
         NEW Q, Q = [P EXCEPT ![i].streams = l]
  PROVE  Listed(P, Q, i, "streams", l)
<1>1. P[i] \in Program
  BY ListsAre
<1>2. [P[i] EXCEPT !.streams = l] \in Program
  BY <1>1 DEF Program
<1>3. Q = [P EXCEPT ![i] = [P[i] EXCEPT !.streams = l]]
  OBVIOUS
<1> DEFINE v == [P[i] EXCEPT !.streams = l]
<1>4. v["streams"] = l /\ v["old"] = P[i]["old"] /\ v.pmt_pid = P[i].pmt_pid
  BY <1>1 DEF Program
<1> HIDE DEF v
<1>5. /\ Q \in Seq(Program) /\ Len(Q) = Len(P) /\ Q[i] = v
      /\ \A k \in 1 .. Len(P) : k # i => Q[k] = P[k]
  BY <1>2, <1>3, ExceptSeq DEF v
<1> QED BY <1>4, <1>5 DEF Changed, SameOwners, Listed

\* The first PID of a list is released.
LEMMA UnrefFirst ==
  ASSUME NEW t, NEW h, NEW P, Good(t, h, P),
         NEW i \in 1 .. Len(P), NEW w \in {"streams", "old"}, P[i][w] # <<>>,
         NEW Q, Changed(P, Q, i, w), Q[i][w] = Tail(P[i][w]), SameOwners(P, Q),
         NEW u, u = unref_stream(t, Head(P[i][w]))
  PROVE  Good(u, h, Q) /\ \A m : Free(t, m) => Free(u, m)
<1> DEFINE p == Head(P[i][w])
<1>1. Books(t, h, NULL) /\ Counts(t, P) /\ Owned(t, P) /\ t \in Tables
  BY DEF Good, Books
<1>2. p \in Pid /\ t.map[p].ref > 0
  BY <1>1, HeadCounted
<1>3. u = unref_stream(t, p) /\ p = Head(P[i][w])
  OBVIOUS
<1> HIDE DEF p
<1>4. /\ Books(u, h, NULL) /\ Keeps(t, u, {p})
      /\ u.map[p].ref = t.map[p].ref - 1
      /\ u.map[p].type = IF u.map[p].ref = 0 THEN "UNKNOWN" ELSE t.map[p].type
      /\ u.map[p].ref # 0 => u.map[p].target = t.map[p].target
  <2>1. Unreffed(t, h, p, u)
    BY <1>1, <1>2, <1>3, Unref
  <2> QED BY <2>1 DEF Unreffed
<1>5. Counts(u, Q)
  BY <1>1, <1>3, <1>4, Shrink
<1>6. Owned(u, Q)
  BY <1>1, <1>2, <1>4, OwnedKept
<1>7. ASSUME NEW m, Free(t, m)
      PROVE  Free(u, m)
  BY <1>2, <1>4, <1>7, FreeKept
<1> QED BY <1>4, <1>5, <1>6, <1>7 DEF Good

\* A PID becomes an elementary stream, with the decryptor it has or none.
LEMMA Announce ==
  ASSUME NEW t, NEW h, NEW j, Books(t, h, j), NEW p \in Pid, NEW v, NEW u, SetTo(t, u, p, v),
         v.type = "OTHER", v.target = t.map[p].target, t.map[p].type \in {"OTHER", "UNKNOWN"}
  PROVE  Books(u, h, j)
<1>1. /\ t.live \subseteq Dec /\ Targets(t)
      /\ u \in Tables /\ u.live = t.live /\ u.ref = t.ref /\ u.ecm = t.ecm
      /\ u.map[p] = v /\ \A q \in Pid \ {p} : u.map[q] = t.map[q]
  BY DEF Books, Tables, SetTo
<1>2. Target(t, p)
  BY <1>1 DEF Targets
<1>3. ASSUME NEW e \in t.live
      PROVE  UsersOf(u, e) = UsersOf(t, e)
  <2>1. Uses(u, p, e) <=> Uses(t, p, e)
    BY <1>1, <1>2, Consts DEF Uses, Target
  <2>2. \A q \in Pid \ {p} : Uses(u, q, e) <=> Uses(t, q, e)
    BY <1>1 DEF Uses
  <2> QED BY <2>1, <2>2, SameUsers DEF UsedAlike
<1>4. Targets(u)
  BY <1>1, <1>2 DEF Targets, Target
<1> QED BY <1>1, <1>3, <1>4 DEF Books

\* In the middle of a turn of proc_pmt for stream e: tables t, decryptor j and
\* programs P after the ECM PID of e was looked up, counted and listed.
Found(t, h, j, P, m, e) ==
  /\ Books(t, h, j) /\ j \in t.live \cup {NULL} /\ Counts(t, P) /\ Owned(t, P) /\ Free(t, m)
  /\ e.ecm \notin EcmPid => j = NULL

\* set_decryptor with the listing of the ECM PID keeps the tables good.
LEMMA FindDecryptor ==
  ASSUME NEW t, NEW h, NEW P, Good(t, h, P), NEW m, Roles(m), Free(t, m),
         NEW e \in Es, EcmOf(m, e.ecm), e.ecm \in EcmPid, NEW i \in 1 .. Len(P),
         NEW s \in set_decryptor(t, e.ecm),
         NEW Q, Q = [P EXCEPT ![i].streams = AddEcm(P[i].streams, e.ecm)]
  PROVE  Found(AddEcmCount(s[1], P[i].streams, e.ecm), h, s[2], Q, m, e) /\ SameOwners(P, Q)
<1> DEFINE p == e.ecm
           list == P[i].streams
           j == s[2]
           u == s[1]
           w == AddEcmCount(u, list, p)
<1>1. /\ Books(t, h, NULL) /\ Counts(t, P) /\ Owned(t, P) /\ t \in Tables
      /\ p \in EcmPid /\ p \in Pid /\ P \in Seq(Program)
      /\ list \in Seq(Pid) /\ P[i]["streams"] = list
  BY Consts, ListsAre DEF Good, Books, Counts
<1>2. t.map[p].type \notin {"EMM", "PMT"} /\ ~PidOf(m, p)
  BY <1>1, Consts DEF Free, Owned, Roles
<1> HIDE DEF p, j, u, list
<1>3. /\ Books(u, h, j) /\ j \in u.live /\ Keeps(t, u, {p})
      /\ u.map[p].ref = t.map[p].ref /\ u.map[p].type = "ECM"
  BY <1>1, <1>2, SetDecryptor DEF p, j, u
<1>4. Counts(u, P) /\ Free(u, m) /\ u \in Tables
  BY <1>1, <1>2, <1>3, CountsKept, FreeKept DEF Books
<1>5. SameOwners(P, P)
  BY DEF SameOwners
<1>6. Owned(u, P)
  BY <1>1, <1>3, <1>5, OwnedKept
<1>7. CASE Contains(list, p)
  <2>1. w = u /\ AddEcm(list, p) = list
    BY <1>7 DEF AddEcmCount, AddEcm
  <2>2. Q = P
    <3>1. [P[i] EXCEPT !.streams = P[i].streams] = P[i]
      BY <1>1, ListsAre DEF Program
    <3>2. Q = [P EXCEPT ![i] = P[i]]
      BY <2>1, <3>1 DEF p, list
    <3> QED BY <1>1, <3>2
  <2>3. Found(w, h, j, Q, m, e)
    BY <1>3, <1>4, <1>6, <2>1, <2>2, <1>1 DEF Found, p
  <2> QED BY <1>5, <2>2, <2>3 DEF w, p, list, j, u
<1>8. CASE ~Contains(list, p)
  <2> DEFINE n == Inc(u.map[p].ref)
             l == Append(list, p)
  <2>1. w = [u EXCEPT !.map[p].ref = n] /\ AddEcm(list, p) = l
    BY <1>8 DEF AddEcmCount, AddEcm
  <2>2. n \in 0 .. RefMod - 1
    BY <1>1, <1>4, AnEntry, Consts DEF Inc
  <2>3. l \in Seq(Pid)
    BY <1>1, ContainsAppend
  <2>4. n = Inc(u.map[p].ref) /\ l = Append(list, p)
    OBVIOUS
  <2>5. Q = [P EXCEPT ![i].streams = l]
    BY <2>1 DEF p, list
  <2> HIDE DEF n, l, w
  <2>6. /\ Books(w, h, j) /\ w.live = u.live
        /\ w.map[p].ref = n /\ w.map[p].type = "ECM"
        /\ \A q \in Pid \ {p} : w.map[q] = u.map[q]
    <3>1. Recounted(u, w, h, j, p, n)
      BY <1>1, <1>3, <2>1, <2>2, Recount
    <3> QED BY <1>3, <3>1 DEF Recounted
  <2>7. Changed(P, Q, i, "streams") /\ Q[i]["streams"] = l /\ SameOwners(P, Q)
    BY <1>1, <2>3, <2>5, SetStreams DEF Listed
  <2>8. Counts(w, Q)
    <3>1. \A q \in Pid \ {p} : w.map[q].ref = u.map[q].ref /\ w.map[q].type = u.map[q].type
      BY <2>6
    <3>2. w.map[p].ref = Inc(u.map[p].ref) /\ u.map[p].type # "EMM" /\ w.map[p].type # "EMM"
      BY <1>3, <2>4, <2>6
    <3>3. p \in EsPid \cup EcmPid /\ Longer(P, Q, i, "streams", p)
      BY <1>1, <1>8, <2>4, <2>7 DEF Longer
    <3>4. Raised(u, w, p)
      BY <3>1, <3>2 DEF Raised
    <3> QED BY <1>4, <3>3, <3>4, Grow
  <2>9. Keeps(u, w, {p})
    BY <2>6 DEF Keeps
  <2>10. Owned(w, Q) /\ Free(w, m)
    BY <1>1, <1>2, <1>4, <1>6, <2>6, <2>7, <2>9, OwnedKept, FreeKept
  <2>11. Found(w, h, j, Q, m, e)
    BY <1>1, <1>3, <2>6, <2>8, <2>10 DEF Found, p
  <2> QED BY <2>7, <2>11 DEF w, p, list, j, u
<1> QED BY <1>7, <1>8

\* The rest of the turn: the stream is counted, listed and bound.
LEMMA BindStream ==
  ASSUME NEW t, NEW h, NEW j, NEW P, NEW m, NEW e \in Es, Found(t, h, j, P, m, e),
         PidOf(m, e.pid), NEW i \in 1 .. Len(P), ~Contains(P[i].streams, e.pid),
         NEW Q, Changed(P, Q, i, "streams"), Q[i]["streams"] = Append(P[i]["streams"], e.pid),
         SameOwners(P, Q),
         NEW w, w = bind_stream_decryptor(
                      [t EXCEPT !.map[e.pid].type = "OTHER", !.map[e.pid].ref = Inc(@)],
                      e.pid, select_active_decryptor(h, j, e.ecm))
  PROVE  Good(w, h, Q) /\ Free(w, m)
<1> DEFINE p == e.pid
           d == select_active_decryptor(h, j, e.ecm)
           u == [t EXCEPT !.map[p].type = "OTHER", !.map[p].ref = Inc(@)]
           n == Inc(t.map[p].ref)
           v == Record(n, "OTHER", t.map[p].target)
<1>1. /\ Books(t, h, j) /\ j \in t.live \cup {NULL} /\ Counts(t, P) /\ Owned(t, P) /\ Free(t, m)
      /\ p \in EsPid /\ p \in Pid /\ t \in Tables /\ h \in t.live \cup {NULL}
      /\ P[i]["streams"] = P[i].streams
  BY Consts, ListsAre DEF Found, Books, Es, Counts
<1>2. t.map[p].type \in {"OTHER", "UNKNOWN"}
  <2>1. t.map[p].type \in Type /\ t.map[p].type \notin {"ECM", "EMM", "PMT"}
    BY <1>1, AnEntry, Consts DEF Free, Owned
  <2> QED BY <2>1 DEF Type
<1>3. w = bind_stream_decryptor(u, p, d)
  OBVIOUS
<1>4. d \in t.live \cup {NULL} /\ j \in {d, NULL}
  BY <1>1 DEF select_active_decryptor
<1>5. n \in 0 .. RefMod - 1 /\ t.map[p].target \in Dec \cup Nat \cup {NULL}
  BY <1>1, AnEntry, Consts DEF Inc
<1>6. v \in Entry /\ v.ref = n /\ v.type = "OTHER" /\ v.target = t.map[p].target
  BY <1>5, MakeEntry DEF Type
<1>7. u = [t EXCEPT !.map[p].type = "OTHER", !.map[p].ref = n]
  OBVIOUS
<1>8. n = Inc(t.map[p].ref) /\ v = Record(n, "OTHER", t.map[p].target)
  OBVIOUS
<1> HIDE DEF u, d, n, v
<1>9. SetTo(t, u, p, v)
  BY <1>1, <1>6, <1>7, <1>8, SetTypeRef
<1>10. /\ u.live = t.live /\ u \in Tables /\ u.map[p] = v
       /\ \A q \in Pid \ {p} : u.map[q] = t.map[q]
  BY <1>9 DEF SetTo
<1>11. Books(u, h, j)
  BY <1>1, <1>2, <1>6, <1>9, Announce
<1>12. Counts(u, Q)
  <2>1. \A q \in Pid \ {p} : u.map[q].ref = t.map[q].ref /\ u.map[q].type = t.map[q].type
    BY <1>10
  <2>2. u.map[p].ref = Inc(t.map[p].ref) /\ t.map[p].type # "EMM" /\ u.map[p].type # "EMM"
    BY <1>2, <1>6, <1>8, <1>10
  <2>3. p \in EsPid \cup EcmPid /\ Longer(P, Q, i, "streams", p)
    BY <1>1 DEF Longer, p
  <2>4. Raised(t, u, p)
    BY <2>1, <2>2 DEF Raised
  <2> QED BY <1>1, <2>3, <2>4, Grow
<1>13. Keeps(t, u, {p})
  BY <1>10 DEF Keeps
<1>14. Owned(u, Q) /\ Free(u, m)
  BY <1>1, <1>6, <1>10, <1>13, OwnedKept, FreeKept
<1>15. /\ Books(w, h, NULL) /\ Keeps(u, w, {p})
       /\ w.map[p].ref = u.map[p].ref /\ w.map[p].type = "OTHER"
  <2>1. u.map[p].type = "OTHER" /\ d \in u.live \cup {NULL}
    BY <1>4, <1>6, <1>10
  <2>2. Bound(u, h, p, w)
    BY <1>1, <1>3, <1>4, <1>11, <2>1, Bind
  <2> QED BY <2>2 DEF Bound
<1>16. Counts(w, Q)
  BY <1>1, <1>6, <1>10, <1>12, <1>15, CountsKept
<1>17. SameOwners(Q, Q)
  BY DEF SameOwners
<1>18. Owned(w, Q) /\ Free(w, m)
  BY <1>1, <1>14, <1>15, <1>17, OwnedKept, FreeKept
<1> QED BY <1>15, <1>16, <1>18 DEF Good
-----------------------------------------------------------------------------
(* The inductive invariant: what is true between any two turns of the loops *)
(* of proc_pmt, proc_pat and teardown.  proc_pmt needs to know that the PIDs *)
(* still to come are in no list and have no other role; proc_pat and         *)
(* teardown, that the programs they have passed have no streams left, which  *)
(* is why no decryptor is alive when the map is wiped.                       *)

Shape ==
  /\ pc \in {"idle", "unref", "streams", "release", "down"}
  /\ cur \in Nat /\ dec0 \in Dec \cup {NULL}
  /\ pmt \in [ecm : EcmPid \cup {NONE, CLEAR}, es : Seq(Es)]
  /\ pat = NULL \/ pat \in Pats

\* The programs are those of a PAT.
Sized(P) == P = <<>> \/ \E new \in Pats : Len(P) = Len(new)

InPmt ==
  /\ pc \in {"unref", "streams"} => cur \in 1 .. Len(prog) /\ Roles(pmt) /\ Free(tab, pmt)
  /\ pc = "streams" => Unlisted(prog, cur, pmt)
  /\ pc \notin {"unref", "streams"} => dec0 = NULL

Released(P, n) == \A k \in 1 .. Len(P) : k < n => P[k].streams = <<>> /\ P[k].old = <<>>
InRelease == pc = "release" => cur \in 1 .. Len(prog) + 1 /\ Released(prog, cur)

IInv == Shape /\ Good(tab, dec0, prog) /\ Sized(prog) /\ InPmt /\ InRelease

\* What is left of a PMT after a stream of it.
LEMMA Rest ==
  ASSUME NEW m, Roles(m), m.es # <<>>, NEW n, n = [m EXCEPT !.es = Tail(@)]
  PROVE  /\ Roles(n) /\ Head(m.es) \in Es
         /\ PidOf(m, Head(m.es).pid) /\ EcmOf(m, Head(m.es).ecm)
         /\ \A q : PidOf(n, q) => PidOf(m, q) /\ q # Head(m.es).pid
         /\ \A q : EcmOf(n, q) => EcmOf(m, q)
<1>1. m \in [ecm : EcmPid \cup {NONE, CLEAR}, es : Seq(Es)] /\ m.es \in Seq(Es)
  BY DEF Roles
<1>2. n = [m EXCEPT !.es = Tail(m.es)]
  OBVIOUS
<1>3. /\ n \in [ecm : EcmPid \cup {NONE, CLEAR}, es : Seq(Es)]
      /\ n.es = Tail(m.es) /\ n.ecm = m.ecm
  <2>1. Tail(m.es) \in Seq(Es)
    BY <1>1, HeadTailProperties
  <2> QED BY <1>1, <1>2, <2>1
<1>4. /\ Len(m.es) \in Nat /\ Len(m.es) > 0 /\ Head(m.es) = m.es[1] /\ m.es[1] \in Es
      /\ Len(n.es) = Len(m.es) - 1
      /\ \A k \in 1 .. Len(n.es) : n.es[k] = m.es[k + 1] /\ k + 1 \in 1 .. Len(m.es)
  BY <1>1, <1>3, HeadTailProperties
<1>5. PidOf(m, Head(m.es).pid) /\ EcmOf(m, Head(m.es).ecm)
  BY <1>4 DEF PidOf, EcmOf
<1>6. ASSUME NEW q, PidOf(n, q)
      PROVE  PidOf(m, q) /\ q # Head(m.es).pid
  <2>1. PICK k \in 1 .. Len(n.es) : n.es[k].pid = q
    BY <1>6 DEF PidOf
  <2>2. m.es[k + 1].pid = q /\ k + 1 \in 1 .. Len(m.es) /\ k + 1 # 1 /\ 1 \in 1 .. Len(m.es)
    BY <1>4, <2>1
  <2> QED BY <1>4, <2>2 DEF PidOf, Roles
<1>7. ASSUME NEW q, EcmOf(n, q)
      PROVE  EcmOf(m, q)
  BY <1>3, <1>4, <1>7 DEF EcmOf
<1>8. \A j, k \in 1 .. Len(n.es) : n.es[j].pid = n.es[k].pid => j = k
  <2>1. ASSUME NEW j \in 1 .. Len(n.es), NEW k \in 1 .. Len(n.es), n.es[j].pid = n.es[k].pid
        PROVE  j = k
    <3>1. j + 1 = k + 1
      BY <1>4, <2>1 DEF Roles
    <3> QED BY <3>1
  <2> QED BY <2>1
<1>9. Roles(n)
  BY <1>3, <1>6, <1>7, <1>8 DEF Roles
<1> QED BY <1>4, <1>5, <1>6, <1>7, <1>9

\* The lists of proc_pmt when it saves the streams and starts new ones: M is when
\* they are saved and Q when they are started.
SaveSteps(P, M, Q, i, l) ==
  /\ Saved(P, M, i) /\ SameOwners(P, M)
  /\ Changed(M, Q, i, "streams") /\ Q[i]["streams"] = l /\ SameOwners(M, Q)
NewLists(r, l) == [pmt_pid |-> r.pmt_pid, streams |-> l, old |-> r.streams]

\* Saving the lists, one after the other.
LEMMA SaveBySteps ==
  ASSUME NEW P \in Seq(Program), NEW i \in 1 .. Len(P), NEW l \in Seq(Pid),
         NEW M, M = [P EXCEPT ![i] = NewLists(P[i], <<>>)],
         NEW Q, Q = [P EXCEPT ![i] = NewLists(P[i], l)]
  PROVE  SaveSteps(P, M, Q, i, l)
<1> DEFINE x == NewLists(P[i], <<>>)
           y == NewLists(P[i], l)
<1>1. /\ x \in Program /\ x.old = P[i].streams /\ x.streams = <<>> /\ x.pmt_pid = P[i].pmt_pid
      /\ y \in Program /\ y["streams"] = l /\ y["old"] = x["old"] /\ y.pmt_pid = P[i].pmt_pid
  BY ListsAre, ContainsEmpty DEF Program, NewLists
<1>2. M = [P EXCEPT ![i] = x] /\ Q = [P EXCEPT ![i] = y]
  OBVIOUS
<1> HIDE DEF x, y
<1>3. /\ M \in Seq(Program) /\ Len(M) = Len(P) /\ M[i] = x
      /\ \A k \in 1 .. Len(P) : k # i => M[k] = P[k]
  BY <1>1, <1>2, ExceptSeq
<1>4. /\ Q \in Seq(Program) /\ Len(Q) = Len(P) /\ Q[i] = y
      /\ \A k \in 1 .. Len(P) : k # i => Q[k] = P[k]
  BY <1>1, <1>2, ExceptSeq
<1>5. Saved(P, M, i)
  BY <1>1, <1>3 DEF Saved
<1>6. SameOwners(P, M) /\ SameOwners(M, Q)
  BY <1>1, <1>3, <1>4 DEF SameOwners
<1>7. Changed(M, Q, i, "streams")
  BY <1>1, <1>3, <1>4 DEF Changed
<1> QED BY <1>1, <1>4, <1>5, <1>6, <1>7 DEF SaveSteps

\* Saving the lists at once is saving them one after the other.
LEMMA SaveIs ==
  ASSUME NEW P \in Seq(Program), NEW i \in 1 .. Len(P), NEW l \in Seq(Pid),
         NEW Q, Q = [P EXCEPT ![i].old = P[i].streams, ![i].streams = l]
  PROVE  \E M : SaveSteps(P, M, Q, i, l)
<1> DEFINE x == P[i].streams
           r == [P[i] EXCEPT !.old = x]
<1>1. P[i] \in Program /\ x \in Seq(Pid)
  BY ListsAre
<1>2. [P[i] EXCEPT !.old = x, !.streams = l] = NewLists(P[i], l)
  <2>1. [P[i] EXCEPT !.old = x, !.streams = l] = [r EXCEPT !.streams = l]
    OBVIOUS
  <2> HIDE DEF x
  <2>2. r \in Program /\ r.old = x /\ r.pmt_pid = P[i].pmt_pid
    BY <1>1 DEF Program
  <2> HIDE DEF r
  <2>3. [r EXCEPT !.streams = l] = [pmt_pid |-> r.pmt_pid, streams |-> l, old |-> r.old]
    <3>1. r = [pmt_pid |-> r.pmt_pid, streams |-> r.streams, old |-> r.old]
      BY <2>2 DEF Program
    <3> QED BY <3>1
  <2> QED BY <2>1, <2>2, <2>3 DEF x, NewLists
<1>3. Q = [P EXCEPT ![i] = [P[i] EXCEPT !.old = x, !.streams = l]]
  OBVIOUS
<1>4. Q = [P EXCEPT ![i] = NewLists(P[i], l)]
  BY <1>2, <1>3
<1> DEFINE M == [P EXCEPT ![i] = NewLists(P[i], <<>>)]
<1>5. M = [P EXCEPT ![i] = NewLists(P[i], <<>>)]
  OBVIOUS
<1> HIDE DEF M
<1>6. SaveSteps(P, M, Q, i, l)
  BY <1>4, <1>5, SaveBySteps
<1> QED BY <1>6

-----------------------------------------------------------------------------
(* The steps of proc_pmt.                                                  *)

\* A PMT as the program receives it, with the tables as they are then.
LEMMA Received ==
  ASSUME IInv, NEW i \in 1 .. Len(prog), NEW p \in Pmts[Len(prog)], Conforming(i, p)
  PROVE  Roles(p) /\ Free(tab, p)
<1>1. p \in [ecm : EcmPid \cup {NONE, CLEAR}, es : Seq(Es)]
  <2>1. prog # <<>>
    OBVIOUS
  <2>2. PICK new \in Pats : Len(prog) = Len(new)
    BY <2>1 DEF IInv, Sized
  <2> QED BY <2>2, PidMapAssumption DEF PidMapAssumption
<1> DEFINE ecms == {p.ecm} \cup {p.es[k].ecm : k \in 1 .. Len(p.es)}
           pids == {p.es[k].pid : k \in 1 .. Len(p.es)}
<1>2. /\ \A j, k \in 1 .. Len(p.es) : p.es[j].pid = p.es[k].pid => j = k
      /\ ecms \cap pids = {}
      /\ \A q \in pids : tab.map[q].type \notin {"ECM", "EMM"}
      /\ \A q \in ecms \cap Pid : tab.map[q].type # "EMM"
  BY DEF Conforming
<1>3. \A q : (PidOf(p, q) <=> q \in pids) /\ (EcmOf(p, q) <=> q \in ecms)
  BY DEF PidOf, EcmOf
<1> HIDE DEF ecms, pids
<1>4. Roles(p)
  BY <1>1, <1>2, <1>3 DEF Roles
<1>5. Free(tab, p)
  BY <1>2, <1>3 DEF Free
<1> QED BY <1>4, <1>5

\* proc_pmt begins.
LEMMA StepBegin ==
  ASSUME IInv, NEW i \in 1 .. Len(prog), NEW p \in Pmts[Len(prog)], PmtBegin(i, p)
  PROVE  IInv'
<1>1. /\ pc = "idle" /\ pc' = "unref" /\ cur' = i /\ pmt' = p /\ prog' = prog /\ pat' = pat
      /\ dec0 = NULL /\ i \in Nat /\ Conforming(i, p)
  BY DEF IInv, InPmt, PmtBegin
<1>2. Roles(p) /\ Free(tab, p)
  BY <1>1, Received
<1>3. p \in [ecm : EcmPid \cup {NONE, CLEAR}, es : Seq(Es)]
  BY <1>2 DEF Roles
<1>4. Books(tab, NULL, NULL) /\ Counts(tab, prog) /\ Owned(tab, prog)
  BY <1>1 DEF IInv, Good
<1>5. Good(tab', dec0', prog) /\ Free(tab', p)
  <2>1. CASE dec0' = NULL /\ tab' = tab
    BY <1>2, <1>4, <2>1 DEF Good
  <2>2. CASE /\ p.ecm \in EcmPid
             /\ \E r \in set_decryptor(tab, p.ecm) :
                  tab' = [r[1] EXCEPT !.ref[r[2]] = @ + 1] /\ dec0' = r[2]
    <3> DEFINE q == p.ecm
    <3>1. PICK r \in set_decryptor(tab, q) : tab' = [r[1] EXCEPT !.ref[r[2]] = @ + 1] /\ dec0' = r[2]
      BY <2>2
    <3>2. q \in EcmPid /\ q \in Pid /\ EcmOf(p, q) /\ ~PidOf(p, q)
      BY <1>2, <2>2, Consts DEF EcmOf, Roles
    <3> HIDE DEF q
    <3>3. tab.map[q].type \notin {"EMM", "PMT"}
      BY <1>2, <1>4, <3>2, Consts DEF Free, Owned
    <3>4. /\ Books(r[1], NULL, r[2]) /\ r[2] \in r[1].live /\ Keeps(tab, r[1], {q})
          /\ r[1].map[q].ref = tab.map[q].ref /\ r[1].map[q].type = "ECM"
      BY <1>4, <3>2, <3>3, SetDecryptor
    <3> DEFINE u == r[1]
               d == r[2]
               w == tab'
    <3>5. w = [u EXCEPT !.ref[d] = @ + 1]
      BY <3>1
    <3>6. Books(u, NULL, d) /\ d \in u.live /\ dec0' = d
      BY <3>1, <3>4
    <3> HIDE DEF u, d, w
    <3>7. Books(w, d, NULL) /\ w.map = u.map
      BY <3>5, <3>6, Hold
    <3>8. /\ Keeps(tab, w, {q}) /\ w.map[q].ref = tab.map[q].ref /\ w.map[q].type = "ECM"
      BY <3>4, <3>7 DEF Keeps, u
    <3>9. Counts(w, prog)
      BY <1>4, <3>2, <3>3, <3>8, CountsKept
    <3>10. Owned(w, prog)
      <4>1. SameOwners(prog, prog)
        BY DEF SameOwners
      <4> QED BY <1>4, <3>2, <3>8, <4>1, OwnedKept
    <3>11. Free(w, p)
      BY <1>2, <3>2, <3>8, FreeKept
    <3> QED BY <3>6, <3>7, <3>9, <3>10, <3>11 DEF Good, w
  <2> QED BY <2>1, <2>2 DEF PmtBegin
<1>6. dec0' \in Dec \cup {NULL}
  BY <1>5 DEF Good, Books, Tables
<1> QED BY <1>1, <1>2, <1>3, <1>5, <1>6 DEF IInv, Shape, InPmt, InRelease

\* proc_pmt drops one stream of the PMT before the last.
LEMMA StepUnref ==
  ASSUME IInv, PmtUnref
  PROVE  IInv'
<1>1. /\ pc = "unref" /\ pc' = pc /\ cur' = cur /\ pmt' = pmt /\ dec0' = dec0 /\ pat' = pat
      /\ cur \in 1 .. Len(prog) /\ prog[cur].old # <<>>
      /\ Good(tab, dec0, prog) /\ Roles(pmt) /\ Free(tab, pmt)
  BY DEF IInv, InPmt, PmtUnref
<1>2. /\ prog \in Seq(Program) /\ prog[cur]["old"] = prog[cur].old /\ prog[cur].old \in Seq(Pid)
  BY <1>1, ListsAre DEF Good, Counts
<1> DEFINE l == Tail(prog[cur].old)
<1>3. l \in Seq(Pid)
  BY <1>1, <1>2, HeadTailProperties
<1>4. prog' = [prog EXCEPT ![cur].old = l]
  BY DEF PmtUnref
<1>5. l = Tail(prog[cur]["old"]) /\ tab' = unref_stream(tab, Head(prog[cur]["old"]))
  BY <1>2 DEF PmtUnref
<1> HIDE DEF l
<1>6. Changed(prog, prog', cur, "old") /\ prog'[cur]["old"] = l /\ SameOwners(prog, prog')
  <2> DEFINE P == prog
             Q == prog'
             i == cur
  <2>1. P \in Seq(Program) /\ i \in 1 .. Len(P) /\ Q = [P EXCEPT ![i].old = l]
    BY <1>1, <1>2, <1>4
  <2> HIDE DEF P, Q, i
  <2>2. Listed(P, Q, i, "old", l)
    BY <1>3, <2>1, SetOld
  <2> QED BY <2>2 DEF P, Q, i, Listed
<1>7. Good(tab', dec0, prog') /\ \A m : Free(tab, m) => Free(tab', m)
  <2>1. prog[cur]["old"] # <<>> /\ prog'[cur]["old"] = Tail(prog[cur]["old"])
    BY <1>1, <1>2, <1>5, <1>6
  <2> QED BY <1>1, <1>5, <1>6, <2>1, UnrefFirst
<1>8. Len(prog') = Len(prog)
  BY <1>6 DEF Changed
<1>9. Sized(prog')
  BY <1>2, <1>8 DEF IInv, Sized
<1> QED BY <1>1, <1>7, <1>8, <1>9 DEF IInv, Shape, InPmt, InRelease

\* The streams of the last PMT are put aside and a new list is started, with the
\* ECM PID of the program in it if there is one.
LEMMA Started ==
  ASSUME NEW t, NEW h, NEW P, Good(t, h, P), NEW i \in 1 .. Len(P), P[i].old = <<>>,
         NEW m, Roles(m), Free(t, m), NEW l, NEW u,
         \/ m.ecm \in EcmPid /\ l = <<m.ecm>> /\ u = AddEcmCount(t, <<>>, m.ecm)
         \/ l = <<>> /\ u = t,
         NEW M, NEW Q, SaveSteps(P, M, Q, i, l)
  PROVE  Good(u, h, Q) /\ Free(u, m) /\ Unlisted(Q, i, m) /\ Len(Q) = Len(P)
<1>1. /\ Books(t, h, NULL) /\ Counts(t, P) /\ Owned(t, P) /\ t \in Tables
      /\ Saved(P, M, i) /\ SameOwners(P, M)
      /\ Changed(M, Q, i, "streams") /\ Q[i]["streams"] = l /\ SameOwners(M, Q)
  BY DEF Good, Books, SaveSteps
<1>2. Counts(t, M)
  BY <1>1, Moved
<1>3. /\ Len(M) = Len(P) /\ Len(Q) = Len(P) /\ Q \in Seq(Program) /\ M \in Seq(Program)
      /\ M[i]["streams"] = <<>>
  BY <1>1, ListsAre DEF Saved, Changed
<1>4. SameOwners(P, Q)
  BY <1>1, <1>3 DEF SameOwners
<1>5. Unlisted(Q, i, m)
  <2>1. ASSUME NEW q, Contains(Q[i].streams, q)
        PROVE  ~PidOf(m, q)
    <3>1. Q[i].streams = l
      BY <1>1, <1>3, ListsAre
    <3>2. l = <<m.ecm>> /\ Contains(l, q)
      BY <2>1, <3>1, ContainsEmpty
    <3>3. q = m.ecm
      BY <3>2 DEF Contains
    <3> QED BY <3>3 DEF Roles, EcmOf
  <2> QED BY <2>1 DEF Unlisted
<1>6. CASE l = <<>> /\ u = t
  <2>1. Keeps(t, t, {})
    BY DEF Keeps
  <2>2. AnyEcm \in Pid /\ Keeps(t, t, {AnyEcm})
    BY <2>1, Consts DEF Keeps
  <2>3. Owned(t, Q)
    BY <1>1, <1>4, <2>2, OwnedKept
  <2>4. \A q : Contains(Q[i]["streams"], q) <=> Contains(M[i]["streams"], q)
    BY <1>1, <1>3, <1>6
  <2>5. M[i]["streams"] = Q[i]["streams"]
    BY <1>1, <1>3, <1>6
  <2>6. \A k \in 1 .. Len(Q), z \in {"streams", "old"} : Q[k][z] = M[k][z]
    BY <1>1, <1>3, <2>5 DEF Changed
  <2>7. \A q : In(Q, q) = In(M, q)
    BY <1>3, <2>6 DEF In
  <2>8. Counts(t, Q)
    BY <1>2, <1>3, <2>6, <2>7 DEF Counts, Counted
  <2> QED BY <1>1, <1>3, <1>5, <1>6, <2>3, <2>8 DEF Good
<1>7. CASE m.ecm \in EcmPid /\ l = <<m.ecm>> /\ u = AddEcmCount(t, <<>>, m.ecm)
  <2> DEFINE p == m.ecm
             n == Inc(t.map[p].ref)
  <2>1. p \in EcmPid /\ p \in Pid /\ EcmOf(m, p) /\ l = Append(<<>>, p)
    BY <1>7, Consts DEF EcmOf
  <2>2. u = [t EXCEPT !.map[p].ref = n]
    BY <1>7, ContainsEmpty DEF AddEcmCount
  <2>3. n = Inc(t.map[p].ref)
    OBVIOUS
  <2> HIDE DEF p
  <2>4. n \in 0 .. RefMod - 1
    BY <1>1, <2>1, AnEntry, Consts DEF Inc
  <2> HIDE DEF n
  <2>5. t.map[p].type # "EMM"
    BY <2>1 DEF Free
  <2>6. Recounted(t, u, h, NULL, p, n)
    BY <1>1, <2>1, <2>2, <2>4, Recount
  <2>7. /\ Books(u, h, NULL) /\ u.map[p].ref = n
        /\ u.map[p].type = t.map[p].type /\ u.map[p].target = t.map[p].target
        /\ \A q \in Pid \ {p} : u.map[q] = t.map[q]
    BY <2>6 DEF Recounted
  <2>8. Keeps(t, u, {p})
    BY <2>7 DEF Keeps
  <2>9. Raised(t, u, p)
    BY <2>3, <2>5, <2>7 DEF Raised
  <2>10. p \in EsPid \cup EcmPid /\ Longer(M, Q, i, "streams", p)
    BY <1>1, <1>3, <2>1, ContainsEmpty DEF Longer
  <2>11. Counts(u, Q)
    BY <1>1, <1>2, <2>9, <2>10, Grow
  <2>12. Owned(u, Q) /\ Free(u, m)
    BY <1>1, <1>4, <2>1, <2>7, <2>8, OwnedKept, FreeKept
  <2> QED BY <1>3, <1>5, <2>7, <2>11, <2>12 DEF Good
<1> QED BY <1>6, <1>7

\* proc_pmt makes the last PMT's list the old one.
LEMMA StepSave ==
  ASSUME IInv, PmtSave
  PROVE  IInv'
<1>1. /\ pc = "unref" /\ pc' = "streams" /\ cur' = cur /\ pmt' = pmt /\ dec0' = dec0 /\ pat' = pat
      /\ cur \in 1 .. Len(prog) /\ prog[cur].old = <<>>
      /\ Good(tab, dec0, prog) /\ Roles(pmt) /\ Free(tab, pmt)
  BY DEF IInv, InPmt, PmtSave
<1>2. /\ prog \in Seq(Program)
  BY <1>1 DEF Good, Counts
<1> DEFINE l == IF pmt.ecm \in EcmPid THEN <<pmt.ecm>> ELSE <<>>
           P == prog
           Q == prog'
           i == cur
<1>3. Q = [P EXCEPT ![i].old = P[i].streams, ![i].streams = l]
  BY DEF PmtSave
<1>4. \/ pmt.ecm \in EcmPid /\ l = <<pmt.ecm>> /\ tab' = AddEcmCount(tab, <<>>, pmt.ecm)
      \/ l = <<>> /\ tab' = tab
  BY DEF PmtSave
<1>5. l \in Seq(Pid) /\ P \in Seq(Program) /\ i \in 1 .. Len(P)
  BY <1>1, <1>2, Consts, ContainsEmpty
<1> HIDE DEF l, P, Q, i
<1>6. PICK M : SaveSteps(P, M, Q, i, l)
  BY <1>3, <1>5, SaveIs
<1>7. Good(tab', dec0, Q) /\ Free(tab', pmt) /\ Unlisted(Q, i, pmt) /\ Len(Q) = Len(P)
  <2>1. Good(tab, dec0, P) /\ P[i].old = <<>>
    BY <1>1 DEF P, i
  <2> QED BY <1>1, <1>4, <1>5, <1>6, <2>1, Started, SMTT(30)
<1>8. Sized(prog')
  BY <1>2, <1>5, <1>7 DEF IInv, Sized, P, Q
<1> QED BY <1>1, <1>7, <1>8 DEF IInv, Shape, InPmt, InRelease, P, Q, i

\* The list with the ECM PID of stream e, if e has one of its own.
WithEcm(list, e) == IF e.ecm \in EcmPid THEN AddEcm(list, e.ecm) ELSE list

\* The list with the ECM PID of a stream.
LEMMA WithEcmIs ==
  ASSUME NEW list \in Seq(Pid), NEW e \in Es
  PROVE  /\ WithEcm(list, e) \in Seq(Pid)
         /\ \A q : Contains(WithEcm(list, e), q) => Contains(list, q) \/ q = e.ecm
<1>1. CASE e.ecm \notin EcmPid \/ Contains(list, e.ecm)
  <2>1. WithEcm(list, e) = list
    BY <1>1 DEF WithEcm, AddEcm
  <2> QED BY <2>1
<1>2. CASE e.ecm \in EcmPid /\ ~Contains(list, e.ecm)
  <2>1. WithEcm(list, e) = Append(list, e.ecm) /\ e.ecm \in Pid
    BY <1>2, Consts DEF WithEcm, AddEcm
  <2> QED BY <2>1, ContainsAppend
<1> QED BY <1>1, <1>2

\* A turn of proc_pmt for stream e of PMT m: r are the tables and the decryptor
\* after the search, w the tables, Q the programs and n the rest of m after it.
Ready(t, h, P, i, m) ==
  /\ Good(t, h, P) /\ i \in 1 .. Len(P)
  /\ Roles(m) /\ Free(t, m) /\ Unlisted(P, i, m) /\ m.es # <<>>
Searched(t, P, i, e, r) ==
  \/ /\ e.ecm \in EcmPid
     /\ \E s \in set_decryptor(t, e.ecm) : r = <<AddEcmCount(s[1], P[i].streams, e.ecm), s[2]>>
  \/ e.ecm \notin EcmPid /\ r = <<t, NULL>>
Turn(h, P, i, m, e, r, w, Q, n) ==
  /\ w = bind_stream_decryptor(
           [r[1] EXCEPT !.map[e.pid].type = "OTHER", !.map[e.pid].ref = Inc(@)],
           e.pid, select_active_decryptor(h, r[2], e.ecm))
  /\ Q = [P EXCEPT ![i].streams = Append(WithEcm(P[i].streams, e), e.pid)]
  /\ n = [m EXCEPT !.es = Tail(@)]
Turned(h, P, i, w, Q, n) ==
  Good(w, h, Q) /\ Free(w, n) /\ Roles(n) /\ Unlisted(Q, i, n) /\ Len(Q) = Len(P)

\* One turn of proc_pmt over the streams, on tables and programs.
LEMMA OneStream ==
  ASSUME NEW t, NEW h, NEW P, NEW i, NEW m, Ready(t, h, P, i, m),
         NEW e, e = Head(m.es), NEW r, Searched(t, P, i, e, r),
         NEW w, NEW Q, NEW n, Turn(h, P, i, m, e, r, w, Q, n)
  PROVE  Turned(h, P, i, w, Q, n)
<1>0. /\ Good(t, h, P) /\ i \in 1 .. Len(P)
      /\ Roles(m) /\ Free(t, m) /\ Unlisted(P, i, m) /\ m.es # <<>>
      /\ n = [m EXCEPT !.es = Tail(@)]
  BY DEF Ready, Turn
<1>1. /\ Roles(n) /\ e \in Es /\ PidOf(m, e.pid) /\ EcmOf(m, e.ecm)
      /\ \A q : PidOf(n, q) => PidOf(m, q) /\ q # e.pid
      /\ \A q : EcmOf(n, q) => EcmOf(m, q)
  BY <1>0, Rest
<1>2. /\ P \in Seq(Program) /\ P[i]["streams"] = P[i].streams /\ P[i].streams \in Seq(Pid)
      /\ e.pid \in EsPid /\ e.pid \in Pid
  BY <1>0, <1>1, ListsAre, Consts DEF Good, Counts, Es
<1> DEFINE l == WithEcm(P[i].streams, e)
           L == Append(l, e.pid)
           R == [P EXCEPT ![i].streams = l]
<1>3. l \in Seq(Pid) /\ \A q : Contains(l, q) => Contains(P[i].streams, q) \/ q = e.ecm
  BY <1>1, <1>2, WithEcmIs
<1>6. /\ Q = [P EXCEPT ![i].streams = L] /\ R = [P EXCEPT ![i].streams = l]
      /\ L = Append(l, e.pid) /\ l = WithEcm(P[i].streams, e)
  BY DEF Turn
<1> HIDE DEF l, L, R
<1>4. ~Contains(l, e.pid)
  BY <1>0, <1>1, <1>3 DEF Unlisted, Roles
<1>5. L \in Seq(Pid) /\ \A q : Contains(L, q) <=> Contains(l, q) \/ q = e.pid
  BY <1>2, <1>3, <1>6, ContainsAppend
<1>7. Listed(P, Q, i, "streams", L)
  BY <1>0, <1>2, <1>5, <1>6, SetStreams
<1>8. Listed(P, R, i, "streams", l)
  BY <1>0, <1>2, <1>3, <1>6, SetStreams
<1>9. /\ Changed(R, Q, i, "streams") /\ Q[i]["streams"] = Append(R[i]["streams"], e.pid)
      /\ SameOwners(R, Q) /\ i \in 1 .. Len(R) /\ Len(Q) = Len(P)
  <2>1. /\ Changed(P, Q, i, "streams") /\ Q[i]["streams"] = L /\ SameOwners(P, Q)
        /\ Changed(P, R, i, "streams") /\ R[i]["streams"] = l /\ SameOwners(P, R)
    BY <1>7, <1>8 DEF Listed
  <2>2. Changed(R, Q, i, "streams") /\ i \in 1 .. Len(R) /\ Len(Q) = Len(P)
    BY <2>1 DEF Changed
  <2>3. SameOwners(R, Q)
    BY <2>1 DEF SameOwners
  <2> QED BY <1>6, <2>1, <2>2, <2>3
<1>14. R[i]["streams"] = R[i].streams /\ Q[i]["streams"] = Q[i].streams
  BY <1>9, <1>8, ListsAre DEF Changed, Listed
<1>10. Found(r[1], h, r[2], R, m, e)
  <2>1. CASE /\ e.ecm \in EcmPid
             /\ \E s \in set_decryptor(t, e.ecm) :
                  r = <<AddEcmCount(s[1], P[i].streams, e.ecm), s[2]>>
    <3>1. PICK s \in set_decryptor(t, e.ecm) : r = <<AddEcmCount(s[1], P[i].streams, e.ecm), s[2]>>
      BY <2>1
    <3>2. R = [P EXCEPT ![i].streams = AddEcm(P[i].streams, e.ecm)]
      BY <1>6, <2>1 DEF WithEcm
    <3>3. Found(AddEcmCount(s[1], P[i].streams, e.ecm), h, s[2], R, m, e)
      BY <1>0, <1>1, <2>1, <3>2, FindDecryptor
    <3> QED BY <3>1, <3>3
  <2>2. CASE e.ecm \notin EcmPid /\ r = <<t, NULL>>
    <3>1. R = P
      <4>1. [P[i] EXCEPT !.streams = P[i].streams] = P[i]
        BY <1>0, <1>2, ListsAre DEF Program
      <4>2. R = [P EXCEPT ![i] = P[i]]
        BY <1>6, <2>2, <4>1 DEF WithEcm
      <4> QED BY <1>2, <4>2
    <3> QED BY <1>0, <2>2, <3>1 DEF Found, Good
  <2> QED BY <2>1, <2>2 DEF Searched
<1>11. Good(w, h, Q) /\ Free(w, m)
  <2> DEFINE t1 == r[1]
             j == r[2]
  <2>1. /\ Found(t1, h, j, R, m, e)
        /\ w = bind_stream_decryptor(
                 [t1 EXCEPT !.map[e.pid].type = "OTHER", !.map[e.pid].ref = Inc(@)],
                 e.pid, select_active_decryptor(h, j, e.ecm))
    BY <1>10 DEF Turn
  <2> HIDE DEF t1, j
  <2>2. ~Contains(R[i].streams, e.pid)
    BY <1>4, <1>8, <1>14 DEF Listed
  <2> QED BY <1>1, <1>9, <2>1, <2>2, BindStream
<1>12. Free(w, n)
  BY <1>1, <1>11 DEF Free
<1>13. Unlisted(Q, i, n)
  <2>1. ASSUME NEW q, PidOf(n, q)
        PROVE  ~Contains(Q[i].streams, q)
    <3>1. PidOf(m, q) /\ q # e.pid
      BY <1>1, <2>1
    <3>2. ~Contains(l, q)
      BY <1>0, <1>1, <1>3, <3>1 DEF Unlisted, Roles
    <3> QED BY <1>5, <1>7, <1>14, <3>1, <3>2 DEF Listed
  <2> QED BY <2>1 DEF Unlisted
<1> QED BY <1>1, <1>9, <1>11, <1>12, <1>13 DEF Turned

\* One turn of proc_pmt over the streams.
LEMMA StepStream ==
  ASSUME IInv, PmtStream
  PROVE  IInv'
<1>1. /\ pc = "streams" /\ pc' = pc /\ cur' = cur /\ dec0' = dec0 /\ pat' = pat
      /\ cur \in 1 .. Len(prog) /\ pmt.es # <<>>
      /\ Good(tab, dec0, prog) /\ Roles(pmt) /\ Free(tab, pmt) /\ Unlisted(prog, cur, pmt)
  BY DEF IInv, InPmt, PmtStream
<1> DEFINE e == Head(pmt.es)
           i == cur
           P == prog
           Q == prog'
           m == pmt
           n == pmt'
           w == tab'
           found == IF e.ecm \in EcmPid
                      THEN {<<AddEcmCount(s[1], P[i].streams, e.ecm), s[2]>> :
                              s \in set_decryptor(tab, e.ecm)}
                      ELSE {<<tab, NULL>>}
<1>2. PICK r \in found : Turn(dec0, P, i, m, e, r, w, Q, n)
  BY DEF PmtStream, Turn, WithEcm
<1>3. Searched(tab, P, i, e, r)
  BY DEF Searched
<1>4. e = Head(m.es)
  OBVIOUS
<1>5. i \in 1 .. Len(P)
  BY <1>1
<1>6. Ready(tab, dec0, P, i, m)
  BY <1>1 DEF Ready
<1> HIDE DEF e, i, P, Q, m, n, w, found
<1>7. Good(w, dec0, Q) /\ Free(w, n) /\ Roles(n) /\ Unlisted(Q, i, n) /\ Len(Q) = Len(P)
  <2>1. Turned(dec0, P, i, w, Q, n)
    BY <1>2, <1>3, <1>4, <1>6, OneStream
  <2> QED BY <2>1 DEF Turned
<1>8. n \in [ecm : EcmPid \cup {NONE, CLEAR}, es : Seq(Es)]
  BY <1>7 DEF Roles
<1>9. Sized(prog')
  BY <1>5, <1>7 DEF IInv, Sized, P, Q
<1> QED BY <1>1, <1>5, <1>7, <1>8, <1>9 DEF IInv, Shape, InPmt, InRelease, P, Q, i, n, w

\* proc_pmt gives its own decryptor back.
LEMMA StepLast ==
  ASSUME IInv, PmtLast
  PROVE  IInv'
<1>1. /\ pc = "streams" /\ pc' = "idle" /\ cur' = 0 /\ pmt' = NoPmt /\ dec0' = NULL
      /\ prog' = prog /\ pat' = pat
      /\ tab' = (IF dec0 # NULL THEN Drop(tab, dec0) ELSE tab)
      /\ Books(tab, dec0, NULL) /\ Counts(tab, prog) /\ Owned(tab, prog)
      /\ dec0 \in Dec \cup {NULL}
  BY DEF IInv, Shape, Good, PmtLast
<1>2. Books(tab', NULL, NULL) /\ Keeps(tab, tab', {})
  <2>1. CASE dec0 = NULL
    BY <1>1, <2>1 DEF Keeps
  <2>2. CASE dec0 # NULL
    BY <1>1, <2>2, LetGo
  <2> QED BY <2>1, <2>2
<1> DEFINE w == tab'
<1>3. Books(w, NULL, NULL) /\ Keeps(tab, w, {})
  BY <1>2
<1> HIDE DEF w
<1>4. Counts(w, prog)
  BY <1>1, <1>3 DEF Counts, Counted, Keeps
<1>5. Owned(w, prog)
  BY <1>1, <1>3 DEF Owned, Keeps
<1>6. NoPmt \in [ecm : EcmPid \cup {NONE, CLEAR}, es : Seq(Es)]
  BY DEF NoPmt
<1> QED BY <1>1, <1>3, <1>4, <1>5, <1>6 DEF IInv, Shape, Good, InPmt, InRelease, w

-----------------------------------------------------------------------------
(* The steps of proc_pat, teardown and proc_cat.                           *)

\* A new PAT or the teardown begins with the release of all programs.
LEMMA StepReleaseBegin ==
  ASSUME IInv, NEW new \in Pats \cup {NULL}, ReleaseBegin(new)
  PROVE  IInv'
<1>1. Len(prog) \in Nat
  BY DEF IInv, Good, Counts
<1>2. Released(prog, 1)
  BY <1>1 DEF Released
<1> QED BY <1>1, <1>2 DEF ReleaseBegin, IInv, Shape, InPmt, InRelease

\* The programs passed stay without streams when a list of a later one changes.
LEMMA ReleasedKept ==
  ASSUME NEW P \in Seq(Program), NEW i, NEW w, NEW Q, Changed(P, Q, i, w), Released(P, i)
  PROVE  Released(Q, i)
<1>1. ASSUME NEW k \in 1 .. Len(Q), k < i
      PROVE  Q[k].streams = <<>> /\ Q[k].old = <<>>
  <2>1. Q \in Seq(Program) /\ k \in 1 .. Len(P) /\ k # i
    BY <1>1 DEF Changed
  <2>2. /\ Q[k]["streams"] = Q[k].streams /\ Q[k]["old"] = Q[k].old
        /\ P[k]["streams"] = P[k].streams /\ P[k]["old"] = P[k].old
    BY <1>1, <2>1, ListsAre
  <2>3. Q[k]["streams"] = P[k]["streams"] /\ Q[k]["old"] = P[k]["old"]
    BY <2>1 DEF Changed
  <2> QED BY <1>1, <2>1, <2>2, <2>3 DEF Released
<1> QED BY <1>1 DEF Released

\* A turn of release_program for one of the two lists.
LEMMA OneReleased ==
  ASSUME NEW t, NEW P, Good(t, NULL, P), NEW i \in 1 .. Len(P), Released(P, i),
         NEW w \in {"streams", "old"}, P[i][w] # <<>>,
         NEW Q, Listed(P, Q, i, w, Tail(P[i][w])), NEW u, u = unref_stream(t, Head(P[i][w]))
  PROVE  Good(u, NULL, Q) /\ Released(Q, i) /\ Len(Q) = Len(P)
<1>1. Changed(P, Q, i, w) /\ Q[i][w] = Tail(P[i][w]) /\ SameOwners(P, Q) /\ P \in Seq(Program)
  BY DEF Listed, Good, Counts
<1>2. Good(u, NULL, Q)
  BY <1>1, UnrefFirst
<1>3. Released(Q, i)
  BY <1>1, ReleasedKept
<1> QED BY <1>1, <1>2, <1>3 DEF Changed

\* A program being released drops a stream.
LEMMA StepReleaseStream ==
  ASSUME IInv, ReleaseStream
  PROVE  IInv'
<1>1. /\ pc = "release" /\ pc' = pc /\ cur' = cur /\ pmt' = pmt /\ dec0' = dec0 /\ pat' = pat
      /\ cur \in 1 .. Len(prog) /\ dec0 = NULL /\ Released(prog, cur)
      /\ Good(tab, NULL, prog) /\ prog \in Seq(Program)
  BY DEF IInv, Good, Counts, InPmt, InRelease, ReleaseStream
<1> DEFINE P == prog
           Q == prog'
           i == cur
           u == tab'
           t == tab
<1>2. /\ P \in Seq(Program) /\ i \in 1 .. Len(P) /\ Good(t, NULL, P) /\ Released(P, i)
      /\ P[i]["streams"] = P[i].streams /\ P[i]["old"] = P[i].old
      /\ P[i].streams \in Seq(Pid) /\ P[i].old \in Seq(Pid)
  BY <1>1, ListsAre
<1>3. \/ P[i].old # <<>> /\ u = unref_stream(t, Head(P[i].old)) /\ Q = [P EXCEPT ![i].old = Tail(@)]
      \/ /\ P[i].streams # <<>> /\ u = unref_stream(t, Head(P[i].streams))
         /\ Q = [P EXCEPT ![i].streams = Tail(@)]
  BY DEF ReleaseStream
<1> HIDE DEF P, Q, i, u, t
<1>4. Good(u, NULL, Q) /\ Released(Q, i) /\ Len(Q) = Len(P)
  <2>1. CASE P[i].old # <<>> /\ u = unref_stream(t, Head(P[i].old)) /\ Q = [P EXCEPT ![i].old = Tail(@)]
    <3> DEFINE l == Tail(P[i].old)
    <3>1. l \in Seq(Pid) /\ Q = [P EXCEPT ![i].old = l]
      BY <1>2, <2>1, HeadTailProperties
    <3>2. l = Tail(P[i]["old"])
      BY <1>2
    <3> HIDE DEF l
    <3>3. Listed(P, Q, i, "old", l)
      BY <1>2, <3>1, SetOld
    <3> QED BY <1>2, <2>1, <3>2, <3>3, OneReleased
  <2>2. CASE /\ P[i].streams # <<>> /\ u = unref_stream(t, Head(P[i].streams))
             /\ Q = [P EXCEPT ![i].streams = Tail(@)]
    <3> DEFINE l == Tail(P[i].streams)
    <3>1. l \in Seq(Pid) /\ Q = [P EXCEPT ![i].streams = l]
      BY <1>2, <2>2, HeadTailProperties
    <3>2. l = Tail(P[i]["streams"])
      BY <1>2
    <3> HIDE DEF l
    <3>3. Listed(P, Q, i, "streams", l)
      BY <1>2, <3>1, SetStreams
    <3> QED BY <1>2, <2>2, <3>2, <3>3, OneReleased
  <2> QED BY <1>3, <2>1, <2>2
<1>5. Sized(prog')
  BY <1>2, <1>4 DEF IInv, Sized, P, Q
<1> QED BY <1>1, <1>4, <1>5 DEF IInv, Shape, InPmt, InRelease, P, Q, i, u

\* The entry of a PID that is in no list is cleared or given to EMMs.
LEMMA Overwrite ==
  ASSUME NEW t, NEW P, Good(t, NULL, P), NEW p \in Pid, In(P, p) = {},
         NEW v \in Entry, v.target = NULL,
         \/ v.type = "EMM"
         \/ v.type = "UNKNOWN" /\ p \notin EsPid \cup EcmPid,
         NEW u, u = [t EXCEPT !.map[p] = v]
  PROVE  Good(u, NULL, P)
<1>1. Books(t, NULL, NULL) /\ Counts(t, P) /\ Owned(t, P) /\ t \in Tables
  BY DEF Good, Books
<1>2. t.map[p].type # "OTHER"
  BY <1>1 DEF Counts, Counted
<1>3. Release(t, p) = t
  BY <1>2 DEF Release
<1>4. SetTo(Release(t, p), u, p, v)
  BY <1>1, <1>3, SetIs
<1>5. Replaceable(t, NULL, NULL, p, v)
  BY <1>1 DEF Replaceable, Unused
<1>6. Replaced(t, NULL, NULL, p, v, u)
  BY <1>4, <1>5, Unuse
<1>7. Books(u, NULL, NULL) /\ Keeps(t, u, {p}) /\ u.map[p] = v
  BY <1>6 DEF Replaced
<1>8. Counts(u, P)
  BY <1>1, <1>7 DEF Counts, Counted, Keeps
<1>9. SameOwners(P, P)
  BY DEF SameOwners
<1>10. Owned(u, P)
  BY <1>1, <1>7, <1>9, OwnedKept
<1> QED BY <1>7, <1>8, <1>10 DEF Good

\* A program being released is done.
LEMMA StepReleaseProgram ==
  ASSUME IInv, ReleaseProgram
  PROVE  IInv'
<1>1. /\ pc = "release" /\ pc' = pc /\ cur' = cur + 1 /\ pmt' = pmt /\ dec0' = dec0 /\ pat' = pat
      /\ prog' = prog /\ cur \in 1 .. Len(prog) /\ dec0 = NULL /\ Released(prog, cur)
      /\ Good(tab, NULL, prog) /\ prog \in Seq(Program) /\ Len(prog) \in Nat
      /\ prog[cur].old = <<>> /\ prog[cur].streams = <<>>
  BY DEF IInv, Good, Counts, InPmt, InRelease, ReleaseProgram
<1> DEFINE p == prog[cur].pmt_pid
           u == tab'
<1>2. u = [tab EXCEPT !.map[p] = Blank]
  BY DEF ReleaseProgram
<1>3. p \in PmtPid /\ p \in Pid /\ p \notin EsPid \cup EcmPid
  <2>1. prog[cur] \in Program
    BY <1>1
  <2> QED BY <2>1, Consts DEF Program
<1> HIDE DEF p, u
<1>4. In(prog, p) = {}
  BY <1>1, <1>3 DEF Good, Counts, Counted
<1>5. Blank \in Entry /\ Blank.target = NULL /\ Blank.type = "UNKNOWN"
  BY Consts DEF Blank, Entry, Type
<1>6. Good(u, NULL, prog)
  BY <1>1, <1>2, <1>3, <1>4, <1>5, Overwrite
<1>7. Released(prog, cur + 1) /\ cur + 1 \in 1 .. Len(prog) + 1
  BY <1>1 DEF Released
<1> QED BY <1>1, <1>6, <1>7 DEF IInv, Shape, InPmt, InRelease, u

\* proc_cat names a PID for EMMs.
LEMMA StepCat ==
  ASSUME IInv, NEW q \in EmmPid, ProcCat(q)
  PROVE  IInv'
<1>1. /\ pc = "idle" /\ dec0 = NULL /\ Good(tab, NULL, prog) /\ prog \in Seq(Program) /\ q \in Pid
      /\ \A i \in 1 .. Len(prog) : ~Contains(prog[i].streams \o prog[i].old, q)
  BY Consts DEF IInv, Good, Counts, InPmt, ProcCat
<1>2. In(prog, q) = {}
  <2>1. ASSUME NEW k \in 1 .. Len(prog), NEW z \in {"streams", "old"}
        PROVE  ~Contains(prog[k][z], q)
    <3> DEFINE a == prog[k].streams
               b == prog[k].old
    <3>1. a \in Seq(Pid) /\ b \in Seq(Pid) /\ (prog[k][z] = a \/ prog[k][z] = b) /\ ~Contains(a \o b, q)
      BY <1>1, ListsAre
    <3> HIDE DEF a, b
    <3>2. /\ Len(a) \in Nat /\ Len(b) \in Nat /\ Len(a \o b) = Len(a) + Len(b)
          /\ \A j \in 1 .. Len(a) : (a \o b)[j] = a[j]
          /\ \A j \in 1 .. Len(b) : (a \o b)[Len(a) + j] = b[j]
      BY <3>1
    <3>3. \A j \in 1 .. Len(b) : Len(a) + j \in 1 .. Len(a \o b)
      BY <3>2
    <3>4. \A j \in 1 .. Len(a) : j \in 1 .. Len(a \o b)
      BY <3>2
    <3> QED BY <3>1, <3>2, <3>3, <3>4 DEF Contains
  <2> QED BY <2>1 DEF In
<1> DEFINE v == [ref |-> 1, type |-> "EMM", target |-> NULL]
           u == tab'
<1>3. u = [tab EXCEPT !.map[q] = v]
  <2>1. tab.map[q].type # "OTHER"
    BY <1>1, <1>2 DEF Good, Counts, Counted
  <2> QED BY <2>1 DEF ProcCat
<1>4. v \in Entry /\ v.target = NULL /\ v.type = "EMM"
  BY Consts DEF Entry, Type
<1> HIDE DEF v, u
<1>5. Good(u, NULL, prog)
  BY <1>1, <1>2, <1>3, <1>4, Overwrite
<1> QED BY <1>1, <1>5 DEF IInv, Shape, InPmt, InRelease, ProcCat, u

\* When all programs are released, no decryptor is alive: the map can be wiped.
LEMMA NobodyLeft ==
  ASSUME IInv, pc = "release", cur > Len(prog)
  PROVE  tab.live = {} /\ tab \in Tables /\ dec0 = NULL
<1>1. /\ dec0 = NULL /\ Books(tab, NULL, NULL) /\ Counts(tab, prog) /\ tab \in Tables
      /\ prog \in Seq(Program) /\ Released(prog, cur) /\ cur \in 1 .. Len(prog) + 1
      /\ tab.live \subseteq Dec
  BY DEF IInv, Good, Books, Counts, InPmt, InRelease, Tables
<1>2. ASSUME NEW p \in Pid
      PROVE  tab.map[p].type # "OTHER"
  <2>1. ASSUME NEW k \in 1 .. Len(prog), NEW z \in {"streams", "old"}
        PROVE  ~Contains(prog[k][z], p)
    <3>1. k < cur
      BY <1>1
    <3>2. prog[k].streams = <<>> /\ prog[k].old = <<>>
      BY <1>1, <3>1 DEF Released
    <3>3. prog[k][z] = <<>>
      BY <1>1, <3>2, ListsAre
    <3> QED BY <3>3, ContainsEmpty
  <2>2. In(prog, p) = {}
    BY <2>1 DEF In
  <2> QED BY <1>1, <2>2 DEF Counts, Counted
<1>3. ASSUME NEW d \in tab.live
      PROVE  FALSE
  <2>1. UsersOf(tab, d) = {}
    BY <1>2 DEF UsersOf, Uses
  <2>2. Cardinality(UsersOf(tab, d)) = 0
    BY <2>1, FS_EmptySet
  <2>3. d # NULL
    BY <1>1, Consts
  <2>4. One(d = NULL) = 0
    BY <2>3 DEF One
  <2>5. tab.ref[d] = 0 /\ tab.ref[d] > 0
    BY <1>1, <2>2, <2>3, <2>4 DEF Books
  <2> QED BY <2>5
<1> QED BY <1>1, <1>3

\* The map and the programs of a PAT: all that is left of the tables before are
\* the fields of decryptors that are not alive.
LEMMA SetUp ==
  ASSUME NEW t \in Tables, t.live = {}, NEW f \in [Pid -> Entry],
         NEW P \in Seq(Program), 2 * Len(P) < RefMod,
         \A k \in 1 .. Len(P) : P[k].streams = <<>> /\ P[k].old = <<>>,
         \A p \in Pid : \/ f[p] = Blank
                        \/ /\ p \in PmtPid /\ f[p].type = "PMT"
                           /\ f[p].target \in 1 .. Len(P) /\ P[f[p].target].pmt_pid = p,
         NEW u, u = [t EXCEPT !.map = f]
  PROVE  Good(u, NULL, P)
<1>1. /\ u \in Tables /\ u.map = f /\ u.live = {}
  BY DEF Tables
<1>2. ASSUME NEW p \in Pid
      PROVE  \/ f[p].type = "UNKNOWN" /\ f[p].target = NULL /\ f[p].ref = 0
             \/ /\ p \in PmtPid /\ f[p].type = "PMT" /\ p \notin EsPid \cup EcmPid
                /\ f[p].target \in 1 .. Len(P) /\ P[f[p].target].pmt_pid = p
  BY Consts DEF Blank
<1>3. Books(u, NULL, NULL)
  BY <1>1, <1>2 DEF Books, Targets, Target
<1>4. Owned(u, P)
  BY <1>1, <1>2 DEF Owned
<1>5. \A k \in 1 .. Len(P), z \in {"streams", "old"} : P[k][z] = <<>>
  BY ListsAre
<1>6. \A p : In(P, p) = {}
  BY <1>5, ContainsEmpty DEF In
<1>7. \A k \in 1 .. Len(P), z \in {"streams", "old"} : Once(P[k][z])
  BY <1>5, ContainsEmpty
<1>8. ASSUME NEW p \in Pid
      PROVE  Counted(u, P, p)
  <2>1. In(P, p) = {} /\ Cardinality(In(P, p)) = 0
    BY <1>6, FS_EmptySet
  <2> QED BY <1>1, <1>2, <2>1 DEF Counted
<1>9. Counts(u, P)
  BY <1>7, <1>8 DEF Counts
<1> QED BY <1>3, <1>4, <1>9 DEF Good

\* proc_pat makes the new programs.
LEMMA StepBuild ==
  ASSUME IInv, PatBuild
  PROVE  IInv'
<1>1. /\ pc = "release" /\ cur > Len(prog) /\ pat \in Pats /\ pc' = "idle" /\ cur' = 0 /\ pat' = NULL
      /\ pmt' = pmt /\ dec0' = dec0
  BY DEF IInv, Shape, PatBuild
<1>2. tab.live = {} /\ tab \in Tables /\ dec0 = NULL
  BY <1>1, NobodyLeft
<1>3. pat \in Seq(PmtPid) /\ 2 * Len(pat) < RefMod /\ Len(pat) \in Nat
  BY <1>1, PidMapAssumption DEF PidMapAssumption
<1> DEFINE Owner(p) == CHOOSE i \in PmtOwner(p) : TRUE
           f == [p \in Pid |-> IF p \in PmtPid /\ PmtOwner(p) # {}
                                 THEN [ref |-> 0, type |-> "PMT", target |-> Owner(p)] ELSE Blank]
           P == [i \in 1 .. Len(pat) |-> [pmt_pid |-> pat[i], streams |-> <<>>, old |-> <<>>]]
           u == tab'
<1>4. u = [tab EXCEPT !.map = f] /\ prog' = P
  BY DEF PatBuild
<1>5. \A p : PmtOwner(p) # {} => Owner(p) \in 1 .. Len(pat) /\ pat[Owner(p)] = p
  BY DEF PmtOwner
<1>6. /\ P \in Seq(Program) /\ Len(P) = Len(pat)
      /\ \A k \in 1 .. Len(P) : P[k].streams = <<>> /\ P[k].old = <<>> /\ P[k].pmt_pid = pat[k]
  BY <1>3, ContainsEmpty DEF Program
<1> HIDE DEF Owner
<1>7. f \in [Pid -> Entry]
  BY <1>3, <1>5, Consts DEF Entry, Blank, Type
<1>8. \A p \in Pid : \/ f[p] = Blank
                     \/ /\ p \in PmtPid /\ f[p].type = "PMT"
                        /\ f[p].target \in 1 .. Len(P) /\ P[f[p].target].pmt_pid = p
  <2>1. ASSUME NEW p \in Pid, f[p] # Blank
        PROVE  /\ p \in PmtPid /\ f[p].type = "PMT"
               /\ f[p].target \in 1 .. Len(P) /\ P[f[p].target].pmt_pid = p
    <3>1. p \in PmtPid /\ PmtOwner(p) # {} /\ f[p] = [ref |-> 0, type |-> "PMT", target |-> Owner(p)]
      BY <2>1
    <3>2. f[p].type = "PMT" /\ f[p].target = Owner(p)
      BY <3>1
    <3> QED BY <1>5, <1>6, <3>1, <3>2
  <2> QED BY <2>1
<1> HIDE DEF f, P, u
<1>9. Good(u, NULL, P)
  BY <1>2, <1>3, <1>4, <1>6, <1>7, <1>8, SetUp
<1>10. Sized(P)
  BY <1>1, <1>6 DEF Sized
<1> QED BY <1>1, <1>2, <1>4, <1>9, <1>10 DEF IInv, Shape, InPmt, InRelease, u

\* The descrambler is torn down.
LEMMA StepTeardown ==
  ASSUME IInv, Teardown
  PROVE  IInv'
<1>1. /\ pc = "release" /\ cur > Len(prog) /\ pat = NULL /\ pc' = "down" /\ cur' = 0 /\ pat' = pat
      /\ pmt' = pmt /\ dec0' = dec0 /\ prog' = <<>>
      /\ tab' = [tab EXCEPT !.live = {}, !.map = [p \in Pid |-> Blank]]
  BY DEF Teardown
<1>2. tab.live = {} /\ tab \in Tables /\ dec0 = NULL
  BY <1>1, NobodyLeft
<1> DEFINE f == [p \in Pid |-> Blank]
           u == tab'
<1>3. u = [tab EXCEPT !.map = f]
  BY <1>1, <1>2 DEF Tables
<1>4. f \in [Pid -> Entry] /\ \A p \in Pid : f[p] = Blank
  BY Consts DEF Entry, Blank, Type
<1>5. <<>> \in Seq(Program) /\ 2 * Len(<<>>) < RefMod /\ Len(<<>>) = 0
  BY Consts
<1> HIDE DEF f, u
<1>6. Good(u, NULL, <<>>)
  <2> DEFINE P == <<>>
  <2>1. P \in Seq(Program) /\ 2 * Len(P) < RefMod
    BY <1>5
  <2>2. \A k \in 1 .. Len(P) : P[k].streams = <<>> /\ P[k].old = <<>>
    BY <1>5
  <2>3. \A p \in Pid : \/ f[p] = Blank
                       \/ /\ p \in PmtPid /\ f[p].type = "PMT"
                          /\ f[p].target \in 1 .. Len(P) /\ P[f[p].target].pmt_pid = p
    BY <1>4
  <2> HIDE DEF P
  <2>4. Good(u, NULL, P)
    BY <1>2, <1>3, <1>4, <2>1, <2>2, <2>3, SetUp
  <2> QED BY <2>4 DEF P
<1>7. Sized(<<>>)
  BY DEF Sized
<1> QED BY <1>1, <1>2, <1>6, <1>7 DEF IInv, Shape, InPmt, InRelease, u

\* The first state.
LEMMA Start ==
  ASSUME Init
  PROVE  IInv
<1> DEFINE f == [p \in Pid |-> Blank]
           t == tab
<1>1. /\ t.map = f /\ t.live = {} /\ t \in Tables /\ prog = <<>> /\ pc = "idle" /\ cur = 0
      /\ pmt = NoPmt /\ dec0 = NULL /\ pat = NULL
  BY Consts DEF Init, Tables, Entry, Blank, Type
<1>2. t = [t EXCEPT !.map = f]
  BY <1>1 DEF Tables
<1>3. f \in [Pid -> Entry] /\ \A p \in Pid : f[p] = Blank
  BY Consts DEF Entry, Blank, Type
<1>4. <<>> \in Seq(Program) /\ 2 * Len(<<>>) < RefMod /\ Len(<<>>) = 0
  BY Consts
<1> HIDE DEF f, t
<1>5. Good(t, NULL, <<>>)
  <2> DEFINE P == <<>>
  <2>1. P \in Seq(Program) /\ 2 * Len(P) < RefMod
    BY <1>4
  <2>2. \A k \in 1 .. Len(P) : P[k].streams = <<>> /\ P[k].old = <<>>
    BY <1>4
  <2>3. \A p \in Pid : \/ f[p] = Blank
                       \/ /\ p \in PmtPid /\ f[p].type = "PMT"
                          /\ f[p].target \in 1 .. Len(P) /\ P[f[p].target].pmt_pid = p
    BY <1>3
  <2> HIDE DEF P
  <2>4. Good(t, NULL, P)
    BY <1>1, <1>2, <1>3, <2>1, <2>2, <2>3, SetUp
  <2> QED BY <2>4 DEF P
<1>6. Sized(<<>>)
  BY DEF Sized
<1>7. NoPmt \in [ecm : EcmPid \cup {NONE, CLEAR}, es : Seq(Es)]
  BY DEF NoPmt
<1> QED BY <1>1, <1>5, <1>6, <1>7 DEF IInv, Shape, InPmt, InRelease, t

-----------------------------------------------------------------------------
(* Every step, and what follows from the invariant.                        *)

\* Every step.
LEMMA Step ==
  ASSUME IInv, [Next]_vars
  PROVE  IInv'
<1>1. CASE UNCHANGED vars
  <2>1. tab' = tab /\ prog' = prog /\ pc' = pc /\ cur' = cur /\ pmt' = pmt /\ dec0' = dec0 /\ pat' = pat
    BY <1>1 DEF vars
  <2> QED BY <2>1 DEF IInv, Shape, InPmt, InRelease
<1>2. CASE Next
  <2>1. ASSUME NEW i \in 1 .. Len(prog), NEW p \in Pmts[Len(prog)], PmtBegin(i, p)
        PROVE  IInv'
    BY <2>1, StepBegin
  <2>2. CASE PmtUnref
    BY <2>2, StepUnref
  <2>3. CASE PmtSave
    BY <2>3, StepSave
  <2>4. CASE PmtStream
    BY <2>4, StepStream
  <2>5. CASE PmtLast
    BY <2>5, StepLast
  <2>6. ASSUME NEW new \in Pats \cup {NULL}, ReleaseBegin(new)
        PROVE  IInv'
    BY <2>6, StepReleaseBegin
  <2>7. CASE ReleaseStream
    BY <2>7, StepReleaseStream
  <2>8. CASE ReleaseProgram
    BY <2>8, StepReleaseProgram
  <2>9. CASE PatBuild
    BY <2>9, StepBuild
  <2>10. CASE Teardown
    BY <2>10, StepTeardown
  <2>11. ASSUME NEW q \in EmmPid, ProcCat(q)
         PROVE  IInv'
    BY <2>11, StepCat
  <2>12. CASE Down
    BY <1>1, <2>12 DEF Down
  <2> QED BY <1>2, <2>1, <2>2, <2>3, <2>4, <2>5, <2>6, <2>7, <2>8, <2>9, <2>10, <2>11, <2>12 DEF Next
<1> QED BY <1>1, <1>2

\* The books, the lists and what the loops have still to do agree in every state:
\* the inductive invariant from which the theorems below follow.
THEOREM Inductive == Spec => []IInv
<1>1. Init => IInv
  BY Start
<1>2. IInv /\ [Next]_vars => IInv'
  BY Step
<1> QED BY <1>1, <1>2, PTL DEF Spec

\* The tables and lists keep their types: no count of the PID map ever wraps
\* around, no list holds what is no PID.
THEOREM Types == Spec => []TypeOK
<1>1. IInv => TypeOK
  <2> SUFFICES ASSUME IInv PROVE TypeOK
    OBVIOUS
  <2>1. tab \in Tables /\ prog \in Seq(Program)
    BY DEF IInv, Good, Books, Counts
  <2>2. pat = NULL \/ pat \in Seq(PmtPid)
    BY PidMapAssumption DEF IInv, Shape, PidMapAssumption
  <2> QED BY <2>1, <2>2 DEF IInv, Shape, TypeOK, Tables, Entry
<1> QED BY <1>1, Inductive, PTL

\* A live decryptor is counted once for each elementary stream bound to it and
\* once while proc_pmt holds it, and is freed when that is zero: whatever PMTs,
\* PATs and CATs come, in whatever order their streams are listed.
THEOREM RefsAreCounted == Spec => []RefsCounted
<1>1. IInv => RefsCounted
  <2> SUFFICES ASSUME IInv, NEW d \in tab.live
               PROVE  /\ tab.ref[d] = Cardinality(Users(d)) + (IF d = dec0 THEN 1 ELSE 0)
                      /\ tab.ref[d] > 0
    BY DEF RefsCounted
  <2>1. Books(tab, dec0, NULL) /\ d # NULL
    BY Consts DEF IInv, Good, Books, Tables
  <2>2. Users(d) = UsersOf(tab, d)
    BY DEF Users, UsersOf, Uses
  <2> QED BY <2>1, <2>2 DEF Books, One
<1> QED BY <1>1, Inductive, PTL

\* No entry of the map leads to a freed decryptor or to a program that is not
\* there; an ECM entry always leads to a decryptor of its PID and a PMT entry to
\* a program with that PMT PID, as arib_std_b1.c takes for granted.
THEOREM TargetsAreLive == Spec => []TargetsLive
<1>1. IInv => TargetsLive
  <2> SUFFICES ASSUME IInv PROVE TargetsLive
    OBVIOUS
  <2>1. Targets(tab) /\ Owned(tab, prog) /\ dec0 \in tab.live \cup {NULL}
    BY DEF IInv, Good, Books
  <2> QED BY <2>1 DEF TargetsLive, Targets, Target, Owned
<1> QED BY <1>1, Inductive, PTL

\* The count of a PID is the number of stream lists that have it, each once: the
\* entry goes with the last program that uses the PID and not before.
THEOREM EntriesAreCounted == Spec => []EntriesCounted
<1>1. IInv => EntriesCounted
  <2> SUFFICES ASSUME IInv PROVE EntriesCounted
    OBVIOUS
  <2>1. Counts(tab, prog) /\ prog \in Seq(Program)
    BY DEF IInv, Good, Counts
  <2>2. \A i \in 1 .. Len(prog) : Once(prog[i].streams) /\ Once(prog[i].old)
    BY <2>1, ListsAre DEF Counts
  <2>3. \A p \in EsPid \cup EcmPid : tab.map[p].type # "EMM" => tab.map[p].ref = Cardinality(In(prog, p))
    BY <2>1, Consts DEF Counts, Counted
  <2>4. \A p : ListsWith(p) = In(prog, p)
    BY DEF ListsWith, In
  <2> QED BY <2>2, <2>3, <2>4 DEF EntriesCounted
<1> QED BY <1>1, Inductive, PTL
=============================================================================
