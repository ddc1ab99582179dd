------------------------------- MODULE PidMap -------------------------------
(***************************************************************************)
(* The tables of the descrambler in src/b1/arib_std_b1.c: the PID map, the *)
(* programs of the PAT with their stream lists, and the decryptors, which  *)
(* are shared between streams and counted.  proc_pmt, proc_pat and         *)
(* teardown walk over lists; each turn of such a loop is a step, and while *)
(* pc is not "idle" the only steps are the next ones of the same function. *)
(*                                                                         *)
(* Memory does not run out here.  A list of decryptors is a set (only its  *)
(* size and membership are used), a stream list a sequence of PIDs, and    *)
(* the pool of spare list elements is left out.                            *)
(***************************************************************************)
EXTENDS Integers, Sequences, FiniteSets

CONSTANTS
  EsPid, EcmPid, PmtPid, EmmPid,  \* the PIDs a stream uses for each purpose
  Dec,      \* bound: the decryptors that can be alive at once
  NULL,     \* null pointer
  NONE,     \* no CA descriptor: find_ca_descriptor_pid returns 0
  CLEAR,    \* PID 0x1fff in a CA descriptor: explicitly not scrambled
  RefMod,   \* 2^32, the range of PID_MAP.ref
  Pmts,     \* bound: the PMTs there may be beside n programs in all, each of
            \* them [ecm : program's ECM PID, es : its elementary streams]
  Pats      \* the PATs: sequences of PMT PIDs

Pid == EsPid \cup EcmPid \cup PmtPid \cup EmmPid
Es == [pid : EsPid, ecm : EcmPid \cup {NONE, CLEAR}]

\* A PID has 13 bits, and one that carries PMTs carries nothing else.  A PAT is
\* a section of at most 1021 bytes: it cannot have so many programs that a
\* stream in the two lists of each would overflow the count of its PID.
ASSUME PidMapAssumption ==
  /\ RefMod \in Nat \ {0, 1}
  /\ NULL \notin Dec \cup Nat
  /\ IsFiniteSet(Pid) /\ EcmPid # {}
  /\ {NONE, CLEAR} \cap Pid = {} /\ NONE # CLEAR
  /\ PmtPid \cap (EsPid \cup EcmPid \cup EmmPid) = {}
  /\ Pats \subseteq Seq(PmtPid)
  /\ \A new \in Pats : 2 * Len(new) < RefMod
  /\ \A new \in Pats :
       Pmts[Len(new)] \subseteq [ecm : EcmPid \cup {NONE, CLEAR}, es : Seq(Es)]

VARIABLES
  tab,    \* map: PID_MAP by PID; live: decryptors; ref, ecm: their fields
  prog,   \* the programs: PMT PID, current streams, streams of the PMT before
  pc,     \* where proc_pmt, proc_pat or teardown is; "idle" between packets
  cur,    \* the program it works on
  pmt,    \* what is left of the PMT that proc_pmt works on
  dec0,   \* dec[0]: the decryptor of the program's own ECM PID
  pat,    \* the PAT that proc_pat works on, NULL in teardown
  prev    \* history: tables and streams when proc_pmt began, and its PMT

vars == <<tab, prog, pc, cur, pmt, dec0, pat, prev>>

Type == {"UNKNOWN", "PMT", "ECM", "EMM", "OTHER"}
Blank == [ref |-> 0, type |-> "UNKNOWN", target |-> NULL]
Program == [pmt_pid : PmtPid, streams : Seq(Pid), old : Seq(Pid)]
AnyEcm == CHOOSE p \in EcmPid : TRUE
NoPmt == [ecm |-> NONE, es |-> <<>>]

TypeOK ==
  /\ tab \in [map : [Pid -> [ref : 0 .. RefMod - 1, type : Type,
                             target : Dec \cup Nat \cup {NULL}]],
              live : SUBSET Dec, ref : [Dec -> Int], ecm : [Dec -> EcmPid]]
  /\ prog \in Seq(Program)
  /\ pc \in {"idle", "unref", "streams", "release", "down"}
  /\ cur \in Nat /\ dec0 \in Dec \cup {NULL}
  /\ pmt.ecm \in EcmPid \cup {NONE, CLEAR} /\ pmt.es \in Seq(Es)
  /\ pat = NULL \/ pat \in Seq(PmtPid)

Init ==
  /\ tab = [map |-> [p \in Pid |-> Blank], live |-> {},
            ref |-> [d \in Dec |-> 0],
            ecm |-> [d \in Dec |-> AnyEcm]]
  /\ prog = <<>> /\ pc = "idle" /\ cur = 0 /\ pmt = NoPmt /\ dec0 = NULL
  /\ pat = NULL /\ prev = [tab |-> tab, streams |-> <<>>, pmt |-> NoPmt]

-----------------------------------------------------------------------------
(* The helpers, as functions of the tables t.                              *)

\* Mutant of remove_decryptor: the map keeps pointing at the freed decryptor.
remove_decryptor_keeps_map(t, d) == [t EXCEPT !.live = @ \ {d}]

\* Free the decryptor: its fields mean nothing from here on.
remove_decryptor(t, d) ==
  LET p == t.ecm[d]
      m == t.map[p]
      u == [t EXCEPT !.live = @ \ {d}, !.ref[d] = 0, !.ecm[d] = AnyEcm]
  IN  IF m.type = "ECM" /\ m.target = d
        THEN [u EXCEPT !.map[p].type = "UNKNOWN", !.map[p].target = NULL]
        ELSE u

\* dec->ref -= 1; if(dec->ref < 1) remove_decryptor(prv, dec);
Drop(t, d) ==
  LET u == [t EXCEPT !.ref[d] = @ - 1]
  IN  IF u.ref[d] < 1 THEN remove_decryptor(u, d) ELSE u

Inc(n) == (n + 1) % RefMod
Decr(n) == (n + RefMod - 1) % RefMod

unref_stream(t, p) ==
  LET m == t.map[p]
      n == Decr(m.ref)
      u == IF m.type = "OTHER" /\ m.target # NULL THEN Drop(t, m.target) ELSE t
  IN  IF n >= 1 THEN [t EXCEPT !.map[p].ref = n] ELSE [u EXCEPT !.map[p] = Blank]

\* set_decryptor when the PID has a decryptor already, which it returns.
Registered(t, p) == t.map[p].type = "ECM" /\ t.map[p].target # NULL

\* Mutant of Register: the entry is given the PID, not the new decryptor.
Register_targets_pid(t, p, d) ==
  LET n == [t EXCEPT !.live = @ \cup {d}, !.ref[d] = 0, !.ecm[d] = p]
  IN  [n EXCEPT !.map[p].type = "ECM", !.map[p].target = p]

\* ... and when it has none: d is the new one.
Register(t, p, d) ==
  LET o == t.map[p].target
      n == [t EXCEPT !.live = @ \cup {d}, !.ref[d] = 0, !.ecm[d] = p]
      u == IF t.map[p].type = "OTHER" /\ o # NULL THEN Drop(n, o) ELSE n
  IN  [u EXCEPT !.map[p].type = "ECM", !.map[p].target = d]

\* The pairs of tables and decryptor that set_decryptor can return.
set_decryptor(t, p) ==
  IF Registered(t, p) THEN {<<t, t.map[p].target>>}
                      ELSE {<<Register(t, p, d), d>> : d \in Dec \ t.live}

\* Mutant of bind_stream_decryptor: a rebound stream is not counted out.
bind_stream_decryptor_no_unref(t, p, d) ==
  LET old == t.map[p].target
      v == [t EXCEPT !.map[p].target = d]
  IN  IF old = d THEN t ELSE IF d # NULL THEN [v EXCEPT !.ref[d] = @ + 1] ELSE v

bind_stream_decryptor(t, p, d) ==
  LET old == t.map[p].target
      less == [t EXCEPT !.ref[old] = @ - 1]
      u == IF old = NULL THEN t
           ELSE IF less.ref[old] = 0 THEN remove_decryptor(less, old) ELSE less
      v == [u EXCEPT !.map[p].target = d]
  IN  IF old = d THEN t ELSE IF d # NULL THEN [v EXCEPT !.ref[d] = @ + 1] ELSE v

\* Mutant of select_active_decryptor: CLEAR falls back to the program's ECM.
select_ignores_clear(a, b, p) == IF b # NULL THEN b ELSE a

select_active_decryptor(a, b, p) ==
  IF b # NULL THEN b ELSE IF p = CLEAR THEN NULL ELSE a

Contains(list, p) == \E i \in 1 .. Len(list) : list[i] = p

\* Mutant of AddEcmCount: counted for each stream, listed once.
AddEcmCountAlways(t, list, p) == [t EXCEPT !.map[p].ref = Inc(@)]

\* add_ecm_stream: to the list and to the count, once per list.
AddEcmCount(t, list, p) ==
  IF Contains(list, p) THEN t ELSE [t EXCEPT !.map[p].ref = Inc(@)]
AddEcm(list, p) == IF Contains(list, p) THEN list ELSE Append(list, p)

-----------------------------------------------------------------------------
(* proc_pmt().                                                             *)

(***************************************************************************)
(* What the streams do: within a PMT no PID has two roles, a PID that      *)
(* still carries ECMs or EMMs does not become an elementary stream, and    *)
(* one that turns from elementary stream to ECM is of this program only.   *)
(***************************************************************************)
Conforming(i, p) ==
  LET ecms == {p.ecm} \cup {p.es[k].ecm : k \in 1 .. Len(p.es)}
      pids == {p.es[k].pid : k \in 1 .. Len(p.es)}
  IN  /\ \A j, k \in 1 .. Len(p.es) : p.es[j].pid = p.es[k].pid => j = k
      /\ ecms \cap pids = {}
      /\ \A q \in pids : tab.map[q].type \notin {"ECM", "EMM"}
      /\ \A q \in ecms \cap Pid :
           /\ tab.map[q].type # "EMM"
           /\ tab.map[q].type = "OTHER" =>
                \A j \in 1 .. Len(prog) : j # i =>
                  ~Contains(prog[j].streams \o prog[j].old, q)

\* A PMT section is complete.  The program's ECM PID gets its decryptor,
\* which is kept from removal until PmtLast.
PmtBegin(i, p) ==
  /\ pc = "idle" /\ Conforming(i, p)
  /\ tab.map[prog[i].pmt_pid].type = "PMT" /\ tab.map[prog[i].pmt_pid].target = i
  /\ \/ p.ecm \in {NONE, CLEAR} /\ dec0' = NULL /\ UNCHANGED tab
     \/ p.ecm \in EcmPid /\ \E r \in set_decryptor(tab, p.ecm) :
          tab' = [r[1] EXCEPT !.ref[r[2]] = @ + 1] /\ dec0' = r[2]
  /\ pc' = "unref" /\ cur' = i /\ pmt' = p /\ prev' = [tab |-> tab, streams |-> prog[i].streams, pmt |-> p]
  /\ UNCHANGED <<prog, pat>>

\* Mutant of PmtUnref: the streams of the last PMT are released first, as if
\* there were no list of older ones.
PmtUnrefsCurrent ==
  /\ pc = "unref" /\ prog[cur].streams # <<>>
  /\ tab' = unref_stream(tab, Head(prog[cur].streams))
  /\ prog' = [prog EXCEPT ![cur].streams = Tail(@)]
  /\ UNCHANGED <<pc, cur, pmt, dec0, pat, prev>>

\* Unref an entry of the PMT before the last ...
PmtUnref ==
  /\ pc = "unref" /\ prog[cur].old # <<>>
  /\ tab' = unref_stream(tab, Head(prog[cur].old))
  /\ prog' = [prog EXCEPT ![cur].old = Tail(@)]
  /\ UNCHANGED <<pc, cur, pmt, dec0, pat, prev>>

\* ... then the last PMT becomes the one before, the new one starts.
PmtSave ==
  /\ pc = "unref" /\ prog[cur].old = <<>>
  /\ LET ecm == pmt.ecm \in EcmPid
     IN  /\ prog' = [prog EXCEPT ![cur].old = prog[cur].streams,
                                 ![cur].streams = IF ecm THEN <<pmt.ecm>> ELSE <<>>]
         /\ tab' = IF ecm THEN AddEcmCount(tab, <<>>, pmt.ecm) ELSE tab
  /\ pc' = "streams"
  /\ UNCHANGED <<cur, pmt, dec0, pat, prev>>

\* One elementary stream: find or make its decryptor, count it, bind it.
PmtStream ==
  /\ pc = "streams" /\ pmt.es # <<>>
  /\ LET e == Head(pmt.es)
         list == prog[cur].streams
         found == IF e.ecm \in EcmPid
                    THEN {<<AddEcmCount(r[1], list, e.ecm), r[2]>> :
                            r \in set_decryptor(tab, e.ecm)}
                    ELSE {<<tab, NULL>>}
     IN  \E r \in found :
           /\ tab' = bind_stream_decryptor(
                       [r[1] EXCEPT !.map[e.pid].type = "OTHER",
                                    !.map[e.pid].ref = Inc(@)],
                       e.pid, select_active_decryptor(dec0, r[2], e.ecm))
           /\ prog' = [prog EXCEPT ![cur].streams =
                Append(IF e.ecm \in EcmPid THEN AddEcm(list, e.ecm) ELSE list, e.pid)]
  /\ pmt' = [pmt EXCEPT !.es = Tail(@)]
  /\ UNCHANGED <<pc, cur, dec0, pat, prev>>

\* A decryptor nobody uses goes.
PmtLast ==
  /\ pc = "streams" /\ pmt.es = <<>>
  /\ tab' = IF dec0 # NULL THEN Drop(tab, dec0) ELSE tab
  /\ pc' = "idle" /\ cur' = 0 /\ pmt' = NoPmt /\ dec0' = NULL
  /\ prev' = [tab |-> tab', streams |-> <<>>, pmt |-> NoPmt]
  /\ UNCHANGED <<prog, pat>>

-----------------------------------------------------------------------------
(* proc_pat(), teardown() and proc_cat().                                  *)

ReleaseBegin(new) ==
  /\ pc = "idle" /\ pc' = "release" /\ cur' = 1 /\ pat' = new
  /\ UNCHANGED <<tab, prog, pmt, dec0, prev>>

\* release_program: the older list first, then the current one ...
ReleaseStream ==
  /\ pc = "release" /\ cur <= Len(prog)
  /\ \/ /\ prog[cur].old # <<>>
        /\ tab' = unref_stream(tab, Head(prog[cur].old))
        /\ prog' = [prog EXCEPT ![cur].old = Tail(@)]
     \/ /\ prog[cur].old = <<>> /\ prog[cur].streams # <<>>
        /\ tab' = unref_stream(tab, Head(prog[cur].streams))
        /\ prog' = [prog EXCEPT ![cur].streams = Tail(@)]
  /\ UNCHANGED <<pc, cur, pmt, dec0, pat, prev>>

\* ... and the program's own entry.
ReleaseProgram ==
  /\ pc = "release" /\ cur <= Len(prog)
  /\ prog[cur].old = <<>> /\ prog[cur].streams = <<>>
  /\ tab' = [tab EXCEPT !.map[prog[cur].pmt_pid] = Blank]
  /\ cur' = cur + 1
  /\ UNCHANGED <<prog, pc, pmt, dec0, pat, prev>>

\* Of two programs with one PMT PID, the later one gets the PMT.
PmtOwner(p) == {i \in 1 .. Len(pat) : pat[i] = p
                  /\ \A j \in 1 .. Len(pat) : pat[j] = p => j <= i}

\* The map is wiped, whoever still pointed into it, and the programs set up.
PatBuild ==
  /\ pc = "release" /\ cur > Len(prog) /\ pat # NULL
  /\ tab' = [tab EXCEPT !.map =
       [p \in Pid |-> IF p \in PmtPid /\ PmtOwner(p) # {}
          THEN [ref |-> 0, type |-> "PMT", target |-> CHOOSE i \in PmtOwner(p) : TRUE]
          ELSE Blank]]
  /\ prog' = [i \in 1 .. Len(pat) |->
                [pmt_pid |-> pat[i], streams |-> <<>>, old |-> <<>>]]
  /\ pc' = "idle" /\ cur' = 0 /\ pat' = NULL /\ prev' = [tab |-> tab', streams |-> <<>>, pmt |-> NoPmt]
  /\ UNCHANGED <<pmt, dec0>>

\* The rest of teardown: remaining decryptors and the map.
Teardown ==
  /\ pc = "release" /\ cur > Len(prog) /\ pat = NULL
  /\ tab' = [tab EXCEPT !.live = {}, !.map = [p \in Pid |-> Blank]]
  /\ prog' = <<>> /\ pc' = "down" /\ cur' = 0 /\ prev' = [tab |-> tab', streams |-> <<>>, pmt |-> NoPmt]
  /\ UNCHANGED <<pmt, dec0, pat>>

\* proc_cat: q becomes the EMM PID.  It is no PID of a program at the time.
ProcCat(q) ==
  /\ pc = "idle"
  /\ \A i \in 1 .. Len(prog) : ~Contains(prog[i].streams \o prog[i].old, q)
  /\ LET m == tab.map[q]
         t == IF m.type = "OTHER" /\ m.target # NULL THEN Drop(tab, m.target) ELSE tab
     IN  tab' = [t EXCEPT !.map[q] = [ref |-> 1, type |-> "EMM", target |-> NULL]]
  /\ prev' = [tab |-> tab', streams |-> <<>>, pmt |-> NoPmt]
  /\ UNCHANGED <<prog, pc, cur, pmt, dec0, pat>>

Down == pc = "down" /\ UNCHANGED vars

Next ==
  \/ \E i \in 1 .. Len(prog) : \E p \in Pmts[Len(prog)] : PmtBegin(i, p)
  \/ PmtUnref \/ PmtSave \/ PmtStream \/ PmtLast
  \/ \E new \in Pats \cup {NULL} : ReleaseBegin(new)
  \/ ReleaseStream \/ ReleaseProgram \/ PatBuild \/ Teardown
  \/ \E q \in EmmPid : ProcCat(q)
  \/ Down

Spec == Init /\ [][Next]_vars

-----------------------------------------------------------------------------
(* Properties.                                                             *)

Users(d) == {p \in Pid : tab.map[p].type = "OTHER" /\ tab.map[p].target = d}

(***************************************************************************)
(* A live decryptor's count is the number of elementary streams bound to   *)
(* it, plus one while proc_pmt holds it; when nobody uses it, it is gone.  *)
(***************************************************************************)
RefsCounted ==
  \A d \in tab.live :
    /\ tab.ref[d] = Cardinality(Users(d)) + (IF d = dec0 THEN 1 ELSE 0)
    /\ tab.ref[d] > 0

(***************************************************************************)
(* No entry of the map points to something released.  For ECM and PMT      *)
(* entries this is the comment "this code will never execute"              *)
(* (arib_std_b1.c:1251, 1574, 1823, 1847): they lead to a decryptor of     *)
(* that PID or to a program with that PMT PID, never to null.              *)
(***************************************************************************)
TargetsLive ==
  \A p \in Pid : LET m == tab.map[p] IN
    /\ m.type = "OTHER" => m.target \in tab.live \cup {NULL}
    /\ m.type = "ECM" => m.target \in tab.live /\ tab.ecm[m.target] = p
    /\ m.type = "PMT" => m.target \in 1 .. Len(prog) /\ prog[m.target].pmt_pid = p
    /\ m.type \in {"UNKNOWN", "EMM"} => m.target = NULL
    /\ dec0 \in tab.live \cup {NULL}

\* The stream lists that have a PID, and whether a list has one twice.
ListsWith(p) ==
  {x \in (1 .. Len(prog)) \X {"streams", "old"} : Contains(prog[x[1]][x[2]], p)}
Once(list) == \A j, k \in 1 .. Len(list) : list[j] = list[k] => j = k

(***************************************************************************)
(* The count of a PID is the number of stream lists it is in, each of      *)
(* which has it once, so its entry is cleared when the last program drops  *)
(* it and not before.                                                      *)
(***************************************************************************)
EntriesCounted ==
  /\ \A i \in 1 .. Len(prog) : Once(prog[i].streams) /\ Once(prog[i].old)
  /\ \A p \in EsPid \cup EcmPid :
       tab.map[p].type # "EMM" => tab.map[p].ref = Cardinality(ListsWith(p))

\* The ECM PID a PMT gives an elementary stream.
Announced(p, e) ==
  CASE e.ecm \in EcmPid -> e.ecm
    [] e.ecm = NONE /\ p.ecm \in EcmPid -> p.ecm
    [] OTHER -> NONE

(***************************************************************************)
(* After a PMT, each of its streams is bound to a decryptor of the ECM PID *)
(* that the PMT gives for it, and to none if it gives none.                *)
(***************************************************************************)
BoundAsAnnounced ==
  [][PmtLast => \A k \in 1 .. Len(prev.pmt.es) :
       LET e == prev.pmt.es[k]
           q == Announced(prev.pmt, e)
           d == tab'.map[e.pid].target
       IN  IF q = NONE THEN d = NULL ELSE d \in tab'.live /\ tab'.ecm[d] = q]_vars

(***************************************************************************)
(* A PMT that repeats a stream of the PMT before and its ECM PID leaves    *)
(* the stream with the decryptor it had, whose scramble key is the current *)
(* one, as long as that decryptor is the one that receives the ECMs.  Of a *)
(* program that is alone in the PAT: the PMTs of another one may cut the   *)
(* decryptor off in between, see DecryptorsRegistered.                     *)
(***************************************************************************)
KeepsDecryptor ==
  [][PmtLast => \A k \in 1 .. Len(prev.pmt.es) :
       LET e == prev.pmt.es[k]
           q == Announced(prev.pmt, e)
           m == prev.tab.map[e.pid]
       IN  q # NONE /\ Contains(prev.streams, e.pid)
             /\ m.type = "OTHER" /\ m.target # NULL
             /\ prev.tab.ecm[m.target] = q /\ prev.tab.map[q].target = m.target
             /\ Len(prog) = 1
           => tab'.map[e.pid].target = m.target]_vars

(***************************************************************************)
(* arib_std_b1.c:1348 "find major ecm_pid and regist decryptor": between   *)
(* packets each decryptor is registered for its ECM PID, so that ECMs      *)
(* reach it.                                                               *)
(***************************************************************************)
DecryptorsRegistered ==
  pc = "idle" => \A d \in tab.live :
    tab.map[tab.ecm[d]].type = "ECM" /\ tab.map[tab.ecm[d]].target = d
=============================================================================
