----------------------------- MODULE MCB1Stream -----------------------------
(***************************************************************************)
(* Module B1Stream for TLC: what is broadcast in each run.                 *)
(***************************************************************************)
EXTENDS B1Stream

Pat(programs) == [kind |-> "pat", programs |-> programs]
Pmt(p, e) == [kind |-> "pmt", program |-> p, ecm |-> e]
Ecm(e) == [kind |-> "ecm", pid |-> e]
Data(p, e) == [kind |-> "data", program |-> p, ecm |-> e, turn |-> FALSE]
Turn(p, e) == [kind |-> "data", program |-> p, ecm |-> e, turn |-> TRUE]
Other(kind) == [kind |-> kind]

CONSTANTS p1, p2, e1

\* One scrambled program whose keys change.
KeyKinds == {Pat({p1}), Pmt(p1, e1), Ecm(e1), Data(p1, e1), Turn(p1, e1)}

\* Two programs with one decryptor, the second one comes and goes, and the
\* first one is scrambled or not; gaps in the stream.
TableKinds ==
  {Pat({p1}), Pat({p1, p2}), Pmt(p1, e1), Pmt(p1, Clear), Pmt(p2, e1), Ecm(e1)}
    \cup {Other("null"), Other("junk"), Other("broken")}
TableDamaged == {Pat({p1, p2}), Pmt(p1, Clear), Other("null")}

\* A program that changes to scrambled, or to another ECM PID.
RekeyKinds == {Pat({p1}), Pmt(p1, Clear), Pmt(p1, e1), Ecm(e1)}
=============================================================================
