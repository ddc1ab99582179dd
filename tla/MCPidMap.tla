------------------------------ MODULE MCPidMap ------------------------------
(***************************************************************************)
(* Module PidMap for TLC: two PIDs that are elementary streams, two that   *)
(* carry ECMs, one of them the same PID at different times.                *)
(***************************************************************************)
EXTENDS PidMap, TLC

CONSTANTS es1, ecm1, both, pmt1, pmt2, d1, d2, d3, d4

MCEsPid == {es1, both}
MCEcmPid == {ecm1, both}
MCPmtPid == {pmt1, pmt2}
MCEmmPid == {both}
MCDec == {d1, d2, d3, d4}

MCEs == [pid : MCEsPid, ecm : {ecm1, both, NONE, CLEAR}]
MCLists == {<<>>} \cup {<<u>> : u \in MCEs}
             \cup {w \in {<<u, v>> : u, v \in MCEs} : w[1].pid # w[2].pid}
MCManyPmts == [ecm : {NONE, ecm1, both}, es : MCLists]
\* One elementary stream each.
MCFewPmts == {p \in MCManyPmts : /\ p.ecm # both /\ Len(p.es) = 1
                                  /\ \A k \in 1 .. Len(p.es) : p.es[k].ecm # CLEAR}
MCPmts == <<MCManyPmts, MCFewPmts>>

\* One program, or two that may share PIDs and even the PMT PID.
MCPats == {<<pmt1>>, <<pmt1, pmt2>>, <<pmt1, pmt1>>}

Symmetry == Permutations(MCDec)
=============================================================================
