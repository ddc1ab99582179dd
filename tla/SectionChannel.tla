---------------------------- MODULE SectionChannel ----------------------------
(***************************************************************************)
(* What a section parser promises its callers: the sections they get are   *)
(* the accepted ones, in the order they were accepted, and no section is   *)
(* accepted twice in a row.                                                *)
(***************************************************************************)
EXTENDS Sequences

CONSTANTS Content,     \* what an accepted section can hold
          Nothing      \* no section has been accepted yet

VARIABLES newest,      \* the section accepted last
          backlog      \* accepted sections nobody has got yet, oldest first

vars == <<newest, backlog>>

Init == newest = Nothing /\ backlog = <<>>

Accept == newest' \in Content \ {newest} /\ backlog' = Append(backlog, newest')

Get == backlog # <<>> /\ backlog' = Tail(backlog) /\ UNCHANGED newest

Next == Accept \/ Get

Spec == Init /\ [][Next]_vars
=============================================================================
