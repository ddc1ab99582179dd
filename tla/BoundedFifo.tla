---------------------------- MODULE BoundedFifo ----------------------------
(***************************************************************************)
(* What QUEUE_T promises its two users: a first-in first-out channel of at *)
(* most Size entries that neither loses, repeats, reorders nor invents an  *)
(* entry.                                                                  *)
(***************************************************************************)
EXTENDS Naturals, Sequences

CONSTANTS Size, Entry

VARIABLE chan

Init == chan = <<>>

Send(e) == Len(chan) < Size /\ chan' = Append(chan, e)

Receive == chan # <<>> /\ chan' = Tail(chan)

Next == (\E e \in Entry : Send(e)) \/ Receive

Spec == Init /\ [][Next]_chan
=============================================================================
