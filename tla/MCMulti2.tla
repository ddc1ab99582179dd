------------------------------ MODULE MCMulti2 ------------------------------
(***************************************************************************)
(* Instance of module Multi2: words of 32 bits, two cards, two pairs of    *)
(* scramble keys, payloads with and without a rest.                        *)
(***************************************************************************)
EXTENDS Multi2

\* Words that differ in everything the arithmetic looks at.
Pattern(a, b) == {k \in Bit : (a * k * k + b * k) % 7 < 3}
D(a) == [l |-> Pattern(a, 2), r |-> Pattern(a + 1, 5)]
Sys(a) == [n \in 1 .. 8 |-> Pattern(n, a)]

Pair(a, b) == [t \in {Odd, Even} |-> IF t = Odd THEN D(a) ELSE D(b)]

MCCards == {[sys |-> Sys(3), cbc |-> D(1)], [sys |-> Sys(4), cbc |-> D(2)]}
MCScrambles == {Pair(3, 4), Pair(4, 3)}

Payload(n, a) ==
  LET blocks == (n + BlockSize - 1) \div BlockSize
      rest == n - (blocks - 1) * BlockSize
  IN  [size |-> n, blocks |-> [q \in 1 .. blocks |-> IF q = blocks THEN Head8(D(a + q), rest)
                                                               ELSE D(a + q)]]
MCPackets == {Payload(1, 5), Payload(8, 6), Payload(21, 7)}
=============================================================================
