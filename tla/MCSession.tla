------------------------------ MODULE MCSession ------------------------------
(***************************************************************************)
(* Instance of module Session: channel lists of up to two lines, complete  *)
(* or not, a path of two directories, two card readers.                    *)
(***************************************************************************)
EXTENDS Session

L(ours, fields, options, newline) ==
  [ours |-> ours, fields |-> fields, options |-> options, newline |-> newline]

\* Lines that may be anywhere, and lines that end the file without a newline.
Whole ==
  {L(FALSE, 4, <<"V">>, TRUE), L(TRUE, 1, <<>>, TRUE), L(TRUE, 2, <<>>, TRUE)}
    \cup {L(TRUE, fields, options, TRUE) : fields \in 3 .. 4,
            options \in {<<"H">>, <<"V", "T">>, <<"V", "H", "1">>, <<"unknown", "T">>}}
Cut == {L(TRUE, fields, <<"V">>, FALSE) : fields \in 1 .. 4}

MCLists ==
  {<<>>} \cup {<<l>> : l \in Whole \cup Cut} \cup {<<k, l>> : k \in Whole, l \in Whole \cup Cut}
MCInherited == {{0, 1, 2}, {1, 2}}
=============================================================================
