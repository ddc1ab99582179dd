--------------------------- MODULE MCSectionStream ---------------------------
(***************************************************************************)
(* Module SectionStream for TLC: a section of which two fill a packet, and *)
(* one that takes two or three packets.  Of a header there are two bytes,  *)
(* the table id and the rest.                                              *)
(***************************************************************************)
EXTENDS SectionStream

MCSections == {"short", "long"}
MCLength == [s \in MCSections |-> IF s = "short" THEN 3 ELSE 11]
MCElems == 1 .. 7
MCNoise == {<<"noise", 2>>}

\* The second byte tells the format and the length.  In a spliced header it is any
\* byte of another section, or the stuffing, which claims more than is ever sent.
MCSays ==
  [h \in [1 .. HeaderParts -> Byte] |->
     CASE h[2] = Stuffing -> [long |-> TRUE, total |-> 16]
       [] h[2] \in {<<s, 2>> : s \in Sections} -> [long |-> TRUE, total |-> Length[h[2][1]]]
       [] h[2] \in {<<s, 1>> : s \in Sections} -> [long |-> TRUE, total |-> 2]
       [] OTHER -> [long |-> FALSE, total |-> 4]]
=============================================================================
