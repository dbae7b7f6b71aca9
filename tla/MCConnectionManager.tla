------------------------ MODULE MCConnectionManager ------------------------
(* Two connections of one user and one of another.                         *)
EXTENDS ConnectionManager

CONSTANTS c1, c2, c3, u1, u2

MCConn == {c1, c2, c3}
MCUser == {u1, u2}
MCUserOf == [c \in MCConn |-> IF c = c3 THEN u2 ELSE u1]
=============================================================================
