------------------------------ MODULE MCAccess ------------------------------
(* All routes; one user, whose roles in two projects change at will, and    *)
(* two rows, of which one can refer to the other.                           *)
EXTENDS Access
CONSTANTS u1, q1, q2, r1, r2, p1
MCUsers == {u1}
MCProjects == {q1, q2}
MCRows == {r1, r2}
MCHandlers == {p1}
=============================================================================
