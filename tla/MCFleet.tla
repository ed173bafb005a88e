------------------------------ MODULE MCFleet ------------------------------
(* Two services are more than fit into a configuration here.               *)
EXTENDS Fleet
CONSTANTS n1, a1, s1, s2, p1, p2, http1, http2, tcp
MCNodes == {n1}
MCAgents == {a1}
MCServices == {s1, s2}
MCHandlers == {p1, p2}
MCChecks == {http1, http2, tcp}
MCSupported == {http1, http2}
=============================================================================
