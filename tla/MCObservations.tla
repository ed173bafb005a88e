--------------------------- MODULE MCObservations ---------------------------
EXTENDS Observations
CONSTANTS p1, p2

MCHandlers == {p1, p2}
MCIds == 1 .. 3
=============================================================================
