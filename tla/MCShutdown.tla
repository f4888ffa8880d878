------------------------------ MODULE MCShutdown ------------------------------
\* Two ticks of the job, a client of a room and one of the lobby, two faults.
EXTENDS Shutdown

CONSTANTS t1, t2, c1, c2
==============================================================================
