--------------------------- MODULE MCTimerServer ---------------------------
EXTENDS TimerServer

MCTimeouts == {0, 2}
=============================================================================
