--------------------------- MODULE MCWithSchedule ---------------------------
EXTENDS WithSchedule

\* Uses of with-schedule one after the other; times in half samples.
WholeTimes == <<<<4, 2, 2>>, <<2, 6>>, <<0, 4, 2>>>>
=============================================================================
