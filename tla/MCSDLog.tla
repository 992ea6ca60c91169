------------------------------ MODULE MCSDLog ------------------------------
\* The run log with blocks of two rows and two runs.
EXTENDS SDLog
=============================================================================
