--------------------------- MODULE MCSarimaPlugin ---------------------------
EXTENDS SarimaPlugin

\* Below zero, zero, and one to three.
MCSettings == -1..3
=============================================================================
