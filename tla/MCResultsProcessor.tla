------------------------- MODULE MCResultsProcessor -------------------------
\* Instances of ResultsProcessor for TLC: three large results, one of them to be
\* compressed and another with the same trace id, one under its limit, one that
\* has none, and one that cannot be serialised.
EXTENDS ResultsProcessor

CONSTANTS large, packed, small, unlimited, twin, broken

MCSizeOf == [o \in Ops |-> IF o = small THEN 1 ELSE 2]
MCLimitOf == [o \in Ops |-> IF o = unlimited THEN 0 ELSE 1]
MCTraceOf == [o \in Ops |-> IF o = twin THEN packed ELSE o]
=============================================================================
