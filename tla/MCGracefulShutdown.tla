------------------------- MODULE MCGracefulShutdown -------------------------
\* Instances of GracefulShutdown for TLC: no operation, or one with a result.
EXTENDS GracefulShutdown

CONSTANT a

MCPaths == [o \in Ops |-> "execute"]
=============================================================================
