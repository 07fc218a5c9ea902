------------------------ MODULE MCEgressAgentService ------------------------
\* Instances of EgressAgentService for TLC: a few operations, each with a path.
EXTENDS EgressAgentService, TLC

CONSTANTS a, b, c

\* An operation with a result, one whose path is not in the mapping of an agent
\* built with skip_logs, and one that the agent skips.
MCHandoverPaths == a :> "execute" @@ b :> "logs" @@ c :> "missing"

\* An operation with a result, and one that ends without a result where there
\* is no logs service.
MCProgressPaths == a :> "execute" @@ b :> "logs"
=============================================================================
