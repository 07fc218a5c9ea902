--------------------------- MODULE MCEventsStream ---------------------------
\* Instance of EventsStream for TLC.
EXTENDS EventsStream
=============================================================================
