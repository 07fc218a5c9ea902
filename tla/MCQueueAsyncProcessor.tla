------------------------ MODULE MCQueueAsyncProcessor ------------------------
\* Instance of QueueAsyncProcessor for TLC: a few threads and items, with one
\* thread whose handler may never return.
EXTENDS QueueAsyncProcessor

=============================================================================
