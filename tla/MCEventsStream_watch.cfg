SPECIFICATION FairSpec
CONSTANTS
    Loops = {l1, l2}
    Checkers = {h1, h2}
    Connections = {k1, k2}
    None = None
INVARIANTS TypeOK CurrentThreadsLive WatchedUnlessOvertaken
PROPERTIES ReplacedLoopsEnd SilentIsReplaced
CHECK_DEADLOCK FALSE
