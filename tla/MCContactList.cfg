\* Two messages between a viewer and one other client, over four nanoseconds
\* of two seconds.  The viewer has one tab, and the other may be in its queue.
CONSTANTS
    Client = {c1, c2}
    Second = 2
    MaxTime = 3
    MaxMessages = 2
    Viewer = {c1}
    Queued = {c2}
    Tabs = 1
SPECIFICATION FairSpec
INVARIANT SentIsReceived
PROPERTIES
    HistoryKept
    PreviewCatchesUp
