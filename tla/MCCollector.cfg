CONSTANTS
    p1 = p1
    p2 = p2
    p3 = p3
    s1 = s1
    Proc = {p1, p2, p3}
    NoProc = NoProc
    Inode = {1, 2, 3, 4}
    NoInode = 0
    Watchdog = 2
    Sub = {s1}
    Nowhere = Nowhere
    MaxFailed = 2
    Casts <- MCCasts
    Visited <- MCVisited
SPECIFICATION Spec
INVARIANTS TypeOK OneServer RunHasWakeup FileNamesTheDaemon
PROPERTIES LivelyLinkKept DeadLinkIsLeft KeepsTrying StopsWhenAsked DeadSubscriberDropped
