SPECIFICATION MCSpec
CONSTANTS
    m1 = m1
    r1 = r1
    r2 = r2
    r3 = r3
    b1 = b1
    b2 = b2
    c1 = c1
    c2 = c2
    a1 = a1
    Upload = {m1}
    Bytes = {b1, b2}
    Part = {r1, r2, r3}
    Completer = {c1, c2}
    Aborter = {a1}
    MaxRestarts = 1
    Number <- TwoNumbers
    Of <- AllOfOneUpload
    At <- Numbers
    Body <- Bodies
    o1 = o1
    o2 = o2
    v1 = v1
    v2 = v2
    l1 = l1
    Opened = {b1, b2}
    Nowhere = Nowhere
    MaxVisits = 3
    Row = {o1, o2}
    Piece = {v1, v2, l1}
    RowOf <- ObjectOf
    Closed = Closed
    MaxFailed = 1
    Work = {1, 2}
    MaxWaiting = 3
    HistoryRun = {r1, r2}
    NoRun = NoRun
INVARIANTS
    CompletionSafe
    BytesAsNamed
PROPERTIES
    EndsCleanly
    OverdueOpenEnds
    DashboardSafe
CHECK_DEADLOCK FALSE
