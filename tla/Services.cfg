\* Requests of each service that overlap
SPECIFICATION ServicesSpec
CONSTANTS
    Note = {n1, n2}
    NoteType = {t1, t2}
    DigestSize = 1
    MaxUnmarked = 1
    File = {f1, f2, f3}
    FileRequest = {q1, q2}
    Sizes = {1, 2}
    Claim = {c1, c2}
    MaxUse = 4
    Workspace = {w1, w2}
    Owner = {o1, o2}
    Entry = {e1, e2}
    Issue = {i1, i2}
    Bases <- OneBase
    Creator = {k1, k2}
    MaxRetry = 2
    RandomTails = {2}
    Person = {p1, p2}
    FirstAdmin = p1
    AdminRequest = {ar1, ar2}
    View = {"issue"}
    Filler = {fl1, fl2}
    Buster = {b1, b2}
    Ttl = 2
    Password = {pw1, pw2}
    Placeholder = Placeholder
    Empty = Empty
    Saver = {sv1}
    Mailer = {m1, m2}
    User = {u1}
    IssueRow = {ir1, ir2}
    Field = {fd1}
    CommentRow = {cm1, cm2}
    Value = {v1}
    FieldRequest = {rq1}
    None = None
    Tab = {tb1, tb2}
    RefreshRow = {rr1, rr2}
    NoRow = NoRow
    CookieDomain = FALSE
    LogEntry = {le1, le2, le3}
    FlushThreshold = 2
    MaxBuffer = 3
    AccessToken = {at1}
    ShareToken = {st1}
    Visit = {vi1, vi2}
    MaxUses = 2
    LastDate = 1
    Subscriber = {sb1, sb2}
    Endpoint = {ep1, ep2}
    PushRow = {pr1, pr2}
    Delivery = {dl1, dl2}
    Nobody = Nobody
    ListRow = {lr1, lr2, lr3}
    Take = 1
    LastStamp = 3
    HardCap = 2
    Item = {it1, it2}
    RouteOf <- OwnRoute
    TicksPerDay = 2
    Window = 2
    LastTick = 3
    ListTake = 1
    Card = {cd1, cd2}
    Pointed = {cd2}
    Points = 2
    FlowDays = 2
    LastHalf = 4
    DatesGiven = {1}
INVARIANTS ServicesTypeOK DigestKept RowsHaveFiles RowsFit AdminRemains StaleExplained MailUsesWhatItRead SessionsReachable EntriesAccounted SubscriptionsKept ReadsAddUp
PROPERTY QuotaOvershoot
CHECK_DEADLOCK FALSE
