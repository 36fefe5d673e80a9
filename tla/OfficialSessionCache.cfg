SPECIFICATION FairSpec
CHECK_DEADLOCK FALSE
CONSTANTS
    s1 = s1  s2 = s2
    i1 = i1  t1 = t1  m1 = m1  t2 = t2  n1 = n1
    k1 = k1  x2 = x2  e1 = e1  d1 = d1  p1 = p1  c1 = c1  c2 = c2
    Session = {s1, s2}
    Sid <- Sids
    Request = {i1, t1, m1, t2, n1}
    Form <- Forms
    Minted <- Mints
    ProcessID = p1
    NoSession = NoSession
    None = None
    Ident = {k1, x2, e1, d1, p1}
    Client = {c1, c2}
INVARIANTS
    WatchersMatch
    CallsJoinTheirSession
PROPERTY ClosedIsForgotten
