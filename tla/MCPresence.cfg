SPECIFICATION PFairSpec
CONSTANTS
    Users = {u1, u2}
    Streams = {s1, s2}
    Publishers = {p1}
    None = None
    Viewer = u1
    Buffer = 1
    MaxContacts = 2
    MaxAnswers = 1
INVARIANTS TabTypeOK NewestIsSubscribed ShownIsRight
PROPERTIES  RequestsEnd
