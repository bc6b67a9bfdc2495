CONSTANTS
    u1 = u1
    u2 = u2
    u3 = u3
    e1 = e1
    e2 = e2
    e3 = e3
    s1 = s1
    s2 = s2
    p1 = p1
    p2 = p2
    t1 = t1
    t2 = t2
    t3 = t3
    birthdate = birthdate
    phone = phone
    Users <- MCUsers
    Emails <- MCEmails
    Subs <- MCSubs
    Providers <- MCProviders
    ClaimFields <- MCClaimFields
    Tasks <- MCTasks3
    Local = Local
    None = None
    Malformed = Malformed
SYMMETRY Symmetry
SPECIFICATION Spec
INVARIANT TypeOK
INVARIANT NoAccountTakeover
