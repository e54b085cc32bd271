CONSTANTS
    github = github
    ci = ci
    a1 = a1
    a2 = a2
    q1 = q1
    q2 = q2
    s1 = s1
    s2 = s2
    Sources = {github, ci}
    GitHub = github
    Secrets = {s1, s2}
    NoSecret = NoSecret
    SeedSecret = s1
    Edits <- MCEdits
    Admins = {a1, a2}
    Requests = {q1, q2}
    k1 = k1
    Keys = {k1}
    Calls <- MCCalls
    NoKey = NoKey
    None = None
    MaxEdits = 2
    MaxFaults = 0
    MaxCrashes = 0
SPECIFICATION Spec
PROPERTIES
    OmittedFieldsKept
CHECK_DEADLOCK FALSE
