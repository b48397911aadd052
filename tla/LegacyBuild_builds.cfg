SPECIFICATION MCSpec
CONSTANTS
    Conns = {c1, c2}
    Requests = {c1, c2}
    EnvPaths = {envfile}
    Keys = {a, b}
    Values = {v1, v2, v3}
    Contents <- MCContents
    Injections <- MCInjections
    Dockerfiles <- MCDockerfiles
    Tars <- MCTars
    BaseName <- MCBaseName
    Refs = {ubuntu, mirror}
    CertNames = {ca}
    Names = {ca, dockerfile, other}
    Pems = {pem}
    MaxChanges = 1
    MaxPieces = 1
    MaxEditsOfSession = 1
    c1 = c1
    c2 = c2
    envfile = envfile
    a = a
    b = b
    v1 = v1
    v2 = v2
    v3 = v3
    ubuntu = ubuntu
    mirror = mirror
    p1 = p1
    ca = ca
    dockerfile = dockerfile
    other = other
    pem = pem
    Absent = Absent
    Bad = Bad
    NoMap = NoMap
    NoFile = NoFile
    NoKey = NoKey
    NoRef = NoRef
    NoName = NoName
    Unreadable = Unreadable
INVARIANTS TypeOK ExpandedAsDocumented FirstExpansionSettles EditedAsPlanned CopySourcesSent TunnelWhole
PROPERTIES SnapshotStable TunnelEnds BuildsEnd
ACTION_CONSTRAINT MCBounds
CHECK_DEADLOCK FALSE
