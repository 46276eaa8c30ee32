\* list_server with another server connected.
SPECIFICATION Spec
CONSTANTS
    a = a
    b = b
    x = x
    y = y
    z = z
    s1 = s1
    s2 = s2
    s3 = s3
    Files = {a}
    Contents = {x, y, z}
    Versions <- TwoVersions
    Size <- Sizes
    Part = 2
    None = None
    Leader = s1
    Backups <- OneBackup
    Commands = {"list"}
    Crashes = FALSE
PROPERTIES ListEnds
CHECK_DEADLOCK FALSE
