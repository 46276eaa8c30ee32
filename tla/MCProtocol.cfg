\* Every command, with one other server that may crash.
SPECIFICATION Spec
CONSTANTS
    a = a
    b = b
    x = x
    y = y
    z = z
    s1 = s1
    s2 = s2
    s3 = s3
    Files = {a, b}
    Contents = {x, y, z}
    Versions <- TwoVersions
    Size <- Sizes
    Part = 2
    None = None
    Leader = s1
    Backups <- OneBackup
    Commands = {"upload", "download", "sync", "list", "delete", "lock", "unlock", "exit"}
    Crashes = TRUE
INVARIANTS TypeOK InStep Acknowledged Replicated DownloadsWhole
PROPERTIES CommandEnds
CHECK_DEADLOCK FALSE
