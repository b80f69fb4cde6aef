SPECIFICATION Spec
CONSTANTS
    www = www
    other = other
    cert = cert
    key = key
    localhost = localhost
    NoPath = NoPath
    Junk = Junk
    Lines <- MCLines
    Defaults <- MCDefaults
    ULongBits = 17
    Files <- MCFiles
    Folders <- MCFolders
    Outside <- MCOutside
    Chars = {"/", "a", "b"}
    Methods = {"GET", "POST"}
    Paths <- MCPaths
    MountPrefixes <- MCPrefixes
    Roots <- MCRoots
    Certificates = {cert}
    MaxInput = 4
    MaxHardware = 2
INVARIANT DocumentedTls
CHECK_DEADLOCK FALSE
