SPECIFICATION FairSpec
CONSTANTS
    Dirs = {d1, d2}
    Uploads = {1, 2}
    Size = 2
    MaxCds = 1
    MaxReloads = 1
    NoDir = NoDir
    NoUpload = NoUpload
INVARIANTS TypeOK SettledShowsDir DoneIsComplete RegistryIsOwned
PROPERTY UploadsEnd
CHECK_DEADLOCK FALSE
