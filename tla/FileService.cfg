CONSTANTS
    c1 = c1
    c2 = c2
    Calls <- MCCalls
    Names <- MCNames
    dirA = dirA
    dirB = dirB
    leaf = leaf
    Leaves <- MCLeaves
    Targets <- MCTargets
    t1 = t1
    t2 = t2
    Temps <- MCTemps
    Inodes = {i1, i2}
    MaxChunks = 3
    Sizes <- MCSizes
    Named <- MCNamed
    Renames <- MCRenames
    Downloads <- MCDownloads
    Copies <- MCCopies
    MaxUpload = 2
    MaxCommands = 1
    Faults = {"io", "crash"}
    Outside = Outside
    None = None
SPECIFICATION FilesSpec
INVARIANTS FilesTypeOK PublishedWhole TempsOwned
PROPERTIES AnswersTrue CallsEnd
CHECK_DEADLOCK FALSE
