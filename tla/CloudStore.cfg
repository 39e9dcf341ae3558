SPECIFICATION Spec
CONSTANTS
    None = None
    root = root
    a = a
    Folders = {root, a}
    Parent <- MCParent
    f1 = f1
    f2 = f2
    f3 = f3
    Names = {f1, f2, f3}
    Directories = {"vectorstore", "other"}
    Default = "vectorstore"
    Choices <- MCChoices
    MaxRewrites = 1
    MaxRuns = 2
INVARIANTS
    TypeOK
    DefaultMirrored
    RunsServe
PROPERTIES
    ServedUntilReplaced
SYMMETRY Alike
CHECK_DEADLOCK FALSE
