SPECIFICATION Spec
CONSTANTS
    None = None
    root = root
    a = a
    Folders = {root, a}
    Parent <- MCParent
    f1 = f1
    f2 = f2
    f3 = f3
    Names = {f1, f2, f3}
    Directories = {"vectorstore", "other"}
    Default = "vectorstore"
    Choices <- MCChoices
    MaxRewrites = 0
    MaxRuns = 1
INVARIANT
    ReplaceAllMirrors
SYMMETRY Alike
CHECK_DEADLOCK FALSE
