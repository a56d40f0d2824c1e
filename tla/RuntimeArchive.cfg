SPECIFICATION Spec
CONSTANTS
    p = p
    a = a
    b = b
    c = c
    Root = Root
    Up = Up
    Names = {p, a, b, c}
    Prefix <- MCPrefix
    Archives <- MCArchives
INVARIANTS Contained InstalledVerifies VerdictIsRight
CHECK_DEADLOCK FALSE
