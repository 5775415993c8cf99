SPECIFICATION Spec
CONSTANTS
    Folder = {f1, f2}
    Proc = {p1}
    Gen = {g1, g2, g3, g4}
    None = None
    MaxEdition = 3
    MaxHead = 2
    MaxPending = 2
    Ops = {"draft", "publish", "skip", "index", "rebuild"}
    Faults = {"crash", "edit", "older"}
SYMMETRY Symmetry
CHECK_DEADLOCK FALSE
INVARIANT CurrentDescribesDisk
PROPERTY SealsTheDisk
