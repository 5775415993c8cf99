SPECIFICATION Spec
CONSTANTS
    File = {f1, f2}
    Doc = {d1}
    Key = {k1, k2}
    Client = {c1}
    None = None
    Absent = Absent
    MaxNotes = 2
    Faults = {"crash", "drop", "garble", "unlink"}
SYMMETRY Symmetry
CHECK_DEADLOCK FALSE
INVARIANTS FilesOpen NotesOpen EncryptSealsAll
PROPERTY NotesKept
