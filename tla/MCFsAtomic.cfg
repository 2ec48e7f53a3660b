SPECIFICATION Spec
CONSTANTS
    Writers = {w1, w2, w3}
    Unflushed = {}
    Contents = {a, b}
    Missing = Missing
    Torn = Torn
INVARIANTS TypeOK NeverTorn CrashSafe ErrorsLeaveNoTemporary
PROPERTY RefinesAtomicFile
SYMMETRY Symmetry
