SPECIFICATION Spec
CONSTANTS
    Procs = {p, q}
    Names = {n}
    Agents = {}
    Workspaces = {w}
    Contents = {a, b}
    None = None
    NoRow = NoRow
    TrustMax = 2
    RecentMax = 1
    Backups = 1
    Edits = {}
    EditableAt = {}
INVARIANTS TypeOK TrustOnlySaved
PROPERTY LegacyRecoverable
SYMMETRY Symmetry
VIEW StoreView
