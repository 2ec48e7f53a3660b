SPECIFICATION Spec
CONSTANTS
    Procs = {p}
    Names = {n}
    Agents = {}
    Workspaces = {w}
    Contents = {a, b}
    None = None
    NoRow = NoRow
    TrustMax = 2
    RecentMax = 1
    Backups = 1
    Edits = {}
    EditableAt = {}
INVARIANT NewestSaveTrusted
