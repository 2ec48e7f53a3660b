SPECIFICATION Spec
CONSTANTS
    Procs = {p}
    Names = {}
    Agents = {x, y, z}
    Workspaces = {w}
    Contents = {a, b}
    None = None
    NoRow = NoRow
    TrustMax = 2
    RecentMax = 2
    Backups = 2
    Edits = {a, b, None}
    EditableAt <- OffOnly
INVARIANTS TrustOnlySaved NewestSaveTrusted HonouredWasSaved
PROPERTY OneKeyPerUpdate
SYMMETRY Symmetry
