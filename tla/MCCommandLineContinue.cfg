SPECIFICATION Spec
CONSTANTS
    None = None
    Agents = {"claude", "plain", "plain-cli", "pathed", "/opt/pathed", "unknown"}
    Known = {"claude", "plain", "plain-cli", "pathed"}
    EntryOf <- MCEntryOf
    ResolvedCommand <- MCResolvedCommand
    SupportMemory = {"claude"}
    SupportYolo = {"claude"}
    PermissionIDs = {"jail", "ssh", "network"}
    PermissionFlags = {"ssh"}
    Requires <- MCRequires
    DefaultOn = {"jail", "network"}
    Locked = {"jail"}
    Paths = {"work", "secrets", "linked", "shared"}
    Denied = {"secrets"}
    DefaultMounts = {"shared"}
    AutoMounts = {"linked"}
    GlobalOptions = {"deps"}
    CommandLines <- MCCommandLines
    Documents <- MCDocuments
    Rewrites <- MCRewrites
    Profiles <- MCProfiles
    Hosts <- MCHosts
    Nobody = Nobody
    Harnesses = {"claude", "copilot", "cursor"}
    RunHarnesses = {"claude", "copilot"}
    HarnessMinVersion <- MCHarnessMinVersion
    MemoryAgents = {"claude", "copilot"}
    YoloAgents = {"claude", "cursor"}
    JailHarnesses = {"claude"}
    ApiAgents = {"claude"}
    VendorKeys <- MCVendorKeys
    Starts <- MCStarts
    Worlds <- MCWorlds
    MaxEdits = 2
INVARIANTS
    ContainerIsUsed
CHECK_DEADLOCK FALSE
