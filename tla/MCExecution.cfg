SPECIFICATION MCSpec
CONSTANTS
  Versions = {1, 2}
  BuildHosts <- MCBuildHosts
  MaxSignals = 2
  Bare = Bare
  None = None
INVARIANTS TypeOK NoOrphan SuccessIsTheAgents NothingLeftBehind StackTornDown CopiedImageIsCurrent
PROPERTIES CancelEndsSession AgentEndsSession
