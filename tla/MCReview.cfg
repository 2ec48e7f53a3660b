SPECIFICATION Spec
CONSTANTS
  Procs = {p}
  dockerfile = dockerfile
  gitignore = gitignore
  Plain <- OnePlain
  Compose = compose
  Selections = {s1, s2}
  Hands = {h1, h2}
  Missing = Missing
  Unread = Unread
  NoApproval = NoApproval
  Decisions <- AnyDecision
  Entries <- AnyEntry
  EditableAt <- WhileWaiting
SYMMETRY Symmetry
VIEW ReviewView
INVARIANT TypeOK
PROPERTIES HandEditsSurvive DecisionsHold OneApprovalPerSave PolicyIsCurrent
