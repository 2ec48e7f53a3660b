SPECIFICATION Spec
CONSTANTS
  Procs = {p}
  dockerfile = dockerfile
  gitignore = gitignore
  Plain <- TwoPlain
  Compose = compose
  Selections = {s1, s2}
  Hands = {h}
  Missing = Missing
  Unread = Unread
  NoApproval = NoApproval
  Decisions <- OnlyPrompt
  Entries <- OnlyGenerate
  EditableAt <- Never
SYMMETRY Symmetry
PROPERTY ShownBeforeReplaced
