SPECIFICATION Spec
CONSTANTS
  Loose = Loose
  Stack = Stack
  Toggles = {Plain, Loose, Stack}
  Composed = {Stack}
  Normal <- MCNormal
  Forces = {FALSE}
  Names = {p}
  None = None
VIEW SessionView
INVARIANTS TypeOK RecoveryClearedOnSuccess LastRunRestored
