SPECIFICATION Spec
CONSTANTS
  Workers = {w1, w2}
  Enabled = {"static"}
  MaxRetries = 1
  Budget <- OneCancel
PROPERTY TerminalIsImmutable
