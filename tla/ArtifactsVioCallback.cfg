SPECIFICATION Spec
CONSTANTS
  Docs = {d1, a1}
  Audio = {a1}
  Hashed = {a1}
  Inline = inline
  MaxAudio = 1
  Callers = {c1}
  MaxExecutions = 2
  MaxRequeues = 1
  MaxFaults = 0
INVARIANT TerminalIsPosted
CHECK_DEADLOCK FALSE
