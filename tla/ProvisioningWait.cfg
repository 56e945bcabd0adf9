SPECIFICATION Spec
CONSTANTS
  Loops <- CodeLoops
INVARIANTS
  Backoff
  NoticedPromptly
CHECK_DEADLOCK FALSE
