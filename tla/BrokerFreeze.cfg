CONSTANTS
  CompileRequired = TRUE
  MaxToolCalls = 3
  MaxPatchCalls = 1
  MaxRejected = 2
  MaxExploratory = 1
  PpaMaxExecutions = 1
  Reserve = TRUE
  Backlog = 1
  CallBound = 4
SPECIFICATION Spec
CHECK_DEADLOCK FALSE
PROPERTY FreezeStopsMutation
