CONSTANTS
  FirstVirtualRegister = 32
  Functions = 2
  FunctionAt <- MCFunctionAt
  Objects <- MCObjects
  Targets <- MCTargets
  Budgets <- MCBudgets
  Classes = {gpr, fpr}
  Opcodes = {1}
  Graphs <- MCGraphs
SPECIFICATION CaptureSpec
INVARIANTS
  RegistersHaveOrigins
  AttemptsPair
  MotionRowsAreExact
  FilesAreSound
CHECK_DEADLOCK FALSE
