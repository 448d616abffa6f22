SPECIFICATION InstallSpec
CONSTANTS
  LaunchAgentCount = 1
INVARIANTS InterruptedActivationIsRestored
CHECK_DEADLOCK FALSE
