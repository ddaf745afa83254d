SPECIFICATION Spec
CONSTANTS
  MaxSessions = 2
  MaxUp = 2
  MaxDown = 1
  MaxFaults = 1
PROPERTIES
  ImplementsChannel
  GoesOn
CHECK_DEADLOCK FALSE
