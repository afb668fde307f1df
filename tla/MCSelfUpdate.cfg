SPECIFICATION Spec
PROPERTY UpdateArrives
CHECK_DEADLOCK FALSE
CONSTANTS
  Targets = {"guestkitd", "zyvor-guest-agent"}
  Latest = 2
  MaxFaults = 0
