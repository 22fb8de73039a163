CONSTANTS
  Objects = {1, 2}
  AllRights = {"read", "write", "send", "recv", "delegate", "revoke", "observe"}
  DELEGATE = "delegate"
  MaxCap = 5
  Setups <- CrashSetups
  Mortal = {"root", "app", "net0"}
  Slow = TRUE
SPECIFICATION Spec
INVARIANTS SuccessIsUnanimous
PROPERTIES NoUseAfterRevoke EveryoneStops
CHECK_DEADLOCK FALSE
