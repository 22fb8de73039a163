CONSTANTS
  Objects = {1, 2}
  AllRights = {"read", "write", "send", "recv", "delegate", "revoke", "observe"}
  DELEGATE = "delegate"
  MaxCap = 5
  Setups <- Builtin
  Mortal = {"net0"}
  Slow = FALSE
SPECIFICATION Spec
INVARIANTS CrashIsContained
CHECK_DEADLOCK FALSE
