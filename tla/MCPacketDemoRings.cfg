CONSTANTS
  Objects = {1, 2}
  AllRights = {"read", "write", "send", "recv", "delegate", "revoke", "observe"}
  DELEGATE = "delegate"
  MaxCap = 5
  Setups <- TwinSetups
  Mortal = {}
  Slow = FALSE
SPECIFICATION Spec
INVARIANTS RingsArePrivate
