SPECIFICATION Spec
CONSTANTS
  r1 = r1
  o1 = o1
  o2 = o2
  l1 = l1
  q1 = q1
  n1 = n1
  none = none
  Register <- MCRegister
  OAuth <- MCOAuth
  Login <- MCLogin
  List <- MCList
  NonceOf <- MCNonceOf
  UnlinkAfter = 1
  MaxFaults = 1
SYMMETRY Symmetry
INVARIANTS OneAccount SavedIsListed SignInIsComplete OneSignInPerState
CHECK_DEADLOCK FALSE
