SPECIFICATION Spec
CONSTANTS
  Browsers = {"b1", "b2", "b3"}
  PersonOf <- MCPersonOf
  Emails = {"e1"}
  IdOf <- MCIdOf
  MaxAccounts = 6
  Envs <- MCEnvs
INVARIANTS
  AccountsInv
PROPERTIES
  ComesBack
  Answered
CHECK_DEADLOCK FALSE
