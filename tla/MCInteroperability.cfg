SPECIFICATION Spec
CONSTANTS
  Mainchain = "M"
  Sidechains = {"A", "B"}
  Faulty = {"B"}
  Slow = {"B"}
  Address = {"u", "r"}
  Relayer = "r"
  Tokens <- MCTokens
  LockModules = {"fee"}
  Amounts = {1}
  FaultyAmounts = {4}
  Fees = {1}
  UserInitFee = 1
  MaxAmount = 100
  MinReturnFee = 1
  Listing = {"M"}
  Open = {"B"}
  Endowment = 2
  MaxMessages = 6
  FaultyKinds = {"transfer", "channelTerminated"}
  MaxFaulty = 2
INVARIANTS
    TokensBacked
    ActiveAfterRegistration
PROPERTIES
    TerminatedIsFinal
CHECK_DEADLOCK FALSE
