CONSTANTS
    Mainchain = "chain"
    LockModules = {"fee"}
    UserInitFee = 1
    MaxAmount = 1000
    MaxLengthReveals = 2
    MaxWeight = 1000
    Addresses <- MCAddresses
    Transactions <- MCTransactions
    GenesisBalances <- MCBalances
    GenesisNames <- MCNames
    BlsKeyOf <- MCBls
    GeneratorKeyOf <- MCGen
    GenesisSnapshot <- MCSnapshot
    MinFee = 1
    MaxBlockHeightZeroFee = 2
    FeePoolAddress = "v2"
    NoAddress = "none"
    AuthorityRegistrationFee = 1
    Offset = 1
    Distance = 2
    Brackets <- MCBrackets
    RewardReductionFactorBFT = 2
    MaxNumberOfSignatures = 2
    MaxHeight = 7
    MaxIncluded = 2
    MaxOdd = 1
SPECIFICATION Spec
INVARIANTS
    Solvent
    NoncesExact
    VerifiedNeverInvalid
    RegistrationAtomic
    AuthorityDelayed
    RoundEndSucceeds
