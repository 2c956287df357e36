SPECIFICATION Spec
CONSTANTS
    main = main
    side = side
    Branches <- Forks
    MaxHeight = 3
    MaxPublished = 2
    PlainKeys = FALSE
    LowerTips = FALSE
    Crashes = TRUE
INVARIANTS
    NeverContradictsItself
    OwnBlockAccepted
    InfoCoversPublished
SYMMETRY EitherFork
CHECK_DEADLOCK FALSE
