SPECIFICATION BuildSpec
CONSTANTS
    NumClasses = 2
    MaxVersion = 1
    Opts = {O1, O3}
    Flags <- MCPlain
    Parallel = TRUE
    Missing = Missing
    Torn = Torn
    NoJob = NoJob
SYMMETRY OptSymmetry
PROPERTY
    LevelChangeReemits
