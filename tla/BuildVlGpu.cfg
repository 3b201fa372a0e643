SPECIFICATION BuildSpec
CONSTANTS
    NumClasses = 2
    MaxVersion = 2
    Opts = {O1, O3}
    Flags <- MCFlags
    Parallel = TRUE
    Missing = Missing
    Torn = Torn
    NoJob = NoJob
SYMMETRY OptSymmetry
INVARIANT
    BuildTypeOK
    MetaDescribesModule
PROPERTY
    FullBuildIsCurrent
