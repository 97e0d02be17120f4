SPECIFICATION FairSpec
CONSTANTS
    Callers = {c1, c2}
    Modes <- RunModes
    MaxMishaps = 1
    None = None
INVARIANTS TypeOK ConfiguredHasAdmin SuccessIsTrue RuntimeReadsLiveFile
PROPERTY SetupRepeatable
