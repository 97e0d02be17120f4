\* The timer and a run by hand, backups being switched on and off, and a
\* mishap in a rotation.
CONSTANTS
    Tickers = {tick}
    Manuals = {manual}
    Exporters = {}
    Viewers = {}
    Offered <- OnOrOff
    MaxMishaps = 1
SPECIFICATION FairSpec
INVARIANTS
    FlagNeverStuck
    SomeCopyRestorable
PROPERTIES
    DueBackupRuns
