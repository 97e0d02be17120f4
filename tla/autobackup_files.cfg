\* The timer beside one client that exports by hand or asks for the status;
\* up to two mishaps in rotations.
CONSTANTS
    Tickers = {tick}
    Manuals = {}
    Exporters = {client}
    Viewers = {client}
    Offered <- KeepOrNot
    MaxMishaps = 2
SPECIFICATION Spec
INVARIANTS
    TypeOK
    CopiesRestorable
