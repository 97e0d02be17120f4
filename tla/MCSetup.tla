------------------------------ MODULE MCSetup ------------------------------
\* Model checking of Setup.  The bootstrap modes of a run: an archive that
\* needs no key is replaced by a copy just as an existing database is.
EXTENDS Setup

RunModes == {"fresh", "demo_dataset", "existing_db", "same_db", "encrypted_backup", "client_only"}
============================================================================
