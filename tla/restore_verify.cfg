\* One uploaded backup is verified.
CONSTANTS
    Posted = {r1}
    ours = ours
    damaged = damaged
    foreign = foreign
    legacy = legacy
    Backups <- Files
    Contents <- Inside
SPECIFICATION RestoreSpec
INVARIANT UploadVerified
