CONSTANTS
    sample = sample
    a1 = a1
    a2 = a2
    a1new = a1new
    docA = docA
    Threads = {t1, t2}
    Chunks = {sample, a1, a2, a1new}
    IdOf <- MCIdOf
    DocOf <- MCDocOf
    Uploads <- MCUploads
    Samples <- MCSamples
    Names = {sample, docA}
    Relevant = {sample, a2}
    Error = Error
    None = None
SPECIFICATION UseSpec
CONSTRAINT BeforeClash
INVARIANTS RowsAgree FailsOnlyByOverlap SearchesSoundly KeepsWhatItReports
