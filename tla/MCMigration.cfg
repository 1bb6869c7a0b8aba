SPECIFICATION FairMigrationSpec
CONSTANTS
    Process = {p1, p2}
    Client = {c1}
    NumShards = 2
    Script = {a}
    NoScript = NoScript NoProcess = NoProcess
    Inspector = {p1}
    Yielding = {p1, p2}
    Ambiguous = {"begin", "advance", "finalize"}
INVARIANTS MigrationTypeOK JournalPrefix AdmissionSound NeverDegraded ScriptOnce MigrationInv
PROPERTIES DrainEnds
