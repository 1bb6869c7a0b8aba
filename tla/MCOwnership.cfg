SPECIFICATION MigrationSpec
CONSTANTS
    Process = {p1, p2}
    Client = {c1}
    NumShards = 2
    Script = {a, b}
    NoScript = NoScript NoProcess = NoProcess
    Inspector = {p1}
    Yielding = {p1, p2}
    Ambiguous = {}
INVARIANTS PeersBlock
