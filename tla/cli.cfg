SPECIFICATION Spec
CONSTANTS
    Runs = {lint, other}
    Plans <- TwoRuns
    MaxEntries = 2
    MaxRestarts = 1
    MaxKills = 1
    Settings = {"port", "mode"}
    Notified = {"port"}
    Ports = {"port"}
    Torn = Torn
    lint = lint
    other = other
INVARIANTS HistoryIsConsistent SettingsAreKept ErrorsAreReported
PROPERTY RunsEnd
CHECK_DEADLOCK FALSE
