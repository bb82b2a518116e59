SPECIFICATION BackupSpec
CONSTANTS
    Dirs = {hub, spare}
    Source = hub
    Events = {1, 2, 3}
    None = None
    Budgets <- MCBudgets
INVARIANTS
    RowsHaveBlobs
    SealedSecretsOpen
CHECK_DEADLOCK FALSE
