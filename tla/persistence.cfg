\* One document of each kind, three operations, one failed write or stop.
SPECIFICATION Spec
CONSTANTS
  Players = {p}
  Deposits = {dep}
  Withdrawals = {out}
  Addresses = {addr}
  Transfers = {tx}
  Settings = {set}
  Owner <- OnePlayer
  StartBalance = 1
  MaxDeeds = 3
  MaxFaults = 1
INVARIANTS LastWriteIsTheRecord SettledAgainOnlyIfUnsaved
PROPERTIES RestartKeepsWhatIsSaved
CHECK_DEADLOCK FALSE
