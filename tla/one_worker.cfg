SPECIFICATION Spec
CONSTANTS
  Invoices = {i1}
  Hashes = {}
  NoHash = NoHash
  Workers = {w1}
  NoInvoice = NoInvoice
  Clients = {c1, c2}
  QueueSize = 2
  MaxRetries = 2
  Malformed = {}
  MaxDBFaults = 1
  MaxSubmits = 2
  MaxStops = 1
  MaxUuids = 3
  OldRows = {}
SYMMETRY Symmetry
INVARIANTS
  CompletedHasExternalId
  IssuedOnce
  RetryBudget
PROPERTIES
  ExternalIdStable
  RetryCountMonotone
  CompletedIsTerminal
