SPECIFICATION Spec
CONSTANTS
  Invoices = {i1}
  Hashes = {h1}
  NoHash = NoHash
  Workers = {w1, w2}
  NoInvoice = NoInvoice
  Clients = {c1}
  QueueSize = 1
  MaxRetries = 1
  Malformed = {}
  MaxDBFaults = 1
  MaxSubmits = 1
  MaxStops = 0
  MaxUuids = 3
  OldRows = {}
SYMMETRY Symmetry
INVARIANTS
  TypeOK
  CompletedWasIssued
  ExternalIdGenuine
  IssuedOnce
  DraftNeverSent
  HistoryGenuine
  IssuanceInv
PROPERTIES
  HashFrozen
  ImplementsContract
