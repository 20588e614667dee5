SPECIFICATION Spec
CONSTANTS
  Invoices = {i1}
  Hashes = {h1}
  NoHash = NoHash
  Workers = {w1}
  NoInvoice = NoInvoice
  Clients = {c1, c2}
  QueueSize = 1
  MaxRetries = 1
  Malformed = {}
  MaxDBFaults = 0
  MaxSubmits = 1
  MaxStops = 0
  MaxUuids = 3
  OldRows = {}
SYMMETRY Symmetry
PROPERTIES
  HashFrozen
