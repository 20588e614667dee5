SPECIFICATION IssuingSpec
CONSTANTS
  Invoices = {i1, i2}
  Hashes = {}
  NoHash = NoHash
  Workers = {w1}
  NoInvoice = NoInvoice
  Clients = {c1}
  QueueSize = 1
  MaxRetries = 1
  Malformed = {}
  MaxDBFaults = 0
  MaxSubmits = 1
  MaxStops = 0
  MaxUuids = 3
  OldRows = {i2}
PROPERTIES
  NumberArrives
