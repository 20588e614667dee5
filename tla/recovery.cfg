SPECIFICATION FairSpec
CONSTANTS
  Invoices = {i1, i2}
  Hashes = {}
  NoHash = NoHash
  Workers = {w1}
  NoInvoice = NoInvoice
  Clients = {c1}
  QueueSize = 1
  MaxRetries = 1
  Malformed = {i2}
  MaxDBFaults = 0
  MaxSubmits = 1
  MaxStops = 1
  MaxUuids = 3
  OldRows = {}
PROPERTIES
  IssuedIsRecorded
