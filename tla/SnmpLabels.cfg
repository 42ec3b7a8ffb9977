\* The labels of a table, as an attribute of its rows reads them.
CONSTANTS
  Width = 5
  Half = 3
  Mantissa = 3
  Host = "10.0.0.1"
  Port = "161"
  Groups <- MCGroups
  Indexes = {1, 2}
  Interfaces = {"eth0", "eth1", "lo"}
  NoInterface = "none"
  Rows <- MCRows
  Scalars <- MCScalars
  Bytes <- MCBytes
  MaxChanges = 2
  MaxFailures = 1
  Requests <- MCRequests
SPECIFICATION Spec
INVARIANT LabelsReadable
