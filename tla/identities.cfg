\* A home with two connected frames that may share an address, or with two served ones; two
\* user actions, or one with two frames that both have a GUID.
SPECIFICATION Spec
CONSTANTS
  g = g h = h n = n a1 = a1 a2 = a2 a3 = a3
  dev = dev serial = serial number = number other = other otherNumber = otherNumber
  x = x y = y
  Lan = {g, h, n}
  Guidless = {n}
  Ip = {a1, a2, a3}
  Leases <- MCLeases
  Serial = {dev, serial, number, other, otherNumber}
  Owner <- MCOwner
  Requests <- MCRequests
  Numeric <- MCNumeric
  Homes = {{g, n}, {g, h}, {x, y}}
  None = None
  Edits <- MCEdits
INVARIANTS AliasesResolve SameDeviceSameFrame KeepsToFrame DeliveredIsCached
PROPERTIES NothingLost NameSticks
