SPECIFICATION Spec
CONSTANTS
  MaxOrder = 8
  Size <- MCSize
  HeaderSize = 16
  Quantum = 16
  Request <- MCRequest
  MaxIds = 3
INVARIANTS TypeOK NoOverlap Aligned HeaderAgrees AdmitsWhatFits Accounting
PROPERTY ImplementsContract
