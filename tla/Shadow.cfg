SPECIFICATION Spec
CONSTANTS
  Regs = {a, b}
  Bottom = 2
  Top = 6
  Data = {1}
  AddressSize = 2
INVARIANTS
  TypeOK
  ReportsEarned
  TrustEarned
SYMMETRY Symmetry
