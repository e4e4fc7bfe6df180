\* The token program, its multisignature accounts and address lookup tables.
SPECIFICATION MCSpec
CONSTANTS
  None = None
  m1 = m1
  t0 = t0
  t1 = t1
  t2 = t2
  k0 = k0
  k1 = k1
  k2 = k2
  k3 = k3
  k4 = k4
  both = both
  NativeMint = native
  MultisigSigners <- BothSign
  MultisigM <- Two
  Reserve = 1
  MaxLamports = 2
  U64_MAX = 4
  Casts <- MCCasts
  SignerKeys = {s1, s2}
  MAX_SIGNERS = 3
  MaxPassed = 3
  Authorities = {a1}
  Addresses = {d1, d2}
  Err = Err
  SLOT_MAX = 5
  MAX_ENTRIES = 2
  MAX_ADDRESSES = 2
  MaxSkip = 2
  MaxExtend = 2
  MaxTables = 2
  MaxDonated = 1
SYMMETRY Symmetry
INVARIANTS TokensBacked CountsPositions TablesOK
PROPERTIES  LookupsStay
CHECK_DEADLOCK FALSE
