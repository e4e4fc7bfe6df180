\* Slots that come in several versions, and the store of their shreds.
SPECIFICATION MCSpec
CONSTANTS
  Keys <- MCKeys
  Genesis <- MCGenesis
  Parents <- MCParents
  Worlds <- MCWorlds
  Ledgers <- MCLedgers
INVARIANTS DuplicatesOK  SlotMetaExact
PROPERTIES ConfirmedIsReplayed ProgressIsSignalled
CHECK_DEADLOCK FALSE
