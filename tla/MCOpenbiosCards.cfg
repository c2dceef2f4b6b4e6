SPECIFICATION FairSpec
CONSTANTS
  port1 = port1 port2 = port2
  Port = {port1, port2}
  Transfers <- MCTransfers
  BlockTransfers <- MCBlockTransfers
  Entries = 2
  Brokens = 2
  Broken <- MCBroken
  BlockSectors = 2
  Chain <- MCChain
  Habits = {}
INVARIANTS
  TransfersExact
PROPERTY Answered
