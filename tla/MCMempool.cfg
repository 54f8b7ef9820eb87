SPECIFICATION FairSpec
CONSTANTS
  Coin = {"c1", "c2", "o1"}
  BaseCoins = {"c1", "c2"}
  Tx <- MCTx
  Input <- MCInput
  Output <- MCOutput
  Fee <- MCFee
  Size <- MCSize
  Class <- MCClass
  Batch <- MCBatch
  Ext = {"btc"}
  BaseTip <- MCBaseTip
  Handler = {"h1"}
  MaxEntries = 2
  MinRate = 1
  MinFee = 1
  Limits = {1, 2}
  MaxForeign = 1
  MaxUpsets = 1
INVARIANTS TypeOK PoolValid DiskFollows 
PROPERTIES PayingStays Confirms
CHECK_DEADLOCK FALSE
