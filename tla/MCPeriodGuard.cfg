SPECIFICATION FairSpec
CONSTANTS
  reserve = reserve  approve = approve  bulk = bulk
  Txs = {reserve, approve, bulk}
  Admins = {admin}
  Months = {1, 2}
  Calls <- MCCalls
  Serializable = {bulk}
  MaxTxRetries = 2
  NoOne = NoOne
PROPERTIES ImplementsBooks EveryTransactionEnds
