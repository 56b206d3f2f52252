SPECIFICATION Spec
CONSTANTS
  ann = ann
  bob = bob
  eve = eve
  reply = reply
  mention = mention
  invitation = invitation
  Users = {ann, bob, eve}
  Keys = {reply, mention, invitation}
  Batches <- MCBatches
  Cards <- MCCards
  Txs = {t1, t2}
INVARIANTS TypeOK CounterMatchesRows
PROPERTIES ImplementsLedger TxsEnd
