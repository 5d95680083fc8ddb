SPECIFICATION MCSpec
CONSTANTS
  alice = alice
  bob = bob
  carol = carol
  big = big
  small = small
  huge = huge
  empty = empty
  r1 = r1
  r2 = r2
  NoReq = NoReq
  NoTransfer = NoTransfer
  Missing = Missing
  Garbled = Garbled
  Node = {alice, bob, carol}
  Hash = {big, small, huge, empty}
  Id = {1, 2}
  Req = {r1, r2}
  Chunks <- AllChunks
  TooBig = {huge}
  MaxAttempts = 1
  Fragile <- OneLink
  Deletable <- OneBlob
INVARIANTS StoredIsWhole Isolation
PROPERTIES KeepsPromise Delivered Quiesces
CHECK_DEADLOCK FALSE
