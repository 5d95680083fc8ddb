CONSTANTS
  mine = mine
  theirs = theirs
  b1 = b1
  b2 = b2
  Mine <- OneMine
  Theirs <- OneTheirs
  Blob <- TwoBlobs
  Attach <- Attached
  Slots <- TwoSlots
  MaxAttachments = 1
  Attempts = 2
  MaxDeliveries = 1
  MaxCrashes = 1
  MaxDeletes = 1
SPECIFICATION FeedSpec
INVARIANTS ActiveIsWorkedOn  OneFetch
PROPERTIES TransfersSettle
CHECK_DEADLOCK FALSE
