SPECIFICATION FairSpec
CONSTANTS
  Sends = {q1, q2}
  MaxLinks = 2
  BufferSize = 2
INVARIANTS
  NoSendOnClosedChannel
PROPERTIES
  ImplementsRequestReply
  DropUnblocks
