SPECIFICATION PacketSpec
CONSTANTS
    TypeTags <- MCTypeTags
    MaxMessages = 2
    FullWords = {0, 2}
    MaxSets = 2
    Cap = 30
CHECK_DEADLOCK FALSE
INVARIANTS PacketInv ReceivedAsWritten BundleNotOverrun
