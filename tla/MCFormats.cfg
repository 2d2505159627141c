\* All 21 message types and texts at the limits; four stores, two savers.
SPECIFICATION MCSpec
CONSTANTS
    MaxCount = 3
    MaxFrame = 60
    Writer = {"reply", "handoff"}
    Programs <- MCPrograms
    Noise = {0, 6}
    Saver = {"s1", "s2"}
    Store <- MCStores
    Chunk = 40
    MaxSaves = 2
INVARIANTS ReceivedAsSent SavedReadsBack NoMixtureIsRead
PROPERTIES ClashCloses EverythingArrives
CHECK_DEADLOCK FALSE
