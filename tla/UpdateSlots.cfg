CONSTANTS
    None = None
    First = v1
    Versions = {v1, v2, v3, v4}
    Updaters = {u1}
    Faults = {"io", "health", "kill"}
SPECIFICATION SlotSpec
INVARIANTS ActiveSlotsIntact LinksFollowManifest
PROPERTY AtomicPair
