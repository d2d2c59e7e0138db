SPECIFICATION FairSpec
CONSTANTS
    Sizes = {s1, s2}
    First = s1
    Zero = Zero
    None = None
    Room = 1
    Wire = 1
    PushWanted = TRUE
    ClipboardWanted = TRUE
    MaxSaid = 3
    MaxPastes = 2
INVARIANTS GoesOutInOrder RemembersRightly
PROPERTIES PushedWhole SendReturns
CHECK_DEADLOCK FALSE
