SPECIFICATION FairSpec
CONSTANTS
    bgra = bgra
    rgba = rgba
    unset = unset
    Versions <- Announced
    Offers <- Offered
    Formats = {bgra, rgba}
    Unset = unset
    Wanted <- Asked
    Options <- Advertised
    Passwords = {right, wrong}
    Secret = right
    NoPassword = none
    First = 1
    Longest = 4
    Keeps = {TRUE, FALSE}
    AsksLater = FALSE
    MaxFaults = 2
INVARIANTS ShakenHands
PROPERTIES QuitHeard
CHECK_DEADLOCK FALSE
