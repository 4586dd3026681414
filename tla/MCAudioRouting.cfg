CONSTANTS
    c1 = c1
    c2 = c2
    Sip = Sip
    Calls = {c1, c2}
    MaxSlot = 2
    MaxBegins = 2
    MaxOps = 2
    MaxDowns = 1
SPECIFICATION Spec
INVARIANTS SoundMatches ConferenceMatches MenuIsPrivate
SYMMETRY Symmetry
CHECK_DEADLOCK FALSE
