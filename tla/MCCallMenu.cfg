SPECIFICATION MenuFairSpec
CONSTANTS
    Digits = {one, hash}
    BeepKeys = {one}
    MaxElements = 2
    MaxDigits = 5
INVARIANTS
    MenuListens
PROPERTIES
    DigitsAreTaken
