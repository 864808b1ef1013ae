CONSTANTS
    Slots = {s1, s2}
    Images = {i1, i2}
    Nothing = Nothing
    Torn = Torn

SPECIFICATION Spec

INVARIANTS
    TypeOK
    WindowTellsTheDisk
    PictureOfTheSlot

PROPERTY
    ImplementsSlotRegister
