SPECIFICATION Spec
CONSTANTS
    Fields <- MCFields
    Shown <- MCShown
    Name = "name"
    Texts <- MCTexts
    Blank <- MCBlank
    Initial = 2
    MaxId = 4
INVARIANTS TypeOK IndexesInRange EveryEntryExists FormIsStored NoCopies
PROPERTIES FormTouchesItsContact DeadEntriesStayDead
