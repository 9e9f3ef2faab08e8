SPECIFICATION ScreensSpec
CONSTANTS
    Fields <- MCFields
    Texts <- MCTexts
    Default <- MCDefault
    MaxInfo = 6
    MaxNumber = 4
    MaxTotal = 18
INVARIANTS TypeOK TabNamesView PageIsStored NeverStale InfoFits InfoIsRecent ShownIsInfo
PROPERTY InfoNeverShrinks
