SPECIFICATION ScreensSpec
CONSTANTS
    Fields <- MCFields
    Texts <- MCTexts
    Default <- MCDefault
    MaxInfo = 6
    MaxNumber = 4
    MaxTotal = 18
INVARIANT SavedMeansStored
