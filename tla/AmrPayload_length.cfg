SPECIFICATION Spec
CONSTANTS
    Bands = {"wb"}
    Layouts = {TRUE}
    FrameTypes <- MCSpeech
    MaxFrames = 2
INVARIANT AllRecovered
CHECK_DEADLOCK FALSE
