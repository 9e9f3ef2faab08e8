SPECIFICATION Spec
CONSTANTS
    Bands = {"nb", "wb"}
    Layouts = {TRUE, FALSE}
    FrameTypes <- MCFrameTypes
    MaxFrames = 4
INVARIANTS AmrTypeOK PayloadIsSound FramesRecovered
CHECK_DEADLOCK FALSE
