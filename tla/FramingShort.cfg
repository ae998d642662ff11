SPECIFICATION Spec
CONSTANTS
    frame_size = 3
    Chunks = {0, 1, 2, 3, 4, 5, 7, 8}
    MaxFed = 20
INVARIANT FramesAlwaysInput
