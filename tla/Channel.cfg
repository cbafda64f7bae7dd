CONSTANTS
    Size = 2
    Pieces = 8
    Messages = 2
    Advertised <- Args
    CopyPaste = FALSE
SPECIFICATION ChannelFairSpec
INVARIANT PipeFaithful
PROPERTY EndReachesBrowser
CHECK_DEADLOCK FALSE
