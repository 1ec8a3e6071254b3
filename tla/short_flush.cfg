SPECIFICATION Spec
CONSTANTS
    Lengths <- MCLengths
    Hdr = 2
    MaxQLen = 1
    StreamLen = 8
    Slack = 2
    Interrupted = {"flush", "send"}
    MaxMessages = 3
PROPERTIES ChannelSpec
