CONSTANTS
    \* Streams
    Byte <- MCByte
    Zero = 0
    kExtraBytes = 2
    Base = 8
    kChecksumBytes = 1
    Types = {"Query", "Answer"}
    TypeBytes <- MCTypeBytes
    CodecKinds <- MCCodecs
    Messages <- MCMessages
    Handled = {"Query"}
    MaxSent = 3
SPECIFICATION StreamsSpec
INVARIANT EofFramesDelivered
CHECK_DEADLOCK FALSE
