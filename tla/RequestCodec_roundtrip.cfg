\* Frames of up to 10 payload bytes cut into reads of up to 3 bytes; the
\* header bound is never reached, as with MAX_SCRIPT_SIZE in the code.
CONSTANTS
    MaxLen = 10
    BufSize = 3
    MaxScriptSize = 100
SPECIFICATION Spec
INVARIANT RoundTrip
CHECK_DEADLOCK FALSE
