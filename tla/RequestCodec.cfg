\* Frames of up to 10 payload bytes (two-digit headers), reads of up to 5
\* bytes, and a header bound of 1 so that CheckHeader can reject a header.
CONSTANTS
    MaxLen = 10
    BufSize = 5
    MaxScriptSize = 1
SPECIFICATION Spec
INVARIANTS TypeOK SingleReadRoundTrip
\* After the frame the session waits on the socket for a next request.
CHECK_DEADLOCK FALSE
