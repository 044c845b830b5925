SPECIFICATION LineSpec
CONSTANTS
 Lines = {"", "x", "y"}
 MaxLines = 4
INVARIANT TailIsLastLines
CHECK_DEADLOCK FALSE
