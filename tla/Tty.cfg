SPECIFICATION Spec
CONSTANTS
    Codes = {48, 14, 28, 75, 77, 42, 170, 54, 182, 29, 157}
    OutChars = {97}
    LineSize = 3
    Width = 2
    Height = 2
    Slack = 0
    MaxEnd = 4
INVARIANTS
    EchoShown
PROPERTY
    EditsLine
CHECK_DEADLOCK FALSE
