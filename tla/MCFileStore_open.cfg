SPECIFICATION FSpec
CONSTANTS
    Content = {c1}
    MaxSeq = 2
    MaxBody = 2
PROPERTIES
    OpenKeepsNumbers
CHECK_DEADLOCK FALSE
