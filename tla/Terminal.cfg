SPECIFICATION RunSpec
CONSTANTS
    None = None
    MAX_DISPLAY_BODY_CHARS = 2
    LastDay = 50000
    MaxWords = 4
    Columns = 2
    Ports <- MCPorts
    Words <- MCWords
    Numbers <- MCNumbers
    Spelling <- MCSpelling
    Accounts <- MCAccounts
    Inboxes <- MCInboxes
CHECK_DEADLOCK FALSE
INVARIANTS DatesFollow ShowsFirstPart DoesWhatItNames ClientIsRefusedFirst SuccessIsWhole
