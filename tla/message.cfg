\* Messages of up to three sub-packets; the client may log in a second time.
SPECIFICATION Spec
CONSTANTS
    ann = ann
    lee = lee
    bell = bell
    empty = empty
    Words <- MCWords
    Names <- MCNames
    Placeholder = empty
    Printable <- MCPrintable
    Jobs = {mage}
    NoJob = NoJob
    Accounts = {a1, a2}
    NoAccount = NoAccount
    Absent = Absent
    Unknown = Unknown
    CountLimit = 3
    StartGameLast = TRUE
    MaxPackets = 3
INVARIANTS
    TypeOK
    AnswerMatchesStore
    
    LeftStaysLeft
PROPERTIES
    AccountsSpec
CHECK_DEADLOCK FALSE
