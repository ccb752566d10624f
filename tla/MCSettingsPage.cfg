CONSTANTS
    code = code
    Names <- OnlyCode
    Defaults <- CodeAlone
    Manager = Manager
    TsfApps <- OnlyCode
    Title = Title
    Hint = Hint
    Wide <- TitleOnly
    NoFile = NoFile
    Unread = Unread
    MaxList = 2
    Others <- TelexAndVni
    DefaultOther = "VNI"
    NoPage = NoPage
    NoSwitch = NoSwitch
    MaxActs = 4
    MaxQueue = 3
SPECIFICATION Spec
INVARIANTS TypeOK FreshCopy
PROPERTY SyncKept
CHECK_DEADLOCK FALSE
