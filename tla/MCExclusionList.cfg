CONSTANTS
    code = code
    putty = putty
    Names <- BothNames
    Defaults <- OnlyPutty
    Manager = Manager
    TsfApps <- OnlyCode
    Title = Title
    Hint = Hint
    Wide <- TitleOnly
    NoFile = NoFile
    Unread = Unread
    MaxList = 2
SPECIFICATION ListSpec
PROPERTY SavedListExcludes
