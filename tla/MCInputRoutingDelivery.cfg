CONSTANTS
    editor = editor
    browser = browser
    NoApp = NoApp
    Manager = Manager
    Nobody = Nobody
    Apps <- EditorAndBrowser
    TsfApps <- OnlyEditor
    Excludable <- OnlyBrowser
    StartupModes <- AllModes
    SeqMod = 3
    MaxKeys = 1
SPECIFICATION FairSpec
INVARIANTS StoredOwnerConsistent
PROPERTIES SequenceMoves KeysDelivered
