CONSTANTS
    editor = editor
    browser = browser
    NoApp = NoApp
    Manager = Manager
    Nobody = Nobody
    Apps <- EditorAndBrowser
    TsfApps <- OnlyEditor
    Excludable <- OnlyBrowser
    StartupModes <- HookAndScoped
    SeqMod = 1
    MaxKeys = 1
SPECIFICATION Spec
INVARIANTS OneInputPath
