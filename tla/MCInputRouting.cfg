CONSTANTS
    editor = editor
    browser = browser
    NoApp = NoApp
    Manager = Manager
    Nobody = Nobody
    Apps <- EditorAndBrowser
    TsfApps <- EditorAndBrowser
    Excludable <- OnlyBrowser
    StartupModes <- OnlyHookPrimary
    SeqMod = 1
    MaxKeys = 1
SPECIFICATION Spec
INVARIANTS TypeOK StoredOwnerConsistent HookPrimaryOnePath HookPrimaryKeepsKeys ExclusionObeyed
