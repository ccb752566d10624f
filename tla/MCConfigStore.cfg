CONSTANTS
    editor = editor
    viewer = viewer
    NoApp = NoApp
    CutName = CutName
    Manager = Manager
    NoConfig = NoConfig
    NoStore = NoStore
    NoFile = NoFile
    Torn = Torn
    Nothing = Nothing
    Apps <- EditorAndViewer
    LongNames <- OnlyViewer
    TsfApps <- OnlyEditor
    Slots = 2
    Others <- TelexAndVni
    ZeroOther = "TELEX"
    DefaultOther = "VNI"
SPECIFICATION Spec
INVARIANTS TypeOK SettingsSurviveExit
PROPERTIES ImplementsSwitch ToggleIsItsApps SeedKept
