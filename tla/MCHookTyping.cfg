CONSTANTS
    editor = editor
    browser = browser
    NoWindow = NoWindow
    Windows <- EditorAndBrowser
    TypedKeys <- FewKeys
    ToggleKeys <- AltZ
    Configs <- TwoMethods
    Macros <- OneMacro
    MaxText <- TwoWindows
    MaxWord = 3
    MaxDown = 1
SPECIFICATION Spec
INVARIANTS TypeOK BookkeepingAgrees WordOnScreen NoReleaseWithoutPress
PROPERTIES TextBeforeWordKept
