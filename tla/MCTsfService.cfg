CONSTANTS
    letter = letter
    Contexts <- OnlyLetter
    TypedKeys <- FewKeys
    Configs <- Telex
    Macros <- OneMacro
    Grants = {"now", "later"}
    MaxText <- OneDocument
    MaxWord = 2
    MaxQueue = 2
SPECIFICATION Spec
INVARIANTS TypeOK WordInComposition
PROPERTIES DelimitersStay DebounceEnds
