CONSTANTS
    Initials <- SomeInitials
    Finals <- SomeFinals
    Tones <- SomeTones
    EngineConfigs <- AllMethods
    WrongKeys <- SomeWrongKeys
SPECIFICATION TypistSpec
INVARIANTS TypistTypeOK SyllableTyped ToneOnNucleus
PROPERTIES TransformedStays
