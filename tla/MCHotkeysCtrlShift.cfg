CONSTANTS
    lctrl = lctrl
    rctrl = rctrl
    lshift = lshift
    lalt = lalt
    CtrlKeys <- TwoCtrls
    ShiftKeys <- Shifts
    AltKeys <- Alts
    F6 = F6
    F9 = F9
    Z = Z
    Texts <- OneText
    OldTexts <- PlainText
    MaxPosted = 1
    MaxInjected = 2
SPECIFICATION Spec
PROPERTY CtrlShiftToggles
CHECK_DEADLOCK FALSE
