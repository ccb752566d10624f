---------------------------- MODULE MCHookTyping ----------------------------
(* Instances of HookTyping for TLC.                                          *)
EXTENDS HookTyping
CONSTANTS editor, browser
EditorAndBrowser == {editor, browser}
TwoWindows       == [w \in EditorAndBrowser |-> IF w = editor THEN 3 ELSE 1]

Settings(method, macros) ==
    [method |-> method, toneType |-> "MODERN", freeTone |-> TRUE,
     spellCheck |-> FALSE, macros |-> macros, restore |-> TRUE]

\* A vowel, a modifier of VNI, one of TELEX that also toggles, and a boundary.
FewKeys    == {"a", "1", "z", " "}
AltZ       == {"z"}
TwoMethods == {Settings("VNI", TRUE), Settings("TELEX", FALSE)}

\* The keyword is what the hook put on the screen for "a1".
OneMacro == [w \in {<<[base |-> "a", tone |-> 1]>>} |-> <<Char("z")>>]
=============================================================================
