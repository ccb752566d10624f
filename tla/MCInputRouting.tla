--------------------------- MODULE MCInputRouting ---------------------------
(* Instances of InputRouting for TLC.                                        *)
EXTENDS InputRouting
CONSTANTS editor, browser
EditorAndBrowser == {editor, browser}
OnlyEditor       == {editor}
OnlyBrowser      == {browser}
AllModes         == Modes
HookAndScoped    == {"HOOK_PRIMARY", "FALLBACK_SCOPED"}
OnlyHookPrimary  == {"HOOK_PRIMARY"}
=============================================================================
