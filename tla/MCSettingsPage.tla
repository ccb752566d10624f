--------------------------- MODULE MCSettingsPage ---------------------------
(* Instance of SettingsPage for TLC.                                         *)
EXTENDS SettingsPage
CONSTANT code
OnlyCode    == {code}
CodeAlone   == <<code>>
TelexAndVni == {"TELEX", "VNI"}
TitleOnly   == {Title}
=============================================================================
