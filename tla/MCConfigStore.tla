--------------------------- MODULE MCConfigStore ---------------------------
(* Instances of ConfigStore for TLC.                                         *)
EXTENDS ConfigStore
CONSTANTS editor, viewer
EditorAndViewer == {editor, viewer}
OnlyEditor      == {editor}
OnlyViewer      == {viewer}
TelexAndVni     == {"TELEX", "VNI"}
=============================================================================
