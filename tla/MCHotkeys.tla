----------------------------- MODULE MCHotkeys -----------------------------
(* Instance of Hotkeys for TLC.                                             *)
EXTENDS Hotkeys
CONSTANTS lctrl, rctrl, lshift, lalt
Ctrls    == {lctrl}
TwoCtrls == {lctrl, rctrl}
Shifts   == {lshift}
Alts     == {lalt}
\* "o" with horn and grave, capital "a" with circumflex and dot, "a", "d" with
\* stroke.  No mark of theirs is itself a Vietnamese letter: converted over and
\* over, a text with such a mark never stops growing.
OneText    == { <<\h1EDD, \h1EAC, 97, \h111>> }
PlainText  == { <<120>> }
=============================================================================
