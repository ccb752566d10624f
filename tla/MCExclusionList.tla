-------------------------- MODULE MCExclusionList --------------------------
(* Instance of ExclusionList for TLC.                                        *)
EXTENDS ExclusionList
CONSTANTS code, putty
BothNames == {code, putty}
OnlyCode  == {code}
OnlyPutty == <<putty>>
TitleOnly == {Title}
=============================================================================
