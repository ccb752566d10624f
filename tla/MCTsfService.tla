---------------------------- MODULE MCTsfService ----------------------------
(* Instances of TsfService for TLC.                                          *)
EXTENDS TsfService
CONSTANTS letter
OnlyLetter  == {letter}
OneDocument == [c \in OnlyLetter |-> 3]

FewKeys == {"a", "s", " "}
Telex   == {[method |-> "TELEX", toneType |-> "MODERN", freeTone |-> TRUE,
             spellCheck |-> FALSE, macros |-> TRUE, restore |-> TRUE]}

OneMacro == [w \in {<<[base |-> "a", tone |-> 1]>>} |-> <<Char("s"), Char("a")>>]
=============================================================================
