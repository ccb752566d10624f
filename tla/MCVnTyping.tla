----------------------------- MODULE MCVnTyping -----------------------------
(* Instances of VnTyping for TLC.                                            *)
EXTENDS VnTyping

\* No initial, a plain one, the two that look like vowels, one that only goes
\* with front vowels, one that is a marked letter.
SomeInitials == {<<>>, <<"t", "r">>, <<"q", "u">>, <<"g", "i">>,
                 <<"n", "g", "h">>, <<"dd">>}

\* Open, a stop (which takes the tones 1 and 5 only) and a nasal.
SomeFinals == {<<>>, <<"c">>, <<"n", "g">>}

SomeTones == {0, 1, 2}

\* A vowel, marks and tones of the three methods.
SomeWrongKeys == {"o", "w", "6", "1", "horn"}

Strict(method) == [method |-> method, toneType |-> "MODERN", freeTone |-> FALSE,
                   spellCheck |-> TRUE]
Free(method)   == [method |-> method, toneType |-> "MODERN", freeTone |-> TRUE,
                   spellCheck |-> FALSE]
Classic(method) == [Free(method) EXCEPT !.toneType = "CLASSIC"]
AllMethods == {Strict(m) : m \in Methods} \cup {Free(m) : m \in Methods}
                \cup {Classic("TELEX")}
=============================================================================
