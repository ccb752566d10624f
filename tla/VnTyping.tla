------------------------------ MODULE VnTyping ------------------------------
(***************************************************************************)
(* Somebody types one Vietnamese syllable into the composition engine:     *)
(* letters in order, each with the keys its input method spells it with,   *)
(* the tone key at any moment after the first vowel (or earlier, where the *)
(* settings allow it), wrong keys and Backspace in between.                *)
(*                                                                         *)
(* The engine recomputes the word from all its keys at every key           *)
(* (VnEngine), so what must come out right is the interplay of the rules   *)
(* for marks, tones, spelling and tone placement on every such path.       *)
(***************************************************************************)
EXTENDS VnEngine

CONSTANTS
    Initials,    \* initial consonants of the syllables to type
    Finals,      \* final consonants
    Tones,       \* tones
    EngineConfigs, \* settings of the engine
    WrongKeys    \* keys hit by mistake

ASSUME TypingConstants ==
    /\ Initials \subseteq VALID_INITIALS \cup {<<>>}
    /\ Finals \subseteq VALID_FINALS
    /\ Tones \subseteq 0..5
    /\ EngineConfigs \subseteq [method : Methods, toneType : ToneTypes,
                               freeTone : BOOLEAN, spellCheck : BOOLEAN]

VARIABLES
    cfg,       \* the settings
    goal,      \* the syllable wanted: initial, vowels, final, tone
    keys,      \* keys still to press for its letters
    toneAt,    \* position of the tone key among those pressed, 0 before it
    wrong,     \* the last key pressed was a mistake
    vnEngine   \* the engine: _raw, _composition, _didTransform

typistVars == <<cfg, goal, keys, toneAt, wrong, vnEngine>>

-----------------------------------------------------------------------------
(* The syllables and how they are typed.                                     *)

LettersOf(g) == g.initial \o g.vowels \o g.final

Parts == [initial : Initials, vowels : VALID_VOWEL_CLUSTERS,
          final : Finals, tone : Tones]

\* Syllables that the orthography accepts and reads the way they are meant.
Syllables ==
    {g \in Parts : /\ PartsValid(g)
                   /\ Decompose(Literal(LettersOf(g))) = [g EXCEPT !.tone = 0]}

\* The horn key turns every uo into a pair of horned vowels in TELEX and VNI,
\* so u before a horned o can be typed in VIQR only.
UoPair(letters) ==
    \E i \in 1..(Len(letters) - 1) : letters[i] = "u" /\ letters[i + 1] = "ow"

Typable(g, method) == method = "VIQR" \/ ~UoPair(LettersOf(g))

MarkKey == [
    TELEX |-> [aa |-> "a", ee |-> "e", oo |-> "o", dd |-> "d",
               aw |-> "w", ow |-> "w", uw |-> "w"],
    VNI   |-> [aa |-> "6", ee |-> "6", oo |-> "6", dd |-> "9",
               aw |-> "8", ow |-> "7", uw |-> "7"],
    VIQR  |-> [aa |-> "circumflex", ee |-> "circumflex", oo |-> "circumflex",
               dd |-> "d", aw |-> "breve", ow |-> "horn", uw |-> "horn"]]

Unmarked == [aa |-> "a", ee |-> "e", oo |-> "o", dd |-> "d",
             aw |-> "a", ow |-> "o", uw |-> "u"]

KeysOf(letter, method) ==
    IF letter \in DOMAIN Unmarked
    THEN <<Unmarked[letter], MarkKey[method][letter]>>
    ELSE <<letter>>

Spelling(letters, method) ==
    LET spelled[n \in 0..Len(letters)] ==
          IF n = 0 THEN <<>> ELSE spelled[n - 1] \o KeysOf(letters[n], method)
    IN spelled[Len(letters)]

TonesKeys == [TELEX |-> <<"s", "f", "r", "x", "j">>,
              VNI   |-> <<"1", "2", "3", "4", "5">>,
              VIQR  |-> ViqrTones]

-----------------------------------------------------------------------------
TypistInit ==
    /\ cfg \in EngineConfigs
    /\ goal \in {g \in Syllables : Typable(g, cfg.method)}
    /\ keys = Spelling(LettersOf(goal), cfg.method)
    /\ toneAt = 0
    /\ wrong = FALSE
    /\ vnEngine = Cleared

Press(ch) ==
    /\ ~wrong
    /\ Takes(vnEngine, ch, cfg)
    /\ vnEngine' = ProcessKey(vnEngine, ch, cfg)
    /\ UNCHANGED <<cfg, goal>>

LetterKey ==
    /\ keys # <<>>
    /\ Press(Head(keys))
    /\ keys' = Tail(keys)
    /\ UNCHANGED <<toneAt, wrong>>

\* After the first vowel, or after the initial with free tone marking: a tone
\* key inside an initial would split it (t, s, r is not tr).
ToneTime ==
    \/ VowelsOf(vnEngine.comp) # {}
    \/ cfg.freeTone /\ IsInWord(vnEngine) /\ Len(vnEngine.comp) >= Len(goal.initial)

ToneKeyPress ==
    /\ goal.tone > 0
    /\ toneAt = 0
    /\ ToneTime
    /\ Press(TonesKeys[cfg.method][goal.tone])
    /\ toneAt' = Len(vnEngine.raw) + 1
    /\ UNCHANGED <<keys, wrong>>

WrongKey(ch) ==
    /\ IsInWord(vnEngine)
    /\ Press(ch)
    /\ wrong' = TRUE
    /\ UNCHANGED <<keys, toneAt>>

\* Backspace, and the key it took has to be pressed again.
TakeBack ==
    /\ IsInWord(vnEngine)
    /\ vnEngine' = RemoveLastChar(vnEngine, cfg)
    /\ wrong' = FALSE
    /\ LET n == Len(vnEngine.raw) IN
       CASE wrong        -> UNCHANGED <<keys, toneAt>>
         [] toneAt = n   -> toneAt' = 0 /\ UNCHANGED keys
         [] OTHER        -> keys' = <<vnEngine.raw[n]>> \o keys /\ UNCHANGED toneAt
    /\ UNCHANGED <<cfg, goal>>

TypistNext ==
    \/ LetterKey
    \/ ToneKeyPress
    \/ \E ch \in WrongKeys : WrongKey(ch)
    \/ TakeBack

TypistSpec == TypistInit /\ [][TypistNext]_typistVars

-----------------------------------------------------------------------------
(* Properties.                                                               *)

(* Types, and the flag that the hook decides by: DidTransform is TRUE        *)
(* exactly when the composition differs from the keys.                       *)
TypistTypeOK ==
    /\ \A i \in DOMAIN vnEngine.comp : vnEngine.comp[i].tone \in 0..5
    /\ Len(vnEngine.comp) <= Len(vnEngine.raw)
    /\ vnEngine.did = (vnEngine.comp # Literal(vnEngine.raw))
    /\ toneAt \in 0..Len(vnEngine.raw)
    /\ wrong \in BOOLEAN

Finished == keys = <<>> /\ ~wrong /\ (toneAt > 0 \/ goal.tone = 0)

(* Every syllable of the orthography tables can be typed in every input      *)
(* method, with spell check on or off, wherever its tone key was pressed and *)
(* whatever was typed by mistake and taken back.                             *)
SyllableTyped ==
    Finished => Bases(vnEngine.comp) = LettersOf(goal) /\ ToneOf(vnEngine.comp) = goal.tone

\* The modern rules, for a syllable whose parts are known: a single marked
\* vowel; else the second of two before a final and of oa, oe, uy; else the
\* last but one.
Nucleus(g) ==
    LET n      == Len(g.vowels)
        marked == {i \in 1..n : g.vowels[i] \in ModifiedVowels}
    IN IF Cardinality(marked) = 1 THEN Max(marked)
       ELSE IF n = 1 \/ (n = 2 /\ (g.final # <<>> \/ g.vowels \in OpenOnSecond)) THEN n
       ELSE n - 1

(* The finished syllable carries its tone on its nucleus and nowhere else:   *)
(* the engine, which sees a flat row of characters, finds the same vowel as  *)
(* the rule stated for initial, vowels and final.                            *)
ToneOnNucleus ==
    Finished /\ cfg.toneType = "MODERN" /\ goal.tone > 0 =>
        {i \in DOMAIN vnEngine.comp : vnEngine.comp[i].tone > 0}
            = {Len(goal.initial) + Nucleus(goal)}

(* Without spell check a word the engine has transformed stays transformed   *)
(* while keys are added.  The hook relies on it: it redraws the word only    *)
(* when DidTransform says so, and lets the key through otherwise.            *)
TransformedStays ==
    [][ vnEngine.did /\ Len(vnEngine'.raw) > Len(vnEngine.raw) /\ ~cfg.spellCheck
        => vnEngine'.did ]_typistVars

=============================================================================
