------------------------------ MODULE VnEngine ------------------------------
(***************************************************************************)
(* The composition engine (engine/vn_engine.cpp) and the Vietnamese        *)
(* orthography it consults (engine/vn_ortho.cpp), as operators.            *)
(*                                                                         *)
(* A key is the character it types.  A character of the composition is a   *)
(* base and a tone; a base is a key or a marked letter, named the way it   *)
(* is typed in Telex ("aa" is a with circumflex, "dd" is d with stroke).   *)
(* Letter case is left out: it follows the typed key everywhere.           *)
(***************************************************************************)
EXTENDS Integers, Sequences, FiniteSetsExt

Methods   == {"TELEX", "VNI", "VIQR"}
ToneTypes == {"MODERN", "CLASSIC"}

Letters == {"a", "b", "c", "d", "e", "f", "g", "h", "i", "j", "k", "l", "m",
            "n", "o", "p", "q", "r", "s", "t", "u", "v", "w", "x", "y", "z"}
Digits  == {"0", "1", "2", "3", "4", "5", "6", "7", "8", "9"}
\* The punctuation of VIQR, by what it stands for.
ViqrTones == <<"acute", "grave", "hook", "tilde", "dot">>
ViqrMarks == {ViqrTones[t] : t \in 1..5} \cup {"circumflex", "breve", "horn"}

ReplayEligible == {" ", "tab", "return"}
HardBoundary   == ReplayEligible \cup {"-"}

Doubled == [a |-> "aa", e |-> "ee", o |-> "oo", d |-> "dd"]
Horned  == [a |-> "aw", o |-> "ow", u |-> "uw"]

ModifiedVowels == {"aa", "ee", "oo", "ow", "uw", "aw"}
Vowels == {"a", "e", "i", "o", "u", "y"} \cup ModifiedVowels
\* The letters of a word, before it has a tone.
Unaccented == Letters \cup ModifiedVowels \cup {"dd"}

\* active_tone = -1: the word has no tone key in effect.
NoTone == -1

TelexTones == [s |-> 1, f |-> 2, r |-> 3, x |-> 4, j |-> 5, z |-> 0]
VniTones   == {"0", "1", "2", "3", "4", "5"}

\* The engine object: _raw, _composition and _didTransform.
Cleared == [raw |-> <<>>, comp |-> <<>>, did |-> FALSE]

IsInWord(e) == e.raw # <<>>

\* A character as a key: a vowel with a tone is named by its base and the
\* number of the tone ("a1" is a with acute), any other by its base.
Name(c) ==
    IF c.tone = 0 THEN c.base ELSE c.base \o <<"1", "2", "3", "4", "5">>[c.tone]

Accented ==
    LET toned == [base : Vowels, tone : 1..5]
    IN [n \in {Name(c) : c \in toned} |-> CHOOSE c \in toned : Name(c) = n]

\* No letter without a tone has the name of one with a tone.
ASSUME NamesApart == Unaccented \cap DOMAIN Accented = {}

\* Characters with these bases; a tone stands on a vowel.
CharactersOver(bases) == [base : bases, tone : {0}] \cup [base : Vowels, tone : 1..5]

Char(ch) == IF ch \in DOMAIN Accented THEN Accented[ch] ELSE [base |-> ch, tone |-> 0]

Literal(raw) == [i \in DOMAIN raw |-> Char(raw[i])]

VowelsOf(text) == {i \in DOMAIN text : text[i].base \in Vowels}

-----------------------------------------------------------------------------
(* What one key does.                                                        *)

\* What iswalpha accepts.
Alphabetic == Unaccented \cup DOMAIN Accented

IsWordChar(ch, method, raw) ==
    \/ ch \in Alphabetic
    \/ raw # <<>> /\ method = "VNI" /\ ch \in Digits
    \/ raw # <<>> /\ method = "VIQR" /\ ch \in ViqrMarks

IsPotentialModifier(ch, method) ==
    CASE method = "VNI"   -> ch \in Digits
      [] method = "TELEX" -> ch \in DOMAIN TelexTones \cup {"w", "d"}
      [] method = "VIQR"  -> ch \in ViqrMarks \cup {"d"}

InitialPairs == {<<"c", "h">>, <<"g", "h">>, <<"g", "i">>, <<"k", "h">>,
                 <<"n", "g">>, <<"n", "h">>, <<"p", "h">>, <<"q", "u">>,
                 <<"t", "h">>, <<"t", "r">>}

\* Mutant: only the first key is part of an initial.
IsFirst(raw, n) == n = 1

IsPartOfInitial(raw, n) == n = 1 \/ <<raw[n - 1], raw[n]>> \in InitialPairs

\* The tone the n-th key asks for, NoTone when it is not a tone key there.
ToneAsked(raw, n, method) ==
    LET ch == raw[n] IN
    CASE method = "TELEX" /\ ch \in DOMAIN TelexTones /\ ~IsPartOfInitial(raw, n)
           -> TelexTones[ch]
      [] method = "VNI" /\ ch \in VniTones /\ n > 1
           -> Min({t \in 0..5 : ch = <<"0", "1", "2", "3", "4", "5">>[t + 1]})
      [] method = "VIQR" /\ n > 1 /\ \E t \in 1..5 : ViqrTones[t] = ch
           -> Min({t \in 1..5 : ViqrTones[t] = ch})
      [] OTHER -> NoTone

\* The last of these letters, 0 if there is none.
LastOf(text, letters) ==
    LET found == {i \in DOMAIN text : Name(text[i]) \in letters}
    IN IF found = {} THEN 0 ELSE Max(found)

\* The character of text the n-th key puts a mark on, 0 if it marks none.
Marked(text, ch, n, method) ==
    CASE \/ method = "TELEX" /\ ch \in {"a", "e", "o", "d"}
         \/ method = "VIQR" /\ ch = "d"
           -> IF text # <<>> /\ Name(text[Len(text)]) = ch THEN Len(text) ELSE 0
      [] method = "TELEX" /\ ch = "w"
           -> LastOf(text, {"o", "u", "a"})
      [] n > 1 /\ <<method, ch>> \in {<<"VNI", "6">>, <<"VIQR", "circumflex">>}
           -> LastOf(text, {"a", "e", "o"})
      [] n > 1 /\ <<method, ch>> \in {<<"VNI", "7">>, <<"VIQR", "horn">>}
           -> LastOf(text, {"o", "u"})
      [] n > 1 /\ <<method, ch>> \in {<<"VNI", "8">>, <<"VIQR", "breve">>}
           -> LastOf(text, {"a"})
      [] n > 1 /\ method = "VNI" /\ ch = "9"
           -> LastOf(text, {"d"})
      [] OTHER -> 0

\* Horn and breve keys; those that turn a whole uo into two horned vowels.
HornKeys == {"w", "7", "8", "horn", "breve"}
UoKeys   == {"w", "7"}

Mark(text, i, ch) ==
    LET base == text[i].base IN
    [j \in DOMAIN text |->
        IF j = i
        THEN Char(IF ch \in HornKeys THEN Horned[base] ELSE Doubled[base])
        ELSE IF j = i - 1 /\ ch \in UoKeys /\ base = "o" /\ Name(text[j]) = "u"
        THEN Char("uw")
        ELSE text[j]]

\* A word being scanned: its text without tone, the tone asked for last, and
\* whether a tone key typed twice has become a letter.
ScanStart == [text |-> <<>>, tone |-> NoTone, escaped |-> FALSE]

Appended(w, ch) == [w EXCEPT !.text = Append(@, Char(ch))]

ToneKey(w, ch, tone, free) ==
    IF (~free /\ VowelsOf(w.text) = {}) \/ w.escaped
    THEN Appended(w, ch)
    ELSE IF w.tone = tone
    THEN [Appended(w, ch) EXCEPT !.tone = NoTone, !.escaped = TRUE]
    ELSE [w EXCEPT !.tone = tone]

ScanKey(w, raw, n, cfg) ==
    LET tone == ToneAsked(raw, n, cfg.method)
        i    == Marked(w.text, raw[n], n, cfg.method)
    IN IF tone # NoTone THEN ToneKey(w, raw[n], tone, cfg.freeTone)
       ELSE IF i # 0 THEN [w EXCEPT !.text = Mark(@, i, raw[n])]
       ELSE Appended(w, raw[n])

Scan(raw, cfg) ==
    LET scanned[n \in 0..Len(raw)] ==
          IF n = 0 THEN ScanStart ELSE ScanKey(scanned[n - 1], raw, n, cfg)
    IN scanned[Len(raw)]

-----------------------------------------------------------------------------
(* Where the tone goes (ApplyToneToResult).                                  *)

\* First and last character of the last group of vowels.
GroupEnd(text)   == Max(VowelsOf(text))
GroupStart(text) ==
    Min({i \in 1..GroupEnd(text) : i..GroupEnd(text) \subseteq VowelsOf(text)})

\* Mutant: gi is forgotten.
OnlyQu == {<<"q", "u">>}

VowelInitials == {<<"q", "u">>, <<"g", "i">>}

OpenOnSecond == {<<"o", "a">>, <<"o", "e">>, <<"u", "y">>}

ModernTarget(text) ==
    LET marked == {i \in VowelsOf(text) : text[i].base \in ModifiedVowels}
        last   == GroupEnd(text)
        first  == GroupStart(text)
        start  == IF /\ 1 < first /\ first < last
                     /\ <<text[first - 1].base, text[first].base>> \in VowelInitials
                  THEN first + 1 ELSE first
        count  == last - start + 1
        closed == last < Len(text)
    IN CASE Cardinality(marked) = 1 -> Min(marked)
         [] OTHER ->
              IF count = 2 /\ ~closed /\ <<text[start].base, text[last].base>> \in OpenOnSecond
              THEN last
              ELSE IF count = 1 THEN start
              ELSE IF count = 2 THEN IF closed THEN last ELSE start
              ELSE start + 1

ToneTarget(text, toneType) ==
    IF toneType = "CLASSIC" THEN GroupStart(text) ELSE ModernTarget(text)

\* The tones that are there already go.
ApplyTone(text, tone, toneType) ==
    IF tone = NoTone \/ VowelsOf(text) = {}
    THEN text
    ELSE LET target == ToneTarget(text, toneType)
         IN [i \in DOMAIN text |-> [text[i] EXCEPT !.tone = IF i = target THEN tone ELSE 0]]

\* ApplyTelexRules, ApplyVniRules and ApplyViqrRules.
ApplyRules(raw, cfg) ==
    LET w == Scan(raw, cfg) IN ApplyTone(w.text, w.tone, cfg.toneType)

-----------------------------------------------------------------------------
(* The orthography of a syllable (vn_ortho.cpp).                             *)

VALID_INITIALS ==
    {<<"b">>, <<"c">>, <<"c", "h">>, <<"d">>, <<"dd">>, <<"g">>, <<"g", "h">>,
     <<"g", "i">>, <<"h">>, <<"k">>, <<"k", "h">>, <<"l">>, <<"m">>, <<"n">>,
     <<"n", "g">>, <<"n", "g", "h">>, <<"n", "h">>, <<"p">>, <<"p", "h">>,
     <<"q", "u">>, <<"r">>, <<"s">>, <<"t">>, <<"t", "h">>, <<"t", "r">>,
     <<"v">>, <<"x">>}

VALID_FINALS ==
    {<<>>, <<"c">>, <<"c", "h">>, <<"m">>, <<"n">>, <<"n", "g">>, <<"n", "h">>,
     <<"p">>, <<"t">>}

StopFinals == {<<"c">>, <<"c", "h">>, <<"p">>, <<"t">>}

VALID_VOWEL_CLUSTERS ==
    {<<v>> : v \in Vowels} \cup
    {<<"a", "i">>, <<"a", "o">>, <<"a", "u">>, <<"a", "y">>, <<"aa", "u">>,
     <<"aa", "y">>, <<"e", "o">>, <<"ee", "u">>, <<"i", "u">>, <<"o", "a">>,
     <<"o", "e">>, <<"o", "i">>, <<"oo", "i">>, <<"ow", "i">>, <<"u", "a">>,
     <<"u", "ee">>, <<"u", "i">>, <<"u", "y">>, <<"uw", "a">>, <<"uw", "i">>,
     <<"uw", "u">>, <<"i", "a">>, <<"i", "ee">>, <<"y", "ee">>, <<"y", "a">>,
     <<"u", "oo">>, <<"uw", "ow">>, <<"o", "aw">>, <<"o", "aa">>, <<"u", "aa">>,
     <<"u", "ow">>, <<"u", "y", "ee">>, <<"u", "y", "a">>, <<"u", "y", "u">>,
     <<"u", "y", "u", "ee">>, <<"i", "ee", "u">>, <<"o", "a", "i">>,
     <<"o", "a", "o">>, <<"o", "a", "y">>, <<"u", "aa", "y">>, <<"u", "oo", "i">>,
     <<"uw", "ow", "i">>, <<"uw", "ow", "u">>, <<"y", "ee", "u">>}

Bases(text) == [i \in DOMAIN text |-> text[i].base]

\* The bases of the vowels, without whatever stands between them.
VowelBases(text) ==
    LET isVowel(c) == c.base \in Vowels IN Bases(SelectSeq(text, isVowel))

\* The last tone above 0 of the word.
ToneOf(text) ==
    LET toned == {i \in VowelsOf(text) : text[i].tone > 0}
    IN IF toned = {} THEN 0 ELSE text[Max(toned)].tone

Decompose(text) ==
    LET first  == Min(VowelsOf(text))
        last   == Max(VowelsOf(text))
        vowels == VowelBases(text)
        taken  == first = 2 /\ Len(vowels) > 1 /\
                  \/ text[1].base = "q" /\ vowels[1] = "u"
                  \/ text[1].base = "g" /\ text[2] = Char("i")
    IN [initial |-> IF taken THEN Bases(SubSeq(text, 1, 1)) \o <<vowels[1]>>
                    ELSE Bases(SubSeq(text, 1, first - 1)),
        vowels  |-> IF taken THEN Tail(vowels) ELSE vowels,
        final   |-> Bases(SubSeq(text, last + 1, Len(text))),
        tone    |-> ToneOf(text)]

PartsValid(p) ==
    /\ p.initial = <<>> \/ p.initial \in VALID_INITIALS
    /\ p.vowels \in VALID_VOWEL_CLUSTERS
    /\ p.final \in VALID_FINALS
    /\ p.final \in StopFinals => p.tone \in {0, 1, 5}
    /\ p.initial \in {<<"k">>, <<"g", "h">>, <<"n", "g", "h">>}
         => p.vowels[1] \in {"e", "ee", "i", "y"}
    /\ p.initial \in {<<"c">>, <<"g">>, <<"n", "g">>} /\ p.vowels[1] \in {"e", "ee", "i"}
         => p.initial = <<"g">> /\ p.vowels[1] = "i"

IsSyllableValid(text) == VowelsOf(text) = {} \/ PartsValid(Decompose(text))

-----------------------------------------------------------------------------
(* The operations of the engine.  cfg holds the method of the key and the    *)
(* settings ApplyTypingSettingsToEngine copied from the configuration.       *)

Recomputed(raw, cfg) ==
    LET result == ApplyRules(raw, cfg)
    IN [raw |-> raw, comp |-> result, did |-> result # Literal(raw)]

\* ProcessKey answers TRUE: the key belongs to the word.
Takes(e, ch, cfg) == ch \notin HardBoundary /\ IsWordChar(ch, cfg.method, e.raw)

Reverted(raw) == [raw |-> raw, comp |-> Literal(raw), did |-> FALSE]

\* Mutant: the spell check setting is not asked.
RejectedAlways(new, cfg) == new.did /\ ~IsSyllableValid(new.comp)

Rejected(new, cfg) == cfg.spellCheck /\ new.did /\ ~IsSyllableValid(new.comp)

ProcessKey(e, ch, cfg) ==
    IF ~Takes(e, ch, cfg) THEN Cleared
    ELSE LET raw == Append(e.raw, ch)
             new == Recomputed(raw, cfg)
         IN IF Rejected(new, cfg) THEN Reverted(raw) ELSE new

\* Mutant: the flag of the longer word is kept.
RemoveKeepingFlag(e, cfg) ==
    IF e.raw = <<>> THEN e
    ELSE [Recomputed(SubSeq(e.raw, 1, Len(e.raw) - 1), cfg) EXCEPT !.did = e.did]

\* RemoveLastChar applies the rules of the method of the last key, and no
\* spell check.
RemoveLastChar(e, cfg) ==
    IF e.raw = <<>> THEN e
    ELSE Recomputed(SubSeq(e.raw, 1, Len(e.raw) - 1), cfg)

FeedContext(seed, cfg) ==
    LET fed[n \in 0..Len(seed)] ==
          IF n = 0 THEN Cleared ELSE ProcessKey(fed[n - 1], seed[n], cfg)
    IN fed[Len(seed)]

=============================================================================
