----------------------------- MODULE HookTyping -----------------------------
(***************************************************************************)
(* Typing through the keyboard hook (engine/hook_manager.cpp): what        *)
(* LowLevelKeyboardProc keeps about the word in progress, and what the     *)
(* application it types into ends up with.                                 *)
(*                                                                         *)
(* The hook sees every key before the application, edits the text by       *)
(* injecting backspaces and characters, and never reads the text back: it  *)
(* works from its own copy of what it believes is left of the caret.  The  *)
(* operating system delivers injected input and passed keys in the order   *)
(* the hook handled them.                                                  *)
(*                                                                         *)
(* Detection of the toggle hotkey (the keys Ctrl, Shift, Alt) comes before *)
(* all this in the procedure and shares no state with it; what is here of  *)
(* it is that Alt+Z takes the press of Z away (HotkeyPress).               *)
(***************************************************************************)
EXTENDS VnEngine, SequencesExt

CONSTANTS
    Windows,    \* windows that can be in the foreground
    NoWindow,   \* GetForegroundWindow() = NULL
    TypedKeys,  \* keys that VkToChar translates, named by their character
    ToggleKeys, \* those that toggle with Alt: Z in the mode TK_ALT_Z, or none
    Configs,    \* values of the shared configuration, see Config
    Macros,     \* the macro file: texts to the texts they stand for
    MaxText,    \* bound: characters each window has left of its caret
    MaxWord,    \* bound: keys in one word
    MaxDown     \* bound: keys held down at once

Navigation == {"left", "right", "up", "down", "home", "end", "delete",
               "pageup", "pagedown", "escape", "function"}
\* Keys that end the word but keep what was saved for reconversion.
Sideways   == {"left", "right"}

\* One key stands for the navigation keys of each kind; insert for the keys
\* that translate to no character.
Keys == TypedKeys \cup {"backspace", "left", "end", "insert"}

Config == [method : Methods, toneType : ToneTypes, freeTone : BOOLEAN,
           spellCheck : BOOLEAN, macros : BOOLEAN, restore : BOOLEAN]

ASSUME HookConstants ==
    /\ Windows # {}
    /\ NoWindow \notin Windows
    /\ Configs # {}
    /\ Configs \subseteq Config
    /\ ToggleKeys \subseteq TypedKeys
    /\ TypedKeys \cap (Navigation \cup {"backspace", "insert"}) = {}
    /\ \A w \in DOMAIN Macros : Macros[w] \in Seq([base : STRING, tone : 0..5])
    /\ MaxText \in [Windows -> Nat]
    /\ {MaxWord, MaxDown} \subseteq Nat \ {0}

VARIABLES
    hook,            \* g_engine, g_lastComposition, g_rawCharCount,
                     \* g_lastCommittedWord, g_lastCommittedTick,
                     \* g_lastCommitDelimiter
    lastMethod,      \* g_engine._currentMethod
    lastForeground,  \* g_hLastForeground
    suppressed,      \* g_suppressedKeys
    config,          \* *g_pConfig
    fg,              \* the foreground window
    text,            \* what each window shows left of its caret
    pressed,         \* keys physically down
    unheard,         \* those of them of which no window has heard a press
    hotkeyed,        \* history: those whose first press was the hotkey
    mixed            \* history: the settings changed during this word

vars == <<hook, lastMethod, lastForeground, suppressed, config, fg, text,
          pressed, unheard, hotkeyed, mixed>>

-----------------------------------------------------------------------------
(* What the hook keeps.                                                      *)

\* ClearHookEngineState, and its copies on a focus change and a mouse click.
ClearedHook == [engine |-> Cleared, last |-> <<>>, count |-> 0,
                word |-> <<>>, tick |-> "none", delim |-> "none"]

\* The last committed word is forgotten, the word in progress is not.
Forgotten(h) == [h EXCEPT !.word = <<>>, !.tick = "none", !.delim = "none"]

\* Mutant: the foreground window is not looked at.
FocusIgnored == hook

\* The start of every key press: a change of the foreground window clears.
Focused == IF fg # lastForeground THEN ClearedHook ELSE hook

\* The committed word expires two seconds after its delimiter.
Unexpired(h) ==
    IF h.word # <<>> /\ h.tick # "recent" THEN Forgotten(h) ELSE h

\* Reconversion: the committed word is fed again when a modifier key follows.
Reconverts(h, ch) ==
    /\ ~IsInWord(h.engine)
    /\ h.word # <<>>
    /\ config.restore
    /\ h.delim \in ReplayEligible
    /\ IsPotentialModifier(ch, config.method)

Refed(h, e) == [h EXCEPT !.engine = e, !.count = Len(e.comp), !.last = e.comp]

Ready(ch) ==
    LET h == Unexpired(Focused)
    IN IF Reconverts(h, ch) THEN Refed(h, FeedContext(h.word, config)) ELSE h

\* The hook after a key the engine answered with composition e.
Composing(e, count) ==
    [ClearedHook EXCEPT !.engine = e, !.last = e.comp, !.count = count]

\* The count after the engine gave up its last key.
\* Mutant: one character less instead of the new length.
CountedDown(e) == Focused.count - 1

EraseCount(e) == Len(e.comp)

\* Mutant: the copy of the text on the screen is forgotten with up, home and
\* the others only.
NavigatedOnScreen(k) ==
    IF k \in Sideways THEN [Focused EXCEPT !.engine = Cleared, !.count = 0]
    ELSE ClearedHook

Navigated(k) ==
    IF k \in Sideways
    THEN [Focused EXCEPT !.engine = Cleared, !.last = <<>>, !.count = 0]
    ELSE ClearedHook

\* Mutant: the raw keys are saved before ProcessKey clears them, and nothing
\* else is changed for the reconversion that this makes possible.
CommittedRaw(h, e, ch) ==
    IF h.last # <<>> /\ ch \in ReplayEligible
    THEN [ClearedHook EXCEPT !.word = h.engine.raw, !.tick = "recent", !.delim = ch]
    ELSE ClearedHook

\* ProcessKey refused ch and cleared the engine to e before the word is saved.
Committed(h, e, ch) ==
    IF h.last # <<>> /\ ch \in ReplayEligible
    THEN [ClearedHook EXCEPT !.word = e.raw, !.tick = "recent", !.delim = ch]
    ELSE ClearedHook

\* The macro that replaces the word a delimiter ends.
Expands(h) ==
    config.macros /\ Focused.count > 0 /\ h.last # <<>> /\ h.last \in DOMAIN Macros

-----------------------------------------------------------------------------
(* What the application shows.                                               *)

\* ReplaceText: one backspace for each character of old beyond the common
\* prefix, then the rest of new.
Replaced(shown, old, new) ==
    LET common  == Len(LongestCommonPrefix({old, new}))
        removed == Len(old) - common
        kept    == IF removed < Len(shown) THEN Len(shown) - removed ELSE 0
    IN SubSeq(shown, 1, kept) \o SubSeq(new, common + 1, Len(new))

Shows(new) ==
    IF fg = NoWindow THEN UNCHANGED text
    ELSE Len(new) <= MaxText[fg] /\ text' = [text EXCEPT ![fg] = new]

Shown == IF fg = NoWindow THEN <<>> ELSE text[fg]

\* The caret moves or a command edits the text; what is right of the caret
\* is not modelled.
CaretMoves == \E n \in 0..Len(Shown) : Shows(SubSeq(Shown, 1, n))

Erases == Shows(IF Shown = <<>> THEN <<>> ELSE Front(Shown))

\* What a key does in the application when nobody works on it.
Types(k) ==
    CASE k \in TypedKeys         -> Shows(Append(Shown, Char(k)))
      [] k = "backspace"         -> Erases
      [] k \in Navigation        -> CaretMoves
      [] OTHER                   -> UNCHANGED text

-----------------------------------------------------------------------------
Init ==
    /\ hook = ClearedHook
    /\ config \in Configs
    /\ lastMethod = config.method
    /\ lastForeground = NoWindow
    /\ suppressed = {}
    /\ fg \in Windows
    /\ text = [w \in Windows |-> <<>>]
    /\ pressed = {}
    /\ unheard = {}
    /\ hotkeyed = {}
    /\ mixed = FALSE

\* The part of a key press common to all branches; auto-repeat presses a key
\* that is down already.
Press(k) ==
    /\ Cardinality(pressed \cup {k}) <= MaxDown
    /\ pressed' = pressed \cup {k}
    /\ lastForeground' = fg
    /\ mixed' = (mixed /\ IsInWord(hook'.engine))
    /\ UNCHANGED <<config, fg, hotkeyed>>

Passes(k) ==
    /\ suppressed' = suppressed \ {k}
    /\ unheard' = unheard \ {k}

\* Mutant: the release of a swallowed key is not remembered.
SwallowsPress(k) ==
    /\ suppressed' = suppressed \ {k}
    /\ unheard' = IF k \in pressed THEN unheard ELSE unheard \cup {k}

Swallows(k) ==
    /\ suppressed' = suppressed \cup {k}
    /\ unheard' = IF k \in pressed THEN unheard ELSE unheard \cup {k}

\* Alt+Z: the press is posted to the manager's window as a toggle and taken
\* from everybody, without a note in g_suppressedKeys.
HotkeyPress(k) ==
    /\ Cardinality(pressed \cup {k}) <= MaxDown
    /\ pressed' = pressed \cup {k}
    /\ IF k \in pressed THEN UNCHANGED <<unheard, hotkeyed>>
       ELSE unheard' = unheard \cup {k} /\ hotkeyed' = hotkeyed \cup {k}
    /\ UNCHANGED <<hook, lastMethod, lastForeground, suppressed, config, fg, text, mixed>>

\* Ctrl or Alt is down: a shortcut of the application.
ShortcutKey(k) ==
    /\ hook' = ClearedHook
    /\ Press(k)
    /\ Passes(k)
    /\ CaretMoves
    /\ UNCHANGED lastMethod

\* The routing decision gave the keys to another owner (without a foreground
\* window it always does), or Vietnamese input is off for the application.
YieldedKey(k) ==
    /\ hook' = ClearedHook
    /\ Press(k)
    /\ Passes(k)
    /\ Types(k)
    /\ UNCHANGED lastMethod

\* The hook owns the key and input is on.
Works == fg # NoWindow

BackspaceInWord ==
    /\ Works
    /\ IsInWord(Focused.engine)
    /\ \E e \in {RemoveLastChar(Focused.engine, [config EXCEPT !.method = lastMethod])} :
          /\ hook' = Composing(e, EraseCount(e))
          /\ Shows(Replaced(Shown, Focused.last, e.comp))
    /\ Press("backspace")
    /\ Swallows("backspace")
    /\ UNCHANGED lastMethod

BackspaceOutside ==
    /\ Works
    /\ ~IsInWord(Focused.engine)
    /\ hook' = Focused
    /\ Press("backspace")
    /\ Passes("backspace")
    /\ Types("backspace")
    /\ UNCHANGED lastMethod

NavigationKey(k) ==
    /\ Works
    /\ hook' = Navigated(k)
    /\ Press(k)
    /\ Passes(k)
    /\ Types(k)
    /\ UNCHANGED lastMethod

\* VkToChar answers 0.
SilentKey ==
    /\ Works
    /\ hook' = Focused
    /\ Press("insert")
    /\ Passes("insert")
    /\ Types("insert")
    /\ UNCHANGED lastMethod

\* ProcessKey answered TRUE: h is what the hook held before the call, e the
\* engine after it.
Accepts(ch, h) ==
    /\ Takes(h.engine, ch, config)
    /\ Len(h.engine.raw) < MaxWord
    /\ lastMethod' = config.method

TransformingKey(ch, h, e) ==
    /\ Accepts(ch, h)
    /\ e.did
    /\ hook' = Composing(e, Len(e.comp))
    /\ Press(ch)
    /\ Swallows(ch)
    /\ Shows(Replaced(Shown, h.last, e.comp))

PlainKey(ch, h, e) ==
    /\ Accepts(ch, h)
    /\ ~e.did
    /\ hook' = Composing(e, h.count + 1)
    /\ Press(ch)
    /\ Passes(ch)
    /\ Types(ch)

\* ProcessKey answered FALSE: the key ends the word.
Refuses(ch, h) ==
    /\ ~Takes(h.engine, ch, config)
    /\ Press(ch)
    /\ Passes(ch)
    /\ UNCHANGED lastMethod

MacroKey(ch, h) ==
    /\ Expands(h)
    /\ hook' = ClearedHook
    /\ Refuses(ch, h)
    /\ Shows(Append(Replaced(Shown, h.last, Macros[h.last]), Char(ch)))

CommittingKey(ch, h, e) ==
    /\ ~Expands(h)
    /\ hook' = Committed(h, e, ch)
    /\ Refuses(ch, h)
    /\ Types(ch)

TypedKey(ch) ==
    /\ Works
    /\ \E h \in {Ready(ch)} : \E e \in {ProcessKey(h.engine, ch, config)} :
          \/ TransformingKey(ch, h, e) \/ PlainKey(ch, h, e)
          \/ MacroKey(ch, h) \/ CommittingKey(ch, h, e)

KeyUp(k) ==
    /\ k \in pressed
    /\ pressed' = pressed \ {k}
    /\ suppressed' = suppressed \ {k}
    /\ unheard' = unheard \ {k}
    /\ hotkeyed' = hotkeyed \ {k}
    /\ UNCHANGED <<hook, lastMethod, lastForeground, config, fg, text, mixed>>

\* LowLevelMouseProc, and the application moving its caret to the click.
MouseDown ==
    /\ hook' = ClearedHook
    /\ mixed' = FALSE
    /\ CaretMoves
    /\ UNCHANGED <<lastMethod, lastForeground, suppressed, config, fg, pressed, unheard,
                   hotkeyed>>

-----------------------------------------------------------------------------
(* The rest of the world.                                                    *)

SwitchWindow ==
    /\ fg' \in (Windows \cup {NoWindow}) \ {fg}
    /\ UNCHANGED <<hook, lastMethod, lastForeground, suppressed, config, text,
                   pressed, unheard, hotkeyed, mixed>>

ChangeConfig ==
    /\ config' \in Configs \ {config}
    /\ mixed' = IsInWord(hook.engine)
    /\ UNCHANGED <<hook, lastMethod, lastForeground, suppressed, fg, text,
                   pressed, unheard, hotkeyed>>

\* GetTickCount64 passes the committed word's two seconds.
ReplayTimePasses ==
    /\ hook.tick = "recent"
    /\ hook' = [hook EXCEPT !.tick = "old"]
    /\ UNCHANGED <<lastMethod, lastForeground, suppressed, config, fg, text,
                   pressed, unheard, hotkeyed, mixed>>

KeyDown ==
    \/ \E k \in Keys : ShortcutKey(k) \/ YieldedKey(k)
    \/ BackspaceInWord \/ BackspaceOutside
    \/ \E k \in Keys \cap Navigation : NavigationKey(k)
    \/ SilentKey
    \/ \E ch \in TypedKeys : TypedKey(ch)

Next ==
    \/ KeyDown
    \/ \E k \in ToggleKeys : HotkeyPress(k)
    \/ \E k \in Keys : KeyUp(k)
    \/ MouseDown
    \/ SwitchWindow
    \/ ChangeConfig
    \/ ReplayTimePasses

Spec == Init /\ [][Next]_vars

-----------------------------------------------------------------------------
(* Properties.                                                               *)

TypeOK ==
    /\ hook.engine.raw \in Seq(TypedKeys)
    /\ hook.engine.did \in BOOLEAN
    /\ hook.count \in Nat
    /\ hook.word \in Seq(TypedKeys)
    /\ hook.tick \in {"none", "recent", "old"}
    /\ hook.delim \in ReplayEligible \cup {"none"}
    /\ lastMethod \in Methods
    /\ lastForeground \in Windows \cup {NoWindow}
    /\ suppressed \subseteq Keys
    /\ config \in Configs
    /\ fg \in Windows \cup {NoWindow}
    /\ \A w \in Windows : Len(text[w]) <= MaxText[w]
    /\ pressed \subseteq Keys
    /\ unheard \subseteq pressed
    /\ hotkeyed \subseteq pressed
    /\ mixed \in BOOLEAN

(* The three records of the word in progress never part: the engine's        *)
(* composition, the text the hook believes it put on the screen, and the     *)
(* count that macro expansion asks for, through every branch that clears     *)
(* some of them by hand.                                                     *)
BookkeepingAgrees ==
    /\ hook.last = hook.engine.comp
    /\ hook.count > 0 <=> IsInWord(hook.engine)

(* A word in progress stands right before the caret of the window it was     *)
(* typed in, exactly as the engine composed it, so that the next replacement *)
(* deletes that word.  With spell check, or when the settings change in the  *)
(* middle of the word, it does not hold.                                     *)
WordOnScreen ==
    IsInWord(hook.engine) /\ ~config.spellCheck /\ ~mixed
        => /\ lastForeground # NoWindow
           /\ IsSuffix(hook.last, text[lastForeground])

\* What the window shows before the word in progress.
Before(shown, word) == SubSeq(shown, 1, Len(shown) - Len(word))

\* The part of the word in progress that is in window w.
WordIn(w) == IF lastForeground = w THEN hook.last ELSE <<>>

(* Whatever key leaves a word in progress (its first, one that transforms    *)
(* it, a backspace), empties it (a backspace) or replaces it by a macro, the *)
(* text the window had before that word is still there: a replacement        *)
(* deletes what the hook typed and nothing else.  As with WordOnScreen, not  *)
(* with spell check and not after a change of the settings in the middle of  *)
(* the word.                                                                 *)
TextBeforeWordKept ==
    [][ ~config.spellCheck /\ ~mixed
        => LET w == lastForeground' IN
           /\ IsInWord(hook'.engine) \/ BackspaceInWord
                 => Before(text[w], WordIn(w)) = Before(text'[w], hook'.last)
           /\ (\E ch \in TypedKeys : MacroKey(ch, Ready(ch)))
                 => IsPrefix(Before(text[w], WordIn(w)), text'[w]) ]_vars

(* A key of which every press was kept from all windows is not released to  *)
(* any: the hook that swallowed its presses swallows the release, whatever   *)
(* owner changes, focus changes, hotkeys and repeated presses came in        *)
(* between.  The exception is the Z of Alt+Z, of which the hook takes the    *)
(* press without a note (hook_manager.cpp:294) and passes the release on.    *)
(* A window may still see the release of a key that another window saw       *)
(* pressed: that is so without the hook too.                                 *)
NoReleaseWithoutPress == unheard \ hotkeyed \subseteq suppressed

=============================================================================
