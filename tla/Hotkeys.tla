------------------------------ MODULE Hotkeys ------------------------------
(***************************************************************************)
(* The key combinations the manager acts on: the toggle the keyboard hook  *)
(* watches for (hook_manager.cpp), and the two hotkeys of the clipboard    *)
(* toolkit, which copy the selection, convert it and paste it back         *)
(* (toolkit/clipboard.cpp).  The hook, the window procedure and the        *)
(* toolkit run on one thread: while the toolkit sleeps no key reaches the  *)
(* hook.  The keys it injects wait in the application's own queue.         *)
(***************************************************************************)
EXTENDS Charset

CONSTANTS
    CtrlKeys, ShiftKeys, AltKeys, F6, F9, Z,
    Texts,      \* what the user selects or types
    OldTexts,   \* what other programs put on the clipboard
    MaxPosted,  \* bound: messages waiting in the manager's queue
    MaxInjected \* bound: injected combinations the application has not read

Modifiers == CtrlKeys \cup ShiftKeys \cup AltKeys
Keys      == Modifiers \cup {F6, F9, Z}

ASSUME HotkeyConstants ==
    /\ {F6, F9, Z} \cap Modifiers = {}
    /\ <<>> \notin Texts \cup OldTexts
    /\ {MaxPosted, MaxInjected} \subseteq Nat

VARIABLES
    toggleKey, charset, \* the two settings read here; ConfigStore changes them
    held,       \* modifiers physically down
    async,      \* modifiers GetAsyncKeyState reports down
    flags,      \* g_bCtrlDown, g_bShiftDown, g_bOtherKeyPressed, g_bAltDown
    missed,     \* history: the hook was not told of the release of an Alt key
    posted,     \* WM_COMMAND and WM_HOTKEY messages of the manager's window
    toolkit,    \* the conversion in progress, or Idle
    clipboard,  \* its text, <<>> if none
    selection,  \* the text selected in the application
    injected,   \* Ctrl+C and Ctrl+V the application has still to read
    wanted,     \* history: what the last replacement is to paste
    course      \* history: what has happened to it since

keyVars  == <<toggleKey, charset, held, async, flags, missed>>
clipVars == <<toolkit, clipboard, selection, injected, wanted, course>>
vars     == <<keyVars, posted, clipVars>>

Idle == "idle"

ToggleKeys == {"CTRL_SHIFT", "ALT_Z"}
Commands   == {"TOGGLE", "CONVERT", "STRIP"}
Jobs       == {"STRIP", "TCVN3", "VNI_WIN"}
Courses    == {"straight", "late", "spoiled"}

Down(keys) == keys \cap async # {}

-----------------------------------------------------------------------------
\* The keyboard hook.  It is called before the asynchronous key state changes:
\* the key whose release it is told of still counts as down.

FlagsOnCtrlShift(k, press) ==
    CASE k \in CtrlKeys /\ press -> [flags EXCEPT !.ctrl = TRUE]
      [] k \in ShiftKeys /\ press -> [flags EXCEPT !.shift = TRUE]
      [] k \in CtrlKeys /\ ~press /\ ~Down(CtrlKeys) ->
            [flags EXCEPT !.ctrl = FALSE, !.other = FALSE]
      [] k \in ShiftKeys /\ ~press /\ ~Down(ShiftKeys) ->
            [flags EXCEPT !.shift = FALSE, !.other = FALSE]
      [] k \notin CtrlKeys \cup ShiftKeys /\ press /\ (flags.ctrl \/ flags.shift) ->
            [flags EXCEPT !.other = TRUE]
      [] OTHER -> flags

\* Mutant: the release of Alt is passed on before the flag is cleared.
FlagsOnAltZPressed(k, press) ==
    IF k \in AltKeys THEN [flags EXCEPT !.alt = press \/ flags.alt] ELSE flags

FlagsOnAltZ(k, press) ==
    IF k \in AltKeys THEN [flags EXCEPT !.alt = press] ELSE flags

Toggles(k, press) ==
    IF toggleKey = "CTRL_SHIFT"
    THEN /\ ~press
         /\ \/ k \in CtrlKeys /\ ~Down(CtrlKeys)
            \/ k \in ShiftKeys /\ ~Down(ShiftKeys)
         /\ flags.ctrl /\ flags.shift /\ ~flags.other
    ELSE k = Z /\ press /\ flags.alt

LowLevelKeyboardProc(k, press) ==
    /\ flags' = IF toggleKey = "CTRL_SHIFT" THEN FlagsOnCtrlShift(k, press)
                                           ELSE FlagsOnAltZ(k, press)
    /\ missed' = (missed /\ k \notin AltKeys)

\* RegisterHotKey(MOD_CONTROL | MOD_SHIFT): the system posts WM_HOTKEY for a
\* press the hook has let through, and for its repeats.
HotkeyOf(k, press) ==
    IF press /\ Down(CtrlKeys) /\ Down(ShiftKeys) /\ ~Down(AltKeys)
    THEN CASE k = F6 -> <<"CONVERT">> [] k = F9 -> <<"STRIP">> [] OTHER -> <<>>
    ELSE <<>>

\* A modifier goes down, repeats or goes up; of the other keys only presses and
\* repeats matter here.
KeyMoves(k, press) ==
    /\ ~press => k \in held
    /\ held' = IF press THEN held \cup ({k} \cap Modifiers) ELSE held \ {k}
    /\ async' = IF press THEN async \cup ({k} \cap Modifiers) ELSE async \ {k}
    /\ UNCHANGED <<toggleKey, charset>>

\* The hook is told.
Key(k, press) ==
    /\ toolkit = Idle
    /\ KeyMoves(k, press)
    /\ LowLevelKeyboardProc(k, press)
    /\ posted' = posted \o (IF Toggles(k, press) THEN <<"TOGGLE">> ELSE <<>>)
                        \o HotkeyOf(k, press)
    /\ Len(posted') <= MaxPosted
    /\ UNCHANGED clipVars

\* The modifier goes to the desktop of the lock screen or of a consent prompt,
\* or the manager's thread kept the system waiting longer than it allows a hook.
KeyUnseen(k, press) ==
    /\ k \in Modifiers
    /\ KeyMoves(k, press)
    /\ missed' = (missed \/ (~press /\ k \in AltKeys))
    /\ UNCHANGED <<flags, posted, clipVars>>

-----------------------------------------------------------------------------
\* The clipboard toolkit.

Converted(job, text) ==
    IF job = "STRIP" THEN StripAccentsString(text) ELSE FromUnicode(text, job)

\* No key the user still holds alters a combination that is injected now.
Undisturbed == ~Down(ShiftKeys \cup AltKeys)

\* SimulateCtrlKey: the application sees the Shift or Alt the user still
\* holds, and the injected release of Ctrl counts for the user's key.
SimulateCtrlKey(letter) ==
    /\ Len(injected) < MaxInjected
    /\ injected' = Append(injected,
                     [key |-> letter, plain |-> Undisturbed])
    /\ async' = async \ CtrlKeys
    /\ UNCHANGED <<toggleKey, charset, held, flags, missed>>

\* ToggleInputState is modelled by InputSwitch and ConfigStore.
ToggleCommand ==
    /\ toolkit = Idle /\ posted # <<>> /\ Head(posted) = "TOGGLE"
    /\ posted' = Tail(posted)
    /\ UNCHANGED <<keyVars, clipVars>>

\* The conversion a hotkey asks for; there is none from Unicode to Unicode.
Asked(command) == IF command = "STRIP" THEN "STRIP" ELSE charset

\* Mutant: the test for equal charsets is dropped.
SameCharsetNever(job) == FALSE

SameCharset(job) == job = "UNICODE"

\* HandleHotkey, to the Sleep(100) of StripSelectedTextAccents or
\* ConvertSelectedTextCharset.
HandleHotkey ==
    /\ toolkit = Idle /\ posted # <<>> /\ Head(posted) # "TOGGLE"
    /\ posted' = Tail(posted)
    /\ LET job == Asked(Head(posted))
       IN IF SameCharset(job) THEN UNCHANGED <<keyVars, clipVars>>
          ELSE /\ SimulateCtrlKey("C")
               /\ toolkit' = job
               /\ wanted' = Converted(job, selection)
               /\ course' = IF injected = <<>> /\ selection # <<>> /\ Undisturbed
                            THEN "straight" ELSE "spoiled"
               /\ UNCHANGED <<clipboard, selection>>

\* The sleep ends; the text on the clipboard, whosever it is, is converted and
\* pasted.
ConvertClipboard ==
    /\ toolkit # Idle /\ clipboard # <<>>
    /\ clipboard' = Converted(toolkit, clipboard)
    /\ toolkit' = Idle
    /\ SimulateCtrlKey("V")
    /\ UNCHANGED <<posted, selection, wanted, course>>

\* Mutant: a conversion that fails is followed by the paste all the same.
GiveUpAndPaste ==
    /\ toolkit # Idle
    /\ clipboard' \in {clipboard, <<>>}
    /\ toolkit' = Idle
    /\ SimulateCtrlKey("V")
    /\ UNCHANGED <<posted, selection, wanted, course>>

\* No text, the clipboard cannot be opened, or the new text cannot be put on it
\* after it has been emptied: nothing is pasted.
GiveUp ==
    /\ toolkit # Idle
    /\ clipboard' \in {clipboard, <<>>}
    /\ toolkit' = Idle
    /\ UNCHANGED <<keyVars, posted, selection, injected, wanted, course>>

\* ReplaceText with useClipboardForUnicode, called by the hook for a typed key,
\* perhaps with Shift; nobody looks whether the text reached the clipboard.
ReplaceText(text) ==
    /\ toolkit = Idle /\ ~Down(CtrlKeys \cup AltKeys)
    /\ clipboard' \in {text, clipboard, <<>>}
    /\ wanted' = text
    /\ course' = IF clipboard' = text /\ injected = <<>> /\ Undisturbed
                 THEN "straight" ELSE "spoiled"
    /\ SimulateCtrlKey("V")
    /\ UNCHANGED <<posted, toolkit, selection>>

-----------------------------------------------------------------------------
\* The application and the user.

\* With Shift or Alt held, Ctrl+C and Ctrl+V are other commands: they may do
\* the same or nothing.
Copy ==
    /\ injected # <<>> /\ Head(injected).key = "C"
    /\ injected' = Tail(injected)
    /\ \/ selection # <<>> /\ clipboard' = selection
       \/ ~(selection # <<>> /\ Head(injected).plain) /\ UNCHANGED clipboard
    /\ course' = IF course = "straight" /\ toolkit = Idle THEN "late" ELSE course
    /\ UNCHANGED <<keyVars, posted, toolkit, selection, wanted>>

\* What is pasted is the text then on the clipboard.
Paste ==
    /\ injected # <<>> /\ Head(injected).key = "V"
    /\ injected' = Tail(injected)
    /\ selection' \in IF Head(injected).plain THEN {<<>>} ELSE {<<>>, selection}
    /\ wanted' = IF injected' = <<>> THEN <<>> ELSE wanted
    /\ course' = IF injected' = <<>> THEN "spoiled" ELSE course
    /\ UNCHANGED <<keyVars, posted, toolkit, clipboard>>

Select(text) ==
    /\ selection' = text
    /\ course' = "spoiled"
    /\ UNCHANGED <<keyVars, posted, toolkit, clipboard, injected, wanted>>

CopyElsewhere(text) ==
    /\ clipboard' = text
    /\ course' = "spoiled"
    /\ UNCHANGED <<keyVars, posted, toolkit, selection, injected, wanted>>

-----------------------------------------------------------------------------

Init ==
    /\ toggleKey \in ToggleKeys /\ charset \in Charsets
    /\ held = {} /\ async = {}
    /\ flags = [ctrl |-> FALSE, shift |-> FALSE, other |-> FALSE, alt |-> FALSE]
    /\ missed = FALSE
    /\ posted = <<>> /\ injected = <<>>
    /\ toolkit = Idle
    /\ clipboard = <<>> /\ selection = <<>>
    /\ wanted = <<>> /\ course = "spoiled"

Next ==
    \/ \E k \in Keys, press \in BOOLEAN : Key(k, press) \/ KeyUnseen(k, press)
    \/ ToggleCommand \/ HandleHotkey \/ ConvertClipboard \/ GiveUp
    \/ Copy \/ Paste
    \/ \E text \in Texts : ReplaceText(text) \/ Select(text)
    \/ \E text \in OldTexts : CopyElsewhere(text)

Spec == Init /\ [][Next]_vars

-----------------------------------------------------------------------------

\* Types, and that a key the system reports down is physically down.
TypeOK ==
    /\ toggleKey \in ToggleKeys /\ charset \in Charsets
    /\ held \subseteq Modifiers /\ async \subseteq held
    /\ flags \in [{"ctrl", "shift", "other", "alt"} -> BOOLEAN]
    /\ missed \in BOOLEAN
    /\ posted \in SeqOf(Commands, MaxPosted)
    /\ toolkit \in Jobs \cup {Idle}
    /\ injected \in SeqOf([key : {"C", "V"}, plain : BOOLEAN], MaxInjected)
    /\ course \in Courses
    /\ selection \in Texts \cup {<<>>}

\* A Z typed without Alt is a Z: the hook believes Alt to be down only while one
\* is held, or after a release it was never told of.
AltIsHeld == flags.alt => AltKeys \cap held # {} \/ missed

\* The combination that toggles does it: when the last Ctrl or Shift key of a
\* Ctrl+Shift pressed without any other key goes up, the toggle is posted.
CtrlShiftToggles ==
    [][\A keys \in {CtrlKeys, ShiftKeys} : \A k \in keys :
          (/\ Key(k, FALSE) /\ toggleKey = "CTRL_SHIFT" /\ held' \cap keys = {}
           /\ flags.ctrl /\ flags.shift /\ ~flags.other)
          => posted' = Append(posted, "TOGGLE")]_vars

\* What a replacement pastes is what it was for.  A selection is replaced by its
\* conversion, or by itself where the application copied too late; the old text
\* of the clipboard replaces it only if Shift or Alt was still held, another
\* replacement was under way, nothing was selected any more or somebody else
\* wrote to the clipboard.
PasteIsWanted ==
    [][Paste => \/ course = "spoiled"
                \/ course = "straight" /\ clipboard = wanted
                \/ course = "late" /\ clipboard = selection]_vars

\* A conversion loses nothing it should keep: VNI text reads back as the text it
\* was made from, and stripped text has no Vietnamese letter and as many
\* characters.  (Two letters may have one TCVN3 byte.)
ConversionKeepsText ==
    [][ConvertClipboard /\ clipboard \in Texts \cup OldTexts =>
          CASE toolkit = "VNI_WIN" -> VniToUnicode(clipboard') = clipboard
            [] toolkit = "STRIP" -> /\ Len(clipboard') = Len(clipboard)
                                    /\ Range(clipboard') \cap VnChars = {}
            [] toolkit = "TCVN3" -> Len(clipboard') = Len(clipboard)]_vars
=============================================================================
