--------------------------- MODULE HotkeysProofs ---------------------------
(***************************************************************************)
(* For any keyboards, texts and queues: that the hook's Alt flag is right  *)
(* unless it missed a release, the types, and that a replacement pastes    *)
(* what it was for, along the stages it goes through.                      *)
(***************************************************************************)
EXTENDS Hotkeys, TLAPS

\* The flag moves in one of the two modes only; its record keeps its shape.
FlagRecords == [ctrl : BOOLEAN, shift : BOOLEAN, other : BOOLEAN, alt : BOOLEAN]

AltInv ==
    /\ flags \in FlagRecords
    /\ missed \in BOOLEAN
    /\ toggleKey \in ToggleKeys
    /\ toggleKey = "CTRL_SHIFT" => ~flags.alt
    /\ AltIsHeld

LEMMA CtrlShiftLeavesAlt ==
    ASSUME AltInv, NEW k, NEW press \in BOOLEAN
    PROVE  /\ FlagsOnCtrlShift(k, press) \in FlagRecords
           /\ FlagsOnCtrlShift(k, press).alt = flags.alt
  BY DEF AltInv, FlagRecords, FlagsOnCtrlShift

LEMMA HeldKeysStay ==
    ASSUME NEW k \in Keys, NEW press \in BOOLEAN, KeyMoves(k, press)
    PROVE  /\ k \notin AltKeys => AltKeys \cap held' = AltKeys \cap held
           /\ k \in AltKeys /\ press => k \in AltKeys \cap held'
           /\ press => AltKeys \cap held \subseteq AltKeys \cap held'
           /\ toggleKey' = toggleKey
  <1>1. k \in AltKeys => k \in Modifiers
    BY DEF Modifiers
  <1> QED
    BY <1>1 DEF KeyMoves

LEMMA KeyKeeps ==
    ASSUME AltInv, NEW k \in Keys, NEW press \in BOOLEAN, Key(k, press)
    PROVE  AltInv'
  <1>1. KeyMoves(k, press) /\ LowLevelKeyboardProc(k, press)
    BY DEF Key
  <1>2. missed' = (missed /\ k \notin AltKeys) /\ missed' \in BOOLEAN
    BY <1>1 DEF LowLevelKeyboardProc, AltInv
  <1>3. CASE toggleKey = "CTRL_SHIFT"
    <2>1. flags' = FlagsOnCtrlShift(k, press)
      BY <1>1, <1>3 DEF LowLevelKeyboardProc
    <2>2. ~flags.alt
      BY <1>3 DEF AltInv
    <2> QED
      BY <1>1, <1>2, <2>1, <2>2, CtrlShiftLeavesAlt, HeldKeysStay DEF AltInv, AltIsHeld
  <1>4. CASE toggleKey # "CTRL_SHIFT" /\ k \in AltKeys
    <2>1. flags' = [flags EXCEPT !.alt = press]
      BY <1>1, <1>4 DEF LowLevelKeyboardProc, FlagsOnAltZ
    <2>2. flags' \in FlagRecords /\ flags'.alt = press
      BY <2>1 DEF AltInv, FlagRecords
    <2>3. toggleKey' = toggleKey /\ (press => AltKeys \cap held' # {})
      BY <1>1, <1>4, HeldKeysStay
    <2> QED
      BY <1>2, <1>4, <2>2, <2>3 DEF AltInv, AltIsHeld
  <1>5. CASE toggleKey # "CTRL_SHIFT" /\ k \notin AltKeys
    <2>1. flags' = flags /\ missed' = missed
      BY <1>1, <1>2, <1>5 DEF LowLevelKeyboardProc, FlagsOnAltZ, AltInv
    <2> QED
      BY <1>1, <1>5, <2>1, HeldKeysStay DEF AltInv, AltIsHeld
  <1> QED
    BY <1>3, <1>4, <1>5

\* A release the hook never hears of is remembered.
LEMMA UnseenKeeps ==
    ASSUME AltInv, NEW k \in Keys, NEW press \in BOOLEAN, KeyUnseen(k, press)
    PROVE  AltInv'
  <1>1. KeyMoves(k, press) /\ flags' = flags
    BY DEF KeyUnseen
  <1>2. missed' = (missed \/ (~press /\ k \in AltKeys)) /\ missed' \in BOOLEAN
    BY DEF KeyUnseen, AltInv
  <1>3. CASE ~press /\ k \in AltKeys
    BY <1>1, <1>2, <1>3, HeldKeysStay DEF AltInv, AltIsHeld
  <1>4. CASE press \/ k \notin AltKeys
    BY <1>1, <1>2, <1>4, HeldKeysStay DEF AltInv, AltIsHeld
  <1> QED
    BY <1>3, <1>4

\* Messages, the toolkit and the application leave what the flag is about.
LEMMA OthersKeep ==
    ASSUME AltInv, UNCHANGED <<toggleKey, held, flags, missed>>
    PROVE  AltInv'
  BY DEF AltInv, AltIsHeld

(* A Z typed without Alt is a Z (AltIsHeld): for any keyboard, with any      *)
(* number of Alt keys, and whatever the toolkit injects.                     *)
THEOREM AltFlag == Spec => []AltIsHeld
  <1>1. Init => AltInv
    <2>1. SUFFICES ASSUME Init PROVE AltInv
      OBVIOUS
    <2>2. flags = [ctrl |-> FALSE, shift |-> FALSE, other |-> FALSE, alt |-> FALSE]
      BY <2>1, Zenon DEF Init
    <2>3. flags \in FlagRecords /\ flags.alt = FALSE
      BY <2>2 DEF FlagRecords
    <2>4. missed \in BOOLEAN /\ toggleKey \in ToggleKeys
      BY <2>1, Zenon DEF Init
    <2> QED
      BY <2>3, <2>4 DEF AltInv, AltIsHeld
  <1>2. ASSUME AltInv, [Next]_vars
        PROVE  AltInv'
    <2>1. ASSUME NEW k \in Keys, NEW press \in BOOLEAN, Key(k, press) \/ KeyUnseen(k, press)
          PROVE  AltInv'
      BY <1>2, <2>1, KeyKeeps, UnseenKeeps
    <2>2. ASSUME ToggleCommand \/ HandleHotkey \/ ConvertClipboard \/ GiveUp \/ Copy \/ Paste
          PROVE  UNCHANGED <<toggleKey, held, flags, missed>>
      BY <2>2 DEF ToggleCommand, HandleHotkey, ConvertClipboard, GiveUp, Copy, Paste,
                  SimulateCtrlKey, keyVars
    <2>3. ASSUME NEW text, ReplaceText(text) \/ Select(text) \/ CopyElsewhere(text)
          PROVE  UNCHANGED <<toggleKey, held, flags, missed>>
      BY <2>3 DEF ReplaceText, Select, CopyElsewhere, SimulateCtrlKey, keyVars
    <2>4. CASE UNCHANGED vars
      BY <1>2, <2>4, OthersKeep DEF vars, keyVars
    <2> QED
      BY <1>2, <2>1, <2>2, <2>3, <2>4, OthersKeep DEF Next
  <1>3. AltInv => AltIsHeld
    BY DEF AltInv
  <1> QED
    BY <1>1, <1>2, <1>3, PTL DEF Spec

-----------------------------------------------------------------------------
(* Types.                                                                    *)

Combos == [key : {"C", "V"}, plain : BOOLEAN]

LEMMA SeqOfIs ==
    ASSUME NEW S, NEW n \in Nat, NEW s \in Seq(S), Len(s) <= n
    PROVE  s \in SeqOf(S, n)
  <1>1. Len(s) \in 0 .. n /\ s \in [1 .. Len(s) -> S]
    OBVIOUS
  <1> QED
    BY <1>1 DEF SeqOf

LEMMA SeqOfHas ==
    ASSUME NEW S, NEW n \in Nat, NEW s \in SeqOf(S, n)
    PROVE  s \in Seq(S) /\ Len(s) <= n
  <1>1. PICK m \in 0 .. n : s \in [1 .. m -> S]
    BY DEF SeqOf
  <1>2. s \in Seq(S) /\ Len(s) = m
    BY <1>1
  <1> QED
    BY <1>1, <1>2

LEMMA OneIs ==
    ASSUME NEW S, NEW x \in S
    PROVE  <<x>> \in Seq(S) /\ <<>> \in Seq(S)
  OBVIOUS

\* The three parts of TypeOK that no two steps of the system share.
KeysTyped ==
    /\ toggleKey \in ToggleKeys /\ charset \in Charsets
    /\ held \subseteq Modifiers /\ async \subseteq held
    /\ flags \in FlagRecords
    /\ missed \in BOOLEAN

PostedTyped == posted \in Seq(Commands) /\ Len(posted) <= MaxPosted

ToolTyped ==
    /\ toolkit \in Jobs \cup {Idle}
    /\ injected \in Seq(Combos) /\ Len(injected) <= MaxInjected
    /\ course \in Courses
    /\ selection \in Texts \cup {<<>>}

Typed == KeysTyped /\ PostedTyped /\ ToolTyped

LEMMA FlagsAreRecords ==
    FlagRecords \subseteq [{"ctrl", "shift", "other", "alt"} -> BOOLEAN]
  BY DEF FlagRecords

LEMMA FlagsMove ==
    ASSUME flags \in FlagRecords, NEW k, NEW press \in BOOLEAN
    PROVE  /\ FlagsOnCtrlShift(k, press) \in FlagRecords
           /\ FlagsOnAltZ(k, press) \in FlagRecords
  <1>1. FlagsOnCtrlShift(k, press) \in FlagRecords
    BY DEF FlagRecords, FlagsOnCtrlShift
  <1>2. FlagsOnAltZ(k, press) \in FlagRecords
    BY DEF FlagRecords, FlagsOnAltZ
  <1> QED
    BY <1>1, <1>2

LEMMA KeyMovesTyped ==
    ASSUME KeysTyped, NEW k \in Keys, NEW press \in BOOLEAN, KeyMoves(k, press)
    PROVE  /\ toggleKey' \in ToggleKeys /\ charset' \in Charsets
           /\ held' \subseteq Modifiers /\ async' \subseteq held'
  BY DEF KeysTyped, KeyMoves

LEMMA KeyTyped ==
    ASSUME Typed, NEW k \in Keys, NEW press \in BOOLEAN, Key(k, press)
    PROVE  Typed'
  <1>1. KeyMoves(k, press) /\ LowLevelKeyboardProc(k, press) /\ KeysTyped
    BY DEF Key, Typed
  <1>2. missed' \in BOOLEAN
    BY <1>1 DEF LowLevelKeyboardProc
  <1>3. flags' \in FlagRecords
    BY <1>1, FlagsMove DEF LowLevelKeyboardProc, KeysTyped
  <1>4. KeysTyped'
    BY <1>1, <1>2, <1>3, KeyMovesTyped DEF KeysTyped
  <1>5. PostedTyped'
    <2> DEFINE toggle == IF Toggles(k, press) THEN <<"TOGGLE">> ELSE <<>>
    <2>1. toggle \in Seq(Commands)
      <3>1. <<"TOGGLE">> \in Seq(Commands) /\ <<>> \in Seq(Commands)
        BY OneIs DEF Commands
      <3> QED
        BY <3>1
    <2>2. HotkeyOf(k, press) \in Seq(Commands)
      <3>1. /\ <<"CONVERT">> \in Seq(Commands) /\ <<"STRIP">> \in Seq(Commands)
            /\ <<>> \in Seq(Commands)
        BY OneIs DEF Commands
      <3> QED
        BY <3>1, Zenon DEF HotkeyOf
    <2>3. posted \in Seq(Commands)
      BY DEF Typed, PostedTyped
    <2>4. posted' = posted \o toggle \o HotkeyOf(k, press) /\ Len(posted') <= MaxPosted
      BY DEF Key
    <2> HIDE DEF toggle
    <2> QED
      BY <2>1, <2>2, <2>3, <2>4 DEF PostedTyped
  <1>6. ToolTyped'
    BY DEF Key, Typed, ToolTyped, clipVars
  <1> QED
    BY <1>4, <1>5, <1>6 DEF Typed

LEMMA UnseenTyped ==
    ASSUME Typed, NEW k \in Keys, NEW press \in BOOLEAN, KeyUnseen(k, press)
    PROVE  Typed'
  <1>1. KeyMoves(k, press) /\ KeysTyped /\ UNCHANGED <<flags, posted, clipVars>>
    BY DEF KeyUnseen, Typed
  <1>2. missed' \in BOOLEAN
    BY DEF KeyUnseen
  <1>3. KeysTyped'
    BY <1>1, <1>2, KeyMovesTyped DEF KeysTyped
  <1> QED
    BY <1>1, <1>3 DEF Typed, PostedTyped, ToolTyped, clipVars

\* An injected combination takes the user's Ctrl along.
LEMMA SimulateTyped ==
    ASSUME Typed, NEW letter \in {"C", "V"}, SimulateCtrlKey(letter)
    PROVE  /\ KeysTyped'
           /\ injected' \in Seq(Combos) /\ Len(injected') <= MaxInjected
           /\ Len(injected') = Len(injected) + 1
  <1> DEFINE combo == [key |-> letter, plain |-> Undisturbed]
  <1>1. KeysTyped'
    BY DEF Typed, KeysTyped, SimulateCtrlKey
  <1>2. Undisturbed \in BOOLEAN
    BY DEF Undisturbed
  <1>3. combo \in Combos
    BY <1>2, Zenon DEF Combos
  <1>4. injected \in Seq(Combos) /\ Len(injected) < MaxInjected /\ MaxInjected \in Nat
    BY HotkeyConstants DEF SimulateCtrlKey, Typed, ToolTyped
  <1>5. injected' = Append(injected, combo)
    BY DEF SimulateCtrlKey
  <1> HIDE DEF combo
  <1> QED
    BY <1>1, <1>3, <1>4, <1>5

\* A message is taken from the manager's queue.
LEMMA TailTyped ==
    ASSUME Typed, posted # <<>>, posted' = Tail(posted)
    PROVE  PostedTyped' /\ Head(posted) \in Commands
  <1>1. posted \in Seq(Commands) /\ Len(posted) <= MaxPosted /\ MaxPosted \in Nat
    BY HotkeyConstants DEF Typed, PostedTyped
  <1> QED
    BY <1>1 DEF PostedTyped

\* The application reads a combination.
LEMMA ReadTyped ==
    ASSUME Typed, injected # <<>>, injected' = Tail(injected)
    PROVE  injected' \in Seq(Combos) /\ Len(injected') <= MaxInjected
  <1>1. injected \in Seq(Combos) /\ Len(injected) <= MaxInjected /\ MaxInjected \in Nat
    BY HotkeyConstants DEF Typed, ToolTyped
  <1> QED
    BY <1>1

LEMMA HotkeyTyped ==
    ASSUME Typed, HandleHotkey
    PROVE  Typed'
  <1> DEFINE job == Asked(Head(posted))
  <1>1. PostedTyped' /\ Head(posted) \in Commands
    BY TailTyped DEF HandleHotkey
  <1>2. CASE SameCharset(job)
    <2>1. UNCHANGED <<keyVars, clipVars>>
      BY <1>2 DEF HandleHotkey
    <2> QED
      BY <1>1, <2>1 DEF Typed, KeysTyped, ToolTyped, keyVars, clipVars
  <1>3. CASE ~SameCharset(job)
    <2>1. /\ SimulateCtrlKey("C") /\ toolkit' = job
          /\ course' \in {"straight", "spoiled"} /\ selection' = selection
      BY <1>3 DEF HandleHotkey
    <2>2. job \in Jobs
      BY <1>3 DEF Asked, SameCharset, Jobs, Typed, KeysTyped, Charsets
    <2>3. KeysTyped' /\ injected' \in Seq(Combos) /\ Len(injected') <= MaxInjected
      BY <2>1, SimulateTyped
    <2> QED
      BY <1>1, <2>1, <2>2, <2>3 DEF Typed, ToolTyped, Courses
  <1> QED
    BY <1>2, <1>3

LEMMA ToolStepsTyped ==
    ASSUME Typed, ConvertClipboard \/ GiveUp
    PROVE  Typed'
  <1>1. CASE ConvertClipboard
    <2>1. /\ SimulateCtrlKey("V") /\ toolkit' = Idle
          /\ UNCHANGED <<posted, selection, course>>
      BY <1>1 DEF ConvertClipboard
    <2>2. KeysTyped' /\ injected' \in Seq(Combos) /\ Len(injected') <= MaxInjected
      BY <2>1, SimulateTyped
    <2> QED
      BY <2>1, <2>2 DEF Typed, PostedTyped, ToolTyped
  <1>2. CASE GiveUp
    BY <1>2 DEF GiveUp, Typed, KeysTyped, PostedTyped, ToolTyped, keyVars
  <1> QED
    BY <1>1, <1>2

LEMMA ReplaceTyped ==
    ASSUME Typed, NEW text, ReplaceText(text)
    PROVE  Typed'
  <1>1. /\ SimulateCtrlKey("V") /\ course' \in {"straight", "spoiled"}
        /\ UNCHANGED <<posted, toolkit, selection>>
    BY DEF ReplaceText
  <1>2. KeysTyped' /\ injected' \in Seq(Combos) /\ Len(injected') <= MaxInjected
    BY <1>1, SimulateTyped
  <1> QED
    BY <1>1, <1>2 DEF Typed, PostedTyped, ToolTyped, Courses

LEMMA AppStepsTyped ==
    ASSUME Typed,
           Copy \/ Paste \/ ToggleCommand
           \/ (\E text \in Texts : Select(text)) \/ (\E text \in OldTexts : CopyElsewhere(text))
    PROVE  Typed'
  <1>1. CASE Copy
    <2>1. injected' \in Seq(Combos) /\ Len(injected') <= MaxInjected
      BY <1>1, ReadTyped DEF Copy
    <2>2. course' \in Courses /\ UNCHANGED <<keyVars, posted, toolkit, selection>>
      BY <1>1 DEF Copy, Typed, ToolTyped, Courses
    <2> QED
      BY <2>1, <2>2 DEF Typed, KeysTyped, PostedTyped, ToolTyped, keyVars
  <1>2. CASE Paste
    <2>1. injected' \in Seq(Combos) /\ Len(injected') <= MaxInjected
      BY <1>2, ReadTyped DEF Paste
    <2>2. /\ course' \in Courses /\ selection' \in {<<>>, selection}
          /\ UNCHANGED <<keyVars, posted, toolkit>>
      BY <1>2 DEF Paste, Typed, ToolTyped, Courses
    <2> QED
      BY <2>1, <2>2 DEF Typed, KeysTyped, PostedTyped, ToolTyped, keyVars
  <1>3. CASE ToggleCommand
    <2>1. PostedTyped'
      BY <1>3, TailTyped DEF ToggleCommand
    <2> QED
      BY <1>3, <2>1 DEF ToggleCommand, Typed, KeysTyped, ToolTyped, keyVars, clipVars
  <1>4. CASE \E text \in Texts : Select(text)
    BY <1>4 DEF Select, Typed, KeysTyped, PostedTyped, ToolTyped, Courses, keyVars
  <1>5. CASE \E text \in OldTexts : CopyElsewhere(text)
    BY <1>5 DEF CopyElsewhere, Typed, KeysTyped, PostedTyped, ToolTyped, Courses, keyVars
  <1> QED
    BY <1>1, <1>2, <1>3, <1>4, <1>5

LEMMA StartsTyped == Init => Typed
  <1> SUFFICES ASSUME Init PROVE Typed
    OBVIOUS
  <1>1. flags = [ctrl |-> FALSE, shift |-> FALSE, other |-> FALSE, alt |-> FALSE]
    BY Zenon DEF Init
  <1>2. flags \in FlagRecords
    BY <1>1 DEF FlagRecords
  <1>3. KeysTyped
    BY <1>2 DEF Init, KeysTyped
  <1>4. PostedTyped /\ ToolTyped
    BY HotkeyConstants DEF Init, PostedTyped, ToolTyped, Courses
  <1> QED
    BY <1>3, <1>4 DEF Typed

LEMMA StepTyped ==
    ASSUME Typed, [Next]_vars
    PROVE  Typed'
  <1>1. CASE UNCHANGED vars
    BY <1>1 DEF Typed, KeysTyped, PostedTyped, ToolTyped, vars, keyVars, clipVars
  <1>2. ASSUME NEW k \in Keys, NEW press \in BOOLEAN, Key(k, press) \/ KeyUnseen(k, press)
        PROVE  Typed'
    BY <1>2, KeyTyped, UnseenTyped
  <1>3. ASSUME NEW text, ReplaceText(text)
        PROVE  Typed'
    BY <1>3, ReplaceTyped
  <1> QED
    BY <1>1, <1>2, <1>3, HotkeyTyped, ToolStepsTyped, AppStepsTyped DEF Next

(* What the manager, its toolkit and the application hold is what they are   *)
(* meant to hold (TypeOK), the queues within their bounds, and a key the     *)
(* system reports down is physically down, whatever Ctrl releases the        *)
(* toolkit injects: for any keys, texts and queues.                          *)
THEOREM HotkeysTyped == Spec => []TypeOK
  <1>1. Typed => TypeOK
    <2> SUFFICES ASSUME Typed PROVE TypeOK
      OBVIOUS
    <2>1. MaxPosted \in Nat /\ MaxInjected \in Nat
      BY HotkeyConstants
    <2>2. posted \in SeqOf(Commands, MaxPosted)
      BY <2>1, SeqOfIs DEF Typed, PostedTyped
    <2>3. injected \in SeqOf(Combos, MaxInjected)
      BY <2>1, SeqOfIs DEF Typed, ToolTyped
    <2>4. flags \in [{"ctrl", "shift", "other", "alt"} -> BOOLEAN]
      BY FlagsAreRecords DEF Typed, KeysTyped
    <2>5. injected \in SeqOf([key : {"C", "V"}, plain : BOOLEAN], MaxInjected)
      BY <2>3, Zenon DEF Combos
    <2> QED
      BY <2>2, <2>4, <2>5, Zenon DEF TypeOK, Typed, KeysTyped, ToolTyped
  <1> QED
    BY <1>1, StartsTyped, StepTyped, PTL DEF Spec

-----------------------------------------------------------------------------
(* What is pasted.                                                           *)

\* The letters of the combinations the application has still to read.
Nothing  == injected = <<>>
OnlyCopy == Len(injected) = 1 /\ injected[1].key = "C" /\ injected[1].plain
OnlyPaste == Len(injected) = 1 /\ injected[1].key = "V"
CopyThenPaste ==
    /\ Len(injected) = 2
    /\ injected[1].key = "C" /\ injected[1].plain /\ injected[2].key = "V"

\* The way of a replacement nobody disturbs.  The application copies before the
\* toolkit wakes, or after it; the toolkit pastes, or gives up.
ToBeCopied ==
    /\ course = "straight" /\ toolkit # Idle /\ selection # <<>> /\ OnlyCopy
    /\ wanted = Converted(toolkit, selection)
ToBeConverted ==
    /\ course = "straight" /\ toolkit # Idle /\ Nothing
    /\ wanted = Converted(toolkit, clipboard)
ToBePasted ==
    course = "straight" /\ toolkit = Idle /\ OnlyPaste /\ clipboard = wanted
CopyIsLate ==
    /\ course = "straight" /\ toolkit = Idle /\ selection # <<>>
    /\ OnlyCopy \/ CopyThenPaste
GivenUp == course = "straight" /\ toolkit = Idle /\ Nothing
CopiedLate ==
    /\ course = "late" /\ toolkit = Idle /\ clipboard = selection
    /\ Nothing \/ OnlyPaste

UnderWay ==
    \/ course = "spoiled"
    \/ ToBeCopied \/ ToBeConverted \/ ToBePasted
    \/ CopyIsLate \/ GivenUp \/ CopiedLate

PasteInv == Typed /\ UnderWay

\* A paste is read only where the stage says which text there is to paste.
LEMMA PastesWanted ==
    ASSUME PasteInv, Paste
    PROVE  \/ course = "spoiled"
           \/ course = "straight" /\ clipboard = wanted
           \/ course = "late" /\ clipboard = selection
  <1>1. injected \in Seq(Combos) /\ UnderWay
    BY DEF PasteInv, Typed, ToolTyped
  <1>2. injected # <<>> /\ injected[1].key = "V"
    BY <1>1 DEF Paste
  <1> QED
    BY <1>1, <1>2 DEF UnderWay, ToBeCopied, ToBeConverted, ToBePasted, CopyIsLate, GivenUp,
                      CopiedLate, Nothing, OnlyCopy, OnlyPaste, CopyThenPaste

\* Where nothing of a replacement moves, its stage stays.
LEMMA StageStays ==
    ASSUME UnderWay, UNCHANGED clipVars
    PROVE  UnderWay'
  BY DEF UnderWay, ToBeCopied, ToBeConverted, ToBePasted, CopyIsLate, GivenUp, CopiedLate,
         Nothing, OnlyCopy, OnlyPaste, CopyThenPaste, clipVars

\* An injected combination is the last of the queue.
LEMMA Injects ==
    ASSUME Typed, NEW letter \in {"C", "V"}, SimulateCtrlKey(letter)
    PROVE  /\ injected' = Append(injected, [key |-> letter, plain |-> Undisturbed])
           /\ Len(injected') = Len(injected) + 1
           /\ \A i \in 1 .. Len(injected) : injected'[i] = injected[i]
           /\ injected'[Len(injected')].key = letter
           /\ injected'[Len(injected')].plain = Undisturbed
  <1> DEFINE combo == [key |-> letter, plain |-> Undisturbed]
  <1>1. injected' = Append(injected, combo) /\ injected \in Seq(Combos)
    BY DEF SimulateCtrlKey, Typed, ToolTyped
  <1>2. combo.key = letter /\ combo.plain = Undisturbed
    BY Zenon
  <1> HIDE DEF combo
  <1>3. /\ Len(injected') = Len(injected) + 1
        /\ \A i \in 1 .. Len(injected) : injected'[i] = injected[i]
        /\ injected'[Len(injected')] = combo
    BY <1>1
  <1>4. injected' = Append(injected, [key |-> letter, plain |-> Undisturbed])
    BY <1>1 DEF combo
  <1> QED
    BY <1>2, <1>3, <1>4

LEMMA HotkeyStage ==
    ASSUME PasteInv, HandleHotkey
    PROVE  UnderWay'
  <1> DEFINE job == Asked(Head(posted))
  <1>0. Typed /\ UnderWay
    BY DEF PasteInv
  <1>1. CASE SameCharset(job)
    <2>1. UNCHANGED clipVars
      BY <1>1 DEF HandleHotkey
    <2> QED
      BY <1>0, <2>1, StageStays
  <1>2. CASE ~SameCharset(job)
    <2>1. /\ SimulateCtrlKey("C") /\ toolkit' = job
          /\ wanted' = Converted(job, selection) /\ selection' = selection
          /\ course' = IF Nothing /\ selection # <<>> /\ Undisturbed
                       THEN "straight" ELSE "spoiled"
      BY <1>2 DEF HandleHotkey, Nothing
    <2>2. CASE ~(Nothing /\ selection # <<>> /\ Undisturbed)
      BY <2>1, <2>2 DEF UnderWay
    <2>3. CASE Nothing /\ selection # <<>> /\ Undisturbed
      <3>1. course' = "straight" /\ wanted' = Converted(toolkit', selection') /\ selection' # <<>>
        BY <2>1, <2>3
      <3>2. toolkit' # Idle
        <4>1. Typed'
          BY <1>0, HotkeyTyped
        <4>2. job \in Jobs
          BY <1>0, <1>2, TailTyped
             DEF HandleHotkey, Asked, SameCharset, Jobs, Typed, KeysTyped, Charsets
        <4> QED
          BY <2>1, <4>2 DEF Jobs, Idle
      <3>3. Len(injected) = 0
        BY <2>3 DEF Nothing
      <3>4. OnlyCopy'
        BY <1>0, <2>1, <2>3, <3>3, Injects DEF OnlyCopy
      <3> QED
        BY <3>1, <3>2, <3>4 DEF UnderWay, ToBeCopied
    <2> QED
      BY <2>2, <2>3
  <1> QED
    BY <1>1, <1>2

LEMMA ConvertStage ==
    ASSUME PasteInv, ConvertClipboard
    PROVE  UnderWay'
  <1>1. /\ Typed /\ UnderWay /\ SimulateCtrlKey("V")
        /\ toolkit # Idle /\ toolkit' = Idle /\ clipboard' = Converted(toolkit, clipboard)
        /\ UNCHANGED <<selection, wanted, course>>
    BY DEF PasteInv, ConvertClipboard
  <1>2. CASE course = "spoiled"
    BY <1>1, <1>2 DEF UnderWay
  <1>3. CASE ToBeCopied
    <2>1. Len(injected) = 1 /\ injected[1].key = "C" /\ injected[1].plain
      BY <1>3 DEF ToBeCopied, OnlyCopy
    <2>2. /\ Len(injected') = Len(injected) + 1
          /\ \A i \in 1 .. Len(injected) : injected'[i] = injected[i]
          /\ injected'[Len(injected')].key = "V"
      BY <1>1, Injects
    <2>3. Len(injected') = 2 /\ injected'[1] = injected[1]
      BY <2>1, <2>2
    <2>4. CopyThenPaste'
      BY <2>1, <2>2, <2>3 DEF CopyThenPaste
    <2> QED
      BY <1>1, <1>3, <2>4 DEF UnderWay, ToBeCopied, CopyIsLate
  <1>4. CASE ToBeConverted
    <2>1. Len(injected) = 0
      BY <1>4 DEF ToBeConverted, Nothing
    <2>2. OnlyPaste'
      BY <1>1, <2>1, Injects DEF OnlyPaste
    <2> QED
      BY <1>1, <1>4, <2>2 DEF UnderWay, ToBeConverted, ToBePasted
  <1> QED
    BY <1>1, <1>2, <1>3, <1>4 DEF UnderWay, ToBePasted, CopyIsLate, GivenUp, CopiedLate

LEMMA GiveUpStage ==
    ASSUME PasteInv, GiveUp
    PROVE  UnderWay'
  <1>1. /\ UnderWay /\ toolkit # Idle /\ toolkit' = Idle
        /\ UNCHANGED <<selection, injected, wanted, course>>
    BY DEF PasteInv, GiveUp
  <1> QED
    BY <1>1 DEF UnderWay, ToBeCopied, ToBeConverted, ToBePasted, CopyIsLate, GivenUp,
                CopiedLate, Nothing, OnlyCopy, OnlyPaste, CopyThenPaste

LEMMA ReplaceStage ==
    ASSUME PasteInv, NEW text, ReplaceText(text)
    PROVE  UnderWay'
  <1>1. /\ Typed /\ SimulateCtrlKey("V") /\ toolkit' = Idle
        /\ wanted' = text
        /\ course' = IF clipboard' = text /\ Nothing /\ Undisturbed
                     THEN "straight" ELSE "spoiled"
    BY DEF PasteInv, ReplaceText, Nothing
  <1>2. CASE clipboard' = text /\ Nothing /\ Undisturbed
    <2>1. Len(injected) = 0
      BY <1>2 DEF Nothing
    <2>2. OnlyPaste'
      BY <1>1, <2>1, Injects DEF OnlyPaste
    <2> QED
      BY <1>1, <1>2, <2>2 DEF UnderWay, ToBePasted
  <1> QED
    BY <1>1, <1>2 DEF UnderWay

LEMMA CopyStage ==
    ASSUME PasteInv, Copy
    PROVE  UnderWay'
  <1>1. /\ UnderWay /\ injected \in Seq(Combos)
        /\ injected # <<>> /\ injected[1].key = "C" /\ injected' = Tail(injected)
        /\ UNCHANGED <<toolkit, selection, wanted>>
        /\ course' = IF course = "straight" /\ toolkit = Idle THEN "late" ELSE course
    BY DEF PasteInv, Typed, ToolTyped, Copy
  <1>2. selection # <<>> /\ injected[1].plain => clipboard' = selection
    BY <1>1 DEF Copy
  <1>3. CASE course = "spoiled"
    BY <1>1, <1>3 DEF UnderWay
  <1>4. CASE ToBeCopied
    <2>1. Nothing' /\ clipboard' = selection
      BY <1>1, <1>2, <1>4 DEF ToBeCopied, OnlyCopy, Nothing
    <2> QED
      BY <1>1, <1>4, <2>1 DEF UnderWay, ToBeCopied, ToBeConverted
  <1>5. CASE CopyIsLate
    <2>1. clipboard' = selection
      BY <1>2, <1>5 DEF CopyIsLate, OnlyCopy, CopyThenPaste
    <2>2. Nothing' \/ OnlyPaste'
      BY <1>1, <1>5 DEF CopyIsLate, OnlyCopy, CopyThenPaste, Nothing, OnlyPaste
    <2> QED
      BY <1>1, <1>5, <2>1, <2>2 DEF UnderWay, CopyIsLate, CopiedLate
  <1>6. ~ToBeConverted /\ ~ToBePasted /\ ~GivenUp /\ ~CopiedLate
    BY <1>1 DEF ToBeConverted, ToBePasted, GivenUp, CopiedLate, Nothing, OnlyPaste
  <1> QED
    BY <1>1, <1>3, <1>4, <1>5, <1>6 DEF UnderWay

\* With the paste the replacement is over.
LEMMA PasteStage ==
    ASSUME PasteInv, Paste
    PROVE  UnderWay'
  <1>1. /\ UnderWay /\ injected \in Seq(Combos)
        /\ injected # <<>> /\ injected[1].key = "V" /\ injected' = Tail(injected)
        /\ course' = IF injected' = <<>> THEN "spoiled" ELSE course
    BY DEF PasteInv, Typed, ToolTyped, Paste
  <1>2. course # "spoiled" => Len(injected) = 1
    BY <1>1 DEF UnderWay, ToBeCopied, ToBeConverted, ToBePasted, CopyIsLate, GivenUp,
                CopiedLate, Nothing, OnlyCopy, OnlyPaste, CopyThenPaste
  <1>3. Len(injected) = 1 => injected' = <<>>
    BY <1>1
  <1> QED
    BY <1>1, <1>2, <1>3 DEF UnderWay

LEMMA StepStage ==
    ASSUME PasteInv, [Next]_vars
    PROVE  UnderWay'
  <1>0. UnderWay
    BY DEF PasteInv
  <1>1. ASSUME NEW k \in Keys, NEW press \in BOOLEAN, Key(k, press) \/ KeyUnseen(k, press)
        PROVE  UnderWay'
    <2>1. UNCHANGED clipVars
      BY <1>1 DEF Key, KeyUnseen
    <2> QED
      BY <1>0, <2>1, StageStays
  <1>2. CASE ToggleCommand \/ UNCHANGED vars
    <2>1. UNCHANGED clipVars
      BY <1>2 DEF ToggleCommand, vars
    <2> QED
      BY <1>0, <2>1, StageStays
  <1>3. ASSUME NEW text, Select(text) \/ CopyElsewhere(text)
        PROVE  UnderWay'
    BY <1>3 DEF Select, CopyElsewhere, UnderWay
  <1>4. ASSUME NEW text, ReplaceText(text)
        PROVE  UnderWay'
    BY <1>4, ReplaceStage
  <1> QED
    BY <1>1, <1>2, <1>3, <1>4, HotkeyStage, ConvertStage, GiveUpStage, CopyStage, PasteStage
       DEF Next

(* What a replacement pastes is what it was for (PasteIsWanted), or the      *)
(* selection itself where the application copied too late, unless something  *)
(* spoiled it: however keys, the toolkit, the application and other programs *)
(* take turns, for any texts and queues, and whatever the conversions do.    *)
THEOREM PastesAreWanted == Spec => PasteIsWanted
  <1>1. Init => PasteInv
    BY StartsTyped DEF Init, PasteInv, UnderWay
  <1>2. PasteInv /\ [Next]_vars => PasteInv'
    BY StepTyped, StepStage DEF PasteInv
  <1>3. ASSUME PasteInv, [Next]_vars
        PROVE  [Paste => \/ course = "spoiled"
                         \/ course = "straight" /\ clipboard = wanted
                         \/ course = "late" /\ clipboard = selection]_vars
    BY <1>3, PastesWanted
  <1> QED
    BY <1>1, <1>2, <1>3, PTL DEF Spec, PasteIsWanted
=============================================================================
