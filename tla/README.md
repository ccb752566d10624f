# UniKeyTSF: TLA+ models, model checking and proofs

This directory models the parts of UniKeyTSF (a Vietnamese input method for
Windows) whose behaviour depends on order, interleaving or history: who owns a
key, what the keyboard hook believes is on the screen, how a syllable is
composed from its keys, how a text service edits documents it may only touch when
the application lets it, where the settings live, how the settings page keeps up with them, which
applications are excluded, what the hotkeys do to keys and clipboard, and how the
text service gets into the registry. The reference is the code
under `src/src/`; where a document or a comment says something else, the models
follow the code and the disagreement is recorded as a finding.

Paths below are relative to the repository root inside `src/`.

## 1. The system

`UniKeyTSF.exe` (the *manager*) runs once per session. It installs a low-level
keyboard and mouse hook, owns the shared configuration, the tray icon and the
settings window. `uktsf_core64.dll` or `uktsf_core32.dll` (the *text service*) is
loaded by the Text Services Framework into every application that supports it. Hook
and text service can both process a key, so a *routing coordinator* in shared memory decides which one
owns it.

| Component | Source | State | Operations | Talks to |
|---|---|---|---|---|
| Routing coordinator | `src/engine/input_routing.cpp` | `InputRoutingState` in a named mapping, a named mutex (100 ms timeout) | initialize, set mode, refresh from the hook, refresh from a text service, shut down | manager, hook, text services: shared memory |
| Keyboard hook | `src/engine/hook_manager.cpp` | `g_engine`, `g_lastComposition`, `g_rawCharCount`, the last committed word, `g_suppressedKeys`, `g_hLastForeground`, hotkey flags | key down, key up, mouse down | coordinator, engine, configuration; injects input into the foreground application |
| Composition engine | `src/engine/vn_engine.cpp`, `vn_ortho.cpp` | raw keys, composition, `_didTransform`, current method | `ProcessKey`, `RemoveLastChar`, `FeedContext`, `Clear` | called by the hook and by each text service |
| Text service | `src/tsf/text_service.cpp`, `key_event_sink.cpp`, `edit_session.h`, `composition.cpp` | activation, context flag, exclusion flag, composition, edit session flag, its own engine | activate, deactivate, focus, test key, key, edit sessions | coordinator, configuration, the application's document |
| Per-application state | `src/engine/per_app_input_state.h` | table of 128 entries and a seed in a named mapping, its mutex (50 ms) | resolve, set, toggle, seed | hook, text services, tray, configuration file |
| Shared configuration | `src/config/ipc_manager.cpp` | `UniKeyConfig` in a named mapping, mutex (500 ms), `config.dat` | load, save, lock | everybody |
| Exclusion list | `src/config/blacklist.cpp` | the file, a copy per process and the write time it noted | load, save, look up | hook, text services, settings |
| Tray | `src/ui/tray_icon.cpp` | menu | toggle, choose | configuration |
| Settings page and host | `src/ui/settings_*.cpp`, `src/ui/frontend/src/*` | the page's copy of settings, list and autostart; the hidden window | edit, show, hide, load, answer | configuration, exclusion list, registry: messages in both directions |
| Hotkeys and toolkit | `src/engine/hook_manager.cpp`, `src/toolkit/clipboard.cpp` | flags for Ctrl, Shift, Alt; the clipboard | toggle, convert and strip the selection, paste a word | hook, manager window, application, clipboard |
| Registration | `src/engine/tsf_registration.cpp`, `src/tsf/dllmain.cpp` | registry: server of each bitness, language profile, category | register, unregister, diagnose, check at start | Windows, the DLLs of both bitnesses |
| Startup and shutdown | `src/main.cpp` | the order of initialisation and of closing | start, message loop, exit | all of the above |
| Key translation, class factory, installer | `src/engine/key_translate.cpp`, `src/tsf/class_factory.cpp`, ... | none that outlives a call, or reference counts | | |

What is hard here:

- **Two input paths for one key.** The hook asks the coordinator when the key is
  pressed, the text service asks again, twice, when the key reaches the
  application. Anything may happen in between.
- **A mutex whose wait may fail.** Every process may stall or die inside the
  critical section; the others go on after 100 ms with a decision of their own,
  or inherit a half written record (`WAIT_ABANDONED` counts as acquired).
- **Editing blind.** The hook replaces text by injecting backspaces; it never
  reads the screen. A dozen branches clear its records by hand.
- **Sessions that run later.** A text service changes a document only inside an edit
  session. The application may run it after the key has been answered, when engine,
  composition and caret are no longer what they were.
- **Recomputation.** The engine recomputes the word from all its keys at every
  key, so rules for marks, tones and spelling meet in every order.
- **State with many writers.** Settings are written by the tray, by the hotkey
  and by whole snapshots from the settings page, kept in three places (mapping,
  per-application table, file) whose lifetimes differ.
- **Copies that must be told.** The settings page and every process that asks for the
  exclusion list have copies; one is told by messages that cross, the others look at a
  file's write time.
- **Keys nobody owns.** The toggle and the clipboard commands depend on which
  modifiers are down as seen by the hook, by the system and by the application, which
  are three different times.
- **Commands that stop half-way.** Registration is ten changes of the registry by two
  DLLs, most results ignored, run by processes that may overlap or be killed.

What would make each component correct: one owner per key and none lost; a
stored decision that follows from its inputs; the hook's records equal to each
other and to the screen; every syllable typable in every order of its keys; no
setting lost by a restart, a race or a full table; a copy that is used only while
it is right; a toggle for its keys and no others; a replacement that pastes what was
converted; a registration that is complete when it says so. `PROJECT.json` lists each
hazard at its line with the properties that watch it.

## 2. Modules

| Module | What it models | Checked by | Proved in |
|---|---|---|---|
| `InputRouting` | the coordinator with all its callers: startup, hook, text services, crashes, timeouts, handles | `MCInputRouting` (3 runs) | `InputRoutingProofs` |
| `VnEngine` | the engine and the orthography as pure operators | through the three below | `VnEngineProofs` |
| `VnTyping` | somebody types one syllable into the engine | `MCVnTyping` (1 run) | `TypingProofs` |
| `HookTyping` | the hook's typing procedure composed with `VnEngine` and with the text an application shows | `MCHookTyping` (1 run) | `HookTypingProofs` |
| `TsfService` | the text service's keys, edit sessions, composition and reconversion over `VnEngine` and the documents of one application | `MCTsfService` (1 run) | `TypingProofs` |
| `InputSwitch` | abstract: one switch per application, or one for all | implemented by `ConfigStore` | `ConfigStoreProofs` |
| `ConfigStore` | the shared configuration, the per-application table, `config.dat`, and everybody who writes them | `MCConfigStore` (1 run) | `ConfigStoreProofs` |
| `ExclusionList` | `blacklist.txt`, the copies of it and the write times | `MCExclusionList` (1 run) | `SettingsPageProofs` |
| `SettingsPage` | the page, its host and the messages between them, over `ExclusionList` | `MCSettingsPage` (1 run) | `SettingsPageProofs` |
| `Charset` | the tables and conversions of the toolkit as pure operators | through `Hotkeys`, and an assumption TLC evaluates | |
| `Hotkeys` | toggle combinations, clipboard commands and clipboard mode, over `Charset` | `MCHotkeys` (2 runs) | `HotkeysProofs` |
| `Registration` | the commands that register and unregister the text service, and what they leave | `MCRegistration` (1 run) | `RegistrationProofs` |

### InputRouting

The mutex makes a read-merge-write atomic for everybody else, so each call of
the coordinator is two steps: `...Enter` (the wait succeeds, `crit` records the
caller and the call) and `...Leave` (merge, write, release). A third action,
`...Timeout`, is the branch where the memory is missing or the wait times out.
A process that dies inside its section does the first `n` of the eight stores
of `WriteRoutingStateLocked`, for any `n` (`Abandon`, `StoredUpTo`). The named
mapping lives as long as somebody has a handle (`Mapped`), so a manager that
restarts finds old memory, or zeroed memory.

| In the model | In the code |
|---|---|
| `state` | `*g_routingState`; `valid` is `version == 1` (with `ReadRoutingStateLocked`'s default when it is not) |
| `crit` | the owner of `g_routingMutex` and its call |
| `foreground` | the application of `g_hLastForeground`, and `g_bBlacklisted` |
| `mgr` | how far `wWinMain` has come |
| `svc[a]` | the text service in application `a`: activated, `_tsfContextActive`, `_isBlacklisted`, handle to the mapping |
| `queue[a]`, `tested[a]` | keys the hook passed on, and the answer of `OnTestKeyDown` for the first |
| `done` | the key the last step delivered and who processed it; `hook` means the hook owned it, whether or not it then changed it |
| `told` | history: the applications the hook, and those whose service, was last told are excluded |
| `torn`, `excused` | history: the last write was cut short; something the code allows put TSF in front of the hook in `HOOK_PRIMARY` |

`excused` becomes true when the startup mode is another one, when a key is
pressed while no window has the foreground (the hook then publishes an inactive
context, and a text service may take over), and when a process dies inside a
write that publishes one of these or first fills zeroed memory. The properties
about `HOOK_PRIMARY` claim nothing afterwards. That `excused` cannot be smaller
was found by letting TLC refute each property without the excuse.

Whether an application is excluded is no constant. The hook asks when another window
comes to the front (`LookAt`), a text service when a document is focused (`SetFocus`),
and each keeps the answer until it asks again. The answer (`Answers`) is either one for
an application in `Excludable`, because the list and the copies of it change; and no
for every other, as it is when the process cannot be opened, its image name not be
queried, or the application's name is empty: the exclusion fails open.

The order in which keys reach an application is the order in which the hook
passed them (one system input queue). A key is abstract: which keys a text
service eats is nondeterministic once it owns the key (`TestTail`), and a
service whose input is disabled ignores any key (`KeyIgnored`).

### VnEngine, VnTyping

A character is a base letter and a tone (`[base, tone]`); a marked letter is a
base of its own (`aa` for a circumflex, `ow` for a horned o, `dd`). Keys are
named by their character. `ProcessKey`, `RemoveLastChar` and `FeedContext`
return the next engine; `ApplyRules` scans the raw keys as the three
`Apply...Rules` functions do, `ApplyTone` is `ApplyToneToResult`,
`IsSyllableValid` is `VnOrtho::IsSyllableValid` over `Decompose`. Letter case
and the tables of code points are left out: no property is about them. A character
of a document can come back as a key when a word is replayed (`FeedContext`); `Name`
and `Char` convert between the two, so an accented key (`a1` is a with acute) means
what it means in the code: a letter of the word, whose tone a later tone key replaces.

`VnTyping` is a typist: the letters of a syllable in order, the keys of a
letter as the method spells it, the tone key at any time after the first vowel
(or earlier with free tone marking), wrong keys and Backspace. The syllables
are all those that the code's own tables accept and read the way they are meant.

### HookTyping

One action per branch of `LowLevelKeyboardProc`, named after it (`ShortcutKey`,
`YieldedKey`, `BackspaceInWord`, `NavigationKey`, `TransformingKey`, `PlainKey`,
`MacroKey`, `CommittingKey`, ...), `KeyUp`, `MouseDown`, and the world: window
changes, configuration changes, time. `text[w]` is what window `w` shows left of
its caret; the system delivers injected input and passed keys in the order the
hook handled them. `Replaced` is `ReplaceText` with its common prefix. Which key
the routing decision gives to another path is nondeterministic here
(`YieldedKey`); `InputRouting` says when that can happen. `mixed` is a history
variable: the configuration changed in the middle of the word.

`pressed` are the keys physically down, `unheard` those of them of which no window has
heard a press. The toggle combinations are handled before these branches and share no
state with them: they are in `Hotkeys`, and so is the clipboard mode of `ReplaceText`.
What Alt+Z does to the key Z is here too (`HotkeyPress`, and `hotkeyed` remembers it):
the press is swallowed without a note in `g_suppressedKeys`, the release is passed.

### TsfService

| In the model | In the code |
|---|---|
| `engine` | `_engine` of the service |
| `busy` | `_editSessionInProgress` |
| `recent` | `_lastCommittedTick` is set and at most two seconds old |
| `comp` | `_composition`: `open` is `IsComposing()`, `from` and `to` its range, `alive` whether the application still has it |
| `docs[c]` | text and caret of document `c` |
| `queue` | sessions that the application has put off, in the order of the requests |
| `parted` | history: word, composition and caret have been parted: somebody else edited or moved the caret while no session waited, the application ended the composition, another document came, the word was forgotten without its composition (`OnSetFocus`, `OnKeyDown` after an owner change), or a session that looks for a word was put off; until the service is idle |
| `edited` | history: somebody else has edited a document or moved a caret since the waiting session was asked for |

A handler and a session compute from a record of these variables (`World`) what may
come of it: a set of results, one for each thing the application can do with each
request (`Requests`): run it (`now`), run it later (`later`), refuse it (`never`). One
key asks for up to three sessions in a row: `RunCommitted` edits a word in the
document, `RunReconvert` turns the word around the caret into the composition,
`RunUpdate` shows the engine's word. `TypedKey` is the whole of `OnKeyDown` for a
character, `Backspace`, `Escape` and `NonTextKey` are its other branches. What the
service leaves to the application is `LeftKey`, `LeftBackspace`, `MoveCaret`, and
`LostKey` when the owner changes between `OnTestKeyDown` and `OnKeyDown`. Which keys
the service owns is nondeterministic: `InputRouting` says when.

Left out: selections that are not empty (both sessions that read one give up),
calls that fail inside a session for other reasons than a composition that is over,
a change of the settings in the middle of a word.

### InputSwitch, ConfigStore

`InputSwitch` says what switching promises: `Toggle(a)` turns the switch of the
application in front around, `Choose(a)` sets it, no other application that has
a switch of its own is touched, and only a pause of the manager forgets. It also
says what may go wrong: an application is not remembered when the table is full,
when its name does not fit (the code stores 64 characters and compares all of
them), or when the mutex stalls. `ConfigStore` implements it (`Promise`); the
refinement mapping reads the switches out of the table.

| In the model | In the code |
|---|---|
| `config` | `*g_pConfig` in its mapping, `NoConfig` when no process holds the mapping; `valid` is the version; `other` stands for all settings that have nothing to do with switching |
| `store` | `PerAppInputStateShared` likewise: the table in order of insertion, the seed, `seedInitialized` |
| `file` | `config.dat`; `Torn` once it is truncated and not written yet, or not completely |
| `mgr` | phase of `wWinMain`; `writing` is the window inside UPDATE_CONFIG between opening the file and writing it |
| `handles[p]` | which mappings process `p` keeps alive |
| `cached[a]` | `_config.perAppInputState` of the text service in `a`, which decides whether it opens the store |
| `latest`, `saved` | history: the settings a clean exit has to keep; the configuration written last |

Only the manager writes the two memories, and all its commands run in one message
loop. What interleaves is the life of the mappings (a text service keeps them
alive over a restart, or lets them go), crashes, and the mutexes: `Attempts` is
the outcome of a wait, which can fail when another process holds the same memory.
A command that cannot lock the configuration does nothing and has no action. The
settings page sends all settings at once, from a state of its own that starts with
built-in defaults and misses what tray and hotkey change, so `UpdateConfig` takes
any combination; which ones it can be is what `SettingsPage` is about.

### ExclusionList, SettingsPage

| In the model | In the code |
|---|---|
| `file` | the lines of `blacklist.txt`: names, comments; `NoFile` |
| `cache[p]`, `stamped[p]` | `g_processBlacklist` of process `p`; whether `g_lastBlacklistWriteTime` is the present write time of the file |
| `call[p]` | what `p` is in the middle of: between the two halves of `InitBlacklist`, or of `SaveBlacklist` and the reload after it |
| `raced[p]` | history: the file changed between the reading of the copy and the note of its time |
| `config`, `own` | `*g_pConfig`, reduced to the two switches and the rest; the table's entry for the manager itself |
| `page` | the four `useState` of `App`, `NoPage` before it is mounted |
| `toHost`, `toPage` | messages posted and not handled: each direction keeps its order, the two cross |
| `window`, `autoRun` | hidden, behind or in front; the Run value |

Reading the list and noting its time are two steps (`ReadCopy`, `NoteWriteTime`), and
so are opening and writing it (`OpenList`, `CloseList`); every process may run between
them. The stream is a component of its own: `Streamed` is what a wide stream with the
classic locale leaves of a sequence of lines when one of them has a character that is
no single byte. `Wide` says which have; the header of the code has.
The handlers of the host run one at a time (`Hears`); a handler that saves the list
blocks the others until it has reloaded it (`HostIdle`). `ChangeOutside` stands for
all that `ConfigStore` does to the configuration without the page; which application
has the foreground decides what `ResolveEffectiveInputEnabled` answers (`Effective`).

### Charset, Hotkeys

`Charset` holds the 134 letters with their TCVN3 bytes, their VNI pairs and their bare
letters, lower case as listed in the source, upper case derived (each of the four
tables of the source agrees with it entry for entry). Texts are sequences of codes.

| In the model | In the code |
|---|---|
| `held` | the modifiers that are physically down |
| `async` | those for which `GetAsyncKeyState` answers down |
| `flags` | `g_bCtrlDown`, `g_bShiftDown`, `g_bOtherKeyPressed`, `g_bAltDown` |
| `missed` | history: the hook was not told of a release of Alt |
| `posted` | `WM_COMMAND` and `WM_HOTKEY` in the manager's queue |
| `toolkit` | the conversion whose `Sleep(100)` is running |
| `clipboard`, `selection`, `injected` | the clipboard's text; the selection and the unread input of the application |
| `wanted`, `course` | history: what the last replacement is to paste, and what has interfered with it |

External facts the model rests on, none of them in the repository: the hook is called
before the asynchronous key state changes (the system's documentation of
`LowLevelKeyboardProc` says so); injected events pass the hook by but change that
state; the hook, the window procedure and the toolkit share one thread, so no key
reaches the hook during `Sleep(100)`; a key typed on another desktop, or while the
hook is too slow, is not seen (`KeyUnseen`); an application that sees Shift or Alt
beside Ctrl+C or Ctrl+V may do the same or nothing. `toggleKey` and `charset` are
fixed in a behaviour: they are read anew at every key, and what a change in the
middle of a combination does is in section 5.

### Registration

`server[v]` is the directory that `InprocServer32` points to in the 64-bit or the
32-bit view, `profile` and `category` what both DLLs share, `proc[p]` what process `p`
has still to do, as a sequence of steps of `DllRegisterServer`, `DllUnregisterServer`,
the diagnosis or the check of a start. Every step may fail, as the code goes on or
leaves out the rest of the same DLL and goes on with the 32-bit one, if there is one
(`SkipDll`). `Kill` ends a command between any two steps; `KillParent` ends it while it
waits for `regsvr32` (`Regsvr32`), which is a process of its own and does the rest of
the 32-bit DLL's steps. The commands run before the mutex of the single instance is
taken, so they overlap; starts do not. `broken` and `orphaned` are histories that say
when a property has been forfeited; both end when everything is gone and nobody is at work. That a profile
whose registration succeeds is enabled or disabled is the system's decision.

## 3. Runs

| Run | Question | Bounds | Result |
|---|---|---|---|
| `routing` | Is the stored owner consistent, is a `HOOK_PRIMARY` key processed once, does each asker obey what it was last told about an application's exclusion? | two applications, both with a text service, one that may be excluded; mode `HOOK_PRIMARY`; one key in each queue | pass, 940 thousand states |
| `routing_delivery` | Does every key get handled although others stall in the mutex? Does the sequence number move with every different decision? Is the stored owner consistent in every mode? | one text service, all modes, sequence modulo 3 | pass, 210 thousand states |
| `routing_one_path` | "no dual-processing across hook and TSF paths" | one text service | violated: finding 1 |
| `hook_typing` | Do the hook's records agree with each other, with the screen and with the keys held? | windows of 3 and of 1 characters, keys a, 1, z and space, Alt+Z, VNI with a macro and TELEX without, words of 3 keys, one key held | pass, 1.3 million states |
| `engine_syllables` | Is every syllable typable, with its tone on the right vowel? | six initials, all vowel clusters, three finals, three tones, seven configurations, five wrong keys | pass |
| `tsf_typing` | Do engine, composition and caret come together again? Does a session edit one word only? Does the service listen again after every key? | one document of 3 characters, keys a, s, space, words of 2 keys, two waiting sessions, TELEX with a macro; sessions run now or later; others edit at any time while a session waits, and once while none does until the service is idle | pass, 394 thousand states |
| `settings_store` | Does the table implement one switch per application, and does a toggle turn the switch of its own? Do settings survive a clean exit? Is the saved switch the one from before per-application switching? | two applications, one with a long name and one with a text service, two entries, two values of the other settings | pass, 180 thousand states |
| `exclusion_list` | Does a saved list exclude its applications? | two names (`MaxList` admits every list of them), a built-in list of one | violated: finding 2 |
| `settings_page` | What can part the page from the configuration? Is a copy of the exclusion list used only while it is right? | one excluded name (`MaxList` admits every list of it), two values of the other settings, four acts of user and world, three messages under way in each direction | pass, 950 thousand states |
| `registration` | Is a profile ever listed without a server? Does register repair, does unregister clear, does ready mean that all this copy can register is there? | two processes, two copies of the program, one without the 32-bit DLL | pass, 94 thousand states |
| `hotkeys` | Does Alt+Z toggle with Alt only? Is what was converted what is pasted? Does the conversion keep the text? | one key of each modifier, a text of four letters, one posted message, two combinations the application has not read | pass, 960 thousand states |
| `hotkey_toggle` | Does Ctrl+Shift, pressed and released alone, toggle? | two Ctrl keys, otherwise the same | violated: finding 3 |

Why these bounds are enough to be interesting:

- *Routing.* Two text services are needed for the stale context of one to meet
  the focus of the other. One application that may be excluded, beside one that never
  is, lets the answer about the one be held when the other comes to the front; the
  answer itself changes at every question. One key per queue already lets
  the hook decide before and the service after any number of other events. The big run
  starts in `HOOK_PRIMARY`, the only mode that two of its properties speak of; the
  delivery run has all three. The invariants are also proved for every value of the constants
  (section 4); the runs are there to show that the actions happen. `SeqMod = 1` in the
  big run takes the counter out of the state; the delivery run has it wrap at 3.
- *Hook.* Four keys (a vowel, a modifier of VNI, one of TELEX that also toggles with
  Alt, a boundary) reach every branch of the procedure in both methods, and a word of
  three keys has a transformation, its loss by Backspace and a plain key before and
  after it. Two windows let the word
  in progress belong to another window than the one in front. One held key, with
  auto-repeat, is enough for press and release to be separated by a focus change.
- *Syllables.* The initials are one of each kind that the code distinguishes
  (none, two letters, `qu` and `gi` that look like vowels, `ngh`, the marked
  `dd`); the vowel clusters are all of the code's; the finals are an open one, a
  stop and a nasal; tones 1 and 2 are one that a stop takes and one it does not.
- *Text service.* A vowel, a modifier that is also a letter, and a space reach every
  branch; three characters hold a word, its delimiter and a second word, so that both
  ways of finding a word are used, with the caret on either side; a replayed word may
  be longer than one that is typed. Two waiting sessions are what one key leaves
  behind. While a session waits others type, delete and click as often as they like.
  While none waits `Undisturbed` lets them act once until the service is idle: a second
  time finds nothing, because the properties claim nothing once `parted`.
  One document leaves out the composition that belongs to another document than the
  session (`UpdateComposition`): a second one makes the instance too large for a run.
- *Settings.* Two applications, one of which never finds its own entry because its name
  is too long, fill a table of two entries in both orders. One text service suffices to
  keep a mapping alive, to let it go, and to stall in its mutex. Counters are not
  needed: every variable is finite.
- *Settings page.* Four acts are an edit, a change elsewhere and a re-show or a reload
  with one more between them, on either side of the answer to the page's first message;
  acts of the programs themselves are not counted. Three messages hold the two of a page
  that loads and an edit; `MaxQueue` stops the user, never a handler that is owed room
  longer than it takes to empty the queue. One name, which is also that of the
  application with a text service, makes a list full or empty; `FreshCopy` is proved for
  all lists.
- *Registration.* Two processes are what overlaps; the second copy of the program, in
  another directory and without a 32-bit DLL, makes a check find somebody else's server
  and an unregistration leave one behind. Nothing is bounded: every variable is finite.
- *Hotkeys.* One posted message and two unread combinations are a copy and a paste, or
  two replacements that meet. Longer queues add more of what `course` already calls
  spoiled. The text has a letter of each kind the tables tell apart (horned with tone,
  capital with circumflex, plain, the stroked d); all 134 are read back by the
  assumption `VniReadsBack`. None has a mark that is itself a Vietnamese letter: such a
  text grows at each conversion (section 5) and the instance would not end.

**Fairness** is assumed in two runs. In `tsf_typing` a session that has been put off
gets its turn (`SessionsRun`, the weak fairness of `RunSession` with its ENABLED spelled
out, which is much cheaper to check): that is what TF_S_ASYNC promises. In `routing_delivery`:
strong fairness of the key
steps of an application and weak fairness of finishing a publication, that is,
the message loop of an application keeps running and comes back to its keys
although focus events keep arriving. The manager, and any process inside the
mutex for a different reason, owe nobody a step: that the key is handled all the
same is what the timeout of `LockRouting` is for. `KeyIgnored`, which empties a
queue without asking anybody, is not fair, so it cannot carry the property.

Every property of a passing run has a mutant in `PROJECT.json`: a plausible
mistake in one definition that makes the run fail. The operators named there
(`NextSeqWide`, `TsfTakesOver`, ...) stand before the definition they replace and
are used by nothing else.

Deadlock is not an error in `settings_page` and `hotkeys`, where the bounds stop the user.

## 4. Proofs

Every theorem holds for all values of the constants that satisfy the named assumption of
its module. The assumptions say what the code takes for granted: that the sets which name
different things are disjoint, that bounds are numbers, that configurations, macros and
tables are of their kind, and that the markers for "no file", "no store", "nobody" are not
files, stores or applications. TLC evaluates each on its instance.

| Module | Theorem | Says |
|---|---|---|
| `InputRoutingProofs` | `TypeCorrect` | `Spec => []TypeOK` |
| | `OwnerAgrees`, `OnePath`, `HookKeepsKeys`, `ExclusionHolds` | `StoredOwnerConsistent`, `HookPrimaryOnePath`, `HookPrimaryKeepsKeys`, `ExclusionObeyed` always hold |
| | `RoutingCorrect` | `Spec => []RoutingInv`, from which these follow |
| | `NumbersMove` | `Spec => SequenceMoves` |
| `VnEngineProofs` | `ComposedIs` | what the rules compose from any keys: a row of characters, at most one per key, empty only for no keys |
| | `LiteralBefore` | a word that comes out as typed came out as typed before its last key |
| | `RulesOver`, `FeedContextOver` | what the rules make of a method's keys, and what a replayed text leaves in the engine, are letters of that method with tones on vowels only |
| `TypingProofs` | `CompositionTyped`, `TransformedForGood` | `TypistTypeOK`, `TransformedStays` |
| | `ServiceTyped` | `TypeOK` of `TsfService` always holds |
| | `WordShown` | `WordInComposition` always holds, if no session is refused (`"never" \notin Grants`): nothing is said once `parted` |
| | `OneWordEdited` | `Spec => DelimitersStay`, if no macro has an empty text (`<<>> \notin DOMAIN Macros`): nothing is said once `parted`, nor of a late session when a document was `edited` while it waited |
| `HookTypingProofs` | `HookTyped`, `RecordsAgree`, `WordStaysOnScreen` | `TypeOK`, `BookkeepingAgrees`, `WordOnScreen` always hold |
| | `NothingElseDeleted` | `Spec => TextBeforeWordKept`: also for the Backspace that empties a word and for a macro; not with spell check, nor after a change of settings in the word |
| | `ReleasesHavePresses` | `Spec => []NoReleaseWithoutPress`, the Z of Alt+Z excepted |
| | `NothingReconverted` | `Spec => [](hook.word = <<>>)`: the hook never has a committed word to reconvert |
| `ConfigStoreProofs` | `SettingsTyped`, `SettingsKeptByExit` | `TypeOK`, `SettingsSurviveExit` always hold; the latter is about every setting but the on/off switch itself |
| | `SeedKeptBySaves`, `ToggleTurnsItsApp` | `SeedKept`, `ToggleIsItsApps` |
| | `TableImplementsSwitch` | `Spec => ImplementsSwitch`: the refinement of `InputSwitch` |
| `SettingsPageProofs` | `ListFreshCopy`, `PageFreshCopy` | `FreshCopy` for the list alone and with the page at work |
| | `SettingsPageTyped` | `TypeOK` of the page, its host and the list always holds, with the contents of every message under way |
| | `PageInSync` | `Spec => SyncKept` |
| `HotkeysProofs` | `AltFlag`, `HotkeysTyped` | `AltIsHeld`, `TypeOK` always hold |
| | `PastesAreWanted` | `Spec => PasteIsWanted` |
| `RegistrationProofs` | `RegistrationTyped`, `ProfileNeverOrphaned` | `TypeOK`, `ProfileHasServer` always hold |
| | `RegistrationCompletes`, `RemovalCompletes`, `ReadyMeansComplete` | `RegisterRepairs`, `UnregisterCleans`, `ReadyIsComplete`, each about the DLLs that the copy at work has |

TLC found each inductive invariant below to hold on the instance of its run before it was
proved. Why each is needed:

- **Routing.** The properties about keys are not inductive. `RoutingInv` adds:
  `CallsMatchCallers` and `KeysInProgress` (who can be inside the mutex, and that
  a test or key call has its key), `UnexcusedMemory` (while nothing is excused and
  the memory is valid, its mode is `HOOK_PRIMARY` and its hook context is active:
  so whoever merges a text service's context into it still computes the hook as
  the owner), `HookKnowsExclusion` (the hook's flag is what it was told about the window
  it noticed last), `ServiceKnowsExclusion` (the flag of a service that has a context is
  what its last document focus told it: a service that never had one owns nothing),
  and `QueuedKeysAllowed` (what a key carries from the hook's decision through the queue
  until it is delivered).
  `TypeInv` is `TypeOK` with the first two, and is proved first, one lemma per
  process; the rest follows in three groups (memory, services, keys), one step per
  action. `NumbersMove` needs only `TypeInv`: no step but a complete write of the
  next number changes the record.
- **Engine.** The rules scan the keys one by one (`Scan`), so what they compute is proved
  by induction over the number of keys. The induction theorems of the library take
  an operator as a parameter; `SetInduction` states the principle with a set
  instead (the numbers for which the fact holds contain 0 and each successor) and is
  proved from the well-foundedness of the natural numbers. `ScanKeeps` and its
  companions say what the state of the scan is after each key; `ApplyTone` changes one
  character and no length. A second induction follows the letters: from keys over a set
  of bases that has every plain and marked letter (`BasesFor`) come characters over
  that set, and a tone is only ever put on a vowel. It needs `NamesApart`: no accented
  key has the name of a plain one. The four theorems are then all that `VnTyping`,
  `HookTyping` and `TsfService` need to know of the rules, through lemmas about each
  operation of the engine (`ProcessedOK`, `RemovedOK`, `LiteralAppend`, `EngineOver`).
- **Text service.** Handlers and sessions take a world to a world, so the lemmas are
  about one operator each (`UpdatedIs`, `RunReconvertIs`, `AsksEndIs`, ...) and are put
  together per handler (`TypedKeyIs`, `BackspaceIs`, `RunSessionIs`, ...); a step is then
  `StepKeeps`. `TypeInv` strengthens `TypeOK`: the engine holds letters of the present method
  (so what it composes can be written, and comes back from the document as one word), and a
  session that waits is one of the five kinds, for a document that is there. `OrderInv` is what
  makes `WordInComposition` inductive: while nobody has parted them, either nothing waits
  and the composition shows the word, or exactly one session waits with `busy` set and
  will bring that about (`Waits`: an update for a word, an end or a replacement after
  one), or a session was refused. When others have edited since, the waiting session
  still repairs it (`Repairs`): the composition is alive and in the right document, wherever
  the caret is. `DelimitersStay` uses the same invariant: a region that is replaced
  lies inside one word (`SpanIs`, `Joined`), what replaces it is a word, and a position
  that moves with the text keeps the delimiters on its side
  (`SeparatorsStay`, by a bijection between the two sets of delimiters).
- **Typing.** `TypistInv` says that the composition is well formed, that `did` tells it from
  its keys, and, without spell check, that the engine is what the rules make of its
  keys; `TransformedForGood` is then `LiteralBefore`, read backwards.
- **Hook.** `HookInv` joins the records of the hook (`HookOK`: well-formed engine, shown text
  equal to its composition, a count that is positive exactly in a word, and nothing ever
  kept for reconversion: see section 5), the keys held, and
  the screen: while a word is in progress its window has been noticed (`WordSomewhere`) and
  shows the word left of the caret. One step per branch of `LowLevelKeyboardProc`; the
  arithmetic of `ReplaceText` is in lemmas about suffixes and the longest common prefix
  (`CommonIs`, `ReplacedIs`), which hold for any two words.
- **Store.** `StoreInv` says what a memory that somebody holds contains, that file and
  mapping together carry the settings of the last manager to the next, and how the saved
  configuration, the one in use and the seed hang together. The refinement is proved
  action by action: each step of `ConfigStore` is a `Toggle`, a `Choose`, a pause or a
  stutter of `InputSwitch` under the mapping that reads the switches out of the table; the
  lemmas before it say what adding an entry does to every other one, for a table of any
  size.
- **Exclusion list.** `CopyInv`: a copy whose write time is noted, or about to be, is what
  `LoadBlacklist` answers, unless the file changed in between (`raced`). Every change of
  the file clears `stamped` for all processes at once.
- **Settings page.** `PageInv` says what may be under way: messages of the kinds that page
  and host send, with lists that somebody wrote (`ListInv`: a file that was saved, edited or
  emptied still loads as one, which needs an induction over its lines, `HintedLines`).
  `SyncKept` speaks of the configuration once everything is heard: that is the payload
  of the last update in the queue (`LastUpdate`, `SettledFor`). Four lemmas say what that is
  after a message joins or leaves (`UpdateJoins`, `OtherJoins`, `UpdateLeaves`,
  `OtherLeaves`); the greatest element of a set of positions exists by the well-foundedness
  of the natural numbers (`LargestOf`). One lemma per action then keeps `InSync`, and the
  exceptions of the property are exactly the steps without one.
- **Hotkeys.** `AltInv` adds that the flag never moves in the Ctrl+Shift mode, and that
  `missed` remembers exactly the releases the flag was not told of. `TypeOK` is inductive
  (`Typed` states it with `Seq` and lengths). `PasteIsWanted` needs the stages of a
  replacement (`UnderWay`: to be copied, converted, pasted; copy late; given up): each says
  which combinations wait and which text they will meet. The conversion itself is never
  looked into.
- **Registration.** `RegistrationInv` is about what a process has still to do: its list of
  steps has the shape of its command, and while nobody interfered what is no longer on
  the list has been brought about (`DoneSoFar`), for whichever copies of the program and
  however many processes.

Model-checked only, and why:

- `KeysDelivered` and `DebounceEnds`: liveness under fairness, out of the prover's reach.
- `SyllableTyped` and `ToneOnNucleus`: which syllable a row of keys gives depends on every
  entry of the tables of initials, clusters and finals. `ConversionKeepsText` likewise
  depends on each of the 134 letters. TLC enumerates them.

## 5. Findings

1. **A key can be processed twice outside `HOOK_PRIMARY`** (`routing_one_path`).
   `docs/log/EXECUTION_BACKLOG.md:46` asks for "no dual-processing". The hook
   owns a key, passes it on, a text service publishes its context, and then owns
   the same key.
2. **A list saved from the settings page is lost** (`exclusion_list`). The header that
   `SaveBlacklist` writes has a long dash. Nobody gives the wide stream a locale, so it
   fails there; no name is written, the function answers that all is well, and every
   process reloads an empty list.
3. **Ctrl+Shift does not toggle** (`hotkey_toggle`). The hook waits until "ALL control
   keys are released" by asking `GetAsyncKeyState` while it is told of the release: the
   key still counts as down. Neither the toggle nor the reset of the flags happens. The
   exception is a release after the toolkit's own Ctrl+V has cleared the state of Ctrl: a
   stray toggle then.

Met on the way, without a run of its own. In the hook and the engine:

- *A timeout types Vietnamese into an excluded application.* `MakeFallbackDecision` does
  not look at the exclusion (`engine/input_routing.cpp:140`).
- *The exclusion fails open and goes stale.* The answer is no when the process cannot be
  opened or named (`engine/hook_manager.cpp:321-337`) or the service does not know its
  application (`tsf/text_service.cpp:279`), and a change of the list shows only when
  another window comes to the front or a document is focused. `ExclusionObeyed` is what
  remains true: what was answered last is obeyed.
- *Spell check does not take back what is on the screen.* The engine reverts to the raw
  keys and says that nothing was transformed; the hook then passes the key on and leaves
  the transformed letters (`engine/hook_manager.cpp:434`). `WordOnScreen` therefore holds
  for `Configs` without spell check.
- *The hook never saves the word it commits.* `GetRawString` is read after `ProcessKey`
  has cleared the engine (line 458), so reconversion after a delimiter is dead in the
  hook (`NothingReconverted`). Saving the raw keys before the call is not enough: the
  modifier key then edits the word as if the delimiter were not between them (the mutant
  of `TextBeforeWordKept`).

In the settings and the list:

- *The save at exit writes one application's switch as everybody's.* `wWinMain` closes
  the per-application store (`main.cpp:353`) before `CleanupSharedMemory` saves: the
  store that the save opens again is empty unless a text service kept the old one alive.
  `tests/ipc_test.cpp:201` expects the saved switch not to change; `SeedKept` shows that
  every other save is right.
- `InitBlacklist` reads the list before it notes the write time: a change between the
  two is missed until the next one (`raced`). When the file is deleted, each process
  keeps the copy it has.
- The page's list is empty until BLACKLIST_DATA arrives: adding a name before that sends
  a list of one. A UI_READY whose lock fails leaves the page at its built-in defaults,
  and the next edit stores them all. A re-show posts `*g_pConfig` as it is, without the
  lock and without resolving the foreground application's switch.
- With one switch per application, any edit on the page sends the switch the page shows,
  and the common one changes when the settings window is not in front.

In hotkeys and toolkit:

- The toolkit sends Ctrl+C while the user still holds Ctrl and Shift of the hotkey: an
  application that takes Ctrl+Shift+C for something else copies nothing, and the old text
  of the clipboard is converted and pasted over the selection (`course` spoiled).
- The hotkeys and Alt+Z are registered or watched with their repeats: one that is held
  down converts twice and toggles many times. A text with a circumflex has a VNI mark
  (0xE2) that is itself a Vietnamese letter: converted again, it grows.
- The TCVN3 bytes of capitals collide with those of small letters (99 bytes for 134
  letters), so `ConversionKeepsText` asks for no more than the length there; the comment
  at `toolkit/clipboard.cpp:55` says that the mapping covers all characters. The tests
  exercise a copy of the tables (`toolkit/charset_convert.h`).
- Alt+Z swallows the press of Z and passes its release, the exception that
  `NoReleaseWithoutPress` states. After Ctrl+Alt+Del the Alt flag
  may stay set (`missed`): each plain Z then toggles and disappears. A change of the
  toggle key while Alt is down leaves the flag too.

In the registration: `EnsureTsfDllRegistered` looks at the 64-bit server only and never
repairs a missing profile, category or 32-bit server; the results of the values written
by `RegisterCLSID` and of the 32-bit DLL are ignored; `/unregister` from one copy of the
program removes the server of another.

In the engine: `uo` with the horn on the o alone
cannot be typed in TELEX and VNI, though the tables have it; with the classic
tone type `qu` and `gi` are not skipped; `Decompose` ignores consonants between
vowels; Backspace skips the spell check; with free tone marking a tone key inside
a two-letter initial splits it (`t`, `s`, `r`); a tone on an open horned pair goes
to its first vowel; `ResetEngine` is never called.

In the text service, read from the model and excluded from its properties:

- *A refused session stops Vietnamese for good.* `_editSessionInProgress` is set
  before the request and reset only by the session. With `Grants` that contain
  `"never"` (a read-only document answers so), `DebounceEnds` fails at the first key.
- *The debounce does not cover a key with several sessions.* "Debounce: skip if an
  edit session is already in progress (prevents fast typing race conditions)"
  (`tsf/text_service.cpp:369`): the first of the waiting sessions resets the flag while
  others still wait. TLC refuted `WordInComposition` in five steps without the part of
  `parted` called `Late`: a late `RunCommitted` clears the engine under the word that is
  being composed.
- *A late session carries the caret back.* What the application typed behind the
  composition while the session waited stays, but the caret goes before it: the word is
  right (`WordInComposition`), the order of the keys is not. `DelimitersStay` exempts it
  (`edited`).
- *A cleared engine leaves its composition open.* `OnSetFocus` and the owner test of
  `OnKeyDown` clear the engine only; the next word is then written over the old one.
- *Macros never expand.* `OnKeyDown` looks the word up (line 678) after `ProcessKey`
  has cleared the engine, as the hook does; `hadCommittedWord` (line 676) is never TRUE.
  The exception came out of the proof of `DelimitersStay`: a line of the macro file that
  begins with a colon, a blank or a tab is loaded under the empty text
  (`engine/macro.cpp:46`), which is the word that is looked up: with macros on, every
  word that ends is then replaced by that macro. `OneWordEdited` excludes such a file.
- *A refused session leaves the word apart from the composition*, besides `busy`: hence
  the hypothesis of `WordShown`.

## 6. Plan

Order of work, most important behaviour first. Done: 1 to 13.

1. `InputRouting` with its proofs.
2. `VnEngine`, `VnTyping`.
3. `HookTyping`, composing `VnEngine` with the screen.
4. The findings of these three.
5. `ConfigStore`, implementing `InputSwitch`.
6. `TsfService`, composing `VnEngine` with documents and edit sessions.
7. `ExclusionList` and `SettingsPage`, which composes it with the page and its host.
8. `Charset`, `Hotkeys`: toggle combinations, clipboard commands, clipboard mode.
9. `Registration`.
10. Proofs of `FreshCopy`, `NoReleaseWithoutPress` and `AltIsHeld`.
11. Proofs of the safety properties of `Registration`, `ConfigStore` with its refinement,
    `HookTyping` and the engine below it, of the types of `VnTyping` and `Hotkeys`, of
    `SequenceMoves`, `TransformedStays` and `PasteIsWanted`.
12. Proofs for `TsfService`: that no caret and no composition leaves its text (`TypeOK`),
    `WordInComposition` and `DelimitersStay`, with what they need of the engine.
13. Proofs of `TypeOK` and `SyncKept` of `SettingsPage`, with the searches in a queue and in a
    file written without an operator as a parameter.
14. `TsfService` with two documents and a change of settings, and a run for the debounce
    against its comment.

### Not modelled, and why

- Inside `ConfigStore`: a crash between two field stores of UPDATE_CONFIG, the early
  exits of `wWinMain` when the window cannot be created, and the text services' reads of
  the configuration beyond `perAppInputState` (a copy under the mutex, so there is
  nothing to tear).
- Inside `SettingsPage`: the start of WebView2, the JSON text, rendering. Inside
  `Registration`: COM's own state, the access rights of the keys, a DLL file that comes or
  goes while a command runs. Inside `Hotkeys`: the keys of the word itself (`HookTyping`),
  and conversions from another charset than Unicode, which the program never asks for.
- The class factory and the reference counts of the DLL, language bar and preserved keys
  of the text service: COM plumbing without a protocol of its own.
- Key translation is a stateless call of the system; keys are named by the character they
  translate to. Drawing, the tray timer, the installer, build scripts and agent documents
  are not part of the behaviour above.
