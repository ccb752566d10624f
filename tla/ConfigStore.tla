---------------------------- MODULE ConfigStore ----------------------------
(***************************************************************************)
(* Where the settings of UniKeyTSF live and who writes them: the shared    *)
(* configuration (config/ipc_manager.cpp), the table of per-application    *)
(* input states (engine/per_app_input_state.h), config.dat, and the        *)
(* manager's startup, commands, settings page and shutdown (main.cpp,      *)
(* ui/tray_icon.cpp, ui/settings_webview.cpp).                             *)
(*                                                                         *)
(* Both memories are named mappings: they live as long as some process     *)
(* holds a handle, so they may outlive the manager in a text service and   *)
(* be lost behind its back.  Only the manager writes them.  Its mutexes    *)
(* time out when a text service that uses the same memory stalls inside;   *)
(* a lock that could not be taken is an outcome of the call that asked.    *)
(***************************************************************************)
EXTENDS Naturals, Sequences, SequencesExt, FiniteSets, TLC

CONSTANTS
    Apps,        \* applications that can have the foreground
    NoApp,       \* ResolveForegroundAppId() = ""
    LongNames,   \* those whose name is cut when it is stored (64 characters)
    CutName,     \* a stored name that matches no application
    TsfApps,     \* those that load the text service
    Manager,     \* UniKeyTSF.exe
    Slots,       \* entries of the table (128 in the code)
    Others,      \* values of the settings that have nothing to do with switching
    ZeroOther,   \* their value in zeroed memory
    DefaultOther,\* their default
    NoConfig, NoStore, NoFile, Torn, Nothing

Config == [valid : BOOLEAN, input : BOOLEAN, perApp : BOOLEAN, other : Others]

Settings == [perApp : BOOLEAN, other : Others]

Store == [table : Seq([app : Apps \cup {CutName}, on : BOOLEAN]), seed : BOOLEAN, seeded : BOOLEAN]

ASSUME ConfigConstants ==
    /\ NoApp \notin Apps
    /\ CutName \notin Apps
    /\ LongNames \subseteq Apps
    /\ TsfApps \subseteq Apps
    /\ Manager \notin Apps
    /\ Slots \in Nat \ {0}
    /\ {ZeroOther, DefaultOther} \subseteq Others
    /\ {NoConfig, NoFile, Torn} \cap Config = {} /\ NoFile # Torn
    /\ NoStore \notin Store /\ Nothing \notin Settings

VARIABLES
    config,      \* UniKeyConfig in the mapping
    store,       \* PerAppInputStateShared in the mapping
    file,        \* config.dat
    mgr,         \* phase of wWinMain
    handles,     \* the mappings each process holds open
    cached,      \* perAppInputState in _config of each text service
    latest,      \* history: the settings a clean exit has to keep
    saved        \* history: the configuration written last; NoFile when its
                 \* save could not read the store or was not the last attempt,
                 \* or when the one in use does not come from it

vars == <<config, store, file, mgr, handles, cached, latest, saved>>

-----------------------------------------------------------------------------
(* The table of applications.                                                *)

ZeroStore == [table |-> <<>>, seed |-> FALSE, seeded |-> FALSE]

\* EnsurePerAppInputStateStore: a new mapping is empty.
Opened(s) == IF s = NoStore THEN ZeroStore ELSE s

StoredName(a) == IF a \in LongNames THEN CutName ELSE a

Entries(s, a) == {i \in DOMAIN s.table : s.table[i].app = a}

\* Mutant: the table is not consulted.
ResolveGlobally(c, s, a, reads) == c.input

\* ResolveEffectiveInputEnabled; reads says that the mutex was acquired.
ResolveEffective(c, s, a, reads) ==
    IF c.perApp /\ a # NoApp /\ reads /\ Entries(s, a) # {}
    THEN s.table[Min(Entries(s, a))].on
    ELSE c.input

\* Mutant: no search for the entry the application has already.
AppendEntry(s, a, v) ==
    IF Len(s.table) < Slots
    THEN [s EXCEPT !.table = Append(@, [app |-> StoredName(a), on |-> v])]
    ELSE s

\* Mutant: a full table loses its oldest entry.
EvictEntry(s, a, v) ==
    [table |-> Append(IF Len(s.table) < Slots THEN s.table ELSE Tail(s.table),
                      [app |-> StoredName(a), on |-> v]),
     seed |-> s.seed, seeded |-> s.seeded]

\* The entry of a, or the first free one; with neither, nothing is stored.
WithEntry(s, a, v) ==
    IF Entries(s, a) # {} THEN [s EXCEPT !.table[Min(Entries(s, a))].on = v]
    ELSE IF Len(s.table) < Slots
    THEN [s EXCEPT !.table = Append(@, [app |-> StoredName(a), on |-> v])]
    ELSE s

WithSeed(s, v) == [s EXCEPT !.seed = v, !.seeded = TRUE]

\* SetInputEnabledForApp on the table; writes says that the mutex was acquired.
StoreSwitch(c, s, a, v, writes) ==
    IF ~writes THEN s
    ELSE IF ~c.perApp THEN WithSeed(s, v)
    ELSE IF a = NoApp THEN s
    ELSE WithEntry(s, a, v)

\* Mutant: the switch is saved as it happens to be.
SnapshotAsIs(c, s, reads) == c

\* BuildPersistedConfigSnapshot.
Snapshot(c, s, reads) ==
    IF c.perApp /\ reads /\ s.seeded THEN [c EXCEPT !.input = s.seed] ELSE c

-----------------------------------------------------------------------------
(* Memories, handles and the file.                                           *)

ZeroConfig == [valid |-> FALSE, input |-> FALSE, perApp |-> FALSE, other |-> ZeroOther]

DefaultConfig ==
    [valid |-> TRUE, input |-> TRUE, perApp |-> FALSE, other |-> DefaultOther]

\* LoadConfigFromFile, and the defaults when it fails.
Loaded == IF file \in Config /\ file.valid THEN file ELSE DefaultConfig

Processes == TsfApps \cup {Manager}

Holds(p, memory) == memory \in handles[p]

\* Another process uses the memory and may stall inside its mutex.
CanStall(memory) == \E a \in TsfApps : Holds(a, memory)

Attempts(memory) == IF CanStall(memory) THEN BOOLEAN ELSE {TRUE}

\* The memories after process p has closed handles to those in closed.
Closes(p, closed) ==
    /\ handles' = [handles EXCEPT ![p] = @ \ closed]
    /\ config' = IF \E q \in Processes : "config" \in handles'[q] THEN config ELSE NoConfig
    /\ store'  = IF \E q \in Processes : "store" \in handles'[q] THEN store ELSE NoStore

Opens(p, memory) == handles' = [handles EXCEPT ![p] = @ \cup {memory}]

SettingsOf(c) == [perApp |-> c.perApp, other |-> c.other]

Init ==
    /\ config = NoConfig
    /\ store = NoStore
    /\ file = NoFile
    /\ mgr = "down"
    /\ handles = [p \in Processes |-> {}]
    /\ cached = [a \in TsfApps |-> FALSE]
    /\ latest = Nothing
    /\ saved = NoFile

-----------------------------------------------------------------------------
(* The manager starts.                                                       *)

\* InitSharedMemory up to its lock: created says that the mapping is new.
MapConfig ==
    /\ mgr = "down"
    /\ mgr' = IF config = NoConfig THEN "created" ELSE "opened"
    /\ config' = IF config = NoConfig THEN ZeroConfig ELSE config
    /\ Opens(Manager, "config")
    /\ UNCHANGED <<store, file, cached, latest, saved>>

\* Only a new mapping is filled, from the file or with the defaults.
FillConfig ==
    /\ mgr = "created"
    /\ config' = Loaded
    /\ \E writes \in Attempts("store") :
          store' = IF writes THEN WithSeed(Opened(store), Loaded.input) ELSE Opened(store)
    /\ latest' = IF latest = Nothing THEN SettingsOf(Loaded) ELSE latest
    /\ mgr' = "up"
    /\ Opens(Manager, "store")
    /\ UNCHANGED <<file, cached, saved>>

\* The lock times out, and the manager runs on zeroed memory.
FillTimeout ==
    /\ mgr = "created"
    /\ CanStall("config")
    /\ store' = Opened(store)
    /\ latest' = Nothing
    /\ saved' = NoFile
    /\ mgr' = "up"
    /\ Opens(Manager, "store")
    /\ UNCHANGED <<config, file, cached>>

\* The mapping outlived the last manager: it is used as it is.
KeepConfig ==
    /\ mgr = "opened"
    /\ store' = Opened(store)
    /\ latest' = IF latest = Nothing /\ config.valid THEN SettingsOf(config) ELSE latest
    /\ saved' = IF config.valid THEN saved ELSE NoFile
    /\ mgr' = "up"
    /\ Opens(Manager, "store")
    /\ UNCHANGED <<config, file, cached>>

-----------------------------------------------------------------------------
(* Commands.  a is the application that has the foreground when the command  *)
(* runs.  A command that cannot lock the configuration does nothing.         *)

ToggleInputState(a) ==
    /\ mgr = "up"
    /\ \E reads, writes \in Attempts("store") :
          LET v == ~ResolveEffective(config, store, a, reads) IN
          /\ config' = [config EXCEPT !.input = v]
          /\ store' = StoreSwitch(config, store, a, v, writes)
    /\ UNCHANGED <<file, mgr, handles, cached, latest, saved>>

\* The tray menu chooses an input method or a character set.
ChooseOther(v) ==
    /\ mgr = "up"
    /\ config' = [config EXCEPT !.other = v]
    /\ latest' = IF latest = Nothing THEN Nothing ELSE [latest EXCEPT !.other = v]
    /\ UNCHANGED <<store, file, mgr, handles, cached, saved>>

\* The store after the settings page has asked for configuration c, which may
\* turn switching by application on.
TurnsOn(c) == c.perApp /\ ~config.perApp

PageStore(c, a, seeds, writes) ==
    LET seeded == IF TurnsOn(c) /\ seeds THEN WithSeed(store, config.input) ELSE store
    IN StoreSwitch(c, seeded, a, c.input, writes)

\* UPDATE_CONFIG: the page sends all settings at once, from a state of its own
\* that starts with its built-in defaults and misses what tray and hotkey
\* change, so any combination may come.  The file is truncated first.
UpdateConfig(a) ==
    /\ mgr = "up"
    /\ \E c \in [valid : {TRUE}, input : BOOLEAN, perApp : BOOLEAN, other : Others] :
          /\ config' = c
          /\ latest' = SettingsOf(c)
          /\ \E seeds \in IF TurnsOn(c) THEN Attempts("store") ELSE {FALSE},
                writes \in Attempts("store") : store' = PageStore(c, a, seeds, writes)
    /\ \/ mgr' = "writing" /\ file' = Torn /\ UNCHANGED saved
       \/ UNCHANGED <<mgr, file>> /\ saved' = NoFile
    /\ UNCHANGED <<handles, cached>>

\* The rest of SaveConfigToFile, which may find the disk full.
WriteConfig ==
    /\ mgr = "writing"
    /\ mgr' = "up"
    /\ \/ \E reads \in Attempts("store") :
             /\ file' = Snapshot(config, store, reads)
             /\ saved' = IF reads THEN file' ELSE NoFile
       \/ UNCHANGED file /\ saved' = NoFile
    /\ UNCHANGED <<config, store, handles, cached, latest>>

-----------------------------------------------------------------------------
(* The manager ends.                                                         *)

\* The end of the message loop, and ShutdownPerAppInputStateStore.
LeaveLoop ==
    /\ mgr = "up"
    /\ mgr' = "closing"
    /\ Closes(Manager, {"store"})
    /\ UNCHANGED <<file, cached, latest, saved>>

\* CleanupSharedMemory opens the file for SaveConfigToFile.
TruncateFile ==
    /\ mgr = "closing"
    /\ mgr' = "saving"
    /\ file' = Torn
    /\ UNCHANGED <<config, store, handles, cached, latest, saved>>

\* Mutant: the configuration is unmapped before it is saved.
ExitFileUnmapped(reads) == Torn

\* The snapshot asks the store for the seed, and so opens it again.
ExitFile(reads) == Snapshot(config, Opened(store), reads)

CleanExit ==
    /\ mgr = "saving"
    /\ mgr' = "down"
    /\ \E reads \in Attempts("store") :
          /\ file' = ExitFile(reads)
          /\ saved' = IF reads THEN file' ELSE NoFile
    /\ Closes(Manager, {"config", "store"})
    /\ latest' = IF config.valid THEN latest ELSE Nothing
    /\ UNCHANGED cached

\* A crash, the end of the session, or a file that cannot be written.
ManagerStops ==
    /\ mgr # "down"
    /\ mgr' = "down"
    /\ latest' = Nothing
    /\ saved' = IF file = Torn THEN NoFile ELSE saved
    /\ Closes(Manager, {"config", "store"})
    /\ UNCHANGED <<file, cached>>

-----------------------------------------------------------------------------
(* The text service of application a.                                        *)

\* _UpdateConfig, at activation and at every key: the mapping is opened when
\* it exists, and read when its mutex is free.
UpdateCached(a) ==
    /\ config # NoConfig
    /\ Opens(a, "config")
    /\ \/ /\ mgr # "writing" /\ config.valid
          /\ cached' = [cached EXCEPT ![a] = config.perApp]
       \/ /\ mgr = "writing" \/ ~config.valid \/ \E b \in TsfApps \ {a} : Holds(b, "config")
          /\ UNCHANGED cached
    /\ UNCHANGED <<config, store, file, mgr, latest, saved>>

\* The input state of a is asked for with the cached settings.
AskStore(a) ==
    /\ cached[a]
    /\ store' = Opened(store)
    /\ Opens(a, "store")
    /\ UNCHANGED <<config, file, mgr, cached, latest, saved>>

Deactivate(a) ==
    /\ Holds(a, "config")
    /\ Closes(a, {"config"})
    /\ cached' = [cached EXCEPT ![a] = FALSE]
    /\ UNCHANGED <<file, mgr, latest, saved>>

AppExit(a) ==
    /\ handles[a] # {}
    /\ Closes(a, {"config", "store"})
    /\ cached' = [cached EXCEPT ![a] = FALSE]
    /\ UNCHANGED <<file, mgr, latest, saved>>

Next ==
    \/ MapConfig \/ FillConfig \/ FillTimeout \/ KeepConfig
    \/ \E a \in Apps \cup {NoApp} : ToggleInputState(a) \/ UpdateConfig(a)
    \/ \E v \in Others : ChooseOther(v)
    \/ WriteConfig
    \/ LeaveLoop \/ TruncateFile \/ CleanExit \/ ManagerStops
    \/ \E a \in TsfApps : UpdateCached(a) \/ AskStore(a) \/ Deactivate(a) \/ AppExit(a)

Spec == Init /\ [][Next]_vars

-----------------------------------------------------------------------------
(* Properties.                                                               *)

Running == mgr \in {"up", "writing"}

(* Types, and no application with a short name has two entries.              *)
TypeOK ==
    /\ config \in Config \cup {NoConfig}
    /\ store # NoStore =>
         /\ store \in Store /\ Len(store.table) <= Slots
         /\ \A a \in Apps : Cardinality(Entries(store, a)) <= 1
    /\ file \in Config \cup {NoFile, Torn}
    /\ mgr \in {"down", "created", "opened", "up", "writing", "closing", "saving"}
    /\ handles \in [Processes -> SUBSET {"config", "store"}]
    /\ cached \in [TsfApps -> BOOLEAN]
    /\ latest \in Settings \cup {Nothing}
    /\ saved \in Config \cup {NoFile}

KnownOf(s) ==
    [a \in {b \in Apps : s # NoStore /\ Entries(s, b) # {}} |-> s.table[Min(Entries(s, a))].on]

Promise == INSTANCE InputSwitch WITH
    running <- Running,
    perApp  <- config # NoConfig /\ config.perApp,
    default <- config # NoConfig /\ config.input,
    known   <- KnownOf(store),
    room    <- store # NoStore /\ Len(store.table) < Slots,
    stall   <- CanStall("store")

(* Every application has a switch of its own, or follows the last one used:  *)
(* no toggle, no message of the settings page, no full table, no name that   *)
(* is too long and no stalled mutex changes what another application was     *)
(* set to, and only a pause of the manager forgets, everybody at once.       *)
ImplementsSwitch == Promise!Spec

(* The hotkey and the tray turn the switch of the application that has the   *)
(* foreground around: the one it was given last, wherever that is kept, and  *)
(* the common one only for an application that was never given one or when   *)
(* the table could not be read.                                              *)
ToggleIsItsApps ==
    [][ \A a \in Apps \cup {NoApp} : ToggleInputState(a) => Promise!Toggle(a) ]_vars

(* What the user set last is what the manager runs with after a clean exit   *)
(* and a new start, whether the mapping survived in an application or the    *)
(* file is read; the exceptions are a manager that did not end cleanly and   *)
(* one that ran on memory it could not fill.  Every setting but the on/off   *)
(* switch itself, which is an application's own or the saved one (SeedKept). *)
SettingsSurviveExit ==
    Running /\ latest # Nothing => config.valid /\ SettingsOf(config) = latest

(* With per-application switching the saved switch is the one from before it *)
(* was turned on: no save of the running manager that can read the store and *)
(* finds its seed there writes the switch of whatever application was last.  *)
SeedKept ==
    [][ Running /\ Running' /\ {saved, saved'} \subseteq Config
        /\ saved.perApp /\ saved'.perApp /\ store.seeded
        => saved'.input = saved.input ]_vars

=============================================================================
