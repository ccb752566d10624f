---------------------------- MODULE SettingsPage ----------------------------
(***************************************************************************)
(* The settings page and its host: a React page in a WebView2 control      *)
(* (ui/frontend/src/App.tsx), the handler of its messages                  *)
(* (ui/settings_webview.cpp), and the window around both, which is only    *)
(* ever hidden (ui/settings_dialog.cpp).                                   *)
(*                                                                         *)
(* The page has a copy of the settings.  It shows its built-in defaults    *)
(* until the host's answer arrives and sends the whole copy at every edit. *)
(* Messages of one direction keep their order; those of the two directions *)
(* cross.  Nobody tells the page what tray, hotkey or registry change.     *)
(* The exclusion list it edits is that of ExclusionList.                   *)
(***************************************************************************)
EXTENDS ExclusionList, TLC

CONSTANTS
    Others,       \* values of the settings other than the two below
    DefaultOther, \* their value in DEFAULT_UNIKEY_CONFIG
    NoPage, NoSwitch,
    MaxActs,      \* bound: acts of the user and of the world
    MaxQueue      \* bound: messages under way in one direction

Config == [input : BOOLEAN, perApp : BOOLEAN, other : Others]

\* The state of App.
Page == [config : Config, list : Lists, auto : BOOLEAN]

ASSUME PageConstants ==
    /\ DefaultOther \in Others
    /\ NoPage \notin Page
    /\ {MaxActs, MaxQueue} \subseteq Nat

VARIABLES
    config,     \* *g_pConfig
    own,        \* the switch the per-application table has for UniKeyTSF.exe
    autoRun,    \* the Run value in the registry
    window,     \* the settings window
    page,       \* the state of App
    toHost, toPage, \* messages under way
    acts        \* acts so far

pageVars == <<config, own, autoRun, window, page, toHost, toPage, acts>>
vars == <<listVars, pageVars>>

DEFAULT_UNIKEY_CONFIG == [input |-> TRUE, perApp |-> FALSE, other |-> DefaultOther]

FreshPage == [config |-> DEFAULT_UNIKEY_CONFIG, list |-> <<>>, auto |-> FALSE]

Update(c) == [type |-> "UPDATE_CONFIG", payload |-> c]
SetConfig(c) == [type |-> "SET_CONFIG", payload |-> c]
UpdateList(l) == [type |-> "UPDATE_BLACKLIST", value |-> l]
ListData(l) == [type |-> "BLACKLIST_DATA", value |-> l]
SetAutostart(b) == [type |-> "SET_AUTOSTART", enabled |-> b]
AutostartState(b) == [type |-> "AUTOSTART_STATE", enabled |-> b]
UiReady == [type |-> "UI_READY"]
RequestList == [type |-> "REQ_BLACKLIST"]

\* What is posted in either direction.
Updates          == [type : {"UPDATE_CONFIG"}, payload : Config]
ListUpdates      == [type : {"UPDATE_BLACKLIST"}, value : Lists]
AutostartUpdates == [type : {"SET_AUTOSTART"}, enabled : BOOLEAN]
HostMessages     == UNION {Updates, ListUpdates, AutostartUpdates, {UiReady, RequestList}}

Configs          == [type : {"SET_CONFIG"}, payload : Config]
ListAnswers      == [type : {"BLACKLIST_DATA"}, value : Lists]
AutostartAnswers == [type : {"AUTOSTART_STATE"}, enabled : BOOLEAN]
PageMessages     == UNION {Configs, ListAnswers, AutostartAnswers}

\* Where in a queue the messages of a type are.
OfType(queue, type) == {i \in DOMAIN queue : queue[i].type = type}

\* ResolveEffectiveInputEnabled for the foreground application; outside the
\* window that is one that follows the common switch, or any other.
Effective ==
    IF ~config.perApp THEN {config.input}
    ELSE IF window # "front" THEN BOOLEAN
    ELSE IF own = NoSwitch THEN {config.input} ELSE {own}

Init ==
    /\ ListInit
    /\ config \in Config
    /\ own = NoSwitch
    /\ autoRun \in BOOLEAN
    /\ window = "none"
    /\ page = NoPage
    /\ toHost = <<>> /\ toPage = <<>>
    /\ acts = 0

Act ==
    /\ acts < MaxActs
    /\ acts' = acts + 1
    /\ UNCHANGED listVars

HostIdle == call[Manager] = Does("idle") /\ cache[Manager] # Unread

-----------------------------------------------------------------------------
(* The user, the tray, and everybody else.                                   *)

Posts(m) == Len(toHost) < MaxQueue /\ toHost' = Append(toHost, m)

\* App is mounted: first, or after the page was loaded again, when messages
\* for the old document are lost.
LoadPage ==
    /\ window # "none"
    /\ Len(toHost) + 2 <= MaxQueue
    /\ page' = FreshPage
    /\ toHost' = toHost \o <<UiReady, RequestList>>
    /\ toPage' = <<>>
    /\ Act
    /\ UNCHANGED <<config, own, autoRun, window>>

\* ShowSettingsDialog; a window that exists gets the configuration as it is.
ShowSettings ==
    /\ HostIdle
    /\ window' = "front"
    /\ IF page # NoPage
       THEN Len(toPage) < MaxQueue /\ toPage' = Append(toPage, SetConfig(config))
       ELSE UNCHANGED toPage
    /\ Act
    /\ UNCHANGED <<config, own, autoRun, page, toHost>>

\* WM_CLOSE hides the window, or another application comes to the front.
LeaveWindow ==
    /\ window = "front"
    /\ window' = "behind"
    /\ Act
    /\ UNCHANGED <<config, own, autoRun, page, toHost, toPage>>

\* handleConfigChange.
Edit(field, v) ==
    /\ window = "front" /\ page # NoPage
    /\ page.config[field] # v
    /\ page' = [page EXCEPT !.config[field] = v]
    /\ Posts(Update(page'.config))
    /\ Act
    /\ UNCHANGED <<config, own, autoRun, window, toPage>>

\* handleAdd ignores a name the list has; handleRemove drops one.
EditList ==
    /\ window = "front" /\ page # NoPage
    /\ \E l \in Lists :
          /\ \/ \E n \in Names \ ToSet(page.list) : l = Append(page.list, n)
             \/ \E n \in ToSet(page.list) : l = Remove(page.list, n)
          /\ page' = [page EXCEPT !.list = l]
          /\ Posts(UpdateList(l))
    /\ Act
    /\ UNCHANGED <<config, own, autoRun, window, toPage>>

\* onAutoStartChange.
EditAutostart ==
    /\ window = "front" /\ page # NoPage
    /\ page' = [page EXCEPT !.auto = ~@]
    /\ Posts(SetAutostart(page'.auto))
    /\ Act
    /\ UNCHANGED <<config, own, autoRun, window, toPage>>

\* The tray or the hotkey changes the configuration (module ConfigStore).
ChangeOutside ==
    /\ HostIdle
    /\ \/ \E v \in Others \ {config.other} :
             config' = [config EXCEPT !.other = v] /\ UNCHANGED own
       \/ \E v \in Effective :
             /\ config' = [config EXCEPT !.input = ~v]
             /\ own' = IF config.perApp /\ window = "front" THEN ~v ELSE own
    /\ Act
    /\ UNCHANGED <<autoRun, window, page, toHost, toPage>>

\* Another program edits the Run key.
ChangeRunKey ==
    /\ autoRun' = ~autoRun
    /\ Act
    /\ UNCHANGED <<config, own, window, page, toHost, toPage>>

-----------------------------------------------------------------------------
(* The page hears from the host.                                             *)

PageReceives ==
    /\ toPage # <<>>
    /\ LET m == Head(toPage) IN
       page' = [page EXCEPT
                  !.config = IF m.type = "SET_CONFIG" THEN m.payload ELSE @,
                  !.list = IF m.type = "BLACKLIST_DATA" THEN m.value ELSE @,
                  !.auto = IF m.type = "AUTOSTART_STATE" THEN m.enabled ELSE @]
    /\ toPage' = Tail(toPage)
    /\ UNCHANGED <<listVars, config, own, autoRun, window, toHost, acts>>

-----------------------------------------------------------------------------
(* OnWebMessageReceived, for one message at a time.                          *)

Hears(type) ==
    /\ HostIdle
    /\ toHost # <<>> /\ Head(toHost).type = type
    /\ toHost' = Tail(toHost)
    /\ UNCHANGED <<window, page, acts>>

\* Mutant: a field of the message is not copied.
StoredWithoutOther(c) == [c EXCEPT !.other = config.other]

Stored(c) == c

\* UPDATE_CONFIG: everything is taken over, and the switch is that of the
\* foreground application when applications have their own.
StoreUpdate ==
    /\ Hears("UPDATE_CONFIG")
    /\ LET c == Stored(Head(toHost).payload) IN
       /\ config' = c
       /\ own' = IF c.perApp /\ window = "front" THEN c.input ELSE own
    /\ UNCHANGED <<listVars, autoRun, toPage>>

\* The configuration cannot be locked: the message is dropped.
DropUpdate ==
    /\ Hears("UPDATE_CONFIG")
    /\ UNCHANGED <<listVars, config, own, autoRun, toPage>>

\* UPDATE_BLACKLIST: SaveBlacklist and ReloadBlacklist.
StoreList ==
    /\ Hears("UPDATE_BLACKLIST")
    /\ OpenList(Head(toHost).value)
    /\ UNCHANGED <<config, own, autoRun, toPage>>

\* UI_READY; the configuration is left out when it cannot be locked.
AnswerReady ==
    /\ Hears("UI_READY")
    /\ Len(toPage) + 2 <= MaxQueue
    /\ \/ \E v \in Effective :
             toPage' = toPage \o <<SetConfig([config EXCEPT !.input = v]), AutostartState(autoRun)>>
       \/ toPage' = Append(toPage, AutostartState(autoRun))
    /\ UNCHANGED <<listVars, config, own, autoRun>>

AnswerList ==
    /\ Hears("REQ_BLACKLIST")
    /\ Len(toPage) < MaxQueue
    /\ toPage' = Append(toPage, ListData(LoadBlacklist))
    /\ UNCHANGED <<listVars, config, own, autoRun>>

\* SET_AUTOSTART, which the registry may refuse.
StoreAutostart ==
    /\ Hears("SET_AUTOSTART")
    /\ autoRun' \in {autoRun, Head(toHost).enabled}
    /\ UNCHANGED <<listVars, config, own, toPage>>

\* The list's own steps, and its other users.
ListStep ==
    /\ \/ /\ (\E p \in Processes : ReadCopy(p) \/ NoteWriteTime(p)) \/ CloseList
          /\ UNCHANGED acts
       \/ /\ acts < MaxActs /\ acts' = acts + 1
          /\ ChangeByHand
    /\ UNCHANGED <<config, own, autoRun, window, page, toHost, toPage>>

Next ==
    \/ LoadPage \/ ShowSettings \/ LeaveWindow
    \/ \E v \in BOOLEAN : Edit("input", v) \/ Edit("perApp", v)
    \/ \E v \in Others : Edit("other", v)
    \/ EditList \/ EditAutostart
    \/ ChangeOutside \/ ChangeRunKey
    \/ PageReceives
    \/ StoreUpdate \/ DropUpdate \/ StoreList \/ AnswerReady \/ AnswerList \/ StoreAutostart
    \/ ListStep

Spec == Init /\ [][Next]_vars

-----------------------------------------------------------------------------
(* Properties.                                                               *)

(* Types.                                                                    *)
TypeOK ==
    /\ config \in Config
    /\ own \in BOOLEAN \cup {NoSwitch}
    /\ autoRun \in BOOLEAN
    /\ window \in {"none", "front", "behind"}
    /\ page \in Page \cup {NoPage}
    /\ page = NoPage => toHost = <<>> /\ toPage = <<>>
    /\ toHost \in Seq(HostMessages) /\ Len(toHost) <= MaxQueue
    /\ toPage \in Seq(PageMessages) /\ Len(toPage) <= MaxQueue
    /\ file = NoFile \/ ToSet(file) \subseteq Names \cup {Hint}
    /\ \A p \in Processes : cache[p] = Unread \/ cache[p] \in Seq(Names)

\* The switch the page shows is one application's when each has its own.
Same(c, d) ==
    /\ c.perApp = d.perApp /\ c.other = d.other
    /\ ~c.perApp => c.input = d.input

\* The configuration when the host has heard everything.
Settled ==
    LET updates == OfType(toHost, "UPDATE_CONFIG")
    IN IF updates = {} THEN config ELSE toHost[Max(updates)].payload

\* What the page shows is what will be in force, and what it will show.
InSync ==
    /\ page # NoPage
    /\ Same(page.config, Settled)
    /\ UiReady \notin ToSet(toHost)
    /\ \A i \in DOMAIN toPage :
          toPage[i].type = "SET_CONFIG" => Same(toPage[i].payload, page.config)

Answered == OfType(toPage, "SET_CONFIG") = {}

(* The page and the configuration, once they agree, stay together through    *)
(* edits, answers and re-shows.  Only this parts them: the page is loaded    *)
(* again, an update is dropped, the tray or the hotkey changes a setting,    *)
(* and an edit and the configuration pass each other on the way.             *)
SyncKept ==
    [][ InSync /\ ~InSync'
        => \/ LoadPage \/ DropUpdate \/ ChangeOutside
           \/ ~Answered /\ \E f \in DOMAIN page.config : page'.config[f] # page.config[f]
           \/ ShowSettings /\ OfType(toHost, "UPDATE_CONFIG") # {} ]_vars

=============================================================================
