---------------------------- MODULE InputRouting ----------------------------
(***************************************************************************)
(* The routing coordinator of UniKeyTSF (engine/input_routing.cpp) and the *)
(* three kinds of callers that share its memory: the manager's startup     *)
(* code (main.cpp), the keyboard hook running in the manager               *)
(* (engine/hook_manager.cpp) and the TSF text service loaded in every      *)
(* application (tsf/text_service.cpp).                                     *)
(*                                                                         *)
(* Every caller takes the routing mutex for one read-merge-write.  The     *)
(* mutex makes that atomic for everybody else, so a call is two steps:     *)
(* entering the critical section (crit) and finishing it; a caller that    *)
(* finds the section taken for 100 ms gives up and uses a fallback         *)
(* decision, and a process that dies inside it leaves some of the stores   *)
(* done and the mutex abandoned, which the next caller takes as acquired.  *)
(***************************************************************************)
EXTENDS Naturals, Sequences

CONSTANTS
    Apps,          \* application processes that can be in the foreground
    TsfApps,       \* those of them that load the text service
    Excludable,    \* those IsProcessBlacklisted may answer TRUE for
    NoApp,         \* GetForegroundWindow() = NULL
    Manager,       \* the process UniKeyTSF.exe
    Nobody,        \* holder of a free mutex
    StartupModes,  \* modes ResolveStartupRoutingMode may answer
    SeqMod,        \* decisionSequence wraps at SeqMod (2^32 in the code)
    MaxKeys        \* bound: keys waiting in an application's message queue

Modes  == {"HOOK_PRIMARY", "TSF_PRIMARY", "FALLBACK_SCOPED"}
Owners == {"NONE", "HOOK", "TSF"}

ASSUME RoutingConstants ==
    /\ TsfApps \subseteq Apps
    /\ Excludable \subseteq Apps
    /\ NoApp \notin Apps
    /\ Manager \notin Apps
    /\ Nobody \notin Apps \cup {Manager}
    /\ StartupModes \subseteq Modes
    /\ SeqMod \in Nat \ {0}
    /\ MaxKeys \in Nat \ {0}

VARIABLES
    state,       \* InputRoutingState in the file mapping (zeroed when unmapped)
    crit,        \* who is inside the routing mutex, and for which call
    mgr,         \* phase of wWinMain
    foreground,  \* g_hLastForeground (its application) and g_bBlacklisted
    svc,         \* the text service object of each application
    queue,       \* keys on their way from the hook to each application
    tested,      \* OnTestKeyDown ate the first key of the queue
    done,        \* the key delivered by the last step, and who processed it
    told,        \* history: the applications the hook, and those whose text
                 \* service, was last told are excluded
    torn,        \* history: a process died between two stores of a write
    excused      \* history: something allowed put TSF in front of the hook

vars == <<state, crit, mgr, foreground, svc, queue, tested, done, told, torn, excused>>
memVars == <<state, torn, excused>>
hookVars == <<foreground, told>>

-----------------------------------------------------------------------------
(* The decision table.                                                     *)

OwnerReason == [
    HOOK_PRIMARY    |-> [HOOK |-> "HOOK_PRIMARY_DEFAULT",
                         TSF  |-> "HOOK_PRIMARY_TSF_ONLY_CONTEXT"],
    TSF_PRIMARY     |-> [HOOK |-> "TSF_PRIMARY_HOOK_FALLBACK",
                         TSF  |-> "TSF_PRIMARY_DEFAULT"],
    FALLBACK_SCOPED |-> [HOOK |-> "FALLBACK_SCOPED_HOOK_CONTEXT",
                         TSF  |-> "FALLBACK_SCOPED_TSF_CONTEXT"]]

ConfiguredReason == [
    HOOK_PRIMARY    |-> "STARTUP_CONFIGURED_HOOK_PRIMARY",
    TSF_PRIMARY     |-> "STARTUP_CONFIGURED_TSF_PRIMARY",
    FALLBACK_SCOPED |-> "STARTUP_CONFIGURED_FALLBACK_SCOPED"]

Reasons ==
    {"UNSPECIFIED", "HOOK_PRIMARY_DEFAULT", "TSF_PRIMARY_DEFAULT",
     "FALLBACK_SCOPED_HOOK_CONTEXT", "FALLBACK_SCOPED_TSF_CONTEXT",
     "HOOK_PRIMARY_TSF_ONLY_CONTEXT", "TSF_PRIMARY_HOOK_FALLBACK",
     "BLACKLISTED_CONTEXT", "NO_FOCUSED_CONTEXT", "ROUTING_STATE_UNAVAILABLE",
     "MANAGER_STARTUP_DEFAULT", "STARTUP_CONFIGURED_HOOK_PRIMARY",
     "STARTUP_CONFIGURED_TSF_PRIMARY", "STARTUP_CONFIGURED_FALLBACK_SCOPED"}

RoutingState ==
    [valid : BOOLEAN, mode : Modes, owner : Owners, reason : Reasons,
     hook : BOOLEAN, tsf : BOOLEAN, excluded : BOOLEAN, seq : 0..(SeqMod - 1)]

\* Who owns the keys, given the mode and who published an active context.
OwnerOf(mode, hook, tsf, excluded) ==
    IF excluded \/ ~(hook \/ tsf) THEN "NONE"
    ELSE IF hook /\ (mode = "HOOK_PRIMARY" \/ ~tsf) THEN "HOOK"
    ELSE "TSF"

Resolve(mode, hook, tsf, excluded) ==
    LET owner == OwnerOf(mode, hook, tsf, excluded) IN
    [valid |-> TRUE, mode |-> mode, owner |-> owner,
     reason |-> IF excluded THEN "BLACKLISTED_CONTEXT"
                ELSE IF owner = "NONE" THEN "NO_FOCUSED_CONTEXT"
                ELSE IF owner = "HOOK" THEN OwnerReason[mode].HOOK
                ELSE OwnerReason[mode].TSF,
     hook |-> hook, tsf |-> tsf, excluded |-> excluded, seq |-> 0]

Fallback(owner, hook, tsf, excluded) ==
    [valid |-> TRUE, mode |-> "HOOK_PRIMARY", owner |-> owner,
     reason |-> "ROUTING_STATE_UNAVAILABLE",
     hook |-> hook, tsf |-> tsf, excluded |-> excluded, seq |-> 0]

\* A file mapping is zeroed when it is created.
ZeroState ==
    [valid |-> FALSE, mode |-> "HOOK_PRIMARY", owner |-> "NONE",
     reason |-> "UNSPECIFIED", hook |-> FALSE, tsf |-> FALSE,
     excluded |-> FALSE, seq |-> 0]

BootState ==
    [valid |-> TRUE, mode |-> "HOOK_PRIMARY", owner |-> "HOOK",
     reason |-> "MANAGER_STARTUP_DEFAULT", hook |-> TRUE, tsf |-> FALSE,
     excluded |-> FALSE, seq |-> 1 % SeqMod]

ReadState ==
    IF state.valid THEN state ELSE Fallback("HOOK", TRUE, FALSE, FALSE)

\* Mutant: the counter is not unsigned 32 bit.
NextSeqWide(n) == n + 1

NextSeq(n) == (n + 1) % SeqMod

\* Decision d under reason r and sequence number n.
Numbered(d, r, n) ==
    [valid |-> d.valid, mode |-> d.mode, owner |-> d.owner, reason |-> r,
     hook |-> d.hook, tsf |-> d.tsf, excluded |-> d.excluded, seq |-> n]

\* Mutant: only a change of the owner counts as a change.
SequencedByOwner(current, next) ==
    Numbered(next, next.reason,
             IF next.owner = current.owner THEN current.seq ELSE NextSeq(current.seq))

\* The sequence number moves exactly when some other field does.
Sequenced(current, next) ==
    IF Numbered(next, next.reason, current.seq) = current
    THEN current
    ELSE Numbered(next, next.reason, NextSeq(current.seq))

-----------------------------------------------------------------------------
(* Processes, handles and the critical section.                            *)

Calls == {"none", "boot", "mode", "hookKey", "publish",
          "testKeyDown", "keyDown"}

Free == [by |-> Nobody, call |-> "none"]

\* The hook before the first key it sees.
NoForeground == [app |-> NoApp, excluded |-> FALSE]

Service == [up : BOOLEAN, ctx : BOOLEAN, excluded : BOOLEAN, handle : BOOLEAN]

\* A process before CUniKeyTextService is constructed in it.
NoService == [up |-> FALSE, ctx |-> FALSE, excluded |-> FALSE, handle |-> FALSE]

\* The named mapping exists as long as one process holds a handle to it.
Mapped == mgr # "down" \/ \E a \in TsfApps : svc[a].handle

MappedWithout(p) == \/ p # Manager /\ mgr # "down"
                    \/ \E a \in TsfApps \ {p} : svc[a].handle

\* A key: did the hook take it, did it ask who owns it, and had it been told
\* that the application is excluded (FALSE for a fallback decision, which
\* does not look at the exclusion).
Keys == [hook : BOOLEAN, seen : BOOLEAN, excluded : BOOLEAN]

UnseenKey == [hook |-> FALSE, seen |-> FALSE, excluded |-> FALSE]

Delivered == [app : Apps \cup {NoApp}, hook : BOOLEAN, seen : BOOLEAN,
              excluded : BOOLEAN, tsf : BOOLEAN]

NoKeyYet == [app |-> NoApp, hook |-> FALSE, seen |-> FALSE,
             excluded |-> FALSE, tsf |-> FALSE]

DeliveredKey(a, k, tsf) ==
    [app |-> a, hook |-> k.hook, seen |-> k.seen, excluded |-> k.excluded,
     tsf |-> tsf]

Init ==
    /\ state = ZeroState
    /\ crit = Free
    /\ mgr = "down"
    /\ foreground = NoForeground
    /\ svc = [a \in TsfApps |-> NoService]
    /\ queue = [a \in TsfApps |-> <<>>]
    /\ tested = [a \in TsfApps |-> FALSE]
    /\ done = NoKeyYet
    /\ told = [hook |-> {}, tsf |-> {}]
    /\ torn = FALSE
    /\ excused = FALSE

\* The process can run: it is not itself inside the critical section.
Running(p) == crit.by # p

\* WaitForSingleObject succeeds: the mutex is free, or was abandoned.
Enter(p, call) ==
    /\ crit = Free
    /\ crit' = [by |-> p, call |-> call]

\* Mutant: LockRouting waits for ever.
UnavailableWithoutTimeout(p) ==
    /\ Running(p)
    /\ ~Mapped
    /\ UNCHANGED <<state, crit, torn, excused>>

\* EnsureRoutingHandles(FALSE) finds no memory, or LockRouting times out.
Unavailable(p) ==
    /\ Running(p)
    /\ ~Mapped \/ crit # Free
    /\ UNCHANGED <<state, crit, torn, excused>>

Inside(p, call) == crit.by = p /\ crit.call = call

\* WriteRoutingStateLocked and UnlockRouting; excuse says that this call may
\* put TSF in front of the hook.
Leave(next, excuse) ==
    /\ state' = next
    /\ crit' = Free
    /\ torn' = FALSE
    /\ excused' = (excused \/ excuse)

\* Mutant: the hook's context is stored and the owner stays.
HookContextStored ==
    Numbered([ReadState EXCEPT !.hook = foreground.app # NoApp,
                               !.excluded = foreground.excluded],
             ReadState.reason, NextSeq(ReadState.seq))

\* RefreshHookRoutingDecision(g_hLastForeground != nullptr, g_bBlacklisted)
HookRefresh ==
    Sequenced(ReadState, Resolve(ReadState.mode, foreground.app # NoApp,
                                 ReadState.tsf, foreground.excluded))

\* Mutant: the exclusion of the application is not passed on.
TsfRefreshUnexcluded(a) ==
    Sequenced(ReadState, Resolve(ReadState.mode, ReadState.hook, svc[a].ctx, FALSE))

TsfRefresh(a) ==
    Sequenced(ReadState, Resolve(ReadState.mode, ReadState.hook,
                                 svc[a].ctx, svc[a].excluded))

\* Mutant: the mode is stored and the owner stays.
ModeStored(mode) ==
    Numbered([ReadState EXCEPT !.mode = mode], ReadState.reason, NextSeq(ReadState.seq))

\* SetInputRoutingMode: always a new sequence number, and the configured
\* reason only when nobody has published a context.
ModeState(mode) ==
    LET next == Resolve(mode, ReadState.hook, ReadState.tsf, ReadState.excluded)
    IN Numbered(next, IF next.reason = "NO_FOCUSED_CONTEXT"
                      THEN ConfiguredReason[mode] ELSE next.reason,
                NextSeq(ReadState.seq))

\* What a process that dies inside its critical section may be writing.
Intended ==
    CASE crit.call = "boot"    -> {BootState}
      [] crit.call = "mode"    -> {ModeState(mode) : mode \in StartupModes}
      [] crit.call = "hookKey" -> {HookRefresh}
      [] OTHER                 -> {TsfRefresh(crit.by)}

\* The first n of the stores of WriteRoutingStateLocked, in program order.
StoredUpTo(n, old, new) ==
    [valid    |-> IF n >= 1 THEN new.valid    ELSE old.valid,
     mode     |-> IF n >= 2 THEN new.mode     ELSE old.mode,
     owner    |-> IF n >= 3 THEN new.owner    ELSE old.owner,
     reason   |-> IF n >= 4 THEN new.reason   ELSE old.reason,
     hook     |-> IF n >= 5 THEN new.hook     ELSE old.hook,
     tsf      |-> IF n >= 6 THEN new.tsf      ELSE old.tsf,
     excluded |-> IF n >= 7 THEN new.excluded ELSE old.excluded,
     seq      |-> IF n >= 8 THEN new.seq      ELSE old.seq]

\* The calls whose interrupted write may put TSF in front of the hook: another
\* mode, a key without a foreground window, the first write into zeroed memory.
DeathExcuses ==
    \/ ~state.valid
    \/ crit.call = "mode" /\ StartupModes # {"HOOK_PRIMARY"}
    \/ crit.call = "hookKey" /\ foreground.app = NoApp

\* The memory and the mutex once process p is gone.
Abandon(p) ==
    IF ~MappedWithout(p)
    THEN /\ state' = ZeroState
         /\ crit' = Free
         /\ torn' = FALSE
         /\ UNCHANGED excused
    ELSE IF crit.by = p
    THEN /\ \E next \in Intended, n \in 0..8 : state' = StoredUpTo(n, state, next)
         /\ crit' = Free
         /\ torn' = TRUE
         /\ excused' = (excused \/ DeathExcuses)
    ELSE UNCHANGED <<state, crit, torn, excused>>

-----------------------------------------------------------------------------
(* Keys.  The key a step delivers shows in done for that one state.          *)

Deliver(a, k, tsf) == done' = DeliveredKey(a, k, tsf)

NoDelivery == done' = NoKeyYet
NoKeyMoves == NoDelivery /\ UNCHANGED <<queue, tested>>

\* A key that no path took ends in the application, after the text service
\* of that application when it has one.
Pass(a, k) ==
    IF a \in TsfApps /\ svc[a].up
    THEN queue' = [queue EXCEPT ![a] = Append(@, k)] /\ NoDelivery
    ELSE Deliver(a, k, FALSE) /\ UNCHANGED queue

\* The bound on typing ahead.
Quiet == \A a \in TsfApps : Len(queue[a]) < MaxKeys

Finish(a, tsf) ==
    /\ Deliver(a, Head(queue[a]), tsf)
    /\ queue' = [queue EXCEPT ![a] = Tail(@)]
    /\ tested' = [tested EXCEPT ![a] = FALSE]

\* Keys still on their way to a text service that stops reach nobody's path.
DropKeys(a) ==
    /\ queue' = [queue EXCEPT ![a] = <<>>]
    /\ tested' = [tested EXCEPT ![a] = FALSE]
    /\ NoDelivery

-----------------------------------------------------------------------------
(* The manager: wWinMain.                                                    *)

ManagerStart ==
    /\ mgr = "down"
    /\ mgr' = "boot"
    /\ NoKeyMoves
    /\ UNCHANGED <<memVars, hookVars, crit, svc>>

BootEnter ==
    /\ mgr = "boot"
    /\ Enter(Manager, "boot")
    /\ NoKeyMoves
    /\ UNCHANGED <<memVars, hookVars, mgr, svc>>

BootLeave ==
    /\ Inside(Manager, "boot")
    /\ Leave(BootState, FALSE)
    /\ mgr' = "mode"
    /\ NoKeyMoves
    /\ UNCHANGED <<hookVars, svc>>

\* InitializeInputRoutingCoordinator fails: the mode is never set, and the
\* hooks are installed over whatever the memory holds.
BootTimeout ==
    /\ mgr = "boot"
    /\ Unavailable(Manager)
    /\ mgr' = "up"
    /\ NoKeyMoves
    /\ UNCHANGED <<hookVars, svc>>

ModeEnter ==
    /\ mgr = "mode"
    /\ Enter(Manager, "mode")
    /\ NoKeyMoves
    /\ UNCHANGED <<memVars, hookVars, mgr, svc>>

ModeLeave ==
    /\ Inside(Manager, "mode")
    /\ \E mode \in StartupModes : Leave(ModeState(mode), mode # "HOOK_PRIMARY")
    /\ mgr' = "up"
    /\ NoKeyMoves
    /\ UNCHANGED <<hookVars, svc>>

ModeTimeout ==
    /\ mgr = "mode"
    /\ Unavailable(Manager)
    /\ mgr' = "up"
    /\ NoKeyMoves
    /\ UNCHANGED <<hookVars, svc>>

\* ShutdownInputRoutingCoordinator, in a process that may also just die: what
\* the hook knew goes with it.
ManagerExit ==
    /\ mgr # "down"
    /\ mgr' = "down"
    /\ foreground' = NoForeground
    /\ told' = [told EXCEPT !.hook = {}]
    /\ Abandon(Manager)
    /\ NoKeyMoves
    /\ UNCHANGED svc

-----------------------------------------------------------------------------
(* The keyboard and the hook.                                                *)

\* a and fg below are the foreground application at the time of the key: it
\* changes freely between keys.
KeyWithoutHook(a) ==
    /\ mgr # "up"
    /\ Quiet
    /\ Pass(a, UnseenKey)
    /\ UNCHANGED <<memVars, hookVars, crit, mgr, svc, tested>>

\* What IsProcessBlacklisted may answer about a: the list and the asking
\* process's copy of it change, and who cannot name the process is told FALSE.
Answers(a) == IF a \in Excludable THEN BOOLEAN ELSE {FALSE}

Remember(apps, a, excluded) == IF excluded THEN apps \cup {a} ELSE apps \ {a}

\* Mutant: the answer about the window before is not taken back.
LookAtKeepingFlag(fg) ==
    \/ fg = foreground.app /\ UNCHANGED hookVars
    \/ \E excluded \in Answers(fg) :
           /\ foreground' = [app |-> fg, excluded |-> foreground.excluded \/ excluded]
           /\ told' = [told EXCEPT !.hook = Remember(@, fg, excluded)]

\* The hook asks about the exclusion when another window has come to the
\* front, of another application or of the same one, and else keeps the
\* answer it had.
LookAt(fg) ==
    \/ fg = foreground.app /\ UNCHANGED hookVars
    \/ \E excluded \in Answers(fg) :
           /\ foreground' = [app |-> fg, excluded |-> excluded]
           /\ told' = [told EXCEPT !.hook = Remember(@, fg, excluded)]

\* The tail of LowLevelKeyboardProc: the owner decides who processes the key;
\* a key the hook turned into a replacement is swallowed.
HookTail(fg, owner, excluded) ==
    LET k == [hook |-> owner = "HOOK", seen |-> TRUE, excluded |-> excluded] IN
    /\ UNCHANGED tested
    /\ \/ fg = NoApp /\ NoDelivery /\ UNCHANGED queue
       \/ fg # NoApp /\ Pass(fg, k)
       \/ fg # NoApp /\ k.hook /\ Deliver(fg, k, FALSE) /\ UNCHANGED queue

HookKeyEnter(fg) ==
    /\ mgr = "up"
    /\ Quiet
    /\ Enter(Manager, "hookKey")
    /\ LookAt(fg)
    /\ NoKeyMoves
    /\ UNCHANGED <<memVars, mgr, svc>>

HookKeyLeave ==
    /\ Inside(Manager, "hookKey")
    /\ Leave(HookRefresh, foreground.app = NoApp)
    /\ HookTail(foreground.app, HookRefresh.owner, foreground.app \in told.hook)
    /\ UNCHANGED <<hookVars, mgr, svc>>

\* A key typed with Ctrl or Alt: the hook looks at the window and asks nobody.
ShortcutKey(fg) ==
    /\ mgr = "up"
    /\ Quiet
    /\ Running(Manager)
    /\ LookAt(fg)
    /\ \/ fg = NoApp /\ NoDelivery /\ UNCHANGED queue
       \/ fg # NoApp /\ Pass(fg, UnseenKey)
    /\ UNCHANGED <<memVars, crit, mgr, svc, tested>>

\* MakeFallbackDecision looks at the hook context only, not at the exclusion.
HookFallbackOwner(fg) == IF fg # NoApp THEN "HOOK" ELSE "NONE"

HookKeyTimeout(fg) ==
    /\ mgr = "up"
    /\ Quiet
    /\ Unavailable(Manager)
    /\ LookAt(fg)
    /\ HookTail(fg, HookFallbackOwner(fg), FALSE)
    /\ UNCHANGED <<mgr, svc>>

-----------------------------------------------------------------------------
(* The text service of application a.                                        *)

\* EnsureRoutingHandles(FALSE): open the mapping if somebody created it.
OpenHandle(a) ==
    svc' = [svc EXCEPT ![a] = [up |-> @.up, ctx |-> @.ctx,
                               excluded |-> @.excluded, handle |-> Mapped]]

Activate(a) ==
    /\ ~svc[a].up
    /\ Running(a)
    /\ svc' = [svc EXCEPT ![a] = [up |-> TRUE, ctx |-> FALSE, excluded |-> FALSE,
                                  handle |-> @.handle]]
    /\ NoKeyMoves
    /\ UNCHANGED <<memVars, hookVars, crit, mgr>>

\* Deactivate tells the coordinator nothing; TSF then releases the object, and
\* the next Activate is another one's.
Deactivate(a) ==
    /\ svc[a].up
    /\ Running(a)
    /\ svc' = [svc EXCEPT ![a] = [up |-> FALSE, ctx |-> FALSE, excluded |-> FALSE,
                                  handle |-> @.handle]]
    /\ DropKeys(a)
    /\ UNCHANGED <<memVars, hookVars, crit, mgr>>

\* The application ends or crashes: its handle and its mutex are released.
AppExit(a) ==
    /\ svc[a] # NoService
    /\ Abandon(a)
    /\ svc' = [svc EXCEPT ![a] = NoService]
    /\ told' = [told EXCEPT !.tsf = @ \ {a}]
    /\ DropKeys(a)
    /\ UNCHANGED <<mgr, foreground>>

\* OnSetFocus(ITfDocumentMgr): the only handler that sets ctx and excluded,
\* and the only time the service asks.
SetFocus(a, doc) ==
    /\ svc[a].up
    /\ Running(a)
    /\ \E excluded \in Answers(a) :
          /\ svc' = [svc EXCEPT ![a] = [up |-> TRUE, ctx |-> doc,
                                        excluded |-> excluded, handle |-> Mapped]]
          /\ told' = [told EXCEPT !.tsf = Remember(@, a, excluded)]
    /\ \/ Mapped /\ Enter(a, "publish") /\ UNCHANGED memVars
       \/ Unavailable(a)
    /\ NoKeyMoves
    /\ UNCHANGED <<mgr, foreground>>

\* OnSetFocus(BOOL) of the key event sink ignores its argument and publishes
\* the context flag the service already had.
SetForeground(a) ==
    /\ svc[a].up
    /\ Running(a)
    /\ OpenHandle(a)
    /\ \/ Mapped /\ Enter(a, "publish") /\ UNCHANGED memVars
       \/ Unavailable(a)
    /\ NoKeyMoves
    /\ UNCHANGED <<hookVars, mgr>>

PublishLeave(a) ==
    /\ Inside(a, "publish")
    /\ Leave(TsfRefresh(a), FALSE)
    /\ NoKeyMoves
    /\ UNCHANGED <<hookVars, mgr, svc>>

KeyEnter(a, call) ==
    /\ queue[a] # <<>>
    /\ tested[a] = (call = "keyDown")
    /\ Mapped
    /\ Enter(a, call)
    /\ OpenHandle(a)
    /\ NoKeyMoves
    /\ UNCHANGED <<memVars, hookVars, mgr>>

\* OnTestKeyDown: only the owner may eat, and it eats text keys (or any key
\* while composing); a key it does not eat goes to the application.
TestTail(a, owner) ==
    \/ /\ owner = "TSF"
       /\ tested' = [tested EXCEPT ![a] = TRUE]
       /\ NoDelivery
       /\ UNCHANGED queue
    \/ Finish(a, FALSE)

\* OnKeyDown asks again, and processes the key only if it still is the owner.
DownTail(a, owner) == Finish(a, owner = "TSF")

TestKeyLeave(a) ==
    /\ Inside(a, "testKeyDown")
    /\ Leave(TsfRefresh(a), FALSE)
    /\ TestTail(a, TsfRefresh(a).owner)
    /\ UNCHANGED <<hookVars, mgr, svc>>

KeyDownLeave(a) ==
    /\ Inside(a, "keyDown")
    /\ Leave(TsfRefresh(a), FALSE)
    /\ DownTail(a, TsfRefresh(a).owner)
    /\ UNCHANGED <<hookVars, mgr, svc>>

\* Mutant: the text service takes the keys when it cannot ask.
TsfTakesOver == "TSF"

\* RefreshTsfRoutingDecision passes hookContextActive = false.
TsfFallbackOwner == "NONE"

TestKeyTimeout(a) ==
    /\ queue[a] # <<>>
    /\ ~tested[a]
    /\ Unavailable(a)
    /\ TestTail(a, TsfFallbackOwner)
    /\ OpenHandle(a)
    /\ UNCHANGED <<hookVars, mgr>>

KeyDownTimeout(a) ==
    /\ tested[a]
    /\ Unavailable(a)
    /\ DownTail(a, TsfFallbackOwner)
    /\ OpenHandle(a)
    /\ UNCHANGED <<hookVars, mgr>>

\* OnTestKeyDown and OnKeyDown leave before they ask when the input is
\* disabled for the application: nothing is published.
KeyIgnored(a) ==
    /\ queue[a] # <<>>
    /\ Running(a)
    /\ Finish(a, FALSE)
    /\ UNCHANGED <<memVars, hookVars, crit, mgr, svc>>

-----------------------------------------------------------------------------
ManagerNext ==
    \/ ManagerStart \/ ManagerExit
    \/ BootEnter \/ BootLeave \/ BootTimeout
    \/ ModeEnter \/ ModeLeave \/ ModeTimeout
    \/ HookKeyLeave
    \/ \E fg \in Apps \cup {NoApp} : HookKeyEnter(fg) \/ HookKeyTimeout(fg)
                                   \/ ShortcutKey(fg)

\* What application a does with a key that reached it while input is enabled.
KeyStep(a) ==
    \/ KeyEnter(a, "testKeyDown") \/ TestKeyLeave(a) \/ TestKeyTimeout(a)
    \/ KeyEnter(a, "keyDown") \/ KeyDownLeave(a) \/ KeyDownTimeout(a)

ServiceNext(a) ==
    \/ Activate(a) \/ Deactivate(a) \/ AppExit(a)
    \/ SetFocus(a, TRUE) \/ SetFocus(a, FALSE) \/ SetForeground(a)
    \/ PublishLeave(a)
    \/ KeyIgnored(a)
    \/ KeyStep(a)

Next ==
    \/ ManagerNext
    \/ \E a \in Apps : KeyWithoutHook(a)
    \/ \E a \in TsfApps : ServiceNext(a)

Spec == Init /\ [][Next]_vars

\* Fairness for the message loops of the applications only: a process that
\* stalls or stops inside the mutex, or the manager, owes nobody a step.  A
\* key is handled although focus events keep arriving (one loop serves both
\* in order), hence the strong fairness of KeyStep; KeyIgnored, which would
\* empty a queue without any mutex, is owed to nobody.
FairSpec ==
    Spec /\ \A a \in TsfApps : SF_vars(KeyStep(a)) /\ WF_vars(PublishLeave(a))

-----------------------------------------------------------------------------
(* Properties.                                                             *)

TypeOK ==
    /\ state \in RoutingState
    /\ crit \in [by : TsfApps \cup {Manager, Nobody}, call : Calls]
    /\ mgr \in {"down", "boot", "mode", "up"}
    /\ foreground \in [app : Apps \cup {NoApp}, excluded : BOOLEAN]
    /\ svc \in [TsfApps -> Service]
    /\ queue \in [TsfApps -> Seq(Keys)]
    /\ tested \in [TsfApps -> BOOLEAN]
    /\ done \in Delivered
    /\ told \in [hook : SUBSET Excludable, tsf : SUBSET Excludable]
    /\ torn \in BOOLEAN
    /\ excused \in BOOLEAN

(* The owner in memory follows from the mode and the contexts in memory,     *)
(* whatever calls of the hook, the applications and the manager interleaved, *)
(* unless a process died inside WriteRoutingStateLocked; then the next       *)
(* complete write repairs it (torn becomes FALSE with that write).           *)
StoredOwnerConsistent ==
    state.valid /\ ~torn =>
        state.owner = OwnerOf(state.mode, state.hook, state.tsf, state.excluded)

(* Within one life of the manager no two different decisions follow each     *)
(* other under one sequence number: RefreshDecision compares every field     *)
(* before it keeps the number.                                               *)
SequenceMoves ==
    [][ state.valid /\ state' # state /\ ~torn' /\ Mapped'
        /\ crit.call # "boot"
        => state'.seq = NextSeq(state.seq) ]_vars

(* In HOOK_PRIMARY mode no key is processed by the hook and by the text       *)
(* service both, across timeouts, manager restarts, missing memory and most  *)
(* crashes inside the mutex.  The exceptions (excused) are another startup   *)
(* mode, a key pressed while no window had the foreground, and a crash       *)
(* inside the write that publishes one of these or fills zeroed memory.      *)
HookPrimaryOnePath == done.hook /\ done.tsf => excused

(* In the same situation no key slips past the hook in an application it was *)
(* not told is excluded: neither a stale TSF context, nor a timeout, nor     *)
(* missing memory, nor the answer it holds about the application that was in *)
(* front before makes it stand back.                                         *)
HookPrimaryKeepsKeys ==
    done.seen /\ ~done.excluded /\ ~excused => done.hook

(* An application's exclusion is obeyed from the moment its asker was told   *)
(* until it asks again, whatever else was asked in between: the hook takes   *)
(* no key of an application it was last told is excluded, except with a      *)
(* fallback decision (which does not look at the exclusion), and the text    *)
(* service takes none in an application whose last document focus told it    *)
(* so, even across Deactivate and Activate.  A list that changes, or a query *)
(* that fails, shows only when the asker asks again: the hook when another   *)
(* window comes to the front, the service when a document is focused.        *)
ExclusionObeyed ==
    /\ done.hook => ~done.excluded
    /\ done.tsf => done.app \notin told.tsf

(* A key that reached an application leaves its queue even when another      *)
(* process stalls for ever inside the routing mutex: the 100 ms timeout of   *)
(* LockRouting is what guarantees it.                                        *)
KeysDelivered ==
    \A a \in TsfApps : queue[a] # <<>> ~> queue[a] = <<>>

(* What makes the three invariants about keys inductive: who can be inside   *)
(* the mutex for which call and about which key, what the memory says while  *)
(* nothing excused it, what a service knows about its own application once   *)
(* it has a context, and what the keys still queued carry with them.         *)
CallsMatchCallers ==
    /\ crit.by = Nobody <=> crit = Free
    /\ crit.by = Manager => crit.call \in {"boot", "mode", "hookKey"}
    /\ crit.by \in TsfApps => crit.call \in {"publish", "testKeyDown", "keyDown"}

KeysInProgress ==
    \A a \in TsfApps :
        (tested[a] \/ (crit.by = a /\ crit.call \in {"testKeyDown", "keyDown"}))
            => queue[a] # <<>>

UnexcusedMemory ==
    ~excused /\ state.valid => state.mode = "HOOK_PRIMARY" /\ state.hook

HookKnowsExclusion ==
    foreground.excluded = (foreground.app \in told.hook)

ServiceKnowsExclusion ==
    \A a \in TsfApps : svc[a].ctx => svc[a].excluded = (a \in told.tsf)

KeyAllowed(k, excuse) ==
    /\ k.hook => ~k.excluded
    /\ k.seen /\ ~k.excluded /\ ~excuse => k.hook

QueuedKeysAllowed ==
    \A a \in TsfApps : \A i \in 1..Len(queue[a]) : KeyAllowed(queue[a][i], excused)

RoutingInv ==
    /\ CallsMatchCallers
    /\ KeysInProgress
    /\ StoredOwnerConsistent
    /\ UnexcusedMemory
    /\ HookKnowsExclusion
    /\ ServiceKnowsExclusion
    /\ QueuedKeysAllowed
    /\ HookPrimaryOnePath
    /\ HookPrimaryKeepsKeys
    /\ ExclusionObeyed

(* EXECUTION_BACKLOG.md: "no dual-processing across hook and TSF paths".     *)
OneInputPath == ~(done.hook /\ done.tsf)

=============================================================================
