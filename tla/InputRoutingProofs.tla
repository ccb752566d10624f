------------------------- MODULE InputRoutingProofs -------------------------
(***************************************************************************)
(* Proofs about InputRouting, for every set of applications, every answer  *)
(* about their exclusion, every startup mode and every bound on typing     *)
(* ahead.                                                                  *)
(***************************************************************************)
EXTENDS InputRouting, TLAPS

-----------------------------------------------------------------------------
(* The decision table.                                                     *)

(* Every owner the table names has a reason of its own.                      *)
LEMMA OwnerReasonType ==
    ASSUME NEW mode \in Modes
    PROVE  OwnerReason[mode].HOOK \in Reasons /\ OwnerReason[mode].TSF \in Reasons
<1>1. CASE mode = "HOOK_PRIMARY"    BY <1>1 DEF OwnerReason, Reasons
<1>2. CASE mode = "TSF_PRIMARY"     BY <1>2 DEF OwnerReason, Reasons
<1>3. CASE mode = "FALLBACK_SCOPED" BY <1>3 DEF OwnerReason, Reasons
<1> QED BY <1>1, <1>2, <1>3 DEF Modes

(* Resolve answers a complete decision (ResolveRoutingDecision).             *)
LEMMA ResolveType ==
    ASSUME NEW mode \in Modes, NEW hook \in BOOLEAN, NEW tsf \in BOOLEAN,
           NEW excluded \in BOOLEAN
    PROVE  Resolve(mode, hook, tsf, excluded) \in RoutingState
<1> DEFINE owner == OwnerOf(mode, hook, tsf, excluded)
<1>1. owner \in Owners
  BY DEF OwnerOf, Owners
<1>2. 0 \in 0..(SeqMod - 1)
  BY RoutingConstants
<1>3. /\ "BLACKLISTED_CONTEXT" \in Reasons
      /\ "NO_FOCUSED_CONTEXT" \in Reasons
  BY DEF Reasons
<1> QED BY <1>1, <1>2, <1>3, OwnerReasonType DEF Resolve, RoutingState

(* The mode and the contexts of a decision are its inputs, and its owner is  *)
(* the one the table names.                                                  *)
LEMMA ResolveFields ==
    ASSUME NEW mode, NEW hook, NEW tsf, NEW excluded
    PROVE  LET d == Resolve(mode, hook, tsf, excluded) IN
           /\ d.valid
           /\ d.mode = mode
           /\ d.hook = hook
           /\ d.tsf = tsf
           /\ d.excluded = excluded
           /\ d.owner = OwnerOf(mode, hook, tsf, excluded)
  BY DEF Resolve

(* Sequenced changes the sequence number and nothing else.                   *)
LEMMA SequencedFields ==
    ASSUME NEW current \in RoutingState, NEW next \in RoutingState
    PROVE  LET d == Sequenced(current, next) IN
           /\ d \in RoutingState
           /\ d.valid = next.valid
           /\ d.mode = next.mode
           /\ d.owner = next.owner
           /\ d.hook = next.hook
           /\ d.tsf = next.tsf
           /\ d.excluded = next.excluded
<1>1. CASE Numbered(next, next.reason, current.seq) = current
  <2>1. Sequenced(current, next) = current
    BY <1>1 DEF Sequenced
  <2>2. /\ current.valid = next.valid
        /\ current.mode = next.mode
        /\ current.owner = next.owner
        /\ current.hook = next.hook
        /\ current.tsf = next.tsf
        /\ current.excluded = next.excluded
    BY <1>1 DEF RoutingState, Numbered
  <2> QED BY <2>1, <2>2
<1>2. CASE Numbered(next, next.reason, current.seq) # current
  <2>1. Sequenced(current, next) = Numbered(next, next.reason, NextSeq(current.seq))
    BY <1>2 DEF Sequenced
  <2>2. NextSeq(current.seq) \in 0..(SeqMod - 1)
    BY RoutingConstants DEF NextSeq, RoutingState
  <2> QED BY <2>1, <2>2 DEF RoutingState, Numbered
<1> QED BY <1>1, <1>2

(* What a caller reads under the mutex is complete, also in fresh memory     *)
(* (ReadRoutingStateLocked).                                                 *)
LEMMA ReadStateType ==
    ASSUME state \in RoutingState
    PROVE  /\ ReadState \in RoutingState
           /\ ReadState.valid
           /\ ~state.valid => ReadState.mode = "HOOK_PRIMARY" /\ ReadState.hook
           /\ state.valid => ReadState = state
<1>1. /\ "HOOK_PRIMARY" \in Modes
      /\ "HOOK" \in Owners
      /\ "ROUTING_STATE_UNAVAILABLE" \in Reasons
      /\ 0 \in 0..(SeqMod - 1)
  BY RoutingConstants DEF Modes, Owners, Reasons
<1>2. Fallback("HOOK", TRUE, FALSE, FALSE) \in RoutingState
  BY <1>1 DEF Fallback, RoutingState
<1>3. CASE state.valid
  BY <1>3 DEF ReadState
<1>4. CASE ~state.valid
  BY <1>2, <1>4 DEF ReadState, Fallback
<1> QED BY <1>3, <1>4

ForegroundType ==
    /\ foreground \in [app : Apps \cup {NoApp}, excluded : BOOLEAN]
    /\ told \in [hook : SUBSET Excludable, tsf : SUBSET Excludable]

Consistent(d) == d.owner = OwnerOf(d.mode, d.hook, d.tsf, d.excluded)

(* A refresh of the hook keeps the mode and the TSF context of the memory    *)
(* and publishes its own context (RefreshHookRoutingDecision).               *)
LEMMA HookRefreshFields ==
    ASSUME state \in RoutingState, ForegroundType
    PROVE  /\ HookRefresh \in RoutingState
           /\ Consistent(HookRefresh)
           /\ HookRefresh.valid
           /\ HookRefresh.mode = ReadState.mode
           /\ HookRefresh.hook = (foreground.app # NoApp)
           /\ HookRefresh.excluded = foreground.excluded
<1> DEFINE next == Resolve(ReadState.mode, foreground.app # NoApp, ReadState.tsf,
                           foreground.excluded)
<1>1. ReadState \in RoutingState
  BY ReadStateType
<1>2. ReadState.mode \in Modes /\ ReadState.tsf \in BOOLEAN
  BY <1>1 DEF RoutingState
<1>3. next \in RoutingState
  <2>1. (foreground.app # NoApp) \in BOOLEAN
    OBVIOUS
  <2>2. foreground.excluded \in BOOLEAN
    BY DEF ForegroundType
  <2> QED BY <1>2, <2>1, <2>2, ResolveType, Zenon
<1>4. HookRefresh = Sequenced(ReadState, next)
  BY DEF HookRefresh
<1> HIDE DEF next
<1>5. /\ HookRefresh \in RoutingState
      /\ HookRefresh.valid = next.valid
      /\ HookRefresh.mode = next.mode
      /\ HookRefresh.owner = next.owner
      /\ HookRefresh.hook = next.hook
      /\ HookRefresh.tsf = next.tsf
      /\ HookRefresh.excluded = next.excluded
  BY <1>1, <1>3, <1>4, SequencedFields
<1>6. /\ next.valid
      /\ next.mode = ReadState.mode
      /\ next.hook = (foreground.app # NoApp)
      /\ next.excluded = foreground.excluded
      /\ Consistent(next)
  BY ResolveFields DEF next, Consistent
<1> QED BY <1>5, <1>6 DEF Consistent

(* A refresh of a text service keeps the mode and the hook context of the    *)
(* memory and publishes its own context (RefreshTsfRoutingDecision).         *)
LEMMA TsfRefreshFields ==
    ASSUME state \in RoutingState, NEW a \in TsfApps, svc \in [TsfApps -> Service]
    PROVE  /\ TsfRefresh(a) \in RoutingState
           /\ Consistent(TsfRefresh(a))
           /\ TsfRefresh(a).valid
           /\ TsfRefresh(a).mode = ReadState.mode
           /\ TsfRefresh(a).hook = ReadState.hook
           /\ TsfRefresh(a).tsf = svc[a].ctx
           /\ TsfRefresh(a).excluded = svc[a].excluded
<1> DEFINE next == Resolve(ReadState.mode, ReadState.hook, svc[a].ctx,
                           svc[a].excluded)
<1>1. ReadState \in RoutingState
  BY ReadStateType
<1>2. /\ ReadState.mode \in Modes /\ ReadState.hook \in BOOLEAN
      /\ svc[a].ctx \in BOOLEAN /\ svc[a].excluded \in BOOLEAN
  BY <1>1 DEF RoutingState, Service
<1>3. next \in RoutingState
  BY <1>2, ResolveType
<1>4. TsfRefresh(a) = Sequenced(ReadState, next)
  BY DEF TsfRefresh
<1> HIDE DEF next
<1>5. /\ TsfRefresh(a) \in RoutingState
      /\ TsfRefresh(a).valid = next.valid
      /\ TsfRefresh(a).mode = next.mode
      /\ TsfRefresh(a).owner = next.owner
      /\ TsfRefresh(a).hook = next.hook
      /\ TsfRefresh(a).tsf = next.tsf
      /\ TsfRefresh(a).excluded = next.excluded
  BY <1>1, <1>3, <1>4, SequencedFields
<1>6. /\ next.valid
      /\ next.mode = ReadState.mode
      /\ next.hook = ReadState.hook
      /\ next.tsf = svc[a].ctx
      /\ next.excluded = svc[a].excluded
      /\ Consistent(next)
  BY ResolveFields DEF next, Consistent
<1> QED BY <1>5, <1>6 DEF Consistent

(* The states written at startup are complete and consistent.                *)
LEMMA BootFields ==
    /\ ZeroState \in RoutingState
    /\ BootState \in RoutingState
    /\ Consistent(BootState)
<1>1. /\ "HOOK_PRIMARY" \in Modes
      /\ {"HOOK", "NONE"} \subseteq Owners
      /\ {"UNSPECIFIED", "MANAGER_STARTUP_DEFAULT"} \subseteq Reasons
      /\ 0 \in 0..(SeqMod - 1)
      /\ 1 % SeqMod \in 0..(SeqMod - 1)
  BY RoutingConstants DEF Modes, Owners, Reasons
<1> QED BY <1>1 DEF ZeroState, BootState, RoutingState, Consistent, OwnerOf

(* Setting a mode keeps the published contexts (SetInputRoutingMode).         *)
LEMMA ModeStateFields ==
    ASSUME state \in RoutingState, NEW mode \in Modes
    PROVE  /\ ModeState(mode) \in RoutingState
           /\ Consistent(ModeState(mode))
           /\ ModeState(mode).mode = mode
           /\ ModeState(mode).hook = ReadState.hook
<1> DEFINE next == Resolve(mode, ReadState.hook, ReadState.tsf, ReadState.excluded)
           reason == IF next.reason = "NO_FOCUSED_CONTEXT"
                     THEN ConfiguredReason[mode] ELSE next.reason
<1>1. ReadState \in RoutingState
  BY ReadStateType
<1>2. next \in RoutingState
  BY <1>1, ResolveType DEF RoutingState
<1>3. ConfiguredReason[mode] \in Reasons
  <2>1. CASE mode = "HOOK_PRIMARY"    BY <2>1 DEF ConfiguredReason, Reasons
  <2>2. CASE mode = "TSF_PRIMARY"     BY <2>2 DEF ConfiguredReason, Reasons
  <2>3. CASE mode = "FALLBACK_SCOPED" BY <2>3 DEF ConfiguredReason, Reasons
  <2> QED BY <2>1, <2>2, <2>3 DEF Modes
<1>4. reason \in Reasons
  BY <1>2, <1>3 DEF RoutingState
<1>5. NextSeq(ReadState.seq) \in 0..(SeqMod - 1)
  BY <1>1, RoutingConstants DEF NextSeq, RoutingState
<1>6. ModeState(mode) = Numbered(next, reason, NextSeq(ReadState.seq))
  BY DEF ModeState
<1>7. /\ next.mode = mode
      /\ next.hook = ReadState.hook
      /\ Consistent(next)
  BY ResolveFields DEF Consistent
<1> HIDE DEF next, reason
<1> QED BY <1>2, <1>4, <1>5, <1>6, <1>7 DEF RoutingState, Consistent, Numbered

-----------------------------------------------------------------------------
(* Types, one part of the state at a time.                                 *)

MemoryType == state \in RoutingState /\ torn \in BOOLEAN /\ excused \in BOOLEAN

CritType == crit \in [by : TsfApps \cup {Manager, Nobody}, call : Calls]

ManagerType == mgr \in {"down", "boot", "mode", "up"}

ServicesType == svc \in [TsfApps -> Service]

KeysType ==
    /\ queue \in [TsfApps -> Seq(Keys)]
    /\ tested \in [TsfApps -> BOOLEAN]
    /\ done \in Delivered

(* TypeOK, divided by the part of the program that owns the state.           *)
LEMMA TypeParts ==
    TypeOK <=> /\ MemoryType /\ CritType /\ ManagerType
               /\ ForegroundType /\ ServicesType /\ KeysType
  BY DEF TypeOK, MemoryType, CritType, ManagerType, ForegroundType, ServicesType,
     KeysType

(* Entering, giving up and finishing a call keep the memory and the mutex    *)
(* well formed (LockRouting, WriteRoutingStateLocked, UnlockRouting).        *)
LEMMA EnterTypes ==
    ASSUME MemoryType, CritType, NEW p \in TsfApps \cup {Manager},
           NEW call \in Calls, Enter(p, call)
    PROVE  CritType' /\ crit' = [by |-> p, call |-> call]
  BY DEF CritType, Enter

(* A free mutex is a well formed one.                                        *)
LEMMA FreeType == Free \in [by : TsfApps \cup {Manager, Nobody}, call : Calls]
  BY DEF Free, Calls

(* Looking at the window in front, the hook keeps its answer or gets another *)
(* one about that window.                                                    *)
LEMMA LookAtType ==
    ASSUME ForegroundType, NEW fg \in Apps \cup {NoApp}, LookAt(fg)
    PROVE  ForegroundType' /\ foreground'.app = fg /\ told'.tsf = told.tsf
<1>1. CASE fg = foreground.app /\ UNCHANGED hookVars
  BY <1>1 DEF ForegroundType, hookVars
<1>2. ASSUME NEW excluded \in Answers(fg),
             foreground' = [app |-> fg, excluded |-> excluded],
             told' = [told EXCEPT !.hook = Remember(@, fg, excluded)]
      PROVE  ForegroundType' /\ foreground'.app = fg /\ told'.tsf = told.tsf
  <2>1. excluded \in BOOLEAN /\ (excluded => fg \in Excludable)
    BY <1>2 DEF Answers
  <2>2. Remember(told.hook, fg, excluded) \in SUBSET Excludable
    BY <2>1 DEF Remember, ForegroundType
  <2>3. told' = [hook |-> Remember(told.hook, fg, excluded), tsf |-> told.tsf]
    BY <1>2 DEF ForegroundType
  <2> QED BY <1>2, <2>1, <2>2, <2>3 DEF ForegroundType
<1> QED BY <1>1, <1>2 DEF LookAt

(* Giving up on the mutex touches neither it nor the memory.                 *)
LEMMA UnavailableTypes ==
    ASSUME MemoryType, CritType, NEW p, Unavailable(p)
    PROVE  MemoryType' /\ CritType'
  BY DEF MemoryType, CritType, Unavailable

(* A finished call leaves a complete decision and a free mutex.              *)
LEMMA LeaveTypes ==
    ASSUME MemoryType, NEW next \in RoutingState, NEW excuse \in BOOLEAN,
           Leave(next, excuse)
    PROVE  MemoryType' /\ CritType'
  BY FreeType DEF MemoryType, CritType, Leave

(* What is being written is complete, and so is every prefix of the stores.  *)
LEMMA IntendedType ==
    ASSUME state \in RoutingState, ForegroundType, ServicesType, CritType,
           CallsMatchCallers, crit.by # Nobody, NEW next \in Intended
    PROVE  next \in RoutingState
<1>1. CASE crit.by = Manager /\ crit.call = "boot"
  BY <1>1, BootFields DEF Intended
<1>2. CASE crit.by = Manager /\ crit.call = "mode"
  <2>1. PICK mode \in StartupModes : next = ModeState(mode)
    BY <1>2 DEF Intended
  <2> QED BY <2>1, ModeStateFields, RoutingConstants
<1>3. CASE crit.by = Manager /\ crit.call = "hookKey"
  BY <1>3, HookRefreshFields DEF Intended
<1>4. CASE crit.by \in TsfApps
  <2>1. next = TsfRefresh(crit.by)
    BY <1>4 DEF Intended, CallsMatchCallers
  <2> QED BY <1>4, <2>1, TsfRefreshFields DEF ServicesType
<1> QED BY <1>1, <1>2, <1>3, <1>4 DEF CallsMatchCallers, CritType

(* Any prefix of a write of complete states is a complete state.             *)
LEMMA StoredUpToType ==
    ASSUME NEW n, NEW old \in RoutingState, NEW new \in RoutingState
    PROVE  StoredUpTo(n, old, new) \in RoutingState
  BY DEF StoredUpTo, RoutingState

(* A process that dies leaves memory and mutex well formed.                  *)
LEMMA AbandonTypes ==
    ASSUME MemoryType, CritType, ForegroundType, ServicesType, CallsMatchCallers,
           NEW p \in TsfApps \cup {Manager}, Abandon(p)
    PROVE  MemoryType' /\ CritType'
<1>1. CASE ~MappedWithout(p)
  BY <1>1, FreeType, BootFields DEF Abandon, MemoryType, CritType
<1>2. CASE MappedWithout(p) /\ crit.by = p
  <2>1. PICK next \in Intended, n \in 0..8 : state' = StoredUpTo(n, state, next)
    BY <1>2 DEF Abandon
  <2>2. crit.by # Nobody
    BY <1>2, RoutingConstants
  <2>3. state' \in RoutingState
    BY <2>1, <2>2, IntendedType, StoredUpToType DEF MemoryType
  <2>4. crit' = Free /\ torn' = TRUE /\ excused' \in BOOLEAN
    BY <1>2 DEF Abandon, MemoryType
  <2> QED BY <2>3, <2>4, FreeType DEF MemoryType, CritType
<1>3. CASE MappedWithout(p) /\ crit.by # p
  BY <1>3 DEF Abandon, MemoryType, CritType
<1> QED BY <1>1, <1>2, <1>3

(* The ways a key moves.                                                     *)
LEMMA NoKeyMovesType ==
    ASSUME KeysType, NoKeyMoves
    PROVE  KeysType'
  BY DEF KeysType, NoKeyMoves, NoDelivery, NoKeyYet, Delivered

(* A delivered key is a key with an application.                             *)
LEMMA DeliverType ==
    ASSUME NEW a \in Apps, NEW k \in Keys, NEW tsf \in BOOLEAN, Deliver(a, k, tsf)
    PROVE  done' \in Delivered
  BY DEF Deliver, DeliveredKey, Delivered, Keys

(* A step that delivers nothing says so.                                     *)
LEMMA NoDeliveryType ==
    ASSUME NoDelivery
    PROVE  done' \in Delivered
  BY DEF NoDelivery, NoKeyYet, Delivered

(* A key no path took is queued or delivered (CallNextHookEx).               *)
LEMMA PassType ==
    ASSUME KeysType, NEW a \in Apps, NEW k \in Keys, Pass(a, k)
    PROVE  queue' \in [TsfApps -> Seq(Keys)] /\ done' \in Delivered
<1>1. CASE a \in TsfApps /\ svc[a].up
  <2>1. queue' = [queue EXCEPT ![a] = Append(@, k)] /\ NoDelivery
    BY <1>1 DEF Pass
  <2>2. Append(queue[a], k) \in Seq(Keys)
    BY <1>1 DEF KeysType
  <2> QED BY <2>1, <2>2, NoDeliveryType DEF KeysType
<1>2. CASE ~(a \in TsfApps /\ svc[a].up)
  <2>1. Deliver(a, k, FALSE) /\ UNCHANGED queue
    BY <1>2 DEF Pass
  <2> QED BY <2>1, DeliverType DEF KeysType
<1> QED BY <1>1, <1>2

(* The key a text service finishes leaves its queue.                         *)
LEMMA FinishType ==
    ASSUME KeysType, NEW a \in TsfApps, queue[a] # <<>>, NEW tsf \in BOOLEAN,
           Finish(a, tsf)
    PROVE  KeysType'
<1>1. Head(queue[a]) \in Keys /\ Tail(queue[a]) \in Seq(Keys)
  BY DEF KeysType
<1>2. done' \in Delivered
  BY <1>1, DeliverType, RoutingConstants DEF Finish
<1> QED BY <1>1, <1>2 DEF Finish, KeysType

(* A service that stops leaves an empty queue.                               *)
LEMMA DropKeysType ==
    ASSUME KeysType, NEW a \in TsfApps, DropKeys(a)
    PROVE  KeysType'
<1>1. <<>> \in Seq(Keys)
  OBVIOUS
<1> QED BY <1>1, NoDeliveryType DEF DropKeys, KeysType

(* The hook lets a key through or swallows it (LowLevelKeyboardProc).        *)
LEMMA HookTailType ==
    ASSUME KeysType, NEW fg \in Apps \cup {NoApp}, NEW owner,
           NEW excluded \in BOOLEAN, HookTail(fg, owner, excluded)
    PROVE  KeysType'
<1> DEFINE k == [hook |-> owner = "HOOK", seen |-> TRUE, excluded |-> excluded]
<1>1. k \in Keys
  BY Zenon DEF Keys
<1>2. UNCHANGED tested
  BY DEF HookTail
<1>3. \/ NoDelivery /\ UNCHANGED queue
      \/ fg \in Apps /\ Pass(fg, k)
      \/ fg \in Apps /\ Deliver(fg, k, FALSE) /\ UNCHANGED queue
  BY DEF HookTail
<1> HIDE DEF k
<1> QED BY <1>1, <1>2, <1>3, NoDeliveryType, PassType, DeliverType DEF KeysType

(* OnTestKeyDown eats the key or passes it on.                               *)
LEMMA TestTailType ==
    ASSUME KeysType, NEW a \in TsfApps, queue[a] # <<>>, NEW owner,
           TestTail(a, owner)
    PROVE  KeysType'
<1>1. CASE Finish(a, FALSE)
  BY <1>1, FinishType
<1>2. CASE /\ tested' = [tested EXCEPT ![a] = TRUE]
           /\ NoDelivery
           /\ UNCHANGED queue
  BY <1>2, NoDeliveryType DEF KeysType
<1> QED BY <1>1, <1>2 DEF TestTail

(* OnKeyDown ends with the key, processed or not.                            *)
LEMMA DownTailType ==
    ASSUME KeysType, NEW a \in TsfApps, queue[a] # <<>>, NEW owner,
           DownTail(a, owner)
    PROVE  KeysType'
<1>1. (owner = "TSF") \in BOOLEAN
  OBVIOUS
<1> QED BY <1>1, FinishType, Zenon DEF DownTail

(* Opening the mapping changes the handle flag only.                         *)
LEMMA OpenHandleType ==
    ASSUME ServicesType, NEW a \in TsfApps, OpenHandle(a)
    PROVE  ServicesType'
<1>1. Mapped \in BOOLEAN
  BY Zenon DEF Mapped
<1> QED BY <1>1 DEF ServicesType, OpenHandle, Service

-----------------------------------------------------------------------------
(* Type correctness, with what it needs to know about calls in progress.   *)

TypeInv == TypeOK /\ CallsMatchCallers /\ KeysInProgress

(* The parts of TypeInv, in the next state.                                  *)
LEMMA NextTypeParts ==
    /\ MemoryType' /\ CritType' /\ ManagerType' /\ ForegroundType'
    /\ ServicesType' /\ KeysType' /\ CallsMatchCallers' /\ KeysInProgress'
    => TypeInv'
  BY DEF TypeInv, TypeOK, MemoryType, CritType, ManagerType, ForegroundType,
     ServicesType, KeysType

(* Before any process runs, TypeInv holds.                                   *)
LEMMA TypeInvInit == Init => TypeInv
<1> SUFFICES ASSUME Init PROVE TypeInv
  OBVIOUS
<1>1. MemoryType /\ CritType
  BY FreeType, BootFields DEF Init, MemoryType, CritType
<1>2. ManagerType /\ ForegroundType /\ ServicesType
  BY DEF Init, ManagerType, ForegroundType, NoForeground, ServicesType, NoService,
     Service
<1>3. KeysType
  <2>1. <<>> \in Seq(Keys)
    OBVIOUS
  <2> QED BY <2>1 DEF Init, KeysType, NoKeyYet, Delivered
<1>4. CallsMatchCallers /\ KeysInProgress
  BY RoutingConstants DEF Init, CallsMatchCallers, KeysInProgress, Free
<1> QED BY <1>1, <1>2, <1>3, <1>4, TypeParts DEF TypeInv

(* A call in progress belongs to a process that makes such calls.            *)
LEMMA EnterCalls ==
    ASSUME NEW p \in TsfApps \cup {Manager}, NEW call,
           crit' = [by |-> p, call |-> call],
           p = Manager => call \in {"boot", "mode", "hookKey"},
           p \in TsfApps => call \in {"publish", "testKeyDown", "keyDown"}
    PROVE  CallsMatchCallers'
  BY RoutingConstants DEF CallsMatchCallers, Free

(* Nobody has a call in progress in a free mutex.                            *)
LEMMA FreeCalls ==
    ASSUME crit' = Free
    PROVE  CallsMatchCallers'
  BY RoutingConstants DEF CallsMatchCallers, Free

(* A step that leaves the mutex alone leaves the calls alone.                *)
LEMMA SameCalls ==
    ASSUME CallsMatchCallers, crit' = crit
    PROVE  CallsMatchCallers'
  BY DEF CallsMatchCallers

(* Abandoning the mutex or leaving it alone starts no call.                  *)
LEMMA AbandonCalls ==
    ASSUME CallsMatchCallers, NEW p, Abandon(p)
    PROVE  CallsMatchCallers' /\ (crit' = Free \/ crit' = crit)
<1>1. crit' = Free \/ crit' = crit
  BY DEF Abandon
<1> QED BY <1>1, FreeCalls, SameCalls

(* Keys in progress stay in progress while queues only grow.                 *)
LEMMA KeysStillInProgress ==
    ASSUME KeysInProgress, RoutingConstants,
           crit' = crit \/ crit' = Free \/ crit'.by = Manager
             \/ crit'.call \notin {"testKeyDown", "keyDown"},
           UNCHANGED tested,
           \A a \in TsfApps : queue[a] # <<>> => queue'[a] # <<>>
    PROVE  KeysInProgress'
  BY DEF KeysInProgress, Free

(* A key that is let through makes no queue shorter.                         *)
LEMMA PassGrows ==
    ASSUME KeysType, NEW a \in Apps, NEW k \in Keys, Pass(a, k)
    PROVE  \A b \in TsfApps : queue[b] # <<>> => queue'[b] # <<>>
<1>1. CASE a \in TsfApps /\ svc[a].up
  <2>1. queue' = [queue EXCEPT ![a] = Append(@, k)]
    BY <1>1 DEF Pass
  <2>2. Append(queue[a], k) # <<>>
    <3>1. queue[a] \in Seq(Keys)
      BY <1>1 DEF KeysType
    <3>2. Len(Append(queue[a], k)) = Len(queue[a]) + 1 /\ Len(queue[a]) \in Nat
      BY <3>1
    <3> QED BY <3>2
  <2> QED BY <1>1, <2>1, <2>2 DEF KeysType
<1>2. CASE ~(a \in TsfApps /\ svc[a].up)
  BY <1>2 DEF Pass
<1> QED BY <1>1, <1>2

(* Neither does anything else the hook does with a key.                      *)
LEMMA HookTailGrows ==
    ASSUME KeysType, NEW fg \in Apps \cup {NoApp}, NEW owner,
           NEW excluded \in BOOLEAN, HookTail(fg, owner, excluded)
    PROVE  /\ UNCHANGED tested
           /\ \A b \in TsfApps : queue[b] # <<>> => queue'[b] # <<>>
<1> DEFINE k == [hook |-> owner = "HOOK", seen |-> TRUE, excluded |-> excluded]
<1>1. k \in Keys
  BY Zenon DEF Keys
<1>2. UNCHANGED tested
  BY DEF HookTail
<1>3. UNCHANGED queue \/ (fg \in Apps /\ Pass(fg, k))
  BY DEF HookTail
<1> HIDE DEF k
<1> QED BY <1>1, <1>2, <1>3, PassGrows

(* A key that is finished or dropped leaves nothing in progress.             *)
LEMMA FinishProgress ==
    ASSUME KeysInProgress, KeysType, NEW a \in TsfApps, crit' = Free \/ crit' = crit,
           crit.by # a \/ crit' = Free,
           \/ \E tsf \in BOOLEAN : Finish(a, tsf)
           \/ DropKeys(a)
    PROVE  KeysInProgress'
<1>1. /\ tested' = [tested EXCEPT ![a] = FALSE]
      /\ \A b \in TsfApps \ {a} : queue'[b] = queue[b]
  BY DEF Finish, DropKeys, KeysType
<1>2. ~tested'[a] /\ \A b \in TsfApps \ {a} : tested'[b] = tested[b]
  BY <1>1 DEF KeysType
<1> QED BY <1>1, <1>2, RoutingConstants DEF KeysInProgress, Free

(* OnTestKeyDown leaves no tested key without a queue.                       *)
LEMMA TestTailProgress ==
    ASSUME KeysInProgress, KeysType, NEW a \in TsfApps, NEW owner,
           crit' = Free \/ crit' = crit, crit.by # a \/ crit' = Free,
           queue[a] # <<>>, TestTail(a, owner)
    PROVE  KeysInProgress'
<1>1. CASE Finish(a, FALSE)
  BY <1>1, FinishProgress
<1>2. CASE tested' = [tested EXCEPT ![a] = TRUE] /\ UNCHANGED queue
  <2>1. \A b \in TsfApps \ {a} : tested'[b] = tested[b]
    BY <1>2 DEF KeysType
  <2> QED BY <1>2, <2>1, RoutingConstants DEF KeysInProgress, Free
<1> QED BY <1>1, <1>2 DEF TestTail

(* OnKeyDown leaves no tested key at all.                                    *)
LEMMA DownTailProgress ==
    ASSUME KeysInProgress, KeysType, NEW a \in TsfApps, NEW owner,
           crit' = Free \/ crit' = crit, crit.by # a \/ crit' = Free,
           DownTail(a, owner)
    PROVE  KeysInProgress'
<1>1. \E tsf \in BOOLEAN : Finish(a, tsf)
  BY DEF DownTail
<1> QED BY <1>1, FinishProgress

(* The steps of the manager.                                                 *)
LEMMA ManagerTypes ==
    ASSUME TypeInv, ManagerNext
    PROVE  TypeInv'
<1>0. /\ MemoryType /\ CritType /\ ManagerType /\ ForegroundType /\ ServicesType
      /\ KeysType /\ CallsMatchCallers /\ KeysInProgress
  BY TypeParts DEF TypeInv
<1> SUFFICES /\ MemoryType' /\ CritType' /\ ManagerType' /\ ForegroundType'
             /\ ServicesType' /\ KeysType' /\ CallsMatchCallers' /\ KeysInProgress'
  BY NextTypeParts
<1>1. CASE ManagerStart
  <2>1. MemoryType' /\ CritType' /\ ManagerType' /\ ForegroundType' /\ ServicesType'
    BY <1>0, <1>1 DEF ManagerStart, memVars, hookVars, MemoryType, CritType,
       ManagerType, ForegroundType, ServicesType
  <2>2. KeysType' /\ CallsMatchCallers' /\ KeysInProgress'
    BY <1>0, <1>1, NoKeyMovesType, SameCalls, KeysStillInProgress, RoutingConstants
       DEF ManagerStart, NoKeyMoves
  <2> QED BY <2>1, <2>2
<1>2. CASE BootEnter \/ ModeEnter
  <2>1. PICK call \in {"boot", "mode"} : Enter(Manager, call)
    BY <1>2 DEF BootEnter, ModeEnter
  <2>2. /\ UNCHANGED <<memVars, hookVars, mgr, svc>>
        /\ NoKeyMoves
    BY <1>2 DEF BootEnter, ModeEnter
  <2>3. CritType' /\ crit' = [by |-> Manager, call |-> call]
    BY <1>0, <2>1, EnterTypes DEF Calls
  <2>4. CallsMatchCallers'
    BY <2>3, EnterCalls, RoutingConstants
  <2>5. KeysType' /\ KeysInProgress'
    BY <1>0, <2>2, <2>3, NoKeyMovesType, KeysStillInProgress, RoutingConstants
       DEF NoKeyMoves
  <2>6. MemoryType' /\ ManagerType' /\ ForegroundType' /\ ServicesType'
    BY <1>0, <2>2 DEF memVars, MemoryType, ManagerType, ForegroundType, ServicesType,
       hookVars
  <2> QED BY <2>3, <2>4, <2>5, <2>6
<1>3. CASE BootLeave \/ ModeLeave
  <2>1. PICK next \in RoutingState, excuse \in BOOLEAN : Leave(next, excuse)
    <3>1. CASE BootLeave
      BY <3>1, BootFields DEF BootLeave
    <3>2. CASE ModeLeave
      <4>1. PICK mode \in StartupModes : Leave(ModeState(mode), mode # "HOOK_PRIMARY")
        BY <3>2 DEF ModeLeave
      <4>2. ModeState(mode) \in RoutingState
        BY <1>0, ModeStateFields, RoutingConstants DEF MemoryType
      <4>3. (mode # "HOOK_PRIMARY") \in BOOLEAN
        OBVIOUS
      <4> QED BY <4>1, <4>2, <4>3
    <3> QED BY <1>3, <3>1, <3>2
  <2>2. MemoryType' /\ CritType'
    BY <1>0, <2>1, LeaveTypes
  <2>3. /\ NoKeyMoves
        /\ mgr' \in {"mode", "up"}
        /\ UNCHANGED <<hookVars, svc>>
    BY <1>3 DEF BootLeave, ModeLeave
  <2>4. crit' = Free
    BY <2>1 DEF Leave
  <2>5. KeysType' /\ CallsMatchCallers' /\ KeysInProgress'
    BY <1>0, <2>3, <2>4, NoKeyMovesType, FreeCalls, KeysStillInProgress,
       RoutingConstants DEF NoKeyMoves
  <2>6. ManagerType' /\ ForegroundType' /\ ServicesType'
    BY <1>0, <2>3 DEF ManagerType, ForegroundType, ServicesType, hookVars
  <2> QED BY <2>2, <2>5, <2>6
<1>4. CASE BootTimeout \/ ModeTimeout
  <2>1. /\ Unavailable(Manager)
        /\ NoKeyMoves
        /\ mgr' = "up"
        /\ UNCHANGED <<hookVars, svc>>
    BY <1>4 DEF BootTimeout, ModeTimeout
  <2>2. MemoryType' /\ CritType'
    BY <1>0, <2>1, UnavailableTypes
  <2>3. KeysType' /\ CallsMatchCallers' /\ KeysInProgress'
    BY <1>0, <2>1, NoKeyMovesType, SameCalls, KeysStillInProgress, RoutingConstants
       DEF NoKeyMoves, Unavailable
  <2>4. ManagerType' /\ ForegroundType' /\ ServicesType'
    BY <1>0, <2>1 DEF ManagerType, ForegroundType, ServicesType, hookVars
  <2> QED BY <2>2, <2>3, <2>4
<1>5. CASE ManagerExit
  <2>1. /\ Abandon(Manager) /\ NoKeyMoves /\ mgr' = "down" /\ svc' = svc
        /\ foreground' = NoForeground /\ told' = [told EXCEPT !.hook = {}]
    BY <1>5 DEF ManagerExit
  <2>2. MemoryType' /\ CritType'
    BY <1>0, <2>1, AbandonTypes
  <2>3. CallsMatchCallers' /\ (crit' = Free \/ crit' = crit)
    BY <1>0, <2>1, AbandonCalls
  <2>4. KeysType' /\ KeysInProgress'
    BY <1>0, <2>1, <2>3, NoKeyMovesType, KeysStillInProgress, RoutingConstants
       DEF NoKeyMoves
  <2>5. ManagerType' /\ ServicesType'
    BY <1>0, <2>1 DEF ManagerType, ServicesType
  <2>6. ForegroundType'
    BY <1>0, <2>1 DEF ForegroundType, NoForeground
  <2> QED BY <2>2, <2>3, <2>4, <2>5, <2>6
<1>6. CASE HookKeyLeave
  <2>1. /\ Leave(HookRefresh, foreground.app = NoApp)
        /\ HookTail(foreground.app, HookRefresh.owner, foreground.app \in told.hook)
        /\ UNCHANGED <<hookVars, mgr, svc>>
    BY <1>6 DEF HookKeyLeave
  <2>2. MemoryType' /\ CritType' /\ crit' = Free
    <3>1. HookRefresh \in RoutingState
      BY <1>0, HookRefreshFields DEF MemoryType
    <3>2. (foreground.app = NoApp) \in BOOLEAN
      OBVIOUS
    <3>3. MemoryType' /\ CritType'
      BY <1>0, <2>1, <3>1, <3>2, LeaveTypes, Zenon
    <3> QED BY <2>1, <3>3 DEF Leave
  <2>3. foreground.app \in Apps \cup {NoApp}
    BY <1>0 DEF ForegroundType
  <2>4. KeysType' /\ CallsMatchCallers' /\ KeysInProgress'
    <3> DEFINE excluded == foreground.app \in told.hook
    <3>1. excluded \in BOOLEAN
      OBVIOUS
    <3>2. HookTail(foreground.app, HookRefresh.owner, excluded)
      BY <2>1
    <3> HIDE DEF excluded
    <3> QED BY <1>0, <2>2, <2>3, <3>1, <3>2, HookTailType, HookTailGrows, FreeCalls,
       KeysStillInProgress, RoutingConstants
  <2>5. ManagerType' /\ ForegroundType' /\ ServicesType'
    BY <1>0, <2>1 DEF ManagerType, ForegroundType, ServicesType, hookVars
  <2> QED BY <2>2, <2>4, <2>5
<1>7. ASSUME NEW fg \in Apps \cup {NoApp}, HookKeyEnter(fg)
      PROVE  /\ MemoryType' /\ CritType' /\ ManagerType' /\ ForegroundType'
             /\ ServicesType' /\ KeysType' /\ CallsMatchCallers' /\ KeysInProgress'
  <2>1. /\ Enter(Manager, "hookKey")
        /\ LookAt(fg)
        /\ NoKeyMoves
        /\ UNCHANGED <<memVars, mgr, svc>>
    BY <1>7 DEF HookKeyEnter
  <2>2. CritType' /\ crit' = [by |-> Manager, call |-> "hookKey"]
    BY <1>0, <2>1, EnterTypes DEF Calls
  <2>3. CallsMatchCallers'
    BY <2>2, EnterCalls, RoutingConstants
  <2>4. KeysType' /\ KeysInProgress'
    BY <1>0, <2>1, <2>2, NoKeyMovesType, KeysStillInProgress, RoutingConstants
       DEF NoKeyMoves
  <2>5. MemoryType' /\ ManagerType' /\ ServicesType'
    BY <1>0, <2>1 DEF memVars, MemoryType, ManagerType, ServicesType
  <2>6. ForegroundType'
    BY <1>0, <2>1, LookAtType
  <2> QED BY <2>2, <2>3, <2>4, <2>5, <2>6
<1>8. ASSUME NEW fg \in Apps \cup {NoApp}, HookKeyTimeout(fg)
      PROVE  /\ MemoryType' /\ CritType' /\ ManagerType' /\ ForegroundType'
             /\ ServicesType' /\ KeysType' /\ CallsMatchCallers' /\ KeysInProgress'
  <2>1. /\ Unavailable(Manager)
        /\ LookAt(fg)
        /\ HookTail(fg, HookFallbackOwner(fg), FALSE)
        /\ UNCHANGED <<mgr, svc>>
    BY <1>8 DEF HookKeyTimeout
  <2>2. MemoryType' /\ CritType' /\ crit' = crit
    BY <1>0, <2>1, UnavailableTypes DEF Unavailable
  <2>3. KeysType' /\ CallsMatchCallers' /\ KeysInProgress'
    BY <1>0, <2>1, <2>2, HookTailType, HookTailGrows, SameCalls,
       KeysStillInProgress, RoutingConstants
  <2>4. ManagerType' /\ ServicesType'
    BY <1>0, <2>1 DEF ManagerType, ServicesType
  <2>5. ForegroundType'
    BY <1>0, <2>1, LookAtType
  <2> QED BY <2>2, <2>3, <2>4, <2>5
<1>9. ASSUME NEW fg \in Apps \cup {NoApp}, ShortcutKey(fg)
      PROVE  /\ MemoryType' /\ CritType' /\ ManagerType' /\ ForegroundType'
             /\ ServicesType' /\ KeysType' /\ CallsMatchCallers' /\ KeysInProgress'
  <2>1. /\ LookAt(fg)
        /\ \/ NoDelivery /\ UNCHANGED queue
           \/ fg \in Apps /\ Pass(fg, UnseenKey)
        /\ UNCHANGED <<memVars, crit, mgr, svc, tested>>
    BY <1>9 DEF ShortcutKey
  <2>2. UnseenKey \in Keys
    BY DEF UnseenKey, Keys
  <2>3. KeysType'
    BY <1>0, <2>1, <2>2, PassType, NoDeliveryType DEF KeysType
  <2>4. CallsMatchCallers' /\ KeysInProgress'
    BY <1>0, <2>1, <2>2, PassGrows, SameCalls, KeysStillInProgress, RoutingConstants
  <2>5. MemoryType' /\ CritType' /\ ManagerType' /\ ServicesType'
    BY <1>0, <2>1 DEF memVars, MemoryType, CritType, ManagerType, ServicesType
  <2>6. ForegroundType'
    BY <1>0, <2>1, LookAtType
  <2> QED BY <2>3, <2>4, <2>5, <2>6
<1> QED BY <1>1, <1>2, <1>3, <1>4, <1>5, <1>6, <1>7, <1>8, <1>9 DEF ManagerNext

(* A text service leaves what the hook knows alone, and what it was told     *)
(* itself well formed.                                                       *)
LEMMA ServiceLooks ==
    ASSUME ForegroundType, NEW a \in TsfApps, ServiceNext(a)
    PROVE  ForegroundType' /\ foreground' = foreground /\ told'.hook = told.hook
<1>1. CASE UNCHANGED hookVars
  BY <1>1 DEF ForegroundType, hookVars
<1>2. CASE AppExit(a)
  BY <1>2 DEF AppExit, ForegroundType
<1>3. ASSUME NEW doc \in BOOLEAN, SetFocus(a, doc)
      PROVE  ForegroundType' /\ foreground' = foreground /\ told'.hook = told.hook
  <2>1. PICK excluded \in Answers(a) :
            told' = [told EXCEPT !.tsf = Remember(@, a, excluded)]
    BY <1>3 DEF SetFocus
  <2>2. Remember(told.tsf, a, excluded) \in SUBSET Excludable
    <3>1. excluded => a \in Excludable
      BY DEF Answers
    <3> QED BY <3>1 DEF Remember, ForegroundType
  <2>3. told' = [hook |-> told.hook, tsf |-> Remember(told.tsf, a, excluded)]
    BY <2>1 DEF ForegroundType
  <2>4. foreground' = foreground
    BY <1>3 DEF SetFocus
  <2> QED BY <2>2, <2>3, <2>4 DEF ForegroundType
<1>4. CASE \/ Activate(a) \/ Deactivate(a) \/ SetForeground(a) \/ PublishLeave(a)
           \/ KeyIgnored(a) \/ KeyStep(a)
  BY <1>1, <1>4 DEF Activate, Deactivate, SetForeground, PublishLeave, KeyIgnored,
     KeyStep, KeyEnter, TestKeyLeave, KeyDownLeave, TestKeyTimeout, KeyDownTimeout
<1> QED BY <1>2, <1>3, <1>4 DEF ServiceNext

(* The steps of a text service.                                              *)
LEMMA ServiceTypes ==
    ASSUME TypeInv, NEW a \in TsfApps, ServiceNext(a)
    PROVE  TypeInv'
<1>0. /\ MemoryType /\ CritType /\ ManagerType /\ ForegroundType /\ ServicesType
      /\ KeysType /\ CallsMatchCallers /\ KeysInProgress
  BY TypeParts DEF TypeInv
<1> SUFFICES /\ MemoryType' /\ CritType' /\ ManagerType'
             /\ ServicesType' /\ KeysType' /\ CallsMatchCallers' /\ KeysInProgress'
  BY <1>0, ServiceLooks, NextTypeParts
<1>1. CASE Activate(a)
  <2>1. NoKeyMoves /\ UNCHANGED <<memVars, crit, mgr>>
    BY <1>1 DEF Activate
  <2>2. ServicesType'
    BY <1>0, <1>1 DEF Activate, ServicesType, Service
  <2>3. MemoryType' /\ CritType' /\ ManagerType'
    BY <1>0, <2>1 DEF memVars, MemoryType, CritType, ManagerType
  <2>4. KeysType' /\ CallsMatchCallers' /\ KeysInProgress'
    BY <1>0, <2>1, NoKeyMovesType, SameCalls, KeysStillInProgress, RoutingConstants
       DEF NoKeyMoves
  <2> QED BY <2>2, <2>3, <2>4
<1>2. CASE Deactivate(a)
  <2>1. Running(a) /\ DropKeys(a) /\ UNCHANGED <<memVars, crit, mgr>>
    BY <1>2 DEF Deactivate
  <2>2. ServicesType'
    BY <1>0, <1>2 DEF Deactivate, ServicesType, Service
  <2>3. MemoryType' /\ CritType' /\ ManagerType'
    BY <1>0, <2>1 DEF memVars, MemoryType, CritType, ManagerType
  <2>4. KeysType' /\ CallsMatchCallers' /\ KeysInProgress'
    BY <1>0, <2>1, DropKeysType, SameCalls, FinishProgress DEF Running
  <2> QED BY <2>2, <2>3, <2>4
<1>3. CASE AppExit(a)
  <2>1. Abandon(a) /\ DropKeys(a) /\ mgr' = mgr
    BY <1>3 DEF AppExit
  <2>2. ServicesType'
    BY <1>0, <1>3 DEF AppExit, ServicesType, Service, NoService
  <2>3. MemoryType' /\ CritType' /\ ManagerType'
    BY <1>0, <2>1, AbandonTypes DEF ManagerType
  <2>4. CallsMatchCallers' /\ (crit' = Free \/ (crit' = crit /\ crit.by # a))
    <3>1. CallsMatchCallers'
      BY <1>0, <2>1, AbandonCalls
    <3> QED BY <2>1, <3>1 DEF Abandon
  <2>5. KeysType' /\ KeysInProgress'
    BY <1>0, <2>1, <2>4, DropKeysType, FinishProgress
  <2> QED BY <2>2, <2>3, <2>4, <2>5
<1>4. CASE SetFocus(a, TRUE) \/ SetFocus(a, FALSE) \/ SetForeground(a)
  <2>1. /\ (Enter(a, "publish") /\ UNCHANGED memVars) \/ Unavailable(a)
        /\ NoKeyMoves
        /\ mgr' = mgr
    BY <1>4 DEF SetFocus, SetForeground
  <2>2. ServicesType'
    <3>1. Mapped \in BOOLEAN
      BY Zenon DEF Mapped
    <3>2. ASSUME NEW doc \in BOOLEAN, SetFocus(a, doc) PROVE ServicesType'
      <4>1. PICK excluded \in Answers(a) :
                svc' = [svc EXCEPT ![a] = [up |-> TRUE, ctx |-> doc,
                                           excluded |-> excluded, handle |-> Mapped]]
        BY <3>2 DEF SetFocus
      <4>2. excluded \in BOOLEAN
        BY DEF Answers
      <4> QED BY <1>0, <3>1, <4>1, <4>2 DEF ServicesType, Service
    <3>3. CASE SetForeground(a)
      BY <1>0, <3>3, OpenHandleType DEF SetForeground
    <3> QED BY <1>4, <3>2, <3>3
  <2>3. CASE Enter(a, "publish") /\ UNCHANGED memVars
    <3>1. CritType' /\ crit' = [by |-> a, call |-> "publish"]
      BY <1>0, <2>3, EnterTypes DEF Calls
    <3>2. CallsMatchCallers'
      BY <3>1, EnterCalls, RoutingConstants
    <3>3. MemoryType' /\ ManagerType'
      BY <1>0, <2>1, <2>3 DEF memVars, MemoryType, ManagerType
    <3>4. KeysType' /\ KeysInProgress'
      BY <1>0, <2>1, <3>1, NoKeyMovesType, KeysStillInProgress, RoutingConstants
         DEF NoKeyMoves
    <3> QED BY <2>2, <3>1, <3>2, <3>3, <3>4
  <2>4. CASE Unavailable(a)
    <3>1. MemoryType' /\ CritType' /\ crit' = crit
      BY <1>0, <2>4, UnavailableTypes DEF Unavailable
    <3>2. KeysType' /\ CallsMatchCallers' /\ KeysInProgress'
      BY <1>0, <2>1, <3>1, NoKeyMovesType, SameCalls, KeysStillInProgress,
         RoutingConstants DEF NoKeyMoves
    <3>3. ManagerType'
      BY <1>0, <2>1 DEF ManagerType
    <3> QED BY <2>2, <3>1, <3>2, <3>3
  <2> QED BY <2>1, <2>3, <2>4
<1>5. CASE PublishLeave(a)
  <2>1. Leave(TsfRefresh(a), FALSE) /\ NoKeyMoves /\ UNCHANGED <<mgr, svc>>
    BY <1>5 DEF PublishLeave
  <2>2. MemoryType' /\ CritType' /\ crit' = Free
    <3>1. TsfRefresh(a) \in RoutingState
      BY <1>0, TsfRefreshFields DEF MemoryType, ServicesType
    <3> QED BY <1>0, <2>1, <3>1, LeaveTypes DEF Leave
  <2>3. KeysType' /\ CallsMatchCallers' /\ KeysInProgress'
    BY <1>0, <2>1, <2>2, NoKeyMovesType, FreeCalls, KeysStillInProgress,
       RoutingConstants DEF NoKeyMoves
  <2>4. ManagerType' /\ ServicesType'
    BY <1>0, <2>1 DEF ManagerType, ServicesType
  <2> QED BY <2>2, <2>3, <2>4
<1>6. CASE KeyEnter(a, "testKeyDown") \/ KeyEnter(a, "keyDown")
  <2>1. PICK call \in {"testKeyDown", "keyDown"} : KeyEnter(a, call)
    BY <1>6
  <2>2. /\ queue[a] # <<>>
        /\ Enter(a, call)
        /\ OpenHandle(a)
        /\ NoKeyMoves
        /\ UNCHANGED <<memVars, mgr>>
    BY <2>1 DEF KeyEnter
  <2>3. CritType' /\ crit' = [by |-> a, call |-> call]
    BY <1>0, <2>2, EnterTypes DEF Calls
  <2>4. CallsMatchCallers'
    BY <2>3, EnterCalls, RoutingConstants
  <2>5. KeysType' /\ KeysInProgress'
    BY <1>0, <2>2, <2>3, NoKeyMovesType DEF NoKeyMoves, KeysInProgress
  <2>6. MemoryType' /\ ManagerType' /\ ServicesType'
    BY <1>0, <2>2, OpenHandleType DEF memVars, MemoryType, ManagerType
  <2> QED BY <2>3, <2>4, <2>5, <2>6
<1>7. CASE TestKeyLeave(a) \/ KeyDownLeave(a)
  <2>1. /\ Leave(TsfRefresh(a), FALSE)
        /\ Inside(a, "testKeyDown") \/ Inside(a, "keyDown")
        /\ UNCHANGED <<mgr, svc>>
    BY <1>7 DEF TestKeyLeave, KeyDownLeave
  <2>2. MemoryType' /\ CritType' /\ crit' = Free
    <3>1. TsfRefresh(a) \in RoutingState
      BY <1>0, TsfRefreshFields DEF MemoryType, ServicesType
    <3> QED BY <1>0, <2>1, <3>1, LeaveTypes DEF Leave
  <2>3. queue[a] # <<>>
    BY <1>0, <2>1 DEF KeysInProgress, Inside
  <2>4. KeysType' /\ KeysInProgress'
    <3>1. CASE TestKeyLeave(a)
      BY <1>0, <2>2, <2>3, <3>1, TestTailType, TestTailProgress DEF TestKeyLeave
    <3>2. CASE KeyDownLeave(a)
      BY <1>0, <2>2, <2>3, <3>2, DownTailType, DownTailProgress DEF KeyDownLeave
    <3> QED BY <1>7, <3>1, <3>2
  <2>5. CallsMatchCallers' /\ ManagerType' /\ ServicesType'
    BY <1>0, <2>1, <2>2, FreeCalls DEF ManagerType, ServicesType
  <2> QED BY <2>2, <2>4, <2>5
<1>8. CASE TestKeyTimeout(a) \/ KeyDownTimeout(a)
  <2>1. Unavailable(a) /\ OpenHandle(a) /\ mgr' = mgr
    BY <1>8 DEF TestKeyTimeout, KeyDownTimeout
  <2>2. MemoryType' /\ CritType' /\ crit' = crit /\ crit.by # a
    BY <1>0, <2>1, UnavailableTypes DEF Unavailable, Running
  <2>3. queue[a] # <<>>
    BY <1>0, <1>8 DEF KeysInProgress, TestKeyTimeout, KeyDownTimeout
  <2>4. KeysType' /\ KeysInProgress'
    <3>1. CASE TestKeyTimeout(a)
      BY <1>0, <2>2, <2>3, <3>1, TestTailType, TestTailProgress DEF TestKeyTimeout
    <3>2. CASE KeyDownTimeout(a)
      BY <1>0, <2>2, <2>3, <3>2, DownTailType, DownTailProgress DEF KeyDownTimeout
    <3> QED BY <1>8, <3>1, <3>2
  <2>5. CallsMatchCallers' /\ ManagerType' /\ ServicesType'
    BY <1>0, <2>1, <2>2, SameCalls, OpenHandleType DEF ManagerType
  <2> QED BY <2>2, <2>4, <2>5
<1>9. CASE KeyIgnored(a)
  <2>1. /\ queue[a] # <<>>
        /\ crit.by # a
        /\ Finish(a, FALSE)
        /\ UNCHANGED <<memVars, crit, mgr, svc>>
    BY <1>9 DEF KeyIgnored, Running
  <2>2. KeysType' /\ KeysInProgress'
    BY <1>0, <2>1, FinishType, FinishProgress
  <2>3. CallsMatchCallers'
    BY <1>0, <2>1, SameCalls
  <2>4. MemoryType' /\ CritType' /\ ManagerType' /\ ServicesType'
    BY <1>0, <2>1 DEF memVars, MemoryType, CritType, ManagerType, ServicesType
  <2> QED BY <2>2, <2>3, <2>4
<1> QED
  BY <1>1, <1>2, <1>3, <1>4, <1>5, <1>6, <1>7, <1>8, <1>9 DEF ServiceNext, KeyStep

(* A key typed while the manager is not hooked.                              *)
LEMMA KeyWithoutHookTypes ==
    ASSUME TypeInv, NEW a \in Apps, KeyWithoutHook(a)
    PROVE  TypeInv'
<1> DEFINE k == UnseenKey
<1>0. /\ MemoryType /\ CritType /\ ManagerType /\ ForegroundType /\ ServicesType
      /\ KeysType /\ CallsMatchCallers /\ KeysInProgress
  BY TypeParts DEF TypeInv
<1>1. Pass(a, k) /\ UNCHANGED <<memVars, hookVars, crit, mgr, svc, tested>>
  BY DEF KeyWithoutHook
<1>2. k \in Keys
  BY DEF UnseenKey, Keys
<1> HIDE DEF k
<1>3. KeysType'
  BY <1>0, <1>1, <1>2, PassType DEF KeysType
<1>4. CallsMatchCallers' /\ KeysInProgress'
  BY <1>0, <1>1, <1>2, PassGrows, SameCalls, KeysStillInProgress, RoutingConstants
<1>5. MemoryType' /\ CritType' /\ ManagerType' /\ ForegroundType' /\ ServicesType'
  BY <1>0, <1>1 DEF memVars, MemoryType, CritType, ManagerType, ForegroundType,
     ServicesType, hookVars
<1> QED BY <1>3, <1>4, <1>5, NextTypeParts

(* TypeInv is inductive.                                                     *)
LEMMA TypeInvStep == TypeInv /\ [Next]_vars => TypeInv'
<1> SUFFICES ASSUME TypeInv, [Next]_vars PROVE TypeInv'
  OBVIOUS
<1>1. CASE UNCHANGED vars
  BY <1>1 DEF vars, TypeInv, TypeOK, CallsMatchCallers, KeysInProgress
<1>2. CASE Next
  BY <1>2, ManagerTypes, KeyWithoutHookTypes, ServiceTypes DEF Next
<1> QED BY <1>1, <1>2

(* Every state of the coordinator, its callers and the keys is well formed.  *)
THEOREM TypeCorrect == Spec => []TypeOK
<1>1. TypeInv => TypeOK
  BY DEF TypeInv
<1> QED BY <1>1, TypeInvInit, TypeInvStep, PTL DEF Spec

-----------------------------------------------------------------------------
(* What the memory says.                                                   *)

MemoryInv == StoredOwnerConsistent /\ UnexcusedMemory

(* While nothing excused it, a caller reads HOOK_PRIMARY and an active hook. *)
LEMMA UnexcusedRead ==
    ASSUME state \in RoutingState, UnexcusedMemory, ~excused
    PROVE  ReadState.mode = "HOOK_PRIMARY" /\ ReadState.hook
  BY ReadStateType DEF UnexcusedMemory

(* A decision that may be written: consistent, and in front of the hook only *)
(* if excused.                                                               *)
LEMMA LeaveMemory ==
    ASSUME NEW next \in RoutingState, NEW excuse \in BOOLEAN, Leave(next, excuse),
           Consistent(next),
           ~excused /\ ~excuse => next.mode = "HOOK_PRIMARY" /\ next.hook
    PROVE  MemoryInv'
  BY DEF Leave, Consistent, MemoryInv, StoredOwnerConsistent, UnexcusedMemory

(* A write cut short excuses, or its values have both fields right, and so   *)
(* has every prefix of it.                                                   *)
LEMMA AbandonMemory ==
    ASSUME TypeInv, MemoryInv, NEW p \in TsfApps \cup {Manager}, Abandon(p)
    PROVE  MemoryInv'
<1>0. /\ state \in RoutingState /\ excused \in BOOLEAN /\ CallsMatchCallers
      /\ CritType /\ ForegroundType /\ ServicesType /\ MemoryType
  BY TypeParts DEF TypeInv, MemoryType
<1>1. CASE ~MappedWithout(p)
  BY <1>1 DEF Abandon, MemoryInv, StoredOwnerConsistent, UnexcusedMemory, ZeroState
<1>2. CASE MappedWithout(p) /\ crit.by = p
  <2>1. PICK next \in Intended, n \in 0..8 : state' = StoredUpTo(n, state, next)
    BY <1>2 DEF Abandon
  <2>2. torn' = TRUE /\ excused' = (excused \/ DeathExcuses)
    BY <1>2 DEF Abandon
  <2>3. ASSUME ~excused, ~DeathExcuses
        PROVE  /\ state.mode = "HOOK_PRIMARY" /\ state.hook
               /\ next.mode = "HOOK_PRIMARY" /\ next.hook
    <3>1. state.valid /\ state.mode = "HOOK_PRIMARY" /\ state.hook
      BY <2>3 DEF DeathExcuses, MemoryInv, UnexcusedMemory
    <3>2. ReadState.mode = "HOOK_PRIMARY" /\ ReadState.hook
      BY <1>0, <2>3, UnexcusedRead DEF MemoryInv
    <3>3. CASE crit.call = "boot"
      BY <2>1, <3>1, <3>3 DEF Intended, BootState
    <3>4. CASE crit.call = "mode"
      <4>1. StartupModes = {"HOOK_PRIMARY"}
        BY <2>3, <3>4 DEF DeathExcuses
      <4>2. next = ModeState("HOOK_PRIMARY")
        BY <2>1, <3>4, <4>1 DEF Intended
      <4> QED BY <1>0, <3>1, <3>2, <4>2, ModeStateFields DEF Modes
    <3>5. CASE crit.call = "hookKey"
      <4>1. foreground.app # NoApp
        BY <2>3, <3>5 DEF DeathExcuses
      <4>2. next = HookRefresh
        BY <2>1, <3>5 DEF Intended
      <4> QED BY <1>0, <3>1, <3>2, <4>1, <4>2, HookRefreshFields
    <3>6. CASE crit.call \notin {"boot", "mode", "hookKey"}
      <4>1. crit.by \in TsfApps
        BY <1>0, <1>2, <3>6 DEF CallsMatchCallers
      <4>2. next = TsfRefresh(crit.by)
        BY <2>1, <3>6 DEF Intended
      <4> QED BY <1>0, <3>1, <3>2, <4>1, <4>2, TsfRefreshFields DEF ServicesType
    <3> QED BY <3>3, <3>4, <3>5, <3>6
  <2>4. ~excused' => state'.mode = "HOOK_PRIMARY" /\ state'.hook
    BY <1>0, <2>1, <2>2, <2>3 DEF StoredUpTo
  <2> QED BY <2>2, <2>4 DEF MemoryInv, StoredOwnerConsistent, UnexcusedMemory
<1>3. CASE MappedWithout(p) /\ crit.by # p
  BY <1>3 DEF Abandon, MemoryInv, StoredOwnerConsistent, UnexcusedMemory
<1> QED BY <1>1, <1>2, <1>3

(* A step that writes nothing keeps what the memory says.                    *)
LEMMA SameMemory ==
    ASSUME MemoryInv, UNCHANGED memVars
    PROVE  MemoryInv'
  BY DEF memVars, MemoryInv, StoredOwnerConsistent, UnexcusedMemory

(* What a text service writes (RefreshTsfRoutingDecision).                   *)
LEMMA TsfLeaveMemory ==
    ASSUME TypeInv, MemoryInv, NEW a \in TsfApps, Leave(TsfRefresh(a), FALSE)
    PROVE  MemoryInv'
<1>1. state \in RoutingState /\ ServicesType
  BY TypeParts DEF TypeInv, MemoryType
<1>2. /\ TsfRefresh(a) \in RoutingState /\ Consistent(TsfRefresh(a))
      /\ TsfRefresh(a).mode = ReadState.mode
      /\ TsfRefresh(a).hook = ReadState.hook
  BY <1>1, TsfRefreshFields DEF ServicesType
<1>3. ~excused => TsfRefresh(a).mode = "HOOK_PRIMARY" /\ TsfRefresh(a).hook
  BY <1>1, <1>2, UnexcusedRead DEF MemoryInv
<1> QED BY <1>2, <1>3, LeaveMemory

(* What the hook writes (RefreshHookRoutingDecision).                        *)
LEMMA HookLeaveMemory ==
    ASSUME TypeInv, MemoryInv, Leave(HookRefresh, foreground.app = NoApp)
    PROVE  MemoryInv'
<1>1. state \in RoutingState /\ ForegroundType
  BY TypeParts DEF TypeInv, MemoryType
<1>2. /\ HookRefresh \in RoutingState /\ Consistent(HookRefresh)
      /\ HookRefresh.mode = ReadState.mode
      /\ HookRefresh.hook = (foreground.app # NoApp)
  BY <1>1, HookRefreshFields
<1>3. (foreground.app = NoApp) \in BOOLEAN
  OBVIOUS
<1>4. ~excused /\ foreground.app # NoApp
        => HookRefresh.mode = "HOOK_PRIMARY" /\ HookRefresh.hook
  BY <1>1, <1>2, UnexcusedRead DEF MemoryInv
<1> QED BY <1>2, <1>3, <1>4, LeaveMemory, Zenon

(* Every step keeps what the memory says.                                    *)
LEMMA MemoryStep ==
    ASSUME TypeInv, MemoryInv, Next
    PROVE  MemoryInv'
<1>1. ASSUME ManagerNext PROVE MemoryInv'
  <2>1. CASE UNCHANGED memVars
    BY <2>1, SameMemory
  <2>2. CASE BootLeave
    <3>1. Leave(BootState, FALSE)
      BY <2>2, Zenon DEF BootLeave
    <3>2. BootState.mode = "HOOK_PRIMARY" /\ BootState.hook
      BY DEF BootState
    <3> QED BY <3>1, <3>2, BootFields, LeaveMemory
  <2>3. CASE ModeLeave
    <3>1. PICK mode \in StartupModes : Leave(ModeState(mode), mode # "HOOK_PRIMARY")
      BY <2>3 DEF ModeLeave
    <3>2. state \in RoutingState
      BY TypeParts DEF TypeInv, MemoryType
    <3>3. /\ ModeState(mode) \in RoutingState /\ Consistent(ModeState(mode))
          /\ ModeState(mode).mode = mode
          /\ ModeState(mode).hook = ReadState.hook
      BY <3>2, ModeStateFields, RoutingConstants
    <3>4. (mode # "HOOK_PRIMARY") \in BOOLEAN
      OBVIOUS
    <3>5. ~excused /\ mode = "HOOK_PRIMARY"
            => ModeState(mode).mode = "HOOK_PRIMARY" /\ ModeState(mode).hook
      BY <3>2, <3>3, UnexcusedRead DEF MemoryInv
    <3> QED BY <3>1, <3>3, <3>4, <3>5, LeaveMemory, Zenon
  <2>4. CASE ManagerExit
    BY <2>4, AbandonMemory DEF ManagerExit
  <2>5. CASE HookKeyLeave
    BY <2>5, HookLeaveMemory DEF HookKeyLeave
  <2>6. CASE ManagerStart \/ BootEnter \/ ModeEnter \/ BootTimeout \/ ModeTimeout
    BY <2>1, <2>6 DEF ManagerStart, BootEnter, ModeEnter, BootTimeout, ModeTimeout,
       Unavailable, memVars
  <2>7. CASE \E fg \in Apps \cup {NoApp} :
                 HookKeyEnter(fg) \/ HookKeyTimeout(fg) \/ ShortcutKey(fg)
    BY <2>1, <2>7 DEF HookKeyEnter, HookKeyTimeout, ShortcutKey, Unavailable, memVars
  <2> QED BY <1>1, <2>2, <2>3, <2>4, <2>5, <2>6, <2>7 DEF ManagerNext
<1>2. ASSUME NEW a \in Apps, KeyWithoutHook(a) PROVE MemoryInv'
  BY <1>2, SameMemory DEF KeyWithoutHook
<1>3. ASSUME NEW a \in TsfApps, ServiceNext(a) PROVE MemoryInv'
  <2>1. CASE UNCHANGED memVars
    BY <2>1, SameMemory
  <2>2. CASE AppExit(a)
    BY <2>2, AbandonMemory DEF AppExit
  <2>3. CASE PublishLeave(a) \/ TestKeyLeave(a) \/ KeyDownLeave(a)
    BY <2>3, TsfLeaveMemory DEF PublishLeave, TestKeyLeave, KeyDownLeave
  <2>4. CASE Activate(a) \/ Deactivate(a) \/ KeyIgnored(a)
    BY <2>1, <2>4 DEF Activate, Deactivate, KeyIgnored
  <2>5. CASE SetFocus(a, TRUE) \/ SetFocus(a, FALSE) \/ SetForeground(a)
    BY <2>1, <2>5 DEF SetFocus, SetForeground, Unavailable, memVars
  <2>6. CASE \/ KeyEnter(a, "testKeyDown") \/ KeyEnter(a, "keyDown")
             \/ TestKeyTimeout(a) \/ KeyDownTimeout(a)
    BY <2>1, <2>6 DEF KeyEnter, TestKeyTimeout, KeyDownTimeout, Unavailable, memVars
  <2> QED BY <1>3, <2>2, <2>3, <2>4, <2>5, <2>6 DEF ServiceNext, KeyStep
<1> QED BY <1>1, <1>2, <1>3 DEF Next

-----------------------------------------------------------------------------
(* What the hook and the services know about the exclusion.                *)

KnowInv == HookKnowsExclusion /\ ServiceKnowsExclusion

(* The flag of the hook is about the window in front.                        *)
LEMMA LookAtKnows ==
    ASSUME ForegroundType, HookKnowsExclusion, NEW fg \in Apps \cup {NoApp}, LookAt(fg)
    PROVE  HookKnowsExclusion'
<1>1. CASE UNCHANGED hookVars
  BY <1>1 DEF hookVars, HookKnowsExclusion
<1>2. ASSUME NEW excluded \in Answers(fg),
             foreground' = [app |-> fg, excluded |-> excluded],
             told' = [told EXCEPT !.hook = Remember(@, fg, excluded)]
      PROVE  HookKnowsExclusion'
  <2>1. excluded \in BOOLEAN
    BY DEF Answers
  <2>2. told'.hook = Remember(told.hook, fg, excluded)
    BY <1>2 DEF ForegroundType
  <2>3. foreground'.app = fg /\ foreground'.excluded = excluded
    BY <1>2
  <2>4. excluded = (fg \in Remember(told.hook, fg, excluded))
    BY <2>1 DEF Remember
  <2> QED BY <2>2, <2>3, <2>4 DEF HookKnowsExclusion
<1> QED BY <1>1, <1>2 DEF LookAt

(* The flag of a service with a context is what its last document focus told.*)
LEMMA ServiceKnows ==
    ASSUME ForegroundType, ServicesType, ServiceKnowsExclusion, NEW a \in TsfApps,
           ServiceNext(a)
    PROVE  ServiceKnowsExclusion'
<1>1. CASE Activate(a)
  BY <1>1 DEF Activate, hookVars, ServiceKnowsExclusion, ServicesType, Service
<1>2. CASE Deactivate(a)
  BY <1>2 DEF Deactivate, hookVars, ServiceKnowsExclusion, ServicesType, Service
<1>3. CASE AppExit(a)
  <2>1. /\ svc' = [svc EXCEPT ![a] = NoService]
        /\ told' = [told EXCEPT !.tsf = @ \ {a}]
    BY <1>3 DEF AppExit
  <2>2. told'.tsf = told.tsf \ {a}
    BY <2>1 DEF ForegroundType
  <2>3. ~svc'[a].ctx /\ \A b \in TsfApps \ {a} : svc'[b] = svc[b]
    BY <2>1 DEF ServicesType, NoService
  <2> QED BY <2>2, <2>3 DEF ServiceKnowsExclusion
<1>4. ASSUME NEW doc \in BOOLEAN, SetFocus(a, doc) PROVE ServiceKnowsExclusion'
  <2>1. PICK excluded \in Answers(a) :
            /\ svc' = [svc EXCEPT ![a] = [up |-> TRUE, ctx |-> doc,
                                          excluded |-> excluded, handle |-> Mapped]]
            /\ told' = [told EXCEPT !.tsf = Remember(@, a, excluded)]
    BY <1>4 DEF SetFocus
  <2>2. excluded \in BOOLEAN
    BY DEF Answers
  <2>3. told'.tsf = Remember(told.tsf, a, excluded)
    BY <2>1 DEF ForegroundType
  <2>4. /\ svc'[a].excluded = excluded
        /\ \A b \in TsfApps \ {a} : svc'[b] = svc[b]
    BY <2>1 DEF ServicesType
  <2>5. /\ excluded = (a \in told'.tsf)
        /\ \A b \in TsfApps \ {a} : (b \in told'.tsf) = (b \in told.tsf)
    BY <2>2, <2>3 DEF Remember
  <2> QED BY <2>4, <2>5 DEF ServiceKnowsExclusion
<1>5. CASE svc' = svc /\ told' = told
  BY <1>5 DEF ServiceKnowsExclusion
<1>6. CASE OpenHandle(a) /\ told' = told
  BY <1>6 DEF OpenHandle, ServiceKnowsExclusion, ServicesType, Service
<1>7. CASE SetForeground(a) \/ KeyStep(a)
  BY <1>5, <1>6, <1>7 DEF SetForeground, KeyStep, KeyEnter, TestKeyLeave,
     KeyDownLeave, TestKeyTimeout, KeyDownTimeout, hookVars
<1>8. CASE PublishLeave(a) \/ KeyIgnored(a)
  BY <1>5, <1>8 DEF PublishLeave, KeyIgnored, hookVars
<1> QED BY <1>1, <1>2, <1>3, <1>4, <1>7, <1>8 DEF ServiceNext

(* Every step leaves each flag what its owner was last told.                 *)
LEMMA KnowStep ==
    ASSUME TypeInv, KnowInv, Next
    PROVE  KnowInv'
<1>0. ForegroundType /\ ServicesType
  BY TypeParts DEF TypeInv
<1>1. CASE UNCHANGED <<hookVars, svc>>
  BY <1>1 DEF KnowInv, HookKnowsExclusion, ServiceKnowsExclusion, hookVars
<1>2. ASSUME NEW a \in TsfApps, ServiceNext(a) PROVE KnowInv'
  <2>1. foreground' = foreground /\ told'.hook = told.hook
    BY <1>0, <1>2, ServiceLooks
  <2>2. HookKnowsExclusion'
    BY <2>1 DEF KnowInv, HookKnowsExclusion
  <2> QED BY <1>0, <1>2, <2>2, ServiceKnows DEF KnowInv
<1>3. ASSUME NEW fg \in Apps \cup {NoApp},
             HookKeyEnter(fg) \/ HookKeyTimeout(fg) \/ ShortcutKey(fg)
      PROVE  KnowInv'
  <2>1. LookAt(fg) /\ svc' = svc
    BY <1>3 DEF HookKeyEnter, HookKeyTimeout, ShortcutKey
  <2>2. told'.tsf = told.tsf /\ HookKnowsExclusion'
    BY <1>0, <2>1, LookAtType, LookAtKnows DEF KnowInv
  <2> QED BY <2>1, <2>2 DEF KnowInv, ServiceKnowsExclusion
<1>4. CASE ManagerExit
  <2>1. /\ foreground' = NoForeground
        /\ told' = [told EXCEPT !.hook = {}]
        /\ svc' = svc
    BY <1>4 DEF ManagerExit
  <2>2. told'.hook = {} /\ told'.tsf = told.tsf
    BY <1>0, <2>1 DEF ForegroundType
  <2>3. foreground'.app = NoApp /\ foreground'.excluded = FALSE
    BY <2>1 DEF NoForeground
  <2>4. (foreground'.app \in told'.hook) = FALSE
    BY <2>2
  <2>5. HookKnowsExclusion'
    BY <2>3, <2>4, Zenon DEF HookKnowsExclusion
  <2> QED BY <2>1, <2>2, <2>5 DEF KnowInv, ServiceKnowsExclusion
<1>5. CASE \/ ManagerStart \/ BootEnter \/ BootLeave \/ BootTimeout
           \/ ModeEnter \/ ModeLeave \/ ModeTimeout \/ HookKeyLeave
  BY <1>1, <1>5 DEF ManagerStart, BootEnter, BootLeave, BootTimeout, ModeEnter,
     ModeLeave, ModeTimeout, HookKeyLeave
<1>6. CASE \E a \in Apps : KeyWithoutHook(a)
  BY <1>1, <1>6 DEF KeyWithoutHook
<1> QED BY <1>2, <1>3, <1>4, <1>5, <1>6 DEF Next, ManagerNext

-----------------------------------------------------------------------------
(* What the keys carry.                                                    *)

KeysInv ==
    /\ QueuedKeysAllowed
    /\ HookPrimaryOnePath
    /\ HookPrimaryKeepsKeys
    /\ ExclusionObeyed

(* Excuses are never taken back.                                             *)
LEMMA ExcusedStays ==
    ASSUME Next
    PROVE  excused => excused'
<1>1. ASSUME ManagerNext PROVE excused => excused'
  BY <1>1 DEF ManagerNext, ManagerStart, ManagerExit, BootEnter, BootLeave,
     BootTimeout, ModeEnter, ModeLeave, ModeTimeout, HookKeyLeave, HookKeyEnter,
     HookKeyTimeout, ShortcutKey, memVars, Leave, Abandon, Unavailable
<1>2. ASSUME NEW a \in TsfApps, ServiceNext(a) PROVE excused => excused'
  BY <1>2 DEF ServiceNext, KeyStep, Activate, Deactivate, AppExit, SetFocus,
     SetForeground, PublishLeave, KeyEnter, TestKeyLeave, KeyDownLeave,
     TestKeyTimeout, KeyDownTimeout, KeyIgnored, memVars, Leave, Abandon, Unavailable
<1>3. ASSUME NEW a \in Apps, KeyWithoutHook(a) PROVE excused => excused'
  BY <1>3 DEF KeyWithoutHook, memVars
<1> QED BY <1>1, <1>2, <1>3 DEF Next

(* Steps that move no key.                                                   *)
LEMMA NoKeyMovesKeys ==
    ASSUME TypeInv, KeysInv, excused => excused', UNCHANGED queue, NoDelivery
    PROVE  KeysInv'
  BY RoutingConstants DEF KeysInv, QueuedKeysAllowed, KeyAllowed, HookPrimaryOnePath,
     HookPrimaryKeepsKeys, ExclusionObeyed, NoDelivery, NoKeyYet

(* An allowed key may be queued, or delivered by the hook alone.             *)
LEMMA DeliverKeys ==
    ASSUME TypeInv, KeysInv, excused => excused', NEW a \in Apps, NEW k \in Keys,
           KeyAllowed(k, excused'), Deliver(a, k, FALSE), UNCHANGED queue
    PROVE  KeysInv'
  BY DEF KeysInv, QueuedKeysAllowed, KeyAllowed, HookPrimaryOnePath,
     HookPrimaryKeepsKeys, ExclusionObeyed, Deliver, DeliveredKey

(* An allowed key may be let through.                                        *)
LEMMA PassKeys ==
    ASSUME TypeInv, KeysInv, excused => excused', NEW a \in Apps, NEW k \in Keys,
           KeyAllowed(k, excused'), Pass(a, k)
    PROVE  KeysInv'
<1>0. queue \in [TsfApps -> Seq(Keys)]
  BY DEF TypeInv, TypeOK
<1>1. CASE a \in TsfApps /\ svc[a].up
  <2>1. queue' = [queue EXCEPT ![a] = Append(queue[a], k)] /\ NoDelivery
    BY <1>1 DEF Pass
  <2>2. ASSUME NEW b \in TsfApps, NEW i \in 1..Len(queue'[b])
        PROVE  KeyAllowed(queue'[b][i], excused')
    <3>1. CASE b # a
      BY <1>0, <2>1, <2>2, <3>1 DEF KeysInv, QueuedKeysAllowed, KeyAllowed
    <3>2. CASE b = a
      <4>1. queue'[b] = Append(queue[a], k) /\ queue[a] \in Seq(Keys)
        BY <1>0, <1>1, <2>1, <3>2
      <4>2. CASE i = Len(queue[a]) + 1
        <5>1. queue'[b][i] = k
          BY <4>1, <4>2
        <5> QED BY <3>2, <5>1 DEF KeyAllowed
      <4>3. CASE i # Len(queue[a]) + 1
        <5>1. i \in 1..Len(queue[a]) /\ queue'[b][i] = queue[a][i]
          BY <4>1, <4>3, <2>2
        <5>2. KeyAllowed(queue[a][i], excused)
          BY <1>1, <5>1 DEF KeysInv, QueuedKeysAllowed
        <5> QED BY <3>2, <5>1, <5>2 DEF KeyAllowed
      <4> QED BY <4>2, <4>3
    <3> QED BY <3>1, <3>2
  <2>3. QueuedKeysAllowed'
    BY <2>2 DEF QueuedKeysAllowed
  <2> QED
    BY <2>1, <2>3, RoutingConstants DEF KeysInv, HookPrimaryOnePath,
       HookPrimaryKeepsKeys, ExclusionObeyed, NoDelivery, NoKeyYet
<1>2. CASE ~(a \in TsfApps /\ svc[a].up)
  BY <1>2, DeliverKeys DEF Pass
<1> QED BY <1>1, <1>2

(* The hook's decision allows the key it let through or took.                *)
LEMMA HookTailKeys ==
    ASSUME TypeInv, KeysInv, excused => excused', NEW fg \in Apps \cup {NoApp},
           NEW owner, NEW excluded \in BOOLEAN, HookTail(fg, owner, excluded),
           fg # NoApp /\ owner = "HOOK" => ~excluded,
           fg # NoApp /\ ~excluded /\ ~excused' => owner = "HOOK"
    PROVE  KeysInv'
<1> DEFINE k == [hook |-> owner = "HOOK", seen |-> TRUE, excluded |-> excluded]
<1>1. k \in Keys
  BY Zenon DEF Keys
<1>2. fg # NoApp => KeyAllowed(k, excused')
  BY DEF KeyAllowed
<1>3. \/ fg = NoApp /\ NoDelivery /\ UNCHANGED queue
      \/ fg # NoApp /\ Pass(fg, k)
      \/ fg # NoApp /\ Deliver(fg, k, FALSE) /\ UNCHANGED queue
  BY DEF HookTail
<1> HIDE DEF k
<1> QED BY <1>1, <1>2, <1>3, NoKeyMovesKeys, PassKeys, DeliverKeys

(* Dropping keys allows no others.                                           *)
LEMMA DropKeysKeys ==
    ASSUME TypeInv, KeysInv, excused => excused', NEW a \in TsfApps, DropKeys(a)
    PROVE  KeysInv'
<1>0. queue \in [TsfApps -> Seq(Keys)]
  BY DEF TypeInv, TypeOK
<1>1. ASSUME NEW b \in TsfApps, NEW i \in 1..Len(queue'[b])
      PROVE  b # a /\ KeyAllowed(queue[b][i], excused) /\ queue'[b] = queue[b]
  <2>1. queue'[a] = <<>>
    BY <1>0 DEF DropKeys
  <2>2. b # a
    BY <1>1, <2>1
  <2>3. queue'[b] = queue[b]
    BY <1>0, <2>2 DEF DropKeys
  <2> QED BY <1>1, <2>2, <2>3 DEF KeysInv, QueuedKeysAllowed
<1>2. QueuedKeysAllowed'
  BY <1>1 DEF QueuedKeysAllowed, KeyAllowed
<1> QED
  BY <1>2, RoutingConstants DEF KeysInv, HookPrimaryOnePath, HookPrimaryKeepsKeys,
     ExclusionObeyed, DropKeys, NoDelivery, NoKeyYet

(* A key the text service finishes: it took it only if it was not told the   *)
(* application is excluded, and something put TSF in front of the hook.      *)
LEMMA FinishKeys ==
    ASSUME TypeInv, KeysInv, excused => excused', NEW a \in TsfApps,
           queue[a] # <<>>, NEW tsf \in BOOLEAN, Finish(a, tsf),
           tsf => a \notin told'.tsf /\ excused'
    PROVE  KeysInv'
<1> DEFINE k == Head(queue[a])
<1>0. queue \in [TsfApps -> Seq(Keys)]
  BY DEF TypeInv, TypeOK
<1>1. k = queue[a][1] /\ 1 \in 1..Len(queue[a]) /\ k \in Keys
  BY <1>0
<1>2. KeyAllowed(k, excused)
  BY <1>1 DEF KeysInv, QueuedKeysAllowed
<1>3. done' = DeliveredKey(a, k, tsf)
  BY DEF Finish, Deliver
<1>4. HookPrimaryOnePath' /\ HookPrimaryKeepsKeys' /\ ExclusionObeyed'
  BY <1>2, <1>3 DEF HookPrimaryOnePath, HookPrimaryKeepsKeys, ExclusionObeyed,
     DeliveredKey, KeyAllowed
<1>5. ASSUME NEW b \in TsfApps, NEW i \in 1..Len(queue'[b])
      PROVE  KeyAllowed(queue'[b][i], excused')
  <2>1. CASE b # a
    <3>1. queue'[b] = queue[b]
      BY <1>0, <2>1 DEF Finish
    <3> QED BY <1>5, <3>1 DEF KeysInv, QueuedKeysAllowed, KeyAllowed
  <2>2. CASE b = a
    <3>1. queue'[b] = Tail(queue[a]) /\ queue[a] \in Seq(Keys)
      BY <1>0, <2>2 DEF Finish
    <3>2. i + 1 \in 1..Len(queue[a]) /\ queue'[b][i] = queue[a][i + 1]
      BY <1>5, <3>1
    <3>3. KeyAllowed(queue[a][i + 1], excused)
      BY <3>2 DEF KeysInv, QueuedKeysAllowed
    <3> QED BY <2>2, <3>2, <3>3 DEF KeyAllowed
  <2> QED BY <2>1, <2>2
<1> QED BY <1>4, <1>5 DEF KeysInv, QueuedKeysAllowed

(* The text service becomes the owner only where it was not told of an       *)
(* exclusion, and only if something excused it.                              *)
LEMMA TsfOwner ==
    ASSUME TypeInv, MemoryInv, KnowInv, NEW a \in TsfApps,
           TsfRefresh(a).owner = "TSF"
    PROVE  a \notin told.tsf /\ excused
<1>1. state \in RoutingState /\ ServicesType
  BY TypeParts DEF TypeInv, MemoryType
<1>2. /\ Consistent(TsfRefresh(a))
      /\ TsfRefresh(a).mode = ReadState.mode
      /\ TsfRefresh(a).hook = ReadState.hook
      /\ TsfRefresh(a).tsf = svc[a].ctx
      /\ TsfRefresh(a).excluded = svc[a].excluded
  BY <1>1, TsfRefreshFields DEF ServicesType
<1>3. OwnerOf(ReadState.mode, ReadState.hook, svc[a].ctx, svc[a].excluded) = "TSF"
  BY <1>2 DEF Consistent
<1>4. ~svc[a].excluded /\ svc[a].ctx
  BY <1>3 DEF OwnerOf
<1>5. ~(ReadState.mode = "HOOK_PRIMARY" /\ ReadState.hook)
  BY <1>3 DEF OwnerOf
<1> QED BY <1>1, <1>4, <1>5, UnexcusedRead DEF MemoryInv, KnowInv, ServiceKnowsExclusion

(* The hook owns every key of an application it was not told is excluded,    *)
(* unless excused.                                                           *)
LEMMA HookOwner ==
    ASSUME TypeInv, MemoryInv, KnowInv, ~excused, foreground.app # NoApp,
           foreground.app \notin told.hook
    PROVE  HookRefresh.owner = "HOOK"
<1>1. state \in RoutingState /\ ForegroundType
  BY TypeParts DEF TypeInv, MemoryType
<1>2. ~foreground.excluded
  BY DEF KnowInv, HookKnowsExclusion
<1>3. /\ Consistent(HookRefresh)
      /\ HookRefresh.mode = "HOOK_PRIMARY"
      /\ HookRefresh.hook
      /\ ~HookRefresh.excluded
  BY <1>1, <1>2, HookRefreshFields, UnexcusedRead DEF MemoryInv
<1> QED BY <1>3 DEF Consistent, OwnerOf

(* The hook owns no key of an application it was told is excluded.           *)
LEMMA HookOwnerNotExcluded ==
    ASSUME TypeInv, KnowInv, HookRefresh.owner = "HOOK"
    PROVE  foreground.app \notin told.hook
<1>1. state \in RoutingState /\ ForegroundType
  BY TypeParts DEF TypeInv, MemoryType
<1>2. Consistent(HookRefresh) /\ HookRefresh.excluded = foreground.excluded
  BY <1>1, HookRefreshFields
<1>3. ~foreground.excluded
  BY <1>2 DEF Consistent, OwnerOf
<1> QED BY <1>3 DEF KnowInv, HookKnowsExclusion

(* The steps of the manager keep KeysInv.                                    *)
LEMMA ManagerKeys ==
    ASSUME TypeInv, MemoryInv, KnowInv, KeysInv, ManagerNext
    PROVE  KeysInv'
<1>0. excused => excused'
  BY ExcusedStays DEF Next
<1>1. CASE UNCHANGED queue /\ NoDelivery
  BY <1>0, <1>1, NoKeyMovesKeys
<1>2. CASE HookKeyLeave
  <2> DEFINE excluded == foreground.app \in told.hook
  <2>1. HookTail(foreground.app, HookRefresh.owner, excluded)
    BY <1>2 DEF HookKeyLeave
  <2>2. foreground.app \in Apps \cup {NoApp}
    BY TypeParts DEF TypeInv, ForegroundType
  <2>3. HookRefresh.owner = "HOOK" => ~excluded
    BY HookOwnerNotExcluded
  <2>4. foreground.app # NoApp /\ ~excluded /\ ~excused'
          => HookRefresh.owner = "HOOK"
    BY <1>0, HookOwner
  <2>5. excluded \in BOOLEAN
    OBVIOUS
  <2> HIDE DEF excluded
  <2> QED BY <1>0, <2>1, <2>2, <2>3, <2>4, <2>5, HookTailKeys
<1>3. ASSUME NEW fg \in Apps \cup {NoApp}, HookKeyTimeout(fg) PROVE KeysInv'
  <2>1. HookTail(fg, HookFallbackOwner(fg), FALSE)
    BY <1>3 DEF HookKeyTimeout
  <2>2. fg # NoApp => HookFallbackOwner(fg) = "HOOK"
    BY DEF HookFallbackOwner
  <2> QED BY <1>0, <2>1, <2>2, HookTailKeys
<1>4. ASSUME NEW fg \in Apps \cup {NoApp}, ShortcutKey(fg) PROVE KeysInv'
  <2>1. \/ NoDelivery /\ UNCHANGED queue
        \/ fg \in Apps /\ Pass(fg, UnseenKey)
    BY <1>4 DEF ShortcutKey
  <2>2. UnseenKey \in Keys /\ KeyAllowed(UnseenKey, excused')
    BY DEF UnseenKey, Keys, KeyAllowed
  <2> QED BY <1>0, <1>1, <2>1, <2>2, PassKeys
<1>5. CASE \/ ManagerStart \/ ManagerExit \/ BootEnter \/ BootLeave \/ BootTimeout
           \/ ModeEnter \/ ModeLeave \/ ModeTimeout
  BY <1>1, <1>5 DEF ManagerStart, ManagerExit, BootEnter, BootLeave, BootTimeout,
     ModeEnter, ModeLeave, ModeTimeout, NoKeyMoves
<1>6. ASSUME NEW fg \in Apps \cup {NoApp}, HookKeyEnter(fg) PROVE KeysInv'
  BY <1>1, <1>6 DEF HookKeyEnter, NoKeyMoves
<1> QED BY <1>2, <1>3, <1>4, <1>5, <1>6 DEF ManagerNext

(* The steps of a text service keep KeysInv.                                 *)
LEMMA ServiceKeys ==
    ASSUME TypeInv, MemoryInv, KnowInv, KeysInv, NEW a \in TsfApps,
           ServiceNext(a)
    PROVE  KeysInv'
<1>0. excused => excused'
  BY ExcusedStays DEF Next
<1>1. CASE UNCHANGED queue /\ NoDelivery
  BY <1>0, <1>1, NoKeyMovesKeys
<1>2. CASE Deactivate(a) \/ AppExit(a)
  BY <1>0, <1>2, DropKeysKeys DEF Deactivate, AppExit
<1>3. ASSUME queue[a] # <<>>, NEW tsf \in BOOLEAN, Finish(a, tsf), told' = told,
             tsf => TsfRefresh(a).owner = "TSF"
      PROVE  KeysInv'
  <2>1. tsf => a \notin told'.tsf /\ excused'
    BY <1>0, <1>3, TsfOwner
  <2> QED BY <1>0, <1>3, <2>1, FinishKeys
<1>4. ASSUME NEW owner, queue[a] # <<>>, told' = told,
             TestTail(a, owner) \/ DownTail(a, owner),
             owner = "TSF" => TsfRefresh(a).owner = "TSF"
      PROVE  KeysInv'
  <2>1. CASE Finish(a, FALSE)
    BY <1>3, <1>4, <2>1
  <2>2. CASE Finish(a, owner = "TSF")
    <3>1. (owner = "TSF") \in BOOLEAN
      OBVIOUS
    <3>2. ASSUME NEW tsf \in BOOLEAN, tsf = (owner = "TSF") PROVE KeysInv'
      <4>1. Finish(a, tsf)
        BY <2>2, <3>2
      <4>2. tsf => TsfRefresh(a).owner = "TSF"
        BY <1>4, <3>2
      <4> QED BY <1>3, <1>4, <4>1, <4>2
    <3> QED BY <3>1, <3>2
  <2>3. CASE UNCHANGED queue /\ NoDelivery
    BY <1>1, <2>3
  <2> QED BY <1>4, <2>1, <2>2, <2>3 DEF TestTail, DownTail
<1>5. CASE \/ TestKeyLeave(a) \/ KeyDownLeave(a)
           \/ TestKeyTimeout(a) \/ KeyDownTimeout(a)
  <2>1. queue[a] # <<>>
    BY <1>5 DEF TypeInv, KeysInProgress, TestKeyLeave, KeyDownLeave, TestKeyTimeout,
       KeyDownTimeout, Inside
  <2>2. told' = told
    BY <1>5 DEF TestKeyLeave, KeyDownLeave, TestKeyTimeout, KeyDownTimeout, hookVars
  <2> QED BY <1>4, <1>5, <2>1, <2>2 DEF TestKeyLeave, KeyDownLeave, TestKeyTimeout,
       KeyDownTimeout, TsfFallbackOwner
<1>6. CASE \/ Activate(a) \/ PublishLeave(a) \/ SetFocus(a, TRUE)
           \/ SetFocus(a, FALSE) \/ SetForeground(a)
           \/ KeyEnter(a, "testKeyDown") \/ KeyEnter(a, "keyDown")
  BY <1>1, <1>6 DEF Activate, PublishLeave, SetFocus, SetForeground, KeyEnter,
     NoKeyMoves
<1>7. CASE KeyIgnored(a)
  BY <1>3, <1>7 DEF KeyIgnored, hookVars
<1> QED BY <1>2, <1>5, <1>6, <1>7 DEF ServiceNext, KeyStep

(* Every step keeps KeysInv.                                                 *)
LEMMA KeysStep ==
    ASSUME TypeInv, MemoryInv, KnowInv, KeysInv, Next
    PROVE  KeysInv'
<1>1. ASSUME NEW a \in Apps, KeyWithoutHook(a) PROVE KeysInv'
  <2> DEFINE k == UnseenKey
  <2>1. k \in Keys /\ KeyAllowed(k, excused')
    BY DEF UnseenKey, Keys, KeyAllowed
  <2>2. Pass(a, k)
    BY <1>1 DEF KeyWithoutHook
  <2> HIDE DEF k
  <2> QED BY <2>1, <2>2, ExcusedStays, PassKeys
<1> QED BY <1>1, ManagerKeys, ServiceKeys DEF Next

-----------------------------------------------------------------------------
(* The inductive invariant.                                                *)

IndInv == TypeInv /\ RoutingInv

(* The invariant holds before any process runs.                              *)
LEMMA IndInvInit == Init => IndInv
<1> SUFFICES ASSUME Init PROVE RoutingInv
  BY TypeInvInit DEF IndInv
<1>1. CallsMatchCallers /\ KeysInProgress
  BY TypeInvInit DEF TypeInv
<1>2. StoredOwnerConsistent /\ UnexcusedMemory /\ ServiceKnowsExclusion
  BY DEF Init, ZeroState, NoService, StoredOwnerConsistent, UnexcusedMemory,
     ServiceKnowsExclusion
<1>3. QueuedKeysAllowed /\ HookKnowsExclusion
  <2>1. foreground.app = NoApp /\ foreground.excluded = FALSE /\ told.hook = {}
    BY DEF Init, NoForeground
  <2>2. (foreground.app \in told.hook) = FALSE
    BY <2>1
  <2>3. HookKnowsExclusion
    BY <2>1, <2>2, Zenon DEF HookKnowsExclusion
  <2>4. QueuedKeysAllowed
    BY DEF Init, QueuedKeysAllowed
  <2> QED BY <2>3, <2>4
<1>4. HookPrimaryOnePath /\ HookPrimaryKeepsKeys /\ ExclusionObeyed
  BY RoutingConstants DEF Init, NoKeyYet, HookPrimaryOnePath, HookPrimaryKeepsKeys,
     ExclusionObeyed
<1> QED BY <1>1, <1>2, <1>3, <1>4 DEF RoutingInv

(* The invariant is inductive.                                               *)
LEMMA IndInvStep == IndInv /\ [Next]_vars => IndInv'
<1> SUFFICES ASSUME IndInv, [Next]_vars PROVE IndInv'
  OBVIOUS
<1>1. TypeInv /\ MemoryInv /\ KnowInv /\ KeysInv
  BY DEF IndInv, RoutingInv, MemoryInv, KnowInv, KeysInv
<1>2. TypeInv'
  BY <1>1, TypeInvStep
<1>3. MemoryInv' /\ KnowInv' /\ KeysInv'
  <2>1. CASE UNCHANGED vars
    BY <1>1, <2>1 DEF vars, MemoryInv, StoredOwnerConsistent, UnexcusedMemory,
       KnowInv, HookKnowsExclusion, ServiceKnowsExclusion, KeysInv,
       QueuedKeysAllowed, HookPrimaryOnePath,
       HookPrimaryKeepsKeys, ExclusionObeyed
  <2>2. CASE Next
    BY <1>1, <2>2, MemoryStep, KnowStep, KeysStep
  <2> QED BY <2>1, <2>2
<1> QED
  BY <1>2, <1>3 DEF IndInv, TypeInv, RoutingInv, MemoryInv, KnowInv, KeysInv

(* RoutingInv holds in every state, for all constants.                       *)
THEOREM RoutingCorrect == Spec => []RoutingInv
<1>1. IndInv => RoutingInv
  BY DEF IndInv
<1> QED BY <1>1, IndInvInit, IndInvStep, PTL DEF Spec

(* The owner in memory always follows from the published contexts, unless a  *)
(* writer died half way and nobody has written since.                        *)
THEOREM OwnerAgrees == Spec => []StoredOwnerConsistent
<1>1. RoutingInv => StoredOwnerConsistent
  BY DEF RoutingInv
<1> QED BY <1>1, RoutingCorrect, PTL

(* HOOK_PRIMARY mode never processes a key twice, unless excused.            *)
THEOREM OnePath == Spec => []HookPrimaryOnePath
<1>1. RoutingInv => HookPrimaryOnePath
  BY DEF RoutingInv
<1> QED BY <1>1, RoutingCorrect, PTL

(* HOOK_PRIMARY mode leaves no key unprocessed of an application the hook    *)
(* was not told is excluded, unless excused.                                 *)
THEOREM HookKeepsKeys == Spec => []HookPrimaryKeepsKeys
<1>1. RoutingInv => HookPrimaryKeepsKeys
  BY DEF RoutingInv
<1> QED BY <1>1, RoutingCorrect, PTL

(* Whoever was last told that an application is excluded takes none of its   *)
(* keys before he asks again, except the hook with a fallback decision.      *)
THEOREM ExclusionHolds == Spec => []ExclusionObeyed
<1>1. RoutingInv => ExclusionObeyed
  BY DEF RoutingInv
<1> QED BY <1>1, RoutingCorrect, PTL

-----------------------------------------------------------------------------
(* The sequence number.                                                    *)

SequenceKept == state' # state => state'.seq = NextSeq(state.seq)

(* A refresh that decides anything new moves the number (RefreshDecision).   *)
LEMMA RefreshMoves ==
    ASSUME state.valid, NEW next, state' = Sequenced(ReadState, next)
    PROVE  SequenceKept
<1>1. ReadState = state
  BY DEF ReadState
<1>2. CASE Numbered(next, next.reason, state.seq) = state
  BY <1>1, <1>2 DEF Sequenced, SequenceKept
<1>3. CASE Numbered(next, next.reason, state.seq) # state
  BY <1>1, <1>3 DEF Sequenced, SequenceKept, Numbered
<1> QED BY <1>2, <1>3

(* A process that goes leaves the decision alone, takes the mapping with it  *)
(* or leaves a torn one.                                                     *)
LEMMA AbandonKeeps ==
    ASSUME NEW p, Abandon(p), MappedWithout(p), ~torn'
    PROVE  SequenceKept
  BY DEF Abandon, SequenceKept

(* The steps of the manager: each write but the first moves the number.      *)
LEMMA ManagerSequence ==
    ASSUME ManagerNext, state.valid, ~torn', Mapped', crit.call # "boot"
    PROVE  SequenceKept
<1>1. CASE ManagerStart \/ BootEnter \/ ModeEnter
  BY <1>1 DEF ManagerStart, BootEnter, ModeEnter, memVars, SequenceKept
<1>2. CASE BootTimeout \/ ModeTimeout
  BY <1>2 DEF BootTimeout, ModeTimeout, Unavailable, SequenceKept
<1>3. CASE BootLeave
  BY <1>3 DEF BootLeave, Inside
<1>4. CASE ModeLeave
  <2>1. PICK mode \in StartupModes : state' = ModeState(mode)
    BY <1>4 DEF ModeLeave, Leave
  <2> QED BY <2>1 DEF ModeState, Numbered, ReadState, SequenceKept
<1>5. CASE HookKeyLeave
  BY <1>5, RefreshMoves DEF HookKeyLeave, Leave, HookRefresh
<1>6. CASE \E fg \in Apps \cup {NoApp} :
               HookKeyEnter(fg) \/ HookKeyTimeout(fg) \/ ShortcutKey(fg)
  BY <1>6 DEF HookKeyEnter, HookKeyTimeout, ShortcutKey, Unavailable, memVars,
     SequenceKept
<1>7. CASE ManagerExit
  <2>1. mgr' = "down" /\ svc' = svc /\ Abandon(Manager)
    BY <1>7 DEF ManagerExit
  <2>2. \E a \in TsfApps : svc[a].handle
    BY <2>1 DEF Mapped
  <2>3. MappedWithout(Manager)
    BY <2>2, RoutingConstants DEF MappedWithout
  <2> QED BY <2>1, <2>3, AbandonKeeps
<1> QED BY <1>1, <1>2, <1>3, <1>4, <1>5, <1>6, <1>7 DEF ManagerNext

(* The steps of a text service.                                              *)
LEMMA ServiceSequence ==
    ASSUME ServicesType, NEW a \in TsfApps, ServiceNext(a), state.valid, ~torn', Mapped'
    PROVE  SequenceKept
<1>1. CASE Activate(a) \/ Deactivate(a) \/ KeyIgnored(a)
  BY <1>1 DEF Activate, Deactivate, KeyIgnored, memVars, SequenceKept
<1>2. CASE SetFocus(a, TRUE) \/ SetFocus(a, FALSE) \/ SetForeground(a)
  BY <1>2 DEF SetFocus, SetForeground, Unavailable, memVars, SequenceKept
<1>3. CASE PublishLeave(a) \/ TestKeyLeave(a) \/ KeyDownLeave(a)
  BY <1>3, RefreshMoves DEF PublishLeave, TestKeyLeave, KeyDownLeave, Leave, TsfRefresh
<1>4. CASE KeyEnter(a, "testKeyDown") \/ KeyEnter(a, "keyDown")
           \/ TestKeyTimeout(a) \/ KeyDownTimeout(a)
  BY <1>4 DEF KeyEnter, TestKeyTimeout, KeyDownTimeout, Unavailable, memVars, SequenceKept
<1>5. CASE AppExit(a)
  <2>1. mgr' = mgr /\ svc' = [svc EXCEPT ![a] = NoService] /\ Abandon(a)
    BY <1>5 DEF AppExit
  <2>2. mgr # "down" \/ \E b \in TsfApps \ {a} : svc[b].handle
    BY <2>1 DEF Mapped, NoService, ServicesType
  <2>3. MappedWithout(a)
    BY <2>2, RoutingConstants DEF MappedWithout
  <2> QED BY <2>1, <2>3, AbandonKeeps
<1> QED BY <1>1, <1>2, <1>3, <1>4, <1>5 DEF ServiceNext, KeyStep

(* Within one life of the memory every decision that differs from the last   *)
(* has the next number, wherever the counter wraps: a complete write that    *)
(* changes anything counts one, and once.                                    *)
THEOREM NumbersMove == Spec => SequenceMoves
<1> DEFINE Moves == state.valid /\ state' # state /\ ~torn' /\ Mapped' /\ crit.call # "boot"
                    => state'.seq = NextSeq(state.seq)
<1>1. ASSUME TypeInv, [Next]_vars PROVE Moves
  <2> SUFFICES ASSUME state.valid, state' # state, ~torn', Mapped', crit.call # "boot"
               PROVE  SequenceKept
    BY DEF SequenceKept
  <2>1. ServicesType
    BY <1>1, TypeParts DEF TypeInv
  <2>2. CASE UNCHANGED vars
    BY <2>2 DEF vars
  <2>3. CASE ManagerNext
    BY <2>3, ManagerSequence
  <2>4. CASE \E a \in Apps : KeyWithoutHook(a)
    BY <2>4 DEF KeyWithoutHook, memVars
  <2>5. CASE \E a \in TsfApps : ServiceNext(a)
    BY <2>1, <2>5, ServiceSequence
  <2> QED BY <1>1, <2>2, <2>3, <2>4, <2>5 DEF Next
<1> QED BY <1>1, TypeInvInit, TypeInvStep, PTL DEF Spec, SequenceMoves

=============================================================================
