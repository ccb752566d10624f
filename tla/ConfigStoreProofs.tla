------------------------- MODULE ConfigStoreProofs -------------------------
(***************************************************************************)
(* What holds of the settings for any applications, any size of the table  *)
(* and any number of text services: the settings survive a clean exit, the *)
(* saved switch is the one from before per-application switching, and the  *)
(* shared table implements InputSwitch.                                    *)
(*                                                                         *)
(* The argument has three parts: what a memory that is held contains, that *)
(* the file and the mapping carry the settings from one manager to the     *)
(* next, and how the last saved configuration, the one in use and the seed *)
(* in the store hang together.                                             *)
(***************************************************************************)
EXTENDS ConfigStore, FiniteSetTheorems, TLAPS

(* The table: no application has two entries, and none with a long name has  *)
(* any.                                                                      *)
TableOK(s) ==
    /\ s \in Store /\ Len(s.table) <= Slots
    /\ \A i \in DOMAIN s.table : s.table[i].app \notin LongNames
    /\ \A i, j \in DOMAIN s.table :
          s.table[i].app = s.table[j].app /\ s.table[i].app \in Apps => i = j

Phases == {"down", "created", "opened", "up", "writing", "closing", "saving"}

\* The manager has brought its configuration into use.
InUse == mgr \in {"up", "writing", "closing", "saving"}

Typed ==
    /\ config \in Config \cup {NoConfig}
    /\ store # NoStore => TableOK(store)
    /\ file \in Config \cup {NoFile, Torn}
    /\ mgr \in Phases
    /\ handles \in [Processes -> SUBSET {"config", "store"}]
    /\ cached \in [TsfApps -> BOOLEAN]
    /\ latest \in Settings \cup {Nothing}
    /\ saved \in Config \cup {NoFile}

\* What a process holds is there; the manager holds what it uses.
HeldIsThere ==
    /\ \A p \in Processes : Holds(p, "config") => config # NoConfig
    /\ \A p \in Processes : Holds(p, "store") => store # NoStore
    /\ mgr # "down" => Holds(Manager, "config")
    /\ mgr \in {"up", "writing"} => Holds(Manager, "store")

\* A configuration carries the settings that the user made last.
Carries(c) == c \in Config /\ c.valid /\ SettingsOf(c) = latest

SettingsKept ==
    /\ mgr = "created" => config = ZeroConfig
    /\ latest # Nothing /\ InUse => Carries(config)
    /\ latest # Nothing /\ ~InUse =>
          Carries(file) /\ (mgr = "created" \/ config = NoConfig \/ Carries(config))

\* The file, the configuration that was written last and the one in use.
SavedIsFile ==
    /\ mgr \in {"writing", "saving"} => file = Torn
    /\ mgr \notin {"writing", "saving"} /\ saved # NoFile => file = saved

SavedIsUsed ==
    /\ mgr = "writing" => config.valid
    /\ config # NoConfig /\ ~config.valid => ~config.perApp
    /\ saved # NoFile /\ saved.perApp => saved.valid
    /\ InUse /\ ~config.valid => saved = NoFile
    /\ saved # NoFile /\ config # NoConfig /\ config.valid /\ mgr # "writing"
          => saved.perApp = config.perApp

\* The seed is the switch that was saved, while switching is by application.
SeedIsSaved ==
    saved # NoFile /\ saved.perApp /\ store # NoStore /\ store.seeded /\ (InUse => config.perApp)
    => store.seed = saved.input

StoreInv ==
    /\ Typed /\ HeldIsThere
    /\ SettingsKept
    /\ SavedIsFile /\ SavedIsUsed /\ SeedIsSaved

-----------------------------------------------------------------------------
(* The table.                                                                *)

LEMMA Apart ==
    /\ NoConfig \notin Config /\ NoFile \notin Config /\ Torn \notin Config /\ NoFile # Torn
    /\ NoStore \notin Store /\ Nothing \notin Settings
    /\ NoApp \notin Apps /\ CutName \notin Apps
    /\ LongNames \subseteq Apps /\ TsfApps \subseteq Apps /\ Manager \notin TsfApps
    /\ Slots \in Nat /\ 0 < Slots
  BY ConfigConstants

LEMMA EmptyTable ==
    /\ TableOK(ZeroStore) /\ ~ZeroStore.seeded /\ ZeroStore # NoStore
    /\ \A a : Entries(ZeroStore, a) = {}
  <1>1. ZeroStore.table = <<>> /\ ~ZeroStore.seeded /\ Len(<<>>) = 0 /\ DOMAIN <<>> = {}
    BY DEF ZeroStore
  <1>2. ZeroStore \in Store
    BY DEF ZeroStore, Store
  <1>3. ZeroStore # NoStore
    BY <1>2, Apart
  <1>4. TableOK(ZeroStore)
    BY <1>1, <1>2, Apart DEF TableOK
  <1> QED
    BY <1>1, <1>3, <1>4 DEF Entries

LEMMA OpenedIs ==
    ASSUME NEW s, s # NoStore => TableOK(s)
    PROVE  /\ TableOK(Opened(s)) /\ Opened(s) # NoStore
           /\ s # NoStore => Opened(s) = s
           /\ Opened(s).seeded => s # NoStore /\ Opened(s) = s
  BY EmptyTable DEF Opened

\* An application with a short name has at most one entry, which is found.
LEMMA EntryIs ==
    ASSUME NEW s, TableOK(s), NEW a \in Apps, NEW i \in Entries(s, a)
    PROVE  /\ Entries(s, a) = {i} /\ Min(Entries(s, a)) = i
           /\ i \in DOMAIN s.table /\ i \in 1..Len(s.table) /\ s.table[i].app = a
  <1>1. s.table \in Seq([app : Apps \cup {CutName}, on : BOOLEAN])
    BY DEF TableOK, Store
  <1>2. i \in DOMAIN s.table /\ i \in 1..Len(s.table) /\ s.table[i].app = a
    BY <1>1 DEF Entries
  <1>3. Entries(s, a) = {i}
    BY <1>2 DEF Entries, TableOK
  <1>4. Min({i}) = i
    BY <1>2 DEF Min
  <1> QED
    BY <1>2, <1>3, <1>4

LEMMA OneEntry ==
    ASSUME NEW s, TableOK(s), NEW a \in Apps
    PROVE  Cardinality(Entries(s, a)) <= 1
  <1>1. CASE Entries(s, a) = {}
    BY <1>1, FS_EmptySet
  <1>2. ASSUME NEW i \in Entries(s, a)
        PROVE  Cardinality(Entries(s, a)) <= 1
    <2>1. Entries(s, a) = {i}
      BY <1>2, EntryIs
    <2>2. Cardinality({i}) = 1
      BY FS_Singleton
    <2> QED
      BY <2>1, <2>2
  <1> QED
    BY <1>1, <1>2

LEMMA WithSeedIs ==
    ASSUME NEW s, TableOK(s), NEW v \in BOOLEAN
    PROVE  /\ TableOK(WithSeed(s, v)) /\ WithSeed(s, v) # NoStore
           /\ WithSeed(s, v).table = s.table
           /\ WithSeed(s, v).seed = v /\ WithSeed(s, v).seeded
  <1>1. s \in Store
    BY DEF TableOK
  <1>2. WithSeed(s, v) \in Store /\ WithSeed(s, v).table = s.table
        /\ WithSeed(s, v).seed = v /\ WithSeed(s, v).seeded
    BY <1>1 DEF WithSeed, Store
  <1> QED
    BY <1>2, Apart DEF TableOK

\* Storing the switch of an application: no other entry changes.
LEMMA WithEntryIs ==
    ASSUME NEW s, TableOK(s), NEW a \in Apps, NEW v \in BOOLEAN
    PROVE  /\ TableOK(WithEntry(s, a, v)) /\ WithEntry(s, a, v) # NoStore
           /\ WithEntry(s, a, v).seed = s.seed /\ WithEntry(s, a, v).seeded = s.seeded
           /\ \A b \in Apps : b # a =>
                 /\ Entries(WithEntry(s, a, v), b) = Entries(s, b)
                 /\ \A i \in Entries(s, b) : WithEntry(s, a, v).table[i].on = s.table[i].on
           /\ (Entries(s, a) # {} \/ (Len(s.table) < Slots /\ a \notin LongNames)) =>
                 \E i \in Entries(WithEntry(s, a, v), a) : WithEntry(s, a, v).table[i].on = v
           /\ (Entries(s, a) = {} /\ (Len(s.table) >= Slots \/ a \in LongNames)) =>
                 Entries(WithEntry(s, a, v), a) = {}
  <1> DEFINE t == WithEntry(s, a, v)
  <1> DEFINE E == [app : Apps \cup {CutName}, on : BOOLEAN]
  <1>1. s \in Store /\ s.table \in Seq(E) /\ Len(s.table) \in Nat /\ Len(s.table) <= Slots
    BY DEF TableOK, Store
  <1>2. CASE Entries(s, a) # {}
    <2>1. PICK i \in Entries(s, a) : TRUE
      BY <1>2
    <2>2. Min(Entries(s, a)) = i /\ i \in 1..Len(s.table) /\ s.table[i].app = a /\ Entries(s, a) = {i}
      BY <2>1, EntryIs
    <2>3. t = [s EXCEPT !.table[i].on = v]
      BY <1>2, <2>2 DEF WithEntry
    <2>4. s.table[i] \in E
      <3> HIDE DEF E
      <3> QED
        BY <1>1, <2>2
    <2>5. [s.table[i] EXCEPT !.on = v] \in E
      BY <2>4
    <2>6. /\ t.table = [s.table EXCEPT ![i] = [s.table[i] EXCEPT !.on = v]]
          /\ t.seed = s.seed /\ t.seeded = s.seeded
      BY <1>1, <2>3 DEF Store
    <2>7. t.table \in Seq(E) /\ Len(t.table) = Len(s.table) /\ DOMAIN t.table = DOMAIN s.table
      BY <1>1, <2>2, <2>5, <2>6
    <2>8. t \in Store
      BY <1>1, <2>3, <2>6, <2>7 DEF Store
    <2>9. \A k \in DOMAIN s.table : t.table[k].app = s.table[k].app /\ (k # i => t.table[k] = s.table[k])
      BY <1>1, <2>2, <2>4, <2>6
    <2>10. t.table[i].on = v
      BY <1>1, <2>2, <2>4, <2>6
    <2> HIDE DEF t
    <2>11. \A b : Entries(t, b) = Entries(s, b)
      BY <2>7, <2>9 DEF Entries
    <2>12. TableOK(t)
      BY <1>1, <2>7, <2>8, <2>9 DEF TableOK
    <2>13. \A b \in Apps : b # a => \A k \in Entries(s, b) : t.table[k].on = s.table[k].on
      BY <2>2, <2>9 DEF Entries
    <2> QED
      BY <1>2, <2>2, <2>6, <2>8, <2>10, <2>11, <2>12, <2>13, Apart DEF t
  <1>3. CASE Entries(s, a) = {} /\ Len(s.table) < Slots
    <2> DEFINE e == [app |-> StoredName(a), on |-> v]
    <2>1. e \in E /\ e.app = StoredName(a) /\ e.on = v
      BY Apart DEF StoredName
    <2> HIDE DEF e
    <2>2. t = [s EXCEPT !.table = Append(@, e)]
      BY <1>3 DEF WithEntry, e
    <2>3. t \in Store /\ t.table = Append(s.table, e) /\ t.seed = s.seed /\ t.seeded = s.seeded
      <3>1. Append(s.table, e) \in Seq(E)
        <4> HIDE DEF E
        <4> QED
          BY <1>1, <2>1
      <3>2. t.table = Append(s.table, e) /\ t.seed = s.seed /\ t.seeded = s.seeded
        BY <1>1, <2>2 DEF Store
      <3>3. t = [table |-> Append(s.table, e), seed |-> s.seed, seeded |-> s.seeded]
        BY <1>1, <2>2 DEF Store
      <3>4. s.seed \in BOOLEAN /\ s.seeded \in BOOLEAN
        BY <1>1 DEF Store
      <3> HIDE DEF t
      <3> QED
        BY <3>1, <3>2, <3>3, <3>4 DEF Store
    <2>4. /\ Len(t.table) = Len(s.table) + 1 /\ t.table[Len(s.table) + 1] = e
          /\ DOMAIN t.table = DOMAIN s.table \cup {Len(s.table) + 1}
          /\ \A k \in DOMAIN s.table : k \in 1..Len(s.table) /\ t.table[k] = s.table[k]
      BY <1>1, <2>1, <2>3
    <2> HIDE DEF t
    <2>5. ASSUME NEW b \in Apps, b # a
          PROVE  Entries(t, b) = Entries(s, b)
      <3>1. e.app # b
        BY <2>1, <2>5, Apart DEF StoredName
      <3> QED
        BY <2>4, <3>1 DEF Entries
    <2>6. TableOK(t)
      <3>0. e.app \notin LongNames
        BY <2>1, Apart DEF StoredName
      <3> SUFFICES ASSUME NEW i \in DOMAIN t.table, NEW j \in DOMAIN t.table,
                          t.table[i].app = t.table[j].app, t.table[i].app \in Apps
                   PROVE  i = j
        <4>1. \A i \in DOMAIN t.table : t.table[i].app \notin LongNames
          BY <2>4, <3>0 DEF TableOK
        <4> QED
          BY <1>1, <1>3, <2>3, <2>4, <4>1, Apart DEF TableOK
      <3>1. CASE i \in DOMAIN s.table /\ j \in DOMAIN s.table
        BY <2>4, <3>1 DEF TableOK
      <3>2. ASSUME NEW k \in DOMAIN s.table, s.table[k].app = e.app, e.app \in Apps
            PROVE  FALSE
        <4>1. e.app = a
          BY <2>1, <3>2, Apart DEF StoredName
        <4> QED
          BY <1>3, <3>2, <4>1 DEF Entries
      <3> QED
        BY <2>4, <3>1, <3>2
    <2>7. CASE a \in LongNames
      <3>1. e.app # a
        BY <2>1, <2>7, Apart DEF StoredName
      <3>2. Entries(t, a) = {}
        BY <1>3, <2>4, <3>1 DEF Entries
      <3> QED
        BY <1>3, <2>3, <2>4, <2>5, <2>6, <2>7, <3>2, Apart DEF t, Entries
    <2>8. CASE a \notin LongNames
      <3>1. Len(s.table) + 1 \in Entries(t, a) /\ t.table[Len(s.table) + 1].on = v
        BY <2>1, <2>4, <2>8 DEF Entries, StoredName
      <3>2. ~(Len(s.table) >= Slots)
        BY <1>1, <1>3, Apart
      <3> QED
        BY <1>3, <2>3, <2>4, <2>5, <2>6, <2>8, <3>1, <3>2, Apart DEF t, Entries
    <2> QED
      BY <2>7, <2>8
  <1>4. CASE Entries(s, a) = {} /\ ~(Len(s.table) < Slots)
    <2>1. t = s
      BY <1>4 DEF WithEntry
    <2>2. s # NoStore
      BY <1>1, Apart
    <2> QED
      BY <1>4, <2>1, <2>2
  <1> QED
    BY <1>2, <1>3, <1>4

LEMMA StoreSwitchIs ==
    ASSUME NEW c \in Config, NEW s, TableOK(s), NEW a \in Apps \cup {NoApp},
           NEW v \in BOOLEAN, NEW writes \in BOOLEAN
    PROVE  /\ TableOK(StoreSwitch(c, s, a, v, writes)) /\ StoreSwitch(c, s, a, v, writes) # NoStore
           /\ c.perApp => /\ StoreSwitch(c, s, a, v, writes).seed = s.seed
                          /\ StoreSwitch(c, s, a, v, writes).seeded = s.seeded
  <1>1. s # NoStore
    BY Apart DEF TableOK
  <1>2. CASE ~writes
    BY <1>1, <1>2 DEF StoreSwitch
  <1>3. CASE writes /\ ~c.perApp
    <2>1. StoreSwitch(c, s, a, v, writes) = WithSeed(s, v)
      BY <1>3 DEF StoreSwitch
    <2> QED
      BY <1>3, <2>1, WithSeedIs
  <1>4. CASE writes /\ c.perApp /\ a = NoApp
    BY <1>1, <1>4 DEF StoreSwitch
  <1>5. CASE writes /\ c.perApp /\ a # NoApp
    <2>1. a \in Apps /\ StoreSwitch(c, s, a, v, writes) = WithEntry(s, a, v)
      BY <1>5 DEF StoreSwitch
    <2> QED
      BY <2>1, WithEntryIs
  <1> QED
    BY <1>2, <1>3, <1>4, <1>5

LEMMA AttemptsAre == \A memory : Attempts(memory) \subseteq BOOLEAN /\ TRUE \in Attempts(memory)
  BY DEF Attempts

\* The configurations that the manager reads and writes.
LEMMA ConfigsAre ==
    /\ ZeroConfig \in Config /\ ~ZeroConfig.valid /\ ~ZeroConfig.perApp
    /\ DefaultConfig \in Config /\ DefaultConfig.valid /\ ~DefaultConfig.perApp
    /\ Loaded \in Config /\ Loaded.valid /\ Loaded.input \in BOOLEAN
    /\ file \in Config /\ file.valid => Loaded = file
    /\ ~(file \in Config /\ file.valid) => ~Loaded.perApp
  <1>1. ZeroConfig \in Config /\ ~ZeroConfig.valid /\ ~ZeroConfig.perApp
    BY ConfigConstants DEF ZeroConfig, Config
  <1>2. DefaultConfig \in Config /\ DefaultConfig.valid /\ ~DefaultConfig.perApp
    BY ConfigConstants DEF DefaultConfig, Config
  <1>3. Loaded \in Config /\ Loaded.valid
    BY <1>2 DEF Loaded
  <1>4. Loaded.input \in BOOLEAN
    BY <1>3 DEF Config
  <1> QED
    BY <1>1, <1>2, <1>3, <1>4 DEF Loaded

LEMMA ConfigParts ==
    ASSUME NEW c \in Config
    PROVE  /\ c # NoConfig /\ c # NoFile /\ c # Torn
           /\ c.valid \in BOOLEAN /\ c.input \in BOOLEAN /\ c.perApp \in BOOLEAN /\ c.other \in Others
           /\ SettingsOf(c) \in Settings /\ SettingsOf(c) # Nothing
  <1>1. c # NoConfig /\ c # NoFile /\ c # Torn
    BY Apart
  <1>2. c.valid \in BOOLEAN /\ c.input \in BOOLEAN /\ c.perApp \in BOOLEAN /\ c.other \in Others
    BY DEF Config
  <1>3. SettingsOf(c) \in Settings
    BY <1>2 DEF SettingsOf, Settings
  <1> QED
    BY <1>1, <1>2, <1>3, Apart

LEMMA SnapshotIs ==
    ASSUME NEW c \in Config, NEW s, TableOK(s), NEW reads \in BOOLEAN
    PROVE  /\ Snapshot(c, s, reads) \in Config
           /\ Snapshot(c, s, reads).valid = c.valid /\ Snapshot(c, s, reads).perApp = c.perApp
           /\ SettingsOf(Snapshot(c, s, reads)) = SettingsOf(c)
           /\ reads /\ c.perApp /\ s.seeded => Snapshot(c, s, reads).input = s.seed
  <1>1. CASE c.perApp /\ reads /\ s.seeded
    <2>1. s.seed \in BOOLEAN
      BY DEF TableOK, Store
    <2>2. Snapshot(c, s, reads) = [c EXCEPT !.input = s.seed]
      BY <1>1 DEF Snapshot
    <2>3. /\ [c EXCEPT !.input = s.seed] \in Config
          /\ [c EXCEPT !.input = s.seed].valid = c.valid
          /\ [c EXCEPT !.input = s.seed].perApp = c.perApp
          /\ [c EXCEPT !.input = s.seed].other = c.other
          /\ [c EXCEPT !.input = s.seed].input = s.seed
      BY <2>1 DEF Config
    <2> QED
      BY <2>2, <2>3 DEF SettingsOf
  <1>2. CASE ~(c.perApp /\ reads /\ s.seeded)
    <2>1. Snapshot(c, s, reads) = c
      BY <1>2 DEF Snapshot
    <2> QED
      BY <1>2, <2>1
  <1> QED
    BY <1>1, <1>2

-----------------------------------------------------------------------------
(* The steps.                                                                *)

LEMMA ManagerIs == Manager \in Processes /\ (\A a \in TsfApps : a \in Processes /\ a # Manager)
  BY Apart DEF Processes

\* A process that closes memories takes them away when it was the last.
LEMMA ClosesIs ==
    ASSUME StoreInv, NEW p \in Processes, NEW closed, Closes(p, closed)
    PROVE  /\ handles' \in [Processes -> SUBSET {"config", "store"}]
           /\ config' \in {config, NoConfig} /\ store' \in {store, NoStore}
           /\ \A q \in Processes : Holds(q, "config")' => config' # NoConfig
           /\ \A q \in Processes : Holds(q, "store")' => store' # NoStore
           /\ p # Manager \/ "config" \notin closed =>
                 (Holds(Manager, "config") => config' = config /\ Holds(Manager, "config")')
           /\ p # Manager \/ "store" \notin closed =>
                 (Holds(Manager, "store") => store' = store /\ Holds(Manager, "store")')
  <1>1. /\ handles' = [handles EXCEPT ![p] = @ \ closed]
        /\ config' = IF \E q \in Processes : "config" \in handles'[q] THEN config ELSE NoConfig
        /\ store' = IF \E q \in Processes : "store" \in handles'[q] THEN store ELSE NoStore
    BY DEF Closes
  <1>2. handles \in [Processes -> SUBSET {"config", "store"}]
    BY DEF StoreInv, Typed
  <1>3. handles' \in [Processes -> SUBSET {"config", "store"}]
        /\ \A q \in Processes : handles'[q] = IF q = p THEN handles[q] \ closed ELSE handles[q]
    BY <1>1, <1>2
  <1>4. \A q \in Processes : \A m : Holds(q, m)' => Holds(q, m)
    BY <1>3 DEF Holds
  <1>5. \A q \in Processes : /\ Holds(q, "config") => config # NoConfig
                             /\ Holds(q, "store") => store # NoStore
    BY DEF StoreInv, HeldIsThere
  <1>6. ASSUME NEW q \in Processes, Holds(q, "config")'
        PROVE  config' = config /\ config' # NoConfig
    BY <1>1, <1>4, <1>5, <1>6 DEF Holds
  <1>7. ASSUME NEW q \in Processes, Holds(q, "store")'
        PROVE  store' = store /\ store' # NoStore
    BY <1>1, <1>4, <1>5, <1>7 DEF Holds
  <1>8. \A m : (p # Manager \/ m \notin closed) /\ Holds(Manager, m) => Holds(Manager, m)'
    BY <1>3, ManagerIs DEF Holds
  <1> QED
    BY <1>1, <1>3, <1>6, <1>7, <1>8, ManagerIs

\* Steps beside the manager: a mapping that nobody holds goes, an empty store
\* may come.
LEMMA BesideKeeps ==
    ASSUME StoreInv, UNCHANGED <<file, mgr, latest, saved>>,
           handles' \in [Processes -> SUBSET {"config", "store"}],
           cached' \in [TsfApps -> BOOLEAN], HeldIsThere',
           config' = config \/ (config' = NoConfig /\ mgr = "down"),
           store' \in {store, NoStore, Opened(store)}
    PROVE  StoreInv'
  <1>1. /\ Typed /\ SettingsKept /\ SavedIsFile /\ SavedIsUsed /\ SeedIsSaved
    BY DEF StoreInv
  <1>2. (store' # NoStore => TableOK(store')) /\ (store' # NoStore /\ store'.seeded => store' = store)
    BY <1>1, OpenedIs DEF Typed
  <1>3. Typed'
    <2>1. store' # NoStore => TableOK(store)'
      BY <1>2 DEF TableOK
    <2> QED
      BY <1>1, <2>1 DEF Typed
  <1>4. SettingsKept'
    BY <1>1 DEF SettingsKept, InUse, Carries
  <1>5. SavedIsFile'
    BY <1>1 DEF SavedIsFile
  <1>6. SavedIsUsed'
    BY <1>1 DEF SavedIsUsed, InUse
  <1>7. SeedIsSaved'
    BY <1>1, <1>2 DEF SeedIsSaved, InUse
  <1> QED
    BY <1>3, <1>4, <1>5, <1>6, <1>7 DEF StoreInv

LEMMA OpensIs ==
    ASSUME StoreInv, NEW p \in Processes, NEW memory \in {"config", "store"}, Opens(p, memory)
    PROVE  /\ handles' \in [Processes -> SUBSET {"config", "store"}]
           /\ \A q \in Processes : \A m : Holds(q, m)' <=> Holds(q, m) \/ (q = p /\ m = memory)
  <1>1. handles \in [Processes -> SUBSET {"config", "store"}]
        /\ handles' = [handles EXCEPT ![p] = @ \cup {memory}]
    BY DEF StoreInv, Typed, Opens
  <1>2. \A q \in Processes : handles'[q] = IF q = p THEN handles[q] \cup {memory} ELSE handles[q]
    BY <1>1
  <1>3. handles' \in [Processes -> SUBSET {"config", "store"}]
    BY <1>1
  <1> QED
    BY <1>2, <1>3 DEF Holds

LEMMA InvParts ==
    ASSUME StoreInv
    PROVE  /\ Typed /\ HeldIsThere /\ SettingsKept /\ SavedIsFile /\ SavedIsUsed /\ SeedIsSaved
           /\ config # NoConfig => config \in Config
           /\ mgr # "down" => config \in Config
           /\ store # NoStore => TableOK(store)
           /\ mgr \in {"up", "writing"} => store # NoStore /\ TableOK(store)
           /\ TableOK(Opened(store)) /\ Opened(store) # NoStore
           /\ Opened(store).seeded => store # NoStore /\ Opened(store) = store
  <1>1. Typed /\ HeldIsThere /\ SettingsKept /\ SavedIsFile /\ SavedIsUsed /\ SeedIsSaved
    BY DEF StoreInv
  <1>2. (mgr # "down" => config # NoConfig) /\ (mgr \in {"up", "writing"} => store # NoStore)
    BY <1>1, ManagerIs DEF HeldIsThere
  <1>3. (config # NoConfig => config \in Config) /\ (store # NoStore => TableOK(store))
    BY <1>1 DEF Typed
  <1>4. /\ TableOK(Opened(store)) /\ Opened(store) # NoStore
        /\ Opened(store).seeded => store # NoStore /\ Opened(store) = store
    BY <1>3, OpenedIs
  <1> QED
    BY <1>1, <1>2, <1>3, <1>4

\* The parts of the invariant that speak about tables and handles, after a
\* step that keeps both memories.
LEMMA KeptMemories ==
    ASSUME StoreInv, config' \in Config, store' # NoStore => TableOK(store'),
           store' = NoStore => store = NoStore,
           file' \in Config \cup {NoFile, Torn}, mgr' \in Phases, cached' = cached,
           latest' \in Settings \cup {Nothing}, saved' \in Config \cup {NoFile},
           handles' \in [Processes -> SUBSET {"config", "store"}],
           \A q \in Processes : \A m : Holds(q, m)' =>
               Holds(q, m) \/ (q = Manager /\ (m = "store" => store' # NoStore)),
           mgr' # "down" => Holds(Manager, "config")',
           mgr' \in {"up", "writing"} => Holds(Manager, "store")'
    PROVE  Typed' /\ HeldIsThere'
  <1>1. TableOK(store)' <=> TableOK(store')
    BY DEF TableOK
  <1>2. cached' \in [TsfApps -> BOOLEAN]
    BY DEF StoreInv, Typed
  <1>3. Typed'
    BY <1>1, <1>2 DEF Typed
  <1>4. config' # NoConfig
    BY Apart
  <1>5. ASSUME NEW q \in Processes, Holds(q, "store")'
        PROVE  store' # NoStore
    BY <1>5 DEF StoreInv, HeldIsThere
  <1>6. HeldIsThere'
    BY <1>4, <1>5 DEF HeldIsThere
  <1> QED
    BY <1>3, <1>6

LEMMA MapConfigKeeps ==
    ASSUME StoreInv, MapConfig
    PROVE  StoreInv'
  <1>1. /\ mgr = "down" /\ mgr' = (IF config = NoConfig THEN "created" ELSE "opened")
        /\ config' = (IF config = NoConfig THEN ZeroConfig ELSE config)
        /\ Opens(Manager, "config")
        /\ UNCHANGED <<store, file, cached, latest, saved>>
    BY DEF MapConfig
  <1>2. /\ handles' \in [Processes -> SUBSET {"config", "store"}]
        /\ \A q \in Processes : \A m : Holds(q, m)' <=> Holds(q, m) \/ (q = Manager /\ m = "config")
    BY <1>1, OpensIs, ManagerIs
  <1>3. config' \in Config /\ (config = NoConfig => ~config'.valid /\ ~config'.perApp)
    BY <1>1, InvParts, ConfigsAre
  <1>4. Typed' /\ HeldIsThere'
    BY <1>1, <1>2, <1>3, KeptMemories, InvParts, ManagerIs DEF Typed, Phases
  <1>5. SettingsKept'
    BY <1>1, InvParts DEF SettingsKept, InUse, Carries, ZeroConfig
  <1>6. SavedIsFile'
    BY <1>1, InvParts DEF SavedIsFile
  <1>7. SavedIsUsed'
    BY <1>1, <1>3, InvParts DEF SavedIsUsed, InUse
  <1>8. SeedIsSaved'
    BY <1>1, InvParts DEF SeedIsSaved, InUse
  <1> QED
    BY <1>4, <1>5, <1>6, <1>7, <1>8 DEF StoreInv

LEMMA FillConfigKeeps ==
    ASSUME StoreInv, FillConfig
    PROVE  StoreInv'
  <1>1. /\ mgr = "created" /\ mgr' = "up" /\ config' = Loaded /\ Opens(Manager, "store")
        /\ latest' = (IF latest = Nothing THEN SettingsOf(Loaded) ELSE latest)
        /\ UNCHANGED <<file, cached, saved>>
    BY DEF FillConfig
  <1>2. PICK writes \in Attempts("store") :
            store' = IF writes THEN WithSeed(Opened(store), Loaded.input) ELSE Opened(store)
    BY DEF FillConfig
  <1>3. /\ handles' \in [Processes -> SUBSET {"config", "store"}]
        /\ \A q \in Processes : \A m : Holds(q, m)' <=> Holds(q, m) \/ (q = Manager /\ m = "store")
    BY <1>1, OpensIs, ManagerIs
  <1>4. /\ TableOK(store') /\ store' # NoStore
        /\ writes => store'.seed = Loaded.input
        /\ ~writes => store' = Opened(store)
    BY <1>2, InvParts, ConfigsAre, WithSeedIs
  <1>5. latest' \in Settings \cup {Nothing}
    BY <1>1, ConfigsAre, ConfigParts, InvParts DEF Typed
  <1>6. Holds(Manager, "config")' /\ Holds(Manager, "store")'
    BY <1>1, <1>3, InvParts, ManagerIs DEF HeldIsThere
  <1>7. Typed' /\ HeldIsThere'
    BY <1>1, <1>3, <1>4, <1>5, <1>6, KeptMemories, InvParts, ConfigsAre DEF Typed, Phases
  <1>8. latest # Nothing => Carries(file)
    BY <1>1, InvParts DEF SettingsKept, InUse
  <1>9. SettingsKept'
    BY <1>1, <1>8, ConfigsAre DEF SettingsKept, InUse, Carries
  <1>10. SavedIsFile'
    BY <1>1, InvParts DEF SavedIsFile
  <1>11. saved # NoFile => file = saved /\ saved \in Config
    BY <1>1, InvParts DEF SavedIsFile, Typed
  <1>12. saved # NoFile /\ saved.perApp => Loaded = saved
    BY <1>11, InvParts, ConfigsAre DEF SavedIsUsed
  <1>13. saved # NoFile => saved.perApp = Loaded.perApp
    <2>1. saved # NoFile => saved.perApp \in BOOLEAN /\ Loaded.perApp \in BOOLEAN /\ saved.valid \in BOOLEAN
      BY <1>11, ConfigsAre, ConfigParts
    <2> QED
      BY <1>11, <1>12, <2>1, ConfigsAre
  <1>14. SavedIsUsed'
    BY <1>1, <1>13, InvParts, ConfigsAre DEF SavedIsUsed, InUse
  <1>15. SeedIsSaved'
    BY <1>1, <1>4, <1>12, InvParts DEF SeedIsSaved, InUse
  <1> QED
    BY <1>7, <1>9, <1>10, <1>14, <1>15 DEF StoreInv

LEMMA FillTimeoutKeeps ==
    ASSUME StoreInv, FillTimeout
    PROVE  StoreInv'
  <1>1. /\ mgr = "created" /\ mgr' = "up" /\ store' = Opened(store) /\ Opens(Manager, "store")
        /\ latest' = Nothing /\ saved' = NoFile
        /\ UNCHANGED <<config, file, cached>>
    BY DEF FillTimeout
  <1>2. /\ handles' \in [Processes -> SUBSET {"config", "store"}]
        /\ \A q \in Processes : \A m : Holds(q, m)' <=> Holds(q, m) \/ (q = Manager /\ m = "store")
    BY <1>1, OpensIs, ManagerIs
  <1>3. Holds(Manager, "config")' /\ Holds(Manager, "store")'
    BY <1>1, <1>2, InvParts, ManagerIs DEF HeldIsThere
  <1>4. Typed' /\ HeldIsThere'
    BY <1>1, <1>2, <1>3, KeptMemories, InvParts DEF Typed, Phases
  <1>5. SettingsKept' /\ SavedIsFile'
    BY <1>1 DEF SettingsKept, SavedIsFile, InUse
  <1>6. SavedIsUsed' /\ SeedIsSaved'
    BY <1>1, InvParts DEF SavedIsUsed, SeedIsSaved
  <1> QED
    BY <1>4, <1>5, <1>6 DEF StoreInv

LEMMA KeepConfigKeeps ==
    ASSUME StoreInv, KeepConfig
    PROVE  StoreInv'
  <1>1. /\ mgr = "opened" /\ mgr' = "up" /\ store' = Opened(store) /\ Opens(Manager, "store")
        /\ latest' = (IF latest = Nothing /\ config.valid THEN SettingsOf(config) ELSE latest)
        /\ saved' = (IF config.valid THEN saved ELSE NoFile)
        /\ UNCHANGED <<config, file, cached>>
    BY DEF KeepConfig
  <1>2. /\ handles' \in [Processes -> SUBSET {"config", "store"}]
        /\ \A q \in Processes : \A m : Holds(q, m)' <=> Holds(q, m) \/ (q = Manager /\ m = "store")
    BY <1>1, OpensIs, ManagerIs
  <1>3. Holds(Manager, "config")' /\ Holds(Manager, "store")'
    BY <1>1, <1>2, InvParts, ManagerIs DEF HeldIsThere
  <1>4. config \in Config /\ config # NoConfig
    BY <1>1, InvParts, Apart
  <1>5. latest' \in Settings \cup {Nothing} /\ saved' \in Config \cup {NoFile}
    BY <1>1, <1>4, ConfigParts, InvParts DEF Typed
  <1>6. Typed' /\ HeldIsThere'
    BY <1>1, <1>2, <1>3, <1>4, <1>5, KeptMemories, InvParts DEF Typed, Phases
  <1>7. SettingsKept'
    BY <1>1, <1>4, InvParts DEF SettingsKept, InUse, Carries
  <1>8. SavedIsFile'
    BY <1>1, InvParts DEF SavedIsFile
  <1>9. SavedIsUsed'
    BY <1>1, InvParts DEF SavedIsUsed, InUse
  <1>10. SeedIsSaved'
    BY <1>1, InvParts DEF SeedIsSaved, InUse
  <1> QED
    BY <1>6, <1>7, <1>8, <1>9, <1>10 DEF StoreInv

LEMMA ResolveIs ==
    ASSUME NEW c \in Config, NEW s, TableOK(s), NEW a \in Apps \cup {NoApp}, NEW reads
    PROVE  ResolveEffective(c, s, a, reads) \in BOOLEAN
  <1>1. CASE c.perApp /\ a # NoApp /\ reads /\ Entries(s, a) # {}
    <2>1. a \in Apps
      BY <1>1
    <2>2. PICK i \in Entries(s, a) : TRUE
      BY <1>1
    <2>3. i \in 1..Len(s.table) /\ Min(Entries(s, a)) = i
      BY <2>1, EntryIs
    <2>4. s.table[i] \in [app : Apps \cup {CutName}, on : BOOLEAN]
      <3> DEFINE E == [app : Apps \cup {CutName}, on : BOOLEAN]
      <3>1. s.table \in Seq(E)
        BY DEF TableOK, Store
      <3> HIDE DEF E
      <3>2. s.table[i] \in E
        BY <2>3, <3>1
      <3> QED
        BY <3>2 DEF E
    <2>5. ResolveEffective(c, s, a, reads) = s.table[i].on
      BY <1>1, <2>3 DEF ResolveEffective
    <2> QED
      BY <2>4, <2>5
  <1>2. CASE ~(c.perApp /\ a # NoApp /\ reads /\ Entries(s, a) # {})
    <2>1. ResolveEffective(c, s, a, reads) = c.input
      BY <1>2 DEF ResolveEffective
    <2> QED
      BY <2>1, ConfigParts
  <1> QED
    BY <1>1, <1>2

LEMMA ToggleKeeps ==
    ASSUME StoreInv, NEW a \in Apps \cup {NoApp}, ToggleInputState(a)
    PROVE  StoreInv'
  <1>1. mgr = "up" /\ UNCHANGED <<file, mgr, handles, cached, latest, saved>>
    BY DEF ToggleInputState
  <1>2. config \in Config /\ TableOK(store) /\ store # NoStore
    BY <1>1, InvParts
  <1>3. PICK reads \in Attempts("store"), writes \in Attempts("store") :
            LET v == ~ResolveEffective(config, store, a, reads) IN
            /\ config' = [config EXCEPT !.input = v]
            /\ store' = StoreSwitch(config, store, a, v, writes)
    BY DEF ToggleInputState
  <1> DEFINE v == ~ResolveEffective(config, store, a, reads)
  <1>4. v \in BOOLEAN /\ writes \in BOOLEAN
    BY <1>2, ResolveIs, AttemptsAre
  <1>5. config' = [config EXCEPT !.input = v] /\ store' = StoreSwitch(config, store, a, v, writes)
    BY <1>3
  <1> HIDE DEF v
  <1>6. /\ config' \in Config /\ config'.perApp = config.perApp /\ config'.valid = config.valid
        /\ config'.other = config.other
    BY <1>2, <1>4, <1>5 DEF Config
  <1>7. /\ TableOK(store') /\ store' # NoStore
        /\ config.perApp => store'.seed = store.seed /\ store'.seeded = store.seeded
    BY <1>2, <1>4, <1>5, StoreSwitchIs
  <1>8. \A q, m : Holds(q, m)' <=> Holds(q, m)
    BY <1>1 DEF Holds
  <1>9. Holds(Manager, "config") /\ Holds(Manager, "store")
    BY <1>1, InvParts DEF HeldIsThere
  <1>10. Typed' /\ HeldIsThere'
    BY <1>1, <1>6, <1>7, <1>8, <1>9, KeptMemories, InvParts DEF Typed
  <1>11. SettingsKept'
    BY <1>1, <1>6, InvParts DEF SettingsKept, InUse, Carries, SettingsOf
  <1>12. SavedIsFile'
    BY <1>1, InvParts DEF SavedIsFile
  <1>13. SavedIsUsed'
    BY <1>1, <1>2, <1>6, InvParts, Apart DEF SavedIsUsed, InUse
  <1>14. SeedIsSaved'
    BY <1>1, <1>2, <1>6, <1>7, InvParts DEF SeedIsSaved, InUse
  <1> QED
    BY <1>10, <1>11, <1>12, <1>13, <1>14 DEF StoreInv

LEMMA ChooseOtherKeeps ==
    ASSUME StoreInv, NEW v \in Others, ChooseOther(v)
    PROVE  StoreInv'
  <1>1. /\ mgr = "up" /\ config' = [config EXCEPT !.other = v]
        /\ latest' = (IF latest = Nothing THEN Nothing ELSE [latest EXCEPT !.other = v])
        /\ UNCHANGED <<store, file, mgr, handles, cached, saved>>
    BY DEF ChooseOther
  <1>2. config \in Config /\ TableOK(store) /\ store # NoStore /\ latest \in Settings \cup {Nothing}
    BY <1>1, InvParts DEF Typed
  <1>3. /\ config' \in Config /\ config'.perApp = config.perApp /\ config'.valid = config.valid
        /\ config'.other = v
    BY <1>1, <1>2 DEF Config
  <1>4. /\ latest' \in Settings \cup {Nothing} /\ (latest' # Nothing => latest # Nothing)
        /\ latest # Nothing => latest'.perApp = latest.perApp /\ latest'.other = v
                               /\ latest' = [perApp |-> latest.perApp, other |-> v]
    BY <1>1, <1>2 DEF Settings
  <1>5. \A q, m : Holds(q, m)' <=> Holds(q, m)
    BY <1>1 DEF Holds
  <1>6. Holds(Manager, "config") /\ Holds(Manager, "store")
    BY <1>1, InvParts DEF HeldIsThere
  <1>7. Typed' /\ HeldIsThere'
    BY <1>1, <1>2, <1>3, <1>4, <1>5, <1>6, KeptMemories, InvParts DEF Typed
  <1>8. SettingsKept'
    <2>1. latest # Nothing => config.valid /\ config.perApp = latest.perApp
      BY <1>1, InvParts DEF SettingsKept, InUse, Carries, SettingsOf
    <2> QED
      BY <1>1, <1>3, <1>4, <2>1 DEF SettingsKept, InUse, Carries, SettingsOf
  <1>9. SavedIsFile'
    BY <1>1, InvParts DEF SavedIsFile
  <1>10. SavedIsUsed'
    BY <1>1, <1>2, <1>3, InvParts, Apart DEF SavedIsUsed, InUse
  <1>11. SeedIsSaved'
    BY <1>1, <1>3, InvParts DEF SeedIsSaved, InUse
  <1> QED
    BY <1>7, <1>8, <1>9, <1>10, <1>11 DEF StoreInv

\* The page keeps the table in order; while switching stays by application it
\* leaves the seed alone.
LEMMA PageStoreIs ==
    ASSUME StoreInv, mgr = "up", NEW c \in Config, NEW a \in Apps \cup {NoApp},
           NEW seeds \in BOOLEAN, NEW writes \in BOOLEAN
    PROVE  /\ TableOK(PageStore(c, a, seeds, writes)) /\ PageStore(c, a, seeds, writes) # NoStore
           /\ c.perApp /\ config.perApp =>
                 /\ PageStore(c, a, seeds, writes).seed = store.seed
                 /\ PageStore(c, a, seeds, writes).seeded = store.seeded
  <1> DEFINE seeded == IF TurnsOn(c) /\ seeds THEN WithSeed(store, config.input) ELSE store
  <1>1. TableOK(store) /\ config \in Config /\ config.input \in BOOLEAN /\ c.input \in BOOLEAN
    BY InvParts, ConfigParts
  <1>2. TableOK(seeded) /\ (config.perApp => seeded = store)
    BY <1>1, WithSeedIs DEF TurnsOn
  <1>3. PageStore(c, a, seeds, writes) = StoreSwitch(c, seeded, a, c.input, writes)
    BY DEF PageStore
  <1> HIDE DEF seeded
  <1>4. /\ TableOK(PageStore(c, a, seeds, writes)) /\ PageStore(c, a, seeds, writes) # NoStore
        /\ c.perApp => /\ PageStore(c, a, seeds, writes).seed = seeded.seed
                       /\ PageStore(c, a, seeds, writes).seeded = seeded.seeded
    <2>1. \A b \in BOOLEAN :
             /\ TableOK(StoreSwitch(c, seeded, a, b, writes)) /\ StoreSwitch(c, seeded, a, b, writes) # NoStore
             /\ c.perApp => /\ StoreSwitch(c, seeded, a, b, writes).seed = seeded.seed
                            /\ StoreSwitch(c, seeded, a, b, writes).seeded = seeded.seeded
      BY <1>2, StoreSwitchIs
    <2> QED
      BY <1>1, <1>3, <2>1
  <1> QED
    BY <1>2, <1>4

LEMMA UpdateConfigKeeps ==
    ASSUME StoreInv, NEW a \in Apps \cup {NoApp}, UpdateConfig(a)
    PROVE  StoreInv'
  <1>1. PICK c \in [valid : {TRUE}, input : BOOLEAN, perApp : BOOLEAN, other : Others] :
          /\ config' = c
          /\ latest' = SettingsOf(c)
          /\ \E seeds \in IF TurnsOn(c) THEN Attempts("store") ELSE {FALSE},
                writes \in Attempts("store") : store' = PageStore(c, a, seeds, writes)
    BY DEF UpdateConfig
  <1>2. PICK seeds \in BOOLEAN, writes \in BOOLEAN : store' = PageStore(c, a, seeds, writes)
    BY <1>1, AttemptsAre
  <1>3. mgr = "up" /\ UNCHANGED <<handles, cached>>
        /\ (\/ mgr' = "writing" /\ file' = Torn /\ UNCHANGED saved
            \/ mgr' = mgr /\ file' = file /\ saved' = NoFile)
    BY DEF UpdateConfig
  <1>4. c \in Config /\ c.valid
    BY DEF Config
  <1>5. /\ TableOK(store') /\ store' # NoStore
        /\ c.perApp /\ config.perApp => store'.seed = store.seed /\ store'.seeded = store.seeded
    BY <1>2, <1>3, <1>4, PageStoreIs
  <1>6. \A q, m : Holds(q, m)' <=> Holds(q, m)
    BY <1>3 DEF Holds
  <1>7. Holds(Manager, "config") /\ Holds(Manager, "store")
    BY <1>3, InvParts DEF HeldIsThere
  <1>8. latest' \in Settings \cup {Nothing} /\ saved' \in Config \cup {NoFile}
        /\ file' \in Config \cup {NoFile, Torn} /\ mgr' \in Phases
        /\ handles' \in [Processes -> SUBSET {"config", "store"}]
    BY <1>1, <1>3, <1>4, ConfigParts, InvParts DEF Typed, Phases
  <1>9. Typed' /\ HeldIsThere'
    BY <1>1, <1>3, <1>4, <1>5, <1>6, <1>7, <1>8, KeptMemories
  <1>10. SettingsKept'
    BY <1>1, <1>3, <1>4 DEF SettingsKept, InUse, Carries, SettingsOf
  <1>11. SavedIsFile'
    BY <1>3, InvParts DEF SavedIsFile
  <1>12. SavedIsUsed'
    BY <1>1, <1>3, <1>4, InvParts DEF SavedIsUsed, InUse
  <1>13. SeedIsSaved'
    <2>1. ASSUME mgr' = "writing", saved # NoFile, saved.perApp, store'.seeded, config'.perApp
          PROVE  store'.seed = saved.input
      <3>1. config \in Config /\ config # NoConfig /\ config.valid
        BY <1>3, <2>1, InvParts, Apart DEF SavedIsUsed, InUse
      <3>2. config.perApp
        BY <1>3, <2>1, <3>1, InvParts DEF SavedIsUsed
      <3> QED
        BY <1>1, <1>3, <1>5, <2>1, <3>2, InvParts DEF SeedIsSaved, InUse
    <2> QED
      BY <1>3, <2>1 DEF SeedIsSaved, InUse
  <1> QED
    BY <1>9, <1>10, <1>11, <1>12, <1>13 DEF StoreInv

LEMMA WriteConfigKeeps ==
    ASSUME StoreInv, WriteConfig
    PROVE  StoreInv'
  <1>1. /\ mgr = "writing" /\ mgr' = "up"
        /\ UNCHANGED <<config, store, handles, cached, latest>>
    BY DEF WriteConfig
  <1>2. config \in Config /\ config # NoConfig /\ config.valid /\ TableOK(store) /\ store # NoStore
    BY <1>1, InvParts, Apart DEF SavedIsUsed
  <1>3. \/ file' = file /\ saved' = NoFile
        \/ /\ file' \in Config /\ saved' \in {file', NoFile}
           /\ saved' # NoFile /\ config.perApp /\ store.seeded => saved'.input = store.seed
           /\ saved' # NoFile => saved'.perApp = config.perApp /\ saved'.valid = config.valid
    <2>1. CASE file' = file /\ saved' = NoFile
      BY <2>1
    <2>2. ASSUME NEW reads \in Attempts("store"), file' = Snapshot(config, store, reads),
                 saved' = IF reads THEN file' ELSE NoFile
          PROVE  /\ file' \in Config /\ saved' \in {file', NoFile}
                 /\ saved' # NoFile /\ config.perApp /\ store.seeded => saved'.input = store.seed
                 /\ saved' # NoFile => saved'.perApp = config.perApp /\ saved'.valid = config.valid
      <3>1. reads \in BOOLEAN
        BY AttemptsAre
      <3> QED
        BY <1>2, <2>2, <3>1, SnapshotIs
    <2> QED
      BY <2>1, <2>2 DEF WriteConfig
  <1>4. \A q, m : Holds(q, m)' <=> Holds(q, m)
    BY <1>1 DEF Holds
  <1>5. Holds(Manager, "config") /\ Holds(Manager, "store")
    BY <1>1, InvParts DEF HeldIsThere
  <1>6. Typed' /\ HeldIsThere'
    BY <1>1, <1>2, <1>3, <1>4, <1>5, KeptMemories, InvParts DEF Typed, Phases
  <1>7. SettingsKept'
    BY <1>1, InvParts DEF SettingsKept, InUse, Carries
  <1>8. SavedIsFile'
    BY <1>1, <1>3 DEF SavedIsFile
  <1>9. SavedIsUsed'
    BY <1>1, <1>2, <1>3 DEF SavedIsUsed, InUse
  <1>10. SeedIsSaved'
    BY <1>1, <1>3 DEF SeedIsSaved, InUse
  <1> QED
    BY <1>6, <1>7, <1>8, <1>9, <1>10 DEF StoreInv

\* What the end of the manager does to the memories.
LEMMA ManagerCloses ==
    ASSUME StoreInv, NEW closed, Closes(Manager, closed),
           file' \in Config \cup {NoFile, Torn}, mgr' \in Phases, cached' = cached,
           latest' \in Settings \cup {Nothing}, saved' \in Config \cup {NoFile},
           mgr' \notin {"up", "writing"},
           mgr' # "down" => mgr # "down" /\ "config" \notin closed
    PROVE  /\ Typed' /\ HeldIsThere'
           /\ config' \in {config, NoConfig} /\ store' \in {store, NoStore}
           /\ mgr' # "down" => config' = config
  <1>1. /\ handles' \in [Processes -> SUBSET {"config", "store"}]
        /\ config' \in {config, NoConfig} /\ store' \in {store, NoStore}
        /\ \A q \in Processes : Holds(q, "config")' => config' # NoConfig
        /\ \A q \in Processes : Holds(q, "store")' => store' # NoStore
        /\ mgr' # "down" => config' = config /\ Holds(Manager, "config")'
    <2>1. mgr' # "down" => Holds(Manager, "config")
      BY InvParts DEF HeldIsThere
    <2> QED
      BY <2>1, ClosesIs, ManagerIs
  <1>2. HeldIsThere'
    BY <1>1 DEF HeldIsThere
  <1>3. store' # NoStore => TableOK(store)'
    BY <1>1, InvParts DEF TableOK
  <1>4. config' \in Config \cup {NoConfig} /\ cached' \in [TsfApps -> BOOLEAN]
    BY <1>1, InvParts DEF Typed
  <1>5. Typed'
    BY <1>1, <1>3, <1>4 DEF Typed
  <1> QED
    BY <1>1, <1>2, <1>5

LEMMA LeaveLoopKeeps ==
    ASSUME StoreInv, LeaveLoop
    PROVE  StoreInv'
  <1>1. mgr = "up" /\ mgr' = "closing" /\ Closes(Manager, {"store"})
        /\ UNCHANGED <<file, cached, latest, saved>>
    BY DEF LeaveLoop
  <1>2. /\ Typed' /\ HeldIsThere' /\ config' = config /\ store' \in {store, NoStore}
    BY <1>1, ManagerCloses, InvParts DEF Typed, Phases
  <1>3. SettingsKept'
    BY <1>1, <1>2, InvParts DEF SettingsKept, InUse, Carries
  <1>4. SavedIsFile'
    BY <1>1, InvParts DEF SavedIsFile
  <1>5. SavedIsUsed'
    BY <1>1, <1>2, InvParts DEF SavedIsUsed, InUse
  <1>6. SeedIsSaved'
    BY <1>1, <1>2, InvParts DEF SeedIsSaved, InUse
  <1> QED
    BY <1>2, <1>3, <1>4, <1>5, <1>6 DEF StoreInv

LEMMA TruncateFileKeeps ==
    ASSUME StoreInv, TruncateFile
    PROVE  StoreInv'
  <1>1. mgr = "closing" /\ mgr' = "saving" /\ file' = Torn
        /\ UNCHANGED <<config, store, handles, cached, latest, saved>>
    BY DEF TruncateFile
  <1>2. \A q, m : Holds(q, m)' <=> Holds(q, m)
    BY <1>1 DEF Holds
  <1>3. Holds(Manager, "config")
    BY <1>1, InvParts DEF HeldIsThere
  <1>4. Typed' /\ HeldIsThere'
    BY <1>1, <1>2, <1>3, KeptMemories, InvParts DEF Typed, Phases
  <1>5. SettingsKept'
    BY <1>1, InvParts DEF SettingsKept, InUse, Carries
  <1>6. SavedIsFile'
    BY <1>1 DEF SavedIsFile
  <1>7. SavedIsUsed'
    BY <1>1, InvParts DEF SavedIsUsed, InUse
  <1>8. SeedIsSaved'
    BY <1>1, InvParts DEF SeedIsSaved, InUse
  <1> QED
    BY <1>4, <1>5, <1>6, <1>7, <1>8 DEF StoreInv

LEMMA CleanExitKeeps ==
    ASSUME StoreInv, CleanExit
    PROVE  StoreInv'
  <1>1. /\ mgr = "saving" /\ mgr' = "down" /\ Closes(Manager, {"config", "store"})
        /\ latest' = (IF config.valid THEN latest ELSE Nothing)
        /\ UNCHANGED cached
    BY DEF CleanExit
  <1>2. PICK reads \in Attempts("store") :
            /\ file' = ExitFile(reads)
            /\ saved' = IF reads THEN file' ELSE NoFile
    BY DEF CleanExit
  <1>3. reads \in BOOLEAN /\ config \in Config /\ config # NoConfig
    BY <1>1, InvParts, Apart, AttemptsAre
  <1>4. /\ file' \in Config /\ saved' \in {file', NoFile}
        /\ file'.valid = config.valid /\ file'.perApp = config.perApp
        /\ SettingsOf(file') = SettingsOf(config)
        /\ saved' # NoFile /\ config.perApp /\ Opened(store).seeded => saved'.input = Opened(store).seed
    BY <1>2, <1>3, InvParts, SnapshotIs DEF ExitFile
  <1>5. latest' \in Settings \cup {Nothing}
    BY <1>1, InvParts DEF Typed
  <1>6. Typed' /\ HeldIsThere' /\ config' \in {config, NoConfig} /\ store' \in {store, NoStore}
    BY <1>1, <1>4, <1>5, ManagerCloses DEF Phases
  <1>7. SettingsKept'
    <2>1. latest' # Nothing => Carries(config) /\ latest' = latest
      BY <1>1, InvParts DEF SettingsKept, InUse
    <2> QED
      BY <1>1, <1>4, <1>6, <2>1 DEF SettingsKept, InUse, Carries
  <1>8. SavedIsFile'
    BY <1>1, <1>4 DEF SavedIsFile
  <1>9. ~config.valid => ~config.perApp
    BY <1>3, InvParts DEF SavedIsUsed
  <1>10. config.valid \in BOOLEAN /\ config.perApp \in BOOLEAN
    BY <1>3, ConfigParts
  <1>11. SavedIsUsed'
    BY <1>1, <1>3, <1>4, <1>6, <1>9, <1>10 DEF SavedIsUsed, InUse
  <1>12. SeedIsSaved'
    <2>1. store' # NoStore => store' = store /\ Opened(store) = store
      BY <1>6 DEF Opened
    <2> QED
      BY <1>1, <1>4, <2>1 DEF SeedIsSaved, InUse
  <1> QED
    BY <1>6, <1>7, <1>8, <1>11, <1>12 DEF StoreInv

LEMMA ManagerStopsKeeps ==
    ASSUME StoreInv, ManagerStops
    PROVE  StoreInv'
  <1>1. /\ mgr # "down" /\ mgr' = "down" /\ latest' = Nothing
        /\ saved' = (IF file = Torn THEN NoFile ELSE saved)
        /\ Closes(Manager, {"config", "store"})
        /\ UNCHANGED <<file, cached>>
    BY DEF ManagerStops
  <1>2. Typed' /\ HeldIsThere' /\ config' \in {config, NoConfig} /\ store' \in {store, NoStore}
    BY <1>1, ManagerCloses, InvParts DEF Typed, Phases
  <1>3. SettingsKept'
    BY <1>1 DEF SettingsKept, InUse
  <1>4. saved' # NoFile => saved' = saved /\ mgr \notin {"writing", "saving"} /\ file = saved
    BY <1>1, InvParts DEF SavedIsFile
  <1>5. SavedIsFile'
    BY <1>1, <1>4 DEF SavedIsFile
  <1>6. SavedIsUsed'
    BY <1>1, <1>2, <1>4, InvParts DEF SavedIsUsed, InUse
  <1>7. SeedIsSaved'
    <2>1. config # NoConfig
      BY <1>1, InvParts, Apart
    <2>2. saved' # NoFile /\ saved'.perApp /\ InUse => config.perApp
      BY <1>1, <1>4, <2>1, InvParts DEF SavedIsUsed, InUse
    <2> QED
      BY <1>1, <1>2, <1>4, <2>2, InvParts DEF SeedIsSaved, InUse
  <1> QED
    BY <1>2, <1>3, <1>5, <1>6, <1>7 DEF StoreInv

LEMMA UpdateCachedKeeps ==
    ASSUME StoreInv, NEW a \in TsfApps, UpdateCached(a)
    PROVE  StoreInv'
  <1>1. config # NoConfig /\ Opens(a, "config") /\ UNCHANGED <<config, store, file, mgr, latest, saved>>
    BY DEF UpdateCached
  <1>2. config.perApp \in BOOLEAN
    BY <1>1, InvParts, ConfigParts
  <1>3. cached' \in [TsfApps -> BOOLEAN]
    BY <1>2, InvParts DEF UpdateCached, Typed
  <1>4. /\ handles' \in [Processes -> SUBSET {"config", "store"}]
        /\ \A q \in Processes : \A m : Holds(q, m)' <=> Holds(q, m) \/ (q = a /\ m = "config")
    BY <1>1, OpensIs, ManagerIs
  <1>5. HeldIsThere'
    BY <1>1, <1>4, InvParts, ManagerIs DEF HeldIsThere
  <1> QED
    BY <1>1, <1>3, <1>4, <1>5, BesideKeeps

LEMMA AskStoreKeeps ==
    ASSUME StoreInv, NEW a \in TsfApps, AskStore(a)
    PROVE  StoreInv'
  <1>1. store' = Opened(store) /\ Opens(a, "store") /\ UNCHANGED <<config, file, mgr, cached, latest, saved>>
    BY DEF AskStore
  <1>2. cached' \in [TsfApps -> BOOLEAN]
    BY <1>1, InvParts DEF Typed
  <1>3. /\ handles' \in [Processes -> SUBSET {"config", "store"}]
        /\ \A q \in Processes : \A m : Holds(q, m)' <=> Holds(q, m) \/ (q = a /\ m = "store")
    BY <1>1, OpensIs, ManagerIs
  <1>4. HeldIsThere'
    BY <1>1, <1>3, InvParts, ManagerIs DEF HeldIsThere
  <1> QED
    BY <1>1, <1>2, <1>3, <1>4, BesideKeeps

\* An application leaves: the manager keeps what it holds.
LEMMA AppCloses ==
    ASSUME StoreInv, NEW a \in TsfApps, NEW closed, Closes(a, closed),
           cached' = [cached EXCEPT ![a] = FALSE],
           UNCHANGED <<file, mgr, latest, saved>>
    PROVE  StoreInv'
  <1>1. /\ handles' \in [Processes -> SUBSET {"config", "store"}]
        /\ config' \in {config, NoConfig} /\ store' \in {store, NoStore}
        /\ \A q \in Processes : Holds(q, "config")' => config' # NoConfig
        /\ \A q \in Processes : Holds(q, "store")' => store' # NoStore
        /\ Holds(Manager, "config") => config' = config /\ Holds(Manager, "config")'
        /\ Holds(Manager, "store") => Holds(Manager, "store")'
    BY ClosesIs, ManagerIs
  <1>2. HeldIsThere'
    BY <1>1, InvParts DEF HeldIsThere
  <1>3. config' = config \/ (config' = NoConfig /\ mgr = "down")
    BY <1>1, InvParts DEF HeldIsThere
  <1>4. cached' \in [TsfApps -> BOOLEAN]
    BY InvParts DEF Typed
  <1> QED
    BY <1>1, <1>2, <1>3, <1>4, BesideKeeps

LEMMA InitHolds == Init => StoreInv
  <1> SUFFICES ASSUME Init
               PROVE  StoreInv
    OBVIOUS
  <1>1. /\ config = NoConfig /\ store = NoStore /\ file = NoFile /\ mgr = "down"
        /\ handles = [p \in Processes |-> {}] /\ cached = [a \in TsfApps |-> FALSE]
        /\ latest = Nothing /\ saved = NoFile
    BY DEF Init
  <1>2. Typed
    BY <1>1 DEF Typed, Phases
  <1>3. HeldIsThere
    BY <1>1 DEF HeldIsThere, Holds
  <1>4. SettingsKept /\ SavedIsFile /\ SavedIsUsed /\ SeedIsSaved
    BY <1>1 DEF SettingsKept, SavedIsFile, SavedIsUsed, SeedIsSaved, InUse
  <1> QED
    BY <1>2, <1>3, <1>4 DEF StoreInv

LEMMA NextHolds == StoreInv /\ [Next]_vars => StoreInv'
  <1> SUFFICES ASSUME StoreInv, [Next]_vars
               PROVE  StoreInv'
    OBVIOUS
  <1>1. CASE UNCHANGED vars
    BY <1>1 DEF vars, StoreInv, Typed, TableOK, HeldIsThere, Holds, SettingsKept, Carries, InUse,
                SavedIsFile, SavedIsUsed, SeedIsSaved
  <1>2. CASE MapConfig \/ FillConfig \/ FillTimeout \/ KeepConfig
    BY <1>2, MapConfigKeeps, FillConfigKeeps, FillTimeoutKeeps, KeepConfigKeeps
  <1>3. CASE \E a \in Apps \cup {NoApp} : ToggleInputState(a) \/ UpdateConfig(a)
    BY <1>3, ToggleKeeps, UpdateConfigKeeps
  <1>4. CASE \E v \in Others : ChooseOther(v)
    BY <1>4, ChooseOtherKeeps
  <1>5. CASE WriteConfig \/ LeaveLoop \/ TruncateFile \/ CleanExit \/ ManagerStops
    BY <1>5, WriteConfigKeeps, LeaveLoopKeeps, TruncateFileKeeps, CleanExitKeeps, ManagerStopsKeeps
  <1>6. CASE \E a \in TsfApps : UpdateCached(a) \/ AskStore(a)
    BY <1>6, UpdateCachedKeeps, AskStoreKeeps
  <1>7. CASE \E a \in TsfApps : Deactivate(a) \/ AppExit(a)
    BY <1>7, AppCloses DEF Deactivate, AppExit
  <1> QED
    BY <1>1, <1>2, <1>3, <1>4, <1>5, <1>6, <1>7 DEF Next

LEMMA StoreInvHolds == Spec => []StoreInv
  BY InitHolds, NextHolds, PTL DEF Spec

-----------------------------------------------------------------------------
(* The settings, the file and the saved switch.                              *)

(* The memories, the file and the handles have their types, and no           *)
(* application with a short name has two entries in the table.               *)
THEOREM SettingsTyped == Spec => []TypeOK
  <1>1. StoreInv => TypeOK
    <2> SUFFICES ASSUME StoreInv
                 PROVE  TypeOK
      OBVIOUS
    <2>1. Typed
      BY InvParts
    <2>2. ASSUME store # NoStore
          PROVE  /\ store \in Store /\ Len(store.table) <= Slots
                 /\ \A a \in Apps : Cardinality(Entries(store, a)) <= 1
      <3>1. TableOK(store)
        BY <2>2, InvParts
      <3> QED
        BY <3>1, OneEntry DEF TableOK
    <2> QED
      BY <2>1, <2>2 DEF TypeOK, Typed, Phases
  <1> QED
    BY <1>1, StoreInvHolds, PTL

(* What the user set last is what the manager runs with after a clean exit   *)
(* and a new start, whether the mapping survived in an application or the    *)
(* file was read (InitSharedMemory, CleanupSharedMemory): every setting but   *)
(* the on/off switch itself.                                                 *)
THEOREM SettingsKeptByExit == Spec => []SettingsSurviveExit
  <1>1. StoreInv => SettingsSurviveExit
    BY InvParts DEF SettingsSurviveExit, Running, SettingsKept, InUse, Carries
  <1> QED
    BY <1>1, StoreInvHolds, PTL

(* A save of the running manager that finds its seed in the store writes the *)
(* switch that was saved before, while switching is by application           *)
(* (BuildPersistedConfigSnapshot).                                           *)
THEOREM SeedKeptBySaves == Spec => SeedKept
  <1> DEFINE Kept == Running /\ Running' /\ {saved, saved'} \subseteq Config
                     /\ saved.perApp /\ saved'.perApp /\ store.seeded
                     => saved'.input = saved.input
  <1>1. ASSUME StoreInv, [Next]_vars
        PROVE  Kept
    <2> SUFFICES ASSUME Running, Running', saved \in Config, saved' \in Config,
                        saved.perApp, saved'.perApp, store.seeded, saved' # saved
                 PROVE  saved'.input = saved.input
      OBVIOUS
    <2>1. saved # NoFile /\ saved' # NoFile
      BY Apart
    <2>2. WriteConfig
      <3>1. ~(MapConfig \/ FillConfig \/ FillTimeout \/ KeepConfig)
        BY DEF Running, MapConfig, FillConfig, FillTimeout, KeepConfig
      <3>2. ~(LeaveLoop \/ TruncateFile \/ CleanExit \/ ManagerStops)
        BY DEF Running, LeaveLoop, TruncateFile, CleanExit, ManagerStops
      <3>3. \A a \in Apps \cup {NoApp} : ~ToggleInputState(a) /\ ~UpdateConfig(a)
        BY <2>1 DEF ToggleInputState, UpdateConfig
      <3>4. \A v \in Others : ~ChooseOther(v)
        BY DEF ChooseOther
      <3>5. \A a \in TsfApps : ~(UpdateCached(a) \/ AskStore(a) \/ Deactivate(a) \/ AppExit(a))
        BY DEF UpdateCached, AskStore, Deactivate, AppExit
      <3>6. Next
        BY <1>1 DEF vars
      <3>7. \/ MapConfig \/ FillConfig \/ FillTimeout \/ KeepConfig
            \/ \E a \in Apps \cup {NoApp} : ToggleInputState(a) \/ UpdateConfig(a)
            \/ \E v \in Others : ChooseOther(v)
            \/ WriteConfig
            \/ LeaveLoop \/ TruncateFile \/ CleanExit \/ ManagerStops
            \/ \E a \in TsfApps : UpdateCached(a) \/ AskStore(a) \/ Deactivate(a) \/ AppExit(a)
        BY <3>6, Zenon DEF Next
      <3> QED
        BY <3>1, <3>2, <3>3, <3>4, <3>5, <3>7, Zenon
    <2>3. mgr = "writing" /\ config \in Config /\ store # NoStore /\ TableOK(store)
      <3>1. mgr = "writing"
        BY <2>2 DEF WriteConfig
      <3> QED
        BY <1>1, <3>1, InvParts
    <2>4. PICK reads \in Attempts("store") :
              file' = Snapshot(config, store, reads) /\ saved' = IF reads THEN file' ELSE NoFile
      BY <2>1, <2>2 DEF WriteConfig
    <2>5. reads /\ reads \in BOOLEAN /\ saved' = Snapshot(config, store, reads)
      BY <2>1, <2>4, AttemptsAre
    <2>6. config.perApp
      BY <2>3, <2>5, SnapshotIs
    <2>7. saved'.input = store.seed
      BY <2>3, <2>5, <2>6, SnapshotIs
    <2>8. store.seed = saved.input
      <3>1. SeedIsSaved
        BY <1>1, InvParts
      <3> QED
        BY <2>1, <2>3, <2>6, <3>1 DEF SeedIsSaved
    <2> QED
      BY <2>7, <2>8
  <1> QED
    BY <1>1, StoreInvHolds, PTL DEF Spec, SeedKept

-----------------------------------------------------------------------------
(* The table implements the switches of InputSwitch.                         *)

LEMMA KnownIs ==
    ASSUME NEW s, TableOK(s)
    PROVE  /\ DOMAIN KnownOf(s) = {b \in Apps : Entries(s, b) # {}}
           /\ \A b \in Apps : \A i \in Entries(s, b) : KnownOf(s)[b] = s.table[i].on
           /\ KnownOf(s) = [b \in DOMAIN KnownOf(s) |-> KnownOf(s)[b]]
  <1>1. s # NoStore
    BY Apart DEF TableOK
  <1>2. DOMAIN KnownOf(s) = {b \in Apps : Entries(s, b) # {}}
    BY <1>1 DEF KnownOf
  <1>3. ASSUME NEW b \in Apps, NEW i \in Entries(s, b)
        PROVE  KnownOf(s)[b] = s.table[i].on
    <2>1. KnownOf(s)[b] = s.table[Min(Entries(s, b))].on
      BY <1>1, <1>3 DEF KnownOf
    <2> QED
      BY <1>3, <2>1, EntryIs
  <1>4. KnownOf(s) = [b \in DOMAIN KnownOf(s) |-> KnownOf(s)[b]]
    BY DEF KnownOf
  <1> QED
    BY <1>2, <1>3, <1>4

\* Tables with the same entries know the same.
LEMMA SameKnown ==
    ASSUME NEW s, TableOK(s), NEW t, TableOK(t),
           \A b \in Apps : /\ Entries(t, b) = Entries(s, b)
                           /\ \A i \in Entries(s, b) : t.table[i].on = s.table[i].on
    PROVE  KnownOf(t) = KnownOf(s)
  <1>1. DOMAIN KnownOf(t) = DOMAIN KnownOf(s)
    BY KnownIs
  <1>2. ASSUME NEW b \in DOMAIN KnownOf(s)
        PROVE  KnownOf(t)[b] = KnownOf(s)[b]
    <2>1. b \in Apps /\ Entries(s, b) # {}
      BY <1>2, KnownIs
    <2>2. PICK i \in Entries(s, b) : TRUE
      BY <2>1
    <2>3. KnownOf(s)[b] = s.table[i].on
      BY <2>1, <2>2, KnownIs
    <2>4. KnownOf(t)[b] = t.table[i].on
      BY <2>1, <2>2, KnownIs
    <2> QED
      BY <2>1, <2>2, <2>3, <2>4
  <1>3. KnownOf(t) = [b \in DOMAIN KnownOf(t) |-> KnownOf(t)[b]]
        /\ KnownOf(s) = [b \in DOMAIN KnownOf(s) |-> KnownOf(s)[b]]
    BY KnownIs
  <1> QED
    BY <1>1, <1>2, <1>3

LEMMA NobodyKnown == KnownOf(NoStore) = Promise!Nobody /\ KnownOf(ZeroStore) = Promise!Nobody
  <1>1. DOMAIN KnownOf(NoStore) = {} /\ DOMAIN KnownOf(ZeroStore) = {}
    BY EmptyTable DEF KnownOf
  <1>2. \A s : KnownOf(s) = [b \in DOMAIN KnownOf(s) |-> KnownOf(s)[b]]
    BY DEF KnownOf
  <1>3. KnownOf(NoStore) = [b \in {} |-> KnownOf(NoStore)[b]]
        /\ KnownOf(ZeroStore) = [b \in {} |-> KnownOf(ZeroStore)[b]]
    BY <1>1, <1>2
  <1>4. KnownOf(NoStore) = [b \in {} |-> FALSE] /\ KnownOf(ZeroStore) = [b \in {} |-> FALSE]
    BY <1>3
  <1> QED
    BY <1>4 DEF Promise!Nobody

\* The store in which an application is remembered, in the promise's words.
Remembers(c, s, a, writes) ==
    /\ c.perApp /\ writes /\ a \in Apps \ LongNames
    /\ a \in DOMAIN KnownOf(s) \/ Len(s.table) < Slots

Learning(s, a, v) ==
    [b \in DOMAIN KnownOf(s) \cup {a} |-> IF b = a THEN v ELSE KnownOf(s)[b]]

LEMMA KnownAfter ==
    ASSUME NEW c \in Config, NEW s, TableOK(s), NEW a \in Apps \cup {NoApp},
           NEW v \in BOOLEAN, NEW writes \in BOOLEAN
    PROVE  KnownOf(StoreSwitch(c, s, a, v, writes)) =
               IF Remembers(c, s, a, writes) THEN Learning(s, a, v) ELSE KnownOf(s)
  <1> DEFINE t == StoreSwitch(c, s, a, v, writes)
  <1>1. TableOK(t)
    BY StoreSwitchIs
  <1>2. CASE ~writes
    BY <1>2 DEF StoreSwitch, Remembers
  <1>3. CASE writes /\ ~c.perApp
    <2>1. t = WithSeed(s, v)
      BY <1>3 DEF StoreSwitch
    <2>2. t.table = s.table
      BY <2>1, WithSeedIs
    <2> HIDE DEF t
    <2>3. KnownOf(t) = KnownOf(s)
      BY <1>1, <2>2, SameKnown DEF Entries
    <2> QED
      BY <1>3, <2>3 DEF Remembers, t
  <1>4. CASE writes /\ c.perApp /\ a = NoApp
    BY <1>4, Apart DEF StoreSwitch, Remembers
  <1>5. CASE writes /\ c.perApp /\ a # NoApp
    <2>1. a \in Apps /\ t = WithEntry(s, a, v)
      BY <1>5 DEF StoreSwitch
    <2> HIDE DEF t
    <2>2. /\ \A b \in Apps : b # a =>
                 /\ Entries(t, b) = Entries(s, b)
                 /\ \A i \in Entries(s, b) : t.table[i].on = s.table[i].on
          /\ (Entries(s, a) # {} \/ (Len(s.table) < Slots /\ a \notin LongNames)) =>
                 \E i \in Entries(t, a) : t.table[i].on = v
          /\ (Entries(s, a) = {} /\ (Len(s.table) >= Slots \/ a \in LongNames)) =>
                 Entries(t, a) = {}
      BY <2>1, WithEntryIs
    <2>3. a \in LongNames => Entries(s, a) = {}
      BY DEF Entries, TableOK
    <2>4. Len(s.table) \in Nat /\ Slots \in Nat
      BY Apart DEF TableOK, Store
    <2>5. CASE Remembers(c, s, a, writes)
      <3>1. Entries(s, a) # {} \/ (Len(s.table) < Slots /\ a \notin LongNames)
        <4>1. DOMAIN KnownOf(s) = {b \in Apps : Entries(s, b) # {}}
          BY KnownIs
        <4> QED
          BY <2>5, <4>1 DEF Remembers
      <3>2. PICK i \in Entries(t, a) : t.table[i].on = v
        BY <2>2, <3>1
      <3>3. a \in DOMAIN KnownOf(t) /\ KnownOf(t)[a] = v
        BY <1>1, <2>1, <3>2, KnownIs DEF t
      <3>4. ASSUME NEW b \in Apps, b # a
            PROVE  /\ b \in DOMAIN KnownOf(t) <=> b \in DOMAIN KnownOf(s)
                   /\ b \in DOMAIN KnownOf(s) => KnownOf(t)[b] = KnownOf(s)[b]
        <4>1. Entries(t, b) = Entries(s, b) /\ \A j \in Entries(s, b) : t.table[j].on = s.table[j].on
          BY <2>2, <3>4
        <4>0. TableOK(t)
          BY <1>1 DEF t
        <4>2. b \in DOMAIN KnownOf(t) <=> b \in DOMAIN KnownOf(s)
          <5>1. DOMAIN KnownOf(t) = {d \in Apps : Entries(t, d) # {}}
            BY <4>0, KnownIs
          <5>2. DOMAIN KnownOf(s) = {d \in Apps : Entries(s, d) # {}}
            BY KnownIs
          <5> QED
            BY <4>1, <5>1, <5>2
        <4>3. ASSUME NEW k \in Entries(s, b)
              PROVE  KnownOf(t)[b] = KnownOf(s)[b]
          <5>1. KnownOf(t)[b] = t.table[k].on
            BY <4>0, <4>1, <4>3, <3>4, KnownIs
          <5>2. KnownOf(s)[b] = s.table[k].on
            BY <4>3, <3>4, KnownIs
          <5> QED
            BY <4>1, <4>3, <5>1, <5>2
        <4>4. b \in DOMAIN KnownOf(s) => Entries(s, b) # {}
          BY KnownIs
        <4> QED
          BY <4>2, <4>3, <4>4
      <3>5. DOMAIN KnownOf(t) = DOMAIN KnownOf(s) \cup {a}
        <4>1. DOMAIN KnownOf(t) \subseteq Apps /\ DOMAIN KnownOf(s) \subseteq Apps
          BY <1>1, KnownIs DEF t
        <4> QED
          BY <2>1, <3>3, <3>4, <4>1
      <3>6. \A b \in DOMAIN KnownOf(t) : KnownOf(t)[b] = IF b = a THEN v ELSE KnownOf(s)[b]
        <4>1. DOMAIN KnownOf(t) \subseteq Apps
          BY <1>1, KnownIs DEF t
        <4> QED
          BY <3>3, <3>4, <4>1
      <3>7. KnownOf(t) = [b \in DOMAIN KnownOf(t) |-> KnownOf(t)[b]]
        BY <1>1, KnownIs DEF t
      <3>8. KnownOf(t) = Learning(s, a, v)
        BY <3>5, <3>6, <3>7 DEF Learning
      <3> QED
        BY <2>5, <3>8 DEF t
    <2>6. CASE ~Remembers(c, s, a, writes)
      <3>1. Entries(s, a) = {} /\ (Len(s.table) >= Slots \/ a \in LongNames)
        <4>1. DOMAIN KnownOf(s) = {b \in Apps : Entries(s, b) # {}}
          BY KnownIs
        <4>2. ~(a \in Apps \ LongNames /\ (a \in DOMAIN KnownOf(s) \/ Len(s.table) < Slots))
          BY <1>5, <2>6 DEF Remembers
        <4> QED
          BY <2>1, <2>3, <2>4, <4>1, <4>2
      <3>2. Entries(t, a) = {}
        BY <2>2, <3>1
      <3>3. \A b \in Apps : /\ Entries(t, b) = Entries(s, b)
                            /\ \A i \in Entries(s, b) : t.table[i].on = s.table[i].on
        BY <2>2, <3>1, <3>2
      <3>4. KnownOf(t) = KnownOf(s)
        <4>1. TableOK(t)
          BY <1>1 DEF t
        <4> QED
          BY <3>3, <4>1, SameKnown
      <3> QED
        BY <2>6, <3>4 DEF t
    <2> QED
      BY <2>5, <2>6
  <1> QED
    BY <1>2, <1>3, <1>4, <1>5

\* What an application is set to, in the table's words and in the promise's.
LEMMA ResolveIsOn ==
    ASSUME NEW c \in Config, NEW s, TableOK(s), NEW a \in Apps \cup {NoApp}, NEW reads \in BOOLEAN
    PROVE  ResolveEffective(c, s, a, reads) =
               IF c.perApp /\ reads /\ a \in DOMAIN KnownOf(s) THEN KnownOf(s)[a] ELSE c.input
  <1>1. DOMAIN KnownOf(s) = {b \in Apps : Entries(s, b) # {}}
    BY KnownIs
  <1>2. CASE c.perApp /\ reads /\ a \in DOMAIN KnownOf(s)
    <2>1. a \in Apps /\ Entries(s, a) # {} /\ a # NoApp
      BY <1>1, <1>2, Apart
    <2>2. PICK i \in Entries(s, a) : TRUE
      BY <2>1
    <2>3. Min(Entries(s, a)) = i
      BY <2>1, <2>2, EntryIs
    <2>4. KnownOf(s)[a] = s.table[i].on
      BY <2>1, <2>2, KnownIs
    <2>5. ResolveEffective(c, s, a, reads) = s.table[i].on
      BY <1>2, <2>1, <2>3 DEF ResolveEffective
    <2> QED
      BY <1>2, <2>4, <2>5
  <1>3. CASE ~(c.perApp /\ reads /\ a \in DOMAIN KnownOf(s))
    <2>1. ~(c.perApp /\ a # NoApp /\ reads /\ Entries(s, a) # {})
      BY <1>1, <1>3
    <2> QED
      BY <1>3, <2>1 DEF ResolveEffective
  <1> QED
    BY <1>2, <1>3

LEMMA KnownPrime == KnownOf(store)' = KnownOf(store')
  BY DEF KnownOf, Entries

LEMMA SwitchAttempts == Promise!Attempts = Attempts("store")
  BY DEF Promise!Attempts, Attempts

\* Setting an application's switch in the table is Switch of the promise.
LEMMA SwitchIs ==
    ASSUME NEW s, TableOK(s), TableOK(store), store # NoStore, config \in Config,
           KnownOf(s) = KnownOf(store), Len(s.table) = Len(store.table),
           NEW c \in Config, NEW a \in Apps \cup {NoApp}, NEW v \in BOOLEAN,
           NEW writes \in BOOLEAN, writes \in Attempts("store"),
           config' \in Config, config'.perApp = c.perApp, config'.input = v,
           store' = StoreSwitch(c, s, a, v, writes)
    PROVE  Promise!Switch(a, v)
  <1>1. writes \in BOOLEAN /\ writes \in Promise!Attempts
    BY AttemptsAre, SwitchAttempts
  <1>2. config' # NoConfig
    BY Apart
  <1>3. KnownOf(store') = IF Remembers(c, s, a, writes) THEN Learning(s, a, v) ELSE KnownOf(s)
    <2>1. \A b \in BOOLEAN : KnownOf(StoreSwitch(c, s, a, b, writes)) =
                              IF Remembers(c, s, a, writes) THEN Learning(s, a, b) ELSE KnownOf(s)
      BY KnownAfter
    <2> QED
      BY <2>1
  <1>4. Promise!Rememberable(a) <=>
            a \in Apps \ LongNames /\ (a \in DOMAIN KnownOf(s) \/ Len(s.table) < Slots)
    BY DEF Promise!Rememberable
  <1>5. Promise!Knowing(a, v) = Learning(s, a, v)
    BY DEF Promise!Knowing, Learning
  <1>6. KnownOf(store') =
               IF c.perApp /\ writes /\ Promise!Rememberable(a) THEN Promise!Knowing(a, v) ELSE KnownOf(store)
    BY <1>3, <1>4, <1>5 DEF Remembers
  <1>7. (config' # NoConfig /\ config'.input) = v
    BY <1>2
  <1>8. (config' # NoConfig /\ config'.perApp) = c.perApp
    BY <1>2, ConfigParts
  <1> QED
    BY <1>1, <1>6, <1>7, <1>8, KnownPrime DEF Promise!Switch

LEMMA ToggleIs ==
    ASSUME StoreInv, NEW a \in Apps \cup {NoApp}, ToggleInputState(a)
    PROVE  Promise!Toggle(a)
  <1>1. mgr = "up"
    BY DEF ToggleInputState
  <1>2. config \in Config /\ config # NoConfig /\ TableOK(store) /\ store # NoStore
    BY <1>1, InvParts, Apart
  <1>3. PICK reads \in Attempts("store"), writes \in Attempts("store") :
            LET v == ~ResolveEffective(config, store, a, reads) IN
            /\ config' = [config EXCEPT !.input = v]
            /\ store' = StoreSwitch(config, store, a, v, writes)
    BY DEF ToggleInputState
  <1> DEFINE v == ~ResolveEffective(config, store, a, reads)
  <1>4. v \in BOOLEAN /\ writes \in BOOLEAN /\ reads \in BOOLEAN
    BY <1>2, ResolveIs, AttemptsAre
  <1>5. config' = [config EXCEPT !.input = v] /\ store' = StoreSwitch(config, store, a, v, writes)
    BY <1>3
  <1>6. v = ~Promise!IsOn(a, reads)
    <2>1. ResolveEffective(config, store, a, reads) =
              IF config.perApp /\ reads /\ a \in DOMAIN KnownOf(store) THEN KnownOf(store)[a] ELSE config.input
      BY <1>2, <1>4, ResolveIsOn
    <2>2. config.input \in BOOLEAN /\ config.perApp \in BOOLEAN
      BY <1>2, ConfigParts
    <2>3. (config # NoConfig /\ config.input) = config.input /\ (config # NoConfig /\ config.perApp) = config.perApp
      BY <1>2, <2>2
    <2>4. Promise!IsOn(a, reads) = ResolveEffective(config, store, a, reads)
      BY <2>1, <2>3 DEF Promise!IsOn
    <2> QED
      BY <2>4
  <1> HIDE DEF v
  <1>7. /\ config' \in Config /\ config'.perApp = config.perApp /\ config'.input = v
    BY <1>2, <1>4, <1>5 DEF Config
  <1>8. Promise!Switch(a, v)
    BY <1>2, <1>4, <1>5, <1>7, SwitchIs
  <1>9. (config' # NoConfig /\ config'.perApp) = (config # NoConfig /\ config.perApp)
    BY <1>2, <1>7, Apart
  <1>10. reads \in Promise!Attempts
    BY SwitchAttempts
  <1>11. Promise!Switch(a, ~Promise!IsOn(a, reads))
    BY <1>6, <1>8
  <1> QED
    BY <1>9, <1>10, <1>11 DEF Promise!Toggle

LEMMA UpdateIs ==
    ASSUME StoreInv, NEW a \in Apps \cup {NoApp}, UpdateConfig(a)
    PROVE  Promise!Choose(a)
  <1>1. mgr = "up"
    BY DEF UpdateConfig
  <1>2. config \in Config /\ config # NoConfig /\ TableOK(store) /\ store # NoStore
    BY <1>1, InvParts, Apart
  <1>3. PICK c \in [valid : {TRUE}, input : BOOLEAN, perApp : BOOLEAN, other : Others] :
          /\ config' = c
          /\ \E seeds \in IF TurnsOn(c) THEN Attempts("store") ELSE {FALSE},
                writes \in Attempts("store") : store' = PageStore(c, a, seeds, writes)
    BY DEF UpdateConfig
  <1>4. PICK seeds \in BOOLEAN, writes \in BOOLEAN :
            writes \in Attempts("store") /\ store' = PageStore(c, a, seeds, writes)
    BY <1>3, AttemptsAre
  <1>5. c \in Config /\ c.input \in BOOLEAN /\ config.input \in BOOLEAN
    BY <1>2, ConfigParts DEF Config
  <1> DEFINE seeded == IF TurnsOn(c) /\ seeds THEN WithSeed(store, config.input) ELSE store
  <1>6. TableOK(seeded) /\ seeded.table = store.table
    BY <1>2, <1>5, WithSeedIs
  <1>7. store' = StoreSwitch(c, seeded, a, c.input, writes)
    BY <1>4 DEF PageStore
  <1> HIDE DEF seeded
  <1>8. KnownOf(seeded) = KnownOf(store)
    BY <1>2, <1>6, SameKnown DEF Entries
  <1>9. Promise!Switch(a, c.input)
    <2>1. \A v \in BOOLEAN : config'.input = v /\ store' = StoreSwitch(c, seeded, a, v, writes)
                            => Promise!Switch(a, v)
      BY <1>2, <1>3, <1>4, <1>5, <1>6, <1>8, SwitchIs
    <2> QED
      BY <1>3, <1>5, <1>7, <2>1
  <1>10. (config' # NoConfig /\ config'.perApp) \in BOOLEAN
    OBVIOUS
  <1> QED
    BY <1>5, <1>9, <1>10 DEF Promise!Choose

(* The hotkey and the tray turn around the switch of the application that    *)
(* has the foreground (ToggleInputState): the one it was given last, and the *)
(* common one only when it was never given one or the table was locked.      *)
THEOREM ToggleTurnsItsApp == Spec => ToggleIsItsApps
  <1>1. StoreInv => \A a \in Apps \cup {NoApp} : ToggleInputState(a) => Promise!Toggle(a)
    BY ToggleIs
  <1> QED
    BY <1>1, StoreInvHolds, PTL DEF ToggleIsItsApps

-----------------------------------------------------------------------------
\* Every other step keeps the switches, or the manager pauses.
Keeps ==
    /\ (config # NoConfig /\ config.perApp)' = (config # NoConfig /\ config.perApp)
    /\ (config # NoConfig /\ config.input)' = (config # NoConfig /\ config.input)
    /\ KnownOf(store') = KnownOf(store)
    /\ Running' = Running

Pauses == ~(Running /\ Running') /\ KnownOf(store') \in {KnownOf(store), Promise!Nobody}

LEMMA OpenedKnown == KnownOf(Opened(store)) = KnownOf(store)
  BY NobodyKnown DEF Opened

\* Any table but those after a switch of an application.
LEMMA StoresKnown ==
    ASSUME StoreInv, store' \in {store, NoStore, Opened(store)}
    PROVE  KnownOf(store') \in {KnownOf(store), Promise!Nobody}
  BY OpenedKnown, NobodyKnown

LEMMA ManagerSteps ==
    ASSUME StoreInv, MapConfig \/ FillConfig \/ FillTimeout \/ KeepConfig \/ LeaveLoop
                     \/ TruncateFile \/ CleanExit \/ ManagerStops
    PROVE  Pauses
  <1>1. CASE MapConfig \/ TruncateFile
    BY <1>1 DEF MapConfig, TruncateFile, Pauses, Running
  <1>2. CASE FillConfig
    <2>1. PICK writes \in Attempts("store") :
              store' = IF writes THEN WithSeed(Opened(store), Loaded.input) ELSE Opened(store)
      BY <1>2 DEF FillConfig
    <2>2. TableOK(Opened(store)) /\ Loaded.input \in BOOLEAN
      BY InvParts, ConfigsAre
    <2>3. KnownOf(WithSeed(Opened(store), Loaded.input)) = KnownOf(Opened(store))
      BY <2>2, WithSeedIs, SameKnown DEF Entries
    <2> QED
      BY <1>2, <2>1, <2>3, OpenedKnown DEF FillConfig, Pauses, Running
  <1>3. CASE FillTimeout \/ KeepConfig
    BY <1>3, OpenedKnown DEF FillTimeout, KeepConfig, Pauses, Running
  <1>4. CASE LeaveLoop \/ CleanExit \/ ManagerStops
    <2>1. PICK closed : Closes(Manager, closed)
      BY <1>4 DEF LeaveLoop, CleanExit, ManagerStops
    <2>2. store' \in {store, NoStore}
      BY <2>1, ClosesIs, ManagerIs
    <2> QED
      BY <1>4, <2>2, NobodyKnown DEF LeaveLoop, CleanExit, ManagerStops, Pauses, Running
  <1> QED
    BY <1>1, <1>2, <1>3, <1>4

LEMMA OtherSteps ==
    ASSUME StoreInv, \/ \E v \in Others : ChooseOther(v)
                     \/ WriteConfig
                     \/ \E a \in TsfApps : UpdateCached(a)
                     \/ UNCHANGED vars
    PROVE  Keeps
  <1>1. ASSUME NEW v \in Others, ChooseOther(v)
        PROVE  Keeps
    <2>1. config' = [config EXCEPT !.other = v] /\ UNCHANGED <<store, mgr>> /\ mgr = "up"
      BY <1>1 DEF ChooseOther
    <2>2. config \in Config /\ config # NoConfig
      BY <2>1, InvParts, Apart
    <2>3. config' \in Config /\ config'.perApp = config.perApp /\ config'.input = config.input
      BY <2>1, <2>2 DEF Config
    <2>4. config' # NoConfig
      BY <2>3, Apart
    <2> QED
      BY <2>1, <2>2, <2>3, <2>4 DEF Keeps, Running
  <1>2. CASE WriteConfig
    BY <1>2 DEF WriteConfig, Keeps, Running
  <1>3. CASE \E a \in TsfApps : UpdateCached(a)
    BY <1>3 DEF UpdateCached, Keeps, Running
  <1>4. CASE UNCHANGED vars
    BY <1>4 DEF vars, Keeps, Running
  <1> QED
    BY <1>1, <1>2, <1>3, <1>4

LEMMA AppSteps ==
    ASSUME StoreInv, NEW a \in TsfApps, AskStore(a) \/ Deactivate(a) \/ AppExit(a)
    PROVE  Keeps \/ Pauses
  <1>1. mgr' = mgr /\ Running' = Running /\ store' \in {store, NoStore, Opened(store)}
        /\ (Running => config' = config /\ store' = store)
    <2>1. Running => Holds(Manager, "config") /\ Holds(Manager, "store") /\ store # NoStore
      BY InvParts DEF Running, HeldIsThere
    <2>2. CASE AskStore(a)
      BY <2>1, <2>2 DEF AskStore, Running, Opened
    <2>3. CASE Deactivate(a) \/ AppExit(a)
      <3>1. PICK closed : Closes(a, closed)
        BY <2>3 DEF Deactivate, AppExit
      <3>2. /\ store' \in {store, NoStore}
            /\ Holds(Manager, "config") => config' = config
            /\ Holds(Manager, "store") => store' = store
        BY <3>1, ClosesIs, ManagerIs
      <3> QED
        BY <2>1, <2>3, <3>2 DEF Deactivate, AppExit, Running
    <2> QED
      BY <2>2, <2>3
  <1>2. CASE Running
    BY <1>1, <1>2 DEF Keeps
  <1>3. CASE ~Running
    BY <1>1, <1>3, StoresKnown DEF Pauses
  <1> QED
    BY <1>2, <1>3

(* Every application has a switch of its own, or follows the last one used:  *)
(* whatever the size of the table, no toggle, no message of the settings     *)
(* page and no stalled mutex changes what another application was set to,    *)
(* and only a pause of the manager forgets (per_app_input_state.h).          *)
THEOREM TableImplementsSwitch == Spec => ImplementsSwitch
  <1>1. Init => Promise!Init
    <2> SUFFICES ASSUME Init
                 PROVE  Promise!Init
      OBVIOUS
    <2>1. store = NoStore /\ mgr = "down"
      BY DEF Init
    <2> QED
      BY <2>1, NobodyKnown DEF Promise!Init, Running
  <1>2. ASSUME StoreInv, [Next]_vars
        PROVE  Promise!Next
    <2>1. {Running', (store' # NoStore /\ Len(store'.table) < Slots), CanStall("store")'} \subseteq BOOLEAN
      BY DEF Running, CanStall
    <2>2. ASSUME NEW a \in Apps \cup {NoApp}, ToggleInputState(a) \/ UpdateConfig(a)
          PROVE  Promise!Next
      <3>1. Running /\ Running'
        BY <2>2 DEF ToggleInputState, UpdateConfig, Running
      <3>2. Promise!Toggle(a) \/ Promise!Choose(a)
        BY <1>2, <2>2, ToggleIs, UpdateIs
      <3> QED
        BY <2>1, <3>1, <3>2 DEF Promise!Next
    <2>3. CASE Pauses
      <3>1. Promise!ComesOrGoes
        BY <2>3, KnownPrime DEF Pauses, Promise!ComesOrGoes
      <3> QED
        BY <2>1, <2>3, <3>1 DEF Pauses, Promise!Next
    <2>4. CASE Keeps
      BY <2>1, <2>4, KnownPrime DEF Keeps, Promise!Next
    <2>5. Next \/ UNCHANGED vars
      BY <1>2
    <2> QED
      BY <1>2, <2>2, <2>3, <2>4, <2>5, ManagerSteps, OtherSteps, AppSteps DEF Next
  <1>3. StoreInv /\ [Next]_vars => [Promise!Next]_(Promise!vars)
    BY <1>2
  <1> QED
    BY <1>1, <1>3, StoreInvHolds, PTL DEF Spec, ImplementsSwitch, Promise!Spec
=============================================================================
