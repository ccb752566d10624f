------------------------- MODULE RegistrationProofs -------------------------
(***************************************************************************)
(* What holds of the registration for any number of processes and copies   *)
(* of the program, whatever fails and whoever is killed.                   *)
(*                                                                         *)
(* The argument is about what a process has still to do.  While nobody     *)
(* interfered, at most one process works, and what is no longer among its  *)
(* steps has been brought about; when it has none left, all has.           *)
(***************************************************************************)
EXTENDS Registration, TLAPS

(* The records of proc.                                                      *)
Commands == {"register", "unregister", "diagnostics", "start"}
Deeds == {"server", "profile", "category", "no_profile", "no_category", "no_server",
          "ask_server", "ask_profile", "check"}
Asks == {"ask_server", "ask_profile", "check"}
Steps == {s \in [does : Deeds, view : Views] : s.does \in Asks => s.view = 64}
Works == [cmd : Commands, dir : Dirs, todo : Seq(Steps),
          found : BOOLEAN, clean : BOOLEAN, alone : BOOLEAN]

\* The steps in a sequence of steps, and the deeds a command consists of.
StepsIn(todo) == {todo[i] : i \in DOMAIN todo}
Left(p) == StepsIn(proc[p].todo)
DeedsOf(cmd) ==
    CASE cmd = "register"    -> {"server", "profile", "category"}
      [] cmd = "unregister"  -> {"no_profile", "no_category", "no_server"}
      [] cmd = "diagnostics" -> {"ask_server", "ask_profile"}
      [] cmd = "start"       -> {"server", "profile", "category", "check"}

\* Which step may come after which: the profile of a DLL right after its
\* server, what follows the removal of the profile, and what is only ever first.
Follows(a, b) ==
    /\ b.does \notin {"check", "ask_server"}
    /\ b.does = "profile" => a = Step("server", b.view)
    /\ b.does \in {"no_category", "no_server"} => a.does \in {"no_profile", "no_category"}
Ordered(todo) ==
    /\ \A i \in 1..(Len(todo) - 1) : Follows(todo[i], todo[i + 1])
    /\ todo # <<>> => todo[Len(todo)].does # "no_profile"

Working(p) == Busy(p) /\ proc[p].todo # <<>>

ProcTyped == proc \in [Procs -> Works \cup {Idle}]

\* A sequence of steps that a command may have before it.
Fits(todo, cmd, d) ==
    /\ todo \in Seq(Steps) /\ Ordered(todo)
    /\ \A s \in StepsIn(todo) : s.does \in DeedsOf(cmd) /\ s.view \in Installed[d]

TodoShaped == \A p \in Procs : Busy(p) => Fits(proc[p].todo, proc[p].cmd, proc[p].dir)

OneStarted == ~\E p, q \in Procs : p # q /\ proc[p].cmd = "start" /\ proc[q].cmd = "start"

\* While nobody interfered, nobody works beside the one that works.
NobodyBeside ==
    \A p, q \in Procs : p # q /\ Busy(p) /\ Working(q) =>
        /\ ~proc[p].alone
        /\ Working(p) => broken /\ orphaned

\* What the next step of a process can count on.
NextIsSafe(p) ==
    ~orphaned /\ Working(p) =>
        /\ Next1(p).does = "profile" => server[Next1(p).view] # None
        /\ Next1(p).does \in {"no_category", "no_server"} => profile = "absent"

\* What a registration, and a removal, has brought about so far.
Registered(p) ==
    /\ \A v \in Installed[proc[p].dir] : Step("server", v) \notin Left(p) => server[v] = proc[p].dir
    /\ (\A v \in Views : Step("profile", v) \notin Left(p)) => profile # "absent"
    /\ (\A v \in Views : Step("category", v) \notin Left(p)) => category
Unregistered(p) ==
    /\ \A v \in Installed[proc[p].dir] : Step("no_server", v) \notin Left(p) => server[v] = None
    /\ (\A v \in Views : Step("no_profile", v) \notin Left(p)) => profile = "absent"
    /\ (\A v \in Views : Step("no_category", v) \notin Left(p)) => ~category

Checking(p) == \E s \in Left(p) : s.does = "check"

\* Nothing went wrong since the command began, nor beside it.
Undisturbed(p) == (proc[p].clean /\ proc[p].alone) \/ (Working(p) /\ ~broken)

DoneSoFar(p) ==
    Busy(p) =>
        /\ proc[p].cmd = "register" /\ Undisturbed(p) => Registered(p)
        /\ proc[p].cmd = "unregister" /\ Undisturbed(p) => Unregistered(p)
        /\ proc[p].cmd = "start" /\ Working(p) /\ ~broken /\ ~Checking(p) => Registered(p)

\* What the diagnosis found is still so.
FoundIsSo(p) ==
    ~broken /\ Working(p) /\ proc[p].cmd = "diagnostics" /\ Step("ask_server", 64) \notin Left(p)
    => proc[p].found = (server[64] = proc[p].dir)

KnownOf(p) == NextIsSafe(p) /\ DoneSoFar(p) /\ FoundIsSo(p)

\* Between commands, the copy that the 64-bit view names is complete.
Settled ==
    ~broken /\ (\A p \in Procs : Working(p) => proc[p].cmd = "diagnostics" \/ Checking(p))
    => \A d \in Dirs : server[64] = d => Complete(d)

RegistryTyped ==
    /\ server \in [Views -> Dirs \cup {None}]
    /\ profile \in {"absent", "disabled", "enabled"}
    /\ category \in BOOLEAN /\ broken \in BOOLEAN /\ orphaned \in BOOLEAN

Shape == RegistryTyped /\ ProcTyped /\ TodoShaped /\ OneStarted

RegistrationInv ==
    /\ Shape
    /\ NobodyBeside
    /\ ProfileHasServer /\ Settled
    /\ \A p \in Procs : KnownOf(p)

-----------------------------------------------------------------------------
(* Sequences of steps.                                                       *)

\* The first step and the others.
LEMMA TailSteps ==
    ASSUME NEW todo \in Seq(Steps), todo # <<>>
    PROVE  /\ Head(todo) \in Steps /\ Tail(todo) \in Seq(Steps)
           /\ StepsIn(todo) = {Head(todo)} \cup StepsIn(Tail(todo))
           /\ Ordered(todo) => Ordered(Tail(todo))
           /\ Ordered(todo) /\ Tail(todo) # <<>> => Follows(Head(todo), Head(Tail(todo)))
           /\ Ordered(todo) /\ Head(todo).does = "no_profile" => Tail(todo) # <<>>
           /\ Ordered(todo) => \A s \in StepsIn(Tail(todo)) : s.does \notin {"check", "ask_server"}
  <1>1. /\ Head(todo) = todo[1] /\ todo[1] \in Steps /\ Tail(todo) \in Seq(Steps)
        /\ Len(Tail(todo)) = Len(todo) - 1 /\ Len(todo) \in Nat /\ Len(todo) # 0
        /\ \A i \in 1..(Len(todo) - 1) : Tail(todo)[i] = todo[i + 1]
    OBVIOUS
  <1>2. StepsIn(todo) = {Head(todo)} \cup StepsIn(Tail(todo))
    <2>1. ASSUME NEW i \in DOMAIN todo
          PROVE  todo[i] \in {Head(todo)} \cup StepsIn(Tail(todo))
      <3>1. CASE i = 1
        BY <1>1, <3>1
      <3>2. CASE i # 1
        <4>1. i - 1 \in DOMAIN Tail(todo) /\ Tail(todo)[i - 1] = todo[i]
          BY <1>1, <3>2
        <4> QED
          BY <4>1 DEF StepsIn
      <3> QED
        BY <3>1, <3>2
    <2>2. ASSUME NEW i \in DOMAIN Tail(todo)
          PROVE  Tail(todo)[i] \in StepsIn(todo)
      <3>1. i + 1 \in DOMAIN todo /\ Tail(todo)[i] = todo[i + 1]
        BY <1>1
      <3> QED
        BY <3>1 DEF StepsIn
    <2>3. Head(todo) \in StepsIn(todo)
      <3>1. 1 \in DOMAIN todo
        BY <1>1
      <3> QED
        BY <1>1, <3>1 DEF StepsIn
    <2> QED
      BY <2>1, <2>2, <2>3 DEF StepsIn
  <1>3. ASSUME Ordered(todo)
        PROVE  Ordered(Tail(todo))
    <2>1. ASSUME NEW i \in 1..(Len(Tail(todo)) - 1)
          PROVE  Follows(Tail(todo)[i], Tail(todo)[i + 1])
      <3>1. i + 1 \in 1..(Len(todo) - 1) /\ Tail(todo)[i] = todo[i + 1]
            /\ Tail(todo)[i + 1] = todo[(i + 1) + 1]
        BY <1>1
      <3> QED
        BY <1>3, <3>1 DEF Ordered
    <2>2. ASSUME Tail(todo) # <<>>
          PROVE  Tail(todo)[Len(Tail(todo))].does # "no_profile"
      <3>1. Len(Tail(todo)) \in 1..(Len(todo) - 1)
        BY <1>1, <2>2
      <3>2. Tail(todo)[Len(Tail(todo))] = todo[Len(todo)]
        BY <1>1, <3>1
      <3> QED
        BY <1>3, <3>2 DEF Ordered
    <2> QED
      BY <2>1, <2>2 DEF Ordered
  <1>4. ASSUME Ordered(todo), Tail(todo) # <<>>
        PROVE  Follows(Head(todo), Head(Tail(todo)))
    <2>1. 1 \in 1..(Len(todo) - 1) /\ Head(Tail(todo)) = todo[1 + 1]
      BY <1>1, <1>4
    <2> QED
      BY <1>1, <1>4, <2>1 DEF Ordered
  <1>5. ASSUME Ordered(todo), NEW s \in StepsIn(Tail(todo))
        PROVE  s.does \notin {"check", "ask_server"}
    <2>1. PICK i \in DOMAIN Tail(todo) : s = Tail(todo)[i]
      BY <1>5 DEF StepsIn
    <2>2. i \in 1..(Len(todo) - 1) /\ s = todo[i + 1]
      BY <1>1, <2>1
    <2> QED
      BY <1>5, <2>2 DEF Ordered, Follows
  <1>6. ASSUME Ordered(todo), Head(todo).does = "no_profile"
        PROVE  Tail(todo) # <<>>
    <2>1. todo[1].does = "no_profile" /\ todo[Len(todo)].does # "no_profile"
      BY <1>1, <1>6 DEF Ordered
    <2>2. Len(todo) # 1
      BY <2>1
    <2>3. Len(Tail(todo)) # 0 /\ Len(<<>>) = 0
      BY <1>1, <2>2
    <2> QED
      BY <2>3, Zenon
  <1> QED
    BY <1>1, <1>2, <1>3, <1>4, <1>5, <1>6

\* One program after another.
LEMMA JoinedFollow ==
    ASSUME NEW a \in Seq(Steps), NEW b \in Seq(Steps), a # <<>>, b # <<>>,
           Ordered(a), Ordered(b), Follows(a[Len(a)], b[1]),
           NEW i \in 1..(Len(a \o b) - 1)
    PROVE  Follows((a \o b)[i], (a \o b)[i + 1])
  <1>1. /\ Len(a \o b) = Len(a) + Len(b)
        /\ Len(a) \in Nat /\ Len(b) \in Nat /\ Len(a) # 0 /\ Len(b) # 0
        /\ \A k \in 1..Len(a) : (a \o b)[k] = a[k]
        /\ \A k \in 1..Len(b) : (a \o b)[Len(a) + k] = b[k]
    OBVIOUS
  <1>2. CASE i \in 1..(Len(a) - 1)
    <2>1. (a \o b)[i] = a[i] /\ (a \o b)[i + 1] = a[i + 1]
      BY <1>1, <1>2
    <2> QED
      BY <1>2, <2>1 DEF Ordered
  <1>3. CASE i = Len(a)
    <2>1. (a \o b)[i] = a[Len(a)] /\ (a \o b)[i + 1] = b[1]
      BY <1>1, <1>3
    <2> QED
      BY <2>1
  <1>4. CASE i > Len(a)
    <2> DEFINE j == i - Len(a)
    <2>1. j \in 1..(Len(b) - 1) /\ i = Len(a) + j /\ i + 1 = Len(a) + (j + 1)
      BY <1>1, <1>4
    <2>2. (a \o b)[i] = b[j] /\ (a \o b)[i + 1] = b[j + 1]
      BY <1>1, <2>1
    <2> QED
      BY <2>1, <2>2 DEF Ordered
  <1> QED
    BY <1>1, <1>2, <1>3, <1>4

LEMMA JoinedSteps ==
    ASSUME NEW a \in Seq(Steps), NEW b \in Seq(Steps), a # <<>>, b # <<>>,
           Ordered(a), Ordered(b), Follows(a[Len(a)], b[1])
    PROVE  /\ a \o b \in Seq(Steps) /\ a \o b # <<>> /\ Head(a \o b) = Head(a)
           /\ StepsIn(a \o b) = StepsIn(a) \cup StepsIn(b)
           /\ Ordered(a \o b)
  <1>1. /\ a \o b \in Seq(Steps) /\ Len(a \o b) = Len(a) + Len(b)
        /\ Len(a) \in Nat /\ Len(b) \in Nat /\ Len(a) # 0 /\ Len(b) # 0
        /\ \A i \in 1..Len(a) : (a \o b)[i] = a[i]
        /\ \A i \in 1..Len(b) : (a \o b)[Len(a) + i] = b[i]
    OBVIOUS
  <1>2. a \o b # <<>> /\ Head(a \o b) = Head(a)
    BY <1>1
  <1>3. StepsIn(a \o b) = StepsIn(a) \cup StepsIn(b)
    <2>1. ASSUME NEW i \in DOMAIN (a \o b)
          PROVE  (a \o b)[i] \in StepsIn(a) \cup StepsIn(b)
      <3>1. CASE i \in 1..Len(a)
        BY <1>1, <3>1 DEF StepsIn
      <3>2. CASE i \notin 1..Len(a)
        <4>1. i - Len(a) \in 1..Len(b) /\ i = Len(a) + (i - Len(a))
          BY <1>1, <3>2
        <4>2. (a \o b)[i] = b[i - Len(a)]
          BY <1>1, <4>1
        <4> QED
          BY <4>1, <4>2 DEF StepsIn
      <3> QED
        BY <3>1, <3>2
    <2>2. ASSUME NEW i \in DOMAIN a
          PROVE  a[i] \in StepsIn(a \o b)
      <3>1. i \in DOMAIN (a \o b) /\ a[i] = (a \o b)[i]
        BY <1>1
      <3> QED
        BY <3>1 DEF StepsIn
    <2>3. ASSUME NEW i \in DOMAIN b
          PROVE  b[i] \in StepsIn(a \o b)
      <3>1. Len(a) + i \in DOMAIN (a \o b) /\ b[i] = (a \o b)[Len(a) + i]
        BY <1>1
      <3> QED
        BY <3>1 DEF StepsIn
    <2> QED
      BY <2>1, <2>2, <2>3 DEF StepsIn
  <1>4. Ordered(a \o b)
    <2>1. (a \o b)[Len(a \o b)].does # "no_profile"
      <3>1. Len(b) \in 1..Len(b)
        BY <1>1
      <3>2. (a \o b)[Len(a \o b)] = b[Len(b)]
        BY <1>1, <3>1
      <3> QED
        BY <3>2 DEF Ordered
    <2>2. ASSUME NEW i \in 1..(Len(a \o b) - 1)
          PROVE  Follows((a \o b)[i], (a \o b)[i + 1])
      BY <2>2, JoinedFollow
    <2> QED
      BY <2>1, <2>2 DEF Ordered
  <1> QED
    BY <1>1, <1>2, <1>3, <1>4

\* What the two entry points of a DLL do.
LEMMA DllSteps ==
    ASSUME NEW v \in Views
    PROVE  /\ DllRegisterServer(v) \in Seq(Steps) /\ DllUnregisterServer(v) \in Seq(Steps)
           /\ StepsIn(DllRegisterServer(v)) = {Step("server", v), Step("profile", v), Step("category", v)}
           /\ StepsIn(DllUnregisterServer(v))
                = {Step("no_profile", v), Step("no_category", v), Step("no_server", v)}
           /\ Ordered(DllRegisterServer(v)) /\ Ordered(DllUnregisterServer(v))
           /\ DllRegisterServer(v) # <<>> /\ DllUnregisterServer(v) # <<>>
           /\ Head(DllRegisterServer(v)) = Step("server", v)
           /\ Head(DllUnregisterServer(v)) = Step("no_profile", v)
           /\ \A w \in Views :
                 /\ Follows(DllRegisterServer(v)[Len(DllRegisterServer(v))], DllRegisterServer(w)[1])
                 /\ Follows(DllUnregisterServer(v)[Len(DllUnregisterServer(v))], DllUnregisterServer(w)[1])
  <1>1. /\ DllRegisterServer(v) \in Seq(Steps) /\ DllUnregisterServer(v) \in Seq(Steps)
        /\ Len(DllRegisterServer(v)) = 3 /\ Len(DllUnregisterServer(v)) = 3
    <2>1. \A w \in Deeds \ Asks : Step(w, v) \in Steps
      BY DEF Step, Steps
    <2>2. {"server", "profile", "category", "no_profile", "no_category", "no_server"} \subseteq Deeds \ Asks
      BY DEF Deeds, Asks
    <2>3. /\ Step("server", v) \in Steps /\ Step("profile", v) \in Steps /\ Step("category", v) \in Steps
          /\ Step("no_profile", v) \in Steps /\ Step("no_category", v) \in Steps
          /\ Step("no_server", v) \in Steps
      BY <2>1, <2>2
    <2> QED
      BY <2>3 DEF DllRegisterServer, DllUnregisterServer
  <1>2. /\ DllRegisterServer(v)[1] = Step("server", v)
        /\ DllRegisterServer(v)[2] = Step("profile", v)
        /\ DllRegisterServer(v)[3] = Step("category", v)
        /\ DllUnregisterServer(v)[1] = Step("no_profile", v)
        /\ DllUnregisterServer(v)[2] = Step("no_category", v)
        /\ DllUnregisterServer(v)[3] = Step("no_server", v)
    BY DEF DllRegisterServer, DllUnregisterServer
  <1>3. DOMAIN DllRegisterServer(v) = {1, 2, 3} /\ DOMAIN DllUnregisterServer(v) = {1, 2, 3}
    BY DEF DllRegisterServer, DllUnregisterServer
  <1>4. /\ StepsIn(DllRegisterServer(v)) = {Step("server", v), Step("profile", v), Step("category", v)}
        /\ StepsIn(DllUnregisterServer(v))
             = {Step("no_profile", v), Step("no_category", v), Step("no_server", v)}
    BY <1>2, <1>3 DEF StepsIn
  <1>5. /\ Follows(Step("server", v), Step("profile", v))
        /\ Follows(Step("profile", v), Step("category", v))
        /\ Follows(Step("no_profile", v), Step("no_category", v))
        /\ Follows(Step("no_category", v), Step("no_server", v))
    BY DEF Follows, Step
  <1>6. Ordered(DllRegisterServer(v)) /\ Ordered(DllUnregisterServer(v))
    <2>1. 1..(3 - 1) = {1, 2} /\ 1 + 1 = 2 /\ 2 + 1 = 3
      OBVIOUS
    <2>2. Step("category", v).does # "no_profile" /\ Step("no_server", v).does # "no_profile"
      BY DEF Step
    <2> QED
      BY <1>1, <1>2, <1>5, <2>1, <2>2 DEF Ordered
  <1>7. /\ DllRegisterServer(v) # <<>> /\ DllUnregisterServer(v) # <<>>
        /\ Head(DllRegisterServer(v)) = Step("server", v)
        /\ Head(DllUnregisterServer(v)) = Step("no_profile", v)
    BY <1>1, <1>2
  <1>8. ASSUME NEW w \in Views
        PROVE  /\ Follows(DllRegisterServer(v)[Len(DllRegisterServer(v))], DllRegisterServer(w)[1])
               /\ Follows(DllUnregisterServer(v)[Len(DllUnregisterServer(v))], DllUnregisterServer(w)[1])
    <2>1. DllRegisterServer(w)[1] = Step("server", w) /\ DllUnregisterServer(w)[1] = Step("no_profile", w)
      BY DEF DllRegisterServer, DllUnregisterServer
    <2>2. Follows(Step("category", v), Step("server", w)) /\ Follows(Step("no_server", v), Step("no_profile", w))
      BY DEF Follows, Step
    <2> QED
      BY <1>1, <1>2, <2>1, <2>2
  <1> QED
    BY <1>1, <1>4, <1>6, <1>7, <1>8

LEMMA StepIs ==
    ASSUME NEW a, NEW b, NEW v, NEW w
    PROVE  /\ Step(a, v) = Step(b, w) <=> a = b /\ v = w
           /\ Step(a, v).does = a /\ Step(a, v).view = v
  BY DEF Step

LEMMA Bitnesses ==
    ASSUME NEW d \in Dirs
    PROVE  64 \in Installed[d] /\ Installed[d] \subseteq Views
           /\ (32 \in Installed[d] => Installed[d] = Views) /\ (32 \notin Installed[d] => Installed[d] = {64})
  BY RegistrationConstants DEF Views

\* What a registration and a removal consist of.
StepsOf(deeds, d) == {Step(w, v) : w \in deeds, v \in Installed[d]}

LEMMA RegisterSteps ==
    ASSUME NEW d \in Dirs
    PROVE  /\ RegisterTsfDll(d) \in Seq(Steps) /\ RegisterTsfDll(d) # <<>>
           /\ Head(RegisterTsfDll(d)) = Step("server", 64)
           /\ Ordered(RegisterTsfDll(d))
           /\ StepsIn(RegisterTsfDll(d)) = StepsOf(DeedsOf("register"), d)
  <1> DEFINE a == DllRegisterServer(64)
  <1> DEFINE b == DllRegisterServer(32)
  <1>1. 64 \in Views /\ 32 \in Views
    BY DEF Views
  <1>2. a \in Seq(Steps) /\ b \in Seq(Steps) /\ a # <<>> /\ b # <<>> /\ Ordered(a) /\ Ordered(b)
        /\ Head(a) = Step("server", 64)
    BY <1>1, DllSteps, Zenon
  <1>3. DeedsOf("register") = {"server", "profile", "category"}
    BY DEF DeedsOf
  <1>4. CASE 32 \in Installed[d]
    <2>1. RegisterTsfDll(d) = a \o b
      BY <1>4 DEF RegisterTsfDll
    <2>2. Follows(a[Len(a)], b[1])
      BY <1>1, DllSteps
    <2>3. a \o b \in Seq(Steps) /\ a \o b # <<>> /\ Head(a \o b) = Head(a) /\ Ordered(a \o b)
          /\ StepsIn(a \o b) = StepsIn(a) \cup StepsIn(b)
      BY <1>2, <2>2, JoinedSteps
    <2>4. Installed[d] = {64, 32}
      BY <1>4, Bitnesses DEF Views
    <2>5. StepsIn(a) \cup StepsIn(b) = StepsOf(DeedsOf("register"), d)
      <3>1. /\ StepsIn(a) = {Step("server", 64), Step("profile", 64), Step("category", 64)}
            /\ StepsIn(b) = {Step("server", 32), Step("profile", 32), Step("category", 32)}
        BY <1>1, DllSteps
      <3> HIDE DEF a, b
      <3> QED
        BY <1>3, <2>4, <3>1 DEF StepsOf
    <2> HIDE DEF a, b
    <2> QED
      BY <1>2, <2>1, <2>3, <2>5
  <1>5. CASE 32 \notin Installed[d]
    <2>1. RegisterTsfDll(d) = a \o <<>>
      BY <1>5 DEF RegisterTsfDll
    <2>2. RegisterTsfDll(d) = a
      BY <1>2, <2>1
    <2>3. Installed[d] = {64}
      BY <1>5, Bitnesses
    <2>4. StepsIn(a) = StepsOf(DeedsOf("register"), d)
      <3>1. StepsIn(a) = {Step("server", 64), Step("profile", 64), Step("category", 64)}
        BY <1>1, DllSteps
      <3> HIDE DEF a
      <3> QED
        BY <1>3, <2>3, <3>1 DEF StepsOf
    <2> HIDE DEF a
    <2> QED
      BY <1>2, <2>2, <2>4
  <1> QED
    BY <1>4, <1>5

LEMMA UnregisterSteps ==
    ASSUME NEW d \in Dirs
    PROVE  /\ UnregisterTsfDll(d) \in Seq(Steps) /\ UnregisterTsfDll(d) # <<>>
           /\ Head(UnregisterTsfDll(d)) = Step("no_profile", 64)
           /\ Ordered(UnregisterTsfDll(d))
           /\ StepsIn(UnregisterTsfDll(d)) = StepsOf(DeedsOf("unregister"), d)
  <1> DEFINE a == DllUnregisterServer(64)
  <1> DEFINE b == DllUnregisterServer(32)
  <1>1. 64 \in Views /\ 32 \in Views
    BY DEF Views
  <1>2. a \in Seq(Steps) /\ b \in Seq(Steps) /\ a # <<>> /\ b # <<>> /\ Ordered(a) /\ Ordered(b)
        /\ Head(a) = Step("no_profile", 64)
    BY <1>1, DllSteps, Zenon
  <1>3. DeedsOf("unregister") = {"no_profile", "no_category", "no_server"}
    BY DEF DeedsOf
  <1>4. CASE 32 \in Installed[d]
    <2>1. UnregisterTsfDll(d) = a \o b
      BY <1>4 DEF UnregisterTsfDll
    <2>2. Follows(a[Len(a)], b[1])
      BY <1>1, DllSteps
    <2>3. a \o b \in Seq(Steps) /\ a \o b # <<>> /\ Head(a \o b) = Head(a) /\ Ordered(a \o b)
          /\ StepsIn(a \o b) = StepsIn(a) \cup StepsIn(b)
      BY <1>2, <2>2, JoinedSteps
    <2>4. Installed[d] = {64, 32}
      BY <1>4, Bitnesses DEF Views
    <2>5. StepsIn(a) \cup StepsIn(b) = StepsOf(DeedsOf("unregister"), d)
      <3>1. /\ StepsIn(a) = {Step("no_profile", 64), Step("no_category", 64), Step("no_server", 64)}
            /\ StepsIn(b) = {Step("no_profile", 32), Step("no_category", 32), Step("no_server", 32)}
        BY <1>1, DllSteps
      <3> HIDE DEF a, b
      <3> QED
        BY <1>3, <2>4, <3>1 DEF StepsOf
    <2> HIDE DEF a, b
    <2> QED
      BY <1>2, <2>1, <2>3, <2>5
  <1>5. CASE 32 \notin Installed[d]
    <2>1. UnregisterTsfDll(d) = a \o <<>>
      BY <1>5 DEF UnregisterTsfDll
    <2>2. UnregisterTsfDll(d) = a
      BY <1>2, <2>1
    <2>3. Installed[d] = {64}
      BY <1>5, Bitnesses
    <2>4. StepsIn(a) = StepsOf(DeedsOf("unregister"), d)
      <3>1. StepsIn(a) = {Step("no_profile", 64), Step("no_category", 64), Step("no_server", 64)}
        BY <1>1, DllSteps
      <3> HIDE DEF a
      <3> QED
        BY <1>3, <2>3, <3>1 DEF StepsOf
    <2> HIDE DEF a
    <2> QED
      BY <1>2, <2>2, <2>4
  <1> QED
    BY <1>4, <1>5

\* One step, two steps, and none.
LEMMA ShortSteps ==
    ASSUME NEW a \in Steps, NEW b \in Steps
    PROVE  /\ <<a>> \in Seq(Steps) /\ <<a>> # <<>> /\ Head(<<a>>) = a
           /\ StepsIn(<<a>>) = {a} /\ (a.does # "no_profile" => Ordered(<<a>>))
           /\ <<a, b>> \in Seq(Steps) /\ <<a, b>> # <<>> /\ Head(<<a, b>>) = a
           /\ StepsIn(<<a, b>>) = {a, b} /\ (Follows(a, b) /\ b.does # "no_profile" => Ordered(<<a, b>>))
  <1>1. /\ <<a>> \in Seq(Steps) /\ <<a>> # <<>> /\ Head(<<a>>) = a
        /\ <<a, b>> \in Seq(Steps) /\ <<a, b>> # <<>> /\ Head(<<a, b>>) = a
    OBVIOUS
  <1>2. StepsIn(<<a>>) = {a} /\ StepsIn(<<a, b>>) = {a, b}
    BY DEF StepsIn
  <1>3. a.does # "no_profile" => Ordered(<<a>>)
    <2>1. Len(<<a>>) = 1 /\ 1..(1 - 1) = {} /\ <<a>>[1] = a
      OBVIOUS
    <2> QED
      BY <2>1 DEF Ordered
  <1>4. Follows(a, b) /\ b.does # "no_profile" => Ordered(<<a, b>>)
    <2>1. /\ Len(<<a, b>>) = 2 /\ 1..(2 - 1) = {1}
          /\ <<a, b>>[1] = a /\ <<a, b>>[1 + 1] = b /\ <<a, b>>[2] = b
      OBVIOUS
    <2> QED
      BY <2>1 DEF Ordered
  <1> QED
    BY <1>1, <1>2, <1>3, <1>4

LEMMA NothingFits ==
    ASSUME NEW cmd, NEW d
    PROVE  Fits(<<>>, cmd, d) /\ StepsIn(<<>>) = {}
  BY DEF Fits, Ordered, StepsIn

LEMMA StepsOfFit ==
    ASSUME NEW deeds, NEW d, NEW s \in StepsOf(deeds, d)
    PROVE  s.does \in deeds /\ s.view \in Installed[d]
  BY StepIs DEF StepsOf

LEMMA ProgramFits ==
    ASSUME NEW cmd \in Commands, NEW d \in Dirs
    PROVE  /\ Fits(Program(cmd, d), cmd, d) /\ Program(cmd, d) # <<>>
           /\ Head(Program(cmd, d)).does \notin {"profile", "no_category", "no_server"}
           /\ cmd \in {"register", "unregister"} => StepsIn(Program(cmd, d)) = StepsOf(DeedsOf(cmd), d)
           /\ cmd = "start" => Step("check", 64) \in StepsIn(Program(cmd, d))
           /\ cmd = "diagnostics" => Step("ask_server", 64) \in StepsIn(Program(cmd, d))
  <1>1. CASE cmd = "register"
    <2>1. Program(cmd, d) = RegisterTsfDll(d)
      BY <1>1 DEF Program
    <2> QED
      BY <1>1, <2>1, RegisterSteps, StepsOfFit, StepIs DEF Fits
  <1>2. CASE cmd = "unregister"
    <2>1. Program(cmd, d) = UnregisterTsfDll(d)
      BY <1>2 DEF Program
    <2> QED
      BY <1>2, <2>1, UnregisterSteps, StepsOfFit, StepIs DEF Fits
  <1>3. CASE cmd = "diagnostics"
    <2> DEFINE a == Step("ask_server", 64)
    <2> DEFINE b == Step("ask_profile", 64)
    <2>1. Program(cmd, d) = <<a, b>>
      BY <1>3 DEF Program
    <2>2. a \in Steps /\ b \in Steps
      BY DEF Step, Steps, Deeds, Views
    <2>3. a.does = "ask_server" /\ b.does = "ask_profile" /\ a.view = 64 /\ b.view = 64
      BY DEF Step
    <2>4. Follows(a, b)
      BY <2>3 DEF Follows
    <2>5. DeedsOf(cmd) = {"ask_server", "ask_profile"}
      BY <1>3 DEF DeedsOf
    <2> HIDE DEF a, b
    <2>6. /\ Program(cmd, d) \in Seq(Steps) /\ Program(cmd, d) # <<>> /\ Head(Program(cmd, d)) = a
          /\ StepsIn(Program(cmd, d)) = {a, b} /\ Ordered(Program(cmd, d))
      <3>1. /\ <<a, b>> \in Seq(Steps) /\ <<a, b>> # <<>> /\ Head(<<a, b>>) = a
            /\ StepsIn(<<a, b>>) = {a, b} /\ Ordered(<<a, b>>)
        BY <2>2, <2>3, <2>4, ShortSteps
      <3> QED
        BY <2>1, <3>1, Zenon
    <2> QED
      BY <1>3, <2>3, <2>5, <2>6, Bitnesses DEF Fits, a
  <1>4. CASE cmd = "start"
    <2> DEFINE a == Step("check", 64)
    <2>1. Program(cmd, d) = <<a>>
      BY <1>4 DEF Program
    <2>2. a \in Steps
      BY DEF Step, Steps, Deeds, Views
    <2>3. a.does = "check" /\ a.view = 64
      BY DEF Step
    <2>5. "check" \in DeedsOf(cmd)
      BY <1>4 DEF DeedsOf
    <2> HIDE DEF a
    <2>6. /\ Program(cmd, d) \in Seq(Steps) /\ Program(cmd, d) # <<>> /\ Head(Program(cmd, d)) = a
          /\ StepsIn(Program(cmd, d)) = {a} /\ Ordered(Program(cmd, d))
      BY <2>1, <2>2, <2>3, ShortSteps
    <2> QED
      BY <1>4, <2>3, <2>5, <2>6, Bitnesses DEF Fits, a
  <1> QED
    BY <1>1, <1>2, <1>3, <1>4 DEF Commands

-----------------------------------------------------------------------------
(* Steps of the processes.                                                   *)

LEMMA IdleIs == Idle.cmd = "none" /\ Idle \notin Works
  <1>1. Idle.cmd = "none"
    BY DEF Idle
  <1>2. \A w \in Works : w.cmd # "none"
    BY DEF Works, Commands
  <1> QED
    BY <1>1, <1>2

LEMMA WorkIs ==
    ASSUME Shape, NEW p \in Procs, Busy(p)
    PROVE  /\ proc[p] \in Works /\ proc[p].cmd \in Commands /\ proc[p].dir \in Dirs
           /\ proc[p].todo \in Seq(Steps) /\ Fits(proc[p].todo, proc[p].cmd, proc[p].dir)
           /\ proc[p].found \in BOOLEAN /\ proc[p].clean \in BOOLEAN /\ proc[p].alone \in BOOLEAN
  <1>1. proc[p] \in Works
    BY DEF Shape, ProcTyped, Busy
  <1>2. Fits(proc[p].todo, proc[p].cmd, proc[p].dir)
    BY DEF Shape, TodoShaped
  <1> QED
    BY <1>1, <1>2 DEF Works

\* The first step of a process at work, and the rest of it.
LEMMA FirstStep ==
    ASSUME Shape, NEW p \in Procs, Working(p)
    PROVE  /\ Next1(p) \in Steps /\ Next1(p).view \in Views
           /\ Next1(p).does \in DeedsOf(proc[p].cmd) /\ Next1(p).view \in Installed[proc[p].dir]
           /\ Left(p) = {Next1(p)} \cup StepsIn(Rest(p))
           /\ Fits(Rest(p), proc[p].cmd, proc[p].dir)
           /\ Rest(p) # <<>> => Follows(Next1(p), Head(Rest(p)))
           /\ \A s \in StepsIn(Rest(p)) : s.does \notin {"check", "ask_server"}
           /\ Next1(p).does = "no_profile" => Rest(p) # <<>>
  <1> DEFINE todo == proc[p].todo
  <1>1. /\ todo \in Seq(Steps) /\ todo # <<>> /\ Ordered(todo)
        /\ \A s \in StepsIn(todo) : s.does \in DeedsOf(proc[p].cmd) /\ s.view \in Installed[proc[p].dir]
    BY WorkIs DEF Working, Fits
  <1>2. /\ Head(todo) \in Steps /\ Tail(todo) \in Seq(Steps)
        /\ StepsIn(todo) = {Head(todo)} \cup StepsIn(Tail(todo))
        /\ Ordered(Tail(todo))
        /\ Tail(todo) # <<>> => Follows(Head(todo), Head(Tail(todo)))
        /\ \A s \in StepsIn(Tail(todo)) : s.does \notin {"check", "ask_server"}
        /\ Head(todo).does = "no_profile" => Tail(todo) # <<>>
    <2> HIDE DEF todo
    <2> QED
      BY <1>1, TailSteps
  <1>3. Next1(p) = Head(todo) /\ Rest(p) = Tail(todo) /\ Left(p) = StepsIn(todo)
    BY DEF Next1, Rest, Left
  <1> HIDE DEF todo
  <1>4. Head(todo).view \in Views
    BY <1>2 DEF Steps
  <1> QED
    BY <1>1, <1>2, <1>3, <1>4 DEF Fits

\* A process gets on with its command, while the others do nothing.
GoesOn(p) ==
    /\ proc' \in [Procs -> Works \cup {Idle}] /\ proc'[p] \in Works
    /\ \A q \in Procs : q # p => proc'[q] = proc[q]
    /\ proc'[p].cmd = proc[p].cmd /\ proc'[p].dir = proc[p].dir /\ proc'[p].alone = proc[p].alone
    /\ Fits(proc'[p].todo, proc[p].cmd, proc[p].dir)

LEMMA GoesFacts ==
    ASSUME Shape, NEW p \in Procs, Working(p), NEW todo, NEW ok \in BOOLEAN,
           Fits(todo, proc[p].cmd, proc[p].dir), Goes(p, todo, ok)
    PROVE  /\ GoesOn(p)
           /\ proc'[p].todo = todo /\ proc'[p].found = proc[p].found
           /\ proc'[p].clean => proc[p].clean /\ ok
           /\ Left(p)' = StepsIn(todo)
           /\ Next1(p)' = Head(todo)
           /\ Working(p)' <=> todo # <<>>
  <1>1. Busy(p)
    BY DEF Working
  <1>2. proc \in [Procs -> Works \cup {Idle}] /\ proc[p] \in Works /\ todo \in Seq(Steps)
    BY <1>1, WorkIs DEF Shape, ProcTyped, Fits
  <1>3. proc' = [proc EXCEPT ![p].todo = todo, ![p].clean = @ /\ ok]
    BY DEF Goes
  <1> DEFINE w == [proc[p] EXCEPT !.todo = todo, !.clean = @ /\ ok]
  <1>4. w \in Works
    BY <1>2 DEF Works
  <1>5. w.todo = todo /\ w.found = proc[p].found /\ w.cmd = proc[p].cmd /\ w.dir = proc[p].dir
        /\ w.alone = proc[p].alone
    BY <1>2 DEF Works
  <1>6. w.clean = (proc[p].clean /\ ok)
    BY <1>2 DEF Works
  <1>7. proc' = [proc EXCEPT ![p] = w]
    BY <1>2, <1>3
  <1> HIDE DEF w
  <1>8. proc' \in [Procs -> Works \cup {Idle}] /\ proc'[p] = w
        /\ \A q \in Procs : q # p => proc'[q] = proc[q]
    BY <1>2, <1>4, <1>7
  <1>9. proc'[p] # Idle
    BY <1>4, <1>8, IdleIs
  <1>10. GoesOn(p)
    BY <1>4, <1>5, <1>8 DEF GoesOn
  <1>11. Left(p)' = StepsIn(todo) /\ Next1(p)' = Head(todo) /\ (Working(p)' <=> todo # <<>>)
    BY <1>5, <1>8, <1>9 DEF Left, Next1, Working, Busy
  <1>12. proc'[p].clean => proc[p].clean /\ ok
    BY <1>6, <1>8
  <1> QED
    BY <1>5, <1>8, <1>10, <1>11, <1>12

\* The histories: while a process is at work, nothing is forgotten.
LEMMA Remembered ==
    ASSUME Shape, NEW breaks \in BOOLEAN, NEW orphans \in BOOLEAN, Remembers(breaks, orphans)
    PROVE  /\ broken' \in BOOLEAN /\ orphaned' \in BOOLEAN
           /\ ~broken' => \/ ~broken /\ ~breaks
                          \/ (\A p \in Procs : proc'[p] = Idle) /\ Absent(server', profile', category')
           /\ ~orphaned' => \/ ~orphaned /\ ~orphans
                            \/ (\A p \in Procs : proc'[p] = Idle) /\ profile' = "absent"
  BY Zenon DEF Remembers

\* The typing and the shape of what is left.
LEMMA ShapeGoesOn ==
    ASSUME Shape, NEW p \in Procs, Busy(p), GoesOn(p), RegistryTyped'
    PROVE  Shape'
  <1>1. ProcTyped'
    BY DEF GoesOn, ProcTyped
  <1>2. TodoShaped'
    <2> SUFFICES ASSUME NEW q \in Procs, Busy(q)'
                 PROVE  Fits(proc'[q].todo, proc'[q].cmd, proc'[q].dir)
      BY DEF TodoShaped, Fits, Ordered, StepsIn
    <2>1. CASE q = p
      BY <2>1 DEF GoesOn
    <2>2. CASE q # p
      BY <2>2 DEF GoesOn, Shape, TodoShaped, Busy
    <2> QED
      BY <2>1, <2>2
  <1>3. OneStarted'
    <2>1. \A q \in Procs : proc'[q].cmd = proc[q].cmd
      BY DEF GoesOn
    <2> QED
      BY <2>1 DEF Shape, OneStarted
  <1> QED
    BY <1>1, <1>2, <1>3 DEF Shape

\* Only what the working process knows need be shown of a step of its.
LEMMA StepKeeps ==
    ASSUME RegistrationInv, NEW p \in Procs, Working(p), GoesOn(p), RegistryTyped',
           broken => broken', orphaned => orphaned',
           ProfileHasServer', Settled', KnownOf(p)'
    PROVE  RegistrationInv'
  <1>1. Busy(p) /\ Shape
    BY DEF Working, RegistrationInv
  <1>2. Shape'
    BY <1>1, ShapeGoesOn
  <1>3. \A q \in Procs : q # p => (Busy(q)' <=> Busy(q)) /\ (Working(q)' <=> Working(q))
    BY DEF GoesOn, Busy, Working
  <1>4. Busy(p)'
    BY IdleIs DEF GoesOn, Busy
  <1>5. NobodyBeside'
    <2> SUFFICES ASSUME NEW q \in Procs, NEW r \in Procs, q # r, Busy(q)', Working(r)'
                 PROVE  ~proc'[q].alone /\ (Working(q)' => broken' /\ orphaned')
      BY DEF NobodyBeside
    <2>1. Busy(q)
      BY <1>1, <1>3
    <2>2. Working(r)
      BY <1>3
    <2>3. ~proc[q].alone /\ (Working(q) => broken /\ orphaned)
      BY <2>1, <2>2 DEF RegistrationInv, NobodyBeside
    <2>4. proc'[q].alone = proc[q].alone
      BY DEF GoesOn
    <2>5. Working(q)' => Working(q)
      BY <1>3
    <2> QED
      BY <2>3, <2>4, <2>5
  <1>6. ASSUME NEW q \in Procs, q # p
        PROVE  KnownOf(q)'
    <2>1. ASSUME Busy(q)
          PROVE  ~proc'[q].alone /\ (Working(q)' => broken' /\ orphaned')
      <3>1. ~proc[q].alone /\ (Working(q) => broken /\ orphaned)
        BY <1>6, <2>1 DEF RegistrationInv, NobodyBeside
      <3> QED
        BY <1>3, <1>6, <3>1 DEF GoesOn
    <2>2. Working(q)' => Busy(q)
      BY <1>3, <1>6 DEF Working
    <2>3. NextIsSafe(q)' /\ FoundIsSo(q)'
      BY <2>1, <2>2 DEF NextIsSafe, FoundIsSo
    <2>4. DoneSoFar(q)'
      BY <1>3, <1>6, <2>1 DEF DoneSoFar, Undisturbed
    <2> QED
      BY <2>3, <2>4 DEF KnownOf
  <1> QED
    BY <1>2, <1>5, <1>6 DEF RegistrationInv

\* The steps of a registration, which brings all about that is no longer left.
LEMMA WasRegistered ==
    ASSUME RegistrationInv, NEW p \in Procs, Working(p), ~Checking(p),
           proc[p].cmd \in {"register", "start"},
           (proc[p].cmd = "register" /\ proc[p].clean /\ proc[p].alone) \/ ~broken
    PROVE  Registered(p)
  <1>1. DoneSoFar(p) /\ Busy(p)
    BY DEF RegistrationInv, KnownOf, Working
  <1> QED
    BY <1>1 DEF DoneSoFar, Undisturbed

LEMMA RegistrationStepKeeps ==
    ASSUME RegistrationInv, NEW p \in Procs, Working(p), GoesOn(p), RegistryTyped',
           broken => broken', orphaned => orphaned',
           proc[p].cmd \in {"register", "start"}, ~Checking(p)',
           ProfileHasServer', NextIsSafe(p)',
           (proc[p].cmd = "register" /\ proc'[p].clean /\ proc[p].alone) \/ ~broken' => Registered(p)'
    PROVE  RegistrationInv'
  <1>1. proc'[p].cmd = proc[p].cmd /\ proc'[p].alone = proc[p].alone /\ proc'[p].dir = proc[p].dir
    BY DEF GoesOn
  <1>2. Busy(p) /\ Shape
    BY DEF Working, RegistrationInv
  <1>3. DoneSoFar(p)'
    BY <1>1 DEF DoneSoFar, Undisturbed
  <1>4. FoundIsSo(p)'
    BY <1>1 DEF FoundIsSo
  <1>5. Settled'
    <2> SUFFICES ASSUME ~broken',
                        \A q \in Procs : Working(q)' => proc'[q].cmd = "diagnostics" \/ Checking(q)',
                        NEW d \in Dirs, server'[64] = d
                 PROVE  Complete(d)'
      BY DEF Settled
    <2>1. ~Working(p)' /\ Busy(p)'
      BY <1>1, IdleIs DEF GoesOn, Busy
    <2>2. Left(p)' = {}
      BY <2>1, NothingFits DEF Working, Left
    <2>3. Registered(p)'
      OBVIOUS
    <2>4. proc[p].dir \in Dirs
      BY <1>2, WorkIs
    <2>5. /\ \A v \in Installed[proc[p].dir] : server'[v] = proc[p].dir
          /\ profile' # "absent" /\ category'
      BY <1>1, <2>2, <2>3 DEF Registered
    <2>6. d = proc[p].dir
      BY <2>4, <2>5, Bitnesses
    <2> QED
      BY <2>5, <2>6 DEF Complete
  <1> QED
    BY <1>3, <1>4, <1>5, StepKeeps DEF KnownOf

\* The other DLL's steps, of which the first is its server.
LEMMA SkipFacts ==
    ASSUME RegistrationInv, NEW p \in Procs, Working(p), proc[p].cmd \in {"register", "start"}
    PROVE  /\ Fits(SkipDll(p), proc[p].cmd, proc[p].dir)
           /\ \A s \in StepsIn(SkipDll(p)) : s.does # "check"
           /\ SkipDll(p) # <<>> => Head(SkipDll(p)).does = "server"
  <1>1. 32 \in Views /\ proc[p].dir \in Dirs
    BY WorkIs DEF Views, RegistrationInv, Working
  <1>2. CASE SkipDll(p) = <<>>
    BY <1>2, NothingFits
  <1>3. CASE SkipDll(p) # <<>>
    <2> DEFINE todo == DllRegisterServer(32)
    <2>1. SkipDll(p) = todo /\ 32 \in Installed[proc[p].dir]
      BY <1>3 DEF SkipDll
    <2>2. /\ todo \in Seq(Steps) /\ Ordered(todo) /\ Head(todo) = Step("server", 32)
          /\ StepsIn(todo) = {Step("server", 32), Step("profile", 32), Step("category", 32)}
      BY <1>1, DllSteps
    <2> HIDE DEF todo
    <2>3. {"server", "profile", "category"} \subseteq DeedsOf(proc[p].cmd)
      BY DEF DeedsOf
    <2>4. \A s \in StepsIn(todo) : s.does \in {"server", "profile", "category"} /\ s.view = 32
      BY <2>2, StepIs
    <2> QED
      BY <2>1, <2>2, <2>3, <2>4, StepIs DEF Fits
  <1> QED
    BY <1>2, <1>3

LEMMA AtWork ==
    ASSUME RegistrationInv, NEW p \in Procs, NEW does, At(p, does)
    PROVE  /\ Shape /\ RegistryTyped /\ Working(p) /\ Next1(p).does = does
           /\ proc[p].cmd \in Commands /\ proc[p].dir \in Dirs
           /\ does \in {"server", "profile", "category"} => proc[p].cmd \in {"register", "start"} /\ ~Checking(p)
           /\ does \in {"no_profile", "no_category", "no_server"} => proc[p].cmd = "unregister"
           /\ does \in {"ask_server", "ask_profile"} => proc[p].cmd = "diagnostics"
           /\ does = "check" => proc[p].cmd = "start" /\ Checking(p)
  <1>1. Shape /\ RegistryTyped /\ Working(p) /\ Busy(p) /\ Next1(p).does = does
    BY DEF At, Working, RegistrationInv, Shape
  <1>2. proc[p].cmd \in Commands /\ proc[p].dir \in Dirs
    BY <1>1, WorkIs
  <1>3. does \in DeedsOf(proc[p].cmd) /\ Left(p) = {Next1(p)} \cup StepsIn(Rest(p))
        /\ \A s \in StepsIn(Rest(p)) : s.does # "check"
    BY <1>1, FirstStep
  <1>4. Checking(p) <=> does = "check"
    BY <1>1, <1>3 DEF Checking
  <1> QED
    BY <1>1, <1>2, <1>3, <1>4 DEF Commands, DeedsOf

\* What differs between the steps left before and after one of them is done.
LEMMA LeftAfter ==
    ASSUME RegistrationInv, NEW p \in Procs, Working(p), Left(p)' = StepsIn(Rest(p)),
           NEW does, NEW v, Step(does, v) \notin Left(p)'
    PROVE  Step(does, v) \notin Left(p) \/ (does = Next1(p).does /\ v = Next1(p).view)
  <1>1. Left(p) = {Next1(p)} \cup Left(p)'
    BY FirstStep DEF RegistrationInv
  <1> QED
    BY <1>1, StepIs

\* A DLL that failed and left its remaining steps out.
LEMMA SkippingKeeps ==
    ASSUME RegistrationInv, NEW p \in Procs, Working(p), ~Checking(p),
           proc[p].cmd \in {"register", "start"},
           UNCHANGED <<server, profile, category>>,
           Goes(p, SkipDll(p), FALSE), Remembers(TRUE, FALSE)
    PROVE  RegistrationInv'
  <1>1. Shape /\ RegistryTyped
    BY DEF RegistrationInv, Shape
  <1>2. /\ Fits(SkipDll(p), proc[p].cmd, proc[p].dir)
        /\ \A s \in StepsIn(SkipDll(p)) : s.does # "check"
        /\ SkipDll(p) # <<>> => Head(SkipDll(p)).does = "server"
    BY SkipFacts
  <1>3. /\ GoesOn(p) /\ ~proc'[p].clean /\ Left(p)' = StepsIn(SkipDll(p))
        /\ Next1(p)' = Head(SkipDll(p)) /\ (Working(p)' <=> SkipDll(p) # <<>>)
    BY <1>1, <1>2, GoesFacts
  <1>4. broken' \in BOOLEAN /\ orphaned' \in BOOLEAN /\ broken' /\ (orphaned => orphaned')
    <2>1. proc'[p] # Idle
      BY <1>3, IdleIs DEF GoesOn
    <2> QED
      BY <1>1, <2>1, Remembered
  <1>5. RegistryTyped'
    BY <1>1, <1>4 DEF RegistryTyped
  <1>6. ProfileHasServer'
    BY <1>4 DEF ProfileHasServer, RegistrationInv
  <1>7. NextIsSafe(p)'
    BY <1>2, <1>3 DEF NextIsSafe
  <1>8. ~Checking(p)'
    BY <1>2, <1>3 DEF Checking
  <1> QED
    BY <1>3, <1>4, <1>5, <1>6, <1>7, <1>8, RegistrationStepKeeps

LEMMA RegisterCLSIDKeeps ==
    ASSUME RegistrationInv, NEW p \in Procs, RegisterCLSID(p)
    PROVE  RegistrationInv'
  <1>1. At(p, "server") /\ UNCHANGED <<profile, category>>
    BY DEF RegisterCLSID
  <1>2. /\ Shape /\ RegistryTyped /\ Working(p) /\ Next1(p).does = "server" /\ ~Checking(p)
        /\ proc[p].cmd \in {"register", "start"} /\ proc[p].dir \in Dirs
    BY <1>1, AtWork
  <1> DEFINE v == Next1(p).view
  <1>3. v \in Views /\ Fits(Rest(p), proc[p].cmd, proc[p].dir)
        /\ (\A s \in StepsIn(Rest(p)) : s.does # "check")
        /\ (Rest(p) # <<>> => Follows(Next1(p), Head(Rest(p))))
    BY <1>2, FirstStep
  <1>4. CASE /\ server' = [server EXCEPT ![v] = proc[p].dir]
             /\ Goes(p, Rest(p), TRUE) /\ Remembers(FALSE, FALSE)
    <2>1. /\ GoesOn(p) /\ proc'[p].todo = Rest(p) /\ (proc'[p].clean => proc[p].clean)
          /\ Left(p)' = StepsIn(Rest(p)) /\ Next1(p)' = Head(Rest(p))
          /\ (Working(p)' <=> Rest(p) # <<>>)
      BY <1>2, <1>3, <1>4, GoesFacts
    <2>2. broken' \in BOOLEAN /\ orphaned' \in BOOLEAN /\ (broken => broken') /\ (orphaned => orphaned')
      <3>1. proc'[p] # Idle
        BY <2>1, IdleIs DEF GoesOn
      <3> QED
        BY <1>2, <1>4, <3>1, Remembered
    <2>3. server'[v] = proc[p].dir /\ server'[v] # None
          /\ \A w \in Views : w # v => server'[w] = server[w]
      BY <1>2, <1>3, <1>4, RegistrationConstants DEF RegistryTyped
    <2>4. RegistryTyped'
      BY <1>1, <1>2, <1>3, <1>4, <2>2 DEF RegistryTyped
    <2>5. ProfileHasServer'
      BY <1>3, <2>3 DEF ProfileHasServer
    <2>6. NextIsSafe(p)'
      <3> SUFFICES ASSUME Rest(p) # <<>>
                   PROVE  /\ Head(Rest(p)).does = "profile" => server'[Head(Rest(p)).view] # None
                          /\ Head(Rest(p)).does \notin {"no_category", "no_server"}
        BY <2>1 DEF NextIsSafe
      <3>1. Follows(Next1(p), Head(Rest(p)))
        BY <1>3
      <3>2. Head(Rest(p)).does \notin {"no_category", "no_server"}
        BY <1>2, <3>1 DEF Follows
      <3>3. Head(Rest(p)).does = "profile" => Head(Rest(p)).view = v
        BY <3>1, StepIs DEF Follows
      <3> QED
        BY <2>3, <3>2, <3>3
    <2>7. ASSUME (proc[p].cmd = "register" /\ proc'[p].clean /\ proc[p].alone) \/ ~broken'
          PROVE  Registered(p)'
      <3>1. Registered(p)
        BY <1>2, <2>1, <2>2, <2>7, WasRegistered
      <3>2. ASSUME NEW w \in Installed[proc[p].dir], Step("server", w) \notin Left(p)'
            PROVE  server'[w] = proc[p].dir
        <4>1. Step("server", w) \notin Left(p) \/ w = v
          BY <1>2, <2>1, <3>2, LeftAfter
        <4>2. w \in Views
          BY <1>2, Bitnesses
        <4> QED
          BY <2>3, <3>1, <4>1, <4>2 DEF Registered
      <3>3. \A does \in {"profile", "category"}, w \in Views :
                Step(does, w) \notin Left(p)' => Step(does, w) \notin Left(p)
        BY <1>2, <2>1, LeftAfter
      <3>4. proc'[p].dir = proc[p].dir
        BY <2>1 DEF GoesOn
      <3> QED
        BY <1>1, <3>1, <3>2, <3>3, <3>4 DEF Registered
    <2>8. ~Checking(p)'
      BY <1>3, <2>1 DEF Checking
    <2> QED
      BY <1>2, <2>1, <2>2, <2>4, <2>5, <2>6, <2>7, <2>8, RegistrationStepKeeps
  <1>5. CASE /\ UNCHANGED server /\ Remembers(TRUE, TRUE)
             /\ Goes(p, Rest(p), FALSE)
    <2>1. /\ GoesOn(p) /\ ~proc'[p].clean /\ Left(p)' = StepsIn(Rest(p))
      BY <1>2, <1>3, <1>5, GoesFacts
    <2>2. broken' \in BOOLEAN /\ orphaned' \in BOOLEAN /\ broken' /\ orphaned'
      <3>1. proc'[p] # Idle
        BY <2>1, IdleIs DEF GoesOn
      <3> QED
        BY <1>2, <1>5, <3>1, Remembered
    <2>3. RegistryTyped' /\ ProfileHasServer' /\ NextIsSafe(p)'
      BY <1>1, <1>2, <1>5, <2>2 DEF RegistryTyped, ProfileHasServer, NextIsSafe
    <2>4. ~Checking(p)'
      BY <1>3, <2>1 DEF Checking
    <2> QED
      BY <1>2, <2>1, <2>2, <2>3, <2>4, RegistrationStepKeeps
  <1>6. CASE UNCHANGED server /\ Goes(p, SkipDll(p), FALSE) /\ Remembers(TRUE, FALSE)
    BY <1>1, <1>2, <1>6, SkippingKeeps
  <1> QED
    BY <1>4, <1>5, <1>6 DEF RegisterCLSID

LEMMA RegisterProfileKeeps ==
    ASSUME RegistrationInv, NEW p \in Procs, RegisterProfile(p)
    PROVE  RegistrationInv'
  <1>1. At(p, "profile") /\ UNCHANGED <<server, category>>
    BY DEF RegisterProfile
  <1>2. /\ Shape /\ RegistryTyped /\ Working(p) /\ Next1(p).does = "profile" /\ ~Checking(p)
        /\ proc[p].cmd \in {"register", "start"} /\ proc[p].dir \in Dirs
    BY <1>1, AtWork
  <1>3. Next1(p).view \in Views /\ Fits(Rest(p), proc[p].cmd, proc[p].dir)
        /\ (\A s \in StepsIn(Rest(p)) : s.does # "check")
        /\ (Rest(p) # <<>> => Follows(Next1(p), Head(Rest(p))))
    BY <1>2, FirstStep
  <1>4. CASE /\ profile' \in {"disabled", "enabled"}
             /\ Goes(p, Rest(p), TRUE) /\ Remembers(FALSE, FALSE)
    <2>1. /\ GoesOn(p) /\ (proc'[p].clean => proc[p].clean)
          /\ Left(p)' = StepsIn(Rest(p)) /\ Next1(p)' = Head(Rest(p))
          /\ (Working(p)' <=> Rest(p) # <<>>)
      BY <1>2, <1>3, <1>4, GoesFacts
    <2>2. /\ broken' \in BOOLEAN /\ orphaned' \in BOOLEAN /\ (broken => broken')
          /\ (orphaned => orphaned')
      <3>1. proc'[p] # Idle
        BY <2>1, IdleIs DEF GoesOn
      <3> QED
        BY <1>2, <1>4, <3>1, Remembered
    <2>3. RegistryTyped'
      BY <1>1, <1>2, <1>4, <2>2 DEF RegistryTyped
    <2>4. ProfileHasServer'
      <3>1. ~orphaned => server[Next1(p).view] # None
        BY <1>2 DEF RegistrationInv, KnownOf, NextIsSafe
      <3> QED
        BY <1>1, <1>3, <2>2, <3>1 DEF ProfileHasServer
    <2>5. NextIsSafe(p)'
      <3>1. Rest(p) # <<>> => Head(Rest(p)).does \notin {"profile", "no_category", "no_server"}
        BY <1>2, <1>3, StepIs DEF Follows
      <3> QED
        BY <2>1, <3>1 DEF NextIsSafe
    <2>6. ASSUME (proc[p].cmd = "register" /\ proc'[p].clean /\ proc[p].alone) \/ ~broken'
          PROVE  Registered(p)'
      <3>1. Registered(p)
        BY <1>2, <2>1, <2>2, <2>6, WasRegistered
      <3>2. \A does \in {"server", "category"}, w \in Views :
                Step(does, w) \notin Left(p)' => Step(does, w) \notin Left(p)
        BY <1>2, <2>1, LeftAfter
      <3>3. proc'[p].dir = proc[p].dir /\ Installed[proc[p].dir] \subseteq Views
        BY <1>2, <2>1, Bitnesses DEF GoesOn
      <3> QED
        BY <1>1, <1>4, <3>1, <3>2, <3>3 DEF Registered
    <2>7. ~Checking(p)'
      BY <1>3, <2>1 DEF Checking
    <2> QED
      BY <1>2, <2>1, <2>2, <2>3, <2>4, <2>5, <2>6, <2>7, RegistrationStepKeeps
  <1>5. CASE UNCHANGED profile /\ Goes(p, SkipDll(p), FALSE) /\ Remembers(TRUE, FALSE)
    BY <1>1, <1>2, <1>5, SkippingKeeps
  <1> QED
    BY <1>4, <1>5 DEF RegisterProfile

LEMMA RegisterCategoryKeeps ==
    ASSUME RegistrationInv, NEW p \in Procs, RegisterCategory(p)
    PROVE  RegistrationInv'
  <1>1. /\ At(p, "category") /\ UNCHANGED <<server, profile>>
        /\ category' \in {category, TRUE}
        /\ Goes(p, Rest(p), category') /\ Remembers(~category', FALSE)
    BY DEF RegisterCategory
  <1>2. /\ Shape /\ RegistryTyped /\ Working(p) /\ Next1(p).does = "category" /\ ~Checking(p)
        /\ proc[p].cmd \in {"register", "start"} /\ proc[p].dir \in Dirs
    BY <1>1, AtWork
  <1>3. Fits(Rest(p), proc[p].cmd, proc[p].dir)
        /\ (\A s \in StepsIn(Rest(p)) : s.does # "check")
        /\ (Rest(p) # <<>> => Follows(Next1(p), Head(Rest(p))))
    BY <1>2, FirstStep
  <1>4. category' \in BOOLEAN
    BY <1>1, <1>2 DEF RegistryTyped
  <1>5. /\ GoesOn(p) /\ (proc'[p].clean => proc[p].clean /\ category')
        /\ Left(p)' = StepsIn(Rest(p)) /\ Next1(p)' = Head(Rest(p))
        /\ (Working(p)' <=> Rest(p) # <<>>)
    BY <1>1, <1>2, <1>3, <1>4, GoesFacts
  <1>6. /\ broken' \in BOOLEAN /\ orphaned' \in BOOLEAN /\ (broken => broken')
        /\ (orphaned => orphaned') /\ (~broken' => category')
    <2>1. proc'[p] # Idle
      BY <1>5, IdleIs DEF GoesOn
    <2>2. (~category') \in BOOLEAN
      BY <1>4
    <2> QED
      BY <1>1, <1>2, <2>1, <2>2, Remembered
  <1>7. RegistryTyped'
    BY <1>1, <1>2, <1>4, <1>6 DEF RegistryTyped
  <1>8. ProfileHasServer'
    BY <1>1, <1>6 DEF ProfileHasServer, RegistrationInv
  <1>9. NextIsSafe(p)'
    <2>1. Rest(p) # <<>> => Head(Rest(p)).does \notin {"profile", "no_category", "no_server"}
      BY <1>2, <1>3, StepIs DEF Follows
    <2> QED
      BY <1>5, <2>1 DEF NextIsSafe
  <1>10. ASSUME (proc[p].cmd = "register" /\ proc'[p].clean /\ proc[p].alone) \/ ~broken'
         PROVE  Registered(p)'
    <2>1. Registered(p) /\ category'
      BY <1>2, <1>5, <1>6, <1>10, WasRegistered
    <2>2. \A does \in {"server", "profile"}, w \in Views :
              Step(does, w) \notin Left(p)' => Step(does, w) \notin Left(p)
      BY <1>2, <1>5, LeftAfter
    <2>3. proc'[p].dir = proc[p].dir /\ Installed[proc[p].dir] \subseteq Views
      BY <1>2, <1>5, Bitnesses DEF GoesOn
    <2> QED
      BY <1>1, <2>1, <2>2, <2>3 DEF Registered
  <1>11. ~Checking(p)'
    BY <1>3, <1>5 DEF Checking
  <1> QED
    BY <1>2, <1>5, <1>6, <1>7, <1>8, <1>9, <1>10, <1>11, RegistrationStepKeeps

\* The steps of a removal.
LEMMA WasUnregistered ==
    ASSUME RegistrationInv, NEW p \in Procs, Working(p), proc[p].cmd = "unregister",
           (proc[p].clean /\ proc[p].alone) \/ ~broken
    PROVE  Unregistered(p)
  <1>1. DoneSoFar(p) /\ Busy(p)
    BY DEF RegistrationInv, KnownOf, Working
  <1> QED
    BY <1>1 DEF DoneSoFar, Undisturbed

LEMMA RemovalStepKeeps ==
    ASSUME RegistrationInv, NEW p \in Procs, Working(p), GoesOn(p), RegistryTyped',
           broken => broken', orphaned => orphaned', proc[p].cmd = "unregister",
           ProfileHasServer', NextIsSafe(p)',
           (proc'[p].clean /\ proc[p].alone) \/ ~broken' => Unregistered(p)'
    PROVE  RegistrationInv'
  <1>1. proc'[p].cmd = proc[p].cmd /\ proc'[p].alone = proc[p].alone /\ proc'[p].dir = proc[p].dir
    BY DEF GoesOn
  <1>2. Busy(p) /\ Shape
    BY DEF Working, RegistrationInv
  <1>3. DoneSoFar(p)' /\ FoundIsSo(p)'
    BY <1>1 DEF DoneSoFar, Undisturbed, FoundIsSo
  <1>4. Settled'
    <2> SUFFICES ASSUME ~broken',
                        \A q \in Procs : Working(q)' => proc'[q].cmd = "diagnostics" \/ Checking(q)'
                 PROVE  server'[64] = None
      BY RegistrationConstants DEF Settled
    <2>1. ~Checking(p)'
      <3>1. \A s \in Left(p)' : s.does \in DeedsOf("unregister")
        BY DEF GoesOn, Fits, Left
      <3> QED
        BY <3>1 DEF Checking, DeedsOf
    <2>2. ~Working(p)' /\ Busy(p)'
      BY <1>1, <2>1, IdleIs DEF GoesOn, Busy
    <2>3. Left(p)' = {}
      BY <2>2, NothingFits DEF Working, Left
    <2>4. Unregistered(p)' /\ 64 \in Installed[proc[p].dir]
      BY <1>2, WorkIs, Bitnesses
    <2> QED
      BY <1>1, <2>3, <2>4 DEF Unregistered
  <1> QED
    BY <1>3, <1>4, StepKeeps DEF KnownOf

LEMMA UnregisterProfileKeeps ==
    ASSUME RegistrationInv, NEW p \in Procs, UnregisterProfile(p)
    PROVE  RegistrationInv'
  <1>1. At(p, "no_profile") /\ UNCHANGED <<server, category>>
    BY DEF UnregisterProfile
  <1>2. /\ Shape /\ RegistryTyped /\ Working(p) /\ Next1(p).does = "no_profile"
        /\ proc[p].cmd = "unregister" /\ proc[p].dir \in Dirs
    BY <1>1, AtWork
  <1>3. /\ Fits(Rest(p), proc[p].cmd, proc[p].dir)
        /\ (Rest(p) # <<>> => Follows(Next1(p), Head(Rest(p))))
    BY <1>2, FirstStep
  <1>4. CASE /\ profile' = "absent"
             /\ Goes(p, Rest(p), TRUE) /\ Remembers(FALSE, FALSE)
    <2>1. /\ GoesOn(p) /\ (proc'[p].clean => proc[p].clean)
          /\ Left(p)' = StepsIn(Rest(p)) /\ Next1(p)' = Head(Rest(p))
          /\ (Working(p)' <=> Rest(p) # <<>>)
      BY <1>2, <1>3, <1>4, GoesFacts
    <2>2. /\ broken' \in BOOLEAN /\ orphaned' \in BOOLEAN /\ (broken => broken')
          /\ (orphaned => orphaned')
      <3>1. proc'[p] # Idle
        BY <2>1, IdleIs DEF GoesOn
      <3> QED
        BY <1>2, <1>4, <3>1, Remembered
    <2>3. RegistryTyped'
      BY <1>1, <1>2, <1>4, <2>2 DEF RegistryTyped
    <2>4. ProfileHasServer'
      BY <1>4 DEF ProfileHasServer
    <2>5. NextIsSafe(p)'
      <3>1. Rest(p) # <<>> => Head(Rest(p)).does # "profile"
        BY <1>2, <1>3, StepIs DEF Follows
      <3> QED
        BY <1>4, <2>1, <3>1 DEF NextIsSafe
    <2>6. ASSUME (proc'[p].clean /\ proc[p].alone) \/ ~broken'
          PROVE  Unregistered(p)'
      <3>1. Unregistered(p)
        BY <1>2, <2>1, <2>2, <2>6, WasUnregistered
      <3>2. \A does \in {"no_server", "no_category"}, w \in Views :
                Step(does, w) \notin Left(p)' => Step(does, w) \notin Left(p)
        BY <1>2, <2>1, LeftAfter
      <3>3. proc'[p].dir = proc[p].dir /\ Installed[proc[p].dir] \subseteq Views
        BY <1>2, <2>1, Bitnesses DEF GoesOn
      <3> QED
        BY <1>1, <1>4, <3>1, <3>2, <3>3 DEF Unregistered
    <2> QED
      BY <1>2, <2>1, <2>2, <2>3, <2>4, <2>5, <2>6, RemovalStepKeeps
  <1>5. CASE /\ UNCHANGED profile /\ Remembers(TRUE, TRUE)
             /\ \E todo \in {Rest(p), Tail(Rest(p))} : Goes(p, todo, FALSE)
    <2>1. PICK todo \in {Rest(p), Tail(Rest(p))} : Goes(p, todo, FALSE)
      BY <1>5
    <2>2. Fits(todo, proc[p].cmd, proc[p].dir)
      <3>1. CASE todo = Rest(p)
        BY <1>3, <3>1
      <3>2. CASE todo = Tail(Rest(p))
        <4> DEFINE rest == Rest(p)
        <4>1. /\ rest \in Seq(Steps) /\ Ordered(rest) /\ rest # <<>>
              /\ \A s \in StepsIn(rest) : s.does \in DeedsOf(proc[p].cmd) /\ s.view \in Installed[proc[p].dir]
          BY <1>2, <1>3, FirstStep DEF Fits
        <4> HIDE DEF rest
        <4>2. Tail(rest) \in Seq(Steps) /\ Ordered(Tail(rest)) /\ StepsIn(Tail(rest)) \subseteq StepsIn(rest)
          BY <4>1, TailSteps
        <4>3. Fits(Tail(rest), proc[p].cmd, proc[p].dir)
          BY <4>1, <4>2 DEF Fits
        <4> QED
          BY <3>2, <4>3 DEF rest
      <3> QED
        BY <2>1, <3>1, <3>2
    <2>3. GoesOn(p) /\ ~proc'[p].clean
      BY <1>2, <2>1, <2>2, GoesFacts
    <2>4. broken' \in BOOLEAN /\ orphaned' \in BOOLEAN /\ broken' /\ orphaned'
      <3>1. proc'[p] # Idle
        BY <2>3, IdleIs DEF GoesOn
      <3> QED
        BY <1>2, <1>5, <3>1, Remembered
    <2>5. RegistryTyped' /\ ProfileHasServer' /\ NextIsSafe(p)'
      BY <1>1, <1>2, <1>5, <2>4 DEF RegistryTyped, ProfileHasServer, NextIsSafe
    <2> QED
      BY <1>2, <2>3, <2>4, <2>5, RemovalStepKeeps
  <1> QED
    BY <1>4, <1>5 DEF UnregisterProfile

LEMMA UnregisterCategoryKeeps ==
    ASSUME RegistrationInv, NEW p \in Procs, UnregisterCategory(p)
    PROVE  RegistrationInv'
  <1>1. /\ At(p, "no_category") /\ UNCHANGED <<server, profile>>
        /\ category' \in {category, FALSE}
        /\ Goes(p, Rest(p), ~category') /\ Remembers(category', FALSE)
    BY DEF UnregisterCategory
  <1>2. /\ Shape /\ RegistryTyped /\ Working(p) /\ Next1(p).does = "no_category"
        /\ proc[p].cmd = "unregister" /\ proc[p].dir \in Dirs
    BY <1>1, AtWork
  <1>3. /\ Fits(Rest(p), proc[p].cmd, proc[p].dir)
        /\ (Rest(p) # <<>> => Follows(Next1(p), Head(Rest(p))))
    BY <1>2, FirstStep
  <1>4. category' \in BOOLEAN /\ (~category') \in BOOLEAN
    BY <1>1, <1>2 DEF RegistryTyped
  <1>5. /\ GoesOn(p) /\ (proc'[p].clean => proc[p].clean /\ ~category')
        /\ Left(p)' = StepsIn(Rest(p)) /\ Next1(p)' = Head(Rest(p))
        /\ (Working(p)' <=> Rest(p) # <<>>)
    BY <1>1, <1>2, <1>3, <1>4, GoesFacts
  <1>6. /\ broken' \in BOOLEAN /\ orphaned' \in BOOLEAN /\ (broken => broken')
        /\ (orphaned => orphaned') /\ (~broken' => ~category')
    <2>1. proc'[p] # Idle
      BY <1>5, IdleIs DEF GoesOn
    <2> QED
      BY <1>1, <1>2, <1>4, <2>1, Remembered
  <1>7. RegistryTyped'
    BY <1>1, <1>2, <1>4, <1>6 DEF RegistryTyped
  <1>8. ProfileHasServer'
    BY <1>1, <1>6 DEF ProfileHasServer, RegistrationInv
  <1>9. NextIsSafe(p)'
    <2>1. ~orphaned => profile = "absent"
      BY <1>2 DEF RegistrationInv, KnownOf, NextIsSafe
    <2>2. Rest(p) # <<>> => Head(Rest(p)).does # "profile"
      BY <1>2, <1>3, StepIs DEF Follows
    <2> QED
      BY <1>1, <1>5, <1>6, <2>1, <2>2 DEF NextIsSafe
  <1>10. ASSUME (proc'[p].clean /\ proc[p].alone) \/ ~broken'
         PROVE  Unregistered(p)'
    <2>1. Unregistered(p) /\ ~category'
      BY <1>2, <1>5, <1>6, <1>10, WasUnregistered
    <2>2. \A does \in {"no_server", "no_profile"}, w \in Views :
              Step(does, w) \notin Left(p)' => Step(does, w) \notin Left(p)
      BY <1>2, <1>5, LeftAfter
    <2>3. proc'[p].dir = proc[p].dir /\ Installed[proc[p].dir] \subseteq Views
      BY <1>2, <1>5, Bitnesses DEF GoesOn
    <2> QED
      BY <1>1, <2>1, <2>2, <2>3 DEF Unregistered
  <1> QED
    BY <1>2, <1>5, <1>6, <1>7, <1>8, <1>9, <1>10, RemovalStepKeeps

LEMMA UnregisterCLSIDKeeps ==
    ASSUME RegistrationInv, NEW p \in Procs, UnregisterCLSID(p)
    PROVE  RegistrationInv'
  <1> DEFINE v == Next1(p).view
  <1>1. At(p, "no_server") /\ UNCHANGED <<profile, category>>
    BY DEF UnregisterCLSID
  <1>2. PICK left \in {None, server[v]} :
            /\ server' = [server EXCEPT ![v] = left]
            /\ Goes(p, Rest(p), left = None) /\ Remembers(left # None, FALSE)
    BY DEF UnregisterCLSID
  <1>3. /\ Shape /\ RegistryTyped /\ Working(p) /\ Next1(p).does = "no_server"
        /\ proc[p].cmd = "unregister" /\ proc[p].dir \in Dirs
    BY <1>1, AtWork
  <1>4. /\ v \in Views /\ Fits(Rest(p), proc[p].cmd, proc[p].dir)
        /\ (Rest(p) # <<>> => Follows(Next1(p), Head(Rest(p))))
    BY <1>3, FirstStep
  <1>5. (left = None) \in BOOLEAN /\ (left # None) \in BOOLEAN
    OBVIOUS
  <1>6. /\ GoesOn(p) /\ (proc'[p].clean => proc[p].clean /\ left = None)
        /\ Left(p)' = StepsIn(Rest(p)) /\ Next1(p)' = Head(Rest(p))
        /\ (Working(p)' <=> Rest(p) # <<>>)
    BY <1>2, <1>3, <1>4, <1>5, GoesFacts
  <1>7. /\ broken' \in BOOLEAN /\ orphaned' \in BOOLEAN /\ (broken => broken')
        /\ (orphaned => orphaned') /\ (~broken' => left = None)
    <2>1. proc'[p] # Idle
      BY <1>6, IdleIs DEF GoesOn
    <2> QED
      BY <1>2, <1>3, <1>5, <2>1, Remembered
  <1>8. left \in Dirs \cup {None} /\ server'[v] = left
        /\ \A w \in Views : w # v => server'[w] = server[w]
    BY <1>2, <1>3, <1>4 DEF RegistryTyped
  <1>9. RegistryTyped'
    BY <1>1, <1>2, <1>3, <1>7, <1>8 DEF RegistryTyped
  <1>10. ~orphaned => profile = "absent"
    BY <1>3 DEF RegistrationInv, KnownOf, NextIsSafe
  <1>11. ProfileHasServer'
    BY <1>1, <1>7, <1>10 DEF ProfileHasServer
  <1>12. NextIsSafe(p)'
    <2>1. Rest(p) # <<>> => Head(Rest(p)).does # "profile"
      BY <1>3, <1>4, StepIs DEF Follows
    <2> QED
      BY <1>1, <1>6, <1>7, <1>10, <2>1 DEF NextIsSafe
  <1>13. ASSUME (proc'[p].clean /\ proc[p].alone) \/ ~broken'
         PROVE  Unregistered(p)'
    <2>1. Unregistered(p) /\ left = None
      BY <1>3, <1>6, <1>7, <1>13, WasUnregistered
    <2>2. \A does \in {"no_profile", "no_category"}, w \in Views :
              Step(does, w) \notin Left(p)' => Step(does, w) \notin Left(p)
      BY <1>3, <1>6, LeftAfter
    <2>3. proc'[p].dir = proc[p].dir /\ Installed[proc[p].dir] \subseteq Views
      BY <1>3, <1>6, Bitnesses DEF GoesOn
    <2>4. ASSUME NEW w \in Installed[proc[p].dir], Step("no_server", w) \notin Left(p)'
          PROVE  server'[w] = None
      <3>1. Step("no_server", w) \notin Left(p) \/ w = v
        BY <1>3, <1>6, <2>4, LeftAfter
      <3> QED
        BY <1>8, <2>1, <2>3, <3>1 DEF Unregistered
    <2> QED
      BY <1>1, <2>1, <2>2, <2>3, <2>4 DEF Unregistered
  <1> QED
    BY <1>3, <1>6, <1>7, <1>9, <1>11, <1>12, <1>13, RemovalStepKeeps

\* While a process works undisturbed, nobody else does.
LEMMA OnlyOneWorks ==
    ASSUME RegistrationInv, NEW p \in Procs, Working(p), ~broken \/ ~orphaned
    PROVE  \A q \in Procs : q # p => ~Working(q)
  BY DEF RegistrationInv, NobodyBeside, Working

\* The check at a start, and the questions of the diagnosis.
LEMMA ReaderKeeps ==
    ASSUME RegistrationInv, NEW p \in Procs, Working(p), GoesOn(p), Unchanged,
           proc[p].cmd = "diagnostics" \/ Checking(p),
           NextIsSafe(p)', FoundIsSo(p)', DoneSoFar(p)'
    PROVE  RegistrationInv'
  <1>1. RegistryTyped' /\ ProfileHasServer'
    BY DEF Unchanged, RegistrationInv, Shape, RegistryTyped, ProfileHasServer
  <1>2. Settled'
    <2>1. ~broken => \A q \in Procs : Working(q) => proc[q].cmd = "diagnostics" \/ Checking(q)
      BY OnlyOneWorks
    <2>2. ~broken => \A d \in Dirs : server[64] = d => Complete(d)
      BY <2>1 DEF RegistrationInv, Settled
    <2> QED
      BY <2>2 DEF Settled, Unchanged, Complete
  <1> QED
    BY <1>1, <1>2, StepKeeps DEF Unchanged, KnownOf

LEMMA EnsureTsfDllRegisteredKeeps ==
    ASSUME RegistrationInv, NEW p \in Procs, EnsureTsfDllRegistered(p)
    PROVE  RegistrationInv'
  <1>1. At(p, "check") /\ Unchanged
    BY DEF EnsureTsfDllRegistered
  <1>2. Shape /\ Working(p) /\ proc[p].cmd = "start" /\ Checking(p) /\ proc[p].dir \in Dirs
    BY <1>1, AtWork
  <1>3. CASE Goes(p, <<>>, TRUE)
    <2>1. GoesOn(p) /\ ~Working(p)' /\ proc'[p].cmd = "start"
      BY <1>2, <1>3, NothingFits, GoesFacts DEF GoesOn
    <2> QED
      BY <1>1, <1>2, <2>1, ReaderKeeps DEF NextIsSafe, FoundIsSo, DoneSoFar
  <1>4. CASE Goes(p, RegisterTsfDll(proc[p].dir), TRUE)
    <2> DEFINE todo == RegisterTsfDll(proc[p].dir)
    <2>1. /\ todo \in Seq(Steps) /\ Head(todo) = Step("server", 64) /\ Ordered(todo)
          /\ StepsIn(todo) = StepsOf(DeedsOf("register"), proc[p].dir)
      BY <1>2, RegisterSteps
    <2> HIDE DEF todo
    <2>2. Fits(todo, proc[p].cmd, proc[p].dir)
      <3>1. DeedsOf("register") \subseteq DeedsOf(proc[p].cmd)
        BY <1>2 DEF DeedsOf
      <3> QED
        BY <2>1, <3>1, StepsOfFit DEF Fits
    <2>3. GoesOn(p) /\ Left(p)' = StepsIn(todo) /\ Next1(p)' = Head(todo)
      BY <1>2, <1>4, <2>2, GoesFacts DEF todo
    <2>4. proc'[p].cmd = "start" /\ proc'[p].dir = proc[p].dir
      BY <1>2, <2>3 DEF GoesOn
    <2>5. NextIsSafe(p)' /\ FoundIsSo(p)'
      BY <2>1, <2>3, <2>4, StepIs DEF NextIsSafe, FoundIsSo
    <2>6. Registered(p)'
      <3>1. \A w \in {"server", "profile", "category"}, v \in Installed[proc[p].dir] :
                Step(w, v) \in StepsIn(todo)
        BY <2>1 DEF StepsOf, DeedsOf
      <3>2. 64 \in Installed[proc[p].dir] /\ 64 \in Views
        BY <1>2, Bitnesses DEF Views
      <3> QED
        BY <2>3, <2>4, <3>1, <3>2 DEF Registered
    <2>7. DoneSoFar(p)'
      BY <2>4, <2>6 DEF DoneSoFar
    <2> QED
      BY <1>1, <1>2, <2>3, <2>5, <2>7, ReaderKeeps
  <1> QED
    BY <1>3, <1>4 DEF EnsureTsfDllRegistered

LEMMA AskServerKeeps ==
    ASSUME RegistrationInv, NEW p \in Procs, AskServer(p)
    PROVE  RegistrationInv'
  <1>1. At(p, "ask_server") /\ Unchanged
    BY DEF AskServer
  <1>2. /\ Shape /\ RegistryTyped /\ Working(p) /\ Next1(p).does = "ask_server"
        /\ proc[p].cmd = "diagnostics" /\ proc[p].dir \in Dirs
    BY <1>1, AtWork
  <1>3. /\ Fits(Rest(p), proc[p].cmd, proc[p].dir) /\ Rest(p) \in Seq(Steps)
        /\ \A s \in StepsIn(Rest(p)) : s.does \in {"ask_server", "ask_profile"}
    BY <1>2, FirstStep DEF Fits, DeedsOf
  <1>4. proc \in [Procs -> Works \cup {Idle}] /\ proc[p] \in Works
    BY <1>2, WorkIs DEF Shape, ProcTyped, Working
  <1> DEFINE found == (server[64] = proc[p].dir)
  <1> DEFINE w == [proc[p] EXCEPT !.todo = Rest(p), !.found = found]
  <1>5. /\ w \in Works /\ w.todo = Rest(p) /\ w.cmd = proc[p].cmd /\ w.dir = proc[p].dir
        /\ w.alone = proc[p].alone
    BY <1>3, <1>4 DEF Works
  <1>6. w.found = found
    BY <1>4 DEF Works
  <1>7. proc' = [proc EXCEPT ![p] = w]
    BY <1>4 DEF AskServer
  <1> HIDE DEF w
  <1>8. /\ proc' \in [Procs -> Works \cup {Idle}] /\ proc'[p] = w
        /\ \A q \in Procs : q # p => proc'[q] = proc[q]
    BY <1>4, <1>5, <1>7
  <1>9. GoesOn(p)
    BY <1>3, <1>5, <1>8 DEF GoesOn
  <1>10. NextIsSafe(p)'
    <2> SUFFICES ASSUME Working(p)'
                 PROVE  Next1(p)'.does \notin {"profile", "no_category", "no_server"}
      BY DEF NextIsSafe
    <2>1. Rest(p) # <<>>
      BY <1>5, <1>8 DEF Working
    <2>2. Head(Rest(p)) \in StepsIn(Rest(p))
      BY <1>3, <2>1, TailSteps
    <2>3. Next1(p)' = Head(Rest(p))
      BY <1>5, <1>8 DEF Next1
    <2> QED
      BY <1>3, <2>2, <2>3
  <1>11. FoundIsSo(p)'
    BY <1>1, <1>5, <1>6, <1>8 DEF FoundIsSo, Unchanged
  <1>12. DoneSoFar(p)'
    BY <1>2, <1>5, <1>8 DEF DoneSoFar
  <1> QED
    BY <1>1, <1>2, <1>9, <1>10, <1>11, <1>12, ReaderKeeps

-----------------------------------------------------------------------------
(* Ends and beginnings.                                                      *)

\* A process is gone: what it had left undone is remembered, unless it only
\* looked.
LEMMA GoneKeeps ==
    ASSUME RegistrationInv, NEW p \in Procs, Busy(p), NEW breaks \in BOOLEAN,
           proc' = [proc EXCEPT ![p] = Idle],
           UNCHANGED <<server, profile, category>>,
           Remembers(breaks, FALSE),
           Working(p) /\ proc[p].cmd # "diagnostics" => breaks
    PROVE  RegistrationInv'
  <1>1. Shape /\ RegistryTyped /\ proc \in [Procs -> Works \cup {Idle}]
    BY DEF RegistrationInv, Shape, ProcTyped
  <1>2. /\ broken' \in BOOLEAN /\ orphaned' \in BOOLEAN
        /\ ~broken' => \/ ~broken /\ ~breaks
                       \/ (\A q \in Procs : proc'[q] = Idle) /\ Absent(server', profile', category')
        /\ ~orphaned' => \/ ~orphaned
                         \/ (\A q \in Procs : proc'[q] = Idle) /\ profile' = "absent"
    BY <1>1, Remembered
  <1>3. /\ proc' \in [Procs -> Works \cup {Idle}] /\ proc'[p] = Idle /\ ~Busy(p)' /\ ~Working(p)'
        /\ \A q \in Procs : q # p => /\ proc'[q] = proc[q]
                                     /\ (Busy(q)' <=> Busy(q)) /\ (Working(q)' <=> Working(q))
    BY <1>1 DEF Busy, Working
  <1>4. RegistryTyped'
    BY <1>1, <1>2 DEF RegistryTyped
  <1>5. Shape'
    <2>1. TodoShaped'
      BY <1>1, <1>3 DEF Shape, TodoShaped, Busy
    <2>2. OneStarted'
      BY <1>1, <1>3, IdleIs DEF Shape, OneStarted
    <2> QED
      BY <1>3, <1>4, <2>1, <2>2 DEF Shape, ProcTyped
  <1>6. NobodyBeside'
    <2> SUFFICES ASSUME NEW q \in Procs, NEW r \in Procs, q # r, Busy(q)', Working(r)'
                 PROVE  ~proc'[q].alone /\ (Working(q)' => broken' /\ orphaned')
      BY DEF NobodyBeside
    <2>1. q # p /\ r # p /\ Busy(q) /\ Working(r)
      BY <1>3
    <2>2. ~proc[q].alone /\ (Working(q) => broken /\ orphaned)
      BY <2>1 DEF RegistrationInv, NobodyBeside
    <2>3. proc'[q] # Idle
      BY <2>1 DEF Busy
    <2> QED
      BY <1>2, <1>3, <2>1, <2>2, <2>3
  <1>7. ProfileHasServer'
    BY <1>2 DEF ProfileHasServer, RegistrationInv
  <1>8. Settled'
    <2> SUFFICES ASSUME ~broken',
                        \A q \in Procs : Working(q)' => proc'[q].cmd = "diagnostics" \/ Checking(q)',
                        NEW d \in Dirs, server'[64] = d
                 PROVE  Complete(d)'
      BY DEF Settled
    <2>1. CASE ~broken /\ ~breaks
      <3>1. \A q \in Procs : Working(q) => proc[q].cmd = "diagnostics" \/ Checking(q)
        BY <1>3, <2>1 DEF Checking, Left
      <3> QED
        BY <2>1, <3>1 DEF RegistrationInv, Settled, Complete
    <2>2. CASE Absent(server', profile', category')
      <3>1. server'[64] = None
        BY <2>2 DEF Absent, Views
      <3> QED
        BY <3>1, RegistrationConstants
    <2> QED
      BY <1>2, <2>1, <2>2
  <1>9. ASSUME NEW q \in Procs
        PROVE  KnownOf(q)'
    <2>1. CASE ~Busy(q)'
      BY <2>1 DEF KnownOf, NextIsSafe, DoneSoFar, FoundIsSo, Working
    <2>2. CASE Busy(q)'
      <3>1. q # p /\ Busy(q) /\ proc'[q] = proc[q] /\ proc'[q] # Idle /\ (Working(q)' <=> Working(q))
        BY <1>3, <2>2 DEF Busy
      <3>2. (~broken' => ~broken) /\ (~orphaned' => ~orphaned)
        BY <1>2, <3>1
      <3>3. KnownOf(q)
        BY DEF RegistrationInv
      <3>4. NextIsSafe(q)'
        BY <3>1, <3>2, <3>3 DEF KnownOf, NextIsSafe, Next1
      <3>5. FoundIsSo(q)'
        BY <3>1, <3>2, <3>3 DEF KnownOf, FoundIsSo, Left
      <3>6. (Registered(q) => Registered(q)') /\ (Unregistered(q) => Unregistered(q)')
        BY <3>1 DEF Registered, Unregistered, Left
      <3>7. (Undisturbed(q)' => Undisturbed(q)) /\ (Checking(q) => Checking(q)')
        BY <3>1, <3>2 DEF Undisturbed, Checking, Left
      <3>8. DoneSoFar(q)'
        BY <3>1, <3>2, <3>3, <3>6, <3>7 DEF KnownOf, DoneSoFar
      <3> QED
        BY <3>4, <3>5, <3>8 DEF KnownOf
    <2> QED
      BY <2>1, <2>2
  <1> QED
    BY <1>5, <1>6, <1>7, <1>8, <1>9 DEF RegistrationInv

\* What regsvr32 does without its parent.
LEMMA ParentGoneKeeps ==
    ASSUME RegistrationInv, NEW p \in Procs, KillParent(p)
    PROVE  RegistrationInv'
  <1>1. Shape /\ RegistryTyped /\ proc \in [Procs -> Works \cup {Idle}] /\ Busy(p) /\ Working(p)
    BY DEF KillParent, RegistrationInv, Shape, ProcTyped, Working
  <1>2. /\ proc' = [proc EXCEPT ![p] = Regsvr32(p)] /\ UNCHANGED <<server, profile, category>>
        /\ Remembers(TRUE, FALSE) /\ Next1(p).view = 32
    BY DEF KillParent
  <1>3. /\ proc[p] \in Works /\ proc[p].cmd \in Commands /\ proc[p].dir \in Dirs
        /\ Fits(proc[p].todo, proc[p].cmd, proc[p].dir)
    BY <1>1, WorkIs
  <1>4. /\ Next1(p) \in Steps /\ Next1(p).does \in DeedsOf(proc[p].cmd)
        /\ Left(p) = {Next1(p)} \cup StepsIn(Rest(p))
        /\ \A s \in StepsIn(Rest(p)) : s.does # "check"
    BY <1>1, FirstStep
  <1>5. Next1(p).does \notin Asks
    BY <1>2, <1>4 DEF Steps
  <1> DEFINE w == Regsvr32(p)
  <1>6. /\ w \in Works /\ w.todo = proc[p].todo /\ w.dir = proc[p].dir /\ w.alone = proc[p].alone
        /\ w.cmd = IF proc[p].cmd = "unregister" THEN "unregister" ELSE "register"
    BY <1>3 DEF Regsvr32, Works, Commands
  <1>7. ~w.clean
    BY <1>3 DEF Regsvr32, Works
  <1>8. Fits(w.todo, w.cmd, w.dir)
    <2>1. proc[p].cmd # "diagnostics"
      BY <1>4, <1>5 DEF DeedsOf, Asks
    <2>2. \A s \in StepsIn(proc[p].todo) : s.does \in DeedsOf(proc[p].cmd) /\ s.does # "check"
      BY <1>3, <1>4, <1>5 DEF Fits, Left, Asks
    <2>3. \A s \in StepsIn(proc[p].todo) : s.does \in DeedsOf(w.cmd)
      BY <1>3, <1>6, <2>1, <2>2 DEF DeedsOf, Commands
    <2> QED
      BY <1>3, <1>6, <2>3 DEF Fits
  <1>9. w # Idle
    BY <1>6, IdleIs
  <1>10. proc' = [proc EXCEPT ![p] = w]
    BY <1>2
  <1> HIDE DEF w
  <1>11. /\ proc' \in [Procs -> Works \cup {Idle}] /\ proc'[p] = w /\ Busy(p)'
         /\ \A q \in Procs : q # p => /\ proc'[q] = proc[q]
                                      /\ (Busy(q)' <=> Busy(q)) /\ (Working(q)' <=> Working(q))
    BY <1>1, <1>6, <1>9, <1>10 DEF Busy, Working
  <1>12. broken' \in BOOLEAN /\ orphaned' \in BOOLEAN /\ broken' /\ (orphaned => orphaned')
    BY <1>1, <1>2, <1>9, <1>11, Remembered
  <1>13. RegistryTyped'
    BY <1>1, <1>2, <1>12 DEF RegistryTyped
  <1>14. Shape'
    <2>1. TodoShaped'
      <3> SUFFICES ASSUME NEW q \in Procs, Busy(q)'
                   PROVE  Fits(proc'[q].todo, proc'[q].cmd, proc'[q].dir)
        BY DEF TodoShaped, Fits, Ordered, StepsIn
      <3>1. CASE q = p
        BY <1>8, <1>11, <3>1
      <3>2. CASE q # p
        BY <1>1, <1>11, <3>2 DEF Shape, TodoShaped, Busy
      <3> QED
        BY <3>1, <3>2
    <2>2. OneStarted'
      BY <1>1, <1>6, <1>11 DEF Shape, OneStarted
    <2> QED
      BY <1>11, <1>13, <2>1, <2>2 DEF Shape, ProcTyped
  <1>15. NobodyBeside'
    <2> SUFFICES ASSUME NEW q \in Procs, NEW r \in Procs, q # r, Busy(q)', Working(r)'
                 PROVE  ~proc'[q].alone /\ (Working(q)' => broken' /\ orphaned')
      BY DEF NobodyBeside
    <2>1. Busy(q) /\ Working(r) /\ proc'[q].alone = proc[q].alone
      BY <1>1, <1>6, <1>11
    <2>2. ~proc[q].alone /\ (Working(q) => broken /\ orphaned)
      BY <2>1 DEF RegistrationInv, NobodyBeside
    <2>3. Working(q)' => Working(q)
      BY <1>1, <1>11
    <2> QED
      BY <1>12, <2>1, <2>2, <2>3
  <1>16. ProfileHasServer' /\ Settled'
    BY <1>2, <1>12 DEF ProfileHasServer, RegistrationInv, Settled
  <1>17. ASSUME NEW q \in Procs
         PROVE  KnownOf(q)'
    <2>1. FoundIsSo(q)'
      BY <1>12 DEF FoundIsSo
    <2>2. NextIsSafe(q)'
      <3>1. NextIsSafe(q)
        BY DEF RegistrationInv, KnownOf
      <3>2. Working(q)' => Working(q) /\ Next1(q)' = Next1(q)
        BY <1>1, <1>6, <1>11 DEF Next1
      <3> QED
        BY <1>2, <1>12, <3>1, <3>2 DEF NextIsSafe
    <2>3. Busy(q)' => ~Undisturbed(q)'
      <3>1. CASE q = p
        BY <1>7, <1>11, <1>12, <3>1 DEF Undisturbed
      <3>2. CASE q # p
        <4>1. Busy(q)' => ~proc'[q].alone
          BY <1>1, <1>11, <3>2 DEF RegistrationInv, NobodyBeside
        <4> QED
          BY <1>12, <4>1 DEF Undisturbed
      <3> QED
        BY <3>1, <3>2
    <2>4. DoneSoFar(q)'
      BY <1>12, <2>3 DEF DoneSoFar
    <2> QED
      BY <2>1, <2>2, <2>4 DEF KnownOf
  <1> QED
    BY <1>14, <1>15, <1>16, <1>17 DEF RegistrationInv

LEMMA BeginKeeps ==
    ASSUME RegistrationInv, NEW p \in Procs, NEW cmd \in Commands, NEW d \in Dirs, Begin(p, cmd, d)
    PROVE  RegistrationInv'
  <1> DEFINE others == {q \in Procs : Busy(q) /\ proc[q].todo # <<>>}
  <1> DEFINE w == [cmd |-> cmd, dir |-> d, todo |-> Program(cmd, d), found |-> FALSE,
                   clean |-> TRUE, alone |-> others = {}]
  <1>1. /\ ~Busy(p) /\ UNCHANGED <<server, profile, category>>
        /\ cmd = "start" => \A q \in Procs : proc[q].cmd # "start"
        /\ proc' = [q \in Procs |->
              IF q = p THEN w
              ELSE IF Busy(q) THEN [proc[q] EXCEPT !.alone = FALSE] ELSE Idle]
        /\ Remembers(others # {}, others # {})
    BY DEF Begin
  <1>2. Shape /\ RegistryTyped /\ proc \in [Procs -> Works \cup {Idle}]
    BY DEF RegistrationInv, Shape, ProcTyped
  <1>3. /\ Fits(Program(cmd, d), cmd, d) /\ Program(cmd, d) # <<>>
        /\ Head(Program(cmd, d)).does \notin {"profile", "no_category", "no_server"}
        /\ cmd \in {"register", "unregister"} => StepsIn(Program(cmd, d)) = StepsOf(DeedsOf(cmd), d)
        /\ cmd = "start" => Step("check", 64) \in StepsIn(Program(cmd, d))
        /\ cmd = "diagnostics" => Step("ask_server", 64) \in StepsIn(Program(cmd, d))
    BY ProgramFits
  <1>4. w \in Works
    BY <1>3 DEF Works, Fits
  <1>5. /\ w.cmd = cmd /\ w.dir = d /\ w.todo = Program(cmd, d) /\ w.alone = (others = {})
    OBVIOUS
  <1>6. proc'[p] = w
    BY <1>1
  <1>7. ASSUME NEW q \in Procs, q # p
        PROVE  /\ ~Busy(q) => proc'[q] = Idle
               /\ Busy(q) => /\ proc'[q] \in Works /\ proc'[q].cmd = proc[q].cmd
                             /\ proc'[q].dir = proc[q].dir /\ proc'[q].todo = proc[q].todo
                             /\ proc'[q].found = proc[q].found /\ ~proc'[q].alone
    <2>1. CASE ~Busy(q)
      BY <1>1, <1>7, <2>1
    <2>2. CASE Busy(q)
      <3>1. proc'[q] = [proc[q] EXCEPT !.alone = FALSE]
        BY <1>1, <1>7, <2>2
      <3>2. proc[q] \in Works
        BY <1>2, <2>2, WorkIs
      <3> QED
        BY <2>2, <3>1, <3>2 DEF Works
    <2> QED
      BY <2>1, <2>2
  <1> HIDE DEF w, others
  <1>8. proc'[p] # Idle /\ Busy(p)' /\ Working(p)'
    BY <1>3, <1>4, <1>5, <1>6, IdleIs DEF Busy, Working
  <1>9. \A q \in Procs : q # p => (Busy(q)' <=> Busy(q)) /\ (Working(q)' <=> Working(q))
    BY <1>7, IdleIs DEF Busy, Working
  <1>10. /\ broken' \in BOOLEAN /\ orphaned' \in BOOLEAN
         /\ (broken => broken') /\ (orphaned => orphaned')
         /\ others # {} => broken' /\ orphaned'
    <2>1. (others # {}) \in BOOLEAN
      OBVIOUS
    <2> QED
      BY <1>1, <1>2, <1>8, <2>1, Remembered
  <1>11. others = {} => \A q \in Procs : ~Working(q)
    BY DEF others, Working
  <1>12. \A q \in Procs : Working(q) => others # {}
    BY DEF others, Working
  <1>13. RegistryTyped'
    BY <1>1, <1>2, <1>10 DEF RegistryTyped
  <1>14. Shape'
    <2>1. ProcTyped'
      <3>1. \A q \in Procs : proc'[q] \in Works \cup {Idle}
        BY <1>4, <1>6, <1>7
      <3>2. proc' = [q \in Procs |-> proc'[q]]
        BY <1>1
      <3> QED
        BY <3>1, <3>2 DEF ProcTyped
    <2>2. TodoShaped'
      <3> SUFFICES ASSUME NEW q \in Procs, Busy(q)'
                   PROVE  Fits(proc'[q].todo, proc'[q].cmd, proc'[q].dir)
        BY DEF TodoShaped
      <3>1. CASE q = p
        BY <1>3, <1>5, <1>6, <3>1
      <3>2. CASE q # p
        <4>1. Busy(q)
          BY <1>9, <3>2
        <4> QED
          BY <1>2, <1>7, <3>2, <4>1, WorkIs
      <3> QED
        BY <3>1, <3>2
    <2>3. OneStarted'
      <3>1. \A q \in Procs : q # p => proc'[q].cmd = proc[q].cmd
        BY <1>7, IdleIs DEF Busy
      <3>2. proc'[p].cmd = cmd
        BY <1>5, <1>6
      <3> QED
        BY <1>1, <1>2, <3>1, <3>2 DEF Shape, OneStarted
    <2> QED
      BY <1>13, <2>1, <2>2, <2>3 DEF Shape
  <1>15. NobodyBeside'
    <2> SUFFICES ASSUME NEW q \in Procs, NEW r \in Procs, q # r, Busy(q)', Working(r)'
                 PROVE  ~proc'[q].alone /\ (Working(q)' => broken' /\ orphaned')
      BY DEF NobodyBeside
    <2>1. CASE q = p
      <3>1. Working(r)
        BY <1>9, <2>1
      <3> QED
        BY <1>5, <1>6, <1>10, <1>12, <2>1, <3>1
    <2>2. CASE q # p
      <3>1. Busy(q) /\ ~proc'[q].alone /\ (Working(q)' => Working(q))
        BY <1>7, <1>9, <2>2
      <3> QED
        BY <1>10, <1>12, <3>1
    <2> QED
      BY <2>1, <2>2
  <1>16. ProfileHasServer'
    BY <1>1, <1>10 DEF ProfileHasServer, RegistrationInv
  <1>17. Settled'
    <2> SUFFICES ASSUME ~broken'
                 PROVE  \A e \in Dirs : server[64] = e => Complete(e)
      BY <1>1 DEF Settled, Complete
    <2>1. ~broken /\ \A q \in Procs : ~Working(q)
      BY <1>10, <1>11
    <2> QED
      BY <2>1 DEF RegistrationInv, Settled
  <1>18. ASSUME NEW q \in Procs
         PROVE  KnownOf(q)'
    <2>1. CASE q = p
      <3>1. Left(p)' = StepsIn(Program(cmd, d)) /\ Next1(p)' = Head(Program(cmd, d))
            /\ proc'[p].cmd = cmd /\ proc'[p].dir = d
        BY <1>5, <1>6 DEF Left, Next1
      <3>2. NextIsSafe(p)'
        BY <1>3, <3>1 DEF NextIsSafe
      <3>3. FoundIsSo(p)'
        BY <1>3, <3>1 DEF FoundIsSo
      <3>4. cmd = "register" => Registered(p)'
        <4> SUFFICES ASSUME cmd = "register"
                     PROVE  Registered(p)'
          OBVIOUS
        <4>1. \A does \in {"server", "profile", "category"}, v \in Installed[d] : Step(does, v) \in Left(p)'
          BY <1>3, <3>1 DEF StepsOf, DeedsOf
        <4>2. 64 \in Installed[d] /\ 64 \in Views
          BY Bitnesses DEF Views
        <4> QED
          BY <3>1, <4>1, <4>2 DEF Registered
      <3>5. cmd = "unregister" => Unregistered(p)'
        <4> SUFFICES ASSUME cmd = "unregister"
                     PROVE  Unregistered(p)'
          OBVIOUS
        <4>1. \A does \in {"no_server", "no_profile", "no_category"}, v \in Installed[d] :
                  Step(does, v) \in Left(p)'
          BY <1>3, <3>1 DEF StepsOf, DeedsOf
        <4>2. 64 \in Installed[d] /\ 64 \in Views
          BY Bitnesses DEF Views
        <4> QED
          BY <3>1, <4>1, <4>2 DEF Unregistered
      <3>6. cmd = "start" => Checking(p)'
        BY <1>3, <3>1, StepIs DEF Checking
      <3>7. DoneSoFar(p)'
        BY <3>1, <3>4, <3>5, <3>6 DEF DoneSoFar
      <3> QED
        BY <2>1, <3>2, <3>3, <3>7 DEF KnownOf
    <2>2. CASE q # p
      <3>1. Working(q)' => broken' /\ orphaned'
        BY <1>9, <1>10, <1>12, <2>2
      <3>2. Busy(q)' => ~proc'[q].alone
        BY <1>7, <1>9, <2>2
      <3> QED
        BY <3>1, <3>2 DEF KnownOf, NextIsSafe, FoundIsSo, DoneSoFar, Undisturbed
    <2> QED
      BY <2>1, <2>2
  <1> QED
    BY <1>14, <1>15, <1>16, <1>17, <1>18 DEF RegistrationInv

LEMMA SwitchProfileKeeps ==
    ASSUME RegistrationInv, SwitchProfile
    PROVE  RegistrationInv'
  <1>1. /\ profile # "absent" /\ profile' \in {"disabled", "enabled"}
        /\ UNCHANGED <<server, category, proc, broken, orphaned>>
    BY DEF SwitchProfile
  <1>2. Shape'
    BY <1>1 DEF RegistrationInv, Shape, RegistryTyped, ProcTyped, TodoShaped, OneStarted, Busy
  <1>3. NobodyBeside'
    BY <1>1 DEF RegistrationInv, NobodyBeside, Busy, Working
  <1>4. ProfileHasServer'
    BY <1>1 DEF RegistrationInv, ProfileHasServer
  <1>5. Settled'
    BY <1>1 DEF RegistrationInv, Settled, Working, Busy, Checking, Left, Complete
  <1>6. ASSUME NEW p \in Procs
        PROVE  KnownOf(p)'
    <2>1. /\ (Working(p)' <=> Working(p)) /\ (Busy(p)' <=> Busy(p)) /\ Next1(p)' = Next1(p)
          /\ Left(p)' = Left(p) /\ proc'[p] = proc[p]
      BY <1>1 DEF Working, Busy, Next1, Left
    <2>2. KnownOf(p)
      BY DEF RegistrationInv
    <2>3. NextIsSafe(p)' /\ FoundIsSo(p)'
      BY <1>1, <2>1, <2>2 DEF KnownOf, NextIsSafe, FoundIsSo
    <2>4. Registered(p) => Registered(p)'
      BY <1>1, <2>1 DEF Registered
    <2>5. Unregistered(p) => Unregistered(p)'
      BY <1>1, <2>1 DEF Unregistered
    <2>6. (Undisturbed(p)' <=> Undisturbed(p)) /\ (Checking(p)' <=> Checking(p))
      BY <1>1, <2>1 DEF Undisturbed, Checking
    <2>7. DoneSoFar(p)'
      BY <1>1, <2>1, <2>2, <2>4, <2>5, <2>6 DEF KnownOf, DoneSoFar
    <2> QED
      BY <2>3, <2>7 DEF KnownOf
  <1> QED
    BY <1>2, <1>3, <1>4, <1>5, <1>6 DEF RegistrationInv

-----------------------------------------------------------------------------
(* The theorems.                                                             *)

LEMMA InitHolds == Init => RegistrationInv
  <1> SUFFICES ASSUME Init
               PROVE  RegistrationInv
    OBVIOUS
  <1>1. /\ server = [v \in Views |-> None] /\ profile = "absent" /\ category = FALSE
        /\ proc = [p \in Procs |-> Idle] /\ broken = FALSE /\ orphaned = FALSE
    BY DEF Init
  <1>2. RegistryTyped
    BY <1>1 DEF RegistryTyped
  <1>3. \A p \in Procs : proc[p] = Idle /\ ~Busy(p) /\ ~Working(p) /\ proc[p].cmd = "none"
    BY <1>1, IdleIs DEF Busy, Working
  <1>4. ProcTyped
    BY <1>1 DEF ProcTyped
  <1>5. TodoShaped /\ OneStarted /\ NobodyBeside
    BY <1>3 DEF TodoShaped, OneStarted, NobodyBeside
  <1>6. ProfileHasServer
    BY <1>1 DEF ProfileHasServer
  <1>7. Settled
    <2>1. server[64] = None
      BY <1>1 DEF Views
    <2> QED
      BY <2>1, RegistrationConstants DEF Settled
  <1>8. \A p \in Procs : KnownOf(p)
    BY <1>3 DEF KnownOf, NextIsSafe, DoneSoFar, FoundIsSo
  <1> QED
    BY <1>2, <1>4, <1>5, <1>6, <1>7, <1>8 DEF RegistrationInv, Shape

LEMMA NextHolds == RegistrationInv /\ [Next]_vars => RegistrationInv'
  <1> SUFFICES ASSUME RegistrationInv, [Next]_vars
               PROVE  RegistrationInv'
    OBVIOUS
  <1>1. CASE UNCHANGED vars
    <2>1. UNCHANGED <<server, profile, category, proc, broken, orphaned>>
      BY <1>1 DEF vars
    <2>2. Shape'
      BY <2>1 DEF RegistrationInv, Shape, RegistryTyped, ProcTyped, TodoShaped, OneStarted, Busy
    <2>3. NobodyBeside' /\ ProfileHasServer' /\ Settled'
      BY <2>1 DEF RegistrationInv, NobodyBeside, Busy, Working, ProfileHasServer, Settled,
                  Checking, Left, Complete
    <2>4. \A p \in Procs : KnownOf(p)'
      BY <2>1 DEF RegistrationInv, KnownOf, NextIsSafe, DoneSoFar, FoundIsSo, Undisturbed,
                  Registered, Unregistered, Checking, Working, Busy, Left, Next1
    <2> QED
      BY <2>2, <2>3, <2>4 DEF RegistrationInv
  <1>2. CASE \E p \in Procs, cmd \in Commands, d \in Dirs : Begin(p, cmd, d)
    BY <1>2, BeginKeeps
  <1>3. ASSUME NEW p \in Procs, RegisterCLSID(p) \/ RegisterProfile(p) \/ RegisterCategory(p)
        PROVE  RegistrationInv'
    BY <1>3, RegisterCLSIDKeeps, RegisterProfileKeeps, RegisterCategoryKeeps
  <1>4. ASSUME NEW p \in Procs, UnregisterProfile(p) \/ UnregisterCategory(p) \/ UnregisterCLSID(p)
        PROVE  RegistrationInv'
    BY <1>4, UnregisterProfileKeeps, UnregisterCategoryKeeps, UnregisterCLSIDKeeps
  <1>5. ASSUME NEW p \in Procs, EnsureTsfDllRegistered(p) \/ AskServer(p)
        PROVE  RegistrationInv'
    BY <1>5, EnsureTsfDllRegisteredKeeps, AskServerKeeps
  <1>6. ASSUME NEW p \in Procs, Report(p)
        PROVE  RegistrationInv'
    <2>1. At(p, "ask_profile")
      BY <1>6 DEF Report
    <2>2. Working(p) /\ Busy(p) /\ proc[p].cmd = "diagnostics"
      BY <2>1, AtWork DEF Working
    <2>3. /\ proc' = [proc EXCEPT ![p] = Idle] /\ UNCHANGED <<server, profile, category>>
          /\ Remembers(FALSE, FALSE)
      BY <1>6 DEF Report
    <2> QED
      BY <2>2, <2>3, GoneKeeps
  <1>7. ASSUME NEW p \in Procs, End(p)
        PROVE  RegistrationInv'
    <2>1. /\ Busy(p) /\ ~Working(p)
          /\ proc' = [proc EXCEPT ![p] = Idle] /\ UNCHANGED <<server, profile, category>>
          /\ Remembers(FALSE, FALSE)
      BY <1>7 DEF End, Working
    <2> QED
      BY <2>1, GoneKeeps
  <1>8. ASSUME NEW p \in Procs, Kill(p)
        PROVE  RegistrationInv'
    <2> DEFINE breaks == proc[p].todo # <<>> /\ proc[p].cmd # "diagnostics"
    <2>1. /\ Busy(p) /\ breaks \in BOOLEAN
          /\ proc' = [proc EXCEPT ![p] = Idle] /\ UNCHANGED <<server, profile, category>>
          /\ Remembers(breaks, FALSE)
      BY <1>8 DEF Kill
    <2>2. Working(p) /\ proc[p].cmd # "diagnostics" => breaks
      BY DEF Working
    <2> HIDE DEF breaks
    <2> QED
      BY <2>1, <2>2, GoneKeeps
  <1>10. ASSUME NEW p \in Procs, KillParent(p)
         PROVE  RegistrationInv'
    BY <1>10, ParentGoneKeeps
  <1>9. CASE SwitchProfile
    BY <1>9, SwitchProfileKeeps
  <1> QED
    BY <1>1, <1>2, <1>3, <1>4, <1>5, <1>6, <1>7, <1>8, <1>9, <1>10 DEF Next, Commands

LEMMA RegistrationInvariant == Spec => []RegistrationInv
  BY InitHolds, NextHolds, PTL DEF Spec

(* The registry and the processes have their types, and a DLL is registered  *)
(* only where there is one.                                                  *)
THEOREM RegistrationTyped == Spec => []TypeOK
  <1>1. RegistrationInv => TypeOK
    <2> SUFFICES ASSUME RegistrationInv
                 PROVE  TypeOK
      OBVIOUS
    <2>1. Shape /\ RegistryTyped /\ OneStarted
      BY DEF RegistrationInv, Shape
    <2>2. ASSUME NEW p \in Procs, Busy(p)
          PROVE  /\ proc[p].dir \in Dirs
                 /\ \A i \in DOMAIN proc[p].todo : proc[p].todo[i].view \in Installed[proc[p].dir]
      BY <2>1, <2>2, WorkIs DEF Fits, StepsIn
    <2>3. {category, broken, orphaned} \subseteq BOOLEAN
      BY <2>1 DEF RegistryTyped
    <2> QED
      BY <2>1, <2>2, <2>3 DEF TypeOK, RegistryTyped, OneStarted
  <1> QED
    BY <1>1, RegistrationInvariant, PTL

(* A listed profile has a server behind it, for any number of processes and  *)
(* copies, unless a removal failed, a path was not written or commands       *)
(* overlapped.                                                               *)
THEOREM ProfileNeverOrphaned == Spec => []ProfileHasServer
  <1>1. RegistrationInv => ProfileHasServer
    BY DEF RegistrationInv
  <1> QED
    BY <1>1, RegistrationInvariant, PTL

(* A registration that ends undisturbed has put everything right, whatever   *)
(* it found.                                                                 *)
THEOREM RegistrationCompletes == Spec => RegisterRepairs
  <1>1. RegistrationInv =>
          [ \A p \in Procs :
              End(p) /\ proc[p].cmd = "register" /\ proc[p].clean /\ proc[p].alone
              => Complete(proc[p].dir) ]_vars
    <2> SUFFICES ASSUME RegistrationInv, NEW p \in Procs, End(p), proc[p].cmd = "register",
                        proc[p].clean, proc[p].alone
                 PROVE  Complete(proc[p].dir)
      OBVIOUS
    <2>1. Busy(p) /\ Left(p) = {}
      BY NothingFits DEF End, Left
    <2>2. Registered(p)
      BY <2>1 DEF RegistrationInv, KnownOf, DoneSoFar, Undisturbed
    <2> QED
      BY <2>1, <2>2 DEF Registered, Complete
  <1> QED
    BY <1>1, RegistrationInvariant, PTL DEF RegisterRepairs

(* A removal that ends undisturbed leaves nothing behind.                    *)
THEOREM RemovalCompletes == Spec => UnregisterCleans
  <1>1. RegistrationInv =>
          [ \A p \in Procs :
              End(p) /\ proc[p].cmd = "unregister" /\ proc[p].clean /\ proc[p].alone
              => /\ profile = "absent" /\ ~category
                 /\ \A v \in Installed[proc[p].dir] : server[v] = None ]_vars
    <2> SUFFICES ASSUME RegistrationInv, NEW p \in Procs, End(p), proc[p].cmd = "unregister",
                        proc[p].clean, proc[p].alone
                 PROVE  /\ profile = "absent" /\ ~category
                        /\ \A v \in Installed[proc[p].dir] : server[v] = None
      OBVIOUS
    <2>1. Busy(p) /\ Left(p) = {}
      BY NothingFits DEF End, Left
    <2>2. Unregistered(p)
      BY <2>1 DEF RegistrationInv, KnownOf, DoneSoFar, Undisturbed
    <2> QED
      BY <2>1, <2>2 DEF Unregistered
  <1> QED
    BY <1>1, RegistrationInvariant, PTL DEF UnregisterCleans

(* What the diagnosis calls ready is complete, as long as nothing failed.    *)
THEOREM ReadyMeansComplete == Spec => ReadyIsComplete
  <1>1. RegistrationInv =>
          [ \A p \in Procs :
              Report(p) /\ proc[p].alone /\ ~broken /\ Status(proc[p].found, profile) = "ready"
              => Complete(proc[p].dir) /\ profile = "enabled" ]_vars
    <2> SUFFICES ASSUME RegistrationInv, NEW p \in Procs, Report(p), ~broken,
                        Status(proc[p].found, profile) = "ready"
                 PROVE  Complete(proc[p].dir) /\ profile = "enabled"
      OBVIOUS
    <2>1. At(p, "ask_profile")
      BY DEF Report
    <2>2. /\ Shape /\ RegistryTyped /\ Working(p) /\ Next1(p).does = "ask_profile"
          /\ proc[p].cmd = "diagnostics" /\ proc[p].dir \in Dirs
      BY <2>1, AtWork
    <2>3. Step("ask_server", 64) \notin Left(p)
      <3>1. Left(p) = {Next1(p)} \cup StepsIn(Rest(p))
            /\ \A s \in StepsIn(Rest(p)) : s.does # "ask_server"
        BY <2>2, FirstStep
      <3> QED
        BY <2>2, <3>1, StepIs
    <2>4. proc[p].found = (server[64] = proc[p].dir)
      BY <2>2, <2>3 DEF RegistrationInv, KnownOf, FoundIsSo
    <2>5. proc[p].found /\ profile = "enabled"
      BY <2>2 DEF Status, RegistryTyped
    <2>6. server[64] = proc[p].dir
      BY <2>4, <2>5
    <2>7. \A q \in Procs : Working(q) => proc[q].cmd = "diagnostics" \/ Checking(q)
      BY <2>2, OnlyOneWorks
    <2> QED
      BY <2>2, <2>5, <2>6, <2>7 DEF RegistrationInv, Settled
  <1> QED
    BY <1>1, RegistrationInvariant, PTL DEF ReadyIsComplete
=============================================================================
