---------------------------- MODULE Registration ----------------------------
(***************************************************************************)
(* How the text service gets into the registry and out of it: the commands *)
(* /register, /unregister and /tsf-diagnostics of UniKeyTSF.exe, and the   *)
(* check at every start (main.cpp, engine/tsf_registration.cpp), with the  *)
(* entry points of the DLLs they call (tsf/dllmain.cpp).                   *)
(*                                                                         *)
(* A 64-bit and a 32-bit DLL register a server each, in the registry's two *)
(* views, and share one language profile and one category.  The commands   *)
(* do not take the mutex of the single instance: they may overlap with one *)
(* another and with a start.  Every step may fail, nothing is rolled back, *)
(* and a process may be killed between any two; the regsvr32 it has        *)
(* started for the 32-bit DLL may then go on.                              *)
(***************************************************************************)
EXTENDS Naturals, Sequences

CONSTANTS
    Procs,      \* processes of UniKeyTSF.exe
    Dirs,       \* directories with a copy of the program
    Installed,  \* the bitnesses (64, 32) of the DLLs in each directory
    None

ASSUME RegistrationConstants ==
    /\ Installed \in [Dirs -> {{64}, {64, 32}}]
    /\ None \notin Dirs

VARIABLES
    server,     \* the directory InprocServer32 points to, in each view
    profile,    \* the language profile: absent, disabled, enabled
    category,   \* registered as a keyboard
    proc,       \* what each process has still to do
    broken,     \* history: since all was last absent and idle, a step
                \* failed, a process was killed, or commands overlapped
    orphaned    \* history: since it was last absent and all idle, one of its
                \* removals failed, a server was registered without its path,
                \* or commands overlapped

vars == <<server, profile, category, proc, broken, orphaned>>

Views == {64, 32}

Step(does, view) == [does |-> does, view |-> view]

\* DllRegisterServer and DllUnregisterServer of one DLL.
DllRegisterServer(v) == <<Step("server", v), Step("profile", v), Step("category", v)>>

\* Mutant: the server goes before the profile that needs it.
DllUnregisterServerFirst(v) == <<Step("no_server", v), Step("no_profile", v), Step("no_category", v)>>

DllUnregisterServer(v) == <<Step("no_profile", v), Step("no_category", v), Step("no_server", v)>>

\* Mutant: a DLL is registered that may not be there.
RegisterTsfDllBoth(d) == DllRegisterServer(64) \o DllRegisterServer(32)

\* Mutant: only the DLL of the manager's own bitness.
RegisterTsfDll64(d) == DllRegisterServer(64)

RegisterTsfDll(d) ==
    DllRegisterServer(64) \o (IF 32 \in Installed[d] THEN DllRegisterServer(32) ELSE <<>>)

\* Mutant: only the DLL of the manager's own bitness.
UnregisterTsfDll64(d) == DllUnregisterServer(64)

UnregisterTsfDll(d) ==
    DllUnregisterServer(64) \o (IF 32 \in Installed[d] THEN DllUnregisterServer(32) ELSE <<>>)

Idle == [cmd |-> "none"]

Program(cmd, d) ==
    CASE cmd = "register"    -> RegisterTsfDll(d)
      [] cmd = "unregister"  -> UnregisterTsfDll(d)
      [] cmd = "diagnostics" -> <<Step("ask_server", 64), Step("ask_profile", 64)>>
      [] cmd = "start"       -> <<Step("check", 64)>>

\* Mutant: whether the profile is enabled is not looked at.
StatusPresent(registered, found) ==
    IF ~registered THEN "dll_not_registered"
    ELSE IF found = "absent" THEN "profile_missing" ELSE "ready"

\* BuildTsfDiagnosticsReport, for what was found without an error.
Status(registered, found) ==
    IF ~registered THEN "dll_not_registered"
    ELSE IF found = "absent" THEN "profile_missing"
    ELSE IF found = "disabled" THEN "profile_inactive" ELSE "ready"

Absent(s, f, c) == s = [v \in Views |-> None] /\ f = "absent" /\ ~c

Busy(p) == proc[p] # Idle

Init ==
    /\ server = [v \in Views |-> None]
    /\ profile = "absent"
    /\ category = FALSE
    /\ proc = [p \in Procs |-> Idle]
    /\ broken = FALSE
    /\ orphaned = FALSE

\* The histories after a step, given whether it spoils them.
Remembers(breaks, orphans) ==
    LET idle == \A p \in Procs : proc'[p] = Idle IN
    /\ broken' = ((broken \/ breaks) /\ ~(idle /\ Absent(server', profile', category')))
    /\ orphaned' = ((orphaned \/ orphans) /\ ~(idle /\ profile' = "absent"))

-----------------------------------------------------------------------------

\* wWinMain; a second manager finds the mutex and ends.  alone: no other
\* process touches the registration while the command runs.
Begin(p, cmd, d) ==
    /\ ~Busy(p)
    /\ cmd = "start" => \A q \in Procs : proc[q].cmd # "start"
    /\ LET others == {q \in Procs : Busy(q) /\ proc[q].todo # <<>>} IN
       /\ proc' = [q \in Procs |->
             IF q = p THEN [cmd |-> cmd, dir |-> d, todo |-> Program(cmd, d), found |-> FALSE,
                            clean |-> TRUE, alone |-> others = {}]
             ELSE IF Busy(q) THEN [proc[q] EXCEPT !.alone = FALSE] ELSE Idle]
       /\ UNCHANGED <<server, profile, category>>
       /\ Remembers(others # {}, others # {})

Next1(p) == Head(proc[p].todo)

At(p, does) == Busy(p) /\ proc[p].todo # <<>> /\ Next1(p).does = does

Goes(p, todo, ok) == proc' = [proc EXCEPT ![p].todo = todo, ![p].clean = @ /\ ok]

Rest(p) == Tail(proc[p].todo)

\* A registration that failed leaves out what the same DLL had still to do;
\* the 32-bit one, if there is one, has its turn all the same.
SkipDll(p) ==
    IF Next1(p).view = 64 /\ 32 \in Installed[proc[p].dir] THEN DllRegisterServer(32) ELSE <<>>

\* RegisterCLSID: the results of writing the values are not looked at.
RegisterCLSID(p) ==
    /\ At(p, "server")
    /\ UNCHANGED <<profile, category>>
    /\ \/ /\ server' = [server EXCEPT ![Next1(p).view] = proc[p].dir]
          /\ Goes(p, Rest(p), TRUE)
          /\ Remembers(FALSE, FALSE)
       \/ /\ UNCHANGED server
          /\ Goes(p, Rest(p), FALSE)
          /\ Remembers(TRUE, TRUE)
       \/ /\ UNCHANGED server
          /\ Goes(p, SkipDll(p), FALSE)
          /\ Remembers(TRUE, FALSE)

\* RegisterTIPProfile: RegisterProfile, after which Windows lists the profile,
\* enabled or not, ...
RegisterProfile(p) ==
    /\ At(p, "profile")
    /\ UNCHANGED <<server, category>>
    /\ \/ /\ profile' \in {"disabled", "enabled"}
          /\ Goes(p, Rest(p), TRUE)
          /\ Remembers(FALSE, FALSE)
       \/ /\ UNCHANGED profile
          /\ Goes(p, SkipDll(p), FALSE)
          /\ Remembers(TRUE, FALSE)

\* ... and RegisterCategory.
RegisterCategory(p) ==
    /\ At(p, "category")
    /\ UNCHANGED <<server, profile>>
    /\ category' \in {category, TRUE}
    /\ Goes(p, Rest(p), category')
    /\ Remembers(~category', FALSE)

\* UnregisterTIPProfile goes on after a failure, or ends when there is no
\* profile manager.
UnregisterProfile(p) ==
    /\ At(p, "no_profile")
    /\ UNCHANGED <<server, category>>
    /\ \/ /\ profile' = "absent"
          /\ Goes(p, Rest(p), TRUE)
          /\ Remembers(FALSE, FALSE)
       \/ /\ UNCHANGED profile
          /\ \E todo \in {Rest(p), Tail(Rest(p))} : Goes(p, todo, FALSE)
          /\ Remembers(TRUE, TRUE)

UnregisterCategory(p) ==
    /\ At(p, "no_category")
    /\ UNCHANGED <<server, profile>>
    /\ category' \in {category, FALSE}
    /\ Goes(p, Rest(p), ~category')
    /\ Remembers(category', FALSE)

\* UnregisterCLSID deletes whatever copy is registered.
UnregisterCLSID(p) ==
    /\ At(p, "no_server")
    /\ UNCHANGED <<profile, category>>
    /\ \E left \in {None, server[Next1(p).view]} :
          /\ server' = [server EXCEPT ![Next1(p).view] = left]
          /\ Goes(p, Rest(p), left = None)
          /\ Remembers(left # None, FALSE)

Unchanged == UNCHANGED <<server, profile, category, broken, orphaned>>

\* IsCurrentDllRegistered, for EnsureTsfDllRegistered: an error counts as no.
EnsureTsfDllRegistered(p) ==
    /\ At(p, "check")
    /\ \/ server[64] = proc[p].dir /\ Goes(p, <<>>, TRUE)
       \/ Goes(p, RegisterTsfDll(proc[p].dir), TRUE)
    /\ Unchanged

\* GetTsfDiagnosticsReport: the server first, then the profile.
AskServer(p) ==
    /\ At(p, "ask_server")
    /\ proc' = [proc EXCEPT ![p].todo = Rest(p), ![p].found = (server[64] = proc[p].dir)]
    /\ Unchanged

\* A command ends when nothing is left to do, the manager when it likes.
End(p) ==
    /\ Busy(p) /\ proc[p].todo = <<>>
    /\ proc' = [proc EXCEPT ![p] = Idle]
    /\ UNCHANGED <<server, profile, category>>
    /\ Remembers(FALSE, FALSE)

\* The last read, and the report.
Report(p) ==
    /\ At(p, "ask_profile")
    /\ proc' = [proc EXCEPT ![p] = Idle]
    /\ UNCHANGED <<server, profile, category>>
    /\ Remembers(FALSE, FALSE)

\* regsvr32, a process of its own that the program waits for, does the 32-bit
\* DLL's part: without the program it is a registration or a removal of what is
\* left, and has missed the rest.
Regsvr32(p) ==
    [proc[p] EXCEPT !.cmd = IF @ = "unregister" THEN "unregister" ELSE "register", !.clean = FALSE]

\* A process is killed, with all that it had still to do, ...
Kill(p) ==
    /\ Busy(p)
    /\ proc' = [proc EXCEPT ![p] = Idle]
    /\ UNCHANGED <<server, profile, category>>
    /\ Remembers(proc[p].todo # <<>> /\ proc[p].cmd # "diagnostics", FALSE)

\* ... or while regsvr32 runs, which goes on.
KillParent(p) ==
    /\ Busy(p) /\ proc[p].todo # <<>> /\ Next1(p).view = 32
    /\ proc' = [proc EXCEPT ![p] = Regsvr32(p)]
    /\ UNCHANGED <<server, profile, category>>
    /\ Remembers(TRUE, FALSE)

\* The user turns the profile on or off in Windows' settings.
SwitchProfile ==
    /\ profile # "absent"
    /\ profile' \in {"disabled", "enabled"} \ {profile}
    /\ UNCHANGED <<server, category, proc, broken, orphaned>>

Next ==
    \/ \E p \in Procs, cmd \in {"register", "unregister", "diagnostics", "start"}, d \in Dirs :
          Begin(p, cmd, d)
    \/ \E p \in Procs :
          \/ RegisterCLSID(p) \/ RegisterProfile(p) \/ RegisterCategory(p)
          \/ UnregisterProfile(p) \/ UnregisterCategory(p) \/ UnregisterCLSID(p)
          \/ EnsureTsfDllRegistered(p) \/ AskServer(p) \/ Report(p)
          \/ End(p) \/ Kill(p) \/ KillParent(p)
    \/ SwitchProfile

Spec == Init /\ [][Next]_vars

-----------------------------------------------------------------------------
(* Properties.                                                               *)

(* Types.                                                                    *)
TypeOK ==
    /\ server \in [Views -> Dirs \cup {None}]
    /\ profile \in {"absent", "disabled", "enabled"}
    /\ {category, broken, orphaned} \subseteq BOOLEAN
    /\ \A p \in Procs : Busy(p) =>
          /\ proc[p].dir \in Dirs
          /\ \A i \in DOMAIN proc[p].todo : proc[p].todo[i].view \in Installed[proc[p].dir]
    /\ ~\E p, q \in Procs : p # q /\ proc[p].cmd = "start" /\ proc[q].cmd = "start"

\* All that the copy in directory d can register is there.
Complete(d) ==
    /\ \A v \in Installed[d] : server[v] = d
    /\ profile # "absent" /\ category

(* Windows never lists a profile whose DLL nobody registered: /register      *)
(* brings the DLL first and /unregister takes it last, wherever either is    *)
(* killed, whichever copy of the program runs and whatever else fails.  It   *)
(* takes commands at the same time, a profile that cannot be removed or a    *)
(* path that cannot be written to break it.                                  *)
ProfileHasServer ==
    profile # "absent" /\ ~orphaned => \E v \in Views : server[v] # None

(* /register puts everything right, from whatever is left of other copies    *)
(* and of commands that failed or were killed half-way, provided that no     *)
(* step of its own fails and that nobody interferes.                         *)
RegisterRepairs ==
    [][ \A p \in Procs :
          End(p) /\ proc[p].cmd = "register" /\ proc[p].clean /\ proc[p].alone
          => Complete(proc[p].dir) ]_vars

(* /unregister likewise leaves nothing behind that its DLLs could have       *)
(* registered.                                                               *)
UnregisterCleans ==
    [][ \A p \in Procs :
          End(p) /\ proc[p].cmd = "unregister" /\ proc[p].clean /\ proc[p].alone
          => /\ profile = "absent" /\ ~category
             /\ \A v \in Installed[proc[p].dir] : server[v] = None ]_vars

(* "ready" means that all this copy of the program can register is there,    *)
(* though the diagnosis looks at the 64-bit server and the profile only:     *)
(* neither the 32-bit server of a copy that has one nor the category can be  *)
(* missing behind it, unless a step failed, a process was killed or commands *)
(* overlapped.  A copy without the 32-bit DLL is ready without that server.  *)
ReadyIsComplete ==
    [][ \A p \in Procs :
          Report(p) /\ proc[p].alone /\ ~broken /\ Status(proc[p].found, profile) = "ready"
          => Complete(proc[p].dir) /\ profile = "enabled" ]_vars
=============================================================================
