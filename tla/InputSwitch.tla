---------------------------- MODULE InputSwitch ----------------------------
(***************************************************************************)
(* What UniKeyTSF promises about switching Vietnamese input on and off:    *)
(* one switch for everything, or, with perApp, a switch of its own for     *)
(* every application in which it was used.  The rest follow the last use.  *)
(*                                                                         *)
(* ConfigStore implements this with a shared table of limited size behind  *)
(* a mutex that may stall: when it is full or stalls, an application is    *)
(* not remembered; the others are never touched.                           *)
(***************************************************************************)
CONSTANTS
    Apps,       \* applications that can have the foreground
    NoApp,      \* no application has it
    LongNames   \* those of Apps whose name does not fit into the table

VARIABLES
    running,    \* the manager accepts commands
    perApp,     \* the setting
    default,    \* the switch of everybody without one of their own
    known,      \* the switches of single applications
    room,       \* another application can be remembered
    stall       \* somebody else may keep the memory locked

vars == <<running, perApp, default, known, room, stall>>

Attempts == IF stall THEN BOOLEAN ELSE {TRUE}

Nobody == [a \in {} |-> FALSE]

\* The switches when a has been set to v.
Knowing(a, v) == [b \in DOMAIN known \cup {a} |-> IF b = a THEN v ELSE known[b]]

IsOn(a, reads) ==
    IF perApp /\ reads /\ a \in DOMAIN known THEN known[a] ELSE default

Rememberable(a) == a \in Apps \ LongNames /\ (a \in DOMAIN known \/ room)

\* Input becomes v in application a, which has the foreground.
Switch(a, v) ==
    /\ default' = v
    /\ \E writes \in Attempts :
          known' = IF perApp' /\ writes /\ Rememberable(a)
                   THEN Knowing(a, v) ELSE known

Toggle(a) ==
    /\ perApp' = perApp
    /\ \E reads \in Attempts : Switch(a, ~IsOn(a, reads))

Choose(a) ==
    /\ perApp' \in BOOLEAN
    /\ \E v \in BOOLEAN : Switch(a, v)

\* Between two runs of the manager, single switches are kept or all forgotten.
ComesOrGoes ==
    /\ perApp' \in BOOLEAN
    /\ default' \in BOOLEAN
    /\ known' \in {known, Nobody}

Init ==
    /\ running = FALSE
    /\ known = Nobody

Next ==
    /\ {running', room', stall'} \subseteq BOOLEAN
    /\ \/ running /\ running' /\ \E a \in Apps \cup {NoApp} : Toggle(a) \/ Choose(a)
       \/ ~(running /\ running') /\ ComesOrGoes
       \/ UNCHANGED <<running, perApp, default, known>>

Spec == Init /\ [][Next]_vars
=============================================================================
