--------------------------- MODULE ExclusionList ---------------------------
(***************************************************************************)
(* The applications in which UniKeyTSF keeps quiet (config/blacklist.cpp). *)
(*                                                                         *)
(* The list is a text file beside the program.  Every process that asks,   *)
(* the manager's keyboard hook and the text service of each application,   *)
(* has a copy of its own and compares the file's write time, at every      *)
(* question, with the one it noted after it read the copy.  The manager    *)
(* rewrites the file when the settings page sends a list, and the user may *)
(* edit it by hand.                                                        *)
(***************************************************************************)
EXTENDS Naturals, Sequences, SequencesExt

CONSTANTS
    Names,      \* process names, up to case
    Defaults,   \* the built-in list
    Manager,    \* UniKeyTSF.exe
    TsfApps,    \* applications that load the text service, by name
    Title, Hint,\* the two comments SaveBlacklist begins the file with
    Wide,       \* lines with a character that is no single byte
    NoFile, Unread,
    MaxList     \* bound: names in one list

\* What somebody writes into the list.
Lists == {l \in SeqOf(Names, MaxList) : IsInjective(l)}

ASSUME ListConstants ==
    /\ MaxList \in Nat
    /\ Defaults \in Lists
    /\ TsfApps \subseteq Names
    /\ Manager \notin TsfApps
    /\ Title \in Wide          \* its dash is U+2014
    /\ {Title, Hint} \cap Names = {}

VARIABLES
    file,       \* lines of blacklist.txt, or NoFile
    cache,      \* g_processBlacklist of each process, or Unread
    stamped,    \* g_lastBlacklistWriteTime is the file's present write time
    call,       \* what each process is about to do inside blacklist.cpp
    raced       \* history: the file changed after the copy was read and
                \* before its write time was noted

listVars == <<file, cache, stamped, call, raced>>

Processes == TsfApps \cup {Manager}

FilesByHand == {NoFile} \cup {<<Hint>> \o l : l \in Lists}

Does(what) == [at |-> what]

-----------------------------------------------------------------------------

\* Mutant: comments are taken for names.
LoadAll(lines) == IF lines = NoFile THEN Defaults ELSE lines

\* The names among the first n lines, for any n: comments are skipped.
NamesOf(lines) ==
    LET Read[n \in 0..Len(lines)] ==
          IF n = 0 THEN <<>>
          ELSE IF lines[n] \in Names THEN Append(Read[n - 1], lines[n]) ELSE Read[n - 1]
    IN Read

\* LoadBlacklist; without a file it has the built-in list.
Load(lines) == IF lines = NoFile THEN Defaults ELSE NamesOf(lines)[Len(lines)]

LoadBlacklist == Load(file)

\* Nobody sets a locale: a wide stream ends at the first character that is no
\* single byte, and takes nothing after it.
Streamed(lines) ==
    LET wide == {i \in DOMAIN lines : lines[i] \in Wide}
    IN IF wide = {} THEN lines
       ELSE SubSeq(lines, 1, (CHOOSE i \in wide : \A j \in wide : i <= j) - 1)

FileOf(l) == Streamed(<<Title, Hint>> \o l)

\* Mutant: a copy that was read is good for ever.
KeepsCopy(p) == cache[p] # Unread

\* IsProcessBlacklisted answers from the copy it has: the file has not been
\* written since, or is gone.
UsesCopy(p) == cache[p] # Unread /\ (stamped[p] \/ file = NoFile)

Excludes(l, n) == n \in ToSet(l)

ListInit ==
    /\ file \in FilesByHand
    /\ cache = [p \in Processes |-> Unread]
    /\ stamped = [p \in Processes |-> FALSE]
    /\ call = [p \in Processes |-> Does("idle")]
    /\ raced = [p \in Processes |-> FALSE]

\* The file is opened for writing, written or deleted: its write time changes.
Changes(lines) ==
    /\ file' = lines
    /\ stamped' = [p \in Processes |-> FALSE]
    /\ raced' = [p \in Processes |-> raced[p] \/ call[p] = Does("stamp")]

\* InitBlacklist, first half: on behalf of a question, of ReloadBlacklist, or
\* when the manager starts.
ReadCopy(p) ==
    /\ \/ call[p] = Does("idle") /\ ~UsesCopy(p)
       \/ call[p] = Does("reload")
    /\ cache' = [cache EXCEPT ![p] = LoadBlacklist]
    /\ raced' = [raced EXCEPT ![p] = FALSE]
    /\ call' = [call EXCEPT ![p] = Does("stamp")]
    /\ UNCHANGED <<file, stamped>>

\* InitBlacklist, second half: the write time is asked for.
NoteWriteTime(p) ==
    /\ call[p] = Does("stamp")
    /\ stamped' = IF file = NoFile THEN stamped ELSE [stamped EXCEPT ![p] = TRUE]
    /\ call' = [call EXCEPT ![p] = Does("idle")]
    /\ UNCHANGED <<file, cache, raced>>

\* SaveBlacklist opens the file, which empties it, or cannot; either way
\* the caller goes on to ReloadBlacklist.
OpenList(l) ==
    /\ call[Manager] = Does("idle")
    /\ \/ /\ Changes(<<>>)
          /\ call' = [call EXCEPT ![Manager] = [at |-> "write", list |-> l]]
       \/ /\ call' = [call EXCEPT ![Manager] = Does("reload")]
          /\ UNCHANGED <<file, stamped, raced>>
    /\ UNCHANGED cache

\* The stream is flushed and closed.
CloseList ==
    /\ call[Manager].at = "write"
    /\ Changes(FileOf(call[Manager].list))
    /\ call' = [call EXCEPT ![Manager] = Does("reload")]
    /\ UNCHANGED cache

\* The user writes the file with an editor, or deletes it.
ChangeByHand ==
    /\ \E lines \in FilesByHand \ {file} : Changes(lines)
    /\ UNCHANGED <<cache, call>>

ListNext ==
    \/ \E p \in Processes : ReadCopy(p) \/ NoteWriteTime(p)
    \/ \E l \in Lists : OpenList(l)
    \/ CloseList \/ ChangeByHand

ListSpec == ListInit /\ [][ListNext]_listVars

-----------------------------------------------------------------------------
(* Properties.                                                               *)

(* A process that answers from its copy gives the answer of the file as it   *)
(* is, though the manager may be rewriting it and every process reads it on  *)
(* its own.  Two cases are left out: a change between the reading of a copy  *)
(* and the note of its write time (blacklist.cpp:74), and a deleted file.    *)
FreshCopy ==
    \A p \in Processes :
        call[p].at = "idle" /\ UsesCopy(p) /\ file # NoFile /\ ~raced[p]
        => ToSet(cache[p]) = ToSet(LoadBlacklist)

(* AdvancedTab.tsx:198: the applications of the list the page has sent are   *)
(* excluded, and no others, when its file is closed.                         *)
SavedListExcludes ==
    [][ CloseList => ToSet(Load(file')) = ToSet(call[Manager].list) ]_listVars

=============================================================================
