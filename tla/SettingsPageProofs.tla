------------------------ MODULE SettingsPageProofs ------------------------
(***************************************************************************)
(* What holds of the exclusion list and of the settings page for any       *)
(* number of processes, names and messages: a process which answers from   *)
(* its copy of the list gives the answer of the file; page, messages, file *)
(* and copies keep to their types; page and configuration stay together    *)
(* but for the steps that are known to part them.                          *)
(***************************************************************************)
EXTENDS SettingsPage, SequenceTheorems, WellFoundedInduction, TLAPS

\* The four variables that a step changes for one process.
PerProcess ==
    /\ DOMAIN cache = Processes
    /\ DOMAIN stamped = Processes
    /\ DOMAIN call = Processes
    /\ DOMAIN raced = Processes

\* A copy whose write time is noted, or about to be, was read from the file as
\* it is, unless the file changed in between.
CopyIsOfFile ==
    \A p \in Processes :
        (stamped[p] \/ call[p] = Does("stamp")) /\ ~raced[p] => cache[p] = LoadBlacklist

CopyInv == PerProcess /\ CopyIsOfFile

LEMMA DoesAt == \A what : Does(what).at = what
  BY DEF Does

\* A file with another write time leaves no copy that counts as its own.
LEMMA ChangeParts ==
    ASSUME CopyInv, NEW lines, Changes(lines), UNCHANGED cache,
           \/ UNCHANGED call
           \/ \E q \in Processes : \E c : c # Does("stamp") /\ call' = [call EXCEPT ![q] = c]
    PROVE  CopyInv'
  <1>1. PerProcess'
    BY DEF CopyInv, PerProcess, Changes
  <1>2. ASSUME NEW p \in Processes, stamped'[p] \/ call'[p] = Does("stamp"), ~raced'[p]
        PROVE  FALSE
    <2>1. ~stamped'[p]
      BY DEF Changes
    <2>2. call'[p] = Does("stamp")
      BY <1>2, <2>1
    <2>3. call[p] = Does("stamp")
      BY <2>2 DEF CopyInv, PerProcess
    <2> QED
      BY <1>2, <2>3 DEF Changes
  <1> QED
    BY <1>1, <1>2 DEF CopyInv, CopyIsOfFile

\* Reading a copy and noting its write time.
LEMMA ReadKeeps ==
    ASSUME CopyInv, NEW p \in Processes, ReadCopy(p)
    PROVE  CopyInv'
  <1>1. PerProcess'
    BY DEF CopyInv, PerProcess, ReadCopy
  <1>2. LoadBlacklist' = LoadBlacklist
    BY DEF ReadCopy, LoadBlacklist
  <1>3. ASSUME NEW q \in Processes, stamped'[q] \/ call'[q] = Does("stamp"), ~raced'[q]
        PROVE  cache'[q] = LoadBlacklist
    <2>1. CASE q = p
      BY <2>1 DEF ReadCopy, CopyInv, PerProcess
    <2>2. CASE q # p
      BY <1>3, <2>2 DEF ReadCopy, CopyInv, PerProcess, CopyIsOfFile
    <2> QED
      BY <2>1, <2>2
  <1> QED
    BY <1>1, <1>2, <1>3 DEF CopyInv, CopyIsOfFile

LEMMA NoteKeeps ==
    ASSUME CopyInv, NEW p \in Processes, NoteWriteTime(p)
    PROVE  CopyInv'
  <1>1. PerProcess'
    BY DEF CopyInv, PerProcess, NoteWriteTime
  <1>2. LoadBlacklist' = LoadBlacklist
    BY DEF NoteWriteTime, LoadBlacklist
  <1>3. Does("idle") # Does("stamp") /\ call[p] = Does("stamp")
    <2>1. Does("idle") # Does("stamp")
      BY DoesAt
    <2>2. call[p] = Does("stamp")
      BY DEF NoteWriteTime
    <2> QED
      BY <2>1, <2>2
  <1>4. ASSUME NEW q \in Processes, stamped'[q] \/ call'[q] = Does("stamp"), ~raced'[q]
        PROVE  cache'[q] = LoadBlacklist
    <2>1. CASE q = p
      BY <1>3, <1>4, <2>1 DEF NoteWriteTime, CopyInv, PerProcess, CopyIsOfFile
    <2>2. CASE q # p
      BY <1>4, <2>2 DEF NoteWriteTime, CopyInv, PerProcess, CopyIsOfFile
    <2> QED
      BY <2>1, <2>2
  <1> QED
    BY <1>1, <1>2, <1>4 DEF CopyInv, CopyIsOfFile

\* SaveBlacklist, with the list of any message.
LEMMA OpenKeeps ==
    ASSUME CopyInv, NEW l, OpenList(l)
    PROVE  CopyInv'
  <1>1. Manager \in Processes
    BY DEF Processes
  <1>2. CASE Changes(<<>>) /\ call' = [call EXCEPT ![Manager] = [at |-> "write", list |-> l]]
    <2>1. [at |-> "write", list |-> l] # Does("stamp")
      <3>1. [at |-> "write", list |-> l].at = "write"
        OBVIOUS
      <3> QED
        BY <3>1, DoesAt
    <2>2. UNCHANGED cache
      BY DEF OpenList
    <2> QED
      BY <1>1, <1>2, <2>1, <2>2, ChangeParts
  <1>3. CASE /\ call' = [call EXCEPT ![Manager] = Does("reload")]
             /\ UNCHANGED <<file, stamped, raced>>
    <2>1. Does("reload") # Does("stamp")
      BY DoesAt
    <2>2. PerProcess' /\ UNCHANGED cache /\ LoadBlacklist' = LoadBlacklist
      BY <1>3 DEF CopyInv, PerProcess, OpenList, LoadBlacklist
    <2>3. ASSUME NEW q \in Processes, call'[q] = Does("stamp")
          PROVE  call[q] = Does("stamp")
      BY <1>3, <2>1, <2>3 DEF CopyInv, PerProcess
    <2> QED
      BY <1>3, <2>2, <2>3 DEF CopyInv, CopyIsOfFile
  <1> QED
    BY <1>2, <1>3 DEF OpenList

LEMMA CloseKeeps ==
    ASSUME CopyInv, CloseList
    PROVE  CopyInv'
  <1>1. Does("reload") # Does("stamp") /\ Manager \in Processes
    BY DoesAt DEF Processes
  <1> QED
    BY <1>1, ChangeParts DEF CloseList

LEMMA HandKeeps ==
    ASSUME CopyInv, ChangeByHand
    PROVE  CopyInv'
  <1>1. PICK lines \in FilesByHand \ {file} : Changes(lines)
    BY DEF ChangeByHand
  <1> QED
    BY <1>1, ChangeParts DEF ChangeByHand

LEMMA IdleKeeps ==
    ASSUME CopyInv, UNCHANGED listVars
    PROVE  CopyInv'
  BY DEF CopyInv, PerProcess, CopyIsOfFile, LoadBlacklist, listVars

LEMMA CopyInit == ListInit => CopyInv
  <1> SUFFICES ASSUME ListInit PROVE CopyInv
    OBVIOUS
  <1>1. Does("idle") # Does("stamp")
    BY DoesAt
  <1> QED
    BY <1>1 DEF ListInit, CopyInv, PerProcess, CopyIsOfFile

LEMMA CopyIsFresh == CopyInv => FreshCopy
  BY DEF CopyInv, CopyIsOfFile, FreshCopy, UsesCopy

-----------------------------------------------------------------------------

(* Of the list by itself: with any processes, names and files, a copy that   *)
(* is used is the file's (FreshCopy).                                        *)
THEOREM ListFreshCopy == ListSpec => []FreshCopy
  <1>1. CopyInv /\ [ListNext]_listVars => CopyInv'
    BY ReadKeeps, NoteKeeps, OpenKeeps, CloseKeeps, HandKeeps, IdleKeeps DEF ListNext
  <1> QED
    BY CopyInit, <1>1, CopyIsFresh, PTL DEF ListSpec

(* And with the settings page at work: none of its messages, however they    *)
(* cross, makes a process answer from a list that is not the file's.         *)
THEOREM PageFreshCopy == Spec => []FreshCopy
  <1>1. Init => CopyInv
    BY CopyInit DEF Init
  <1>2. ASSUME CopyInv, [Next]_vars
        PROVE  CopyInv'
    <2>1. CASE UNCHANGED listVars
      BY <2>1, <1>2, IdleKeeps
    <2>2. CASE StoreList
      BY <2>2, <1>2, OpenKeeps DEF StoreList
    <2>3. CASE ListStep
      BY <2>3, <1>2, ReadKeeps, NoteKeeps, CloseKeeps, HandKeeps DEF ListStep
    <2>4. StoreList \/ ListStep \/ UNCHANGED listVars
      BY <1>2 DEF Next, vars, Act, LoadPage, ShowSettings, LeaveWindow, Edit, EditList,
         EditAutostart, ChangeOutside, ChangeRunKey, PageReceives, StoreUpdate,
         DropUpdate, AnswerReady, AnswerList, StoreAutostart
    <2> QED
      BY <2>1, <2>2, <2>3, <2>4
  <1> QED
    BY <1>1, <1>2, CopyIsFresh, PTL DEF Spec

-----------------------------------------------------------------------------
(* Induction over a set of numbers.                                          *)

LEMMA SmallestOf ==
    ASSUME NEW S, S \subseteq Nat, S # {}
    PROVE  \E n \in S : \A m \in S : n <= m
  <1> DEFINE R == OpToRel(<, Nat)
  <1>1. IsWellFoundedOn(R, Nat)
    BY NatLessThanWellFounded
  <1>2. \A m, n \in Nat : m < n => <<m, n>> \in R
    BY DEF OpToRel
  <1> HIDE DEF R
  <1>3. PICK n \in S : \A m \in S : ~(<<m, n>> \in R)
    BY <1>1, WFMin
  <1>4. \A m \in S : ~(m < n)
    BY <1>2, <1>3
  <1>5. \A m \in S : n <= m
    BY <1>4
  <1> QED
    BY <1>5

LEMMA ByInduction ==
    ASSUME NEW S, 0 \in S, \A n \in Nat : n \in S => n + 1 \in S
    PROVE  Nat \subseteq S
  <1> DEFINE T == Nat \ S
  <1> SUFFICES ASSUME T # {}
               PROVE  FALSE
    OBVIOUS
  <1>1. T \subseteq Nat
    OBVIOUS
  <1> HIDE DEF T
  <1>2. PICK n \in T : \A m \in T : n <= m
    BY <1>1, SmallestOf
  <1>3. n \in Nat /\ n \notin S
    BY DEF T
  <1>4. n - 1 \in Nat
    BY <1>3
  <1>5. n - 1 \in S
    BY <1>2, <1>4 DEF T
  <1>6. (n - 1) + 1 \in S
    BY <1>4, <1>5
  <1> QED
    BY <1>3, <1>6

LEMMA LargestOf ==
    ASSUME NEW n \in Nat, NEW S, S \subseteq 1..n, S # {}
    PROVE  Max(S) \in S /\ \A i \in S : i <= Max(S)
  <1> DEFINE U == {k \in Nat : \A i \in S : i <= k}
  <1>1. U \subseteq Nat /\ n \in U
    OBVIOUS
  <1>2. PICK k \in U : \A j \in U : k <= j
    BY <1>1, SmallestOf
  <1>3. k \in S
    <2> SUFFICES ASSUME k \notin S
                 PROVE  FALSE
      OBVIOUS
    <2>1. \A i \in S : i < k
      BY <1>2
    <2>2. k > 0 /\ k \in Nat
      <3>1. PICK i \in S : i < k
        BY <2>1
      <3>2. i \in Nat /\ i > 0
        OBVIOUS
      <3> QED
        BY <1>2, <3>1, <3>2
    <2>3. k - 1 \in U
      BY <2>1, <2>2
    <2> QED
      BY <1>2, <2>2, <2>3
  <1>4. \E m \in S : \A i \in S : m >= i
    BY <1>2, <1>3
  <1>5. Max(S) \in S /\ \A i \in S : Max(S) >= i
    BY <1>4 DEF Max
  <1>6. \A i \in S : i \in Nat
    OBVIOUS
  <1> QED
    BY <1>5, <1>6

-----------------------------------------------------------------------------
(* Files and lists.                                                          *)

LEMMA ListsAre ==
    /\ <<>> \in Lists
    /\ \A l \in Lists : l \in Seq(Names) /\ Len(l) \in Nat
  <1>1. MaxList \in Nat
    BY ListConstants
  <1>2. <<>> \in SeqOf(Names, MaxList)
    <2>1. <<>> \in [1..0 -> Names] /\ 0 \in 0..MaxList
      BY <1>1
    <2> QED
      BY <2>1 DEF SeqOf
  <1>3. IsInjective(<<>>)
    BY DEF IsInjective
  <1>4. ASSUME NEW l \in SeqOf(Names, MaxList) PROVE l \in Seq(Names) /\ Len(l) \in Nat
    <2>1. PICK m \in 0..MaxList : l \in [1..m -> Names]
      BY DEF SeqOf
    <2>2. m \in Nat
      BY <1>1
    <2> QED
      BY <2>1, <2>2
  <1> QED
    BY <1>2, <1>3, <1>4 DEF Lists

\* g is what has been read after each line.
IsRead(g, lines) ==
    g = [n \in 0..Len(lines) |->
           IF n = 0 THEN <<>>
           ELSE IF lines[n] \in Names THEN Append(g[n - 1], lines[n]) ELSE g[n - 1]]

LEMMA NamesRead ==
    ASSUME NEW lines, \E g : IsRead(g, lines)
    PROVE  IsRead(NamesOf(lines), lines)
  BY DEF NamesOf, IsRead

LEMMA NoLines == NamesOf(<<>>)[Len(<<>>)] = <<>>
  <1> DEFINE none == <<>>
             g == [n \in 0..0 |-> none]
             h == NamesOf(none)
  <1>1. Len(none) = 0 /\ none = <<>>
    OBVIOUS
  <1> HIDE DEF none
  <1>2. IsRead(g, none)
    BY <1>1 DEF IsRead
  <1>3. IsRead(h, none)
    BY <1>2, NamesRead
  <1> HIDE DEF h
  <1>4. h[0] = none
    BY <1>1, <1>3 DEF IsRead
  <1> QED
    BY <1>1, <1>4 DEF h

LEMMA FirstPart ==
    ASSUME NEW l \in Seq(Names), NEW m \in 1..Len(l)
    PROVE  Append(SubSeq(l, 1, m - 1), l[m]) = SubSeq(l, 1, m)
  <1>1. Len(l) \in Nat /\ m \in Nat /\ m - 1 \in Nat
    OBVIOUS
  <1>2. SubSeq(l, 1, m - 1) \in Seq(Names) /\ Len(SubSeq(l, 1, m - 1)) = m - 1
    BY <1>1, SubSeqProperties
  <1>3. SubSeq(l, 1, m) \in Seq(Names) /\ Len(SubSeq(l, 1, m)) = m
    BY <1>1, SubSeqProperties
  <1> QED
    BY <1>1, <1>2, <1>3

\* The comment is skipped, the names are taken.
LEMMA HintedLines ==
    ASSUME NEW l \in Lists
    PROVE  NamesOf(<<Hint>> \o l)[Len(<<Hint>> \o l)] = l
  <1> DEFINE lines == <<Hint>> \o l
             k == Len(l)
             Part(n) == IF n = 0 THEN <<>> ELSE SubSeq(l, 1, n - 1)
             g == [n \in 0..(k + 1) |-> Part(n)]
  <1>1. l \in Seq(Names) /\ k \in Nat
    BY ListsAre
  <1>2. /\ Len(lines) = k + 1 /\ lines[1] = Hint
        /\ \A n \in 2..(k + 1) : lines[n] = l[n - 1] /\ l[n - 1] \in Names
    <2>1. <<Hint>> \in Seq({Hint} \cup Names) /\ l \in Seq({Hint} \cup Names)
      BY <1>1
    <2>2. /\ Len(<<Hint>> \o l) = Len(<<Hint>>) + Len(l)
          /\ \A n \in 1..(Len(<<Hint>>) + Len(l)) :
               (<<Hint>> \o l)[n] = IF n <= Len(<<Hint>>) THEN <<Hint>>[n] ELSE l[n - Len(<<Hint>>)]
      BY <2>1, ConcatProperties
    <2>3. Len(<<Hint>>) = 1 /\ <<Hint>>[1] = Hint
      OBVIOUS
    <2>4. \A n \in 2..(k + 1) : lines[n] = l[n - 1]
      BY <1>1, <2>2, <2>3
    <2>5. \A n \in 2..(k + 1) : l[n - 1] \in Names
      BY <1>1
    <2> QED
      BY <1>1, <2>2, <2>3, <2>4, <2>5
  <1>3. Hint \notin Names
    BY ListConstants
  <1> HIDE DEF lines, k
  <1>4. /\ Part(0) = <<>> /\ Part(1) = <<>>
        /\ \A n \in 2..(k + 1) : Part(n) = Append(Part(n - 1), l[n - 1])
    <2>1. SubSeq(l, 1, 0) = <<>>
      BY <1>1
    <2>2. Part(0) = <<>> /\ Part(1) = <<>>
      BY <2>1
    <2>3. ASSUME NEW n \in 2..(k + 1) PROVE Part(n) = Append(Part(n - 1), l[n - 1])
      <3>1. n - 1 \in 1..Len(l)
        BY <1>1 DEF k
      <3>2. Append(SubSeq(l, 1, (n - 1) - 1), l[n - 1]) = SubSeq(l, 1, n - 1)
        BY <1>1, <3>1, FirstPart
      <3>3. n # 0 /\ n - 1 # 0
        BY <1>1
      <3> QED
        BY <3>2, <3>3
    <2> QED
      BY <2>2, <2>3
  <1> HIDE DEF Part
  <1>5. IsRead(g, lines)
    <2>1. ASSUME NEW n \in 0..(k + 1)
          PROVE  Part(n) = IF n = 0 THEN <<>>
                           ELSE IF lines[n] \in Names THEN Append(g[n - 1], lines[n]) ELSE g[n - 1]
      <3>1. CASE n = 0
        BY <1>4, <3>1
      <3>2. CASE n = 1
        <4>1. 0 \in 0..(k + 1)
          BY <1>1
        <4>2. g[0] = Part(0)
          BY <4>1
        <4> QED
          BY <1>2, <1>3, <1>4, <3>2, <4>2
      <3>3. CASE n \in 2..(k + 1)
        <4>1. n - 1 \in 0..(k + 1) /\ n # 0
          BY <1>1, <3>3
        <4>2. g[n - 1] = Part(n - 1)
          BY <4>1
        <4> HIDE DEF g
        <4>3. lines[n] \in Names /\ lines[n] = l[n - 1]
          BY <1>2, <3>3
        <4>4. Part(n) = Append(Part(n - 1), l[n - 1])
          BY <1>4, <3>3
        <4>5. Append(g[n - 1], lines[n]) = Part(n)
          BY <4>2, <4>3, <4>4, Zenon
        <4> QED
          BY <4>1, <4>3, <4>5
      <3>4. n = 0 \/ n = 1 \/ n \in 2..(k + 1)
        BY <1>1
      <3> QED
        BY <3>1, <3>2, <3>3, <3>4, Zenon
    <2>2. 0..Len(lines) = 0..(k + 1)
      BY <1>2
    <2>3. g = [n \in 0..(k + 1) |->
                 IF n = 0 THEN <<>>
                 ELSE IF lines[n] \in Names THEN Append(g[n - 1], lines[n]) ELSE g[n - 1]]
      <3>1. g = [n \in 0..(k + 1) |-> Part(n)]
        OBVIOUS
      <3> HIDE DEF g
      <3> QED
        BY <3>1, <2>1, Zenon
    <2> HIDE DEF g
    <2> QED
      BY <2>2, <2>3, Zenon DEF IsRead
  <1> DEFINE h == NamesOf(lines)
  <1>6. IsRead(h, lines)
    BY <1>5, NamesRead
  <1> HIDE DEF h, g
  <1>7. /\ h[0] = <<>>
        /\ \A n \in 1..(k + 1) :
             h[n] = IF lines[n] \in Names THEN Append(h[n - 1], lines[n]) ELSE h[n - 1]
    <2>1. h = [n \in 0..Len(lines) |->
                 IF n = 0 THEN <<>>
                 ELSE IF lines[n] \in Names THEN Append(h[n - 1], lines[n]) ELSE h[n - 1]]
      BY <1>6, Zenon DEF IsRead
    <2>2. ASSUME NEW n \in 0..(k + 1)
          PROVE  h[n] = IF n = 0 THEN <<>>
                        ELSE IF lines[n] \in Names THEN Append(h[n - 1], lines[n]) ELSE h[n - 1]
      <3>1. n \in 0..Len(lines)
        BY <1>2
      <3> QED
        BY <2>1, <3>1, Zenon
    <2>3. 0 \in 0..(k + 1) /\ \A n \in 1..(k + 1) : n \in 0..(k + 1) /\ n # 0
      BY <1>1
    <2>4. h[0] = <<>>
      BY <2>2, <2>3, Zenon
    <2>5. ASSUME NEW n \in 1..(k + 1)
          PROVE  h[n] = IF lines[n] \in Names THEN Append(h[n - 1], lines[n]) ELSE h[n - 1]
      <3>1. n \in 0..(k + 1) /\ n # 0
        BY <2>3
      <3> QED
        BY <2>2, <3>1
    <2> QED
      BY <2>4, <2>5
  <1> DEFINE S == {n \in Nat : n <= k + 1 => h[n] = Part(n)}
  <1>8. 0 \in S
    BY <1>4, <1>7
  <1>9. ASSUME NEW n \in Nat, n \in S PROVE n + 1 \in S
    <2> SUFFICES ASSUME n + 1 <= k + 1 PROVE h[n + 1] = Part(n + 1)
      OBVIOUS
    <2>1. h[n] = Part(n)
      BY <1>1, <1>9
    <2>2. n + 1 \in 1..(k + 1) /\ (n + 1) - 1 = n
      BY <1>1
    <2>3. h[n + 1] = IF lines[n + 1] \in Names THEN Append(h[n], lines[n + 1]) ELSE h[n]
      BY <1>7, <2>2
    <2>4. CASE n = 0
      <3>1. lines[n + 1] = Hint /\ n + 1 = 1
        BY <1>2, <2>4
      <3> QED
        BY <1>3, <1>4, <2>1, <2>3, <2>4, <3>1
    <2>5. CASE n # 0
      <3>1. n + 1 \in 2..(k + 1)
        BY <1>1, <2>5
      <3>2. lines[n + 1] = l[n] /\ lines[n + 1] \in Names
        BY <1>2, <2>2, <3>1
      <3>3. Part(n + 1) = Append(Part(n), l[n])
        BY <1>4, <2>2, <3>1
      <3> QED
        BY <2>1, <2>3, <3>2, <3>3, Zenon
    <2> QED
      BY <2>4, <2>5
  <1> HIDE DEF S
  <1>a. Nat \subseteq S
    BY <1>8, <1>9, ByInduction
  <1>b. h[k + 1] = Part(k + 1)
    BY <1>1, <1>a DEF S
  <1>c. Part(k + 1) = l
    <2>1. SubSeq(l, 1, k) = l
      BY <1>1 DEF k
    <2>2. (k + 1) - 1 = k /\ k + 1 # 0
      BY <1>1
    <2> QED
      BY <2>1, <2>2 DEF Part
  <1> QED
    BY <1>2, <1>b, <1>c DEF h, lines

\* What the file may be.
FileOK(lines) ==
    /\ lines = NoFile \/ ToSet(lines) \subseteq Names \cup {Hint}
    /\ Load(lines) \in Lists

LEMMA EmptyFileOK == FileOK(<<>>)
  <1>1. ToSet(<<>>) = {}
    BY DEF ToSet
  <1>2. Load(<<>>) \in Lists
    BY NoLines, ListsAre, ListConstants DEF Load
  <1> QED
    BY <1>1, <1>2 DEF FileOK

LEMMA HandFileOK == ASSUME NEW lines \in FilesByHand PROVE FileOK(lines)
  <1>1. CASE lines = NoFile
    BY <1>1, ListConstants DEF FileOK, Load
  <1>2. ASSUME NEW l \in Lists, lines = <<Hint>> \o l PROVE FileOK(lines)
    <2>1. Load(lines) \in Lists
      BY <1>2, HintedLines, ListConstants DEF Load
    <2>2. l \in Seq(Names)
      BY ListsAre
    <2>3. <<Hint>> \in Seq(Names \cup {Hint}) /\ l \in Seq(Names \cup {Hint})
      BY <2>2
    <2>4. lines \in Seq(Names \cup {Hint})
      BY <1>2, <2>3, ConcatProperties
    <2>5. \A i \in DOMAIN lines : lines[i] \in Names \cup {Hint}
      BY <2>4
    <2>6. ToSet(lines) \subseteq Names \cup {Hint}
      BY <2>5 DEF ToSet
    <2> QED
      BY <2>1, <2>6 DEF FileOK
  <1> QED
    BY <1>1, <1>2 DEF FilesByHand

\* The first comment ends the stream.
LEMMA SavedFileIs == ASSUME NEW l \in Lists PROVE FileOf(l) = <<>>
  <1> DEFINE lines == <<Title, Hint>> \o l
             wide == {i \in DOMAIN lines : lines[i] \in Wide}
  <1>1. l \in Seq(Names) /\ Title \in Wide
    BY ListsAre, ListConstants
  <1>2. lines \in Seq({Title, Hint} \cup Names) /\ Len(lines) \in Nat /\ Len(lines) >= 1 /\ lines[1] = Title
    <2>1. <<Title, Hint>> \in Seq({Title, Hint} \cup Names) /\ l \in Seq({Title, Hint} \cup Names)
      BY <1>1
    <2>2. /\ lines \in Seq({Title, Hint} \cup Names)
          /\ Len(lines) = Len(<<Title, Hint>>) + Len(l)
          /\ \A n \in 1..(Len(<<Title, Hint>>) + Len(l)) :
               lines[n] = IF n <= Len(<<Title, Hint>>) THEN <<Title, Hint>>[n]
                          ELSE l[n - Len(<<Title, Hint>>)]
      BY <2>1, ConcatProperties
    <2>3. Len(<<Title, Hint>>) = 2 /\ <<Title, Hint>>[1] = Title /\ Len(l) \in Nat
      BY <1>1
    <2> QED
      BY <2>2, <2>3
  <1> HIDE DEF lines
  <1>3. 1 \in wide /\ \A i \in wide : i \in Nat /\ 1 <= i
    BY <1>1, <1>2
  <1> HIDE DEF wide
  <1> DEFINE first == CHOOSE i \in wide : \A j \in wide : i <= j
  <1>4. first \in wide /\ first <= 1
    BY <1>3
  <1>5. first = 1
    BY <1>3, <1>4
  <1> HIDE DEF first
  <1>6. SubSeq(lines, 1, first - 1) = <<>>
    BY <1>2, <1>5
  <1>7. wide # {}
    BY <1>3
  <1>8. Streamed(lines) = SubSeq(lines, 1, first - 1)
    BY <1>7 DEF Streamed, wide, first
  <1> QED
    BY <1>6, <1>8 DEF FileOf, lines

\* Files, copies and the list that is being written.
ListInv ==
    /\ FileOK(file)
    /\ DOMAIN cache = Processes /\ DOMAIN call = Processes
    /\ \A p \in Processes : cache[p] = Unread \/ cache[p] \in Lists
    /\ call[Manager].at = "write" => call[Manager].list \in Lists

LEMMA ManagerIs == Manager \in Processes
  BY DEF Processes

LEMMA ListInvInit == ASSUME ListInit PROVE ListInv
  <1>1. FileOK(file)
    BY HandFileOK DEF ListInit
  <1>2. call[Manager].at = "idle"
    BY ManagerIs, DoesAt DEF ListInit
  <1> QED
    BY <1>1, <1>2 DEF ListInit, ListInv

LEMMA ReadTyped == ASSUME ListInv, NEW p \in Processes, ReadCopy(p) PROVE ListInv'
  <1>1. FileOK(file') /\ file' = file
    BY DEF ReadCopy, ListInv
  <1>2. LoadBlacklist \in Lists
    BY DEF ListInv, FileOK, LoadBlacklist
  <1>3. /\ DOMAIN cache' = Processes
        /\ \A q \in Processes : cache'[q] = Unread \/ cache'[q] \in Lists
    BY <1>2 DEF ReadCopy, ListInv
  <1>4. DOMAIN call' = Processes /\ (call'[Manager] = call[Manager] \/ call'[Manager] = Does("stamp"))
    BY ManagerIs DEF ReadCopy, ListInv
  <1>5. call'[Manager].at = "write" => call'[Manager].list \in Lists
    BY <1>4, DoesAt DEF ListInv
  <1> QED
    BY <1>1, <1>3, <1>4, <1>5 DEF ListInv, FileOK, Load

LEMMA NoteTyped == ASSUME ListInv, NEW p \in Processes, NoteWriteTime(p) PROVE ListInv'
  <1>1. UNCHANGED <<file, cache>>
    BY DEF NoteWriteTime
  <1>2. DOMAIN call' = Processes /\ (call'[Manager] = call[Manager] \/ call'[Manager] = Does("idle"))
    BY ManagerIs DEF NoteWriteTime, ListInv
  <1>3. call'[Manager].at = "write" => call'[Manager].list \in Lists
    BY <1>2, DoesAt DEF ListInv
  <1> QED
    BY <1>1, <1>2, <1>3 DEF ListInv

LEMMA OpenTyped == ASSUME ListInv, NEW l \in Lists, OpenList(l) PROVE ListInv'
  <1> DEFINE writes == [at |-> "write", list |-> l]
  <1>1. FileOK(file')
    BY EmptyFileOK DEF OpenList, Changes, ListInv
  <1>2. UNCHANGED cache
    BY DEF OpenList
  <1>3. DOMAIN call' = Processes /\ (call'[Manager] = writes \/ call'[Manager] = Does("reload"))
    BY ManagerIs DEF OpenList, ListInv
  <1>4. writes.list = l
    OBVIOUS
  <1> HIDE DEF writes
  <1>5. call'[Manager].at = "write" => call'[Manager].list \in Lists
    BY <1>3, <1>4, DoesAt
  <1> QED
    BY <1>1, <1>2, <1>3, <1>5 DEF ListInv

LEMMA CloseTyped == ASSUME ListInv, CloseList PROVE ListInv'
  <1>1. call[Manager].list \in Lists /\ file' = FileOf(call[Manager].list)
    BY DEF CloseList, Changes, ListInv
  <1>2. FileOK(file')
    BY <1>1, SavedFileIs, EmptyFileOK
  <1>3. UNCHANGED cache /\ DOMAIN call' = Processes /\ call'[Manager] = Does("reload")
    BY ManagerIs DEF CloseList, ListInv
  <1>4. call'[Manager].at # "write"
    BY <1>3, DoesAt
  <1> QED
    BY <1>2, <1>3, <1>4 DEF ListInv

LEMMA HandTyped == ASSUME ListInv, ChangeByHand PROVE ListInv'
  <1>1. FileOK(file') /\ UNCHANGED <<cache, call>>
    BY HandFileOK DEF ChangeByHand, Changes
  <1> QED
    BY <1>1 DEF ListInv

LEMMA IdleTyped == ASSUME ListInv, UNCHANGED listVars PROVE ListInv'
  <1>1. file' = file /\ cache' = cache /\ call' = call
    BY DEF listVars
  <1> QED
    BY <1>1 DEF ListInv

-----------------------------------------------------------------------------
(* Messages and the page.                                                    *)

(* The type invariant: what is under way is what page and host send, and     *)
(* nothing is under way to or from a page that is not there.                 *)
MailOK ==
    /\ toHost \in Seq(HostMessages) /\ Len(toHost) <= MaxQueue
    /\ toPage \in Seq(PageMessages) /\ Len(toPage) <= MaxQueue
    /\ page = NoPage => toHost = <<>> /\ toPage = <<>>

SettingsOK ==
    /\ config \in Config
    /\ own \in BOOLEAN \cup {NoSwitch}
    /\ autoRun \in BOOLEAN
    /\ window \in {"none", "front", "behind"}
    /\ page \in Page \cup {NoPage}

PageInv == ListInv /\ SettingsOK /\ MailOK

LEMMA HostMessageIs ==
    ASSUME NEW m \in HostMessages
    PROVE  /\ m.type \in {"UPDATE_CONFIG", "UPDATE_BLACKLIST", "SET_AUTOSTART", "UI_READY", "REQ_BLACKLIST"}
           /\ m.type = "UPDATE_CONFIG" => m.payload \in Config
           /\ m.type = "UPDATE_BLACKLIST" => m.value \in Lists
           /\ m.type = "SET_AUTOSTART" => m.enabled \in BOOLEAN
           /\ m.type = "UI_READY" => m = UiReady
  <1>1. CASE m \in Updates
    BY <1>1 DEF Updates
  <1>2. CASE m \in ListUpdates
    BY <1>2 DEF ListUpdates
  <1>3. CASE m \in AutostartUpdates
    BY <1>3 DEF AutostartUpdates
  <1>4. CASE m \in {UiReady, RequestList}
    BY <1>4 DEF UiReady, RequestList
  <1> QED
    BY <1>1, <1>2, <1>3, <1>4 DEF HostMessages

LEMMA PageMessageIs ==
    ASSUME NEW m \in PageMessages
    PROVE  /\ m.type \in {"SET_CONFIG", "BLACKLIST_DATA", "AUTOSTART_STATE"}
           /\ m.type = "SET_CONFIG" => m.payload \in Config
           /\ m.type = "BLACKLIST_DATA" => m.value \in Lists
           /\ m.type = "AUTOSTART_STATE" => m.enabled \in BOOLEAN
  <1>1. CASE m \in Configs
    BY <1>1 DEF Configs
  <1>2. CASE m \in ListAnswers
    BY <1>2 DEF ListAnswers
  <1>3. CASE m \in AutostartAnswers
    BY <1>3 DEF AutostartAnswers
  <1> QED
    BY <1>1, <1>2, <1>3 DEF PageMessages

\* What page and host send.
LEMMA Sent ==
    /\ \A c \in Config : /\ Update(c) \in HostMessages /\ Update(c).type = "UPDATE_CONFIG"
                         /\ Update(c).payload = c
                         /\ SetConfig(c) \in PageMessages /\ SetConfig(c).type = "SET_CONFIG"
                         /\ SetConfig(c).payload = c
    /\ \A l \in Lists : /\ UpdateList(l) \in HostMessages /\ UpdateList(l).type = "UPDATE_BLACKLIST"
                        /\ ListData(l) \in PageMessages /\ ListData(l).type = "BLACKLIST_DATA"
    /\ \A b \in BOOLEAN : /\ SetAutostart(b) \in HostMessages /\ SetAutostart(b).type = "SET_AUTOSTART"
                          /\ AutostartState(b) \in PageMessages
                          /\ AutostartState(b).type = "AUTOSTART_STATE"
    /\ UiReady \in HostMessages /\ RequestList \in HostMessages /\ UiReady.type = "UI_READY"
  <1>1. ASSUME NEW c \in Config
        PROVE  /\ Update(c) \in HostMessages /\ Update(c).type = "UPDATE_CONFIG"
               /\ Update(c).payload = c
               /\ SetConfig(c) \in PageMessages /\ SetConfig(c).type = "SET_CONFIG"
               /\ SetConfig(c).payload = c
    BY DEF Update, Updates, HostMessages, SetConfig, Configs, PageMessages
  <1>2. ASSUME NEW l \in Lists
        PROVE  /\ UpdateList(l) \in HostMessages /\ UpdateList(l).type = "UPDATE_BLACKLIST"
               /\ ListData(l) \in PageMessages /\ ListData(l).type = "BLACKLIST_DATA"
    BY DEF UpdateList, ListUpdates, HostMessages, ListData, ListAnswers, PageMessages
  <1>3. ASSUME NEW b \in BOOLEAN
        PROVE  /\ SetAutostart(b) \in HostMessages /\ SetAutostart(b).type = "SET_AUTOSTART"
               /\ AutostartState(b) \in PageMessages
               /\ AutostartState(b).type = "AUTOSTART_STATE"
    BY DEF SetAutostart, AutostartUpdates, HostMessages, AutostartState, AutostartAnswers, PageMessages
  <1>4. UiReady \in HostMessages /\ RequestList \in HostMessages /\ UiReady.type = "UI_READY"
    BY DEF HostMessages, UiReady, RequestList
  <1> QED
    BY <1>1, <1>2, <1>3, <1>4

LEMMA ConfigIs ==
    ASSUME NEW c \in Config
    PROVE  /\ c = [input |-> c.input, perApp |-> c.perApp, other |-> c.other]
           /\ c.input \in BOOLEAN /\ c.perApp \in BOOLEAN /\ c.other \in Others
           /\ DOMAIN c = {"input", "perApp", "other"}
           /\ \A b \in BOOLEAN : /\ [c EXCEPT !.input = b] \in Config
                                 /\ [c EXCEPT !.perApp = b] \in Config
           /\ \A v \in Others : [c EXCEPT !.other = v] \in Config
  BY DEF Config

LEMMA PageIs ==
    ASSUME NEW p \in Page
    PROVE  /\ p # NoPage
           /\ p.config \in Config /\ p.list \in Lists /\ p.auto \in BOOLEAN
           /\ p = [config |-> p.config, list |-> p.list, auto |-> p.auto]
           /\ \A c \in Config : /\ [p EXCEPT !.config = c] \in Page
                                /\ [p EXCEPT !.config = c].config = c
           /\ \A l \in Lists : /\ [p EXCEPT !.list = l] \in Page
                               /\ [p EXCEPT !.list = l].config = p.config
           /\ \A b \in BOOLEAN : /\ [p EXCEPT !.auto = b] \in Page
                                 /\ [p EXCEPT !.auto = b].config = p.config
                                 /\ [p EXCEPT !.auto = b].auto = b
  BY PageConstants DEF Page

LEMMA FreshPageIs == FreshPage \in Page
  BY PageConstants, ListsAre DEF FreshPage, Page, DEFAULT_UNIKEY_CONFIG, Config

\* A queue that grows and one that shrinks.
LEMMA Grows ==
    ASSUME NEW S, NEW q \in Seq(S), NEW m \in S, Len(q) < MaxQueue
    PROVE  /\ Append(q, m) \in Seq(S) /\ Len(Append(q, m)) <= MaxQueue
           /\ Append(q, m) # <<>>
           /\ Len(Append(q, m)) = Len(q) + 1 /\ Append(q, m)[Len(q) + 1] = m
           /\ \A i \in 1..Len(q) : Append(q, m)[i] = q[i]
  <1>1. MaxQueue \in Nat /\ Len(q) \in Nat
    BY PageConstants
  <1> QED
    BY <1>1

LEMMA Shrinks ==
    ASSUME NEW S, NEW q \in Seq(S), q # <<>>, Len(q) <= MaxQueue
    PROVE  /\ Head(q) \in S /\ Head(q) = q[1] /\ Len(q) \in Nat /\ Len(q) >= 1
           /\ Tail(q) \in Seq(S) /\ Len(Tail(q)) <= MaxQueue
           /\ Len(Tail(q)) = Len(q) - 1
           /\ \A i \in 1..(Len(q) - 1) : Tail(q)[i] = q[i + 1]
  <1>1. MaxQueue \in Nat /\ Len(q) \in Nat
    BY PageConstants
  <1>2. Len(q) >= 1
    BY <1>1, EmptySeq
  <1> QED
    BY <1>1, <1>2

LEMMA GrowsByTwo ==
    ASSUME NEW S, NEW q \in Seq(S), NEW a \in S, NEW b \in S, Len(q) + 2 <= MaxQueue
    PROVE  /\ q \o <<a, b>> \in Seq(S) /\ Len(q \o <<a, b>>) <= MaxQueue
           /\ Len(q) \in Nat /\ Len(q \o <<a, b>>) = Len(q) + 2
           /\ (q \o <<a, b>>)[Len(q) + 1] = a /\ (q \o <<a, b>>)[Len(q) + 2] = b
           /\ \A i \in 1..Len(q) : (q \o <<a, b>>)[i] = q[i]
  <1> DEFINE two == <<a, b>>
  <1>1. two \in Seq(S) /\ Len(two) = 2 /\ two[1] = a /\ two[2] = b
    OBVIOUS
  <1>2. MaxQueue \in Nat /\ Len(q) \in Nat
    BY PageConstants
  <1> HIDE DEF two
  <1>3. /\ q \o two \in Seq(S)
        /\ Len(q \o two) = Len(q) + Len(two)
        /\ \A i \in 1..(Len(q) + Len(two)) :
             (q \o two)[i] = IF i <= Len(q) THEN q[i] ELSE two[i - Len(q)]
    BY <1>1, ConcatProperties
  <1>4. (q \o two)[Len(q) + 1] = a /\ (q \o two)[Len(q) + 2] = b
    BY <1>1, <1>2, <1>3
  <1>5. \A i \in 1..Len(q) : (q \o two)[i] = q[i]
    BY <1>1, <1>2, <1>3
  <1>6. Len(q \o two) = Len(q) + 2
    BY <1>1, <1>3
  <1>7. q \o two \in Seq(S) /\ Len(q \o two) <= MaxQueue
    BY <1>3, <1>6
  <1> QED
    BY <1>2, <1>4, <1>5, <1>6, <1>7 DEF two

-----------------------------------------------------------------------------
(* The type invariant, action by action.                                     *)

LEMMA PageInvInit == ASSUME Init PROVE PageInv
  <1>1. ListInv
    BY ListInvInit DEF Init
  <1>2. SettingsOK
    BY DEF Init, SettingsOK
  <1>3. MailOK
    <2> DEFINE none == <<>>
    <2>1. none \in Seq(HostMessages) /\ none \in Seq(PageMessages) /\ Len(none) <= MaxQueue
      BY PageConstants
    <2>2. toHost = none /\ toPage = none
      BY DEF Init
    <2> QED
      BY <2>1, <2>2 DEF MailOK
  <1> QED
    BY <1>1, <1>2, <1>3 DEF PageInv

LEMMA PageThere ==
    ASSUME PageInv, page # NoPage
    PROVE  /\ page \in Page
           /\ page.config \in Config /\ page.list \in Lists /\ page.auto \in BOOLEAN
  BY PageIs DEF PageInv, SettingsOK

LEMMA ActTyped == ASSUME PageInv, Act PROVE ListInv'
  BY IdleTyped DEF PageInv, Act

LEMMA PostTyped ==
    ASSUME PageInv, NEW m \in HostMessages, Posts(m), page' \in Page, UNCHANGED toPage
    PROVE  MailOK'
  <1>1. toHost' \in Seq(HostMessages) /\ Len(toHost') <= MaxQueue
    BY Grows DEF PageInv, MailOK, Posts
  <1>2. page' # NoPage
    BY PageIs
  <1> QED
    BY <1>1, <1>2 DEF PageInv, MailOK

LEMMA LoadTyped == ASSUME PageInv, LoadPage PROVE PageInv'
  <1>1. ListInv'
    BY ActTyped DEF LoadPage
  <1>2. page' = FreshPage /\ UNCHANGED <<config, own, autoRun, window>>
    BY DEF LoadPage
  <1>3. SettingsOK'
    BY <1>2, FreshPageIs DEF PageInv, SettingsOK
  <1> DEFINE none == <<>>
  <1>4. UiReady \in HostMessages /\ RequestList \in HostMessages
    BY Sent
  <1>5. none \in Seq(PageMessages) /\ Len(none) <= MaxQueue
    BY PageConstants
  <1>6. toHost' = toHost \o <<UiReady, RequestList>> /\ toPage' = none /\ Len(toHost) + 2 <= MaxQueue
    BY DEF LoadPage
  <1> HIDE DEF none
  <1>7. toHost' \in Seq(HostMessages) /\ Len(toHost') <= MaxQueue
    BY <1>4, <1>6, GrowsByTwo DEF PageInv, MailOK
  <1>8. page' # NoPage
    BY <1>2, FreshPageIs, PageIs
  <1>9. MailOK'
    BY <1>5, <1>6, <1>7, <1>8 DEF MailOK
  <1> QED
    BY <1>1, <1>3, <1>9 DEF PageInv

LEMMA ShowTyped == ASSUME PageInv, ShowSettings PROVE PageInv'
  <1>1. ListInv'
    BY ActTyped DEF ShowSettings
  <1>2. SettingsOK'
    BY DEF ShowSettings, PageInv, SettingsOK
  <1>3. UNCHANGED <<page, toHost>>
    BY DEF ShowSettings
  <1>4. CASE page = NoPage
    <2>1. UNCHANGED toPage
      BY <1>4 DEF ShowSettings
    <2> QED
      BY <1>1, <1>2, <1>3, <2>1 DEF PageInv, MailOK
  <1>5. CASE page # NoPage
    <2>1. SetConfig(config) \in PageMessages
      BY Sent DEF PageInv, SettingsOK
    <2>2. Len(toPage) < MaxQueue /\ toPage' = Append(toPage, SetConfig(config))
      BY <1>5 DEF ShowSettings
    <2>3. toPage' \in Seq(PageMessages) /\ Len(toPage') <= MaxQueue
      BY <2>1, <2>2, Grows DEF PageInv, MailOK
    <2> QED
      BY <1>1, <1>2, <1>3, <1>5, <2>3 DEF PageInv, MailOK
  <1> QED
    BY <1>4, <1>5

LEMMA LeaveTyped == ASSUME PageInv, LeaveWindow PROVE PageInv'
  <1>1. ListInv'
    BY ActTyped DEF LeaveWindow
  <1> QED
    BY <1>1 DEF LeaveWindow, PageInv, SettingsOK, MailOK

\* What an edit leaves of the page, and what it sends.
LEMMA EditIs ==
    ASSUME PageInv, NEW field, NEW v, Edit(field, v),
           \/ field \in {"input", "perApp"} /\ v \in BOOLEAN
           \/ field = "other" /\ v \in Others
    PROVE  /\ page # NoPage /\ page' \in Page /\ page'.config \in Config
           /\ field \in DOMAIN page.config
           /\ page.config[field] # v /\ page'.config[field] = v
           /\ Posts(Update(page'.config))
  <1>1. page # NoPage /\ page.config[field] # v /\ Posts(Update(page'.config))
    BY DEF Edit
  <1> DEFINE c == [page.config EXCEPT ![field] = v]
  <1>2. page' = [page EXCEPT !.config = c]
    BY DEF Edit
  <1>3. page \in Page /\ page.config \in Config
    BY <1>1, PageThere
  <1>4. DOMAIN page.config = {"input", "perApp", "other"}
    BY <1>3, ConfigIs
  <1>5. field \in DOMAIN page.config
    BY <1>4
  <1>6. c[field] = v
    BY <1>5
  <1>7. c \in Config
    <2>1. CASE field = "input" /\ v \in BOOLEAN
      BY <1>3, <2>1, ConfigIs
    <2>2. CASE field = "perApp" /\ v \in BOOLEAN
      BY <1>3, <2>2, ConfigIs
    <2>3. CASE field = "other" /\ v \in Others
      BY <1>3, <2>3, ConfigIs
    <2> QED
      BY <2>1, <2>2, <2>3
  <1> HIDE DEF c
  <1>8. page' \in Page /\ page'.config = c
    BY <1>2, <1>3, <1>7, PageIs
  <1> QED
    BY <1>1, <1>5, <1>6, <1>7, <1>8

LEMMA EditTyped ==
    ASSUME PageInv, NEW field, NEW v, Edit(field, v),
           \/ field \in {"input", "perApp"} /\ v \in BOOLEAN
           \/ field = "other" /\ v \in Others
    PROVE  PageInv'
  <1>1. page' \in Page /\ page'.config \in Config /\ Posts(Update(page'.config))
    BY EditIs
  <1>2. Act /\ UNCHANGED <<config, own, autoRun, window, toPage>>
    BY DEF Edit
  <1>3. ListInv'
    BY <1>2, ActTyped
  <1>4. SettingsOK'
    BY <1>1, <1>2 DEF PageInv, SettingsOK
  <1>5. Update(page'.config) \in HostMessages
    BY <1>1, Sent
  <1>6. MailOK'
    BY <1>1, <1>2, <1>5, PostTyped
  <1> QED
    BY <1>3, <1>4, <1>6 DEF PageInv

LEMMA EditListTyped == ASSUME PageInv, EditList PROVE PageInv' /\ page' # NoPage /\ page'.config = page.config
  <1>1. page # NoPage /\ Act /\ UNCHANGED <<config, own, autoRun, window, toPage>>
    BY DEF EditList
  <1>2. PICK l \in Lists : page' = [page EXCEPT !.list = l] /\ Posts(UpdateList(l))
    BY DEF EditList
  <1>3. page' \in Page /\ page'.config = page.config
    BY <1>1, <1>2, PageThere, PageIs
  <1>4. ListInv'
    BY <1>1, ActTyped
  <1>5. SettingsOK'
    BY <1>1, <1>3 DEF PageInv, SettingsOK
  <1>6. UpdateList(l) \in HostMessages
    BY Sent
  <1>7. MailOK'
    BY <1>1, <1>2, <1>3, <1>6, PostTyped
  <1> QED
    BY <1>3, <1>4, <1>5, <1>7, PageIs DEF PageInv

LEMMA EditAutostartTyped ==
    ASSUME PageInv, EditAutostart
    PROVE  PageInv' /\ page' # NoPage /\ page'.config = page.config /\ page'.auto \in BOOLEAN
  <1>1. page # NoPage /\ Act /\ UNCHANGED <<config, own, autoRun, window, toPage>>
    BY DEF EditAutostart
  <1> DEFINE b == ~page.auto
  <1>2. page' = [page EXCEPT !.auto = b] /\ Posts(SetAutostart(page'.auto))
    BY DEF EditAutostart
  <1>3. b \in BOOLEAN
    OBVIOUS
  <1> HIDE DEF b
  <1>4. page' \in Page /\ page'.config = page.config /\ page'.auto = b
    BY <1>1, <1>2, <1>3, PageThere, PageIs
  <1>5. ListInv'
    BY <1>1, ActTyped
  <1>6. SettingsOK'
    BY <1>1, <1>4 DEF PageInv, SettingsOK
  <1>7. SetAutostart(page'.auto) \in HostMessages
    BY <1>3, <1>4, Sent
  <1>8. MailOK'
    BY <1>1, <1>2, <1>4, <1>7, PostTyped
  <1> QED
    BY <1>3, <1>4, <1>5, <1>6, <1>8, PageIs DEF PageInv

LEMMA OutsideTyped == ASSUME PageInv, ChangeOutside PROVE PageInv'
  <1>1. ListInv'
    BY ActTyped DEF ChangeOutside
  <1>2. UNCHANGED <<autoRun, window, page, toHost, toPage>>
    BY DEF ChangeOutside
  <1>3. config' \in Config /\ own' \in BOOLEAN \cup {NoSwitch}
    <2>1. config \in Config /\ own \in BOOLEAN \cup {NoSwitch}
      BY DEF PageInv, SettingsOK
    <2>2. ASSUME NEW v \in Others \ {config.other}, config' = [config EXCEPT !.other = v], UNCHANGED own
          PROVE  config' \in Config /\ own' \in BOOLEAN \cup {NoSwitch}
      BY <2>1, <2>2, ConfigIs
    <2>3. ASSUME NEW v, config' = [config EXCEPT !.input = ~v],
                 own' = IF config.perApp /\ window = "front" THEN ~v ELSE own
          PROVE  config' \in Config /\ own' \in BOOLEAN \cup {NoSwitch}
      <3> DEFINE b == ~v
      <3>1. b \in BOOLEAN
        OBVIOUS
      <3>2. config' = [config EXCEPT !.input = b] /\ own' \in {b, own}
        BY <2>3
      <3> HIDE DEF b
      <3>3. config' \in Config
        BY <2>1, <3>1, <3>2, ConfigIs
      <3> QED
        BY <2>1, <3>1, <3>2, <3>3, Zenon
    <2> QED
      BY <2>2, <2>3 DEF ChangeOutside
  <1> QED
    BY <1>1, <1>2, <1>3 DEF PageInv, SettingsOK, MailOK

LEMMA RunKeyTyped == ASSUME PageInv, ChangeRunKey PROVE PageInv'
  <1>1. ListInv'
    BY ActTyped DEF ChangeRunKey
  <1>2. UNCHANGED <<config, own, window, page, toHost, toPage>> /\ autoRun' \in BOOLEAN
    BY DEF ChangeRunKey
  <1> QED
    BY <1>1, <1>2 DEF PageInv, SettingsOK, MailOK

\* There is something to hear only from a page that is there.
LEMMA HeardFrom ==
    ASSUME PageInv, NEW type, Hears(type)
    PROVE  /\ page # NoPage /\ page' = page /\ window' = window
           /\ toHost # <<>> /\ Head(toHost) \in HostMessages /\ Head(toHost).type = type
           /\ Head(toHost) = toHost[1]
           /\ toHost' = Tail(toHost)
           /\ toHost' \in Seq(HostMessages) /\ Len(toHost') <= MaxQueue
  <1>1. toHost # <<>> /\ Head(toHost).type = type /\ toHost' = Tail(toHost) /\ UNCHANGED <<window, page>>
    BY DEF Hears
  <1>2. toHost \in Seq(HostMessages) /\ Len(toHost) <= MaxQueue /\ page # NoPage
    BY <1>1 DEF PageInv, MailOK
  <1> QED
    BY <1>1, <1>2, Shrinks

LEMMA HeardTyped ==
    ASSUME PageInv, NEW type, Hears(type),
           toPage' \in Seq(PageMessages), Len(toPage') <= MaxQueue
    PROVE  MailOK'
  <1>1. page # NoPage /\ page' = page /\ toHost' \in Seq(HostMessages) /\ Len(toHost') <= MaxQueue
    BY HeardFrom
  <1> QED
    BY <1>1 DEF MailOK

LEMMA ReceiveTyped ==
    ASSUME PageInv, PageReceives
    PROVE  /\ PageInv' /\ page' # NoPage
           /\ Head(toPage) \in PageMessages /\ Head(toPage) = toPage[1]
           /\ page'.config = IF Head(toPage).type = "SET_CONFIG" THEN Head(toPage).payload ELSE page.config
  <1> DEFINE m == Head(toPage)
             c == IF m.type = "SET_CONFIG" THEN m.payload ELSE page.config
             l == IF m.type = "BLACKLIST_DATA" THEN m.value ELSE page.list
             b == IF m.type = "AUTOSTART_STATE" THEN m.enabled ELSE page.auto
  <1>1. toPage # <<>> /\ toPage' = Tail(toPage) /\ UNCHANGED <<listVars, config, own, autoRun, window, toHost>>
    BY DEF PageReceives
  <1>2. page # NoPage /\ toPage \in Seq(PageMessages) /\ Len(toPage) <= MaxQueue
    BY <1>1 DEF PageInv, MailOK
  <1>3. /\ m \in PageMessages /\ m = toPage[1]
        /\ toPage' \in Seq(PageMessages) /\ Len(toPage') <= MaxQueue
    BY <1>1, <1>2, Shrinks
  <1>4. /\ page \in Page /\ page.config \in Config /\ page.list \in Lists /\ page.auto \in BOOLEAN
        /\ page = [config |-> page.config, list |-> page.list, auto |-> page.auto]
    BY <1>2, PageThere, PageIs
  <1>5. page' = [page EXCEPT !.config = c, !.list = l, !.auto = b]
    BY DEF PageReceives
  <1> HIDE DEF m
  <1>6. c \in Config
    BY <1>3, <1>4, PageMessageIs
  <1>7. l \in Lists
    BY <1>3, <1>4, PageMessageIs
  <1>8. b \in BOOLEAN
    <2>1. CASE m.type = "AUTOSTART_STATE"
      <3>1. m.enabled \in BOOLEAN /\ b = m.enabled
        BY <1>3, <2>1, PageMessageIs
      <3> QED
        BY <3>1, Zenon
    <2>2. CASE m.type # "AUTOSTART_STATE"
      <3>1. b = page.auto
        BY <2>2
      <3> QED
        BY <1>4, <3>1, Zenon
    <2> QED
      BY <2>1, <2>2
  <1> HIDE DEF c, l, b
  <1>9. page' = [config |-> c, list |-> l, auto |-> b]
    BY <1>4, <1>5
  <1>a. page' \in Page /\ page'.config = c /\ page' # NoPage
    BY <1>6, <1>7, <1>8, <1>9, PageConstants DEF Page
  <1>b. ListInv'
    BY <1>1, IdleTyped DEF PageInv
  <1>c. SettingsOK'
    BY <1>1, <1>a DEF PageInv, SettingsOK
  <1>d. MailOK'
    BY <1>1, <1>3, <1>a DEF PageInv, MailOK
  <1> QED
    BY <1>3, <1>a, <1>b, <1>c, <1>d DEF PageInv, m, c

LEMMA StoreUpdateTyped ==
    ASSUME PageInv, StoreUpdate
    PROVE  PageInv' /\ config' = Head(toHost).payload /\ config' \in Config
  <1> DEFINE c == Head(toHost).payload
  <1>1. /\ Hears("UPDATE_CONFIG")
        /\ config' = c
        /\ own' = IF c.perApp /\ window = "front" THEN c.input ELSE own
        /\ UNCHANGED <<listVars, autoRun, toPage>>
    BY DEF StoreUpdate, Stored
  <1>2. c \in Config /\ page' = page /\ window' = window
    BY <1>1, HeardFrom, HostMessageIs
  <1>3. c.input \in BOOLEAN
    BY <1>2, ConfigIs
  <1> HIDE DEF c
  <1>4. own' \in BOOLEAN \cup {NoSwitch}
    <2>1. own' \in {c.input, own}
      BY <1>1
    <2>2. own \in BOOLEAN \cup {NoSwitch}
      BY DEF PageInv, SettingsOK
    <2> QED
      BY <1>3, <2>1, <2>2, Zenon
  <1>5. ListInv'
    BY <1>1, IdleTyped DEF PageInv
  <1>6. SettingsOK'
    BY <1>1, <1>2, <1>4 DEF PageInv, SettingsOK
  <1>7. MailOK'
    BY <1>1, HeardTyped DEF PageInv, MailOK
  <1> QED
    BY <1>1, <1>2, <1>5, <1>6, <1>7 DEF PageInv, c

LEMMA DropTyped == ASSUME PageInv, DropUpdate PROVE PageInv'
  <1>1. Hears("UPDATE_CONFIG") /\ UNCHANGED <<listVars, config, own, autoRun, toPage>>
    BY DEF DropUpdate
  <1>2. page' = page /\ window' = window
    BY <1>1, HeardFrom
  <1>3. ListInv'
    BY <1>1, IdleTyped DEF PageInv
  <1>4. SettingsOK'
    BY <1>1, <1>2 DEF PageInv, SettingsOK
  <1>5. MailOK'
    BY <1>1, HeardTyped DEF PageInv, MailOK
  <1> QED
    BY <1>3, <1>4, <1>5 DEF PageInv

LEMMA StoreListTyped == ASSUME PageInv, StoreList PROVE PageInv'
  <1>1. Hears("UPDATE_BLACKLIST") /\ OpenList(Head(toHost).value) /\ UNCHANGED <<config, own, autoRun, toPage>>
    BY DEF StoreList
  <1>2. Head(toHost).value \in Lists /\ page' = page /\ window' = window
    BY <1>1, HeardFrom, HostMessageIs
  <1>3. ListInv'
    BY <1>1, <1>2, OpenTyped DEF PageInv
  <1>4. SettingsOK'
    BY <1>1, <1>2 DEF PageInv, SettingsOK
  <1>5. MailOK'
    BY <1>1, HeardTyped DEF PageInv, MailOK
  <1> QED
    BY <1>3, <1>4, <1>5 DEF PageInv

LEMMA AnswerReadyTyped == ASSUME PageInv, AnswerReady PROVE PageInv'
  <1>1. Hears("UI_READY") /\ Len(toPage) + 2 <= MaxQueue /\ UNCHANGED <<listVars, config, own, autoRun>>
    BY DEF AnswerReady
  <1>2. page' = page /\ window' = window
    BY <1>1, HeardFrom
  <1>3. /\ toPage \in Seq(PageMessages) /\ config \in Config /\ autoRun \in BOOLEAN
        /\ own \in BOOLEAN \cup {NoSwitch}
    BY DEF PageInv, SettingsOK, MailOK
  <1>4. AutostartState(autoRun) \in PageMessages
    BY <1>3, Sent
  <1>5. ASSUME NEW v \in Effective,
               toPage' = toPage \o <<SetConfig([config EXCEPT !.input = v]), AutostartState(autoRun)>>
        PROVE  toPage' \in Seq(PageMessages) /\ Len(toPage') <= MaxQueue
    <2>1. v \in BOOLEAN
      <3>1. config.input \in BOOLEAN
        BY <1>3, ConfigIs
      <3>2. v = config.input \/ v \in BOOLEAN \/ (own # NoSwitch /\ v = own)
        BY DEF Effective
      <3> QED
        BY <1>3, <3>1, <3>2, Zenon
    <2>2. [config EXCEPT !.input = v] \in Config
      BY <1>3, <2>1, ConfigIs
    <2>3. SetConfig([config EXCEPT !.input = v]) \in PageMessages
      BY <2>2, Sent
    <2> QED
      BY <1>1, <1>3, <1>4, <1>5, <2>3, GrowsByTwo
  <1>6. ASSUME toPage' = Append(toPage, AutostartState(autoRun))
        PROVE  toPage' \in Seq(PageMessages) /\ Len(toPage') <= MaxQueue
    <2>1. Len(toPage) < MaxQueue
      BY <1>1, <1>3, PageConstants
    <2> QED
      BY <1>3, <1>4, <1>6, <2>1, Grows
  <1>7. toPage' \in Seq(PageMessages) /\ Len(toPage') <= MaxQueue
    BY <1>5, <1>6 DEF AnswerReady
  <1>8. MailOK'
    BY <1>1, <1>7, HeardTyped
  <1>9. ListInv'
    BY <1>1, IdleTyped DEF PageInv
  <1>a. SettingsOK'
    BY <1>1, <1>2 DEF PageInv, SettingsOK
  <1> QED
    BY <1>8, <1>9, <1>a DEF PageInv

LEMMA AnswerListTyped == ASSUME PageInv, AnswerList PROVE PageInv'
  <1>1. /\ Hears("REQ_BLACKLIST") /\ Len(toPage) < MaxQueue
        /\ toPage' = Append(toPage, ListData(LoadBlacklist))
        /\ UNCHANGED <<listVars, config, own, autoRun>>
    BY DEF AnswerList
  <1>2. page' = page /\ window' = window
    BY <1>1, HeardFrom
  <1>3. LoadBlacklist \in Lists
    BY DEF PageInv, ListInv, FileOK, LoadBlacklist
  <1>4. ListData(LoadBlacklist) \in PageMessages
    BY <1>3, Sent
  <1>5. toPage' \in Seq(PageMessages) /\ Len(toPage') <= MaxQueue
    BY <1>1, <1>4, Grows DEF PageInv, MailOK
  <1>6. MailOK'
    BY <1>1, <1>5, HeardTyped
  <1>7. ListInv'
    BY <1>1, IdleTyped DEF PageInv
  <1>8. SettingsOK'
    BY <1>1, <1>2 DEF PageInv, SettingsOK
  <1> QED
    BY <1>6, <1>7, <1>8 DEF PageInv

LEMMA StoreAutostartTyped == ASSUME PageInv, StoreAutostart PROVE PageInv'
  <1>1. Hears("SET_AUTOSTART") /\ autoRun' \in {autoRun, Head(toHost).enabled} /\ UNCHANGED <<listVars, config, own, toPage>>
    BY DEF StoreAutostart
  <1>2. Head(toHost).enabled \in BOOLEAN /\ page' = page /\ window' = window
    BY <1>1, HeardFrom, HostMessageIs
  <1>3. autoRun' \in BOOLEAN
    <2>1. autoRun \in BOOLEAN
      BY DEF PageInv, SettingsOK
    <2> QED
      BY <1>1, <1>2, <2>1, Zenon
  <1>4. ListInv'
    BY <1>1, IdleTyped DEF PageInv
  <1>5. SettingsOK'
    BY <1>1, <1>2, <1>3 DEF PageInv, SettingsOK
  <1>6. MailOK'
    BY <1>1, HeardTyped DEF PageInv, MailOK
  <1> QED
    BY <1>4, <1>5, <1>6 DEF PageInv

LEMMA ListStepTyped == ASSUME PageInv, ListStep PROVE PageInv'
  <1>1. UNCHANGED <<config, own, autoRun, window, page, toHost, toPage>>
    BY DEF ListStep
  <1>2. ListInv'
    BY ReadTyped, NoteTyped, CloseTyped, HandTyped DEF ListStep, PageInv
  <1> QED
    BY <1>1, <1>2 DEF PageInv, SettingsOK, MailOK

LEMMA PageInvStep == ASSUME PageInv, [Next]_vars PROVE PageInv'
  <1>1. CASE \E v \in BOOLEAN : Edit("input", v) \/ Edit("perApp", v)
    BY <1>1, EditTyped
  <1>2. CASE \E v \in Others : Edit("other", v)
    BY <1>2, EditTyped
  <1>3. CASE LoadPage \/ ShowSettings \/ LeaveWindow
    BY <1>3, LoadTyped, ShowTyped, LeaveTyped
  <1>4. CASE EditList \/ EditAutostart
    BY <1>4, EditListTyped, EditAutostartTyped
  <1>5. CASE ChangeOutside \/ ChangeRunKey \/ PageReceives
    BY <1>5, OutsideTyped, RunKeyTyped, ReceiveTyped
  <1>6. CASE StoreUpdate \/ DropUpdate \/ StoreList \/ AnswerReady \/ AnswerList \/ StoreAutostart
    BY <1>6, StoreUpdateTyped, DropTyped, StoreListTyped, AnswerReadyTyped, AnswerListTyped,
       StoreAutostartTyped
  <1>7. CASE ListStep
    BY <1>7, ListStepTyped
  <1>8. CASE UNCHANGED vars
    <2>1. UNCHANGED listVars /\ UNCHANGED <<config, own, autoRun, window, page, toHost, toPage>>
      BY <1>8 DEF vars, pageVars
    <2>2. ListInv'
      BY <2>1, IdleTyped DEF PageInv
    <2> QED
      BY <2>1, <2>2 DEF PageInv, SettingsOK, MailOK
  <1> QED
    BY <1>1, <1>2, <1>3, <1>4, <1>5, <1>6, <1>7, <1>8, Zenon DEF Next

LEMMA PageInvAlways == Spec => []PageInv
  BY PageInvInit, PageInvStep, PTL DEF Spec

(* Page, configuration, file and copies keep to their types, every message   *)
(* under way is one that page or host sends, and nothing is under way to or  *)
(* from a page that is not there.                                            *)
THEOREM SettingsPageTyped == Spec => []TypeOK
  <1>1. ASSUME PageInv PROVE TypeOK
    <2>1. file = NoFile \/ ToSet(file) \subseteq Names \cup {Hint}
      BY <1>1 DEF PageInv, ListInv, FileOK
    <2>2. \A p \in Processes : cache[p] = Unread \/ cache[p] \in Seq(Names)
      BY <1>1, ListsAre DEF PageInv, ListInv
    <2> QED
      BY <1>1, <2>1, <2>2 DEF PageInv, SettingsOK, MailOK, TypeOK
  <1> QED
    BY <1>1, PageInvAlways, PTL

-----------------------------------------------------------------------------
(* What the configuration will be: the last update under way decides.        *)

SettledFor(q, c) ==
    LET updates == OfType(q, "UPDATE_CONFIG")
    IN IF updates = {} THEN c ELSE q[Max(updates)].payload

\* k is the last update of a queue.
LastUpdate(q, k) ==
    /\ k \in 1..Len(q)
    /\ q[k].type = "UPDATE_CONFIG"
    /\ \A j \in 1..Len(q) : j > k => q[j].type # "UPDATE_CONFIG"

NoUpdate(q) == \A j \in 1..Len(q) : q[j].type # "UPDATE_CONFIG"

LEMMA LastDecides ==
    ASSUME NEW q \in Seq(HostMessages), NEW c, NEW k, LastUpdate(q, k)
    PROVE  SettledFor(q, c) = q[k].payload
  <1> DEFINE U == OfType(q, "UPDATE_CONFIG")
  <1>1. Len(q) \in Nat /\ DOMAIN q = 1..Len(q)
    OBVIOUS
  <1>2. U \subseteq 1..Len(q) /\ k \in U /\ \A j \in U : q[j].type = "UPDATE_CONFIG"
    BY <1>1 DEF OfType, LastUpdate
  <1>3. SettledFor(q, c) = IF U = {} THEN c ELSE q[Max(U)].payload
    BY DEF SettledFor
  <1> DEFINE top == Max(U)
  <1> HIDE DEF U
  <1>4. top \in U /\ \A i \in U : i <= top
    BY <1>1, <1>2, LargestOf
  <1>5. U # {} /\ SettledFor(q, c) = q[top].payload
    BY <1>2, <1>3
  <1> HIDE DEF top
  <1>6. top \in 1..Len(q) /\ k \in 1..Len(q) /\ k <= top
    BY <1>2, <1>4
  <1>7. ~(top > k)
    BY <1>2, <1>4, <1>6 DEF LastUpdate
  <1>8. top = k
    BY <1>1, <1>6, <1>7
  <1> QED
    BY <1>5, <1>8

LEMMA NoneDecides ==
    ASSUME NEW q \in Seq(HostMessages), NEW c
    PROVE  /\ NoUpdate(q) => SettledFor(q, c) = c
           /\ NoUpdate(q) <=> OfType(q, "UPDATE_CONFIG") = {}
  BY DEF SettledFor, NoUpdate, OfType

LEMMA LastOrNone ==
    ASSUME NEW q \in Seq(HostMessages)
    PROVE  NoUpdate(q) \/ \E k : LastUpdate(q, k)
  <1> DEFINE U == OfType(q, "UPDATE_CONFIG")
  <1>1. Len(q) \in Nat /\ DOMAIN q = 1..Len(q)
    OBVIOUS
  <1>2. /\ U \subseteq 1..Len(q) /\ \A j \in U : q[j].type = "UPDATE_CONFIG"
        /\ \A j \in 1..Len(q) : q[j].type = "UPDATE_CONFIG" => j \in U
    BY <1>1 DEF OfType
  <1>3. CASE U = {}
    BY <1>3, NoneDecides
  <1>4. CASE U # {}
    <2> DEFINE top == Max(U)
    <2> HIDE DEF U
    <2>1. top \in U /\ \A i \in U : i <= top
      BY <1>1, <1>2, <1>4, LargestOf
    <2> HIDE DEF top
    <2>2. \A j \in 1..Len(q) : j > top => j \notin U
      BY <1>1, <1>2, <2>1
    <2> QED
      BY <1>2, <2>1, <2>2 DEF LastUpdate
  <1> QED
    BY <1>3, <1>4

\* Messages that join and leave the queue.
LEMMA UpdateJoins ==
    ASSUME NEW q \in Seq(HostMessages), NEW m \in HostMessages, NEW c,
           Len(q) < MaxQueue, m.type = "UPDATE_CONFIG"
    PROVE  SettledFor(Append(q, m), c) = m.payload
  <1>1. Append(q, m) \in Seq(HostMessages) /\ Len(Append(q, m)) = Len(q) + 1 /\ Append(q, m)[Len(q) + 1] = m
    BY Grows
  <1>2. Len(q) \in Nat
    OBVIOUS
  <1>3. LastUpdate(Append(q, m), Len(q) + 1)
    BY <1>1, <1>2 DEF LastUpdate
  <1> QED
    BY <1>1, <1>3, LastDecides

LEMMA OtherJoins ==
    ASSUME NEW q \in Seq(HostMessages), NEW m \in HostMessages, NEW c,
           Len(q) < MaxQueue, m.type # "UPDATE_CONFIG"
    PROVE  SettledFor(Append(q, m), c) = SettledFor(q, c)
  <1> DEFINE r == Append(q, m)
  <1>1. /\ r \in Seq(HostMessages) /\ Len(r) = Len(q) + 1 /\ r[Len(q) + 1] = m
        /\ \A i \in 1..Len(q) : r[i] = q[i]
    BY Grows
  <1>2. Len(q) \in Nat
    OBVIOUS
  <1> HIDE DEF r
  <1>3. ASSUME NoUpdate(q) PROVE SettledFor(r, c) = SettledFor(q, c)
    <2>1. NoUpdate(r)
      BY <1>1, <1>2, <1>3 DEF NoUpdate
    <2>2. SettledFor(r, c) = c
      BY <1>1, <2>1, NoneDecides
    <2>3. SettledFor(q, c) = c
      BY <1>3, NoneDecides
    <2> QED
      BY <2>2, <2>3
  <1>4. ASSUME NEW k, LastUpdate(q, k) PROVE SettledFor(r, c) = SettledFor(q, c)
    <2>1. LastUpdate(r, k)
      BY <1>1, <1>2, <1>4 DEF LastUpdate
    <2>2. r[k] = q[k]
      BY <1>1, <1>4 DEF LastUpdate
    <2>3. SettledFor(r, c) = r[k].payload
      BY <1>1, <2>1, LastDecides
    <2>4. SettledFor(q, c) = q[k].payload
      BY <1>4, LastDecides
    <2> QED
      BY <2>2, <2>3, <2>4
  <1>5. SettledFor(r, c) = SettledFor(q, c)
    BY <1>3, <1>4, LastOrNone, Zenon
  <1> QED
    BY <1>5 DEF r

LEMMA UpdateLeaves ==
    ASSUME NEW q \in Seq(HostMessages), q # <<>>, Len(q) <= MaxQueue, NEW c,
           Head(q).type = "UPDATE_CONFIG"
    PROVE  SettledFor(Tail(q), Head(q).payload) = SettledFor(q, c)
  <1> DEFINE r == Tail(q)
  <1>1. /\ Head(q) = q[1] /\ Len(q) \in Nat /\ Len(q) >= 1
        /\ r \in Seq(HostMessages) /\ Len(r) = Len(q) - 1
        /\ \A i \in 1..(Len(q) - 1) : r[i] = q[i + 1]
    BY Shrinks
  <1> HIDE DEF r
  <1>2. ASSUME NoUpdate(r) PROVE SettledFor(r, Head(q).payload) = SettledFor(q, c)
    <2>1. ASSUME NEW j \in 1..Len(q), j > 1 PROVE q[j].type # "UPDATE_CONFIG"
      <3>1. j - 1 \in 1..(Len(q) - 1) /\ (j - 1) + 1 = j
        BY <1>1, <2>1
      <3>2. r[j - 1] = q[j] /\ j - 1 \in 1..Len(r)
        BY <1>1, <3>1
      <3> QED
        BY <1>2, <3>2 DEF NoUpdate
    <2>2. LastUpdate(q, 1)
      BY <1>1, <2>1 DEF LastUpdate
    <2>3. SettledFor(r, Head(q).payload) = q[1].payload
      BY <1>1, <1>2, NoneDecides
    <2>4. SettledFor(q, c) = q[1].payload
      BY <2>2, LastDecides
    <2> QED
      BY <2>3, <2>4
  <1>3. ASSUME NEW k, LastUpdate(r, k) PROVE SettledFor(r, Head(q).payload) = SettledFor(q, c)
    <2>1. k \in 1..(Len(q) - 1) /\ r[k] = q[k + 1] /\ k + 1 \in 1..Len(q)
      BY <1>1, <1>3 DEF LastUpdate
    <2>2. ASSUME NEW j \in 1..Len(q), j > k + 1 PROVE q[j].type # "UPDATE_CONFIG"
      <3>1. j - 1 \in 1..(Len(q) - 1) /\ (j - 1) + 1 = j /\ j - 1 > k
        BY <1>1, <2>1, <2>2
      <3>2. r[j - 1] = q[j] /\ j - 1 \in 1..Len(r)
        BY <1>1, <3>1
      <3> QED
        BY <1>3, <3>1, <3>2 DEF LastUpdate
    <2>3. LastUpdate(q, k + 1)
      BY <1>3, <2>1, <2>2 DEF LastUpdate
    <2>4. SettledFor(r, Head(q).payload) = r[k].payload
      BY <1>1, <1>3, LastDecides
    <2>5. SettledFor(q, c) = q[k + 1].payload
      BY <2>3, LastDecides
    <2> QED
      BY <2>1, <2>4, <2>5
  <1>4. SettledFor(r, Head(q).payload) = SettledFor(q, c)
    BY <1>1, <1>2, <1>3, LastOrNone, Zenon
  <1> QED
    BY <1>4 DEF r

LEMMA OtherLeaves ==
    ASSUME NEW q \in Seq(HostMessages), q # <<>>, Len(q) <= MaxQueue, NEW c,
           Head(q).type # "UPDATE_CONFIG"
    PROVE  SettledFor(Tail(q), c) = SettledFor(q, c)
  <1> DEFINE r == Tail(q)
  <1>1. /\ Head(q) = q[1] /\ Len(q) \in Nat /\ Len(q) >= 1
        /\ r \in Seq(HostMessages) /\ Len(r) = Len(q) - 1
        /\ \A i \in 1..(Len(q) - 1) : r[i] = q[i + 1]
    BY Shrinks
  <1> HIDE DEF r
  <1>2. ASSUME NoUpdate(q) PROVE SettledFor(r, c) = SettledFor(q, c)
    <2>1. ASSUME NEW j \in 1..Len(r) PROVE r[j].type # "UPDATE_CONFIG"
      <3>1. r[j] = q[j + 1] /\ j + 1 \in 1..Len(q)
        BY <1>1
      <3> QED
        BY <1>2, <3>1 DEF NoUpdate
    <2>2. NoUpdate(r)
      BY <2>1 DEF NoUpdate
    <2>3. SettledFor(r, c) = c
      BY <1>1, <2>2, NoneDecides
    <2>4. SettledFor(q, c) = c
      BY <1>2, NoneDecides
    <2> QED
      BY <2>3, <2>4
  <1>3. ASSUME NEW k, LastUpdate(q, k) PROVE SettledFor(r, c) = SettledFor(q, c)
    <2>1. k \in 1..Len(q) /\ k # 1
      BY <1>1, <1>3 DEF LastUpdate
    <2>2. k - 1 \in 1..(Len(q) - 1) /\ (k - 1) + 1 = k
      BY <1>1, <2>1
    <2>3. r[k - 1] = q[k] /\ k - 1 \in 1..Len(r)
      BY <1>1, <2>2
    <2>4. ASSUME NEW j \in 1..Len(r), j > k - 1 PROVE r[j].type # "UPDATE_CONFIG"
      <3>1. r[j] = q[j + 1] /\ j + 1 \in 1..Len(q) /\ j + 1 > k
        BY <1>1, <2>1, <2>4
      <3> QED
        BY <1>3, <3>1 DEF LastUpdate
    <2>5. LastUpdate(r, k - 1)
      BY <1>3, <2>3, <2>4 DEF LastUpdate
    <2>6. SettledFor(r, c) = r[k - 1].payload
      BY <1>1, <2>5, LastDecides
    <2>7. SettledFor(q, c) = q[k].payload
      BY <1>3, LastDecides
    <2> QED
      BY <2>3, <2>6, <2>7
  <1>4. SettledFor(r, c) = SettledFor(q, c)
    BY <1>2, <1>3, LastOrNone, Zenon
  <1> QED
    BY <1>4 DEF r

-----------------------------------------------------------------------------
(* Page and configuration together.                                          *)

NotReady(q) == \A i \in 1..Len(q) : q[i] # UiReady

\* Every configuration on its way to the page is like d.
AllShow(q, d) == \A i \in 1..Len(q) : q[i].type = "SET_CONFIG" => Same(q[i].payload, d)

Agrees(p, queue, c, answers) ==
    /\ p # NoPage
    /\ Same(p.config, SettledFor(queue, c))
    /\ NotReady(queue)
    /\ AllShow(answers, p.config)

LEMMA InSyncIs ==
    ASSUME PageInv
    PROVE  /\ InSync <=> Agrees(page, toHost, config, toPage)
           /\ Answered <=> \A i \in 1..Len(toPage) : toPage[i].type # "SET_CONFIG"
           /\ OfType(toHost, "UPDATE_CONFIG") = {} <=> NoUpdate(toHost)
  <1>1. toHost \in Seq(HostMessages) /\ toPage \in Seq(PageMessages)
    BY DEF PageInv, MailOK
  <1>2. DOMAIN toHost = 1..Len(toHost) /\ DOMAIN toPage = 1..Len(toPage)
    BY <1>1
  <1>3. Settled = SettledFor(toHost, config)
    BY DEF Settled, SettledFor
  <1>4. UiReady \notin ToSet(toHost) <=> NotReady(toHost)
    BY <1>2 DEF ToSet, NotReady
  <1>5. AllShow(toPage, page.config)
        <=> \A i \in DOMAIN toPage : toPage[i].type = "SET_CONFIG" => Same(toPage[i].payload, page.config)
    BY <1>2 DEF AllShow
  <1>6. Answered <=> \A i \in 1..Len(toPage) : toPage[i].type # "SET_CONFIG"
    BY <1>2 DEF Answered, OfType
  <1>7. OfType(toHost, "UPDATE_CONFIG") = {} <=> NoUpdate(toHost)
    BY <1>1, NoneDecides
  <1>8. InSync <=> Agrees(page, toHost, config, toPage)
    BY <1>3, <1>4, <1>5, Zenon DEF InSync, Agrees
  <1> QED
    BY <1>6, <1>7, <1>8

\* The same after a step.
LEMMA InSyncWillBe ==
    ASSUME PageInv', Agrees(page', toHost', config', toPage')
    PROVE  InSync'
  <1>1. toHost' \in Seq(HostMessages) /\ toPage' \in Seq(PageMessages)
    BY DEF PageInv, MailOK
  <1>2. DOMAIN toHost' = 1..Len(toHost') /\ DOMAIN toPage' = 1..Len(toPage')
    BY <1>1
  <1>3. Settled' = SettledFor(toHost', config')
    BY DEF Settled, SettledFor
  <1>4. UiReady \notin ToSet(toHost')
    BY <1>2 DEF Agrees, ToSet, NotReady
  <1>5. \A i \in DOMAIN toPage' : toPage'[i].type = "SET_CONFIG" => Same(toPage'[i].payload, page'.config)
    BY <1>2 DEF Agrees, AllShow
  <1>6. page' # NoPage /\ Same(page'.config, SettledFor(toHost', config'))
    BY DEF Agrees
  <1>7. Same(page.config, Settled)' <=> Same(page'.config, Settled')
    BY DEF Same
  <1> QED
    BY <1>3, <1>4, <1>5, <1>6, <1>7 DEF InSync, ToSet, UiReady, Same

LEMMA SameIs ==
    /\ \A c : Same(c, c)
    /\ \A c, d : Same(c, d) => Same(d, c)
    /\ \A c, d, e : Same(c, d) /\ Same(d, e) => Same(c, e)
  BY DEF Same

LEMMA OtherNotReady == \A m : m.type # "UI_READY" => m # UiReady
  BY DEF UiReady

\* Queues that grow and shrink.
LEMMA NotReadyJoins ==
    ASSUME NEW q \in Seq(HostMessages), NEW m \in HostMessages, Len(q) < MaxQueue,
           NotReady(q), m.type # "UI_READY"
    PROVE  NotReady(Append(q, m))
  <1>1. /\ Len(Append(q, m)) = Len(q) + 1 /\ Append(q, m)[Len(q) + 1] = m
        /\ \A i \in 1..Len(q) : Append(q, m)[i] = q[i]
    BY Grows
  <1>2. m # UiReady
    BY OtherNotReady
  <1>3. \A i \in 1..(Len(q) + 1) : i \in 1..Len(q) \/ i = Len(q) + 1
    OBVIOUS
  <1> QED
    BY <1>1, <1>2, <1>3 DEF NotReady

LEMMA NotReadyLeaves ==
    ASSUME NEW q \in Seq(HostMessages), q # <<>>, Len(q) <= MaxQueue, NotReady(q)
    PROVE  NotReady(Tail(q)) /\ Head(q) # UiReady
  <1> DEFINE r == Tail(q)
  <1>1. /\ Head(q) = q[1] /\ Len(q) \in Nat /\ Len(q) >= 1 /\ Len(r) = Len(q) - 1
        /\ \A i \in 1..(Len(q) - 1) : r[i] = q[i + 1]
    BY Shrinks
  <1> HIDE DEF r
  <1>2. ASSUME NEW i \in 1..Len(r) PROVE r[i] # UiReady
    <2>1. r[i] = q[i + 1] /\ i + 1 \in 1..Len(q)
      BY <1>1
    <2> QED
      BY <2>1 DEF NotReady
  <1>3. Head(q) # UiReady
    BY <1>1 DEF NotReady
  <1> QED
    BY <1>2, <1>3 DEF NotReady, r

LEMMA ShowsMore ==
    ASSUME NEW q \in Seq(PageMessages), NEW m \in PageMessages, Len(q) < MaxQueue, NEW d,
           AllShow(q, d), m.type = "SET_CONFIG" => Same(m.payload, d)
    PROVE  AllShow(Append(q, m), d)
  <1>1. /\ Len(Append(q, m)) = Len(q) + 1 /\ Append(q, m)[Len(q) + 1] = m
        /\ \A i \in 1..Len(q) : Append(q, m)[i] = q[i]
    BY Grows
  <1>2. \A i \in 1..(Len(q) + 1) : i \in 1..Len(q) \/ i = Len(q) + 1
    OBVIOUS
  <1> QED
    BY <1>1, <1>2 DEF AllShow

LEMMA ShowsLess ==
    ASSUME NEW q \in Seq(PageMessages), q # <<>>, Len(q) <= MaxQueue, NEW d, AllShow(q, d)
    PROVE  AllShow(Tail(q), d) /\ (Head(q).type = "SET_CONFIG" => Same(Head(q).payload, d))
  <1> DEFINE r == Tail(q)
  <1>1. /\ Head(q) = q[1] /\ Len(q) \in Nat /\ Len(q) >= 1 /\ Len(r) = Len(q) - 1
        /\ \A i \in 1..(Len(q) - 1) : r[i] = q[i + 1]
    BY Shrinks
  <1> HIDE DEF r
  <1>2. ASSUME NEW i \in 1..Len(r), r[i].type = "SET_CONFIG" PROVE Same(r[i].payload, d)
    <2>1. r[i] = q[i + 1] /\ i + 1 \in 1..Len(q)
      BY <1>1
    <2> QED
      BY <1>2, <2>1 DEF AllShow
  <1>3. Head(q).type = "SET_CONFIG" => Same(Head(q).payload, d)
    BY <1>1 DEF AllShow
  <1> QED
    BY <1>2, <1>3 DEF AllShow, r

\* A step that leaves queues, configuration and the page's copy of it alone.
LEMMA SyncUntouched ==
    ASSUME PageInv, PageInv', InSync, UNCHANGED <<config, page, toHost, toPage>>
    PROVE  InSync'
  <1>1. Agrees(page, toHost, config, toPage)
    BY InSyncIs
  <1>2. Agrees(page', toHost', config', toPage')
    BY <1>1
  <1> QED
    BY <1>2, InSyncWillBe

LEMMA SyncShown ==
    ASSUME PageInv, PageInv', InSync, ShowSettings, OfType(toHost, "UPDATE_CONFIG") = {}
    PROVE  InSync'
  <1>1. Agrees(page, toHost, config, toPage) /\ NoUpdate(toHost)
    BY InSyncIs
  <1>2. /\ toHost \in Seq(HostMessages) /\ toPage \in Seq(PageMessages) /\ config \in Config
    BY DEF PageInv, SettingsOK, MailOK
  <1>3. /\ page # NoPage /\ page' = page /\ config' = config /\ toHost' = toHost
        /\ Len(toPage) < MaxQueue /\ toPage' = Append(toPage, SetConfig(config))
    BY <1>1 DEF ShowSettings, Agrees
  <1>4. SettledFor(toHost, config) = config
    BY <1>1, <1>2, NoneDecides
  <1>5. Same(config, page.config) /\ AllShow(toPage, page.config)
    BY <1>1, <1>4, SameIs DEF Agrees
  <1>6. SetConfig(config) \in PageMessages /\ SetConfig(config).payload = config
    BY <1>2, Sent
  <1>7. AllShow(Append(toPage, SetConfig(config)), page.config)
    BY <1>2, <1>3, <1>5, <1>6, ShowsMore
  <1>8. Agrees(page', toHost', config', toPage')
    BY <1>1, <1>3, <1>7, Zenon DEF Agrees
  <1> QED
    BY <1>8, InSyncWillBe

\* An edit once every answer has arrived.
LEMMA SyncEdited ==
    ASSUME PageInv, PageInv', InSync, NEW field, NEW v, Edit(field, v),
           \/ field \in {"input", "perApp"} /\ v \in BOOLEAN
           \/ field = "other" /\ v \in Others,
           Answered
    PROVE  InSync'
  <1>1. Agrees(page, toHost, config, toPage)
    BY InSyncIs
  <1>2. /\ page' \in Page /\ page' # NoPage /\ page'.config \in Config
        /\ Len(toHost) < MaxQueue /\ toHost' = Append(toHost, Update(page'.config))
        /\ config' = config /\ toPage' = toPage
    <2>1. page' \in Page /\ page'.config \in Config /\ Posts(Update(page'.config))
      BY EditIs
    <2>2. config' = config /\ toPage' = toPage
      BY DEF Edit
    <2>3. page' # NoPage
      BY <2>1, PageIs
    <2> QED
      BY <2>1, <2>2, <2>3 DEF Posts
  <1>3. toHost \in Seq(HostMessages)
    BY DEF PageInv, MailOK
  <1>4. /\ Update(page'.config) \in HostMessages /\ Update(page'.config).type = "UPDATE_CONFIG"
        /\ Update(page'.config).payload = page'.config
    BY <1>2, Sent
  <1>5. SettledFor(toHost', config') = page'.config
    BY <1>2, <1>3, <1>4, UpdateJoins
  <1>6. NotReady(toHost')
    BY <1>1, <1>2, <1>3, <1>4, NotReadyJoins DEF Agrees
  <1>7. AllShow(toPage', page'.config)
    BY <1>2, InSyncIs DEF AllShow
  <1>8. Same(page'.config, SettledFor(toHost', config'))
    BY <1>5, SameIs
  <1>9. Agrees(page', toHost', config', toPage')
    BY <1>2, <1>6, <1>7, <1>8 DEF Agrees
  <1> QED
    BY <1>9, InSyncWillBe

\* What the page sends that is no update.
LEMMA SyncPosted ==
    ASSUME PageInv, PageInv', InSync, NEW m \in HostMessages, Posts(m),
           m.type # "UPDATE_CONFIG", m.type # "UI_READY",
           page' # NoPage, page'.config = page.config, UNCHANGED <<config, toPage>>
    PROVE  InSync'
  <1>1. Agrees(page, toHost, config, toPage)
    BY InSyncIs
  <1>2. toHost \in Seq(HostMessages)
    BY DEF PageInv, MailOK
  <1>3. Len(toHost) < MaxQueue /\ toHost' = Append(toHost, m) /\ config' = config /\ toPage' = toPage
    BY DEF Posts
  <1>4. SettledFor(toHost', config') = SettledFor(toHost, config)
    BY <1>2, <1>3, OtherJoins
  <1>5. NotReady(toHost')
    BY <1>1, <1>2, <1>3, NotReadyJoins DEF Agrees
  <1>6. Agrees(page', toHost', config', toPage')
    BY <1>1, <1>3, <1>4, <1>5 DEF Agrees
  <1> QED
    BY <1>6, InSyncWillBe

LEMMA SyncListEdited ==
    ASSUME PageInv, PageInv', InSync, EditList
    PROVE  InSync'
  <1>1. page'.config = page.config /\ page' # NoPage
    BY EditListTyped
  <1>2. PICK l \in Lists : Posts(UpdateList(l))
    BY DEF EditList
  <1>3. UpdateList(l) \in HostMessages /\ UpdateList(l).type = "UPDATE_BLACKLIST"
    BY Sent
  <1>4. UNCHANGED <<config, toPage>>
    BY DEF EditList
  <1> QED
    BY <1>1, <1>2, <1>3, <1>4, SyncPosted

LEMMA SyncAutostartEdited ==
    ASSUME PageInv, PageInv', InSync, EditAutostart
    PROVE  InSync'
  <1>1. page'.config = page.config /\ page' # NoPage /\ page'.auto \in BOOLEAN
    BY EditAutostartTyped
  <1>2. Posts(SetAutostart(page'.auto)) /\ UNCHANGED <<config, toPage>>
    BY DEF EditAutostart
  <1>3. SetAutostart(page'.auto) \in HostMessages /\ SetAutostart(page'.auto).type = "SET_AUTOSTART"
    BY <1>1, Sent
  <1> QED
    BY <1>1, <1>2, <1>3, SyncPosted

\* The page takes over what it is told, which is what it shows.
LEMMA SyncReceived ==
    ASSUME PageInv, PageInv', InSync, PageReceives
    PROVE  InSync'
  <1> DEFINE m == Head(toPage)
  <1>1. Agrees(page, toHost, config, toPage)
    BY InSyncIs
  <1>2. /\ toPage # <<>> /\ toPage \in Seq(PageMessages) /\ Len(toPage) <= MaxQueue
        /\ toPage' = Tail(toPage) /\ toHost' = toHost /\ config' = config
    BY DEF PageReceives, PageInv, MailOK
  <1>3. page'.config = IF m.type = "SET_CONFIG" THEN m.payload ELSE page.config
    BY ReceiveTyped
  <1>4. AllShow(Tail(toPage), page.config) /\ (m.type = "SET_CONFIG" => Same(m.payload, page.config))
    BY <1>1, <1>2, ShowsLess DEF Agrees
  <1> HIDE DEF m
  <1>5. Same(page'.config, page.config)
    BY <1>3, <1>4, SameIs
  <1>6. Same(page'.config, SettledFor(toHost', config'))
    BY <1>1, <1>2, <1>5, SameIs DEF Agrees
  <1>7. AllShow(toPage', page'.config)
    <2>1. Same(page.config, page'.config)
      BY <1>5, SameIs
    <2> QED
      BY <1>2, <1>4, <2>1, SameIs DEF AllShow
  <1>8. page' # NoPage
    BY ReceiveTyped
  <1>9. Agrees(page', toHost', config', toPage')
    BY <1>1, <1>2, <1>6, <1>7, <1>8 DEF Agrees
  <1> QED
    BY <1>9, InSyncWillBe

\* What the host hears and does not take the configuration from.
LEMMA SyncHeard ==
    ASSUME PageInv, PageInv', InSync, NEW type, Hears(type), type # "UPDATE_CONFIG",
           config' = config, AllShow(toPage', page.config)
    PROVE  InSync'
  <1>1. Agrees(page, toHost, config, toPage)
    BY InSyncIs
  <1>2. /\ page' = page /\ toHost # <<>> /\ toHost' = Tail(toHost) /\ Head(toHost).type = type
        /\ toHost \in Seq(HostMessages) /\ Len(toHost) <= MaxQueue
    BY HeardFrom DEF PageInv, MailOK
  <1>3. NotReady(toHost')
    BY <1>1, <1>2, NotReadyLeaves DEF Agrees
  <1>4. SettledFor(toHost', config') = SettledFor(toHost, config)
    BY <1>2, OtherLeaves
  <1>5. Agrees(page', toHost', config', toPage')
    BY <1>1, <1>2, <1>3, <1>4 DEF Agrees
  <1> QED
    BY <1>5, InSyncWillBe

LEMMA SyncStored ==
    ASSUME PageInv, PageInv', InSync, StoreUpdate
    PROVE  InSync'
  <1>1. Agrees(page, toHost, config, toPage)
    BY InSyncIs
  <1>2. Hears("UPDATE_CONFIG") /\ toPage' = toPage
    BY DEF StoreUpdate
  <1>3. /\ page' = page /\ toHost # <<>> /\ toHost' = Tail(toHost) /\ Head(toHost).type = "UPDATE_CONFIG"
        /\ toHost \in Seq(HostMessages) /\ Len(toHost) <= MaxQueue
    BY <1>2, HeardFrom DEF PageInv, MailOK
  <1>4. config' = Head(toHost).payload
    BY StoreUpdateTyped
  <1>5. NotReady(toHost')
    BY <1>1, <1>3, NotReadyLeaves DEF Agrees
  <1>6. SettledFor(toHost', config') = SettledFor(toHost, config)
    BY <1>3, <1>4, UpdateLeaves
  <1>7. Agrees(page', toHost', config', toPage')
    BY <1>1, <1>2, <1>3, <1>5, <1>6 DEF Agrees
  <1> QED
    BY <1>7, InSyncWillBe

LEMMA SyncListAnswered ==
    ASSUME PageInv, PageInv', InSync, AnswerList
    PROVE  InSync'
  <1>1. Agrees(page, toHost, config, toPage)
    BY InSyncIs
  <1>2. /\ Hears("REQ_BLACKLIST") /\ config' = config /\ Len(toPage) < MaxQueue
        /\ toPage' = Append(toPage, ListData(LoadBlacklist))
    BY DEF AnswerList
  <1>3. LoadBlacklist \in Lists /\ toPage \in Seq(PageMessages)
    BY DEF PageInv, ListInv, FileOK, LoadBlacklist, MailOK
  <1>4. ListData(LoadBlacklist) \in PageMessages /\ ListData(LoadBlacklist).type = "BLACKLIST_DATA"
    BY <1>3, Sent
  <1>5. AllShow(toPage', page.config)
    BY <1>1, <1>2, <1>3, <1>4, ShowsMore DEF Agrees
  <1> QED
    BY <1>2, <1>5, SyncHeard

\* UI_READY is no longer under way.
LEMMA SyncNoReady ==
    ASSUME PageInv, InSync, AnswerReady
    PROVE  FALSE
  <1>1. Agrees(page, toHost, config, toPage)
    BY InSyncIs
  <1>2. Hears("UI_READY")
    BY DEF AnswerReady
  <1>3. /\ toHost # <<>> /\ Head(toHost) \in HostMessages /\ Head(toHost).type = "UI_READY"
        /\ toHost \in Seq(HostMessages) /\ Len(toHost) <= MaxQueue
    BY <1>2, HeardFrom DEF PageInv, MailOK
  <1>4. Head(toHost) = UiReady
    BY <1>3, HostMessageIs
  <1> QED
    BY <1>1, <1>3, <1>4, NotReadyLeaves DEF Agrees

\* The steps that are known to part page and configuration.
Parts ==
    \/ LoadPage \/ DropUpdate \/ ChangeOutside
    \/ ~Answered /\ \E f \in DOMAIN page.config : page'.config[f] # page.config[f]
    \/ ShowSettings /\ OfType(toHost, "UPDATE_CONFIG") # {}

LEMMA SyncStep ==
    ASSUME PageInv, PageInv', [Next]_vars, InSync, ~Parts
    PROVE  InSync'
  <1>1. ASSUME NEW field, NEW v, Edit(field, v),
               \/ field \in {"input", "perApp"} /\ v \in BOOLEAN
               \/ field = "other" /\ v \in Others
        PROVE  InSync'
    <2>1. field \in DOMAIN page.config /\ page'.config[field] # page.config[field]
      BY <1>1, EditIs
    <2>2. Answered
      BY <2>1 DEF Parts
    <2> QED
      BY <1>1, <2>2, SyncEdited
  <1>2. CASE \E v \in BOOLEAN : Edit("input", v) \/ Edit("perApp", v)
    BY <1>1, <1>2
  <1>3. CASE \E v \in Others : Edit("other", v)
    BY <1>1, <1>3
  <1>4. CASE LoadPage \/ DropUpdate \/ ChangeOutside
    BY <1>4 DEF Parts
  <1>5. CASE ShowSettings
    BY <1>5, SyncShown DEF Parts
  <1>6. CASE LeaveWindow \/ ChangeRunKey \/ ListStep
    BY <1>6, SyncUntouched DEF LeaveWindow, ChangeRunKey, ListStep
  <1>7. CASE EditList \/ EditAutostart
    BY <1>7, SyncListEdited, SyncAutostartEdited
  <1>8. CASE PageReceives
    BY <1>8, SyncReceived
  <1>9. CASE StoreUpdate
    BY <1>9, SyncStored
  <1>a. CASE StoreList \/ StoreAutostart
    <2>1. config' = config /\ toPage' = toPage /\ (Hears("UPDATE_BLACKLIST") \/ Hears("SET_AUTOSTART"))
      BY <1>a DEF StoreList, StoreAutostart
    <2>2. AllShow(toPage', page.config)
      BY <2>1, InSyncIs DEF Agrees
    <2> QED
      BY <2>1, <2>2, SyncHeard
  <1>b. CASE AnswerReady
    BY <1>b, SyncNoReady
  <1>c. CASE AnswerList
    BY <1>c, SyncListAnswered
  <1>d. CASE UNCHANGED vars
    BY <1>d, SyncUntouched DEF vars, pageVars
  <1> QED
    BY <1>2, <1>3, <1>4, <1>5, <1>6, <1>7, <1>8, <1>9, <1>a, <1>b, <1>c, <1>d, Zenon DEF Next

(* The page and the configuration, once they agree, stay together through    *)
(* edits, answers and re-shows, however many messages are under way in       *)
(* either direction: only the steps that SyncKept names part them.           *)
THEOREM PageInSync == Spec => SyncKept
  <1>1. ASSUME PageInv, PageInv', [Next]_vars
        PROVE  [InSync /\ ~InSync'
                => \/ LoadPage \/ DropUpdate \/ ChangeOutside
                   \/ ~Answered /\ \E f \in DOMAIN page.config : page'.config[f] # page.config[f]
                   \/ ShowSettings /\ OfType(toHost, "UPDATE_CONFIG") # {}]_vars
    BY <1>1, SyncStep DEF Parts
  <1> QED
    BY <1>1, PageInvAlways, PTL DEF Spec, SyncKept
=============================================================================
