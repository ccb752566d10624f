------------------------ MODULE HookTypingProofs ------------------------
(***************************************************************************)
(* What holds of typing through the hook for any keys, windows, settings   *)
(* and macros: no application hears a release without its press, the three *)
(* records of the word in progress agree, the word stands where the next   *)
(* replacement will look for it, and no replacement eats text before it.   *)
(***************************************************************************)
EXTENDS HookTyping, VnEngineProofs

-----------------------------------------------------------------------------
(* What the hook keeps.                                                      *)

\* The hook with engine e.  Nothing is ever kept for reconversion: the engine
\* clears itself before the committed word is read.
Held(e, n, t, d) ==
    [engine |-> e, last |-> e.comp, count |-> n, word |-> <<>>, tick |-> t, delim |-> d]

Ticks == {"none", "recent", "old"}
Delims == ReplayEligible \cup {"none"}

WordEngine(e) == EngineOK(e) /\ e.raw \in Seq(TypedKeys)

HookOK(h) ==
    \E e, n, t, d :
        /\ h = Held(e, n, t, d)
        /\ WordEngine(e)
        /\ n \in Nat /\ (n > 0 <=> IsInWord(e))
        /\ t \in Ticks /\ d \in Delims

LEMMA HeldFields ==
    ASSUME NEW e, NEW n, NEW t, NEW d
    PROVE  LET h == Held(e, n, t, d) IN
           /\ h.engine = e /\ h.last = e.comp /\ h.count = n
           /\ h.word = <<>> /\ h.tick = t /\ h.delim = d
  BY DEF Held

LEMMA HookIs ==
    ASSUME NEW h, HookOK(h)
    PROVE  /\ WordEngine(h.engine) /\ h.last = h.engine.comp
           /\ h.count \in Nat /\ (h.count > 0 <=> IsInWord(h.engine))
           /\ h.word = <<>> /\ h.tick \in Ticks /\ h.delim \in Delims
  <1>1. PICK e, n, t, d :
           /\ h = Held(e, n, t, d)
           /\ WordEngine(e)
           /\ n \in Nat /\ (n > 0 <=> IsInWord(e))
           /\ t \in Ticks /\ d \in Delims
    BY DEF HookOK
  <1>2. /\ h.engine = e /\ h.last = e.comp /\ h.count = n
        /\ h.word = <<>> /\ h.tick = t /\ h.delim = d
    BY <1>1, HeldFields
  <1> QED
    BY <1>1, <1>2

LEMMA ClearedEngine ==
    WordEngine(Cleared) /\ ~IsInWord(Cleared) /\ Cleared.comp = <<>>
  <1>1. EngineOK(Cleared) /\ Cleared.raw = <<>>
    BY ClearedOK
  <1>2. <<>> \in Seq(TypedKeys)
    OBVIOUS
  <1>3. Cleared.comp = <<>>
    BY DEF Cleared
  <1> QED
    BY <1>1, <1>2, <1>3 DEF WordEngine, IsInWord

LEMMA ClearedHookIs == ClearedHook = Held(Cleared, 0, "none", "none")
  BY ClearedEngine DEF ClearedHook, Held

LEMMA HeldCleared ==
    ASSUME NEW t \in Ticks, NEW d \in Delims
    PROVE  HookOK(Held(Cleared, 0, t, d))
  <1>1. 0 \in Nat /\ ~(0 > 0)
    OBVIOUS
  <1> QED
    BY <1>1, ClearedEngine, Zenon DEF HookOK

LEMMA ClearedHookOK ==
    HookOK(ClearedHook) /\ ~IsInWord(ClearedHook.engine) /\ ClearedHook.last = <<>>
  <1>1. "none" \in Ticks /\ "none" \in Delims
    BY DEF Ticks, Delims
  <1> QED
    BY <1>1, ClearedHookIs, HeldCleared, HeldFields, ClearedEngine

LEMMA ComposingIs ==
    ASSUME NEW e, NEW n
    PROVE  Composing(e, n) = Held(e, n, "none", "none")
  <1>1. ClearedHook = [engine |-> Cleared, last |-> <<>>, count |-> 0,
                       word |-> <<>>, tick |-> "none", delim |-> "none"]
    BY DEF ClearedHook
  <1> DEFINE a == [ClearedHook EXCEPT !.engine = e]
  <1> DEFINE b == [a EXCEPT !.last = e.comp]
  <1>2. Composing(e, n) = [b EXCEPT !.count = n]
    BY DEF Composing
  <1>3. a = [engine |-> e, last |-> <<>>, count |-> 0,
             word |-> <<>>, tick |-> "none", delim |-> "none"]
    BY <1>1
  <1> HIDE DEF a
  <1>4. b = [engine |-> e, last |-> e.comp, count |-> 0,
             word |-> <<>>, tick |-> "none", delim |-> "none"]
    BY <1>3
  <1> HIDE DEF b
  <1>5. [b EXCEPT !.count = n] = [engine |-> e, last |-> e.comp, count |-> n,
                                  word |-> <<>>, tick |-> "none", delim |-> "none"]
    BY <1>4
  <1> QED
    BY <1>2, <1>5 DEF Held

LEMMA ComposingOK ==
    ASSUME NEW e, WordEngine(e), NEW n \in Nat, n > 0 <=> IsInWord(e)
    PROVE  /\ HookOK(Composing(e, n))
           /\ Composing(e, n).engine = e /\ Composing(e, n).last = e.comp
  <1>1. "none" \in Ticks /\ "none" \in Delims
    BY DEF Ticks, Delims
  <1>2. HookOK(Held(e, n, "none", "none"))
    BY <1>1, Zenon DEF HookOK
  <1> QED
    BY <1>2, ComposingIs, HeldFields

LEMMA SidewaysIs ==
    ASSUME NEW h, HookOK(h)
    PROVE  LET r == [h EXCEPT !.engine = Cleared, !.last = <<>>, !.count = 0] IN
           HookOK(r) /\ ~IsInWord(r.engine)
  <1>1. PICK e, n, t, d : h = Held(e, n, t, d) /\ t \in Ticks /\ d \in Delims
    BY DEF HookOK
  <1> DEFINE a == [h EXCEPT !.engine = Cleared]
  <1> DEFINE b == [a EXCEPT !.last = <<>>]
  <1> DEFINE c == [b EXCEPT !.count = 0]
  <1>2. [h EXCEPT !.engine = Cleared, !.last = <<>>, !.count = 0] = c
    OBVIOUS
  <1>3. a = [engine |-> Cleared, last |-> e.comp, count |-> n,
             word |-> <<>>, tick |-> t, delim |-> d]
    BY <1>1 DEF Held
  <1> HIDE DEF a
  <1>4. b = [engine |-> Cleared, last |-> <<>>, count |-> n,
             word |-> <<>>, tick |-> t, delim |-> d]
    BY <1>3
  <1> HIDE DEF b
  <1>5. c = [engine |-> Cleared, last |-> <<>>, count |-> 0,
             word |-> <<>>, tick |-> t, delim |-> d]
    BY <1>4
  <1> HIDE DEF c
  <1>6. c = Held(Cleared, 0, t, d)
    BY <1>5, ClearedEngine DEF Held
  <1>7. HookOK(c) /\ ~IsInWord(c.engine)
    BY <1>1, <1>6, HeldCleared, HeldFields, ClearedEngine
  <1> QED
    BY <1>2, <1>7, Zenon

LEMMA NavigatedOK ==
    ASSUME HookOK(Focused), NEW k
    PROVE  HookOK(Navigated(k)) /\ ~IsInWord(Navigated(k).engine)
  <1>1. CASE k \in Sideways
    BY <1>1, SidewaysIs, Zenon DEF Navigated
  <1>2. CASE k \notin Sideways
    BY <1>2, ClearedHookOK, Zenon DEF Navigated
  <1> QED
    BY <1>1, <1>2

\* The word that ends is not kept: the engine is cleared when it is read.
LEMMA CommittedOK ==
    ASSUME NEW h, NEW ch
    PROVE  HookOK(Committed(h, Cleared, ch)) /\ ~IsInWord(Committed(h, Cleared, ch).engine)
  <1>1. CASE ~(h.last # <<>> /\ ch \in ReplayEligible)
    BY <1>1, ClearedHookOK, Zenon DEF Committed
  <1>2. CASE h.last # <<>> /\ ch \in ReplayEligible
    <2> DEFINE a == [ClearedHook EXCEPT !.word = <<>>]
    <2> DEFINE b == [a EXCEPT !.tick = "recent"]
    <2> DEFINE c == [b EXCEPT !.delim = ch]
    <2>1. Committed(h, Cleared, ch) = [ClearedHook EXCEPT !.word = <<>>, !.tick = "recent", !.delim = ch]
      BY <1>2, ClearedOK DEF Committed
    <2>2. [ClearedHook EXCEPT !.word = <<>>, !.tick = "recent", !.delim = ch] = c
      OBVIOUS
    <2>3. a = [engine |-> Cleared, last |-> <<>>, count |-> 0,
               word |-> <<>>, tick |-> "none", delim |-> "none"]
      BY DEF ClearedHook
    <2> HIDE DEF a
    <2>4. b = [engine |-> Cleared, last |-> <<>>, count |-> 0,
               word |-> <<>>, tick |-> "recent", delim |-> "none"]
      BY <2>3
    <2> HIDE DEF b
    <2>5. c = [engine |-> Cleared, last |-> <<>>, count |-> 0,
               word |-> <<>>, tick |-> "recent", delim |-> ch]
      BY <2>4
    <2> HIDE DEF c
    <2>6. c = Held(Cleared, 0, "recent", ch)
      BY <2>5, ClearedEngine DEF Held
    <2>7. "recent" \in Ticks /\ ch \in Delims
      BY <1>2 DEF Ticks, Delims
    <2>8. HookOK(c) /\ ~IsInWord(c.engine)
      BY <2>6, <2>7, HeldCleared, HeldFields, ClearedEngine
    <2> QED
      BY <2>1, <2>2, <2>8, Zenon
  <1> QED
    BY <1>1, <1>2

LEMMA TickedOK ==
    ASSUME NEW h, HookOK(h)
    PROVE  LET r == [h EXCEPT !.tick = "old"] IN
           HookOK(r) /\ r.engine = h.engine /\ r.last = h.last
  <1>1. PICK e, n, t, d :
           /\ h = Held(e, n, t, d)
           /\ WordEngine(e)
           /\ n \in Nat /\ (n > 0 <=> IsInWord(e))
           /\ t \in Ticks /\ d \in Delims
    BY DEF HookOK
  <1> DEFINE r == [h EXCEPT !.tick = "old"]
  <1>2. r = Held(e, n, "old", d)
    BY <1>1 DEF Held
  <1>3. "old" \in Ticks
    BY DEF Ticks
  <1> HIDE DEF r
  <1>4. HookOK(r)
    BY <1>1, <1>2, <1>3, Zenon DEF HookOK
  <1>5. r.engine = h.engine /\ r.last = h.last
    BY <1>1, <1>2, HeldFields
  <1> QED
    BY <1>4, <1>5 DEF r

\* A change of the window clears the hook; nothing else does here.
LEMMA FocusedOK ==
    ASSUME HookOK(hook)
    PROVE  /\ HookOK(Focused)
           /\ IsInWord(Focused.engine) => Focused = hook /\ fg = lastForeground
           /\ fg # lastForeground => Focused.last = <<>>
           /\ fg = lastForeground => Focused = hook
  <1>1. CASE fg # lastForeground
    <2>1. Focused = ClearedHook
      BY <1>1 DEF Focused
    <2> QED
      BY <1>1, <2>1, ClearedHookOK
  <1>2. CASE fg = lastForeground
    BY <1>2 DEF Focused
  <1> QED
    BY <1>1, <1>2

\* With no word kept, nothing expires and nothing is fed again.
LEMMA ReadyIs ==
    ASSUME HookOK(hook), NEW ch
    PROVE  Ready(ch) = Focused
  <1>1. Focused.word = <<>>
    BY FocusedOK, HookIs
  <1>2. Unexpired(Focused) = Focused
    BY <1>1 DEF Unexpired
  <1>3. ~Reconverts(Focused, ch)
    BY <1>1 DEF Reconverts
  <1> QED
    BY <1>2, <1>3 DEF Ready

-----------------------------------------------------------------------------
(* What is on the screen.                                                    *)

LEMMA PartIs ==
    ASSUME NEW s, IsSeq(s), NEW m \in Nat, NEW n \in Nat, m <= n, n <= Len(s)
    PROVE  /\ IsSeq(SubSeq(s, m + 1, n)) /\ Len(SubSeq(s, m + 1, n)) = n - m
           /\ \A i \in 1..(n - m) : SubSeq(s, m + 1, n)[i] = s[m + i]
  <1>1. PICK S : s \in Seq(S)
    BY DEF IsSeq
  <1>2. SubSeq(s, m + 1, n) \in Seq(S)
    BY <1>1
  <1> QED
    BY <1>1, <1>2 DEF IsSeq

IsJoin(u, s, t) ==
    /\ IsSeq(u) /\ Len(u) = Len(s) + Len(t)
    /\ \A i \in 1..Len(s) : u[i] = s[i]
    /\ \A i \in 1..Len(t) : u[Len(s) + i] = t[i]

LEMMA JoinIs ==
    ASSUME NEW s, IsSeq(s), NEW t, IsSeq(t)
    PROVE  IsJoin(s \o t, s, t)
  <1>1. PICK S : s \in Seq(S)
    BY DEF IsSeq
  <1>2. PICK T : t \in Seq(T)
    BY DEF IsSeq
  <1> DEFINE U == S \cup T
  <1>3. s \in Seq(U) /\ t \in Seq(U)
    BY <1>1, <1>2
  <1> HIDE DEF U
  <1>4. s \o t \in Seq(U)
    BY <1>3
  <1> QED
    BY <1>3, <1>4 DEF IsSeq, IsJoin

LEMMA PrefixIs ==
    ASSUME NEW p, IsSeq(p), NEW s, IsSeq(s)
    PROVE  IsPrefix(p, s) <=> Len(p) <= Len(s) /\ \A i \in 1..Len(p) : p[i] = s[i]
  <1>1. Len(p) \in Nat /\ Len(s) \in Nat
    BY SeqIs
  <1>2. CASE ~(Len(p) <= Len(s))
    BY <1>2 DEF IsPrefix
  <1>3. CASE Len(p) <= Len(s)
    <2> DEFINE a == SubSeq(p, 1, Len(p))
    <2> DEFINE b == SubSeq(s, 1, Len(p))
    <2>1. /\ IsSeq(a) /\ Len(a) = Len(p) /\ \A i \in 1..Len(p) : a[i] = p[i]
          /\ IsSeq(b) /\ Len(b) = Len(p) /\ \A i \in 1..Len(p) : b[i] = s[i]
      BY <1>1, <1>3, SubSeqIs
    <2>2. IsPrefix(p, s) <=> a = b
      BY <1>3 DEF IsPrefix
    <2> HIDE DEF a, b
    <2>3. (\A i \in 1..Len(p) : p[i] = s[i]) => a = b
      BY <2>1, SameSeq
    <2>4. a = b => \A i \in 1..Len(p) : p[i] = s[i]
      BY <2>1
    <2> QED
      BY <1>3, <2>2, <2>3, <2>4
  <1> QED
    BY <1>2, <1>3

LEMMA ReverseIs ==
    ASSUME NEW s, IsSeq(s)
    PROVE  /\ IsSeq(Reverse(s)) /\ Len(Reverse(s)) = Len(s)
           /\ \A i \in 1..Len(s) : Reverse(s)[i] = s[(Len(s) - i) + 1]
  <1>1. Len(s) \in Nat
    BY SeqIs
  <1>2. Reverse(s) = [i \in 1..Len(s) |-> s[(Len(s) - i) + 1]]
    BY DEF Reverse
  <1>3. Reverse(s) = [i \in 1..Len(s) |-> Reverse(s)[i]]
    BY <1>2
  <1> QED
    BY <1>1, <1>2, <1>3, MadeSeq

LEMMA SuffixIs ==
    ASSUME NEW s, IsSeq(s), NEW t, IsSeq(t)
    PROVE  IsSuffix(s, t) <=>
             Len(s) <= Len(t) /\ \A i \in 1..Len(s) : s[i] = t[(Len(t) - Len(s)) + i]
  <1>1. Len(s) \in Nat /\ Len(t) \in Nat
    BY SeqIs
  <1>2. /\ IsSeq(Reverse(s)) /\ Len(Reverse(s)) = Len(s)
        /\ \A i \in 1..Len(s) : Reverse(s)[i] = s[(Len(s) - i) + 1]
        /\ IsSeq(Reverse(t)) /\ Len(Reverse(t)) = Len(t)
        /\ \A i \in 1..Len(t) : Reverse(t)[i] = t[(Len(t) - i) + 1]
    BY ReverseIs
  <1>3. IsSuffix(s, t) <=>
          Len(s) <= Len(t) /\ \A i \in 1..Len(s) : Reverse(s)[i] = Reverse(t)[i]
    BY <1>2, PrefixIs DEF IsSuffix
  <1>4. ASSUME Len(s) <= Len(t), \A i \in 1..Len(s) : Reverse(s)[i] = Reverse(t)[i],
               NEW i \in 1..Len(s)
        PROVE  s[i] = t[(Len(t) - Len(s)) + i]
    <2> DEFINE j == (Len(s) - i) + 1
    <2>1. j \in 1..Len(s) /\ j \in 1..Len(t) /\ (Len(s) - j) + 1 = i
          /\ (Len(t) - j) + 1 = (Len(t) - Len(s)) + i
      BY <1>1, <1>4
    <2> HIDE DEF j
    <2>2. Reverse(s)[j] = Reverse(t)[j]
      BY <1>4, <2>1
    <2>3. Reverse(s)[j] = s[i] /\ Reverse(t)[j] = t[(Len(t) - Len(s)) + i]
      BY <1>2, <2>1
    <2> QED
      BY <2>2, <2>3
  <1>5. ASSUME Len(s) <= Len(t), \A i \in 1..Len(s) : s[i] = t[(Len(t) - Len(s)) + i],
               NEW i \in 1..Len(s)
        PROVE  Reverse(s)[i] = Reverse(t)[i]
    <2> DEFINE j == (Len(s) - i) + 1
    <2>1. j \in 1..Len(s) /\ i \in 1..Len(t) /\ (Len(t) - Len(s)) + j = (Len(t) - i) + 1
      BY <1>1, <1>5
    <2>2. Reverse(s)[i] = s[j] /\ Reverse(t)[i] = t[(Len(t) - i) + 1]
      BY <1>2, <2>1
    <2> HIDE DEF j
    <2>3. s[j] = t[(Len(t) - Len(s)) + j]
      BY <1>5, <2>1
    <2> QED
      BY <2>1, <2>2, <2>3
  <1> QED
    BY <1>3, <1>4, <1>5

\* What ReplaceText keeps of the old word is a prefix of both.
LEMMA CommonIs ==
    ASSUME NEW old, IsSeq(old), NEW new, IsSeq(new)
    PROVE  LET p == LongestCommonPrefix({old, new}) IN
           /\ IsSeq(p) /\ Len(p) \in Nat /\ Len(p) <= Len(old) /\ Len(p) <= Len(new)
           /\ \A i \in 1..Len(p) : old[i] = new[i]
  <1> DEFINE C == CommonPrefixes({old, new})
  <1> DEFINE D == {Len(old) - Len(p) : p \in C}
  <1> DEFINE P == LongestCommonPrefix({old, new})
  <1>1. C = {p \in Prefixes(old) \cup Prefixes(new) : IsPrefix(p, old) /\ IsPrefix(p, new)}
    BY DEF CommonPrefixes
  <1>2. /\ Len(old) \in Nat /\ Len(new) \in Nat
        /\ Prefixes(old) = {SubSeq(old, 1, l) : l \in 0..Len(old)}
        /\ Prefixes(new) = {SubSeq(new, 1, l) : l \in 0..Len(new)}
    BY SeqIs DEF Prefixes
  <1>3. ASSUME NEW p \in C
        PROVE  /\ IsSeq(p) /\ Len(p) \in Nat /\ Len(p) <= Len(old) /\ Len(p) <= Len(new)
               /\ \A i \in 1..Len(p) : old[i] = new[i]
    <2>1. IsSeq(p)
      <3>1. CASE p \in Prefixes(old)
        <4>1. PICK l \in 0..Len(old) : p = SubSeq(old, 1, l)
          BY <1>2, <3>1
        <4>2. l \in Nat /\ l <= Len(old)
          BY <1>2
        <4> QED
          BY <4>1, <4>2, SubSeqIs
      <3>2. CASE p \in Prefixes(new)
        <4>1. PICK l \in 0..Len(new) : p = SubSeq(new, 1, l)
          BY <1>2, <3>2
        <4>2. l \in Nat /\ l <= Len(new)
          BY <1>2
        <4> QED
          BY <4>1, <4>2, SubSeqIs
      <3> QED
        BY <1>1, <1>3, <3>1, <3>2
    <2>2. IsPrefix(p, old) /\ IsPrefix(p, new)
      BY <1>1, <1>3
    <2>3. /\ Len(p) <= Len(old) /\ \A i \in 1..Len(p) : p[i] = old[i]
          /\ Len(p) <= Len(new) /\ \A i \in 1..Len(p) : p[i] = new[i]
      BY <2>1, <2>2, PrefixIs
    <2> QED
      BY <2>1, <2>3, SeqIs
  <1>4. C # {}
    <2> DEFINE p == SubSeq(old, 1, 0)
    <2>1. p \in Prefixes(old)
      BY <1>2
    <2>2. IsSeq(p) /\ Len(p) = 0
      <3>1. 0 \in Nat /\ 0 <= Len(old)
        BY <1>2
      <3> QED
        BY <3>1, SubSeqIs
    <2> HIDE DEF p
    <2>3. Len(p) <= Len(old) /\ Len(p) <= Len(new) /\ 1..Len(p) = {}
      BY <1>2, <2>2
    <2>4. IsPrefix(p, old) /\ IsPrefix(p, new)
      BY <2>2, <2>3, PrefixIs
    <2> HIDE DEF C
    <2> QED
      BY <1>1, <2>1, <2>4
  <1>5. \E p \in C : \A q \in C : Len(q) <= Len(p)
    <2> HIDE DEF C
    <2>1. D \subseteq Nat /\ D # {}
      <3>1. \A p \in C : Len(p) \in Nat /\ Len(p) <= Len(old)
        BY <1>3
      <3> QED
        BY <1>2, <1>4, <3>1
    <2>2. PICK n \in D : \A m \in D : n <= m
      BY <2>1, Least
    <2>3. PICK p \in C : n = Len(old) - Len(p)
      OBVIOUS
    <2>4. ASSUME NEW q \in C
          PROVE  Len(q) <= Len(p)
      <3>1. n <= Len(old) - Len(q)
        BY <2>2
      <3> QED
        BY <1>2, <1>3, <2>3, <3>1
    <2> QED
      BY <2>4
  <1>6. P \in C
    <2>1. P = CHOOSE p \in C : \A q \in C : Len(q) <= Len(p)
      BY DEF LongestCommonPrefix
    <2> HIDE DEF C, P
    <2> QED
      BY <1>5, <2>1
  <1> HIDE DEF C
  <1> QED
    BY <1>3, <1>6

LEMMA ReplacedSeq ==
    ASSUME NEW shown, IsSeq(shown), NEW old, IsSeq(old), NEW new, IsSeq(new)
    PROVE  IsSeq(Replaced(shown, old, new))
  <1> DEFINE c == Len(LongestCommonPrefix({old, new}))
  <1> DEFINE k == IF Len(old) - c < Len(shown) THEN Len(shown) - (Len(old) - c) ELSE 0
  <1> DEFINE a == SubSeq(shown, 1, k)
  <1> DEFINE b == SubSeq(new, c + 1, Len(new))
  <1>1. Replaced(shown, old, new) = a \o b
    BY DEF Replaced
  <1>2. c \in Nat /\ c <= Len(old) /\ c <= Len(new)
    BY CommonIs
  <1> HIDE DEF c
  <1>3. Len(shown) \in Nat /\ Len(old) \in Nat /\ Len(new) \in Nat
    BY SeqIs
  <1>4. k \in Nat /\ k <= Len(shown)
    BY <1>2, <1>3
  <1> HIDE DEF k
  <1>5. IsSeq(a)
    BY <1>4, SubSeqIs
  <1>6. IsSeq(b)
    BY <1>2, <1>3, PartIs
  <1> HIDE DEF a, b
  <1> QED
    BY <1>1, <1>5, <1>6, JoinIs DEF IsJoin

\* ReplaceText on a text that ends with the old word.
LEMMA ReplacedIs ==
    ASSUME NEW shown, IsSeq(shown), NEW old, IsSeq(old), NEW new, IsSeq(new),
           IsSuffix(old, shown)
    PROVE  /\ IsSeq(Before(shown, old))
           /\ Replaced(shown, old, new) = Before(shown, old) \o new
  <1> DEFINE c == Len(LongestCommonPrefix({old, new}))
  <1> DEFINE k == Len(shown) - (Len(old) - c)
  <1> DEFINE n == Len(shown) - Len(old)
  <1>1. /\ c \in Nat /\ c <= Len(old) /\ c <= Len(new)
        /\ \A i \in 1..c : old[i] = new[i]
    BY CommonIs
  <1>2. Replaced(shown, old, new)
          = SubSeq(shown, 1, IF Len(old) - c < Len(shown) THEN k ELSE 0)
              \o SubSeq(new, c + 1, Len(new))
    BY DEF Replaced
  <1> HIDE DEF c
  <1>3. Len(shown) \in Nat /\ Len(old) \in Nat /\ Len(new) \in Nat
    BY SeqIs
  <1>4. Len(old) <= Len(shown) /\ \A i \in 1..Len(old) : old[i] = shown[n + i]
    BY SuffixIs
  <1>5. k \in Nat /\ k <= Len(shown) /\ n \in Nat /\ n <= Len(shown) /\ k = n + c
    BY <1>1, <1>3, <1>4
  <1>6. (IF Len(old) - c < Len(shown) THEN k ELSE 0) = k
    BY <1>1, <1>3, <1>4
  <1> DEFINE a == SubSeq(shown, 1, k)
  <1> DEFINE b == SubSeq(new, c + 1, Len(new))
  <1> DEFINE h == SubSeq(shown, 1, n)
  <1>7. Replaced(shown, old, new) = a \o b /\ Before(shown, old) = h
    BY <1>2, <1>6 DEF Before
  <1> HIDE DEF k, n
  <1>8. /\ IsSeq(a) /\ Len(a) = k /\ \A i \in 1..k : a[i] = shown[i]
        /\ IsSeq(h) /\ Len(h) = n /\ \A i \in 1..n : h[i] = shown[i]
    BY <1>5, SubSeqIs
  <1>9. /\ IsSeq(b) /\ Len(b) = Len(new) - c
        /\ \A i \in 1..(Len(new) - c) : b[i] = new[c + i]
    BY <1>1, <1>3, PartIs
  <1> HIDE DEF a, b, h
  <1>10. /\ IsSeq(a \o b) /\ Len(a \o b) = k + (Len(new) - c)
         /\ \A i \in 1..k : (a \o b)[i] = a[i]
         /\ \A i \in 1..(Len(new) - c) : (a \o b)[k + i] = b[i]
    <2>1. IsSeq(a) /\ IsSeq(b) /\ Len(a) = k /\ Len(b) = Len(new) - c
      BY <1>8, <1>9
    <2>2. IsJoin(a \o b, a, b)
      BY <2>1, JoinIs
    <2> QED
      BY <2>1, <2>2 DEF IsJoin
  <1>11. /\ IsSeq(h \o new) /\ Len(h \o new) = n + Len(new)
         /\ \A i \in 1..n : (h \o new)[i] = h[i]
         /\ \A i \in 1..Len(new) : (h \o new)[n + i] = new[i]
    <2>1. IsSeq(h) /\ Len(h) = n
      BY <1>8
    <2>2. IsJoin(h \o new, h, new)
      BY <2>1, JoinIs
    <2> QED
      BY <2>1, <2>2 DEF IsJoin
  <1>12. ASSUME NEW i \in 1..(n + Len(new))
         PROVE  (a \o b)[i] = (h \o new)[i]
    <2>1. CASE i <= n
      BY <2>1, <1>1, <1>3, <1>5, <1>8, <1>10, <1>11
    <2>2. CASE n < i /\ i <= k
      <3> DEFINE j == i - n
      <3>1. j \in 1..c /\ j \in 1..Len(old) /\ j \in 1..Len(new) /\ i = n + j /\ i \in 1..k
        BY <2>2, <1>1, <1>3, <1>5
      <3> HIDE DEF j
      <3>2. (a \o b)[i] = shown[n + j]
        BY <3>1, <1>8, <1>10
      <3>3. shown[n + j] = old[j]
        BY <3>1, <1>4 DEF n
      <3>4. old[j] = new[j]
        BY <3>1, <1>1
      <3>5. (h \o new)[i] = new[j]
        BY <3>1, <1>11
      <3> QED
        BY <3>2, <3>3, <3>4, <3>5
    <2>3. CASE k < i
      <3> DEFINE j == i - k
      <3>1. j \in 1..(Len(new) - c) /\ i = k + j /\ c + j \in 1..Len(new) /\ i = n + (c + j)
        BY <2>3, <1>1, <1>3, <1>5
      <3> HIDE DEF j
      <3>2. (a \o b)[i] = b[j] /\ b[j] = new[c + j]
        BY <3>1, <1>9, <1>10
      <3>3. (h \o new)[n + (c + j)] = new[c + j]
        <4> DEFINE m == c + j
        <4>1. m \in 1..Len(new)
          BY <3>1
        <4> HIDE DEF m
        <4>2. (h \o new)[n + m] = new[m]
          BY <4>1, <1>11, Zenon
        <4> QED
          BY <4>2 DEF m
      <3>4. (h \o new)[i] = (h \o new)[n + (c + j)]
        BY <3>1
      <3> QED
        BY <3>2, <3>3, <3>4, Zenon
    <2>4. i <= n \/ (n < i /\ i <= k) \/ k < i
      <3>1. i \in Int /\ n \in Int /\ k \in Int
        BY <1>3, <1>5
      <3> HIDE DEF n, k
      <3> QED
        BY <3>1
    <2> QED
      BY <2>1, <2>2, <2>3, <2>4
  <1>13. a \o b = h \o new
    <2>1. Len(a \o b) = n + Len(new)
      BY <1>1, <1>3, <1>5, <1>10
    <2> QED
      BY <2>1, <1>10, <1>11, <1>12, SameSeq
  <1> QED
    BY <1>7, <1>8, <1>13

\* Whatever stands before it, the word put on the screen is at its end, and
\* taking it away leaves what stood before it.
LEMMA JoinedIs ==
    ASSUME NEW h, IsSeq(h), NEW new, IsSeq(new)
    PROVE  /\ IsSuffix(new, h \o new)
           /\ Before(h \o new, new) = h
  <1> DEFINE t == h \o new
  <1>1. /\ IsSeq(t) /\ Len(t) = Len(h) + Len(new)
        /\ \A i \in 1..Len(h) : t[i] = h[i]
        /\ \A i \in 1..Len(new) : t[Len(h) + i] = new[i]
    <2>1. IsJoin(t, h, new)
      BY JoinIs
    <2> QED
      BY <2>1 DEF IsJoin
  <1>2. Len(h) \in Nat /\ Len(new) \in Nat
    BY SeqIs
  <1> HIDE DEF t
  <1>3. Len(t) - Len(new) = Len(h) /\ Len(new) <= Len(t) /\ Len(h) <= Len(t)
    BY <1>1, <1>2
  <1>4. IsSuffix(new, t)
    BY <1>1, <1>3, SuffixIs
  <1>5. Before(t, new) = SubSeq(t, 1, Len(h))
    BY <1>3 DEF Before
  <1>6. /\ IsSeq(SubSeq(t, 1, Len(h))) /\ Len(SubSeq(t, 1, Len(h))) = Len(h)
        /\ \A i \in 1..Len(h) : SubSeq(t, 1, Len(h))[i] = t[i]
    BY <1>1, <1>2, <1>3, SubSeqIs
  <1>7. SubSeq(t, 1, Len(h)) = h
    <2> DEFINE u == SubSeq(t, 1, Len(h))
    <2>1. IsSeq(u) /\ Len(u) = Len(h) /\ \A i \in 1..Len(u) : u[i] = h[i]
      BY <1>1, <1>6, Zenon
    <2> HIDE DEF u
    <2>2. u = h
      BY <2>1, SameSeq
    <2> QED
      BY <2>2 DEF u
  <1> QED
    BY <1>4, <1>5, <1>7 DEF t

\* A character typed after the word becomes part of it.
LEMMA TypedIs ==
    ASSUME NEW shown, IsSeq(shown), NEW old, IsSeq(old), IsSuffix(old, shown), NEW c
    PROVE  /\ IsSuffix(Append(old, c), Append(shown, c))
           /\ Before(Append(shown, c), Append(old, c)) = Before(shown, old)
  <1> DEFINE n == Len(shown) - Len(old)
  <1>1. /\ Len(shown) \in Nat /\ Len(old) \in Nat
        /\ Len(old) <= Len(shown) /\ \A i \in 1..Len(old) : old[i] = shown[n + i]
    BY SeqIs, SuffixIs
  <1>2. /\ IsSeq(Append(shown, c)) /\ Len(Append(shown, c)) = Len(shown) + 1
        /\ \A i \in 1..Len(shown) : Append(shown, c)[i] = shown[i]
        /\ Append(shown, c)[Len(shown) + 1] = c
        /\ IsSeq(Append(old, c)) /\ Len(Append(old, c)) = Len(old) + 1
        /\ \A i \in 1..Len(old) : Append(old, c)[i] = old[i]
        /\ Append(old, c)[Len(old) + 1] = c
    BY AppendIs
  <1>3. Len(Append(shown, c)) - Len(Append(old, c)) = n /\ n \in Nat /\ n <= Len(shown)
    BY <1>1, <1>2
  <1>4. ASSUME NEW i \in 1..(Len(old) + 1)
        PROVE  Append(old, c)[i] = Append(shown, c)[n + i]
    <2>1. CASE i = Len(old) + 1
      BY <2>1, <1>1, <1>2
    <2>2. CASE i # Len(old) + 1
      <3>1. i \in 1..Len(old) /\ n + i \in 1..Len(shown)
        BY <2>2, <1>1, <1>3
      <3> HIDE DEF n
      <3> QED
        BY <3>1, <1>1, <1>2
    <2> QED
      BY <2>1, <2>2
  <1>5. IsSuffix(Append(old, c), Append(shown, c))
    <2> DEFINE o == Append(old, c)
    <2> DEFINE t == Append(shown, c)
    <2>1. IsSeq(o) /\ IsSeq(t) /\ Len(o) <= Len(t) /\ Len(t) - Len(o) = n /\ Len(o) = Len(old) + 1
      BY <1>1, <1>2, <1>3
    <2>2. \A i \in 1..(Len(old) + 1) : o[i] = t[n + i]
      BY <1>4
    <2> HIDE DEF o, t, n
    <2>3. IsSuffix(o, t)
      BY <2>1, <2>2, SuffixIs
    <2> QED
      BY <2>3 DEF o, t
  <1>6. Before(Append(shown, c), Append(old, c)) = SubSeq(Append(shown, c), 1, n)
        /\ Before(shown, old) = SubSeq(shown, 1, n)
    BY <1>3 DEF Before
  <1> HIDE DEF n
  <1>7. n \in Nat /\ n <= Len(shown) /\ n <= Len(Append(shown, c))
    BY <1>1, <1>2, <1>3
  <1>8. /\ IsSeq(SubSeq(shown, 1, n)) /\ Len(SubSeq(shown, 1, n)) = n
        /\ \A i \in 1..n : SubSeq(shown, 1, n)[i] = shown[i]
        /\ IsSeq(SubSeq(Append(shown, c), 1, n)) /\ Len(SubSeq(Append(shown, c), 1, n)) = n
        /\ \A i \in 1..n : SubSeq(Append(shown, c), 1, n)[i] = Append(shown, c)[i]
    BY <1>2, <1>7, SubSeqIs
  <1>9. \A i \in 1..n : SubSeq(Append(shown, c), 1, n)[i] = SubSeq(shown, 1, n)[i]
    BY <1>1, <1>2, <1>7, <1>8
  <1> QED
    BY <1>5, <1>6, <1>8, <1>9, SameSeq

LEMMA NoWordIs ==
    ASSUME NEW shown, IsSeq(shown)
    PROVE  IsSuffix(<<>>, shown)
  BY NoElements, SeqIs, SuffixIs

-----------------------------------------------------------------------------
(* The invariant.                                                            *)

World ==
    /\ lastMethod \in Methods
    /\ lastForeground \in Windows \cup {NoWindow}
    /\ config \in Configs
    /\ fg \in Windows \cup {NoWindow}
    /\ mixed \in BOOLEAN

KeysOK ==
    /\ suppressed \subseteq Keys
    /\ pressed \subseteq Keys
    /\ unheard \subseteq pressed
    /\ hotkeyed \subseteq pressed

TextOK ==
    /\ text = [w \in Windows |-> text[w]]
    /\ \A w \in Windows : IsSeq(text[w]) /\ Len(text[w]) <= MaxText[w]

\* Without spell check, and as long as the settings stay, the word is what
\* the rules make of its keys, by the method that the backspace will use.
WordSteady ==
    IsInWord(hook.engine) /\ ~config.spellCheck /\ ~mixed
        => /\ hook.engine = Recomputed(hook.engine.raw, config)
           /\ lastMethod = config.method

\* The word in progress is in a window.
WordSomewhere == IsInWord(hook.engine) => lastForeground \in Windows

HookInv ==
    /\ HookOK(hook)
    /\ World
    /\ KeysOK
    /\ TextOK
    /\ WordSteady
    /\ WordSomewhere
    /\ WordOnScreen

\* The text in the foreground window has the word new where it had old.
Redrawn(old, new) ==
    IsSuffix(old, text[fg])
        => /\ IsSuffix(new, text'[fg])
           /\ Before(text[fg], old) = Before(text'[fg], new)

LEMMA ShownIs ==
    ASSUME TextOK, fg \in Windows \cup {NoWindow}
    PROVE  IsSeq(Shown) /\ (fg \in Windows => Shown = text[fg])
  <1>1. CASE fg = NoWindow
    BY <1>1, NoElements, HookConstants DEF Shown
  <1>2. CASE fg # NoWindow
    BY <1>2 DEF Shown, TextOK
  <1> QED
    BY <1>1, <1>2

LEMMA ShowsIs ==
    ASSUME TextOK, fg \in Windows \cup {NoWindow}, NEW new, IsSeq(new), Shows(new)
    PROVE  TextOK' /\ (fg \in Windows => text'[fg] = new)
  <1>1. CASE fg = NoWindow
    <2>1. text' = text /\ fg \notin Windows
      BY <1>1, HookConstants DEF Shows
    <2> QED
      BY <2>1 DEF TextOK
  <1>2. CASE fg # NoWindow
    <2>1. fg \in Windows /\ Len(new) <= MaxText[fg] /\ text' = [text EXCEPT ![fg] = new]
      BY <1>2 DEF Shows
    <2>2. text = [w \in Windows |-> text[w]]
      BY DEF TextOK
    <2>3. text' = [w \in Windows |-> text'[w]] /\ text'[fg] = new
          /\ \A w \in Windows : w # fg => text'[w] = text[w]
      BY <2>1, <2>2
    <2>4. \A w \in Windows : IsSeq(text'[w]) /\ Len(text'[w]) <= MaxText[w]
      BY <2>1, <2>3 DEF TextOK
    <2> QED
      BY <2>3, <2>4 DEF TextOK
  <1> QED
    BY <1>1, <1>2

LEMMA CaretText ==
    ASSUME TextOK, fg \in Windows \cup {NoWindow}, CaretMoves
    PROVE  TextOK'
  <1>1. IsSeq(Shown) /\ Len(Shown) \in Nat
    BY ShownIs, SeqIs
  <1>2. PICK n \in 0..Len(Shown) : Shows(SubSeq(Shown, 1, n))
    BY DEF CaretMoves
  <1>3. n \in Nat /\ n <= Len(Shown)
    BY <1>1
  <1>4. IsSeq(SubSeq(Shown, 1, n))
    BY <1>1, <1>3, SubSeqIs
  <1> QED
    BY <1>2, <1>4, ShowsIs

LEMMA ErasesText ==
    ASSUME TextOK, fg \in Windows \cup {NoWindow}, Erases
    PROVE  TextOK'
  <1>1. IsSeq(Shown) /\ Len(Shown) \in Nat /\ (Shown = <<>> <=> Len(Shown) = 0)
    BY ShownIs, SeqIs, LenZero
  <1> DEFINE new == IF Shown = <<>> THEN <<>> ELSE Front(Shown)
  <1>2. IsSeq(new)
    <2>1. CASE Shown = <<>>
      BY <2>1, NoElements
    <2>2. CASE Shown # <<>>
      <3> DEFINE n == Len(Shown) - 1
      <3>1. n \in Nat /\ n <= Len(Shown)
        BY <1>1, <2>2
      <3>2. new = SubSeq(Shown, 1, n)
        BY <2>2 DEF Front
      <3> HIDE DEF n, new
      <3> QED
        BY <1>1, <3>1, <3>2, SubSeqIs
    <2> QED
      BY <2>1, <2>2
  <1>3. Shows(new)
    BY DEF Erases
  <1> HIDE DEF new
  <1> QED
    BY <1>2, <1>3, ShowsIs

LEMMA TypesIs ==
    ASSUME NEW k, Types(k)
    PROVE  /\ k \in TypedKeys => Shows(Append(Shown, Char(k)))
           /\ k = "backspace" => Erases
           /\ k \in Navigation => CaretMoves
           /\ k \notin TypedKeys \cup Navigation \cup {"backspace"} => UNCHANGED text
  <1>1. "backspace" \notin Navigation
    BY DEF Navigation
  <1>2. CASE k \in TypedKeys
    BY <1>2, HookConstants DEF Types
  <1>3. CASE k \notin TypedKeys
    BY <1>1, <1>3 DEF Types
  <1> QED
    BY <1>2, <1>3

LEMMA TypesText ==
    ASSUME TextOK, fg \in Windows \cup {NoWindow}, NEW k, Types(k)
    PROVE  TextOK'
  <1>1. CASE k \in TypedKeys
    <2>1. IsSeq(Append(Shown, Char(k)))
      BY ShownIs, AppendIs
    <2> QED
      BY <1>1, <2>1, TypesIs, ShowsIs
  <1>2. CASE k = "backspace"
    BY <1>2, TypesIs, ErasesText
  <1>3. CASE k \in Navigation
    BY <1>3, TypesIs, CaretText
  <1>4. CASE k \notin TypedKeys \cup Navigation \cup {"backspace"}
    BY <1>4, TypesIs DEF TextOK
  <1> QED
    BY <1>1, <1>2, <1>3, <1>4

LEMMA SilentText == ASSUME Types("insert") PROVE text' = text
  <1>1. "insert" \notin TypedKeys \cup Navigation \cup {"backspace"}
    <2>1. "insert" \notin TypedKeys
      BY HookConstants
    <2>2. "insert" \notin Navigation
      BY DEF Navigation
    <2> QED
      BY <2>1, <2>2
  <1> QED
    BY <1>1, TypesIs

\* ReplaceText in the foreground window.
LEMMA ReplacesIs ==
    ASSUME TextOK, fg \in Windows, NEW old, IsSeq(old), NEW new, IsSeq(new),
           Shows(Replaced(Shown, old, new))
    PROVE  TextOK' /\ Redrawn(old, new)
  <1>1. fg \in Windows \cup {NoWindow} /\ IsSeq(Shown) /\ Shown = text[fg]
    BY ShownIs
  <1>2. IsSeq(Replaced(Shown, old, new))
    BY <1>1, ReplacedSeq
  <1>3. TextOK' /\ text'[fg] = Replaced(Shown, old, new)
    BY <1>1, <1>2, ShowsIs
  <1>4. ASSUME IsSuffix(old, text[fg])
        PROVE  /\ IsSuffix(new, text'[fg])
               /\ Before(text[fg], old) = Before(text'[fg], new)
    <2>1. IsSeq(Before(Shown, old)) /\ text'[fg] = Before(Shown, old) \o new
      BY <1>1, <1>3, <1>4, ReplacedIs
    <2> QED
      BY <1>1, <2>1, JoinedIs
  <1> QED
    BY <1>3, <1>4 DEF Redrawn

LEMMA AppendsIs ==
    ASSUME TextOK, fg \in Windows, NEW old, IsSeq(old), NEW c,
           Shows(Append(Shown, c))
    PROVE  TextOK' /\ Redrawn(old, Append(old, c))
  <1>1. fg \in Windows \cup {NoWindow} /\ IsSeq(Shown) /\ Shown = text[fg]
    BY ShownIs
  <1>2. IsSeq(Append(Shown, c))
    BY <1>1, AppendIs
  <1>3. TextOK' /\ text'[fg] = Append(text[fg], c)
    BY <1>1, <1>2, ShowsIs
  <1>4. ASSUME IsSuffix(old, text[fg])
        PROVE  /\ IsSuffix(Append(old, c), text'[fg])
               /\ Before(text[fg], old) = Before(text'[fg], Append(old, c))
    BY <1>1, <1>3, <1>4, TypedIs
  <1> QED
    BY <1>3, <1>4 DEF Redrawn

-----------------------------------------------------------------------------
(* The steps.  Those of the word come first: the keys that leave one.        *)

\* What is left of the caret in the window the hook works in ends with the
\* text the hook believes it put there.
LEMMA FocusedScreen ==
    ASSUME HookInv, fg \in Windows, ~config.spellCheck, ~mixed
    PROVE  IsSuffix(Focused.last, text[fg])
  <1>1. HookOK(hook) /\ HookOK(Focused) /\ IsSeq(text[fg])
    BY FocusedOK DEF HookInv, TextOK
  <1>2. CASE IsInWord(Focused.engine)
    <2>1. Focused = hook /\ fg = lastForeground
      BY <1>1, <1>2, FocusedOK
    <2> QED
      BY <1>2, <2>1 DEF HookInv, WordOnScreen
  <1>3. CASE ~IsInWord(Focused.engine)
    <2>1. Focused.last = <<>>
      BY <1>1, <1>3, HookIs DEF WordEngine, EngineOK, IsInWord
    <2> QED
      BY <1>1, <2>1, NoWordIs
  <1> QED
    BY <1>2, <1>3

\* What a key that leaves a word does.
LeavesWord ==
    /\ HookOK(hook')
    /\ TextOK'
    /\ fg \in Windows
    /\ ~config.spellCheck /\ ~mixed
         => /\ IsInWord(hook'.engine)
                 => /\ hook'.engine = Recomputed(hook'.engine.raw, config)
                    /\ lastMethod' = config.method
            /\ Redrawn(Focused.last, hook'.last)

LEMMA SameMethod ==
    ASSUME config \in Configs
    PROVE  [config EXCEPT !.method = config.method] = config
  <1>1. config \in [method : Methods, toneType : ToneTypes, freeTone : BOOLEAN,
                    spellCheck : BOOLEAN, macros : BOOLEAN, restore : BOOLEAN]
    BY HookConstants DEF Config
  <1> QED
    BY <1>1

\* The engine of a word that is steady.
LEMMA FocusedSteady ==
    ASSUME HookInv, IsInWord(Focused.engine), ~config.spellCheck, ~mixed
    PROVE  /\ Focused.engine = Recomputed(Focused.engine.raw, config)
           /\ lastMethod = config.method
  BY FocusedOK DEF HookInv, WordSteady

LEMMA BackspaceLeaves ==
    ASSUME HookInv, BackspaceInWord
    PROVE  LeavesWord
  <1> DEFINE old == Focused.engine
  <1> DEFINE cfg == [config EXCEPT !.method = lastMethod]
  <1> DEFINE e == RemoveLastChar(old, cfg)
  <1>1. /\ HookOK(hook) /\ HookOK(Focused) /\ fg \in Windows \cup {NoWindow}
        /\ config \in Configs /\ TextOK
    BY FocusedOK DEF HookInv, World
  <1>2. /\ fg \in Windows /\ IsInWord(old)
        /\ hook' = Composing(e, EraseCount(e))
        /\ Shows(Replaced(Shown, Focused.last, e.comp))
        /\ lastMethod' = lastMethod
    BY <1>1 DEF BackspaceInWord, Works
  <1>3. /\ EngineOK(old) /\ old.raw \in Seq(TypedKeys) /\ Focused.last = old.comp
        /\ IsSeq(old.comp)
    BY <1>1, HookIs DEF WordEngine, EngineOK
  <1>4. /\ EngineOK(e) /\ Len(old.raw) > 0 /\ Len(old.raw) - 1 \in Nat
        /\ e = Recomputed(SubSeq(old.raw, 1, Len(old.raw) - 1), cfg)
        /\ e.raw = SubSeq(old.raw, 1, Len(old.raw) - 1)
    BY <1>2, <1>3, RemovedOK
  <1> HIDE DEF e
  <1>5. WordEngine(e)
    <2>1. SubSeq(old.raw, 1, Len(old.raw) - 1) \in Seq(TypedKeys)
      <3> DEFINE r == old.raw
      <3>1. r \in Seq(TypedKeys) /\ Len(r) - 1 \in Nat
        BY <1>3, <1>4
      <3> HIDE DEF r
      <3>2. SubSeq(r, 1, Len(r) - 1) \in Seq(TypedKeys)
        BY <3>1
      <3> QED
        BY <3>2 DEF r
    <2> QED
      BY <1>4, <2>1 DEF WordEngine
  <1>6. /\ IsSeq(e.comp) /\ EraseCount(e) \in Nat
        /\ (EraseCount(e) > 0 <=> IsInWord(e))
    <2>1. IsSeq(e.comp) /\ (e.comp = <<>> <=> e.raw = <<>>)
      BY <1>4 DEF EngineOK
    <2>2. Len(e.comp) \in Nat /\ (e.comp = <<>> <=> Len(e.comp) = 0)
      BY <2>1, SeqIs, LenZero
    <2> QED
      BY <2>1, <2>2 DEF EraseCount, IsInWord
  <1>7. HookOK(hook') /\ hook'.engine = e /\ hook'.last = e.comp
    BY <1>2, <1>5, <1>6, ComposingOK
  <1>8. TextOK' /\ Redrawn(Focused.last, e.comp)
    BY <1>1, <1>2, <1>3, <1>6, ReplacesIs
  <1>9. ASSUME ~config.spellCheck, ~mixed
        PROVE  e = Recomputed(e.raw, config) /\ lastMethod' = config.method
    <2>1. lastMethod = config.method
      BY <1>2, <1>9, FocusedSteady
    <2>2. cfg = config
      BY <1>1, <2>1, SameMethod
    <2> HIDE DEF cfg
    <2> QED
      BY <1>2, <1>4, <2>1, <2>2
  <1> QED
    BY <1>2, <1>7, <1>8, <1>9 DEF LeavesWord

\* The engine after a key it took.
LEMMA TakenIs ==
    ASSUME HookInv, NEW ch \in TypedKeys, Takes(Focused.engine, ch, config)
    PROVE  LET e == ProcessKey(Focused.engine, ch, config) IN
           /\ WordEngine(e) /\ IsInWord(e)
           /\ e.raw = Append(Focused.engine.raw, ch)
           /\ IsSeq(e.comp) /\ Len(e.comp) \in Nat /\ Len(e.comp) > 0
           /\ ~config.spellCheck => e = Recomputed(e.raw, config)
  <1> DEFINE old == Focused.engine
  <1> DEFINE e == ProcessKey(old, ch, config)
  <1>1. EngineOK(old) /\ old.raw \in Seq(TypedKeys) /\ IsSeq(old.raw)
    BY FocusedOK, HookIs DEF HookInv, WordEngine, EngineOK
  <1>2. /\ EngineOK(e) /\ e.raw = Append(old.raw, ch)
        /\ ~config.spellCheck => e = Recomputed(e.raw, config)
    <2> HIDE DEF old
    <2>1. Takes(old, ch, config)
      BY DEF old
    <2>2. EngineOK(e) /\ e.raw = Append(old.raw, ch)
      BY <1>1, <2>1, ProcessedOK
    <2>3. ~config.spellCheck => e = Recomputed(Append(old.raw, ch), config)
      BY <1>1, <2>1, ProcessedOK
    <2> QED
      BY <2>2, <2>3
  <1> HIDE DEF e
  <1>3. Append(old.raw, ch) \in Seq(TypedKeys) /\ Append(old.raw, ch) # <<>>
    <2> DEFINE r == old.raw
    <2>1. r \in Seq(TypedKeys)
      BY <1>1
    <2> HIDE DEF r
    <2>2. Append(r, ch) \in Seq(TypedKeys) /\ Len(Append(r, ch)) = Len(r) + 1 /\ Len(r) \in Nat
      BY <2>1
    <2>3. Append(r, ch) # <<>>
      <3>1. Len(Append(r, ch)) # 0
        BY <2>2
      <3> QED
        BY <3>1, NoElements, Zenon
    <2> QED
      BY <2>2, <2>3 DEF r
  <1>4. WordEngine(e) /\ IsInWord(e)
    BY <1>2, <1>3 DEF WordEngine, IsInWord
  <1>5. IsSeq(e.comp) /\ e.comp # <<>>
    BY <1>2, <1>4 DEF EngineOK, IsInWord
  <1>6. Len(e.comp) \in Nat /\ Len(e.comp) > 0
    BY <1>5, SeqIs, LenZero
  <1> QED
    BY <1>2, <1>4, <1>5, <1>6 DEF e

LEMMA TransformingLeaves ==
    ASSUME HookInv, Works, NEW ch \in TypedKeys,
           TransformingKey(ch, Focused, ProcessKey(Focused.engine, ch, config))
    PROVE  LeavesWord
  <1> DEFINE e == ProcessKey(Focused.engine, ch, config)
  <1>1. /\ TextOK /\ fg \in Windows
        /\ HookOK(Focused)
    BY FocusedOK DEF HookInv, World, Works
  <1>2. /\ Takes(Focused.engine, ch, config) /\ lastMethod' = config.method
        /\ hook' = Composing(e, Len(e.comp))
        /\ Shows(Replaced(Shown, Focused.last, e.comp))
    BY DEF TransformingKey, Accepts
  <1>3. /\ WordEngine(e) /\ IsInWord(e)
        /\ IsSeq(e.comp) /\ Len(e.comp) \in Nat /\ Len(e.comp) > 0
        /\ ~config.spellCheck => e = Recomputed(e.raw, config)
    BY <1>2, TakenIs
  <1> HIDE DEF e
  <1>4. HookOK(hook') /\ hook'.engine = e /\ hook'.last = e.comp
    BY <1>2, <1>3, ComposingOK
  <1>5. IsSeq(Focused.last)
    BY <1>1, HookIs DEF WordEngine, EngineOK
  <1>6. TextOK' /\ Redrawn(Focused.last, e.comp)
    BY <1>1, <1>2, <1>3, <1>5, ReplacesIs
  <1> QED
    BY <1>1, <1>2, <1>3, <1>4, <1>6 DEF LeavesWord

\* A key that the engine took without transforming the word is passed to the
\* application: the word was as typed before it, so it is one character
\* longer, on the screen and in the engine.
LEMMA PlainLeaves ==
    ASSUME HookInv, Works, NEW ch \in TypedKeys,
           PlainKey(ch, Focused, ProcessKey(Focused.engine, ch, config))
    PROVE  LeavesWord
  <1> DEFINE old == Focused.engine
  <1> DEFINE e == ProcessKey(old, ch, config)
  <1>1. TextOK /\ fg \in Windows /\ HookOK(Focused)
    BY FocusedOK DEF HookInv, World, Works
  <1>2. /\ Takes(old, ch, config) /\ lastMethod' = config.method /\ ~e.did
        /\ hook' = Composing(e, Focused.count + 1) /\ Types(ch)
    BY DEF PlainKey, Accepts
  <1>3. /\ WordEngine(e) /\ IsInWord(e) /\ IsSeq(e.comp)
        /\ e.raw = Append(old.raw, ch)
        /\ ~config.spellCheck => e = Recomputed(e.raw, config)
    BY <1>2, TakenIs
  <1> HIDE DEF e
  <1>4. /\ EngineOK(old) /\ IsSeq(old.raw) /\ IsSeq(Focused.last)
        /\ Focused.last = old.comp /\ Focused.count \in Nat
    BY <1>1, HookIs DEF WordEngine, EngineOK
  <1>5. HookOK(hook') /\ hook'.engine = e /\ hook'.last = e.comp
    <2>1. Focused.count + 1 \in Nat /\ Focused.count + 1 > 0
      BY <1>4
    <2> QED
      BY <1>2, <1>3, <2>1, ComposingOK
  <1>6. Shows(Append(Shown, Char(ch)))
    BY <1>2, TypesIs
  <1>7. TextOK' /\ Redrawn(Focused.last, Append(Focused.last, Char(ch)))
    BY <1>1, <1>4, <1>6, AppendsIs
  <1>8. ASSUME ~config.spellCheck, ~mixed
        PROVE  e.comp = Append(Focused.last, Char(ch))
    <2>1. IsSeq(Append(old.raw, ch))
      BY <1>4, AppendIs
    <2>2. e.comp = Literal(Append(old.raw, ch))
      BY <1>2, <1>3 DEF WordEngine, EngineOK
    <2>3. old.comp = Literal(old.raw)
      <3>1. CASE IsInWord(old)
        <4>1. old = Recomputed(old.raw, config)
          BY <1>8, <3>1, FocusedSteady
        <4>2. ApplyRules(Append(old.raw, ch), config) = Literal(Append(old.raw, ch))
          BY <1>2, <1>3, <1>8, <2>1, RecomputedOK
        <4>3. ApplyRules(old.raw, config) = Literal(old.raw)
          BY <1>4, <4>2, LiteralBefore
        <4>4. ~old.did
          BY <1>4, <4>1, <4>3, RecomputedOK
        <4> QED
          BY <1>4, <4>4 DEF EngineOK
      <3>2. CASE ~IsInWord(old)
        <4>1. old.raw = <<>> /\ old.comp = <<>>
          BY <1>4, <3>2 DEF EngineOK, IsInWord
        <4>2. Literal(<<>>) = <<>>
          BY LiteralIs, NoElements, LenZero
        <4> QED
          BY <4>1, <4>2
      <3> QED
        BY <3>1, <3>2
    <2>4. Literal(Append(old.raw, ch)) = Append(Literal(old.raw), Char(ch))
      BY <1>4, LiteralAppend
    <2> QED
      BY <1>4, <2>2, <2>3, <2>4
  <1> QED
    BY <1>1, <1>2, <1>3, <1>5, <1>7, <1>8 DEF LeavesWord

-----------------------------------------------------------------------------
(* The keys that end the word, and the other steps.                          *)

EndsWord == HookOK(hook') /\ ~IsInWord(hook'.engine) /\ TextOK'

\* The hook's word and the screen stay as they are.
KeepsWord ==
    /\ HookOK(hook')
    /\ hook'.engine = hook.engine /\ hook'.last = hook.last
    /\ text' = text /\ lastForeground' = lastForeground

\* How a key press changes the rest.
Pressed == lastForeground' = fg /\ config' = config /\ mixed' = (mixed /\ IsInWord(hook'.engine))

LEMMA EndsByClearing ==
    ASSUME hook' = ClearedHook, TextOK'
    PROVE  EndsWord
  BY ClearedHookOK DEF EndsWord

LEMMA ShortcutEnds ==
    ASSUME HookInv, NEW k, ShortcutKey(k) \/ YieldedKey(k)
    PROVE  EndsWord
  <1>1. TextOK /\ fg \in Windows \cup {NoWindow}
    BY DEF HookInv, World
  <1>2. hook' = ClearedHook /\ (CaretMoves \/ Types(k))
    BY DEF ShortcutKey, YieldedKey
  <1> QED
    BY <1>1, <1>2, CaretText, TypesText, EndsByClearing

LEMMA BackspaceEnds ==
    ASSUME HookInv, BackspaceOutside
    PROVE  EndsWord
  <1>1. TextOK /\ fg \in Windows \cup {NoWindow} /\ HookOK(Focused)
    BY FocusedOK DEF HookInv, World
  <1>2. hook' = Focused /\ ~IsInWord(Focused.engine) /\ Types("backspace")
    BY DEF BackspaceOutside
  <1> QED
    BY <1>1, <1>2, TypesText DEF EndsWord

LEMMA NavigationEnds ==
    ASSUME HookInv, NEW k, NavigationKey(k)
    PROVE  EndsWord
  <1>1. TextOK /\ fg \in Windows \cup {NoWindow} /\ HookOK(Focused)
    BY FocusedOK DEF HookInv, World
  <1>2. hook' = Navigated(k) /\ Types(k)
    BY DEF NavigationKey
  <1> QED
    BY <1>1, <1>2, NavigatedOK, TypesText DEF EndsWord

LEMMA SilentIs ==
    ASSUME HookInv, SilentKey
    PROVE  EndsWord \/ (KeepsWord /\ fg = lastForeground /\ lastMethod' = lastMethod)
  <1>1. /\ TextOK /\ fg \in Windows \cup {NoWindow} /\ HookOK(hook) /\ HookOK(Focused)
    BY FocusedOK DEF HookInv, World
  <1>2. hook' = Focused /\ Types("insert") /\ lastForeground' = fg /\ lastMethod' = lastMethod
    BY DEF SilentKey, Press
  <1>3. TextOK'
    BY <1>1, <1>2, TypesText
  <1>4. CASE IsInWord(Focused.engine)
    <2>1. Focused = hook /\ fg = lastForeground
      BY <1>1, <1>4, FocusedOK
    <2>2. text' = text
      BY <1>2, SilentText
    <2> QED
      BY <1>1, <1>2, <2>1, <2>2 DEF KeepsWord
  <1>5. CASE ~IsInWord(Focused.engine)
    BY <1>1, <1>2, <1>3, <1>5 DEF EndsWord
  <1> QED
    BY <1>4, <1>5

LEMMA MacroEnds ==
    ASSUME HookInv, Works, NEW ch, MacroKey(ch, Focused)
    PROVE  EndsWord
  <1> DEFINE new == Macros[Focused.last]
  <1> DEFINE r == Replaced(Shown, Focused.last, new)
  <1>1. TextOK /\ fg \in Windows \cup {NoWindow} /\ HookOK(Focused)
    BY FocusedOK DEF HookInv, World
  <1>2. /\ hook' = ClearedHook /\ Focused.last \in DOMAIN Macros
        /\ Shows(Append(r, Char(ch)))
    BY DEF MacroKey, Expands
  <1>3. IsSeq(new)
    <2>1. new \in Seq([base : STRING, tone : 0..5])
      BY <1>2, HookConstants, Zenon
    <2> HIDE DEF new
    <2> QED
      BY <2>1, Zenon DEF IsSeq
  <1>4. IsSeq(Focused.last)
    BY <1>1, HookIs DEF WordEngine, EngineOK
  <1> HIDE DEF new
  <1>5. IsSeq(Shown)
    BY <1>1, ShownIs
  <1>6. IsSeq(r)
    BY <1>3, <1>4, <1>5, ReplacedSeq
  <1> HIDE DEF r
  <1>7. IsSeq(Append(r, Char(ch)))
    BY <1>6, AppendIs
  <1>8. TextOK'
    BY <1>1, <1>2, <1>7, ShowsIs
  <1> QED
    BY <1>2, <1>8, EndsByClearing

LEMMA CommittingEnds ==
    ASSUME HookInv, NEW ch, CommittingKey(ch, Focused, ProcessKey(Focused.engine, ch, config))
    PROVE  EndsWord
  <1> DEFINE e == ProcessKey(Focused.engine, ch, config)
  <1>1. TextOK /\ fg \in Windows \cup {NoWindow}
    BY DEF HookInv, World
  <1>2. hook' = Committed(Focused, e, ch) /\ Types(ch) /\ ~Takes(Focused.engine, ch, config)
    BY DEF CommittingKey, Refuses
  <1>3. e = Cleared
    BY <1>2 DEF ProcessKey
  <1> QED
    BY <1>1, <1>2, <1>3, CommittedOK, TypesText DEF EndsWord

\* A key that types a character leaves a word or ends it.
LEMMA TypedSteps ==
    ASSUME HookInv, NEW ch \in TypedKeys, TypedKey(ch)
    PROVE  (LeavesWord \/ EndsWord) /\ \E k : Press(k)
  <1>1. Ready(ch) = Focused
    BY ReadyIs DEF HookInv
  <1> DEFINE e == ProcessKey(Focused.engine, ch, config)
  <1>2. /\ Works
        /\ \/ TransformingKey(ch, Focused, e) \/ PlainKey(ch, Focused, e)
           \/ MacroKey(ch, Focused) \/ CommittingKey(ch, Focused, e)
    BY <1>1 DEF TypedKey
  <1> HIDE DEF e
  <1>3. CASE TransformingKey(ch, Focused, e)
    <2>1. Press(ch)
      BY <1>3 DEF TransformingKey
    <2> QED
      BY <1>2, <1>3, <2>1, TransformingLeaves DEF e
  <1>4. CASE PlainKey(ch, Focused, e)
    <2>1. Press(ch)
      BY <1>4 DEF PlainKey
    <2> QED
      BY <1>2, <1>4, <2>1, PlainLeaves DEF e
  <1>5. CASE MacroKey(ch, Focused)
    <2>1. Press(ch)
      BY <1>5 DEF MacroKey, Refuses
    <2> QED
      BY <1>2, <1>5, <2>1, MacroEnds
  <1>6. CASE CommittingKey(ch, Focused, e)
    <2>1. Press(ch)
      BY <1>6 DEF CommittingKey, Refuses
    <2> QED
      BY <1>6, <2>1, CommittingEnds DEF e
  <1> QED
    BY <1>2, <1>3, <1>4, <1>5, <1>6

-----------------------------------------------------------------------------
(* All steps.                                                                *)

\* Each branch of the key press passes its key or swallows it.
LEMMA KeyDownParts ==
    ASSUME KeyDown
    PROVE  \E k \in Keys : /\ Press(k) /\ (Passes(k) \/ Swallows(k))
                           /\ lastMethod' \in {lastMethod, config.method}
  <1> DEFINE Part(k) == /\ Press(k) /\ (Passes(k) \/ Swallows(k))
                        /\ lastMethod' \in {lastMethod, config.method}
  <1>0. "backspace" \in Keys /\ "insert" \in Keys /\ TypedKeys \subseteq Keys
    BY DEF Keys
  <1>1. ASSUME NEW k \in Keys, ShortcutKey(k) \/ YieldedKey(k)
        PROVE  Part(k)
    BY <1>1 DEF ShortcutKey, YieldedKey
  <1>2. CASE BackspaceInWord
    <2>1. Part("backspace")
      BY <1>2 DEF BackspaceInWord
    <2> QED
      BY <1>0, <2>1
  <1>3. CASE BackspaceOutside
    <2>1. Part("backspace")
      BY <1>3 DEF BackspaceOutside
    <2> QED
      BY <1>0, <2>1
  <1>4. ASSUME NEW k \in Keys \cap Navigation, NavigationKey(k)
        PROVE  Part(k)
    BY <1>4 DEF NavigationKey
  <1>5. CASE SilentKey
    <2>1. Part("insert")
      BY <1>5 DEF SilentKey
    <2> QED
      BY <1>0, <2>1
  <1>6. ASSUME NEW ch \in TypedKeys, TypedKey(ch)
        PROVE  Part(ch)
    <2>1. PICK h \in {Ready(ch)} : \E e \in {ProcessKey(h.engine, ch, config)} :
             \/ TransformingKey(ch, h, e) \/ PlainKey(ch, h, e)
             \/ MacroKey(ch, h) \/ CommittingKey(ch, h, e)
      BY <1>6 DEF TypedKey
    <2>2. PICK e \in {ProcessKey(h.engine, ch, config)} :
             \/ TransformingKey(ch, h, e) \/ PlainKey(ch, h, e)
             \/ MacroKey(ch, h) \/ CommittingKey(ch, h, e)
      BY <2>1
    <2>3. CASE TransformingKey(ch, h, e)
      BY <2>3 DEF TransformingKey, Accepts
    <2>4. CASE PlainKey(ch, h, e)
      BY <2>4 DEF PlainKey, Accepts
    <2>5. CASE MacroKey(ch, h)
      BY <2>5 DEF MacroKey, Refuses
    <2>6. CASE CommittingKey(ch, h, e)
      BY <2>6 DEF CommittingKey, Refuses
    <2> QED
      BY <2>2, <2>3, <2>4, <2>5, <2>6
  <1>7. CASE \E k \in Keys : ShortcutKey(k) \/ YieldedKey(k)
    <2>1. \E k \in Keys : Part(k)
      <3> HIDE DEF Part
      <3> QED
        BY <1>1, <1>7
    <2> QED
      BY <2>1
  <1>8. CASE \E k \in Keys \cap Navigation : NavigationKey(k)
    <2>1. \E k \in Keys : Part(k)
      <3> HIDE DEF Part
      <3> QED
        BY <1>4, <1>8
    <2> QED
      BY <2>1
  <1>9. CASE \E ch \in TypedKeys : TypedKey(ch)
    <2>1. \E k \in Keys : Part(k)
      <3> HIDE DEF Part
      <3> QED
        BY <1>0, <1>6, <1>9
    <2> QED
      BY <2>1
  <1> QED
    BY <1>2, <1>3, <1>5, <1>7, <1>8, <1>9, Zenon DEF KeyDown

LEMMA PressIs ==
    ASSUME NEW k, Press(k)
    PROVE  Pressed /\ fg' = fg
  BY DEF Press, Pressed

LEMMA KeyDownWord ==
    ASSUME HookInv, KeyDown
    PROVE  \/ LeavesWord
           \/ EndsWord
           \/ KeepsWord /\ fg = lastForeground /\ lastMethod' = lastMethod
  <1>1. ASSUME NEW k \in Keys, ShortcutKey(k) \/ YieldedKey(k)
        PROVE  EndsWord
    BY <1>1, ShortcutEnds
  <1>2. ASSUME NEW k \in Keys \cap Navigation, NavigationKey(k)
        PROVE  EndsWord
    BY <1>2, NavigationEnds
  <1>3. ASSUME NEW ch \in TypedKeys, TypedKey(ch)
        PROVE  LeavesWord \/ EndsWord
    BY <1>3, TypedSteps
  <1> QED
    BY <1>1, <1>2, <1>3, BackspaceLeaves, BackspaceEnds, SilentIs DEF KeyDown

\* What the steps do to the word in progress.
Untouched == KeepsWord /\ lastMethod' = lastMethod

LEMMA StepKinds ==
    ASSUME HookInv, Next
    PROVE  \/ Pressed /\ (LeavesWord \/ EndsWord)
           \/ Untouched /\ config' = config /\ mixed' = mixed
           \/ EndsWord
           \/ Untouched /\ mixed' = IsInWord(hook.engine)
  <1>1. CASE KeyDown
    <2>1. Pressed
      BY <1>1, KeyDownParts, PressIs
    <2>2. CASE LeavesWord \/ EndsWord
      BY <2>1, <2>2
    <2>3. CASE KeepsWord /\ fg = lastForeground /\ lastMethod' = lastMethod
      <3>1. CASE IsInWord(hook.engine)
        <4>1. mixed' = mixed /\ config' = config
          <5>1. mixed' = (mixed /\ IsInWord(hook'.engine)) /\ config' = config /\ mixed \in BOOLEAN
            BY <2>1 DEF Pressed, HookInv, World
          <5>2. IsInWord(hook'.engine)
            BY <2>3, <3>1 DEF KeepsWord
          <5> QED
            BY <5>1, <5>2
        <4> QED
          BY <2>3, <4>1 DEF Untouched
      <3>2. CASE ~IsInWord(hook.engine)
        <4>1. HookOK(hook') /\ ~IsInWord(hook'.engine) /\ TextOK'
          BY <2>3, <3>2 DEF KeepsWord, HookInv, TextOK
        <4> QED
          BY <4>1 DEF EndsWord
      <3> QED
        BY <3>1, <3>2
    <2> QED
      BY <1>1, <2>2, <2>3, KeyDownWord
  <1>2. ASSUME NEW k, KeyUp(k) \/ HotkeyPress(k)
        PROVE  Untouched /\ config' = config /\ mixed' = mixed
    BY <1>2 DEF KeyUp, HotkeyPress, Untouched, KeepsWord, HookInv
  <1>3. CASE MouseDown
    <2>1. hook' = ClearedHook /\ CaretMoves
      BY <1>3 DEF MouseDown
    <2>2. TextOK'
      BY <2>1, CaretText DEF HookInv, World
    <2> QED
      BY <2>1, <2>2, EndsByClearing
  <1>4. CASE SwitchWindow
    BY <1>4 DEF SwitchWindow, Untouched, KeepsWord, HookInv
  <1>5. CASE ChangeConfig
    BY <1>5 DEF ChangeConfig, Untouched, KeepsWord, HookInv
  <1>6. CASE ReplayTimePasses
    <2>1. hook' = [hook EXCEPT !.tick = "old"] /\ HookOK(hook)
      BY <1>6 DEF ReplayTimePasses, HookInv
    <2>2. HookOK(hook') /\ hook'.engine = hook.engine /\ hook'.last = hook.last
      BY <2>1, TickedOK
    <2> QED
      BY <1>6, <2>2 DEF ReplayTimePasses, Untouched, KeepsWord
  <1> QED
    BY <1>1, <1>2, <1>3, <1>4, <1>5, <1>6 DEF Next

LEMMA WorldStep ==
    ASSUME World, Next
    PROVE  World'
  <1>0. \A c \in Configs : c.method \in Methods
    BY HookConstants DEF Config
  <1>1. CASE KeyDown
    <2>1. /\ Pressed /\ fg' = fg /\ lastMethod' \in {lastMethod, config.method}
      BY <1>1, KeyDownParts, PressIs
    <2> QED
      BY <1>0, <2>1 DEF World, Pressed
  <1>2. ASSUME NEW k, KeyUp(k) \/ HotkeyPress(k)
        PROVE  World'
    BY <1>2 DEF KeyUp, HotkeyPress, World
  <1>3. CASE MouseDown
    BY <1>3 DEF MouseDown, World
  <1>4. CASE SwitchWindow
    BY <1>4 DEF SwitchWindow, World
  <1>5. CASE ChangeConfig
    <2>1. IsInWord(hook.engine) \in BOOLEAN
      BY DEF IsInWord
    <2>2. mixed' \in BOOLEAN
      BY <1>5, <2>1 DEF ChangeConfig
    <2>3. /\ lastMethod' = lastMethod /\ lastForeground' = lastForeground /\ fg' = fg
          /\ config' \in Configs
      BY <1>5 DEF ChangeConfig
    <2> QED
      BY <2>2, <2>3, Zenon DEF World
  <1>6. CASE ReplayTimePasses
    BY <1>6 DEF ReplayTimePasses, World
  <1> QED
    BY <1>1, <1>2, <1>3, <1>4, <1>5, <1>6 DEF Next

LEMMA KeysStep ==
    ASSUME KeysOK, Next
    PROVE  KeysOK'
  <1>1. CASE KeyDown
    <2>1. PICK k \in Keys : Press(k) /\ (Passes(k) \/ Swallows(k))
      BY <1>1, KeyDownParts
    <2>2. pressed' = pressed \cup {k} /\ hotkeyed' = hotkeyed
      BY <2>1 DEF Press
    <2> QED
      BY <2>1, <2>2 DEF KeysOK, Passes, Swallows
  <1>2. ASSUME NEW k \in Keys, KeyUp(k)
        PROVE  KeysOK'
    BY <1>2 DEF KeyUp, KeysOK
  <1>3. CASE UNCHANGED <<suppressed, pressed, unheard, hotkeyed>>
    BY <1>3 DEF KeysOK
  <1>4. ASSUME NEW k \in ToggleKeys, HotkeyPress(k)
        PROVE  KeysOK'
    <2>1. k \in Keys
      BY HookConstants DEF Keys
    <2> QED
      BY <1>4, <2>1 DEF HotkeyPress, KeysOK
  <1> QED
    BY <1>1, <1>2, <1>3, <1>4 DEF Next, MouseDown, SwitchWindow, ChangeConfig, ReplayTimePasses

\* The part of the invariant that is about the word in progress.
LEMMA WordStep ==
    ASSUME HookInv, Next
    PROVE  WordSteady' /\ WordSomewhere' /\ WordOnScreen'
  <1> USE DEF HookInv
  <1>1. CASE EndsWord
    BY <1>1 DEF EndsWord, WordSteady, WordSomewhere, WordOnScreen
  <1>2. CASE Pressed /\ LeavesWord
    <2>1. /\ lastForeground' = fg /\ config' = config /\ fg \in Windows /\ fg # NoWindow
          /\ mixed' = (mixed /\ IsInWord(hook'.engine))
      BY <1>2, HookConstants DEF Pressed, LeavesWord
    <2>2. ASSUME IsInWord(hook'.engine), ~config.spellCheck, ~mixed'
          PROVE  /\ hook'.engine = Recomputed(hook'.engine.raw, config)
                 /\ lastMethod' = config.method
                 /\ IsSuffix(hook'.last, text'[fg])
      <3>1. ~mixed
        BY <2>1, <2>2
      <3>2. IsSuffix(Focused.last, text[fg])
        BY <2>1, <2>2, <3>1, FocusedScreen
      <3> QED
        BY <1>2, <2>2, <3>1, <3>2 DEF LeavesWord, Redrawn
    <2> QED
      BY <2>1, <2>2 DEF WordSteady, WordSomewhere, WordOnScreen
  <1>3. CASE Untouched /\ config' = config /\ mixed' = mixed
    BY <1>3 DEF Untouched, KeepsWord, WordSteady, WordSomewhere, WordOnScreen
  <1>4. CASE Untouched /\ mixed' = IsInWord(hook.engine)
    BY <1>4 DEF Untouched, KeepsWord, WordSteady, WordSomewhere, WordOnScreen
  <1> QED
    BY <1>1, <1>2, <1>3, <1>4, StepKinds

LEMMA InvStep ==
    ASSUME HookInv, [Next]_vars
    PROVE  HookInv'
  <1>1. CASE Next
    <2>1. HookOK(hook') /\ TextOK'
      BY <1>1, StepKinds DEF LeavesWord, EndsWord, Untouched, KeepsWord, HookInv, TextOK
    <2>2. World' /\ KeysOK'
      BY <1>1, WorldStep, KeysStep DEF HookInv
    <2> QED
      BY <1>1, <2>1, <2>2, WordStep DEF HookInv
  <1>2. CASE UNCHANGED vars
    BY <1>2 DEF vars, HookInv, World, KeysOK, TextOK, WordSteady, WordSomewhere, WordOnScreen
  <1> QED
    BY <1>1, <1>2

LEMMA InvStart == ASSUME Init PROVE HookInv
  <1>1. /\ hook = ClearedHook /\ config \in Configs /\ lastMethod = config.method
        /\ lastForeground = NoWindow /\ suppressed = {} /\ fg \in Windows
        /\ text = [w \in Windows |-> <<>>] /\ pressed = {} /\ unheard = {} /\ mixed = FALSE
        /\ hotkeyed = {}
    BY DEF Init
  <1>2. HookOK(hook) /\ ~IsInWord(hook.engine)
    BY <1>1, ClearedHookOK
  <1>3. World
    <2>1. config.method \in Methods
      BY <1>1, HookConstants DEF Config
    <2> QED
      BY <1>1, <2>1, Zenon DEF World
  <1>4. KeysOK
    BY <1>1 DEF KeysOK
  <1>5. TextOK
    <2>1. \A w \in Windows : text[w] = <<>> /\ MaxText[w] \in Nat
      BY <1>1, HookConstants
    <2>2. \A w \in Windows : IsSeq(text[w]) /\ Len(text[w]) = 0
      BY <2>1, NoElements
    <2>3. text = [w \in Windows |-> text[w]]
      BY <1>1
    <2> QED
      BY <2>1, <2>2, <2>3 DEF TextOK
  <1> QED
    BY <1>2, <1>3, <1>4, <1>5 DEF HookInv, WordSteady, WordSomewhere, WordOnScreen

-----------------------------------------------------------------------------
(* The theorems.                                                             *)

LEMMA InvType == ASSUME HookInv PROVE TypeOK /\ BookkeepingAgrees
  <1>1. /\ WordEngine(hook.engine) /\ hook.last = hook.engine.comp
        /\ hook.count \in Nat /\ (hook.count > 0 <=> IsInWord(hook.engine))
        /\ hook.word = <<>> /\ hook.tick \in Ticks /\ hook.delim \in Delims
    BY HookIs DEF HookInv
  <1>2. hook.engine.raw \in Seq(TypedKeys) /\ hook.engine.did \in BOOLEAN
    BY <1>1 DEF WordEngine, EngineOK
  <1>3. hook.word \in Seq(TypedKeys)
    BY <1>1
  <1>4. World /\ KeysOK /\ TextOK
    BY DEF HookInv
  <1>5. TypeOK
    BY <1>1, <1>2, <1>3, <1>4, Zenon DEF TypeOK, World, KeysOK, TextOK, Ticks, Delims
  <1>6. BookkeepingAgrees
    BY <1>1 DEF BookkeepingAgrees
  <1> QED
    BY <1>5, <1>6

(* Every variable of the hook keeps to its values, and so do the texts and   *)
(* the keys.                                                                 *)
THEOREM HookTyped == Spec => []TypeOK
  <1>1. Init => HookInv
    BY InvStart
  <1>2. HookInv /\ [Next]_vars => HookInv'
    BY InvStep
  <1>3. HookInv => TypeOK
    BY InvType
  <1> QED
    BY <1>1, <1>2, <1>3, PTL DEF Spec

(* The hook never has a committed word, so the reconversion that a modifier  *)
(* key after a delimiter is to start never happens.                          *)
THEOREM NothingReconverted == Spec => [](hook.word = <<>>)
  <1>1. Init => HookInv
    BY InvStart
  <1>2. HookInv /\ [Next]_vars => HookInv'
    BY InvStep
  <1>3. HookInv => hook.word = <<>>
    BY HookIs DEF HookInv
  <1> QED
    BY <1>1, <1>2, <1>3, PTL DEF Spec

(* The engine's composition, the text the hook believes it put on the screen *)
(* and the count that macro expansion asks for never part.                   *)
THEOREM RecordsAgree == Spec => []BookkeepingAgrees
  <1>1. Init => HookInv
    BY InvStart
  <1>2. HookInv /\ [Next]_vars => HookInv'
    BY InvStep
  <1>3. HookInv => BookkeepingAgrees
    BY InvType
  <1> QED
    BY <1>1, <1>2, <1>3, PTL DEF Spec

(* A word in progress stands right before the caret of the window it was     *)
(* typed in, exactly as the engine composed it.                              *)
THEOREM WordStaysOnScreen == Spec => []WordOnScreen
  <1>1. Init => HookInv
    BY InvStart
  <1>2. HookInv /\ [Next]_vars => HookInv'
    BY InvStep
  <1>3. HookInv => WordOnScreen
    BY DEF HookInv
  <1> QED
    BY <1>1, <1>2, <1>3, PTL DEF Spec

\* A replacement by any text leaves what is before the word.
LEMMA KeptInFront ==
    ASSUME NEW h, IsSeq(h), NEW new, IsSeq(new), NEW c
    PROVE  IsPrefix(h, Append(h \o new, c))
  <1> DEFINE t == h \o new
  <1>1. /\ IsSeq(t) /\ Len(t) = Len(h) + Len(new)
        /\ \A i \in 1..Len(h) : t[i] = h[i]
    <2>1. IsJoin(t, h, new)
      BY JoinIs
    <2> QED
      BY <2>1 DEF IsJoin
  <1>2. Len(h) \in Nat /\ Len(new) \in Nat
    BY SeqIs
  <1> HIDE DEF t
  <1> DEFINE u == Append(t, c)
  <1>3. IsSeq(u) /\ Len(u) = Len(t) + 1 /\ \A i \in 1..Len(t) : u[i] = t[i]
    BY <1>1, AppendIs
  <1> HIDE DEF u
  <1>4. Len(h) <= Len(u) /\ \A i \in 1..Len(h) : u[i] = h[i]
    BY <1>1, <1>2, <1>3
  <1>5. /\ IsSeq(SubSeq(u, 1, Len(h))) /\ Len(SubSeq(u, 1, Len(h))) = Len(h)
        /\ \A i \in 1..Len(h) : SubSeq(u, 1, Len(h))[i] = u[i]
        /\ IsSeq(SubSeq(h, 1, Len(h))) /\ Len(SubSeq(h, 1, Len(h))) = Len(h)
        /\ \A i \in 1..Len(h) : SubSeq(h, 1, Len(h))[i] = h[i]
    BY <1>2, <1>3, <1>4, SubSeqIs
  <1>6. SubSeq(h, 1, Len(h)) = SubSeq(u, 1, Len(h))
    BY <1>4, <1>5, SameSeq
  <1>7. IsPrefix(h, u)
    BY <1>4, <1>6, Zenon DEF IsPrefix
  <1> QED
    BY <1>7, Zenon DEF u, t

\* The word the property speaks of is the one the hook works on.
LEMMA WordInFront ==
    ASSUME HookInv, lastForeground' = fg
    PROVE  WordIn(lastForeground') = Focused.last
  BY FocusedOK DEF HookInv, WordIn

LEMMA BeforeKept ==
    ASSUME HookInv, [Next]_vars, IsInWord(hook'.engine) \/ BackspaceInWord,
           ~config.spellCheck, ~mixed
    PROVE  Before(text[lastForeground'], WordIn(lastForeground'))
             = Before(text'[lastForeground'], hook'.last)
  <1>1. CASE UNCHANGED vars /\ ~BackspaceInWord
    BY <1>1 DEF vars, WordIn
  <1>2. CASE Untouched
    BY <1>2 DEF Untouched, KeepsWord, WordIn
  <1>3. CASE lastForeground' = fg /\ LeavesWord
    <2>1. fg \in Windows /\ Redrawn(Focused.last, hook'.last)
      BY <1>3 DEF LeavesWord
    <2>2. IsSuffix(Focused.last, text[fg])
      BY <2>1, FocusedScreen
    <2> QED
      BY <1>3, <2>1, <2>2, WordInFront DEF Redrawn
  <1>4. CASE BackspaceInWord
    <2>1. lastForeground' = fg /\ LeavesWord
      BY <1>4, BackspaceLeaves DEF BackspaceInWord, Press
    <2> QED
      BY <1>3, <2>1
  <1>5. CASE IsInWord(hook'.engine) /\ Next
    <2>1. ~EndsWord
      BY <1>5 DEF EndsWord
    <2> QED
      BY <1>2, <1>3, <1>5, <2>1, StepKinds DEF Pressed
  <1> QED
    BY <1>1, <1>4, <1>5

LEMMA MacroKeeps ==
    ASSUME HookInv, NEW ch \in TypedKeys, MacroKey(ch, Ready(ch)),
           ~config.spellCheck, ~mixed
    PROVE  IsPrefix(Before(text[lastForeground'], WordIn(lastForeground')),
                    text'[lastForeground'])
  <1> DEFINE old == Focused.last
  <1> DEFINE new == Macros[old]
  <1> DEFINE r == Replaced(Shown, old, new)
  <1>1. Ready(ch) = Focused
    BY ReadyIs DEF HookInv
  <1>2. /\ lastForeground' = fg /\ old \in DOMAIN Macros /\ Focused.count > 0
        /\ Shows(Append(r, Char(ch)))
    BY <1>1 DEF MacroKey, Expands, Refuses, Press
  <1>3. /\ TextOK /\ HookOK(Focused) /\ fg \in Windows \cup {NoWindow}
    BY FocusedOK DEF HookInv, World
  <1>4. fg \in Windows
    <2>1. IsInWord(Focused.engine)
      BY <1>2, <1>3, HookIs
    <2>2. Focused = hook /\ fg = lastForeground
      BY <2>1, FocusedOK DEF HookInv
    <2> QED
      BY <2>1, <2>2 DEF HookInv, WordSomewhere
  <1>5. IsSeq(Shown) /\ Shown = text[fg] /\ IsSuffix(old, text[fg]) /\ IsSeq(old)
    BY <1>3, <1>4, ShownIs, FocusedScreen, HookIs DEF WordEngine, EngineOK
  <1>6. IsSeq(new)
    <2>1. new \in Seq([base : STRING, tone : 0..5])
      BY <1>2, HookConstants, Zenon
    <2> HIDE DEF new
    <2> QED
      BY <2>1, Zenon DEF IsSeq
  <1> HIDE DEF new, old
  <1>7. IsSeq(Before(text[fg], old)) /\ r = Before(text[fg], old) \o new
    BY <1>5, <1>6, ReplacedIs
  <1>8. IsSeq(r)
    BY <1>5, <1>6, ReplacedSeq
  <1>9. text'[fg] = Append(r, Char(ch))
    <2>1. IsSeq(Append(r, Char(ch)))
      BY <1>8, AppendIs
    <2> DEFINE a == Append(r, Char(ch))
    <2>2. IsSeq(a) /\ Shows(a)
      BY <1>2, <2>1
    <2> HIDE DEF a
    <2>3. text'[fg] = a
      BY <1>3, <1>4, <2>2, ShowsIs
    <2> QED
      BY <2>3 DEF a
  <1>10. IsPrefix(Before(text[fg], old), text'[fg])
    BY <1>6, <1>7, <1>9, KeptInFront
  <1>11. WordIn(lastForeground') = old
    BY <1>2, WordInFront DEF old
  <1> QED
    BY <1>2, <1>10, <1>11

(* No replacement takes away text before the word in progress: neither one   *)
(* that leaves a word, nor the backspace that empties it, nor a macro.       *)
THEOREM NothingElseDeleted == Spec => TextBeforeWordKept
  <1> DEFINE Kept ==
        ~config.spellCheck /\ ~mixed
        => LET w == lastForeground' IN
           /\ IsInWord(hook'.engine) \/ BackspaceInWord
                 => Before(text[w], WordIn(w)) = Before(text'[w], hook'.last)
           /\ (\E ch \in TypedKeys : MacroKey(ch, Ready(ch)))
                 => IsPrefix(Before(text[w], WordIn(w)), text'[w])
  <1>1. Init => HookInv
    BY InvStart
  <1>2. HookInv /\ [Next]_vars => HookInv'
    BY InvStep
  <1>3. HookInv /\ [Next]_vars => [Kept]_vars
    BY BeforeKept, MacroKeeps
  <1> QED
    BY <1>1, <1>2, <1>3, PTL DEF Spec, TextBeforeWordKept

-----------------------------------------------------------------------------
(* The keys the applications hear.  Every branch of the hook either passes   *)
(* the key, and forgets it, or swallows it, and remembers it.                *)

LEMMA PassKeeps ==
    ASSUME NoReleaseWithoutPress, NEW k, Passes(k), hotkeyed' = hotkeyed
    PROVE  NoReleaseWithoutPress'
  BY DEF NoReleaseWithoutPress, Passes

LEMMA SwallowKeeps ==
    ASSUME NoReleaseWithoutPress, NEW k, Swallows(k), hotkeyed' = hotkeyed
    PROVE  NoReleaseWithoutPress'
  BY DEF NoReleaseWithoutPress, Swallows

\* A press that the hotkey takes is one that nobody has heard.
LEMMA HotkeyKeeps ==
    ASSUME NoReleaseWithoutPress, NEW k, HotkeyPress(k)
    PROVE  NoReleaseWithoutPress'
  BY DEF NoReleaseWithoutPress, HotkeyPress

(* A key of which every press was kept from all windows is not released to   *)
(* any, but for the Z of the hotkey.                                         *)
THEOREM ReleasesHavePresses == Spec => []NoReleaseWithoutPress
  <1>1. Init => NoReleaseWithoutPress
    BY DEF Init, NoReleaseWithoutPress
  <1>2. ASSUME NoReleaseWithoutPress, [Next]_vars
        PROVE  NoReleaseWithoutPress'
    <2>1. CASE KeyDown
      BY <2>1, <1>2, KeyDownParts, PassKeeps, SwallowKeeps DEF Press
    <2>2. ASSUME NEW k \in Keys, KeyUp(k)
          PROVE  NoReleaseWithoutPress'
      BY <2>2, <1>2 DEF KeyUp, NoReleaseWithoutPress
    <2>3. CASE UNCHANGED <<suppressed, unheard, hotkeyed>>
      BY <2>3, <1>2 DEF NoReleaseWithoutPress
    <2>4. \/ KeyDown
          \/ \E k \in ToggleKeys : HotkeyPress(k)
          \/ \E k \in Keys : KeyUp(k)
          \/ UNCHANGED <<suppressed, unheard, hotkeyed>>
      BY <1>2 DEF Next, vars, MouseDown, SwitchWindow, ChangeConfig, ReplayTimePasses
    <2> QED
      BY <1>2, <2>1, <2>2, <2>3, <2>4, HotkeyKeeps
  <1> QED
    BY <1>1, <1>2, PTL DEF Spec
=============================================================================
