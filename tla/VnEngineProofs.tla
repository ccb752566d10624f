--------------------------- MODULE VnEngineProofs ---------------------------
(***************************************************************************)
(* What the composition engine does to any row of keys, of any length: the *)
(* composition has at least one character and at most one for each key,    *)
(* all are letters of the method's keys with tones on vowels only, and a   *)
(* word that comes out as it was typed was so at every key before.         *)
(*                                                                         *)
(* The rules scan the keys one by one (VnEngine!Scan), so the facts are    *)
(* proved by induction over the keys: the set of the lengths for which a   *)
(* fact holds contains 0 and with each number the next.                    *)
(***************************************************************************)
EXTENDS VnEngine, FiniteSetTheorems, WellFoundedInduction, TLAPS

LEMMA SetInduction ==
    ASSUME NEW S, 0 \in S, \A n \in Nat : n \in S => n + 1 \in S
    PROVE  Nat \subseteq S
  <1> DEFINE T == Nat \ S
  <1> DEFINE R == OpToRel(<, Nat)
  <1>1. IsWellFoundedOn(R, Nat)
    BY NatLessThanWellFounded
  <1>2. \A m, n \in Nat : m < n => <<m, n>> \in R
    BY DEF OpToRel
  <1> SUFFICES ASSUME T # {}
               PROVE  FALSE
    OBVIOUS
  <1>3. T \subseteq Nat
    OBVIOUS
  <1> HIDE DEF T, R
  <1>4. PICK n \in T : \A m \in T : ~(<<m, n>> \in R)
    BY <1>1, <1>3, WFMin
  <1>5. n \in Nat /\ n \notin S /\ \A m \in Nat : m \notin S => ~(m < n)
    BY <1>2, <1>4 DEF T
  <1>6. n - 1 \in Nat /\ n - 1 < n
    BY <1>5
  <1>7. n - 1 \in S
    BY <1>5, <1>6
  <1>8. (n - 1) + 1 \in S
    BY <1>6, <1>7
  <1> QED
    BY <1>5, <1>8

-----------------------------------------------------------------------------
(* Sequences of whatever.                                                    *)

IsSeq(s) == \E S : s \in Seq(S)

LEMMA SeqIs ==
    ASSUME NEW s, IsSeq(s)
    PROVE  Len(s) \in Nat /\ DOMAIN s = 1..Len(s) /\ s = [i \in 1..Len(s) |-> s[i]]
  <1>1. PICK S : s \in Seq(S)
    BY DEF IsSeq
  <1> QED
    BY <1>1

LEMMA MadeSeq ==
    ASSUME NEW n \in Nat, NEW s, s = [i \in 1..n |-> s[i]]
    PROVE  IsSeq(s) /\ Len(s) = n /\ DOMAIN s = 1..n
  <1> DEFINE S == {s[i] : i \in 1..n}
  <1>1. s \in [1..n -> S]
    OBVIOUS
  <1> HIDE DEF S
  <1>2. s \in Seq(S)
    BY <1>1
  <1>3. Len(s) = n
    BY <1>1, <1>2
  <1> QED
    BY <1>2, <1>3, SeqIs DEF IsSeq

LEMMA SameSeq ==
    ASSUME NEW s, NEW t, IsSeq(s), IsSeq(t), Len(s) = Len(t), \A i \in 1..Len(s) : s[i] = t[i]
    PROVE  s = t
  <1>1. /\ Len(s) \in Nat /\ s = [i \in 1..Len(s) |-> s[i]] /\ t = [i \in 1..Len(s) |-> t[i]]
    BY SeqIs
  <1>2. [i \in 1..Len(s) |-> s[i]] = [i \in 1..Len(s) |-> t[i]]
    OBVIOUS
  <1> QED
    BY <1>1, <1>2

LEMMA NoElements == IsSeq(<<>>) /\ Len(<<>>) = 0
  BY DEF IsSeq

LEMMA LenZero ==
    ASSUME NEW s, IsSeq(s)
    PROVE  s = <<>> <=> Len(s) = 0
  BY SameSeq, NoElements

LEMMA AppendIs ==
    ASSUME NEW s, IsSeq(s), NEW e
    PROVE  /\ IsSeq(Append(s, e)) /\ Len(Append(s, e)) = Len(s) + 1
           /\ \A i \in 1..Len(s) : Append(s, e)[i] = s[i]
           /\ Append(s, e)[Len(s) + 1] = e
  <1>1. PICK S : s \in Seq(S)
    BY DEF IsSeq
  <1> DEFINE T == S \cup {e}
  <1>2. s \in Seq(T) /\ e \in T
    BY <1>1
  <1> HIDE DEF T
  <1>3. Append(s, e) \in Seq(T)
    BY <1>2
  <1> QED
    BY <1>2, <1>3 DEF IsSeq

LEMMA SubSeqIs ==
    ASSUME NEW s, IsSeq(s), NEW m \in Nat, m <= Len(s)
    PROVE  /\ IsSeq(SubSeq(s, 1, m)) /\ Len(SubSeq(s, 1, m)) = m
           /\ \A i \in 1..m : SubSeq(s, 1, m)[i] = s[i]
  <1>1. PICK S : s \in Seq(S)
    BY DEF IsSeq
  <1>2. SubSeq(s, 1, m) \in Seq(S)
    BY <1>1
  <1> QED
    BY <1>1, <1>2 DEF IsSeq

LEMMA LiteralIs ==
    ASSUME NEW raw, IsSeq(raw)
    PROVE  /\ IsSeq(Literal(raw)) /\ Len(Literal(raw)) = Len(raw)
           /\ \A i \in 1..Len(raw) : Literal(raw)[i] = Char(raw[i])
  <1>1. Len(raw) \in Nat /\ Literal(raw) = [i \in 1..Len(raw) |-> Char(raw[i])]
    BY SeqIs DEF Literal
  <1> HIDE DEF Literal
  <1>2. Literal(raw) = [i \in 1..Len(raw) |-> Literal(raw)[i]]
    BY <1>1
  <1> QED
    BY <1>1, <1>2, MadeSeq

-----------------------------------------------------------------------------
(* The scan of the keys.                                                     *)

IsScan(f, raw, n, cfg) ==
    f = [m \in 0..n |-> IF m = 0 THEN ScanStart ELSE ScanKey(f[m - 1], raw, m, cfg)]

LEMMA ScanSteps ==
    ASSUME NEW f, NEW raw, NEW n \in Nat, NEW cfg, IsScan(f, raw, n, cfg)
    PROVE  /\ f[0] = ScanStart
           /\ \A m \in 0..(n - 1) : f[m + 1] = ScanKey(f[m], raw, m + 1, cfg)
  <1>1. f[0] = ScanStart
    BY DEF IsScan
  <1>2. ASSUME NEW m \in 0..(n - 1)
        PROVE  f[m + 1] = ScanKey(f[m], raw, m + 1, cfg)
    <2>1. m + 1 \in 0..n /\ m + 1 # 0 /\ (m + 1) - 1 = m
      OBVIOUS
    <2>2. f[m + 1] = ScanKey(f[(m + 1) - 1], raw, m + 1, cfg)
      BY <2>1 DEF IsScan
    <2> QED
      BY <2>1, <2>2
  <1> QED
    BY <1>1, <1>2

LEMMA ScanExists ==
    ASSUME NEW raw, NEW cfg
    PROVE  \A n \in Nat : \E f : IsScan(f, raw, n, cfg)
  <1> DEFINE S == {n \in Nat : \E f : IsScan(f, raw, n, cfg)}
  <1>1. 0 \in S
    <2> DEFINE f == [m \in 0..0 |-> ScanStart]
    <2>1. IsScan(f, raw, 0, cfg)
      BY DEF IsScan
    <2> QED
      BY <2>1
  <1>2. ASSUME NEW n \in Nat, n \in S
        PROVE  n + 1 \in S
    <2>1. PICK f : IsScan(f, raw, n, cfg)
      BY <1>2
    <2> DEFINE g == [m \in 0..(n + 1) |-> IF m = n + 1 THEN ScanKey(f[n], raw, n + 1, cfg) ELSE f[m]]
    <2>2. ASSUME NEW m \in 0..(n + 1)
          PROVE  g[m] = IF m = 0 THEN ScanStart ELSE ScanKey(g[m - 1], raw, m, cfg)
      <3>1. CASE m = n + 1
        BY <3>1
      <3>2. CASE m # n + 1
        <4>1. m \in 0..n /\ (m # 0 => m - 1 \in 0..n /\ m - 1 # n + 1)
          BY <3>2
        <4>2. f[m] = IF m = 0 THEN ScanStart ELSE ScanKey(f[m - 1], raw, m, cfg)
          BY <2>1, <4>1 DEF IsScan
        <4>3. g[m] = f[m] /\ (m # 0 => g[m - 1] = f[m - 1])
          BY <3>2, <4>1
        <4> HIDE DEF g
        <4> QED
          BY <4>2, <4>3
      <3> QED
        BY <3>1, <3>2
    <2>3. IsScan(g, raw, n + 1, cfg)
      <3>1. g = [m \in 0..(n + 1) |-> g[m]]
        OBVIOUS
      <3> HIDE DEF g
      <3> QED
        BY <2>2, <3>1 DEF IsScan
    <2> QED
      BY <2>3
  <1> HIDE DEF S
  <1>3. Nat \subseteq S
    BY <1>1, <1>2, SetInduction
  <1> QED
    BY <1>3 DEF S

\* The function that Scan defines.
Scanned(raw, cfg) ==
    CHOOSE f : f = [n \in 0..Len(raw) |->
                       IF n = 0 THEN ScanStart ELSE ScanKey(f[n - 1], raw, n, cfg)]

LEMMA ScanIs ==
    ASSUME NEW raw, IsSeq(raw), NEW cfg
    PROVE  /\ IsScan(Scanned(raw, cfg), raw, Len(raw), cfg)
           /\ Scan(raw, cfg) = Scanned(raw, cfg)[Len(raw)]
  <1>1. Len(raw) \in Nat
    BY SeqIs
  <1>2. \E f : f = [n \in 0..Len(raw) |->
                       IF n = 0 THEN ScanStart ELSE ScanKey(f[n - 1], raw, n, cfg)]
    <2>1. PICK f : IsScan(f, raw, Len(raw), cfg)
      BY <1>1, ScanExists
    <2> QED
      BY <2>1, Zenon DEF IsScan
  <1>3. IsScan(Scanned(raw, cfg), raw, Len(raw), cfg)
    BY <1>2 DEF Scanned, IsScan
  <1>4. Scan(raw, cfg) = Scanned(raw, cfg)[Len(raw)]
    BY DEF Scan, Scanned
  <1> QED
    BY <1>3, <1>4

-----------------------------------------------------------------------------
(* One key.                                                                  *)

LEMMA Least ==
    ASSUME NEW S, S \subseteq Nat, S # {}
    PROVE  \E n \in S : \A m \in S : n <= m
  <1> DEFINE R == OpToRel(<, Nat)
  <1>1. IsWellFoundedOn(R, Nat)
    BY NatLessThanWellFounded
  <1>2. \A m, n \in Nat : m < n => <<m, n>> \in R
    BY DEF OpToRel
  <1> HIDE DEF R
  <1>3. PICK n \in S : \A m \in S : ~(<<m, n>> \in R)
    BY <1>1, WFMin
  <1>4. ASSUME NEW m \in S
        PROVE  n <= m
    <2>1. m \in Nat /\ n \in Nat /\ ~(<<m, n>> \in R)
      BY <1>3
    <2>2. ~(m < n)
      BY <1>2, <2>1
    <2> QED
      BY <2>1, <2>2
  <1> QED
    BY <1>4

LEMMA MinIs ==
    ASSUME NEW S, S \subseteq Nat, S # {}
    PROVE  Min(S) \in S
  BY Least DEF Min

\* A character of the composition.
IsChar(c) == c = [base |-> c.base, tone |-> c.tone] /\ c.tone \in 0..5

LEMMA CharIs == \A ch : IsChar(Char(ch))
  <1> SUFFICES ASSUME NEW ch
               PROVE  IsChar(Char(ch))
    OBVIOUS
  <1>1. CASE ch \in DOMAIN Accented
    <2> DEFINE toned == [base : Vowels, tone : 1..5]
    <2>1. Accented = [n \in {Name(c) : c \in toned} |-> CHOOSE c \in toned : Name(c) = n]
      BY DEF Accented
    <2> HIDE DEF toned
    <2>2. ch \in {Name(c) : c \in toned}
      BY <1>1, <2>1
    <2>3. Accented[ch] = CHOOSE c \in toned : Name(c) = ch
      BY <2>1, <2>2
    <2>4. Accented[ch] \in toned
      BY <2>2, <2>3
    <2>5. IsChar(Accented[ch])
      BY <2>4 DEF toned, IsChar
    <2> QED
      BY <1>1, <2>5 DEF Char
  <1>2. CASE ch \notin DOMAIN Accented
    BY <1>2 DEF Char, IsChar
  <1> QED
    BY <1>1, <1>2

Chars(text) == \A i \in 1..Len(text) : IsChar(text[i])

\* A word being scanned.
WordOK(w) ==
    /\ w = [text |-> w.text, tone |-> w.tone, escaped |-> w.escaped]
    /\ IsSeq(w.text) /\ Chars(w.text)
    /\ w.tone \in Int /\ NoTone <= w.tone /\ w.tone <= 5

LEMMA ToneAskedIs ==
    ASSUME NEW raw, NEW n \in Nat, NEW method
    PROVE  /\ ToneAsked(raw, n, method) \in Int
           /\ NoTone <= ToneAsked(raw, n, method) /\ ToneAsked(raw, n, method) <= 5
           /\ n = 1 => ToneAsked(raw, n, method) = NoTone
  <1> DEFINE ch == raw[n]
  <1>1. CASE method = "TELEX" /\ ch \in DOMAIN TelexTones /\ ~IsPartOfInitial(raw, n)
    <2>1. ToneAsked(raw, n, method) = TelexTones[ch]
      BY <1>1 DEF ToneAsked
    <2>2. TelexTones[ch] \in 0..5
      BY <1>1 DEF TelexTones
    <2>3. n # 1
      BY <1>1 DEF IsPartOfInitial
    <2> QED
      BY <2>1, <2>2, <2>3 DEF NoTone
  <1>2. CASE method = "VNI" /\ ch \in VniTones /\ n > 1
    <2> DEFINE S == {t \in 0..5 : ch = <<"0", "1", "2", "3", "4", "5">>[t + 1]}
    <2>1. ToneAsked(raw, n, method) = Min(S)
      BY <1>2 DEF ToneAsked
    <2>2. S # {}
      <3>1. ch = <<"0", "1", "2", "3", "4", "5">>[0 + 1] \/ ch = <<"0", "1", "2", "3", "4", "5">>[1 + 1]
            \/ ch = <<"0", "1", "2", "3", "4", "5">>[2 + 1] \/ ch = <<"0", "1", "2", "3", "4", "5">>[3 + 1]
            \/ ch = <<"0", "1", "2", "3", "4", "5">>[4 + 1] \/ ch = <<"0", "1", "2", "3", "4", "5">>[5 + 1]
        BY <1>2 DEF VniTones
      <3>2. 0 \in 0..5 /\ 1 \in 0..5 /\ 2 \in 0..5 /\ 3 \in 0..5 /\ 4 \in 0..5 /\ 5 \in 0..5
        OBVIOUS
      <3> QED
        BY <3>1, <3>2
    <2>3. S \subseteq 0..5 /\ S \subseteq Nat
      OBVIOUS
    <2> HIDE DEF S
    <2>4. Min(S) \in 0..5
      BY <2>2, <2>3, MinIs
    <2> QED
      BY <1>2, <2>1, <2>4 DEF NoTone
  <1>3. CASE method = "VIQR" /\ n > 1 /\ \E t \in 1..5 : ViqrTones[t] = ch
    <2> DEFINE S == {t \in 1..5 : ViqrTones[t] = ch}
    <2>1. ToneAsked(raw, n, method) = Min(S)
      BY <1>3 DEF ToneAsked
    <2>2. S # {} /\ S \subseteq 1..5 /\ S \subseteq Nat
      BY <1>3
    <2> HIDE DEF S
    <2>3. Min(S) \in 1..5
      BY <2>2, MinIs
    <2> QED
      BY <1>3, <2>1, <2>3 DEF NoTone
  <1>4. CASE /\ ~(method = "TELEX" /\ ch \in DOMAIN TelexTones /\ ~IsPartOfInitial(raw, n))
             /\ ~(method = "VNI" /\ ch \in VniTones /\ n > 1)
             /\ ~(method = "VIQR" /\ n > 1 /\ \E t \in 1..5 : ViqrTones[t] = ch)
    <2>1. ToneAsked(raw, n, method) = NoTone
      BY <1>4 DEF ToneAsked
    <2> QED
      BY <2>1 DEF NoTone
  <1> QED
    BY <1>1, <1>2, <1>3, <1>4

\* Nothing is marked in an empty word.
LEMMA NothingMarked ==
    ASSUME NEW ch, NEW n, NEW method
    PROVE  Marked(<<>>, ch, n, method) = 0
  <1>1. \A letters : LastOf(<<>>, letters) = 0
    <2>1. DOMAIN <<>> = {}
      OBVIOUS
    <2> QED
      BY <2>1 DEF LastOf
  <1> QED
    BY <1>1 DEF Marked

LEMMA AppendedIs ==
    ASSUME NEW w, WordOK(w), NEW ch
    PROVE  /\ WordOK(Appended(w, ch)) /\ Appended(w, ch).tone = w.tone
           /\ Appended(w, ch).text = Append(w.text, Char(ch))
           /\ Len(Appended(w, ch).text) = Len(w.text) + 1
  <1>1. /\ w = [text |-> w.text, tone |-> w.tone, escaped |-> w.escaped]
        /\ IsSeq(w.text) /\ Chars(w.text) /\ w.tone \in Int /\ NoTone <= w.tone /\ w.tone <= 5
    BY DEF WordOK
  <1>2. Appended(w, ch) = [text |-> Append(w.text, Char(ch)), tone |-> w.tone, escaped |-> w.escaped]
    BY <1>1 DEF Appended
  <1>3. /\ IsSeq(Append(w.text, Char(ch))) /\ Len(Append(w.text, Char(ch))) = Len(w.text) + 1
        /\ \A i \in 1..Len(w.text) : Append(w.text, Char(ch))[i] = w.text[i]
        /\ Append(w.text, Char(ch))[Len(w.text) + 1] = Char(ch)
    BY <1>1, AppendIs
  <1>4. Chars(Append(w.text, Char(ch)))
    BY <1>1, <1>3, CharIs, SeqIs DEF Chars
  <1> QED
    BY <1>1, <1>2, <1>3, <1>4 DEF WordOK

Escaped(v) == [v EXCEPT !.tone = NoTone, !.escaped = TRUE]

LEMMA TwoFields ==
    ASSUME NEW u, NEW x, NEW t, NEW e, u = [text |-> x, tone |-> t, escaped |-> e]
    PROVE  Escaped(u) = [text |-> x, tone |-> NoTone, escaped |-> TRUE]
  <1> DEFINE yes == TRUE
  <1> DEFINE v == [u EXCEPT !.tone = NoTone]
  <1> HIDE DEF yes
  <1>1. v = [text |-> x, tone |-> NoTone, escaped |-> e]
    OBVIOUS
  <1>2. [u EXCEPT !.tone = NoTone, !.escaped = yes] = [v EXCEPT !.escaped = yes]
    OBVIOUS
  <1> HIDE DEF v
  <1>3. [v EXCEPT !.escaped = yes] = [text |-> x, tone |-> NoTone, escaped |-> yes]
    BY <1>1
  <1>4. [u EXCEPT !.tone = NoTone, !.escaped = yes]
          = [text |-> x, tone |-> NoTone, escaped |-> yes]
    BY <1>2, <1>3, Zenon
  <1> QED
    BY <1>4 DEF yes, Escaped

LEMMA EscapedIs ==
    ASSUME NEW v, WordOK(v)
    PROVE  WordOK(Escaped(v)) /\ Escaped(v).text = v.text /\ Escaped(v).tone = NoTone
  <1>1. \E x, t, e : v = [text |-> x, tone |-> t, escaped |-> e]
    BY DEF WordOK
  <1>2. PICK x, t, e : v = [text |-> x, tone |-> t, escaped |-> e]
    BY <1>1
  <1>3. Escaped(v) = [text |-> x, tone |-> NoTone, escaped |-> TRUE]
    BY <1>2, TwoFields
  <1>4. NoTone \in Int /\ NoTone <= NoTone /\ NoTone <= 5
    BY DEF NoTone
  <1>5. IsSeq(x) /\ Chars(x) /\ v.text = x
    BY <1>2 DEF WordOK
  <1> QED
    BY <1>3, <1>4, <1>5 DEF WordOK

LEMMA MarkIs ==
    ASSUME NEW text, IsSeq(text), Chars(text), NEW i, NEW ch
    PROVE  IsSeq(Mark(text, i, ch)) /\ Len(Mark(text, i, ch)) = Len(text) /\ Chars(Mark(text, i, ch))
  <1>1. Len(text) \in Nat /\ DOMAIN text = 1..Len(text)
    BY SeqIs
  <1>2. /\ Mark(text, i, ch) = [j \in 1..Len(text) |-> Mark(text, i, ch)[j]]
        /\ \A j \in 1..Len(text) : Mark(text, i, ch)[j] = text[j] \/ \E c : Mark(text, i, ch)[j] = Char(c)
    BY <1>1 DEF Mark
  <1>3. IsSeq(Mark(text, i, ch)) /\ Len(Mark(text, i, ch)) = Len(text)
    BY <1>1, <1>2, MadeSeq
  <1>4. Chars(Mark(text, i, ch))
    BY <1>2, <1>3, CharIs DEF Chars
  <1> QED
    BY <1>3, <1>4

\* A key makes the word one character longer, its own, or no longer.
LEMMA ScanKeyIs ==
    ASSUME NEW w, WordOK(w), NEW raw, NEW n \in Nat, NEW cfg
    PROVE  LET r == ScanKey(w, raw, n, cfg) IN
           /\ WordOK(r)
           /\ \/ Len(r.text) = Len(w.text)
              \/ /\ Len(r.text) = Len(w.text) + 1
                 /\ r.text = Append(w.text, Char(raw[n]))
                 /\ r.tone \in {w.tone, NoTone}
           /\ n = 1 /\ w.text = <<>> => Len(r.text) = Len(w.text) + 1
  <1> DEFINE r == ScanKey(w, raw, n, cfg)
  <1> DEFINE tone == ToneAsked(raw, n, cfg.method)
  <1> DEFINE i == Marked(w.text, raw[n], n, cfg.method)
  <1> DEFINE Grows(v) == /\ WordOK(v) /\ Len(v.text) = Len(w.text) + 1
                         /\ v.text = Append(w.text, Char(raw[n]))
                         /\ v.tone \in {w.tone, NoTone}
  <1> DEFINE Stays(v) == WordOK(v) /\ Len(v.text) = Len(w.text)
  <1>1. /\ w = [text |-> w.text, tone |-> w.tone, escaped |-> w.escaped]
        /\ IsSeq(w.text) /\ Chars(w.text) /\ w.tone \in Int /\ NoTone <= w.tone /\ w.tone <= 5
    BY DEF WordOK
  <1>2. Grows(Appended(w, raw[n]))
    BY AppendedIs
  <1>3. CASE tone # NoTone
    <2>1. r = ToneKey(w, raw[n], tone, cfg.freeTone)
      BY <1>3 DEF ScanKey
    <2>2. tone \in Int /\ NoTone <= tone /\ tone <= 5 /\ n # 1
      BY <1>3, ToneAskedIs
    <2> HIDE DEF tone
    <2>3. Grows(Escaped(Appended(w, raw[n])))
      BY <1>2, EscapedIs
    <2>4. Stays([w EXCEPT !.tone = tone])
      <3>1. [w EXCEPT !.tone = tone] = [text |-> w.text, tone |-> tone, escaped |-> w.escaped]
        BY <1>1
      <3> QED
        BY <1>1, <2>2, <3>1 DEF WordOK
    <2>5. Grows(r) \/ Stays(r)
      <3>1. \/ r = Appended(w, raw[n])
            \/ r = Escaped(Appended(w, raw[n]))
            \/ r = [w EXCEPT !.tone = tone]
        BY <2>1 DEF ToneKey, Escaped
      <3> HIDE DEF r, Grows, Stays
      <3> QED
        BY <1>2, <2>3, <2>4, <3>1
    <2> QED
      BY <2>2, <2>5
  <1>4. CASE tone = NoTone /\ i # 0
    <2>1. r = [w EXCEPT !.text = Mark(w.text, i, raw[n])]
      BY <1>4 DEF ScanKey
    <2>2. r = [text |-> Mark(w.text, i, raw[n]), tone |-> w.tone, escaped |-> w.escaped]
      BY <1>1, <2>1
    <2>3. w.text # <<>>
      BY <1>4, NothingMarked
    <2> HIDE DEF i
    <2>4. IsSeq(Mark(w.text, i, raw[n])) /\ Len(Mark(w.text, i, raw[n])) = Len(w.text)
          /\ Chars(Mark(w.text, i, raw[n]))
      BY <1>1, MarkIs
    <2>5. Stays(r)
      BY <1>1, <2>2, <2>4 DEF WordOK
    <2> QED
      BY <2>3, <2>5
  <1>5. CASE tone = NoTone /\ i = 0
    <2>1. r = Appended(w, raw[n])
      BY <1>5 DEF ScanKey
    <2> QED
      BY <1>2, <2>1
  <1> QED
    BY <1>3, <1>4, <1>5

\* The effect of a key depends on it and the key before.
LEMMA SameScanKey ==
    ASSUME NEW w, NEW raw, NEW other, NEW n \in Nat, NEW cfg,
           raw[n] = other[n], n > 1 => raw[n - 1] = other[n - 1], n > 0
    PROVE  ScanKey(w, raw, n, cfg) = ScanKey(w, other, n, cfg)
  <1>1. IsPartOfInitial(raw, n) <=> IsPartOfInitial(other, n)
    BY DEF IsPartOfInitial
  <1>2. ToneAsked(raw, n, cfg.method) = ToneAsked(other, n, cfg.method)
    BY <1>1 DEF ToneAsked
  <1> QED
    BY <1>2 DEF ScanKey

-----------------------------------------------------------------------------
(* All keys, by induction.                                                   *)

\* The word after m keys: a key that did something else than add its
\* character has left the word shorter for good.
AfterKeys(w, raw, m) ==
    /\ WordOK(w)
    /\ Len(w.text) <= m
    /\ m > 0 => Len(w.text) > 0
    /\ Len(w.text) = m => w.tone = NoTone /\ \A i \in 1..m : w.text[i] = Char(raw[i])

LEMMA StartIs == ASSUME NEW raw PROVE AfterKeys(ScanStart, raw, 0)
  <1>1. ScanStart.text = <<>> /\ ScanStart.tone = NoTone /\ ScanStart.escaped = FALSE
        /\ ScanStart = [text |-> <<>>, tone |-> NoTone, escaped |-> FALSE]
    BY DEF ScanStart
  <1>2. IsSeq(<<>>) /\ Len(<<>>) = 0 /\ Chars(<<>>)
    BY NoElements DEF Chars
  <1>3. NoTone \in Int /\ NoTone <= NoTone /\ NoTone <= 5
    BY DEF NoTone
  <1>4. ScanStart = [text |-> ScanStart.text, tone |-> ScanStart.tone, escaped |-> ScanStart.escaped]
    BY DEF ScanStart
  <1>5. WordOK(ScanStart)
    BY <1>1, <1>2, <1>3, <1>4 DEF WordOK
  <1> QED
    BY <1>1, <1>2, <1>5 DEF AfterKeys

LEMMA OneKey ==
    ASSUME NEW w, NEW raw, NEW m \in Nat, AfterKeys(w, raw, m), NEW cfg
    PROVE  AfterKeys(ScanKey(w, raw, m + 1, cfg), raw, m + 1)
  <1> DEFINE r == ScanKey(w, raw, m + 1, cfg)
  <1>1. /\ WordOK(r)
        /\ \/ Len(r.text) = Len(w.text)
           \/ /\ Len(r.text) = Len(w.text) + 1
              /\ r.text = Append(w.text, Char(raw[m + 1]))
              /\ r.tone \in {w.tone, NoTone}
        /\ m + 1 = 1 /\ w.text = <<>> => Len(r.text) = Len(w.text) + 1
    <2>1. WordOK(w) /\ m + 1 \in Nat
      BY DEF AfterKeys
    <2> DEFINE k == m + 1
    <2> HIDE DEF k
    <2>2. k \in Nat
      BY <2>1 DEF k
    <2>3. LET s == ScanKey(w, raw, k, cfg) IN
          /\ WordOK(s)
          /\ \/ Len(s.text) = Len(w.text)
             \/ /\ Len(s.text) = Len(w.text) + 1
                /\ s.text = Append(w.text, Char(raw[k]))
                /\ s.tone \in {w.tone, NoTone}
          /\ k = 1 /\ w.text = <<>> => Len(s.text) = Len(w.text) + 1
      BY <2>1, <2>2, ScanKeyIs
    <2> QED
      BY <2>3 DEF k
  <1> HIDE DEF r
  <1>2. /\ IsSeq(w.text) /\ Len(w.text) \in Nat /\ Len(w.text) <= m
        /\ m > 0 => Len(w.text) > 0
        /\ m = 0 => w.text = <<>> /\ Len(w.text) = 0
        /\ Len(w.text) = m => w.tone = NoTone /\ \A i \in 1..m : w.text[i] = Char(raw[i])
    BY SeqIs, LenZero DEF AfterKeys, WordOK
  <1>3. Len(r.text) \in Nat
    BY <1>1, <1>2
  <1>4. Len(r.text) <= m + 1 /\ Len(r.text) > 0
    BY <1>1, <1>2, <1>3
  <1>5. ASSUME Len(r.text) = m + 1
        PROVE  r.tone = NoTone /\ \A i \in 1..(m + 1) : r.text[i] = Char(raw[i])
    <2>1. /\ Len(w.text) = m
          /\ r.text = Append(w.text, Char(raw[m + 1]))
          /\ r.tone = NoTone
      BY <1>1, <1>2, <1>5
    <2>2. /\ \A i \in 1..m : r.text[i] = w.text[i]
          /\ r.text[m + 1] = Char(raw[m + 1])
      BY <1>2, <2>1, AppendIs
    <2> QED
      BY <1>2, <2>1, <2>2
  <1>6. AfterKeys(r, raw, m + 1)
    BY <1>1, <1>4, <1>5 DEF AfterKeys
  <1> QED
    BY <1>6 DEF r

LEMMA ScanKeeps ==
    ASSUME NEW f, NEW raw, NEW n \in Nat, NEW cfg, IsScan(f, raw, n, cfg)
    PROVE  \A m \in 0..n : AfterKeys(f[m], raw, m)
  <1> DEFINE S == {m \in Nat : m <= n => AfterKeys(f[m], raw, m)}
  <1>1. 0 \in S
    BY ScanSteps, StartIs
  <1>2. ASSUME NEW m \in Nat, m \in S
        PROVE  m + 1 \in S
    <2> SUFFICES ASSUME m + 1 <= n
                 PROVE  AfterKeys(f[m + 1], raw, m + 1)
      OBVIOUS
    <2>1. AfterKeys(f[m], raw, m) /\ m \in 0..(n - 1)
      BY <1>2
    <2>2. f[m + 1] = ScanKey(f[m], raw, m + 1, cfg)
      BY <2>1, ScanSteps
    <2>3. AfterKeys(ScanKey(f[m], raw, m + 1, cfg), raw, m + 1)
      BY <2>1, OneKey
    <2> QED
      BY <2>2, <2>3
  <1> HIDE DEF S
  <1>3. Nat \subseteq S
    BY <1>1, <1>2, SetInduction
  <1>4. ASSUME NEW m \in 0..n
        PROVE  AfterKeys(f[m], raw, m)
    BY <1>3 DEF S
  <1> QED
    BY <1>4

\* The word after the first keys does not depend on those that follow.
LEMMA ScanPrefix ==
    ASSUME NEW raw, NEW other, NEW n \in Nat, NEW k \in Nat, n <= k, NEW cfg,
           \A i \in 1..n : raw[i] = other[i],
           NEW f, IsScan(f, raw, n, cfg), NEW g, IsScan(g, other, k, cfg)
    PROVE  f[n] = g[n]
  <1> DEFINE S == {m \in Nat : m <= n => f[m] = g[m]}
  <1>1. 0 \in S
    BY ScanSteps
  <1>2. ASSUME NEW m \in Nat, m \in S
        PROVE  m + 1 \in S
    <2> SUFFICES ASSUME m + 1 <= n
                 PROVE  f[m + 1] = g[m + 1]
      OBVIOUS
    <2>1. f[m] = g[m] /\ m \in 0..(n - 1) /\ m \in 0..(k - 1)
      BY <1>2
    <2>2. f[m + 1] = ScanKey(f[m], raw, m + 1, cfg)
      BY <2>1, ScanSteps
    <2>3. g[m + 1] = ScanKey(g[m], other, m + 1, cfg)
      <3>1. \A j \in 0..(k - 1) : g[j + 1] = ScanKey(g[j], other, j + 1, cfg)
        BY ScanSteps
      <3> QED
        BY <2>1, <3>1
    <2>4. /\ raw[m + 1] = other[m + 1]
          /\ m + 1 > 1 => raw[(m + 1) - 1] = other[(m + 1) - 1]
          /\ m + 1 > 0
      OBVIOUS
    <2>5. ScanKey(f[m], raw, m + 1, cfg) = ScanKey(f[m], other, m + 1, cfg)
      BY <2>4, SameScanKey
    <2> QED
      BY <2>1, <2>2, <2>3, <2>5
  <1> HIDE DEF S
  <1>3. Nat \subseteq S
    BY <1>1, <1>2, SetInduction
  <1> QED
    BY <1>3 DEF S

-----------------------------------------------------------------------------
(* The composition.                                                          *)

LEMMA TonedIs ==
    ASSUME NEW text, IsSeq(text), Chars(text),
           NEW tone \in Int, NoTone <= tone, tone <= 5, NEW toneType
    PROVE  LET r == ApplyTone(text, tone, toneType) IN
           /\ IsSeq(r) /\ Len(r) = Len(text) /\ Chars(r)
           /\ tone = NoTone => r = text
  <1> DEFINE r == ApplyTone(text, tone, toneType)
  <1>1. CASE tone = NoTone \/ VowelsOf(text) = {}
    <2>1. r = text
      BY <1>1 DEF ApplyTone
    <2> QED
      BY <2>1
  <1>2. CASE tone # NoTone /\ VowelsOf(text) # {}
    <2> DEFINE target == ToneTarget(text, toneType)
    <2>1. r = [i \in DOMAIN text |-> [text[i] EXCEPT !.tone = IF i = target THEN tone ELSE 0]]
      BY <1>2 DEF ApplyTone
    <2>2. Len(text) \in Nat /\ DOMAIN text = 1..Len(text)
      BY SeqIs
    <2> HIDE DEF target, r
    <2>3. tone \in 0..5
      BY <1>2 DEF NoTone
    <2>4. ASSUME NEW i \in 1..Len(text)
          PROVE  IsChar(r[i])
      <3> DEFINE t == IF i = target THEN tone ELSE 0
      <3>1. r[i] = [text[i] EXCEPT !.tone = t]
        BY <2>1, <2>2
      <3>2. t \in 0..5
        BY <2>3
      <3> HIDE DEF t
      <3>3. text[i] = [base |-> text[i].base, tone |-> text[i].tone]
        BY DEF Chars, IsChar
      <3>4. [text[i] EXCEPT !.tone = t] = [base |-> text[i].base, tone |-> t]
        BY <3>3
      <3> QED
        BY <3>1, <3>2, <3>4 DEF IsChar
    <2>5. r = [i \in 1..Len(text) |-> r[i]]
      BY <2>1, <2>2
    <2>6. IsSeq(r) /\ Len(r) = Len(text)
      BY <2>2, <2>5, MadeSeq
    <2>7. Chars(r)
      BY <2>4, <2>6 DEF Chars
    <2> QED
      BY <1>2, <2>6, <2>7 DEF r
  <1> QED
    BY <1>1, <1>2

LEMMA ScannedIs ==
    ASSUME NEW raw, IsSeq(raw), NEW cfg
    PROVE  AfterKeys(Scan(raw, cfg), raw, Len(raw)) /\ Len(raw) \in Nat
  <1>1. Len(raw) \in Nat
    BY SeqIs
  <1>2. /\ IsScan(Scanned(raw, cfg), raw, Len(raw), cfg)
        /\ Scan(raw, cfg) = Scanned(raw, cfg)[Len(raw)]
    BY ScanIs
  <1>3. AfterKeys(Scanned(raw, cfg)[Len(raw)], raw, Len(raw))
    BY <1>1, <1>2, ScanKeeps
  <1> QED
    BY <1>1, <1>2, <1>3

(* What the engine shows for the keys raw: a row of characters, at most one  *)
(* for each key, and at least one.                                           *)
THEOREM ComposedIs ==
    ASSUME NEW raw, IsSeq(raw), NEW cfg
    PROVE  LET comp == ApplyRules(raw, cfg) IN
           /\ IsSeq(comp) /\ Chars(comp) /\ Len(comp) <= Len(raw)
           /\ comp = <<>> <=> raw = <<>>
  <1> DEFINE w == Scan(raw, cfg)
  <1> DEFINE comp == ApplyRules(raw, cfg)
  <1>1. AfterKeys(w, raw, Len(raw)) /\ Len(raw) \in Nat
    BY ScannedIs
  <1>2. comp = ApplyTone(w.text, w.tone, cfg.toneType)
    BY DEF ApplyRules
  <1> HIDE DEF w, comp
  <1>3. /\ IsSeq(w.text) /\ Chars(w.text)
        /\ w.tone \in Int /\ NoTone <= w.tone /\ w.tone <= 5
        /\ Len(w.text) <= Len(raw) /\ (Len(raw) > 0 => Len(w.text) > 0)
        /\ Len(w.text) \in Nat
    BY <1>1, SeqIs DEF AfterKeys, WordOK
  <1>4. IsSeq(comp) /\ Len(comp) = Len(w.text) /\ Chars(comp)
    BY <1>2, <1>3, TonedIs
  <1>5. (comp = <<>> <=> Len(comp) = 0) /\ (raw = <<>> <=> Len(raw) = 0)
    BY <1>4, LenZero
  <1> QED
    BY <1>1, <1>3, <1>4, <1>5 DEF comp

\* The composition is the keys themselves exactly when every key added its
\* own character.
LEMMA LiteralWhen ==
    ASSUME NEW raw, IsSeq(raw), NEW cfg
    PROVE  ApplyRules(raw, cfg) = Literal(raw) <=> Len(Scan(raw, cfg).text) = Len(raw)
  <1> DEFINE w == Scan(raw, cfg)
  <1> DEFINE comp == ApplyRules(raw, cfg)
  <1>1. AfterKeys(w, raw, Len(raw)) /\ Len(raw) \in Nat
    BY ScannedIs
  <1>2. comp = ApplyTone(w.text, w.tone, cfg.toneType)
    BY DEF ApplyRules
  <1> HIDE DEF w, comp
  <1>3. /\ IsSeq(w.text) /\ Chars(w.text)
        /\ w.tone \in Int /\ NoTone <= w.tone /\ w.tone <= 5
        /\ Len(w.text) = Len(raw) => w.tone = NoTone /\ \A i \in 1..Len(raw) : w.text[i] = Char(raw[i])
    BY <1>1 DEF AfterKeys, WordOK
  <1>4. IsSeq(comp) /\ Len(comp) = Len(w.text) /\ (w.tone = NoTone => comp = w.text)
    BY <1>2, <1>3, TonedIs
  <1>5. /\ IsSeq(Literal(raw)) /\ Len(Literal(raw)) = Len(raw)
        /\ \A i \in 1..Len(raw) : Literal(raw)[i] = Char(raw[i])
    BY LiteralIs
  <1>6. ASSUME Len(w.text) = Len(raw)
        PROVE  comp = Literal(raw)
    <2>1. comp = w.text /\ \A i \in 1..Len(raw) : w.text[i] = Char(raw[i])
      BY <1>3, <1>4, <1>6
    <2> QED
      BY <1>3, <1>5, <1>6, <2>1, SameSeq
  <1>7. ASSUME comp = Literal(raw)
        PROVE  Len(w.text) = Len(raw)
    BY <1>4, <1>5, <1>7
  <1>8. comp = Literal(raw) <=> Len(w.text) = Len(raw)
    BY <1>6, <1>7
  <1> QED
    BY <1>8 DEF comp, w

(* A word that comes out as typed was so before its last key: what the       *)
(* engine has transformed stays transformed while keys are added.            *)
THEOREM LiteralBefore ==
    ASSUME NEW raw, IsSeq(raw), NEW ch, NEW cfg,
           ApplyRules(Append(raw, ch), cfg) = Literal(Append(raw, ch))
    PROVE  ApplyRules(raw, cfg) = Literal(raw)
  <1> DEFINE new == Append(raw, ch)
  <1> DEFINE n == Len(raw)
  <1> DEFINE w == Scan(raw, cfg)
  <1> DEFINE v == Scan(new, cfg)
  <1>1. /\ IsSeq(new) /\ Len(new) = n + 1 /\ n \in Nat
        /\ \A i \in 1..n : raw[i] = new[i]
    BY AppendIs, SeqIs
  <1>2. Len(v.text) = n + 1
    BY <1>1, LiteralWhen
  <1> HIDE DEF new
  <1>3. /\ IsScan(Scanned(raw, cfg), raw, n, cfg) /\ w = Scanned(raw, cfg)[n]
        /\ IsScan(Scanned(new, cfg), new, n + 1, cfg) /\ v = Scanned(new, cfg)[n + 1]
    BY <1>1, ScanIs
  <1>4. w = Scanned(new, cfg)[n]
    <2> HIDE DEF w, v
    <2>1. n <= n + 1 /\ n + 1 \in Nat
      BY <1>1
    <2> QED
      BY <1>1, <1>3, <2>1, ScanPrefix
  <1>5. v = ScanKey(w, new, n + 1, cfg)
    <2>1. n \in 0..((n + 1) - 1) /\ n + 1 \in Nat
      BY <1>1
    <2> HIDE DEF w, v
    <2> QED
      BY <1>3, <1>4, <2>1, ScanSteps
  <1>6. AfterKeys(w, raw, n)
    BY ScannedIs
  <1> HIDE DEF w, v
  <1>7. WordOK(w) /\ Len(w.text) \in Nat /\ Len(w.text) <= n /\ n + 1 \in Nat
    BY <1>1, <1>6, SeqIs DEF AfterKeys, WordOK
  <1>8. Len(v.text) = Len(w.text) \/ Len(v.text) = Len(w.text) + 1
    BY <1>5, <1>7, ScanKeyIs
  <1>9. Len(w.text) = n
    BY <1>1, <1>2, <1>7, <1>8
  <1> QED
    BY <1>9, LiteralWhen DEF w

LEMMA LiteralAppend ==
    ASSUME NEW raw, IsSeq(raw), NEW ch
    PROVE  Literal(Append(raw, ch)) = Append(Literal(raw), Char(ch))
  <1> DEFINE s == Literal(Append(raw, ch))
  <1> DEFINE t == Append(Literal(raw), Char(ch))
  <1>1. /\ IsSeq(Append(raw, ch)) /\ Len(Append(raw, ch)) = Len(raw) + 1 /\ Len(raw) \in Nat
        /\ \A i \in 1..Len(raw) : Append(raw, ch)[i] = raw[i]
        /\ Append(raw, ch)[Len(raw) + 1] = ch
    BY AppendIs, SeqIs
  <1>2. /\ IsSeq(s) /\ Len(s) = Len(raw) + 1
        /\ \A i \in 1..(Len(raw) + 1) : s[i] = Char(Append(raw, ch)[i])
    BY <1>1, LiteralIs
  <1>3. /\ IsSeq(Literal(raw)) /\ Len(Literal(raw)) = Len(raw)
        /\ \A i \in 1..Len(raw) : Literal(raw)[i] = Char(raw[i])
    BY LiteralIs
  <1>4. /\ IsSeq(t) /\ Len(t) = Len(raw) + 1
        /\ \A i \in 1..Len(raw) : t[i] = Literal(raw)[i]
        /\ t[Len(raw) + 1] = Char(ch)
    BY <1>3, AppendIs
  <1> HIDE DEF s, t
  <1>5. \A i \in 1..(Len(raw) + 1) : s[i] = t[i]
    BY <1>1, <1>2, <1>3, <1>4
  <1>6. s = t
    BY <1>1, <1>2, <1>4, <1>5, SameSeq
  <1> QED
    BY <1>6 DEF s, t

-----------------------------------------------------------------------------
(* The engine.                                                               *)

\* An engine as the operations leave it.
EngineOK(e) ==
    /\ e = [raw |-> e.raw, comp |-> e.comp, did |-> e.did]
    /\ IsSeq(e.raw) /\ IsSeq(e.comp)
    /\ Chars(e.comp) /\ Len(e.comp) <= Len(e.raw)
    /\ e.comp = <<>> <=> e.raw = <<>>
    /\ e.did \in BOOLEAN
    /\ e.did <=> e.comp # Literal(e.raw)

LEMMA RecomputedOK ==
    ASSUME NEW raw, IsSeq(raw), NEW cfg
    PROVE  /\ EngineOK(Recomputed(raw, cfg)) /\ Recomputed(raw, cfg).raw = raw
           /\ Recomputed(raw, cfg).did <=> ApplyRules(raw, cfg) # Literal(raw)
  <1> DEFINE comp == ApplyRules(raw, cfg)
  <1> DEFINE did == comp # Literal(raw)
  <1>1. Recomputed(raw, cfg) = [raw |-> raw, comp |-> comp, did |-> did]
    BY DEF Recomputed
  <1>2. /\ IsSeq(comp) /\ Chars(comp) /\ Len(comp) <= Len(raw)
        /\ comp = <<>> <=> raw = <<>>
    BY ComposedIs
  <1> HIDE DEF comp
  <1>3. did \in BOOLEAN /\ (did <=> comp # Literal(raw))
    OBVIOUS
  <1> HIDE DEF did
  <1>4. Recomputed(raw, cfg).raw = raw /\ Recomputed(raw, cfg).comp = comp
        /\ Recomputed(raw, cfg).did = did
    BY <1>1
  <1>5. Recomputed(raw, cfg).raw = raw /\ Recomputed(raw, cfg).comp = comp
        /\ (Recomputed(raw, cfg).did <=> comp # Literal(raw))
        /\ Recomputed(raw, cfg).did \in BOOLEAN
    BY <1>3, <1>4
  <1>6. Recomputed(raw, cfg) = [raw |-> Recomputed(raw, cfg).raw, comp |-> Recomputed(raw, cfg).comp,
                                did |-> Recomputed(raw, cfg).did]
    BY <1>1
  <1> QED
    BY <1>2, <1>5, <1>6, Zenon DEF EngineOK, comp

LEMMA RevertedOK ==
    ASSUME NEW raw, IsSeq(raw)
    PROVE  EngineOK(Reverted(raw)) /\ Reverted(raw).raw = raw /\ ~Reverted(raw).did
  <1>1. Reverted(raw) = [raw |-> raw, comp |-> Literal(raw), did |-> FALSE]
    BY DEF Reverted
  <1>2. /\ IsSeq(Literal(raw)) /\ Len(Literal(raw)) = Len(raw) /\ Len(raw) \in Nat
        /\ \A i \in 1..Len(raw) : Literal(raw)[i] = Char(raw[i])
    BY LiteralIs, SeqIs
  <1>3. Chars(Literal(raw))
    BY <1>2, CharIs DEF Chars
  <1>4. Literal(raw) = <<>> <=> raw = <<>>
    BY <1>2, LenZero
  <1>5. Len(Literal(raw)) <= Len(raw)
    BY <1>2
  <1>6. Reverted(raw).raw = raw /\ Reverted(raw).comp = Literal(raw) /\ Reverted(raw).did = FALSE
    BY <1>1
  <1>7. Reverted(raw) = [raw |-> Reverted(raw).raw, comp |-> Reverted(raw).comp, did |-> Reverted(raw).did]
    BY <1>1
  <1>8. Reverted(raw).did \in BOOLEAN /\ ~Reverted(raw).did
    BY <1>1
  <1> QED
    BY <1>2, <1>3, <1>4, <1>5, <1>6, <1>7, <1>8, Zenon DEF EngineOK

\* The cleared engine is the engine recomputed from no keys.
LEMMA ClearedOK ==
    EngineOK(Cleared) /\ Cleared.raw = <<>> /\ \A cfg : Cleared = Recomputed(<<>>, cfg)
  <1>1. Cleared = [raw |-> <<>>, comp |-> <<>>, did |-> FALSE] /\ Cleared.raw = <<>>
    BY DEF Cleared
  <1>2. Literal(<<>>) = <<>> /\ IsSeq(<<>>)
    BY LiteralIs, NoElements, LenZero
  <1>3. ASSUME NEW cfg
        PROVE  Cleared = Recomputed(<<>>, cfg)
    <2>1. ApplyRules(<<>>, cfg) = <<>>
      BY <1>2, ComposedIs
    <2>2. Recomputed(<<>>, cfg) = [raw |-> <<>>, comp |-> <<>>, did |-> <<>> # <<>>]
      BY <1>2, <2>1 DEF Recomputed
    <2>3. (<<>> # <<>>) = FALSE
      OBVIOUS
    <2> QED
      BY <1>1, <2>2, <2>3
  <1>4. EngineOK(Cleared)
    BY <1>2, <1>3, RecomputedOK
  <1> QED
    BY <1>1, <1>3, <1>4

LEMMA ProcessedOK ==
    ASSUME NEW e, EngineOK(e), NEW ch, NEW cfg
    PROVE  LET d == ProcessKey(e, ch, cfg) IN
           /\ EngineOK(d)
           /\ Takes(e, ch, cfg) => d.raw = Append(e.raw, ch)
           /\ Takes(e, ch, cfg) /\ ~cfg.spellCheck => d = Recomputed(Append(e.raw, ch), cfg)
           /\ ~Takes(e, ch, cfg) => d = Cleared
  <1> DEFINE raw == Append(e.raw, ch)
  <1> DEFINE new == Recomputed(raw, cfg)
  <1>1. IsSeq(raw)
    BY AppendIs DEF EngineOK
  <1>2. /\ EngineOK(new) /\ new.raw = raw
        /\ EngineOK(Reverted(raw)) /\ Reverted(raw).raw = raw
    BY <1>1, RecomputedOK, RevertedOK
  <1>3. CASE ~Takes(e, ch, cfg)
    BY <1>3, ClearedOK DEF ProcessKey
  <1>4. CASE Takes(e, ch, cfg)
    <2>1. ProcessKey(e, ch, cfg) = IF Rejected(new, cfg) THEN Reverted(raw) ELSE new
      BY <1>4 DEF ProcessKey
    <2>2. ~cfg.spellCheck => ~Rejected(new, cfg)
      BY DEF Rejected
    <2> QED
      BY <1>2, <1>4, <2>1, <2>2
  <1> QED
    BY <1>3, <1>4

LEMMA RemovedOK ==
    ASSUME NEW e, EngineOK(e), NEW cfg
    PROVE  LET d == RemoveLastChar(e, cfg) IN
           /\ EngineOK(d)
           /\ IsInWord(e) => /\ Len(e.raw) > 0 /\ Len(e.raw) - 1 \in Nat
                             /\ d = Recomputed(SubSeq(e.raw, 1, Len(e.raw) - 1), cfg)
                             /\ IsSeq(d.raw) /\ Len(d.raw) = Len(e.raw) - 1
                             /\ d.raw = SubSeq(e.raw, 1, Len(e.raw) - 1)
  <1> DEFINE n == Len(e.raw) - 1
  <1> DEFINE raw == SubSeq(e.raw, 1, n)
  <1>1. IsSeq(e.raw) /\ Len(e.raw) \in Nat /\ (e.raw = <<>> <=> Len(e.raw) = 0)
    BY SeqIs, LenZero DEF EngineOK
  <1>2. CASE ~IsInWord(e)
    BY <1>2 DEF RemoveLastChar, IsInWord
  <1>3. CASE IsInWord(e)
    <2>1. n \in Nat /\ n <= Len(e.raw) /\ Len(e.raw) > 0
      BY <1>1, <1>3 DEF IsInWord
    <2>2. RemoveLastChar(e, cfg) = Recomputed(raw, cfg)
      BY <1>3 DEF RemoveLastChar, IsInWord
    <2> HIDE DEF n
    <2>3. IsSeq(raw) /\ Len(raw) = n
      BY <1>1, <2>1, SubSeqIs
    <2> HIDE DEF raw
    <2>4. EngineOK(Recomputed(raw, cfg)) /\ Recomputed(raw, cfg).raw = raw
      BY <2>3, RecomputedOK
    <2> QED
      BY <1>3, <2>1, <2>2, <2>3, <2>4 DEF n, raw
  <1> QED
    BY <1>2, <1>3
-----------------------------------------------------------------------------
(* Which characters the composition is made of.                              *)

LEMMA SeqOver ==
    ASSUME NEW S, NEW s, IsSeq(s), \A i \in 1..Len(s) : s[i] \in S
    PROVE  s \in Seq(S)
  <1>1. Len(s) \in Nat /\ s = [i \in 1..Len(s) |-> s[i]]
    BY SeqIs
  <1> DEFINE n == Len(s)
  <1>2. [i \in 1..n |-> s[i]] \in [1..n -> S]
    OBVIOUS
  <1> QED
    BY <1>1, <1>2

LEMMA OverSeq ==
    ASSUME NEW S, NEW s \in Seq(S)
    PROVE  IsSeq(s) /\ \A i \in 1..Len(s) : s[i] \in S
  BY DEF IsSeq

\* The bases of a row of keys, and their characters.
BasesFor(bases) == Unaccented \subseteq bases

KeysOver(bases) == bases \cup DOMAIN Accented

LEMMA VowelsPlain == Vowels \subseteq Unaccented
  BY DEF Vowels, Unaccented, Letters

LEMMA OverIs ==
    ASSUME NEW bases, BasesFor(bases), NEW c \in CharactersOver(bases)
    PROVE  /\ IsChar(c) /\ c.base \in bases
           /\ c.tone \in 1..5 => c.base \in Vowels
  BY VowelsPlain DEF BasesFor, CharactersOver, IsChar

LEMMA InOver ==
    ASSUME NEW bases, BasesFor(bases), NEW b, NEW t \in 0..5,
           t = 0 => b \in bases, t > 0 => b \in Vowels
    PROVE  [base |-> b, tone |-> t] \in CharactersOver(bases)
  BY DEF CharactersOver

LEMMA CharOver ==
    ASSUME NEW bases, BasesFor(bases), NEW ch \in KeysOver(bases)
    PROVE  Char(ch) \in CharactersOver(bases)
  <1>1. CASE ch \in DOMAIN Accented
    <2> DEFINE toned == [base : Vowels, tone : 1..5]
    <2>1. Accented = [n \in {Name(c) : c \in toned} |-> CHOOSE c \in toned : Name(c) = n]
      BY DEF Accented
    <2> HIDE DEF toned
    <2>2. ch \in {Name(c) : c \in toned}
      BY <1>1, <2>1
    <2>3. Accented[ch] = CHOOSE c \in toned : Name(c) = ch
      BY <2>1, <2>2
    <2>4. \E c \in toned : Name(c) = ch
      BY <2>2
    <2>5. Accented[ch] \in toned
      BY <2>3, <2>4
    <2>6. Char(ch) = Accented[ch]
      BY <1>1 DEF Char
    <2>7. toned \subseteq CharactersOver(bases)
      BY DEF CharactersOver, toned
    <2> QED
      BY <2>5, <2>6, <2>7
  <1>2. CASE ch \notin DOMAIN Accented
    <2>1. ch \in bases /\ Char(ch) = [base |-> ch, tone |-> 0]
      BY <1>2 DEF KeysOver, Char
    <2> QED
      BY <2>1 DEF CharactersOver
  <1> QED
    BY <1>1, <1>2

\* Names of toned vowels.
LEMMA NameToned ==
    ASSUME NEW c \in [base : Vowels, tone : 1..5]
    PROVE  Name(c) \in DOMAIN Accented
  <1> DEFINE toned == [base : Vowels, tone : 1..5]
  <1>1. DOMAIN Accented = {Name(d) : d \in toned}
    BY DEF Accented
  <1> HIDE DEF toned
  <1>2. c \in toned
    BY DEF toned
  <1> QED
    BY <1>1, <1>2

LEMMA NameOver ==
    ASSUME NEW bases, BasesFor(bases), NEW c \in CharactersOver(bases)
    PROVE  /\ Name(c) \in KeysOver(bases)
           /\ Name(c) \in Unaccented => c.tone = 0 /\ c.base = Name(c)
  <1>1. CASE c \in [base : bases, tone : {0}]
    BY <1>1 DEF Name, KeysOver
  <1>2. CASE c \in [base : Vowels, tone : 1..5]
    BY <1>2, NameToned, NamesApart DEF KeysOver
  <1> QED
    BY <1>1, <1>2 DEF CharactersOver

-----------------------------------------------------------------------------
(* Marks and tones fall on letters that can carry them.                      *)

LEMMA Greatest ==
    ASSUME NEW n \in Nat, NEW S, S \subseteq 0..n, S # {}
    PROVE  Max(S) \in S /\ \A x \in S : Max(S) >= x
  <1> DEFINE U == {k \in Nat : \A x \in S : k >= x}
  <1>1. U \subseteq Nat /\ n \in U
    OBVIOUS
  <1>2. PICK k \in U : \A j \in U : k <= j
    BY <1>1, Least
  <1>3. k \in S
    <2> SUFFICES ASSUME k \notin S
                 PROVE  FALSE
      OBVIOUS
    <2>1. \A x \in S : k > x
      BY <1>2
    <2>2. PICK x \in S : TRUE
      OBVIOUS
    <2>3. k > 0 /\ k \in Nat
      BY <1>2, <2>1, <2>2
    <2>4. k - 1 \in U
      BY <2>1, <2>3
    <2> QED
      BY <1>2, <2>3, <2>4
  <1>4. \E m \in S : \A x \in S : m >= x
    BY <1>2, <1>3
  <1> QED
    BY <1>4 DEF Max

LEMMA LastOfIs ==
    ASSUME NEW text, IsSeq(text), NEW letters
    PROVE  LET i == LastOf(text, letters) IN
           i # 0 => i \in 1..Len(text) /\ Name(text[i]) \in letters
  <1> DEFINE found == {i \in DOMAIN text : Name(text[i]) \in letters}
  <1> DEFINE k == LastOf(text, letters)
  <1>1. Len(text) \in Nat /\ DOMAIN text = 1..Len(text)
    BY SeqIs
  <1>2. k = IF found = {} THEN 0 ELSE Max(found)
    BY DEF LastOf
  <1>3. found \subseteq 0..Len(text)
    BY <1>1
  <1> HIDE DEF k
  <1>4. ASSUME found # {}
        PROVE  Max(found) \in found
    <2> HIDE DEF found
    <2> QED
      BY <1>1, <1>3, <1>4, Greatest
  <1>5. k # 0 => k \in found
    BY <1>2, <1>4
  <1> QED
    BY <1>1, <1>5 DEF k

\* The letter that is marked takes the mark.
LEMMA MarkedIs ==
    ASSUME NEW text, IsSeq(text), NEW ch, NEW n, NEW method
    PROVE  LET i == Marked(text, ch, n, method) IN
           i # 0 => /\ i \in 1..Len(text)
                    /\ Name(text[i]) \in IF ch \in HornKeys THEN {"a", "o", "u"} ELSE {"a", "e", "o", "d"}
  <1> DEFINE i == Marked(text, ch, n, method)
  <1>0. Len(text) \in Nat /\ (text # <<>> => Len(text) \in 1..Len(text))
    BY SeqIs, LenZero
  <1>1. CASE (method = "TELEX" /\ ch \in {"a", "e", "o", "d"}) \/ (method = "VIQR" /\ ch = "d")
    <2>1. i = IF text # <<>> /\ Name(text[Len(text)]) = ch THEN Len(text) ELSE 0
      BY <1>1 DEF Marked
    <2>2. ch \in {"a", "e", "o", "d"} /\ ch \notin HornKeys
      BY <1>1 DEF HornKeys
    <2> QED
      BY <1>0, <2>1, <2>2
  <1>2. CASE method = "TELEX" /\ ch = "w"
    <2>1. i = LastOf(text, {"o", "u", "a"}) /\ ch \in HornKeys
      BY <1>2 DEF Marked, HornKeys
    <2> QED
      BY <2>1, LastOfIs
  <1>3. CASE n > 1 /\ <<method, ch>> \in {<<"VNI", "6">>, <<"VIQR", "circumflex">>}
    <2>1. i = LastOf(text, {"a", "e", "o"}) /\ ch \notin HornKeys
      BY <1>3 DEF Marked, HornKeys
    <2> QED
      BY <2>1, LastOfIs
  <1>4. CASE n > 1 /\ <<method, ch>> \in {<<"VNI", "7">>, <<"VIQR", "horn">>}
    <2>1. i = LastOf(text, {"o", "u"}) /\ ch \in HornKeys
      BY <1>4 DEF Marked, HornKeys
    <2> QED
      BY <2>1, LastOfIs
  <1>5. CASE n > 1 /\ <<method, ch>> \in {<<"VNI", "8">>, <<"VIQR", "breve">>}
    <2>1. i = LastOf(text, {"a"}) /\ ch \in HornKeys
      BY <1>5 DEF Marked, HornKeys
    <2> QED
      BY <2>1, LastOfIs
  <1>6. CASE n > 1 /\ method = "VNI" /\ ch = "9"
    <2>1. i = LastOf(text, {"d"}) /\ ch \notin HornKeys
      BY <1>6 DEF Marked, HornKeys
    <2> QED
      BY <2>1, LastOfIs
  <1>7. CASE /\ ~((method = "TELEX" /\ ch \in {"a", "e", "o", "d"}) \/ (method = "VIQR" /\ ch = "d"))
             /\ ~(method = "TELEX" /\ ch = "w")
             /\ ~(n > 1 /\ <<method, ch>> \in {<<"VNI", "6">>, <<"VIQR", "circumflex">>})
             /\ ~(n > 1 /\ <<method, ch>> \in {<<"VNI", "7">>, <<"VIQR", "horn">>})
             /\ ~(n > 1 /\ <<method, ch>> \in {<<"VNI", "8">>, <<"VIQR", "breve">>})
             /\ ~(n > 1 /\ method = "VNI" /\ ch = "9")
    <2>1. Marked(text, ch, n, method) = 0
      BY <1>7 DEF Marked
    <2> QED
      BY <2>1
  <1> QED
    BY <1>1, <1>2, <1>3, <1>4, <1>5, <1>6, <1>7

LEMMA MarkOver ==
    ASSUME NEW bases, BasesFor(bases), NEW text \in Seq(CharactersOver(bases)),
           NEW ch, NEW n, NEW method, Marked(text, ch, n, method) # 0
    PROVE  Mark(text, Marked(text, ch, n, method), ch) \in Seq(CharactersOver(bases))
  <1> DEFINE i == Marked(text, ch, n, method)
  <1> DEFINE base == text[i].base
  <1>1. /\ IsSeq(text) /\ Len(text) \in Nat /\ DOMAIN text = 1..Len(text)
        /\ \A j \in 1..Len(text) : text[j] \in CharactersOver(bases)
    BY OverSeq, SeqIs
  <1>2. /\ i \in 1..Len(text)
        /\ Name(text[i]) \in IF ch \in HornKeys THEN {"a", "o", "u"} ELSE {"a", "e", "o", "d"}
    BY <1>1, MarkedIs
  <1>3. Name(text[i]) \in Unaccented
    BY <1>2 DEF Unaccented, Letters
  <1>4. base = Name(text[i])
    BY <1>1, <1>2, <1>3, NameOver
  <1> DEFINE x == IF ch \in HornKeys THEN Horned[base] ELSE Doubled[base]
  <1>5. x \in Unaccented
    BY <1>2, <1>4 DEF Horned, Doubled, Unaccented, ModifiedVowels
  <1>6. "uw" \in Unaccented
    BY DEF Unaccented, ModifiedVowels
  <1> DEFINE r == Mark(text, i, ch)
  <1>7. r = [j \in 1..Len(text) |->
               IF j = i THEN Char(x)
               ELSE IF j = i - 1 /\ ch \in UoKeys /\ base = "o" /\ Name(text[j]) = "u"
               THEN Char("uw") ELSE text[j]]
    BY <1>1 DEF Mark
  <1> HIDE DEF i, x, base, r
  <1>8. Char(x) \in CharactersOver(bases) /\ Char("uw") \in CharactersOver(bases)
    BY <1>5, <1>6, CharOver DEF BasesFor, KeysOver
  <1>9. r \in [1..Len(text) -> CharactersOver(bases)]
    BY <1>1, <1>7, <1>8
  <1> QED
    BY <1>1, <1>9 DEF r, i

LEMMA VowelsOfIs ==
    ASSUME NEW text, IsSeq(text), VowelsOf(text) # {}
    PROVE  LET last == GroupEnd(text)  first == GroupStart(text) IN
           /\ Len(text) \in Nat /\ VowelsOf(text) \subseteq 1..Len(text)
           /\ last \in VowelsOf(text)
           /\ first \in 1..last /\ first..last \subseteq VowelsOf(text)
  <1> DEFINE last == GroupEnd(text)
  <1> DEFINE S == {i \in 1..last : i..last \subseteq VowelsOf(text)}
  <1>1. Len(text) \in Nat /\ VowelsOf(text) \subseteq 1..Len(text)
    BY SeqIs DEF VowelsOf
  <1>2. last \in VowelsOf(text)
    BY <1>1, Greatest DEF GroupEnd
  <1>3. GroupStart(text) = Min(S)
    BY DEF GroupStart
  <1> HIDE DEF last
  <1>4. last \in Nat /\ last >= 1
    BY <1>1, <1>2
  <1>5. last \in S
    BY <1>2, <1>4
  <1>6. S \subseteq Nat /\ S # {}
    BY <1>5
  <1> HIDE DEF S
  <1>7. Min(S) \in S
    BY <1>6, MinIs
  <1> QED
    BY <1>1, <1>2, <1>3, <1>7 DEF last, S

LEMMA ModernTargetIs ==
    ASSUME NEW text, IsSeq(text), VowelsOf(text) # {}
    PROVE  ModernTarget(text) \in VowelsOf(text)
  <1> DEFINE marked == {i \in VowelsOf(text) : text[i].base \in ModifiedVowels}
  <1> DEFINE last   == GroupEnd(text)
  <1> DEFINE first  == GroupStart(text)
  <1> DEFINE start  == IF /\ 1 < first /\ first < last
                          /\ <<text[first - 1].base, text[first].base>> \in VowelInitials
                       THEN first + 1 ELSE first
  <1> DEFINE count  == last - start + 1
  <1> DEFINE closed == last < Len(text)
  <1>1. /\ Len(text) \in Nat /\ VowelsOf(text) \subseteq 1..Len(text)
        /\ last \in VowelsOf(text)
        /\ first \in 1..last /\ first..last \subseteq VowelsOf(text)
    BY VowelsOfIs
  <1>2. CASE Cardinality(marked) = 1
    <2>1. ModernTarget(text) = Min(marked)
      BY <1>2 DEF ModernTarget
    <2>2. marked # {}
      BY <1>2, FS_EmptySet
    <2>3. marked \subseteq Nat /\ marked \subseteq VowelsOf(text)
      BY <1>1
    <2> HIDE DEF marked
    <2> QED
      BY <2>1, <2>2, <2>3, MinIs
  <1>3. CASE Cardinality(marked) # 1
    <2>1. ModernTarget(text) =
              IF count = 2 /\ ~closed /\ <<text[start].base, text[last].base>> \in OpenOnSecond
              THEN last
              ELSE IF count = 1 THEN start
              ELSE IF count = 2 THEN IF closed THEN last ELSE start
              ELSE start + 1
      BY <1>3 DEF ModernTarget
    <2>2. start = first \/ (start = first + 1 /\ first < last)
      OBVIOUS
    <2> HIDE DEF marked, last, first, start
    <2>3. first \in Nat /\ last \in Nat /\ first <= last /\ start \in Nat
      BY <1>1, <2>2
    <2>4. start \in first..last /\ last \in first..last
      BY <2>2, <2>3
    <2>5. count # 1 /\ count # 2 => start + 1 \in first..last
      BY <2>3, <2>4
    <2>6. ModernTarget(text) \in {last, start, start + 1}
          /\ (ModernTarget(text) = start + 1 => ModernTarget(text) \in {last, start} \/ (count # 1 /\ count # 2))
      BY <2>1
    <2> QED
      BY <1>1, <2>4, <2>5, <2>6
  <1> QED
    BY <1>2, <1>3

LEMMA ToneTargetIs ==
    ASSUME NEW text, IsSeq(text), VowelsOf(text) # {}, NEW toneType
    PROVE  ToneTarget(text, toneType) \in VowelsOf(text)
  <1>1. GroupStart(text) \in VowelsOf(text)
    <2> DEFINE last == GroupEnd(text)
    <2> DEFINE first == GroupStart(text)
    <2>1. /\ first \in 1..last /\ first..last \subseteq VowelsOf(text)
          /\ last \in Nat
      BY VowelsOfIs
    <2> HIDE DEF last, first
    <2>2. first \in first..last
      BY <2>1
    <2> QED
      BY <2>1, <2>2 DEF first
  <1> QED
    BY <1>1, ModernTargetIs DEF ToneTarget

LEMMA TonedOver ==
    ASSUME NEW bases, BasesFor(bases), NEW text \in Seq(CharactersOver(bases)),
           NEW tone \in Int, NoTone <= tone, tone <= 5, NEW toneType
    PROVE  ApplyTone(text, tone, toneType) \in Seq(CharactersOver(bases))
  <1>1. /\ IsSeq(text) /\ Len(text) \in Nat /\ DOMAIN text = 1..Len(text)
        /\ \A i \in 1..Len(text) : text[i] \in CharactersOver(bases)
    BY OverSeq, SeqIs
  <1>2. CASE tone = NoTone \/ VowelsOf(text) = {}
    BY <1>2 DEF ApplyTone
  <1>3. CASE tone # NoTone /\ VowelsOf(text) # {}
    <2> DEFINE target == ToneTarget(text, toneType)
    <2> DEFINE r == ApplyTone(text, tone, toneType)
    <2>1. r = [i \in 1..Len(text) |-> [text[i] EXCEPT !.tone = IF i = target THEN tone ELSE 0]]
      BY <1>1, <1>3 DEF ApplyTone
    <2>2. target \in VowelsOf(text)
      BY <1>1, <1>3, ToneTargetIs
    <2>3. text[target].base \in Vowels
      BY <2>2 DEF VowelsOf
    <2>4. tone \in 0..5
      BY <1>3 DEF NoTone
    <2> HIDE DEF target, r
    <2>5. ASSUME NEW i \in 1..Len(text)
          PROVE  r[i] \in CharactersOver(bases)
      <3> DEFINE t == IF i = target THEN tone ELSE 0
      <3>1. r[i] = [text[i] EXCEPT !.tone = t]
        BY <2>1
      <3>2. t \in 0..5 /\ (t > 0 => text[i].base \in Vowels)
        BY <2>3, <2>4
      <3>3. IsChar(text[i]) /\ text[i].base \in bases
        BY <1>1, OverIs
      <3> HIDE DEF t
      <3>4. r[i] = [base |-> text[i].base, tone |-> t]
        BY <3>1, <3>3 DEF IsChar
      <3> DEFINE b == text[i].base
      <3> HIDE DEF b
      <3>5. [base |-> b, tone |-> t] \in CharactersOver(bases)
        BY <3>2, <3>3, InOver DEF b
      <3> QED
        BY <3>4, <3>5 DEF b
    <2>6. r \in [1..Len(text) -> CharactersOver(bases)]
      BY <2>1, <2>5
    <2> QED
      BY <1>1, <2>6 DEF r
  <1> QED
    BY <1>2, <1>3

\* The keys that make only these characters.
LEMMA ScanKeyOver ==
    ASSUME NEW bases, BasesFor(bases), NEW w, w.text \in Seq(CharactersOver(bases)), WordOK(w),
           NEW raw, NEW n, raw[n] \in KeysOver(bases), NEW cfg
    PROVE  ScanKey(w, raw, n, cfg).text \in Seq(CharactersOver(bases))
  <1> DEFINE tone == ToneAsked(raw, n, cfg.method)
  <1> DEFINE i == Marked(w.text, raw[n], n, cfg.method)
  <1>1. w = [text |-> w.text, tone |-> w.tone, escaped |-> w.escaped]
    BY DEF WordOK
  <1>2. /\ Appended(w, raw[n]).text = Append(w.text, Char(raw[n]))
        /\ WordOK(Appended(w, raw[n]))
    BY AppendedIs
  <1>3. Append(w.text, Char(raw[n])) \in Seq(CharactersOver(bases))
    <2>1. Char(raw[n]) \in CharactersOver(bases)
      BY CharOver
    <2> QED
      BY <2>1
  <1>4. CASE tone # NoTone
    <2>1. ScanKey(w, raw, n, cfg) = ToneKey(w, raw[n], tone, cfg.freeTone)
      BY <1>4 DEF ScanKey
    <2> HIDE DEF tone
    <2>2. ToneKey(w, raw[n], tone, cfg.freeTone) \in
            {Appended(w, raw[n]), Escaped(Appended(w, raw[n])), [w EXCEPT !.tone = tone]}
      BY DEF ToneKey, Escaped
    <2>3. Escaped(Appended(w, raw[n])).text = Appended(w, raw[n]).text
      BY <1>2, EscapedIs
    <2>4. [w EXCEPT !.tone = tone].text = w.text
      BY <1>1
    <2> QED
      BY <1>2, <1>3, <2>1, <2>2, <2>3, <2>4
  <1>5. CASE tone = NoTone /\ i # 0
    <2> DEFINE m == Mark(w.text, i, raw[n])
    <2>1. ScanKey(w, raw, n, cfg) = [w EXCEPT !.text = m]
      BY <1>5 DEF ScanKey
    <2>2. m \in Seq(CharactersOver(bases))
      BY <1>5, MarkOver
    <2> HIDE DEF m
    <2>3. [w EXCEPT !.text = m].text = m
      BY <1>1
    <2> QED
      BY <2>1, <2>2, <2>3
  <1>6. CASE tone = NoTone /\ i = 0
    <2>1. ScanKey(w, raw, n, cfg) = Appended(w, raw[n])
      BY <1>6 DEF ScanKey
    <2> QED
      BY <1>2, <1>3, <2>1
  <1> QED
    BY <1>4, <1>5, <1>6

LEMMA ScanOver ==
    ASSUME NEW bases, BasesFor(bases), NEW raw \in Seq(KeysOver(bases)), NEW cfg
    PROVE  Scan(raw, cfg).text \in Seq(CharactersOver(bases))
  <1> DEFINE f == Scanned(raw, cfg)
  <1> DEFINE n == Len(raw)
  <1>1. IsSeq(raw) /\ n \in Nat /\ \A i \in 1..n : raw[i] \in KeysOver(bases)
    BY OverSeq, SeqIs
  <1>2. IsScan(f, raw, n, cfg) /\ Scan(raw, cfg) = f[n]
    BY <1>1, ScanIs
  <1> HIDE DEF f, n
  <1> DEFINE S == {m \in Nat : m <= n => f[m].text \in Seq(CharactersOver(bases))}
  <1>3. 0 \in S
    <2>1. f[0] = ScanStart
      BY <1>1, <1>2, ScanSteps
    <2>2. f[0].text = <<>>
      BY <2>1 DEF ScanStart
    <2>3. f[0].text \in Seq(CharactersOver(bases))
      BY <2>2
    <2> QED
      BY <2>3, Zenon
  <1>4. ASSUME NEW m \in Nat, m \in S
        PROVE  m + 1 \in S
    <2> SUFFICES ASSUME m + 1 <= n
                 PROVE  f[m + 1].text \in Seq(CharactersOver(bases))
      OBVIOUS
    <2>1. f[m].text \in Seq(CharactersOver(bases)) /\ m \in 0..n /\ m \in 0..(n - 1)
      BY <1>1, <1>4
    <2>2. WordOK(f[m])
      BY <1>1, <1>2, <2>1, ScanKeeps DEF AfterKeys
    <2>3. f[m + 1] = ScanKey(f[m], raw, m + 1, cfg)
      BY <1>1, <1>2, <2>1, ScanSteps
    <2>4. raw[m + 1] \in KeysOver(bases)
      BY <1>1
    <2> QED
      BY <2>1, <2>2, <2>3, <2>4, ScanKeyOver
  <1> HIDE DEF S
  <1>5. Nat \subseteq S
    BY <1>3, <1>4, SetInduction
  <1> QED
    BY <1>1, <1>2, <1>5 DEF S

(* What the rules make of keys: letters, and tones on vowels only.           *)
THEOREM RulesOver ==
    ASSUME NEW bases, BasesFor(bases), NEW raw \in Seq(KeysOver(bases)), NEW cfg
    PROVE  ApplyRules(raw, cfg) \in Seq(CharactersOver(bases))
  <1> DEFINE w == Scan(raw, cfg)
  <1>1. IsSeq(raw)
    BY OverSeq
  <1>2. WordOK(w)
    BY <1>1, ScannedIs DEF AfterKeys
  <1>3. w.tone \in Int /\ NoTone <= w.tone /\ w.tone <= 5
    BY <1>2 DEF WordOK
  <1>4. w.text \in Seq(CharactersOver(bases))
    BY ScanOver
  <1>5. ApplyRules(raw, cfg) = ApplyTone(w.text, w.tone, cfg.toneType)
    BY DEF ApplyRules
  <1> HIDE DEF w
  <1> QED
    BY <1>3, <1>4, <1>5, TonedOver

LEMMA LiteralOver ==
    ASSUME NEW bases, BasesFor(bases), NEW raw \in Seq(KeysOver(bases))
    PROVE  Literal(raw) \in Seq(CharactersOver(bases))
  <1>1. IsSeq(raw) /\ \A i \in 1..Len(raw) : raw[i] \in KeysOver(bases)
    BY OverSeq
  <1>2. /\ IsSeq(Literal(raw)) /\ Len(Literal(raw)) = Len(raw)
        /\ \A i \in 1..Len(raw) : Literal(raw)[i] = Char(raw[i])
    BY <1>1, LiteralIs
  <1>3. \A i \in 1..Len(raw) : Char(raw[i]) \in CharactersOver(bases)
    BY <1>1, CharOver
  <1> QED
    BY <1>2, <1>3, SeqOver

-----------------------------------------------------------------------------
(* The engine, with the keys of one input method.                            *)

WordBases(method) ==
    UNION {Unaccented, IF method = "VNI" THEN Digits ELSE {},
           IF method = "VIQR" THEN ViqrMarks ELSE {}}

LEMMA WordBasesFor == \A method : BasesFor(WordBases(method))
  BY DEF BasesFor, WordBases

EngineOver(e, method) ==
    /\ EngineOK(e)
    /\ e.raw \in Seq(KeysOver(WordBases(method)))
    /\ e.comp \in Seq(CharactersOver(WordBases(method)))

LEMMA WordCharOver ==
    ASSUME NEW ch, NEW raw, NEW method, IsWordChar(ch, method, raw)
    PROVE  ch \in KeysOver(WordBases(method))
  <1>1. CASE ch \in Alphabetic
    BY <1>1 DEF Alphabetic, KeysOver, WordBases
  <1>2. CASE method = "VNI" /\ ch \in Digits
    BY <1>2 DEF KeysOver, WordBases
  <1>3. CASE method = "VIQR" /\ ch \in ViqrMarks
    BY <1>3 DEF KeysOver, WordBases
  <1> QED
    BY <1>1, <1>2, <1>3 DEF IsWordChar

LEMMA ClearedOver == \A method : EngineOver(Cleared, method)
  <1> SUFFICES ASSUME NEW method
               PROVE  EngineOver(Cleared, method)
    OBVIOUS
  <1>1. Cleared.raw = <<>> /\ Cleared.comp = <<>>
    BY DEF Cleared
  <1>2. /\ Cleared.raw \in Seq(KeysOver(WordBases(method)))
        /\ Cleared.comp \in Seq(CharactersOver(WordBases(method)))
    BY <1>1
  <1> QED
    BY <1>2, ClearedOK DEF EngineOver

\* An engine without a word is a cleared one.
LEMMA WordlessIs ==
    ASSUME NEW e, EngineOK(e)
    PROVE  /\ ~IsInWord(e) <=> e = Cleared
           /\ ~IsInWord(e) <=> e.comp = <<>>
  <1>1. CASE e.raw = <<>>
    <2>1. e.comp = <<>> /\ e.did \in BOOLEAN /\ (e.did <=> e.comp # Literal(e.raw))
      BY <1>1 DEF EngineOK
    <2>2. EngineOK(Cleared) /\ Cleared.raw = <<>> /\ Cleared.comp = <<>> /\ Cleared.did = FALSE
      BY ClearedOK DEF Cleared
    <2>3. <<>> = Literal(<<>>)
      BY <2>2, Zenon DEF EngineOK
    <2>4. e.did = FALSE
      BY <1>1, <2>1, <2>3, Zenon
    <2>5. e = [raw |-> <<>>, comp |-> <<>>, did |-> FALSE]
      BY <1>1, <2>1, <2>4, Zenon DEF EngineOK
    <2> QED
      BY <1>1, <2>1, <2>5, Zenon DEF IsInWord, Cleared
  <1>2. CASE e.raw # <<>>
    BY <1>2 DEF EngineOK, IsInWord, Cleared
  <1> QED
    BY <1>1, <1>2

LEMMA RecomputedOver ==
    ASSUME NEW method, NEW raw \in Seq(KeysOver(WordBases(method))), NEW cfg
    PROVE  EngineOver(Recomputed(raw, cfg), method)
  <1>1. IsSeq(raw)
    BY OverSeq
  <1>2. EngineOK(Recomputed(raw, cfg)) /\ Recomputed(raw, cfg).raw = raw
    BY <1>1, RecomputedOK
  <1>3. Recomputed(raw, cfg).comp = ApplyRules(raw, cfg)
    BY DEF Recomputed
  <1>4. ApplyRules(raw, cfg) \in Seq(CharactersOver(WordBases(method)))
    BY WordBasesFor, RulesOver
  <1> QED
    BY <1>2, <1>3, <1>4 DEF EngineOver

LEMMA ProcessedOver ==
    ASSUME NEW e, NEW cfg, EngineOver(e, cfg.method), NEW ch
    PROVE  EngineOver(ProcessKey(e, ch, cfg), cfg.method)
  <1> DEFINE raw == Append(e.raw, ch)
  <1>1. CASE ~Takes(e, ch, cfg)
    BY <1>1, ClearedOver DEF ProcessKey
  <1>2. CASE Takes(e, ch, cfg)
    <2>1. ch \in KeysOver(WordBases(cfg.method))
      BY <1>2, WordCharOver DEF Takes
    <2>2. raw \in Seq(KeysOver(WordBases(cfg.method)))
      BY <2>1 DEF EngineOver
    <2>3. ProcessKey(e, ch, cfg) \in {Recomputed(raw, cfg), Reverted(raw)}
      BY <1>2 DEF ProcessKey
    <2> HIDE DEF raw
    <2>4. EngineOver(Recomputed(raw, cfg), cfg.method)
      BY <2>2, RecomputedOver
    <2>5. EngineOver(Reverted(raw), cfg.method)
      <3>1. EngineOK(Reverted(raw)) /\ Reverted(raw).raw = raw
        BY <2>2, OverSeq, RevertedOK
      <3>2. Reverted(raw).comp = Literal(raw)
        BY DEF Reverted
      <3>3. Literal(raw) \in Seq(CharactersOver(WordBases(cfg.method)))
        BY <2>2, WordBasesFor, LiteralOver
      <3> QED
        BY <2>2, <3>1, <3>2, <3>3 DEF EngineOver
    <2> QED
      BY <2>3, <2>4, <2>5
  <1> QED
    BY <1>1, <1>2

LEMMA RemovedOver ==
    ASSUME NEW e, NEW cfg, EngineOver(e, cfg.method)
    PROVE  EngineOver(RemoveLastChar(e, cfg), cfg.method)
  <1> DEFINE raw == SubSeq(e.raw, 1, Len(e.raw) - 1)
  <1>1. CASE e.raw = <<>>
    BY <1>1 DEF RemoveLastChar
  <1>2. CASE e.raw # <<>>
    <2>1. RemoveLastChar(e, cfg) = Recomputed(raw, cfg)
      BY <1>2 DEF RemoveLastChar
    <2>2. raw \in Seq(KeysOver(WordBases(cfg.method)))
      BY DEF EngineOver
    <2> HIDE DEF raw
    <2> QED
      BY <2>1, <2>2, RecomputedOver
  <1> QED
    BY <1>1, <1>2

IsFed(f, seed, n, cfg) ==
    f = [m \in 0..n |-> IF m = 0 THEN Cleared ELSE ProcessKey(f[m - 1], seed[m], cfg)]

LEMMA FedExists ==
    ASSUME NEW seed, NEW cfg
    PROVE  \A n \in Nat : \E f : IsFed(f, seed, n, cfg)
  <1> DEFINE S == {n \in Nat : \E f : IsFed(f, seed, n, cfg)}
  <1>1. 0 \in S
    <2> DEFINE f == [m \in 0..0 |-> Cleared]
    <2>1. IsFed(f, seed, 0, cfg)
      BY DEF IsFed
    <2> QED
      BY <2>1
  <1>2. ASSUME NEW n \in Nat, n \in S
        PROVE  n + 1 \in S
    <2>1. PICK f : IsFed(f, seed, n, cfg)
      BY <1>2
    <2> DEFINE g == [m \in 0..(n + 1) |-> IF m = n + 1 THEN ProcessKey(f[n], seed[n + 1], cfg) ELSE f[m]]
    <2>2. ASSUME NEW m \in 0..(n + 1)
          PROVE  g[m] = IF m = 0 THEN Cleared ELSE ProcessKey(g[m - 1], seed[m], cfg)
      <3>1. CASE m = n + 1
        BY <3>1
      <3>2. CASE m # n + 1
        <4>1. m \in 0..n /\ (m # 0 => m - 1 \in 0..n /\ m - 1 # n + 1)
          BY <3>2
        <4>2. f[m] = IF m = 0 THEN Cleared ELSE ProcessKey(f[m - 1], seed[m], cfg)
          BY <2>1, <4>1 DEF IsFed
        <4>3. g[m] = f[m] /\ (m # 0 => g[m - 1] = f[m - 1])
          BY <3>2, <4>1
        <4> HIDE DEF g
        <4> QED
          BY <4>2, <4>3
      <3> QED
        BY <3>1, <3>2
    <2>3. IsFed(g, seed, n + 1, cfg)
      <3>1. g = [m \in 0..(n + 1) |-> g[m]]
        OBVIOUS
      <3> HIDE DEF g
      <3> QED
        BY <2>2, <3>1 DEF IsFed
    <2> QED
      BY <2>3
  <1> HIDE DEF S
  <1>3. Nat \subseteq S
    BY <1>1, <1>2, SetInduction
  <1> QED
    BY <1>3 DEF S

\* The function that FeedContext defines.
Fed(seed, cfg) ==
    CHOOSE f : f = [n \in 0..Len(seed) |->
                       IF n = 0 THEN Cleared ELSE ProcessKey(f[n - 1], seed[n], cfg)]

(* A word that is fed to the engine, whatever it is, leaves an engine that   *)
(* holds keys of the method and shows their characters.                      *)
THEOREM FeedContextOver ==
    ASSUME NEW seed, IsSeq(seed), NEW cfg
    PROVE  EngineOver(FeedContext(seed, cfg), cfg.method)
  <1> DEFINE f == Fed(seed, cfg)
  <1> DEFINE n == Len(seed)
  <1>1. n \in Nat
    BY SeqIs
  <1>2. \E g : g = [m \in 0..Len(seed) |->
                       IF m = 0 THEN Cleared ELSE ProcessKey(g[m - 1], seed[m], cfg)]
    <2>1. PICK g : IsFed(g, seed, Len(seed), cfg)
      BY <1>1, FedExists
    <2> QED
      BY <2>1, Zenon DEF IsFed
  <1>3. IsFed(f, seed, n, cfg)
    BY <1>2 DEF Fed, IsFed
  <1>4. FeedContext(seed, cfg) = f[n]
    BY DEF FeedContext, Fed
  <1> HIDE DEF f, n
  <1> DEFINE S == {m \in Nat : m <= n => EngineOver(f[m], cfg.method)}
  <1>5. 0 \in S
    <2>1. f[0] = Cleared
      BY <1>1, <1>3 DEF IsFed
    <2> QED
      BY <2>1, ClearedOver
  <1>6. ASSUME NEW m \in Nat, m \in S
        PROVE  m + 1 \in S
    <2> SUFFICES ASSUME m + 1 <= n
                 PROVE  EngineOver(f[m + 1], cfg.method)
      OBVIOUS
    <2>1. EngineOver(f[m], cfg.method)
      BY <1>1, <1>6
    <2>2. f[m + 1] = ProcessKey(f[(m + 1) - 1], seed[m + 1], cfg)
      <3>1. m + 1 \in 0..n /\ m + 1 # 0
        BY <1>1
      <3> QED
        BY <1>3, <3>1 DEF IsFed
    <2>3. (m + 1) - 1 = m
      OBVIOUS
    <2> QED
      BY <2>1, <2>2, <2>3, ProcessedOver
  <1> HIDE DEF S
  <1>7. Nat \subseteq S
    BY <1>5, <1>6, SetInduction
  <1> QED
    BY <1>1, <1>4, <1>7 DEF S
=============================================================================
