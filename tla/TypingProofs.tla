---------------------------- MODULE TypingProofs ----------------------------
(***************************************************************************)
(* What holds of typing whatever the keys, documents, settings and queues  *)
(* are: through the text service (TsfService), where sessions run late,    *)
(* and into the engine alone (VnTyping).                                   *)
(*                                                                         *)
(* The engine's part is in VnEngineProofs.  A handler or a session of the  *)
(* service takes a world (TsfService!World) to a world, so the facts here  *)
(* are first about worlds, one operator at a time, then about steps.       *)
(***************************************************************************)
EXTENDS TsfService, VnTyping, VnEngineProofs, SequenceTheorems

-----------------------------------------------------------------------------
(* Types of a world.                                                         *)

\* What the engine makes of keys of the present method.
WordChars == CharactersOver(WordBases(config.method))

Docs == [Contexts -> [text : Seq(Character), caret : Nat]]

Ranges == [open : {TRUE}, context : Contexts, alive : BOOLEAN, from : Nat, to : Nat]

Sessions == [kind : {"update", "end", "replace", "committed", "reconvert"},
             context : Contexts, ch : TypedKeys \cup {"none"}, text : Seq(Character)]

DocsOK(d) ==
    /\ d \in Docs
    /\ \A c \in Contexts : d[c].caret <= Len(d[c].text)

RangeOK(k, d) ==
    \/ k = NoComposition
    \/ /\ k \in Ranges
       /\ k.from <= k.to /\ k.to <= Len(d[k.context].text)

QueueOK(q) == q \in Seq(Sessions) /\ Len(q) <= MaxQueue

IsWorld(w) ==
    w = [engine |-> w.engine, busy |-> w.busy, recent |-> w.recent,
         comp |-> w.comp, docs |-> w.docs, queue |-> w.queue]

WorldOK(w) ==
    /\ IsWorld(w)
    /\ EngineOver(w.engine, config.method)
    /\ w.busy \in BOOLEAN /\ w.recent \in BOOLEAN
    /\ DocsOK(w.docs) /\ RangeOK(w.comp, w.docs)
    /\ QueueOK(w.queue)

(* The type invariant: the engine holds keys of the method only.             *)
TypeInv ==
    /\ WorldOK(World)
    /\ focus \in Contexts /\ config \in Configs /\ {parted, edited} \subseteq BOOLEAN

-----------------------------------------------------------------------------
(* Order.                                                                    *)

\* Nothing from position m to n separates words.
Joined(text, m, n) == \A i \in m..n : IsEditableCommittedChar(text[i])

\* A composition that can be rewritten in document c: it is alive and there, the
\* caret stands behind it, and nothing in it separates words.
Fits(w, c) ==
    w.comp.open =>
      /\ w.comp.alive /\ w.comp.context = c
      /\ w.docs[c].caret = w.comp.to
      /\ Joined(w.docs[c].text, w.comp.from + 1, w.comp.to)

\* It is there for a word, and shows it.
Shows(w, c) ==
    /\ Fits(w, c)
    /\ IsInWord(w.engine) <=> w.comp.open
    /\ w.comp.open =>
         SubSeq(w.docs[c].text, w.comp.from + 1, w.comp.to) = w.engine.comp

\* What the one session that waits is for.
Waits(w, c) ==
    LET s == Head(w.queue) IN
    /\ w.busy /\ Len(w.queue) = 1
    /\ \/ s.kind = "update" /\ s.context = c /\ IsInWord(w.engine) /\ Fits(w, c)
       \/ s.kind = "end" /\ ~IsInWord(w.engine)
       \/ /\ s.kind = "replace" /\ ~IsInWord(w.engine)
          /\ <<>> \notin DOMAIN Macros => s.context = c /\ s.text = <<>> /\ Fits(w, c)

Ordered(w, c) ==
    \/ w.queue = <<>> /\ Shows(w, c)
    \/ w.queue = <<>> /\ w.busy /\ "never" \in Grants
    \/ Waits(w, c)

\* The composition can be rewritten in document c, wherever the caret is.
Writable(w, c) == w.comp.open => w.comp.alive /\ w.comp.context = c

\* The one session that waits will put right what others have edited since.
Repairs(w, c) ==
    LET s == Head(w.queue) IN
    /\ w.busy /\ Len(w.queue) = 1
    /\ \/ s.kind = "update" /\ s.context = c /\ IsInWord(w.engine) /\ Writable(w, c)
       \/ s.kind \in {"end", "replace"} /\ ~IsInWord(w.engine)

(* As long as nothing has parted them, the composition shows the word, or    *)
(* one session waits that will see to it; or a session was refused, and no   *)
(* key is handled any more.                                                  *)
OrderInv == ~parted => Ordered(World, focus) \/ (edited /\ Repairs(World, focus))

-----------------------------------------------------------------------------
(* Text and positions.                                                       *)

LEMMA MovedIs ==
    ASSUME NEW p \in Nat, NEW q \in Nat, NEW len \in Nat, NEW from \in Nat, NEW to \in Nat,
           NEW size \in Nat, from <= to, to <= len, p <= q, q <= len
    PROVE  /\ Moved(p, from, to, size) \in Nat
           /\ Moved(p, from, to, size) <= Moved(q, from, to, size)
           /\ Moved(p, from, to, size) <= len - (to - from) + size
           /\ p <= from => Moved(p, from, to, size) = p
           /\ from <= p /\ p <= to => /\ from <= Moved(p, from, to, size)
                                      /\ Moved(p, from, to, size) <= from + size
           /\ to <= p => \/ Moved(p, from, to, size) = p + size - (to - from)
                         \/ p = from /\ Moved(p, from, to, size) = from
  BY DEF Moved

LEMMA MovedBound ==
    ASSUME NEW p \in Nat, NEW len \in Nat, NEW from \in Nat, NEW to \in Nat,
           NEW size \in Nat, from <= to, to <= len, p <= len
    PROVE  /\ Moved(p, from, to, size) \in Nat
           /\ Moved(p, from, to, size) <= len - (to - from) + size
  BY DEF Moved

LEMMA SplicedIs ==
    ASSUME NEW S, NEW text \in Seq(S), NEW new \in Seq(S), NEW from \in Nat, NEW to \in Nat,
           from <= to, to <= Len(text)
    PROVE  LET t == Spliced(text, from, to, new) IN
           /\ t \in Seq(S) /\ Len(t) = Len(text) - (to - from) + Len(new)
           /\ \A i \in 1..from : t[i] = text[i]
           /\ \A i \in 1..Len(new) : t[from + i] = new[i]
           /\ \A i \in (to + 1)..Len(text) : t[i - (to - from) + Len(new)] = text[i]
  <1> DEFINE a == SubSeq(text, 1, from)
  <1> DEFINE b == SubSeq(text, to + 1, Len(text))
  <1> DEFINE t == Spliced(text, from, to, new)
  <1>1. /\ a \in Seq(S) /\ Len(a) = from /\ \A i \in 1..from : a[i] = text[i]
        /\ b \in Seq(S) /\ Len(b) = Len(text) - to
        /\ \A i \in 1..(Len(text) - to) : b[i] = text[to + i]
    OBVIOUS
  <1>2. t = (a \o new) \o b
    BY DEF Spliced
  <1> HIDE DEF a, b, t
  <1> DEFINE c == a \o new
  <1>31. a \in Seq(S) /\ b \in Seq(S) /\ new \in Seq(S)
    BY <1>1
  <1>32. /\ a \o new \in Seq(S) /\ Len(a \o new) = Len(a) + Len(new)
         /\ \A i \in 1 .. Len(a) + Len(new) : (a \o new)[i] =
                 IF i <= Len(a) THEN a[i] ELSE new[i - Len(a)]
    BY <1>31, ConcatProperties, Zenon
  <1>3. /\ c \in Seq(S) /\ Len(c) = from + Len(new)
        /\ \A i \in 1..(from + Len(new)) : c[i] = IF i <= from THEN a[i] ELSE new[i - from]
    BY <1>1, <1>32, Zenon
  <1>4. t = c \o b
    BY <1>2
  <1> HIDE DEF c
  <1>5. /\ t \in Seq(S) /\ Len(t) = Len(c) + Len(b)
        /\ \A i \in 1 .. Len(c) + Len(b) : t[i] = IF i <= Len(c) THEN c[i] ELSE b[i - Len(c)]
    BY <1>31, <1>3, <1>4, ConcatProperties, Zenon
  <1>6. Len(text) \in Nat /\ Len(new) \in Nat
    OBVIOUS
  <1>7. ASSUME NEW i \in 1..from
        PROVE  t[i] = text[i]
    <2>1. i \in 1..(from + Len(new)) /\ i <= from /\ i \in 1..(Len(c) + Len(b)) /\ i <= Len(c)
      BY <1>1, <1>3, <1>6
    <2>2. t[i] = c[i] /\ c[i] = a[i] /\ a[i] = text[i]
      BY <1>1, <1>3, <1>5, <2>1
    <2> QED
      BY <2>2
  <1>8. ASSUME NEW i \in 1..Len(new)
        PROVE  t[from + i] = new[i]
    <2>1. from + i \in 1..(from + Len(new)) /\ ~(from + i <= from) /\ (from + i) - from = i
      BY <1>6
    <2>2. c[from + i] = new[i]
      BY <1>3, <2>1
    <2>3. from + i \in 1..(Len(c) + Len(b)) /\ from + i <= Len(c)
      BY <1>1, <1>3, <1>6
    <2> QED
      BY <1>5, <2>2, <2>3
  <1>9. ASSUME NEW i \in (to + 1)..Len(text)
        PROVE  t[i - (to - from) + Len(new)] = text[i]
    <2> DEFINE j == i - to
    <2>1. j \in 1..(Len(text) - to) /\ to + j = i /\ i - (to - from) + Len(new) = from + Len(new) + j
      BY <1>6
    <2> HIDE DEF j
    <2>2. b[j] = text[to + j]
      BY <1>1, <2>1
    <2> DEFINE m == from + Len(new) + j
    <2>3. m \in 1..(Len(c) + Len(b)) /\ ~(m <= Len(c)) /\ m - Len(c) = j
      BY <1>1, <1>3, <1>6, <2>1
    <2>4. t[m] = b[j]
      BY <1>5, <2>3
    <2> QED
      BY <2>1, <2>2, <2>4
  <1>10. Len(t) = Len(text) - (to - from) + Len(new)
    BY <1>1, <1>3, <1>5, <1>6
  <1> QED
    BY <1>5, <1>7, <1>8, <1>9, <1>10 DEF t

\* What an edit makes of a world, field by field.
LEMMA TwoParts ==
    ASSUME NEW w, IsWorld(w), NEW d, NEW k
    PROVE  [[w EXCEPT !.docs = d] EXCEPT !.comp = k] =
             [engine |-> w.engine, busy |-> w.busy, recent |-> w.recent,
              comp |-> k, docs |-> d, queue |-> w.queue]
  <1> DEFINE v == [w EXCEPT !.docs = d]
  <1>1. v = [engine |-> w.engine, busy |-> w.busy, recent |-> w.recent,
             comp |-> w.comp, docs |-> d, queue |-> w.queue]
    BY DEF IsWorld
  <1> HIDE DEF v
  <1>2. [v EXCEPT !.comp = k] =
             [engine |-> w.engine, busy |-> w.busy, recent |-> w.recent,
              comp |-> k, docs |-> d, queue |-> w.queue]
    BY <1>1
  <1> QED
    BY <1>2 DEF v

LEMMA SetTextIs ==
    ASSUME NEW w, IsWorld(w), NEW c, NEW from, NEW to, NEW new
    PROVE  SetText(w, c, from, to, new) =
             [engine |-> w.engine, busy |-> w.busy, recent |-> w.recent,
              comp |-> Shifted(w.comp, c, from, to, new),
              docs |-> [w.docs EXCEPT ![c] = Edited(w.docs[c], from, to, new)],
              queue |-> w.queue]
  <1> DEFINE d == [w.docs EXCEPT ![c] = Edited(@, from, to, new)]
  <1> DEFINE k == Shifted(w.comp, c, from, to, new)
  <1>1. SetText(w, c, from, to, new) = [[w EXCEPT !.docs = d] EXCEPT !.comp = k]
    BY DEF SetText
  <1> HIDE DEF d, k
  <1>2. SetText(w, c, from, to, new) =
             [engine |-> w.engine, busy |-> w.busy, recent |-> w.recent,
              comp |-> k, docs |-> d, queue |-> w.queue]
    BY <1>1, TwoParts
  <1> QED
    BY <1>2 DEF d, k

-----------------------------------------------------------------------------
(* What the operators on a world keep.                                       *)

LEMMA FieldsIs ==
    ASSUME NEW e, NEW b, NEW r, NEW k, NEW d, NEW q, NEW w,
           w = [engine |-> e, busy |-> b, recent |-> r, comp |-> k, docs |-> d, queue |-> q]
    PROVE  /\ IsWorld(w)
           /\ w.engine = e /\ w.busy = b /\ w.recent = r
           /\ w.comp = k /\ w.docs = d /\ w.queue = q
  BY DEF IsWorld

LEMMA RangeIs ==
    ASSUME NEW k, NEW d, RangeOK(k, d)
    PROVE  /\ k.open \in BOOLEAN
           /\ ~k.open <=> k = NoComposition
           /\ k.open => /\ k \in Ranges /\ k.context \in Contexts /\ k.alive \in BOOLEAN
                        /\ k.from \in Nat /\ k.to \in Nat /\ k.from <= k.to
                        /\ k.to <= Len(d[k.context].text)
                        /\ k = [open |-> TRUE, context |-> k.context, alive |-> k.alive,
                                from |-> k.from, to |-> k.to]
  <1>1. CASE k = NoComposition
    BY <1>1 DEF NoComposition
  <1>2. CASE /\ k \in Ranges
             /\ k.from <= k.to /\ k.to <= Len(d[k.context].text)
    <2>1. /\ k.open = TRUE /\ k.context \in Contexts /\ k.alive \in BOOLEAN
          /\ k.from \in Nat /\ k.to \in Nat
      BY <1>2 DEF Ranges
    <2>2. k = [open |-> TRUE, context |-> k.context, alive |-> k.alive,
               from |-> k.from, to |-> k.to]
      BY <1>2 DEF Ranges
    <2>3. k # NoComposition
      BY <2>1 DEF NoComposition
    <2> QED
      BY <1>2, <2>1, <2>2, <2>3
  <1> QED
    BY <1>1, <1>2 DEF RangeOK

Reset(k, a, b) == [k EXCEPT !.from = a, !.to = b]

LEMMA RangeWith ==
    ASSUME NEW open, NEW c, NEW alive, NEW from, NEW to, NEW a, NEW b, NEW k,
           k = [open |-> open, context |-> c, alive |-> alive, from |-> from, to |-> to]
    PROVE  Reset(k, a, b) =
             [open |-> open, context |-> c, alive |-> alive, from |-> a, to |-> b]
  <1> DEFINE j == [k EXCEPT !.from = a]
  <1>1. j = [open |-> open, context |-> c, alive |-> alive, from |-> a, to |-> to]
    OBVIOUS
  <1>2. [k EXCEPT !.from = a, !.to = b] = [j EXCEPT !.to = b]
    OBVIOUS
  <1> HIDE DEF j
  <1>3. [j EXCEPT !.to = b] = [open |-> open, context |-> c, alive |-> alive, from |-> a, to |-> b]
    BY <1>1
  <1> QED
    BY <1>2, <1>3 DEF Reset

\* All documents but one are the same.
SameBut(f, d, c) == \A b \in Contexts : b # c => f[b] = d[b]

LEMMA DocIs ==
    ASSUME NEW d, DocsOK(d), NEW c \in Contexts
    PROVE  /\ d[c].text \in Seq(Character) /\ Len(d[c].text) \in Nat
           /\ d[c].caret \in Nat /\ d[c].caret <= Len(d[c].text)
           /\ d[c] = [text |-> d[c].text, caret |-> d[c].caret]
  BY DEF DocsOK, Docs

LEMMA DocsWith ==
    ASSUME NEW d, DocsOK(d), NEW c \in Contexts, NEW text \in Seq(Character),
           NEW caret \in Nat, caret <= Len(text)
    PROVE  LET f == [d EXCEPT ![c] = [text |-> text, caret |-> caret]] IN
           /\ DocsOK(f)
           /\ f[c].text = text /\ f[c].caret = caret
           /\ SameBut(f, d, c)
  <1> DEFINE doc == [text |-> text, caret |-> caret]
  <1> DEFINE f == [d EXCEPT ![c] = doc]
  <1>1. doc \in [text : Seq(Character), caret : Nat] /\ doc.text = text /\ doc.caret = caret
    OBVIOUS
  <1> HIDE DEF doc
  <1>2. /\ f \in Docs /\ f[c] = doc
        /\ SameBut(f, d, c)
    BY <1>1 DEF DocsOK, Docs, SameBut
  <1> HIDE DEF f
  <1>3. \A b \in Contexts : f[b].caret <= Len(f[b].text)
    BY <1>1, <1>2 DEF DocsOK, SameBut
  <1>4. DocsOK(f) /\ f[c].text = text /\ f[c].caret = caret
    BY <1>1, <1>2, <1>3 DEF DocsOK
  <1> QED
    BY <1>2, <1>4 DEF f, doc

LEMMA EditedIs ==
    ASSUME NEW d, DocsOK(d), NEW c \in Contexts, NEW from \in Nat, NEW to \in Nat,
           from <= to, to <= Len(d[c].text), NEW new \in Seq(Character)
    PROVE  LET f == [d EXCEPT ![c] = Edited(d[c], from, to, new)] IN
           /\ DocsOK(f)
           /\ f[c].text = Spliced(d[c].text, from, to, new)
           /\ f[c].caret = Moved(d[c].caret, from, to, Len(new))
           /\ Len(f[c].text) = Len(d[c].text) - (to - from) + Len(new)
           /\ SameBut(f, d, c)
  <1> DEFINE text == Spliced(d[c].text, from, to, new)
  <1> DEFINE caret == Moved(d[c].caret, from, to, Len(new))
  <1>1. /\ d[c].text \in Seq(Character) /\ Len(d[c].text) \in Nat
        /\ d[c].caret \in Nat /\ d[c].caret <= Len(d[c].text)
    BY DocIs
  <1>2. text \in Seq(Character) /\ Len(text) = Len(d[c].text) - (to - from) + Len(new)
    <2> DEFINE old == d[c].text
    <2>1. old \in Seq(Character) /\ to <= Len(old)
      BY <1>1
    <2> HIDE DEF old
    <2>2. /\ Spliced(old, from, to, new) \in Seq(Character)
          /\ Len(Spliced(old, from, to, new)) = Len(old) - (to - from) + Len(new)
      BY <2>1, SplicedIs
    <2> QED
      BY <2>2 DEF old
  <1>7. Len(new) \in Nat
    OBVIOUS
  <1>3. caret \in Nat /\ caret <= Len(d[c].text) - (to - from) + Len(new)
    <2> DEFINE p == d[c].caret
    <2> DEFINE len == Len(d[c].text)
    <2> DEFINE size == Len(new)
    <2>1. p \in Nat /\ len \in Nat /\ size \in Nat /\ p <= p /\ p <= len /\ to <= len
      BY <1>1, <1>7
    <2> HIDE DEF p, len, size
    <2>2. Moved(p, from, to, size) \in Nat /\ Moved(p, from, to, size) <= len - (to - from) + size
      BY <2>1, MovedBound
    <2> QED
      BY <2>2 DEF p, len, size
  <1>4. Edited(d[c], from, to, new) = [text |-> text, caret |-> caret]
    BY DEF Edited
  <1> HIDE DEF text, caret
  <1>5. caret <= Len(text)
    BY <1>2, <1>3
  <1>6. LET f == [d EXCEPT ![c] = [text |-> text, caret |-> caret]] IN
           /\ DocsOK(f)
           /\ f[c].text = text /\ f[c].caret = caret
           /\ SameBut(f, d, c)
    BY <1>2, <1>3, <1>5, DocsWith
  <1> QED
    BY <1>2, <1>4, <1>6 DEF text, caret

LEMMA ShiftedIs ==
    ASSUME NEW d, DocsOK(d), NEW f, NEW k, RangeOK(k, d), NEW c \in Contexts,
           NEW from \in Nat, NEW to \in Nat,
           from <= to, to <= Len(d[c].text), NEW new \in Seq(Character),
           Len(f[c].text) = Len(d[c].text) - (to - from) + Len(new),
           SameBut(f, d, c)
    PROVE  LET m == Shifted(k, c, from, to, new) IN
           /\ RangeOK(m, f)
           /\ m.open = k.open
           /\ k.open => /\ m.context = k.context /\ m.alive = k.alive
                        /\ k.context # c => m = k
                        /\ k.context = c => /\ m.from = Moved(k.from, from, to, Len(new))
                                            /\ m.to = Moved(k.to, from, to, Len(new))
  <1> DEFINE m == Shifted(k, c, from, to, new)
  <1>1. CASE ~k.open
    <2>1. m = k /\ k = NoComposition
      BY <1>1, RangeIs DEF Shifted
    <2> QED
      BY <1>1, <2>1 DEF RangeOK
  <1>2. CASE k.open /\ k.context # c
    <2>1. m = k /\ k.context \in Contexts /\ f[k.context] = d[k.context]
      BY <1>2, RangeIs DEF Shifted, SameBut
    <2>2. k \in Ranges /\ k.from <= k.to /\ k.to <= Len(f[k.context].text)
      BY <1>2, <2>1, RangeIs
    <2> QED
      BY <1>2, <2>1, <2>2 DEF RangeOK
  <1>3. CASE k.open /\ k.context = c
    <2> DEFINE a == Moved(k.from, from, to, Len(new))
    <2> DEFINE b == Moved(k.to, from, to, Len(new))
    <2>1. /\ k.from \in Nat /\ k.to \in Nat /\ k.from <= k.to /\ k.to <= Len(d[c].text)
          /\ k = [open |-> TRUE, context |-> c, alive |-> k.alive, from |-> k.from, to |-> k.to]
          /\ k.alive \in BOOLEAN
      BY <1>3, RangeIs
    <2>2. Len(d[c].text) \in Nat
      BY DocIs
    <2> DEFINE p == k.from
    <2> DEFINE q == k.to
    <2> DEFINE len == Len(d[c].text)
    <2> DEFINE size == Len(new)
    <2>3. /\ p \in Nat /\ q \in Nat /\ len \in Nat /\ size \in Nat
          /\ p <= q /\ q <= q /\ q <= len /\ to <= len
      BY <2>1, <2>2
    <2>4. a \in Nat /\ a <= b /\ b \in Nat /\ b <= Len(d[c].text) - (to - from) + Len(new)
      <3> HIDE DEF p, q, len, size
      <3>1. Moved(p, from, to, size) \in Nat /\ Moved(p, from, to, size) <= Moved(q, from, to, size)
        BY <2>3, MovedIs
      <3>2. Moved(q, from, to, size) \in Nat /\ Moved(q, from, to, size) <= len - (to - from) + size
        BY <2>3, MovedBound
      <3> QED
        BY <3>1, <3>2 DEF p, q, len, size
    <2>5. m = Reset(k, a, b)
      BY <1>3 DEF Shifted, Reset
    <2> HIDE DEF m, a, b
    <2>8. m = [open |-> TRUE, context |-> c, alive |-> k.alive, from |-> a, to |-> b]
      <3> DEFINE alive == k.alive
      <3> DEFINE yes == TRUE
      <3>1. k = [open |-> yes, context |-> c, alive |-> alive, from |-> p, to |-> q]
        BY <2>1
      <3> HIDE DEF alive, p, q, yes
      <3>2. Reset(k, a, b) =
              [open |-> yes, context |-> c, alive |-> alive, from |-> a, to |-> b]
        BY <3>1, RangeWith
      <3> QED
        BY <2>5, <3>2 DEF alive, yes
    <2>9. m \in Ranges /\ m.from = a /\ m.to = b /\ m.context = c /\ m.alive = k.alive /\ m.open = TRUE
      BY <2>1, <2>4, <2>8 DEF Ranges
    <2>10. RangeOK(m, f)
      BY <2>4, <2>9 DEF RangeOK
    <2> QED
      BY <1>3, <2>1, <2>9, <2>10 DEF m, a, b
  <1> QED
    <2>1. k.open \in BOOLEAN
      BY RangeIs
    <2> QED
      BY <1>1, <1>2, <1>3, <2>1

LEMMA SetTextOK ==
    ASSUME NEW w, WorldOK(w), NEW c \in Contexts, NEW from \in Nat, NEW to \in Nat,
           from <= to, to <= Len(w.docs[c].text), NEW new \in Seq(Character)
    PROVE  LET v == SetText(w, c, from, to, new) IN
           /\ WorldOK(v)
           /\ v.engine = w.engine /\ v.busy = w.busy /\ v.recent = w.recent /\ v.queue = w.queue
           /\ v.comp = Shifted(w.comp, c, from, to, new)
           /\ v.docs[c].text = Spliced(w.docs[c].text, from, to, new)
           /\ v.docs[c].caret = Moved(w.docs[c].caret, from, to, Len(new))
           /\ Len(v.docs[c].text) = Len(w.docs[c].text) - (to - from) + Len(new)
           /\ SameBut(v.docs, w.docs, c)
  <1> DEFINE v == SetText(w, c, from, to, new)
  <1> DEFINE k == Shifted(w.comp, c, from, to, new)
  <1> DEFINE f == [w.docs EXCEPT ![c] = Edited(w.docs[c], from, to, new)]
  <1> DEFINE d == w.docs
  <1> DEFINE j == w.comp
  <1>1. IsWorld(w) /\ DocsOK(d) /\ RangeOK(j, d)
    BY DEF WorldOK
  <1>2. v = [engine |-> w.engine, busy |-> w.busy, recent |-> w.recent,
             comp |-> k, docs |-> f, queue |-> w.queue]
    BY <1>1, SetTextIs
  <1>3. /\ DocsOK(f)
        /\ f[c].text = Spliced(w.docs[c].text, from, to, new)
        /\ f[c].caret = Moved(w.docs[c].caret, from, to, Len(new))
        /\ Len(f[c].text) = Len(w.docs[c].text) - (to - from) + Len(new)
        /\ SameBut(f, w.docs, c)
    <2>1. to <= Len(d[c].text)
      OBVIOUS
    <2> DEFINE g == [d EXCEPT ![c] = Edited(d[c], from, to, new)]
    <2> HIDE DEF d
    <2>2. /\ DocsOK(g)
          /\ g[c].text = Spliced(d[c].text, from, to, new)
          /\ g[c].caret = Moved(d[c].caret, from, to, Len(new))
          /\ Len(g[c].text) = Len(d[c].text) - (to - from) + Len(new)
          /\ SameBut(g, d, c)
      BY <1>1, <2>1, EditedIs
    <2> QED
      BY <2>2 DEF d
  <1> HIDE DEF v, f
  <1>4. RangeOK(k, f)
    <2>1. to <= Len(d[c].text)
      OBVIOUS
    <2>2. /\ Len(f[c].text) = Len(d[c].text) - (to - from) + Len(new)
          /\ SameBut(f, d, c)
      BY <1>3
    <2> HIDE DEF d, j
    <2>3. RangeOK(Shifted(j, c, from, to, new), f)
      BY <1>1, <2>1, <2>2, ShiftedIs
    <2> QED
      BY <2>3 DEF j
  <1> HIDE DEF k
  <1>5. /\ IsWorld(v) /\ v.engine = w.engine /\ v.busy = w.busy /\ v.recent = w.recent
        /\ v.comp = k /\ v.docs = f /\ v.queue = w.queue
    BY <1>2, FieldsIs
  <1>6. WorldOK(v)
    BY <1>3, <1>4, <1>5 DEF WorldOK
  <1> QED
    BY <1>3, <1>5, <1>6 DEF v, k

LEMMA SetTextParts ==
    ASSUME NEW w, WorldOK(w), NEW c \in Contexts, NEW from \in Nat, NEW to \in Nat,
           from <= to, to <= Len(w.docs[c].text), NEW new \in Seq(Character)
    PROVE  LET v == SetText(w, c, from, to, new) IN
           /\ WorldOK(v) /\ v.engine = w.engine /\ v.busy = w.busy /\ v.queue = w.queue
           /\ v.comp = Shifted(w.comp, c, from, to, new)
  BY SetTextOK

LEMMA CaretWith ==
    ASSUME NEW d, DocsOK(d), NEW c \in Contexts, NEW p \in Nat, p <= Len(d[c].text)
    PROVE  LET f == [d EXCEPT ![c].caret = p] IN
           /\ DocsOK(f)
           /\ f[c].text = d[c].text /\ f[c].caret = p
           /\ SameBut(f, d, c)
  <1> DEFINE text == d[c].text
  <1>1. text \in Seq(Character) /\ p <= Len(text) /\ d[c] = [text |-> text, caret |-> d[c].caret]
    BY DocIs
  <1>2. [d EXCEPT ![c].caret = p] = [d EXCEPT ![c] = [text |-> text, caret |-> p]]
    <2> DEFINE doc == [d[c] EXCEPT !.caret = p]
    <2>1. doc = [text |-> text, caret |-> p]
      BY <1>1
    <2>2. [d EXCEPT ![c].caret = p] = [d EXCEPT ![c] = doc]
      OBVIOUS
    <2> HIDE DEF doc, text
    <2> QED
      BY <2>1, <2>2
  <1> HIDE DEF text
  <1>3. LET f == [d EXCEPT ![c] = [text |-> text, caret |-> p]] IN
        /\ DocsOK(f)
        /\ f[c].text = text /\ f[c].caret = p
        /\ SameBut(f, d, c)
    BY <1>1, DocsWith
  <1> QED
    BY <1>2, <1>3 DEF text

LEMMA StartedIs ==
    ASSUME NEW w, WorldOK(w), NEW c \in Contexts
    PROVE  LET v == StartComposition(w, c) IN
           /\ WorldOK(v)
           /\ v.engine = w.engine /\ v.busy = w.busy /\ v.recent = w.recent
           /\ v.queue = w.queue /\ v.docs = w.docs
           /\ v.comp.open /\ v.comp.alive /\ v.comp.context = c
           /\ v.comp.from = w.docs[c].caret /\ v.comp.to = w.docs[c].caret
  <1> DEFINE p == w.docs[c].caret
  <1> DEFINE k == [open |-> TRUE, context |-> c, alive |-> TRUE, from |-> p, to |-> p]
  <1> DEFINE v == StartComposition(w, c)
  <1>1. /\ IsWorld(w) /\ DocsOK(w.docs)
        /\ p \in Nat /\ p <= Len(w.docs[c].text)
    BY DocIs DEF WorldOK
  <1>2. v = [w EXCEPT !.comp = k]
    BY DEF StartComposition
  <1>3. /\ k \in Ranges /\ k.open = TRUE /\ k.context = c /\ k.alive = TRUE
        /\ k.from = p /\ k.to = p
    BY <1>1 DEF Ranges
  <1> HIDE DEF k, v
  <1>4. v = [engine |-> w.engine, busy |-> w.busy, recent |-> w.recent,
             comp |-> k, docs |-> w.docs, queue |-> w.queue]
    BY <1>1, <1>2 DEF IsWorld
  <1>5. RangeOK(k, w.docs)
    BY <1>1, <1>3 DEF RangeOK
  <1> HIDE DEF p
  <1>6. /\ IsWorld(v) /\ v.engine = w.engine /\ v.busy = w.busy /\ v.recent = w.recent
        /\ v.comp = k /\ v.docs = w.docs /\ v.queue = w.queue
    BY <1>4, FieldsIs
  <1>7. WorldOK(v)
    BY <1>5, <1>6 DEF WorldOK
  <1> QED
    BY <1>3, <1>6, <1>7 DEF p, v

\* The range that an update writes, in a world where there is one.
Target(w, c) == IF w.comp.open THEN w ELSE StartComposition(w, c)

LEMMA TargetIs ==
    ASSUME NEW w, WorldOK(w), NEW c \in Contexts
    PROVE  LET v == Target(w, c) IN
           /\ WorldOK(v)
           /\ v.engine = w.engine /\ v.busy = w.busy /\ v.recent = w.recent
           /\ v.queue = w.queue /\ v.docs = w.docs
           /\ v.comp.open
           /\ w.comp.open => v = w
           /\ ~w.comp.open => v.comp.from = w.docs[c].caret /\ v.comp.to = w.docs[c].caret
           /\ Writable(w, c) <=> v.comp.alive /\ v.comp.context = c
  <1>1. CASE w.comp.open
    BY <1>1 DEF Target, Writable
  <1>2. CASE ~w.comp.open
    BY <1>2, StartedIs DEF Target, Writable
  <1> QED
    BY <1>1, <1>2

LEMMA UpdatedIs ==
    ASSUME NEW w, WorldOK(w), NEW c \in Contexts, NEW new \in Seq(Character)
    PROVE  LET u == UpdateComposition(w, c, new)
               k == Target(w, c).comp
           IN
           /\ WorldOK(u)
           /\ u.engine = w.engine /\ u.busy = w.busy /\ u.recent = w.recent /\ u.queue = w.queue
           /\ ~Writable(w, c) => u = w
           /\ Writable(w, c) =>
                /\ u.comp.open /\ u.comp.alive /\ u.comp.context = c
                /\ u.comp.from = k.from /\ u.comp.to = k.from + Len(new)
                /\ k.from \in Nat /\ k.to \in Nat /\ k.from <= k.to /\ k.to <= Len(w.docs[c].text)
                /\ u.docs[c].text = Spliced(w.docs[c].text, k.from, k.to, new)
                /\ u.docs[c].caret = k.from + Len(new)
                /\ SameBut(u.docs, w.docs, c)
  <1> DEFINE v == Target(w, c)
  <1> DEFINE u == UpdateComposition(w, c, new)
  <1> DEFINE from == v.comp.from
  <1> DEFINE to == v.comp.to
  <1> DEFINE s == SetText(v, c, from, to, new)
  <1> DEFINE p == from + Len(new)
  <1>1. /\ WorldOK(v)
        /\ v.engine = w.engine /\ v.busy = w.busy /\ v.recent = w.recent
        /\ v.queue = w.queue /\ v.docs = w.docs
        /\ v.comp.open
        /\ w.comp.open => v = w
        /\ Writable(w, c) <=> v.comp.alive /\ v.comp.context = c
    BY TargetIs
  <1>2. u = IF ~v.comp.alive \/ v.comp.context # c THEN v
            ELSE [s EXCEPT !.docs[c].caret = p, !.comp = [v.comp EXCEPT !.to = p]]
    BY DEF UpdateComposition, Target
  <1>3. CASE ~Writable(w, c)
    <2>1. w.comp.open
      BY <1>3 DEF Writable
    <2>2. u = w
      BY <1>1, <1>2, <1>3, <2>1
    <2> QED
      BY <1>3, <2>2
  <1>4. CASE Writable(w, c)
    <2> DEFINE k == v.comp
    <2>1. /\ k.context = c /\ k.alive = TRUE
          /\ from \in Nat /\ to \in Nat /\ from <= to /\ to <= Len(v.docs[c].text)
          /\ k = [open |-> TRUE, context |-> c, alive |-> k.alive, from |-> from, to |-> to]
      <3>1. RangeOK(k, v.docs) /\ k.open /\ k.alive /\ k.context = c
        BY <1>1, <1>4 DEF WorldOK
      <3> HIDE DEF v
      <3>2. /\ k.alive \in BOOLEAN
            /\ k.from \in Nat /\ k.to \in Nat /\ k.from <= k.to
            /\ k.to <= Len(v.docs[k.context].text)
            /\ k = [open |-> TRUE, context |-> k.context, alive |-> k.alive,
                    from |-> k.from, to |-> k.to]
        BY <3>1, RangeIs
      <3> QED
        BY <3>1, <3>2
    <2> DEFINE d == [s.docs EXCEPT ![c].caret = p]
    <2> DEFINE j == [k EXCEPT !.to = p]
    <2>2. u = [s EXCEPT !.docs[c].caret = p, !.comp = j]
      BY <1>1, <1>2, <1>4
    <2>3. /\ WorldOK(s)
          /\ s.engine = v.engine /\ s.busy = v.busy /\ s.recent = v.recent /\ s.queue = v.queue
          /\ s.docs[c].text = Spliced(v.docs[c].text, from, to, new)
          /\ Len(s.docs[c].text) = Len(v.docs[c].text) - (to - from) + Len(new)
          /\ SameBut(s.docs, v.docs, c)
      <3>1. WorldOK(v) /\ to <= Len(v.docs[c].text) /\ from <= to /\ from \in Nat /\ to \in Nat
        BY <1>1, <2>1
      <3> HIDE DEF v, from, to
      <3>2. LET x == SetText(v, c, from, to, new) IN
            /\ WorldOK(x)
            /\ x.engine = v.engine /\ x.busy = v.busy /\ x.recent = v.recent /\ x.queue = v.queue
            /\ x.comp = Shifted(v.comp, c, from, to, new)
            /\ x.docs[c].text = Spliced(v.docs[c].text, from, to, new)
            /\ x.docs[c].caret = Moved(v.docs[c].caret, from, to, Len(new))
            /\ Len(x.docs[c].text) = Len(v.docs[c].text) - (to - from) + Len(new)
            /\ SameBut(x.docs, v.docs, c)
        BY <3>1, SetTextOK, Zenon
      <3> QED
        BY <3>2
    <2> HIDE DEF u, s
    <2>4. Len(new) \in Nat /\ Len(v.docs[c].text) \in Nat
      <3>1. DocsOK(v.docs)
        BY <1>1 DEF WorldOK
      <3> HIDE DEF v
      <3> QED
        BY <3>1, DocIs
    <2>5. p \in Nat /\ p <= Len(s.docs[c].text) /\ from <= p
      <3> HIDE DEF from, to
      <3> QED
        BY <2>1, <2>3, <2>4
    <2>6. u = [[s EXCEPT !.docs = d] EXCEPT !.comp = j]
      BY <2>2
    <2>7. j = [open |-> TRUE, context |-> c, alive |-> k.alive, from |-> from, to |-> p]
      <3> DEFINE yes == TRUE
      <3> DEFINE alive == k.alive
      <3>1. k = [open |-> yes, context |-> c, alive |-> alive, from |-> from, to |-> to]
        BY <2>1
      <3> HIDE DEF yes, alive, k, from, to, p
      <3>2. j = [open |-> yes, context |-> c, alive |-> alive, from |-> from, to |-> p]
        BY <3>1
      <3> QED
        BY <3>2 DEF yes, alive
    <2>8. j \in Ranges /\ j.open = TRUE /\ j.context = c /\ j.alive = TRUE /\ j.from = from /\ j.to = p
      <3> HIDE DEF j, k, from, to, p
      <3> QED
        BY <2>1, <2>5, <2>7 DEF Ranges
    <2>9. /\ DocsOK(d)
          /\ d[c].text = s.docs[c].text /\ d[c].caret = p
          /\ SameBut(d, s.docs, c)
      <3> DEFINE e == s.docs
      <3>1. DocsOK(e) /\ p <= Len(e[c].text)
        BY <2>3, <2>5 DEF WorldOK
      <3> HIDE DEF e, p
      <3>2. LET f == [e EXCEPT ![c].caret = p] IN
            /\ DocsOK(f)
            /\ f[c].text = e[c].text /\ f[c].caret = p
            /\ SameBut(f, e, c)
        BY <2>5, <3>1, CaretWith
      <3> QED
        BY <3>2 DEF e
    <2> HIDE DEF d, j
    <2>10. RangeOK(j, d)
      <3> HIDE DEF from, to, p
      <3> QED
        BY <2>5, <2>8, <2>9 DEF RangeOK
    <2>11. u = [engine |-> s.engine, busy |-> s.busy, recent |-> s.recent,
                comp |-> j, docs |-> d, queue |-> s.queue]
      <3>1. IsWorld(s)
        BY <2>3 DEF WorldOK
      <3> QED
        BY <2>6, <3>1, TwoParts
    <2>12. /\ IsWorld(u) /\ u.engine = s.engine /\ u.busy = s.busy /\ u.recent = s.recent
           /\ u.comp = j /\ u.docs = d /\ u.queue = s.queue
      BY <2>11, FieldsIs
    <2>13. WorldOK(u)
      BY <2>3, <2>9, <2>10, <2>12 DEF WorldOK
    <2>14. SameBut(u.docs, w.docs, c)
      <3> HIDE DEF v
      <3> QED
        BY <1>1, <2>3, <2>9, <2>12 DEF SameBut
    <2>15. /\ u.comp.open /\ u.comp.alive /\ u.comp.context = c
           /\ u.comp.from = from /\ u.comp.to = p
           /\ u.docs[c].text = Spliced(w.docs[c].text, from, to, new)
           /\ u.docs[c].caret = p
      <3> HIDE DEF v, from, to, p
      <3> QED
        BY <1>1, <2>3, <2>8, <2>9, <2>12
    <2>16. to <= Len(w.docs[c].text)
      BY <1>1, <2>1
    <2>17. u.engine = w.engine /\ u.busy = w.busy /\ u.recent = w.recent /\ u.queue = w.queue
      <3> HIDE DEF v
      <3> QED
        BY <1>1, <2>3, <2>12
    <2> HIDE DEF k
    <2> QED
      BY <1>4, <2>1, <2>13, <2>14, <2>15, <2>16, <2>17, Zenon DEF u
  <1> QED
    BY <1>3, <1>4

LEMMA EndedIs ==
    ASSUME NEW w, WorldOK(w)
    PROVE  LET v == EndComposition(w) IN
           /\ WorldOK(v)
           /\ v.engine = w.engine /\ v.busy = w.busy /\ v.recent = w.recent
           /\ v.queue = w.queue /\ v.docs = w.docs /\ ~v.comp.open
  <1> DEFINE v == EndComposition(w)
  <1>1. IsWorld(w)
    BY DEF WorldOK
  <1>2. v = [engine |-> w.engine, busy |-> w.busy, recent |-> w.recent,
             comp |-> NoComposition, docs |-> w.docs, queue |-> w.queue]
    BY <1>1 DEF EndComposition, IsWorld
  <1> HIDE DEF v
  <1>3. /\ IsWorld(v) /\ v.engine = w.engine /\ v.busy = w.busy /\ v.recent = w.recent
        /\ v.comp = NoComposition /\ v.docs = w.docs /\ v.queue = w.queue
    BY <1>2, FieldsIs
  <1>4. WorldOK(v) /\ ~v.comp.open
    BY <1>3 DEF WorldOK, RangeOK, NoComposition
  <1> QED
    BY <1>3, <1>4 DEF v

-----------------------------------------------------------------------------
(* The characters of a word.                                                 *)

\* The engine is made for the present settings.
Set == config \in Configs

LEMMA SetIs == ASSUME Set PROVE config.method \in Methods
  BY TsfConstants DEF Set, Config

\* What the engine makes separates no words.
LEMMA WordCharEditable ==
    ASSUME Set, NEW c \in WordChars
    PROVE  IsEditableCommittedChar(c)
  <1> DEFINE method == config.method
  <1>1. method \in Methods
    BY SetIs
  <1>2. CASE c \in [base : WordBases(method), tone : {0}]
    <2>1. Name(c) = c.base /\ c.base \in WordBases(method)
      BY <1>2 DEF Name
    <2>2. CASE c.base \in Unaccented
      BY <2>1, <2>2 DEF IsEditableCommittedChar, IsWordChar, Alphabetic
    <2>3. CASE method = "VNI" /\ c.base \in Digits
      BY <2>1, <2>3 DEF IsEditableCommittedChar, IsPotentialModifier
    <2>4. CASE method = "VIQR" /\ c.base \in ViqrMarks
      BY <2>1, <2>4 DEF IsEditableCommittedChar, IsPotentialModifier
    <2> QED
      BY <2>1, <2>2, <2>3, <2>4 DEF WordBases
  <1>3. CASE c \in [base : Vowels, tone : 1..5]
    <2>1. Name(c) \in Alphabetic
      BY <1>3, NameToned DEF Alphabetic
    <2> QED
      BY <2>1 DEF IsEditableCommittedChar, IsWordChar
  <1> QED
    BY <1>2, <1>3 DEF WordChars, CharactersOver

LEMMA WordCharIs == WordChars \subseteq Character
  BY DEF WordChars, Character, CharactersOver, WordBases

LEMMA WordIs ==
    ASSUME Set, NEW e, EngineOver(e, config.method)
    PROVE  /\ e.comp \in Seq(Character) /\ Len(e.comp) \in Nat
           /\ Joined(e.comp, 1, Len(e.comp))
           /\ e.raw \in Seq(UNION {Alphabetic, Digits, ViqrMarks})
           /\ ~IsInWord(e) <=> e = Cleared
           /\ ~IsInWord(e) <=> e.comp = <<>>
           /\ e.did \in BOOLEAN
           /\ e = [raw |-> e.raw, comp |-> e.comp, did |-> e.did]
  <1>1. e.comp \in Seq(WordChars) /\ e.raw \in Seq(KeysOver(WordBases(config.method))) /\ EngineOK(e)
    BY DEF EngineOver, WordChars
  <1> DEFINE t == e.comp
  <1> DEFINE r == e.raw
  <1> DEFINE Bases0 == KeysOver(WordBases(config.method))
  <1> DEFINE Bases1 == UNION {Alphabetic, Digits, ViqrMarks}
  <1>2. Bases0 \subseteq Bases1
    BY DEF KeysOver, WordBases, Alphabetic
  <1>3. t \in Seq(WordChars) /\ r \in Seq(Bases0)
    BY <1>1
  <1> HIDE DEF t, r, Bases0, Bases1
  <1>4. IsSeq(t) /\ \A i \in 1..Len(t) : t[i] \in WordChars
    BY <1>3, OverSeq
  <1>5. IsSeq(r) /\ \A i \in 1..Len(r) : r[i] \in Bases0
    BY <1>3, OverSeq
  <1>6. t \in Seq(Character)
    BY <1>4, WordCharIs, SeqOver
  <1>7. r \in Seq(Bases1)
    BY <1>2, <1>5, SeqOver
  <1>8. Joined(t, 1, Len(t))
    BY <1>4, WordCharEditable DEF Joined
  <1>9. Len(t) \in Nat
    BY <1>3
  <1>10. e.did \in BOOLEAN /\ e = [raw |-> e.raw, comp |-> e.comp, did |-> e.did]
    BY <1>1, Zenon DEF EngineOK
  <1>11. (~IsInWord(e) <=> e = Cleared) /\ (~IsInWord(e) <=> e.comp = <<>>)
    BY <1>1, WordlessIs
  <1> QED
    BY <1>6, <1>7, <1>8, <1>9, <1>10, <1>11 DEF t, r, Bases1

-----------------------------------------------------------------------------
(* The word around the caret.                                                *)

LEMMA BeforeIs ==
    ASSUME NEW at, NEW p \in Nat
    PROVE  Before(at, p) \in 0..p /\ (p - Before(at, p) + 1)..p \subseteq at
  <1> DEFINE S == {n \in 0..p : p - n + 1..p \subseteq at}
  <1>1. 0 \in S /\ S \subseteq 0..p
    OBVIOUS
  <1>2. Before(at, p) = Max(S)
    BY DEF Before
  <1>3. \A n \in S : p - n + 1..p \subseteq at
    OBVIOUS
  <1> HIDE DEF S
  <1>4. Max(S) \in S
    BY <1>1, Greatest
  <1> QED
    BY <1>1, <1>2, <1>3, <1>4

LEMMA AfterIs ==
    ASSUME NEW at, NEW p \in Nat, NEW size \in Nat, p <= size
    PROVE  After(at, p, size) \in 0..(size - p) /\ (p + 1)..(p + After(at, p, size)) \subseteq at
  <1> DEFINE S == {n \in 0..size - p : p + 1..p + n \subseteq at}
  <1> DEFINE m == size - p
  <1>1. 0 \in S /\ S \subseteq 0..m /\ m \in Nat
    OBVIOUS
  <1>2. After(at, p, size) = Max(S)
    BY DEF After
  <1>3. \A n \in S : p + 1..p + n \subseteq at
    OBVIOUS
  <1> HIDE DEF S, m
  <1>4. Max(S) \in S
    BY <1>1, Greatest
  <1>5. Max(S) \in 0..m
    BY <1>1, <1>4
  <1> QED
    BY <1>2, <1>3, <1>4, <1>5 DEF m

\* The positions from the word's start to its end hold its letters.
SpanOK(text, caret, span) ==
    /\ span.left \in Nat /\ span.right \in Nat /\ span.delimiters \in Nat
    /\ span.left + span.delimiters <= caret
    /\ caret + span.right <= Len(text)
    /\ span.right = 0 \/ span.delimiters = 0
    /\ span.word \in Seq(Character)
    /\ Joined(text, ReplacementStart(caret, span) + 1, ReplacementEnd(caret, span))

LEMMA SpanIs ==
    ASSUME NEW text \in Seq(Character), NEW caret \in Nat, caret <= Len(text),
           NEW trailing \in BOOLEAN
    PROVE  LET span == ExtractWordSpanAroundCaret(text, caret, trailing) IN
           /\ SpanOK(text, caret, span)
           /\ ~trailing => span.delimiters = 0
  <1> DEFINE editable   == {i \in DOMAIN text : IsEditableCommittedChar(text[i])}
  <1> DEFINE left       == Before(editable, caret)
  <1> DEFINE right      == After(editable, caret, Len(text))
  <1> DEFINE delimiters == Before(DOMAIN text \ editable, caret)
  <1> DEFINE farLeft    == Before(editable, caret - delimiters)
  <1> DEFINE span       == ExtractWordSpanAroundCaret(text, caret, trailing)
  <1> DEFINE far        == trailing /\ delimiters > 0 /\ Name(text[caret]) \in ReplayEligible
  <1>1. Len(text) \in Nat /\ DOMAIN text = 1..Len(text)
    OBVIOUS
  <1>2. \/ span = Span(text, left, right, 0, caret)
        \/ trailing /\ span = Span(text, farLeft, 0, delimiters, caret)
        \/ span = NoWord
    BY DEF ExtractWordSpanAroundCaret
  <1>3. \A i \in editable : IsEditableCommittedChar(text[i])
    OBVIOUS
  <1> HIDE DEF editable
  <1>4. left \in 0..caret /\ (caret - left + 1)..caret \subseteq editable
    BY BeforeIs
  <1>5. right \in 0..(Len(text) - caret) /\ (caret + 1)..(caret + right) \subseteq editable
    BY <1>1, AfterIs
  <1>6. delimiters \in 0..caret
    BY BeforeIs
  <1> HIDE DEF delimiters
  <1>7. farLeft \in 0..(caret - delimiters)
        /\ (caret - delimiters - farLeft + 1)..(caret - delimiters) \subseteq editable
    <2> DEFINE p == caret - delimiters
    <2>1. p \in Nat
      BY <1>6
    <2> HIDE DEF p
    <2>2. Before(editable, p) \in 0..p /\ (p - Before(editable, p) + 1)..p \subseteq editable
      BY <2>1, BeforeIs
    <2> QED
      BY <2>2 DEF p
  <1> HIDE DEF left, right, farLeft, span
  <1>8. CASE span = Span(text, left, right, 0, caret)
    <2>1. /\ span.left = left /\ span.right = right /\ span.delimiters = 0
          /\ span.word = SubSeq(text, caret - 0 - left + 1, caret - 0 + right)
      BY <1>8 DEF Span
    <2>2. /\ left \in Nat /\ right \in Nat /\ left <= caret /\ caret + right <= Len(text)
      BY <1>1, <1>4, <1>5
    <2>3. span.word \in Seq(Character)
      <3>1. caret - 0 - left + 1 \in Int /\ caret - 0 - left + 1 >= 1
            /\ caret - 0 + right \in Int /\ caret - 0 + right <= Len(text)
        BY <2>2
      <3> QED
        BY <2>1, <3>1
    <2>4. \A i \in (caret - left - 0 + 1)..(caret + right - 0) : i \in editable
      BY <1>4, <1>5, <2>2
    <2>5. Joined(text, ReplacementStart(caret, span) + 1, ReplacementEnd(caret, span))
      BY <1>3, <2>1, <2>4 DEF ReplacementStart, ReplacementEnd, Joined
    <2>9. SpanOK(text, caret, span) /\ (~trailing => span.delimiters = 0)
      BY <2>1, <2>2, <2>3, <2>5 DEF SpanOK
    <2> QED
      BY <2>9 DEF span
  <1>9. CASE trailing /\ span = Span(text, farLeft, 0, delimiters, caret)
    <2>1. /\ span.left = farLeft /\ span.right = 0 /\ span.delimiters = delimiters
          /\ span.word = SubSeq(text, caret - delimiters - farLeft + 1, caret - delimiters + 0)
      BY <1>9 DEF Span
    <2>2. /\ farLeft \in Nat /\ delimiters \in Nat /\ farLeft + delimiters <= caret
      BY <1>6, <1>7
    <2>3. span.word \in Seq(Character)
      <3>1. caret - delimiters - farLeft + 1 \in Int /\ caret - delimiters - farLeft + 1 >= 1
            /\ caret - delimiters + 0 \in Int /\ caret - delimiters + 0 <= Len(text)
        BY <2>2
      <3> QED
        BY <2>1, <3>1
    <2>4. \A i \in (caret - farLeft - delimiters + 1)..(caret + 0 - delimiters) : i \in editable
      BY <1>7, <2>2
    <2>5. Joined(text, ReplacementStart(caret, span) + 1, ReplacementEnd(caret, span))
      BY <1>3, <2>1, <2>4 DEF ReplacementStart, ReplacementEnd, Joined
    <2>9. SpanOK(text, caret, span) /\ (~trailing => span.delimiters = 0)
      BY <1>9, <2>1, <2>2, <2>3, <2>5 DEF SpanOK
    <2> QED
      BY <2>9 DEF span
  <1>10. CASE span = NoWord
    <2>1. span.left = 0 /\ span.right = 0 /\ span.delimiters = 0 /\ span.word = <<>>
      BY <1>10 DEF NoWord
    <2>2. \A i \in (caret - 0 - 0 + 1)..(caret + 0 - 0) : FALSE
      OBVIOUS
    <2>3. Joined(text, ReplacementStart(caret, span) + 1, ReplacementEnd(caret, span))
      BY <2>1, <2>2 DEF ReplacementStart, ReplacementEnd, Joined
    <2>4. span.word \in Seq(Character)
      BY <2>1
    <2>9. SpanOK(text, caret, span) /\ (~trailing => span.delimiters = 0)
      BY <2>1, <2>3, <2>4 DEF SpanOK
    <2> QED
      BY <2>9 DEF span
  <1> QED
    BY <1>2, <1>8, <1>9, <1>10 DEF span

-----------------------------------------------------------------------------
(* An edit among the letters of a word moves no delimiter past the caret.    *)

Separators(text, n) == {i \in 1..n : ~IsEditableCommittedChar(text[i])}

\* Where position p may be after an edit: it moves with the text, or stays in
\* what the edit has put there.
Follows(q, p, from, to, size) ==
    \/ p <= from /\ q = p
    \/ from <= p /\ p <= to /\ from <= q /\ q <= from + size
    \/ to <= p /\ q = p - (to - from) + size

\* SplicedIs, one fact at a time.
LEMMA SplicedText ==
    ASSUME NEW S, NEW text \in Seq(S), NEW new \in Seq(S),
           NEW from \in Nat, NEW to \in Nat, from <= to, to <= Len(text)
    PROVE  /\ Spliced(text, from, to, new) \in Seq(S)
           /\ Len(Spliced(text, from, to, new)) = Len(text) - (to - from) + Len(new)
           /\ \A i \in 1..from : Spliced(text, from, to, new)[i] = text[i]
           /\ \A i \in 1..Len(new) : Spliced(text, from, to, new)[from + i] = new[i]
           /\ \A i \in (to + 1)..Len(text) : Spliced(text, from, to, new)[i - (to - from) + Len(new)] = text[i]
  <1>1. /\ Spliced(text, from, to, new) \in Seq(S)
        /\ Len(Spliced(text, from, to, new)) = Len(text) - (to - from) + Len(new)
    BY SplicedIs
  <1>2. \A i \in 1..from : Spliced(text, from, to, new)[i] = text[i]
    BY SplicedIs
  <1>3. \A i \in 1..Len(new) : Spliced(text, from, to, new)[from + i] = new[i]
    BY SplicedIs
  <1>4. \A i \in (to + 1)..Len(text) : Spliced(text, from, to, new)[i - (to - from) + Len(new)] = text[i]
    BY SplicedIs
  <1> QED
    BY <1>1, <1>2, <1>3, <1>4

LEMMA OneImage ==
    ASSUME NEW from \in Nat, NEW to \in Nat, NEW delta \in Int, delta >= from - to,
           NEW a \in Nat, NEW b \in Nat, a <= from \/ a > to, b <= from \/ b > to,
           (IF a <= from THEN a ELSE a + delta) = (IF b <= from THEN b ELSE b + delta)
    PROVE  a = b
  OBVIOUS

LEMMA SeparatorsStay ==
    ASSUME NEW text \in Seq(Character), NEW new \in Seq(Character),
           NEW from \in Nat, NEW to \in Nat, from <= to, to <= Len(text),
           Joined(text, from + 1, to),
           Joined(new, 1, Len(new)),
           NEW p \in Nat, p <= Len(text), NEW q \in Nat,
           Follows(q, p, from, to, Len(new))
    PROVE  Cardinality(Separators(Spliced(text, from, to, new), q)) =
             Cardinality(Separators(text, p))
  <1> DEFINE t == Spliced(text, from, to, new)
  <1> DEFINE size == Len(new)
  <1> DEFINE len == Len(text)
  <1> DEFINE delta == size - (to - from)
  <1> DEFINE S == Separators(text, p)
  <1> DEFINE T == Separators(t, q)
  <1> DEFINE f == [i \in S |-> IF i <= from THEN i ELSE i + delta]
  <1>1. size \in Nat /\ len \in Nat /\ to <= len /\ p <= len
    OBVIOUS
  <1>2. /\ t \in Seq(Character) /\ Len(t) = len - (to - from) + size
        /\ \A i \in 1..from : t[i] = text[i]
        /\ \A i \in 1..size : t[from + i] = new[i]
        /\ \A i \in (to + 1)..len : t[i - (to - from) + size] = text[i]
    <2>1. t \in Seq(Character) /\ Len(t) = len - (to - from) + size
      BY SplicedText
    <2>2. \A i \in 1..from : t[i] = text[i]
      BY SplicedText
    <2>3. \A i \in 1..size : t[from + i] = new[i]
      BY SplicedText
    <2>4. \A i \in (to + 1)..len : t[i - (to - from) + size] = text[i]
      BY SplicedText
    <2> QED
      BY <2>1, <2>2, <2>3, <2>4
  <1>3. /\ \A i : i \in S <=> i \in 1..p /\ ~IsEditableCommittedChar(text[i])
        /\ \A i : i \in T <=> i \in 1..q /\ ~IsEditableCommittedChar(t[i])
    BY DEF Separators
  <1>4. \A i \in 1..size : IsEditableCommittedChar(new[i])
    BY DEF Joined
  <1>5. Follows(q, p, from, to, size)
    OBVIOUS
  <1> HIDE DEF t, size, len, S, T
  <1>6. ASSUME NEW i \in S
        PROVE  /\ i \in Nat
               /\ i <= from \/ i > to
               /\ f[i] = IF i <= from THEN i ELSE i + delta
               /\ f[i] \in T
    <2>1. i \in 1..p /\ ~IsEditableCommittedChar(text[i]) /\ i \in Nat
      BY <1>3
    <2>2. ~(i \in (from + 1)..to)
      BY <2>1 DEF Joined
    <2>3. i <= from \/ i > to
      BY <2>1, <2>2
    <2>4. f[i] = IF i <= from THEN i ELSE i + delta
      BY <1>6
    <2> HIDE DEF f
    <2>5. CASE i <= from
      <3>1. i \in 1..from /\ i \in 1..q
        BY <1>5, <2>1, <2>5 DEF Follows
      <3>2. t[i] = text[i]
        BY <1>2, <3>1
      <3> QED
        BY <1>3, <2>1, <2>3, <2>4, <2>5, <3>1, <3>2
    <2>6. CASE i > to
      <3>1. i \in (to + 1)..len /\ ~(i <= from) /\ f[i] = i - (to - from) + size
        BY <1>1, <2>1, <2>4, <2>6
      <3>2. q = p - (to - from) + size
        BY <1>1, <1>5, <2>1, <2>6 DEF Follows
      <3>3. f[i] \in 1..q
        BY <1>1, <2>1, <2>6, <3>1, <3>2
      <3>4. t[f[i]] = text[i]
        BY <1>2, <3>1
      <3> QED
        BY <1>3, <2>1, <2>3, <2>4, <3>3, <3>4
    <2> QED
      BY <2>3, <2>5, <2>6
  <1>7. ASSUME NEW j \in T
        PROVE  \E i \in S : f[i] = j
    <2>1. j \in 1..q /\ ~IsEditableCommittedChar(t[j]) /\ j \in Nat
      BY <1>3
    <2>2. CASE j <= from
      <3>1. j \in 1..from /\ j \in 1..p
        BY <1>5, <2>1, <2>2 DEF Follows
      <3>2. j \in S
        BY <1>2, <1>3, <2>1, <3>1
      <3> QED
        BY <1>6, <2>2, <3>2
    <2>3. CASE from < j /\ j <= from + size
      <3> DEFINE k == j - from
      <3>1. k \in 1..size /\ from + k = j
        BY <1>1, <2>1, <2>3
      <3> HIDE DEF k
      <3>2. t[j] = new[k] /\ IsEditableCommittedChar(new[k])
        BY <1>2, <1>4, <3>1
      <3> QED
        BY <2>1, <3>2
    <2>4. CASE j > from + size
      <3> DEFINE i == j + (to - from) - size
      <3>1. q = p - (to - from) + size
        BY <1>1, <1>5, <2>1, <2>4 DEF Follows
      <3>2. i \in (to + 1)..len /\ i \in 1..p /\ i - (to - from) + size = j /\ ~(i <= from)
            /\ i + delta = j
        BY <1>1, <2>1, <2>4, <3>1
      <3> HIDE DEF i
      <3>3. t[j] = text[i]
        BY <1>2, <3>2
      <3>4. i \in S
        BY <1>3, <2>1, <3>2, <3>3
      <3> QED
        BY <1>6, <3>2, <3>4
    <2> QED
      BY <1>1, <2>1, <2>2, <2>3, <2>4
  <1>8. f \in Bijection(S, T)
    <2>1. f \in [S -> T] /\ DOMAIN f = S
      BY <1>6
    <2>2. ASSUME NEW a \in S, NEW b \in S, f[a] = f[b]
          PROVE  a = b
      <3>1. /\ a \in Nat /\ (a <= from \/ a > to) /\ f[a] = IF a <= from THEN a ELSE a + delta
            /\ b \in Nat /\ (b <= from \/ b > to) /\ f[b] = IF b <= from THEN b ELSE b + delta
        BY <1>6
      <3>2. f[a] = f[b]
        BY <2>2
      <3> HIDE DEF f, delta
      <3>3. delta \in Int /\ delta >= from - to
        BY <1>1 DEF delta
      <3> QED
        BY <3>1, <3>2, <3>3, OneImage
    <2> HIDE DEF f
    <2>3. IsInjective(f)
      BY <2>1, <2>2 DEF IsInjective
    <2> QED
      BY <1>7, <2>1, <2>3 DEF Bijection, Injection, Surjection
  <1> HIDE DEF f
  <1>9. IsFiniteSet(S)
    <2>1. IsFiniteSet(1..p)
      BY FS_Interval
    <2>2. S \in SUBSET (1..p)
      BY <1>3
    <2> QED
      BY <2>1, <2>2, FS_Subset
  <1>10. Cardinality(T) = Cardinality(S)
    BY <1>8, <1>9, FS_Bijection DEF ExistsBijection
  <1> QED
    BY <1>10 DEF S, T, t

\* A document and what an edit has made of it.
DocFollows(e, d, from, to, new) ==
    /\ e.text = Spliced(d.text, from, to, new)
    /\ e.caret \in Nat
    /\ Follows(e.caret, d.caret, from, to, Len(new))

LEMMA DelimitersAre ==
    ASSUME NEW doc
    PROVE  Delimiters(doc) = <<Cardinality(Separators(doc.text, doc.caret)),
                               Cardinality(Separators(doc.text, Len(doc.text)))>>
  BY DEF Delimiters, Separators

LEMMA AllStay ==
    ASSUME NEW text \in Seq(Character), NEW new \in Seq(Character),
           NEW from \in Nat, NEW to \in Nat, from <= to, to <= Len(text),
           Joined(text, from + 1, to),
           Joined(new, 1, Len(new))
    PROVE  \A p, q \in Nat :
             p <= Len(text) /\ Follows(q, p, from, to, Len(new)) =>
               Cardinality(Separators(Spliced(text, from, to, new), q)) =
                 Cardinality(Separators(text, p))
  BY SeparatorsStay

LEMMA EndStays ==
    ASSUME NEW text \in Seq(Character), NEW new \in Seq(Character),
           NEW from \in Nat, NEW to \in Nat, from <= to, to <= Len(text)
    PROVE  LET t == Spliced(text, from, to, new) IN
           /\ Len(t) \in Nat /\ Len(text) \in Nat /\ Len(text) <= Len(text)
           /\ Follows(Len(t), Len(text), from, to, Len(new))
  <1>1. Len(Spliced(text, from, to, new)) = Len(text) - (to - from) + Len(new)
    BY SplicedText
  <1>2. Len(new) \in Nat /\ Len(text) \in Nat
    OBVIOUS
  <1> QED
    BY <1>1, <1>2 DEF Follows

LEMMA DelimitersFollow ==
    ASSUME NEW e, NEW d, d.text \in Seq(Character), d.caret \in Nat, d.caret <= Len(d.text),
           NEW new \in Seq(Character),
           NEW from \in Nat, NEW to \in Nat, from <= to, to <= Len(d.text),
           Joined(d.text, from + 1, to),
           Joined(new, 1, Len(new)),
           DocFollows(e, d, from, to, new)
    PROVE  Delimiters(e) = Delimiters(d)
  <1>1. e.text = Spliced(d.text, from, to, new) /\ e.caret \in Nat
        /\ Follows(e.caret, d.caret, from, to, Len(new))
    BY DEF DocFollows
  <1>2. \A p, q \in Nat :
             p <= Len(d.text) /\ Follows(q, p, from, to, Len(new)) =>
               Cardinality(Separators(Spliced(d.text, from, to, new), q)) =
                 Cardinality(Separators(d.text, p))
    BY AllStay
  <1>3. LET t == Spliced(d.text, from, to, new) IN
           /\ Len(t) \in Nat /\ Len(d.text) \in Nat /\ Len(d.text) <= Len(d.text)
           /\ Follows(Len(t), Len(d.text), from, to, Len(new))
    BY EndStays, Zenon
  <1>4. Cardinality(Separators(e.text, e.caret)) = Cardinality(Separators(d.text, d.caret))
    BY <1>1, <1>2, Zenon
  <1>5. Cardinality(Separators(e.text, Len(e.text))) = Cardinality(Separators(d.text, Len(d.text)))
    BY <1>1, <1>2, <1>3, Zenon
  <1> QED
    BY <1>4, <1>5, DelimitersAre, Zenon

\* What Moved does to a position follows the edit.
LEMMA MovedFollows ==
    ASSUME NEW p \in Nat, NEW from \in Nat, NEW to \in Nat, from <= to, NEW size \in Nat
    PROVE  Follows(Moved(p, from, to, size), p, from, to, size)
  BY DEF Moved, Follows

\* Two worlds whose documents differ by no delimiter.
Kept(v, w) == \A c \in Contexts : Delimiters(v.docs[c]) = Delimiters(w.docs[c])

LEMMA KeptIs ==
    ASSUME NEW v, NEW w, DocsOK(w.docs), NEW c \in Contexts, SameBut(v.docs, w.docs, c),
           NEW new \in Seq(Character),
           NEW from \in Nat, NEW to \in Nat, from <= to, to <= Len(w.docs[c].text),
           Joined(w.docs[c].text, from + 1, to),
           Joined(new, 1, Len(new)),
           DocFollows(v.docs[c], w.docs[c], from, to, new)
    PROVE  Kept(v, w)
  <1> DEFINE d == w.docs[c]
  <1> DEFINE e == v.docs[c]
  <1>1. /\ d.text \in Seq(Character) /\ d.caret \in Nat /\ d.caret <= Len(d.text)
    BY DocIs
  <1>2. /\ to <= Len(d.text) /\ DocFollows(e, d, from, to, new)
        /\ Joined(d.text, from + 1, to)
    OBVIOUS
  <1> HIDE DEF d, e
  <1>3. Delimiters(e) = Delimiters(d)
    BY <1>1, <1>2, DelimitersFollow
  <1> QED
    BY <1>3 DEF Kept, SameBut, d, e

LEMMA KeptThrough ==
    ASSUME NEW u, NEW v, NEW w, Kept(u, v), Kept(v, w)
    PROVE  Kept(u, w)
  BY DEF Kept

-----------------------------------------------------------------------------
(* Worlds with one field of another value.                                   *)

LEMMA WithEngine ==
    ASSUME NEW w, WorldOK(w), NEW e, EngineOver(e, config.method)
    PROVE  LET v == [w EXCEPT !.engine = e] IN
           /\ WorldOK(v) /\ v.engine = e
           /\ v.busy = w.busy /\ v.recent = w.recent
           /\ v.comp = w.comp /\ v.docs = w.docs /\ v.queue = w.queue
  <1> DEFINE v == [w EXCEPT !.engine = e]
  <1>1. v = [engine |-> e, busy |-> w.busy, recent |-> w.recent,
             comp |-> w.comp, docs |-> w.docs, queue |-> w.queue]
    BY DEF WorldOK, IsWorld
  <1> HIDE DEF v
  <1>2. /\ IsWorld(v) /\ v.engine = e /\ v.busy = w.busy /\ v.recent = w.recent
        /\ v.comp = w.comp /\ v.docs = w.docs /\ v.queue = w.queue
    BY <1>1, FieldsIs
  <1>3. WorldOK(v)
    BY <1>2 DEF WorldOK
  <1> QED
    BY <1>2, <1>3 DEF v

LEMMA WithRecent ==
    ASSUME NEW w, WorldOK(w), NEW b \in BOOLEAN
    PROVE  LET v == [w EXCEPT !.recent = b] IN
           /\ WorldOK(v) /\ v.engine = w.engine
           /\ v.busy = w.busy /\ v.recent = b
           /\ v.comp = w.comp /\ v.docs = w.docs /\ v.queue = w.queue
  <1> DEFINE v == [w EXCEPT !.recent = b]
  <1>1. v = [engine |-> w.engine, busy |-> w.busy, recent |-> b,
             comp |-> w.comp, docs |-> w.docs, queue |-> w.queue]
    BY DEF WorldOK, IsWorld
  <1> HIDE DEF v
  <1>2. /\ IsWorld(v) /\ v.engine = w.engine /\ v.busy = w.busy /\ v.recent = b
        /\ v.comp = w.comp /\ v.docs = w.docs /\ v.queue = w.queue
    BY <1>1, FieldsIs
  <1>3. WorldOK(v)
    BY <1>2 DEF WorldOK
  <1> QED
    BY <1>2, <1>3 DEF v

LEMMA WithBusy ==
    ASSUME NEW w, WorldOK(w), NEW b \in BOOLEAN
    PROVE  LET v == [w EXCEPT !.busy = b] IN
           /\ WorldOK(v) /\ v.engine = w.engine
           /\ v.busy = b /\ v.recent = w.recent
           /\ v.comp = w.comp /\ v.docs = w.docs /\ v.queue = w.queue
  <1> DEFINE v == [w EXCEPT !.busy = b]
  <1>1. v = [engine |-> w.engine, busy |-> b, recent |-> w.recent,
             comp |-> w.comp, docs |-> w.docs, queue |-> w.queue]
    BY DEF WorldOK, IsWorld
  <1> HIDE DEF v
  <1>2. /\ IsWorld(v) /\ v.engine = w.engine /\ v.busy = b /\ v.recent = w.recent
        /\ v.comp = w.comp /\ v.docs = w.docs /\ v.queue = w.queue
    BY <1>1, FieldsIs
  <1>3. WorldOK(v)
    BY <1>2 DEF WorldOK
  <1> QED
    BY <1>2, <1>3 DEF v

LEMMA WithQueue ==
    ASSUME NEW w, WorldOK(w), NEW q, QueueOK(q)
    PROVE  LET v == [w EXCEPT !.queue = q] IN
           /\ WorldOK(v) /\ v.engine = w.engine
           /\ v.busy = w.busy /\ v.recent = w.recent
           /\ v.comp = w.comp /\ v.docs = w.docs /\ v.queue = q
  <1> DEFINE v == [w EXCEPT !.queue = q]
  <1>1. v = [engine |-> w.engine, busy |-> w.busy, recent |-> w.recent,
             comp |-> w.comp, docs |-> w.docs, queue |-> q]
    BY DEF WorldOK, IsWorld
  <1> HIDE DEF v
  <1>2. /\ IsWorld(v) /\ v.engine = w.engine /\ v.busy = w.busy /\ v.recent = w.recent
        /\ v.comp = w.comp /\ v.docs = w.docs /\ v.queue = q
    BY <1>1, FieldsIs
  <1>3. WorldOK(v)
    BY <1>2 DEF WorldOK
  <1> QED
    BY <1>2, <1>3 DEF v

\* The caret of document c goes to p.
WithCaret(w, c, p) == [w EXCEPT !.docs[c].caret = p]

LEMMA CaretIs ==
    ASSUME NEW w, WorldOK(w), NEW c \in Contexts, NEW p \in Nat, p <= Len(w.docs[c].text)
    PROVE  LET v == WithCaret(w, c, p) IN
           /\ WorldOK(v) /\ v.engine = w.engine
           /\ v.busy = w.busy /\ v.recent = w.recent
           /\ v.comp = w.comp /\ v.queue = w.queue
           /\ v.docs[c].text = w.docs[c].text /\ v.docs[c].caret = p
           /\ SameBut(v.docs, w.docs, c)
  <1> DEFINE v == WithCaret(w, c, p)
  <1> DEFINE d == w.docs
  <1> DEFINE f == [d EXCEPT ![c].caret = p]
  <1>1. v = [w EXCEPT !.docs = f]
    BY DEF WithCaret
  <1>2. DocsOK(d) /\ p <= Len(d[c].text) /\ IsWorld(w) /\ RangeOK(w.comp, d)
    BY DEF WorldOK
  <1> HIDE DEF d, v
  <1>3. /\ DocsOK(f)
        /\ f[c].text = d[c].text /\ f[c].caret = p
        /\ SameBut(f, d, c)
    BY <1>2, CaretWith
  <1> HIDE DEF f
  <1>4. v = [engine |-> w.engine, busy |-> w.busy, recent |-> w.recent,
             comp |-> w.comp, docs |-> f, queue |-> w.queue]
    BY <1>1, <1>2 DEF IsWorld
  <1>5. /\ IsWorld(v) /\ v.engine = w.engine /\ v.busy = w.busy /\ v.recent = w.recent
        /\ v.comp = w.comp /\ v.docs = f /\ v.queue = w.queue
    BY <1>4, FieldsIs
  <1>6. RangeOK(w.comp, f)
    <2> DEFINE k == w.comp
    <2>1. CASE k = NoComposition
      BY <2>1 DEF RangeOK
    <2>2. CASE k \in Ranges /\ k.from <= k.to /\ k.to <= Len(d[k.context].text)
      <3>1. k.context \in Contexts
        BY <2>2 DEF Ranges
      <3>2. f[k.context].text = d[k.context].text
        BY <1>3, <3>1 DEF SameBut
      <3> HIDE DEF k
      <3>3. RangeOK(k, f)
        BY <2>2, <3>2 DEF RangeOK
      <3> QED
        BY <3>3 DEF k
    <2> QED
      BY <1>2, <2>1, <2>2 DEF RangeOK
  <1>7. WorldOK(v)
    BY <1>3, <1>5, <1>6 DEF WorldOK
  <1> QED
    BY <1>3, <1>5, <1>7 DEF v, d

LEMMA NotBusyIs ==
    ASSUME NEW w, WorldOK(w)
    PROVE  LET v == NotBusy(w) IN
           /\ WorldOK(v) /\ v.engine = w.engine /\ v.recent = w.recent /\ v.busy = FALSE
           /\ v.comp = w.comp /\ v.docs = w.docs /\ v.queue = w.queue
  BY WithBusy DEF NotBusy

LEMMA LeavesIs ==
    ASSUME NEW w, WorldOK(w)
    PROVE  LET v == LeavesWord(w) IN
           /\ WorldOK(v) /\ v.engine = Cleared /\ v.recent = w.recent /\ v.busy = w.busy
           /\ v.comp = w.comp /\ v.docs = w.docs /\ v.queue = w.queue
  BY WithEngine, ClearedOver DEF LeavesWord

LEMMA UnrecentIs ==
    ASSUME NEW w, WorldOK(w)
    PROVE  LET v == Unrecent(w) IN
           /\ WorldOK(v) /\ v.engine = w.engine /\ v.recent = FALSE /\ v.busy = w.busy
           /\ v.comp = w.comp /\ v.docs = w.docs /\ v.queue = w.queue
  BY WithRecent DEF Unrecent

-----------------------------------------------------------------------------
(* Requests.                                                                 *)

\* World w with session s put off, or refused.
PutOff(w, s) == [w EXCEPT !.busy = TRUE, !.queue = Append(@, s)]
Refused(w) == [w EXCEPT !.busy = TRUE]

LEMMA PutOffIs ==
    ASSUME NEW w, WorldOK(w), NEW s \in Sessions, Len(w.queue) < MaxQueue
    PROVE  LET v == PutOff(w, s) IN
           /\ WorldOK(v) /\ v.engine = w.engine /\ v.recent = w.recent /\ v.busy = TRUE
           /\ v.comp = w.comp /\ v.docs = w.docs /\ v.queue = Append(w.queue, s)
  <1> DEFINE u == [w EXCEPT !.busy = TRUE]
  <1> DEFINE q == Append(w.queue, s)
  <1> DEFINE yes == TRUE
  <1>1. PutOff(w, s) = [u EXCEPT !.queue = q]
    BY DEF PutOff
  <1>2. u = [w EXCEPT !.busy = yes] /\ yes \in BOOLEAN /\ yes = TRUE
    OBVIOUS
  <1> HIDE DEF u, yes
  <1>3. /\ WorldOK(u) /\ u.engine = w.engine
        /\ u.busy = yes /\ u.recent = w.recent
        /\ u.comp = w.comp /\ u.docs = w.docs /\ u.queue = w.queue
    BY <1>2, WithBusy
  <1>4. QueueOK(q)
    <2>1. w.queue \in Seq(Sessions) /\ Len(w.queue) \in Nat /\ MaxQueue \in Nat
      BY TsfConstants DEF WorldOK, QueueOK
    <2>2. q \in Seq(Sessions) /\ Len(q) = Len(w.queue) + 1
      BY <2>1
    <2> QED
      BY <2>1, <2>2 DEF QueueOK
  <1> HIDE DEF q
  <1>5. LET v == [u EXCEPT !.queue = q] IN
        /\ WorldOK(v) /\ v.engine = u.engine
        /\ v.busy = u.busy /\ v.recent = u.recent
        /\ v.comp = u.comp /\ v.docs = u.docs /\ v.queue = q
    BY <1>3, <1>4, WithQueue
  <1> QED
    BY <1>1, <1>2, <1>3, <1>5 DEF q

LEMMA RefusedIs ==
    ASSUME NEW w, WorldOK(w)
    PROVE  LET v == Refused(w) IN
           /\ WorldOK(v) /\ v.engine = w.engine /\ v.recent = w.recent /\ v.busy = TRUE
           /\ v.comp = w.comp /\ v.docs = w.docs /\ v.queue = w.queue
  BY WithBusy DEF Refused

\* What comes of a request.
LEMMA RequestsIs ==
    ASSUME NEW w, NEW s, NEW now, NEW r \in Requests(w, s, now)
    PROVE  \/ r \in now
           \/ /\ Len(w.queue) < MaxQueue
              /\ r = Failed(PutOff(w, s))
           \/ /\ "never" \in Grants
              /\ r = Failed(Refused(w))
  <1>1. PICK g \in Grants :
          r \in CASE g = "now"   -> now
                  [] g = "later" -> IF Len(w.queue) < MaxQueue
                                    THEN {Failed(PutOff(w, s))} ELSE {}
                  [] g = "never" -> {Failed(Refused(w))}
    BY DEF Requests, PutOff, Refused
  <1>2. g \in {"now", "later", "never"}
    BY TsfConstants
  <1>3. CASE g = "now"
    BY <1>1, <1>3
  <1>4. CASE g = "later"
    BY <1>1, <1>4
  <1>5. CASE g = "never"
    BY <1>1, <1>5
  <1> QED
    BY <1>2, <1>3, <1>4, <1>5

LEMMA ResultIs ==
    \A v : /\ Done(v).world = v /\ Done(v).did = TRUE
           /\ Failed(v).world = v /\ Failed(v).did = FALSE
  BY DEF Done, Failed

LEMMA SessionsAre ==
    ASSUME focus \in Contexts
    PROVE  /\ UpdateSession \in Sessions /\ UpdateSession.context = focus /\ UpdateSession.kind = "update"
           /\ EndSession \in Sessions /\ EndSession.context = focus /\ EndSession.kind = "end"
           /\ \A text \in Seq(Character) :
                /\ ReplaceSession(text) \in Sessions /\ ReplaceSession(text).context = focus
                /\ ReplaceSession(text).kind = "replace" /\ ReplaceSession(text).text = text
           /\ \A ch \in TypedKeys :
                /\ CommittedSession(ch) \in Sessions /\ CommittedSession(ch).context = focus
                /\ CommittedSession(ch).kind = "committed"
                /\ ReconvertSession(ch) \in Sessions /\ ReconvertSession(ch).context = focus
                /\ ReconvertSession(ch).kind = "reconvert"
  <1> DEFINE none == <<>>
  <1>1. none \in Seq(Character)
    OBVIOUS
  <1>2. ASSUME NEW kind \in {"update", "end", "replace", "committed", "reconvert"},
               NEW ch \in TypedKeys \cup {"none"}, NEW text \in Seq(Character)
        PROVE  /\ Session(kind, ch, text) \in Sessions
               /\ Session(kind, ch, text).context = focus
               /\ Session(kind, ch, text).kind = kind
               /\ Session(kind, ch, text).text = text
    BY DEF Session, Sessions
  <1>8. /\ UpdateSession = Session("update", "none", none)
        /\ EndSession = Session("end", "none", none)
        /\ \A ch : /\ CommittedSession(ch) = Session("committed", ch, none)
                   /\ ReconvertSession(ch) = Session("reconvert", ch, none)
    BY DEF UpdateSession, EndSession, CommittedSession, ReconvertSession
  <1> HIDE DEF none
  <1>3. /\ UpdateSession \in Sessions /\ UpdateSession.context = focus /\ UpdateSession.kind = "update"
    BY <1>1, <1>2, <1>8
  <1>4. /\ EndSession \in Sessions /\ EndSession.context = focus /\ EndSession.kind = "end"
    BY <1>1, <1>2, <1>8
  <1>5. ASSUME NEW text \in Seq(Character)
        PROVE  /\ ReplaceSession(text) \in Sessions /\ ReplaceSession(text).context = focus
               /\ ReplaceSession(text).kind = "replace" /\ ReplaceSession(text).text = text
    BY <1>2 DEF ReplaceSession
  <1>6. ASSUME NEW ch \in TypedKeys
        PROVE  /\ CommittedSession(ch) \in Sessions /\ CommittedSession(ch).context = focus
               /\ CommittedSession(ch).kind = "committed"
    BY <1>1, <1>2, <1>8
  <1>7. ASSUME NEW ch \in TypedKeys
        PROVE  /\ ReconvertSession(ch) \in Sessions /\ ReconvertSession(ch).context = focus
               /\ ReconvertSession(ch).kind = "reconvert"
    BY <1>1, <1>2, <1>8
  <1> QED
    BY <1>3, <1>4, <1>5, <1>6, <1>7

-----------------------------------------------------------------------------
(* Edits that keep the delimiters, and compositions that show the word.      *)

LEMMA SetTextKept ==
    ASSUME NEW w, WorldOK(w), NEW c \in Contexts, NEW from \in Nat, NEW to \in Nat,
           from <= to, to <= Len(w.docs[c].text), NEW new \in Seq(Character),
           Joined(w.docs[c].text, from + 1, to), Joined(new, 1, Len(new))
    PROVE  Kept(SetText(w, c, from, to, new), w)
  <1> DEFINE v == SetText(w, c, from, to, new)
  <1>1. DocsOK(w.docs)
    BY DEF WorldOK
  <1>2. /\ v.docs[c].text = Spliced(w.docs[c].text, from, to, new)
        /\ v.docs[c].caret = Moved(w.docs[c].caret, from, to, Len(new))
        /\ SameBut(v.docs, w.docs, c)
    <2>1. LET x == SetText(w, c, from, to, new) IN
           /\ WorldOK(x)
           /\ x.engine = w.engine /\ x.busy = w.busy /\ x.recent = w.recent /\ x.queue = w.queue
           /\ x.comp = Shifted(w.comp, c, from, to, new)
           /\ x.docs[c].text = Spliced(w.docs[c].text, from, to, new)
           /\ x.docs[c].caret = Moved(w.docs[c].caret, from, to, Len(new))
           /\ Len(x.docs[c].text) = Len(w.docs[c].text) - (to - from) + Len(new)
           /\ SameBut(x.docs, w.docs, c)
      BY SetTextOK, Zenon
    <2> QED
      BY <2>1, Zenon
  <1> HIDE DEF v
  <1> DEFINE p == w.docs[c].caret
  <1> DEFINE size == Len(new)
  <1>3. p \in Nat /\ p <= Len(w.docs[c].text)
    BY <1>1, DocIs
  <1>4. size \in Nat
    OBVIOUS
  <1>5. Len(w.docs[c].text) \in Nat
    BY <1>1, DocIs
  <1> HIDE DEF p, size
  <1>6. Moved(p, from, to, size) \in Nat /\ Follows(Moved(p, from, to, size), p, from, to, size)
    <2>1. Moved(p, from, to, size) \in Nat
      BY <1>3, <1>4, <1>5 DEF Moved
    <2> QED
      BY <1>3, <1>4, <2>1, MovedFollows
  <1>7. DocFollows(v.docs[c], w.docs[c], from, to, new)
    BY <1>2, <1>6 DEF DocFollows, p, size
  <1>8. Kept(v, w)
    BY <1>1, <1>2, <1>7, KeptIs
  <1> QED
    BY <1>8 DEF v

\* The text of a composition that has been written is what was written.
LEMMA WrittenIs ==
    ASSUME NEW text \in Seq(Character), NEW new \in Seq(Character), NEW from \in Nat, NEW to \in Nat,
           from <= to, to <= Len(text)
    PROVE  SubSeq(Spliced(text, from, to, new), from + 1, from + Len(new)) = new
  <1> DEFINE t == Spliced(text, from, to, new)
  <1> DEFINE size == Len(new)
  <1> DEFINE x == SubSeq(t, from + 1, from + size)
  <1>1. t \in Seq(Character) /\ Len(t) = Len(text) - (to - from) + size
    BY SplicedText
  <1>2. \A i \in 1..size : t[from + i] = new[i]
    BY SplicedText
  <1>3. size \in Nat /\ Len(text) \in Nat /\ new \in Seq(Character) /\ size = Len(new)
    OBVIOUS
  <1> HIDE DEF t, size
  <1>4. from + size <= Len(t) /\ Len(t) \in Nat
    BY <1>1, <1>3
  <1>5. x \in Seq(Character) /\ Len(x) = size /\ \A i \in 1..size : x[i] = t[from + i]
    <2> DEFINE m == from + 1
    <2> DEFINE n == from + size
    <2>1. m \in Nat /\ n \in Nat /\ 1 <= m /\ n <= Len(t) /\ n - m + 1 = size
          /\ \A i \in 1..size : m + i - 1 = from + i
      BY <1>3, <1>4
    <2>2. x = SubSeq(t, m, n) /\ t \in Seq(Character)
      BY <1>1
    <2> HIDE DEF m, n, x
    <2>3. x \in Seq(Character)
      BY <1>4, <2>1, <2>2
    <2>4. Len(x) = size
      BY <1>3, <1>4, <2>1, <2>2
    <2>5. \A i \in 1..size : x[i] = t[m + i - 1]
      BY <1>3, <1>4, <2>1, <2>2
    <2> QED
      BY <2>1, <2>3, <2>4, <2>5
  <1> HIDE DEF x
  <1>6. IsSeq(x) /\ IsSeq(new)
    BY <1>3, <1>5 DEF IsSeq
  <1>7. x = new
    BY <1>2, <1>3, <1>5, <1>6, SameSeq
  <1> QED
    BY <1>7 DEF x, t, size

LEMMA NewIs ==
    ASSUME NEW text \in Seq(Character), NEW new \in Seq(Character), NEW from \in Nat, NEW to \in Nat,
           from <= to, to <= Len(text)
    PROVE  \A i \in 1..Len(new) : Spliced(text, from, to, new)[from + i] = new[i]
  BY SplicedText

LEMMA JoinedSpliced ==
    ASSUME NEW text \in Seq(Character), NEW new \in Seq(Character), NEW from \in Nat, NEW to \in Nat,
           from <= to, to <= Len(text), Joined(new, 1, Len(new))
    PROVE  Joined(Spliced(text, from, to, new), from + 1, from + Len(new))
  <1> DEFINE t == Spliced(text, from, to, new)
  <1> DEFINE size == Len(new)
  <1>1. \A i \in 1..size : t[from + i] = new[i]
    BY NewIs
  <1>2. size \in Nat
    OBVIOUS
  <1>3. \A i \in 1..size : IsEditableCommittedChar(new[i])
    BY DEF Joined
  <1> HIDE DEF t, size
  <1>4. ASSUME NEW j \in (from + 1)..(from + size)
        PROVE  IsEditableCommittedChar(t[j])
    <2> DEFINE i == j - from
    <2>1. i \in 1..size /\ from + i = j
      BY <1>2
    <2> HIDE DEF i
    <2> QED
      BY <1>1, <1>3, <2>1
  <1>5. Joined(t, from + 1, from + size)
    BY <1>4 DEF Joined
  <1> QED
    BY <1>5 DEF t, size

\* An update that can be made shows what it was made with.
LEMMA UpdatedShows ==
    ASSUME NEW w, WorldOK(w), NEW c \in Contexts, NEW new \in Seq(Character),
           Joined(new, 1, Len(new)), Writable(w, c)
    PROVE  LET u == UpdateComposition(w, c, new) IN
           /\ Fits(u, c) /\ u.comp.open
           /\ SubSeq(u.docs[c].text, u.comp.from + 1, u.comp.to) = new
  <1> DEFINE u == UpdateComposition(w, c, new)
  <1> DEFINE k == Target(w, c).comp
  <1> DEFINE from == k.from
  <1> DEFINE to == k.to
  <1> DEFINE text == w.docs[c].text
  <1>1. /\ u.comp.open /\ u.comp.alive /\ u.comp.context = c
        /\ u.comp.from = from /\ u.comp.to = from + Len(new)
        /\ from \in Nat /\ to \in Nat /\ from <= to /\ to <= Len(text)
        /\ u.docs[c].text = Spliced(text, from, to, new)
        /\ u.docs[c].caret = from + Len(new)
    <2>1. LET u0 == UpdateComposition(w, c, new)
              k0 == Target(w, c).comp
          IN
          /\ WorldOK(u0)
          /\ u0.engine = w.engine /\ u0.busy = w.busy /\ u0.recent = w.recent /\ u0.queue = w.queue
          /\ ~Writable(w, c) => u0 = w
          /\ Writable(w, c) =>
                /\ u0.comp.open /\ u0.comp.alive /\ u0.comp.context = c
                /\ u0.comp.from = k0.from /\ u0.comp.to = k0.from + Len(new)
                /\ k0.from \in Nat /\ k0.to \in Nat /\ k0.from <= k0.to /\ k0.to <= Len(w.docs[c].text)
                /\ u0.docs[c].text = Spliced(w.docs[c].text, k0.from, k0.to, new)
                /\ u0.docs[c].caret = k0.from + Len(new)
                /\ SameBut(u0.docs, w.docs, c)
      BY UpdatedIs, Zenon
    <2> QED
      BY <2>1, Zenon
  <1>2. text \in Seq(Character)
    BY DocIs DEF WorldOK
  <1> HIDE DEF u, k, from, to, text
  <1>3. Joined(u.docs[c].text, u.comp.from + 1, u.comp.to)
    BY <1>1, <1>2, JoinedSpliced
  <1>4. SubSeq(u.docs[c].text, u.comp.from + 1, u.comp.to) = new
    BY <1>1, <1>2, WrittenIs
  <1>5. Fits(u, c)
    BY <1>1, <1>3 DEF Fits
  <1> QED
    BY <1>1, <1>4, <1>5 DEF u

LEMMA FitsWritable ==
    ASSUME NEW w, NEW c, Fits(w, c)
    PROVE  Writable(w, c)
  BY DEF Fits, Writable

LEMMA WaitsRepairs ==
    ASSUME NEW w, NEW c, Waits(w, c)
    PROVE  Repairs(w, c)
  BY FitsWritable DEF Waits, Repairs

LEMMA UpdatedKept ==
    ASSUME NEW w, WorldOK(w), NEW c \in Contexts, NEW new \in Seq(Character),
           Joined(new, 1, Len(new)), Fits(w, c)
    PROVE  Kept(UpdateComposition(w, c, new), w)
  <1> DEFINE u == UpdateComposition(w, c, new)
  <1> DEFINE v == Target(w, c)
  <1> DEFINE k == v.comp
  <1> DEFINE from == k.from
  <1> DEFINE to == k.to
  <1>1. Writable(w, c)
    BY FitsWritable
  <1>2. /\ from \in Nat /\ to \in Nat /\ from <= to /\ to <= Len(w.docs[c].text)
        /\ u.docs[c].text = Spliced(w.docs[c].text, from, to, new)
        /\ u.docs[c].caret = from + Len(new)
        /\ SameBut(u.docs, w.docs, c)
    <2>1. LET u0 == UpdateComposition(w, c, new)
              k0 == Target(w, c).comp
          IN
          /\ WorldOK(u0)
          /\ u0.engine = w.engine /\ u0.busy = w.busy /\ u0.recent = w.recent /\ u0.queue = w.queue
          /\ ~Writable(w, c) => u0 = w
          /\ Writable(w, c) =>
                /\ u0.comp.open /\ u0.comp.alive /\ u0.comp.context = c
                /\ u0.comp.from = k0.from /\ u0.comp.to = k0.from + Len(new)
                /\ k0.from \in Nat /\ k0.to \in Nat /\ k0.from <= k0.to /\ k0.to <= Len(w.docs[c].text)
                /\ u0.docs[c].text = Spliced(w.docs[c].text, k0.from, k0.to, new)
                /\ u0.docs[c].caret = k0.from + Len(new)
                /\ SameBut(u0.docs, w.docs, c)
      BY UpdatedIs, Zenon
    <2> QED
      BY <1>1, <2>1, Zenon
  <1>3. /\ w.comp.open => v = w
        /\ ~w.comp.open => from = w.docs[c].caret /\ to = w.docs[c].caret
    BY TargetIs
  <1>4. DocsOK(w.docs)
    BY DEF WorldOK
  <1> HIDE DEF u, v
  <1>5. w.docs[c].caret = to /\ Joined(w.docs[c].text, from + 1, to)
    <2>1. CASE w.comp.open
      <3>1. from = w.comp.from /\ to = w.comp.to /\ w.comp.context = c
        BY <1>3, <2>1 DEF Fits
      <3> QED
        BY <2>1, <3>1 DEF Fits
    <2>2. CASE ~w.comp.open
      <3>1. from = w.docs[c].caret /\ to = w.docs[c].caret
        BY <1>3, <2>2
      <3> HIDE DEF from, to
      <3>2. ~(\E i \in (from + 1)..to : TRUE)
        BY <1>2, <3>1
      <3> QED
        BY <3>1, <3>2 DEF Joined
    <2> QED
      BY <2>1, <2>2
  <1> DEFINE size == Len(new)
  <1>6. size \in Nat
    OBVIOUS
  <1> HIDE DEF k, from, to, size
  <1>7. Follows(from + size, to, from, to, size) /\ from + size \in Nat
    BY <1>2, <1>6 DEF Follows
  <1>8. DocFollows(u.docs[c], w.docs[c], from, to, new)
    BY <1>2, <1>5, <1>7 DEF DocFollows, size
  <1>9. Kept(u, w)
    BY <1>2, <1>4, <1>5, <1>8, KeptIs
  <1> QED
    BY <1>9 DEF u

LEMMA SameKept ==
    ASSUME NEW v, NEW w, v.docs = w.docs
    PROVE  Kept(v, w)
  BY DEF Kept

\* Worlds that differ only by their engine, flags and queue.
LEMMA SameFits ==
    ASSUME NEW v, NEW w, NEW c, v.docs = w.docs, v.comp = w.comp, Fits(w, c)
    PROVE  Fits(v, c)
  BY DEF Fits

-----------------------------------------------------------------------------
(* Edit sessions.                                                            *)

LEMMA ReplayIs ==
    ASSUME NEW text \in Seq(Character), NEW ch
    PROVE  EngineOver(Replay(text, ch), config.method)
  <1> DEFINE names == [i \in DOMAIN text |-> Name(text[i])]
  <1> DEFINE n == Len(text)
  <1>1. n \in Nat /\ names = [i \in 1..n |-> names[i]]
    OBVIOUS
  <1> HIDE DEF names, n
  <1>2. IsSeq(names)
    BY <1>1, MadeSeq
  <1>3. IsSeq(Append(names, ch))
    BY <1>2, AppendIs
  <1> QED
    BY <1>3, FeedContextOver DEF Replay, names

\* What a session leaves alone.
SameRest(v, w) == v.busy = w.busy /\ v.recent = w.recent /\ v.queue = w.queue

LEMMA RunUpdateIs ==
    ASSUME Set, NEW w, WorldOK(w), NEW s, s.context \in Contexts, NEW r \in RunUpdate(w, s)
    PROVE  /\ WorldOK(r.world) /\ SameRest(r.world, w) /\ r.world.engine = w.engine /\ r.did
           /\ Fits(w, s.context) => Kept(r.world, w)
           /\ Writable(w, s.context) /\ IsInWord(w.engine) => Shows(r.world, s.context)
  <1> DEFINE c == s.context
  <1> DEFINE new == w.engine.comp
  <1> DEFINE u == UpdateComposition(w, c, new)
  <1>1. r.world = u /\ r.did
    BY ResultIs DEF RunUpdate
  <1>2. new \in Seq(Character) /\ Joined(new, 1, Len(new)) /\ c \in Contexts
    BY WordIs DEF WorldOK
  <1> HIDE DEF c, new
  <1>3. /\ WorldOK(u)
        /\ u.engine = w.engine /\ u.busy = w.busy /\ u.recent = w.recent /\ u.queue = w.queue
    BY <1>2, UpdatedIs
  <1>4. Fits(w, c) => Kept(u, w)
    BY <1>2, UpdatedKept
  <1>5. ASSUME Writable(w, c), IsInWord(w.engine)
        PROVE  Shows(u, c)
    <2>2. Fits(u, c) /\ u.comp.open /\ SubSeq(u.docs[c].text, u.comp.from + 1, u.comp.to) = new
      BY <1>2, <1>5, UpdatedShows
    <2> QED
      BY <1>3, <1>5, <2>2 DEF Shows, new
  <1> HIDE DEF u
  <1> QED
    BY <1>1, <1>3, <1>4, <1>5 DEF SameRest, c

LEMMA RunEndIs ==
    ASSUME NEW w, WorldOK(w), NEW s, NEW r \in RunEnd(w, s)
    PROVE  /\ WorldOK(r.world) /\ SameRest(r.world, w) /\ r.world.engine = w.engine
           /\ r.world.docs = w.docs /\ ~r.world.comp.open
  <1>1. r.world = EndComposition(w)
    BY ResultIs DEF RunEnd
  <1> QED
    BY <1>1, EndedIs DEF SameRest

LEMMA RunReplaceIs ==
    ASSUME NEW w, WorldOK(w), NEW s, s.context \in Contexts, s.text \in Seq(Character),
           NEW r \in RunReplace(w, s)
    PROVE  /\ WorldOK(r.world) /\ SameRest(r.world, w) /\ r.world.engine = w.engine
           /\ ~r.world.comp.open
           /\ s.text = <<>> /\ Fits(w, s.context) => Kept(r.world, w)
  <1> DEFINE c == s.context
  <1> DEFINE new == s.text
  <1> DEFINE u == UpdateComposition(w, c, new)
  <1>1. r.world = EndComposition(u)
    BY ResultIs DEF RunReplace
  <1>2. new \in Seq(Character) /\ c \in Contexts
    OBVIOUS
  <1> HIDE DEF c, new
  <1>3. /\ WorldOK(u)
        /\ u.engine = w.engine /\ u.busy = w.busy /\ u.recent = w.recent /\ u.queue = w.queue
    BY <1>2, UpdatedIs
  <1>4. ASSUME new = <<>>, Fits(w, c)
        PROVE  Kept(u, w)
    <2>1. Joined(new, 1, Len(new))
      BY <1>4 DEF Joined
    <2> QED
      BY <1>2, <1>4, <2>1, UpdatedKept
  <1> HIDE DEF u
  <1>5. LET v == EndComposition(u) IN
        /\ WorldOK(v)
        /\ v.engine = u.engine /\ v.busy = u.busy /\ v.recent = u.recent
        /\ v.queue = u.queue /\ v.docs = u.docs /\ ~v.comp.open
    BY <1>3, EndedIs
  <1> QED
    BY <1>1, <1>3, <1>4, <1>5 DEF SameRest, Kept, c, new

\* The region a span names.
LEMMA RegionIs ==
    ASSUME NEW text \in Seq(Character), NEW caret \in Nat, caret <= Len(text),
           NEW span, SpanOK(text, caret, span)
    PROVE  LET from == ReplacementStart(caret, span)
               to == ReplacementEnd(caret, span)
           IN /\ from \in Nat /\ to \in Nat /\ from <= to /\ to <= Len(text)
              /\ Joined(text, from + 1, to)
  <1> DEFINE left == span.left
  <1> DEFINE right == span.right
  <1> DEFINE delimiters == span.delimiters
  <1> DEFINE len == Len(text)
  <1> DEFINE from == ReplacementStart(caret, span)
  <1> DEFINE to == ReplacementEnd(caret, span)
  <1>1. /\ left \in Nat /\ right \in Nat /\ delimiters \in Nat /\ len \in Nat
        /\ left + delimiters <= caret /\ caret + right <= len
        /\ from = caret - left - delimiters /\ to = caret + right - delimiters
    BY DEF SpanOK, ReplacementStart, ReplacementEnd
  <1>2. Joined(text, from + 1, to)
    BY DEF SpanOK
  <1> HIDE DEF left, right, delimiters, len, from, to
  <1>3. from \in Nat /\ to \in Nat /\ from <= to /\ to <= len
    BY <1>1
  <1> QED
    BY <1>2, <1>3 DEF from, to, len

LEMMA RunCommittedIs ==
    ASSUME Set, NEW w, WorldOK(w), NEW s, s.context \in Contexts, NEW r \in RunCommitted(w, s)
    PROVE  /\ WorldOK(r.world) /\ SameRest(r.world, w) /\ Kept(r.world, w)
           /\ r.did \in BOOLEAN
           /\ ~r.did => /\ r.world.docs = w.docs /\ r.world.comp = w.comp
                        /\ r.world.engine = w.engine \/ r.world.engine = Cleared
           /\ r.did => /\ r.world.engine = Cleared
                       /\ ~w.comp.open => ~r.world.comp.open
  <1> DEFINE c == s.context
  <1> DEFINE text == w.docs[c].text
  <1> DEFINE caret == w.docs[c].caret
  <1> DEFINE span == ExtractWordSpanAroundCaret(text, caret, TRUE)
  <1> DEFINE from == ReplacementStart(caret, span)
  <1> DEFINE to == ReplacementEnd(caret, span)
  <1> DEFINE e == Replay(span.word, s.ch)
  <1> DEFINE v == [w EXCEPT !.engine = e]
  <1> DEFINE x == SetText(v, c, from, to, v.engine.comp)
  <1>1. text \in Seq(Character) /\ caret \in Nat /\ caret <= Len(text)
    BY DocIs DEF WorldOK
  <1>2. \/ r = Failed(w)
        \/ e = Cleared /\ r = Failed(v)
        \/ e # Cleared /\ r = Done(LeavesWord(x))
    <2>1. v.engine = e
      BY DEF WorldOK, IsWorld
    <2>2. r \in IF span.word = <<>> THEN {Failed(w)}
               ELSE {IF u.engine = Cleared THEN Failed(u)
                     ELSE Done(LeavesWord(SetText(u, c, from, to, u.engine.comp))) : u \in {v}}
      BY DEF RunCommitted, Replayed, LeavesWord
    <2> HIDE DEF span, from, to, v, e
    <2>3. \/ r = Failed(w)
          \/ r = IF v.engine = Cleared THEN Failed(v) ELSE Done(LeavesWord(x))
      BY <2>2
    <2> HIDE DEF x
    <2> QED
      BY <2>1, <2>3
  <1> HIDE DEF text, caret
  <1>3. SpanOK(text, caret, span)
    BY <1>1, SpanIs
  <1> HIDE DEF span
  <1>4. /\ from \in Nat /\ to \in Nat /\ from <= to /\ to <= Len(text)
        /\ Joined(text, from + 1, to)
    BY <1>1, <1>3, RegionIs
  <1>5. EngineOver(e, config.method)
    BY <1>3, ReplayIs DEF SpanOK
  <1> HIDE DEF e, from, to
  <1>6. /\ WorldOK(v) /\ v.engine = e
        /\ v.busy = w.busy /\ v.recent = w.recent
        /\ v.comp = w.comp /\ v.docs = w.docs /\ v.queue = w.queue
    BY <1>5, WithEngine
  <1> HIDE DEF v
  <1>7. CASE r = Failed(w)
    BY <1>7, ResultIs, SameKept DEF SameRest
  <1>8. CASE e = Cleared /\ r = Failed(v)
    BY <1>6, <1>8, ResultIs, SameKept DEF SameRest
  <1>9. CASE e # Cleared /\ r = Done(LeavesWord(x))
    <2> DEFINE new == v.engine.comp
    <2>1. new \in Seq(Character) /\ Joined(new, 1, Len(new))
      BY <1>6, WordIs DEF WorldOK
    <2>2. c \in Contexts /\ to <= Len(v.docs[c].text) /\ Joined(v.docs[c].text, from + 1, to)
      BY <1>4, <1>6 DEF text
    <2>3. x = SetText(v, c, from, to, new)
      OBVIOUS
    <2> HIDE DEF new, c, x
    <2>4. LET y == SetText(v, c, from, to, new) IN
           /\ WorldOK(y)
           /\ y.engine = v.engine /\ y.busy = v.busy /\ y.recent = v.recent /\ y.queue = v.queue
           /\ y.comp = Shifted(v.comp, c, from, to, new)
           /\ y.docs[c].text = Spliced(v.docs[c].text, from, to, new)
           /\ y.docs[c].caret = Moved(v.docs[c].caret, from, to, Len(new))
           /\ Len(y.docs[c].text) = Len(v.docs[c].text) - (to - from) + Len(new)
           /\ SameBut(y.docs, v.docs, c)
      BY <1>4, <1>6, <2>1, <2>2, SetTextOK, Zenon
    <2>5. Kept(x, v)
      BY <1>4, <1>6, <2>1, <2>2, <2>3, SetTextKept
    <2>6. ~v.comp.open => x.comp = v.comp
      BY <2>3, <2>4 DEF Shifted
    <2>7. /\ WorldOK(x) /\ x.engine = v.engine /\ x.busy = v.busy /\ x.recent = v.recent
          /\ x.queue = v.queue
      BY <2>3, <2>4
    <2>8. LET y == LeavesWord(x) IN
           /\ WorldOK(y) /\ y.engine = Cleared /\ y.recent = x.recent /\ y.busy = x.busy
           /\ y.comp = x.comp /\ y.docs = x.docs /\ y.queue = x.queue
      BY <2>7, LeavesIs
    <2>9. r.world = LeavesWord(x) /\ r.did = TRUE
      BY <1>9, ResultIs
    <2>10. Kept(r.world, w)
      BY <1>6, <2>5, <2>8, <2>9 DEF Kept
    <2> QED
      BY <1>6, <2>6, <2>7, <2>8, <2>9, <2>10 DEF SameRest
  <1> QED
    BY <1>2, <1>7, <1>8, <1>9

LEMMA JoinedPart ==
    ASSUME NEW text, NEW k, NEW m, NEW n, Joined(text, k, n), m \in Int, m <= n, n \in Int
    PROVE  Joined(text, k, m)
  BY DEF Joined

\* An edit after which the caret stands where the edited text began.
LEMMA GapIs ==
    ASSUME NEW w, WorldOK(w), NEW c \in Contexts, NEW from \in Nat, NEW to \in Nat,
           from <= w.docs[c].caret, w.docs[c].caret <= to, to <= Len(w.docs[c].text),
           Joined(w.docs[c].text, from + 1, to)
    PROVE  LET g == WithCaret(SetText(w, c, from, to, <<>>), c, from) IN
           /\ WorldOK(g) /\ g.engine = w.engine /\ SameRest(g, w)
           /\ ~w.comp.open => g.comp = w.comp
           /\ Kept(g, w)
  <1> DEFINE none == <<>>
  <1> DEFINE y == SetText(w, c, from, to, none)
  <1> DEFINE caret == w.docs[c].caret
  <1> DEFINE text == w.docs[c].text
  <1> DEFINE g == WithCaret(y, c, from)
  <1>1. none \in Seq(Character) /\ Len(none) = 0 /\ Joined(none, 1, Len(none))
    BY DEF Joined
  <1>2. caret \in Nat /\ from <= to /\ text \in Seq(Character) /\ Len(text) \in Nat /\ DocsOK(w.docs)
    <2>1. DocsOK(w.docs)
      BY DEF WorldOK
    <2>2. caret \in Nat /\ text \in Seq(Character) /\ Len(text) \in Nat
      BY <2>1, DocIs
    <2>3. from <= caret /\ caret <= to
      OBVIOUS
    <2> HIDE DEF caret, text
    <2> QED
      BY <2>1, <2>2, <2>3
  <1>3. from <= caret /\ caret <= to /\ to <= Len(text)
    OBVIOUS
  <1> HIDE DEF none, g
  <1>4. LET x == SetText(w, c, from, to, none) IN
           /\ WorldOK(x)
           /\ x.engine = w.engine /\ x.busy = w.busy /\ x.recent = w.recent /\ x.queue = w.queue
           /\ x.comp = Shifted(w.comp, c, from, to, none)
           /\ x.docs[c].text = Spliced(w.docs[c].text, from, to, none)
           /\ x.docs[c].caret = Moved(w.docs[c].caret, from, to, Len(none))
           /\ Len(x.docs[c].text) = Len(w.docs[c].text) - (to - from) + Len(none)
           /\ SameBut(x.docs, w.docs, c)
    BY <1>1, <1>2, SetTextOK, Zenon
  <1>5. /\ WorldOK(y) /\ y.engine = w.engine /\ y.busy = w.busy /\ y.recent = w.recent /\ y.queue = w.queue
        /\ y.comp = Shifted(w.comp, c, from, to, none)
        /\ y.docs[c].text = Spliced(text, from, to, none)
        /\ Len(y.docs[c].text) = Len(text) - (to - from) + Len(none)
        /\ SameBut(y.docs, w.docs, c)
    BY <1>4, Zenon
  <1> HIDE DEF y, text, caret
  <1>6. from <= Len(y.docs[c].text)
    BY <1>1, <1>2, <1>3, <1>5
  <1>7. LET v == WithCaret(y, c, from) IN
           /\ WorldOK(v) /\ v.engine = y.engine
           /\ v.busy = y.busy /\ v.recent = y.recent
           /\ v.comp = y.comp /\ v.queue = y.queue
           /\ v.docs[c].text = y.docs[c].text /\ v.docs[c].caret = from
           /\ SameBut(v.docs, y.docs, c)
    BY <1>5, <1>6, CaretIs
  <1>8. Follows(from, caret, from, to, Len(none))
    BY <1>1, <1>2, <1>3 DEF Follows
  <1>9. /\ WorldOK(g) /\ g.engine = y.engine
        /\ g.busy = y.busy /\ g.recent = y.recent
        /\ g.comp = y.comp /\ g.queue = y.queue
        /\ g.docs[c].text = y.docs[c].text /\ g.docs[c].caret = from
        /\ SameBut(g.docs, y.docs, c)
    BY <1>7 DEF g
  <1>10. DocFollows(g.docs[c], w.docs[c], from, to, none)
    <2>1. g.docs[c].text = Spliced(text, from, to, none) /\ g.docs[c].caret = from
      BY <1>5, <1>9
    <2> QED
      BY <1>8, <2>1 DEF DocFollows, text, caret
  <1>11. SameBut(g.docs, w.docs, c)
    BY <1>5, <1>9 DEF SameBut
  <1>12. to <= Len(w.docs[c].text) /\ Joined(w.docs[c].text, from + 1, to)
    OBVIOUS
  <1>13. Kept(g, w)
    BY <1>1, <1>2, <1>10, <1>11, <1>12, KeptIs
  <1>14. ~w.comp.open => g.comp = w.comp
    BY <1>5, <1>9 DEF Shifted
  <1>15. SameRest(g, w) /\ g.engine = w.engine
    BY <1>5, <1>9 DEF SameRest
  <1> QED
    BY <1>9, <1>13, <1>14, <1>15 DEF g, y, none

LEMMA RunReconvertIs ==
    ASSUME Set, NEW w, WorldOK(w), NEW s, s.context \in Contexts, NEW r \in RunReconvert(w, s)
    PROVE  /\ WorldOK(r.world) /\ SameRest(r.world, w)
           /\ r.did \in BOOLEAN
           /\ ~r.did => /\ r.world.docs = w.docs /\ r.world.comp = w.comp
                        /\ r.world.engine = w.engine \/ r.world.engine = Cleared
           /\ r.did /\ ~w.comp.open => Shows(r.world, s.context) /\ Kept(r.world, w)
  <1> DEFINE c == s.context
  <1> DEFINE text == w.docs[c].text
  <1> DEFINE caret == w.docs[c].caret
  <1> DEFINE span == ExtractWordSpanAroundCaret(text, caret, FALSE)
  <1> DEFINE from == caret - span.left
  <1> DEFINE to == IF IsPotentialModifier(s.ch, config.method) THEN caret + span.right ELSE caret
  <1> DEFINE e == Replay(SubSeq(text, from + 1, to), s.ch)
  <1> DEFINE v == [w EXCEPT !.engine = e]
  <1> DEFINE g == WithCaret(SetText(v, c, from, to, <<>>), c, from)
  <1> DEFINE x == UpdateComposition(g, c, v.engine.comp)
  <1>1. text \in Seq(Character) /\ caret \in Nat /\ caret <= Len(text)
    BY DocIs DEF WorldOK
  <1>2. \/ r = Failed(w)
        \/ e = Cleared /\ r = Failed(v)
        \/ e # Cleared /\ r = Done(x)
    <2>1. v.engine = e
      BY DEF WorldOK, IsWorld
    <2> DEFINE Gaps(u) == {[SetText(u, c, from, to, <<>>) EXCEPT !.docs[c].caret = from]}
    <2> DEFINE Results(u) ==
          IF u.engine = Cleared THEN {Failed(u)}
          ELSE {Done(UpdateComposition(h, c, u.engine.comp)) : h \in Gaps(u)}
    <2>2. RunReconvert(w, s) =
            IF span.word = <<>> THEN {Failed(w)}
            ELSE UNION {Results(u) : u \in Replayed(w, SubSeq(text, from + 1, to), s.ch)}
      BY Zenon DEF RunReconvert
    <2>5. Replayed(w, SubSeq(text, from + 1, to), s.ch) = {v}
      BY DEF Replayed
    <2>6. Gaps(v) = {g}
      BY DEF WithCaret
    <2>7. Results(v) = IF v.engine = Cleared THEN {Failed(v)}
                       ELSE {Done(UpdateComposition(h, c, v.engine.comp)) : h \in {g}}
      BY <2>6
    <2> HIDE DEF span, from, to, v, e, Results, Gaps
    <2>3. \/ r = Failed(w)
          \/ r \in IF v.engine = Cleared THEN {Failed(v)}
                   ELSE {Done(UpdateComposition(h, c, v.engine.comp)) : h \in {g}}
      <3>1. r \in IF span.word = <<>> THEN {Failed(w)} ELSE UNION {Results(u) : u \in {v}}
        BY <2>2, <2>5
      <3>2. r = Failed(w) \/ r \in Results(v)
        BY <3>1
      <3> QED
        BY <2>7, <3>2
    <2> HIDE DEF g
    <2>4. \/ r = Failed(w)
          \/ v.engine = Cleared /\ r = Failed(v)
          \/ v.engine # Cleared /\ r = Done(x)
      BY <2>3
    <2> HIDE DEF x
    <2> QED
      BY <2>1, <2>4
  <1> HIDE DEF text, caret
  <1>3. SpanOK(text, caret, span) /\ span.delimiters = 0
    BY <1>1, SpanIs
  <1>4. /\ span.left \in Nat /\ span.right \in Nat /\ span.left <= caret
        /\ caret + span.right <= Len(text)
        /\ Joined(text, caret - span.left + 1, caret + span.right)
    <2>1. span.left \in Nat /\ span.right \in Nat /\ span.left + 0 <= caret /\ caret + span.right <= Len(text)
      BY <1>3 DEF SpanOK
    <2>2. Joined(text, caret - span.left - 0 + 1, caret + span.right - 0)
      BY <1>3 DEF SpanOK, ReplacementStart, ReplacementEnd
    <2> DEFINE left == span.left
    <2> DEFINE right == span.right
    <2> HIDE DEF left, right, span
    <2>3. caret - left - 0 + 1 = caret - left + 1 /\ caret + right - 0 = caret + right /\ left <= caret
      BY <1>1, <2>1 DEF left, right
    <2> QED
      BY <2>1, <2>2, <2>3 DEF left, right
  <1> HIDE DEF span
  <1>5. /\ from \in Nat /\ to \in Nat /\ from <= caret /\ caret <= to /\ to <= Len(text)
        /\ Joined(text, from + 1, to)
    <2>1. /\ from \in Nat /\ to \in Nat /\ from <= caret /\ caret <= to /\ to <= Len(text)
          /\ to <= caret + span.right /\ caret + span.right \in Int
      BY <1>1, <1>4
    <2> DEFINE n == caret + span.right
    <2>2. Joined(text, from + 1, n)
      BY <1>4
    <2> HIDE DEF from, to, n
    <2>3. to \in Int /\ to <= n /\ n \in Int
      BY <2>1 DEF n
    <2> QED
      BY <2>1, <2>2, <2>3, JoinedPart
  <1>6. EngineOver(e, config.method)
    <2> HIDE DEF from, to
    <2>1. SubSeq(text, from + 1, to) \in Seq(Character)
      BY <1>1, <1>5
    <2> QED
      BY <2>1, ReplayIs
  <1> HIDE DEF e, from, to
  <1>7. /\ WorldOK(v) /\ v.engine = e
        /\ v.busy = w.busy /\ v.recent = w.recent
        /\ v.comp = w.comp /\ v.docs = w.docs /\ v.queue = w.queue
    BY <1>6, WithEngine
  <1> HIDE DEF v
  <1>8. CASE r = Failed(w)
    BY <1>8, ResultIs DEF SameRest
  <1>9. CASE e = Cleared /\ r = Failed(v)
    BY <1>7, <1>9, ResultIs DEF SameRest
  <1>10. CASE e # Cleared /\ r = Done(x)
    <2> DEFINE new == v.engine.comp
    <2>1. new \in Seq(Character) /\ Joined(new, 1, Len(new))
      BY <1>7, WordIs DEF WorldOK
    <2>2. IsInWord(v.engine)
      BY <1>7, <1>10, WordIs DEF WorldOK
    <2>3. /\ c \in Contexts /\ to <= Len(v.docs[c].text) /\ Joined(v.docs[c].text, from + 1, to)
          /\ from <= v.docs[c].caret /\ v.docs[c].caret <= to
      BY <1>5, <1>7 DEF text, caret
    <2> HIDE DEF c, g, new
    <2>4. /\ WorldOK(g) /\ g.engine = v.engine /\ SameRest(g, v)
          /\ ~v.comp.open => g.comp = v.comp
          /\ Kept(g, v)
      BY <1>5, <1>7, <2>3, GapIs DEF g
    <2>5. /\ WorldOK(x)
          /\ x.engine = g.engine /\ x.busy = g.busy /\ x.recent = g.recent /\ x.queue = g.queue
      BY <2>1, <2>3, <2>4, UpdatedIs DEF new
    <2>6. ASSUME ~w.comp.open
          PROVE  Shows(x, c) /\ Kept(x, w)
      <3>1. ~g.comp.open
        BY <1>7, <2>4, <2>6
      <3>2. Fits(g, c) /\ Writable(g, c)
        BY <3>1 DEF Fits, Writable
      <3>3. x = UpdateComposition(g, c, new)
        BY DEF new
      <3>4. /\ Fits(x, c) /\ x.comp.open
            /\ SubSeq(x.docs[c].text, x.comp.from + 1, x.comp.to) = new
        BY <2>1, <2>3, <2>4, <3>2, <3>3, UpdatedShows
      <3>5. Kept(x, g)
        BY <2>1, <2>3, <2>4, <3>2, <3>3, UpdatedKept
      <3>6. Kept(x, w)
        BY <1>7, <2>4, <3>5 DEF Kept
      <3>7. Shows(x, c)
        BY <2>2, <2>4, <2>5, <3>4 DEF Shows, new
      <3> QED
        BY <3>6, <3>7
    <2>7. r.world = x /\ r.did = TRUE
      BY <1>10, ResultIs
    <2> HIDE DEF x
    <2> QED
      BY <1>7, <2>4, <2>5, <2>6, <2>7 DEF SameRest, c
  <1> QED
    BY <1>2, <1>8, <1>9, <1>10

-----------------------------------------------------------------------------
(* Requests, session by session.                                             *)

LEMMA LateStays ==
    ASSUME NEW w, WorldOK(w), Late(w), NEW v
    PROVE  /\ v.queue = w.queue => Late(v)
           /\ \A s \in Sessions : v.queue = Append(w.queue, s) => Late(v)
  <1>1. w.queue \in Seq(Sessions)
    BY DEF WorldOK, QueueOK
  <1>2. PICK i \in DOMAIN w.queue : w.queue[i].kind \in {"committed", "reconvert"}
    BY DEF Late
  <1>3. ASSUME NEW s \in Sessions, v.queue = Append(w.queue, s)
        PROVE  Late(v)
    <2> DEFINE q == w.queue
    <2>1. q \in Seq(Sessions) /\ i \in 1..Len(q)
      BY <1>1
    <2> HIDE DEF q
    <2>2. i \in DOMAIN Append(q, s) /\ Append(q, s)[i] = q[i]
      BY <2>1
    <2> QED
      BY <1>2, <1>3, <2>2 DEF Late, q
  <1>4. v.queue = w.queue => Late(v)
    BY DEF Late
  <1> QED
    BY <1>3, <1>4

LEMMA OneWaits ==
    ASSUME NEW s \in Sessions
    PROVE  /\ Len(Append(<<>>, s)) = 1 /\ Head(Append(<<>>, s)) = s
           /\ Append(<<>>, s)[1] = s /\ 1 \in DOMAIN Append(<<>>, s)
  <1> DEFINE q == <<>>
  <1>1. q \in Seq(Sessions) /\ Len(q) = 0
    OBVIOUS
  <1> HIDE DEF q
  <1>2. /\ Append(q, s) \in Seq(Sessions) /\ Len(Append(q, s)) = 1
        /\ Append(q, s)[1] = s
    BY <1>1
  <1> DEFINE p == Append(q, s)
  <1>3. p \in Seq(Sessions) /\ Len(p) = 1
    BY <1>2
  <1> HIDE DEF p
  <1>4. Head(p) = p[1] /\ 1 \in DOMAIN p
    BY <1>3
  <1> QED
    BY <1>2, <1>4 DEF p, q

LEMMA LateNew ==
    ASSUME NEW w, WorldOK(w), NEW s \in Sessions, s.kind \in {"committed", "reconvert"},
           NEW v, v.queue = Append(w.queue, s)
    PROVE  Late(v)
  <1> DEFINE q == w.queue
  <1>1. q \in Seq(Sessions) /\ v.queue = Append(q, s)
    BY DEF WorldOK, QueueOK
  <1> HIDE DEF q
  <1>2. Len(q) + 1 \in DOMAIN Append(q, s) /\ Append(q, s)[Len(q) + 1] = s
    BY <1>1
  <1> QED
    BY <1>1, <1>2 DEF Late

LEMMA AsksUpdateIs ==
    ASSUME Set, focus \in Contexts, NEW w, WorldOK(w), NEW r \in AsksUpdate(w)
    PROVE  /\ WorldOK(r.world) /\ r.world.engine = w.engine
           /\ Fits(w, focus) => Kept(r.world, w)
           /\ Late(w) => Late(r.world)
           /\ w.queue = <<>> /\ Fits(w, focus) /\ IsInWord(w.engine) => Ordered(r.world, focus)
  <1> DEFINE s == UpdateSession
  <1> DEFINE b == NotBusy(w)
  <1>1. s \in Sessions /\ s.context = focus /\ s.kind = "update"
    BY SessionsAre
  <1>2. /\ WorldOK(b) /\ b.engine = w.engine /\ b.recent = w.recent /\ b.busy = FALSE
        /\ b.comp = w.comp /\ b.docs = w.docs /\ b.queue = w.queue
    BY NotBusyIs
  <1>3. r \in Requests(w, s, RunUpdate(b, s))
    BY DEF AsksUpdate
  <1> HIDE DEF s, b
  <1>4. \/ r \in RunUpdate(b, s)
        \/ Len(w.queue) < MaxQueue /\ r = Failed(PutOff(w, s))
        \/ "never" \in Grants /\ r = Failed(Refused(w))
    BY <1>3, RequestsIs
  <1>5. CASE r \in RunUpdate(b, s)
    <2>1. /\ WorldOK(r.world) /\ SameRest(r.world, b) /\ r.world.engine = b.engine
          /\ Fits(b, s.context) => Kept(r.world, b)
          /\ Fits(b, s.context) /\ IsInWord(b.engine) => Shows(r.world, s.context)
      BY <1>1, <1>2, <1>5, RunUpdateIs, FitsWritable
    <2>2. Fits(w, focus) => Fits(b, s.context)
      BY <1>1, <1>2, SameFits
    <2>3. Kept(r.world, b) => Kept(r.world, w)
      BY <1>2 DEF Kept
    <2>4. r.world.queue = w.queue
      BY <1>2, <2>1 DEF SameRest
    <2>5. Late(w) => Late(r.world)
      BY <2>4 DEF Late
    <2> QED
      BY <1>1, <1>2, <2>1, <2>2, <2>3, <2>4, <2>5 DEF Ordered
  <1>6. CASE Len(w.queue) < MaxQueue /\ r = Failed(PutOff(w, s))
    <2> DEFINE v == PutOff(w, s)
    <2>1. r.world = v
      BY <1>6, ResultIs
    <2>2. /\ WorldOK(v) /\ v.engine = w.engine /\ v.recent = w.recent /\ v.busy = TRUE
          /\ v.comp = w.comp /\ v.docs = w.docs /\ v.queue = Append(w.queue, s)
      BY <1>1, <1>6, PutOffIs
    <2> HIDE DEF v
    <2>3. Late(w) => Late(v)
      BY <1>1, <2>2, LateStays
    <2>4. ASSUME w.queue = <<>>, Fits(w, focus), IsInWord(w.engine)
          PROVE  Ordered(v, focus)
      <3>1. v.queue = Append(<<>>, s)
        BY <2>2, <2>4
      <3>2. Len(v.queue) = 1 /\ Head(v.queue) = s
        BY <1>1, <3>1, OneWaits
      <3>3. Fits(v, focus)
        BY <2>2, <2>4, SameFits
      <3> QED
        BY <1>1, <2>2, <2>4, <3>2, <3>3 DEF Ordered, Waits
    <2> QED
      BY <2>1, <2>2, <2>3, <2>4, SameKept
  <1>7. CASE "never" \in Grants /\ r = Failed(Refused(w))
    <2> DEFINE v == Refused(w)
    <2>1. r.world = v
      BY <1>7, ResultIs
    <2>2. /\ WorldOK(v) /\ v.engine = w.engine /\ v.recent = w.recent /\ v.busy = TRUE
          /\ v.comp = w.comp /\ v.docs = w.docs /\ v.queue = w.queue
      BY RefusedIs
    <2> HIDE DEF v
    <2>3. Late(w) => Late(v)
      BY <2>2 DEF Late
    <2>4. w.queue = <<>> => Ordered(v, focus)
      BY <1>7, <2>2 DEF Ordered
    <2> QED
      BY <2>1, <2>2, <2>3, <2>4, SameKept
  <1> QED
    BY <1>4, <1>5, <1>6, <1>7

\* Nothing keeps an engine without a word from being in order with v's composition.
EndAsked(v) ==
    \/ v.queue = <<>> /\ ~v.comp.open
    \/ v.queue = <<>> /\ v.busy /\ "never" \in Grants
    \/ /\ v.busy /\ Len(v.queue) = 1
       /\ \/ Head(v.queue).kind = "end"
          \/ Head(v.queue).kind = "replace" /\ <<>> \in DOMAIN Macros

LEMMA EndAskedIs ==
    ASSUME NEW v, EndAsked(v), NEW u, u.queue = v.queue, u.busy = v.busy,
           u.comp.open = v.comp.open, ~IsInWord(u.engine), NEW c
    PROVE  Ordered(u, c)
  <1>1. CASE v.queue = <<>> /\ ~v.comp.open
    BY <1>1 DEF Ordered, Shows, Fits
  <1>2. CASE v.queue = <<>> /\ v.busy /\ "never" \in Grants
    BY <1>2 DEF Ordered
  <1>3. CASE /\ v.busy /\ Len(v.queue) = 1
             /\ \/ Head(v.queue).kind = "end"
                \/ Head(v.queue).kind = "replace" /\ <<>> \in DOMAIN Macros
    BY <1>3 DEF Ordered, Waits
  <1> QED
    BY <1>1, <1>2, <1>3 DEF EndAsked

LEMMA AsksEndIs ==
    ASSUME Set, focus \in Contexts, NEW w, WorldOK(w), NEW r \in AsksEnd(w)
    PROVE  /\ WorldOK(r.world) /\ r.world.engine = w.engine /\ r.world.docs = w.docs
           /\ Late(w) => Late(r.world)
           /\ w.queue = <<>> => EndAsked(r.world)
  <1> DEFINE s == EndSession
  <1> DEFINE b == NotBusy(w)
  <1>1. s \in Sessions /\ s.context = focus /\ s.kind = "end"
    BY SessionsAre
  <1>2. /\ WorldOK(b) /\ b.engine = w.engine /\ b.recent = w.recent /\ b.busy = FALSE
        /\ b.comp = w.comp /\ b.docs = w.docs /\ b.queue = w.queue
    BY NotBusyIs
  <1>3. r \in Requests(w, s, RunEnd(b, s))
    BY DEF AsksEnd
  <1> HIDE DEF s, b
  <1>4. \/ r \in RunEnd(b, s)
        \/ Len(w.queue) < MaxQueue /\ r = Failed(PutOff(w, s))
        \/ "never" \in Grants /\ r = Failed(Refused(w))
    BY <1>3, RequestsIs
  <1>5. CASE r \in RunEnd(b, s)
    <2>1. /\ WorldOK(r.world) /\ SameRest(r.world, b) /\ r.world.engine = b.engine
          /\ r.world.docs = b.docs /\ ~r.world.comp.open
      BY <1>2, <1>5, RunEndIs
    <2>2. r.world.queue = w.queue
      BY <1>2, <2>1 DEF SameRest
    <2>3. Late(w) => Late(r.world)
      BY <2>2 DEF Late
    <2> QED
      BY <1>2, <2>1, <2>2, <2>3 DEF EndAsked
  <1>6. CASE Len(w.queue) < MaxQueue /\ r = Failed(PutOff(w, s))
    <2> DEFINE v == PutOff(w, s)
    <2>1. r.world = v
      BY <1>6, ResultIs
    <2>2. /\ WorldOK(v) /\ v.engine = w.engine /\ v.recent = w.recent /\ v.busy = TRUE
          /\ v.comp = w.comp /\ v.docs = w.docs /\ v.queue = Append(w.queue, s)
      BY <1>1, <1>6, PutOffIs
    <2> HIDE DEF v
    <2>3. Late(w) => Late(v)
      BY <1>1, <2>2, LateStays
    <2>4. ASSUME w.queue = <<>>
          PROVE  EndAsked(v)
      <3>1. v.queue = Append(<<>>, s)
        BY <2>2, <2>4
      <3>2. Len(v.queue) = 1 /\ Head(v.queue) = s
        BY <1>1, <3>1, OneWaits
      <3> QED
        BY <1>1, <2>2, <3>2 DEF EndAsked
    <2> QED
      BY <2>1, <2>2, <2>3, <2>4
  <1>7. CASE "never" \in Grants /\ r = Failed(Refused(w))
    <2> DEFINE v == Refused(w)
    <2>1. r.world = v
      BY <1>7, ResultIs
    <2>2. /\ WorldOK(v) /\ v.engine = w.engine /\ v.recent = w.recent /\ v.busy = TRUE
          /\ v.comp = w.comp /\ v.docs = w.docs /\ v.queue = w.queue
      BY RefusedIs
    <2> HIDE DEF v
    <2>3. Late(w) => Late(v)
      BY <2>2 DEF Late
    <2>4. w.queue = <<>> => EndAsked(v)
      BY <1>7, <2>2 DEF EndAsked
    <2> QED
      BY <2>1, <2>2, <2>3, <2>4
  <1> QED
    BY <1>4, <1>5, <1>6, <1>7

LEMMA AsksReplaceIs ==
    ASSUME Set, focus \in Contexts, NEW w, WorldOK(w), NEW text \in Seq(Character),
           NEW r \in AsksReplace(w, text)
    PROVE  /\ WorldOK(r.world) /\ r.world.engine = w.engine
           /\ Late(w) => Late(r.world)
           /\ text = <<>> /\ Fits(w, focus) => Kept(r.world, w)
           /\ w.queue = <<>> /\ <<>> \in DOMAIN Macros => EndAsked(r.world)
           /\ w.queue = <<>> /\ text = <<>> /\ Fits(w, focus) /\ ~IsInWord(w.engine) =>
                Ordered(r.world, focus)
  <1> DEFINE s == ReplaceSession(text)
  <1> DEFINE b == NotBusy(w)
  <1>1. s \in Sessions /\ s.context = focus /\ s.kind = "replace" /\ s.text = text
    BY SessionsAre
  <1>2. /\ WorldOK(b) /\ b.engine = w.engine /\ b.recent = w.recent /\ b.busy = FALSE
        /\ b.comp = w.comp /\ b.docs = w.docs /\ b.queue = w.queue
    BY NotBusyIs
  <1>3. r \in Requests(w, s, RunReplace(b, s))
    BY DEF AsksReplace
  <1> HIDE DEF s, b
  <1>4. \/ r \in RunReplace(b, s)
        \/ Len(w.queue) < MaxQueue /\ r = Failed(PutOff(w, s))
        \/ "never" \in Grants /\ r = Failed(Refused(w))
    BY <1>3, RequestsIs
  <1>5. CASE r \in RunReplace(b, s)
    <2>1. /\ WorldOK(r.world) /\ SameRest(r.world, b) /\ r.world.engine = b.engine
          /\ ~r.world.comp.open
          /\ s.text = <<>> /\ Fits(b, s.context) => Kept(r.world, b)
      BY <1>1, <1>2, <1>5, RunReplaceIs
    <2>2. Fits(w, focus) => Fits(b, s.context)
      BY <1>1, <1>2, SameFits
    <2>3. Kept(r.world, b) => Kept(r.world, w)
      BY <1>2 DEF Kept
    <2>4. r.world.queue = w.queue
      BY <1>2, <2>1 DEF SameRest
    <2>5. Late(w) => Late(r.world)
      BY <2>4 DEF Late
    <2>6. w.queue = <<>> => EndAsked(r.world)
      BY <2>1, <2>4 DEF EndAsked
    <2>7. w.queue = <<>> /\ ~IsInWord(w.engine) => Ordered(r.world, focus)
      BY <1>2, <2>1, <2>6, EndAskedIs
    <2> QED
      BY <1>1, <1>2, <2>1, <2>2, <2>3, <2>5, <2>6, <2>7
  <1>6. CASE Len(w.queue) < MaxQueue /\ r = Failed(PutOff(w, s))
    <2> DEFINE v == PutOff(w, s)
    <2>1. r.world = v
      BY <1>6, ResultIs
    <2>2. /\ WorldOK(v) /\ v.engine = w.engine /\ v.recent = w.recent /\ v.busy = TRUE
          /\ v.comp = w.comp /\ v.docs = w.docs /\ v.queue = Append(w.queue, s)
      BY <1>1, <1>6, PutOffIs
    <2> HIDE DEF v
    <2>3. Late(w) => Late(v)
      BY <1>1, <2>2, LateStays
    <2>4. ASSUME w.queue = <<>>
          PROVE  Len(v.queue) = 1 /\ Head(v.queue) = s
      <3>1. v.queue = Append(<<>>, s)
        BY <2>2, <2>4
      <3> QED
        BY <1>1, <3>1, OneWaits
    <2>5. w.queue = <<>> /\ <<>> \in DOMAIN Macros => EndAsked(v)
      BY <1>1, <2>2, <2>4 DEF EndAsked
    <2>6. ASSUME w.queue = <<>>, text = <<>>, Fits(w, focus), ~IsInWord(w.engine)
          PROVE  Ordered(v, focus)
      <3>1. Fits(v, focus)
        BY <2>2, <2>6, SameFits
      <3> QED
        BY <1>1, <2>2, <2>4, <2>6, <3>1 DEF Ordered, Waits
    <2> QED
      BY <2>1, <2>2, <2>3, <2>5, <2>6, SameKept
  <1>7. CASE "never" \in Grants /\ r = Failed(Refused(w))
    <2> DEFINE v == Refused(w)
    <2>1. r.world = v
      BY <1>7, ResultIs
    <2>2. /\ WorldOK(v) /\ v.engine = w.engine /\ v.recent = w.recent /\ v.busy = TRUE
          /\ v.comp = w.comp /\ v.docs = w.docs /\ v.queue = w.queue
      BY RefusedIs
    <2> HIDE DEF v
    <2>3. Late(w) => Late(v)
      BY <2>2 DEF Late
    <2>4. w.queue = <<>> => EndAsked(v) /\ Ordered(v, focus)
      BY <1>7, <2>2 DEF EndAsked, Ordered
    <2> QED
      BY <2>1, <2>2, <2>3, <2>4, SameKept
  <1> QED
    BY <1>4, <1>5, <1>6, <1>7

\* What a request that finds no word leaves: the world as it was, but for the
\* engine and for a session that is put off, which is late.
Missed(v, w) ==
    /\ WorldOK(v) /\ v.docs = w.docs /\ v.comp = w.comp
    /\ v.engine = w.engine \/ v.engine = Cleared
    /\ v.queue = w.queue \/ Late(v)
    /\ Late(w) => Late(v)

LEMMA MissedIs ==
    ASSUME NEW w, WorldOK(w), NEW s \in Sessions, s.kind \in {"committed", "reconvert"}
    PROVE  /\ Missed(w, w)
           /\ Len(w.queue) < MaxQueue => Missed(PutOff(w, s), w)
           /\ Missed(Refused(w), w)
  <1>1. Missed(w, w)
    BY DEF Missed
  <1>2. ASSUME Len(w.queue) < MaxQueue
        PROVE  Missed(PutOff(w, s), w)
    <2> DEFINE v == PutOff(w, s)
    <2>1. /\ WorldOK(v) /\ v.engine = w.engine /\ v.recent = w.recent /\ v.busy = TRUE
          /\ v.comp = w.comp /\ v.docs = w.docs /\ v.queue = Append(w.queue, s)
      BY <1>2, PutOffIs
    <2> HIDE DEF v
    <2>2. Late(v)
      BY <2>1, LateNew
    <2>3. Missed(v, w)
      BY <2>1, <2>2 DEF Missed
    <2> QED
      BY <2>3 DEF v
  <1>3. Missed(Refused(w), w)
    <2> DEFINE v == Refused(w)
    <2>1. /\ WorldOK(v) /\ v.engine = w.engine /\ v.recent = w.recent /\ v.busy = TRUE
          /\ v.comp = w.comp /\ v.docs = w.docs /\ v.queue = w.queue
      BY RefusedIs
    <2> HIDE DEF v
    <2>2. Missed(v, w)
      BY <2>1 DEF Missed, Late
    <2> QED
      BY <2>2 DEF v
  <1> QED
    BY <1>1, <1>2, <1>3

LEMMA AsksCommittedIs ==
    ASSUME Set, focus \in Contexts, NEW w, WorldOK(w), NEW ch \in TypedKeys,
           NEW r \in AsksCommitted(w, ch)
    PROVE  /\ WorldOK(r.world) /\ r.did \in BOOLEAN
           /\ ~r.did => Missed(r.world, w)
           /\ r.did => /\ Kept(r.world, w)
                       /\ r.world.engine = Cleared
                       /\ ~w.comp.open => ~r.world.comp.open
                       /\ r.world.queue = w.queue
  <1> DEFINE s == CommittedSession(ch)
  <1> DEFINE b == NotBusy(w)
  <1>1. s \in Sessions /\ s.context = focus /\ s.kind = "committed"
    BY SessionsAre
  <1>2. /\ WorldOK(b) /\ b.engine = w.engine /\ b.recent = w.recent /\ b.busy = FALSE
        /\ b.comp = w.comp /\ b.docs = w.docs /\ b.queue = w.queue
    BY NotBusyIs
  <1>3. r \in Requests(w, s, RunCommitted(b, s))
    BY DEF AsksCommitted
  <1> HIDE DEF s, b
  <1>4. \/ r \in RunCommitted(b, s)
        \/ Len(w.queue) < MaxQueue /\ r = Failed(PutOff(w, s))
        \/ "never" \in Grants /\ r = Failed(Refused(w))
    BY <1>3, RequestsIs
  <1>5. CASE r \in RunCommitted(b, s)
    <2>1. /\ WorldOK(r.world) /\ SameRest(r.world, b) /\ Kept(r.world, b)
          /\ r.did \in BOOLEAN
          /\ ~r.did => /\ r.world.docs = b.docs /\ r.world.comp = b.comp
                       /\ r.world.engine = b.engine \/ r.world.engine = Cleared
          /\ r.did => /\ r.world.engine = Cleared
                      /\ ~b.comp.open => ~r.world.comp.open
      BY <1>1, <1>2, <1>5, RunCommittedIs
    <2>2. r.world.queue = w.queue
      BY <1>2, <2>1 DEF SameRest
    <2>3. Kept(r.world, w)
      BY <1>2, <2>1 DEF Kept
    <2>4. ~r.did => Missed(r.world, w)
      BY <1>2, <2>1, <2>2 DEF Missed, Late
    <2> QED
      BY <1>2, <2>1, <2>2, <2>3, <2>4
  <1>6. CASE Len(w.queue) < MaxQueue /\ r = Failed(PutOff(w, s))
    <2>1. r.world = PutOff(w, s) /\ r.did = FALSE
      BY <1>6, ResultIs
    <2>2. Missed(PutOff(w, s), w)
      BY <1>1, <1>6, MissedIs
    <2> QED
      BY <2>1, <2>2 DEF Missed
  <1>7. CASE "never" \in Grants /\ r = Failed(Refused(w))
    <2>1. r.world = Refused(w) /\ r.did = FALSE
      BY <1>7, ResultIs
    <2>2. Missed(Refused(w), w)
      BY <1>1, <1>7, MissedIs
    <2> QED
      BY <2>1, <2>2 DEF Missed
  <1> QED
    BY <1>4, <1>5, <1>6, <1>7

LEMMA AsksReconvertIs ==
    ASSUME Set, focus \in Contexts, NEW w, WorldOK(w), NEW ch \in TypedKeys,
           NEW r \in AsksReconvert(w, ch)
    PROVE  /\ WorldOK(r.world) /\ r.did \in BOOLEAN
           /\ ~r.did => Missed(r.world, w)
           /\ r.did => r.world.queue = w.queue
           /\ r.did /\ ~w.comp.open => Shows(r.world, focus) /\ Kept(r.world, w)
  <1> DEFINE s == ReconvertSession(ch)
  <1> DEFINE b == NotBusy(w)
  <1>1. s \in Sessions /\ s.context = focus /\ s.kind = "reconvert"
    BY SessionsAre
  <1>2. /\ WorldOK(b) /\ b.engine = w.engine /\ b.recent = w.recent /\ b.busy = FALSE
        /\ b.comp = w.comp /\ b.docs = w.docs /\ b.queue = w.queue
    BY NotBusyIs
  <1>3. r \in Requests(w, s, RunReconvert(b, s))
    BY DEF AsksReconvert
  <1> HIDE DEF s, b
  <1>4. \/ r \in RunReconvert(b, s)
        \/ Len(w.queue) < MaxQueue /\ r = Failed(PutOff(w, s))
        \/ "never" \in Grants /\ r = Failed(Refused(w))
    BY <1>3, RequestsIs
  <1>5. CASE r \in RunReconvert(b, s)
    <2>1. /\ WorldOK(r.world) /\ SameRest(r.world, b)
          /\ r.did \in BOOLEAN
          /\ ~r.did => /\ r.world.docs = b.docs /\ r.world.comp = b.comp
                       /\ r.world.engine = b.engine \/ r.world.engine = Cleared
          /\ r.did /\ ~b.comp.open => Shows(r.world, s.context) /\ Kept(r.world, b)
      BY <1>1, <1>2, <1>5, RunReconvertIs
    <2>2. r.world.queue = w.queue
      BY <1>2, <2>1 DEF SameRest
    <2>3. Kept(r.world, b) => Kept(r.world, w)
      BY <1>2 DEF Kept
    <2>4. ~r.did => Missed(r.world, w)
      BY <1>2, <2>1, <2>2 DEF Missed, Late
    <2> QED
      BY <1>1, <1>2, <2>1, <2>2, <2>3, <2>4
  <1>6. CASE Len(w.queue) < MaxQueue /\ r = Failed(PutOff(w, s))
    <2>1. r.world = PutOff(w, s) /\ r.did = FALSE
      BY <1>6, ResultIs
    <2>2. Missed(PutOff(w, s), w)
      BY <1>1, <1>6, MissedIs
    <2> QED
      BY <2>1, <2>2 DEF Missed
  <1>7. CASE "never" \in Grants /\ r = Failed(Refused(w))
    <2>1. r.world = Refused(w) /\ r.did = FALSE
      BY <1>7, ResultIs
    <2>2. Missed(Refused(w), w)
      BY <1>1, <1>7, MissedIs
    <2> QED
      BY <2>1, <2>2 DEF Missed
  <1> QED
    BY <1>4, <1>5, <1>6, <1>7

-----------------------------------------------------------------------------
(* Handlers.                                                                 *)

\* The composition shows the word, and the sessions that wait, if any, will
\* not find it.
Good(w) == Shows(w, focus) /\ (w.queue = <<>> \/ Late(w))

InOrder(w) == Late(w) \/ Ordered(w, focus)

LEMMA GoodEnds ==
    ASSUME NEW w, Good(w)
    PROVE  InOrder(w)
  BY DEF Good, InOrder, Ordered

LEMMA ClearedNoWord == ~IsInWord(Cleared)
  BY DEF IsInWord, Cleared

\* A search that misses, when there is no word, leaves things as good.
LEMMA MissedGood ==
    ASSUME NEW v, NEW w, Missed(v, w), Good(w), ~IsInWord(w.engine)
    PROVE  Good(v) /\ ~IsInWord(v.engine)
  <1>1. ~IsInWord(v.engine)
    BY ClearedNoWord DEF Missed
  <1>2. ~w.comp.open
    BY DEF Good, Shows
  <1>3. ~v.comp.open
    BY <1>2 DEF Missed
  <1>4. Shows(v, focus)
    BY <1>1, <1>3 DEF Shows, Fits
  <1>5. v.queue = <<>> \/ Late(v)
    BY DEF Missed, Good
  <1> QED
    BY <1>1, <1>4, <1>5 DEF Good

LEMMA AfterCommittedIs ==
    ASSUME Set, focus \in Contexts, WorldOK(World), NEW ch \in TypedKeys,
           NEW r \in AfterCommitted(ch)
    PROVE  /\ WorldOK(r.world) /\ r.did \in BOOLEAN
           /\ Good(World) => Good(r.world) /\ Kept(r.world, World)
           /\ ~r.did => r.world.docs = docs
  <1>0. World.docs = docs /\ World.engine = engine
    BY DEF World
  <1>1. CASE TriesCommitted(ch)
    <2>1. ~IsInWord(World.engine)
      BY <1>0, <1>1 DEF TriesCommitted
    <2>2. r \in AsksCommitted(World, ch)
      BY <1>1 DEF AfterCommitted
    <2> DEFINE w == World
    <2>3. WorldOK(w) /\ r \in AsksCommitted(w, ch) /\ ~IsInWord(w.engine)
      BY <2>1, <2>2
    <2> HIDE DEF w
    <2>4. /\ WorldOK(r.world) /\ r.did \in BOOLEAN
          /\ ~r.did => Missed(r.world, w)
          /\ r.did => /\ Kept(r.world, w)
                      /\ r.world.engine = Cleared
                      /\ ~w.comp.open => ~r.world.comp.open
                      /\ r.world.queue = w.queue
      BY <2>3, AsksCommittedIs
    <2>5. CASE ~r.did
      <3>1. Missed(r.world, w)
        BY <2>4, <2>5
      <3>2. Good(w) => Good(r.world)
        BY <2>3, <3>1, MissedGood
      <3>3. r.world.docs = w.docs
        BY <3>1 DEF Missed
      <3> QED
        BY <1>0, <2>4, <3>2, <3>3, SameKept DEF w
    <2>6. CASE r.did
      <3>1. ASSUME Good(w)
            PROVE  Good(r.world)
        <4>1. ~w.comp.open
          BY <2>3, <3>1 DEF Good, Shows
        <4>2. ~r.world.comp.open /\ ~IsInWord(r.world.engine)
          BY <2>4, <2>6, <4>1, ClearedNoWord
        <4>3. Shows(r.world, focus)
          BY <4>2 DEF Shows, Fits
        <4>4. r.world.queue = <<>> \/ Late(r.world)
          BY <2>4, <2>6, <3>1 DEF Good, Late
        <4> QED
          BY <4>3, <4>4 DEF Good
      <3> QED
        BY <2>4, <2>6, <3>1 DEF w
    <2> QED
      BY <2>4, <2>5, <2>6
  <1>2. CASE ~TriesCommitted(ch)
    <2>1. r = Failed(World)
      BY <1>2 DEF AfterCommitted
    <2>2. r.world = World /\ r.did = FALSE
      BY <2>1, ResultIs
    <2> QED
      BY <1>0, <2>2, SameKept
  <1> QED
    BY <1>1, <1>2

LEMMA AfterReconversionIs ==
    ASSUME Set, focus \in Contexts, NEW w, WorldOK(w), NEW ch \in TypedKeys,
           NEW r \in AfterReconversion(w, ch)
    PROVE  /\ WorldOK(r.world) /\ r.did \in BOOLEAN
           /\ Good(w) => Good(r.world) /\ Kept(r.world, w)
  <1>1. CASE TriesReconversion(w, ch)
    <2>1. ~IsInWord(w.engine)
      BY <1>1 DEF TriesReconversion
    <2>2. r \in AsksReconvert(w, ch)
      BY <1>1 DEF AfterReconversion
    <2>3. /\ WorldOK(r.world) /\ r.did \in BOOLEAN
          /\ ~r.did => Missed(r.world, w)
          /\ r.did => r.world.queue = w.queue
          /\ r.did /\ ~w.comp.open => Shows(r.world, focus) /\ Kept(r.world, w)
      BY <2>2, AsksReconvertIs
    <2>4. CASE ~r.did
      <3>1. Missed(r.world, w)
        BY <2>3, <2>4
      <3>2. Good(w) => Good(r.world)
        BY <2>1, <3>1, MissedGood
      <3>3. Kept(r.world, w)
        BY <3>1, SameKept DEF Missed
      <3> QED
        BY <2>3, <3>2, <3>3
    <2>5. CASE r.did
      <3>1. ASSUME Good(w)
            PROVE  Good(r.world) /\ Kept(r.world, w)
        <4>1. ~w.comp.open
          BY <2>1, <3>1 DEF Good, Shows
        <4>2. r.world.queue = <<>> \/ Late(r.world)
          BY <2>3, <2>5, <3>1 DEF Good, Late
        <4> QED
          BY <2>3, <2>5, <4>1, <4>2 DEF Good
      <3> QED
        BY <2>3, <3>1
    <2> QED
      BY <2>3, <2>4, <2>5
  <1>2. CASE ~TriesReconversion(w, ch)
    <2>1. r = Failed(w)
      BY <1>2 DEF AfterReconversion
    <2>2. r.world = w /\ r.did = FALSE
      BY <2>1, ResultIs
    <2> QED
      BY <2>2, SameKept
  <1> QED
    BY <1>1, <1>2

LEMMA TakesWord ==
    ASSUME NEW e, EngineOK(e), NEW ch, NEW c, Takes(e, ch, c)
    PROVE  IsInWord(ProcessKey(e, ch, c))
  <1> DEFINE raw == Append(e.raw, ch)
  <1>1. ProcessKey(e, ch, c) = Recomputed(raw, c) \/ ProcessKey(e, ch, c) = Reverted(raw)
    BY DEF ProcessKey
  <1>2. IsSeq(e.raw)
    BY DEF EngineOK
  <1>3. IsSeq(raw) /\ Len(raw) = Len(e.raw) + 1 /\ Len(e.raw) \in Nat
    BY <1>2, AppendIs, SeqIs
  <1> HIDE DEF raw
  <1>4. raw # <<>>
    BY <1>3, LenZero
  <1>5. Recomputed(raw, c).raw = raw /\ Reverted(raw).raw = raw
    BY DEF Recomputed, Reverted
  <1> QED
    BY <1>1, <1>4, <1>5 DEF IsInWord

LEMMA KeyComposes ==
    ASSUME Set, focus \in Contexts, NEW w, WorldOK(w), NEW ch, Takes(w.engine, ch, config),
           NEW v \in Composed(w, ch)
    PROVE  /\ WorldOK(v)
           /\ Good(w) => InOrder(v) /\ Kept(v, w)
  <1> DEFINE e == ProcessKey(w.engine, ch, config)
  <1> DEFINE u == [w EXCEPT !.engine = e]
  <1> DEFINE x == Unrecent(u)
  <1>1. PICK r \in AsksUpdate(x) : v = r.world
    <2>1. v \in UNION {{r.world : r \in AsksUpdate(y)} : y \in {x}}
      BY DEF Composed, Unrecent
    <2> HIDE DEF x
    <2> QED
      BY <2>1
  <1>2. EngineOver(w.engine, config.method) /\ EngineOK(w.engine)
    BY DEF WorldOK, EngineOver
  <1>3. EngineOver(e, config.method) /\ IsInWord(e)
    BY <1>2, ProcessedOver, TakesWord
  <1> HIDE DEF e
  <1>4. /\ WorldOK(u) /\ u.engine = e
        /\ u.busy = w.busy /\ u.recent = w.recent
        /\ u.comp = w.comp /\ u.docs = w.docs /\ u.queue = w.queue
    BY <1>3, WithEngine
  <1> HIDE DEF u
  <1>5. /\ WorldOK(x) /\ x.engine = u.engine
        /\ x.comp = u.comp /\ x.docs = u.docs /\ x.queue = u.queue
    BY <1>4, UnrecentIs
  <1> HIDE DEF x
  <1>6. /\ WorldOK(r.world) /\ r.world.engine = x.engine
        /\ Fits(x, focus) => Kept(r.world, x)
        /\ Late(x) => Late(r.world)
        /\ x.queue = <<>> /\ Fits(x, focus) /\ IsInWord(x.engine) => Ordered(r.world, focus)
    BY <1>1, <1>5, AsksUpdateIs
  <1>7. Late(w) => Late(x)
    BY <1>4, <1>5 DEF Late
  <1>8. ASSUME Good(w)
        PROVE  InOrder(v) /\ Kept(v, w)
    <2>1. Fits(x, focus)
      BY <1>4, <1>5, <1>8, SameFits DEF Good, Shows
    <2>2. Kept(v, w)
      BY <1>1, <1>4, <1>5, <1>6, <2>1 DEF Kept
    <2>3. InOrder(v)
      BY <1>1, <1>3, <1>4, <1>5, <1>6, <1>7, <1>8, <2>1 DEF Good, InOrder
    <2> QED
      BY <2>2, <2>3
  <1> QED
    BY <1>1, <1>6, <1>8

LEMMA MacroIs ==
    ASSUME NEW word \in DOMAIN Macros
    PROVE  Macros[word] \in Seq(Character)
  BY TsfConstants

LEMMA KeyEnds ==
    ASSUME Set, focus \in Contexts, NEW w, WorldOK(w), NEW ch, NEW v \in Ended(w, ch)
    PROVE  /\ WorldOK(v)
           /\ Good(w) => Late(v) \/ (EndAsked(v) /\ ~IsInWord(v.engine))
  <1> DEFINE u == LeavesWord(w)
  <1> DEFINE word == u.engine.comp
  <1> DEFINE macro == config.macros /\ word \in DOMAIN Macros
  <1>1. /\ WorldOK(u) /\ u.engine = Cleared
        /\ u.comp = w.comp /\ u.docs = w.docs /\ u.queue = w.queue
    BY LeavesIs
  <1>2. \/ ~w.comp.open /\ v = Unrecent(u)
        \/ w.comp.open /\ macro /\ \E r \in AsksReplace(u, Macros[word]) : v = [r.world EXCEPT !.recent = TRUE]
        \/ w.comp.open /\ \E r \in AsksEnd(u) : v = [r.world EXCEPT !.recent = TRUE]
    BY DEF Ended, Unrecent
  <1>3. word = <<>> /\ ~IsInWord(u.engine)
    BY <1>1, ClearedNoWord DEF Cleared
  <1> HIDE DEF u, word
  <1>4. CASE ~w.comp.open /\ v = Unrecent(u)
    <2>1. /\ WorldOK(v) /\ v.engine = u.engine
          /\ v.comp = u.comp /\ v.docs = u.docs /\ v.queue = u.queue
      BY <1>1, <1>4, UnrecentIs
    <2>2. Good(w) => Late(v) \/ EndAsked(v)
      BY <1>1, <1>4, <2>1 DEF Good, Late, EndAsked
    <2> QED
      BY <1>3, <2>1, <2>2
  <1> DEFINE Recently(x) == [x EXCEPT !.recent = TRUE]
  <1>5. ASSUME NEW x, WorldOK(x), x.engine = u.engine,
               Late(u) => Late(x), u.queue = <<>> => EndAsked(x), v = [x EXCEPT !.recent = TRUE]
        PROVE  /\ WorldOK(v)
               /\ Good(w) => Late(v) \/ (EndAsked(v) /\ ~IsInWord(v.engine))
    <2> DEFINE yes == TRUE
    <2>1. v = [x EXCEPT !.recent = yes] /\ yes \in BOOLEAN
      BY <1>5
    <2> HIDE DEF yes
    <2>2. /\ WorldOK(v) /\ v.engine = x.engine /\ v.busy = x.busy
          /\ v.comp = x.comp /\ v.docs = x.docs /\ v.queue = x.queue
      BY <1>5, <2>1, WithRecent
    <2>3. Late(x) => Late(v)
      BY <2>2 DEF Late
    <2>4. EndAsked(x) => EndAsked(v)
      BY <2>2 DEF EndAsked
    <2>5. Late(w) => Late(u)
      BY <1>1 DEF Late
    <2> QED
      BY <1>1, <1>3, <1>5, <2>2, <2>3, <2>4, <2>5 DEF Good
  <1>6. CASE w.comp.open /\ macro /\ \E r \in AsksReplace(u, Macros[word]) : v = [r.world EXCEPT !.recent = TRUE]
    <2>1. PICK r \in AsksReplace(u, Macros[word]) : v = [r.world EXCEPT !.recent = TRUE]
      BY <1>6
    <2> DEFINE text == Macros[word]
    <2>2. text \in Seq(Character) /\ <<>> \in DOMAIN Macros
      BY <1>3, <1>6, MacroIs
    <2> HIDE DEF text
    <2>3. /\ WorldOK(r.world) /\ r.world.engine = u.engine
          /\ Late(u) => Late(r.world)
          /\ u.queue = <<>> /\ <<>> \in DOMAIN Macros => EndAsked(r.world)
      BY <1>1, <2>1, <2>2, AsksReplaceIs DEF text
    <2> QED
      BY <1>5, <2>1, <2>2, <2>3
  <1>7. CASE w.comp.open /\ \E r \in AsksEnd(u) : v = [r.world EXCEPT !.recent = TRUE]
    <2>1. PICK r \in AsksEnd(u) : v = [r.world EXCEPT !.recent = TRUE]
      BY <1>7
    <2>2. /\ WorldOK(r.world) /\ r.world.engine = u.engine /\ r.world.docs = u.docs
          /\ Late(u) => Late(r.world)
          /\ u.queue = <<>> => EndAsked(r.world)
      BY <1>1, <2>1, AsksEndIs
    <2> QED
      BY <1>5, <2>1, <2>2
  <1> QED
    BY <1>2, <1>4, <1>6, <1>7

LEMMA TypedCharIs ==
    ASSUME NEW ch \in TypedKeys
    PROVE  Char(ch) \in Character
  <1> DEFINE bases == UNION {Unaccented, Digits, ViqrMarks, HardBoundary, TypedKeys}
  <1>1. BasesFor(bases) /\ ch \in KeysOver(bases)
    BY DEF BasesFor, KeysOver
  <1>2. Character = CharactersOver(bases)
    BY DEF Character
  <1> HIDE DEF bases
  <1> QED
    BY <1>1, <1>2, CharOver

\* An edit moves a composition, and leaves it to whom and where it was.
SameRange(k, j) == k.open = j.open /\ (j.open => k.context = j.context /\ k.alive = j.alive)

LEMMA ShiftedSame ==
    ASSUME NEW w, WorldOK(w), NEW c, NEW from, NEW to, NEW new
    PROVE  SameRange(Shifted(w.comp, c, from, to, new), w.comp)
  <1> DEFINE k == w.comp
  <1>1. RangeOK(k, w.docs)
    BY DEF WorldOK
  <1>2. k = NoComposition \/ k \in Ranges
    BY <1>1 DEF RangeOK
  <1> HIDE DEF k
  <1>3. CASE k = NoComposition
    <2>1. ~k.open
      BY <1>3 DEF NoComposition
    <2> QED
      BY <2>1 DEF Shifted, SameRange, k
  <1>4. CASE k \in Ranges
    <2> DEFINE m == [k EXCEPT !.from = Moved(@, from, to, Len(new)), !.to = Moved(@, from, to, Len(new))]
    <2>1. m.open = k.open /\ m.context = k.context /\ m.alive = k.alive
      BY <1>4 DEF Ranges
    <2> HIDE DEF m
    <2>2. SameRange(m, k) /\ SameRange(k, k)
      BY <2>1 DEF SameRange
    <2> QED
      BY <2>2 DEF Shifted, k, m
  <1> QED
    BY <1>2, <1>3, <1>4 DEF k

LEMMA SameRepairs ==
    ASSUME NEW v, NEW w, NEW c, v.engine = w.engine, v.busy = w.busy, v.queue = w.queue,
           SameRange(v.comp, w.comp), Repairs(w, c)
    PROVE  Repairs(v, c)
  <1>1. Writable(w, c) => Writable(v, c)
    BY Zenon DEF Writable, SameRange
  <1> QED
    BY <1>1, Zenon DEF Repairs

LEMMA TypedIs ==
    ASSUME focus \in Contexts, NEW w, WorldOK(w), NEW ch \in TypedKeys
    PROVE  LET v == Typed(w, ch) IN
           /\ WorldOK(v) /\ v.engine = w.engine /\ SameRest(v, w)
           /\ SameRange(v.comp, w.comp)
  <1> DEFINE p == w.docs[focus].caret
  <1> DEFINE new == <<Char(ch)>>
  <1> DEFINE x == SetText(w, focus, p, p, new)
  <1> DEFINE v == Typed(w, ch)
  <1> DEFINE n == p + 1
  <1>1. p \in Nat /\ p <= Len(w.docs[focus].text) /\ Len(w.docs[focus].text) \in Nat
    BY DocIs DEF WorldOK
  <1>2. v = WithCaret(x, focus, n)
    BY DEF Typed, WithCaret
  <1>3. new \in Seq(Character) /\ Len(new) = 1
    BY TypedCharIs
  <1>4. p <= p
    BY <1>1
  <1> HIDE DEF p, new, v
  <1>5. LET y == SetText(w, focus, p, p, new) IN
           /\ WorldOK(y)
           /\ y.engine = w.engine /\ y.busy = w.busy /\ y.recent = w.recent /\ y.queue = w.queue
           /\ y.comp = Shifted(w.comp, focus, p, p, new)
           /\ y.docs[focus].text = Spliced(w.docs[focus].text, p, p, new)
           /\ y.docs[focus].caret = Moved(w.docs[focus].caret, p, p, Len(new))
           /\ Len(y.docs[focus].text) = Len(w.docs[focus].text) - (p - p) + Len(new)
           /\ SameBut(y.docs, w.docs, focus)
    BY <1>1, <1>3, <1>4, SetTextOK, Zenon
  <1>6. /\ WorldOK(x)
        /\ x.engine = w.engine /\ x.busy = w.busy /\ x.recent = w.recent /\ x.queue = w.queue
        /\ x.comp = Shifted(w.comp, focus, p, p, new)
        /\ Len(x.docs[focus].text) = Len(w.docs[focus].text) - (p - p) + Len(new)
    BY <1>5
  <1> HIDE DEF x
  <1>7. n \in Nat /\ n <= Len(x.docs[focus].text)
    BY <1>1, <1>3, <1>6
  <1> HIDE DEF n
  <1>8. /\ WorldOK(v) /\ v.engine = x.engine
        /\ v.busy = x.busy /\ v.recent = x.recent
        /\ v.comp = x.comp /\ v.queue = x.queue
    BY <1>2, <1>6, <1>7, CaretIs
  <1>9. SameRange(v.comp, w.comp)
    BY <1>6, <1>8, ShiftedSame
  <1> QED
    BY <1>6, <1>8, <1>9 DEF SameRest, v

\* A character that ends the word is typed after what is there to be done.
LEMMA TypedOrder ==
    ASSUME focus \in Contexts, NEW w, WorldOK(w), NEW ch \in TypedKeys,
           Late(w) \/ (EndAsked(w) /\ ~IsInWord(w.engine))
    PROVE  InOrder(Typed(w, ch))
  <1> DEFINE v == Typed(w, ch)
  <1>1. /\ WorldOK(v) /\ v.engine = w.engine /\ SameRest(v, w)
        /\ v.comp.open = w.comp.open
    BY TypedIs DEF SameRange
  <1> HIDE DEF v
  <1>2. Late(w) => Late(v)
    BY <1>1 DEF SameRest, Late
  <1>3. EndAsked(w) /\ ~IsInWord(w.engine) => Ordered(v, focus)
    BY <1>1, EndAskedIs DEF SameRest
  <1> QED
    BY <1>2, <1>3 DEF InOrder, v

LEMMA LetterTakes ==
    ASSUME NEW ch \in Letters, NEW e, NEW c
    PROVE  Takes(e, ch, c)
  BY DEF Takes, IsWordChar, Letters, Alphabetic, Unaccented, HardBoundary, ReplayEligible
-----------------------------------------------------------------------------
(* Steps.                                                                    *)

\* What a handler that is told of everything makes of the world.
Keeps(w) == WorldOK(w) /\ (~parted => InOrder(w) \/ (edited /\ Repairs(w, focus)))

LEMMA WorldFields ==
    /\ World.engine = engine /\ World.busy = busy /\ World.recent = recent
    /\ World.comp = comp /\ World.docs = docs /\ World.queue = queue
  BY DEF World

LEMMA SetNow == ASSUME TypeInv PROVE Set /\ focus \in Contexts /\ WorldOK(World)
  BY Zenon DEF TypeInv, Set

\* Nothing waits when a key is handled.
LEMMA IdleGood ==
    ASSUME OrderInv, ~busy, ~parted
    PROVE  Good(World) /\ queue = <<>>
  <1>2. ~World.busy
    BY WorldFields, Zenon
  <1>1. Ordered(World, focus)
    BY <1>2, Zenon DEF OrderInv, Repairs
  <1>3. World.queue = <<>> /\ Shows(World, focus)
    BY <1>1, <1>2, Zenon DEF Ordered, Waits
  <1> QED
    BY <1>3, WorldFields, Zenon DEF Good

LEMMA SameGood ==
    ASSUME NEW v, NEW w, v.docs = w.docs, v.comp = w.comp, v.queue = w.queue,
           v.engine = w.engine, Good(w)
    PROVE  Good(v)
  <1>1. Fits(v, focus)
    BY SameFits, Zenon DEF Good, Shows
  <1>2. Late(w) => Late(v)
    BY Zenon DEF Late
  <1> QED
    BY <1>1, <1>2, Zenon DEF Good, Shows

LEMMA UnrecentGood ==
    ASSUME NEW w, WorldOK(w), NEW v, Good(v) => Good(w) /\ Kept(w, v)
    PROVE  /\ WorldOK(Unrecent(w))
           /\ Good(v) => Good(Unrecent(w)) /\ Kept(Unrecent(w), v)
  <1> DEFINE u == Unrecent(w)
  <1>1. /\ WorldOK(u) /\ u.engine = w.engine
        /\ u.comp = w.comp /\ u.docs = w.docs /\ u.queue = w.queue
    BY UnrecentIs, Zenon
  <1> HIDE DEF u
  <1>2. Good(w) => Good(u)
    BY <1>1, SameGood, Zenon
  <1>3. Kept(u, w)
    BY <1>1, SameKept, Zenon
  <1>4. Kept(w, v) => Kept(u, v)
    BY <1>3, KeptThrough, Zenon
  <1> QED
    BY <1>1, <1>2, <1>4, Zenon DEF u

LEMMA TypedKeyIs ==
    ASSUME TypeInv, OrderInv, NEW ch \in TypedKeys, TypedKey(ch)
    PROVE  \E w : /\ Step(w, FALSE) /\ Keeps(w)
                  /\ ~parted /\ ch \in Letters => Kept(w, World)
  <1>1. Set /\ focus \in Contexts /\ WorldOK(World)
    BY SetNow, Zenon
  <1>2. ~parted => Good(World)
    BY IdleGood, Zenon DEF TypedKey, Handles
  <1>3. PICK c \in AfterCommitted(ch) :
          IF c.did THEN Step(Unrecent(c.world), FALSE)
          ELSE \E r \in AfterReconversion(c.world, ch) :
                IF r.did THEN Step(Unrecent(r.world), FALSE)
                ELSE IF Takes(r.world.engine, ch, config)
                THEN \E w \in Composed(r.world, ch) : Step(w, FALSE)
                ELSE \E w \in Ended(r.world, ch) : Step(Typed(w, ch), FALSE)
    BY Zenon DEF TypedKey
  <1>4. WorldOK(c.world) /\ (Good(World) => Good(c.world) /\ Kept(c.world, World))
    BY <1>1, <1>3, AfterCommittedIs, Zenon
  <1>5. CASE c.did
    <2>1. Step(Unrecent(c.world), FALSE)
      BY <1>3, <1>5, Zenon
    <2>2. /\ WorldOK(Unrecent(c.world))
          /\ Good(World) => Good(Unrecent(c.world)) /\ Kept(Unrecent(c.world), World)
      BY <1>4, UnrecentGood, Zenon
    <2>3. Good(World) => InOrder(Unrecent(c.world))
      BY <2>2, GoodEnds, Zenon
    <2> QED
      BY <1>2, <2>1, <2>2, <2>3, Zenon DEF Keeps
  <1>6. CASE ~c.did
    <2>1. PICK r \in AfterReconversion(c.world, ch) :
             IF r.did THEN Step(Unrecent(r.world), FALSE)
             ELSE IF Takes(r.world.engine, ch, config)
             THEN \E w \in Composed(r.world, ch) : Step(w, FALSE)
             ELSE \E w \in Ended(r.world, ch) : Step(Typed(w, ch), FALSE)
      BY <1>3, <1>6, Zenon
    <2>2. WorldOK(r.world) /\ (Good(c.world) => Good(r.world) /\ Kept(r.world, c.world))
      BY <1>1, <1>4, <2>1, AfterReconversionIs, Zenon
    <2>3. Good(World) => Good(r.world) /\ Kept(r.world, World)
      BY <1>4, <2>2, KeptThrough, Zenon
    <2>4. CASE r.did
      <3>1. Step(Unrecent(r.world), FALSE)
        BY <2>1, <2>4, Zenon
      <3>2. /\ WorldOK(Unrecent(r.world))
            /\ Good(World) => Good(Unrecent(r.world)) /\ Kept(Unrecent(r.world), World)
        BY <2>2, <2>3, UnrecentGood, Zenon
      <3>3. Good(World) => InOrder(Unrecent(r.world))
        BY <3>2, GoodEnds, Zenon
      <3> QED
        BY <1>2, <3>1, <3>2, <3>3, Zenon DEF Keeps
    <2>5. CASE ~r.did /\ Takes(r.world.engine, ch, config)
      <3>1. PICK w \in Composed(r.world, ch) : Step(w, FALSE)
        BY <2>1, <2>5, Zenon
      <3>2. WorldOK(w) /\ (Good(r.world) => InOrder(w) /\ Kept(w, r.world))
        BY <1>1, <2>2, <2>5, <3>1, KeyComposes, Zenon
      <3>3. Good(World) => InOrder(w) /\ Kept(w, World)
        BY <2>3, <3>2, KeptThrough, Zenon
      <3> QED
        BY <1>2, <3>1, <3>2, <3>3, Zenon DEF Keeps
    <2>6. CASE ~r.did /\ ~Takes(r.world.engine, ch, config)
      <3>1. PICK w \in Ended(r.world, ch) : Step(Typed(w, ch), FALSE)
        BY <2>1, <2>6, Zenon
      <3>2. /\ WorldOK(w)
            /\ Good(r.world) => Late(w) \/ (EndAsked(w) /\ ~IsInWord(w.engine))
        BY <1>1, <2>2, <3>1, KeyEnds, Zenon
      <3>3. WorldOK(Typed(w, ch))
        BY <1>1, <3>2, TypedIs, Zenon
      <3>4. Good(World) => InOrder(Typed(w, ch))
        BY <1>1, <2>3, <3>2, TypedOrder, Zenon
      <3>5. ch \notin Letters
        BY <2>6, LetterTakes, Zenon
      <3> QED
        BY <1>2, <3>1, <3>3, <3>4, <3>5, Zenon DEF Keeps
    <2> QED
      BY <2>4, <2>5, <2>6, Zenon
  <1> QED
    BY <1>5, <1>6, Zenon

LEMMA BackspaceIs ==
    ASSUME TypeInv, OrderInv, Backspace
    PROVE  \E w : Step(w, FALSE) /\ Keeps(w) /\ (~parted => Kept(w, World))
  <1> DEFINE e == RemoveLastChar(World.engine, config)
             w == [World EXCEPT !.engine = e]
             None == <<>>
  <1>1. Set /\ focus \in Contexts /\ WorldOK(World)
    BY SetNow, Zenon
  <1>2. ~parted => Good(World) /\ World.queue = <<>>
    BY IdleGood, WorldFields, Zenon DEF Backspace
  <1>3. IsInWord(World.engine) /\ EngineOver(World.engine, config.method)
    BY <1>1, WorldFields, Zenon DEF Backspace, WorldOK
  <1>4. EngineOver(e, config.method)
    BY <1>1, <1>3, RemovedOver, SetIs, Zenon
  <1>5. PICK r \in IF IsInWord(w.engine) THEN AsksUpdate(w) ELSE AsksReplace(w, <<>>) :
          Step(r.world, FALSE)
    BY Zenon DEF Backspace
  <1>6. \/ IsInWord(w.engine) /\ r \in AsksUpdate(w)
        \/ ~IsInWord(w.engine) /\ r \in AsksReplace(w, None)
    BY <1>5, Zenon
  <1> HIDE DEF e
  <1>7. /\ WorldOK(w) /\ w.engine = e
        /\ w.comp = World.comp /\ w.docs = World.docs /\ w.queue = World.queue
    BY <1>1, <1>4, WithEngine, Zenon
  <1> HIDE DEF w
  <1>8. ~parted => Fits(w, focus) /\ w.queue = <<>>
    BY <1>2, <1>7, SameFits, Zenon DEF Good, Shows
  <1>9. Kept(w, World)
    BY <1>7, SameKept, Zenon
  <1>a. None \in Seq(Character) /\ None = <<>>
    BY DEF None
  <1> HIDE DEF None
  <1>b. /\ WorldOK(r.world)
        /\ ~parted => Ordered(r.world, focus) /\ Kept(r.world, w)
    <2>1. CASE IsInWord(w.engine) /\ r \in AsksUpdate(w)
      BY <2>1, <1>1, <1>7, <1>8, AsksUpdateIs, Zenon
    <2>2. CASE ~IsInWord(w.engine) /\ r \in AsksReplace(w, None)
      BY <2>2, <1>1, <1>7, <1>8, <1>a, AsksReplaceIs, Zenon
    <2> QED
      BY <2>1, <2>2, <1>6, Zenon
  <1>c. ~parted => Kept(r.world, World)
    BY <1>b, <1>9, KeptThrough, Zenon
  <1> QED
    BY <1>5, <1>b, <1>c, Zenon DEF Keeps, InOrder

LEMMA EscapeIs ==
    ASSUME TypeInv, OrderInv, Escape
    PROVE  \E w : Step(w, FALSE) /\ Keeps(w)
  <1>1. Set /\ focus \in Contexts /\ WorldOK(World)
    BY SetNow, Zenon
  <1>2. ~parted => Good(World) /\ World.queue = <<>>
    BY IdleGood, WorldFields, Zenon DEF Escape
  <1>3. IsInWord(World.engine) /\ World.comp = comp
    BY WorldFields, Zenon DEF Escape
  <1>4. CASE comp.open
    <2>1. PICK r \in AsksEnd(World) : Step(LeavesWord(r.world), FALSE)
      BY <1>4, Zenon DEF Escape
    <2>2. WorldOK(r.world) /\ (~parted => EndAsked(r.world))
      BY <1>1, <1>2, <2>1, AsksEndIs, Zenon
    <2> DEFINE u == LeavesWord(r.world)
    <2>3. /\ WorldOK(u) /\ u.engine = Cleared /\ u.busy = r.world.busy
          /\ u.comp = r.world.comp /\ u.queue = r.world.queue
      BY <2>2, LeavesIs, Zenon
    <2>4. Step(u, FALSE)
      BY <2>1, Zenon
    <2> HIDE DEF u
    <2>5. ~IsInWord(u.engine)
      BY <2>3, ClearedNoWord, Zenon
    <2>6. ~parted => Ordered(u, focus)
      BY <2>2, <2>3, <2>5, EndAskedIs, Zenon
    <2> QED
      BY <2>3, <2>4, <2>6, Zenon DEF Keeps, InOrder
  <1>5. CASE ~comp.open
    <2>1. PICK w \in Ended(World, "escape") : Step(w, FALSE)
      BY <1>5, Zenon DEF Escape
    <2>2. WorldOK(w)
      BY <1>1, <2>1, KeyEnds, Zenon
    <2>3. parted
      BY <1>2, <1>3, <1>5, Zenon DEF Good, Shows
    <2> QED
      BY <2>1, <2>2, <2>3, Zenon DEF Keeps
  <1> QED
    BY <1>4, <1>5, Zenon

LEMMA CaretAtIs ==
    ASSUME focus \in Contexts, NEW w, WorldOK(w), NEW p \in Nat, p <= Len(w.docs[focus].text)
    PROVE  /\ WorldOK(CaretAt(w, p)) /\ CaretAt(w, p).engine = w.engine
           /\ CaretAt(w, p).busy = w.busy /\ CaretAt(w, p).comp = w.comp
           /\ CaretAt(w, p).queue = w.queue
  <1>1. CaretAt(w, p) = WithCaret(w, focus, p)
    BY DEF CaretAt, WithCaret
  <1>2. /\ WorldOK(WithCaret(w, focus, p)) /\ WithCaret(w, focus, p).engine = w.engine
        /\ WithCaret(w, focus, p).busy = w.busy /\ WithCaret(w, focus, p).comp = w.comp
        /\ WithCaret(w, focus, p).queue = w.queue
    BY CaretIs, Zenon
  <1> QED
    BY <1>1, <1>2, Zenon

LEMMA CaretsAre ==
    ASSUME TypeInv, NEW p \in Carets
    PROVE  p \in Nat /\ p <= Len(World.docs[focus].text)
  <1>1. DocsOK(World.docs) /\ focus \in Contexts
    BY SetNow, Zenon DEF WorldOK
  <1>2. Len(World.docs[focus].text) \in Nat
    BY <1>1, DocIs
  <1>3. p \in 0..Len(World.docs[focus].text)
    BY WorldFields, Zenon DEF Carets
  <1> QED
    BY <1>2, <1>3

LEMMA NonTextKeyIs ==
    ASSUME TypeInv, OrderInv, NonTextKey
    PROVE  \E w : Step(w, FALSE) /\ Keeps(w)
  <1>1. Set /\ focus \in Contexts /\ WorldOK(World)
    BY SetNow, Zenon
  <1>2. ~parted => Good(World) /\ World.queue = <<>>
    BY IdleGood, WorldFields, Zenon DEF NonTextKey
  <1>3. IsInWord(World.engine) /\ World.comp = comp
    BY WorldFields, Zenon DEF NonTextKey
  <1>4. PICK p \in Carets :
          \E r \in IF comp.open THEN AsksEnd(World) ELSE {Failed(World)} :
             Step(CaretAt(LeavesWord(r.world), p), FALSE)
    BY Zenon DEF NonTextKey
  <1>5. PICK r \in IF comp.open THEN AsksEnd(World) ELSE {Failed(World)} :
             Step(CaretAt(LeavesWord(r.world), p), FALSE)
    BY <1>4, Zenon
  <1>6. \/ r \in AsksEnd(World)
        \/ ~comp.open /\ r = Failed(World)
    BY <1>5, Zenon
  <1>7. p \in Nat /\ p <= Len(World.docs[focus].text)
    BY <1>4, CaretsAre, Zenon
  <1>8. /\ WorldOK(r.world) /\ r.world.docs = World.docs
        /\ ~parted => EndAsked(r.world)
    <2>1. CASE r \in AsksEnd(World)
      BY <1>1, <1>2, <2>1, AsksEndIs, Zenon
    <2>2. CASE ~comp.open /\ r = Failed(World)
      <3>1. r.world = World
        BY <2>2, ResultIs, Zenon
      <3>2. parted
        BY <1>2, <1>3, <2>2, Zenon DEF Good, Shows
      <3> QED
        BY <3>1, <3>2, <1>1, Zenon
    <2> QED
      BY <2>1, <2>2, <1>6, Zenon
  <1> DEFINE v == LeavesWord(r.world)
             u == CaretAt(v, p)
  <1>9. Step(u, FALSE)
    BY <1>5, Zenon
  <1>a. /\ WorldOK(v) /\ v.engine = Cleared /\ v.busy = r.world.busy
        /\ v.comp = r.world.comp /\ v.queue = r.world.queue /\ v.docs = r.world.docs
    BY <1>8, LeavesIs, Zenon
  <1> HIDE DEF v
  <1>b. p <= Len(v.docs[focus].text)
    BY <1>7, <1>8, <1>a, Zenon
  <1>c. /\ WorldOK(u) /\ u.engine = v.engine /\ u.busy = v.busy /\ u.comp = v.comp
        /\ u.queue = v.queue
    BY <1>1, <1>7, <1>a, <1>b, CaretAtIs, Zenon
  <1> HIDE DEF u
  <1>d. ~IsInWord(u.engine)
    BY <1>a, <1>c, ClearedNoWord, Zenon
  <1>e. u.queue = r.world.queue /\ u.busy = r.world.busy /\ u.comp.open = r.world.comp.open
    BY <1>a, <1>c, Zenon
  <1>f. ~parted => Ordered(u, focus)
    BY <1>8, <1>d, <1>e, EndAskedIs, Zenon
  <1> QED
    BY <1>9, <1>c, <1>f, Zenon DEF Keeps, InOrder
\* What waits is a session of a document that is there.
LEMMA FirstWaits ==
    ASSUME NEW q, QueueOK(q), q # <<>>
    PROVE  /\ Head(q) \in Sessions /\ QueueOK(Tail(q))
           /\ Len(q) = 1 => Tail(q) = <<>>
           /\ Head(q) = q[1] /\ 1 \in DOMAIN q
  <1>1. /\ q \in Seq(Sessions) /\ Len(q) \in Nat /\ Len(q) <= MaxQueue /\ q # <<>>
    BY DEF QueueOK
  <1>2. Head(q) \in Sessions /\ Tail(q) \in Seq(Sessions) /\ Len(Tail(q)) = Len(q) - 1
    BY <1>1, HeadTailProperties
  <1>3. Len(q) = 1 => Tail(q) = <<>>
    <2> DEFINE t == Tail(q)
    <2>1. t \in Seq(Sessions) /\ (Len(q) = 1 => Len(t) = 0)
      BY <1>2
    <2> HIDE DEF t
    <2>2. t # <<>> => Len(t) # 0
      BY <2>1, EmptySeq
    <2> QED
      BY <2>1, <2>2 DEF t
  <1>4. Len(Tail(q)) <= MaxQueue
    BY <1>1, <1>2, TsfConstants
  <1>5. Head(q) = q[1] /\ 1 \in DOMAIN q
    BY <1>1
  <1> QED
    BY <1>2, <1>3, <1>4, <1>5, Zenon DEF QueueOK

LEMMA SessionIs ==
    ASSUME NEW s \in Sessions
    PROVE  /\ s.kind \in {"update", "end", "replace", "committed", "reconvert"}
           /\ s.context \in Contexts /\ s.text \in Seq(Character)
  BY DEF Sessions

LEMMA EditSessionIs ==
    ASSUME NEW w, NEW s, NEW r \in DoEditSession(w, s),
           s.kind \in {"update", "end", "replace", "committed", "reconvert"}
    PROVE  \/ s.kind = "update" /\ r \in RunUpdate(NotBusy(w), s)
           \/ s.kind = "end" /\ r \in RunEnd(NotBusy(w), s)
           \/ s.kind = "replace" /\ r \in RunReplace(NotBusy(w), s)
           \/ s.kind = "committed" /\ r \in RunCommitted(NotBusy(w), s)
           \/ s.kind = "reconvert" /\ r \in RunReconvert(NotBusy(w), s)
  <1> DEFINE v == NotBusy(w)
  <1>1. r \in CASE s.kind = "update"    -> RunUpdate(v, s)
                [] s.kind = "end"       -> RunEnd(v, s)
                [] s.kind = "replace"   -> RunReplace(v, s)
                [] s.kind = "committed" -> RunCommitted(v, s)
                [] s.kind = "reconvert" -> RunReconvert(v, s)
    BY Zenon DEF DoEditSession
  <1> HIDE DEF v
  <1>2. \/ s.kind = "update" /\ r \in RunUpdate(v, s)
        \/ s.kind = "end" /\ r \in RunEnd(v, s)
        \/ s.kind = "replace" /\ r \in RunReplace(v, s)
        \/ s.kind = "committed" /\ r \in RunCommitted(v, s)
        \/ s.kind = "reconvert" /\ r \in RunReconvert(v, s)
    BY <1>1
  <1> QED
    BY <1>2 DEF v

\* A world whose composition is closed and that has no word is in order.
LEMMA NothingOpen ==
    ASSUME NEW w, w.queue = <<>>, ~w.comp.open, ~IsInWord(w.engine), NEW c
    PROVE  Ordered(w, c)
  BY Zenon DEF Ordered, Shows, Fits

LEMMA RunSessionIs ==
    ASSUME TypeInv, OrderInv, RunSession
    PROVE  \E w : /\ Step(w, FALSE) /\ Keeps(w)
                  /\ ~parted /\ ~edited /\ <<>> \notin DOMAIN Macros => Kept(w, World)
  <1> DEFINE rest == Tail(World.queue)
             next == Head(World.queue)
             u == [World EXCEPT !.queue = rest]
             v == NotBusy(u)
  <1>1. Set /\ focus \in Contexts /\ WorldOK(World)
    BY SetNow, Zenon
  <1>2. QueueOK(World.queue) /\ World.queue # <<>>
    BY <1>1, WorldFields, Zenon DEF WorldOK, RunSession
  <1>3. /\ next \in Sessions /\ QueueOK(rest)
        /\ Len(World.queue) = 1 => rest = <<>>
    BY <1>2, FirstWaits, Zenon
  <1>4. /\ next.kind \in {"update", "end", "replace", "committed", "reconvert"}
        /\ next.context \in Contexts /\ next.text \in Seq(Character)
    BY <1>3, SessionIs, Zenon
  <1>5. PICK r \in DoEditSession(u, next) : Step(r.world, FALSE)
    BY WorldFields, Zenon DEF RunSession
  <1>6. /\ ~parted => Repairs(World, focus)
        /\ ~parted /\ ~edited => Waits(World, focus)
    BY <1>2, WaitsRepairs, Zenon DEF OrderInv, Ordered
  <1>7. \/ next.kind = "update" /\ r \in RunUpdate(v, next)
        \/ next.kind = "end" /\ r \in RunEnd(v, next)
        \/ next.kind = "replace" /\ r \in RunReplace(v, next)
        \/ next.kind = "committed" /\ r \in RunCommitted(v, next)
        \/ next.kind = "reconvert" /\ r \in RunReconvert(v, next)
    BY <1>4, <1>5, EditSessionIs, Zenon
  <1>8. /\ ~parted =>
             /\ Len(World.queue) = 1
             /\ \/ /\ next.kind = "update" /\ next.context = focus /\ IsInWord(World.engine)
                   /\ Writable(World, focus)
                \/ next.kind \in {"end", "replace"} /\ ~IsInWord(World.engine)
        /\ ~parted /\ ~edited =>
             \/ next.kind = "update" /\ Fits(World, focus)
             \/ next.kind = "end"
             \/ /\ next.kind = "replace"
                /\ <<>> \notin DOMAIN Macros =>
                     next.context = focus /\ next.text = <<>> /\ Fits(World, focus)
    BY <1>6, Zenon DEF Waits, Repairs
  <1> HIDE DEF rest, next
  <1>9. /\ WorldOK(u) /\ u.engine = World.engine /\ u.busy = World.busy
        /\ u.comp = World.comp /\ u.docs = World.docs /\ u.queue = rest
    BY <1>1, <1>3, WithQueue, Zenon
  <1> HIDE DEF u
  <1>a. /\ WorldOK(v) /\ v.engine = World.engine
        /\ v.comp = World.comp /\ v.docs = World.docs /\ v.queue = rest
    BY <1>9, NotBusyIs, Zenon
  <1> HIDE DEF v
  <1>b. /\ ~parted => v.queue = <<>>
        /\ Fits(World, focus) => Fits(v, focus)
        /\ Writable(World, focus) => Writable(v, focus)
        /\ Kept(v, World)
    BY <1>3, <1>8, <1>a, SameFits, SameKept, Zenon DEF Writable
  <1>c. CASE next.kind = "update" /\ r \in RunUpdate(v, next)
    <2>1. /\ WorldOK(r.world) /\ SameRest(r.world, v)
          /\ Fits(v, next.context) => Kept(r.world, v)
          /\ Writable(v, next.context) /\ IsInWord(v.engine) => Shows(r.world, next.context)
      BY <1>1, <1>4, <1>a, <1>c, RunUpdateIs, Zenon
    <2>2. /\ ~parted =>
               next.context = focus /\ Writable(v, focus) /\ IsInWord(v.engine) /\ v.queue = <<>>
          /\ ~parted /\ ~edited => Fits(v, focus)
      <3>1. next.kind # "end" /\ next.kind # "replace" /\ next.kind \notin {"end", "replace"}
        BY <1>c
      <3> QED
        BY <3>1, <1>8, <1>a, <1>b, Zenon
    <2>3. /\ ~parted => Ordered(r.world, focus)
          /\ ~parted /\ ~edited => Kept(r.world, World)
      BY <2>1, <2>2, <1>b, KeptThrough, Zenon DEF Ordered, SameRest
    <2> QED
      BY <1>5, <2>1, <2>3, Zenon DEF Keeps, InOrder
  <1>d. CASE next.kind = "end" /\ r \in RunEnd(v, next)
    <2>1. /\ WorldOK(r.world) /\ SameRest(r.world, v) /\ r.world.engine = v.engine
          /\ r.world.docs = v.docs /\ ~r.world.comp.open
      BY <1>a, <1>d, RunEndIs, Zenon
    <2>2. ~parted => ~IsInWord(v.engine) /\ v.queue = <<>>
      <3>1. next.kind # "update" /\ next.kind # "replace"
        BY <1>d
      <3> QED
        BY <3>1, <1>8, <1>a, <1>b, Zenon
    <2>3. ~parted => Ordered(r.world, focus)
      BY <2>1, <2>2, NothingOpen, Zenon DEF SameRest
    <2>4. Kept(r.world, World)
      BY <2>1, <1>a, SameKept, Zenon
    <2> QED
      BY <1>5, <2>1, <2>3, <2>4, Zenon DEF Keeps, InOrder
  <1>e. CASE next.kind = "replace" /\ r \in RunReplace(v, next)
    <2>1. /\ WorldOK(r.world) /\ SameRest(r.world, v) /\ r.world.engine = v.engine
          /\ ~r.world.comp.open
          /\ next.text = <<>> /\ Fits(v, next.context) => Kept(r.world, v)
      BY <1>4, <1>a, <1>e, RunReplaceIs, Zenon
    <2>2. ~parted =>
            /\ ~IsInWord(v.engine) /\ v.queue = <<>>
            /\ ~edited /\ <<>> \notin DOMAIN Macros =>
                 next.context = focus /\ next.text = <<>> /\ Fits(v, focus)
      <3>1. next.kind # "update" /\ next.kind # "end"
        BY <1>e
      <3> QED
        BY <3>1, <1>8, <1>a, <1>b, Zenon
    <2>3. ~parted => Ordered(r.world, focus)
      BY <2>1, <2>2, NothingOpen, Zenon DEF SameRest
    <2>4. ~parted /\ ~edited /\ <<>> \notin DOMAIN Macros => Kept(r.world, World)
      BY <2>1, <2>2, <1>b, KeptThrough, Zenon
    <2> QED
      BY <1>5, <2>1, <2>3, <2>4, Zenon DEF Keeps, InOrder
  <1>f. CASE next.kind = "committed" /\ r \in RunCommitted(v, next)
    <2>1. WorldOK(r.world)
      BY <1>1, <1>4, <1>a, <1>f, RunCommittedIs, Zenon
    <2>2. next.kind # "update" /\ next.kind \notin {"end", "replace"}
      BY <1>f
    <2>3. parted
      BY <1>8, <2>2, Zenon
    <2> QED
      BY <1>5, <2>1, <2>3, Zenon DEF Keeps
  <1>g. CASE next.kind = "reconvert" /\ r \in RunReconvert(v, next)
    <2>1. WorldOK(r.world)
      BY <1>1, <1>4, <1>a, <1>g, RunReconvertIs, Zenon
    <2>2. next.kind # "update" /\ next.kind \notin {"end", "replace"}
      BY <1>g
    <2>3. parted
      BY <1>8, <2>2, Zenon
    <2> QED
      BY <1>5, <2>1, <2>3, Zenon DEF Keeps
  <1> QED
    BY <1>7, <1>c, <1>d, <1>e, <1>f, <1>g, Zenon

-----------------------------------------------------------------------------
(* Steps of others.                                                          *)

\* What becomes of a world that somebody else edits.
Edits(w) == OthersEdit(w) /\ WorldOK(w) /\ (queue # <<>> => Repairs(w, focus))

LEMMA OthersMove ==
    ASSUME TypeInv, OrderInv, Undisturbed, NEW w, OthersEdit(w), WorldOK(w),
           w.engine = World.engine, w.busy = World.busy, w.queue = World.queue,
           SameRange(w.comp, World.comp)
    PROVE  Edits(w)
  <1>1. queue # <<>> => Repairs(World, focus)
    BY WorldFields, WaitsRepairs, Zenon DEF OrderInv, Undisturbed, Ordered
  <1> QED
    BY <1>1, SameRepairs, Zenon DEF Edits

LEMMA LeftKeyIs ==
    ASSUME TypeInv, OrderInv, NEW ch \in TypedKeys, LeftKey(ch)
    PROVE  \E w : Edits(w)
  <1> DEFINE w == Typed(World, ch)
  <1>1. OthersEdit(w) /\ Undisturbed
    BY Zenon DEF LeftKey
  <1>2. /\ WorldOK(w) /\ w.engine = World.engine /\ SameRest(w, World)
        /\ SameRange(w.comp, World.comp)
    BY SetNow, TypedIs, Zenon
  <1> HIDE DEF w
  <1> QED
    BY <1>1, <1>2, OthersMove, Zenon DEF SameRest

LEMMA LostKeyIs ==
    ASSUME TypeInv, NEW ch \in TypedKeys, LostKey(ch)
    PROVE  \E w : Step(w, TRUE) /\ WorldOK(w)
  <1> DEFINE u == Typed(World, ch)
             v == LeavesWord(u)
  <1>1. WorldOK(u)
    BY SetNow, TypedIs, Zenon
  <1>2. Step(Unrecent(v), TRUE)
    BY Zenon DEF LostKey
  <1> HIDE DEF u
  <1>3. WorldOK(v)
    BY <1>1, LeavesIs, Zenon
  <1> HIDE DEF v
  <1> QED
    BY <1>2, <1>3, UnrecentIs, Zenon

LEMMA LeftBackspaceIs ==
    ASSUME TypeInv, OrderInv, LeftBackspace
    PROVE  \E w : Edits(w)
  <1> DEFINE p == World.docs[focus].caret
             Nothing == <<>>
             w == SetText(World, focus, p - 1, p, Nothing)
  <1>1. p > 0 /\ OthersEdit(w) /\ Undisturbed
    BY WorldFields DEF LeftBackspace
  <1>2. focus \in Contexts /\ WorldOK(World) /\ DocsOK(World.docs)
    BY SetNow, Zenon DEF WorldOK
  <1>3. p \in Nat /\ p <= Len(World.docs[focus].text) /\ Len(World.docs[focus].text) \in Nat
    BY <1>2, DocIs
  <1>4. Nothing \in Seq(Character)
    OBVIOUS
  <1> HIDE DEF Nothing, p
  <1> DEFINE m == p - 1
  <1>5. m \in Nat /\ m <= p
    BY <1>1, <1>3
  <1>6. w = SetText(World, focus, m, p, Nothing)
    BY Zenon DEF m, w
  <1> HIDE DEF m, w
  <1>7. LET y == SetText(World, focus, m, p, Nothing) IN
        /\ WorldOK(y) /\ y.engine = World.engine /\ y.busy = World.busy /\ y.queue = World.queue
        /\ y.comp = Shifted(World.comp, focus, m, p, Nothing)
    BY <1>2, <1>3, <1>4, <1>5, SetTextParts, Zenon
  <1>8. /\ WorldOK(w) /\ w.engine = World.engine /\ w.busy = World.busy /\ w.queue = World.queue
        /\ w.comp = Shifted(World.comp, focus, m, p, Nothing)
    BY <1>6, <1>7, Zenon
  <1>9. SameRange(w.comp, World.comp)
    BY <1>2, <1>8, ShiftedSame, Zenon
  <1> QED
    BY <1>1, <1>8, <1>9, OthersMove, Zenon

LEMMA SwitchFocusIs ==
    ASSUME TypeInv, SwitchFocus
    PROVE  /\ focus' \in Contexts
           /\ \/ Step(World, FALSE) /\ focus' = focus
              \/ \E w : Step(w, TRUE) /\ WorldOK(w)
  <1> DEFINE v == LeavesWord(World)
  <1>1. WorldOK(World)
    BY SetNow, Zenon
  <1>2. WorldOK(v)
    BY <1>1, LeavesIs, Zenon
  <1>3. Step(World, focus' # focus) \/ Step(Unrecent(v), TRUE)
    BY Zenon DEF SwitchFocus
  <1> HIDE DEF v
  <1>4. WorldOK(Unrecent(v))
    BY <1>2, UnrecentIs, Zenon
  <1>5. focus' \in Contexts
    BY Zenon DEF SwitchFocus
  <1>6. ASSUME Step(World, focus' # focus)
        PROVE  \/ Step(World, FALSE) /\ focus' = focus
               \/ Step(World, TRUE)
    <2>1. CASE focus' = focus
      BY <1>6, <2>1, Zenon DEF Step, Remembers
    <2>2. CASE focus' # focus
      BY <1>6, <2>2, Zenon DEF Step, Remembers
    <2> QED
      BY <2>1, <2>2
  <1> QED
    BY <1>1, <1>3, <1>4, <1>5, <1>6, Zenon

LEMMA MoveCaretIs ==
    ASSUME TypeInv, OrderInv, MoveCaret
    PROVE  \E w : Edits(w)
  <1>1. PICK p \in Carets : OthersEdit(CaretAt(World, p))
    BY Zenon DEF MoveCaret
  <1>2. p \in Nat /\ p <= Len(World.docs[focus].text)
    BY <1>1, CaretsAre, Zenon
  <1> DEFINE w == CaretAt(World, p)
  <1>3. /\ WorldOK(w) /\ w.engine = World.engine /\ w.busy = World.busy
        /\ w.comp = World.comp /\ w.queue = World.queue
    BY <1>2, SetNow, CaretAtIs, Zenon
  <1>4. OthersEdit(w) /\ Undisturbed
    BY <1>1, Zenon DEF MoveCaret
  <1> HIDE DEF w
  <1>5. SameRange(w.comp, World.comp)
    BY <1>3, Zenon DEF SameRange
  <1> QED
    BY <1>3, <1>4, <1>5, OthersMove, Zenon

LEMMA TerminateIs ==
    ASSUME TypeInv, TerminateComposition
    PROVE  \E w : Step(w, TRUE) /\ WorldOK(w)
  <1> DEFINE k == [World.comp EXCEPT !.alive = FALSE]
             w == [World EXCEPT !.comp = k]
  <1>1. World.comp.open
    BY WorldFields, Zenon DEF TerminateComposition
  <1>2. Step(w, TRUE)
    BY Zenon DEF TerminateComposition
  <1>3. WorldOK(World)
    BY SetNow, Zenon
  <1>4. /\ World = [engine |-> World.engine, busy |-> World.busy, recent |-> World.recent,
                    comp |-> World.comp, docs |-> World.docs, queue |-> World.queue]
        /\ RangeOK(World.comp, World.docs)
    BY <1>3, Zenon DEF WorldOK, IsWorld
  <1>5. RangeOK(k, World.docs)
    BY <1>1, <1>4, RangeIs DEF RangeOK, Ranges
  <1> HIDE DEF k
  <1>6. w = [engine |-> World.engine, busy |-> World.busy, recent |-> World.recent,
             comp |-> k, docs |-> World.docs, queue |-> World.queue]
    BY <1>4
  <1>7. /\ IsWorld(w)
        /\ w.engine = World.engine /\ w.busy = World.busy /\ w.recent = World.recent
        /\ w.comp = k /\ w.docs = World.docs /\ w.queue = World.queue
    BY <1>6, FieldsIs
  <1> HIDE DEF w
  <1>8. WorldOK(w)
    BY <1>3, <1>5, <1>7, Zenon DEF WorldOK
  <1> QED
    BY <1>2, <1>8, Zenon

LEMMA CommitTimePassesIs ==
    ASSUME TypeInv, OrderInv, CommitTimePasses
    PROVE  \E w : Step(w, FALSE) /\ Keeps(w)
  <1> DEFINE u == Unrecent(World)
  <1>1. /\ WorldOK(u) /\ u.engine = World.engine /\ u.busy = World.busy
        /\ u.comp = World.comp /\ u.docs = World.docs /\ u.queue = World.queue
    BY SetNow, UnrecentIs, Zenon
  <1>2. Step(u, FALSE)
    BY Zenon DEF CommitTimePasses
  <1> HIDE DEF u
  <1>3. Fits(World, focus) => Fits(u, focus)
    BY <1>1, SameFits, Zenon
  <1>4. Waits(World, focus) => Waits(u, focus)
    BY <1>1, <1>3, Zenon DEF Waits
  <1>5. Ordered(World, focus) => Ordered(u, focus)
    BY <1>1, <1>3, <1>4, Zenon DEF Ordered, Shows
  <1>6. SameRange(u.comp, World.comp)
    BY <1>1, Zenon DEF SameRange
  <1>7. Repairs(World, focus) => Repairs(u, focus)
    BY <1>1, <1>6, SameRepairs, Zenon
  <1> QED
    BY <1>1, <1>2, <1>5, <1>7, Zenon DEF Keeps, InOrder, OrderInv
-----------------------------------------------------------------------------
(* The invariant, and the properties.                                        *)

\* What a step does to the invariants, given whether it parts and whether it
\* edits.
LEMMA StepKeeps ==
    ASSUME TypeInv, OrderInv, focus' \in Contexts, NEW parts \in BOOLEAN, NEW edits \in BOOLEAN,
           NEW w, Becomes(w), Remembers(w, parts, edits), WorldOK(w),
           ~parts /\ ~parted =>
             focus' = focus /\ (InOrder(w) \/ ((edited \/ edits) /\ Repairs(w, focus)))
    PROVE  TypeInv' /\ OrderInv'
  <1>1. WorldOK(w) /\ IsWorld(w)
    BY Zenon DEF WorldOK
  <1>2. /\ engine' = w.engine /\ busy' = w.busy /\ recent' = w.recent
        /\ comp' = w.comp /\ docs' = w.docs /\ queue' = w.queue /\ config' = config
    BY Zenon DEF Becomes
  <1>3. World' = w
    BY <1>1, <1>2, Zenon DEF IsWorld, World
  <1>4. WorldOK(World')
    BY <1>1, <1>3, Zenon
  <1>5. WorldOK(World)'
    BY <1>2, <1>4, Zenon DEF WorldOK
  <1>6. /\ parted' = ((parted \/ parts \/ Late(w)) /\ ~Idle(w))
        /\ edited' = ((edited \/ edits) /\ w.queue # <<>>)
    BY Zenon DEF Remembers
  <1>7. {parted', edited'} \subseteq BOOLEAN
    BY <1>6
  <1>8. config \in Configs
    BY Zenon DEF TypeInv
  <1>9. TypeInv'
    BY <1>2, <1>5, <1>7, <1>8, Zenon DEF TypeInv
  <1>a. ~parted' => Ordered(w, focus') \/ (edited' /\ Repairs(w, focus'))
    <2>1. CASE Idle(w)
      BY <2>1, NothingOpen, Zenon DEF Idle
    <2>2. CASE ~Idle(w)
      <3>1. Repairs(w, focus) => w.queue # <<>>
        <4>1. Len(<<>>) # 1
          OBVIOUS
        <4> QED
          BY <4>1, Zenon DEF Repairs
      <3> QED
        BY <2>2, <3>1, <1>6, Zenon DEF InOrder
    <2> QED
      BY <2>1, <2>2
  <1>b. Ordered(w, focus') => Ordered(World, focus)'
    BY <1>2, <1>3, Zenon DEF Ordered, Waits, Shows, Fits, Joined, IsEditableCommittedChar
  <1>c. Repairs(w, focus') => Repairs(World, focus)'
    BY <1>3, Zenon DEF Repairs, Writable
  <1> QED
    BY <1>9, <1>a, <1>b, <1>c, Zenon DEF OrderInv

LEMMA KeepsSteps ==
    ASSUME TypeInv, OrderInv, UNCHANGED focus, \E w : Step(w, FALSE) /\ Keeps(w)
    PROVE  TypeInv' /\ OrderInv'
  <1>1. PICK w : Step(w, FALSE) /\ Keeps(w)
    OBVIOUS
  <1>2. focus' \in Contexts
    BY SetNow, Zenon
  <1>3. Becomes(w) /\ Remembers(w, FALSE, FALSE)
    BY <1>1, Zenon DEF Step
  <1>4. WorldOK(w) /\ (~parted => InOrder(w) \/ (edited /\ Repairs(w, focus)))
    BY <1>1, Zenon DEF Keeps
  <1> QED
    BY <1>2, <1>3, <1>4, StepKeeps, Zenon

LEMMA OutsideSteps ==
    ASSUME TypeInv, OrderInv, focus' \in Contexts, \E w : Step(w, TRUE) /\ WorldOK(w)
    PROVE  TypeInv' /\ OrderInv'
  <1>1. PICK w : Step(w, TRUE) /\ WorldOK(w)
    OBVIOUS
  <1>2. Becomes(w) /\ Remembers(w, TRUE, FALSE)
    BY <1>1, Zenon DEF Step
  <1> QED
    BY <1>1, <1>2, StepKeeps, Zenon

LEMMA EditSteps ==
    ASSUME TypeInv, OrderInv, UNCHANGED focus, \E w : Edits(w)
    PROVE  TypeInv' /\ OrderInv'
  <1>1. PICK w : Edits(w)
    OBVIOUS
  <1>2. focus' \in Contexts
    BY SetNow, Zenon
  <1> DEFINE parts == queue = <<>>
  <1>3. /\ WorldOK(w) /\ Becomes(w) /\ Remembers(w, parts, TRUE)
        /\ ~parts => Repairs(w, focus)
    BY <1>1, Zenon DEF Edits, OthersEdit
  <1>4. parts \in BOOLEAN
    OBVIOUS
  <1> HIDE DEF parts
  <1> QED
    BY <1>2, <1>3, <1>4, StepKeeps, Zenon

LEMMA UnchangedKeeps ==
    ASSUME TypeInv, OrderInv, UNCHANGED vars
    PROVE  TypeInv' /\ OrderInv'
  <1>1. /\ World' = World /\ focus' = focus /\ config' = config
        /\ parted' = parted /\ edited' = edited
    BY Zenon DEF vars, World
  <1>2. WorldOK(World)'
    BY <1>1, Zenon DEF WorldOK, TypeInv
  <1>3. Ordered(World, focus) => Ordered(World, focus)'
    BY <1>1, Zenon DEF Ordered, Waits, Shows, Fits, Joined, IsEditableCommittedChar
  <1>4. Repairs(World, focus) => Repairs(World, focus)'
    BY <1>1, Zenon DEF Repairs, Writable
  <1> QED
    BY <1>1, <1>2, <1>3, <1>4, Zenon DEF TypeInv, OrderInv

LEMMA NextKeeps == ASSUME TypeInv, OrderInv, [Next]_vars PROVE TypeInv' /\ OrderInv'
  <1>0. focus \in Contexts
    BY SetNow, Zenon
  <1>1. ASSUME NEW ch \in TypedKeys, TypedKey(ch) PROVE TypeInv' /\ OrderInv'
    <2>1. UNCHANGED focus
      BY <1>1, Zenon DEF TypedKey
    <2> QED
      BY <1>1, <2>1, TypedKeyIs, KeepsSteps, Zenon
  <1>2. ASSUME NEW ch \in TypedKeys, LeftKey(ch) PROVE TypeInv' /\ OrderInv'
    <2>1. UNCHANGED focus
      BY <1>2, Zenon DEF LeftKey
    <2> QED
      BY <1>2, <2>1, LeftKeyIs, EditSteps, Zenon
  <1>3. ASSUME NEW ch \in TypedKeys, LostKey(ch) PROVE TypeInv' /\ OrderInv'
    <2>1. UNCHANGED focus
      BY <1>3, Zenon DEF LostKey
    <2> QED
      BY <1>0, <1>3, <2>1, LostKeyIs, OutsideSteps, Zenon
  <1>4. CASE Backspace
    <2>1. UNCHANGED focus
      BY <1>4, Zenon DEF Backspace
    <2> QED
      BY <1>4, <2>1, BackspaceIs, KeepsSteps, Zenon
  <1>5. CASE Escape
    <2>1. UNCHANGED focus
      BY <1>5, Zenon DEF Escape
    <2> QED
      BY <1>5, <2>1, EscapeIs, KeepsSteps, Zenon
  <1>6. CASE NonTextKey
    <2>1. UNCHANGED focus
      BY <1>6, Zenon DEF NonTextKey
    <2> QED
      BY <1>6, <2>1, NonTextKeyIs, KeepsSteps, Zenon
  <1>7. CASE RunSession
    <2>1. UNCHANGED focus
      BY <1>7, Zenon DEF RunSession
    <2> QED
      BY <1>7, <2>1, RunSessionIs, KeepsSteps, Zenon
  <1>8. CASE LeftBackspace
    <2>1. UNCHANGED focus
      BY <1>8, Zenon DEF LeftBackspace
    <2> QED
      BY <1>8, <2>1, LeftBackspaceIs, EditSteps, Zenon
  <1>9. CASE SwitchFocus
    <2>1. CASE Step(World, FALSE) /\ focus' = focus
      <3>1. Keeps(World)
        BY SetNow, Zenon DEF Keeps, InOrder, OrderInv
      <3> QED
        BY <2>1, <3>1, KeepsSteps, Zenon
    <2> QED
      BY <1>9, <2>1, SwitchFocusIs, OutsideSteps, Zenon
  <1>a. CASE MoveCaret
    <2>1. UNCHANGED focus
      BY <1>a, Zenon DEF MoveCaret
    <2> QED
      BY <1>a, <2>1, MoveCaretIs, EditSteps, Zenon
  <1>b. CASE TerminateComposition
    <2>1. UNCHANGED focus
      BY <1>b, Zenon DEF TerminateComposition
    <2> QED
      BY <1>0, <1>b, <2>1, TerminateIs, OutsideSteps, Zenon
  <1>c. CASE CommitTimePasses
    <2>1. UNCHANGED focus
      BY <1>c, Zenon DEF CommitTimePasses
    <2> QED
      BY <1>c, <2>1, CommitTimePassesIs, KeepsSteps, Zenon
  <1>d. CASE UNCHANGED vars
    BY <1>d, UnchangedKeeps, Zenon
  <1> QED
    BY <1>1, <1>2, <1>3, <1>4, <1>5, <1>6, <1>7, <1>8, <1>9, <1>a, <1>b, <1>c, <1>d, Zenon DEF Next

LEMMA InitKeeps == ASSUME Init PROVE TypeInv /\ OrderInv
  <1> DEFINE Empty == <<>>
             Start == [text |-> Empty, caret |-> 0]
  <1>1. /\ engine = Cleared /\ busy = FALSE /\ recent = FALSE /\ comp = NoComposition
        /\ docs = [c \in Contexts |-> Start] /\ queue = Empty
        /\ focus \in Contexts /\ config \in Configs /\ parted = FALSE /\ edited = FALSE
    BY Zenon DEF Init
  <1>2. /\ World.engine = engine /\ World.busy = busy /\ World.recent = recent
        /\ World.comp = comp /\ World.docs = docs /\ World.queue = queue
    BY WorldFields, Zenon
  <1>3. IsWorld(World)
    BY <1>2, Zenon DEF IsWorld, World
  <1>4. config.method \in Methods
    BY <1>1, SetIs, Zenon DEF Set
  <1>5. EngineOver(World.engine, config.method)
    BY <1>1, <1>2, <1>4, ClearedOver, Zenon
  <1>6. Empty \in Seq(Character) /\ Empty \in Seq(Sessions) /\ Len(Empty) = 0 /\ 0 \in Nat /\ 0 <= MaxQueue
    BY TsfConstants
  <1>7. Start.text = Empty /\ Start.caret = 0 /\ Start \in [text : Seq(Character), caret : Nat]
    BY <1>6
  <1>8. QueueOK(World.queue)
    BY <1>1, <1>2, <1>6 DEF QueueOK
  <1> HIDE DEF Empty, Start
  <1>9. DocsOK(World.docs)
    BY <1>1, <1>2, <1>6, <1>7 DEF DocsOK, Docs
  <1>a. RangeOK(World.comp, World.docs) /\ ~World.comp.open
    BY <1>1, <1>2 DEF RangeOK, NoComposition
  <1>b. World.busy \in BOOLEAN /\ World.recent \in BOOLEAN /\ {parted, edited} \subseteq BOOLEAN
    BY <1>1, <1>2
  <1>c. TypeInv
    BY <1>1, <1>3, <1>5, <1>8, <1>9, <1>a, <1>b, Zenon DEF TypeInv, WorldOK
  <1>d. World.queue = <<>> /\ ~IsInWord(World.engine)
    BY <1>1, <1>2, ClearedNoWord DEF Empty
  <1>e. Ordered(World, focus)
    BY <1>a, <1>d, NothingOpen, Zenon
  <1> QED
    BY <1>c, <1>e, Zenon DEF OrderInv

LEMMA TypeInvTypeOK == ASSUME TypeInv PROVE TypeOK
  <1>1. /\ Set /\ EngineOver(engine, config.method)
        /\ busy \in BOOLEAN /\ recent \in BOOLEAN /\ {parted, edited} \subseteq BOOLEAN
        /\ DocsOK(docs) /\ RangeOK(comp, docs) /\ QueueOK(queue)
        /\ focus \in Contexts /\ config \in Configs
    BY WorldFields, Zenon DEF TypeInv, WorldOK, Set
  <1>2. engine \in [raw : Seq(UNION {Alphabetic, Digits, ViqrMarks}),
                    comp : Seq(Character), did : BOOLEAN]
    <2>1. /\ engine.comp \in Seq(Character) /\ engine.raw \in Seq(UNION {Alphabetic, Digits, ViqrMarks})
          /\ engine.did \in BOOLEAN
          /\ engine = [raw |-> engine.raw, comp |-> engine.comp, did |-> engine.did]
      BY <1>1, WordIs, Zenon
    <2> QED
      BY <2>1
  <1>3. \A c \in Contexts :
          docs[c].text \in Seq(Character) /\ docs[c].caret \in 0..Len(docs[c].text)
    <2> TAKE c \in Contexts
    <2>1. /\ docs[c].text \in Seq(Character) /\ Len(docs[c].text) \in Nat
          /\ docs[c].caret \in Nat /\ docs[c].caret <= Len(docs[c].text)
      BY <1>1, DocIs, Zenon
    <2> QED
      BY <2>1
  <1>4. comp = NoComposition \/
          /\ comp.open /\ comp.context \in Contexts /\ comp.alive \in BOOLEAN
          /\ 0 <= comp.from /\ comp.from <= comp.to
          /\ comp.to <= Len(docs[comp.context].text)
    BY <1>1, RangeIs
  <1>5. /\ Len(queue) <= MaxQueue
        /\ \A i \in DOMAIN queue :
             /\ queue[i].kind \in {"update", "end", "replace", "committed", "reconvert"}
             /\ queue[i].context \in Contexts
    <2>1. queue \in Seq(Sessions) /\ Len(queue) <= MaxQueue
      BY <1>1, Zenon DEF QueueOK
    <2>2. \A i \in DOMAIN queue : queue[i] \in Sessions
      BY <2>1
    <2> QED
      BY <2>1, <2>2, SessionIs, Zenon
  <1>6. {busy, recent, parted, edited} \subseteq BOOLEAN
    BY <1>1
  <1> QED
    BY <1>1, <1>2, <1>3, <1>4, <1>5, <1>6, Zenon DEF TypeOK

(* The caret stays inside the text and the composition inside its document,  *)
(* whatever the sessions cut out and put in, and however late they run.      *)
THEOREM ServiceTyped == Spec => []TypeOK
  <1>1. Init => TypeInv /\ OrderInv
    BY InitKeeps
  <1>2. TypeInv /\ OrderInv /\ [Next]_vars => (TypeInv /\ OrderInv)'
    BY NextKeeps
  <1>3. TypeInv => TypeOK
    BY TypeInvTypeOK
  <1> QED
    BY <1>1, <1>2, <1>3, PTL DEF Spec

(* Where the application grants every session, at once or later, the         *)
(* composition shows the engine's word and has the caret behind it whenever  *)
(* nothing waits and nothing has parted them (the ways are listed at         *)
(* WordInComposition): keys change the engine first and the document through *)
(* one session, which puts right what was typed or clicked while it waited.  *)
(* A session that is refused leaves busy set and the two apart.              *)
THEOREM WordShown == ASSUME "never" \notin Grants PROVE Spec => []WordInComposition
  <1>1. Init => TypeInv /\ OrderInv
    BY InitKeeps
  <1>2. TypeInv /\ OrderInv /\ [Next]_vars => (TypeInv /\ OrderInv)'
    BY NextKeeps
  <1>3. OrderInv => WordInComposition
    <2> SUFFICES ASSUME OrderInv, ~parted, queue = <<>>
                 PROVE  /\ IsInWord(engine) => comp.open
                        /\ comp.open =>
                             /\ comp.alive
                             /\ comp.context = focus
                             /\ CompositionText = engine.comp
                             /\ docs[focus].caret = comp.to
      BY Zenon DEF WordInComposition
    <2>1. Len(<<>>) = 0
      OBVIOUS
    <2>2. Len(queue) # 1
      BY <2>1
    <2>3. Shows(World, focus)
      BY <2>2, WorldFields, Zenon DEF OrderInv, Ordered, Waits, Repairs
    <2> QED
      BY <2>3, WorldFields, Zenon DEF Shows, Fits, CompositionText
  <1> QED
    BY <1>1, <1>2, <1>3, PTL DEF Spec

(* A session, and a key that only asks for sessions, edits one word, unless  *)
(* word, composition and caret are parted, or the document was edited while  *)
(* the session waited; and so long as the macro file has no line with an     *)
(* empty text: such a macro stands for the word of every key, because the    *)
(* engine is cleared before it is looked up, and its text may hold           *)
(* delimiters.                                                               *)
THEOREM OneWordEdited == ASSUME <<>> \notin DOMAIN Macros PROVE Spec => DelimitersStay
  <1> DEFINE Stay == \/ parted \/ edited
                     \/ \A c \in Contexts : Delimiters(docs'[c]) = Delimiters(docs[c])
                     \/ ~(RunSession \/ Backspace \/ \E ch \in TypedKeys \cap Letters : TypedKey(ch))
  <1>1. Init => TypeInv /\ OrderInv
    BY InitKeeps
  <1>2. TypeInv /\ OrderInv /\ [Next]_vars => (TypeInv /\ OrderInv)'
    BY NextKeeps
  <1>3. ASSUME TypeInv, OrderInv PROVE Stay
    <2> SUFFICES ASSUME ~parted, ~edited,
                        RunSession \/ Backspace \/ \E ch \in TypedKeys \cap Letters : TypedKey(ch)
                 PROVE  \A c \in Contexts : Delimiters(docs'[c]) = Delimiters(docs[c])
      BY Zenon
    <2>1. PICK w : Step(w, FALSE) /\ Kept(w, World)
      <3>1. CASE RunSession
        BY <3>1, <1>3, RunSessionIs, Zenon
      <3>2. CASE Backspace
        BY <3>2, <1>3, BackspaceIs, Zenon
      <3>3. CASE \E ch \in TypedKeys \cap Letters : TypedKey(ch)
        <4>1. PICK ch \in TypedKeys \cap Letters : TypedKey(ch)
          BY <3>3
        <4>2. ch \in TypedKeys /\ ch \in Letters
          OBVIOUS
        <4> QED
          BY <4>1, <4>2, <1>3, TypedKeyIs, Zenon
      <3> QED
        BY <3>1, <3>2, <3>3
    <2>2. docs' = w.docs
      BY <2>1, Zenon DEF Step, Becomes
    <2> QED
      BY <2>1, <2>2, WorldFields, Zenon DEF Kept
  <1>4. TypeInv /\ OrderInv /\ [Next]_vars => [Stay]_vars
    BY <1>3
  <1> QED
    BY <1>1, <1>2, <1>4, PTL DEF Spec, DelimitersStay

-----------------------------------------------------------------------------
(* A syllable typed into the engine (VnTyping).                              *)

(* The inductive invariant.  Without spell check the engine is always what   *)
(* the rules make of its keys, which the second theorem needs; a wrong key   *)
(* comes after the tone key, so taking it back leaves the tone key there.    *)
TypistInv ==
    /\ EngineOK(vnEngine)
    /\ ~cfg.spellCheck => vnEngine = Recomputed(vnEngine.raw, cfg)
    /\ toneAt \in Nat /\ toneAt <= Len(vnEngine.raw)
    /\ wrong \in BOOLEAN
    /\ wrong => toneAt < Len(vnEngine.raw)

LEMMA TypistInvType == ASSUME TypistInv PROVE TypistTypeOK
  <1>1. /\ IsSeq(vnEngine.comp) /\ DOMAIN vnEngine.comp = 1..Len(vnEngine.comp)
        /\ Chars(vnEngine.comp) /\ Len(vnEngine.comp) <= Len(vnEngine.raw)
        /\ vnEngine.did \in BOOLEAN /\ (vnEngine.did <=> vnEngine.comp # Literal(vnEngine.raw))
        /\ Len(vnEngine.raw) \in Nat
    BY SeqIs DEF TypistInv, EngineOK
  <1>2. \A i \in DOMAIN vnEngine.comp : vnEngine.comp[i].tone \in 0..5
    BY <1>1 DEF Chars, IsChar
  <1>3. vnEngine.did = (vnEngine.comp # Literal(vnEngine.raw))
    BY <1>1, Zenon
  <1>4. toneAt \in 0..Len(vnEngine.raw) /\ wrong \in BOOLEAN
    BY <1>1 DEF TypistInv
  <1> QED
    BY <1>1, <1>2, <1>3, <1>4, Zenon DEF TypistTypeOK

LEMMA TypistInitInv == ASSUME TypistInit PROVE TypistInv
  <1>1. vnEngine = Cleared /\ toneAt = 0 /\ wrong = FALSE
    BY DEF TypistInit
  <1>2. EngineOK(Cleared) /\ Cleared.raw = <<>> /\ Cleared = Recomputed(<<>>, cfg) /\ Len(<<>>) = 0
    BY ClearedOK, NoElements
  <1>3. /\ EngineOK(vnEngine) /\ vnEngine.raw = <<>>
        /\ ~cfg.spellCheck => vnEngine = Recomputed(vnEngine.raw, cfg)
    BY <1>1, <1>2, Zenon
  <1>4. toneAt \in Nat /\ toneAt <= Len(vnEngine.raw)
    <2>1. toneAt = 0
      BY DEF TypistInit
    <2>2. Len(vnEngine.raw) = 0
      BY <1>3, NoElements, Zenon
    <2> QED
      BY <2>1, <2>2
  <1>5. wrong \in BOOLEAN /\ ~wrong
    BY DEF TypistInit
  <1> QED
    BY <1>3, <1>4, <1>5, Zenon DEF TypistInv

\* What a key does to the engine.
LEMMA PressIs ==
    ASSUME TypistInv, NEW ch, Press(ch)
    PROVE  /\ EngineOK(vnEngine') /\ vnEngine'.raw = Append(vnEngine.raw, ch)
           /\ Len(vnEngine'.raw) = Len(vnEngine.raw) + 1 /\ Len(vnEngine.raw) \in Nat
           /\ ~cfg.spellCheck => vnEngine' = Recomputed(vnEngine'.raw, cfg)
           /\ cfg' = cfg /\ wrong = FALSE
  <1>1. /\ Takes(vnEngine, ch, cfg) /\ vnEngine' = ProcessKey(vnEngine, ch, cfg)
        /\ cfg' = cfg /\ wrong = FALSE
    BY DEF Press, TypistInv
  <1>2. EngineOK(vnEngine) /\ IsSeq(vnEngine.raw) /\ Len(vnEngine.raw) \in Nat
    BY SeqIs DEF TypistInv, EngineOK
  <1>3. /\ EngineOK(vnEngine') /\ vnEngine'.raw = Append(vnEngine.raw, ch)
        /\ ~cfg.spellCheck => vnEngine' = Recomputed(Append(vnEngine.raw, ch), cfg)
    BY <1>1, <1>2, ProcessedOK
  <1>4. Len(Append(vnEngine.raw, ch)) = Len(vnEngine.raw) + 1
    BY <1>2, AppendIs
  <1> QED
    BY <1>1, <1>2, <1>3, <1>4

LEMMA TakeBackIs ==
    ASSUME TypistInv, TakeBack
    PROVE  /\ EngineOK(vnEngine') /\ Len(vnEngine'.raw) = Len(vnEngine.raw) - 1
           /\ Len(vnEngine.raw) \in Nat /\ Len(vnEngine.raw) > 0
           /\ vnEngine' = Recomputed(vnEngine'.raw, cfg)
           /\ cfg' = cfg
  <1>1. EngineOK(vnEngine) /\ IsInWord(vnEngine) /\ vnEngine' = RemoveLastChar(vnEngine, cfg) /\ cfg' = cfg
    BY DEF TakeBack, TypistInv
  <1>2. Len(vnEngine.raw) \in Nat
    BY <1>1, SeqIs DEF EngineOK
  <1>3. /\ EngineOK(vnEngine') /\ Len(vnEngine.raw) > 0
        /\ vnEngine' = Recomputed(SubSeq(vnEngine.raw, 1, Len(vnEngine.raw) - 1), cfg)
        /\ Len(vnEngine'.raw) = Len(vnEngine.raw) - 1
        /\ vnEngine'.raw = SubSeq(vnEngine.raw, 1, Len(vnEngine.raw) - 1)
    BY <1>1, RemovedOK
  <1> QED
    BY <1>1, <1>2, <1>3

\* The invariant in its parts, for the state after a step.
LEMMA TypistNextInv ==
    ASSUME EngineOK(vnEngine'), cfg' = cfg,
           ~cfg.spellCheck => vnEngine' = Recomputed(vnEngine'.raw, cfg),
           toneAt' \in Nat, toneAt' <= Len(vnEngine'.raw),
           wrong' \in BOOLEAN, wrong' => toneAt' < Len(vnEngine'.raw)
    PROVE  TypistInv'
  BY Zenon DEF TypistInv

LEMMA TypistStepInv == ASSUME TypistInv, [TypistNext]_typistVars PROVE TypistInv'
  <1>0. /\ toneAt \in Nat /\ toneAt <= Len(vnEngine.raw) /\ wrong \in BOOLEAN
        /\ wrong => toneAt < Len(vnEngine.raw)
    BY DEF TypistInv
  <1>1. CASE LetterKey
    <2>1. Press(Head(keys)) /\ UNCHANGED <<toneAt, wrong>>
      BY <1>1 DEF LetterKey
    <2>2. /\ EngineOK(vnEngine') /\ cfg' = cfg
          /\ ~cfg.spellCheck => vnEngine' = Recomputed(vnEngine'.raw, cfg)
          /\ Len(vnEngine'.raw) = Len(vnEngine.raw) + 1 /\ Len(vnEngine.raw) \in Nat
      BY <2>1, PressIs
    <2>3. /\ toneAt' \in Nat /\ toneAt' < Len(vnEngine'.raw) /\ toneAt' <= Len(vnEngine'.raw)
          /\ wrong' \in BOOLEAN
      BY <1>0, <2>1, <2>2
    <2> QED
      BY <2>2, <2>3, TypistNextInv
  <1>2. CASE ToneKeyPress
    <2>1. Press(TonesKeys[cfg.method][goal.tone]) /\ toneAt' = Len(vnEngine.raw) + 1 /\ wrong' = wrong
      BY <1>2 DEF ToneKeyPress
    <2>2. /\ EngineOK(vnEngine') /\ cfg' = cfg /\ wrong = FALSE
          /\ ~cfg.spellCheck => vnEngine' = Recomputed(vnEngine'.raw, cfg)
          /\ Len(vnEngine'.raw) = Len(vnEngine.raw) + 1 /\ Len(vnEngine.raw) \in Nat
      BY <2>1, PressIs
    <2>3. /\ toneAt' \in Nat /\ toneAt' <= Len(vnEngine'.raw)
          /\ wrong' \in BOOLEAN /\ ~wrong'
      BY <1>0, <2>1, <2>2
    <2> QED
      BY <2>2, <2>3, TypistNextInv
  <1>3. ASSUME NEW ch \in WrongKeys, WrongKey(ch)
        PROVE  TypistInv'
    <2>1. Press(ch) /\ wrong' = TRUE /\ toneAt' = toneAt
      BY <1>3 DEF WrongKey
    <2>2. /\ EngineOK(vnEngine') /\ cfg' = cfg
          /\ ~cfg.spellCheck => vnEngine' = Recomputed(vnEngine'.raw, cfg)
          /\ Len(vnEngine'.raw) = Len(vnEngine.raw) + 1 /\ Len(vnEngine.raw) \in Nat
      BY <2>1, PressIs
    <2>3. /\ toneAt' \in Nat /\ toneAt' < Len(vnEngine'.raw) /\ toneAt' <= Len(vnEngine'.raw)
          /\ wrong' \in BOOLEAN
      BY <1>0, <2>1, <2>2
    <2> QED
      BY <2>2, <2>3, TypistNextInv
  <1>4. CASE TakeBack
    <2>1. wrong' = FALSE
      BY <1>4 DEF TakeBack
    <2>2. toneAt' = 0 \/ (toneAt' = toneAt /\ (wrong \/ toneAt # Len(vnEngine.raw)))
      BY <1>4 DEF TakeBack
    <2>3. /\ EngineOK(vnEngine') /\ Len(vnEngine'.raw) = Len(vnEngine.raw) - 1
          /\ Len(vnEngine.raw) \in Nat /\ Len(vnEngine.raw) > 0
          /\ vnEngine' = Recomputed(vnEngine'.raw, cfg) /\ cfg' = cfg
      BY <1>4, TakeBackIs
    <2>4. toneAt' \in Nat /\ toneAt' <= Len(vnEngine'.raw)
      BY <1>0, <2>2, <2>3
    <2>5. wrong' \in BOOLEAN /\ ~wrong'
      BY <2>1
    <2> QED
      BY <2>3, <2>4, <2>5, TypistNextInv
  <1>5. CASE UNCHANGED typistVars
    BY <1>5 DEF typistVars, TypistInv
  <1> QED
    BY <1>1, <1>2, <1>3, <1>4, <1>5 DEF TypistNext

(* The composition is a row of characters, no longer than the keys, and      *)
(* DidTransform is TRUE exactly when it differs from them.                   *)
THEOREM CompositionTyped == TypistSpec => []TypistTypeOK
  <1>1. TypistInit => TypistInv
    BY TypistInitInv
  <1>2. TypistInv /\ [TypistNext]_typistVars => TypistInv'
    BY TypistStepInv
  <1>3. TypistInv => TypistTypeOK
    BY TypistInvType
  <1> QED
    BY <1>1, <1>2, <1>3, PTL DEF TypistSpec

(* Without spell check a word the engine has transformed stays transformed   *)
(* while keys are added.                                                     *)
THEOREM TransformedForGood == TypistSpec => TransformedStays
  <1> DEFINE Stays == vnEngine.did /\ Len(vnEngine'.raw) > Len(vnEngine.raw) /\ ~cfg.spellCheck => vnEngine'.did
  <1>1. TypistInit => TypistInv
    BY TypistInitInv
  <1>2. TypistInv /\ [TypistNext]_typistVars => TypistInv'
    BY TypistStepInv
  <1>3. ASSUME TypistInv, [TypistNext]_typistVars
        PROVE  [Stays]_typistVars
    <2> SUFFICES ASSUME vnEngine.did, Len(vnEngine'.raw) > Len(vnEngine.raw), ~cfg.spellCheck, TypistNext
                 PROVE  vnEngine'.did
      BY <1>3
    <2>1. Len(vnEngine.raw) \in Nat /\ IsSeq(vnEngine.raw) /\ vnEngine = Recomputed(vnEngine.raw, cfg)
      BY <1>3, SeqIs DEF TypistInv, EngineOK
    <2>2. ~TakeBack
      BY <1>3, <2>1, TakeBackIs
    <2>3. PICK ch : Press(ch)
      BY <2>2 DEF TypistNext, LetterKey, ToneKeyPress, WrongKey
    <2>4. /\ vnEngine'.raw = Append(vnEngine.raw, ch)
          /\ vnEngine' = Recomputed(vnEngine'.raw, cfg)
      BY <1>3, <2>3, PressIs
    <2>5. IsSeq(Append(vnEngine.raw, ch))
      BY <2>1, AppendIs
    <2>6. vnEngine.did <=> ApplyRules(vnEngine.raw, cfg) # Literal(vnEngine.raw)
      BY <2>1, RecomputedOK
    <2>7. vnEngine'.did <=> ApplyRules(Append(vnEngine.raw, ch), cfg) # Literal(Append(vnEngine.raw, ch))
      BY <2>4, <2>5, RecomputedOK
    <2> QED
      BY <2>1, <2>6, <2>7, LiteralBefore
  <1> QED
    BY <1>1, <1>2, <1>3, PTL DEF TypistSpec, TransformedStays
=============================================================================
