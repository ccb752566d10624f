----------------------------- MODULE TsfService -----------------------------
(***************************************************************************)
(* Typing through the text service (tsf/text_service.cpp, composition.cpp, *)
(* engine/reconversion_word.cpp): one service in one application, its      *)
(* engine, its composition and the documents it edits.                     *)
(*                                                                         *)
(* The service may touch a document only in an edit session, which the     *)
(* application grants at once, later, or not at all.  A session that runs  *)
(* later finds the engine and the document as they are then.  The flag     *)
(* busy, set with the request and reset by the session, makes the service  *)
(* ignore the keys in between.                                             *)
(*                                                                         *)
(* Who owns a key is decided by the routing coordinator (InputRouting);    *)
(* here it may be anybody at any key.  OnTestKeyDown and OnKeyDown of one  *)
(* key are one step: they are called from one message of the application.  *)
(* A selection is always a caret, the settings stay as they are, and the   *)
(* calls inside a session fail only where the composition has been ended   *)
(* or belongs to another document.                                         *)
(***************************************************************************)
EXTENDS VnEngine, SequencesExt

CONSTANTS
    Contexts,   \* documents of the application
    TypedKeys,  \* keys that ToUnicodeEx translates, named by their character
    Configs,    \* settings, as in HookTyping
    Macros,     \* the macro file: texts to the texts they stand for
    Grants,     \* what becomes of a request for an edit session
    MaxText,    \* bound: characters of each document
    MaxWord,    \* bound: keys in one word
    MaxQueue    \* bound: sessions that wait

Config == [method : Methods, toneType : ToneTypes, freeTone : BOOLEAN,
           spellCheck : BOOLEAN, macros : BOOLEAN, restore : BOOLEAN]

\* Characters of a document: the letters of a word, what a key types, and
\* those letters with a tone.
Character == CharactersOver(UNION {Unaccented, Digits, ViqrMarks, HardBoundary, TypedKeys})

ASSUME TsfConstants ==
    /\ Contexts # {}
    /\ Configs # {}
    /\ Configs \subseteq Config
    /\ Grants \subseteq {"now", "later", "never"}
    /\ MaxText \in [Contexts -> Nat]
    /\ {MaxWord, MaxQueue} \subseteq Nat \ {0}
    /\ \A word \in DOMAIN Macros : Macros[word] \in Seq(Character)

VARIABLES
    engine,  \* _engine
    busy,    \* _editSessionInProgress
    recent,  \* _lastCommittedTick is set and not older than two seconds
    comp,    \* _composition: a range of a document
    docs,    \* text and caret of every document
    queue,   \* edit sessions that wait for their document
    focus,   \* the document that gets the keys
    config,  \* _config
    parted,  \* history: composition, word and caret have been parted: by
             \* somebody else while no session waits, by the service that forgot
             \* the word and not the composition, or by a session that looks for
             \* a word late
    edited   \* history: somebody else has edited a document or moved a caret
             \* since the session that waits was asked for

vars == <<engine, busy, recent, comp, docs, queue, focus, config, parted, edited>>

\* What handlers and sessions read and write.
World == [engine |-> engine, busy |-> busy, recent |-> recent, comp |-> comp,
          docs |-> docs, queue |-> queue]

Becomes(w) ==
    /\ engine' = w.engine
    /\ busy' = w.busy
    /\ recent' = w.recent
    /\ comp' = w.comp
    /\ docs' = w.docs
    /\ queue' = w.queue
    /\ UNCHANGED config

\* No word, no composition, and no session that could make one.
Idle(w) == ~IsInWord(w.engine) /\ ~w.comp.open /\ w.queue = <<>>

\* A session that looks for a word waits, and will find another engine.
Late(w) == \E i \in DOMAIN w.queue : w.queue[i].kind \in {"committed", "reconvert"}

\* The histories after a step, given whether it parts and whether it edits.
Remembers(w, parts, edits) ==
    /\ parted' = ((parted \/ parts \/ Late(w)) /\ ~Idle(w))
    /\ edited' = ((edited \/ edits) /\ w.queue # <<>>)

\* A step of the service or, with outside TRUE, of somebody it is not told of.
Step(w, outside) == Becomes(w) /\ Remembers(w, outside, FALSE)

\* Somebody else edits a document or moves a caret: a session that waits will
\* see to it.
OthersEdit(w) == Becomes(w) /\ Remembers(w, queue = <<>>, TRUE)

-----------------------------------------------------------------------------
(* Documents and the composition.                                            *)

\* Positions lie between characters.  The composition keeps its range when
\* the application ends it: the service, without a sink, is not told.
NoComposition == [open |-> FALSE]

\* Mutant: positions do not move with the text.
Unmoved(p, from, to, size) == p

\* Where position p is after the text between from and to became size long.
Moved(p, from, to, size) ==
    IF p <= from THEN p ELSE IF p >= to THEN p + size - (to - from) ELSE from + size

Spliced(text, from, to, new) ==
    SubSeq(text, 1, from) \o new \o SubSeq(text, to + 1, Len(text))

Edited(doc, from, to, new) ==
    [text  |-> Spliced(doc.text, from, to, new),
     caret |-> Moved(doc.caret, from, to, Len(new))]

\* The range k of a composition, after an edit of document c.
Shifted(k, c, from, to, new) ==
    IF k.open /\ k.context = c
    THEN [k EXCEPT !.from = Moved(@, from, to, Len(new)), !.to = Moved(@, from, to, Len(new))]
    ELSE k

\* ITfRange::SetText, and every edit of the application.
SetText(w, c, from, to, new) ==
    [w EXCEPT !.docs[c] = Edited(@, from, to, new),
              !.comp = Shifted(@, c, from, to, new)]

StartComposition(w, c) ==
    [w EXCEPT !.comp = [open |-> TRUE, context |-> c, alive |-> TRUE,
                        from |-> w.docs[c].caret, to |-> w.docs[c].caret]]

\* Mutant: the caret is put behind a new composition only.
UpdateRange(w, c, new) ==
    LET v == IF w.comp.open THEN w ELSE StartComposition(w, c)
    IN IF ~v.comp.alive \/ v.comp.context # c THEN v
       ELSE [SetText(v, c, v.comp.from, v.comp.to, new) EXCEPT
                !.docs[c].caret = IF w.comp.open THEN @ ELSE v.comp.from + Len(new),
                !.comp = [v.comp EXCEPT !.to = v.comp.from + Len(new)]]

\* A range that the application has ended, or of another document than the
\* session is for, cannot be written.
UpdateComposition(w, c, new) ==
    LET v == IF w.comp.open THEN w ELSE StartComposition(w, c)
    IN IF ~v.comp.alive \/ v.comp.context # c THEN v
       ELSE [SetText(v, c, v.comp.from, v.comp.to, new) EXCEPT
                !.docs[c].caret = v.comp.from + Len(new),
                !.comp = [v.comp EXCEPT !.to = v.comp.from + Len(new)]]

EndComposition(w) == [w EXCEPT !.comp = NoComposition]

-----------------------------------------------------------------------------
(* The word around the caret (reconversion_word.cpp).  The 64 characters on  *)
(* either side that the code reads are the whole document here.              *)

IsEditableCommittedChar(c) ==
    IsWordChar(Name(c), config.method, <<>>) \/ IsPotentialModifier(Name(c), config.method)

\* How many positions of a set lie before (after) position p without a gap.
Before(at, p)      == Max({n \in 0..p : p - n + 1..p \subseteq at})
After(at, p, size) == Max({n \in 0..size - p : p + 1..p + n \subseteq at})

Span(text, left, right, delimiters, caret) ==
    [word |-> SubSeq(text, caret - delimiters - left + 1, caret - delimiters + right),
     left |-> left, right |-> right, delimiters |-> delimiters]

NoWord == [word |-> <<>>, left |-> 0, right |-> 0, delimiters |-> 0]

\* With trailing, the word may be separated from the caret by delimiters, the
\* last of which is a space.
ExtractWordSpanAroundCaret(text, caret, trailing) ==
    LET editable   == {i \in DOMAIN text : IsEditableCommittedChar(text[i])}
        left       == Before(editable, caret)
        right      == After(editable, caret, Len(text))
        delimiters == Before(DOMAIN text \ editable, caret)
        farLeft    == Before(editable, caret - delimiters)
    IN IF left + right > 0 THEN Span(text, left, right, 0, caret)
       ELSE IF trailing /\ delimiters > 0 /\ Name(text[caret]) \in ReplayEligible
       THEN Span(text, farLeft, 0, delimiters, caret)
       ELSE NoWord

ReplacementStart(caret, span) == caret - span.left - span.delimiters

\* Mutant: the delimiters are replaced with the word.
EndAtCaret(caret, span) == caret + span.right

ReplacementEnd(caret, span) == caret + span.right - span.delimiters

\* ReplayContextKey: the word and then the key, as if they had been typed.  The
\* engine is cleared when the key does not belong to the word.
Replay(text, ch) == FeedContext(Append([i \in DOMAIN text |-> Name(text[i])], ch), config)

-----------------------------------------------------------------------------
(* Edit sessions.  Each says whether it did what OnKeyDown asked for.        *)

Session(kind, ch, text) == [kind |-> kind, context |-> focus, ch |-> ch, text |-> text]

UpdateSession    == Session("update", "none", <<>>)
EndSession       == Session("end", "none", <<>>)
\* The composition becomes text, and ends.
ReplaceSession(text) == Session("replace", "none", text)
CommittedSession(ch) == Session("committed", ch, <<>>)
ReconvertSession(ch) == Session("reconvert", ch, <<>>)

Done(w)   == [world |-> w, did |-> TRUE]
Failed(w) == [world |-> w, did |-> FALSE]

\* The engine holds the word as it was typed, and the key.
Replayed(w, text, ch) == {[w EXCEPT !.engine = e] : e \in {Replay(text, ch)}}

\* A modifier key edits the word around the caret or before the delimiters.
RunCommitted(w, s) ==
    LET doc  == w.docs[s.context]
        span == ExtractWordSpanAroundCaret(doc.text, doc.caret, TRUE)
        Edit(v) == SetText(v, s.context, ReplacementStart(doc.caret, span),
                           ReplacementEnd(doc.caret, span), v.engine.comp)
    IN IF span.word = <<>> THEN {Failed(w)}
       ELSE {IF v.engine = Cleared THEN Failed(v) ELSE Done([Edit(v) EXCEPT !.engine = Cleared]) :
                v \in Replayed(w, span.word, s.ch)}

\* The word around the caret, or the part before it, becomes the composition.
RunReconvert(w, s) ==
    LET doc  == w.docs[s.context]
        span == ExtractWordSpanAroundCaret(doc.text, doc.caret, FALSE)
        from == doc.caret - span.left
        to   == IF IsPotentialModifier(s.ch, config.method)
                THEN doc.caret + span.right ELSE doc.caret
        Gap(v) == {[SetText(v, s.context, from, to, <<>>)
                      EXCEPT !.docs[s.context].caret = from]}
    IN IF span.word = <<>> THEN {Failed(w)}
       ELSE UNION {IF v.engine = Cleared THEN {Failed(v)}
                   ELSE {Done(UpdateComposition(g, s.context, v.engine.comp)) : g \in Gap(v)} :
                     v \in Replayed(w, SubSeq(doc.text, from + 1, to), s.ch)}

RunUpdate(w, s)  == {Done(UpdateComposition(w, s.context, w.engine.comp))}
RunEnd(w, s)     == {Done(EndComposition(w))}
RunReplace(w, s) == {Done(EndComposition(UpdateComposition(w, s.context, s.text)))}

\* Mutant: the session does not put the flag back.
StillBusy(w) == w

NotBusy(w) == [w EXCEPT !.busy = FALSE]

\* DoEditSession calls the lambda it was made with.
DoEditSession(w, s) ==
    LET v == NotBusy(w) IN
    CASE s.kind = "update"    -> RunUpdate(v, s)
      [] s.kind = "end"       -> RunEnd(v, s)
      [] s.kind = "replace"   -> RunReplace(v, s)
      [] s.kind = "committed" -> RunCommitted(v, s)
      [] s.kind = "reconvert" -> RunReconvert(v, s)

\* RequestEditSessionWithFallback: what may come of session s in world w, which
\* makes now of it when the application grants it at once.
Requests(w, s, now) ==
    LET Outcome(grant) ==
          CASE grant = "now"   -> now
            [] grant = "later" -> IF Len(w.queue) < MaxQueue
                                  THEN {Failed([w EXCEPT !.busy = TRUE, !.queue = Append(@, s)])}
                                  ELSE {}
            [] grant = "never" -> {Failed([w EXCEPT !.busy = TRUE])}
    IN UNION {Outcome(g) : g \in Grants}

AsksUpdate(w) == Requests(w, UpdateSession, RunUpdate(NotBusy(w), UpdateSession))
AsksEnd(w)    == Requests(w, EndSession, RunEnd(NotBusy(w), EndSession))
AsksReplace(w, text) ==
    Requests(w, ReplaceSession(text), RunReplace(NotBusy(w), ReplaceSession(text)))
AsksCommitted(w, ch) ==
    Requests(w, CommittedSession(ch), RunCommitted(NotBusy(w), CommittedSession(ch)))
AsksReconvert(w, ch) ==
    Requests(w, ReconvertSession(ch), RunReconvert(NotBusy(w), ReconvertSession(ch)))

-----------------------------------------------------------------------------
(* Keys the service handles: it owns the key in OnTestKeyDown and in         *)
(* OnKeyDown, OnTestKeyDown eats it, and no session is in progress.          *)

\* The application inserts a character at the caret.
Typed(w, ch) ==
    LET p == w.docs[focus].caret
    IN [SetText(w, focus, p, p, <<Char(ch)>>) EXCEPT !.docs[focus].caret = p + 1]

CaretAt(w, p) == [w EXCEPT !.docs[focus].caret = p]

Carets == 0..Len(docs[focus].text)

\* The word in progress counts, although it may not be in the document yet.
HasRoom == Len(docs[focus].text) + Len(engine.raw) < MaxText[focus]

\* Keys with a virtual key code of A to Z or 0 to 9.
Eaten == Letters \cup Digits \cup {"circumflex", "breve"}

Handles(ch) == ~busy /\ (IsInWord(engine) \/ ch \in Eaten)

LeavesWord(w) == [w EXCEPT !.engine = Cleared]

TriesCommitted(ch) ==
    ~IsInWord(engine) /\ config.restore /\ recent /\ IsPotentialModifier(ch, config.method)

TriesReconversion(w, ch) ==
    /\ ~IsInWord(w.engine)
    /\ config.restore
    /\ IsWordChar(ch, config.method, <<>>) \/ IsPotentialModifier(ch, config.method)

\* ProcessKey takes the key: the composition shows the word with it.
Composed(w, ch) ==
    UNION {{r.world : r \in AsksUpdate(v)} :
             v \in {[w EXCEPT !.engine = ProcessKey(@, ch, config), !.recent = FALSE]}}

\* ProcessKey does not: it has cleared the engine before the macro is looked
\* up and before it is asked whether there was a word.
Ended(w, ch) ==
    LET v     == LeavesWord(w)
        word  == v.engine.comp
        macro == config.macros /\ word \in DOMAIN Macros
    IN IF ~w.comp.open THEN {[v EXCEPT !.recent = FALSE]}
       ELSE {[r.world EXCEPT !.recent = TRUE] :
                r \in IF macro THEN AsksReplace(v, Macros[word]) ELSE AsksEnd(v)}

\* The two sessions that find a word in the document, each followed by the
\* next attempt when it did not do its work before it was answered for.
AfterCommitted(ch) ==
    IF TriesCommitted(ch) THEN AsksCommitted(World, ch) ELSE {Failed(World)}

AfterReconversion(w, ch) ==
    IF TriesReconversion(w, ch) THEN AsksReconvert(w, ch) ELSE {Failed(w)}

Unrecent(w) == [w EXCEPT !.recent = FALSE]

TypedKey(ch) ==
    /\ Handles(ch)
    /\ HasRoom
    /\ Len(engine.raw) < MaxWord
    /\ \E c \in AfterCommitted(ch) :
         IF c.did THEN Step(Unrecent(c.world), FALSE)
         ELSE \E r \in AfterReconversion(c.world, ch) :
                IF r.did THEN Step(Unrecent(r.world), FALSE)
                ELSE IF Takes(r.world.engine, ch, config)
                THEN \E w \in Composed(r.world, ch) : Step(w, FALSE)
                ELSE \E w \in Ended(r.world, ch) : Step(Typed(w, ch), FALSE)
    /\ UNCHANGED focus

Backspace ==
    /\ ~busy
    /\ IsInWord(engine)
    /\ \E w \in {[World EXCEPT !.engine = RemoveLastChar(@, config)]} :
         \E r \in IF IsInWord(w.engine) THEN AsksUpdate(w) ELSE AsksReplace(w, <<>>) :
            Step(r.world, FALSE)
    /\ UNCHANGED focus

\* Without a composition the key is like any character that ends the word.
Escape ==
    /\ ~busy
    /\ IsInWord(engine)
    /\ IF comp.open
       THEN \E r \in AsksEnd(World) : Step(LeavesWord(r.world), FALSE)
       ELSE \E w \in Ended(World, "escape") : Step(w, FALSE)
    /\ UNCHANGED focus

\* Arrows, Home, End, Tab, Return, ...: the application moves the caret.
NonTextKey ==
    /\ ~busy
    /\ IsInWord(engine)
    /\ \E p \in Carets :
         \E r \in IF comp.open THEN AsksEnd(World) ELSE {Failed(World)} :
            Step(CaretAt(LeavesWord(r.world), p), FALSE)
    /\ UNCHANGED focus

-----------------------------------------------------------------------------
(* Everything else.                                                          *)

RunSession ==
    /\ queue # <<>>
    /\ \E r \in DoEditSession([World EXCEPT !.queue = Tail(@)], Head(queue)) : Step(r.world, FALSE)
    /\ UNCHANGED focus

\* Bound: once they have parted something, others wait until the service is
\* idle again.
Undisturbed == ~parted

\* A key the service leaves alone: input is off or somebody else owns the key,
\* OnTestKeyDown does not eat it, a session is in progress, or it is Backspace
\* without a word.
LeftKey(ch) ==
    /\ Undisturbed
    /\ HasRoom
    /\ OthersEdit(Typed(World, ch))
    /\ UNCHANGED focus

LeftBackspace ==
    LET p == docs[focus].caret IN
    /\ Undisturbed
    /\ p > 0
    /\ OthersEdit(SetText(World, focus, p - 1, p, <<>>))
    /\ UNCHANGED focus

\* OnTestKeyDown owned the key, OnKeyDown does not.
LostKey(ch) ==
    /\ Undisturbed
    /\ HasRoom
    /\ Step(Unrecent(LeavesWord(Typed(World, ch))), TRUE)
    /\ UNCHANGED focus

\* OnSetFocus.  The service of an owner other than TSF forgets the word; the
\* composition stays open.
SwitchFocus ==
    /\ focus' \in Contexts
    /\ \/ Step(World, focus' # focus)
       \/ Step(Unrecent(LeavesWord(World)), TRUE)

\* A mouse click, or a key the service leaves alone.
MoveCaret ==
    /\ Undisturbed
    /\ \E p \in Carets : OthersEdit(CaretAt(World, p))
    /\ UNCHANGED focus

\* The application ends the composition.
TerminateComposition ==
    /\ Undisturbed
    /\ comp.open /\ comp.alive
    /\ Step([World EXCEPT !.comp.alive = FALSE], TRUE)
    /\ UNCHANGED focus

\* kCommittedEditTimeoutMs.
CommitTimePasses ==
    /\ recent
    /\ Step(Unrecent(World), FALSE)
    /\ UNCHANGED focus

Init ==
    /\ engine = Cleared
    /\ busy = FALSE
    /\ recent = FALSE
    /\ comp = NoComposition
    /\ docs = [c \in Contexts |-> [text |-> <<>>, caret |-> 0]]
    /\ queue = <<>>
    /\ focus \in Contexts
    /\ config \in Configs
    /\ parted = FALSE
    /\ edited = FALSE

Next ==
    \/ \E ch \in TypedKeys : TypedKey(ch) \/ LeftKey(ch) \/ LostKey(ch)
    \/ Backspace
    \/ Escape
    \/ NonTextKey
    \/ RunSession
    \/ LeftBackspace
    \/ SwitchFocus
    \/ MoveCaret
    \/ TerminateComposition
    \/ CommitTimePasses

\* A session that the application has put off gets its turn: weak fairness of
\* RunSession, which is enabled when a session waits and alone shortens queue.
SessionsRun == []<>(queue = <<>>) \/ []<><<Len(queue') < Len(queue)>>_queue

Spec == Init /\ [][Next]_vars /\ SessionsRun

-----------------------------------------------------------------------------
(* Properties.                                                               *)

\* The service never puts a caret or its composition outside the text
\* (ShiftStart and ShiftEnd by counts that were computed from the text, ranges
\* that move with every edit), and no session waits for a document that is
\* not there.
TypeOK ==
    /\ engine \in [raw : Seq(UNION {Alphabetic, Digits, ViqrMarks}),
                   comp : Seq(Character), did : BOOLEAN]
    /\ {busy, recent, parted, edited} \subseteq BOOLEAN
    /\ \A c \in Contexts :
         docs[c].text \in Seq(Character) /\ docs[c].caret \in 0..Len(docs[c].text)
    /\ comp = NoComposition \/
         /\ comp.open /\ comp.context \in Contexts /\ comp.alive \in BOOLEAN
         /\ 0 <= comp.from /\ comp.from <= comp.to
         /\ comp.to <= Len(docs[comp.context].text)
    /\ Len(queue) <= MaxQueue
    /\ \A i \in DOMAIN queue :
         /\ queue[i].kind \in {"update", "end", "replace", "committed", "reconvert"}
         /\ queue[i].context \in Contexts
    /\ focus \in Contexts
    /\ config \in Configs

CompositionText == SubSeq(docs[comp.context].text, comp.from + 1, comp.to)

\* Once no session waits, the composition shows the word that the engine holds
\* and has the caret behind it.  Keys change the engine first and the document
\* through one session, which may run late: what the application has typed,
\* deleted and clicked in between it must put right (UpdateComposition and its
\* callers).  Not when they are parted: somebody edited or moved the caret
\* while no session waited, the application ended the composition, another
\* document came or the word was forgotten without the composition
\* (OnSetFocus, and OnKeyDown after an owner change), or one of several
\* sessions of one key was put off and will look for a word (Late).
WordInComposition ==
    ~parted /\ queue = <<>> =>
      /\ IsInWord(engine) => comp.open
      /\ comp.open =>
           /\ comp.alive
           /\ comp.context = focus
           /\ CompositionText = engine.comp
           /\ docs[focus].caret = comp.to

\* How many delimiters stand before the caret, and how many in the text.
Delimiters(doc) ==
    LET Among(n) == {i \in 1..n : ~IsEditableCommittedChar(doc.text[i])}
    IN <<Cardinality(Among(doc.caret)), Cardinality(Among(Len(doc.text)))>>

\* A session, and a key that only asks for sessions, edits one word: it takes no
\* space or other delimiter away and does not carry the caret past one, although
\* the word found in the document may stand before delimiters, around the caret
\* or after it (ReplacementStartShift and ReplacementEndShift).  This is said of
\* sessions that run at once, and of late ones unless the document was edited in
\* the meantime (edited: the caret goes back behind the word, over what was
\* typed); of nothing once word, composition and caret are parted.
DelimitersStay ==
    [][\/ parted \/ edited
       \/ \A c \in Contexts : Delimiters(docs'[c]) = Delimiters(docs[c])
       \/ ~(RunSession \/ Backspace \/ \E ch \in TypedKeys \cap Letters : TypedKey(ch))]_vars

\* Keys are not ignored for ever: a session that runs puts the flag back,
\* whatever it finds (line 370 of text_service.cpp tests it).  Only with Grants
\* that lack "never": nothing puts the flag back after a request that is refused.
DebounceEnds == busy ~> ~busy

=============================================================================
