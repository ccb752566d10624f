------------------------------ MODULE Charset ------------------------------
(***************************************************************************)
(* The character tables of toolkit/clipboard.cpp and the conversions made  *)
(* from them.  A text is a sequence of character codes, as the wchar_t of  *)
(* the source: in TCVN3 and VNI Windows each byte is stored in one.        *)
(***************************************************************************)
EXTENDS Naturals, Sequences, SequencesExt

Charsets == {"UNICODE", "TCVN3", "VNI_WIN"}

\* The 67 lower-case letters, in the order of vn_chars.
Lower == <<
    \hE0, \hE1, \h1EA3, \hE3, \h1EA1, \h103, \h1EB1, \h1EAF, \h1EB3, \h1EB5,
    \h1EB7, \hE2, \h1EA7, \h1EA5, \h1EA9, \h1EAB, \h1EAD,
    \hE8, \hE9, \h1EBB, \h1EBD, \h1EB9, \hEA, \h1EC1, \h1EBF, \h1EC3, \h1EC5, \h1EC7,
    \hEC, \hED, \h1EC9, \h129, \h1ECB,
    \hF2, \hF3, \h1ECF, \hF5, \h1ECD, \hF4, \h1ED3, \h1ED1, \h1ED5, \h1ED7, \h1ED9,
    \h1A1, \h1EDD, \h1EDB, \h1EDF, \h1EE1, \h1EE3,
    \hF9, \hFA, \h1EE7, \h169, \h1EE5, \h1B0, \h1EEB, \h1EE9, \h1EED, \h1EEF, \h1EF1,
    \h1EF3, \hFD, \h1EF7, \h1EF9, \h1EF5,
    \h111 >>

\* The TCVN3 bytes of the lower-case letters, in the same order.
LowerTcvn3 == <<
    \hB5, \hB8, \hB6, \hB7, \hB9, \hA8, \hBB, \hBE, \hBC, \hBD, \hC6,
    \hA9, \hC7, \hCA, \hC8, \hC9, \hCB,
    \hCC, \hCE, \hCD, \hD0, \hCF, \hAA, \hD1, \hD4, \hD2, \hD3, \hD5,
    \hD6, \hD8, \hD7, \hD9, \hDA,
    \hDB, \hDD, \hDC, \hDE, \hDF, \hAB, \hE0, \hE3, \hE1, \hE2, \hE4,
    \hAC, \hE5, \hE8, \hE6, \hE7, \hE9,
    \hEA, \hEC, \hEB, \hED, \hEE, \hAF, \hEF, \hF2, \hF0, \hF1, \hF3,
    \hF4, \hF6, \hF5, \hF8, \hF7,
    \hAE >>

\* The VNI marks, by the shape of the letter: grave, acute, hook, tilde, dot,
\* the shaped letters with the bare shape first.
ToneMarks       == <<\hF8, \hF9, \hF6, \hF5, \hFA>>
BreveMarks      == <<\hE5, \hEB, \hE9, \hEC, \hEA, \hED>>
CircumflexMarks == <<\hE2, \hFB, \hFE, \hFC, \hFD, \hFF>>
HornMarks       == <<\hE1, \hEE, \hF4, \hF1, \hEF, \hF7>>

\* The ASCII letter and the marks of each run of the table.
VniRuns == <<
    <<97,  ToneMarks \o BreveMarks \o CircumflexMarks>>,
    <<101, ToneMarks \o CircumflexMarks>>,
    <<105, ToneMarks>>,
    <<111, ToneMarks \o CircumflexMarks \o HornMarks>>,
    <<117, ToneMarks \o HornMarks>>,
    <<121, ToneMarks>>,
    <<100, <<\hF0>> >> >>

LowerVni ==
    FlattenSeq([r \in DOMAIN VniRuns |->
        [i \in DOMAIN VniRuns[r][2] |-> <<VniRuns[r][1], VniRuns[r][2][i]>>]])

\* Upper-case letters: bytes, bases and marks are 32 below the lower-case ones.
UpperOf(c) == IF c < 256 THEN c - 32 ELSE c - 1

Upper == [i \in DOMAIN Lower |-> UpperOf(Lower[i])]

VnChars == Range(Lower) \cup Range(Upper)

PlaceOf(c) == CHOOSE i \in DOMAIN Lower : c \in {Lower[i], UpperOf(Lower[i])}

Case(c) == IF c \in Range(Lower) THEN 0 ELSE 32

AsciiOf(c) == LowerVni[PlaceOf(c)][1] - Case(c)
Tcvn3Of(c) == LowerTcvn3[PlaceOf(c)] - Case(c)
VniOf(c)   == <<AsciiOf(c), LowerVni[PlaceOf(c)][2] - Case(c)>>

\* Which letter a base and a mark stand for.
LowerPair(base, mark) == <<base, mark>> \in Range(LowerVni)
UpperPair(base, mark) == <<base + 32, mark + 32>> \in Range(LowerVni)

OfVniPair(base, mark) ==
    IF LowerPair(base, mark)
    THEN Lower[CHOOSE i \in DOMAIN Lower : LowerVni[i] = <<base, mark>>]
    ELSE Upper[CHOOSE i \in DOMAIN Lower : LowerVni[i] = <<base + 32, mark + 32>>]

-----------------------------------------------------------------------------

StripAccentsString(text) ==
    [i \in DOMAIN text |-> IF text[i] \in VnChars THEN AsciiOf(text[i]) ELSE text[i]]

UnicodeToTcvn3(text) ==
    [i \in DOMAIN text |-> IF text[i] \in VnChars THEN Tcvn3Of(text[i]) ELSE text[i]]

UnicodeToVni(text) ==
    FlattenSeq([i \in DOMAIN text |->
        IF text[i] \in VnChars THEN VniOf(text[i]) ELSE <<text[i]>>])

\* Reads a base and its mark together, and goes on after the mark.
VniToUnicode(text) ==
    LET from[i \in 1 .. Len(text) + 2] ==
            IF i > Len(text) THEN <<>>
            ELSE IF i < Len(text) /\ \/ LowerPair(text[i], text[i + 1])
                                     \/ UpperPair(text[i], text[i + 1])
                 THEN <<OfVniPair(text[i], text[i + 1])>> \o from[i + 2]
                 ELSE <<text[i]>> \o from[i + 1]
    IN from[1]

\* Evaluated by TLC: each of the 134 letters can be read back from VNI Windows.
ASSUME VniReadsBack ==
    \A c \in VnChars : VniToUnicode(UnicodeToVni(<<c>>)) = <<c>>

\* Mutant: the two charsets are mixed up.
FromUnicodeSwapped(text, charset) ==
    CASE charset = "VNI_WIN" -> UnicodeToTcvn3(text)
      [] charset = "TCVN3"   -> UnicodeToVni(text)
      [] OTHER               -> text

FromUnicode(text, charset) ==
    CASE charset = "TCVN3"   -> UnicodeToTcvn3(text)
      [] charset = "VNI_WIN" -> UnicodeToVni(text)
      [] OTHER               -> text
=============================================================================
