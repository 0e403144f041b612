------------------------------ MODULE Chunking ------------------------------
(***************************************************************************)
(* From the text of a document to its rows: the article boundaries and the *)
(* size-based splitter of ingestion/chunk.py, and the numbering of         *)
(* ingestion/pipeline.py.                                                  *)
(*                                                                         *)
(* A text is a sequence of characters of the kinds the code tells apart: a *)
(* letter, a blank, a newline, a mark (a diacritic, tatweel or bidi        *)
(* control, dropped before scanning and indexing), and "the word for       *)
(* article with its number", taken as one character, which is an element   *)
(* of Articles.  A stretch of text is [from, to): to is excluded.          *)
(***************************************************************************)
EXTENDS Integers, Sequences, FiniteSets

CONSTANTS
  Letter, Blank, NewLine, Mark, \* kinds of characters
  Articles,                     \* article numbers, each a character too
  Preamble,                     \* what stands before the first article
  Texts,                        \* the documents considered
  Budgets                       \* pairs <<max_chars, overlap_chars>>

Characters == {Letter, Blank, NewLine, Mark} \union Articles
Owners == Articles \union {Preamble}

ASSUME ChunkingAssumption ==
  /\ Texts \subseteq Seq(Characters)
  /\ Budgets \subseteq (Nat \ {0}) \X Nat
  /\ Letter \notin {Blank, NewLine, Mark} /\ NewLine \notin {Blank, Mark} /\ Blank # Mark
  /\ Articles \intersect {Letter, Blank, NewLine, Mark, Preamble} = {}

VARIABLES
  doc, max_chars, overlap,      \* the document and its budget
  todo,                         \* sections not split yet
  body,                         \* the section being split, stripped
  start,                        \* where its next piece starts
  pieces,                       \* chunks so far
  seen,                         \* next free seq of each article
  rows,                         \* rows to be written
  skipped                       \* chunks with nothing to index

document == <<doc, max_chars, overlap>>
chunkVars == <<document, todo, body, start, pieces, seen, rows, skipped>>

MinOf(S) == CHOOSE x \in S : \A y \in S : x <= y
MaxOf(S) == CHOOSE x \in S : \A y \in S : x >= y

End == Len(doc) + 1
IsSpace(i) == doc[i] \in {Blank, NewLine}
Inside(piece) == piece.from .. piece.to - 1

(* str.strip; nothing is left of blank text.                               *)
Solid(from, to) == {i \in from .. to - 1 : ~IsSpace(i)}
Strip(from, to) == [from |-> MinOf(Solid(from, to)), to |-> MaxOf(Solid(from, to)) + 1]

-----------------------------------------------------------------------------
(* Sections.                                                               *)

(* The scan sees no marks: a heading may have blanks and marks before it   *)
(* on its line.  The match starts at the first kept character.             *)
LineStart(i) == MaxOf({0} \union {j \in 1 .. i - 1 : doc[j] = NewLine}) + 1
IsHeading(i) == /\ doc[i] \in Articles
                /\ \A j \in LineStart(i) .. i - 1 : doc[j] \in {Blank, Mark}
Headings == {i \in 1 .. Len(doc) : IsHeading(i)}
MatchStart(i) == MinOf({j \in LineStart(i) .. i : doc[j] # Mark})
MatchEnd(i) == MinOf({End} \union {j \in i + 1 .. Len(doc) : doc[j] \notin {Blank, Mark}})

(* The section of a heading runs to the next heading's match.              *)
SectionEnd(i) == MinOf({End} \union {MatchStart(j) : j \in {h \in Headings : h > i}})

Section(owner, from, to) == [article |-> owner, from |-> from, to |-> to]

(* Blank sections, and headings with nothing under them, are dropped.      *)
Sections ==
  LET first == MinOf({End} \union {MatchStart(h) : h \in Headings})
      preamble == {Section(Preamble, 1, first) : i \in Solid(1, first)}
  IN  preamble \union {Section(doc[i], MatchStart(i), SectionEnd(i)) :
                         i \in {h \in Headings : Solid(MatchEnd(h), SectionEnd(h)) # {}}}

-----------------------------------------------------------------------------

NoBody == Section(Preamble, 0, 0)

ChunkInit ==
  /\ doc \in Texts
  /\ todo = Sections
  /\ \E budget \in Budgets :
       /\ max_chars = budget[1]
       /\ overlap = IF budget[2] <= budget[1] \div 2 THEN budget[2] ELSE budget[1] \div 2
  /\ body = NoBody /\ start = 0
  /\ pieces = <<>> /\ rows = <<>> /\ skipped = 0
  /\ seen = [a \in Owners |-> 0]

(* for article, body in split_articles(text)                               *)
OpenSection ==
  /\ body = NoBody
  /\ \E s \in todo :
       /\ \A t \in todo : s.from <= t.from
       /\ todo' = todo \ {s}
       /\ LET stripped == Strip(s.from, s.to)
          IN  /\ body' = Section(s.article, stripped.from, stripped.to)
              /\ start' = stripped.from
  /\ UNCHANGED <<document, pieces, seen, rows, skipped>>

-----------------------------------------------------------------------------
(* _split_with_overlap.                                                    *)

Window == MinOf({start + max_chars, body.to})
Cuts == {i \in start + 1 .. Window - 1 : IsSpace(i)}
IsLast == Window = body.to
HardSplit == ~IsLast /\ Cuts = {}
PieceEnd == IF IsLast \/ HardSplit THEN Window ELSE MaxOf(Cuts)

NextWordStartInside(i) == i                         \* Fault: overlap from mid-word
NextWordStart(i) ==
  IF i <= body.from \/ i >= body.to THEN i
  ELSE IF IsSpace(i - 1) THEN i
  ELSE LET spaces == {j \in i .. body.to - 1 : IsSpace(j)}
       IN  IF spaces = {} THEN body.to
           ELSE MinOf({body.to} \union
                      {j \in MinOf(spaces) .. body.to - 1 : ~IsSpace(j)})

ResumeAtWord ==                                     \* Fault: skips the blob's rest
  NextWordStart(MaxOf({start + 1, PieceEnd - overlap}))
Resume ==
  IF HardSplit THEN PieceEnd
  ELSE NextWordStart(MaxOf({start + 1, PieceEnd - overlap}))

(* TextChunk.seq counts within the section.                                *)
LocalSeq == Cardinality({k \in 1 .. Len(pieces) : pieces[k].from >= body.from})

EmitPiece ==
  IF Solid(start, PieceEnd) = {} THEN UNCHANGED pieces
  ELSE LET stripped == Strip(start, PieceEnd)
       IN  pieces' = Append(pieces, [article |-> body.article, seq |-> LocalSeq,
                                     from |-> stripped.from, to |-> stripped.to])

CutWindow ==
  /\ body # NoBody
  /\ EmitPiece
  /\ IF IsLast \/ Resume >= body.to
     THEN body' = NoBody /\ start' = 0
     ELSE start' = Resume /\ UNCHANGED body
  /\ UNCHANGED <<document, todo, seen, rows, skipped>>

-----------------------------------------------------------------------------
(* ingest_documents, for each chunk: skip it or number it.                 *)

Split == todo = {} /\ body = NoBody
Handled == Len(rows) + skipped
Indexable(piece) == \E i \in Inside(piece) : doc[i] \notin {Blank, NewLine, Mark}

Chunk == pieces[Handled + 1]

SkipChunk ==
  /\ Split /\ Handled < Len(pieces) /\ ~Indexable(Chunk)
  /\ skipped' = skipped + 1
  /\ UNCHANGED <<document, todo, body, start, pieces, seen, rows>>

UniqueSeqLocal(piece) == piece.seq                  \* Fault: numbered per section
UniqueSeq(piece) == seen[piece.article]

AddRow ==
  /\ Split /\ Handled < Len(pieces) /\ Indexable(Chunk)
  /\ rows' = Append(rows, [Chunk EXCEPT !.seq = UniqueSeq(Chunk)])
  /\ seen' = [seen EXCEPT ![Chunk.article] = UniqueSeq(Chunk) + 1]
  /\ UNCHANGED <<document, todo, body, start, pieces, skipped>>

Done == Split /\ Handled = Len(pieces)
Finished == Done /\ UNCHANGED chunkVars

ChunkNext == OpenSection \/ CutWindow \/ SkipChunk \/ AddRow \/ Finished

ChunkSpec == ChunkInit /\ [][ChunkNext]_chunkVars

-----------------------------------------------------------------------------
(* Properties.                                                             *)

ChunkTypeOK ==
  /\ doc \in Texts /\ max_chars \in Nat \ {0} /\ overlap \in Nat
  /\ todo \subseteq [article : Owners, from : Nat, to : Nat]
  /\ body \in [article : Owners, from : Nat, to : Nat] /\ start \in Nat
  /\ pieces \in Seq([article : Owners, seq : Nat, from : Nat, to : Nat])
  /\ rows \in Seq([article : Owners, seq : Nat, from : Nat, to : Nat])
  /\ seen \in [Owners -> Nat] /\ skipped \in Nat

(* The article a character stands in, read off the text: the last number   *)
(* before it with no letter and no other number ahead of it on its line.   *)
Opens(i) == /\ doc[i] \in Articles
            /\ \A j \in 1 .. i - 1 : doc[j] \in Articles \union {Letter}
                                     => \E k \in j .. i : doc[k] = NewLine
Stands(i) == LET above == {h \in 1 .. i : Opens(h)}
             IN  IF above = {} THEN Preamble ELSE doc[MaxOf(above)]

(* Every letter of the document is in a row that is cited under the        *)
(* article it stands in, and in no row of another article: whatever marks  *)
(* the headings carry, whatever a blob longer than max_chars looks like,   *)
(* nothing is dropped between split_articles, the splitter's windows and   *)
(* the rows.                                                               *)
EveryLetterCited ==
  /\ Done => \A i \in 1 .. Len(doc) : doc[i] = Letter =>
       \E k \in 1 .. Len(rows) : i \in Inside(rows[k]) /\ rows[k].article = Stands(i)
  /\ \A k \in 1 .. Len(rows) : \A i \in Inside(rows[k]) :
       doc[i] = Letter => rows[k].article = Stands(i)

(* A piece fits the budget; pieces come in the order of the text, each     *)
(* repeating at most the overlap of the one before it; and no word is      *)
(* broken where every word is shorter than max_chars.  (A piece may still  *)
(* repeat the one before it as a whole: a window advances by a character   *)
(* at least, but may end at the same whitespace.)                          *)
BreaksWord(k) == /\ pieces[k + 1].seq > 0
                 /\ ~IsSpace(pieces[k].to) \/ ~IsSpace(pieces[k + 1].from - 1)
LongRun == \E i \in 1 .. Len(doc) :
  /\ i + max_chars <= End
  /\ \A j \in i .. i + max_chars - 1 : ~IsSpace(j)
CutsClean ==
  /\ \A k \in 1 .. Len(pieces) : pieces[k].to - pieces[k].from <= max_chars
  /\ \A k \in 1 .. Len(pieces) - 1 :
       /\ pieces[k].from <= pieces[k + 1].from /\ pieces[k].to <= pieces[k + 1].to
       /\ pieces[k].to - pieces[k + 1].from <= overlap
  /\ ~LongRun => \A k \in 1 .. Len(pieces) - 1 : ~BreaksWord(k)

(* The ids of a document's rows, (article, seq), count each article from 0 *)
(* in the order of the text, also when an article number returns further   *)
(* down: no two rows share an id, so no row overwrites another.            *)
IdsConsecutive ==
  \A k \in 1 .. Len(rows) :
    rows[k].seq = Cardinality({j \in 1 .. k - 1 : rows[j].article = rows[k].article})

-----------------------------------------------------------------------------
(* The inductive invariant.                                                *)

Within(i, stretch) == stretch.from <= i /\ i < stretch.to

(* Sections, the open one and the pieces lie apart, in the order in which  *)
(* they are cut.                                                           *)
SectionsApart ==
  /\ \A s \in todo : 1 <= s.from /\ s.to <= End /\ Solid(s.from, s.to) # {}
  /\ \A s, t \in todo : s = t \/ s.to <= t.from \/ t.to <= s.from
  /\ \A s \in todo : /\ body # NoBody => body.to <= s.from
                     /\ \A k \in 1 .. Len(pieces) : pieces[k].to <= s.from

(* The open section is stripped, and its next piece starts inside it: at a *)
(* word unless the section starts there or a long run was cut.             *)
BodyOpen ==
  body # NoBody =>
    /\ 1 <= body.from /\ body.from <= start /\ start < body.to /\ body.to <= End
    /\ ~IsSpace(body.from) /\ ~IsSpace(body.to - 1)
    /\ ~LongRun => start = body.from \/ IsSpace(start - 1) \/ IsSpace(start)

PiecesSorted ==
  /\ \A k \in 1 .. Len(pieces) :
       LET p == pieces[k]
       IN  /\ 1 <= p.from /\ p.from < p.to /\ p.to <= End /\ p.to - p.from <= max_chars
           /\ ~IsSpace(p.from) /\ ~IsSpace(p.to - 1)
  /\ \A k \in 1 .. Len(pieces) : \A j \in 1 .. k :
       pieces[j].from <= pieces[k].from /\ pieces[j].to <= pieces[k].to

(* What the next window owes to a piece p: it repeats no more of p than    *)
(* the overlap, starts no solid character before p, and cannot end before  *)
(* p; and p belongs to an earlier section, or it ends at whitespace.       *)
Follows(p) ==
  /\ p.to - start <= overlap
  /\ \A i \in start .. p.from - 1 : IsSpace(i)
  /\ p.to <= start \/ \E e \in p.to .. start + max_chars - 1 : e < body.to /\ IsSpace(e)
  /\ \/ p.to <= body.from
     \/ body.from <= p.from /\ body.from < start /\ (~LongRun => IsSpace(p.to))
WindowFollows == body # NoBody => \A k \in 1 .. Len(pieces) : Follows(pieces[k])

(* Every letter is still to be cut, or in a piece, under its article.      *)
Owned(stretch) == \A i \in 1 .. Len(doc) :
  Within(i, stretch) /\ doc[i] = Letter => stretch.article = Stands(i)
LettersKept ==
  /\ \A s \in todo : Owned(s)
  /\ body # NoBody => Owned(body)
  /\ \A k \in 1 .. Len(pieces) : Owned(pieces[k])
  /\ \A i \in 1 .. Len(doc) : doc[i] = Letter =>
       \/ \E s \in todo : Within(i, s)
       \/ body # NoBody /\ start <= i /\ i < body.to
       \/ \E k \in 1 .. Len(pieces) : Within(i, pieces[k])

(* The rows stand for the pieces handled, which no longer change.          *)
SameStretch(row, p) == row.article = p.article /\ row.from = p.from /\ row.to = p.to
RowsFaithful ==
  /\ Handled <= Len(pieces) /\ (Handled > 0 => Split)
  /\ \A k \in 1 .. Len(rows) : \E j \in 1 .. Len(pieces) : SameStretch(rows[k], pieces[j])
  /\ \A j \in 1 .. Handled : Indexable(pieces[j]) =>
       \E k \in 1 .. Len(rows) : SameStretch(rows[k], pieces[j])
  /\ \A a \in Owners : seen[a] = Cardinality({k \in 1 .. Len(rows) : rows[k].article = a})

ChunkIInv == /\ ChunkTypeOK /\ SectionsApart /\ BodyOpen /\ PiecesSorted /\ WindowFollows
        /\ LettersKept /\ RowsFaithful /\ CutsClean /\ IdsConsecutive

=============================================================================
