------------------------------ MODULE Pipeline ------------------------------
(***************************************************************************)
(* What process_document makes of a file before its chunks are stored:     *)
(* the route by its extension, the converter, the front matter, the split  *)
(* into sections at lines that begin with "## ", and the chunker.          *)
(*                                                                         *)
(* A file is a sequence of units (pages, sheets, slides; one for the flat  *)
(* formats), a unit a sequence of pieces of text in reading order, each    *)
(* with the role the format gives it.  A line of Markdown is a piece and   *)
(* whether it is a heading of level two; it is one sentence of the chunker.*)
(***************************************************************************)
EXTENDS Chunker, SequencesExt

CONSTANTS
    Files,
    Images,     \* extensions mimetypes takes for images
    MinWords    \* words an image must have

VARIABLE file

\* Text the converters and inject_metadata write themselves.
Generated == <<0, 1>>
FrontMatter == <<0, 2>>
Intro == <<0, 3>>       \* "Einleitung"

Line(piece, words, heading) == [piece |-> piece, words |-> words, heading |-> heading]

\* The pieces of unit i with one of these roles, as lines; role h2 is a heading.
Lines(units, i, roles) ==
    LET line(j) == Line(<<i, j>>, units[i][j].words, units[i][j].role = "h2")
    IN FlattenSeq([j \in DOMAIN units[i] |->
           IF units[i][j].role \in roles THEN <<line(j)>> ELSE <<>>])

PerUnit(units, Of(_)) == FlattenSeq([i \in DOMAIN units |-> Of(i)])
Pieces(units, roles) ==
    UNION {{<<i, j>> : j \in {n \in DOMAIN units[i] : units[i][n].role \in roles}} :
               i \in DOMAIN units}

-----------------------------------------------------------------------------
(* The converters.                                                         *)

Markdown(units) == PerUnit(units, LAMBDA i : Lines(units, i, {"h2", "text"}))

\* The table with its first row for a header.
Csv(units) == PerUnit(units, LAMBDA i : Lines(units, i, {"text"}))

\* nav, footer and header are taken out.
Html(units) == PerUnit(units, LAMBDA i : Lines(units, i, {"h2", "text"}))

\* python-docx lists paragraphs only; what it cannot open goes to pandoc,
\* which keeps the tables.
Docx(units, opens) ==
    PerUnit(units, LAMBDA i :
        Lines(units, i, IF opens THEN {"h2", "text"} ELSE {"h2", "text", "table"}))

\* A page's text, which its tables are part of, and its tables again.  Only if
\* no page has any text are the pages read from their pictures.
Pdf(units) ==
    LET page(i) == Lines(units, i, {"text", "table"}) \o Lines(units, i, {"table"})
        scanned(i) == <<Line(Generated, 1, TRUE)>> \o Lines(units, i, {"scan"})
        extracted == PerUnit(units, page)
    IN IF extracted # <<>> THEN extracted ELSE PerUnit(units, scanned)

\* A sheet is its title and its rows; a merged cell repeats its value.
Xlsx(units) ==
    PerUnit(units, LAMBDA i :
        Lines(units, i, {"h2", "text", "merged"}) \o Lines(units, i, {"merged"}))

\* The first shape with text is the title, and a heading; pictures, tables and
\* groups have no text.  The line for the notes is there without notes too.
Pptx(units) ==
    LET slide(i) ==
            LET shapes == Lines(units, i, {"text"})
                title == IF shapes = <<>> THEN Line(Generated, 1, TRUE)
                         ELSE [shapes[1] EXCEPT !.heading = TRUE]
            IN <<title>> \o SubSeq(shapes, 2, Len(shapes))
                 \o <<Line(Generated, 1, FALSE)>> \o Lines(units, i, {"notes"})
    IN PerUnit(units, slide)

WordsIn(lines) == SumFunction([k \in DOMAIN lines |-> lines[k].words])

\* Fewer than MinWords words are taken for noise.
Image(units) ==
    LET text == PerUnit(units, LAMBDA i : Lines(units, i, {"text"})) IN
    IF WordsIn(text) < MinWords THEN <<>> ELSE text

Routes == {".pdf", ".docx", ".xlsx", ".pptx", ".csv", ".md", ".html", ".png"}

\* The roles the pieces of a format have.
RolesOf(ext) ==
    CASE ext = ".pdf" -> {"text", "table", "scan"}
      [] ext = ".docx" -> {"h2", "text", "table"}
      [] ext = ".xlsx" -> {"h2", "text", "merged"}
      [] ext = ".pptx" -> {"text", "notes", "graphic"}
      [] ext = ".md" -> {"h2", "text"}
      [] ext = ".html" -> {"h2", "text", "chrome"}
      [] OTHER -> {"text"}

\* An image is one unit.
ASSUME FilesAssumption ==
    /\ Images \cap Routes = {}
    /\ \A f \in Files :
          /\ f.opens \in BOOLEAN
          /\ f.units \in Seq(Seq([role : RolesOf(f.ext), words : Nat]))
          /\ f.ext \in {".png"} \cup Images => Len(f.units) = 1

\* A file whose extension has no route must look like an image.
Supported(f) == f.ext \in Routes \cup Images

\* The route of a file; .htm, .jpg and .jpeg go the ways of .html and .png.
Converted(f) ==
    CASE f.ext = ".pdf" -> Pdf(f.units)
      [] f.ext = ".docx" -> Docx(f.units, f.opens)
      [] f.ext = ".xlsx" -> Xlsx(f.units)
      [] f.ext = ".pptx" -> Pptx(f.units)
      [] f.ext = ".csv" -> Csv(f.units)
      [] f.ext = ".md" -> Markdown(f.units)
      [] f.ext = ".html" -> Html(f.units)
      [] f.ext \in {".png"} \cup Images -> Image(f.units)

\* inject_metadata
Injected(lines) == <<Line(FrontMatter, 1, FALSE)>> \o lines

-----------------------------------------------------------------------------
(* The sections the chunker makes of the Markdown.                         *)

\* The front matter is taken off.
Stripped(lines) ==
    IF lines # <<>> /\ lines[1].piece = FrontMatter THEN Tail(lines) ELSE lines

\* A section begins with the text at the top or under a heading and ends
\* before the next heading or with the document.
Begins(lines, k) == ~lines[k].heading /\ (k = 1 \/ lines[k - 1].heading)
End(lines, k) == Min({j \in k..Len(lines) : j = Len(lines) \/ lines[j + 1].heading})

Section(lines, k) ==
    [heading |-> IF k = 1 THEN Intro ELSE lines[k - 1].piece,
     body |-> SubSeq(lines, k, End(lines, k))]

\* Mutant: the text after the last heading is forgotten.
Sections_Unflushed(lines) ==
    FlattenSeq([k \in DOMAIN lines |->
        IF Begins(lines, k) /\ End(lines, k) < Len(lines) THEN <<Section(lines, k)>> ELSE <<>>])

\* A heading without text makes no section; it is in no chunk.
Sections(lines) ==
    FlattenSeq([k \in DOMAIN lines |->
        IF Begins(lines, k) THEN <<Section(lines, k)>> ELSE <<>>])

SectionsOf(f) == Sections(Stripped(Injected(Converted(f))))

Lengths(sections) ==
    [s \in DOMAIN sections |->
        [k \in DOMAIN sections[s].body |-> sections[s].body[k].words]]

\* An unsupported file fails its job before the chunker is called.
PipelineInit ==
    /\ file \in {f \in Files : Supported(f)}
    /\ doc = Lengths(SectionsOf(file))
    /\ Init

PipelineNext == Next /\ UNCHANGED file
pipeline_vars == <<vars, file>>
PipelineSpec == PipelineInit /\ [][PipelineNext]_pipeline_vars /\ WF_vars(Next)

-----------------------------------------------------------------------------
\* What the converters leave out, each format's loss: navigation of a web page,
\* tables of a Word file, pictures and groups on slides, scanned pages of a PDF
\* that has text on any page, images with next to no text.
LeftOut(f) ==
    LET has(roles) == Pieces(f.units, roles)
        all == has({"text", "h2", "table", "chrome", "scan", "notes", "graphic", "merged"})
    IN CASE f.ext = ".html" -> has({"chrome"})
         [] f.ext = ".docx" /\ f.opens -> has({"table"})
         [] f.ext = ".pptx" -> has({"graphic"})
         [] f.ext = ".pdf" /\ has({"text", "table"}) # {} -> has({"scan"})
         [] f.ext \in {".png"} \cup Images
              /\ WordsIn(f.units[1]) < MinWords -> all
         [] OTHER -> {}

\* A heading with nothing below it but what is left out.
Empty(f, p) ==
    LET unit == f.units[p[1]] IN
    /\ unit[p[2]].role = "h2"
    /\ \A j \in (p[2] + 1)..Len(unit) :
          <<p[1], j>> \in LeftOut(f) \/ \E k \in (p[2] + 1)..j : unit[k].role = "h2"

\* Word w is in a chunk of section s.
InChunk(w, s) == \E i \in DOMAIN chunks :
    chunks[i].section = s /\ chunks[i].first <= w /\ w <= chunks[i].last

\* The words of a document in order, each by its section and sentence.
WordsOf(d) ==
    FlattenSeq([s \in DOMAIN d |->
        FlattenSeq([k \in DOMAIN d[s] |-> [w \in 1..d[s][k] |-> <<s, k>>]])])

\* Every piece of text of a file is found again, all its words in chunks of its
\* section or as the heading of a chunk, except what the converters leave out
\* and headings over nothing; and no chunk holds the front matter.  A piece has
\* to come through converter, front matter, sections, sentences and windows
\* (router.py 30-40, chunker.py 16-33, 42-60).
TextArrives ==
    pc = "done" =>
        LET sections == SectionsOf(file)
            words == WordsOf(Lengths(sections))
            arrives(p) ==
                \E s \in DOMAIN sections :
                    \/ sections[s].heading = p /\ \E i \in DOMAIN chunks : chunks[i].section = s
                    \/ \E k \in DOMAIN sections[s].body :
                          /\ sections[s].body[k].piece = p
                          /\ \A w \in DOMAIN words : words[w] = <<s, k>> => InChunk(w, s)
        IN /\ \A i \in DOMAIN file.units : \A j \in DOMAIN file.units[i] :
                \/ <<i, j>> \in LeftOut(file)
                \/ Empty(file, <<i, j>>)
                \/ arrives(<<i, j>>)
           /\ \A s \in DOMAIN sections : \A k \in DOMAIN sections[s].body :
                sections[s].body[k].piece # FrontMatter
=============================================================================
