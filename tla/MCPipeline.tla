----------------------------- MODULE MCPipeline -----------------------------
(***************************************************************************)
(* Files for Pipeline: Markdown for every section of at most MaxSentences  *)
(* sentences of at most MaxWords words and every pair of sections of at    *)
(* most two sentences, each short, filling or too long; and, of the other  *)
(* formats, every file of at most two units of at most MaxPieces pieces    *)
(* with the roles the format knows.                                        *)
(***************************************************************************)
EXTENDS Pipeline

CONSTANTS MaxSentences, MaxWords, MaxPieces

File(ext, opens, units) == [ext |-> ext, opens |-> opens, units |-> units]
Text(words) == [role |-> "text", words |-> words]
Heading == [role |-> "h2", words |-> 1]
Flow(sentences) == [k \in DOMAIN sentences |-> Text(sentences[k])]

MCSections == BoundedSeq({1, ChunkSize, MaxWords}, 2)
MCMarkdown ==
    {File(".md", TRUE, <<Flow(s)>>) : s \in BoundedSeq(1..MaxWords, MaxSentences)}
      \cup {File(".md", TRUE, <<Flow(s) \o <<Heading>> \o Flow(t)>>) : s \in MCSections, t \in MCSections}

Units(roles) == BoundedSeq([role : roles, words : {2}], MaxPieces)
One(roles) == {<<u>> : u \in Units(roles)}
Two(roles) == One(roles) \cup {<<u, v>> : u \in Units(roles), v \in Units(roles)}
Titled(units) == [i \in DOMAIN units |-> <<Heading>> \o units[i]]

MCFiles ==
    MCMarkdown
      \cup {File(".html", TRUE, u) : u \in One({"h2", "text", "chrome"})}
      \cup {File(".csv", TRUE, u) : u \in One({"text"})}
      \cup {File(".docx", b, u) : b \in BOOLEAN, u \in One({"h2", "text", "table"})}
      \cup {File(".pdf", TRUE, u) : u \in Two({"text", "table", "scan"})}
      \cup {File(".xlsx", TRUE, Titled(u)) : u \in Two({"text", "merged"})}
      \cup {File(".pptx", TRUE, u) : u \in Two({"text", "graphic", "notes"})}
      \cup {File(e, TRUE, u) : e \in {".png", ".gif", ".exe"}, u \in One({"text"})}

MCDocuments == {Lengths(SectionsOf(f)) : f \in {g \in MCFiles : Supported(g)}}
=============================================================================
