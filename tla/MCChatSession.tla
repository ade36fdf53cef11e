--------------------------- MODULE MCChatSession ---------------------------
(* Model-checking instance of ChatSession: four chunks, the lists the      *)
(* searches may return of them and three questions, one of stopwords only. *)
EXTENDS ChatSession, TLC

MCLine(metadata, words) == [metadata |-> metadata, words |-> words]
MCChunks ==
    {[id |-> 1, title |-> {"fee"}, lines |-> {MCLine(FALSE, {"waste", "der"})}],
     [id |-> 2, title |-> {"source"}, lines |-> {MCLine(TRUE, {"fee"}), MCLine(FALSE, {"und"})}],
     [id |-> 3, title |-> {}, lines |-> {MCLine(FALSE, {"fee", "waste"})}],
     [id |-> 4, title |-> {}, lines |-> {MCLine(FALSE, {"source"})}]}
MCHits(scores) == {[chunk |-> c, score |-> s] : c \in MCChunks, s \in scores}
MCLists(scores, n) == UNION {[1..k -> MCHits(scores)] : k \in 0..n}

MCSearches ==
    [question : {{"waste", "fee"}, {"fee", "der"}, {"der"}}, language : {"de", "en"},
     mode : {"hybrid"}, dense : MCLists({0}, 2), sparse : MCLists({0}, 2)]
    \cup
    [question : {{"der"}}, language : {"de"}, mode : {"dense"},
     dense : [1..2 -> MCHits({Unit})], sparse : {<<>>}]
=============================================================================
