------------------------------ MODULE Ranking ------------------------------
(***************************************************************************)
(* How chat-api ranks what its searches found and what becomes of it:      *)
(* reciprocal rank fusion (retrieval.py), the term-overlap reranker        *)
(* (reranker.py, text_utils.py), the context, the confidence flag and the  *)
(* prompt (main.py, llm.py), and the answer of the model substitute        *)
(* (ollama-lite/main.py).                                                  *)
(*                                                                         *)
(* A chunk is [id, lines, title]: the words of its lines, each line        *)
(* marked if it is one of the metadata lines the ingestion wrote, and the  *)
(* words of its file name and heading.  A hit is [chunk, score].  Scores   *)
(* are integers, in units of 1/Unit.                                       *)
(***************************************************************************)
EXTENDS Integers, Sequences, FiniteSets, FiniteSetsExt, SequencesExt

CONSTANT ContextSizes   \* values of ANSWER_CONTEXT_TOP_N: 3 as deployed
                        \* (docker-compose.yml:84), 1 where it is not set

ASSUME ContextAssumption == ContextSizes \subseteq Nat \ {0}

Unit == 1000000
RRFOffset == 60
TopN == 5           \* RERANK_TOP_N
Threshold == Unit \div 2   \* CONFIDENCE_THRESHOLD

Stopwords == {"der", "und"}   \* two of STOPWORDS

\* normalize_tokens and strip_metadata_lines.
Terms(words) == words \ Stopwords
ContentTerms(chunk) == Terms(UNION {l.words : l \in {m \in chunk.lines : ~m.metadata}})

\* The n-th smallest of a set of numbers.
Nth(S, n) == CHOOSE i \in S : Cardinality({j \in S : j < i}) = n - 1

\* Hits by their score, highest first; equal scores keep their order, as
\* Python's sort does.
Sorted(hits) ==
    LET before(i, j) == \/ hits[i].score > hits[j].score
                        \/ hits[i].score = hits[j].score /\ i < j
    IN [n \in DOMAIN hits |->
          hits[CHOOSE i \in DOMAIN hits :
                 Cardinality({j \in DOMAIN hits : before(j, i)}) = n - 1]]

\* reciprocal_rank_fusion: a chunk earns 1/(60 + rank) for each place it has
\* in a list; the ranks run on over the lists of all expanded queries.
Fused(dense, sparse) ==
    LET hits == dense \o sparse
        rank(i) == IF i <= Len(dense) THEN i ELSE i - Len(dense)
        places(c) == {i \in DOMAIN hits : hits[i].chunk = c}
        earned == [i \in DOMAIN hits |-> Unit \div (RRFOffset + rank(i))]
        rrf(c) == SumFunctionOnSet(earned, places(c))
        firsts == {i \in DOMAIN hits : i = Min(places(hits[i].chunk))}
        merged == [n \in 1..Cardinality(firsts) |->
                     LET c == hits[Nth(firsts, n)].chunk
                     IN [chunk |-> c, score |-> rrf(c)]]
    IN Sorted(merged)

\* Mutant: the new scores are there but nothing is sorted by them.
Reranked_Unsorted(question, hits) ==
    LET terms == Terms(question)
        size == Max({Cardinality(terms), 1})
        score(h) == h.score + (Unit * Cardinality(terms \cap ContentTerms(h.chunk))) \div size
    IN SubSeq([i \in DOMAIN hits |-> [chunk |-> hits[i].chunk, score |-> score(hits[i])]],
              1, Min({TopN, Len(hits)}))

\* TermOverlapReranker.rerank: the search score, plus the share of the
\* question's words in the text, plus one and a half times that in the title.
Reranked(question, hits) ==
    LET terms == Terms(question)
        size == Max({Cardinality(terms), 1})
        overlap(words) == Cardinality(terms \cap words)
        score(h) == h.score + (Unit * overlap(ContentTerms(h.chunk))) \div size
                            + (3 * Unit * overlap(Terms(h.chunk.title))) \div (2 * size)
        ranked == Sorted([i \in DOMAIN hits |->
                            [chunk |-> hits[i].chunk, score |-> score(hits[i])]])
    IN SubSeq(ranked, 1, Min({TopN, Len(ranked)}))

\* main.py:101-105 and 114: what the handler goes on with.
Searched(s) ==
    Reranked(s.question, IF s.mode = "dense" THEN s.dense ELSE Fused(s.dense, s.sparse))

Total(hits) == SumFunction([i \in DOMAIN hits |-> hits[i].score])

\* main.py:114: the mean of the scores is below the threshold; 0.0 without hits.
Flagged(hits) == hits = <<>> \/ Total(hits) < Threshold * Len(hits)

\* main.py:103: the first n hits.
Context(hits, n) == SubSeq(hits, 1, Min({n, Len(hits)}))

\* _language_copy: under which word the prompt puts the context.
Label(language) == IF language = "en" THEN "Context" ELSE "Kontext"

\* call_ollama
Prompt(context, language) == [label |-> Label(language), context |-> context]

\* All words of a hit's text.
Words(h) == UNION {l.words : l \in h.chunk.lines}

\* make_answer: the substitute looks for the context under its German label.  It
\* keeps the first lines of what it finds, where the first hit is; lines have no
\* order here, so all are kept.
Evidence(prompt) ==
    IF prompt.label = "Kontext"
    THEN UNION {Words(prompt.context[i]) : i \in DOMAIN prompt.context}
    ELSE {}

\* A hit that shares a word with the question, in its text or its title.
Supports(question, h) ==
    Terms(question) \cap (ContentTerms(h.chunk) \cup Terms(h.chunk.title)) # {}

\* What the handler knows of a search when it calls the model with a context of
\* at most n hits: whether the first hit shares a word with the question, and
\* whether the model substitute finds something of that hit's text.
Outcome(s, n) ==
    LET hits == Searched(s)
        evidence == Evidence(Prompt(Context(hits, n), s.language)) IN
    [mode |-> s.mode, language |-> s.language, flagged |-> Flagged(hits),
     supported |-> hits # <<>> /\ Supports(s.question, hits[1]),
     grounded |-> hits # <<>> /\ Words(hits[1]) \cap evidence # {}]
=============================================================================
