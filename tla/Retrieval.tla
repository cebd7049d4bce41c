----------------------------- MODULE Retrieval -----------------------------
(***************************************************************************)
(* What is fetched for a prompt: memories by the memory step of the        *)
(* cognitive cycle (cognitive/memory/retrieval.py) or by the retrieval     *)
(* pipeline (runtime/retrieval/memory.py), project context and transcript  *)
(* rows by the source pipeline (runtime/retrieval/sources.py).             *)
(*                                                                         *)
(* A search runs in a thread and is a sequence of transactions: a lookup   *)
(* in the full-text table or in the vector index, then one read of the     *)
(* store per hit.  Writes of other turns fall between them.  The full-text *)
(* row of a record changes with the record; its vector entry changes       *)
(* later, or never.                                                        *)
(*                                                                         *)
(* A text is a set of words.  Similarity stands for the embedding and the  *)
(* cosine, any integer, below zero too; Bm25 for the rank of FTS5.  The id *)
(* of a memory is hashed from its scope (actor, space and kind), so an     *)
(* update keeps the scope.                                                 *)
(***************************************************************************)
EXTENDS Integers, Sequences, FiniteSets, FiniteSetsExt, SequencesExt, Optional

CONSTANTS
    MemoryIds,          \* numbered in the order of their rows
    ScopeOf,            \* [MemoryIds -> scopes]
    RowsOf,             \* [MemoryIds -> sets of [text, weight]]
    QueryTexts,         \* what is asked: [words, plain]
    QueryScopes,        \* scopes, and None for a query without one
    Similarity(_, _),   \* cosine of the embeddings of two sets of words
    Bm25(_, _),         \* rank of a text that has the words
    Limit,              \* MemoryQuery.limit
    FtsLimit,           \* HybridMemoryRetriever: fts_limit and vector_limit
    MinScore,           \* MemoryRetrievalPolicy.min_score
    Passages,           \* project context and transcript records
    MaxItems,           \* the item limits of the source retrieval
    MaxMoments          \* bound: the clock of the retention checks

VARIABLES
    retriever,      \* text, fts, hybrid or pipeline: fixed by the wiring
    memories,       \* the rows: [text, weight, archived], or None
    entries,        \* the vector index: [text, archived] as of the upsert, or None
    search,         \* the search for memories in flight
    embedded,       \* _query_embedding_cache: texts
    sources,        \* the retrieval from the sources in flight
    moment          \* the clock

retrievalVars == <<retriever, memories, entries, search, embedded, sources, moment>>

-----------------------------------------------------------------------------
\* Mutant: an archived row matches.
MatchesArchived(m, row, q) == q.scope = None \/ ScopeOf[m] = q.scope

\* matches_query; _record_is_out_of_scope and _resolve_vector_results are its
\* negation.  No caller asks for archived rows.
MatchesQuery(m, row, q) ==
    /\ ~row.archived
    /\ q.scope = None \/ ScopeOf[m] = q.scope

\* _matches_filter and _qdrant_filter: the same test of an entry.
EntryMatches(m, entry, q) ==
    /\ ~entry.archived
    /\ q.scope = None \/ ScopeOf[m] = q.scope

\* Best first, ties in the order of the rows.
Ranked(hits) ==
    SetToSortSeq(hits, LAMBDA a, b : \/ a.score > b.score
                                     \/ a.score = b.score /\ a.id < b.id)

FirstOf(seq, n) == SubSeq(seq, 1, Min({n, Len(seq)}))

\* score_text_match: how many words of the query the text has.
TextScore(q, text) == Cardinality(q.text.words \cap text)

\* rank_text_matches over the filtered rows.
RankTextMatches(q) ==
    LET eligible == {m \in MemoryIds : memories[m] # None /\ MatchesQuery(m, memories[m], q)}
        scored == {[id |-> m, row |-> memories[m], score |-> TextScore(q, memories[m].text)] :
                      m \in eligible}
    IN  FirstOf(Ranked({hit \in scored : hit.score > 0}), Limit)

\* The statement of search_fts5: MATCH wants every word of the query, and four
\* times the limit is fetched before any row is checked.
FtsHits(q, limit) ==
    LET hits == {m \in MemoryIds : memories[m] # None /\ q.text.words \subseteq memories[m].text}
    IN  FirstOf(Ranked({[id |-> m, score |-> Bm25(q.text.words, memories[m].text)] : m \in hits}),
                4 * limit)

\* VectorMemoryIndex.search: every entry of the scope has a score.
VectorHits(q, limit) ==
    LET hits == {m \in MemoryIds : entries[m] # None /\ EntryMatches(m, entries[m], q)}
    IN  FirstOf(Ranked({[id |-> m, score |-> Similarity(q.text.words, entries[m].text)] :
                           m \in hits}),
                limit)

-----------------------------------------------------------------------------
\* MemoryReranker: what both lookups found, once, with both scores.
MergeResults(fts, vector) ==
    LET At(seq, m) == {seq[i] : i \in {i \in DOMAIN seq : seq[i].id = m}}
        ScoreIn(seq, m) == IF At(seq, m) = {} THEN 0 ELSE (CHOOSE r \in At(seq, m) : TRUE).score
        Result(m) == CHOOSE r \in IF At(fts, m) # {} THEN At(fts, m) ELSE At(vector, m) : TRUE
    IN  {[id |-> m, row |-> Result(m).row,
          fts |-> ScoreIn(fts, m), vector |-> ScoreIn(vector, m)] :
            m \in {r.id : r \in Range(fts) \cup Range(vector)}}

Sign(n) == IF n < 0 THEN -1 ELSE 1

\* The best score, by which the others are divided; one if it is zero.
Divisor(scores) == IF Max(scores) = 0 THEN 1 ELSE Max(scores)

\* _rank_merged.  The composite is multiplied by the absolute values of the two
\* divisors to keep it whole: a divisor below zero turns the order around.
RankMerged(merged) ==
    LET f == Divisor({r.fts : r \in merged})
        v == Divisor({r.vector : r \in merged})
        Composite(r) == 35 * r.fts * v * Sign(v) + 35 * r.vector * f * Sign(v)
                        + 15 * r.row.weight * f * v * Sign(v)
    IN  FirstOf(Ranked({[id |-> r.id, row |-> r.row, score |-> Composite(r)] : r \in merged}),
                Limit)

Rerank(fts, vector) ==
    LET merged == MergeResults(fts, vector)
    IN  IF merged = {} THEN <<>> ELSE RankMerged(merged)

\* RuleBasedReranker: the words in common count on top of the first score.
RankScoredCandidates(q, found) ==
    FirstOf(Ranked({[r EXCEPT !.score = @ + TextScore(q, r.row.text)] : r \in Range(found)}),
            Limit)

\* _select_items.
SelectItems(found) == FirstOf(SelectSeq(found, LAMBDA r : r.score >= MinScore), Limit)

-----------------------------------------------------------------------------
\* MemoryRetrievalStep.run, MemoryRetrievalPipeline.retrieve: a search is asked
\* and the rows archived at that time are noted.  A blank text asks for nothing.
Ask(text, scope) ==
    /\ search.at \in {"idle", "served", "failed"}
    /\ search' = [at |-> retriever, query |-> [text |-> text, scope |-> scope],
                  raw |-> <<>>, fts |-> <<>>, found |-> <<>>,
                  barred |-> {m \in MemoryIds : memories[m] # None /\ memories[m].archived}]
    /\ UNCHANGED <<retriever, memories, entries, embedded, sources, moment>>

Serve(items) ==
    /\ search' = [search EXCEPT !.at = "served", !.raw = <<>>, !.fts = <<>>, !.found = items]
    /\ UNCHANGED <<retriever, memories, entries, embedded, sources, moment>>

\* The error leaves the step and ends the turn.
FailSearch ==
    /\ search' = [search EXCEPT !.at = "failed", !.raw = <<>>, !.fts = <<>>, !.found = <<>>]
    /\ UNCHANGED <<retriever, memories, entries, embedded, sources, moment>>

GoOn(next) ==
    /\ search' = next
    /\ UNCHANGED <<retriever, memories, entries, embedded, sources, moment>>

\* In-memory store: filter and rank in one call.
SearchText ==
    /\ search.at = "text"
    /\ Serve(RankTextMatches(search.query))

FtsLimitOf == IF retriever = "fts" THEN Limit ELSE FtsLimit

\* The lookup of search_fts5.  The text goes to MATCH as it is: one with
\* punctuation is no query of FTS5.
SearchFts ==
    /\ search.at \in {"fts", "hybrid"}
    /\ IF search.query.text.plain
       THEN GoOn([search EXCEPT !.at = "fts rows", !.raw = FtsHits(search.query, FtsLimitOf)])
       ELSE FailSearch

\* A row of the hits is read and kept if it matches.
Kept(found, hit) ==
    IF memories[hit.id] # None /\ MatchesQuery(hit.id, memories[hit.id], search.query)
    THEN Append(found, [id |-> hit.id, row |-> memories[hit.id], score |-> hit.score])
    ELSE found

ReadRow(at) ==
    /\ search.at = at
    /\ search.raw # <<>>
    /\ GoOn([search EXCEPT !.raw = Tail(@), !.found = Kept(@, Head(search.raw))])

\* The loop of search_fts5 stops at the limit.
ReadFtsRow ==
    /\ search.at = "fts rows"
    /\ Len(search.found) < FtsLimitOf
    /\ ReadRow("fts rows")

\* HybridMemoryRetriever.search goes on to the vector index.
FtsDone ==
    /\ search.at = "fts rows"
    /\ search.raw = <<>> \/ Len(search.found) >= FtsLimitOf
    /\ IF retriever = "fts"
       THEN Serve(search.found)
       ELSE GoOn([search EXCEPT !.at = "vector", !.raw = <<>>,
                                !.fts = search.found, !.found = <<>>])

\* MemoryRetrievalPipeline._embed_query: a cached text is not embedded again; a
\* failed or late embedding is not cached and nothing is served.
EmbedQuery(outcome) ==
    /\ search.at = "pipeline"
    /\ search.query.text \in embedded => outcome = "ok"
    /\ \/ /\ outcome = "ok"
          /\ embedded' = embedded \cup {search.query.text}
          /\ search' = [search EXCEPT !.at = "vector"]
          /\ UNCHANGED <<retriever, memories, entries, sources, moment>>
       \/ /\ outcome # "ok"
          /\ Serve(<<>>)

\* The lookup in the vector index.
SearchVector ==
    /\ search.at = "vector"
    /\ GoOn([search EXCEPT !.at = "vector rows",
                !.raw = VectorHits(search.query,
                                   IF retriever = "hybrid" THEN FtsLimit ELSE Limit)])

\* The index does not answer: the pipeline serves nothing, the hybrid retriever
\* has no handler.
VectorIndexFails ==
    /\ search.at = "vector"
    /\ IF retriever = "pipeline" THEN Serve(<<>>) ELSE FailSearch

\* _resolve_vector_results, _retrieve_vector_candidates: the row is read again
\* and decides, whatever the entry said; the score is the entry's.
ReadVectorRow == ReadRow("vector rows")

\* The end of HybridMemoryRetriever.search.
ServeHybrid ==
    /\ search.at = "vector rows"
    /\ search.raw = <<>>
    /\ retriever = "hybrid"
    /\ Serve(Rerank(search.fts, search.found))

\* MemoryRetrievalPipeline._rerank: without an answer the order of the index
\* stands, a late answer empties the result.
ServePipeline(outcome) ==
    /\ search.at = "vector rows"
    /\ search.raw = <<>>
    /\ retriever = "pipeline"
    /\ Serve(CASE outcome = "unavailable" -> SelectItems(search.found)
               [] outcome = "late" -> <<>>
               [] outcome = "ok" -> SelectItems(RankScoredCandidates(search.query, search.found)))

-----------------------------------------------------------------------------
\* SQLiteMemoryStore.update: the full-text row is replaced with it.
WriteMemory(m, row) ==
    /\ memories' = [memories EXCEPT
            ![m] = [text |-> row.text, weight |-> row.weight, archived |-> FALSE]]
    /\ search' = IF search.at = "idle" THEN search ELSE [search EXCEPT !.barred = @ \ {m}]
    /\ UNCHANGED <<retriever, entries, embedded, sources, moment>>

\* archive: the row changes and its vector entry does not.
Archive(m, archived) ==
    /\ memories[m] # None
    /\ memories' = [memories EXCEPT ![m].archived = archived]
    /\ search' = IF archived \/ search.at = "idle" THEN search
                 ELSE [search EXCEPT !.barred = @ \ {m}]
    /\ UNCHANGED <<retriever, entries, embedded, sources, moment>>

\* MemoryWriteStep._upsert_vector and the rebuild: the entry takes the row as it
\* is now.
IndexMemory(m) ==
    /\ memories[m] # None
    /\ entries' = [entries EXCEPT ![m] = [text |-> memories[m].text,
                                          archived |-> memories[m].archived]]
    /\ UNCHANGED <<retriever, memories, search, embedded, sources, moment>>

-----------------------------------------------------------------------------
\* A passage has an id in the order of its time, a source, an actor (None for
\* anyone's), a space, words and an end of its retention (None for no end).
Expired(p, now) == p.until # None /\ p.until <= now

\* InMemoryProjectContextStore.query, best match first.
QueryProjectContext(q, now) ==
    LET hits == {p \in Passages :
                    /\ p.source = "project_context"
                    /\ p.space = q.space
                    /\ p.actor = None \/ p.actor = q.actor
                    /\ ~Expired(p, now)
                    /\ p.words \cap q.words # {}}
    IN  FirstOf(SetToSortSeq(hits, LAMBDA a, b :
                    LET x == Cardinality(a.words \cap q.words)
                        y == Cardinality(b.words \cap q.words)
                    IN  x > y \/ (x = y /\ a.id > b.id)),
                MaxItems)

\* TranscriptStore.query: the oldest rows of the scope, whatever they say.
QueryTranscriptRows(q) ==
    LET hits == {p \in Passages : /\ p.source = "transcript"
                                  /\ q.actor = None \/ p.actor = q.actor
                                  /\ q.space = None \/ p.space = q.space}
    IN  FirstOf(SetToSortSeq(hits, LAMBDA a, b : a.id < b.id), MaxItems)

NoSources == [at |-> "idle"]

\* RuntimeSourceRetrievalPipeline.retrieve begins both lookups.
AskSources(words, actor, space) ==
    /\ sources.at \in {"idle", "answered"}
    /\ sources' = [at |-> "asked", query |-> [words |-> words, actor |-> actor, space |-> space],
                   project |-> None, rows |-> None, transcript |-> None, items |-> <<>>,
                   expired |-> {p \in Passages : Expired(p, moment)}]
    /\ UNCHANGED <<retriever, memories, entries, search, embedded, moment>>

\* A step of one of the two lookups.
LookupStep(next) ==
    /\ sources.at = "asked"
    /\ sources' = next
    /\ UNCHANGED <<retriever, memories, entries, search, embedded, moment>>

\* _retrieve_projects: nothing without a space, nothing if the store fails.
RetrieveProjects(fails) ==
    /\ sources.at = "asked" /\ sources.project = None
    /\ LookupStep([sources EXCEPT !.project =
            IF fails \/ sources.query.space = None THEN <<>>
            ELSE QueryProjectContext(sources.query, moment)])

\* _retrieve_transcript up to the answer of the store; nothing without a scope.
FetchTranscript(fails) ==
    /\ sources.at = "asked" /\ sources.rows = None
    /\ LookupStep([sources EXCEPT !.rows =
            IF fails \/ (sources.query.actor = None /\ sources.query.space = None) THEN <<>>
            ELSE QueryTranscriptRows(sources.query)])

\* Its end: rows past their retention and rows that have no word of the query
\* are left out.
BoundedRows(rows, q, now) ==
    SelectSeq(rows, LAMBDA p : ~Expired(p, now) /\ p.words \cap q.words # {})

RetrieveTranscript ==
    /\ sources.at = "asked" /\ sources.rows # None /\ sources.transcript = None
    /\ LookupStep([sources EXCEPT !.transcript =
            BoundedRows(sources.rows, sources.query, moment)])

\* Both have ended: project context first.
MergeSources ==
    /\ sources.at = "asked" /\ sources.project # None /\ sources.transcript # None
    /\ LookupStep([sources EXCEPT !.at = "answered", !.rows = None,
            !.items = FirstOf(sources.project \o sources.transcript, MaxItems)])

ClockAdvances ==
    /\ moment < MaxMoments
    /\ moment' = moment + 1
    /\ UNCHANGED <<retriever, memories, entries, search, embedded, sources>>

-----------------------------------------------------------------------------
RetrievalInit ==
    /\ retriever \in {"text", "fts", "hybrid", "pipeline"}
    /\ memories = [m \in MemoryIds |-> None]
    /\ entries = [m \in MemoryIds |-> None]
    /\ search = [at |-> "idle"]
    /\ embedded = {}
    /\ sources = NoSources
    /\ moment = 0

MemoryStep ==
    \/ \E text \in QueryTexts, scope \in QueryScopes : Ask(text, scope)
    \/ SearchText
    \/ SearchFts
    \/ ReadFtsRow
    \/ FtsDone
    \/ \E outcome \in {"ok", "unavailable", "late"} : EmbedQuery(outcome) \/ ServePipeline(outcome)
    \/ SearchVector
    \/ VectorIndexFails
    \/ ReadVectorRow
    \/ ServeHybrid
    \/ \E m \in MemoryIds :
           \/ \E row \in RowsOf[m] : WriteMemory(m, row)
           \/ \E archived \in BOOLEAN : Archive(m, archived)
           \/ IndexMemory(m)

SourceStep ==
    \/ \E p \in Passages, actor \in {q.actor : q \in Passages}, space \in {q.space : q \in Passages} \cup {None} :
           AskSources(p.words, actor, space)
    \/ \E fails \in BOOLEAN : RetrieveProjects(fails) \/ FetchTranscript(fails)
    \/ RetrieveTranscript
    \/ MergeSources
    \/ ClockAdvances

RetrievalNext == MemoryStep \/ SourceStep

RetrievalSpec == RetrievalInit /\ [][RetrievalNext]_retrievalVars

-----------------------------------------------------------------------------
\* Nothing reaches a prompt that was withdrawn before it was asked for: not a
\* memory that was archived then and still is, whose vector entry archiving
\* leaves behind, and not a passage whose retention had ended; and nothing of
\* another scope, whatever the index says of it
\* (HybridMemoryRetriever._resolve_vector_results, search_fts5,
\* RuntimeSourceRetrievalPipeline._retrieve_transcript).
NothingWithdrawnServed ==
    /\ search.at = "served" =>
           \A i \in DOMAIN search.found :
               /\ search.found[i].id \notin search.barred
               /\ search.query.scope \in {None, ScopeOf[search.found[i].id]}
    /\ sources.at = "answered" =>
           \A i \in DOMAIN sources.items :
               /\ sources.items[i] \notin sources.expired
               /\ sources.query.actor # None =>
                      sources.items[i].actor \in {None, sources.query.actor}
=============================================================================
