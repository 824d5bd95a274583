------------------------------- MODULE Retrieval -------------------------------
(***************************************************************************)
(* A read of one source's documents while a synchronisation or a deletion  *)
(* changes the store between its queries: a search (search_source of       *)
(* sources/service.py, hybrid_search of either document store,             *)
(* reciprocal_rank_fusion of document_store/ranking.py) or a page of the   *)
(* listing (get_source_documents).  A document is its id.  How a server    *)
(* ranks is its own business: each query answers with any ranking of at    *)
(* most top_k documents, fewer where an index or a filter finds fewer.     *)
(***************************************************************************)
EXTENDS Integers, FiniteSets, Sequences

CONSTANTS
    Docs,     \* ids of documents of the source
    TopK,     \* top_k, and the limit of a listing
    Constant  \* constant = 60

ASSUME RetrievalAssumption ==
    TopK \in Nat \ {0} /\ Constant \in Nat \ {0} /\ IsFiniteSet(Docs)

VARIABLES
    backend,   \* "postgres" or "redis": never changes
    exists,    \* the source has metadata
    docs,      \* its documents in the store
    pc,        \* where the request is, or its response
    semantic,  \* semantic_results
    text,      \* text_results
    keys,      \* Redis: the page of keys scan_iter found
    seen,      \* auxiliary: what was in the store when a query was answered
    result     \* what is answered

store == <<backend, exists, docs>>
reader == <<pc, semantic, text, keys, seen, result>>
vars == <<store, reader>>

Elements(s) == {s[i] : i \in DOMAIN s}

\* All orders in which at most top_k of S can come.
Rankings(S) ==
    UNION {{s \in [1..n -> S] : \A i, j \in 1..n : s[i] = s[j] => i = j} :
             n \in 0..TopK}

-----------------------------------------------------------------------------
(* reciprocal_rank_fusion. *)

\* A common multiple of the ranks' denominators, which makes scores integers.
Unit ==
    LET product[n \in 0..TopK] ==
            IF n = 0 THEN 1 ELSE product[n - 1] * (n - 1 + Constant)
    IN  product[TopK]

\* Mutant: the rank counts from the end of the list.
MutantWeight(d, list) ==
    IF d \notin Elements(list) THEN 0
    ELSE LET i == CHOOSE i \in DOMAIN list : list[i] = d
         IN  Unit \div (Len(list) - i + Constant)

\* 1 / (rank + constant), with ranks from 0, in units of 1 / Unit.
Weight(d, list) ==
    IF d \notin Elements(list) THEN 0
    ELSE LET i == CHOOSE i \in DOMAIN list : list[i] = d
         IN  Unit \div (i - 1 + Constant)

Score(d, lists) == Weight(d, lists[1]) + Weight(d, lists[2])

\* Mutant: the full-text list goes first.
MutantMetFirst(d, e, lists) ==
    LET order == lists[2] \o lists[1]
        First(x) == CHOOSE i \in DOMAIN order :
                        order[i] = x /\ \A j \in 1..(i - 1) : order[j] # x
    IN  First(d) < First(e)

\* The dict keeps the order in which documents were met; semantic ones first.
MetFirst(d, e, lists) ==
    LET order == lists[1] \o lists[2]
        First(x) == CHOOSE i \in DOMAIN order :
                        order[i] = x /\ \A j \in 1..(i - 1) : order[j] # x
    IN  First(d) < First(e)

\* sorted(..., reverse=True) is stable.
Before(d, e, lists) ==
    \/ Score(d, lists) > Score(e, lists)
    \/ Score(d, lists) = Score(e, lists) /\ MetFirst(d, e, lists)

Hits(lists) == Elements(lists[1]) \cup Elements(lists[2])

Smaller(a, b) == IF a < b THEN a ELSE b

\* Mutant: the answer is no longer than the semantic list.
MutantFusion(lists) ==
    LET hits == Hits(lists)
    IN  [i \in 1..Smaller(TopK, Len(lists[1])) |->
            CHOOSE d \in hits :
                Cardinality({e \in hits : Before(e, d, lists)}) = i - 1]

\* reciprocal_rank_fusion: the best TopK of all hits.
Fusion(lists) ==
    LET hits == Hits(lists)
    IN  [i \in 1..Smaller(TopK, Cardinality(hits)) |->
            CHOOSE d \in hits :
                Cardinality({e \in hits : Before(e, d, lists)}) = i - 1]

-----------------------------------------------------------------------------
(* The request. *)

Init ==
    /\ backend \in {"postgres", "redis"}
    /\ exists \in BOOLEAN
    /\ docs \in IF exists THEN SUBSET Docs ELSE {{}}
    /\ pc = "begin"
    /\ semantic = <<>>
    /\ text = <<>>
    /\ keys = <<>>
    /\ seen = {}
    /\ result = <<>>

\* metadata_exists, of either request.
Begins ==
    /\ pc = "begin"
    /\ pc' \in IF exists THEN {"semantic", "list"} ELSE {"not_found"}
    /\ UNCHANGED <<store, semantic, text, keys, seen, result>>

\* semantic_search, on the exact path or over half-precision candidates.
SemanticSearch ==
    /\ pc = "semantic"
    /\ semantic' \in Rankings(docs)
    /\ seen' = docs
    /\ pc' = "text"
    /\ UNCHANGED <<store, text, keys, result>>

\* full_text_search, fusion and answer.
FullTextSearch ==
    /\ pc = "text"
    /\ text' \in Rankings(docs)
    /\ seen' = seen \cup docs
    /\ result' = Fusion(<<semantic, text'>>)
    /\ pc' = "answered"
    /\ UNCHANGED <<store, semantic, keys>>

\* get_documents: one SELECT, of rows in no order.
ListsRows ==
    /\ pc = "list" /\ backend = "postgres"
    /\ result' \in Rankings(docs)
    /\ seen' = docs
    /\ pc' = "listed"
    /\ UNCHANGED <<store, semantic, text, keys>>

\* get_documents of Redis: the keys as SCAN happens to find them, which may be
\* twice, and a page of those.
ScansKeys ==
    /\ pc = "list" /\ backend = "redis"
    /\ keys' \in UNION {[1..n -> docs] : n \in 0..TopK}
    /\ pc' = "keys"
    /\ UNCHANGED <<store, semantic, text, seen, result>>

\* Mutant: a hash that is gone is answered like the others.
MutantReadsHashes ==
    /\ pc = "keys"
    /\ seen' = docs
    /\ pc' = "listed" /\ result' = keys
    /\ UNCHANGED <<store, semantic, text, keys>>

\* One transaction of HMGETs. A hash that is gone has fields of None, and
\* _map_document raises: the request is answered 500.
ReadsHashes ==
    /\ pc = "keys"
    /\ seen' = docs
    /\ IF Elements(keys) \subseteq docs
         THEN pc' = "listed" /\ result' = keys
         ELSE pc' = "error" /\ UNCHANGED result
    /\ UNCHANGED <<store, semantic, text, keys>>

\* The embedding request or a query raises.
ReadFails ==
    /\ pc \in {"semantic", "text", "list", "keys"}
    /\ pc' = "error"
    /\ UNCHANGED <<store, semantic, text, keys, seen, result>>

-----------------------------------------------------------------------------
(* The other processes: see SourceLifecycle. *)

\* A synchronisation writes a batch.
Adds ==
    /\ \E S \in SUBSET Docs : docs' = docs \cup S
    /\ UNCHANGED <<backend, exists, reader>>

\* It removes stale documents, or a deletion removes all.
Removes ==
    /\ \E S \in SUBSET docs : docs' = docs \ S
    /\ UNCHANGED <<backend, exists, reader>>

\* A source is created, or the last step of its deletion taken.
MetadataChanges ==
    /\ exists' = ~exists
    /\ UNCHANGED <<backend, docs, reader>>

Responses == {"answered", "listed", "not_found", "error"}

Next ==
    \/ Begins \/ SemanticSearch \/ FullTextSearch
    \/ ListsRows \/ ScansKeys \/ ReadsHashes
    \/ ReadFails
    \/ pc \notin Responses /\ (Adds \/ Removes \/ MetadataChanges)

Spec == Init /\ [][Next]_vars

-----------------------------------------------------------------------------
(* Properties. *)

\* Whatever is added and removed meanwhile, a search answers as many documents
\* as were found and asked for, none twice, each in the store at one of its
\* two queries; and a page of the listing was in the store as a whole.
ResultsWereFound ==
    pc \in {"answered", "listed"} =>
        /\ Elements(result) \subseteq seen
        /\ pc = "answered" \/ backend = "postgres" =>
             Cardinality(Elements(result)) = Len(result)
        /\ pc = "answered" =>
             Len(result) = Smaller(TopK, Cardinality(Hits(<<semantic, text>>)))

\* d is in every list e is in, and not behind it there.
AtLeastAsGood(d, e) ==
    \A list \in {semantic, text} :
        \A j \in DOMAIN list :
            list[j] = e => \E i \in 1..j : list[i] = d

Position(d) == CHOOSE i \in DOMAIN result : result[i] = d

\* The fusion never turns an order round that both queries agree on: what
\* comes before e in every list e is in also comes before e in the answer, and
\* is not cut off before e is.
AgreedOrder ==
    pc = "answered" =>
        \A e \in Elements(result) : \A d \in Docs \ {e} :
            AtLeastAsGood(d, e) /\ ~AtLeastAsGood(e, d) =>
                d \in Elements(result) /\ Position(d) < Position(e)

\* The nearest document of the semantic query is never cut off, however many
\* documents both queries found. (The best of the full-text query can be.)
FirstHitKept ==
    pc = "answered" /\ semantic # <<>> => semantic[1] \in Elements(result)

=============================================================================
