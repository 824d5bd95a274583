---------------------------- MODULE SequentialFetch ----------------------------
(***************************************************************************)
(* One run of a connector that asks for one thing after the other:         *)
(* rest_api/fetcher.py, github_readme/fetcher.py or github_pdf/fetcher.py, *)
(* each with the extract() of its connector.  The GitHub ones go through   *)
(* GitHubClient.request, of which only the outcome matters here (it is     *)
(* modelled in GithubIssuesFetch): data, (None, None) after the last       *)
(* attempt, or a ConnectorException.  What is fetched are items in the     *)
(* order of the list they come from: elements of the response, directories *)
(* with a README, PDF files that match the path filter.                    *)
(***************************************************************************)
EXTENDS Integers

CONSTANT MaxItems  \* bound: items the other side has

ASSUME MaxItemsAssumption == MaxItems \in Nat

VARIABLES
    connector,  \* "rest_api", "readme" or "pdf": never changes
    size,       \* how many items the other side has: never changes
    phase,      \* what is asked for next, "items", "ended" or "raised"
    left,       \* listed items the loop has not come to
    unlisted,   \* items a truncated tree does not name
    skipped,    \* items passed over with a warning
    out         \* items yielded

fetchVars == <<connector, size, phase, left, unlisted, skipped, out>>

All == 1..size

\* A configuration may give the PDF connector a ref.
FetchInit ==
    /\ size \in 0..MaxItems
    /\ unlisted = {}
    /\ skipped = {}
    /\ out = {}
    /\ \/ connector = "rest_api" /\ phase = "response" /\ left = {}
       \/ connector = "pdf" /\ phase \in {"repo", "heads"} /\ left = {}
       \/ /\ connector = "readme"
          /\ phase = "items"
          /\ left = All

-----------------------------------------------------------------------------
(* Finding out what there is. *)

Moves(from, to) ==
    /\ phase = from
    /\ phase' = to
    /\ UNCHANGED <<connector, size, out>>

Nothing == UNCHANGED <<left, unlisted, skipped>>

\* A request that must answer: an empty answer raises like an exception.
Needs(what, next) ==
    /\ \/ Moves(what, next)
       \/ Moves(what, "raised")
    /\ Nothing

\* The repository's default branch, if no ref is given.
GetsRepo == Needs("repo", "heads")

\* Mutant: an empty answer is taken for an empty repository.
MutantGetsHead ==
    /\ \/ Moves("heads", "commit")
       \/ Moves("heads", "items")
       \/ Moves("heads", "raised")
    /\ Nothing

\* git/ref/heads/<ref>. Only an empty answer leads to commits/<ref>: a 404 has
\* raised in the client.
GetsHead ==
    /\ \/ Moves("heads", "commit")
       \/ Moves("heads", "named")
       \/ Moves("heads", "raised")
    /\ Nothing

GetsNamed == Needs("named", "tree")

GetsCommit == Needs("commit", "tree")

\* The recursive tree. "truncated" in the answer is not looked at.
GetsTree ==
    \/ /\ Moves("tree", "items")
       /\ \E n \in 0..size :
            /\ left' = 1..n
            /\ unlisted' = (n + 1)..size
       /\ UNCHANGED skipped
    \/ Moves("tree", "raised") /\ Nothing

\* The one GET or POST. Status, JSON, json_path and the fields of every item
\* are looked at before the first document is yielded; what is no object is
\* skipped.
GetsResponse ==
    \/ /\ Moves("response", "items")
       /\ \E objects \in SUBSET All :
            /\ left' = objects
            /\ skipped' = All \ objects
       /\ UNCHANGED unlisted
    \/ Moves("response", "raised") /\ Nothing

-----------------------------------------------------------------------------
(* The loop over the items. *)

IsNext(i) ==
    /\ phase = "items"
    /\ i \in left
    /\ \A j \in left : i <= j

\* The item arrives, is decoded, chunked and yielded.
Yields(i) ==
    /\ IsNext(i)
    /\ left' = left \ {i}
    /\ out' = out \cup {i}
    /\ UNCHANGED <<connector, size, phase, unlisted, skipped>>

\* Mutant: a README that cannot be had is passed over.
MutantGivesUp(i) ==
    /\ IsNext(i)
    /\ connector \in {"pdf", "readme"}
    /\ left' = left \ {i}
    /\ skipped' = IF connector = "pdf" THEN skipped \cup {i} ELSE skipped
    /\ UNCHANGED <<connector, size, phase, unlisted, out>>

\* Mutant: no `continue` after the warning.
MutantGoesOn(i) ==
    /\ IsNext(i)
    /\ connector = "pdf"
    /\ skipped' = skipped \cup {i}
    /\ UNCHANGED <<connector, size, phase, left, unlisted, out>>

\* A PDF whose request was given up, or whose content is of another encoding,
\* no PDF, or without text, is passed over.
GivesUp(i) ==
    /\ IsNext(i)
    /\ connector = "pdf"
    /\ left' = left \ {i}
    /\ skipped' = skipped \cup {i}
    /\ UNCHANGED <<connector, size, phase, unlisted, out>>

NoDirectories == connector = "readme" /\ size = 0

\* A README connector without directories, a README that is missing or cannot
\* be decoded, any request that raises, or the chunker.
Raises ==
    /\ left # {} \/ NoDirectories
    /\ Moves("items", "raised")
    /\ Nothing

Finishes ==
    /\ left = {} /\ ~NoDirectories
    /\ Moves("items", "ended")
    /\ Nothing

FetchNext ==
    \/ GetsRepo \/ GetsHead \/ GetsNamed \/ GetsCommit \/ GetsTree
    \/ GetsResponse
    \/ \E i \in left : Yields(i) \/ GivesUp(i)
    \/ Raises
    \/ Finishes

FetchSpec == FetchInit /\ [][FetchNext]_fetchVars

-----------------------------------------------------------------------------
(* Properties. *)

Phases == {"repo", "heads", "named", "commit", "tree", "response", "items",
           "ended", "raised"}

\* Types, and the bookkeeping of the loop: an item is still to come, passed
\* over, unlisted or yielded, never two of these.
FetchTypeOK ==
    /\ connector \in {"rest_api", "readme", "pdf"}
    /\ size \in 0..MaxItems
    /\ phase \in Phases
    /\ left \subseteq All
    /\ unlisted \subseteq All
    /\ skipped \subseteq All
    /\ out \subseteq All
    /\ left \cap (out \cup skipped \cup unlisted) = {}
    /\ out \cap (skipped \cup unlisted) = {}

\* What the other side keeps from the connector. A README is never excused:
\* that connector yields all of them or raises.
Excused == IF connector = "readme" THEN {} ELSE skipped \cup unlisted

FetchStream == INSTANCE DocumentStream
                 WITH items <- All,
                      excused <- Excused,
                      stage <- IF phase \in {"ended", "raised"}
                                 THEN phase ELSE "open"

\* fetch_documents, fetch_readmes and fetch_pdfs yield each item at most once
\* and do not end without an error while one is neither yielded nor passed
\* over with a reason.
FetchImplementsStream == FetchStream!Spec

=============================================================================
