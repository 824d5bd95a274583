-------------------------- MODULE GithubIssuesFetch --------------------------
(***************************************************************************)
(* One run of the GitHub issues connector: the page loop and the comment   *)
(* tasks of connectors/github_issues/fetcher.py, all of whose requests go  *)
(* through GitHubClient.request of connectors/common/github_client.py,     *)
(* which shares a semaphore and the rate-limit event between them.         *)
(* Coroutines of one event loop: a step runs from one await to the next.   *)
(***************************************************************************)
EXTENDS Integers, FiniteSets, Sequences

CONSTANTS
    Main,          \* the page loop of fetch_issues
    Pages,         \* the pages the API serves: a sequence of sets of issues
    Wanted,        \* the issues process_item does not skip
    CommentPages,  \* CommentPages[i]: pages of comments of issue i
    MaxAttempts,
    Concurrency    \* concurrent_requests

Issues == UNION {Pages[k] : k \in DOMAIN Pages}
Callers == Issues \cup {Main}

ASSUME MainAssumption == Main \notin Issues
ASSUME IssueAssumption ==
    Wanted \subseteq Issues /\ CommentPages \in [Issues -> Nat]
\* The list does not shift between its requests: no issue is on two pages, and
\* only the last page may be empty. The code asks for it sorted by last update,
\* so this is an assumption about what happens to the issues during a run.
ASSUME PageAssumption ==
    /\ Pages \in Seq(SUBSET Issues) /\ Len(Pages) > 0
    /\ \A j, k \in DOMAIN Pages : j # k => Pages[j] \cap Pages[k] = {}
    /\ \A k \in DOMAIN Pages : Pages[k] = {} => k = Len(Pages)
ASSUME LimitAssumption == MaxAttempts \in Nat \ {0} /\ Concurrency \in Nat \ {0}

VARIABLES
    event,      \* rate_limit_event is set
    pc,         \* pc[c]: where the request of c is
    tries,      \* tries[c]: its retry_count
    page,       \* the page Main is at
    batch,      \* issues of that page whose tasks are not collected yet
    comments,   \* comments[i]: comment pages fetched
    delivered,  \* delivered[i]: "no", or yielded "whole" or "short" of comments
    stage,      \* Main: "page", "items", "ended" or "raised"
    exhausted   \* auxiliary: callers whose request returned (None, None)

vars == <<event, pc, tries, page, batch, comments, delivered, stage, exhausted>>

\* A request holds its slot of the semaphore while it sleeps, too.
InSlot == {c \in Callers : pc[c] \in {"sent", "limited", "backing_off"}}

Running == stage \in {"page", "items"}

\* An answer or the end of a sleep reaches c's coroutine.
Resumes(c, at) ==
    /\ Running
    /\ pc[c] = at

Init ==
    /\ event = TRUE
    /\ pc = [c \in Callers |-> IF c = Main THEN "ready" ELSE "idle"]
    /\ tries = [c \in Callers |-> 0]
    /\ page = 1
    /\ batch = {}
    /\ comments = [i \in Issues |-> 0]
    /\ delivered = [i \in Issues |-> "no"]
    /\ stage = "page"
    /\ exhausted = {}

-----------------------------------------------------------------------------
(* GitHubClient.request. *)

\* `await rate_limit_event.wait()` returns at once when the event is set, and
\* the semaphore is taken at once when a slot is free and nobody is queued.
Enter(c) ==
    /\ Running
    /\ pc[c] = "ready"
    /\ pc' = [pc EXCEPT ![c] =
                 IF ~event THEN "waiting"
                 ELSE IF /\ Cardinality(InSlot) < Concurrency
                         /\ \A d \in Callers : pc[d] # "queued"
                   THEN "sent" ELSE "queued"]
    /\ UNCHANGED <<event, tries, page, batch, comments, delivered, stage, exhausted>>

\* A queued caller gets the slot another one gave back.
Send(c) ==
    /\ Running
    /\ pc[c] = "queued"
    /\ Cardinality(InSlot) < Concurrency
    /\ pc' = [pc EXCEPT ![c] = "sent"]
    /\ UNCHANGED <<event, tries, page, batch, comments, delivered, stage, exhausted>>

\* 429 or 403: hold the others back and sleep.
Throttled(c) ==
    /\ Resumes(c, "sent")
    /\ event' = FALSE
    /\ pc' = [pc EXCEPT ![c] = "limited"]
    /\ UNCHANGED <<tries, page, batch, comments, delivered, stage, exhausted>>

\* 429 or 403 with a Retry-After that int() refuses.
BadRetryAfter(c) ==
    /\ Resumes(c, "sent")
    /\ event' = FALSE
    /\ pc' = [pc EXCEPT ![c] = "raised"]
    /\ UNCHANGED <<tries, page, batch, comments, delivered, stage, exhausted>>

\* 404, 401 or anything unexpected: ConnectorException.
Rejected(c) ==
    /\ Resumes(c, "sent")
    /\ pc' = [pc EXCEPT ![c] = "raised"]
    /\ UNCHANGED <<event, tries, page, batch, comments, delivered, stage, exhausted>>

\* A ClientError, raise_for_status included: sleep, with the slot held.
Broken(c) ==
    /\ Resumes(c, "sent")
    /\ pc' = [pc EXCEPT ![c] = "backing_off"]
    /\ UNCHANGED <<event, tries, page, batch, comments, delivered, stage, exhausted>>

\* When the event is set, the callers parked in wait() go on together.
Released(isSet) ==
    [c \in Callers |-> IF isSet /\ pc[c] = "waiting" THEN "queued" ELSE pc[c]]

\* retry_count += 1 and round the loop, with the event in the state given.
\* After max_attempts the answer is (None, None): the page loop breaks, and
\* fetch_comments returns what it has.
Retries(c, isSet) ==
    /\ tries' = [tries EXCEPT ![c] = @ + 1]
    /\ IF tries[c] + 1 < MaxAttempts
         THEN /\ pc' = [Released(isSet) EXCEPT ![c] = "ready"]
              /\ UNCHANGED <<stage, exhausted>>
         ELSE /\ pc' = [Released(isSet) EXCEPT
                          ![c] = IF c = Main THEN "idle" ELSE "finished"]
              /\ stage' = IF c = Main THEN "ended" ELSE stage
              /\ exhausted' = exhausted \cup {c}

\* Mutant: the event is not set again after the sleep.
MutantLimitLifted(c) ==
    /\ Resumes(c, "limited")
    /\ Retries(c, event)
    /\ UNCHANGED <<event, page, batch, comments, delivered>>

\* The sleep for the rate limit ends: the event is set, whoever else sleeps.
LimitLifted(c) ==
    /\ Resumes(c, "limited")
    /\ event' = TRUE
    /\ Retries(c, TRUE)
    /\ UNCHANGED <<page, batch, comments, delivered>>

BackoffEnds(c) ==
    /\ Resumes(c, "backing_off")
    /\ Retries(c, event)
    /\ UNCHANGED <<event, page, batch, comments, delivered>>

-----------------------------------------------------------------------------
(* GitHubIssuesFetcher. *)

\* The tasks of a page start: the issues that need no comments finish at once.
FirstStep(i) ==
    IF i \in Wanted /\ CommentPages[i] > 0 THEN "ready" ELSE "finished"

\* A page of issues arrives; an empty one ends the loop.
PageArrives ==
    /\ Resumes(Main, "sent")
    /\ batch' = Pages[page]
    /\ stage' = IF Pages[page] = {} THEN "ended" ELSE "items"
    /\ pc' = [c \in Callers |-> IF c = Main THEN "idle"
                               ELSE IF c \in Pages[page] THEN FirstStep(c)
                               ELSE pc[c]]
    /\ UNCHANGED <<event, tries, page, comments, delivered, exhausted>>

\* A page of comments arrives, the last one or one with a next link.
CommentsArrive(i) ==
    /\ Resumes(i, "sent")
    /\ comments' = [comments EXCEPT ![i] = @ + 1]
    /\ tries' = [tries EXCEPT ![i] = 0]
    /\ pc' = [pc EXCEPT ![i] = IF comments[i] + 1 = CommentPages[i]
                                 THEN "finished" ELSE "ready"]
    /\ UNCHANGED <<event, page, batch, delivered, stage, exhausted>>

\* What process_item returns for i.
Result(i) ==
    IF i \notin Wanted THEN "no"
    ELSE IF comments[i] = CommentPages[i] THEN "whole" ELSE "short"

\* as_completed hands a finished task to the page loop, which yields it; an
\* exception ends the generator.
Collect(i) ==
    /\ stage = "items"
    /\ i \in batch
    /\ \/ /\ pc[i] = "finished"
          /\ delivered' = [delivered EXCEPT ![i] = Result(i)]
          /\ batch' = batch \ {i}
          /\ UNCHANGED stage
       \/ /\ pc[i] = "raised"
          /\ stage' = "raised"
          /\ UNCHANGED <<delivered, batch>>
    /\ UNCHANGED <<event, pc, tries, page, comments, exhausted>>

\* Mutant: a page whose tasks are not all collected is left.
MutantNextPage ==
    /\ stage = "items"
    /\ Cardinality(batch) <= 1
    /\ IF page < Len(Pages)
         THEN /\ page' = page + 1
              /\ stage' = "page"
              /\ tries' = [tries EXCEPT ![Main] = 0]
              /\ pc' = [pc EXCEPT ![Main] = "ready"]
         ELSE stage' = "ended" /\ UNCHANGED <<page, tries, pc>>
    /\ UNCHANGED <<event, batch, comments, delivered, exhausted>>

\* All tasks of the page are collected: follow the next link, or end.
NextPage ==
    /\ stage = "items"
    /\ batch = {}
    /\ IF page < Len(Pages)
         THEN /\ page' = page + 1
              /\ stage' = "page"
              /\ tries' = [tries EXCEPT ![Main] = 0]
              /\ pc' = [pc EXCEPT ![Main] = "ready"]
         ELSE stage' = "ended" /\ UNCHANGED <<page, tries, pc>>
    /\ UNCHANGED <<event, batch, comments, delivered, exhausted>>

\* An exception in the page request leaves the generator.
PageRaises ==
    /\ stage = "page"
    /\ pc[Main] = "raised"
    /\ stage' = "raised"
    /\ UNCHANGED <<event, pc, tries, page, batch, comments, delivered, exhausted>>

Answer(c) ==
    \/ Throttled(c)
    \/ BadRetryAfter(c)
    \/ Rejected(c)
    \/ Broken(c)
    \/ c = Main /\ PageArrives
    \/ c \in Issues /\ CommentsArrive(c)

Step(c) == Enter(c) \/ Send(c) \/ Answer(c) \/ LimitLifted(c) \/ BackoffEnds(c)

Next ==
    \/ \E c \in Callers : Step(c)
    \/ \E i \in Issues : Collect(i)
    \/ NextPage
    \/ PageRaises

Spec == Init /\ [][Next]_vars

\* Fairness: the event loop runs what is ready, every request is answered or
\* fails (aiohttp's timeouts are errors), and sleeps end.
FairSpec ==
    /\ Spec
    /\ \A c \in Callers : WF_vars(Step(c))
    /\ \A i \in Issues : WF_vars(Collect(i))
    /\ WF_vars(NextPage)
    /\ WF_vars(PageRaises)

-----------------------------------------------------------------------------
(* Properties. *)

\* What is missing from a run that ends without an error is accounted for: a
\* short issue by its own exhausted request, an absent one by the page loop's.
\* Without exhausted requests the run is complete; the caller deletes what a
\* run does not deliver.
LossesExplained ==
    stage = "ended" =>
        \A i \in Wanted :
            /\ delivered[i] = "short" => i \in exhausted
            /\ delivered[i] = "no" => Main \in exhausted

\* While the event is clear, somebody is still going to set it, or the run is
\* about to end in an error: parked callers are never forgotten.
SomebodyWakesThem ==
    ~event /\ Running => \E c \in Callers : pc[c] \in {"limited", "raised"}

\* Every run of the connector comes to an end.
EveryFetchEnds == <>(stage \in {"ended", "raised"})

\* The run as its caller sees it: an issue yielded short counts as yielded.
Stream == INSTANCE DocumentStream
            WITH items <- Wanted,
                 out <- {i \in Issues : delivered[i] # "no"},
                 excused <- IF Main \in exhausted THEN Wanted ELSE {},
                 stage <- IF Running THEN "open" ELSE stage

\* Whatever order the comment tasks end in, the generator yields each issue
\* once, nothing after an error, and leaves out none but for an exhausted page.
ImplementsStream == Stream!Spec

=============================================================================
