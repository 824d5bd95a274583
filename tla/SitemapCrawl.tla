----------------------------- MODULE SitemapCrawl -----------------------------
(***************************************************************************)
(* One run of the sitemap connector: parse_sitemap, fetch_robots_txt and   *)
(* the page tasks of connectors/sitemap/crawler.py, collected by           *)
(* fetch_sitemap_pages and chunked by extract of sitemap/connector.py.     *)
(* Coroutines of one event loop: a step runs from one await to the next.   *)
(* The back-off times are left out, so sleeps end in any order.            *)
(***************************************************************************)
EXTENDS Integers, FiniteSets, Sequences

CONSTANTS
    Root,         \* config.sitemap_url
    Sitemaps,     \* URLs of sitemaps
    Urls,         \* URLs of pages
    Sites,        \* what the server's sitemaps may say: see SiteAssumption
    Wanted,       \* URLs include_pattern finds and exclude_pattern does not
    Disallowed,   \* URLs robots.txt forbids to the user agent
    Concurrency,  \* concurrent_requests
    MaxAttempts,  \* max_attempts of fetch_page
    MaxDepth,     \* nested calls the interpreter allows (RecursionError)
    MaxTasks      \* bound: tasks fairness is stated for

\* A sitemap is an index of other sitemaps or a list of pages.
ASSUME SiteAssumption ==
    /\ Root \in Sitemaps
    /\ Sites \subseteq [nested : [Sitemaps -> Seq(Sitemaps)],
                        listed : [Sitemaps -> Seq(Urls)]]
ASSUME LimitAssumption ==
    /\ Concurrency \in Nat \ {0}
    /\ MaxAttempts \in Nat \ {0}
    /\ MaxDepth \in Nat
    /\ MaxTasks \in Nat

VARIABLES
    site,        \* the member of Sites this run meets: never changes
    stage,       \* "sitemaps", "robots", "pages", "ended" or "raised"
    pending,     \* calls of parse_sitemap to come, the next one first
    urls,        \* all_urls, then the URLs the patterns left
    disallowed,  \* what the robots parser forbids
    pc,          \* pc[k]: where the task of urls[k] is
    tries,       \* tries[k]: its retry_count
    failures,    \* auxiliary: failed answers the server gave it
    collected    \* tasks as_completed has handed to the loop

taskVars == <<pc, tries, failures, collected>>
vars == <<site, stage, pending, urls, disallowed, taskVars>>

Over == stage \in {"ended", "raised"}

\* Mutant: the semaphore is not released after a page was read.
MutantInSlot ==
    {k \in DOMAIN pc : pc[k] \in {"sent", "again", "sleeping", "fetched"}}

\* A task keeps its slot of the semaphore while it sleeps.
InSlot == {k \in DOMAIN pc : pc[k] \in {"sent", "again", "sleeping"}}

Dropped == {"skipped", "gone", "lost"}

Init ==
    /\ site \in Sites
    /\ stage = "sitemaps"
    /\ pending = <<[map |-> Root, depth |-> 1]>>
    /\ urls = <<>>
    /\ disallowed = {}
    /\ pc = <<>>
    /\ tries = <<>>
    /\ failures = <<>>
    /\ collected = {}

-----------------------------------------------------------------------------
(* The sitemaps, depth first, and robots.txt. *)

Calls(maps, depth) ==
    [i \in DOMAIN maps |-> [map |-> maps[i], depth |-> depth]]

\* What the patterns leave of list, in its order.
Filtered(list) ==
    LET kept[n \in 0..Len(list)] ==
          IF n = 0 THEN <<>>
          ELSE IF list[n] \in Wanted THEN Append(kept[n - 1], list[n])
          ELSE kept[n - 1]
    IN  kept[Len(list)]

\* Mutant: return inside the loop over the nested sitemaps.
MutantFollowing(call) ==
    LET nested == site.nested[call.map]
    IN  IF nested = <<>> THEN <<>> ELSE Calls(<<Head(nested)>>, call.depth + 1)

\* The calls an answer leads to.
Following(call) == Calls(site.nested[call.map], call.depth + 1)

\* An answer that parses. After the last one the patterns are applied, and an
\* empty list, before or after them, raises.
SitemapArrives ==
    /\ stage = "sitemaps"
    /\ Head(pending).depth <= MaxDepth
    /\ LET call == Head(pending)
           left == Following(call) \o Tail(pending)
           found == urls \o site.listed[call.map]
       IN  /\ pending' = left
           /\ urls' = IF left = <<>> THEN Filtered(found) ELSE found
           /\ stage' = IF left # <<>> THEN "sitemaps"
                       ELSE IF urls' # <<>> THEN "robots" ELSE "raised"
    /\ UNCHANGED <<site, disallowed, taskVars>>

\* 404, a status raise_for_status() objects to, a connection error, or one
\* call too many on the stack: sitemaps that name each other are not noticed.
SitemapFails ==
    /\ stage = "sitemaps"
    /\ stage' = "raised"
    /\ UNCHANGED <<site, pending, urls, disallowed, taskVars>>

\* Whatever is wrong with robots.txt allows everything. All tasks are created.
RobotsArrive ==
    /\ stage = "robots"
    /\ disallowed' \in {Disallowed, {}}
    /\ stage' = "pages"
    /\ pc' = [k \in DOMAIN urls |-> "waiting"]
    /\ tries' = [k \in DOMAIN urls |-> 0]
    /\ failures' = [k \in DOMAIN urls |-> 0]
    /\ UNCHANGED <<site, pending, urls, collected>>

-----------------------------------------------------------------------------
(* The page tasks: fetch_with_semaphore, fetch_page. *)

Goes(k, from, to) ==
    /\ stage = "pages"
    /\ pc[k] = from
    /\ pc' = [pc EXCEPT ![k] = to]
    /\ UNCHANGED <<site, stage, pending, urls, disallowed, collected>>

\* Mutant: the semaphore is left before the request is made.
MutantEnter(k) ==
    /\ \A j \in 1..(k - 1) : pc[j] # "waiting"
    /\ Goes(k, "waiting", IF urls[k] \in disallowed THEN "skipped" ELSE "sent")
    /\ UNCHANGED <<tries, failures>>

\* Tasks get their slots in the order they were created in. A disallowed URL
\* is not requested.
Enter(k) ==
    /\ Cardinality(InSlot) < Concurrency
    /\ \A j \in 1..(k - 1) : pc[j] # "waiting"
    /\ Goes(k, "waiting", IF urls[k] \in disallowed THEN "skipped" ELSE "sent")
    /\ UNCHANGED <<tries, failures>>

\* 200, read and converted.
Fetched(k) == Goes(k, "sent", "fetched") /\ UNCHANGED <<tries, failures>>

NotFound(k) == Goes(k, "sent", "gone") /\ UNCHANGED <<tries, failures>>

\* 429, another status from 400 up, or any exception in the try block, reading
\* and converting the page included: sleep with the slot held.
Failed(k) ==
    /\ Goes(k, "sent", "sleeping")
    /\ failures' = [failures EXCEPT ![k] = @ + 1]
    /\ UNCHANGED tries

\* Any other status below 400: raise_for_status() does nothing, the loop goes
\* round without a sleep and without counting.
Odd(k) == Goes(k, "sent", "again") /\ UNCHANGED <<tries, failures>>

AsksAgain(k) == Goes(k, "again", "sent") /\ UNCHANGED <<tries, failures>>

\* Mutant: the first attempt is counted before it is made.
MutantWakesUp(k) ==
    /\ Goes(k, "sleeping",
            IF tries[k] + 2 < MaxAttempts THEN "sent" ELSE "lost")
    /\ tries' = [tries EXCEPT ![k] = @ + 1]
    /\ UNCHANGED failures

\* The sleep is over: retry_count += 1, and the loop condition.
WakesUp(k) ==
    /\ Goes(k, "sleeping",
            IF tries[k] + 1 < MaxAttempts THEN "sent" ELSE "lost")
    /\ tries' = [tries EXCEPT ![k] = @ + 1]
    /\ UNCHANGED failures

TaskStep(k) ==
    \/ Fetched(k) \/ NotFound(k) \/ Failed(k) \/ Odd(k)
    \/ AsksAgain(k) \/ WakesUp(k)

\* as_completed hands over a finished task; a page is chunked and yielded, or
\* the chunker raises out of extract().
Collect(k) ==
    /\ stage = "pages"
    /\ pc[k] \in Dropped \cup {"fetched"}
    /\ k \notin collected
    /\ \/ collected' = collected \cup {k} /\ UNCHANGED stage
       \/ pc[k] = "fetched" /\ stage' = "raised" /\ UNCHANGED collected
    /\ UNCHANGED <<site, pending, urls, disallowed, pc, tries, failures>>

\* Mutant: the loop ends when no request is under way any more.
MutantEnds ==
    /\ stage = "pages"
    /\ \A k \in DOMAIN pc : pc[k] \in Dropped \cup {"fetched"}
    /\ stage' = "ended"
    /\ UNCHANGED <<site, pending, urls, disallowed, taskVars>>

Ends ==
    /\ stage = "pages"
    /\ collected = DOMAIN pc
    /\ stage' = "ended"
    /\ UNCHANGED <<site, pending, urls, disallowed, taskVars>>

Next ==
    \/ SitemapArrives
    \/ SitemapFails
    \/ RobotsArrive
    \/ \E k \in DOMAIN pc : Enter(k) \/ TaskStep(k) \/ Collect(k)
    \/ Ends

Spec == Init /\ [][Next]_vars

(***************************************************************************)
(* Fairness: the event loop runs what is ready, requests are answered or   *)
(* time out (aiohttp's default of five minutes is an exception), sleeps    *)
(* end.                                                                    *)
(***************************************************************************)
FairSpec ==
    /\ Spec
    /\ WF_vars(SitemapArrives \/ SitemapFails)
    /\ WF_vars(RobotsArrive)
    /\ \A k \in 1..MaxTasks :
         /\ WF_vars(k \in DOMAIN pc /\ Enter(k))
         /\ WF_vars(k \in DOMAIN pc /\ TaskStep(k))
         /\ WF_vars(k \in DOMAIN pc /\ Collect(k))
    /\ WF_vars(Ends)

-----------------------------------------------------------------------------
(* Properties. *)

TaskPCs == {"waiting", "sent", "again", "sleeping", "fetched"} \cup Dropped

\* Types, and what the semaphore is for: no more than concurrent_requests
\* pages are requested or slept for at a time.
CrawlTypeOK ==
    /\ site \in Sites
    /\ stage \in {"sitemaps", "robots", "pages", "ended", "raised"}
    /\ pending \in Seq([map : Sitemaps, depth : Nat])
    /\ stage = "sitemaps" => pending # <<>>
    /\ urls \in Seq(Urls)
    /\ disallowed \subseteq Disallowed
    /\ pc \in Seq(TaskPCs)
    /\ stage = "pages" => DOMAIN pc = DOMAIN urls
    /\ tries \in [DOMAIN pc -> 0..MaxAttempts]
    /\ failures \in [DOMAIN pc -> 0..MaxAttempts]
    /\ collected \subseteq DOMAIN pc
    /\ Cardinality(InSlot) <= Concurrency

\* The sitemaps an index leads to, however often and in whatever circle.
Reached ==
    {s \in Sitemaps :
        \A S \in SUBSET Sitemaps :
            Root \in S /\ (\A m \in S : \A i \in DOMAIN site.nested[m] :
                               site.nested[m][i] \in S)
            => s \in S}

EveryWantedUrlHasATask ==
    stage \in {"robots", "pages", "ended"} =>
        \A s \in Reached : \A i \in DOMAIN site.listed[s] :
            site.listed[s][i] \in Wanted =>
                \E k \in DOMAIN urls : urls[k] = site.listed[s][i]

GivenUpForCause ==
    \A k \in DOMAIN pc :
        /\ pc[k] = "skipped" => urls[k] \in disallowed
        /\ pc[k] = "lost" => failures[k] = MaxAttempts

\* Every wanted URL of every sitemap has a task, and a task gives a page up
\* only if robots.txt forbids it, the server said 404, or every attempt
\* max_attempts allows was made and failed. sync_documents deletes the
\* documents of a page that is given up.
LossesExplained == EveryWantedUrlHasATask /\ GivenUpForCause

(***************************************************************************)
(* To its caller the crawler is a stream of pages, one for each URL.       *)
(***************************************************************************)
Stream == INSTANCE DocumentStream
            WITH items <- DOMAIN pc,
                 out <- {k \in collected : pc[k] = "fetched"},
                 excused <- {k \in DOMAIN pc : pc[k] \in Dropped},
                 stage <- IF Over THEN stage ELSE "open"

\* fetch_sitemap_pages yields each page once, and ends without an error only
\* when every task was collected.
ImplementsStream == Stream!Spec

OddAnswer == \E k \in DOMAIN pc : Odd(k)

\* A crawl comes to an end, circles of sitemaps included, unless some server
\* goes on for ever answering a page with a status that is neither 200 nor an
\* error.
EveryCrawlEnds == <>[][~OddAnswer]_vars => <>Over

=============================================================================
