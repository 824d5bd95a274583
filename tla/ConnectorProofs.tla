---------------------------- MODULE ConnectorProofs ----------------------------
(***************************************************************************)
(* The connectors but the one for issues (see GithubFetchProofs) keep the  *)
(* contract of DocumentStream: the crawler of SitemapCrawl for any site,   *)
(* any number of slots and attempts and whatever order its tasks end in,   *)
(* and the loops of SequentialFetch however many items the other side has. *)
(***************************************************************************)
EXTENDS SitemapCrawl, SequentialFetch, FiniteSetTheorems, WellFoundedInduction,
        TLAPS

\* There are no tasks before the pages are asked for, and only a task that is
\* over has been collected.
Collected ==
    /\ stage \in {"sitemaps", "robots"} => DOMAIN pc = {} /\ collected = {}
    /\ collected \subseteq DOMAIN pc
    /\ \A k \in collected : pc[k] \in Dropped \cup {"fetched"}

LEMMA InitCollected == Init => Collected
BY DEF Init, Collected

\* Where a step of a page task leads from and to.
LEMMA TaskMoves ==
    ASSUME NEW k \in DOMAIN pc, Enter(k) \/ TaskStep(k)
    PROVE  \E from \in {"waiting", "sent", "again", "sleeping"},
              to \in {"sent", "again", "sleeping", "fetched"} \cup Dropped :
                  Goes(k, from, to)
BY DEF Enter, TaskStep, Fetched, NotFound, Failed, Odd, AsksAgain, WakesUp,
       Dropped

LEMMA StepCollected == Collected /\ [Next]_vars => Collected'
<1> SUFFICES ASSUME Collected, [Next]_vars PROVE Collected'
  OBVIOUS
<1> USE DEF Collected
<1>1. CASE SitemapArrives \/ SitemapFails
  BY <1>1 DEF SitemapArrives, SitemapFails, taskVars
<1>2. CASE RobotsArrive
  BY <1>2 DEF RobotsArrive
<1>3. ASSUME NEW k \in DOMAIN pc, Enter(k) \/ TaskStep(k) PROVE Collected'
  <2>1. PICK from \in {"waiting", "sent", "again", "sleeping"},
             to \in {"sent", "again", "sleeping", "fetched"} \cup Dropped :
               Goes(k, from, to)
    BY <1>3, TaskMoves
  <2>2. k \notin collected
    BY <2>1 DEF Goes, Dropped
  <2> QED
    BY <2>1, <2>2 DEF Goes
<1>4. ASSUME NEW k \in DOMAIN pc, Collect(k) PROVE Collected'
  BY <1>4 DEF Collect
<1>5. CASE Ends
  BY <1>5 DEF Ends, taskVars
<1>6. CASE UNCHANGED vars
  BY <1>6 DEF vars, taskVars
<1> QED
  BY <1>1, <1>2, <1>3, <1>4, <1>5, <1>6 DEF Next

LEMMA AlwaysCollected == Spec => []Collected
BY InitCollected, StepCollected, PTL DEF Spec

-----------------------------------------------------------------------------
(* The refinement of DocumentStream. *)

LEMMA StreamStarts == Init => Stream!Init
BY DEF Init, Over, Stream!Init

LEMMA StreamStep == Collected /\ [Next]_vars => [Stream!Next]_Stream!vars
<1> SUFFICES ASSUME Collected, [Next]_vars
             PROVE  Stream!Next \/ UNCHANGED Stream!vars
  OBVIOUS
<1> USE DEF Collected
<1>1. CASE SitemapArrives \/ SitemapFails
  <2>1. CASE stage' = "raised"
    <3>1. Stream!Raise
      BY <1>1, <2>1 DEF SitemapArrives, SitemapFails, taskVars, Over,
                        Stream!Raise
    <3> QED
      BY <1>1, <3>1 DEF SitemapArrives, SitemapFails, Over, Stream!Next
  <2>2. CASE stage' # "raised"
    BY <1>1, <2>2 DEF SitemapArrives, SitemapFails, taskVars, Over, Stream!vars
  <2> QED
    BY <2>1, <2>2
<1>2. CASE RobotsArrive
  \* The tasks are created: the caller's items become known.
  <2>1. Stream!Learn
    BY <1>2 DEF RobotsArrive, Over, Stream!Learn
  <2> QED
    BY <1>2, <2>1 DEF RobotsArrive, Over, Stream!Next
<1>3. ASSUME NEW k \in DOMAIN pc, Enter(k) \/ TaskStep(k) PROVE Stream!Next
  <2>1. PICK from \in {"waiting", "sent", "again", "sleeping"},
             to \in {"sent", "again", "sleeping", "fetched"} \cup Dropped :
               Goes(k, from, to)
    BY <1>3, TaskMoves
  <2>2. k \notin collected /\ pc[k] \notin Dropped
    BY <2>1 DEF Goes, Dropped
  <2>3. {j \in collected : pc[j] = "fetched"}' =
          {j \in collected : pc[j] = "fetched"}
    BY <2>1, <2>2 DEF Goes
  <2>4. {j \in DOMAIN pc : pc[j] \in Dropped} \subseteq
          {j \in DOMAIN pc : pc[j] \in Dropped}'
    BY <2>1, <2>2 DEF Goes
  <2>5. Stream!Learn
    BY <2>1, <2>3, <2>4 DEF Goes, Over, Stream!Learn
  <2> QED
    BY <2>1, <2>5 DEF Goes, Over, Stream!Next
<1>4. ASSUME NEW k \in DOMAIN pc, Collect(k)
      PROVE  Stream!Next \/ UNCHANGED Stream!vars
  <2>1. CASE stage' = "raised"
    <3>1. Stream!Raise
      BY <1>4, <2>1 DEF Collect, Over, Stream!Raise
    <3> QED
      BY <1>4, <3>1 DEF Collect, Over, Stream!Next
  <2>2. CASE stage' # "raised" /\ pc[k] = "fetched"
    <3>1. Stream!Yield(k)
      BY <1>4, <2>2 DEF Collect, Over, Stream!Yield
    <3> QED
      BY <1>4, <3>1 DEF Collect, Over, Stream!Next
  <2>3. CASE stage' # "raised" /\ pc[k] # "fetched"
    BY <1>4, <2>3 DEF Collect, Over, Stream!vars
  <2> QED
    BY <2>1, <2>2, <2>3
<1>5. CASE Ends
  \* Every task is collected, so each is fetched and yielded, or given up.
  <2>1. DOMAIN pc \subseteq {k \in collected : pc[k] = "fetched"}
                              \cup {k \in DOMAIN pc : pc[k] \in Dropped}
    BY <1>5 DEF Ends
  <2>2. Stream!End
    BY <1>5, <2>1 DEF Ends, taskVars, Over, Stream!End
  <2> QED
    BY <1>5, <2>2 DEF Ends, Over, Stream!Next
<1>6. CASE UNCHANGED vars
  BY <1>6 DEF vars, taskVars, Over, Stream!vars
<1> QED
  BY <1>1, <1>2, <1>3, <1>4, <1>5, <1>6 DEF Next

\* fetch_sitemap_pages keeps the contract sync_documents relies on, for every
\* site, robots.txt and order of answers.
THEOREM PagesAccountedFor == Spec => ImplementsStream
BY AlwaysCollected, StreamStarts, StreamStep, PTL
   DEF Spec, ImplementsStream, Stream!Spec

-----------------------------------------------------------------------------
(* Attempts. *)

Trying == {"waiting", "sent", "again"}

\* A task that still tries has attempts left; asleep, it owes the count one.
Attempts ==
    /\ stage \in {"sitemaps", "robots"} => DOMAIN pc = {}
    /\ tries \in [DOMAIN pc -> Nat]
    /\ failures \in [DOMAIN pc -> Nat]
    /\ \A k \in DOMAIN pc :
         /\ pc[k] \in Trying => failures[k] = tries[k] /\ tries[k] < MaxAttempts
         /\ pc[k] = "sleeping" =>
              failures[k] = tries[k] + 1 /\ tries[k] < MaxAttempts
         /\ pc[k] = "skipped" => urls[k] \in disallowed
         /\ pc[k] = "lost" => failures[k] = MaxAttempts

LEMMA InitAttempts == Init => Attempts
BY DEF Init, Attempts

LEMMA StepAttempts == Attempts /\ [Next]_vars => Attempts'
<1> SUFFICES ASSUME Attempts, [Next]_vars PROVE Attempts'
  OBVIOUS
<1> USE LimitAssumption DEF Attempts, Trying
<1>1. CASE SitemapArrives \/ SitemapFails
  BY <1>1 DEF SitemapArrives, SitemapFails, taskVars
<1>2. CASE RobotsArrive
  BY <1>2 DEF RobotsArrive
<1>3. ASSUME NEW k \in DOMAIN pc, Enter(k) PROVE Attempts'
  BY <1>3 DEF Enter, Goes
<1>4. ASSUME NEW k \in DOMAIN pc,
             Fetched(k) \/ NotFound(k) \/ Odd(k) \/ AsksAgain(k)
      PROVE  Attempts'
  BY <1>4 DEF Fetched, NotFound, Odd, AsksAgain, Goes
<1>5. ASSUME NEW k \in DOMAIN pc, Failed(k) PROVE Attempts'
  BY <1>5 DEF Failed, Goes
<1>6. ASSUME NEW k \in DOMAIN pc, WakesUp(k) PROVE Attempts'
  BY <1>6 DEF WakesUp, Goes
<1>7. ASSUME NEW k \in DOMAIN pc, Collect(k) PROVE Attempts'
  BY <1>7 DEF Collect
<1>8. CASE Ends
  BY <1>8 DEF Ends, taskVars
<1>9. CASE UNCHANGED vars
  BY <1>9 DEF vars, taskVars
<1> QED
  BY <1>1, <1>2, <1>3, <1>4, <1>5, <1>6, <1>7, <1>8, <1>9 DEF Next, TaskStep

\* Whatever the site and the limits, a page is given up only if robots.txt
\* forbids it, the server denies it, or all max_attempts attempts failed.
THEOREM NoPageGivenUpEarly == Spec => []GivenUpForCause
<1>1. Attempts => GivenUpForCause
  BY DEF Attempts, GivenUpForCause
<1> QED
  BY InitAttempts, StepAttempts, <1>1, PTL DEF Spec

-----------------------------------------------------------------------------
(* The filter of include_pattern and exclude_pattern. *)

\* Induction over the naturals, as a fact about a set of them.
LEMMA AllNaturals ==
    ASSUME NEW S, 0 \in S, \A n \in Nat : n \in S => n + 1 \in S
    PROVE  Nat \subseteq S
<1> DEFINE R == OpToRel(<, Nat)
           T == Nat \ S
<1>1. IsWellFoundedOn(R, Nat)
  BY NatLessThanWellFounded
<1>2. \A i, j \in Nat : i < j => <<i, j>> \in R
  BY DEF OpToRel
<1> HIDE DEF R
<1> SUFFICES ASSUME T # {} PROVE FALSE
  OBVIOUS
<1>3. PICK x \in T : \A y \in T : <<y, x>> \notin R
  BY <1>1, WFMin
<1>4. x - 1 \in Nat /\ x - 1 < x /\ (x - 1) + 1 = x
  BY <1>3
<1>5. x - 1 \in S
  BY <1>2, <1>3, <1>4
<1>6. (x - 1) + 1 \in S
  BY <1>4, <1>5
<1> QED
  BY <1>3, <1>4, <1>6

\* f[n] is what the patterns leave of the first n URLs of list, up to m.
Keeps(f, list, m) ==
    f = [n \in 0..m |-> IF n = 0 THEN <<>>
                        ELSE IF list[n] \in Wanted
                          THEN Append(f[n - 1], list[n])
                        ELSE f[n - 1]]

LEMMA KeptExists ==
    ASSUME NEW list
    PROVE  \A m \in Nat : \E f : Keeps(f, list, m)
<1> DEFINE S == {m \in Nat : \E f : Keeps(f, list, m)}
<1>1. 0 \in S
  <2> DEFINE f == [n \in 0..0 |-> <<>>]
  <2>1. Keeps(f, list, 0)
    BY DEF Keeps
  <2> QED
    BY <2>1
<1>2. ASSUME NEW m \in Nat, m \in S PROVE m + 1 \in S
  <2>1. PICK f : Keeps(f, list, m)
    BY <1>2
  <2> DEFINE last == IF list[m + 1] \in Wanted
                       THEN Append(f[m], list[m + 1]) ELSE f[m]
             g == [n \in 0..(m + 1) |-> IF n = m + 1 THEN last ELSE f[n]]
  <2>2. ASSUME NEW n \in 0..(m + 1)
        PROVE  g[n] = IF n = 0 THEN <<>>
                      ELSE IF list[n] \in Wanted THEN Append(g[n - 1], list[n])
                      ELSE g[n - 1]
    <3>1. CASE n = m + 1
      BY <3>1
    <3>2. CASE n # m + 1
      <4>1. n \in 0..m /\ g[n] = f[n] /\ (n # 0 => g[n - 1] = f[n - 1])
        BY <3>2
      <4> HIDE DEF g
      <4> QED
        BY <2>1, <4>1 DEF Keeps
    <3> QED
      BY <3>1, <3>2
  <2>3. g = [n \in 0..(m + 1) |-> g[n]]
    OBVIOUS
  <2> HIDE DEF g
  <2>4. Keeps(g, list, m + 1)
    BY <2>2, <2>3 DEF Keeps
  <2> QED
    BY <2>4
<1> HIDE DEF S
<1>3. Nat \subseteq S
  BY <1>1, <1>2, AllNaturals
<1> QED
  BY <1>3 DEF S

LEMMA FilteredFacts ==
    ASSUME NEW list \in Seq(Urls)
    PROVE  /\ Filtered(list) \in Seq(Urls)
           /\ \A i \in DOMAIN list : list[i] \in Wanted =>
                \E k \in DOMAIN Filtered(list) : Filtered(list)[k] = list[i]
<1> DEFINE L == Len(list)
           kept[n \in 0..L] ==
             IF n = 0 THEN <<>>
             ELSE IF list[n] \in Wanted THEN Append(kept[n - 1], list[n])
             ELSE kept[n - 1]
<1>1. Keeps(kept, list, L)
  <2>1. \E f : Keeps(f, list, L)
    BY KeptExists
  <2> QED
    BY <2>1 DEF Keeps
<1>2. Filtered(list) = kept[L]
  BY DEF Filtered
<1> HIDE DEF kept
<1> DEFINE Good(n) ==
             /\ kept[n] \in Seq(Urls)
             /\ \A i \in 1..n : list[i] \in Wanted =>
                  \E k \in DOMAIN kept[n] : kept[n][k] = list[i]
           S == {n \in Nat : n <= L => Good(n)}
<1>3. 0 \in S
  BY <1>1 DEF Keeps
<1>4. ASSUME NEW n \in Nat, n \in S PROVE n + 1 \in S
  <2> SUFFICES ASSUME n + 1 <= L PROVE Good(n + 1)
    OBVIOUS
  <2>1. /\ Good(n) /\ n + 1 \in 0..L /\ list[n + 1] \in Urls
        /\ n + 1 # 0 /\ (n + 1) - 1 = n
    BY <1>4
  <2>2. kept[n + 1] = IF list[n + 1] \in Wanted
                        THEN Append(kept[n], list[n + 1]) ELSE kept[n]
    BY <1>1, <2>1 DEF Keeps
  <2>3. CASE list[n + 1] \in Wanted
    <3>1. /\ kept[n + 1] \in Seq(Urls)
          /\ Len(kept[n + 1]) = Len(kept[n]) + 1
          /\ \A k \in DOMAIN kept[n] : kept[n + 1][k] = kept[n][k]
          /\ kept[n + 1][Len(kept[n]) + 1] = list[n + 1]
      BY <2>1, <2>2, <2>3
    <3>2. Len(kept[n]) + 1 \in DOMAIN kept[n + 1]
          /\ DOMAIN kept[n] \subseteq DOMAIN kept[n + 1]
      BY <2>1, <3>1
    <3> QED
      BY <2>1, <3>1, <3>2
  <2>4. CASE list[n + 1] \notin Wanted
    BY <2>1, <2>2, <2>4
  <2> QED
    BY <2>3, <2>4
<1> HIDE DEF Good
<1>5. Nat \subseteq S
  <2> HIDE DEF S
  <2> QED
    BY <1>3, <1>4, AllNaturals
<1>6. Good(L)
  BY <1>5
<1> QED
  BY <1>2, <1>6 DEF Good

-----------------------------------------------------------------------------
(* Types, and the semaphore. *)

LEMMA InitCrawlTypeOK == Init => CrawlTypeOK
<1> SUFFICES ASSUME Init PROVE CrawlTypeOK
  OBVIOUS
<1>1. /\ site \in Sites /\ stage = "sitemaps" /\ urls = <<>>
      /\ disallowed = {} /\ pc = <<>> /\ tries = <<>> /\ failures = <<>>
      /\ collected = {} /\ pending = <<[map |-> Root, depth |-> 1]>>
  BY DEF Init
<1>2. DOMAIN <<>> = {}
  OBVIOUS
<1>3. InSlot = {}
  BY <1>1, <1>2 DEF InSlot
<1>4. Cardinality(InSlot) <= Concurrency
  BY <1>3, FS_EmptySet, LimitAssumption
<1>5. [map |-> Root, depth |-> 1] \in [map : Sitemaps, depth : Nat]
  BY SiteAssumption
<1>6. pending \in Seq([map : Sitemaps, depth : Nat]) /\ pending # <<>>
  BY <1>1, <1>5
<1>7. tries \in [DOMAIN pc -> 0..MaxAttempts]
      /\ failures \in [DOMAIN pc -> 0..MaxAttempts]
  BY <1>1, <1>2
<1>8. pc \in Seq(TaskPCs) /\ urls \in Seq(Urls)
  BY <1>1
<1> QED
  BY <1>1, <1>4, <1>6, <1>7, <1>8 DEF CrawlTypeOK

\* What an answer adds to the calls to come, and to the list.
LEMMA ArrivalTypes ==
    ASSUME CrawlTypeOK, SitemapArrives
    PROVE  /\ pending' \in Seq([map : Sitemaps, depth : Nat])
           /\ urls' \in Seq(Urls)
           /\ stage' \in {"sitemaps", "robots", "raised"}
           /\ stage' = "sitemaps" => pending' # <<>>
<1> DEFINE call == Head(pending)
           Call == [map : Sitemaps, depth : Nat]
           found == urls \o site.listed[call.map]
<1>1. pending \in Seq(Call) /\ pending # <<>> /\ urls \in Seq(Urls)
      /\ site.nested \in [Sitemaps -> Seq(Sitemaps)]
      /\ site.listed \in [Sitemaps -> Seq(Urls)]
  BY SiteAssumption DEF CrawlTypeOK, SitemapArrives
<1>2. call \in Call /\ Tail(pending) \in Seq(Call)
  <2> HIDE DEF Call
  <2> QED
    BY <1>1
<1>3. Following(call) \in Seq(Call)
  <2>1. site.nested[call.map] \in Seq(Sitemaps) /\ call.depth + 1 \in Nat
    BY <1>1, <1>2
  <2>2. ASSUME NEW maps \in Seq(Sitemaps), NEW depth \in Nat
        PROVE  Calls(maps, depth) \in Seq(Call)
    <3>1. DOMAIN maps = 1..Len(maps) /\ Len(maps) \in Nat
      OBVIOUS
    <3>2. \A i \in DOMAIN maps : [map |-> maps[i], depth |-> depth] \in Call
      OBVIOUS
    <3> QED
      BY <3>1, <3>2 DEF Calls
  <2> QED
    BY <2>1, <2>2 DEF Following
<1>4. found \in Seq(Urls) /\ Filtered(found) \in Seq(Urls)
  <2>1. found \in Seq(Urls)
    BY <1>1, <1>2
  <2> HIDE DEF found
  <2> QED
    BY <2>1, FilteredFacts
<1>5. Following(call) \o Tail(pending) \in Seq(Call)
  BY <1>2, <1>3
<1> QED
  BY <1>4, <1>5 DEF SitemapArrives

LEMMA SlotsFinite ==
    ASSUME CrawlTypeOK
    PROVE  IsFiniteSet(InSlot)
BY FS_Interval, FS_Subset DEF CrawlTypeOK, InSlot

\* Tasks that move without taking a slot.
LEMMA SlotsShrink ==
    ASSUME CrawlTypeOK, InSlot' \subseteq InSlot
    PROVE  Cardinality(InSlot') <= Concurrency
<1>1. IsFiniteSet(InSlot)
  BY SlotsFinite
<1>2. Cardinality(InSlot') <= Cardinality(InSlot)
      /\ Cardinality(InSlot') \in Nat /\ Cardinality(InSlot) \in Nat
  BY <1>1, FS_Subset, FS_CardinalityType
<1> QED
  BY <1>2, LimitAssumption DEF CrawlTypeOK

\* A step of a page task: its counters, and the slots it leaves taken.
LEMMA TaskTypes ==
    ASSUME CrawlTypeOK, Attempts, NEW k \in DOMAIN pc,
           NEW from \in {"waiting", "sent", "again", "sleeping"},
           NEW to \in TaskPCs, Goes(k, from, to),
           from # "waiting" \/ to \notin {"sent", "again", "sleeping"}
             \/ Cardinality(InSlot) < Concurrency,
           tries' \in [DOMAIN pc -> 0..MaxAttempts],
           failures' \in [DOMAIN pc -> 0..MaxAttempts]
    PROVE  CrawlTypeOK'
<1>1. /\ stage = "pages" /\ pc[k] = from /\ pc' = [pc EXCEPT ![k] = to]
      /\ UNCHANGED <<site, stage, pending, urls, disallowed, collected>>
  BY DEF Goes
<1>2. pc' \in Seq(TaskPCs) /\ DOMAIN pc' = DOMAIN pc
  BY <1>1 DEF CrawlTypeOK
<1>3. Cardinality(InSlot') <= Concurrency
  <2>1. CASE InSlot' \subseteq InSlot
    BY <2>1, SlotsShrink
  <2>2. CASE ~(InSlot' \subseteq InSlot)
    <3>1. InSlot' \subseteq InSlot \cup {k} /\ from = "waiting"
          /\ to \in {"sent", "again", "sleeping"}
      BY <1>1, <1>2, <2>2 DEF InSlot
    <3>2. Cardinality(InSlot) < Concurrency
      BY <3>1
    <3>3. IsFiniteSet(InSlot)
      BY SlotsFinite
    <3> DEFINE more == InSlot \cup {k}
    <3>4. /\ IsFiniteSet(more)
          /\ Cardinality(more) = IF k \in InSlot THEN Cardinality(InSlot)
                                 ELSE Cardinality(InSlot) + 1
      BY <3>3, FS_AddElement
    <3>5. Cardinality(more) \in Nat /\ Cardinality(InSlot) \in Nat
      BY <3>3, <3>4, FS_CardinalityType
    <3> HIDE DEF more
    <3>6. InSlot' \subseteq more
      BY <3>1 DEF more
    <3>7. IsFiniteSet(InSlot') /\ Cardinality(InSlot') <= Cardinality(more)
      BY <3>4, <3>6, FS_Subset
    <3>8. Cardinality(InSlot') \in Nat
      BY <3>7, FS_CardinalityType
    <3> QED
      BY <3>2, <3>4, <3>5, <3>7, <3>8, LimitAssumption
  <2> QED
    BY <2>1, <2>2
<1> QED
  BY <1>1, <1>2, <1>3 DEF CrawlTypeOK

LEMMA StepCrawlTypeOK == CrawlTypeOK /\ Attempts /\ [Next]_vars => CrawlTypeOK'
<1> SUFFICES ASSUME CrawlTypeOK, Attempts, [Next]_vars PROVE CrawlTypeOK'
  OBVIOUS
<1>1. CASE SitemapArrives
  <2>1. UNCHANGED <<site, disallowed, pc, tries, failures, collected>>
    BY <1>1 DEF SitemapArrives, taskVars
  <2>2. InSlot' = InSlot
    BY <2>1 DEF InSlot
  <2> QED
    BY <1>1, <2>1, <2>2, ArrivalTypes DEF CrawlTypeOK
<1>2. CASE SitemapFails
  <2>1. /\ stage' = "raised"
        /\ UNCHANGED <<site, pending, urls, disallowed, pc, tries, failures,
                       collected>>
    BY <1>2 DEF SitemapFails, taskVars
  <2>2. InSlot' = InSlot
    BY <2>1 DEF InSlot
  <2> QED
    BY <2>1, <2>2 DEF CrawlTypeOK
<1>3. CASE RobotsArrive
  <2>1. /\ pc' = [k \in DOMAIN urls |-> "waiting"]
        /\ tries' = [k \in DOMAIN urls |-> 0]
        /\ failures' = [k \in DOMAIN urls |-> 0]
        /\ stage = "robots" /\ stage' = "pages"
        /\ disallowed' \subseteq Disallowed
        /\ UNCHANGED <<site, pending, urls, collected>>
    BY <1>3 DEF RobotsArrive
  <2>2. pc' \in Seq(TaskPCs) /\ DOMAIN pc' = DOMAIN urls
    <3>1. DOMAIN urls = 1..Len(urls) /\ Len(urls) \in Nat
      BY DEF CrawlTypeOK
    <3>2. "waiting" \in TaskPCs
      BY DEF TaskPCs
    <3> QED
      BY <2>1, <3>1, <3>2
  <2>3. InSlot' \subseteq InSlot
    BY <2>1 DEF InSlot
  <2>4. Cardinality(InSlot') <= Concurrency
    BY <2>3, SlotsShrink
  <2>5. tries' \in [DOMAIN pc' -> 0..MaxAttempts]
        /\ failures' \in [DOMAIN pc' -> 0..MaxAttempts]
    BY <2>1, <2>2, LimitAssumption
  <2>6. collected' \subseteq DOMAIN pc'
    BY <2>1 DEF CrawlTypeOK, Attempts
  <2> QED
    BY <2>1, <2>2, <2>4, <2>5, <2>6 DEF CrawlTypeOK
<1>4. ASSUME NEW k \in DOMAIN pc, Enter(k) PROVE CrawlTypeOK'
  <2>1. PICK to \in TaskPCs : Goes(k, "waiting", to)
    BY <1>4 DEF Enter, TaskPCs, Dropped
  <2>2. Cardinality(InSlot) < Concurrency /\ UNCHANGED <<tries, failures>>
    BY <1>4 DEF Enter
  <2> QED
    BY <2>1, <2>2, TaskTypes DEF CrawlTypeOK
<1>5. ASSUME NEW k \in DOMAIN pc, TaskStep(k) PROVE CrawlTypeOK'
  <2>1. CASE Fetched(k) \/ NotFound(k) \/ Odd(k) \/ AsksAgain(k)
    <3>1. PICK from \in {"sent", "again"}, to \in TaskPCs : Goes(k, from, to)
      BY <2>1 DEF Fetched, NotFound, Odd, AsksAgain, TaskPCs, Dropped
    <3>2. UNCHANGED <<tries, failures>>
      BY <2>1 DEF Fetched, NotFound, Odd, AsksAgain
    <3> QED
      BY <3>1, <3>2, TaskTypes DEF CrawlTypeOK
  <2>2. CASE Failed(k)
    <3>1. Goes(k, "sent", "sleeping") /\ pc[k] = "sent" /\ tries' = tries
          /\ failures' = [failures EXCEPT ![k] = @ + 1]
      BY <2>2 DEF Failed, Goes
    <3>2. failures[k] + 1 \in 0..MaxAttempts
      BY <3>1, LimitAssumption DEF Attempts, Trying
    <3>3. failures' \in [DOMAIN pc -> 0..MaxAttempts]
      BY <3>1, <3>2 DEF CrawlTypeOK
    <3> QED
      BY <3>1, <3>3, TaskTypes DEF CrawlTypeOK, TaskPCs
  <2>3. CASE WakesUp(k)
    <3>1. PICK to \in TaskPCs : Goes(k, "sleeping", to)
      BY <2>3 DEF WakesUp, TaskPCs, Dropped
    <3>2. pc[k] = "sleeping" /\ failures' = failures
          /\ tries' = [tries EXCEPT ![k] = @ + 1]
      BY <2>3 DEF WakesUp, Goes
    <3>3. tries[k] + 1 \in 0..MaxAttempts
      BY <3>2, LimitAssumption DEF Attempts
    <3>4. tries' \in [DOMAIN pc -> 0..MaxAttempts]
      BY <3>2, <3>3 DEF CrawlTypeOK
    <3> QED
      BY <3>1, <3>2, <3>4, TaskTypes DEF CrawlTypeOK
  <2> QED
    BY <1>5, <2>1, <2>2, <2>3 DEF TaskStep
<1>6. ASSUME NEW k \in DOMAIN pc, Collect(k) PROVE CrawlTypeOK'
  <2>1. /\ UNCHANGED <<site, pending, urls, disallowed, pc, tries, failures>>
        /\ stage = "pages" /\ stage' \in {"pages", "raised"}
        /\ collected' \subseteq collected \cup {k}
    BY <1>6 DEF Collect
  <2>2. InSlot' = InSlot
    BY <2>1 DEF InSlot
  <2> QED
    BY <2>1, <2>2 DEF CrawlTypeOK
<1>7. CASE Ends \/ UNCHANGED vars
  <2>1. /\ UNCHANGED <<site, pending, urls, disallowed, pc, tries, failures,
                       collected>>
        /\ stage' \in {stage, "ended"}
    BY <1>7 DEF Ends, vars, taskVars
  <2>2. InSlot' = InSlot
    BY <2>1 DEF InSlot
  <2> QED
    BY <2>1, <2>2 DEF CrawlTypeOK
<1> QED
  BY <1>1, <1>2, <1>3, <1>4, <1>5, <1>6, <1>7 DEF Next

\* The variables keep their types, and no more than concurrent_requests pages
\* are requested or slept for at a time, for every site and every limit.
THEOREM CrawlTypes == Spec => []CrawlTypeOK
BY InitCrawlTypeOK, StepCrawlTypeOK, InitAttempts, StepAttempts, PTL DEF Spec

-----------------------------------------------------------------------------
(* The depth-first search: V are the sitemaps that have been read. *)

Called == {pending[j].map : j \in DOMAIN pending}

ReadSoFar(V) ==
    /\ Root \in V \cup Called
    /\ \A m \in V : \A i \in DOMAIN site.nested[m] :
         site.nested[m][i] \in V \cup Called
    /\ \A m \in V : \A i \in DOMAIN site.listed[m] :
         \E k \in DOMAIN urls : urls[k] = site.listed[m][i]

\* Until it is over the search owes nothing but the pending calls; then the
\* sitemaps read are closed, so that they contain all that can be reached.
Searched ==
    /\ stage = "sitemaps" => \E V \in SUBSET Sitemaps : ReadSoFar(V)
    /\ EveryWantedUrlHasATask

LEMMA InitSearched == Init => Searched
<1> SUFFICES ASSUME Init PROVE Searched
  OBVIOUS
<1>1. pending = <<[map |-> Root, depth |-> 1]>> /\ stage = "sitemaps"
  BY DEF Init
<1>2. Root \in Called
  <2>1. 1 \in DOMAIN pending /\ pending[1].map = Root
    BY <1>1
  <2> QED
    BY <2>1 DEF Called
<1>3. ReadSoFar({})
  BY <1>2 DEF ReadSoFar
<1> QED
  BY <1>1, <1>3 DEF Searched, EveryWantedUrlHasATask

LEMMA Concatenated ==
    ASSUME NEW S, NEW s \in Seq(S), NEW t \in Seq(S)
    PROVE  /\ s \o t \in Seq(S)
           /\ \A i \in DOMAIN s : i \in DOMAIN (s \o t) /\ (s \o t)[i] = s[i]
           /\ \A j \in DOMAIN t : /\ Len(s) + j \in DOMAIN (s \o t)
                                  /\ (s \o t)[Len(s) + j] = t[j]
OBVIOUS

\* The calls an answer leaves: those of the sitemap, and the others.
LEMMA ArrivalCalls ==
    ASSUME CrawlTypeOK, SitemapArrives, NEW map, map = Head(pending).map
    PROVE  /\ Called \ {map} \subseteq Called'
           /\ \A i \in DOMAIN site.nested[map] : site.nested[map][i] \in Called'
           /\ map \in Sitemaps
<1> DEFINE Call == [map : Sitemaps, depth : Nat]
           call == Head(pending)
           new == Following(call)
           rest == Tail(pending)
<1>1. /\ pending \in Seq(Call) /\ pending # <<>>
      /\ site.nested \in [Sitemaps -> Seq(Sitemaps)]
      /\ pending' = new \o rest
  BY SiteAssumption DEF CrawlTypeOK, SitemapArrives
<1>2. /\ call \in Call /\ call = pending[1]
      /\ rest \in Seq(Call)
      /\ DOMAIN pending = 1..Len(pending) /\ DOMAIN rest = 1..(Len(pending) - 1)
      /\ \A j \in DOMAIN rest : rest[j] = pending[j + 1]
      /\ Len(pending) \in Nat
  <2> HIDE DEF Call
  <2> QED
    BY <1>1
<1>3. map \in Sitemaps /\ site.nested[map] \in Seq(Sitemaps)
      /\ call.depth + 1 \in Nat
  BY <1>1, <1>2
<1>4. /\ new \in Seq(Call) /\ DOMAIN new = DOMAIN site.nested[map]
      /\ \A i \in DOMAIN new : new[i].map = site.nested[map][i]
  <2>1. new = [i \in DOMAIN site.nested[map] |->
                 [map |-> site.nested[map][i], depth |-> call.depth + 1]]
    BY DEF Following, Calls
  <2>2. \A i \in DOMAIN site.nested[map] :
          [map |-> site.nested[map][i], depth |-> call.depth + 1] \in Call
    BY <1>3
  <2>3. DOMAIN site.nested[map] = 1..Len(site.nested[map])
        /\ Len(site.nested[map]) \in Nat
    BY <1>3
  <2> HIDE DEF Call, new
  <2>4. new \in Seq(Call) /\ DOMAIN new = DOMAIN site.nested[map]
    BY <2>1, <2>2, <2>3
  <2> QED
    BY <2>1, <2>4
<1> HIDE DEF Call, new, rest
<1>5. /\ \A i \in DOMAIN new : i \in DOMAIN pending' /\ pending'[i] = new[i]
      /\ \A j \in DOMAIN rest : /\ Len(new) + j \in DOMAIN pending'
                                /\ pending'[Len(new) + j] = rest[j]
  BY <1>1, <1>2, <1>4, Concatenated
<1>6. ASSUME NEW m \in Called, m # map
      PROVE  m \in Called'
  <2>1. PICK j \in DOMAIN pending : pending[j].map = m
    BY DEF Called
  <2>2. j - 1 \in DOMAIN rest /\ rest[j - 1] = pending[j]
    BY <1>2, <1>6, <2>1
  <2>3. Len(new) + (j - 1) \in DOMAIN pending'
        /\ pending'[Len(new) + (j - 1)].map = m
    BY <1>5, <2>1, <2>2
  <2> QED
    BY <2>3 DEF Called
<1>7. ASSUME NEW i \in DOMAIN site.nested[map]
      PROVE  site.nested[map][i] \in Called'
  <2>1. i \in DOMAIN pending' /\ pending'[i].map = site.nested[map][i]
    BY <1>4, <1>5
  <2> QED
    BY <2>1 DEF Called
<1> QED
  BY <1>3, <1>6, <1>7

\* One more sitemap read.
LEMMA ArrivalReads ==
    ASSUME CrawlTypeOK, SitemapArrives, NEW V \in SUBSET Sitemaps, ReadSoFar(V)
    PROVE  LET found == urls \o site.listed[Head(pending).map] IN
           \E W \in SUBSET Sitemaps :
             /\ Root \in W \cup Called'
             /\ \A m \in W : \A i \in DOMAIN site.nested[m] :
                  site.nested[m][i] \in W \cup Called'
             /\ \A m \in W : \A i \in DOMAIN site.listed[m] :
                  \E k \in DOMAIN found : found[k] = site.listed[m][i]
<1>1. PICK map : map = Head(pending).map
  OBVIOUS
<1> DEFINE found == urls \o site.listed[map]
           W == V \cup {map}
<1>2. /\ Called \ {map} \subseteq Called'
      /\ \A i \in DOMAIN site.nested[map] : site.nested[map][i] \in Called'
      /\ map \in Sitemaps
  BY <1>1, ArrivalCalls
<1>3. urls \in Seq(Urls) /\ site.listed[map] \in Seq(Urls)
  BY <1>2, SiteAssumption DEF CrawlTypeOK
<1>4. /\ \A k \in DOMAIN urls : k \in DOMAIN found /\ found[k] = urls[k]
      /\ \A i \in DOMAIN site.listed[map] :
           /\ Len(urls) + i \in DOMAIN found
           /\ found[Len(urls) + i] = site.listed[map][i]
  BY <1>3, Concatenated
<1> HIDE DEF found
<1>5. ASSUME NEW m \in W, NEW i \in DOMAIN site.nested[m]
      PROVE  site.nested[m][i] \in W \cup Called'
  BY <1>2, <1>5 DEF ReadSoFar
<1>6. ASSUME NEW m \in W, NEW i \in DOMAIN site.listed[m]
      PROVE  \E k \in DOMAIN found : found[k] = site.listed[m][i]
  <2>1. CASE m \in V
    <3>1. PICK k \in DOMAIN urls : urls[k] = site.listed[m][i]
      BY <1>6, <2>1 DEF ReadSoFar
    <3> QED
      BY <1>4, <3>1
  <2>2. CASE m = map
    BY <1>4, <1>6, <2>2
  <2> QED
    BY <1>6, <2>1, <2>2
<1>7. Root \in W \cup Called'
  BY <1>2 DEF ReadSoFar
<1>8. W \in SUBSET Sitemaps
  BY <1>2
<1> HIDE DEF W
<1> QED
  BY <1>1, <1>5, <1>6, <1>7, <1>8 DEF found

LEMMA StepSearched == CrawlTypeOK /\ Searched /\ [Next]_vars => Searched'
<1> SUFFICES ASSUME CrawlTypeOK, Searched, [Next]_vars PROVE Searched'
  OBVIOUS
<1>1. CASE SitemapArrives
  <2> DEFINE found == urls \o site.listed[Head(pending).map]
  <2>1. stage = "sitemaps" /\ site' = site
    BY <1>1 DEF SitemapArrives
  <2>2. PICK V \in SUBSET Sitemaps : ReadSoFar(V)
    BY <2>1 DEF Searched
  <2>3. PICK W \in SUBSET Sitemaps :
        /\ Root \in W \cup Called'
        /\ \A m \in W : \A i \in DOMAIN site.nested[m] :
             site.nested[m][i] \in W \cup Called'
        /\ \A m \in W : \A i \in DOMAIN site.listed[m] :
             \E k \in DOMAIN found : found[k] = site.listed[m][i]
    BY <1>1, <2>2, ArrivalReads
  <2>4. /\ stage' \in {"sitemaps", "robots", "raised"}
        /\ stage' = "sitemaps" => urls' = found
        /\ stage' = "robots" => pending' = <<>> /\ urls' = Filtered(found)
    BY <1>1 DEF SitemapArrives
  <2>5. found \in Seq(Urls)
    <3>1. PICK map : map = Head(pending).map
      OBVIOUS
    <3>2. map \in Sitemaps
      BY <1>1, <3>1, ArrivalCalls
    <3>3. urls \in Seq(Urls) /\ site.listed[map] \in Seq(Urls)
      BY <3>2, SiteAssumption DEF CrawlTypeOK
    <3> QED
      BY <3>1, <3>3, Concatenated
  <2> HIDE DEF found
  <2>6. CASE stage' = "sitemaps"
    <3>1. ReadSoFar(W)'
      BY <2>1, <2>3, <2>4, <2>6 DEF ReadSoFar
    <3> QED
      BY <2>6, <3>1 DEF Searched, EveryWantedUrlHasATask
  <2>7. CASE stage' = "robots"
    <3>1. urls' = Filtered(found) /\ Called' = {}
      BY <2>4, <2>7 DEF Called
    <3>2. Reached' \subseteq W
      BY <2>1, <2>3, <3>1 DEF Reached
    <3>3. ASSUME NEW s \in Reached', NEW i \in DOMAIN site.listed[s],
                 site.listed[s][i] \in Wanted
          PROVE  \E k \in DOMAIN urls' : urls'[k] = site.listed[s][i]
      <4>1. PICK j \in DOMAIN found : found[j] = site.listed[s][i]
        BY <2>3, <3>2
      <4> QED
        BY <2>5, <3>1, <3>3, <4>1, FilteredFacts
    <3>4. EveryWantedUrlHasATask'
      BY <2>1, <3>3 DEF EveryWantedUrlHasATask
    <3> QED
      BY <2>7, <3>4 DEF Searched
  <2>8. CASE stage' = "raised"
    BY <2>8 DEF Searched, EveryWantedUrlHasATask
  <2> QED
    BY <2>4, <2>6, <2>7, <2>8
<1>2. CASE SitemapFails
  BY <1>2 DEF SitemapFails, Searched, EveryWantedUrlHasATask
<1>3. CASE ~SitemapArrives /\ ~SitemapFails /\ stage' # "sitemaps"
  <2>1. UNCHANGED <<site, urls>>
    BY <1>3 DEF Next, RobotsArrive, Enter, TaskStep, Fetched, NotFound, Failed,
                Odd, AsksAgain, WakesUp, Goes, Collect, Ends, vars
  <2>2. stage' \in {"robots", "pages", "ended"} =>
          stage \in {"robots", "pages", "ended"}
    BY <1>3 DEF Next, RobotsArrive, Enter, TaskStep, Fetched, NotFound, Failed,
                Odd, AsksAgain, WakesUp, Goes, Collect, Ends, vars
  <2>3. Reached' = Reached
    BY <2>1 DEF Reached
  <2> QED
    BY <1>3, <2>1, <2>2, <2>3 DEF Searched, EveryWantedUrlHasATask
<1>4. CASE UNCHANGED vars
  <2>1. UNCHANGED <<site, stage, pending, urls>>
    BY <1>4 DEF vars
  <2>2. Reached' = Reached /\ Called' = Called
    BY <2>1 DEF Reached, Called
  <2> QED
    BY <2>1, <2>2 DEF Searched, EveryWantedUrlHasATask, ReadSoFar
<1>5. stage' = "sitemaps" => SitemapArrives \/ UNCHANGED vars
  BY DEF Next, SitemapFails, RobotsArrive, Enter, TaskStep, Fetched, NotFound,
         Failed, Odd, AsksAgain, WakesUp, Goes, Collect, Ends
<1> QED
  BY <1>1, <1>2, <1>3, <1>4, <1>5

\* For every site, however deep, circular or repetitive its sitemaps: every
\* wanted URL of every sitemap that can be reached has a task, and no task
\* gives its page up without one of the three causes.
THEOREM CrawlLosesNothing == Spec => []LossesExplained
<1>1. Spec => []Searched
  BY InitSearched, StepSearched, CrawlTypes, PTL DEF Spec
<1>2. Searched /\ GivenUpForCause => LossesExplained
  BY DEF Searched, LossesExplained
<1> QED
  BY <1>1, <1>2, NoPageGivenUpEarly, PTL

-----------------------------------------------------------------------------
(* The sequential connectors. *)

\* Before the loop nothing is accounted for; from its start to its end every
\* item is, and a README is accounted for in one way only.
Accounted ==
    /\ phase \notin {"items", "ended", "raised"} =>
         left = {} /\ unlisted = {} /\ skipped = {} /\ out = {}
    /\ phase \in {"items", "ended"} =>
         All \subseteq left \cup out \cup skipped \cup unlisted
    /\ connector = "readme" =>
         /\ phase \in {"items", "ended", "raised"}
         /\ skipped = {} /\ unlisted = {}

LoopInv == FetchTypeOK /\ Accounted

LEMMA InitLoopInv == FetchInit => LoopInv
BY DEF FetchInit, LoopInv, FetchTypeOK, Accounted, All, Phases

\* A request before the loop either opens the next one or raises.
LEMMA NeedsLoopInv ==
    ASSUME LoopInv, NEW from \in Phases \ {"items", "ended", "raised"},
           NEW to \in Phases \ {"items", "ended"},
           Moves(from, to), Nothing, connector = "readme" => to = "raised"
    PROVE  LoopInv'
<1>1. FetchTypeOK'
  BY DEF LoopInv, FetchTypeOK, Moves, Nothing, All, Phases
<1>2. Accounted'
  BY DEF LoopInv, FetchTypeOK, Accounted, Moves, Nothing, All,
         Phases
<1> QED
  BY <1>1, <1>2 DEF LoopInv

LEMMA StepLoopInv == LoopInv /\ [FetchNext]_fetchVars => LoopInv'
<1> SUFFICES ASSUME LoopInv, [FetchNext]_fetchVars PROVE LoopInv'
  OBVIOUS
<1> USE DEF LoopInv
<1>1. CASE GetsRepo \/ GetsHead \/ GetsNamed \/ GetsCommit
  <2>1. connector # "readme"
    BY <1>1 DEF GetsRepo, GetsHead, GetsNamed, GetsCommit,
                Needs, Moves, Accounted
  <2> QED
    BY <1>1, <2>1, NeedsLoopInv
       DEF GetsRepo, GetsHead, GetsNamed, GetsCommit,
           Needs, Phases
<1>2. CASE GetsTree
  <2>1. CASE Moves("tree", "raised") /\ Nothing
    <3>1. connector # "readme"
      BY <2>1 DEF Moves, Accounted
    <3> QED
      BY <2>1, <3>1, NeedsLoopInv DEF Phases
  <2>2. ASSUME NEW n \in 0..size, left' = 1..n, unlisted' = (n + 1)..size,
               Moves("tree", "items"), UNCHANGED skipped
        PROVE  LoopInv'
    <3>1. FetchTypeOK'
      BY <2>2 DEF FetchTypeOK, Accounted, Moves, All, Phases
    <3>2. Accounted'
      BY <2>2 DEF FetchTypeOK, Accounted, Moves, All
    <3> QED
      BY <3>1, <3>2
  <2> QED
    BY <1>2, <2>1, <2>2 DEF GetsTree
<1>3. CASE GetsResponse
  <2>1. CASE Moves("response", "raised") /\ Nothing
    <3>1. connector # "readme"
      BY <2>1 DEF Moves, Accounted
    <3> QED
      BY <2>1, <3>1, NeedsLoopInv DEF Phases
  <2>2. ASSUME NEW objects \in SUBSET All, left' = objects,
               skipped' = All \ objects, Moves("response", "items"),
               UNCHANGED unlisted
        PROVE  LoopInv'
    <3>1. FetchTypeOK'
      BY <2>2 DEF FetchTypeOK, Accounted, Moves, All, Phases
    <3>2. Accounted'
      BY <2>2 DEF FetchTypeOK, Accounted, Moves, All
    <3> QED
      BY <3>1, <3>2
  <2> QED
    BY <1>3, <2>1, <2>2 DEF GetsResponse
<1>4. ASSUME NEW i \in left, Yields(i) PROVE LoopInv'
  <2>1. FetchTypeOK'
    BY <1>4 DEF Yields, IsNext, FetchTypeOK, All
  <2>2. Accounted'
    BY <1>4 DEF Yields, IsNext, FetchTypeOK, Accounted, All
  <2> QED
    BY <2>1, <2>2
<1>5. ASSUME NEW i \in left, GivesUp(i) PROVE LoopInv'
  <2>1. FetchTypeOK'
    BY <1>5 DEF GivesUp, IsNext, FetchTypeOK, All
  <2>2. Accounted'
    BY <1>5 DEF GivesUp, IsNext, FetchTypeOK, Accounted, All
  <2> QED
    BY <2>1, <2>2
<1>6. CASE Raises \/ Finishes
  <2>1. FetchTypeOK'
    BY <1>6 DEF Raises, Finishes, Moves, Nothing, FetchTypeOK,
                All, Phases
  <2>2. Accounted'
    BY <1>6 DEF Raises, Finishes, Moves, Nothing, FetchTypeOK,
                Accounted, All
  <2> QED
    BY <2>1, <2>2
<1>7. CASE UNCHANGED fetchVars
  BY <1>7 DEF fetchVars, FetchTypeOK, Accounted, All
<1> QED
  BY <1>1, <1>2, <1>3, <1>4, <1>5, <1>6, <1>7 DEF FetchNext

LEMMA AlwaysLoopInv == FetchSpec => []LoopInv
BY InitLoopInv, StepLoopInv, PTL DEF FetchSpec

\* Whatever is asked for and however it is answered, an item is to come,
\* passed over, unlisted or yielded, and never two of these.
THEOREM Bookkeeping == FetchSpec => []FetchTypeOK
<1>1. LoopInv => FetchTypeOK
  BY DEF LoopInv
<1> QED
  BY AlwaysLoopInv, <1>1, PTL

-----------------------------------------------------------------------------
(* The refinement of DocumentStream. *)

LEMMA LoopStreamStarts == FetchInit => FetchStream!Init
BY DEF FetchInit, Excused, FetchStream!Init

\* A step is one of the contract's or changes nothing its caller sees.
LEMMA LoopStreamStep ==
    LoopInv /\ [FetchNext]_fetchVars => [FetchStream!Next]_FetchStream!vars
<1> SUFFICES ASSUME LoopInv, [FetchNext]_fetchVars
             PROVE  FetchStream!Next \/ UNCHANGED FetchStream!vars
  OBVIOUS
<1> USE DEF LoopInv, FetchTypeOK, Accounted
<1>1. ASSUME NEW from \in Phases \ {"ended", "raised"},
             NEW to \in Phases \ {"ended"}, Moves(from, to), Nothing
      PROVE  FetchStream!Next \/ UNCHANGED FetchStream!vars
  <2>1. CASE to = "raised"
    <3>1. FetchStream!Raise
      BY <1>1, <2>1 DEF Moves, Nothing, Excused, All,
                        FetchStream!Raise
    <3> QED
      BY <1>1, <3>1 DEF Moves, FetchStream!Next
  <2>2. CASE to # "raised"
    BY <1>1, <2>2 DEF Moves, Nothing, Excused, All,
                      FetchStream!vars
  <2> QED
    BY <2>1, <2>2
<1>2. CASE \/ GetsRepo \/ GetsHead \/ GetsNamed \/ GetsCommit \/ Raises
           \/ GetsTree /\ Nothing
           \/ GetsResponse /\ Nothing
  BY <1>1, <1>2 DEF GetsRepo, GetsHead, GetsNamed,
                    GetsCommit, Needs, Raises,
                    GetsTree, GetsResponse, Phases
<1>3. CASE GetsTree /\ ~Nothing
  <2>1. connector = "pdf" \/ connector = "rest_api"
    BY <1>3 DEF GetsTree, Moves
  <2>2. Moves("tree", "items") /\ UNCHANGED skipped
    BY <1>3 DEF GetsTree
  <2>3. FetchStream!Learn
    BY <2>1, <2>2 DEF Moves, Excused, All, FetchStream!Learn
  <2> QED
    BY <2>2, <2>3 DEF Moves, FetchStream!Next
<1>4. CASE GetsResponse /\ ~Nothing
  <2>1. connector = "pdf" \/ connector = "rest_api"
    BY <1>4 DEF GetsResponse, Moves
  <2>2. Moves("response", "items") /\ UNCHANGED unlisted
    BY <1>4 DEF GetsResponse
  <2>3. FetchStream!Learn
    BY <2>1, <2>2 DEF Moves, Excused, All, FetchStream!Learn
  <2> QED
    BY <2>2, <2>3 DEF Moves, FetchStream!Next
<1>5. ASSUME NEW i \in left, Yields(i) PROVE FetchStream!Next
  <2>1. i \in All /\ i \notin out
    BY <1>5
  <2>2. FetchStream!Yield(i)
    BY <1>5, <2>1 DEF Yields, IsNext, Excused, All,
                      FetchStream!Yield
  <2> QED
    BY <1>5, <2>1, <2>2 DEF Yields, IsNext, FetchStream!Next
<1>6. ASSUME NEW i \in left, GivesUp(i) PROVE FetchStream!Next
  <2>1. FetchStream!Learn
    BY <1>6 DEF GivesUp, Excused, All, FetchStream!Learn
  <2> QED
    BY <1>6, <2>1 DEF GivesUp, IsNext, FetchStream!Next
<1>7. CASE Finishes
  \* Nothing is left, so what was not yielded was passed over or unlisted.
  <2>1. All \subseteq out \cup Excused
    BY <1>7 DEF Finishes, Moves, Excused
  <2>2. FetchStream!End
    BY <1>7, <2>1 DEF Finishes, Moves, Nothing, Excused,
                      All, FetchStream!End
  <2> QED
    BY <1>7, <2>2 DEF Finishes, Moves, FetchStream!Next
<1>8. CASE UNCHANGED fetchVars
  BY <1>8 DEF fetchVars, Excused, All, FetchStream!vars
<1> QED
  BY <1>2, <1>3, <1>4, <1>5, <1>6, <1>7, <1>8 DEF FetchNext

\* The sequential connectors keep the contract sync_documents relies on.
THEOREM NothingLost == FetchSpec => FetchImplementsStream
<1>1. LoopInv /\ [FetchNext]_fetchVars => [FetchStream!Next]_FetchStream!vars
  BY LoopStreamStep
<1> QED
  BY AlwaysLoopInv, LoopStreamStarts, <1>1, PTL
     DEF FetchSpec, FetchImplementsStream, FetchStream!Spec

================================================================================
