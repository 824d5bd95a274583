------------------------- MODULE GithubFetchProofs -------------------------
(***************************************************************************)
(* The issues connector, for any pages, number of slots and attempts: the  *)
(* callers its rate-limit event holds back are woken, and what its run     *)
(* leaves out is explained by exhausted requests.                          *)
(***************************************************************************)
EXTENDS GithubIssuesFetch, TLAPS

PCs == {"idle", "ready", "waiting", "queued", "sent", "limited",
        "backing_off", "raised", "finished"}

Types ==
    /\ event \in BOOLEAN
    /\ pc \in [Callers -> PCs]
    /\ tries \in [Callers -> Nat]
    /\ page \in DOMAIN Pages
    /\ batch \subseteq Issues
    /\ comments \in [Issues -> Nat]
    /\ delivered \in [Issues -> {"no", "whole", "short"}]
    /\ stage \in {"page", "items", "ended", "raised"}
    /\ exhausted \subseteq Callers

\* The page loop and the tasks of its pages take turns.
Phases ==
    /\ stage = "page" =>
         /\ batch = {}
         /\ \A i \in Issues : pc[i] \in {"idle", "finished"}
    /\ stage = "items" =>
         /\ pc[Main] = "idle"
         /\ \A i \in Issues \ batch : pc[i] \in {"idle", "finished"}

\* What c's request did: its own place has changed, and parked callers may
\* have moved up; the page loop may have given up.
Moves(c) ==
    /\ Running
    /\ pc[c] \notin {"idle", "raised", "finished"}
    /\ \A d \in Callers \ {c} :
         pc'[d] = pc[d] \/ (pc[d] = "waiting" /\ pc'[d] = "queued")
    /\ pc' \in [Callers -> PCs]
    /\ \/ UNCHANGED stage
       \/ stage' = "ended" /\ c = Main
    /\ UNCHANGED <<page, batch, delivered>>

LEMMA RequestMoves ==
    ASSUME Types, NEW c \in Callers, Step(c), ~(c = Main /\ PageArrives)
    PROVE  Moves(c)
<1> USE DEF Types, Moves, Running, Resumes
<1>1. ASSUME NEW isSet \in BOOLEAN, Retries(c, isSet), Running,
             pc[c] \in {"limited", "backing_off"},
             UNCHANGED <<page, batch, delivered>>
      PROVE  Moves(c)
  <2>1. Released(isSet) \in [Callers -> PCs]
    BY DEF Released, PCs
  <2>2. pc' \in [Callers -> PCs]
    BY <1>1, <2>1 DEF Retries, PCs
  <2>3. \A d \in Callers \ {c} : pc'[d] = Released(isSet)[d]
    BY <1>1, <2>1 DEF Retries
  <2>4. \A d \in Callers \ {c} :
          pc'[d] = pc[d] \/ (pc[d] = "waiting" /\ pc'[d] = "queued")
    BY <2>3 DEF Released
  <2> QED
    BY <1>1, <2>2, <2>4 DEF Retries
<1>2. CASE Enter(c)
  BY <1>2 DEF Enter, PCs
<1>3. CASE Send(c)
  BY <1>3 DEF Send, PCs
<1>4. CASE Throttled(c) \/ BadRetryAfter(c) \/ Rejected(c) \/ Broken(c)
  BY <1>4 DEF Throttled, BadRetryAfter, Rejected, Broken, PCs
<1>5. CASE c \in Issues /\ CommentsArrive(c)
  BY <1>5 DEF CommentsArrive, PCs
<1>6. CASE LimitLifted(c)
  BY <1>1, <1>6 DEF LimitLifted
<1>7. CASE BackoffEnds(c)
  BY <1>1, <1>7 DEF BackoffEnds
<1> QED
  BY <1>2, <1>3, <1>4, <1>5, <1>6, <1>7 DEF Step, Answer

-----------------------------------------------------------------------------
(* Types and turns. *)

TurnInv == Types /\ Phases

LEMMA InitTurn == Init => TurnInv
BY MainAssumption, PageAssumption
   DEF Init, TurnInv, Types, Phases, Callers, PCs

LEMMA StepTurn == TurnInv /\ [Next]_vars => TurnInv'
<1> SUFFICES ASSUME TurnInv, [Next]_vars PROVE TurnInv'
  OBVIOUS
<1> USE MainAssumption, PageAssumption, IssueAssumption
<1>1. ASSUME NEW c \in Callers, Step(c), ~(c = Main /\ PageArrives)
      PROVE  TurnInv'
  <2>1. Moves(c)
    BY <1>1, RequestMoves DEF TurnInv
  <2>2. Phases'
    BY <2>1 DEF TurnInv, Types, Phases, Moves, Running, Callers
  <2>3. event' \in BOOLEAN /\ tries' \in [Callers -> Nat]
          /\ comments' \in [Issues -> Nat] /\ exhausted' \subseteq Callers
    <3>1. CASE \/ Enter(c) \/ Send(c) \/ Throttled(c) \/ BadRetryAfter(c)
               \/ Rejected(c) \/ Broken(c)
      BY <3>1 DEF TurnInv, Types, Enter, Send, Throttled, BadRetryAfter,
                  Rejected, Broken
    <3>2. CASE c \in Issues /\ CommentsArrive(c)
      BY <3>2 DEF TurnInv, Types, CommentsArrive
    <3>3. CASE LimitLifted(c) \/ BackoffEnds(c)
      <4>1. tries' = [tries EXCEPT ![c] = @ + 1]
              /\ (exhausted' = exhausted \/ exhausted' = exhausted \cup {c})
        BY <3>3 DEF LimitLifted, BackoffEnds, Retries
      <4>2. event' \in BOOLEAN /\ comments' = comments
        BY <3>3 DEF TurnInv, Types, LimitLifted, BackoffEnds
      <4> QED
        BY <4>1, <4>2 DEF TurnInv, Types
    <3> QED
      BY <1>1, <3>1, <3>2, <3>3 DEF Step, Answer
  <2> QED
    BY <2>1, <2>2, <2>3 DEF TurnInv, Types, Moves
<1>2. CASE PageArrives
  <2>1. Pages[page] \subseteq Issues
    BY DEF TurnInv, Types, Issues
  <2>2. pc' \in [Callers -> PCs]
    BY <1>2 DEF TurnInv, Types, PageArrives, FirstStep, PCs
  <2>3. Types'
    BY <1>2, <2>1, <2>2 DEF TurnInv, Types, PageArrives
  <2>4. Phases'
    BY <1>2, <2>1 DEF TurnInv, Types, Phases, PageArrives, Resumes, Running,
                      Callers
  <2> QED
    BY <2>3, <2>4 DEF TurnInv
<1>3. ASSUME NEW i \in Issues, Collect(i) PROVE TurnInv'
  <2>1. Types'
    BY <1>3 DEF TurnInv, Types, Collect, Result
  <2>2. Phases'
    BY <1>3 DEF TurnInv, Types, Phases, Collect
  <2> QED
    BY <2>1, <2>2 DEF TurnInv
<1>4. CASE NextPage
  <2>1. Types'
    BY <1>4 DEF TurnInv, Types, NextPage, Callers, PCs
  <2>2. Phases'
    BY <1>4 DEF TurnInv, Types, Phases, NextPage, Callers
  <2> QED
    BY <2>1, <2>2 DEF TurnInv
<1>5. CASE PageRaises
  BY <1>5 DEF TurnInv, Types, Phases, PageRaises
<1>6. CASE UNCHANGED vars
  BY <1>6 DEF TurnInv, Types, Phases, vars
<1> QED
  BY <1>1, <1>2, <1>3, <1>4, <1>5, <1>6 DEF Next

LEMMA AlwaysTurn == Spec => []TurnInv
BY InitTurn, StepTurn, PTL DEF Spec

-----------------------------------------------------------------------------
(* The rate-limit event. *)

\* Who cleared the event is asleep until it sets it, or about to end the run:
\* no other step takes a caller out of "limited" or "raised".
LEMMA StepWakes == TurnInv /\ SomebodyWakesThem /\ [Next]_vars => SomebodyWakesThem'
<1> SUFFICES ASSUME TurnInv, SomebodyWakesThem, [Next]_vars, ~event', Running'
             PROVE  \E c \in Callers : pc'[c] \in {"limited", "raised"}
  BY DEF SomebodyWakesThem
<1> USE MainAssumption
<1>1. ASSUME NEW c \in Callers, Throttled(c) \/ BadRetryAfter(c)
      PROVE  pc'[c] \in {"limited", "raised"}
  BY <1>1 DEF Throttled, BadRetryAfter, TurnInv, Types
<1>2. ASSUME NEW c \in Callers, Step(c), ~(c = Main /\ PageArrives),
             ~(Throttled(c) \/ BadRetryAfter(c))
      PROVE  \E d \in Callers : pc'[d] \in {"limited", "raised"}
  <2>1. ~LimitLifted(c)
    BY DEF LimitLifted
  <2>2. ~event /\ pc[c] \notin {"limited", "raised"}
    BY <1>2, <2>1 DEF Step, Answer, Enter, Send, Rejected, Broken,
                      CommentsArrive, BackoffEnds, Resumes
  <2>3. Moves(c)
    BY <1>2, RequestMoves DEF TurnInv
  <2>4. PICK d \in Callers : pc[d] \in {"limited", "raised"}
    BY <2>2, <2>3 DEF SomebodyWakesThem, Moves
  <2> QED
    BY <2>2, <2>3, <2>4 DEF Moves
<1>3. ASSUME PageArrives \/ NextPage PROVE FALSE
  \* No issue is limited or raised, nor is the page loop.
  <2>1. ~event /\ Running
    BY <1>3 DEF PageArrives, NextPage, Resumes, Running
  <2>2. PICK d \in Callers : pc[d] \in {"limited", "raised"}
    BY <2>1 DEF SomebodyWakesThem
  <2>3. stage = "page" \/ (stage = "items" /\ batch = {})
    BY <1>3 DEF TurnInv, Phases, PageArrives, NextPage, Resumes, Running
  <2>4. d = Main /\ stage = "page"
    BY <2>2, <2>3 DEF TurnInv, Phases, Callers
  <2> QED
    BY <1>3, <2>2, <2>4 DEF PageArrives, NextPage, Resumes
<1>4. ASSUME NEW i \in Issues, Collect(i)
      PROVE  \E c \in Callers : pc'[c] \in {"limited", "raised"}
  BY <1>4 DEF Collect, Running, SomebodyWakesThem
<1>5. CASE PageRaises
  BY <1>5 DEF PageRaises, Running
<1>6. CASE UNCHANGED vars
  BY <1>6 DEF vars, Running, SomebodyWakesThem
<1> QED
  BY <1>1, <1>2, <1>3, <1>4, <1>5, <1>6 DEF Next

\* In every run the callers parked on the rate-limit event are going to be
\* woken, or the run is about to raise.
THEOREM NobodyForgotten == Spec => []SomebodyWakesThem
<1>1. Init => SomebodyWakesThem
  BY DEF Init, SomebodyWakesThem
<1> QED
  BY <1>1, AlwaysTurn, StepWakes, PTL DEF Spec

-----------------------------------------------------------------------------
(* Losses. *)

\* The issues of a page that has not arrived are untouched.
Fresh ==
    \A k \in DOMAIN Pages : k > page \/ (k = page /\ stage = "page") =>
        \A i \in Pages[k] :
            comments[i] = 0 /\ delivered[i] = "no" /\ pc[i] = "idle"

\* The page loop waits for tasks of its page that it has not yielded.
Waiting ==
    stage = "items" =>
        batch \subseteq Pages[page] /\ \A i \in batch : delivered[i] = "no"

\* A task that is over has all its comments or gave up.
Explained ==
    \A i \in Wanted :
        /\ pc[i] = "finished" => comments[i] = CommentPages[i] \/ i \in exhausted
        /\ delivered[i] = "short" => i \in exhausted

\* What the page loop has left behind was yielded.
Complete ==
    /\ stage \in {"page", "items"} =>
         \A k \in DOMAIN Pages : k < page =>
             \A i \in Pages[k] \cap Wanted : delivered[i] # "no"
    /\ stage = "items" =>
         \A i \in (Pages[page] \cap Wanted) \ batch : delivered[i] # "no"
    /\ stage = "ended" =>
         Main \in exhausted \/ \A i \in Wanted : delivered[i] # "no"

LossInv == TurnInv /\ Fresh /\ Waiting /\ Explained /\ Complete

LEMMA InitLoss == Init => LossInv
<1> SUFFICES ASSUME Init PROVE LossInv
  OBVIOUS
<1> USE MainAssumption, PageAssumption, IssueAssumption
<1>1. \A k \in DOMAIN Pages : Pages[k] \subseteq Issues
  BY DEF Issues
<1>2. Fresh
  BY <1>1 DEF Init, Fresh, Callers
<1>3. Waiting /\ Explained
  BY DEF Init, Waiting, Explained, Callers
<1>4. Complete
  BY DEF Init, Complete
<1> QED
  BY <1>2, <1>3, <1>4, InitTurn DEF LossInv

\* What a request does to the books: it counts only its own comments, and a
\* caller that is through has counted all of them or is exhausted.
LEMMA RequestCounts ==
    ASSUME Types, NEW c \in Callers, Step(c), ~(c = Main /\ PageArrives)
    PROVE  /\ exhausted \subseteq exhausted'
           /\ \A i \in Issues \ {c} : comments'[i] = comments[i]
           /\ c \in Issues /\ pc'[c] = "finished" =>
                comments'[c] = CommentPages[c] \/ c \in exhausted'
           /\ stage' = "ended" /\ stage # "ended" => Main \in exhausted'
<1> USE DEF Types
<1>1. CASE \/ Enter(c) \/ Send(c) \/ Throttled(c) \/ BadRetryAfter(c)
           \/ Rejected(c) \/ Broken(c)
  BY <1>1 DEF Enter, Send, Throttled, BadRetryAfter, Rejected, Broken
<1>2. CASE c \in Issues /\ CommentsArrive(c)
  BY <1>2 DEF CommentsArrive
<1>3. CASE LimitLifted(c) \/ BackoffEnds(c)
  <2>1. PICK isSet \in BOOLEAN : Retries(c, isSet)
    BY <1>3 DEF LimitLifted, BackoffEnds
  <2>2. comments' = comments
    BY <1>3 DEF LimitLifted, BackoffEnds
  <2>3. DOMAIN Released(isSet) = Callers
    BY DEF Released
  <2> QED
    BY <2>1, <2>2, <2>3 DEF Retries
<1> QED
  BY <1>1, <1>2, <1>3 DEF Step, Answer

LEMMA RequestLoss ==
    ASSUME LossInv, NEW c \in Callers, Step(c), ~(c = Main /\ PageArrives)
    PROVE  Fresh' /\ Waiting' /\ Explained' /\ Complete'
<1> USE MainAssumption, PageAssumption, IssueAssumption
<1>1. Moves(c)
  BY RequestMoves DEF LossInv, TurnInv
<1>2. /\ exhausted \subseteq exhausted'
      /\ \A i \in Issues \ {c} : comments'[i] = comments[i]
      /\ c \in Issues /\ pc'[c] = "finished" =>
           comments'[c] = CommentPages[c] \/ c \in exhausted'
      /\ stage' = "ended" /\ stage # "ended" => Main \in exhausted'
  BY RequestCounts DEF LossInv, TurnInv
<1>3. Fresh'
  <2> SUFFICES ASSUME NEW k \in DOMAIN Pages,
                      k > page \/ (k = page /\ stage' = "page"),
                      NEW i \in Pages[k]
               PROVE  comments'[i] = 0 /\ delivered'[i] = "no" /\ pc'[i] = "idle"
    BY <1>1 DEF Fresh, Moves
  <2>1. i \in Issues
    BY DEF Issues
  <2>2. comments[i] = 0 /\ delivered[i] = "no" /\ pc[i] = "idle"
    BY <1>1 DEF LossInv, Fresh, Moves
  <2>3. i # c /\ i \in Callers
    BY <1>1, <2>1, <2>2 DEF Moves, Callers
  <2> QED
    BY <1>1, <1>2, <2>1, <2>2, <2>3 DEF Moves
<1>4. Waiting'
  BY <1>1 DEF LossInv, Waiting, Moves
<1>5. Explained'
  <2> SUFFICES ASSUME NEW i \in Wanted
               PROVE  /\ pc'[i] = "finished" =>
                           comments'[i] = CommentPages[i] \/ i \in exhausted'
                      /\ delivered'[i] = "short" => i \in exhausted'
    BY DEF Explained
  <2>1. i \in Issues /\ i \in Callers
    BY DEF Callers
  <2> QED
    BY <1>1, <1>2, <2>1 DEF LossInv, Explained, Moves
<1>6. Complete'
  BY <1>1, <1>2 DEF LossInv, Complete, Moves, Running
<1> QED
  BY <1>3, <1>4, <1>5, <1>6

LEMMA PageLoss ==
    ASSUME LossInv, PageArrives
    PROVE  Fresh' /\ Waiting' /\ Explained' /\ Complete'
<1> USE MainAssumption, PageAssumption, IssueAssumption
<1>1. stage = "page" /\ page \in DOMAIN Pages /\ Pages[page] \subseteq Issues
  BY DEF PageArrives, Resumes, Running, LossInv, TurnInv, Types, Phases, Issues
<1>2. \A i \in Pages[page] :
        comments[i] = 0 /\ delivered[i] = "no" /\ pc[i] = "idle"
  BY <1>1 DEF LossInv, Fresh
<1>3. /\ \A i \in Pages[page] : pc'[i] = FirstStep(i)
      /\ \A i \in Issues \ Pages[page] : pc'[i] = pc[i]
  BY <1>1 DEF PageArrives, Callers
<1>4. /\ UNCHANGED <<page, comments, delivered, exhausted>>
      /\ stage' = IF Pages[page] = {} THEN "ended" ELSE "items"
      /\ batch' = Pages[page]
  BY DEF PageArrives
<1>5. Fresh'
  <2> SUFFICES ASSUME NEW k \in DOMAIN Pages, k > page, NEW i \in Pages[k]
               PROVE  comments'[i] = 0 /\ delivered'[i] = "no" /\ pc'[i] = "idle"
    BY <1>4 DEF Fresh
  <2>1. i \in Issues \ Pages[page]
    BY <1>1 DEF Issues
  <2> QED
    BY <1>3, <1>4, <2>1 DEF LossInv, Fresh
<1>6. Waiting'
  BY <1>2, <1>4 DEF Waiting
<1>7. Explained'
  <2> SUFFICES ASSUME NEW i \in Wanted
               PROVE  /\ pc'[i] = "finished" =>
                           comments'[i] = CommentPages[i] \/ i \in exhausted'
                      /\ delivered'[i] = "short" => i \in exhausted'
    BY DEF Explained
  <2>1. CASE i \in Pages[page]
    BY <1>2, <1>3, <1>4, <2>1 DEF FirstStep
  <2>2. CASE i \notin Pages[page]
    BY <1>3, <1>4, <2>2 DEF LossInv, Explained
  <2> QED
    BY <2>1, <2>2
<1>8. Complete'
  <2>1. CASE Pages[page] = {}
    \* The empty page is the last one, so every issue is on an earlier page.
    <3>1. page = Len(Pages)
      BY <1>1, <2>1
    <3>2. ASSUME NEW i \in Wanted PROVE delivered[i] # "no"
      <4>1. PICK k \in DOMAIN Pages : i \in Pages[k]
        BY DEF Issues
      <4>2. k < page
        BY <2>1, <3>1, <4>1
      <4> QED
        BY <1>1, <4>1, <4>2 DEF LossInv, Complete
    <3> QED
      BY <1>4, <2>1, <3>2 DEF Complete
  <2>2. CASE Pages[page] # {}
    BY <1>1, <1>4, <2>2 DEF LossInv, Complete
  <2> QED
    BY <2>1, <2>2
<1> QED
  BY <1>5, <1>6, <1>7, <1>8

LEMMA CollectLoss ==
    ASSUME LossInv, NEW i \in Issues, Collect(i)
    PROVE  Fresh' /\ Waiting' /\ Explained' /\ Complete'
<1> USE MainAssumption, PageAssumption, IssueAssumption
<1>1. /\ stage = "items" /\ i \in batch /\ i \in Pages[page]
      /\ delivered[i] = "no" /\ page \in DOMAIN Pages
      /\ UNCHANGED <<pc, page, comments, exhausted>>
  BY DEF Collect, LossInv, Waiting, TurnInv, Types
<1>2. CASE pc[i] = "raised" /\ stage' = "raised" /\ UNCHANGED delivered
  <2>1. Fresh'
    BY <1>1, <1>2 DEF LossInv, Fresh
  <2>2. Waiting' /\ Explained' /\ Complete'
    BY <1>1, <1>2 DEF LossInv, Waiting, Explained, Complete
  <2> QED
    BY <2>1, <2>2
<1>3. CASE /\ pc[i] = "finished" /\ UNCHANGED stage /\ batch' = batch \ {i}
           /\ delivered' = [delivered EXCEPT ![i] = Result(i)]
  <2>1. /\ delivered'[i] = Result(i)
        /\ \A j \in Issues \ {i} : delivered'[j] = delivered[j]
    BY <1>3 DEF LossInv, TurnInv, Types
  <2>2. Fresh'
    <3> SUFFICES ASSUME NEW k \in DOMAIN Pages, k > page, NEW j \in Pages[k]
                 PROVE  comments'[j] = 0 /\ delivered'[j] = "no" /\ pc'[j] = "idle"
      BY <1>1, <1>3 DEF Fresh
    <3>1. j \in Issues /\ j # i
      BY <1>1 DEF Issues
    <3> QED
      BY <1>1, <2>1, <3>1 DEF LossInv, Fresh
  <2>3. Waiting'
    BY <1>1, <1>3, <2>1 DEF LossInv, Waiting, TurnInv, Types
  <2>4. Result(i) = "short" => i \in exhausted
    BY <1>3 DEF LossInv, Explained, Result
  <2>5. Explained'
    BY <1>1, <2>1, <2>4 DEF LossInv, Explained
  <2>6. i \in Wanted => Result(i) # "no"
    BY DEF Result
  <2>7. Complete'
    <3>1. \A j \in Wanted : delivered[j] # "no" => delivered'[j] # "no"
      BY <2>1, <2>6
    <3> QED
      BY <1>1, <1>3, <2>1, <2>6, <3>1 DEF LossInv, Complete
  <2> QED
    BY <2>2, <2>3, <2>5, <2>7
<1> QED
  BY <1>2, <1>3 DEF Collect

LEMMA NextLoss ==
    ASSUME LossInv, NextPage
    PROVE  Fresh' /\ Waiting' /\ Explained' /\ Complete'
<1> USE MainAssumption, PageAssumption, IssueAssumption
<1>1. /\ stage = "items" /\ batch = {} /\ page \in DOMAIN Pages
      /\ UNCHANGED <<batch, comments, delivered, exhausted>>
  BY DEF NextPage, LossInv, TurnInv, Types
<1>2. \A i \in Issues : pc'[i] = pc[i]
  BY DEF NextPage, LossInv, TurnInv, Types, Callers
<1>3. \A k \in DOMAIN Pages : Pages[k] \subseteq Issues
  BY DEF Issues
<1>4. \A k \in DOMAIN Pages : k <= page =>
        \A i \in Pages[k] \cap Wanted : delivered[i] # "no"
  BY <1>1 DEF LossInv, Complete
<1>5. CASE page < Len(Pages)
  <2>1. page' = page + 1 /\ stage' = "page"
    BY <1>5 DEF NextPage
  <2>2. Fresh'
    BY <1>1, <1>2, <1>3, <2>1 DEF LossInv, Fresh
  <2>3. Waiting' /\ Explained'
    BY <1>1, <1>2, <2>1 DEF LossInv, Waiting, Explained
  <2>4. Complete'
    BY <1>1, <1>4, <2>1 DEF Complete
  <2> QED
    BY <2>2, <2>3, <2>4
<1>6. CASE ~(page < Len(Pages))
  <2>1. page' = page /\ stage' = "ended"
    BY <1>6 DEF NextPage
  <2>2. Fresh'
    BY <1>1, <1>2, <1>3, <2>1 DEF LossInv, Fresh
  <2>3. Waiting' /\ Explained'
    BY <1>1, <1>2, <2>1 DEF LossInv, Waiting, Explained
  <2>4. \A i \in Wanted : delivered[i] # "no"
    BY <1>1, <1>4, <1>6 DEF Issues
  <2>5. Complete'
    BY <1>1, <2>1, <2>4 DEF Complete
  <2> QED
    BY <2>2, <2>3, <2>5
<1> QED
  BY <1>5, <1>6

LEMMA StepLoss == LossInv /\ [Next]_vars => LossInv'
<1> SUFFICES ASSUME LossInv, [Next]_vars PROVE LossInv'
  OBVIOUS
<1>1. TurnInv'
  BY StepTurn DEF LossInv
<1>2. ASSUME NEW c \in Callers, Step(c), ~(c = Main /\ PageArrives)
      PROVE  Fresh' /\ Waiting' /\ Explained' /\ Complete'
  BY <1>2, RequestLoss
<1>3. CASE PageArrives
  BY <1>1, <1>3, PageLoss DEF LossInv
<1>4. ASSUME NEW i \in Issues, Collect(i)
      PROVE  Fresh' /\ Waiting' /\ Explained' /\ Complete'
  BY <1>4, CollectLoss
<1>5. CASE NextPage
  BY <1>1, <1>5, NextLoss DEF LossInv
<1>6. CASE PageRaises
  BY <1>1, <1>6 DEF PageRaises, LossInv, Fresh, Waiting, Explained, Complete
<1>7. CASE UNCHANGED vars
  BY <1>1, <1>7 DEF vars, LossInv, Fresh, Waiting, Explained, Complete
<1> QED
  BY <1>1, <1>2, <1>3, <1>4, <1>5, <1>6, <1>7 DEF Next, LossInv

LEMMA AlwaysLoss == Spec => []LossInv
BY InitLoss, StepLoss, PTL DEF Spec

\* Whatever is missing from a run without an error is missing because all
\* attempts of a request were used up.
THEOREM OnlyExplainedLosses == Spec => []LossesExplained
<1>1. LossInv => LossesExplained
  BY DEF LossInv, Explained, Complete, LossesExplained
<1> QED
  BY AlwaysLoss, <1>1, PTL

-----------------------------------------------------------------------------
(* The refinement of DocumentStream. *)

LEMMA StreamStep == LossInv /\ [Next]_vars => [Stream!Next]_Stream!vars
<1> SUFFICES ASSUME LossInv, [Next]_vars
             PROVE  Stream!Next \/ UNCHANGED Stream!vars
  OBVIOUS
<1> USE MainAssumption, PageAssumption, IssueAssumption
<1>1. ASSUME NEW c \in Callers, Step(c), ~(c = Main /\ PageArrives)
      PROVE  Stream!Next \/ UNCHANGED Stream!vars
  <2>1. Moves(c)
    BY <1>1, RequestMoves DEF LossInv, TurnInv
  <2>2. /\ exhausted \subseteq exhausted'
        /\ stage' = "ended" /\ stage # "ended" => Main \in exhausted'
    BY <1>1, RequestCounts DEF LossInv, TurnInv
  <2>3. Running /\ delivered' = delivered /\ (stage' = stage \/ stage' = "ended")
    BY <2>1 DEF Moves
  <2>4. CASE stage' = "ended"
    <3>1. Stream!End
      BY <2>2, <2>3, <2>4 DEF Running, Stream!End
    <3> QED
      BY <2>3, <3>1 DEF Stream!Next
  <2>5. CASE stage' # "ended"
    <3>1. Stream!Learn
      BY <2>2, <2>3, <2>5 DEF Running, Stream!Learn
    <3> QED
      BY <2>3, <3>1 DEF Stream!Next
  <2> QED
    BY <2>4, <2>5
<1>2. CASE PageArrives \/ NextPage
  <2>1. Running /\ UNCHANGED <<delivered, exhausted>>
    BY <1>2 DEF PageArrives, NextPage, Resumes, Running
  <2>2. CASE stage' = "ended"
    <3>1. Complete'
      BY <1>2, PageLoss, NextLoss
    <3>2. Wanted \subseteq {i \in Issues : delivered[i] # "no"}
                             \cup (IF Main \in exhausted THEN Wanted ELSE {})
      BY <2>1, <2>2, <3>1 DEF Complete
    <3>3. Stream!End
      BY <2>1, <2>2, <3>2 DEF Running, Stream!End
    <3> QED
      BY <2>1, <3>3 DEF Stream!Next
  <2>3. CASE stage' # "ended"
    BY <1>2, <2>1, <2>3 DEF PageArrives, NextPage, Running, Stream!vars
  <2> QED
    BY <2>2, <2>3
<1>3. ASSUME NEW i \in Issues, Collect(i)
      PROVE  Stream!Next \/ UNCHANGED Stream!vars
  <2>1. stage = "items" /\ delivered[i] = "no" /\ exhausted' = exhausted
          /\ delivered \in [Issues -> {"no", "whole", "short"}]
    BY <1>3 DEF Collect, LossInv, Waiting, TurnInv, Types
  <2>2. CASE pc[i] = "raised" /\ stage' = "raised" /\ UNCHANGED delivered
    <3>1. Stream!Raise
      BY <2>1, <2>2 DEF Running, Stream!Raise
    <3> QED
      BY <2>1, <3>1 DEF Running, Stream!Next
  <2>3. CASE delivered' = [delivered EXCEPT ![i] = Result(i)] /\ UNCHANGED stage
    <3>1. CASE i \in Wanted
      <4>1. {j \in Issues : delivered'[j] # "no"} =
              {j \in Issues : delivered[j] # "no"} \cup {i}
        BY <2>1, <2>3, <3>1 DEF Result
      <4>2. Stream!Yield(i)
        BY <2>1, <2>3, <4>1 DEF Running, Stream!Yield
      <4> QED
        BY <2>1, <3>1, <4>2 DEF Running, Stream!Next
    <3>2. CASE i \notin Wanted
      <4>1. delivered' = delivered
        BY <2>1, <2>3, <3>2 DEF Result
      <4> QED
        BY <2>1, <2>3, <4>1 DEF Running, Stream!vars
    <3> QED
      BY <3>1, <3>2
  <2> QED
    BY <1>3, <2>2, <2>3 DEF Collect
<1>4. CASE PageRaises
  <2>1. Stream!Raise
    BY <1>4 DEF PageRaises, Running, Stream!Raise
  <2> QED
    BY <1>4, <2>1 DEF PageRaises, Running, Stream!Next
<1>5. CASE UNCHANGED vars
  BY <1>5 DEF vars, Running, Stream!vars
<1> QED
  BY <1>1, <1>2, <1>3, <1>4, <1>5 DEF Next

\* The issues connector keeps the contract sync_documents relies on, for any
\* list of issues, number of slots and order of answers.
THEOREM IssuesAccountedFor == Spec => ImplementsStream
<1>1. Init => Stream!Init
  BY DEF Init, Running, Issues, Stream!Init
<1> QED
  BY <1>1, AlwaysLoss, StreamStep, PTL DEF Spec, ImplementsStream, Stream!Spec

=============================================================================
