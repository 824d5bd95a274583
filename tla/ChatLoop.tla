------------------------------- MODULE ChatLoop -------------------------------
(***************************************************************************)
(* One chat request: chat/service.py, with both ways of talking to the     *)
(* model. The model may answer, call tools (any number, well or ill        *)
(* formed, for sources that exist or not) or say nothing; other requests   *)
(* create and delete sources meanwhile.                                    *)
(***************************************************************************)
EXTENDS Integers, Sequences, SequencesExt

CONSTANTS
    Sources,        \* names of sources
    MaxMessages,    \* bound: messages of the request
    HistoryLimit,   \* CHAT_HISTORY_LIMIT
    MaxIterations,  \* MAX_CHAT_ITERATIONS
    MaxCalls,       \* bound: tool calls in one message of the model
    Malformed       \* a call of an unknown tool or with arguments that do not parse

ASSUME LimitAssumption ==
    /\ MaxMessages \in Nat \ {0}
    /\ HistoryLimit \in Nat
    /\ MaxIterations \in Nat
    /\ MaxCalls \in Nat \ {0}
ASSUME CallAssumption == Malformed \notin Sources

VARIABLES
    settings,   \* the API of the model and the metadata back end; never changed
    existing,   \* the sources that exist
    messages,   \* the user's conversation, as numbers
    input,      \* what the next request to the model carries
    chained,    \* the calls of the response previous_response_id names
    calls,      \* the calls being executed
    asked,      \* how often the model was asked
    at,         \* where the handler is, or its outcome
    unchecked   \* names get_metadata is still to be called with

chatVars == <<settings, existing, messages, input, chained, calls, asked, at, unchecked>>

UseResponses == settings.responses

Outcomes == {"answer", "refusal", "dont_know", "bad_request", "not_found",
             "api_error"}

Said(m) == [kind |-> "said", what |-> m]
Called(call) == [kind |-> "call", what |-> call]
Output(call) == [kind |-> "output", what |-> call]

\* Mutant: the newest message is dropped with the window's end.
MutantWindow(conversation, limit) ==
    LET n == Len(conversation)
        first == IF limit = 0 THEN 1 ELSE IF n > limit THEN n - limit + 1 ELSE 1
    IN  SubSeq(conversation, first, n - 1)

\* messages[-limit : -1] and then messages[-1]; a limit of 0 slices from the
\* start.
Window(conversation, limit) ==
    LET n == Len(conversation)
        first == IF limit = 0 THEN 1 ELSE IF n > limit THEN n - limit + 1 ELSE 1
    IN  Append(SubSeq(conversation, first, n - 1), conversation[n])

\* chat_input.sources names some sources, or none for all of them.
ChatInit ==
    /\ settings \in [responses : BOOLEAN, metadata : {"postgres", "redis"}]
    /\ existing \in SUBSET Sources
    /\ \E n \in 1..MaxMessages : messages = [k \in 1..n |-> k]
    /\ input = <<>>
    /\ chained = <<>>
    /\ calls = <<>>
    /\ asked = 0
    /\ unchecked \in SUBSET Sources
    /\ at = IF unchecked = {} THEN "list" ELSE "validate"

-----------------------------------------------------------------------------
(* generate_response. *)

Ends(outcome) ==
    /\ at' = outcome
    /\ UNCHANGED <<settings, existing, messages, input, chained, calls, asked, unchecked>>

\* What list_metadata reads first: PostgreSQL reads the rows, Redis their keys
\* only and every hash in a call of its own.
Listed == IF settings.metadata = "redis" THEN existing ELSE {}

\* No source is requested by name: list_sources.
ListsSources ==
    /\ at = "list"
    /\ IF existing = {}
         THEN Ends("bad_request")
         ELSE /\ unchecked' = Listed
              /\ at' = "validate"
              /\ UNCHANGED <<settings, existing, messages, input, chained, calls, asked>>

\* get_metadata of one name, requested by the user or found by list_metadata:
\* 404 for one that is missing.
LooksUp(s) ==
    /\ at \in {"validate", "tool_list"}
    /\ s \in unchecked
    /\ IF s \in existing
         THEN /\ unchecked' = unchecked \ {s}
              /\ UNCHANGED <<settings, existing, messages, input, chained, calls, asked, at>>
         ELSE Ends("not_found")

\* All of them were found: the conversation is put together.
Prepares ==
    /\ at = "validate"
    /\ unchecked = {}
    /\ LET recent == Window(messages, HistoryLimit) IN
         input' = [k \in DOMAIN recent |-> Said(recent[k])]
    /\ at' = "ask"
    /\ UNCHANGED <<settings, existing, messages, chained, calls, asked, unchecked>>

\* Mutant: rounds of tool calls are not counted.
MutantAsksOn ==
    /\ at = "ask"
    /\ at' = "model"
    /\ UNCHANGED <<settings, existing, messages, input, chained, calls, asked, unchecked>>

\* The next turn of the loop, while there are turns left.
Asks ==
    /\ at = "ask"
    /\ IF asked < MaxIterations
         THEN /\ asked' = asked + 1
              /\ at' = "model"
              /\ UNCHANGED <<settings, existing, messages, input, chained, calls, unchecked>>
         ELSE Ends("dont_know")

\* Content without calls; a refusal counts as an answer of the Responses API.
ModelAnswers ==
    /\ at = "model"
    /\ \/ Ends("answer")
       \/ UseResponses /\ Ends("refusal")

\* Neither content nor calls, or a response that is incomplete, whatever
\* calls it carries.
ModelSaysNothing == at = "model" /\ Ends("bad_request")

\* The chat client raises, or the embedding client in the search of a tool.
ModelFails ==
    /\ at = "model" \/ (at = "tools" /\ calls # <<>> /\ Head(calls) \in existing)
    /\ Ends("api_error")

\* The model calls tools: the chat API gets its message back in the list of
\* messages, the Responses API a reference to the response.
ModelCalls ==
    /\ at = "model"
    /\ \E n \in 1..MaxCalls :
       \E made \in [1..n -> Sources \cup {Malformed}] :
         /\ calls' = made
         /\ IF UseResponses
              THEN chained' = made /\ input' = <<>>
              ELSE /\ input' = input \o [k \in 1..n |-> Called(made[k])]
                   /\ UNCHANGED chained
    /\ at' = "tools"
    /\ UNCHANGED <<settings, existing, messages, asked, unchecked>>

\* Mutant: a source that is gone ends the request.
MutantRunsTool ==
    /\ at = "tools"
    /\ calls # <<>>
    /\ IF Head(calls) = Malformed THEN Ends("bad_request")
       ELSE IF Head(calls) \notin existing THEN Ends("not_found")
       ELSE /\ input' = Append(input, Output(Head(calls)))
            /\ calls' = Tail(calls)
            /\ UNCHANGED <<settings, existing, messages, chained, asked, at, unchecked>>

\* _retrieve_documents for the next call: the documents of a source that
\* exists. For one that does not, the sources are listed for the model to read.
RunsTool ==
    /\ at = "tools"
    /\ calls # <<>>
    /\ IF Head(calls) = Malformed THEN Ends("bad_request")
       ELSE IF Head(calls) \in existing
         THEN /\ input' = Append(input, Output(Head(calls)))
              /\ calls' = Tail(calls)
              /\ UNCHANGED <<settings, existing, messages, chained, asked, at, unchecked>>
       ELSE /\ at' = "tool_list"
            /\ unchecked' = Listed
            /\ UNCHANGED <<settings, existing, messages, input, chained, calls, asked>>

\* The list is complete and the error becomes the tool's result.
ReportsMissing ==
    /\ at = "tool_list"
    /\ unchecked = {}
    /\ input' = Append(input, Output(Head(calls)))
    /\ calls' = Tail(calls)
    /\ at' = "tools"
    /\ UNCHANGED <<settings, existing, messages, chained, asked, unchecked>>

\* Mutant: the loop goes on after the first call of a message.
MutantToolsDone ==
    /\ at = "tools"
    /\ Len(calls) <= 1
    /\ at' = "ask"
    /\ calls' = <<>>
    /\ UNCHANGED <<settings, existing, messages, input, chained, asked, unchecked>>

ToolsDone ==
    /\ at = "tools"
    /\ calls = <<>>
    /\ at' = "ask"
    /\ UNCHANGED <<settings, existing, messages, input, chained, calls, asked, unchecked>>

\* Other requests create and delete sources while this one runs.
SourceComesOrGoes(s) ==
    /\ at \notin Outcomes
    /\ existing' = IF s \in existing THEN existing \ {s} ELSE existing \cup {s}
    /\ UNCHANGED <<settings, messages, input, chained, calls, asked, at, unchecked>>

Handler ==
    \/ ListsSources
    \/ \E s \in Sources : LooksUp(s)
    \/ Prepares
    \/ Asks
    \/ ModelAnswers
    \/ ModelSaysNothing
    \/ ModelFails
    \/ ModelCalls
    \/ RunsTool
    \/ ReportsMissing
    \/ ToolsDone

ChatNext == Handler \/ \E s \in Sources : SourceComesOrGoes(s)

ChatSpec == ChatInit /\ [][ChatNext]_chatVars

\* Fairness: the handler runs on and the model's client returns or raises.
ChatFairSpec == ChatSpec /\ WF_chatVars(Handler)

-----------------------------------------------------------------------------
(* Properties. *)

\* What the entries of one kind carry, in their order.
Carried(kind, entries) ==
    LET what[n \in 0..Len(entries)] ==
          IF n = 0 THEN <<>>
          ELSE IF entries[n].kind = kind
            THEN Append(what[n - 1], entries[n].what)
          ELSE what[n - 1]
    IN  what[Len(entries)]

\* Whenever the model is asked, every tool call it made is answered exactly
\* once and in order: both APIs refuse a conversation that leaves one open.
CallsAnswered ==
    at = "model" =>
        Carried("output", input) =
            IF UseResponses THEN chained ELSE Carried("call", input)

\* A conversation opens with the last HistoryLimit messages, the newest last,
\* for every limit of at least 1.
RecentMessages ==
    at = "model" /\ chained = <<>> /\ HistoryLimit > 0 =>
        LET said == Carried("said", input) IN
          /\ IsSuffix(said, messages)
          /\ Len(said) = IF Len(messages) < HistoryLimit
                           THEN Len(messages) ELSE HistoryLimit

\* Once the conversation has begun, a source that disappears is no longer a
\* 404 of the request: the model is told of it and may go on. Only a source
\* that was missing before the conversation answers 404. With metadata in
\* Redis this holds of the tool call itself, not of the list of sources made
\* for its result, whose hashes are read one after the other.
NotFoundEarly ==
    [][at' = "not_found" /\ at # "not_found" =>
         asked = 0 \/ (at = "tool_list" /\ settings.metadata = "redis")]_chatVars

\* Every chat request is answered.
EveryChatEnds == <>(at \in Outcomes)

=============================================================================
