------------------------------- MODULE Claude -------------------------------
(***************************************************************************)
(* The paid Claude calls of the Surprise service: llm.AnthropicClient      *)
(* inside llm.Resilient.  The breaker and the retry loop are those of      *)
(* Resilience; this module says what makes an attempt succeed or fail, by  *)
(* the reply the Messages API gave to it, and what the caller is told.     *)
(*                                                                         *)
(* A reply is abstracted to what the client's code branches on.  The       *)
(* "ideas" field of a tool input is a base value inside a number of layers, *)
(* each a JSON string or an {"ideas": ...} object: both are peeled alike.  *)
(***************************************************************************)
EXTENDS Resilience, FiniteSets

CONSTANT MaxDepth   \* maxIdeasDecodeDepth

\* The pool of workers is finite, and the decoder (3 in the code) goes as deep as
\* the shapes that the comment of decodeIdeasField lists.
ASSUME ClaudeConstants ==
    /\ IsFiniteSet(Callers)
    /\ MaxDepth \in Nat /\ MaxDepth >= 2

VARIABLES
    op,         \* the method each caller last called
    answer,     \* what it returned, "pending" until it does
    seen,       \* history: what the reply to its last attempt said, see Said
    sent        \* history: calls begun since the last success or opening

claudeVars == <<op, answer, seen, sent>>
allVars == <<vars, claudeVars>>

-----------------------------------------------------------------------------
(* Replies *)

\* What the innermost value of the ideas field can be: an array of ideas, null
\* or absent or an empty string, one idea object, an object that is neither an
\* idea nor a wrapper, anything else.
Bases == {"array", "null", "idea", "foreign", "other"}

Payloads == [layers : 0..(MaxDepth + 1), base : Bases]

NoPayload == [layers |-> 0, base |-> "other"]

\* What a call gets back: no response, a status other than 2xx, a body that is
\* no message, a message without the block the method looks for, a message
\* whose emit_ideas block carries a payload, a verdict in words.
Failures == [kind : {"transport", "status", "garbled", "noBlock"}, payload : {NoPayload}]
ToolCalls == [kind : {"tool"}, payload : Payloads]
Verdicts == [kind : {"SAFE", "UNSAFE", "hedged"}, payload : {NoPayload}]
Replies(o) == Failures \cup (IF o = "ideas" THEN ToolCalls ELSE Verdicts)

\* The shapes the comment of decodeIdeasField lists, and the wrapper that was
\* stringified as a whole.
DocumentedShapes ==
    [layers : 0..2, base : {"array"}] \cup [layers : {0}, base : {"idea"}]

\* What a reader of the API's documentation takes a reply to say.
Said(r) ==
    CASE r.kind = "tool" -> IF r.payload \in DocumentedShapes THEN "ideas" ELSE "unclear"
      [] r.kind = "SAFE" -> "approved"
      [] r.kind = "UNSAFE" -> "rejected"
      [] r.kind = "hedged" -> "unclear"
      [] OTHER -> "nothing"

-----------------------------------------------------------------------------
(* AnthropicClient *)

\* Mutant: one layer is peeled and its content must be an array, as before the
\* whole wrapper was seen stringified.
DecodeOneLayer(p) ==
    IF p.layers <= 1 /\ p.base = "array" THEN "ideas" ELSE "error"

\* decodeIdeasFieldDepth, from the outermost layer in: an array and null are
\* taken at any depth, a wrapper is peeled and a single idea taken below the
\* bound only.
DecodeIdeasField(p) ==
    LET decode[depth \in 0..p.layers] ==
            IF depth < p.layers
            THEN IF depth < MaxDepth THEN decode[depth + 1] ELSE "error"
            ELSE CASE p.base = "array" -> "ideas"
                   [] p.base = "null" -> "noIdeas"
                   [] p.base = "idea" /\ depth < MaxDepth -> "ideas"
                   [] OTHER -> "error"
    IN decode[0]

\* GenerateIdeas after do: the first emit_ideas block decides.
GenerateIdeas(r) == IF r.kind = "tool" THEN DecodeIdeasField(r.payload) ELSE "error"

\* Moderate after do: anything the model says that does not contain UNSAFE
\* approves the text.
Moderate(r) ==
    CASE r.kind = "UNSAFE" -> "rejected"
      [] r.kind \in {"SAFE", "hedged"} -> "approved"
      [] OTHER -> "error"

\* do and the method around it: transport errors, every status that is not 2xx
\* and a body that does not decode are errors, none of them Permanent.
Outcome(o, r) == IF o = "ideas" THEN GenerateIdeas(r) ELSE Moderate(r)

-----------------------------------------------------------------------------
(* Resilient *)

\* out and err as the closure of Resilient leaves them, told to the caller when
\* Retry returns.
ReturnFrom(c, result) ==
    answer' = [answer EXCEPT ![c] = IF pc'[c] = "idle" THEN result ELSE "pending"]

\* The count of calls under way or failed, for PaidCallsBounded.
Recount == sent' = IF state' = "closed" /\ failures' > 0 THEN sent ELSE 0

CallMethod(c) ==
    /\ Call(c)
    /\ \E o \in {"ideas", "moderate"} : op' = [op EXCEPT ![c] = o]
    /\ answer' = [answer EXCEPT ![c] = "pending"]
    /\ seen' = [seen EXCEPT ![c] = "nothing"]
    /\ UNCHANGED sent

Send(c) ==
    /\ DoBegin(c)
    /\ sent' = sent + 1
    /\ seen' = [seen EXCEPT ![c] = "nothing"]
    /\ UNCHANGED <<op, answer>>

Reject(c) ==
    /\ DoRejected(c)
    /\ seen' = [seen EXCEPT ![c] = "nothing"]
    /\ ReturnFrom(c, "error")
    /\ UNCHANGED <<op, sent>>

Receive(c) ==
    \E r \in Replies(op[c]) :
        LET result == Outcome(op[c], r) IN
        /\ IF result = "error" THEN DoFails(c) ELSE DoSucceeds(c)
        /\ seen' = [seen EXCEPT ![c] = Said(r)]
        /\ ReturnFrom(c, result)
        /\ Recount
        /\ UNCHANGED op

BackOff(c) == BackoffElapses(c) /\ UNCHANGED claudeVars

\* Mutant: a call cut short by its own context is not counted as a failure.
CancelUncounted(c) ==
    /\ pc[c] # "idle"
    /\ Return(c)
    /\ seen' = [seen EXCEPT ![c] = "nothing"]
    /\ ReturnFrom(c, "error")
    /\ UNCHANGED <<state, failures, age, healthy, op, sent>>

Cancel(c) ==
    /\ \/ Cancelled(c) /\ UNCHANGED sent
       \/ CancelledInFlight(c) /\ Recount
    /\ seen' = [seen EXCEPT ![c] = "nothing"]
    /\ ReturnFrom(c, "error")
    /\ UNCHANGED op

-----------------------------------------------------------------------------
(* Specification *)

ClaudeInit ==
    /\ Init
    /\ op = [c \in Callers |-> "ideas"]
    /\ answer = [c \in Callers |-> "pending"]
    /\ seen = [c \in Callers |-> "nothing"]
    /\ sent = 0

Attempt(c) == Send(c) \/ Reject(c) \/ Receive(c) \/ BackOff(c)

ClaudeNext ==
    \/ (Tick \/ State \/ Heal) /\ UNCHANGED claudeVars
    \/ \E c \in Callers : CallMethod(c) \/ Attempt(c) \/ Cancel(c)

\* As in Resilience: the HTTP client's timeout ends every call, the backoff is
\* a timer, and time passes.
ClaudeSpec ==
    /\ ClaudeInit
    /\ [][ClaudeNext]_allVars
    /\ WF_allVars(Tick /\ UNCHANGED claudeVars)
    /\ \A c \in Callers : WF_allVars(Attempt(c))

-----------------------------------------------------------------------------
(* Properties *)

\* A caller is told what the last reply to its own call said: a verdict or ideas
\* never come from an earlier attempt, an error is never reported after a reply
\* in a documented shape, and a reply that says nothing never becomes an answer.
AnswerIsFromLastReply ==
    \A c \in Callers :
        CASE answer[c] = "pending" -> TRUE
          [] answer[c] = "error" -> seen[c] \in {"nothing", "unclear"}
          [] OTHER -> seen[c] \in {answer[c], "unclear"}

\* While the provider is out, at most MaxFailures - 1 failed calls and one call
\* per worker are paid for before the circuit opens, and one call per worker
\* each time its window elapses: the two locks of Do let no more through.
PaidCallsBounded == sent <= MaxFailures - 1 + Cardinality(Callers)

\* The client and its decorator use the breaker and the retry loop as Resilience
\* specifies them, fairness included: what is proved there holds of every Claude
\* call.
RefinesResilience == Spec
=============================================================================
