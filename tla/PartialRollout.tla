---------------------------- MODULE PartialRollout ----------------------------
(***************************************************************************)
(* Generation while the weights are replaced: the conversations of the     *)
(* agent loop workers (tool_agent_loop.py), the server manager that calls  *)
(* the servers for them and resumes what a synchronisation aborted         *)
(* (FullyAsyncLLMServerManager in                                          *)
(* verl/experimental/fully_async_policy/agent_loop/agent_loop.py), the     *)
(* load balancer and the synchronisation of the weights.                   *)
(*                                                                         *)
(* A conversation repeats: acquire a server, call its generate, merge the  *)
(* reply, and, if the reply was aborted, do it again with the tokens it    *)
(* has.  At most one of its calls is under way.                            *)
(***************************************************************************)
EXTENDS LoadBalancer, WeightSync

CONSTANTS
    Prompt, PromptLength, ResponseLength, MaxAssistantTurns, ToolTokens,
    MaxModelLen,           \* max_model_len of the engine
    PartialRollouts        \* async_training.partial_rollout

ASSUME RolloutAssumption ==
    /\ Prompt \in Nat /\ PromptLength \in Nat /\ Prompt <= PromptLength
    /\ ResponseLength \in Nat \ {0}
    /\ MaxAssistantTurns \in Nat \ {0}
    /\ ToolTokens \in Nat
    /\ MaxModelLen \in Nat
    /\ MaxModelLen >= PromptLength + ResponseLength
    /\ PartialRollouts \in BOOLEAN

VARIABLES
    state,                 \* where the conversation's coroutine is
    mask,                  \* len(response_mask)
    turns,                 \* assistant_turns
    got,                   \* len(final_output.token_ids): merged in this turn
    run,                   \* tokens of the call under way
    reply,                 \* its stop_reason and the version its server reported
    min_steps,             \* min_global_steps of the generate under way
    fields,                \* extra_fields of the conversation
    seen                   \* (history) the weights that generated its tokens

convVars == <<state, mask, turns, got, run, reply, min_steps, fields, seen>>
vars == <<balancerVars, syncVars, convVars>>

ConversationTypeOK ==
    /\ state \in [Conversations -> {"acquire", "call", "running", "reply", "tools",
                                    "terminated", "failed"}]
    /\ mask \in [Conversations -> Nat]
    /\ turns \in [Conversations -> Nat]
    /\ got \in [Conversations -> Nat]
    /\ run \in [Conversations -> Nat]
    /\ reply \in [Conversations -> [reason : {"aborted", "completed"}, steps : Versions]]
    /\ min_steps \in [Conversations -> Versions \union {None}]
    /\ fields \in [Conversations -> [min : Versions \union {None}, max : Versions \union {None}]]
    /\ seen \in [Conversations -> SUBSET (Versions \union {Torn})]

NoReply == [reason |-> "completed", steps |-> 0]
Always(x) == [c \in Conversations |-> x]

Init ==
    /\ BalancerInit /\ SyncInit
    /\ state = Always("acquire")
    /\ mask = Always(0) /\ turns = Always(0) /\ got = Always(0) /\ run = Always(0)
    /\ reply = Always(NoReply)
    /\ min_steps = Always(None)
    /\ fields = Always([min |-> None, max |-> None])
    /\ seen = Always({})

-----------------------------------------------------------------------------
(* One generate of the server manager *)

\* The tokens of prompt_ids + final_output.token_ids.
Context(c) == Prompt + mask[c] + got[c]

Least(m, n) == IF m <= n THEN m ELSE n

\* Fault: the tokens already in the context are not counted.
MaxTokensPerCall(n) ==
    IF n >= MaxModelLen THEN 0 ELSE Least(ResponseLength, MaxModelLen - n)

\* max_tokens of a request with n tokens of context; sampling_params carries no
\* limit of its own.
MaxTokens(n) ==
    IF n >= PromptLength + ResponseLength \/ n >= MaxModelLen THEN 0
    ELSE Least(Least(ResponseLength, PromptLength + ResponseLength - n), MaxModelLen - n)

\* _acquire_server; then the request is on its way.
Acquire(c) ==
    /\ state[c] = "acquire"
    /\ AcquireServer(c)
    /\ state' = [state EXCEPT ![c] = "call"]
    /\ UNCHANGED <<syncVars, mask, turns, got, run, reply, min_steps, fields, seen>>

\* Fault: as vLLM < 0.12, whose engine is never paused.
AcceptsAlways(s) == TRUE

\* The engine holds new requests back while it is paused.
Accepts(s) == ~paused[s]

\* The engine takes the request ...
Start(c) ==
    /\ state[c] = "call" /\ Accepts(lease[c])
    /\ MaxTokens(Context(c)) > 0
    /\ state' = [state EXCEPT ![c] = "running"]
    /\ UNCHANGED <<balancerVars, syncVars, mask, turns, got, run, reply, min_steps, fields, seen>>

\* ... generates a token with the weights it has, and ends the turn when the model
\* says so or max_tokens is reached.  The reply carries the server's global_steps.
Generate(c) ==
    LET s == lease[c] IN
    /\ state[c] = "running"
    /\ run' = [run EXCEPT ![c] = @ + 1]
    /\ seen' = [seen EXCEPT ![c] = @ \union {weights[s]}]
    /\ \/ /\ run'[c] < MaxTokens(Context(c))
          /\ UNCHANGED <<state, reply>>
       \/ /\ state' = [state EXCEPT ![c] = "reply"]
          /\ reply' = [reply EXCEPT ![c] = [reason |-> "completed", steps |-> global_steps[s]]]
    /\ UNCHANGED <<balancerVars, syncVars, mask, turns, got, min_steps, fields>>

InFlight(s) == {c \in Conversations : lease[c] = s /\ state[c] = "running"}

\* abort_all_requests: the requests in flight are answered with what they have.
\* Their generate coroutines read global_steps before the server's event loop
\* turns to the next call of the manager.
Abort(s) ==
    /\ AbortAllRequests(s)
    /\ state' = [c \in Conversations |-> IF c \in InFlight(s) THEN "reply" ELSE state[c]]
    /\ reply' = [c \in Conversations |->
                    IF c \in InFlight(s)
                    THEN [reason |-> "aborted", steps |-> global_steps[s]] ELSE reply[c]]
    /\ UNCHANGED <<balancerVars, mask, turns, got, run, min_steps, fields, seen>>

\* Fault: the requests a paused engine holds back count as unfinished.
UndrainedHeld(s) == {c \in Conversations : lease[c] = s /\ state[c] \in {"call", "running"}}

\* What wait_for_requests_to_drain waits for.
Undrained(s) == InFlight(s)

Sleep ==
    /\ SleepReplicas(\A s \in Servers : Undrained(s) = {})
    /\ UNCHANGED <<balancerVars, convVars>>

SyncAlone == SyncStep /\ UNCHANGED <<balancerVars, convVars>>

\* Fault: the lease of a call that raised is kept.
SucceededCall(c) == state[c] \notin {"call", "running", "reply", "failed"}

\* generate of the AsyncLLMServerManager has returned or raised.
CallOver(c) == state[c] \notin {"call", "running", "reply"}

\* _release_server of its finally clause.
Release(c) ==
    /\ CallOver(c)
    /\ ReleaseServer(c)
    /\ UNCHANGED <<syncVars, convVars>>

-----------------------------------------------------------------------------
(* Merging the reply, and the turns of the agent loop *)

\* Fault: the resumed request starts from the prompt of the turn.
MergedLast(c) == run[c]

\* final_output.token_ids.extend
Merged(c) == got[c] + run[c]

\* min_global_steps after the reply.
MinSteps(c) == IF min_steps[c] = None THEN reply[c].steps ELSE min_steps[c]

\* Whether the loop of FullyAsyncLLMServerManager.generate calls again.
CallsAgain(c) == reply[c].reason = "aborted" /\ PartialRollouts

\* The body of that loop after a reply that was aborted.
Continue(c) ==
    /\ state[c] = "reply" /\ CallsAgain(c)
    /\ got' = [got EXCEPT ![c] = Merged(c)]
    /\ run' = [run EXCEPT ![c] = 0]
    /\ min_steps' = [min_steps EXCEPT ![c] = MinSteps(c)]
    /\ reply' = [reply EXCEPT ![c] = NoReply]
    /\ state' = [state EXCEPT ![c] = "acquire"]
    /\ UNCHANGED <<balancerVars, syncVars, mask, turns, fields, seen>>

\* Fault: the versions of the first turn are kept.
FieldsFirst(c) ==
    IF fields[c].min = None THEN [min |-> MinSteps(c), max |-> reply[c].steps] ELSE fields[c]

\* extra_fields after the turn.  max_global_steps of a generate is the version of
\* its last reply; the first turn sets both versions, a later one only the latest,
\* where version 0 counts as none.
FieldsAfter(c) ==
    IF fields[c].min = None THEN [min |-> MinSteps(c), max |-> reply[c].steps]
    ELSE IF reply[c].steps # 0 THEN [fields[c] EXCEPT !.max = reply[c].steps] ELSE fields[c]

\* What follows a turn that leaves the response with n tokens after k turns.
AfterTurn(n, k) ==
    IF n >= ResponseLength \/ k >= MaxAssistantTurns
    THEN {"terminated"} ELSE {"tools", "terminated"}

\* The last reply: generate returns, and _handle_generating_state goes on.
EndTurn(c) ==
    /\ state[c] = "reply" /\ ~CallsAgain(c)
    /\ mask' = [mask EXCEPT ![c] = @ + Merged(c)]
    /\ turns' = [turns EXCEPT ![c] = @ + 1]
    /\ fields' = [fields EXCEPT ![c] = FieldsAfter(c)]
    /\ got' = [got EXCEPT ![c] = 0] /\ run' = [run EXCEPT ![c] = 0]
    /\ min_steps' = [min_steps EXCEPT ![c] = None]
    /\ reply' = [reply EXCEPT ![c] = NoReply]
    /\ \E next \in AfterTurn(mask'[c], turns'[c]) : state' = [state EXCEPT ![c] = next]
    /\ UNCHANGED <<balancerVars, syncVars, seen>>

\* Fault: the answers are appended although they fill the response.
ToolsFitLate(c, k) == mask[c] + k <= ResponseLength

\* The answers of the tools leave room in the response.
ToolsFit(c, k) == mask[c] + k < ResponseLength

\* _handle_processing_tools_state
ProcessTools(c, k) ==
    /\ state[c] = "tools"
    /\ IF ToolsFit(c, k)
       THEN /\ mask' = [mask EXCEPT ![c] = @ + k]
            /\ state' = [state EXCEPT ![c] = "acquire"]
       ELSE state' = [state EXCEPT ![c] = "terminated"] /\ UNCHANGED mask
    /\ UNCHANGED <<balancerVars, syncVars, turns, got, run, reply, min_steps, fields, seen>>

\* The server or a tool raises: the exception ends the conversation.
Fail(c) ==
    /\ state[c] \in {"call", "running", "tools"}
    /\ state' = [state EXCEPT ![c] = "failed"]
    /\ UNCHANGED <<balancerVars, syncVars, mask, turns, got, run, reply, min_steps, fields, seen>>

ConversationStep(c) ==
    \/ Acquire(c) \/ Start(c) \/ Generate(c)
    \/ Continue(c) \/ EndTurn(c) \/ \E k \in 1 .. ToolTokens : ProcessTools(c, k)

Next ==
    \/ \E c \in Conversations : ConversationStep(c) \/ Fail(c) \/ Release(c)
    \/ \E s \in Servers : Abort(s)
    \/ Sleep \/ SyncAlone

Spec == Init /\ [][Next]_vars

\* The actors serve their calls, the engine generates, the workers' event loops
\* run, and the transfer of the weights goes on once begun.  Nothing need fail.
Fairness ==
    /\ \A c \in Conversations : WF_vars(ConversationStep(c)) /\ WF_vars(Release(c))
    /\ \A s \in Servers : WF_vars(Abort(s))
    /\ WF_vars(Sleep) /\ WF_vars(SyncAlone)

FairSpec == Spec /\ Fairness

-----------------------------------------------------------------------------
(* Properties *)

\* Every variable has the type its use in the code gives it.
TypeOK == BalancerTypeOK /\ SyncTypeOK /\ ConversationTypeOK

\* The balancer's count of a server is the number of leases on it, although calls
\* fail or are aborted, releases are sent without waiting for them, and the sticky
\* entry of a conversation may be evicted between its acquire and its release.
InflightExact ==
    \A s \in Servers : inflight[s] = Cardinality({c \in Conversations : lease[c] = s})

\* Whatever the replicas' progress through abort, load and resume, the servers that
\* accept requests all hold the same complete version, and report that one.
OneVersionServed ==
    \A s, t \in Servers :
        ~paused[s] /\ ~paused[t] =>
            weights[s] = weights[t] /\ weights[s] \in Versions /\ global_steps[s] = weights[s]

\* No token is generated by weights that are being replaced.
NeverTorn == \A c \in Conversations : Torn \notin seen[c]

\* The range of versions a conversation records covers every version that
\* generated one of its tokens, across aborts, turns and changes of server.
VersionsBracket ==
    \A c \in Conversations :
        state[c] \in {"tools", "terminated"} =>
            \A v \in seen[c] : fields[c].min <= v /\ v <= fields[c].max

\* A conversation that calls a server, at first, after tools or after an abort,
\* still has a token to ask for (the engine refuses max_tokens = 0), and although
\* each call computes its limit anew, resuming never takes a conversation past the
\* context it was given.
RoomToGenerate ==
    \A c \in Conversations :
        /\ state[c] = "call" => MaxTokens(Context(c)) > 0
        /\ Context(c) + run[c] <= PromptLength + ResponseLength

\* What the agent loop sees: a generation goes on from its first acquire to its
\* last reply, and its tokens are those merged and those of the call under way.
LoopState ==
    [c \in Conversations |->
        IF state[c] \in {"tools", "terminated", "failed"} THEN state[c] ELSE "generating"]
LoopTurn == [c \in Conversations |-> got[c] + run[c]]
LoopEnded == [c \in Conversations |-> state[c] = "reply" /\ reply[c].reason = "completed"]

Loop == INSTANCE ToolAgentLoop WITH state <- LoopState, turn <- LoopTurn, ended <- LoopEnded

\* FullyAsyncLLMServerManager makes the interruption of a generation invisible to
\* the agent loop: with partial_rollout, no token is lost or doubled and no turn
\* ends but by the model.  (Without it an aborted turn ends short.)
Uninterrupted == Loop!LoopSpec

\* Every conversation ends and gives its lease back, through any synchronisation.
ConversationsEnd ==
    <>[](\A c \in Conversations : state[c] \in {"terminated", "failed"} /\ lease[c] = None)

\* Every synchronisation ends: no replica waits for requests that wait for it.
SyncEnds == phase # "idle" ~> phase = "idle"
=============================================================================
