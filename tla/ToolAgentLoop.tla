---------------------------- MODULE ToolAgentLoop -----------------------------
(***************************************************************************)
(* What ToolAgentLoop.run (verl/experimental/agent_loop/tool_agent_loop.py)*)
(* sees of the model: generations that nothing interrupts.  Each turn the  *)
(* model generates tokens until it ends the turn itself; then the          *)
(* conversation is over or calls its tools, whose answers are appended to  *)
(* the response.  Tokens are counted, not named.                           *)
(***************************************************************************)
EXTENDS Naturals

CONSTANTS
    Conversations,
    Prompt,                \* tokens of a conversation's prompt
    PromptLength,          \* prompt_length: the most a prompt may have
    ResponseLength,        \* response_length
    MaxAssistantTurns,     \* max_assistant_turns
    ToolTokens             \* bound: tokens of the tools' answers in one turn

VARIABLES
    state,                 \* AgentState
    mask,                  \* len(response_mask): tokens of the finished turns
    turn,                  \* tokens generated in this turn
    ended,                 \* the model has ended this turn
    turns                  \* assistant_turns

loopVars == <<state, mask, turn, ended, turns>>

LoopInit ==
    /\ state = [c \in Conversations |-> "generating"]
    /\ mask = [c \in Conversations |-> 0]
    /\ turn = [c \in Conversations |-> 0]
    /\ ended = [c \in Conversations |-> FALSE]
    /\ turns = [c \in Conversations |-> 0]

\* The model generates one more token: the context has room for it.  It may be
\* the last one of the turn.
Token(c) ==
    /\ state[c] = "generating" /\ ~ended[c]
    /\ Prompt + mask[c] + turn[c] < PromptLength + ResponseLength
    /\ turn' = [turn EXCEPT ![c] = @ + 1]
    /\ \E last \in BOOLEAN : ended' = [ended EXCEPT ![c] = last]
    /\ UNCHANGED <<state, mask, turns>>

\* What follows a turn that leaves the response with n tokens after k turns: no
\* turn more when either limit is reached, else the tools if the model calls any.
AfterTurn(n, k) ==
    IF n >= ResponseLength \/ k >= MaxAssistantTurns
    THEN {"terminated"} ELSE {"tools", "terminated"}

\* _handle_generating_state, after the generation.
EndTurn(c) ==
    /\ state[c] = "generating" /\ ended[c]
    /\ mask' = [mask EXCEPT ![c] = @ + turn[c]]
    /\ turn' = [turn EXCEPT ![c] = 0]
    /\ ended' = [ended EXCEPT ![c] = FALSE]
    /\ turns' = [turns EXCEPT ![c] = @ + 1]
    /\ \E next \in AfterTurn(mask'[c], turns'[c]) : state' = [state EXCEPT ![c] = next]

\* _handle_processing_tools_state: the answers are appended if room is left.
ProcessTools(c, k) ==
    /\ state[c] = "tools"
    /\ IF mask[c] + k >= ResponseLength
       THEN state' = [state EXCEPT ![c] = "terminated"] /\ UNCHANGED mask
       ELSE /\ state' = [state EXCEPT ![c] = "generating"]
            /\ mask' = [mask EXCEPT ![c] = @ + k]
    /\ UNCHANGED <<turn, ended, turns>>

\* The generation or a tool raises.
Raise(c) ==
    /\ state[c] \in {"generating", "tools"}
    /\ state' = [state EXCEPT ![c] = "failed"]
    /\ UNCHANGED <<mask, turn, ended, turns>>

LoopNext ==
    \E c \in Conversations :
        \/ Token(c) \/ EndTurn(c) \/ Raise(c)
        \/ \E k \in 1 .. ToolTokens : ProcessTools(c, k)

LoopSpec == LoopInit /\ [][LoopNext]_loopVars
=============================================================================
