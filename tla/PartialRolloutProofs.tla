------------------------- MODULE PartialRolloutProofs -------------------------
(***************************************************************************)
(* Proofs about PartialRollout: for any number of conversations and        *)
(* servers, any lengths and any number of synchronisations.                *)
(***************************************************************************)
EXTENDS PartialRollout, FiniteSetTheorems, TLAPS

-----------------------------------------------------------------------------
(* The invariant *)

\* The version the servers that accept requests hold.
Live == IF phase \in {"abort", "load"} THEN version - 1 ELSE version

Holds(s, v) == weights[s] = v /\ global_steps[s] = v

\* How far each replica is, in each phase of update_weights.
SyncInv ==
    /\ phase \in {"abort", "load"} => version > 0
    /\ phase \in {"idle", "abort"} => \A s \in Servers : Holds(s, Live)
    /\ phase = "idle" => \A s \in Servers : ~paused[s]
    /\ phase = "abort" => \A s \in Servers : paused[s] <=> s \notin pending
    /\ phase = "load" => \A s \in Servers : paused[s] /\ (s \notin pending => Holds(s, version))
    /\ phase = "resume" => \A s \in Servers : Holds(s, version) /\ (s \notin pending => ~paused[s])
    /\ phase = "resume" => \A s \in Servers : s \in pending => paused[s]

\* A call under way has its lease, and only an engine that accepts requests runs one.
CallInv(c) ==
    /\ state[c] \in {"call", "running", "reply"} => lease[c] # None
    /\ state[c] = "running" => ~paused[lease[c]]

\* The versions of a conversation's tokens.
VersionInv(c) ==
    /\ seen[c] \subseteq 0 .. Live
    /\ reply[c].steps <= Live
    /\ min_steps[c] # None => min_steps[c] <= Live /\ \A v \in seen[c] : fields[c].min = None => min_steps[c] <= v
    /\ fields[c].min # None =>
        fields[c].min <= Live /\ fields[c].max # None /\ \A v \in seen[c] : fields[c].min <= v
    /\ state[c] = "reply" => \A v \in seen[c] : v <= reply[c].steps
    /\ state[c] \in {"tools", "terminated"} =>
        fields[c].min # None /\ \A v \in seen[c] : v <= fields[c].max
    /\ min_steps[c] = None /\ fields[c].min = None =>
        /\ state[c] \in {"acquire", "call"} => seen[c] = {}
        /\ state[c] = "running" => seen[c] \subseteq {Live}
        /\ state[c] = "reply" => seen[c] \subseteq {reply[c].steps}

\* The room a conversation has.
RoomInv(c) ==
    /\ state[c] \in {"acquire", "call"} => Context(c) < PromptLength + ResponseLength /\ run[c] = 0
    /\ state[c] = "running" => run[c] < MaxTokens(Context(c))
    /\ state[c] = "reply" => run[c] <= MaxTokens(Context(c))
    /\ state[c] = "reply" /\ reply[c].reason = "aborted" => run[c] < MaxTokens(Context(c))
    /\ state[c] \in {"tools", "terminated"} => got[c] = 0 /\ run[c] = 0
    /\ Context(c) + run[c] <= PromptLength + ResponseLength

ConversationInv == \A c \in Conversations : CallInv(c) /\ VersionInv(c) /\ RoomInv(c)

IInv == TypeOK /\ SyncInv /\ ConversationInv

-----------------------------------------------------------------------------
(* Types *)

USE ServersAssumption, BalancerAssumption, SyncAssumption, RolloutAssumption DEF Versions

LEMMA InitTypes == Init => TypeOK
  BY DEF Init, TypeOK, BalancerInit, SyncInit, BalancerTypeOK, SyncTypeOK, ConversationTypeOK,
         Always, NoReply

LEMMA BalancerTypesKept ==
  ASSUME BalancerTypeOK, NEW c \in Conversations, AcquireServer(c) \/ ReleaseServer(c)
  PROVE  BalancerTypeOK'
<1>1. CASE AcquireServer(c)
  <2>1. PICK s \in Servers :
           /\ route' = [route EXCEPT ![c] = s]
           /\ lease' = [lease EXCEPT ![c] = s]
           /\ Counted(c, s)
    BY <1>1 DEF AcquireServer
  <2>2. age' \in [Conversations -> 0 .. CacheSize]
    BY <1>1 DEF AcquireServer, Touched, BalancerTypeOK, Cached
  <2>3. inflight' \in [Servers -> Nat]
    BY <2>1 DEF BalancerTypeOK, Counted
  <2>4. route' \in [Conversations -> Servers \union {None}] /\ lease' \in [Conversations -> Servers \union {None}]
    BY <2>1 DEF BalancerTypeOK
  <2>. QED  BY <2>2, <2>3, <2>4 DEF BalancerTypeOK
<1>2. CASE ReleaseServer(c)
  <2>1. lease[c] \in Servers
    BY <1>2 DEF ReleaseServer, BalancerTypeOK
  <2>2. inflight[lease[c]] \in Nat
    BY <2>1 DEF BalancerTypeOK
  <2>3. PICK n \in Nat : inflight' = [inflight EXCEPT ![lease[c]] = n]
    <3>1. inflight[lease[c]] > 0 => inflight' = [inflight EXCEPT ![lease[c]] = inflight[lease[c]] - 1]
      BY <1>2 DEF ReleaseServer
    <3>2. ~(inflight[lease[c]] > 0) => inflight' = [inflight EXCEPT ![lease[c]] = inflight[lease[c]]]
      BY <1>2 DEF ReleaseServer
    <3>. QED  BY <2>2, <3>1, <3>2
  <2>. QED  BY <1>2, <2>1, <2>3 DEF ReleaseServer, BalancerTypeOK
<1>. QED  BY <1>1, <1>2

SyncAction ==
    \/ SyncStep
    \/ \E s \in Servers : AbortAllRequests(s)
    \/ SleepReplicas(\A s \in Servers : Undrained(s) = {})

LEMMA SyncTypesKept ==
  ASSUME SyncTypeOK, SyncAction
  PROVE  SyncTypeOK'
<1>. USE DEF SyncTypeOK
<1>1. CASE StartSync
  BY <1>1 DEF StartSync
<1>2. CASE FinalizeSync \/ EndSync
  BY <1>2 DEF FinalizeSync, EndSync
<1>3. ASSUME NEW s \in Servers, BeginLoad(s) \/ EndLoad(s)  PROVE SyncTypeOK'
  <2>1. PICK w \in Versions \union {Torn} : weights' = [weights EXCEPT ![s] = w]
    BY <1>3 DEF BeginLoad, EndLoad
  <2>. QED  BY <1>3, <2>1 DEF BeginLoad, EndLoad
<1>4. ASSUME NEW s \in Servers, EndUpdate(s)  PROVE SyncTypeOK'
  BY <1>4 DEF EndUpdate, NewGlobalSteps
<1>5. ASSUME NEW s \in Servers, ResumeGeneration(s) \/ AbortAllRequests(s)  PROVE SyncTypeOK'
  BY <1>5 DEF ResumeGeneration, AbortAllRequests
<1>6. CASE SleepReplicas(\A s \in Servers : Undrained(s) = {})
  BY <1>6 DEF SleepReplicas
<1>. QED  BY <1>1, <1>2, <1>3, <1>4, <1>5, <1>6 DEF SyncAction, SyncStep

\* The steps that change a conversation and nothing of the synchronisation.
LEMMA ConversationTypesKept ==
  ASSUME TypeOK, NEW c \in Conversations, CallInv(c), ConversationStep(c) \/ Fail(c)
  PROVE  ConversationTypeOK'
<1>. USE DEF TypeOK, BalancerTypeOK, SyncTypeOK, ConversationTypeOK
<1>1. CASE Acquire(c) \/ Start(c) \/ Fail(c)
  BY <1>1 DEF Acquire, Start, Fail
<1>2. CASE Generate(c)
  <2>1. weights[lease[c]] \in Versions \union {Torn} /\ global_steps[lease[c]] \in Versions
    BY <1>2 DEF Generate, CallInv
  <2>2. run' \in [Conversations -> Nat]
    BY <1>2 DEF Generate
  <2>5. state' = state \/ state' = [state EXCEPT ![c] = "reply"]
    BY <1>2 DEF Generate
  <2>3. reply' \in [Conversations -> [reason : {"aborted", "completed"}, steps : Versions]]
    BY <1>2, <2>1 DEF Generate
  <2>4. seen' \in [Conversations -> SUBSET (Versions \union {Torn})]
    BY <1>2, <2>1 DEF Generate
  <2>. QED  BY <1>2, <2>2, <2>3, <2>4, <2>5 DEF Generate
<1>3. CASE Continue(c)
  BY <1>3 DEF Continue, Merged, MinSteps, NoReply
<1>4. CASE EndTurn(c)
  BY <1>4 DEF EndTurn, Merged, MinSteps, NoReply, FieldsAfter, AfterTurn
<1>5. CASE \E k \in 1 .. ToolTokens : ProcessTools(c, k)
  <2>1. PICK k \in 1 .. ToolTokens : ProcessTools(c, k)
    BY <1>5
  <2>2. mask' = mask \/ mask' = [mask EXCEPT ![c] = @ + k]
    BY <2>1 DEF ProcessTools
  <2>3. mask' \in [Conversations -> Nat]
    BY <2>2
  <2>4. state' = [state EXCEPT ![c] = "acquire"] \/ state' = [state EXCEPT ![c] = "terminated"]
    BY <2>1 DEF ProcessTools
  <2>. QED  BY <2>1, <2>3, <2>4 DEF ProcessTools
<1>. QED  BY <1>1, <1>2, <1>3, <1>4, <1>5 DEF ConversationStep

LEMMA AbortTypesKept ==
  ASSUME TypeOK, NEW s \in Servers, Abort(s)
  PROVE  TypeOK'
<1>1. SyncTypeOK'
  BY SyncTypesKept DEF Abort, SyncAction, TypeOK
<1>2. global_steps[s] \in Versions
  BY DEF TypeOK, SyncTypeOK
<1>3. ConversationTypeOK'
  BY <1>2 DEF Abort, TypeOK, ConversationTypeOK
<1>. QED  BY <1>1, <1>3 DEF Abort, TypeOK, BalancerTypeOK, balancerVars

LEMMA TypesKept ==
  ASSUME TypeOK, ConversationInv, [Next]_vars
  PROVE  TypeOK'
<1>1. ASSUME NEW c \in Conversations, ConversationStep(c) \/ Fail(c)
      PROVE  TypeOK'
  <2>1. ConversationTypeOK'
    BY <1>1, ConversationTypesKept DEF ConversationInv
  <2>2. SyncTypeOK'
    BY <1>1 DEF ConversationStep, Fail, Acquire, Start, Generate, Continue, EndTurn, ProcessTools,
                syncVars, TypeOK, SyncTypeOK
  <2>3. BalancerTypeOK'
    <3>1. CASE Acquire(c)
      BY <3>1, BalancerTypesKept DEF Acquire, TypeOK
    <3>2. CASE ~Acquire(c)
      BY <1>1, <3>2 DEF ConversationStep, Fail, Start, Generate, Continue, EndTurn, ProcessTools,
                        balancerVars, TypeOK, BalancerTypeOK
    <3>. QED  BY <3>1, <3>2
  <2>. QED  BY <2>1, <2>2, <2>3 DEF TypeOK
<1>2. ASSUME NEW c \in Conversations, Release(c)
      PROVE  TypeOK'
  BY <1>2, BalancerTypesKept DEF Release, TypeOK, syncVars, convVars, SyncTypeOK, ConversationTypeOK
<1>3. ASSUME NEW s \in Servers, Abort(s)
      PROVE  TypeOK'
  BY <1>3, AbortTypesKept
<1>4. CASE Sleep \/ SyncAlone
  BY <1>4, SyncTypesKept DEF Sleep, SyncAlone, SyncAction, TypeOK, balancerVars, convVars,
                             BalancerTypeOK, ConversationTypeOK
<1>5. CASE UNCHANGED vars
  BY <1>5 DEF vars, balancerVars, syncVars, convVars, TypeOK, BalancerTypeOK, SyncTypeOK,
              ConversationTypeOK
<1>. QED  BY <1>1, <1>2, <1>3, <1>4, <1>5 DEF Next

-----------------------------------------------------------------------------
(* The synchronisation *)

LEMMA SyncInvKept ==
  ASSUME TypeOK, SyncInv, [Next]_vars
  PROVE  SyncInv' /\ Live' \in Versions /\ Live \in Versions /\ Live <= Live'
<1>. USE DEF TypeOK, SyncTypeOK, SyncInv, Live, Holds
<1>1. CASE StartSync
  BY <1>1 DEF StartSync
<1>2. CASE FinalizeSync
  BY <1>2 DEF FinalizeSync, GatherReturned
<1>3. CASE EndSync
  BY <1>3 DEF EndSync, GatherReturned
<1>4. ASSUME NEW s \in Servers, BeginLoad(s) \/ EndLoad(s)
      PROVE  SyncInv' /\ Live' \in Versions /\ Live \in Versions /\ Live <= Live'
  <2>1. phase = "load" /\ s \in pending /\ \A t \in Servers \ {s} : weights'[t] = weights[t]
    BY <1>4 DEF BeginLoad, EndLoad
  <2>. QED  BY <1>4, <2>1 DEF BeginLoad, EndLoad
<1>5. ASSUME NEW s \in Servers, EndUpdate(s)
      PROVE  SyncInv' /\ Live' \in Versions /\ Live \in Versions /\ Live <= Live'
  BY <1>5 DEF EndUpdate, NewGlobalSteps
<1>6. ASSUME NEW s \in Servers, ResumeGeneration(s)
      PROVE  SyncInv' /\ Live' \in Versions /\ Live \in Versions /\ Live <= Live'
  BY <1>6 DEF ResumeGeneration
<1>7. ASSUME NEW s \in Servers, Abort(s)
      PROVE  SyncInv' /\ Live' \in Versions /\ Live \in Versions /\ Live <= Live'
  BY <1>7 DEF Abort, AbortAllRequests
<1>8. CASE Sleep
  BY <1>8 DEF Sleep, SleepReplicas, GatherReturned
<1>9. CASE UNCHANGED syncVars
  BY <1>9 DEF syncVars
<1>10. ASSUME NEW c \in Conversations, ConversationStep(c) \/ Fail(c) \/ Release(c)
       PROVE  UNCHANGED syncVars
  BY <1>10 DEF ConversationStep, Fail, Release, Acquire, Start, Generate, Continue, EndTurn, ProcessTools
<1>. QED
  BY <1>1, <1>2, <1>3, <1>4, <1>5, <1>6, <1>7, <1>8, <1>9, <1>10
     DEF Next, SyncAlone, SyncStep, vars

\* An engine that accepts requests holds the live version and reports it.
LEMMA AcceptingIsLive ==
  ASSUME TypeOK, SyncInv, NEW s \in Servers, ~paused[s]
  PROVE  Holds(s, Live) /\ phase # "load"
BY DEF TypeOK, SyncTypeOK, SyncInv, Live, Holds

THEOREM ServesOneVersion == IInv => OneVersionServed
<1>. SUFFICES ASSUME IInv, NEW s \in Servers, NEW t \in Servers, ~paused[s], ~paused[t]
     PROVE  weights[s] = weights[t] /\ weights[s] \in Versions /\ global_steps[s] = weights[s]
  BY DEF OneVersionServed
<1>1. Holds(s, Live) /\ Holds(t, Live)
  BY AcceptingIsLive DEF IInv
<1>2. global_steps[s] \in Versions
  BY DEF IInv, TypeOK, SyncTypeOK
<1>. QED  BY <1>1, <1>2 DEF Holds

-----------------------------------------------------------------------------
(* A conversation that a step does not touch *)

Same(d) ==
    /\ state'[d] = state[d] /\ lease'[d] = lease[d]
    /\ mask'[d] = mask[d] /\ got'[d] = got[d] /\ run'[d] = run[d]
    /\ reply'[d] = reply[d] /\ min_steps'[d] = min_steps[d]
    /\ fields'[d] = fields[d] /\ seen'[d] = seen[d]

One(d) == CallInv(d) /\ VersionInv(d) /\ RoomInv(d)

LEMMA SameKept ==
  ASSUME TypeOK, TypeOK', NEW d \in Conversations, One(d), Same(d),
         Live \in Versions, Live' \in Versions, Live <= Live',
         state[d] = "running" => Live' = Live /\ ~paused'[lease[d]]
  PROVE  One(d)'
<1>1. CallInv(d)'
  BY DEF Same, One, CallInv
<1>2. VersionInv(d)'
  BY DEF Same, One, VersionInv, TypeOK, ConversationTypeOK
<1>3. RoomInv(d)'
  BY DEF Same, One, RoomInv, Context, MaxTokens, Least
<1>. QED  BY <1>1, <1>2, <1>3 DEF One

-----------------------------------------------------------------------------
(* The steps of a conversation *)

\* max_tokens never exceeds what the context has left.
LEMMA MaxTokensFits ==
  ASSUME NEW n \in Nat
  PROVE  /\ MaxTokens(n) \in Nat
         /\ n < PromptLength + ResponseLength => n + MaxTokens(n) <= PromptLength + ResponseLength
         /\ n < PromptLength + ResponseLength => MaxTokens(n) > 0
         /\ n >= PromptLength + ResponseLength => MaxTokens(n) = 0
BY DEF MaxTokens, Least

LEMMA ContextType ==
  ASSUME TypeOK, NEW c \in Conversations
  PROVE  Context(c) \in Nat /\ run[c] \in Nat /\ got[c] \in Nat /\ mask[c] \in Nat
BY DEF Context, TypeOK, ConversationTypeOK

LEMMA AcquireKeeps ==
  ASSUME TypeOK, TypeOK', NEW c \in Conversations, One(c), Acquire(c)
  PROVE  One(c)'
<1>1. lease'[c] # None /\ state'[c] = "call"
  BY DEF Acquire, AcquireServer, TypeOK, BalancerTypeOK, ConversationTypeOK
<1>2. UNCHANGED <<syncVars, mask, turns, got, run, reply, min_steps, fields, seen>> /\ state[c] = "acquire"
  BY DEF Acquire
<1>. QED
  BY <1>1, <1>2 DEF One, CallInv, VersionInv, RoomInv, Context, MaxTokens, Least, Live, syncVars

LEMMA StartKeeps ==
  ASSUME TypeOK, TypeOK', SyncInv, NEW c \in Conversations, One(c), Start(c)
  PROVE  One(c)'
<1>1. state[c] = "call" /\ state'[c] = "running" /\ lease'[c] = lease[c] /\ ~paused[lease[c]]
  BY DEF Start, Accepts, TypeOK, ConversationTypeOK, balancerVars
<1>2. UNCHANGED <<syncVars, mask, turns, got, run, reply, min_steps, fields, seen>>
  BY DEF Start
<1>3. MaxTokens(Context(c)) > 0
  BY DEF Start
<1>4. MaxTokens(Context(c))' = MaxTokens(Context(c))
  BY <1>2 DEF Context, MaxTokens
<1>5. CallInv(c)' /\ VersionInv(c)'
  BY <1>1, <1>2 DEF One, CallInv, VersionInv, Live, syncVars
<1>6. RoomInv(c)'
  BY <1>1, <1>2, <1>3, <1>4 DEF One, RoomInv, Context
<1>. QED  BY <1>5, <1>6 DEF One

LEMMA GenerateKeeps ==
  ASSUME TypeOK, TypeOK', SyncInv, NEW c \in Conversations, One(c), Generate(c)
  PROVE  One(c)'
<1>. DEFINE s == lease[c]
<1>1. s \in Servers /\ ~paused[s] /\ state[c] = "running"
  BY DEF Generate, One, CallInv, TypeOK, BalancerTypeOK
<1>2. weights[s] = Live /\ global_steps[s] = Live /\ Live \in Versions
  <2>1. Holds(s, Live)
    BY <1>1, AcceptingIsLive
  <2>2. global_steps[s] \in Versions
    BY <1>1 DEF TypeOK, SyncTypeOK
  <2>. QED  BY <2>1, <2>2 DEF Holds
<1>3. UNCHANGED <<syncVars, lease, mask, got, min_steps, fields>>
  BY DEF Generate, balancerVars
<1>4. run'[c] = run[c] + 1 /\ seen'[c] = seen[c] \union {Live}
  BY <1>2 DEF Generate, TypeOK, ConversationTypeOK
<1>5. \/ state'[c] = "running" /\ reply'[c] = reply[c] /\ run[c] + 1 < MaxTokens(Context(c))
      \/ state'[c] = "reply" /\ reply'[c] = [reason |-> "completed", steps |-> Live]
  BY <1>1, <1>2, <1>4 DEF Generate, TypeOK, ConversationTypeOK
<1>6. CallInv(c)'
  BY <1>1, <1>3, <1>5 DEF One, CallInv, syncVars
<1>7. Live' = Live
  BY <1>3 DEF Live, syncVars
<1>8. VersionInv(c)'
  BY <1>1, <1>2, <1>3, <1>4, <1>5, <1>7 DEF One, VersionInv, TypeOK, ConversationTypeOK
<1>9. MaxTokens(Context(c))' = MaxTokens(Context(c)) /\ Context(c)' = Context(c)
  BY <1>3 DEF Context, MaxTokens
<1>10. RoomInv(c)'
  <2>1. run[c] < MaxTokens(Context(c)) /\ Context(c) < PromptLength + ResponseLength
    BY <1>1, ContextType, MaxTokensFits DEF One, RoomInv
  <2>. QED
    BY <1>4, <1>5, <1>9, <2>1, ContextType, MaxTokensFits DEF RoomInv
<1>. QED  BY <1>6, <1>8, <1>10 DEF One

LEMMA ContinueKeeps ==
  ASSUME TypeOK, TypeOK', SyncInv, NEW c \in Conversations, One(c), Continue(c)
  PROVE  One(c)'
<1>1. /\ state[c] = "reply" /\ state'[c] = "acquire" /\ reply[c].reason = "aborted"
      /\ got'[c] = got[c] + run[c] /\ run'[c] = 0
      /\ min_steps'[c] = MinSteps(c)
      /\ reply'[c] = NoReply
      /\ UNCHANGED <<syncVars, lease, mask, fields, seen>>
  BY DEF Continue, CallsAgain, Merged, TypeOK, ConversationTypeOK, balancerVars
<1>2. CallInv(c)'
  BY <1>1 DEF CallInv
<1>3. VersionInv(c)'
  BY <1>1 DEF One, VersionInv, MinSteps, NoReply, Live, syncVars, TypeOK, ConversationTypeOK,
              SyncTypeOK, SyncInv
<1>4. RoomInv(c)'
  <2>1. run[c] < MaxTokens(Context(c)) /\ Context(c)' = Context(c) + run[c]
    BY <1>1, ContextType DEF One, RoomInv, Context
  <2>2. Context(c) < PromptLength + ResponseLength
    BY <2>1, ContextType, MaxTokensFits
  <2>. QED  BY <1>1, <2>1, <2>2, ContextType, MaxTokensFits DEF RoomInv
<1>. QED  BY <1>2, <1>3, <1>4 DEF One

LEMMA EndTurnKeeps ==
  ASSUME TypeOK, TypeOK', SyncInv, NEW c \in Conversations, One(c), EndTurn(c)
  PROVE  One(c)'
<1>1. /\ state[c] = "reply" /\ state'[c] \in {"tools", "terminated"}
      /\ mask'[c] = mask[c] + (got[c] + run[c])
      /\ got'[c] = 0 /\ run'[c] = 0
      /\ min_steps'[c] = None
      /\ reply'[c] = NoReply
      /\ fields'[c] = FieldsAfter(c)
      /\ UNCHANGED <<syncVars, lease, seen>>
  BY DEF EndTurn, AfterTurn, Merged, TypeOK, ConversationTypeOK, balancerVars
<1>2. CallInv(c)'
  BY <1>1 DEF CallInv
<1>3. VersionInv(c)'
  BY <1>1 DEF One, VersionInv, FieldsAfter, MinSteps, NoReply, Live, syncVars, TypeOK,
              ConversationTypeOK, SyncTypeOK, SyncInv
<1>4. RoomInv(c)'
  <2>1. Context(c)' + run'[c] = Context(c) + run[c]
    BY <1>1, ContextType DEF Context
  <2>. QED  BY <1>1, <2>1 DEF One, RoomInv
<1>. QED  BY <1>2, <1>3, <1>4 DEF One

LEMMA ToolsKeep ==
  ASSUME TypeOK, TypeOK', SyncInv, NEW c \in Conversations, One(c),
         NEW k \in 1 .. ToolTokens, ProcessTools(c, k)
  PROVE  One(c)'
<1>1. /\ state[c] = "tools"
      /\ \/ state'[c] = "acquire" /\ mask'[c] = mask[c] + k /\ mask[c] + k < ResponseLength
         \/ state'[c] = "terminated" /\ mask'[c] = mask[c]
      /\ UNCHANGED <<syncVars, lease, got, run, reply, min_steps, fields, seen>>
  BY DEF ProcessTools, ToolsFit, TypeOK, ConversationTypeOK, balancerVars
<1>2. CallInv(c)'
  BY <1>1 DEF CallInv
<1>3. VersionInv(c)'
  BY <1>1 DEF One, VersionInv, Live, syncVars
<1>4. RoomInv(c)'
  BY <1>1, ContextType DEF One, RoomInv, Context
<1>. QED  BY <1>2, <1>3, <1>4 DEF One

LEMMA FailKeeps ==
  ASSUME TypeOK, TypeOK', SyncInv, NEW c \in Conversations, One(c), Fail(c)
  PROVE  One(c)'
<1>1. /\ state'[c] = "failed"
      /\ UNCHANGED <<syncVars, lease, mask, got, run, reply, min_steps, fields, seen>>
  BY DEF Fail, TypeOK, ConversationTypeOK, balancerVars
<1>. QED
  BY <1>1 DEF One, CallInv, VersionInv, RoomInv, Context, MaxTokens, Live, syncVars

-----------------------------------------------------------------------------
(* The inductive invariant *)

LEMMA InitInv == Init => IInv
<1>. SUFFICES ASSUME Init PROVE IInv
  OBVIOUS
<1>1. TypeOK
  BY InitTypes
<1>2. SyncInv
  BY DEF Init, SyncInit, SyncInv, Live, Holds
<1>3. ASSUME NEW c \in Conversations  PROVE CallInv(c) /\ VersionInv(c) /\ RoomInv(c)
  BY DEF Init, SyncInit, Always, NoReply, CallInv, VersionInv, RoomInv, Live, Context
<1>. QED  BY <1>1, <1>2, <1>3 DEF IInv, ConversationInv

LEMMA StepInv == IInv /\ [Next]_vars => IInv'
<1>. SUFFICES ASSUME IInv, [Next]_vars PROVE IInv'
  OBVIOUS
<1>1. TypeOK /\ TypeOK' /\ SyncInv /\ SyncInv' /\ \A d \in Conversations : One(d)
  BY TypesKept, SyncInvKept DEF IInv, ConversationInv, One
<1>2. Live \in Versions /\ Live' \in Versions /\ Live <= Live'
  BY <1>1, SyncInvKept
\* Who else is touched: no one, and no engine that runs a request changes.
<1>3. ASSUME NEW c \in Conversations, NEW d \in Conversations \ {c},
             ConversationStep(c) \/ Fail(c) \/ Release(c)
      PROVE  One(d)'
  <2>1. Same(d) /\ UNCHANGED syncVars
    BY <1>1, <1>3 DEF ConversationStep, Fail, Release, Acquire, Start, Generate, Continue, EndTurn,
       ProcessTools, AcquireServer, ReleaseServer, Same, TypeOK, ConversationTypeOK, BalancerTypeOK,
       convVars, balancerVars
  <2>2. Live' = Live /\ (state[d] = "running" => ~paused'[lease[d]])
    BY <1>1, <2>1 DEF syncVars, Live, One, CallInv
  <2>. QED  BY <1>1, <1>2, <2>1, <2>2, SameKept
<1>4. ASSUME NEW c \in Conversations, ConversationStep(c) \/ Fail(c)
      PROVE  One(c)'
  BY <1>1, <1>4, AcquireKeeps, StartKeeps, GenerateKeeps, ContinueKeeps, EndTurnKeeps, ToolsKeep,
     FailKeeps DEF ConversationStep
<1>5. ASSUME NEW c \in Conversations, Release(c)
      PROVE  One(c)'
  <2>1. UNCHANGED <<syncVars, convVars>> /\ state[c] \notin {"call", "running", "reply"}
    BY <1>5 DEF Release, CallOver
  <2>2. CallInv(c)'
    BY <2>1 DEF CallInv, convVars
  <2>3. VersionInv(c)' /\ RoomInv(c)'
    BY <1>1, <2>1 DEF One, VersionInv, RoomInv, Live, Context, MaxTokens, syncVars, convVars
  <2>. QED  BY <2>2, <2>3 DEF One
<1>6. ASSUME NEW s \in Servers, Abort(s), NEW d \in Conversations
      PROVE  One(d)'
  <2>1. /\ UNCHANGED <<balancerVars, mask, got, run, min_steps, fields, seen, version, phase>>
        /\ s \in pending /\ phase = "abort"
        /\ paused' = [paused EXCEPT ![s] = TRUE]
    BY <1>6 DEF Abort, AbortAllRequests
  <2>2. Live' = Live
    BY <2>1 DEF Live
  <2>3. CASE d \in InFlight(s)
    <3>1. /\ lease[d] = s /\ state[d] = "running" /\ state'[d] = "reply"
          /\ reply'[d] = [reason |-> "aborted", steps |-> global_steps[s]]
      BY <1>6, <2>3 DEF Abort, InFlight
    <3>2. global_steps[s] = Live
      BY <1>1, <3>1, AcceptingIsLive DEF One, CallInv, Holds
    <3>3. CallInv(d)'
      BY <2>1, <3>1, <1>1 DEF CallInv, balancerVars, One
    <3>4. VersionInv(d)'
      BY <1>1, <1>2, <2>1, <2>2, <3>1, <3>2 DEF One, VersionInv, TypeOK, ConversationTypeOK
    <3>5. RoomInv(d)'
      BY <1>1, <2>1, <3>1, ContextType, MaxTokensFits DEF One, RoomInv, Context, MaxTokens, Least
    <3>. QED  BY <3>3, <3>4, <3>5 DEF One
  <2>4. CASE d \notin InFlight(s)
    <3>1. Same(d)
      BY <1>6, <2>1, <2>4 DEF Abort, Same, balancerVars
    <3>2. state[d] = "running" => ~paused'[lease[d]]
      BY <1>1, <2>1, <2>4 DEF InFlight, One, CallInv, TypeOK, SyncTypeOK, BalancerTypeOK
    <3>. QED  BY <1>1, <1>2, <2>2, <3>1, <3>2, SameKept
  <2>. QED  BY <2>3, <2>4
<1>7. ASSUME Sleep \/ SyncAlone \/ UNCHANGED vars, NEW d \in Conversations
      PROVE  One(d)'
  <2>1. Same(d) /\ UNCHANGED <<balancerVars, convVars>>
    BY <1>7 DEF Sleep, SyncAlone, vars, Same, balancerVars, convVars
  <2>2. state[d] = "running" => Live' = Live /\ ~paused'[lease[d]]
    <3>. SUFFICES ASSUME state[d] = "running" PROVE Live' = Live /\ ~paused'[lease[d]]
      OBVIOUS
    <3>1. lease[d] \in Servers /\ ~paused[lease[d]]
      BY <1>1 DEF One, CallInv, TypeOK, BalancerTypeOK
    <3>2. phase # "load"
      BY <1>1, <3>1, AcceptingIsLive
    <3>3. CASE StartSync
      BY <1>1, <3>1, <3>3 DEF StartSync, Live, TypeOK, SyncTypeOK
    <3>7. CASE Sleep
      BY <3>1, <3>7 DEF Sleep, SleepReplicas, Live
    <3>8. CASE EndSync
      BY <3>1, <3>8 DEF EndSync, Live
    <3>4. ASSUME NEW s \in Servers, BeginLoad(s) \/ EndLoad(s) \/ EndUpdate(s) \/ ResumeGeneration(s)
          PROVE  Live' = Live /\ ~paused'[lease[d]]
      BY <1>1, <3>1, <3>2, <3>4 DEF BeginLoad, EndLoad, EndUpdate, ResumeGeneration, Live, TypeOK, SyncTypeOK
    <3>5. CASE UNCHANGED vars
      BY <3>1, <3>5 DEF vars, syncVars, Live
    <3>6. CASE FinalizeSync
      BY <3>2, <3>6 DEF FinalizeSync
    <3>. QED  BY <1>7, <3>3, <3>4, <3>5, <3>6, <3>7, <3>8 DEF SyncAlone, SyncStep
  <2>. QED  BY <1>1, <1>2, <2>1, <2>2, SameKept
<1>8. \A d \in Conversations : One(d)'
  BY <1>3, <1>4, <1>5, <1>6, <1>7 DEF Next
<1>. QED  BY <1>1, <1>8 DEF IInv, ConversationInv, One

THEOREM Invariant == Spec => []IInv
  BY InitInv, StepInv, PTL DEF Spec

-----------------------------------------------------------------------------
(* The properties *)

\* Every variable keeps its type.
THEOREM TypesPreserved == Spec => []TypeOK
<1>1. IInv => TypeOK
  BY DEF IInv
<1>. QED  BY <1>1, Invariant, PTL

\* The servers that accept requests serve one complete version and report it.
THEOREM OneVersionSafe == Spec => []OneVersionServed
  BY ServesOneVersion, Invariant, PTL

\* No token comes from weights that are being replaced.
THEOREM NeverTornSafe == Spec => []NeverTorn
<1>1. IInv => NeverTorn
  <2>. SUFFICES ASSUME IInv, NEW c \in Conversations  PROVE Torn \notin seen[c]
    BY DEF NeverTorn
  <2>1. seen[c] \subseteq 0 .. Live
    BY DEF IInv, ConversationInv, VersionInv
  <2>. QED  BY <2>1
<1>. QED  BY <1>1, Invariant, PTL

\* The recorded range covers every version that generated a token.
THEOREM BracketSafe == Spec => []VersionsBracket
<1>1. IInv => VersionsBracket
  BY DEF IInv, ConversationInv, VersionInv, VersionsBracket
<1>. QED  BY <1>1, Invariant, PTL

\* No call is made without room for a token, and resumed calls stay within the
\* context.
THEOREM RoomSafe == Spec => []RoomToGenerate
<1>1. IInv => RoomToGenerate
  BY ContextType, MaxTokensFits DEF IInv, ConversationInv, RoomInv, RoomToGenerate
<1>. QED  BY <1>1, Invariant, PTL

-----------------------------------------------------------------------------
(* The balancer's counts *)

Leases(s) == {c \in Conversations : lease[c] = s}

LEMMA LeasesFinite == \A s : IsFiniteSet(Leases(s)) /\ Cardinality(Leases(s)) \in Nat
  BY FS_Subset, FS_CardinalityType DEF Leases

LEMMA AcquireCounts ==
  ASSUME TypeOK, InflightExact, NEW c \in Conversations, AcquireServer(c)
  PROVE  InflightExact'
<1>1. PICK s \in Servers : lease' = [lease EXCEPT ![c] = s] /\ inflight' = [inflight EXCEPT ![s] = @ + 1]
  BY DEF AcquireServer, Counted
<1>2. lease[c] = None
  BY DEF AcquireServer
<1>3. c \notin Leases(s) /\ Leases(s)' = Leases(s) \union {c}
  BY <1>1, <1>2 DEF Leases, TypeOK, BalancerTypeOK
<1>4. Cardinality(Leases(s)') = Cardinality(Leases(s)) + 1
  BY <1>3, LeasesFinite, FS_AddElement
<1>5. \A t \in Servers \ {s} : Leases(t)' = Leases(t)
  BY <1>1, <1>2 DEF Leases, TypeOK, BalancerTypeOK
<1>. QED
  BY <1>1, <1>4, <1>5 DEF InflightExact, Leases, TypeOK, BalancerTypeOK

LEMMA ReleaseCounts ==
  ASSUME TypeOK, InflightExact, NEW c \in Conversations, ReleaseServer(c)
  PROVE  InflightExact'
<1>1. PICK s \in Servers : lease[c] = s /\ lease' = [lease EXCEPT ![c] = None]
  BY DEF ReleaseServer, TypeOK, BalancerTypeOK
<1>2. c \in Leases(s) /\ Leases(s)' = Leases(s) \ {c}
  BY <1>1 DEF Leases, TypeOK, BalancerTypeOK
<1>3. Cardinality(Leases(s)') = Cardinality(Leases(s)) - 1 /\ Cardinality(Leases(s)) > 0
  BY <1>2, LeasesFinite, FS_RemoveElement, FS_EmptySet
<1>4. inflight[s] = Cardinality(Leases(s))
  BY <1>1 DEF InflightExact, Leases
<1>5. inflight' = [inflight EXCEPT ![s] = inflight[s] - 1]
  BY <1>1, <1>3, <1>4 DEF ReleaseServer
<1>6. \A t \in Servers \ {s} : Leases(t)' = Leases(t)
  BY <1>1 DEF Leases, TypeOK, BalancerTypeOK
<1>7. \A t \in Servers : inflight'[t] = Cardinality(Leases(t)')
  <2>. TAKE t \in Servers
  <2>1. CASE t = s
    BY <1>1, <1>3, <1>4, <1>5, <2>1 DEF TypeOK, BalancerTypeOK
  <2>2. CASE t # s
    BY <1>5, <1>6, <2>2 DEF InflightExact, Leases, TypeOK, BalancerTypeOK
  <2>. QED  BY <2>1, <2>2
<1>. QED  BY <1>7 DEF InflightExact, Leases

\* The balancer's count of a server is the number of leases on it.
THEOREM CountsSafe == Spec => []InflightExact
<1>1. Init => InflightExact
  <2>. SUFFICES ASSUME Init, NEW s \in Servers PROVE inflight[s] = Cardinality({c \in Conversations : lease[c] = s})
    BY DEF InflightExact
  <2>1. {c \in Conversations : lease[c] = s} = {}
    BY DEF Init, BalancerInit
  <2>. QED  BY <2>1, FS_EmptySet DEF Init, BalancerInit
<1>2. TypeOK /\ InflightExact /\ [Next]_vars => InflightExact'
  <2>. SUFFICES ASSUME TypeOK, InflightExact, [Next]_vars PROVE InflightExact'
    OBVIOUS
  <2>1. CASE UNCHANGED balancerVars
    BY <2>1 DEF balancerVars, InflightExact
  <2>2. ASSUME NEW c \in Conversations, Acquire(c) \/ Release(c)  PROVE InflightExact'
    BY <2>2, AcquireCounts, ReleaseCounts DEF Acquire, Release
  <2>3. ASSUME NEW c \in Conversations, ConversationStep(c) \/ Fail(c), ~Acquire(c)
        PROVE  UNCHANGED balancerVars
    BY <2>3 DEF ConversationStep, Fail, Start, Generate, Continue, EndTurn, ProcessTools
  <2>4. ASSUME NEW s \in Servers, Abort(s)  PROVE UNCHANGED balancerVars
    BY <2>4 DEF Abort
  <2>. QED  BY <2>1, <2>2, <2>3, <2>4 DEF Next, Sleep, SyncAlone, vars
<1>3. IInv => TypeOK
  BY DEF IInv
<1>. QED  BY <1>1, <1>2, <1>3, Invariant, PTL DEF Spec

-----------------------------------------------------------------------------
(* Interruptions are invisible *)

LEMMA InitMaps == Init => Loop!LoopInit
<1>. SUFFICES ASSUME Init PROVE Loop!LoopInit
  OBVIOUS
<1>1. LoopState = [c \in Conversations |-> "generating"]
  BY DEF Init, LoopState, Always
<1>2. LoopTurn = [c \in Conversations |-> 0]
  BY DEF Init, LoopTurn, Always
<1>3. LoopEnded = [c \in Conversations |-> FALSE]
  <2>1. \A c \in Conversations : state[c] # "reply"
    BY DEF Init, Always
  <2>. QED  BY <2>1 DEF LoopEnded
<1>. QED  BY <1>1, <1>2, <1>3 DEF Init, Loop!LoopInit, Always

\* Steps that the agent loop does not see.
LEMMA SilentSteps ==
  ASSUME TypeOK, NEW c \in Conversations, Acquire(c) \/ Start(c) \/ Continue(c) \/ Release(c)
  PROVE  UNCHANGED Loop!loopVars
<1>1. CASE Acquire(c) \/ Start(c)
  <2>1. state[c] \in {"acquire", "call"} /\ \/ state' = [state EXCEPT ![c] = "call"]
                                            \/ state' = [state EXCEPT ![c] = "running"]
    BY <1>1 DEF Acquire, Start
  <2>2. UNCHANGED <<mask, turns, got, run, reply>>
    BY <1>1 DEF Acquire, Start
  <2>3. UNCHANGED <<LoopState, LoopTurn, LoopEnded>>
    BY <2>1, <2>2 DEF LoopState, LoopTurn, LoopEnded, TypeOK, ConversationTypeOK
  <2>. QED  BY <2>2, <2>3 DEF Loop!loopVars
<1>2. CASE Continue(c)
  <2>1. /\ state[c] = "reply" /\ reply[c].reason = "aborted"
        /\ state' = [state EXCEPT ![c] = "acquire"]
        /\ got' = [got EXCEPT ![c] = got[c] + run[c]] /\ run' = [run EXCEPT ![c] = 0]
        /\ reply' = [reply EXCEPT ![c] = NoReply]
        /\ UNCHANGED <<mask, turns>>
    BY <1>2 DEF Continue, CallsAgain, Merged
  <2>2. LoopState' = LoopState
    BY <2>1 DEF LoopState, TypeOK, ConversationTypeOK
  <2>3. LoopTurn' = LoopTurn
    BY <2>1 DEF LoopTurn, TypeOK, ConversationTypeOK
  <2>4. \A d \in Conversations : LoopEnded'[d] = LoopEnded[d]
    BY <2>1 DEF LoopEnded, TypeOK, ConversationTypeOK
  <2>5. LoopEnded' = LoopEnded
    BY <2>4 DEF LoopEnded
  <2>. QED  BY <2>1, <2>2, <2>3, <2>5 DEF Loop!loopVars
<1>3. CASE Release(c)
  BY <1>3 DEF Release, convVars, Loop!loopVars, LoopState, LoopTurn, LoopEnded
<1>. QED  BY <1>1, <1>2, <1>3

LEMMA AbortSilent ==
  ASSUME TypeOK, NEW s \in Servers, Abort(s)
  PROVE  UNCHANGED Loop!loopVars
<1>1. UNCHANGED <<mask, turns, got, run>>
  BY DEF Abort
<1>2. \A d \in Conversations :
        \/ state'[d] = state[d] /\ reply'[d] = reply[d]
        \/ state[d] = "running" /\ state'[d] = "reply" /\ reply'[d].reason = "aborted"
  BY DEF Abort, InFlight
<1>3. \A d \in Conversations : LoopState'[d] = LoopState[d] /\ LoopEnded'[d] = LoopEnded[d]
  BY <1>2 DEF LoopState, LoopEnded
<1>4. LoopState' = LoopState /\ LoopEnded' = LoopEnded
  BY <1>3 DEF LoopState, LoopEnded
<1>. QED  BY <1>1, <1>4 DEF Loop!loopVars, LoopTurn

LEMMA GenerateMaps ==
  ASSUME TypeOK, NEW c \in Conversations, One(c), Generate(c)
  PROVE  Loop!Token(c)
<1>1. /\ state[c] = "running" /\ run' = [run EXCEPT ![c] = @ + 1]
      /\ UNCHANGED <<mask, turns, got>>
  BY DEF Generate
<1>2. Prompt + mask[c] + LoopTurn[c] < PromptLength + ResponseLength
  <2>1. run[c] < MaxTokens(Context(c)) /\ Context(c) + run[c] = Prompt + mask[c] + LoopTurn[c]
    BY <1>1, ContextType DEF One, RoomInv, Context, LoopTurn
  <2>. QED  BY <2>1, ContextType, MaxTokensFits
<1>3. LoopTurn' = [LoopTurn EXCEPT ![c] = @ + 1]
  <2>1. \A d \in Conversations : LoopTurn'[d] = IF d = c THEN LoopTurn[d] + 1 ELSE LoopTurn[d]
    BY <1>1, ContextType DEF LoopTurn, TypeOK, ConversationTypeOK
  <2>. QED  BY <2>1 DEF LoopTurn
<1>4. LoopState' = LoopState /\ LoopState[c] = "generating"
  BY <1>1 DEF Generate, LoopState, TypeOK, ConversationTypeOK
<1>5. ~LoopEnded[c]
  BY <1>1 DEF LoopEnded
<1>6. \E last \in BOOLEAN : LoopEnded' = [LoopEnded EXCEPT ![c] = last]
  <2>1. \A d \in Conversations \ {c} : LoopEnded'[d] = LoopEnded[d]
    BY DEF Generate, LoopEnded, TypeOK, ConversationTypeOK
  <2>2. LoopEnded'[c] \in BOOLEAN
    BY DEF LoopEnded
  <2>3. LoopEnded' = [LoopEnded EXCEPT ![c] = LoopEnded'[c]]
    BY <2>1 DEF LoopEnded
  <2>. QED  BY <2>2, <2>3
<1>. QED  BY <1>1, <1>2, <1>3, <1>4, <1>5, <1>6 DEF Loop!Token

LEMMA EndTurnMaps ==
  ASSUME PartialRollouts, TypeOK, NEW c \in Conversations, EndTurn(c)
  PROVE  Loop!EndTurn(c)
<1>1. state[c] = "reply" /\ reply[c].reason = "completed"
  BY DEF EndTurn, CallsAgain, TypeOK, ConversationTypeOK
<1>2. /\ mask' = [mask EXCEPT ![c] = @ + LoopTurn[c]]
      /\ turns' = [turns EXCEPT ![c] = @ + 1]
      /\ got' = [got EXCEPT ![c] = 0] /\ run' = [run EXCEPT ![c] = 0]
      /\ reply' = [reply EXCEPT ![c] = NoReply]
  BY DEF EndTurn, Merged, LoopTurn
<1>3. PICK next \in AfterTurn(mask'[c], turns'[c]) : state' = [state EXCEPT ![c] = next]
  BY DEF EndTurn
<1>4. next \in {"tools", "terminated"}
  BY <1>3 DEF AfterTurn
<1>5. LoopTurn' = [LoopTurn EXCEPT ![c] = 0]
  <2>1. \A d \in Conversations : LoopTurn'[d] = IF d = c THEN 0 ELSE LoopTurn[d]
    BY <1>2 DEF LoopTurn, TypeOK, ConversationTypeOK
  <2>. QED  BY <2>1 DEF LoopTurn
<1>6. LoopEnded' = [LoopEnded EXCEPT ![c] = FALSE]
  <2>1. \A d \in Conversations : LoopEnded'[d] = (IF d = c THEN FALSE ELSE LoopEnded[d])
    BY <1>2, <1>3, <1>4 DEF LoopEnded, TypeOK, ConversationTypeOK
  <2>. QED  BY <2>1 DEF LoopEnded
<1>7. LoopState' = [LoopState EXCEPT ![c] = next]
  BY <1>3, <1>4 DEF LoopState, TypeOK, ConversationTypeOK
<1>8. LoopState[c] = "generating" /\ LoopEnded[c]
  BY <1>1 DEF LoopState, LoopEnded
<1>. QED
  BY <1>2, <1>3, <1>5, <1>6, <1>7, <1>8 DEF Loop!EndTurn, Loop!AfterTurn, AfterTurn

LEMMA ToolsMap ==
  ASSUME TypeOK, NEW c \in Conversations, NEW k \in 1 .. ToolTokens, ProcessTools(c, k)
  PROVE  Loop!ProcessTools(c, k)
<1>1. state[c] = "tools" /\ UNCHANGED <<turns, got, run, reply>>
  BY DEF ProcessTools
<1>2. LoopTurn' = LoopTurn
  BY <1>1 DEF LoopTurn
<1>3. LoopEnded' = LoopEnded
  <2>1. \A d \in Conversations : LoopEnded'[d] = LoopEnded[d]
    BY <1>1 DEF ProcessTools, LoopEnded, TypeOK, ConversationTypeOK
  <2>. QED  BY <2>1 DEF LoopEnded
<1>4. CASE ToolsFit(c, k)
  <2>1. LoopState' = [LoopState EXCEPT ![c] = "generating"]
    BY <1>1, <1>4 DEF ProcessTools, LoopState, TypeOK, ConversationTypeOK
  <2>2. ~(mask[c] + k >= ResponseLength) /\ mask' = [mask EXCEPT ![c] = @ + k]
    BY <1>4, ContextType DEF ProcessTools, ToolsFit
  <2>. QED  BY <1>1, <1>2, <1>3, <2>1, <2>2 DEF Loop!ProcessTools, LoopState
<1>5. CASE ~ToolsFit(c, k)
  <2>1. LoopState' = [LoopState EXCEPT ![c] = "terminated"]
    BY <1>1, <1>5 DEF ProcessTools, LoopState, TypeOK, ConversationTypeOK
  <2>2. mask[c] + k >= ResponseLength /\ mask' = mask
    BY <1>5, ContextType DEF ProcessTools, ToolsFit
  <2>. QED  BY <1>1, <1>2, <1>3, <2>1, <2>2 DEF Loop!ProcessTools, LoopState
<1>. QED  BY <1>4, <1>5

LEMMA FailMaps ==
  ASSUME TypeOK, NEW c \in Conversations, Fail(c)
  PROVE  Loop!Raise(c)
<1>1. /\ state[c] \in {"call", "running", "tools"} /\ state' = [state EXCEPT ![c] = "failed"]
      /\ UNCHANGED <<mask, turns, got, run, reply>>
  BY DEF Fail
<1>2. LoopTurn' = LoopTurn
  BY <1>1 DEF LoopTurn
<1>3. LoopEnded' = LoopEnded
  <2>1. \A d \in Conversations : LoopEnded'[d] = LoopEnded[d]
    BY <1>1 DEF LoopEnded, TypeOK, ConversationTypeOK
  <2>. QED  BY <2>1 DEF LoopEnded
<1>4. LoopState' = [LoopState EXCEPT ![c] = "failed"] /\ LoopState[c] \in {"generating", "tools"}
  BY <1>1 DEF LoopState, TypeOK, ConversationTypeOK
<1>. QED  BY <1>1, <1>2, <1>3, <1>4 DEF Loop!Raise

\* With partial_rollout the agent loop sees generations that nothing interrupts.
THEOREM InterruptionsInvisible == ASSUME PartialRollouts PROVE Spec => Uninterrupted
<1>1. IInv /\ [Next]_vars => [Loop!LoopNext]_Loop!loopVars
  <2>. SUFFICES ASSUME IInv, [Next]_vars PROVE [Loop!LoopNext]_Loop!loopVars
    OBVIOUS
  <2>1. TypeOK /\ \A c \in Conversations : One(c)
    BY DEF IInv, ConversationInv, One
  <2>2. ASSUME NEW c \in Conversations, ConversationStep(c) \/ Fail(c) \/ Release(c)
        PROVE  Loop!LoopNext \/ UNCHANGED Loop!loopVars
    BY <2>1, <2>2, SilentSteps, GenerateMaps, EndTurnMaps, ToolsMap, FailMaps
       DEF ConversationStep, Loop!LoopNext
  <2>3. ASSUME NEW s \in Servers, Abort(s)
        PROVE  UNCHANGED Loop!loopVars
    BY <2>1, <2>3, AbortSilent
  <2>4. CASE UNCHANGED convVars
    BY <2>4 DEF convVars, Loop!loopVars, LoopState, LoopTurn, LoopEnded
  <2>. QED  BY <2>2, <2>3, <2>4 DEF Next, Sleep, SyncAlone, vars
<1>. QED  BY <1>1, InitMaps, Invariant, PTL DEF Spec, Uninterrupted, Loop!LoopSpec
=============================================================================
