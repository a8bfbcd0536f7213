----------------------------- MODULE ResumeProofs -----------------------------
(***************************************************************************)
(* Proofs about Resume: for any lengths of the run, of its batches and of  *)
(* its versions, any number of crashes at any step, and any limit on the   *)
(* checkpoints kept but one.                                               *)
(***************************************************************************)
EXTENDS Resume, FiniteSetTheorems, TLAPS

-----------------------------------------------------------------------------
(* Rotation *)

LEMMA LatestFacts ==
  ASSUME NEW paths \in Seq(Nat), NEW n \in Nat, n <= Len(paths)
  PROVE  /\ Latest(paths, n) \in Seq(Nat) /\ Len(Latest(paths, n)) = n
         /\ \A i \in 1 .. n : Latest(paths, n)[i] = paths[Len(paths) - n + i]
<1>1. Len(paths) \in Nat /\ Len(paths) - n + 1 \in 1 .. Len(paths) + 1
  OBVIOUS
<1>2. \A i \in Len(paths) - n + 1 .. Len(paths) : paths[i] \in Nat
  OBVIOUS
<1>. QED BY <1>1, <1>2 DEF Latest

\* What ensure_checkpoint_capacity keeps includes the latest path.
LEMMA CapacityFacts ==
  ASSUME NEW paths \in Seq(Nat)
  PROVE  /\ Capacity(paths) \in Seq(Nat)
         /\ Capacity(paths) # <<>> <=> paths # <<>>
         /\ paths # <<>> => Capacity(paths)[Len(Capacity(paths))] = paths[Len(paths)]
<1>1. CASE MaxCkptToKeep > 1 /\ Len(paths) >= MaxCkptToKeep
  <2>1. MaxCkptToKeep - 1 \in Nat /\ MaxCkptToKeep - 1 <= Len(paths) /\ MaxCkptToKeep - 1 >= 1
    BY <1>1, CheckpointAssumption
  <2>2. Capacity(paths) = Latest(paths, MaxCkptToKeep - 1)
    BY <1>1 DEF Capacity
  <2>3. /\ Capacity(paths) \in Seq(Nat) /\ Len(Capacity(paths)) = MaxCkptToKeep - 1
        /\ \A i \in 1 .. MaxCkptToKeep - 1 :
              Capacity(paths)[i] = paths[Len(paths) - (MaxCkptToKeep - 1) + i]
    <3>1. \A n \in Nat : n <= Len(paths) =>
            /\ Latest(paths, n) \in Seq(Nat) /\ Len(Latest(paths, n)) = n
            /\ \A i \in 1 .. n : Latest(paths, n)[i] = paths[Len(paths) - n + i]
      BY LatestFacts
    <3>. QED BY <2>1, <2>2, <3>1
  <2>4. Len(paths) - (MaxCkptToKeep - 1) + (MaxCkptToKeep - 1) = Len(paths) /\ Len(paths) \in Nat
    BY <2>1
  <2>5. Capacity(paths)[MaxCkptToKeep - 1] = paths[Len(paths)]
    BY <2>1, <2>3, <2>4
  <2>. QED BY <2>1, <2>3, <2>5
<1>2. CASE ~(MaxCkptToKeep > 1 /\ Len(paths) >= MaxCkptToKeep)
  BY <1>2 DEF Capacity
<1>. QED BY <1>1, <1>2

\* Unless a single checkpoint is kept, register_checkpoint keeps the new path
\* and the one before it.
LEMMA RetainedFacts ==
  ASSUME NEW paths \in Seq(Nat), NEW v \in Nat
  PROVE  LET all == Append(paths, v)
             n   == Len(Retained(all))
         IN  /\ Retained(all) \in Seq(Nat) /\ n >= 1 /\ Retained(all)[n] = v
             /\ MaxCkptToKeep # 1 /\ paths # <<>> => n >= 2 /\ Retained(all)[n - 1] = paths[Len(paths)]
             /\ n >= 2 => Retained(all)[n - 1] = paths[Len(paths)] /\ paths # <<>>
<1> DEFINE all == Append(paths, v)
<1>0. /\ all \in Seq(Nat) /\ Len(all) = Len(paths) + 1 /\ all[Len(all)] = v
      /\ paths # <<>> => Len(paths) >= 1 /\ all[Len(paths)] = paths[Len(paths)]
      /\ paths = <<>> => Len(paths) = 0
  OBVIOUS
<1> HIDE DEF all
<1>1. CASE MaxCkptToKeep > 0 /\ Len(all) > MaxCkptToKeep
  <2>1. MaxCkptToKeep \in Nat /\ MaxCkptToKeep <= Len(all) /\ MaxCkptToKeep >= 1
    BY <1>0, <1>1, CheckpointAssumption
  <2>2. Retained(all) = Latest(all, MaxCkptToKeep)
    BY <1>1 DEF Retained
  <2>3. /\ Retained(all) \in Seq(Nat) /\ Len(Retained(all)) = MaxCkptToKeep
        /\ \A i \in 1 .. MaxCkptToKeep : Retained(all)[i] = all[Len(all) - MaxCkptToKeep + i]
    <3>1. \A n \in Nat : n <= Len(all) =>
            /\ Latest(all, n) \in Seq(Nat) /\ Len(Latest(all, n)) = n
            /\ \A i \in 1 .. n : Latest(all, n)[i] = all[Len(all) - n + i]
      BY <1>0, LatestFacts
    <3>. QED BY <2>1, <2>2, <3>1
  <2>4. Retained(all)[MaxCkptToKeep] = v
    <3>1. Len(all) - MaxCkptToKeep + MaxCkptToKeep = Len(all)
      BY <1>0, <2>1
    <3>. QED BY <1>0, <2>1, <2>3, <3>1
  <2>5. MaxCkptToKeep >= 2 => Retained(all)[MaxCkptToKeep - 1] = all[Len(paths)] /\ paths # <<>>
    <3>1. /\ Len(all) - MaxCkptToKeep + (MaxCkptToKeep - 1) = Len(paths)
          /\ MaxCkptToKeep >= 2 => Len(paths) >= 1 /\ MaxCkptToKeep - 1 \in 1 .. MaxCkptToKeep
      BY <1>0, <1>1, <2>1
    <3>2. MaxCkptToKeep >= 2 => Retained(all)[MaxCkptToKeep - 1] = all[Len(paths)]
      BY <2>3, <3>1
    <3>. QED BY <1>0, <3>1, <3>2
  <2>. QED BY <1>0, <2>1, <2>3, <2>4, <2>5 DEF all
<1>2. CASE ~(MaxCkptToKeep > 0 /\ Len(all) > MaxCkptToKeep)
  <2>1. Retained(all) = all
    BY <1>2 DEF Retained
  <2>. QED BY <1>0, <2>1 DEF all
<1>. QED BY <1>1, <1>2

\* The changes of a partial function
LEMMA WithFacts ==
  ASSUME NEW f, NEW v, NEW x
  PROVE  /\ DOMAIN With(f, v, x) = DOMAIN f \union {v} /\ With(f, v, x)[v] = x
         /\ \A w \in DOMAIN f : w # v => With(f, v, x)[w] = f[w]
BY DEF With

LEMMA WithoutFacts ==
  ASSUME NEW f, NEW S
  PROVE  /\ DOMAIN Without(f, S) = DOMAIN f \ S
         /\ \A w \in DOMAIN f \ S : Without(f, S)[w] = f[w]
BY DEF Without, Restrict

LEMMA WithTyped ==
  ASSUME NEW f, NEW S, DOMAIN f \in SUBSET Nat, \A w \in DOMAIN f : f[w] \in S,
         NEW v \in Nat, NEW x \in S
  PROVE  DOMAIN With(f, v, x) \in SUBSET Nat /\ \A w \in DOMAIN With(f, v, x) : With(f, v, x)[w] \in S
<1>1. DOMAIN With(f, v, x) = DOMAIN f \union {v}
  BY WithFacts
<1>2. ASSUME NEW w \in DOMAIN With(f, v, x) PROVE With(f, v, x)[w] \in S
  <2>1. CASE w = v
    BY <2>1 DEF With
  <2>2. CASE w # v
    BY <1>1, <1>2, <2>2 DEF With
  <2>. QED BY <2>1, <2>2
<1>. QED BY <1>1, <1>2

LEMMA WithoutTyped ==
  ASSUME NEW f, NEW S, DOMAIN f \in SUBSET Nat, \A w \in DOMAIN f : f[w] \in S, NEW gone
  PROVE  DOMAIN Without(f, gone) \in SUBSET Nat /\ \A w \in DOMAIN Without(f, gone) : Without(f, gone)[w] \in S
<1>1. DOMAIN Without(f, gone) = DOMAIN f \ gone
  BY WithoutFacts
<1>2. ASSUME NEW w \in DOMAIN Without(f, gone) PROVE Without(f, gone)[w] \in S
  BY <1>1, <1>2, WithoutFacts
<1>. QED BY <1>1, <1>2

-----------------------------------------------------------------------------
(* Types *)

LEMMA RoleFacts == "actor" \in Roles /\ (UseCritic <=> "critic" \in Roles) /\ Roles \subseteq {"actor", "critic"}
BY CheckpointAssumption DEF Roles

\* Writing to, or removing from, the directories of one role
LEMMA WeightsTyped ==
  ASSUME TypeOK, NEW r \in Roles, NEW f, DOMAIN f \in SUBSET Nat, \A v \in DOMAIN f : f[v] \in SUBSET Nat,
         weights' = [weights EXCEPT ![r] = f]
  PROVE  /\ DOMAIN weights' = Roles /\ weights'[r] = f
         /\ \A q \in Roles : q # r => weights'[q] = weights[q]
         /\ \A q \in Roles : /\ DOMAIN weights'[q] \in SUBSET Nat
                             /\ \A v \in DOMAIN weights'[q] : weights'[q][v] \in SUBSET Nat
<1>1. DOMAIN weights' = Roles /\ weights'[r] = f /\ \A q \in Roles : q # r => weights'[q] = weights[q]
  BY DEF TypeOK, CheckpointTypeOK
<1>2. \A q \in Roles : /\ DOMAIN weights[q] \in SUBSET Nat
                      /\ \A v \in DOMAIN weights[q] : weights[q][v] \in SUBSET Nat
  BY DEF TypeOK, CheckpointTypeOK
<1>3. ASSUME NEW q \in Roles
      PROVE  /\ DOMAIN weights'[q] \in SUBSET Nat
             /\ \A v \in DOMAIN weights'[q] : weights'[q][v] \in SUBSET Nat
  <2>1. CASE q = r
    BY <1>1, <2>1
  <2>2. CASE q # r
    <3>1. weights'[q] = weights[q]
      BY <1>1, <2>2
    <3>. QED BY <1>2, <3>1
  <2>. QED BY <2>1, <2>2
<1>. QED BY <1>1, <1>3

\* The three operations on the directories of the model being saved keep the types.
LEMMA SaveStepTyped ==
  ASSUME TypeOK, SaveStep
  PROVE  TypeOK'
<1>0. /\ save_role \in Roles /\ previous_saved_paths[save_role] \in Seq(Nat) /\ trained \in SUBSET Nat
      /\ current_param_version \in Nat /\ DOMAIN weights[save_role] \in SUBSET Nat
      /\ \A v \in DOMAIN weights[save_role] : weights[save_role][v] \in SUBSET Nat
  BY DEF TypeOK, CheckpointTypeOK
<1>1. UNCHANGED <<run_pc, closing, current_param_version, local_trigger_step, last_ckpt_version,
                  trained, fed, global_steps, feed_done, inflight, restarts>>
  BY DEF SaveStep, memoryVars
<1>2. SUFFICES CheckpointTypeOK(SUBSET Nat)'
  BY <1>1 DEF TypeOK
<1>3. CASE OpenModel(current_param_version)
  <2> DEFINE gone == Deleted(previous_saved_paths[save_role], Capacity(previous_saved_paths[save_role]))
                       \union {current_param_version}
             f == Without(weights[save_role], gone)
  <2>1. weights' = [weights EXCEPT ![save_role] = f]
    BY <1>3 DEF OpenModel
  <2>2. DOMAIN f \in SUBSET Nat /\ \A v \in DOMAIN f : f[v] \in SUBSET Nat
    BY <1>0, WithoutTyped
  <2> HIDE DEF f
  <2>3. /\ DOMAIN weights' = Roles
        /\ \A q \in Roles : /\ DOMAIN weights'[q] \in SUBSET Nat
                            /\ \A v \in DOMAIN weights'[q] : weights'[q][v] \in SUBSET Nat
    BY <1>0, <2>1, <2>2, WeightsTyped, Zenon
  <2>4. previous_saved_paths' \in [Roles -> Seq(Nat)]
    BY <1>0, <1>3, CapacityFacts DEF OpenModel, TypeOK, CheckpointTypeOK
  <2>5. save_pc' = "write" /\ UNCHANGED <<data, tracker, truncated, save_role>>
    BY <1>3 DEF OpenModel
  <2>. QED BY <2>3, <2>4, <2>5 DEF TypeOK, CheckpointTypeOK
<1>4. CASE WriteModel(current_param_version, trained)
  <2> DEFINE f == With(weights[save_role], current_param_version, trained)
  <2>1. weights' = [weights EXCEPT ![save_role] = f]
    BY <1>4 DEF WriteModel
  <2>2. DOMAIN f \in SUBSET Nat /\ \A v \in DOMAIN f : f[v] \in SUBSET Nat
    BY <1>0, WithTyped
  <2> HIDE DEF f
  <2>3. /\ DOMAIN weights' = Roles
        /\ \A q \in Roles : /\ DOMAIN weights'[q] \in SUBSET Nat
                            /\ \A v \in DOMAIN weights'[q] : weights'[q][v] \in SUBSET Nat
    BY <1>0, <2>1, <2>2, WeightsTyped, Zenon
  <2>4. save_pc' = "register" /\ UNCHANGED <<data, tracker, truncated, previous_saved_paths, save_role>>
    BY <1>4 DEF WriteModel
  <2>. QED BY <2>3, <2>4 DEF TypeOK, CheckpointTypeOK
<1>5. CASE RegisterModel(current_param_version)
  <2> DEFINE paths == Append(previous_saved_paths[save_role], current_param_version)
             f == Without(weights[save_role], Deleted(paths, Retained(paths)))
  <2>1. weights' = [weights EXCEPT ![save_role] = f]
    BY <1>5 DEF RegisterModel
  <2>2. DOMAIN f \in SUBSET Nat /\ \A v \in DOMAIN f : f[v] \in SUBSET Nat
    BY <1>0, WithoutTyped
  <2> HIDE DEF f
  <2>3. /\ DOMAIN weights' = Roles
        /\ \A q \in Roles : /\ DOMAIN weights'[q] \in SUBSET Nat
                            /\ \A v \in DOMAIN weights'[q] : weights'[q][v] \in SUBSET Nat
    BY <1>0, <2>1, <2>2, WeightsTyped, Zenon
  <2>4. Retained(paths) \in Seq(Nat)
    BY <1>0, RetainedFacts
  <2>5. previous_saved_paths' \in [Roles -> Seq(Nat)]
    BY <2>4, <1>5 DEF RegisterModel, TypeOK, CheckpointTypeOK
  <2>6. /\ save_role' \in Roles /\ save_pc' \in {"open", "data"}
        /\ UNCHANGED <<data, tracker, truncated>>
    BY <1>5, RoleFacts DEF RegisterModel
  <2>. QED BY <2>3, <2>5, <2>6 DEF TypeOK, CheckpointTypeOK
<1>6. CASE SaveData(current_param_version, fed)
  <2>1. data' = With(data, current_param_version, fed)
    BY <1>6 DEF SaveData
  <2>2. DOMAIN data \in SUBSET Nat /\ (\A v \in DOMAIN data : data[v] \in Nat) /\ fed \in Nat
    BY DEF TypeOK, CheckpointTypeOK
  <2>3. DOMAIN data' \in SUBSET Nat /\ \A v \in DOMAIN data' : data'[v] \in Nat
    BY <1>0, <2>1, <2>2, WithTyped
  <2>. QED BY <2>3, <1>6 DEF SaveData, TypeOK, CheckpointTypeOK
<1>7. CASE TruncateTracker
  BY <1>7 DEF TruncateTracker, TypeOK, CheckpointTypeOK
<1>. QED BY <1>3, <1>4, <1>5, <1>6, <1>7 DEF SaveStep

LEMMA ConstantFacts ==
  /\ TotalRolloutSteps \in Nat /\ RequiredSamples \in Nat /\ TriggerSteps \in Nat
  /\ RequiredSamples >= 1 /\ TriggerSteps >= 1
  /\ 1 \in 1 .. TriggerSteps /\ 0 \in 0 .. MaxRestarts
  /\ VersionSamples \in Nat
<1>1. TotalRolloutSteps \in Nat \ {0} /\ RequiredSamples \in Nat \ {0} /\ TriggerSteps \in Nat \ {0}
  BY ResumeAssumption
<1>. QED BY <1>1, ResumeAssumption DEF VersionSamples

LEMMA InitTyped == Init => TypeOK
<1> SUFFICES ASSUME Init PROVE TypeOK
  OBVIOUS
<1>1. /\ DOMAIN weights = Roles /\ \A r \in Roles : weights[r] = [v \in {} |-> {}]
      /\ data = [v \in {} |-> 0]
      /\ tracker = 0 /\ truncated = FALSE /\ save_pc = "open" /\ save_role = "actor"
      /\ previous_saved_paths = [r \in Roles |-> <<>>]
  BY DEF Init, NoCheckpoint, NothingSavedYet
<1>2. previous_saved_paths \in [Roles -> Seq(Nat)]
  BY <1>1
<1>3. DOMAIN data = {} /\ \A r \in Roles : DOMAIN weights[r] = {}
  BY <1>1
<1>4. CheckpointTypeOK(SUBSET Nat)
  <2>1. \A r \in Roles : /\ DOMAIN weights[r] \in SUBSET Nat
                        /\ \A v \in DOMAIN weights[r] : weights[r][v] \in SUBSET Nat
    BY <1>3
  <2>2. DOMAIN data \in SUBSET Nat /\ \A v \in DOMAIN data : data[v] \in Nat
    BY <1>3
  <2>3. /\ tracker \in Nat /\ truncated \in BOOLEAN /\ save_role \in Roles
        /\ save_pc \in {"open", "write", "register", "data", "truncate", "name"}
    BY <1>1, RoleFacts
  <2>4. DOMAIN weights = Roles
    BY <1>1
  <2>. QED BY <1>2, <2>1, <2>2, <2>3, <2>4, Zenon DEF CheckpointTypeOK
<1>. QED BY <1>4, ConstantFacts DEF Init, TypeOK

LEMMA LoadTyped ==
  ASSUME NEW v \in Nat, NEW content \in SUBSET Nat, NEW position \in Nat, Load(v, content, position)
  PROVE  /\ closing' \in BOOLEAN /\ feed_done' \in BOOLEAN
         /\ current_param_version' \in Nat /\ last_ckpt_version' \in Nat
         /\ local_trigger_step' \in 1 .. TriggerSteps
         /\ trained' \in SUBSET Nat /\ inflight' \in SUBSET Nat
         /\ fed' \in Nat /\ global_steps' \in Nat
<1>1. v * VersionSamples \in Nat
  BY ConstantFacts
<1>2. ResumedSteps(v) \in Nat
  BY <1>1, ConstantFacts DEF ResumedSteps
<1>. QED BY <1>2, ConstantFacts DEF Load

LEMMA DownTyped ==
  ASSUME TypeOK, Down
  PROVE  TypeOK'
<1>1. Load(0, {}, 0) /\ ForgetSaves /\ UNCHANGED diskVars /\ run_pc' = "down"
  BY DEF Down
<1>2. CheckpointTypeOK(SUBSET Nat)'
  BY <1>1, RoleFacts DEF ForgetSaves, diskVars, TypeOK, CheckpointTypeOK
<1>3. restarts' \in 0 .. MaxRestarts
  BY ResumeAssumption DEF Down, TypeOK
<1>. QED BY <1>1, <1>2, <1>3, LoadTyped DEF TypeOK

LEMMA RestartTyped ==
  ASSUME TypeOK, Restart
  PROVE  TypeOK'
<1>1. CheckpointTypeOK(SUBSET Nat)' /\ restarts' \in 0 .. MaxRestarts
  BY DEF Restart, diskVars, saveVars, TypeOK, CheckpointTypeOK
<1>2. CASE run_pc' = "failed" /\ UNCHANGED memoryVars
  BY <1>1, <1>2 DEF memoryVars, TypeOK
<1>3. CASE run_pc' = "train" /\ Load(0, {}, 0)
  BY <1>1, <1>3, LoadTyped DEF TypeOK
<1>4. CASE /\ run_pc' = "train" /\ Loadable(tracker)
           /\ Load(tracker, weights["actor"][tracker], SavedPosition(tracker))
  <2>1. tracker \in Nat /\ weights["actor"][tracker] \in SUBSET Nat /\ SavedPosition(tracker) \in Nat
    BY <1>4, RoleFacts DEF Loadable, SavedPosition, TypeOK, CheckpointTypeOK
  <2>. QED BY <1>1, <1>4, <2>1, LoadTyped DEF TypeOK
<1>. QED BY <1>2, <1>3, <1>4 DEF Restart, ResumedVersion

LEMMA NextTyped == TypeOK /\ [Next]_vars => TypeOK'
<1> SUFFICES ASSUME TypeOK, [Next]_vars PROVE TypeOK'
  OBVIOUS
<1>1. CASE Feed
  <2>1. inflight' \in SUBSET Nat /\ fed' \in Nat
    BY <1>1 DEF Feed, TypeOK
  <2>2. \/ feed_done' = TRUE /\ global_steps' = global_steps
        \/ feed_done' = feed_done /\ global_steps' = global_steps + 1
    BY <1>1, Zenon DEF Feed
  <2>3. feed_done' \in BOOLEAN
    BY <2>2, Zenon DEF TypeOK
  <2>4. global_steps' \in {global_steps, global_steps + 1}
    BY <2>2, Zenon
  <2>5. global_steps' \in Nat
    BY <2>4 DEF TypeOK
  <2>. QED BY <1>1, <2>1, <2>3, <2>5 DEF Feed, diskVars, saveVars, trainerVars, TypeOK, CheckpointTypeOK
<1>2. ASSUME NEW batch \in SUBSET inflight, Train(batch) PROVE TypeOK'
  <2>1. trained' \in SUBSET Nat /\ inflight' \in SUBSET Nat /\ run_pc' \in {"train", "save"}
    BY <1>2 DEF Train, TypeOK
  <2>2. local_trigger_step' \in 1 .. TriggerSteps /\ current_param_version' \in Nat
    BY <1>2, ConstantFacts DEF Train, LastLocalStep, TypeOK
  <2>. QED BY <1>2, <2>1, <2>2 DEF Train, diskVars, saveVars, feedVars, TypeOK, CheckpointTypeOK
<1>3. CASE Stop
  BY <1>3 DEF Stop, diskVars, saveVars, feedVars, TypeOK, CheckpointTypeOK
<1>4. CASE Saved
  BY <1>4 DEF Saved, NameTracker, trainerVars, feedVars, TypeOK, CheckpointTypeOK
<1>5. CASE UNCHANGED vars
  BY <1>5 DEF vars, diskVars, saveVars, memoryVars, TypeOK, CheckpointTypeOK
<1>. QED BY <1>1, <1>2, <1>3, <1>4, <1>5, SaveStepTyped, DownTyped, RestartTyped
         DEF Next, Crash, Rerun

-----------------------------------------------------------------------------
(* The invariant *)

\* The models of the save under way that their manager has registered, and
\* those whose directory is complete.
Registered(r) ==
    \/ save_pc \in {"data", "truncate", "name"}
    \/ save_role = "critic" /\ r = "actor"

Written(r) == Registered(r) \/ (save_pc = "register" /\ save_role = r)

\* A manager's latest path is the tracker's version, or else that of the save
\* under way, with the tracker's right before it.
PathInv(r) ==
    LET paths == previous_saved_paths[r]
        n     == Len(paths)
    IN  IF run_pc = "save" /\ Registered(r)
        THEN /\ n >= 1 /\ paths[n] = current_param_version
             /\ n >= 2 => paths[n - 1] = tracker
        ELSE paths # <<>> => paths[n] = tracker

\* The parts written by the save under way agree.
SaveInv ==
    /\ run_pc = "save" =>
         /\ tracker < current_param_version
         /\ \A r \in Roles : Written(r) =>
               /\ current_param_version \in DOMAIN weights[r]
               /\ weights[r][current_param_version] = trained
         /\ save_pc \in {"truncate", "name"} =>
               /\ current_param_version \in DOMAIN data
               /\ \A s \in trained : s <= data[current_param_version]
    /\ run_pc # "save" => save_pc = "open" /\ save_role = "actor"
    /\ save_role = "critic" => save_pc \in {"open", "write", "register"}

VersionInv ==
    run_pc \in {"train", "save", "done"} =>
        tracker = last_ckpt_version /\ tracker <= current_param_version

\* The loader is behind all that was trained on or is in flight.
FeedInv == \A s \in trained \union inflight : s <= fed

IInv ==
    /\ TypeOK /\ TrackedWhole /\ NoSampleTwice
    /\ \A r \in Roles : PathInv(r)
    /\ SaveInv /\ VersionInv /\ FeedInv

-----------------------------------------------------------------------------
(* The initial states and the steps outside a save *)

LEMMA InitInv == Init => IInv
<1> SUFFICES ASSUME Init PROVE IInv
  OBVIOUS
<1>1. TypeOK
  BY InitTyped
<1>2. \A r \in Roles : PathInv(r)
  BY DEF Init, NothingSavedYet, PathInv
<1>. QED BY <1>1, <1>2
     DEF Init, NoCheckpoint, NothingSavedYet, IInv, TrackedWhole, NoSampleTwice, SaveInv,
         VersionInv, FeedInv

\* What is on disk is whole as long as it does not change.
LEMMA DiskKept ==
  ASSUME TrackedWhole, UNCHANGED <<weights, data, tracker>>
  PROVE  TrackedWhole'
BY DEF TrackedWhole, Loadable

LEMMA FeedInvariant ==
  ASSUME IInv, Feed
  PROVE  IInv'
<1>1. TypeOK'
  BY NextTyped DEF IInv, Next
<1>2. /\ fed \in Nat /\ trained \subseteq Nat /\ inflight \subseteq Nat
      /\ fed' = fed + 1 /\ inflight' = inflight \union {fed + 1}
      /\ UNCHANGED <<weights, data, tracker, truncated, previous_saved_paths, save_pc, save_role,
                     run_pc, closing, current_param_version, local_trigger_step, trained,
                     last_ckpt_version, restarts>>
  BY DEF Feed, diskVars, saveVars, trainerVars, IInv, TypeOK
<1>3. FeedInv' /\ NoSampleTwice'
  <2>1. ASSUME NEW s \in trained \union inflight PROVE s <= fed + 1 /\ s # fed + 1
    <3>1. s <= fed /\ s \in Nat
      BY <1>2 DEF IInv, FeedInv
    <3>. QED BY <1>2, <3>1
  <2>. QED BY <1>2, <2>1 DEF IInv, FeedInv, NoSampleTwice
<1>4. TrackedWhole' /\ SaveInv' /\ VersionInv'
  BY <1>2, DiskKept DEF IInv, SaveInv, VersionInv, Written, Registered
<1>5. \A r \in Roles : PathInv(r)'
  BY <1>2 DEF IInv, PathInv, Registered
<1>. QED BY <1>1, <1>3, <1>4, <1>5 DEF IInv

LEMMA TrainInvariant ==
  ASSUME IInv, NEW batch \in SUBSET inflight, Train(batch)
  PROVE  IInv'
<1>1. TypeOK'
  BY NextTyped DEF IInv, Next
<1>2. /\ run_pc = "train" /\ run_pc' \in {"train", "save"}
      /\ trained' = trained \union batch /\ inflight' = inflight \ batch
      /\ current_param_version' >= current_param_version
      /\ run_pc' = "save" => current_param_version' # last_ckpt_version
      /\ UNCHANGED <<weights, data, tracker, truncated, previous_saved_paths, save_pc, save_role,
                     last_ckpt_version, fed>>
  BY DEF Train, SaveDue, diskVars, saveVars, feedVars, IInv, TypeOK
<1>3. FeedInv' /\ NoSampleTwice'
  BY <1>2 DEF IInv, FeedInv, NoSampleTwice
<1>4. VersionInv' /\ (run_pc' = "save" => tracker' < current_param_version')
  BY <1>1, <1>2 DEF IInv, VersionInv, TypeOK, CheckpointTypeOK
<1>5. save_pc = "open" /\ save_role = "actor"
  BY <1>2 DEF IInv, SaveInv
<1>6. SaveInv' /\ TrackedWhole'
  BY <1>2, <1>4, <1>5, DiskKept DEF IInv, SaveInv, Written, Registered
<1>7. \A r \in Roles : PathInv(r)'
  BY <1>2, <1>5 DEF IInv, PathInv, Registered
<1>. QED BY <1>1, <1>3, <1>4, <1>6, <1>7 DEF IInv

LEMMA StopInvariant ==
  ASSUME IInv, Stop
  PROVE  IInv'
<1>1. TypeOK'
  BY NextTyped DEF IInv, Next
<1>2. /\ run_pc = "train" /\ run_pc' \in {"done", "save"}
      /\ run_pc' = "save" => current_param_version # last_ckpt_version
      /\ UNCHANGED <<weights, data, tracker, truncated, previous_saved_paths, save_pc, save_role,
                     current_param_version, last_ckpt_version, trained, inflight, fed>>
  BY DEF Stop, SaveDue, diskVars, saveVars, feedVars
<1>3. FeedInv' /\ NoSampleTwice'
  BY <1>2 DEF IInv, FeedInv, NoSampleTwice
<1>4. VersionInv' /\ (run_pc' = "save" => tracker' < current_param_version')
  BY <1>1, <1>2 DEF IInv, VersionInv, TypeOK, CheckpointTypeOK
<1>5. save_pc = "open" /\ save_role = "actor"
  BY <1>2 DEF IInv, SaveInv
<1>6. SaveInv' /\ TrackedWhole'
  BY <1>2, <1>4, <1>5, DiskKept DEF IInv, SaveInv, Written, Registered
<1>7. \A r \in Roles : PathInv(r)'
  BY <1>2, <1>5 DEF IInv, PathInv, Registered
<1>. QED BY <1>1, <1>3, <1>4, <1>6, <1>7 DEF IInv

LEMMA DownInvariant ==
  ASSUME IInv, Down
  PROVE  IInv'
<1>1. TypeOK'
  BY DownTyped DEF IInv
<1>2. /\ run_pc' = "down" /\ trained' = {} /\ inflight' = {} /\ save_pc' = "open" /\ save_role' = "actor"
      /\ \A r \in Roles : previous_saved_paths'[r] = <<>>
      /\ UNCHANGED <<weights, data, tracker>>
  BY DEF Down, Load, ForgetSaves, diskVars
<1>3. \A r \in Roles : PathInv(r)'
  BY <1>2 DEF PathInv
<1>. QED BY <1>1, <1>2, <1>3, DiskKept DEF IInv, SaveInv, VersionInv, FeedInv, NoSampleTwice

LEMMA RestartInvariant ==
  ASSUME IInv, Restart
  PROVE  IInv'
<1>1. TypeOK'
  BY RestartTyped DEF IInv
<1>2. /\ UNCHANGED <<weights, data, tracker, previous_saved_paths, save_pc, save_role>>
      /\ run_pc = "down" /\ run_pc' \in {"failed", "train"}
  BY DEF Restart, diskVars, saveVars
<1>3. TrackedWhole' /\ SaveInv'
  BY <1>2, DiskKept DEF IInv, SaveInv, Written, Registered
<1>4. \A r \in Roles : PathInv(r)'
  BY <1>2 DEF IInv, PathInv, Registered
<1>5. VersionInv' /\ FeedInv' /\ NoSampleTwice'
  <2>1. CASE run_pc' = "failed" /\ UNCHANGED memoryVars
    BY <2>1 DEF memoryVars, IInv, VersionInv, FeedInv, NoSampleTwice
  <2>2. CASE tracker = 0 /\ Load(0, {}, 0)
    BY <1>2, <2>2 DEF Load, VersionInv, FeedInv, NoSampleTwice
  <2>3. CASE tracker # 0 /\ Load(tracker, weights["actor"][tracker], SavedPosition(tracker))
    <3>1. \A s \in weights["actor"][tracker] : s <= data[tracker]
      BY <2>3 DEF IInv, TrackedWhole
    <3>2. SavedPosition(tracker) = data[tracker]
      BY <2>3 DEF IInv, TrackedWhole, SavedPosition
    <3>3. tracker \in Nat
      BY DEF IInv, TypeOK, CheckpointTypeOK
    <3>. QED BY <1>2, <2>3, <3>1, <3>2, <3>3 DEF Load, VersionInv, FeedInv, NoSampleTwice
  <2>. QED BY <2>1, <2>2, <2>3 DEF Restart, ResumedVersion
<1>. QED BY <1>1, <1>3, <1>4, <1>5 DEF IInv

-----------------------------------------------------------------------------
(* The steps of a save *)

\* In a save, all but the directories of the model being saved is left alone.
LEMMA SaveFrame ==
  ASSUME IInv, SaveStep
  PROVE  /\ TypeOK' /\ run_pc = "save" /\ run_pc' = "save"
         /\ UNCHANGED <<closing, current_param_version, local_trigger_step, last_ckpt_version,
                        trained, fed, global_steps, feed_done, inflight, restarts, tracker>>
         /\ VersionInv' /\ FeedInv' /\ NoSampleTwice'
         /\ tracker \in Nat /\ current_param_version \in Nat /\ tracker < current_param_version
         /\ save_role \in Roles /\ previous_saved_paths[save_role] \in Seq(Nat)
<1>1. /\ run_pc = "save" /\ run_pc' = "save"
      /\ UNCHANGED <<closing, current_param_version, local_trigger_step, last_ckpt_version,
                     trained, fed, global_steps, feed_done, inflight, restarts, tracker>>
  BY DEF SaveStep, memoryVars, OpenModel, WriteModel, RegisterModel, SaveData, TruncateTracker
<1>2. TypeOK'
  BY SaveStepTyped DEF IInv
<1>. QED BY <1>1, <1>2
     DEF IInv, SaveInv, VersionInv, FeedInv, NoSampleTwice, TypeOK, CheckpointTypeOK

\* What is on disk for the tracker's version stays as it is.
TrackedKept ==
    tracker # 0 => /\ weights'["actor"][tracker] = weights["actor"][tracker]
                   /\ data'[tracker] = data[tracker]

\* When directories of the model being saved go, and neither the tracker's nor
\* a finished one of the save under way is among them, the disk stays whole.
LEMMA RemoveKeepsWhole ==
  ASSUME IInv, NEW r \in Roles, NEW gone, tracker \notin gone,
         weights' = [weights EXCEPT ![r] = Without(weights[r], gone)],
         UNCHANGED <<data, tracker>>
  PROVE  /\ TrackedWhole' /\ TrackedKept
         /\ \A q \in Roles, v \in Nat : v \in DOMAIN weights[q] /\ v \notin gone =>
               v \in DOMAIN weights'[q] /\ weights'[q][v] = weights[q][v]
         /\ \A q \in Roles : q # r => weights'[q] = weights[q]
<1>1. /\ weights'[r] = Without(weights[r], gone)
      /\ \A q \in Roles : q # r => weights'[q] = weights[q]
  BY DEF IInv, TypeOK, CheckpointTypeOK
<1>2. ASSUME NEW q \in Roles, NEW v, v \in DOMAIN weights[q], v \notin gone
      PROVE  v \in DOMAIN weights'[q] /\ weights'[q][v] = weights[q][v]
  <2>1. CASE q = r
    BY <1>1, <1>2, <2>1 DEF Without, Restrict
  <2>2. CASE q # r
    BY <1>1, <1>2, <2>2
  <2>. QED BY <2>1, <2>2
<1>3. TrackedWhole'
  <2>1. SUFFICES ASSUME tracker # 0 PROVE TrackedWhole'
    BY DEF TrackedWhole
  <2>2. /\ \A q \in Roles : tracker \in DOMAIN weights[q]
        /\ \A q \in Roles : weights[q][tracker] = weights["actor"][tracker]
        /\ tracker \in DOMAIN data /\ \A s \in weights["actor"][tracker] : s <= data[tracker]
    BY <2>1 DEF IInv, TrackedWhole, Loadable
  <2>3. \A q \in Roles : tracker \in DOMAIN weights'[q] /\ weights'[q][tracker] = weights[q][tracker]
    BY <1>2, <2>2
  <2>. QED BY <2>2, <2>3, RoleFacts DEF TrackedWhole, Loadable
<1>4. TrackedKept
  <2>1. tracker # 0 => tracker \in DOMAIN weights["actor"]
    BY RoleFacts DEF IInv, TrackedWhole, Loadable
  <2>. QED BY <1>2, <2>1, RoleFacts DEF TrackedKept
<1>. QED BY <1>1, <1>2, <1>3, <1>4

LEMMA OpenInvariant ==
  ASSUME MaxCkptToKeep # 1, IInv, SaveStep, OpenModel(current_param_version)
  PROVE  IInv' /\ TrackedKept
<1> DEFINE paths == previous_saved_paths[save_role]
           kept  == Capacity(paths)
           gone  == Deleted(paths, kept) \union {current_param_version}
<1>1. /\ save_pc = "open" /\ save_pc' = "write" /\ UNCHANGED <<data, tracker, truncated, save_role>>
      /\ previous_saved_paths' = [previous_saved_paths EXCEPT ![save_role] = kept]
      /\ weights' = [weights EXCEPT ![save_role] = Without(weights[save_role], gone)]
  BY DEF OpenModel
<1>2. /\ kept \in Seq(Nat) /\ (kept # <<>> <=> paths # <<>>)
      /\ paths # <<>> => kept[Len(kept)] = paths[Len(paths)] /\ paths[Len(paths)] = tracker
  <2>1. ~Registered(save_role)
    BY <1>1 DEF Registered
  <2>2. paths # <<>> => paths[Len(paths)] = tracker
    BY <2>1, SaveFrame DEF IInv, PathInv
  <2>. QED BY <2>2, SaveFrame, CapacityFacts
<1>3. tracker \notin gone
  <2>1. paths # <<>> => tracker \in Range(kept)
    BY <1>2 DEF Range
  <2>2. paths = <<>> => Range(paths) = {}
    BY DEF Range
  <2>. QED BY <2>1, <2>2, SaveFrame DEF Deleted
<1>4. Registered("actor")' <=> Registered("actor")
  BY <1>1 DEF Registered
<1>5. TrackedWhole' /\ TrackedKept
  BY <1>1, <1>3, SaveFrame, RemoveKeepsWhole
<1>6. \A q \in Roles : q # save_role => weights'[q] = weights[q]
  BY <1>1, <1>3, SaveFrame, RemoveKeepsWhole
<1>7. SaveInv'
  <2>1. \A q \in Roles : Written(q)' => Written(q) /\ q # save_role
    BY <1>1, RoleFacts, SaveFrame DEF Written, Registered
  <2>. QED BY <1>1, <1>6, <2>1, SaveFrame DEF IInv, SaveInv
<1>8. ASSUME NEW r \in Roles PROVE PathInv(r)'
  <2>1. Registered(r)' <=> Registered(r)
    BY <1>1 DEF Registered
  <2>2. CASE r = save_role
    <3>1. previous_saved_paths'[r] = kept
      BY <1>1, <2>2, SaveFrame DEF IInv, TypeOK, CheckpointTypeOK
    <3>2. ~Registered(r)
      BY <1>1, <2>2 DEF Registered
    <3>. QED BY <1>2, <2>1, <3>1, <3>2, SaveFrame DEF PathInv
  <2>3. CASE r # save_role
    <3>1. previous_saved_paths'[r] = previous_saved_paths[r]
      BY <1>1, <2>3 DEF IInv, TypeOK, CheckpointTypeOK
    <3>. QED BY <2>1, <3>1, SaveFrame DEF IInv, PathInv
  <2>. QED BY <2>2, <2>3
<1>. QED BY <1>5, <1>7, <1>8, SaveFrame DEF IInv

LEMMA WriteInvariant ==
  ASSUME IInv, SaveStep, WriteModel(current_param_version, trained)
  PROVE  IInv' /\ TrackedKept
<1> DEFINE f == With(weights[save_role], current_param_version, trained)
<1>1. /\ save_pc = "write" /\ save_pc' = "register"
      /\ UNCHANGED <<data, tracker, truncated, save_role, previous_saved_paths>>
      /\ weights' = [weights EXCEPT ![save_role] = f]
  BY DEF WriteModel
<1>2. /\ weights'[save_role] = f
      /\ \A q \in Roles : q # save_role => weights'[q] = weights[q]
  BY <1>1, SaveFrame DEF IInv, TypeOK, CheckpointTypeOK
<1>3. /\ current_param_version \in DOMAIN f /\ f[current_param_version] = trained
      /\ \A v \in DOMAIN weights[save_role] : v # current_param_version =>
            v \in DOMAIN f /\ f[v] = weights[save_role][v]
  BY DEF With
<1> HIDE DEF f
<1>4. TrackedWhole'
  <2>1. SUFFICES ASSUME tracker # 0 PROVE TrackedWhole'
    BY <1>1 DEF TrackedWhole
  <2>2. /\ \A q \in Roles : tracker \in DOMAIN weights[q]
        /\ \A q \in Roles : weights[q][tracker] = weights["actor"][tracker]
        /\ tracker \in DOMAIN data /\ \A s \in weights["actor"][tracker] : s <= data[tracker]
    BY <2>1 DEF IInv, TrackedWhole, Loadable
  <2>3. tracker # current_param_version
    BY SaveFrame
  <2>4. \A q \in Roles : tracker \in DOMAIN weights'[q] /\ weights'[q][tracker] = weights[q][tracker]
    BY <1>2, <1>3, <2>2, <2>3
  <2>. QED BY <1>1, <2>2, <2>4, RoleFacts DEF TrackedWhole, Loadable
<1>5. TrackedKept
  <2>1. tracker # 0 => tracker \in DOMAIN weights["actor"]
    BY RoleFacts DEF IInv, TrackedWhole, Loadable
  <2>. QED BY <1>1, <1>2, <1>3, <2>1, RoleFacts, SaveFrame DEF TrackedKept
<1>6. SaveInv'
  <2>1. \A q \in Roles : Written(q)' => Written(q) \/ q = save_role
    BY <1>1 DEF Written, Registered
  <2>2. ASSUME NEW q \in Roles, Written(q)'
        PROVE  current_param_version \in DOMAIN weights'[q] /\ weights'[q][current_param_version] = trained
    <3>1. CASE q = save_role
      BY <1>2, <1>3, <3>1
    <3>2. CASE q # save_role
      <4>1. Written(q) /\ weights'[q] = weights[q]
        BY <1>2, <2>1, <2>2, <3>2
      <4>. QED BY <4>1, SaveFrame DEF IInv, SaveInv
    <3>. QED BY <3>1, <3>2
  <2>. QED BY <1>1, <2>2, SaveFrame DEF IInv, SaveInv
<1>7. \A r \in Roles : PathInv(r)'
  BY <1>1, SaveFrame DEF IInv, PathInv, Registered
<1>. QED BY <1>4, <1>5, <1>6, <1>7, SaveFrame DEF IInv

LEMMA RegisterInvariant ==
  ASSUME MaxCkptToKeep # 1, IInv, SaveStep, RegisterModel(current_param_version)
  PROVE  IInv' /\ TrackedKept
<1> DEFINE paths == previous_saved_paths[save_role]
           all   == Append(paths, current_param_version)
           kept  == Retained(all)
           gone  == Deleted(all, kept)
<1>1. /\ save_pc = "register" /\ UNCHANGED <<data, tracker, truncated>>
      /\ previous_saved_paths' = [previous_saved_paths EXCEPT ![save_role] = kept]
      /\ weights' = [weights EXCEPT ![save_role] = Without(weights[save_role], gone)]
      /\ IF save_role = "actor" /\ UseCritic
         THEN save_role' = "critic" /\ save_pc' = "open"
         ELSE save_role' = "actor" /\ save_pc' = "data"
  BY DEF RegisterModel
<1>2. ~Registered(save_role) /\ (paths # <<>> => paths[Len(paths)] = tracker)
  BY <1>1, SaveFrame DEF IInv, PathInv, Registered
<1>3. /\ kept \in Seq(Nat) /\ Len(kept) >= 1 /\ kept[Len(kept)] = current_param_version
      /\ paths # <<>> => Len(kept) >= 2 /\ kept[Len(kept) - 1] = tracker
      /\ Len(kept) >= 2 => kept[Len(kept) - 1] = tracker
  BY <1>2, SaveFrame, RetainedFacts
<1>4. tracker \notin gone /\ current_param_version \notin gone
  <2>1. current_param_version \in Range(kept)
    BY <1>3 DEF Range
  <2>2. paths # <<>> => tracker \in Range(kept)
    BY <1>3 DEF Range
  <2>3. paths = <<>> => Range(all) = {current_param_version}
    BY DEF Range
  <2>. QED BY <2>1, <2>2, <2>3, SaveFrame DEF Deleted
<1>5. /\ TrackedWhole' /\ TrackedKept
      /\ \A q \in Roles, v \in Nat : v \in DOMAIN weights[q] /\ v \notin gone =>
            v \in DOMAIN weights'[q] /\ weights'[q][v] = weights[q][v]
  BY <1>1, <1>4, SaveFrame, RemoveKeepsWhole
<1>6. ASSUME NEW q \in Roles, Written(q)' PROVE Written(q)
  <2>1. CASE save_role = "actor" /\ UseCritic
    BY <1>1, <1>6, <2>1 DEF Written, Registered
  <2>2. CASE save_role = "actor" /\ ~UseCritic
    BY <1>1, <2>2, RoleFacts DEF Written
  <2>3. CASE save_role # "actor"
    BY <1>1, <2>3, RoleFacts, SaveFrame DEF Written, Registered
  <2>. QED BY <2>1, <2>2, <2>3
<1>7. SaveInv'
  <2>1. ASSUME NEW q \in Roles, Written(q)'
        PROVE  current_param_version \in DOMAIN weights'[q] /\ weights'[q][current_param_version] = trained
    <3>1. current_param_version \in DOMAIN weights[q] /\ weights[q][current_param_version] = trained
      BY <1>6, <2>1, SaveFrame DEF IInv, SaveInv
    <3>. QED BY <1>4, <1>5, <3>1, SaveFrame
  <2>. QED BY <1>1, <2>1, SaveFrame DEF IInv, SaveInv
<1>8. ASSUME NEW r \in Roles PROVE PathInv(r)'
  <2>1. Registered(r)' <=> Registered(r) \/ r = save_role
    BY <1>1, RoleFacts, SaveFrame DEF Registered
  <2>2. CASE r = save_role
    <3>1. previous_saved_paths'[r] = kept
      BY <1>1, <2>2, SaveFrame DEF IInv, TypeOK, CheckpointTypeOK
    <3>. QED BY <1>3, <2>1, <2>2, <3>1, SaveFrame DEF PathInv
  <2>3. CASE r # save_role
    <3>1. previous_saved_paths'[r] = previous_saved_paths[r]
      BY <1>1, <2>3 DEF IInv, TypeOK, CheckpointTypeOK
    <3>. QED BY <2>1, <2>3, <3>1, SaveFrame DEF IInv, PathInv
  <2>. QED BY <2>2, <2>3
<1>. QED BY <1>5, <1>7, <1>8, SaveFrame DEF IInv

LEMMA DataInvariant ==
  ASSUME IInv, SaveStep, SaveData(current_param_version, fed)
  PROVE  IInv' /\ TrackedKept
<1>1. /\ save_pc = "data" /\ save_pc' = "truncate" /\ data' = With(data, current_param_version, fed)
      /\ UNCHANGED <<weights, tracker, truncated, previous_saved_paths, save_role>>
  BY DEF SaveData
<1>2. /\ current_param_version \in DOMAIN data' /\ data'[current_param_version] = fed
      /\ tracker \in DOMAIN data => tracker \in DOMAIN data' /\ data'[tracker] = data[tracker]
  <2>1. tracker # current_param_version
    BY SaveFrame
  <2>. QED BY <1>1, <2>1 DEF With
<1>3. TrackedWhole'
  BY <1>1, <1>2 DEF IInv, TrackedWhole, Loadable
<1>4. SaveInv'
  BY <1>1, <1>2, SaveFrame DEF IInv, SaveInv, FeedInv, Written, Registered
<1>5. \A r \in Roles : PathInv(r)'
  BY <1>1, SaveFrame DEF IInv, PathInv, Registered
<1>6. TrackedKept
  BY <1>1, <1>2 DEF IInv, TrackedWhole, TrackedKept
<1>. QED BY <1>3, <1>4, <1>5, <1>6, SaveFrame DEF IInv

LEMMA TruncateInvariant ==
  ASSUME IInv, SaveStep, TruncateTracker
  PROVE  IInv' /\ TrackedKept
<1>1. /\ save_pc = "truncate" /\ save_pc' = "name"
      /\ UNCHANGED <<weights, data, tracker, previous_saved_paths, save_role>>
  BY DEF TruncateTracker
<1>2. TrackedWhole'
  BY <1>1, DiskKept DEF IInv
<1>3. SaveInv'
  BY <1>1, SaveFrame DEF IInv, SaveInv, Written, Registered
<1>4. \A r \in Roles : PathInv(r)'
  BY <1>1, SaveFrame DEF IInv, PathInv, Registered
<1>. QED BY <1>1, <1>2, <1>3, <1>4, SaveFrame DEF IInv, TrackedKept

LEMMA SavedInvariant ==
  ASSUME IInv, Saved
  PROVE  IInv'
<1>1. TypeOK'
  BY NextTyped DEF IInv, Next
<1>2. /\ run_pc = "save" /\ run_pc' \in {"train", "done"} /\ save_pc = "name" /\ save_pc' = "open"
      /\ tracker' = current_param_version /\ last_ckpt_version' = current_param_version
      /\ UNCHANGED <<weights, data, previous_saved_paths, save_role, current_param_version, trained,
                     inflight, fed>>
  BY DEF Saved, NameTracker, trainerVars, feedVars
<1>3. /\ \A r \in Roles : Registered(r) /\ Written(r)
      /\ save_role = "actor" /\ current_param_version \in Nat
  BY <1>2, RoleFacts DEF Registered, Written, IInv, SaveInv, TypeOK, CheckpointTypeOK
<1>4. TrackedWhole'
  BY <1>2, <1>3, RoleFacts DEF IInv, SaveInv, TrackedWhole, Loadable
<1>5. SaveInv' /\ VersionInv' /\ FeedInv' /\ NoSampleTwice'
  BY <1>2, <1>3 DEF IInv, SaveInv, VersionInv, FeedInv, NoSampleTwice
<1>6. \A r \in Roles : PathInv(r)'
  BY <1>2, <1>3 DEF IInv, PathInv
<1>. QED BY <1>1, <1>4, <1>5, <1>6 DEF IInv

-----------------------------------------------------------------------------
(* The theorems *)

\* Every step keeps the invariant, unless a single checkpoint is kept.
LEMMA NextInv == MaxCkptToKeep # 1 /\ IInv /\ [Next]_vars => IInv'
<1> SUFFICES ASSUME MaxCkptToKeep # 1, IInv, [Next]_vars PROVE IInv'
  OBVIOUS
<1>1. CASE UNCHANGED vars
  <2>1. TypeOK'
    BY <1>1, NextTyped DEF IInv
  <2>. QED BY <1>1, <2>1, DiskKept
       DEF vars, diskVars, saveVars, memoryVars, IInv, NoSampleTwice, SaveInv, VersionInv, FeedInv,
           PathInv, Written, Registered
<1>2. CASE SaveStep
  BY <1>2, OpenInvariant, WriteInvariant, RegisterInvariant, DataInvariant, TruncateInvariant
  DEF SaveStep
<1>. QED BY <1>1, <1>2, FeedInvariant, TrainInvariant, StopInvariant, SavedInvariant,
            DownInvariant, RestartInvariant DEF Next, Crash, Rerun

THEOREM Invariant ==
  ASSUME MaxCkptToKeep # 1
  PROVE  Spec => []IInv
<1>1. Init => IInv
  BY InitInv
<1>2. IInv /\ [Next]_vars => IInv'
  BY NextInv
<1>. QED BY <1>1, <1>2, PTL DEF Spec

\* Whatever is kept, the state is well typed: crashes included, the trainer never
\* counts more local steps than trigger_parameter_sync_step.
THEOREM TypesPreserved == Spec => []TypeOK
BY InitTyped, NextTyped, PTL DEF Spec

\* _save_checkpoint, register_checkpoint and ensure_checkpoint_capacity: unless a
\* single checkpoint is kept, the one the tracker names is always there, all of
\* it and of one save, at whatever step any number of crashes come.
THEOREM TrackedSafe ==
  ASSUME MaxCkptToKeep # 1
  PROVE  Spec => []TrackedWhole
BY Invariant, PTL DEF IInv

\* load_checkpoint of the rollouter: the position resumed from is behind
\* everything the resumed weights were trained on.
THEOREM NeverTwice ==
  ASSUME MaxCkptToKeep # 1
  PROVE  Spec => []NoSampleTwice
BY Invariant, PTL DEF IInv

\* _save_checkpoint only ever moves the tracker to a later version.
THEOREM TrackerMovesForward ==
  ASSUME MaxCkptToKeep # 1
  PROVE  Spec => TrackerForward
<1>1. IInv /\ [Next]_vars => [tracker' >= tracker]_vars
  <2> SUFFICES ASSUME IInv, [Next]_vars PROVE tracker' >= tracker
    OBVIOUS
  <2>1. tracker \in Nat
    BY DEF IInv, TypeOK, CheckpointTypeOK
  <2>2. CASE Saved
    BY <2>1, <2>2 DEF Saved, NameTracker, IInv, SaveInv, TypeOK
  <2>3. CASE SaveStep
    BY <2>1, <2>3, SaveFrame
  <2>4. CASE ~Saved /\ ~SaveStep
    <3>1. UNCHANGED diskVars
      BY <2>4 DEF Next, vars, Feed, Train, Stop, Crash, Rerun, Down, Restart
    <3>. QED BY <2>1, <3>1 DEF diskVars
  <2>. QED BY <2>2, <2>3, <2>4
<1>. QED BY <1>1, Invariant, PTL DEF Spec, TrackerForward

-----------------------------------------------------------------------------
(* What is lost and what is trained on too much *)

Surplus == (TriggerSteps - 1) * RequiredSamples

\* The samples the feed of this run is still to read
Remaining ==
    IF feed_done THEN 0
    ELSE IF global_steps <= TotalRolloutSteps THEN TotalRolloutSteps - global_steps + 1 ELSE 1

Holes(position, history) == (1 .. position) \ history

\* What a checkpoint may stand for when it is taken in the r-th restart: its
\* samples, within the budget and beyond those of its version, and the samples
\* its position is behind and that nobody has trained on.
Accounted(content, version, position, r) ==
    /\ IsFiniteSet(content)
    /\ Cardinality(content) <= TotalRolloutSteps + r * (Surplus + 1)
    /\ Cardinality(content) <= version * VersionSamples + Surplus + r * Surplus
    /\ Cardinality(Holes(position, content)) <= r * MaxInFlight + MaxInFlight

\* The same for the memory of a run, with what it is still to read.
MemoryInv ==
    /\ IsFiniteSet(trained) /\ IsFiniteSet(inflight)
    /\ Cardinality(trained) + Cardinality(inflight) + Remaining
          <= TotalRolloutSteps + restarts * (Surplus + 1)
    /\ Cardinality(trained)
          <= current_param_version * VersionSamples
             + (local_trigger_step - 1) * RequiredSamples + restarts * Surplus
    /\ Cardinality(inflight) <= MaxInFlight
    /\ LossBounded

\* The checkpoint of the tracker was taken before the last crash.
DiskInv ==
    tracker # 0 =>
        \E r \in Nat :
            /\ IF run_pc = "down" THEN r + 1 <= restarts ELSE r <= restarts
            /\ Accounted(weights["actor"][tracker], tracker, data[tracker], r)

\* The data.pt of the save under way
SavedDataInv ==
    run_pc = "save" /\ save_pc \in {"truncate", "name"} =>
        Cardinality(Holes(data[current_param_version], trained)) <= restarts * MaxInFlight + MaxInFlight

CountInv == MemoryInv /\ DiskInv /\ SavedDataInv

LEMMA Products ==
  /\ \A a, b \in Nat : a * b \in Nat /\ (a + 1) * b = a * b + b
  /\ \A a, b, c \in Nat : a <= b => a * c <= b * c
  /\ \A a, b \in Nat : a * (b + 1) = a * b + a
<1>1. \A a, b \in Nat : a * b \in Nat /\ (a + 1) * b = a * b + b
  OBVIOUS
<1>2. ASSUME NEW a \in Nat, NEW b \in Nat, NEW c \in Nat, a <= b PROVE a * c <= b * c
  <2>1. PICK d \in Nat : b = a + d
    <3>1. b - a \in Nat /\ b = a + (b - a)
      BY <1>2
    <3>. QED BY <3>1
  <2>2. b * c = a * c + d * c /\ d * c \in Nat /\ a * c \in Nat
    BY <2>1
  <2>. QED BY <2>2
<1>3. \A a, b \in Nat : a * (b + 1) = a * b + a
  OBVIOUS
<1>. QED BY <1>1, <1>2, <1>3

LEMMA SurplusFacts ==
  /\ Surplus \in Nat /\ VersionSamples = Surplus + RequiredSamples
  /\ \A k \in 1 .. TriggerSteps :
        (k - 1) * RequiredSamples \in Nat /\ (k - 1) * RequiredSamples <= Surplus
<1>1. TriggerSteps - 1 \in Nat /\ TriggerSteps = (TriggerSteps - 1) + 1
  BY ConstantFacts
<1>2. Surplus \in Nat
  BY <1>1, ConstantFacts, Products DEF Surplus
<1>3. TriggerSteps * RequiredSamples = Surplus + RequiredSamples
  BY <1>1, ConstantFacts, Products DEF Surplus
<1>4. VersionSamples = TriggerSteps * RequiredSamples
  BY ConstantFacts DEF VersionSamples
<1>5. ASSUME NEW k \in 1 .. TriggerSteps
      PROVE  (k - 1) * RequiredSamples \in Nat /\ (k - 1) * RequiredSamples <= Surplus
  <2>1. k - 1 \in Nat /\ k - 1 <= TriggerSteps - 1
    BY ConstantFacts
  <2>. QED BY <2>1, <1>1, ConstantFacts, Products DEF Surplus
<1>. QED BY <1>2, <1>3, <1>4, <1>5

LEMMA RestartFacts ==
  ASSUME TypeOK
  PROVE  /\ restarts \in Nat /\ MaxInFlight \in Nat /\ restarts * MaxInFlight \in Nat
         /\ restarts * Surplus \in Nat /\ restarts * (Surplus + 1) \in Nat
         /\ (restarts + 1) * MaxInFlight = restarts * MaxInFlight + MaxInFlight
         /\ (restarts + 1) * Surplus = restarts * Surplus + Surplus
         /\ (restarts + 1) * (Surplus + 1) = restarts * (Surplus + 1) + Surplus + 1
<1>1. restarts \in Nat /\ MaxInFlight \in Nat /\ Surplus \in Nat /\ Surplus + 1 \in Nat
  BY SurplusFacts, ResumeAssumption DEF TypeOK
<1>. QED BY <1>1, Products

\* The memory of a run without history
LEMMA EmptyCount ==
  ASSUME NEW r \in Nat
  PROVE  /\ IsFiniteSet({}) /\ Cardinality({}) = 0
         /\ Cardinality({}) + Cardinality({}) + TotalRolloutSteps
               <= TotalRolloutSteps + r * (Surplus + 1)
         /\ Cardinality({}) <= 0 * VersionSamples + (1 - 1) * RequiredSamples + r * Surplus
         /\ Cardinality({}) <= MaxInFlight
         /\ (1 .. 0) \ ({} \union {}) = {} /\ Cardinality({}) <= r * MaxInFlight
         /\ 0 * VersionSamples + 1 = 1 /\ TotalRolloutSteps - 1 + 1 = TotalRolloutSteps
         /\ 1 <= TotalRolloutSteps
<1>1. IsFiniteSet({}) /\ Cardinality({}) = 0
  BY FS_EmptySet
<1>2. /\ r * (Surplus + 1) \in Nat /\ r * Surplus \in Nat /\ r * MaxInFlight \in Nat
      /\ MaxInFlight \in Nat /\ Surplus \in Nat
  <2>1. Surplus \in Nat /\ Surplus + 1 \in Nat /\ MaxInFlight \in Nat
    BY SurplusFacts, ResumeAssumption
  <2>. QED BY <2>1, Products
<1>3. TotalRolloutSteps \in Nat /\ TotalRolloutSteps >= 1 /\ VersionSamples \in Nat /\ RequiredSamples \in Nat
  <2>1. TotalRolloutSteps \in Nat \ {0}
    BY ResumeAssumption
  <2>. QED BY <2>1, ConstantFacts
<1>4. 0 * VersionSamples = 0 /\ (1 - 1) * RequiredSamples = 0
  BY <1>3
<1>5. 0 <= MaxInFlight /\ 0 <= r * Surplus /\ 0 <= r * (Surplus + 1) /\ 0 <= r * MaxInFlight
  BY <1>2
<1>6. (1 .. 0) \ ({} \union {}) = {}
  OBVIOUS
<1>. QED BY <1>1, <1>2, <1>3, <1>4, <1>5, <1>6

LEMMA InitCount == Init => CountInv
<1> SUFFICES ASSUME Init PROVE CountInv
  OBVIOUS
<1>1. /\ trained = {} /\ inflight = {} /\ fed = 0 /\ global_steps = 1 /\ feed_done = FALSE
      /\ current_param_version = 0 /\ local_trigger_step = 1 /\ restarts = 0
      /\ tracker = 0 /\ run_pc = "train"
  BY DEF Init, NoCheckpoint
<1>2. Remaining = TotalRolloutSteps
  BY <1>1, EmptyCount DEF Remaining
<1>3. MemoryInv
  BY <1>1, <1>2, EmptyCount, SMTT(30) DEF MemoryInv, LossBounded
<1>. QED BY <1>1, <1>3 DEF CountInv, DiskInv, SavedDataInv

\* What is on disk for the tracker's version is only ever replaced as a whole.
LEMMA DiskInvKept ==
  ASSUME DiskInv, UNCHANGED <<tracker, restarts>>, run_pc # "down", run_pc' # "down",
         tracker # 0 => /\ weights'["actor"][tracker] = weights["actor"][tracker]
                        /\ data'[tracker] = data[tracker]
  PROVE  DiskInv'
BY DEF DiskInv

LEMMA FeedCount ==
  ASSUME IInv, CountInv, Feed
  PROVE  CountInv'
<1>1. /\ fed \in Nat /\ trained \subseteq Nat /\ inflight \subseteq Nat /\ run_pc # "down"
      /\ run_pc \in {"train", "save"} /\ run_pc' = run_pc
      /\ fed' = fed + 1 /\ inflight' = inflight \union {fed + 1} /\ trained' = trained
      /\ feed_done = FALSE /\ Cardinality(inflight) < MaxInFlight /\ global_steps \in Nat
      /\ UNCHANGED <<weights, data, tracker, save_pc, current_param_version, local_trigger_step, restarts>>
  BY DEF Feed, Running, diskVars, saveVars, trainerVars, IInv, TypeOK
<1>2. fed + 1 \notin trained \union inflight
  <2>1. fed + 1 \in trained \union inflight => fed + 1 <= fed
    BY DEF IInv, FeedInv
  <2>. QED BY <1>1, <2>1
<1>3. /\ IsFiniteSet(inflight) /\ IsFiniteSet(trained)
      /\ Cardinality(inflight) \in Nat /\ Cardinality(trained) \in Nat
  BY FS_CardinalityType DEF CountInv, MemoryInv
<1>4. IsFiniteSet(inflight') /\ Cardinality(inflight') = Cardinality(inflight) + 1
  BY <1>1, <1>2, <1>3, FS_AddElement
<1>5. Remaining' + 1 <= Remaining /\ Remaining \in Nat /\ Remaining' \in Nat
  <2>1. CASE global_steps >= TotalRolloutSteps
    <3>1. feed_done' = TRUE
      BY <2>1 DEF Feed
    <3>. QED BY <1>1, <2>1, <3>1, ConstantFacts DEF Remaining
  <2>2. CASE ~(global_steps >= TotalRolloutSteps)
    <3>1. feed_done' = FALSE /\ global_steps' = global_steps + 1
      BY <1>1, <2>2 DEF Feed
    <3>2. global_steps <= TotalRolloutSteps /\ global_steps + 1 <= TotalRolloutSteps
      BY <1>1, <2>2, ConstantFacts
    <3>. QED BY <1>1, <3>1, <3>2, ConstantFacts DEF Remaining
  <2>. QED BY <2>1, <2>2
<1>6. LossBounded'
  <2>1. (1 .. fed + 1) \ (trained \union (inflight \union {fed + 1})) = (1 .. fed) \ (trained \union inflight)
    BY <1>1
  <2>. QED BY <1>1, <2>1 DEF CountInv, MemoryInv, LossBounded
<1>7. Cardinality(inflight') <= MaxInFlight
  BY <1>1, <1>3, <1>4, ResumeAssumption
<1>8. Cardinality(trained') + Cardinality(inflight') + Remaining' <= TotalRolloutSteps + restarts' * (Surplus + 1)
  <2>1. Cardinality(trained) + Cardinality(inflight) + Remaining <= TotalRolloutSteps + restarts * (Surplus + 1)
    BY DEF CountInv, MemoryInv
  <2>2. restarts * (Surplus + 1) \in Nat
    BY RestartFacts DEF IInv
  <2>6. Cardinality(trained') = Cardinality(trained)
    BY <1>1
  <2>3. Cardinality(trained') + Cardinality(inflight') + Remaining'
           <= Cardinality(trained) + Cardinality(inflight) + Remaining
    <3>1. \A a, b, c, d \in Nat : d + 1 <= c => a + (b + 1) + d <= a + b + c
      OBVIOUS
    <3>2. Cardinality(trained) + (Cardinality(inflight) + 1) + Remaining'
             <= Cardinality(trained) + Cardinality(inflight) + Remaining
      BY <1>3, <1>5, <3>1
    <3>. QED BY <1>4, <2>6, <3>2
  <2> DEFINE bound == TotalRolloutSteps + restarts * (Surplus + 1)
  <2>4. bound \in Nat
    BY <2>2, ConstantFacts
  <2>5. restarts' * (Surplus + 1) = restarts * (Surplus + 1)
    BY <1>1
  <2> HIDE DEF bound
  <2>7. Cardinality(trained') + Cardinality(inflight') + Remaining' <= bound
    BY <1>3, <1>4, <1>5, <2>1, <2>3, <2>4, <2>6 DEF bound
  <2>. QED BY <2>5, <2>7 DEF bound
<1>9. MemoryInv'
  BY <1>1, <1>3, <1>4, <1>6, <1>7, <1>8 DEF CountInv, MemoryInv
<1>. QED BY <1>1, <1>9, DiskInvKept DEF CountInv, SavedDataInv

\* A training step moves a batch from what is in flight to what was trained on.
LEMMA BatchCount ==
  ASSUME IInv, CountInv, NEW batch \in SUBSET inflight, Train(batch)
  PROVE  /\ IsFiniteSet(trained') /\ IsFiniteSet(inflight')
         /\ Cardinality(trained) \in Nat /\ Cardinality(trained') = Cardinality(trained) + RequiredSamples
         /\ Cardinality(inflight) \in Nat /\ Cardinality(inflight') \in Nat
         /\ Cardinality(inflight) = Cardinality(inflight') + RequiredSamples
         /\ trained' \union inflight' = trained \union inflight
<1>1. /\ trained' = trained \union batch /\ inflight' = inflight \ batch
      /\ Cardinality(batch) = RequiredSamples
  BY DEF Train
<1>2. IsFiniteSet(inflight) /\ IsFiniteSet(trained)
  BY DEF CountInv, MemoryInv
<1>3. IsFiniteSet(batch) /\ IsFiniteSet(inflight') /\ IsFiniteSet(trained')
  BY <1>1, <1>2, FS_Subset, FS_Union, FS_Difference
<1>4. trained \intersect batch = {} /\ inflight \intersect batch = batch
  BY DEF IInv, NoSampleTwice
<1>5. Cardinality(trained \union batch)
         = Cardinality(trained) + Cardinality(batch) - Cardinality(trained \intersect batch)
  BY <1>2, <1>3, FS_Union
<1>6. Cardinality(inflight \ batch) = Cardinality(inflight) - Cardinality(inflight \intersect batch)
  BY <1>2, FS_Difference
<1>7. Cardinality({}) = 0 /\ \A S : IsFiniteSet(S) => Cardinality(S) \in Nat
  BY FS_EmptySet, FS_CardinalityType
<1>8. Cardinality(trained') = Cardinality(trained) + RequiredSamples
  <2>1. Cardinality(trained) \in Nat /\ Cardinality(trained \intersect batch) = 0
    BY <1>2, <1>4, <1>7
  <2>2. Cardinality(trained \union batch) = Cardinality(trained) + RequiredSamples - 0
    BY <1>1, <1>5, <2>1
  <2>. QED BY <1>1, <2>1, <2>2, ConstantFacts
<1>9. Cardinality(inflight') = Cardinality(inflight) - RequiredSamples
  BY <1>1, <1>4, <1>6
<1>10. Cardinality(trained) \in Nat /\ Cardinality(inflight) \in Nat /\ Cardinality(inflight') \in Nat
  BY <1>2, <1>3, <1>7
<1>11. Cardinality(inflight) = Cardinality(inflight') + RequiredSamples
  BY <1>9, <1>10, ConstantFacts
<1>12. trained' \union inflight' = trained \union inflight
  BY <1>1
<1>. QED BY <1>3, <1>8, <1>10, <1>11, <1>12

LEMMA TrainCount ==
  ASSUME IInv, CountInv, NEW batch \in SUBSET inflight, Train(batch)
  PROVE  CountInv'
<1>1. /\ run_pc = "train" /\ run_pc' # "down" /\ save_pc' = "open"
      /\ UNCHANGED <<weights, data, tracker, fed, global_steps, feed_done, restarts>>
      /\ current_param_version \in Nat /\ local_trigger_step \in 1 .. TriggerSteps
  BY DEF Train, diskVars, saveVars, feedVars, IInv, SaveInv, TypeOK
<1>2. LossBounded'
  BY <1>1, BatchCount DEF CountInv, MemoryInv, LossBounded
<1>3. Cardinality(inflight') <= MaxInFlight
  BY BatchCount, ConstantFacts, ResumeAssumption DEF CountInv, MemoryInv
<1>4. Cardinality(trained') + Cardinality(inflight') + Remaining'
         <= TotalRolloutSteps + restarts' * (Surplus + 1)
  <2>1. Cardinality(trained') + Cardinality(inflight') = Cardinality(trained) + Cardinality(inflight)
    BY BatchCount, ConstantFacts
  <2>2. Remaining' = Remaining
    BY <1>1 DEF Remaining
  <2>3. restarts' * (Surplus + 1) = restarts * (Surplus + 1)
    BY <1>1
  <2>. QED BY <2>1, <2>2, <2>3 DEF CountInv, MemoryInv
<1>5. Cardinality(trained')
         <= current_param_version' * VersionSamples
            + (local_trigger_step' - 1) * RequiredSamples + restarts' * Surplus
  <2> DEFINE before == current_param_version * VersionSamples
             here   == (local_trigger_step - 1) * RequiredSamples
             slack  == restarts * Surplus
  <2>1. before \in Nat /\ here \in Nat /\ slack \in Nat /\ restarts' * Surplus = slack
    BY <1>1, ConstantFacts, Products, SurplusFacts, RestartFacts DEF IInv
  <2>2. Cardinality(trained) <= before + here + slack
    BY DEF CountInv, MemoryInv
  <2>3. current_param_version' * VersionSamples + (local_trigger_step' - 1) * RequiredSamples
           = before + here + RequiredSamples
    <3>1. CASE LastLocalStep
      <4>1. local_trigger_step' = 1 /\ current_param_version' = current_param_version + 1
        BY <3>1 DEF Train
      <4>2. local_trigger_step = TriggerSteps
        BY <1>1, <3>1, ConstantFacts DEF LastLocalStep
      <4>3. here + RequiredSamples = VersionSamples
        BY <4>2, SurplusFacts DEF Surplus
      <4>4. (current_param_version + 1) * VersionSamples = before + VersionSamples
        BY <1>1, ConstantFacts, Products
      <4>5. (1 - 1) * RequiredSamples = 0
        BY ConstantFacts
      <4>6. current_param_version' * VersionSamples = before + VersionSamples
        BY <4>1, <4>4
      <4>7. (local_trigger_step' - 1) * RequiredSamples = 0
        BY <4>1, <4>5
      <4> HIDE DEF before, here
      <4>. QED BY <2>1, <4>3, <4>6, <4>7, ConstantFacts
    <3>2. CASE ~LastLocalStep
      <4>1. local_trigger_step' = local_trigger_step + 1 /\ current_param_version' = current_param_version
        BY <3>2 DEF Train
      <4>2. local_trigger_step - 1 \in Nat /\ local_trigger_step' - 1 = (local_trigger_step - 1) + 1
        BY <1>1, <4>1
      <4>3. ((local_trigger_step - 1) + 1) * RequiredSamples = here + RequiredSamples
        BY <4>2, ConstantFacts, Products
      <4>4. (local_trigger_step' - 1) * RequiredSamples = here + RequiredSamples
        BY <4>2, <4>3
      <4>5. current_param_version' * VersionSamples = before
        BY <4>1
      <4> HIDE DEF before, here
      <4>. QED BY <2>1, <4>4, <4>5, ConstantFacts
    <3>. QED BY <3>1, <3>2
  <2>4. Cardinality(trained') = Cardinality(trained) + RequiredSamples /\ Cardinality(trained) \in Nat
    BY BatchCount
  <2> HIDE DEF before, here, slack
  <2>. QED BY <2>1, <2>2, <2>3, <2>4, ConstantFacts
<1>6. MemoryInv'
  BY <1>2, <1>3, <1>4, <1>5, BatchCount DEF MemoryInv
<1>. QED BY <1>1, <1>6, DiskInvKept DEF CountInv, SavedDataInv

LEMMA StopCount ==
  ASSUME IInv, CountInv, Stop
  PROVE  CountInv'
<1>1. /\ run_pc = "train" /\ run_pc' # "down" /\ save_pc' = "open"
      /\ UNCHANGED <<weights, data, tracker, current_param_version, local_trigger_step, trained, fed,
                     global_steps, feed_done, inflight, restarts>>
  BY DEF Stop, diskVars, saveVars, feedVars, IInv, SaveInv
<1>2. MemoryInv'
  BY <1>1 DEF CountInv, MemoryInv, LossBounded, Remaining
<1>. QED BY <1>1, <1>2, DiskInvKept DEF CountInv, SavedDataInv

LEMMA DownCount ==
  ASSUME IInv, CountInv, Down, run_pc # "down"
  PROVE  CountInv'
<1>1. /\ run_pc' = "down" /\ restarts' = restarts + 1 /\ restarts \in Nat
      /\ trained' = {} /\ inflight' = {} /\ fed' = 0 /\ feed_done' = FALSE
      /\ current_param_version' = 0 /\ local_trigger_step' = 1
      /\ global_steps' = 0 * VersionSamples + 1
      /\ UNCHANGED <<weights, data, tracker>>
  BY DEF Down, Load, ResumedSteps, diskVars, IInv, TypeOK
<1>2. restarts' \in Nat
  BY <1>1
<1>3. Remaining' = TotalRolloutSteps
  BY <1>1, <1>2, EmptyCount DEF Remaining
<1>4. MemoryInv'
  BY <1>1, <1>2, <1>3, EmptyCount DEF MemoryInv, LossBounded
<1>5. DiskInv'
  <2>1. ASSUME NEW r \in Nat, r <= restarts PROVE r + 1 <= restarts'
    BY <1>1, <2>1
  <2>. QED BY <1>1, <2>1 DEF CountInv, DiskInv
<1>. QED BY <1>1, <1>4, <1>5 DEF CountInv, SavedDataInv

\* A run that resumes counts what its checkpoint may stand for against the
\* crash that made it resume.
LEMMA LoadCount ==
  ASSUME IInv, CountInv, Restart, run_pc' = "train", tracker # 0,
         Load(tracker, weights["actor"][tracker], SavedPosition(tracker))
  PROVE  MemoryInv'
<1> DEFINE content == weights["actor"][tracker]
<1>1. /\ run_pc = "down" /\ restarts' = restarts /\ restarts \in Nat /\ tracker \in Nat
      /\ trained' = content /\ inflight' = {} /\ fed' = data[tracker] /\ feed_done' = FALSE
      /\ current_param_version' = tracker /\ local_trigger_step' = 1
      /\ global_steps' = tracker * VersionSamples + 1
  BY DEF Restart, Load, ResumedSteps, SavedPosition, IInv, TrackedWhole, TypeOK, CheckpointTypeOK
<1>2. PICK r \in Nat : r + 1 <= restarts /\ Accounted(content, tracker, data[tracker], r)
  BY <1>1 DEF CountInv, DiskInv
<1>3. /\ IsFiniteSet(content) /\ Cardinality(content) \in Nat
      /\ IsFiniteSet({}) /\ Cardinality({}) = 0
  BY <1>2, FS_EmptySet, FS_CardinalityType DEF Accounted
<1> DEFINE done   == tracker * VersionSamples
           spared == r * Surplus
           grown  == r * (Surplus + 1)
           lost   == r * MaxInFlight
<1>4. /\ Surplus \in Nat /\ MaxInFlight \in Nat /\ done \in Nat /\ spared \in Nat
      /\ grown = spared + r /\ lost \in Nat
  <2>1. Surplus \in Nat /\ MaxInFlight \in Nat /\ VersionSamples \in Nat
    BY SurplusFacts, ConstantFacts, ResumeAssumption
  <2>. QED BY <1>1, <2>1, Products
<1>5. /\ spared + Surplus <= restarts * Surplus
      /\ spared + r + Surplus + 1 <= restarts * (Surplus + 1)
      /\ lost + MaxInFlight <= restarts * MaxInFlight
  <2>1. r + 1 \in Nat /\ Surplus + 1 \in Nat
    BY <1>4
  <2>2. /\ (r + 1) * Surplus = spared + Surplus
        /\ (r + 1) * (Surplus + 1) = grown + (Surplus + 1)
        /\ (r + 1) * MaxInFlight = lost + MaxInFlight
    BY <1>4, <2>1, Products
  <2>3. /\ (r + 1) * Surplus <= restarts * Surplus
        /\ (r + 1) * (Surplus + 1) <= restarts * (Surplus + 1)
        /\ (r + 1) * MaxInFlight <= restarts * MaxInFlight
    BY <1>1, <1>2, <1>4, <2>1, Products
  <2>4. grown + (Surplus + 1) = spared + r + Surplus + 1
    <3> HIDE DEF grown, spared
    <3>. QED BY <1>4
  <2>. QED BY <2>2, <2>3, <2>4
<1>6. /\ Cardinality(content) <= TotalRolloutSteps + spared + r
      /\ Cardinality(content) <= done + Surplus + spared
      /\ Cardinality(Holes(data[tracker], content)) <= lost + MaxInFlight
  <2>1. /\ Cardinality(content) <= TotalRolloutSteps + grown
        /\ Cardinality(content) <= done + Surplus + spared
        /\ Cardinality(Holes(data[tracker], content)) <= lost + MaxInFlight
    BY <1>2 DEF Accounted
  <2> HIDE DEF grown, spared, done, lost
  <2>. QED BY <1>4, <2>1, ConstantFacts
<1> HIDE DEF content, done, spared, grown, lost
<1>7. /\ restarts * Surplus \in Nat /\ restarts * (Surplus + 1) \in Nat /\ restarts * MaxInFlight \in Nat
  BY RestartFacts DEF IInv
<1>8. Cardinality(content) + 0 + Remaining' <= TotalRolloutSteps + restarts * (Surplus + 1)
  <2>1. global_steps' = done + 1
    BY <1>1 DEF done
  <2>2. Remaining' = IF done + 1 <= TotalRolloutSteps THEN TotalRolloutSteps - (done + 1) + 1 ELSE 1
    BY <1>1, <2>1 DEF Remaining
  <2>3. CASE done + 1 <= TotalRolloutSteps
    <3>1. Remaining' = TotalRolloutSteps - done
      BY <1>4, <2>2, <2>3, ConstantFacts
    <3>2. Cardinality(content) + (TotalRolloutSteps - done) <= TotalRolloutSteps + Surplus + spared
      BY <1>3, <1>4, <1>6, ConstantFacts
    <3>3. Surplus + spared <= restarts * (Surplus + 1)
      BY <1>2, <1>4, <1>5, <1>7
    <3>. QED BY <1>3, <1>4, <1>7, <2>3, <3>1, <3>2, <3>3, ConstantFacts
  <2>4. CASE ~(done + 1 <= TotalRolloutSteps)
    <3>1. Remaining' = 1
      BY <2>2, <2>4
    <3>2. Cardinality(content) + 0 + 1 <= TotalRolloutSteps + spared + r + Surplus + 1
      BY <1>2, <1>3, <1>4, <1>6, ConstantFacts
    <3>. QED BY <1>2, <1>3, <1>4, <1>5, <1>7, <3>1, <3>2, ConstantFacts
  <2>. QED BY <2>3, <2>4
<1>9. Cardinality(content) <= done + (1 - 1) * RequiredSamples + restarts * Surplus
  BY <1>3, <1>4, <1>5, <1>6, <1>7, ConstantFacts
<1>10. LossBounded'
  <2>1. Cardinality(Holes(data[tracker], content)) <= restarts * MaxInFlight
    <3>1. IsFiniteSet(Holes(data[tracker], content))
      <4>1. data[tracker] \in Nat
        BY <1>1 DEF IInv, TrackedWhole, TypeOK, CheckpointTypeOK
      <4>2. IsFiniteSet(1 .. data[tracker])
        BY <4>1, FS_Interval
      <4>. QED BY <4>2, FS_Difference DEF Holes
    <3>2. Cardinality(Holes(data[tracker], content)) \in Nat
      BY <3>1, FS_CardinalityType
    <3>. QED BY <1>4, <1>5, <1>6, <1>7, <3>2
  <2>2. (1 .. data[tracker]) \ (content \union {}) = Holes(data[tracker], content)
    BY DEF Holes
  <2>. QED BY <1>1, <2>1, <2>2 DEF LossBounded, content
<1>. QED BY <1>1, <1>3, <1>4, <1>8, <1>9, <1>10 DEF MemoryInv, done, content

LEMMA RestartCount ==
  ASSUME IInv, CountInv, Restart
  PROVE  CountInv'
<1>1. /\ run_pc = "down" /\ run_pc' \in {"train", "failed"} /\ restarts' = restarts /\ restarts \in Nat
      /\ UNCHANGED <<weights, data, tracker>>
  BY DEF Restart, diskVars, IInv, TypeOK
<1>2. DiskInv'
  <2>1. \A r \in Nat : r + 1 <= restarts => r <= restarts
    BY <1>1
  <2>. QED BY <1>1, <2>1 DEF CountInv, DiskInv
<1>3. MemoryInv'
  <2>1. CASE run_pc' = "failed" /\ UNCHANGED memoryVars
    BY <1>1, <2>1 DEF memoryVars, CountInv, MemoryInv, LossBounded, Remaining
  <2>2. CASE tracker = 0 /\ Load(0, {}, 0)
    <3>1. /\ trained' = {} /\ inflight' = {} /\ fed' = 0 /\ feed_done' = FALSE
          /\ current_param_version' = 0 /\ local_trigger_step' = 1
          /\ global_steps' = 0 * VersionSamples + 1
      BY <2>2 DEF Load, ResumedSteps
    <3>2. Remaining' = TotalRolloutSteps
      BY <1>1, <3>1, EmptyCount DEF Remaining
    <3>. QED BY <1>1, <3>1, <3>2, EmptyCount DEF MemoryInv, LossBounded
  <2>3. CASE /\ run_pc' = "train" /\ tracker # 0
             /\ Load(tracker, weights["actor"][tracker], SavedPosition(tracker))
    BY <2>3, LoadCount
  <2>. QED BY <2>1, <2>2, <2>3 DEF Restart, ResumedVersion
<1>. QED BY <1>1, <1>2, <1>3 DEF CountInv, SavedDataInv

LEMMA SaveStepCount ==
  ASSUME MaxCkptToKeep # 1, IInv, CountInv, SaveStep
  PROVE  CountInv'
<1>1. MemoryInv'
  BY SaveFrame DEF CountInv, MemoryInv, LossBounded, Remaining
<1>2. TrackedKept
  BY OpenInvariant, WriteInvariant, RegisterInvariant, DataInvariant, TruncateInvariant DEF SaveStep
<1>3. DiskInv'
  BY <1>2, SaveFrame, DiskInvKept DEF TrackedKept, CountInv
<1>4. SavedDataInv'
  <2>1. CASE SaveData(current_param_version, fed)
    <3>1. data'[current_param_version] = fed
      BY <2>1 DEF SaveData, With
    <3>2. Holes(fed, trained) \subseteq Holes(fed, trained \union inflight) \union inflight
      BY DEF Holes
    <3>3. /\ IsFiniteSet(Holes(fed, trained \union inflight)) /\ IsFiniteSet(inflight)
          /\ Cardinality(Holes(fed, trained \union inflight)) <= restarts * MaxInFlight
          /\ Cardinality(inflight) <= MaxInFlight
      <4>1. fed \in Nat
        BY DEF IInv, TypeOK
      <4>2. IsFiniteSet(1 .. fed)
        BY <4>1, FS_Interval
      <4>. QED BY <4>2, FS_Difference DEF Holes, CountInv, MemoryInv, LossBounded
    <3> DEFINE both == Holes(fed, trained \union inflight) \union inflight
               shared == Holes(fed, trained \union inflight) \intersect inflight
    <3>4. /\ IsFiniteSet(both) /\ IsFiniteSet(shared)
          /\ Cardinality(both) = Cardinality(Holes(fed, trained \union inflight))
                                 + Cardinality(inflight) - Cardinality(shared)
      BY <3>3, FS_Union, FS_Subset
    <3>5. /\ IsFiniteSet(Holes(fed, trained))
          /\ Cardinality(Holes(fed, trained)) <= Cardinality(both)
      BY <3>2, <3>4, FS_Subset
    <3>6. /\ Cardinality(Holes(fed, trained)) \in Nat /\ Cardinality(both) \in Nat
          /\ Cardinality(shared) \in Nat /\ Cardinality(inflight) \in Nat
          /\ Cardinality(Holes(fed, trained \union inflight)) \in Nat
      BY <3>3, <3>4, <3>5, FS_CardinalityType
    <3> HIDE DEF both, shared
    <3>7. restarts * MaxInFlight \in Nat /\ MaxInFlight \in Nat
      BY RestartFacts DEF IInv
    <3>8. Cardinality(Holes(fed, trained)) <= restarts * MaxInFlight + MaxInFlight
      BY <3>3, <3>4, <3>5, <3>6, <3>7
    <3>. QED BY <3>1, <3>8, SaveFrame DEF SavedDataInv, Holes
  <2>2. CASE TruncateTracker
    <3>1. save_pc = "truncate" /\ UNCHANGED data
      BY <2>2 DEF TruncateTracker
    <3>. QED BY <3>1, SaveFrame DEF CountInv, SavedDataInv, Holes
  <2>3. CASE ~SaveData(current_param_version, fed) /\ ~TruncateTracker
    <3>1. save_pc' \in {"write", "register", "open", "data"}
      BY <2>3 DEF SaveStep, OpenModel, WriteModel, RegisterModel
    <3>. QED BY <3>1 DEF SavedDataInv
  <2>. QED BY <2>1, <2>2, <2>3
<1>. QED BY <1>1, <1>3, <1>4 DEF CountInv

\* The checkpoint that becomes the tracker's is one of this run.
LEMMA SavedCount ==
  ASSUME IInv, CountInv, Saved
  PROVE  CountInv'
<1>1. /\ run_pc = "save" /\ run_pc' \in {"train", "done"} /\ save_pc = "name"
      /\ tracker' = current_param_version /\ restarts \in Nat
      /\ local_trigger_step \in 1 .. TriggerSteps /\ current_param_version \in Nat
      /\ UNCHANGED <<weights, data, current_param_version, local_trigger_step, trained, fed,
                     global_steps, feed_done, inflight, restarts>>
  BY DEF Saved, NameTracker, trainerVars, feedVars, IInv, TypeOK
<1>2. MemoryInv'
  BY <1>1 DEF CountInv, MemoryInv, LossBounded, Remaining
<1>3. weights["actor"][current_param_version] = trained
  BY <1>1, RoleFacts DEF IInv, SaveInv, Written, Registered
<1>4. Accounted(trained, current_param_version, data[current_param_version], restarts)
  <2> DEFINE base  == current_param_version * VersionSamples
             local == (local_trigger_step - 1) * RequiredSamples
             slack == restarts * Surplus
             grown == restarts * (Surplus + 1)
  <2>1. /\ IsFiniteSet(trained) /\ IsFiniteSet(inflight)
        /\ Cardinality(trained) + Cardinality(inflight) + Remaining <= TotalRolloutSteps + grown
        /\ Cardinality(trained) <= base + local + slack
    BY DEF CountInv, MemoryInv
  <2>2. /\ base \in Nat /\ local \in Nat /\ local <= Surplus /\ Surplus \in Nat
        /\ slack \in Nat /\ grown \in Nat
    BY <1>1, ConstantFacts, Products, SurplusFacts, RestartFacts DEF IInv
  <2>3. Remaining \in Nat
    BY ConstantFacts DEF Remaining, IInv, TypeOK
  <2>4. Cardinality(trained) \in Nat /\ Cardinality(inflight) \in Nat
    BY <2>1, FS_CardinalityType
  <2> HIDE DEF base, local, slack, grown
  <2>5. Cardinality(trained) <= TotalRolloutSteps + grown
    BY <2>1, <2>2, <2>3, <2>4, ConstantFacts
  <2>6. Cardinality(trained) <= base + Surplus + slack
    BY <2>1, <2>2, <2>4
  <2>7. Cardinality(Holes(data[current_param_version], trained)) <= restarts * MaxInFlight + MaxInFlight
    BY <1>1 DEF CountInv, SavedDataInv
  <2>. QED BY <2>1, <2>5, <2>6, <2>7 DEF Accounted, base, slack, grown
<1>5. DiskInv'
  <2>1. restarts <= restarts'
    BY <1>1
  <2>. QED BY <1>1, <1>3, <1>4, <2>1 DEF DiskInv
<1>. QED BY <1>1, <1>2, <1>5 DEF CountInv, SavedDataInv

LEMMA NextCount == MaxCkptToKeep # 1 /\ IInv /\ CountInv /\ [Next]_vars => CountInv'
<1> SUFFICES ASSUME MaxCkptToKeep # 1, IInv, CountInv, [Next]_vars PROVE CountInv'
  OBVIOUS
<1>1. CASE UNCHANGED vars
  <2>1. MemoryInv'
    BY <1>1 DEF vars, memoryVars, CountInv, MemoryInv, LossBounded, Remaining
  <2>. QED BY <1>1, <2>1
       DEF vars, diskVars, saveVars, memoryVars, CountInv, DiskInv, SavedDataInv
<1>2. CASE Down /\ run_pc # "down"
  BY <1>2, DownCount
<1>. QED BY <1>1, <1>2, FeedCount, TrainCount, StopCount, SaveStepCount, SavedCount, RestartCount
         DEF Next, Crash, Rerun, Running

\* The two bounds are kept together with the invariant of the files.
LEMMA CountInvariant ==
  ASSUME MaxCkptToKeep # 1
  PROVE  Spec => []CountInv
<1>1. Init => IInv /\ CountInv
  BY InitInv, InitCount
<1>2. IInv /\ CountInv /\ [Next]_vars => (IInv /\ CountInv)'
  BY NextInv, NextCount
<1>. QED BY <1>1, <1>2, PTL DEF Spec

\* total_rollout_steps and load_checkpoint's count of samples: however often a
\* run is resumed, each restart adds no more to the samples behind the weights
\* than the surplus steps of a version, and one.
THEOREM BudgetSafe ==
  ASSUME MaxCkptToKeep # 1
  PROVE  Spec => []WithinBudget
<1>1. TypeOK /\ CountInv => WithinBudget
  <2> SUFFICES ASSUME TypeOK, CountInv PROVE WithinBudget
    OBVIOUS
  <2> DEFINE grown == restarts * (Surplus + 1)
  <2>1. Cardinality(trained) + Cardinality(inflight) + Remaining <= TotalRolloutSteps + grown
    BY DEF CountInv, MemoryInv
  <2>2. Cardinality(trained) \in Nat /\ Cardinality(inflight) \in Nat
    BY FS_CardinalityType DEF CountInv, MemoryInv
  <2>3. Remaining \in Nat /\ grown \in Nat
    BY ConstantFacts, RestartFacts DEF Remaining, TypeOK
  <2> HIDE DEF grown
  <2>4. Cardinality(trained) <= TotalRolloutSteps + grown
    BY <2>1, <2>2, <2>3, ConstantFacts
  <2>. QED BY <2>4 DEF grown, Surplus, WithinBudget
<1>. QED BY <1>1, TypesPreserved, CountInvariant, PTL

\* save_checkpoint and load_checkpoint of the rollouter: each restart loses no
\* more samples than can be in flight when the position is saved.
THEOREM LossSafe ==
  ASSUME MaxCkptToKeep # 1
  PROVE  Spec => []LossBounded
<1>1. CountInv => LossBounded
  BY DEF CountInv, MemoryInv
<1>. QED BY <1>1, CountInvariant, PTL

-----------------------------------------------------------------------------
(* The training at risk *)

LEMMA Division ==
  ASSUME NEW a \in Nat, NEW b \in Nat, b > 0
  PROVE  /\ a % b \in 0 .. b - 1 /\ a \div b \in Nat
         /\ a = b * (a \div b) + (a % b)
OBVIOUS

LEMMA RemainderIs ==
  ASSUME NEW a \in Nat, NEW b \in Nat, b > 0, NEW q \in Nat, NEW r \in 0 .. b - 1, a = b * q + r
  PROVE  a % b = r
OBVIOUS

\* Remainders count up to the next multiple.
LEMMA NextRemainder ==
  ASSUME NEW a \in Nat, NEW b \in Nat, b > 0, (a + 1) % b # 0
  PROVE  (a + 1) % b = (a % b) + 1
<1> DEFINE q == a \div b
           r == a % b
           m == b * q
<1>1. r \in 0 .. b - 1 /\ q \in Nat /\ m \in Nat /\ a = m + r
  BY Division
<1>2. b * (q + 1) = m + b
  BY <1>1
<1>3. r + 1 # b
  <2> SUFFICES ASSUME r + 1 = b PROVE FALSE
    OBVIOUS
  <2>1. 0 \in 0 .. b - 1 /\ q + 1 \in Nat /\ a + 1 \in Nat
    BY <1>1
  <2>2. a + 1 = b * (q + 1) + 0
    <3>1. a + 1 = m + b
      <4> HIDE DEF q, r, m
      <4>. QED BY <1>1
    <3>. QED BY <1>1, <1>2, <3>1
  <2>3. (a + 1) % b = 0
    <3> HIDE DEF q
    <3>. QED BY <2>1, <2>2, RemainderIs
  <2>. QED BY <2>3
<1>4. r + 1 \in 0 .. b - 1
  BY <1>1, <1>3
<1>5. a + 1 = m + (r + 1)
  <2> HIDE DEF q, r, m
  <2>. QED BY <1>1
<1>. QED BY <1>1, <1>4, <1>5, RemainderIs

\* The version is not ahead of the last saved one by more than it is ahead of the
\* last multiple of save_freq.
NotDue == current_param_version <= last_ckpt_version + (current_param_version % SaveFreq)

\* While it trains no save is due; one that is under way was due at a
\* synchronisation, or was not due but started early.
DueInv ==
    /\ run_pc = "train" => NotDue
    /\ run_pc = "save" =>
          \/ NotDue
          \/ local_trigger_step = 1 /\ current_param_version <= last_ckpt_version + SaveFreq
    /\ run_pc = "done" => current_param_version = last_ckpt_version

\* The history in memory is ahead of the saved one by whole versions and the
\* local steps since.
UnsavedInv ==
    run_pc \in {"train", "save", "done"} =>
        Cardinality(trained \ SavedHistory)
            <= (current_param_version - last_ckpt_version) * VersionSamples
               + (local_trigger_step - 1) * RequiredSamples

LEMMA SaveFreqFacts ==
  /\ SaveFreq \in Nat /\ SaveFreq >= 1
  /\ \A a \in Nat : a % SaveFreq \in Nat /\ a % SaveFreq < SaveFreq
  /\ \A a \in Nat : (a + 1) % SaveFreq # 0 => (a + 1) % SaveFreq = (a % SaveFreq) + 1
<1>1. SaveFreq \in Nat \ {0}
  BY ResumeAssumption
<1>2. SaveFreq \in Nat /\ SaveFreq > 0
  BY <1>1
<1>3. ASSUME NEW a \in Nat PROVE a % SaveFreq \in Nat /\ a % SaveFreq < SaveFreq
  <2>1. a % SaveFreq \in 0 .. SaveFreq - 1
    BY <1>2, Division
  <2>. QED BY <1>2, <2>1
<1>4. ASSUME NEW a \in Nat, (a + 1) % SaveFreq # 0
      PROVE  (a + 1) % SaveFreq = (a % SaveFreq) + 1
  BY <1>2, <1>4, NextRemainder
<1>. QED BY <1>2, <1>3, <1>4

LEMMA TrainDue ==
  ASSUME IInv, DueInv, NEW batch \in SUBSET inflight, Train(batch)
  PROVE  DueInv'
<1> DEFINE c == current_param_version
           l == last_ckpt_version
<1>1. /\ run_pc = "train" /\ run_pc' \in {"train", "save"} /\ l' = l
      /\ c \in Nat /\ l \in Nat /\ l <= c
      /\ c <= l + (c % SaveFreq)
  BY DEF Train, IInv, TypeOK, VersionInv, DueInv, NotDue
<1>2. CASE LastLocalStep
  <2>1. c' = c + 1 /\ local_trigger_step' = 1
    BY <1>2 DEF Train
  <2>2. CASE (c + 1) % SaveFreq # 0
    <3>1. (c + 1) % SaveFreq = (c % SaveFreq) + 1
      BY <1>1, <2>2, SaveFreqFacts
    <3>2. c + 1 <= l + ((c + 1) % SaveFreq)
      BY <1>1, <3>1, SaveFreqFacts
    <3>. QED BY <1>1, <2>1, <3>2 DEF DueInv, NotDue
  <2>3. CASE (c + 1) % SaveFreq = 0
    <3>1. c + 1 # l /\ c + 1 <= l + SaveFreq
      BY <1>1, SaveFreqFacts
    <3>2. run_pc' = "save"
      BY <1>1, <2>1, <2>3, <3>1 DEF Train, SaveDue
    <3>. QED BY <1>1, <2>1, <3>1, <3>2 DEF DueInv
  <2>. QED BY <2>2, <2>3
<1>3. CASE ~LastLocalStep
  <2>1. c' = c
    BY <1>3 DEF Train
  <2>. QED BY <1>1, <2>1 DEF DueInv, NotDue
<1>. QED BY <1>2, <1>3

\* A save that has been completed, or that a run starts from, is not ahead.
LEMMA JustSaved ==
  ASSUME TypeOK', last_ckpt_version' = current_param_version', run_pc' # "save"
  PROVE  DueInv'
<1>1. current_param_version' \in Nat
  BY DEF TypeOK
<1>2. current_param_version' % SaveFreq \in Nat
  BY <1>1, SaveFreqFacts
<1>. QED BY <1>1, <1>2 DEF DueInv, NotDue

LEMMA NextDue ==
  ASSUME IInv, IInv', DueInv, [Next]_vars
  PROVE  DueInv'
<1>1. ASSUME UNCHANGED <<run_pc, current_param_version, last_ckpt_version, local_trigger_step>>
      PROVE  DueInv'
  BY <1>1 DEF DueInv, NotDue
<1>2. CASE UNCHANGED vars
  BY <1>1, <1>2 DEF vars, memoryVars
<1>3. CASE Feed
  BY <1>1, <1>3 DEF Feed, trainerVars
<1>4. CASE Stop
  <2>1. /\ run_pc = "train" /\ run_pc' \in {"save", "done"}
        /\ run_pc' = "done" => current_param_version = last_ckpt_version
        /\ UNCHANGED <<current_param_version, last_ckpt_version, local_trigger_step>>
    BY <1>4 DEF Stop, SaveDue
  <2>. QED BY <2>1 DEF DueInv, NotDue
<1>5. CASE SaveStep
  BY <1>1, <1>5, SaveFrame
<1>6. CASE Saved
  <2>1. run_pc' # "save" /\ last_ckpt_version' = current_param_version'
    BY <1>6 DEF Saved, trainerVars
  <2>. QED BY <2>1, JustSaved DEF IInv
<1>7. CASE Down
  BY <1>7 DEF Down, DueInv
<1>8. CASE Restart
  <2>1. CASE run_pc' = "failed"
    BY <2>1 DEF DueInv
  <2>2. CASE run_pc' = "train"
    <3>1. last_ckpt_version' = current_param_version'
      BY <1>8, <2>2 DEF Restart, Load
    <3>. QED BY <2>2, <3>1, JustSaved DEF IInv
  <2>. QED BY <1>8, <2>1, <2>2 DEF Restart
<1>. QED BY <1>2, <1>3, <1>4, <1>5, <1>6, <1>7, <1>8, TrainDue DEF Next, Crash, Rerun

\* The length of the history that is not saved, and what UnsavedInv says of it
LEMMA UnsavedFacts ==
  ASSUME IInv, run_pc \in {"train", "save", "done"}
  PROVE  /\ current_param_version - last_ckpt_version \in Nat
         /\ (current_param_version - last_ckpt_version) * VersionSamples \in Nat
         /\ (local_trigger_step - 1) * RequiredSamples \in Nat
         /\ (local_trigger_step - 1) * RequiredSamples <= Surplus
<1>1. current_param_version - last_ckpt_version \in Nat
  BY DEF IInv, TypeOK, VersionInv
<1>2. local_trigger_step \in 1 .. TriggerSteps
  BY DEF IInv, TypeOK
<1>. QED BY <1>1, <1>2, ConstantFacts, Products, SurplusFacts

LEMMA TrainUnsaved ==
  ASSUME IInv, CountInv, UnsavedInv, NEW batch \in SUBSET inflight, Train(batch)
  PROVE  UnsavedInv'
<1> DEFINE gap   == current_param_version - last_ckpt_version
           ahead == gap * VersionSamples
           here  == (local_trigger_step - 1) * RequiredSamples
           old   == trained \ SavedHistory
<1>1. /\ run_pc = "train" /\ trained' = trained \union batch /\ Cardinality(batch) = RequiredSamples
      /\ SavedHistory' = SavedHistory /\ last_ckpt_version' = last_ckpt_version
      /\ current_param_version \in Nat /\ last_ckpt_version \in Nat
      /\ local_trigger_step \in 1 .. TriggerSteps
  BY DEF Train, diskVars, SavedHistory, IInv, TypeOK
<1>2. Cardinality(trained' \ SavedHistory') <= Cardinality(old) + RequiredSamples /\ Cardinality(old) \in Nat
  <2>1. IsFiniteSet(trained) /\ IsFiniteSet(inflight)
    BY DEF CountInv, MemoryInv
  <2>2. IsFiniteSet(old) /\ IsFiniteSet(batch)
    BY <2>1, FS_Subset
  <2>3. /\ IsFiniteSet(old \union batch)
        /\ Cardinality(old \union batch)
              = Cardinality(old) + Cardinality(batch) - Cardinality(old \intersect batch)
    BY <2>2, FS_Union
  <2>4. (trained' \ SavedHistory') \subseteq old \union batch
    BY <1>1
  <2>5. /\ Cardinality(trained' \ SavedHistory') <= Cardinality(old \union batch)
        /\ IsFiniteSet(trained' \ SavedHistory') /\ IsFiniteSet(old \intersect batch)
    BY <2>2, <2>3, <2>4, FS_Subset
  <2>6. /\ Cardinality(old) \in Nat /\ Cardinality(old \intersect batch) \in Nat
        /\ Cardinality(trained' \ SavedHistory') \in Nat
    BY <2>2, <2>5, FS_CardinalityType
  <2> HIDE DEF old
  <2>7. Cardinality(old \union batch) <= Cardinality(old) + RequiredSamples
    BY <1>1, <2>3, <2>6, ConstantFacts
  <2>8. Cardinality(old \union batch) \in Nat
    BY <2>3, FS_CardinalityType
  <2>. QED BY <2>5, <2>6, <2>7, <2>8, ConstantFacts
<1>3. Cardinality(old) <= ahead + here /\ ahead \in Nat /\ here \in Nat /\ gap \in Nat
  BY <1>1, UnsavedFacts DEF UnsavedInv
<1>4. (current_param_version' - last_ckpt_version') * VersionSamples
          + (local_trigger_step' - 1) * RequiredSamples = ahead + here + RequiredSamples
  <2>1. CASE LastLocalStep
    <3>1. local_trigger_step' = 1 /\ current_param_version' - last_ckpt_version' = gap + 1
      BY <1>1, <2>1 DEF Train
    <3>2. here + RequiredSamples = VersionSamples
      <4>1. local_trigger_step = TriggerSteps
        BY <1>1, <2>1, ConstantFacts DEF LastLocalStep
      <4>. QED BY <4>1, SurplusFacts DEF Surplus
    <3>3. (gap + 1) * VersionSamples = ahead + VersionSamples
      BY <1>3, ConstantFacts, Products
    <3>4. /\ (current_param_version' - last_ckpt_version') * VersionSamples = ahead + VersionSamples
          /\ (local_trigger_step' - 1) * RequiredSamples = 0
      <4>1. (1 - 1) * RequiredSamples = 0
        BY ConstantFacts
      <4>. QED BY <3>1, <3>3, <4>1
    <3> HIDE DEF ahead, here
    <3>. QED BY <1>3, <3>2, <3>4, ConstantFacts
  <2>2. CASE ~LastLocalStep
    <3>1. /\ local_trigger_step' - 1 = (local_trigger_step - 1) + 1
          /\ current_param_version' - last_ckpt_version' = gap
      BY <1>1, <2>2 DEF Train
    <3>2. ((local_trigger_step - 1) + 1) * RequiredSamples = here + RequiredSamples
      <4>1. local_trigger_step - 1 \in Nat
        BY <1>1, ConstantFacts
      <4>. QED BY <4>1, ConstantFacts, Products
    <3>3. /\ (current_param_version' - last_ckpt_version') * VersionSamples = ahead
          /\ (local_trigger_step' - 1) * RequiredSamples = here + RequiredSamples
      BY <3>1, <3>2
    <3> HIDE DEF ahead, here
    <3>. QED BY <1>3, <3>3, ConstantFacts
  <2>. QED BY <2>1, <2>2
<1>5. Cardinality(trained' \ SavedHistory')
        <= (current_param_version' - last_ckpt_version') * VersionSamples
           + (local_trigger_step' - 1) * RequiredSamples
  <2>1. IsFiniteSet(trained' \ SavedHistory')
    BY BatchCount, FS_Difference
  <2>2. Cardinality(trained' \ SavedHistory') \in Nat
    BY <2>1, FS_CardinalityType
  <2> HIDE DEF ahead, here, old
  <2>3. Cardinality(trained' \ SavedHistory') <= ahead + here + RequiredSamples
    BY <1>2, <1>3, <2>2, ConstantFacts
  <2>. QED BY <1>4, <2>3
<1>. QED BY <1>5 DEF UnsavedInv

\* When all of the history in memory is saved, nothing is at risk.
LEMMA NoneUnsaved ==
  ASSUME IInv', trained' \ SavedHistory' = {}
  PROVE  UnsavedInv'
<1>1. Cardinality(trained' \ SavedHistory') = 0
  BY FS_EmptySet
<1>2. ASSUME run_pc' \in {"train", "save", "done"}
      PROVE  0 <= (current_param_version' - last_ckpt_version') * VersionSamples
                  + (local_trigger_step' - 1) * RequiredSamples
  <2>1. current_param_version' - last_ckpt_version' \in Nat
    <3>1. current_param_version' \in Nat /\ last_ckpt_version' \in Nat
      BY DEF IInv, TypeOK
    <3>2. last_ckpt_version' <= current_param_version'
      BY <1>2 DEF IInv, VersionInv
    <3>3. \A a, b \in Nat : b <= a => a - b \in Nat
      OBVIOUS
    <3>. QED BY <3>1, <3>2, <3>3
  <2>2. local_trigger_step' \in 1 .. TriggerSteps
    BY DEF IInv, TypeOK
  <2>3. /\ (current_param_version' - last_ckpt_version') * VersionSamples \in Nat
        /\ (local_trigger_step' - 1) * RequiredSamples \in Nat
    BY <2>1, <2>2, ConstantFacts, Products, SurplusFacts
  <2>. QED BY <2>3
<1>. QED BY <1>1, <1>2 DEF UnsavedInv

LEMMA NextUnsaved ==
  ASSUME MaxCkptToKeep # 1, IInv, IInv', CountInv, UnsavedInv, [Next]_vars
  PROVE  UnsavedInv'
<1>1. ASSUME run_pc' \in {"train", "save", "done"} => run_pc \in {"train", "save", "done"},
             SavedHistory' = SavedHistory,
             UNCHANGED <<current_param_version, last_ckpt_version, local_trigger_step, trained>>
      PROVE  UnsavedInv'
  BY <1>1 DEF UnsavedInv
<1>2. CASE UNCHANGED vars
  BY <1>1, <1>2 DEF vars, memoryVars, diskVars, SavedHistory
<1>3. CASE Feed
  BY <1>1, <1>3 DEF Feed, trainerVars, diskVars, SavedHistory
<1>4. CASE Stop
  BY <1>1, <1>4 DEF Stop, diskVars, SavedHistory
<1>5. CASE SaveStep
  <2>1. TrackedKept
    BY <1>5, OpenInvariant, WriteInvariant, RegisterInvariant, DataInvariant, TruncateInvariant
    DEF SaveStep
  <2>2. SavedHistory' = SavedHistory
    BY <1>5, <2>1, SaveFrame DEF SavedHistory, TrackedKept
  <2>. QED BY <1>1, <1>5, <2>2, SaveFrame
<1>6. CASE Saved
  <2>1. /\ run_pc = "save" /\ save_pc = "name" /\ tracker' = current_param_version
        /\ UNCHANGED <<weights, trained>>
    BY <1>6 DEF Saved, NameTracker, trainerVars
  <2>2. weights["actor"][current_param_version] = trained /\ current_param_version # 0
    BY <2>1, RoleFacts DEF IInv, SaveInv, Written, Registered, TypeOK, CheckpointTypeOK
  <2>3. SavedHistory' = trained
    BY <2>1, <2>2 DEF SavedHistory
  <2>. QED BY <2>1, <2>3, NoneUnsaved
<1>7. CASE Down
  BY <1>7 DEF Down, UnsavedInv
<1>8. CASE Restart
  <2>1. CASE run_pc' = "failed"
    BY <2>1 DEF UnsavedInv
  <2>2. CASE run_pc' = "train"
    <3>1. SavedHistory' = trained'
      BY <1>8, <2>2 DEF Restart, Load, diskVars, SavedHistory
    <3>. QED BY <3>1, NoneUnsaved
  <2>. QED BY <1>8, <2>1, <2>2 DEF Restart
<1>. QED BY <1>2, <1>3, <1>4, <1>5, <1>6, <1>7, <1>8, TrainUnsaved DEF Next, Crash, Rerun

LEMMA RiskBounded ==
  ASSUME IInv, CountInv, DueInv, UnsavedInv
  PROVE  WorkAtRisk
<1> DEFINE gap    == current_param_version - last_ckpt_version
           ahead  == gap * VersionSamples
           here   == (local_trigger_step - 1) * RequiredSamples
           unsaved == Cardinality(trained \ SavedHistory)
<1>1. unsaved \in Nat
  <2>1. IsFiniteSet(trained \ SavedHistory)
    BY FS_Difference DEF CountInv, MemoryInv
  <2>. QED BY <2>1, FS_CardinalityType
<1>2. ASSUME run_pc \in {"train", "save", "done"}
      PROVE  /\ unsaved <= ahead + here
             /\ gap \in Nat /\ ahead \in Nat /\ here \in Nat /\ here <= Surplus
  BY <1>2, UnsavedFacts DEF UnsavedInv
<1>3. ASSUME Running PROVE unsaved <= SaveFreq * VersionSamples
  <2>1. run_pc \in {"train", "save"} /\ current_param_version \in Nat /\ last_ckpt_version \in Nat
    BY <1>3 DEF Running, IInv, TypeOK
  <2>2. \/ gap <= SaveFreq - 1
        \/ local_trigger_step = 1 /\ gap <= SaveFreq
    <3>1. CASE NotDue
      BY <2>1, <3>1, SaveFreqFacts DEF NotDue
    <3>2. CASE local_trigger_step = 1 /\ current_param_version <= last_ckpt_version + SaveFreq
      BY <2>1, <3>2, SaveFreqFacts
    <3>. QED BY <2>1, <3>1, <3>2 DEF DueInv
  <2> DEFINE most == SaveFreq * VersionSamples
             less == (SaveFreq - 1) * VersionSamples
  <2>3. most \in Nat /\ less \in Nat /\ most = less + VersionSamples
    <3>1. SaveFreq - 1 \in Nat /\ SaveFreq = (SaveFreq - 1) + 1
      BY SaveFreqFacts
    <3>. QED BY <3>1, SaveFreqFacts, ConstantFacts, Products
  <2>4. CASE gap <= SaveFreq - 1
    <3>1. ahead <= less
      BY <1>2, <2>1, <2>4, SaveFreqFacts, ConstantFacts, Products
    <3>2. here <= VersionSamples
      BY <1>2, <2>1, SurplusFacts, ConstantFacts
    <3> HIDE DEF ahead, here, most, less, unsaved
    <3>3. unsaved <= most
      BY <1>1, <1>2, <2>1, <2>3, <3>1, <3>2, ConstantFacts
    <3>. QED BY <3>3 DEF most
  <2>5. CASE local_trigger_step = 1 /\ gap <= SaveFreq
    <3>1. ahead <= most
      BY <1>2, <2>1, <2>5, SaveFreqFacts, ConstantFacts, Products
    <3>2. here = 0
      BY <2>5, ConstantFacts
    <3> HIDE DEF ahead, here, most, unsaved
    <3>3. unsaved <= most
      BY <1>1, <1>2, <2>1, <2>3, <3>1, <3>2
    <3>. QED BY <3>3 DEF most
  <2>. QED BY <2>2, <2>4, <2>5
<1>4. ASSUME run_pc = "done" PROVE unsaved <= Surplus
  <2>1. gap = 0
    BY <1>4 DEF DueInv, IInv, TypeOK
  <2>2. ahead = 0
    BY <2>1, ConstantFacts
  <2> HIDE DEF ahead, here, unsaved
  <2>. QED BY <1>1, <1>2, <1>4, <2>2, SurplusFacts
<1>. QED BY <1>3, <1>4 DEF WorkAtRisk, Surplus

\* _fit_save_checkpoint and the final one of fit: a crash costs at most the
\* training of save_freq versions, and a run that has ended leaves unsaved at
\* most the surplus steps of a version, however often it was resumed.
THEOREM RiskSafe ==
  ASSUME MaxCkptToKeep # 1
  PROVE  Spec => []WorkAtRisk
<1> DEFINE All == IInv /\ CountInv /\ DueInv /\ UnsavedInv
<1>1. Init => All
  <2>1. Init => DueInv
    <3> SUFFICES ASSUME Init PROVE DueInv
      OBVIOUS
    <3>1. run_pc = "train" /\ current_param_version = 0 /\ last_ckpt_version = 0
      BY DEF Init
    <3>2. 0 % SaveFreq \in Nat
      BY SaveFreqFacts
    <3>. QED BY <3>1, <3>2 DEF DueInv, NotDue
  <2>2. Init => UnsavedInv
    <3> SUFFICES ASSUME Init PROVE UnsavedInv
      OBVIOUS
    <3>1. /\ trained = {} /\ current_param_version = 0 /\ last_ckpt_version = 0
          /\ local_trigger_step = 1 /\ trained \ SavedHistory = {}
      BY DEF Init
    <3>2. Cardinality(trained \ SavedHistory) = 0
      BY <3>1, FS_EmptySet
    <3>3. (0 - 0) * VersionSamples = 0 /\ (1 - 1) * RequiredSamples = 0
      BY ConstantFacts
    <3>. QED BY <3>1, <3>2, <3>3 DEF UnsavedInv
  <2>. QED BY <2>1, <2>2, InitInv, InitCount
<1>2. All /\ [Next]_vars => All'
  BY NextInv, NextCount, NextDue, NextUnsaved
<1>3. All => WorkAtRisk
  BY RiskBounded
<1>. QED BY <1>1, <1>2, <1>3, PTL DEF Spec
=============================================================================
