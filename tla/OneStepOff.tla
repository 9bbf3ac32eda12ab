----------------------------- MODULE OneStepOff -----------------------------
(***************************************************************************)
(* The one-step-off-policy trainer (verl/recipe/one_step_off_policy/        *)
(* ray_trainer.py): while a batch is trained on, the rollout workers, which *)
(* have weights of their own, generate the next.  The job may die at any    *)
(* time and be launched again on its last checkpoint (CheckpointResume has  *)
(* what happens while one is written; here it is a step).                   *)
(*                                                                         *)
(* Weights are counted: a version is the number of updates of the actor     *)
(* that went into it.                                                      *)
(***************************************************************************)
EXTENDS Integers, Sequences, FiniteSets

CONSTANTS
    BatchesPerEpoch,    \* len(train_dataloader)
    TotalEpochs,
    TotalTrainingSteps,
    CriticWarmup,       \* the actor is not updated before this step
    SaveFreq, TestFreq, \* 0: never
    MaxRestarts,        \* bound
    None

ASSUME LengthsAssumption ==
    /\ BatchesPerEpoch \in Nat \ {0} /\ TotalEpochs \in Nat \ {0}
    /\ TotalTrainingSteps \in Nat \ {0} /\ CriticWarmup \in Nat
    /\ SaveFreq \in Nat /\ TestFreq \in Nat /\ MaxRestarts \in Nat
ASSUME NoneAssumption == None \notin [number : Nat, version : Nat \cup {None}]

VARIABLES
    pc,             \* of fit
    global_steps,
    drawn,          \* batches the loader has yielded, by their number in the data
    left,           \* batches it will still yield in this epoch
    epochs_left,    \* epochs the continuous iterator has yet to start
    actor,          \* version of the actor's weights
    rollout,        \* version of the rollout workers' weights
    batch_data_future,  \* None, or the batch ahead: its number, and the version
                    \* that generated it, None while that runs
    batch,          \* the batch being trained on, likewise; None before the first
    trained,        \* the batches that went into the weights, in order
    val_metrics,    \* of the last validation of a step: the version of the rollout
                    \* workers it measured, that of the actor it is logged for,
                    \* and whether no batch was ahead
    checkpoint,     \* the last one
    restarts

loader == <<drawn, left, epochs_left>>
vars == <<pc, global_steps, loader, actor, rollout, batch_data_future, batch,
          trained, val_metrics, checkpoint, restarts>>

(* No checkpoint yet: training from scratch.                                *)
Scratch == [step |-> 0, actor |-> 0, drawn |-> 0, trained |-> <<>>]

(* init_workers has brought the rollout workers the actor's weights.  The   *)
(* checkpoint is loaded afterwards, so that validation before training (no  *)
(* step of its own here) measures these and not the resumed ones.          *)
Init ==
    /\ pc = "load"
    /\ global_steps = 0
    /\ drawn = 0 /\ left = 0 /\ epochs_left = 0
    /\ actor = 0 /\ rollout = 0
    /\ batch_data_future = None /\ batch = None
    /\ trained = <<>>
    /\ val_metrics = None
    /\ checkpoint = Scratch
    /\ restarts = 0
-----------------------------------------------------------------------------
(* Slips: data.pt is not loaded; generation is launched before the weights   *)
(* are brought.                                                            *)
DrawnAnew == 0
GenerateUnsynced == rollout

(* data.pt: how many batches had been drawn when it was written.            *)
LoadedDrawn == checkpoint.drawn

(* StatefulDataLoader.load_state_dict, external: the rest of an epoch; a    *)
(* state taken after the last batch may yield an empty epoch first.        *)
LoadedLeft(n) ==
    IF n % BatchesPerEpoch # 0 THEN {BatchesPerEpoch - (n % BatchesPerEpoch)}
    ELSE IF n = 0 THEN {BatchesPerEpoch}
    ELSE {0, BatchesPerEpoch}

Divides(freq) == freq > 0 /\ global_steps % freq = 0
IsLastStep == global_steps >= TotalTrainingSteps

(* _load_checkpoint, then fit up to its loop.  The epochs are counted anew. *)
Load ==
    /\ pc = "load"
    /\ pc' = "draw"
    /\ global_steps' = checkpoint.step + 1
    /\ actor' = checkpoint.actor
    /\ trained' = checkpoint.trained
    /\ drawn' = LoadedDrawn
    /\ left' \in LoadedLeft(LoadedDrawn)
    /\ epochs_left' = TotalEpochs - 1
    /\ UNCHANGED <<rollout, batch_data_future, batch, val_metrics, checkpoint,
                   restarts>>

(* sync_rollout_weights in _async_gen_next_batch: the version the next       *)
(* batch is generated with.                                                *)
SyncedVersion == actor

(* _async_gen_next_batch: a batch is drawn, the weights are brought to the   *)
(* rollout workers, and generation is launched.                            *)
GenNextBatch ==
    /\ pc = "draw"
    /\ left > 0 \/ epochs_left > 0
    /\ IF left > 0
       THEN left' = left - 1 /\ UNCHANGED epochs_left
       ELSE left' = BatchesPerEpoch - 1 /\ epochs_left' = epochs_left - 1
    /\ drawn' = drawn + 1
    /\ rollout' = SyncedVersion
    /\ batch_data_future' = [number |-> drawn + 1, version |-> None]
    /\ pc' = IF batch = None THEN "wait" ELSE "train"
    /\ UNCHANGED <<global_steps, actor, batch, trained, val_metrics, checkpoint,
                   restarts>>

(* StopIteration: there is no batch ahead, whatever steps are left.          *)
NoNextBatch ==
    /\ pc = "draw"
    /\ left = 0 /\ epochs_left = 0
    /\ batch_data_future' = None
    /\ pc' = IF batch = None THEN "done" ELSE "train"
    /\ UNCHANGED <<global_steps, loader, actor, rollout, batch, trained,
                   val_metrics, checkpoint, restarts>>

Generating ==
    IF batch_data_future = None THEN FALSE ELSE batch_data_future.version = None

(* async_generate_sequences ends.                                           *)
Generated ==
    /\ Generating
    /\ batch_data_future' = [batch_data_future EXCEPT !.version = rollout]
    /\ UNCHANGED <<pc, global_steps, loader, actor, rollout, batch, trained,
                   val_metrics, checkpoint, restarts>>

(* batch_data_future.get().  In the last step the future is kept, and no     *)
(* batch is drawn.                                                         *)
Get ==
    /\ pc = "wait"
    /\ ~Generating
    /\ batch' = batch_data_future
    /\ pc' = IF IsLastStep THEN "train" ELSE "draw"
    /\ UNCHANGED <<global_steps, loader, actor, rollout, batch_data_future, trained,
                   val_metrics, checkpoint, restarts>>

(* Rewards, log-probs, advantages and the updates; the critic's is in       *)
(* trained only.                                                           *)
Train ==
    /\ pc = "train"
    /\ pc' = "validate"
    /\ actor' = IF CriticWarmup =< global_steps THEN actor + 1 ELSE actor
    /\ trained' = Append(trained, batch.number)
    /\ UNCHANGED <<global_steps, loader, rollout, batch_data_future, batch,
                   val_metrics, checkpoint, restarts>>

(* _validate is a call to the rollout workers, which waits for the           *)
(* generation of the batch ahead.                                          *)
Validate ==
    /\ pc = "validate"
    /\ pc' = "save"
    /\ IF TestFreq > 0 /\ (IsLastStep \/ Divides(TestFreq))
       THEN /\ ~Generating
            /\ val_metrics' = [rollout |-> rollout, actor |-> actor,
                                last |-> IsLastStep \/ batch_data_future = None]
       ELSE UNCHANGED val_metrics
    /\ UNCHANGED <<global_steps, loader, actor, rollout, batch_data_future, batch,
                   trained, checkpoint, restarts>>

(* _save_checkpoint: data.pt has the batch ahead as drawn.  Then the end of  *)
(* the step, and of fit after the last or when there is no batch ahead.    *)
Save ==
    /\ pc = "save"
    /\ checkpoint' = IF SaveFreq > 0 /\ (IsLastStep \/ Divides(SaveFreq))
                     THEN [step |-> global_steps, actor |-> actor,
                           drawn |-> drawn, trained |-> trained]
                     ELSE checkpoint
    /\ global_steps' = global_steps + 1
    /\ pc' = IF IsLastStep \/ batch_data_future = None THEN "done" ELSE "wait"
    /\ UNCHANGED <<loader, actor, rollout, batch_data_future, batch, trained,
                   val_metrics, restarts>>

(* The job dies and is launched again.                                      *)
Restart ==
    /\ pc \notin {"load", "done"}
    /\ restarts < MaxRestarts
    /\ restarts' = restarts + 1
    /\ pc' = "load"
    /\ global_steps' = 0
    /\ drawn' = 0 /\ left' = 0 /\ epochs_left' = 0
    /\ actor' = 0 /\ rollout' = 0
    /\ batch_data_future' = None /\ batch' = None
    /\ trained' = <<>>
    /\ val_metrics' = None
    /\ UNCHANGED checkpoint

Terminated == pc = "done" /\ UNCHANGED vars

Next ==
    \/ Load \/ GenNextBatch \/ NoNextBatch \/ Generated \/ Get \/ Train
    \/ Validate \/ Save \/ Restart \/ Terminated

Spec == Init /\ [][Next]_vars
-----------------------------------------------------------------------------
Data == 1..(BatchesPerEpoch * TotalEpochs * (MaxRestarts + 1))
Updates == 0..(TotalTrainingSteps + MaxRestarts)
Batches == [number : Data, version : Updates \cup {None}]

TypeOK ==
    /\ pc \in {"load", "draw", "wait", "train", "validate", "save", "done"}
    /\ global_steps \in 0..(TotalTrainingSteps + MaxRestarts + 1)
    /\ drawn \in Data \cup {0}
    /\ left \in 0..BatchesPerEpoch /\ epochs_left \in 0..TotalEpochs
    /\ actor \in Updates /\ rollout \in Updates
    /\ batch_data_future \in Batches \cup {None}
    /\ batch \in Batches \cup {None}
    /\ trained \in Seq(Data)
    /\ val_metrics \in [rollout : Updates, actor : Updates, last : BOOLEAN] \cup {None}
    /\ checkpoint \in [step : Nat, actor : Updates, drawn : Data \cup {0},
                       trained : Seq(Data)]
    /\ restarts \in 0..MaxRestarts

(* "Generation and training parameters maintain a one-step off policy": at   *)
(* any step of any launch the rows trained on were made with weights at     *)
(* most one update behind, restarts and the warm-up of the critic included  *)
(* (the order of get, sync, generate and update in fit).  Validation, which *)
(* measures the rollout workers' weights, is one update behind the actor it *)
(* is logged for, and two after the last batch, before which nothing was    *)
(* synchronized.                                                           *)
OneStepOffPolicy ==
    /\ pc = "train" => actor - batch.version \in {0, 1}
    /\ val_metrics # None =>
          val_metrics.actor - val_metrics.rollout \in
              IF val_metrics.last THEN {0, 1, 2} ELSE {0, 1}

Skipped == {n \in Data : /\ n \notin {trained[i] : i \in DOMAIN trained}
                         /\ \E i \in DOMAIN trained : n < trained[i]}

TrainedInOrder == \A i, j \in DOMAIN trained : i < j => trained[i] < trained[j]

(* What a restart costs: no batch is ever trained on twice or out of order;  *)
(* each restart skips at most one batch, the one that was ahead when the    *)
(* checkpoint was saved, and the run ends at most one step short for each   *)
(* (data.pt in _save_checkpoint, StopIteration in _async_gen_next_batch).   *)
CostOfRestart ==
    /\ TrainedInOrder
    /\ Cardinality(Skipped) =< restarts
    /\ (pc = "done" /\ TotalTrainingSteps =< BatchesPerEpoch * TotalEpochs)
          => Len(trained) + restarts >= TotalTrainingSteps
=============================================================================
