-------------------------- MODULE ValidationHandoff --------------------------
(***************************************************************************)
(* How validation results reach the trainer in the fully asynchronous      *)
(* recipe.  The rollouter validates inside update_param_version            *)
(* (fully_async_rollouter.py), which the synchronizer launches and does not *)
(* wait for (param_sync.py), and puts the result into the validation queue *)
(* (message_queue.py); the trainer takes one result after each step, and   *)
(* decides by the last one whether to validate once more at the end        *)
(* (fully_async_trainer.py).  Samples, pauses and locks are in FullyAsync, *)
(* where every configuration makes the last synchronization.               *)
(*                                                                         *)
(* Weights are counted: they are the number of training steps in them, and *)
(* stand for the metrics of a validation that measured them.               *)
(***************************************************************************)
EXTENDS Integers, Sequences

CONSTANTS
    Triggers,           \* values of trigger_parameter_sync_step
    TestFreqs,          \* values of rollout.test_freq; 0: never
    MaxSteps,           \* bound: training steps the samples are enough for
    None

ASSUME HandoffAssumption ==
    /\ Triggers \subseteq Nat \ {0} /\ TestFreqs \subseteq Nat
    /\ MaxSteps \in Nat
    /\ None \notin Nat
    /\ None \notin [param_version : Nat, metrics : Nat \cup {None}]
    /\ None \notin [version : Nat, validate : BOOLEAN, put : BOOLEAN]

VARIABLES
    trigger_parameter_sync_step, test_freq,     \* of the configuration
    trainerPc,
    steps,                  \* training steps done, global_steps - 1
    local_trigger_step,
    current_param_version,  \* the trainer's
    ending,                 \* the loop of fit is over
    rollout_weights,        \* what the generation servers have
    update,                 \* the call of update_param_version under way, or None;
                            \* put: it has put its result
    val_queue,
    val_data,               \* the trainer's last answer from get_validate
    logged                  \* results logged (history variable)

config == <<trigger_parameter_sync_step, test_freq>>
rollouter == <<rollout_weights, update>>
vars == <<config, trainerPc, steps, local_trigger_step, current_param_version,
          ending, rollouter, val_queue, val_data, logged>>

ValidateMetrics(version, metrics) == [param_version |-> version, metrics |-> metrics]

(* main has synchronized version 0 and waited for it; val_before_train says  *)
(* whether this included a validation.                                     *)
Init ==
    /\ trigger_parameter_sync_step \in Triggers
    /\ test_freq \in TestFreqs
    /\ trainerPc = "poll"
    /\ steps = 0
    /\ local_trigger_step = 1
    /\ current_param_version = 0
    /\ ending = FALSE
    /\ rollout_weights = 0
    /\ update = None
    /\ \E metrics \in {None, 0} : val_queue = <<ValidateMetrics(0, metrics)>>
    /\ val_data = None
    /\ logged = <<>>
-----------------------------------------------------------------------------
(* The rollouter.                                                          *)

Due(version) == test_freq > 0 /\ version > 0 /\ version % test_freq = 0

(* update_param_version validates what the servers have, when the version is *)
(* due or the trainer has asked for it, and puts the result, which is empty *)
(* if it did not.                                                          *)
PutValidate ==
    /\ update # None
    /\ ~update.put
    /\ val_queue' = Append(val_queue,
           ValidateMetrics(update.version,
               IF Due(update.version) \/ update.validate THEN rollout_weights ELSE None))
    /\ update' = [update EXCEPT !.put = TRUE]
    /\ UNCHANGED <<config, trainerPc, steps, local_trigger_step, current_param_version,
                   ending, rollout_weights, val_data, logged>>

(* update_param_version, and the resume that follows it, return.            *)
UpdateReturns ==
    /\ update # None
    /\ update.put
    /\ update' = None
    /\ UNCHANGED <<config, trainerPc, steps, local_trigger_step, current_param_version,
                   ending, rollout_weights, val_queue, val_data, logged>>
-----------------------------------------------------------------------------
(* The trainer.                                                            *)

(* Slips: the newest result is taken; a result without metrics passes for a  *)
(* validation; the results before training are not fetched.                *)
TakeNewest == Len(val_queue)
AnyResultWillDo == val_data = None

(* get_validate: popleft.                                                  *)
Taken == 1
Without(s, i) == SubSeq(s, 1, i - 1) \o SubSeq(s, i + 1, Len(s))

(* get_validate_sync, and what there is is logged.                          *)
GetValidate ==
    IF val_queue = <<>>
    THEN val_data' = None /\ UNCHANGED <<val_queue, logged>>
    ELSE /\ val_data' = val_queue[Taken]
         /\ val_queue' = Without(val_queue, Taken)
         /\ logged' = Append(logged, val_queue[Taken])

(* A result is asked for before training, after each step, and at the end,   *)
(* there after the synchronization has been waited for.                    *)
Poll ==
    /\ trainerPc = "poll"
    /\ ending => update = None
    /\ GetValidate
    /\ trainerPc' = IF ending THEN "done" ELSE "train"
    /\ UNCHANGED <<config, steps, local_trigger_step, current_param_version, ending,
                   rollouter>>

TriggerDue == local_trigger_step >= trigger_parameter_sync_step

(* A step, then _trigger_parameter_sync_after_step.                         *)
TrainStep ==
    /\ trainerPc = "train"
    /\ steps < MaxSteps
    /\ steps' = steps + 1
    /\ IF TriggerDue
       THEN /\ local_trigger_step' = 1
            /\ current_param_version' = current_param_version + 1
            /\ trainerPc' = "sync"
       ELSE /\ local_trigger_step' = local_trigger_step + 1
            /\ trainerPc' = "poll"
            /\ UNCHANGED current_param_version
    /\ UNCHANGED <<config, ending, rollouter, val_queue, val_data, logged>>

NeedsLastValidation == val_data = None \/ val_data.metrics = None

(* There are no samples for another step.  The last result seen decides      *)
(* whether to synchronize and validate once more.                          *)
EndOfSamples ==
    /\ trainerPc = "train"
    /\ ending' = TRUE
    /\ IF NeedsLastValidation
       THEN /\ current_param_version' = current_param_version + 1
            /\ local_trigger_step' = 1
            /\ trainerPc' = "sync"
       ELSE /\ trainerPc' = "done"
            /\ UNCHANGED <<current_param_version, local_trigger_step>>
    /\ UNCHANGED <<config, steps, rollouter, val_queue, val_data, logged>>

ValidateRequested == ending

(* wait_last_valid, then sync_weights: the servers get the weights, and the  *)
(* update is launched.                                                     *)
SyncWeights ==
    /\ trainerPc = "sync"
    /\ update = None
    /\ rollout_weights' = steps
    /\ update' = [version |-> current_param_version, validate |-> ValidateRequested,
                  put |-> FALSE]
    /\ trainerPc' = "poll"
    /\ UNCHANGED <<config, steps, local_trigger_step, current_param_version, ending,
                   val_queue, val_data, logged>>

Terminated == trainerPc = "done" /\ update = None /\ UNCHANGED vars

Next ==
    \/ PutValidate \/ UpdateReturns
    \/ Poll \/ TrainStep \/ EndOfSamples \/ SyncWeights
    \/ Terminated

Spec == Init /\ [][Next]_vars
-----------------------------------------------------------------------------
Results == [param_version : Nat, metrics : Nat \cup {None}]

TypeOK ==
    /\ trigger_parameter_sync_step \in Triggers /\ test_freq \in TestFreqs
    /\ trainerPc \in {"poll", "train", "sync", "done"}
    /\ steps \in Nat /\ rollout_weights \in Nat
    /\ local_trigger_step \in 1..trigger_parameter_sync_step
    /\ current_param_version \in Nat
    /\ ending \in BOOLEAN
    /\ update \in [version : Nat, validate : BOOLEAN, put : BOOLEAN] \cup {None}
    /\ val_queue \in Seq(Results) /\ logged \in Seq(Results)
    /\ val_data \in Results \cup {None}

(* Although updates are not waited for and a step takes one result at most,  *)
(* the results are logged one per version, none left out, repeated or       *)
(* overtaken, a step begins with the trainer at most one version behind in   *)
(* them, and metrics of version v measured the weights of                  *)
(* v * trigger_parameter_sync_step steps, save that the last version comes  *)
(* early (put_validate and get_validate, wait_last_valid, fit).             *)
ResultsKeepUp ==
    /\ \A i \in DOMAIN logged : logged[i].param_version = i - 1
    /\ trainerPc = "train" => Len(logged) \in {current_param_version, current_param_version + 1}
    /\ \A i \in DOMAIN logged :
          LET e == logged[i] IN
          e.metrics # None =>
              \/ e.metrics = e.param_version * trigger_parameter_sync_step
              \/ /\ ending /\ e.param_version = current_param_version
                 /\ e.metrics = steps

Known == {logged[i].metrics : i \in DOMAIN logged}
             \cup {val_queue[i].metrics : i \in DOMAIN val_queue}

(* When the trainer is done, weights of less than two synchronizations ago   *)
(* have been validated; and the trained weights themselves have been, unless *)
(* the trainer holds the metrics of an older validation.  (Their result may  *)
(* be in the queue still, where nobody looks: the trainer takes the oldest   *)
(* and is done.  End of fit.)                                              *)
FinalValidation ==
    trainerPc = "done" =>
        /\ \E w \in Known \ {None} : w > steps - 2 * trigger_parameter_sync_step
        /\ steps \in Known \/ (val_data # None /\ val_data.metrics # None)
        /\ Len(val_queue) =< 1
=============================================================================
