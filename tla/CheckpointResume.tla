-------------------------- MODULE CheckpointResume --------------------------
(***************************************************************************)
(* Saving, rotating and resuming checkpoints in the PPO trainer            *)
(* (verl/verl/trainer/ppo/ray_trainer.py, with the FSDP checkpoint manager *)
(* of verl/verl/utils/checkpoint/).  The job may die between any two       *)
(* writes, or in the middle of one, and be launched again on what the disk *)
(* then holds.                                                             *)
(*                                                                         *)
(* A model is the sequence of its updates.  An update is the batch, by its  *)
(* number in the data order, and the launch of the job that made it: two   *)
(* launches sample different rollouts for the same batch.                  *)
(***************************************************************************)
EXTENDS Integers, Sequences

CONSTANTS
    Parts,              \* what is saved with a manager: actor, and critic if used
    FirstPart,          \* the actor, saved first
    Ranks,              \* the workers, each of which writes its own shard
    BatchesPerEpoch,    \* len(train_dataloader)
    TotalEpochs,
    TotalTrainingSteps,
    SaveFreq,           \* 0: never save
    Keep,               \* [Parts -> Nat]: max_*_ckpt_to_keep, 0 for None
    ResumeModes,        \* the modes launches of the job may use
    EsiMayExpire,       \* whether the ESI deadline may force a save
    MaxRestarts         \* bound: crashes and launches of a finished job

ASSUME PartsAssumption ==
    FirstPart \in Parts /\ \A p, q \in Parts \ {FirstPart} : p = q
ASSUME RanksAssumption == Ranks # {}
ASSUME LengthsAssumption ==
    /\ BatchesPerEpoch \in Nat \ {0}
    /\ TotalEpochs \in Nat \ {0}
    /\ TotalTrainingSteps \in Nat \ {0}
    /\ SaveFreq \in Nat
    /\ MaxRestarts \in Nat
ASSUME KeepAssumption == Keep \in [Parts -> Nat]
ASSUME ModesAssumption == ResumeModes \subseteq {"auto", "disable", "resume_path"}

VARIABLES
    \* on disk
    folders,      \* steps with a directory global_step_<n>
    shards,       \* readable shards: records [part, step, rank, model]
    dataFiles,    \* data.pt files: records [step, drawn], drawn = Torn when cut short
    tracker,      \* latest_checkpointed_iteration.txt: a step, NoTracker or Garbled
    \* in the job
    pc,
    global_steps,
    weights,      \* [Parts \X Ranks -> model]
    drawn,        \* batches the data loader has yielded, over all epochs
    left,         \* batches it will still yield in this epoch
    epochs_left,  \* epochs the outer loop has yet to start
    part,         \* the part being saved
    written,      \* ranks that have written their shard of it
    saved,        \* previous_saved_paths of each manager, as steps
    restarts

disk == <<folders, shards, dataFiles, tracker>>
loader == <<drawn, left, epochs_left>>
vars == <<disk, pc, global_steps, weights, loader, part, written, saved, restarts>>

NoTracker == 0
Garbled == -1
Torn == -1

Init ==
    /\ folders = {} /\ shards = {} /\ dataFiles = {}
    /\ tracker = NoTracker
    /\ pc = "down"
    /\ global_steps = 0
    /\ weights = [w \in Parts \X Ranks |-> <<>>]
    /\ drawn = 0 /\ left = 0 /\ epochs_left = 0
    /\ part = FirstPart
    /\ written = {}
    /\ saved = [p \in Parts |-> <<>>]
    /\ restarts = 0
-----------------------------------------------------------------------------
(* Slips the properties below are meant to catch: the first step after a    *)
(* load not counted up, the data loader always started afresh, its place    *)
(* not taken modulo the epoch, a rotation that spares no checkpoint, a last *)
(* step one too early, a rank that never writes and never gets to the       *)
(* barrier.                                                                *)
StepAfterLoadNotCounted(s) == s
LoadedDrawnFromScratch(s) == 0
LoadedLeftNoModulo(n) == {BatchesPerEpoch - n}
RemoveAll(p) == IF Keep[p] > 0 THEN Len(saved[p]) ELSE 0
LastStepEarly == global_steps + 1 >= TotalTrainingSteps
EveryoneButOne(r) == r # CHOOSE q \in Ranks : TRUE

Shard(p, s, r) == {f \in shards : f.part = p /\ f.step = s /\ f.rank = r}
DataFile(s) == {d \in dataFiles : d.step = s}

(* Training counts the step after the one it resumes from.                 *)
StepAfterLoad(s) == s + 1

(* Without data.pt the loader starts from scratch.                         *)
LoadedDrawn(s) ==
    IF DataFile(s) = {} THEN 0 ELSE (CHOOSE d \in DataFile(s) : TRUE).drawn

(* StatefulDataLoader.load_state_dict, external: the rest of an epoch; a    *)
(* state taken after the last batch may yield an empty epoch first.        *)
LoadedLeft(n) ==
    IF n % BatchesPerEpoch # 0 THEN {BatchesPerEpoch - (n % BatchesPerEpoch)}
    ELSE IF n = 0 THEN {BatchesPerEpoch}
    ELSE {0, BatchesPerEpoch}

(* The training loop starts with the given step, models and loader.        *)
StartTraining(g, w, n) ==
    /\ pc' = "train"
    /\ global_steps' = g
    /\ weights' = w
    /\ drawn' = n
    /\ left' \in LoadedLeft(n)
    /\ epochs_left' = TotalEpochs - 1

FromScratch == StartTraining(StepAfterLoad(0), [w \in Parts \X Ranks |-> <<>>], 0)

(* A shard that is missing or a file cut short makes torch.load raise.     *)
Loadable(s) ==
    /\ \A p \in Parts, r \in Ranks : Shard(p, s, r) # {}
    /\ LoadedDrawn(s) # Torn

LoadFails ==
    /\ pc' = "failed"
    /\ UNCHANGED <<global_steps, weights, loader>>

LoadFrom(s) ==
    IF Loadable(s)
    THEN StartTraining(StepAfterLoad(s),
                       [w \in Parts \X Ranks |->
                           (CHOOSE f \in Shard(w[1], s, w[2]) : TRUE).model],
                       LoadedDrawn(s))
    ELSE LoadFails

(* find_latest_ckpt_path parses the tracker before the mode is looked at;   *)
(* int("") raises.                                                         *)
Resume(mode) ==
    IF tracker = Garbled THEN LoadFails
    ELSE \/ mode = "auto" /\ tracker \notin folders /\ FromScratch
         \/ mode = "auto" /\ tracker \in folders /\ LoadFrom(tracker)
         \/ mode = "resume_path" /\ \E s \in folders : LoadFrom(s)

(* The job is launched: _load_checkpoint, then fit up to the epoch loop.    *)
Launch ==
    /\ pc = "down"
    /\ \E mode \in ResumeModes :
           IF mode = "disable" THEN FromScratch ELSE Resume(mode)
    /\ UNCHANGED <<disk, part, written, saved, restarts>>
-----------------------------------------------------------------------------
(* The loop over the loader ends: the next epoch, or the end of fit.        *)
NextEpoch ==
    /\ pc = "train" /\ left = 0
    /\ IF epochs_left > 0
       THEN /\ epochs_left' = epochs_left - 1
            /\ left' = BatchesPerEpoch
            /\ UNCHANGED pc
       ELSE pc' = "done" /\ UNCHANGED <<left, epochs_left>>
    /\ UNCHANGED <<disk, global_steps, weights, drawn, part, written, saved, restarts>>

LastStep == global_steps >= TotalTrainingSteps

(* The end of a step: it is counted, and after the last one fit returns.    *)
EndStep ==
    /\ global_steps' = global_steps + 1
    /\ pc' = IF LastStep THEN "done" ELSE "train"

SaveDue(esi) ==
    SaveFreq > 0 /\ (LastStep \/ global_steps % SaveFreq = 0 \/ esi)

Update == [batch |-> drawn + 1, launch |-> restarts]

(* One iteration: a batch is drawn, every model is updated (critic_warmup   *)
(* is 0, as by default), and a save is begun or the step ends.             *)
TrainStep ==
    /\ pc = "train" /\ left > 0
    /\ drawn' = drawn + 1
    /\ left' = left - 1
    /\ weights' = [w \in Parts \X Ranks |-> Append(weights[w], Update)]
    /\ \E esi \in {FALSE, EsiMayExpire} :
           IF SaveDue(esi)
           THEN pc' = "rotate" /\ part' = FirstPart /\ UNCHANGED global_steps
           ELSE EndStep /\ UNCHANGED part
    /\ UNCHANGED <<disk, epochs_left, written, saved, restarts>>
-----------------------------------------------------------------------------
(* save_checkpoint of one manager.  How many of its oldest paths go: all    *)
(* that leave no room for the new one.                                     *)
Excess(p) ==
    IF Keep[p] > 0 /\ Len(saved[p]) >= Keep[p]
    THEN Len(saved[p]) - Keep[p] + 1
    ELSE 0

Victims(p) == {saved[p][i] : i \in 1..Excess(p)}

(* Rank 0 removes what exceeds, before anything new is written, and the     *)
(* directories are made; the barrier then lets every rank write.           *)
Rotate ==
    /\ pc = "rotate"
    /\ shards' = {f \in shards : ~(f.part = part /\ f.step \in Victims(part))}
    /\ saved' = [saved EXCEPT ![part] = SubSeq(@, Excess(part) + 1, Len(@))]
    /\ folders' = folders \cup {global_steps}
    /\ written' = {}
    /\ pc' = "write"
    /\ UNCHANGED <<dataFiles, tracker, global_steps, weights, loader, part, restarts>>

(* "every rank will save its own model and optim shard"                     *)
MustWrite(r) == r \in Ranks

(* A rank writes its shard over whatever bears the same name.              *)
WriteShard(r) ==
    /\ pc = "write" /\ r \notin written /\ MustWrite(r)
    /\ shards' = (shards \ Shard(part, global_steps, r)) \cup
                 {[part |-> part, step |-> global_steps, rank |-> r,
                   model |-> weights[<<part, r>>]]}
    /\ written' = written \cup {r}
    /\ UNCHANGED <<folders, dataFiles, tracker, pc, global_steps, weights, loader,
                   part, saved, restarts>>

(* Past the last barrier the path is remembered; then the critic's turn.    *)
PartSaved ==
    /\ pc = "write" /\ written = Ranks
    /\ saved' = [saved EXCEPT ![part] = Append(@, global_steps)]
    /\ IF part = FirstPart /\ Parts # {FirstPart}
       THEN \E p \in Parts \ {FirstPart} : part' = p /\ pc' = "rotate"
       ELSE pc' = "data" /\ UNCHANGED part
    /\ UNCHANGED <<disk, global_steps, weights, loader, written, restarts>>

SaveData ==
    /\ pc = "data"
    /\ dataFiles' = (dataFiles \ DataFile(global_steps)) \cup
                    {[step |-> global_steps, drawn |-> drawn]}
    /\ pc' = "tracker"
    /\ UNCHANGED <<folders, shards, tracker, global_steps, weights, loader, part,
                   written, saved, restarts>>

(* The tracker file is written last, and the step ends.                    *)
SaveTracker ==
    /\ pc = "tracker"
    /\ tracker' = global_steps
    /\ EndStep
    /\ UNCHANGED <<folders, shards, dataFiles, weights, loader, part, written,
                   saved, restarts>>
-----------------------------------------------------------------------------
(* What a crash may cut short: the directories being removed, the shards    *)
(* being written, data.pt, or the tracker, which open("w") has emptied.     *)
HalfRemoved == {f \in shards : pc = "rotate" /\ f.part = part /\ f.step \in Victims(part)}
HalfWritten == {f \in shards : /\ pc = "write" /\ f.part = part
                               /\ f.step = global_steps /\ f.rank \notin written}

JobLost ==
    /\ pc' = "down"
    /\ global_steps' = 0
    /\ weights' = [w \in Parts \X Ranks |-> <<>>]
    /\ drawn' = 0 /\ left' = 0 /\ epochs_left' = 0
    /\ part' = FirstPart
    /\ written' = {}
    /\ saved' = [p \in Parts |-> <<>>]
    /\ restarts' = restarts + 1

Crash ==
    /\ pc \notin {"down", "done", "failed"}
    /\ restarts < MaxRestarts
    /\ JobLost
    /\ \E torn \in SUBSET (HalfRemoved \cup HalfWritten) : shards' = shards \ torn
    /\ dataFiles' \in
           {dataFiles} \cup (IF pc = "data"
                             THEN {(dataFiles \ DataFile(global_steps)) \cup
                                   {[step |-> global_steps, drawn |-> Torn]}}
                             ELSE {})
    /\ tracker' \in {tracker} \cup (IF pc = "tracker" THEN {Garbled} ELSE {})
    /\ folders' \in {folders} \cup (IF pc = "rotate" THEN {folders \cup {global_steps}}
                                    ELSE {})

(* A job that has returned is launched again.                              *)
Relaunch ==
    /\ pc = "done" /\ restarts < MaxRestarts
    /\ JobLost
    /\ UNCHANGED disk

Work ==
    \/ NextEpoch \/ TrainStep \/ Rotate \/ PartSaved \/ SaveData \/ SaveTracker
    \/ \E r \in Ranks : WriteShard(r)

Next == Launch \/ Work \/ Crash \/ Relaunch

Spec == Init /\ [][Next]_vars

(* The job runs on while it is alive; nobody need launch it again.          *)
FairSpec == Spec /\ WF_vars(Work)
-----------------------------------------------------------------------------
Steps == 1..(TotalTrainingSteps + MaxRestarts)
Updates == [batch : Steps, launch : 0..MaxRestarts]

TypeOK ==
    /\ folders \subseteq Steps
    /\ \A f \in shards : /\ f.part \in Parts /\ f.step \in folders /\ f.rank \in Ranks
                         /\ f.model \in Seq(Updates)
    /\ \A d \in dataFiles : d.step \in folders /\ d.drawn \in Nat \cup {Torn}
    /\ tracker \in folders \cup {NoTracker, Garbled}
    /\ pc \in {"down", "train", "rotate", "write", "data", "tracker", "done", "failed"}
    /\ global_steps \in Nat
    /\ weights \in [Parts \X Ranks -> Seq(Updates)]
    /\ drawn \in Nat /\ left \in 0..BatchesPerEpoch /\ epochs_left \in 0..TotalEpochs
    /\ part \in Parts /\ written \subseteq Ranks
    /\ saved \in [Parts -> Seq(folders)]
    /\ restarts \in 0..MaxRestarts

InSave == pc \in {"rotate", "write", "data", "tracker"}
Training == pc = "train" \/ InSave

(* Batches trained on so far by a job that is alive.                       *)
Trained == IF InSave THEN global_steps ELSE global_steps - 1

(* The model has been trained on the batches 1 to n, in order.             *)
InOrder(m, n) == Len(m) = n /\ \A i \in 1..n : m[i].batch = i

HasSavedModel(s, m) ==
    \A p \in Parts, r \in Ranks : {f.model : f \in Shard(p, s, r)} = {m}

(* Whatever the moment of a crash, the step the tracker names has a shard   *)
(* of every rank and part, all of one and the same model after exactly that *)
(* many batches in order, and a data.pt that goes on with the next batch    *)
(* (the comment on line 3308: the tracker is there "for atomic usage").     *)
TrackerNamesWholeCheckpoint ==
    tracker > 0 =>
        /\ \E f \in shards : HasSavedModel(tracker, f.model) /\ InOrder(f.model, tracker)
        /\ {d.drawn : d \in DataFile(tracker)} = {tracker}

(* Through any number of crashes and resumes every model has been trained   *)
(* on the batches 1, 2, ... in order, none skipped and none repeated, and   *)
(* the loader is about to yield the next one.                              *)
NoBatchSkippedOrRepeated ==
    (Training \/ pc = "done") =>
        /\ drawn = Trained
        /\ \A w \in Parts \X Ranks : InOrder(weights[w], drawn)

(* A job that returns has done its training steps and, if it saves at all,  *)
(* left a checkpoint of the end behind, however often it was interrupted.   *)
DoneMeansTrained ==
    (pc = "done" /\ TotalTrainingSteps <= BatchesPerEpoch * TotalEpochs) =>
        /\ Trained >= TotalTrainingSteps
        /\ SaveFreq > 0 => tracker >= TotalTrainingSteps

(* In every mode a model has been updated as often as its step number says. *)
StepCountsUpdates ==
    Training => \A w \in Parts \X Ranks : Len(weights[w]) = Trained

(* A job left alone comes to rest: it returns, fails to start or has died.  *)
Settles == <>[](pc \in {"done", "failed", "down"})
=============================================================================
