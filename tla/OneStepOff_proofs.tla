------------------------- MODULE OneStepOff_proofs -------------------------
(***************************************************************************)
(* For every number of steps and epochs and every frequency, and whatever  *)
(* the restarts: the trainer stays one step off policy, trains on the       *)
(* batches in order, and loses one batch and one step to each restart.      *)
(***************************************************************************)
EXTENDS OneStepOff, TLAPS, FiniteSetTheorems

BatchOrNone == [number : Nat, version : Nat \cup {None}]

(* What the versions rest on has its type, and a batch that has been        *)
(* generated was generated with the weights the rollout workers still have. *)
Typed ==
    /\ pc \in {"load", "draw", "wait", "train", "validate", "save", "done"}
    /\ global_steps \in Nat /\ checkpoint.step \in Nat
    /\ drawn \in Nat /\ checkpoint.drawn \in Nat
    /\ actor \in Nat /\ rollout \in Nat /\ checkpoint.actor \in Nat
    /\ batch_data_future \in BatchOrNone \cup {None}
    /\ batch_data_future # None => batch_data_future.version \in {None, rollout}

Ahead == ~IsLastStep /\ batch_data_future # None
Lag(n) == actor - rollout \in 0..n

(* How far the actor is before the rollout workers, place by place: their   *)
(* weights are brought before the update, unless no batch is ahead.        *)
LagInv ==
    /\ pc = "load" => batch = None
    /\ pc = "wait" => batch_data_future # None /\ Lag(1)
    /\ (pc = "draw" /\ batch # None) =>
          ~IsLastStep /\ batch \in BatchOrNone /\ batch.version = rollout /\ Lag(1)
    /\ pc = "train" =>
          /\ batch \in BatchOrNone /\ batch.version \in Nat
          /\ actor - batch.version \in 0..1
          /\ IF Ahead THEN Lag(0) ELSE Lag(1)
    /\ pc \in {"validate", "save"} => IF Ahead THEN Lag(1) ELSE Lag(2)

ScoreInv ==
    val_metrics # None =>
        val_metrics.actor - val_metrics.rollout \in
            IF val_metrics.last THEN {0, 1, 2} ELSE {0, 1}

LEMMA InitLag == Init => Typed /\ LagInv /\ ScoreInv
  BY LengthsAssumption DEF Init, Typed, LagInv, ScoreInv, Scratch

(* The batch ahead is a record, never taken for None.                       *)
LEMMA NotNone == ASSUME NEW b \in BatchOrNone PROVE b # None
  BY NoneAssumption DEF BatchOrNone

LEMMA NextTyped ==
  ASSUME Typed, [Next]_vars
  PROVE  Typed'
<1> USE LengthsAssumption DEF Typed
<1>1. CASE Load
  BY <1>1 DEF Load, LoadedDrawn
<1>2. CASE GenNextBatch
  <2>1. [number |-> drawn + 1, version |-> None] \in BatchOrNone
    BY DEF BatchOrNone
  <2> QED
    BY <1>2, <2>1 DEF GenNextBatch, SyncedVersion
<1>3. CASE NoNextBatch
  BY <1>3 DEF NoNextBatch, loader
<1>4. CASE Generated
  <2>1. batch_data_future' \in BatchOrNone /\ batch_data_future'.version = rollout
    BY <1>4 DEF Generated, Generating, BatchOrNone
  <2> QED
    BY <1>4, <2>1 DEF Generated, loader
<1>5. CASE Get
  BY <1>5 DEF Get, loader
<1>6. CASE Train
  BY <1>6 DEF Train, loader
<1>7. CASE Validate
  BY <1>7 DEF Validate, loader
<1>8. CASE Save
  BY <1>8 DEF Save, loader
<1>9. CASE Restart
  BY <1>9 DEF Restart
<1>10. CASE UNCHANGED vars
  BY <1>10 DEF vars, loader
<1> QED
  BY <1>1, <1>2, <1>3, <1>4, <1>5, <1>6, <1>7, <1>8, <1>9, <1>10 DEF Next, Terminated

LEMMA NextLag ==
  ASSUME Typed, Typed', LagInv, [Next]_vars
  PROVE  LagInv'
<1> USE LengthsAssumption DEF LagInv, Lag, Ahead, IsLastStep
<1>1. CASE Load
  BY <1>1 DEF Load, Typed
<1>2. CASE GenNextBatch
  <2>1. [number |-> drawn + 1, version |-> None] # None
    BY NotNone DEF Typed, BatchOrNone
  <2>2. rollout' = actor /\ actor' = actor /\ pc' \in {"wait", "train"}
    BY <1>2 DEF GenNextBatch, SyncedVersion
  <2>3. pc' = "train" => batch # None /\ batch' = batch
    BY <1>2 DEF GenNextBatch
  <2> QED
    BY <1>2, <2>1, <2>2, <2>3 DEF GenNextBatch, Typed
<1>3. CASE NoNextBatch
  BY <1>3 DEF NoNextBatch, Typed
<1>4. CASE Generated
  <2>1. batch_data_future # None /\ batch_data_future' # None
    BY <1>4, NotNone DEF Generated, Generating, Typed, BatchOrNone
  <2> QED
    BY <1>4, <2>1 DEF Generated, Typed
<1>5. CASE Get
  <2>1. batch_data_future \in BatchOrNone /\ batch_data_future.version = rollout
    BY <1>5 DEF Get, Generating, Typed
  <2> QED
    BY <1>5, <2>1 DEF Get, Typed
<1>6. CASE Train
  BY <1>6 DEF Train, Typed
<1>7. CASE Validate
  BY <1>7 DEF Validate, Typed
<1>8. CASE Save
  BY <1>8 DEF Save, Typed
<1>9. CASE Restart
  BY <1>9 DEF Restart
<1>10. CASE UNCHANGED vars
  BY <1>10 DEF vars
<1> QED
  BY <1>1, <1>2, <1>3, <1>4, <1>5, <1>6, <1>7, <1>8, <1>9, <1>10 DEF Next, Terminated

LEMMA NextScore ==
  ASSUME Typed, LagInv, ScoreInv, [Next]_vars
  PROVE  ScoreInv'
<1>1. CASE Validate
  <2>1. CASE UNCHANGED val_metrics
    BY <2>1 DEF ScoreInv
  <2>2. CASE val_metrics' = [rollout |-> rollout, actor |-> actor, last |-> ~Ahead]
    <3>1. val_metrics'.last = ~Ahead
      BY <2>2
    <3>2. val_metrics'.actor - val_metrics'.rollout = actor - rollout
      BY <2>2
    <3>3. IF Ahead THEN Lag(1) ELSE Lag(2)
      BY <1>1 DEF Validate, LagInv
    <3>4. CASE Ahead
      <4>1. ~val_metrics'.last
        BY <3>1, <3>4
      <4>2. actor - rollout \in {0, 1}
        BY <3>3, <3>4 DEF Lag, Typed
      <4> QED
        BY <3>2, <4>1, <4>2 DEF ScoreInv
    <3>5. CASE ~Ahead
      <4>1. val_metrics'.last
        BY <3>1, <3>5
      <4>2. actor - rollout \in {0, 1, 2}
        BY <3>3, <3>5 DEF Lag, Typed
      <4> QED
        BY <3>2, <4>1, <4>2 DEF ScoreInv
    <3> QED
      BY <3>4, <3>5
  <2>3. (IsLastStep \/ batch_data_future = None) = ~Ahead
    BY DEF Ahead
  <2> QED
    BY <1>1, <2>1, <2>2, <2>3 DEF Validate
<1>2. CASE UNCHANGED val_metrics
  BY <1>2 DEF ScoreInv
<1>3. CASE Restart
  BY <1>3 DEF Restart, ScoreInv
<1> QED
  BY <1>1, <1>2, <1>3 DEF Next, Load, GenNextBatch, NoNextBatch, Generated, Get,
     Train, Save, Terminated, vars

(* The rows of every step, and the scores logged for it, come from weights  *)
(* at most one update behind, two for the last scores (fit,                 *)
(* _async_gen_next_batch).                                                 *)
THEOREM StaysOneStepOff == Spec => []OneStepOffPolicy
<1>1. Typed /\ LagInv /\ ScoreInv => OneStepOffPolicy
  BY DEF Typed, LagInv, ScoreInv, OneStepOffPolicy
<1>2. Typed /\ LagInv /\ ScoreInv /\ [Next]_vars => (Typed /\ LagInv /\ ScoreInv)'
  BY NextTyped, NextLag, NextScore
<1> QED
  BY <1>1, <1>2, InitLag, PTL DEF Spec
-----------------------------------------------------------------------------
(* The batches, by their numbers.                                           *)

InOrder(s, n) ==
    /\ s \in Seq(Nat)
    /\ \A i \in DOMAIN s : s[i] =< n
    /\ \A i, j \in DOMAIN s : i < j => s[i] < s[j]

(* What has been trained on comes before the batch being trained on, and    *)
(* that before the batch ahead, the last one drawn.                        *)
OrderInv ==
    /\ InOrder(trained, drawn) /\ InOrder(checkpoint.trained, checkpoint.drawn)
    /\ pc = "wait" => /\ batch_data_future.number = drawn
                      /\ \A i \in DOMAIN trained : trained[i] < drawn
    /\ pc \in {"draw", "train"} /\ batch # None =>
          /\ batch.number \in Nat /\ batch.number =< drawn
          /\ \A i \in DOMAIN trained : trained[i] < batch.number
    /\ pc = "train" => batch # None
    /\ pc \in {"train", "validate", "save"} /\ Ahead =>
          /\ batch_data_future.number = drawn
          /\ pc = "train" => batch.number < drawn
          /\ pc # "train" => \A i \in DOMAIN trained : trained[i] < drawn

LEMMA AppendInOrder ==
  ASSUME NEW s, NEW n \in Nat, NEW b \in Nat, b =< n, InOrder(s, n),
         \A i \in DOMAIN s : s[i] < b
  PROVE  /\ InOrder(Append(s, b), n)
         /\ \A i \in DOMAIN Append(s, b) : Append(s, b)[i] =< b
<1> DEFINE t == Append(s, b)
<1>1. s \in Seq(Nat) /\ t \in Seq(Nat) /\ Len(t) = Len(s) + 1
  BY DEF InOrder
<1>2. DOMAIN s = 1..Len(s) /\ DOMAIN t = 1..(Len(s) + 1) /\ Len(s) \in Nat
  BY <1>1
<1>3. t[Len(s) + 1] = b /\ \A i \in 1..Len(s) : t[i] = s[i] /\ s[i] \in Nat
  BY <1>1
<1>4. \A i \in 1..(Len(s) + 1) : i = Len(s) + 1 \/ i \in 1..Len(s)
  BY <1>2
<1>5. \A i, j \in DOMAIN s : i < j => s[i] < s[j]
  BY DEF InOrder
<1> HIDE DEF t
<1>6. \A i \in DOMAIN t : t[i] =< b
  BY <1>2, <1>3, <1>4
<1>7. \A i, j \in DOMAIN t : i < j => t[i] < t[j]
  BY <1>2, <1>3, <1>4, <1>5
<1>8. \A i \in DOMAIN t : t[i] =< n
  BY <1>1, <1>2, <1>6
<1> QED
  BY <1>1, <1>6, <1>7, <1>8 DEF InOrder, t

LEMMA OneMoreDrawn ==
  ASSUME NEW s, NEW n \in Nat, InOrder(s, n)
  PROVE  InOrder(s, n + 1) /\ \A i \in DOMAIN s : s[i] < n + 1
<1>1. \A i \in DOMAIN s : s[i] \in Nat /\ s[i] =< n
  BY DEF InOrder
<1>2. \A i \in DOMAIN s : s[i] =< n + 1 /\ s[i] < n + 1
  BY <1>1
<1> QED
  BY <1>2 DEF InOrder

LEMMA InitOrder == Init => OrderInv
  BY DEF Init, OrderInv, InOrder, Scratch

LEMMA NextOrder ==
  ASSUME Typed, Typed', LagInv, LagInv', OrderInv, [Next]_vars
  PROVE  OrderInv'
<1> USE LengthsAssumption DEF OrderInv, Ahead, IsLastStep
<1>1. CASE Load
  BY <1>1 DEF Load, LoadedDrawn, LagInv
<1>2. CASE GenNextBatch
  <2>1. /\ drawn' = drawn + 1 /\ batch_data_future'.number = drawn + 1
        /\ UNCHANGED <<batch, trained, checkpoint>>
    BY <1>2 DEF GenNextBatch
  <2>2. InOrder(trained', drawn') /\ \A i \in DOMAIN trained : trained[i] < drawn + 1
    <3>1. InOrder(trained, drawn) /\ drawn \in Nat
      BY DEF Typed
    <3> QED
      BY <2>1, <3>1, OneMoreDrawn
  <2>3. pc = "draw" /\ pc' = IF batch = None THEN "wait" ELSE "train"
    BY <1>2 DEF GenNextBatch
  <2> QED
    BY <2>1, <2>2, <2>3 DEF Typed
<1>3. CASE NoNextBatch
  BY <1>3 DEF NoNextBatch, loader
<1>4. CASE Generated
  <2>1. batch_data_future # None /\ batch_data_future'.number = batch_data_future.number
    BY <1>4 DEF Generated, Generating, Typed, BatchOrNone
  <2> QED
    BY <1>4, <2>1 DEF Generated, loader
<1>5. CASE Get
  <2>1. batch' = batch_data_future /\ batch' # None /\ batch'.number = drawn
    BY <1>5 DEF Get, LagInv
  <2> QED
    BY <1>5, <2>1 DEF Get, loader, Typed
<1>6. CASE Train
  <2> DEFINE b == batch.number
  <2>1. /\ b \in Nat /\ b =< drawn /\ trained' = Append(trained, b)
        /\ \A i \in DOMAIN trained : trained[i] < b
    BY <1>6 DEF Train
  <2>2. InOrder(trained', drawn) /\ \A i \in DOMAIN trained' : trained'[i] =< b
    BY <2>1, AppendInOrder DEF Typed
  <2> QED
    BY <1>6, <2>1, <2>2 DEF Train, loader, Typed, InOrder
<1>7. CASE Validate
  BY <1>7 DEF Validate, loader
<1>8. CASE Save
  BY <1>8 DEF Save, loader, Typed
<1>9. CASE Restart
  BY <1>9 DEF Restart, InOrder
<1>10. CASE UNCHANGED vars
  BY <1>10 DEF vars, loader
<1> QED
  BY <1>1, <1>2, <1>3, <1>4, <1>5, <1>6, <1>7, <1>8, <1>9, <1>10 DEF Next, Terminated

(* Whatever the restarts, no weights ever hold a batch twice or out of       *)
(* order (data.pt and the batch ahead in _save_checkpoint and fit).         *)
THEOREM NoBatchTwice == Spec => []TrainedInOrder
<1>1. OrderInv => TrainedInOrder
  BY DEF OrderInv, InOrder, TrainedInOrder
<1>2. Typed /\ LagInv /\ OrderInv /\ [Next]_vars => (Typed /\ LagInv /\ OrderInv)'
  BY NextTyped, NextLag, NextOrder
<1> QED
  BY <1>1, <1>2, InitLag, InitOrder, PTL DEF Spec
-----------------------------------------------------------------------------
(* Batches are numbered from one, and a step is trained on one batch.        *)
StepInv ==
    /\ \A i \in DOMAIN trained : trained[i] >= 1
    /\ \A i \in DOMAIN checkpoint.trained : checkpoint.trained[i] >= 1
    /\ Len(checkpoint.trained) = checkpoint.step
    /\ pc \in {"draw", "wait", "train"} => Len(trained) = global_steps - 1
    /\ pc \in {"validate", "save"} => Len(trained) = global_steps
    /\ left \in Nat /\ epochs_left \in Nat /\ restarts \in Nat

(* What is drawn and not trained on: a batch for each restart at most, and    *)
(* those under way.                                                        *)
Gap(n) == drawn - Len(trained) =< restarts + n

GapInv ==
    /\ pc = "load" => trained = <<>>
    /\ checkpoint.drawn - Len(checkpoint.trained) =<
           restarts + (IF pc = "load" THEN 0 ELSE 1)
    /\ pc = "draw" /\ batch = None => Gap(0)
    /\ pc = "wait" => Gap(1) /\ drawn >= 1
    /\ pc = "draw" /\ batch # None => Gap(1) /\ drawn >= 1 /\ batch.number = drawn
    /\ pc = "train" =>
          /\ drawn >= 1 /\ batch.number \in Nat /\ batch.number >= 1
          /\ batch.number - Len(trained) =< restarts + 1
          /\ IF Ahead THEN Gap(2) ELSE Gap(1)
    /\ pc \in {"validate", "save"} =>
          drawn >= 1 /\ IF Ahead THEN Gap(1) ELSE Gap(0)
    /\ trained # <<>> => trained[Len(trained)] - Len(trained) =< restarts

(* What the loader yields in all epochs.                                    *)
AllBatches == TotalEpochs * BatchesPerEpoch

(* The loader: what is drawn and what is to come are all epochs at least, and *)
(* no batch is ahead only when nothing is to come.                         *)
LoaderInv ==
    /\ pc \notin {"load", "done"} => drawn + left + epochs_left * BatchesPerEpoch >= AllBatches
    /\ pc \in {"train", "validate", "save"} /\ batch_data_future = None =>
          left = 0 /\ epochs_left = 0
    /\ pc = "done" /\ TotalTrainingSteps =< AllBatches =>
          Len(trained) + restarts >= TotalTrainingSteps

(* Arithmetic of epochs.                                                    *)
LEMMA OneEpochLess ==
    /\ AllBatches \in Nat /\ (TotalEpochs - 1) * BatchesPerEpoch = AllBatches - BatchesPerEpoch
    /\ \A e \in Nat : /\ e * BatchesPerEpoch \in Nat
                      /\ (e - 1) * BatchesPerEpoch = e * BatchesPerEpoch - BatchesPerEpoch
    BY LengthsAssumption DEF AllBatches

(* The rest of an epoch, from wherever the loader goes on, completes it.     *)
LEMMA RestOfEpoch ==
    ASSUME NEW n \in Nat, NEW l \in LoadedLeft(n)
    PROVE  l \in Nat /\ n + l >= BatchesPerEpoch
    <1> DEFINE B == BatchesPerEpoch
    <1>1. B \in Nat /\ B >= 1
        BY LengthsAssumption
    <1>2. n % B \in 0..(B - 1) /\ n % B <= n
        BY <1>1
    <1>3. n % B = 0 /\ n # 0 => n >= B
        BY <1>1
    <1> HIDE DEF B
    <1>4. \/ n % B # 0 /\ l = B - (n % B)
          \/ n = 0 /\ l = B
          \/ n % B = 0 /\ n # 0 /\ l \in {0, B}
        BY DEF LoadedLeft, B
    <1>5. n % B \in Nat /\ B - (n % B) \in Nat
        BY <1>1, <1>2
    <1> QED
        BY <1>1, <1>2, <1>3, <1>4, <1>5 DEF B

(* What is trained on is a sequence of numbers.                             *)
LEMMA TrainedLen ==
    ASSUME OrderInv
    PROVE  /\ Len(trained) \in Nat /\ DOMAIN trained = 1..Len(trained)
           /\ Len(checkpoint.trained) \in Nat /\ DOMAIN checkpoint.trained = 1..Len(checkpoint.trained)
           /\ trained \in Seq(Nat) /\ checkpoint.trained \in Seq(Nat)
    BY DEF OrderInv, InOrder

(* The base case.                                                          *)
LEMMA InitCost == Init => StepInv /\ GapInv /\ LoaderInv
    <1> SUFFICES ASSUME Init PROVE StepInv /\ GapInv /\ LoaderInv
        OBVIOUS
    <1>1. /\ trained = <<>> /\ checkpoint.trained = <<>> /\ checkpoint.drawn = 0 /\ checkpoint.step = 0
          /\ pc = "load" /\ restarts = 0 /\ left = 0 /\ epochs_left = 0
        BY DEF Init, Scratch
    <1>2. Len(trained) = 0 /\ Len(checkpoint.trained) = 0
        BY <1>1
    <1> QED
        BY <1>1, <1>2 DEF StepInv, GapInv, LoaderInv

(* Every step keeps the count of steps: only Train adds a batch, only Save  *)
(* ends a step.                                                             *)
LEMMA StepNext ==
    ASSUME Typed, OrderInv, StepInv, GapInv, [Next]_vars
    PROVE  StepInv'
    <1> USE DEF StepInv
    <1>0. /\ Len(trained) \in Nat /\ DOMAIN trained = 1..Len(trained) /\ trained \in Seq(Nat)
          /\ global_steps \in Nat /\ checkpoint.step \in Nat /\ drawn \in Nat
        BY TrainedLen DEF Typed
    <1>1. CASE Load
        <2>1. /\ pc' = "draw" /\ global_steps' = checkpoint.step + 1 /\ trained' = checkpoint.trained
              /\ left' \in LoadedLeft(checkpoint.drawn) /\ epochs_left' = TotalEpochs - 1
              /\ UNCHANGED <<checkpoint, restarts>>
            BY <1>1 DEF Load, LoadedDrawn
        <2>2. left' \in Nat /\ epochs_left' \in Nat
            BY <2>1, RestOfEpoch, LengthsAssumption DEF Typed
        <2>3. Len(trained') = global_steps' - 1
            <3>1. trained' = checkpoint.trained /\ global_steps' = checkpoint.step + 1
                BY <2>1
            <3>2. Len(checkpoint.trained) = checkpoint.step /\ checkpoint.step \in Nat
                BY <1>0
            <3>3. Len(trained') = checkpoint.step
                BY <3>1, <3>2
            <3> QED
                BY <3>1, <3>2, <3>3
        <2>4. \A i \in DOMAIN trained' : trained'[i] >= 1
            BY <2>1
        <2> QED
            BY <2>1, <2>2, <2>3, <2>4
    <1>2. CASE GenNextBatch
        <2>1. /\ pc' \in {"wait", "train"} /\ pc = "draw"
              /\ UNCHANGED <<global_steps, trained, checkpoint, restarts>>
            BY <1>2 DEF GenNextBatch
        <2>2. left' \in Nat /\ epochs_left' \in Nat
            BY <1>2, LengthsAssumption DEF GenNextBatch
        <2> QED
            BY <2>1, <2>2
    <1>3. CASE NoNextBatch
        BY <1>3 DEF NoNextBatch, loader
    <1>4. CASE Generated
        BY <1>4 DEF Generated, loader
    <1>5. CASE Get
        BY <1>5 DEF Get, loader
    <1>6. CASE Train
        <2> DEFINE b == batch.number
        <2>1. /\ pc = "train" /\ pc' = "validate" /\ trained' = Append(trained, b) /\ b \in Nat /\ b >= 1
              /\ UNCHANGED <<global_steps, left, epochs_left, checkpoint, restarts>>
            BY <1>6 DEF Train, loader, GapInv
        <2> HIDE DEF b
        <2>2. Len(trained') = Len(trained) + 1 /\ trained' \in Seq(Nat)
            BY <1>0, <2>1
        <2>3. \A i \in 1..(Len(trained) + 1) : trained'[i] = IF i = Len(trained) + 1 THEN b ELSE trained[i]
            BY <1>0, <2>1
        <2>4. \A i \in DOMAIN trained' : trained'[i] >= 1
            <3>1. DOMAIN trained' = 1..(Len(trained) + 1)
                BY <2>2
            <3> DEFINE n == Len(trained)
            <3>2. n \in Nat /\ DOMAIN trained = 1..n
                BY <1>0
            <3>3. \A i \in 1..(n + 1) : trained'[i] = IF i = n + 1 THEN b ELSE trained[i]
                BY <2>3
            <3> HIDE DEF n
            <3>4. \A i \in 1..(n + 1) : i = n + 1 \/ i \in 1..n
                BY <3>2
            <3>5. \A i \in 1..(n + 1) : trained'[i] >= 1
                BY <2>1, <3>2, <3>3, <3>4
            <3> QED
                BY <3>1, <3>5 DEF n
        <2>5. Len(trained') = global_steps
            BY <1>0, <2>1, <2>2
        <2> QED
            BY <2>1, <2>4, <2>5
    <1>7. CASE Validate
        BY <1>7 DEF Validate, loader
    <1>8. CASE Save
        <2>1. /\ pc = "save" /\ pc' \in {"done", "wait"} /\ global_steps' = global_steps + 1
              /\ \/ checkpoint' = checkpoint
                 \/ checkpoint'.step = global_steps /\ checkpoint'.trained = trained
              /\ UNCHANGED <<left, epochs_left, trained, restarts>>
            BY <1>8 DEF Save, loader
        <2> QED
            BY <1>0, <2>1
    <1>9. CASE Restart
        BY <1>9 DEF Restart
    <1>10. CASE UNCHANGED vars
        BY <1>10 DEF vars, loader
    <1> QED
        BY <1>1, <1>2, <1>3, <1>4, <1>5, <1>6, <1>7, <1>8, <1>9, <1>10 DEF Next, Terminated

(* Every step keeps the gap: a restart goes back to a checkpoint that has   *)
(* one batch more drawn than trained on.                                    *)
LEMMA GapNext ==
    ASSUME Typed, Typed', LagInv, LagInv', OrderInv, OrderInv', StepInv, GapInv, [Next]_vars
    PROVE  GapInv'
    <1>0. /\ Len(trained) \in Nat /\ DOMAIN trained = 1..Len(trained) /\ trained \in Seq(Nat)
          /\ Len(checkpoint.trained) \in Nat /\ DOMAIN checkpoint.trained = 1..Len(checkpoint.trained)
          /\ checkpoint.trained \in Seq(Nat)
          /\ global_steps \in Nat /\ checkpoint.step \in Nat /\ drawn \in Nat /\ checkpoint.drawn \in Nat
          /\ restarts \in Nat
        BY TrainedLen DEF Typed, StepInv
    <1> USE DEF Gap, Ahead, IsLastStep
    <1>1. CASE Load
        <2>1. /\ pc = "load" /\ pc' = "draw" /\ trained' = checkpoint.trained /\ drawn' = checkpoint.drawn
              /\ UNCHANGED <<batch, checkpoint, restarts>>
            BY <1>1 DEF Load, LoadedDrawn
        <2>2. batch = None /\ checkpoint.drawn - Len(checkpoint.trained) =< restarts
            BY <2>1, <1>0 DEF LagInv, GapInv
        <2>3. trained' # <<>> => trained'[Len(trained')] - Len(trained') =< restarts
            <3>1. ASSUME checkpoint.trained # <<>> 
                  PROVE checkpoint.trained[Len(checkpoint.trained)] =< checkpoint.drawn
                        /\ checkpoint.trained[Len(checkpoint.trained)] \in Nat
                <4>1. Len(checkpoint.trained) \in DOMAIN checkpoint.trained
                    BY <1>0, <3>1
                <4>2. \A i \in DOMAIN checkpoint.trained : checkpoint.trained[i] =< checkpoint.drawn
                    BY DEF OrderInv, InOrder
                <4>3. checkpoint.trained[Len(checkpoint.trained)] \in Nat
                    BY <1>0, <4>1
                <4> QED
                    BY <4>1, <4>2, <4>3
            <3> QED
                BY <1>0, <2>1, <2>2, <3>1
        <2> QED
            BY <1>0, <2>1, <2>2, <2>3 DEF GapInv
    <1>2. CASE GenNextBatch
        <2>1. /\ drawn' = drawn + 1 /\ pc = "draw" /\ pc' = IF batch = None THEN "wait" ELSE "train"
              /\ batch_data_future' = [number |-> drawn + 1, version |-> None]
              /\ UNCHANGED <<batch, trained, checkpoint, restarts, global_steps>>
            BY <1>2 DEF GenNextBatch
        <2>2. batch_data_future' # None
            BY <2>1, <1>0, NotNone DEF BatchOrNone
        <2>3. CASE batch = None
            BY <1>0, <2>1, <2>3 DEF GapInv
        <2>4. CASE batch # None
            <3>1. ~IsLastStep /\ ~IsLastStep' /\ batch.number = drawn /\ drawn - Len(trained) =< restarts + 1
                BY <2>1, <2>4 DEF GapInv, LagInv
            <3>2. drawn >= 1
                BY <1>0, <2>1, <2>4, <3>1 DEF GapInv, OrderInv
            <3> QED
                BY <1>0, <2>1, <2>2, <2>4, <3>1, <3>2 DEF GapInv
        <2> QED
            BY <2>3, <2>4
    <1>3. CASE NoNextBatch
        BY <1>0, <1>3 DEF NoNextBatch, loader, GapInv, LagInv, OrderInv
    <1>4. CASE Generated
        <2>1. batch_data_future # None /\ batch_data_future' # None
            BY <1>4, NotNone DEF Generated, Generating, Typed, BatchOrNone
        <2> QED
            BY <1>4, <2>1 DEF Generated, loader, GapInv
    <1>5. CASE Get
        <2>1. batch' = batch_data_future /\ batch' # None /\ batch'.number = drawn
            BY <1>5 DEF Get, LagInv, OrderInv
        <2> QED
            BY <1>0, <1>5, <2>1 DEF Get, loader, GapInv, OrderInv
    <1>6. CASE Train
        <2> DEFINE b == batch.number
        <2>1. /\ pc = "train" /\ pc' = "validate" /\ trained' = Append(trained, b) /\ b \in Nat
              /\ b - Len(trained) =< restarts + 1
              /\ UNCHANGED <<global_steps, drawn, batch_data_future, checkpoint, restarts>>
            BY <1>6 DEF Train, loader, GapInv
        <2>2. IF Ahead THEN Gap(2) ELSE Gap(1)
            BY <2>1 DEF GapInv
        <2> HIDE DEF b
        <2>3. Len(trained') = Len(trained) + 1 /\ trained'[Len(trained) + 1] = b
            BY <1>0, <2>1
        <2>4. trained'[Len(trained')] - Len(trained') =< restarts'
            BY <1>0, <2>1, <2>3
        <2> QED
            BY <1>0, <2>1, <2>2, <2>3, <2>4 DEF GapInv
    <1>7. CASE Validate
        BY <1>7 DEF Validate, loader, GapInv
    <1>8. CASE Save
        <2>1. /\ pc = "save" /\ pc' = (IF Ahead THEN "wait" ELSE "done") /\ global_steps' = global_steps + 1
              /\ \/ checkpoint' = checkpoint
                 \/ checkpoint'.drawn = drawn /\ checkpoint'.trained = trained
              /\ UNCHANGED <<drawn, trained, batch_data_future, batch, restarts>>
            BY <1>8 DEF Save, loader
        <2>2. IF Ahead THEN Gap(1) ELSE Gap(0)
            BY <2>1 DEF GapInv
        <2>3. checkpoint'.drawn - Len(checkpoint'.trained) =< restarts + 1
            BY <1>0, <2>1, <2>2 DEF GapInv
        <2> QED
            BY <1>0, <2>1, <2>2, <2>3 DEF GapInv
    <1>9. CASE Restart
        <2>1. pc # "load" /\ pc' = "load" /\ trained' = <<>> /\ restarts' = restarts + 1 /\ checkpoint' = checkpoint
            BY <1>9 DEF Restart
        <2>2. checkpoint'.drawn - Len(checkpoint'.trained) =< restarts'
            BY <1>0, <2>1 DEF GapInv
        <2> QED
            BY <1>0, <2>1, <2>2 DEF GapInv
    <1>10. CASE UNCHANGED vars
        BY <1>10 DEF vars, loader, GapInv
    <1> QED
        BY <1>1, <1>2, <1>3, <1>4, <1>5, <1>6, <1>7, <1>8, <1>9, <1>10 DEF Next, Terminated

(* A batch is drawn: the loader has one less to come.                        *)
LEMMA LoaderDraws ==
    ASSUME StepInv, drawn \in Nat, GenNextBatch,
           drawn + left + epochs_left * BatchesPerEpoch >= AllBatches
    PROVE  drawn' + left' + epochs_left' * BatchesPerEpoch >= AllBatches
    <1> DEFINE k == epochs_left * BatchesPerEpoch
               l == epochs_left' * BatchesPerEpoch
               A == AllBatches
    <1>1. /\ drawn \in Nat /\ left \in Nat /\ epochs_left \in Nat /\ BatchesPerEpoch \in Nat
          /\ A \in Nat /\ k \in Nat /\ drawn + left + k >= A /\ drawn' = drawn + 1
        BY OneEpochLess, LengthsAssumption DEF StepInv, GenNextBatch
    <1>2. CASE left > 0
        <2>1. left' = left - 1 /\ l = k
            BY <1>2 DEF GenNextBatch
        <2> HIDE DEF k, l, A
        <2> QED
            BY <1>1, <2>1 DEF l, A
    <1>3. CASE ~(left > 0)
        <2>1. left = 0 /\ left' = BatchesPerEpoch - 1 /\ epochs_left' = epochs_left - 1
            BY <1>1, <1>3 DEF GenNextBatch
        <2>2. l = k - BatchesPerEpoch
            BY <1>1, <2>1, OneEpochLess
        <2> HIDE DEF k, l, A
        <2> QED
            BY <1>1, <2>1, <2>2 DEF l, A
    <1> QED
        BY <1>2, <1>3

(* At the end of the data everything has been drawn.                         *)
LEMMA NothingToCome ==
    ASSUME drawn \in Nat, left = 0, epochs_left = 0,
           drawn + left + epochs_left * BatchesPerEpoch >= AllBatches
    PROVE  drawn >= AllBatches
    <1>1. epochs_left * BatchesPerEpoch = 0
        BY LengthsAssumption
    <1> QED
        BY <1>1, OneEpochLess

(* Every step keeps what is to come: no batch is ahead only at the end of   *)
(* the data.                                                                *)
LEMMA LoaderNext ==
    ASSUME Typed, LagInv, OrderInv, StepInv, GapInv, LoaderInv, [Next]_vars
    PROVE  LoaderInv'
    <1> DEFINE k == epochs_left * BatchesPerEpoch
    <1>0. /\ drawn \in Nat /\ left \in Nat /\ epochs_left \in Nat /\ restarts \in Nat
          /\ Len(trained) \in Nat /\ global_steps \in Nat
          /\ AllBatches \in Nat /\ TotalTrainingSteps \in Nat
        BY TrainedLen, OneEpochLess, LengthsAssumption DEF Typed, StepInv
    <1>a. ASSUME UNCHANGED loader, pc \notin {"load", "done"}
          PROVE  drawn' + left' + epochs_left' * BatchesPerEpoch >= AllBatches
        BY <1>a DEF loader, LoaderInv
    <1>1. CASE Load
        <2>1. /\ pc' = "draw" /\ drawn' = checkpoint.drawn /\ drawn' \in Nat
              /\ left' \in LoadedLeft(drawn') /\ epochs_left' = TotalEpochs - 1
            BY <1>1 DEF Load, LoadedDrawn, Typed
        <2>2. left' \in Nat /\ drawn' + left' >= BatchesPerEpoch
            BY <2>1, RestOfEpoch
        <2>3. epochs_left' * BatchesPerEpoch = AllBatches - BatchesPerEpoch
            BY <2>1, OneEpochLess
        <2> DEFINE l == epochs_left' * BatchesPerEpoch
        <2> HIDE DEF l
        <2>4. drawn' + left' + l >= AllBatches
            BY <1>0, <2>1, <2>2, <2>3, LengthsAssumption DEF l
        <2> QED
            BY <2>1, <2>4 DEF LoaderInv, l
    <1>2. CASE GenNextBatch
        <2>1. pc = "draw" /\ pc' \in {"wait", "train"} /\ batch_data_future' \in BatchOrNone
            BY <1>2 DEF GenNextBatch, BatchOrNone, Typed
        <2>2. batch_data_future' # None
            BY <2>1, NotNone
        <2>3. drawn' + left' + epochs_left' * BatchesPerEpoch >= AllBatches
            BY <1>0, <1>2, <2>1, LoaderDraws DEF LoaderInv
        <2> QED
            BY <2>1, <2>2, <2>3 DEF LoaderInv
    <1>3. CASE NoNextBatch
        <2>1. /\ pc = "draw" /\ pc' = (IF batch = None THEN "done" ELSE "train")
              /\ left = 0 /\ epochs_left = 0
              /\ UNCHANGED <<loader, trained, restarts>>
            BY <1>3 DEF NoNextBatch
        <2>2. drawn' + left' + epochs_left' * BatchesPerEpoch >= AllBatches
            BY <1>a, <2>1
        <2>3. drawn >= AllBatches
            BY <1>0, <2>1, NothingToCome DEF LoaderInv
        <2>4. batch = None => drawn - Len(trained) =< restarts
            BY <1>0, <2>1 DEF GapInv, Gap
        <2>5. batch = None /\ TotalTrainingSteps =< AllBatches =>
                  Len(trained) + restarts >= TotalTrainingSteps
            <3> DEFINE A == AllBatches
            <3> HIDE DEF A
            <3> QED
                BY <1>0, <2>3, <2>4 DEF A
        <2>6. left' = 0 /\ epochs_left' = 0 /\ trained' = trained /\ restarts' = restarts
            BY <2>1 DEF loader
        <2>7. pc' = "done" => batch = None
            BY <2>1
        <2> QED
            BY <2>2, <2>5, <2>6, <2>7 DEF LoaderInv, AllBatches
    <1>4. CASE Generated
        <2>1. batch_data_future # None
            BY <1>4 DEF Generated, Generating
        <2>2. batch_data_future' # None
            BY <1>4, NotNone DEF Generated, Generating, Typed, BatchOrNone
        <2> QED
            BY <1>4, <1>a, <2>1, <2>2 DEF Generated, loader, LoaderInv, AllBatches
    <1>5. CASE Get
        <2>1. batch_data_future' # None /\ pc = "wait" /\ pc' \in {"train", "draw"} /\ UNCHANGED loader
            BY <1>5 DEF Get, LagInv
        <2> QED
            BY <1>a, <2>1 DEF LoaderInv
    <1>6. CASE Train
        BY <1>6, <1>a DEF Train, loader, LoaderInv
    <1>7. CASE Validate
        BY <1>7, <1>a DEF Validate, loader, LoaderInv
    <1>8. CASE Save
        <2>1. /\ pc = "save" /\ pc' = (IF IsLastStep \/ batch_data_future = None THEN "done" ELSE "wait")
              /\ UNCHANGED <<loader, trained, restarts, batch_data_future>>
            BY <1>8 DEF Save
        <2>2. pc' # "done" => drawn' + left' + epochs_left' * BatchesPerEpoch >= AllBatches
            BY <1>a, <2>1
        <2>3. Len(trained) = global_steps
            BY <2>1 DEF StepInv
        <2>4. CASE IsLastStep
            BY <1>0, <2>1, <2>3, <2>4 DEF IsLastStep, LoaderInv, AllBatches
        <2>5. CASE ~IsLastStep /\ batch_data_future = None
            <3>1. drawn >= AllBatches
                BY <1>0, <2>1, <2>5, NothingToCome DEF LoaderInv
            <3>2. drawn - Len(trained) =< restarts
                BY <1>0, <2>1, <2>5 DEF GapInv, Gap, Ahead
            <3>3. TotalTrainingSteps =< AllBatches => Len(trained) + restarts >= TotalTrainingSteps
                <4> DEFINE A == AllBatches
                <4> HIDE DEF A
                <4> QED
                    BY <1>0, <3>1, <3>2 DEF A
            <3>4. pc' = "done" /\ trained' = trained /\ restarts' = restarts
                BY <2>1, <2>5
            <3> QED
                BY <3>3, <3>4 DEF LoaderInv, AllBatches
        <2>6. CASE ~IsLastStep /\ batch_data_future # None
            BY <2>1, <2>2, <2>6 DEF LoaderInv
        <2> QED
            BY <2>4, <2>5, <2>6
    <1>9. CASE Restart
        BY <1>9 DEF Restart, LoaderInv
    <1>10. CASE UNCHANGED vars
        BY <1>10 DEF vars, loader, LoaderInv, AllBatches
    <1> QED
        BY <1>1, <1>2, <1>3, <1>4, <1>5, <1>6, <1>7, <1>8, <1>9, <1>10 DEF Next, Terminated

(* Of the numbers up to the last of n increasing ones, n are not skipped.    *)
LEMMA OthersUpTo ==
    ASSUME NEW n \in Nat, n > 0, NEW m \in Nat, NEW s,
           \A i \in 1..n : s[i] \in 1..m,
           \A i, j \in 1..n : i < j => s[i] < s[j]
    PROVE  LET R == {s[i] : i \in 1..n} IN
           IsFiniteSet((1..m) \ R) /\ Cardinality((1..m) \ R) = m - n
    <1> DEFINE R == {s[i] : i \in 1..n}
               f == [i \in 1..n |-> s[i]]
    <1>1. f \in Surjection(1..n, R)
        BY DEF Surjection
    <1>2. f \in Injection(1..n, R)
        <2>1. f \in [1..n -> R]
            OBVIOUS
        <2>2. \A i, j \in 1..n : i < j => f[i] < f[j] /\ f[i] \in Nat /\ f[j] \in Nat
            OBVIOUS
        <2>3. \A i, j \in 1..n : f[i] = f[j] => i = j
            <3> HIDE DEF f
            <3>1. SUFFICES ASSUME NEW i \in 1..n, NEW j \in 1..n, f[i] = f[j], i # j
                           PROVE  FALSE
                OBVIOUS
            <3>2. i < j \/ j < i
                BY <3>1
            <3> QED
                BY <2>2, <3>1, <3>2
        <2> HIDE DEF f, R
        <2> QED
            BY <2>1, <2>3 DEF Injection, IsInjective
    <1>3. IsFiniteSet(1..n) /\ Cardinality(1..n) = n
        BY FS_Interval
    <1>4. IsFiniteSet(R) /\ Cardinality(R) = n
        <2> HIDE DEF f, R
        <2> QED
            BY <1>1, <1>2, <1>3, FS_Surjection
    <1>5. IsFiniteSet(1..m) /\ Cardinality(1..m) = m
        BY FS_Interval
    <1>6. (1..m) \cap R = R
        OBVIOUS
    <1> HIDE DEF R
    <1>7. IsFiniteSet((1..m) \ R) /\ Cardinality((1..m) \ R) = m - n
        <2> DEFINE M == 1..m
        <2>1. IsFiniteSet(M) /\ Cardinality(M) = m /\ M \cap R = R
            BY <1>5, <1>6
        <2> HIDE DEF M
        <2>2. IsFiniteSet(M \ R) /\ Cardinality(M \ R) = Cardinality(M) - Cardinality(M \cap R)
            BY <2>1, FS_Difference
        <2>3. Cardinality(M \ R) = m - n
            BY <1>4, <2>1, <2>2
        <2> QED
            BY <2>2, <2>3 DEF M
    <1> QED
        BY <1>7 DEF R

(* The numbers of the batches trained on are increasing, and the last is not *)
(* farther than the restarts.                                              *)
LEMMA SkippedFew ==
    ASSUME Typed, OrderInv, StepInv, GapInv
    PROVE  Cardinality(Skipped) =< restarts
    <1> DEFINE n == Len(trained)
               m == trained[n]
               R == {trained[i] : i \in 1..n}
    <1>1. n \in Nat /\ DOMAIN trained = 1..n /\ restarts \in Nat
        BY TrainedLen DEF StepInv
    <1>2. CASE trained = <<>>
        <2>1. Skipped = {}
            BY <1>2 DEF Skipped
        <2> QED
            BY <1>1, <2>1, FS_EmptySet
    <1>3. CASE trained # <<>>
        <2>1. n > 0 /\ n \in 1..n
            <3>1. n # 0
                BY <1>3, TrainedLen
            <3> QED
                BY <1>1, <3>1
        <2>2. \A i \in 1..n : trained[i] \in Nat /\ trained[i] >= 1
            BY <1>1, TrainedLen DEF StepInv
        <2>3. \A i, j \in 1..n : i < j => trained[i] < trained[j]
            BY <1>1 DEF OrderInv, InOrder
        <2>4. m \in Nat /\ m - n =< restarts
            BY <1>3, <2>1, <2>2 DEF GapInv
        <2>5. \A i \in 1..n : trained[i] \in 1..m
            <3>1. SUFFICES ASSUME NEW i \in 1..n PROVE trained[i] \in 1..m
                OBVIOUS
            <3>2. i = n \/ i < n
                <4> HIDE DEF n
                <4> QED
                    BY <1>1
            <3>3. trained[i] = m \/ trained[i] < m
                BY <2>1, <2>3, <3>2
            <3> QED
                BY <2>2, <2>4, <3>3
        <2>6. Skipped \subseteq (1..m) \ R
            <3>1. SUFFICES ASSUME NEW d \in Skipped PROVE d \in (1..m) \ R
                OBVIOUS
            <3>2. d \in Nat /\ d >= 1
                BY LengthsAssumption DEF Skipped, Data
            <3>3. d \notin R
                BY <1>1 DEF Skipped
            <3>4. PICK i \in 1..n : d < trained[i]
                BY <1>1 DEF Skipped
            <3> HIDE DEF m, R
            <3> QED
                BY <2>4, <2>5, <3>2, <3>3, <3>4
        <2>7. IsFiniteSet((1..m) \ R) /\ Cardinality((1..m) \ R) = m - n
            <3> HIDE DEF n, m
            <3> QED
                BY <1>1, <2>1, <2>3, <2>4, <2>5, OthersUpTo
        <2> HIDE DEF R, n, m
        <2>8. /\ IsFiniteSet(Skipped)
              /\ Cardinality(Skipped) \in Nat /\ Cardinality(Skipped) =< m - n
            BY <2>6, <2>7, FS_Subset, FS_CardinalityType
        <2> QED
            BY <1>1, <2>4, <2>8
    <1> QED
        BY <1>2, <1>3

(* A restart costs a batch and a step at most, and no batch is trained on    *)
(* twice or out of order (data.pt in _save_checkpoint, StopIteration in     *)
(* _async_gen_next_batch).                                                 *)
THEOREM RestartsCost == Spec => []CostOfRestart
    <1> DEFINE I == Typed /\ LagInv /\ OrderInv /\ StepInv /\ GapInv /\ LoaderInv
    <1>1. Init => I
        BY InitLag, InitOrder, InitCost
    <1>2. I /\ [Next]_vars => I'
        BY NextTyped, NextLag, NextOrder, StepNext, GapNext, LoaderNext
    <1>3. I => CostOfRestart
        <2> SUFFICES ASSUME I PROVE CostOfRestart
            OBVIOUS
        <2>1. TrainedInOrder
            BY DEF OrderInv, InOrder, TrainedInOrder
        <2>2. Cardinality(Skipped) =< restarts
            BY SkippedFew
        <2>3. BatchesPerEpoch * TotalEpochs = AllBatches
            BY LengthsAssumption DEF AllBatches
        <2>4. (pc = "done" /\ TotalTrainingSteps =< AllBatches)
                 => Len(trained) + restarts >= TotalTrainingSteps
            <3> HIDE DEF AllBatches
            <3> QED
                BY DEF LoaderInv
        <2> HIDE DEF AllBatches
        <2> QED
            BY <2>1, <2>2, <2>3, <2>4 DEF CostOfRestart
    <1> QED
        BY <1>1, <1>2, <1>3, PTL DEF Spec
=============================================================================
