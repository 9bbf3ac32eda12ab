----------------------- MODULE CheckpointResume_proofs -----------------------
(***************************************************************************)
(* Whatever the crashes, a job that resumes in mode "auto" and keeps either *)
(* all checkpoints or at least two finds under the tracker one complete    *)
(* checkpoint, and goes on with exactly the batches it has not seen.       *)
(***************************************************************************)
EXTENDS CheckpointResume, TLAPS

Models == Seq([batch : Nat, launch : Nat])

(* The models that the shards of one name hold; at most one.               *)
ModelsAt(p, s, r) == {f.model : f \in Shard(p, s, r)}

TypeInv ==
    /\ folders \subseteq Nat \ {0}
    /\ tracker \in folders \cup {NoTracker, Garbled}
    /\ pc \in {"down", "train", "rotate", "write", "data", "tracker", "done", "failed"}
    /\ global_steps \in Nat /\ drawn \in Nat /\ restarts \in Nat
    /\ part \in Parts /\ written \subseteq Ranks
    /\ saved \in [Parts -> Seq(Nat)]

(* All ranks hold one model, trained on all batches drawn so far.          *)
TrainInv ==
    (Training \/ pc = "done") =>
        /\ global_steps > 0
        /\ drawn = Trained
        /\ \E m \in Models : InOrder(m, drawn) /\ weights = [w \in Parts \X Ranks |-> m]

(* The step being trained or saved is past the one the tracker names.       *)
AheadInv == Training => tracker < global_steps

Whole(s, m) ==
    /\ \A p \in Parts, r \in Ranks : ModelsAt(p, s, r) = {m}
    /\ {d.drawn : d \in DataFile(s)} = {s}

DiskInv == tracker > 0 => \E m \in Models : InOrder(m, tracker) /\ Whole(tracker, m)

(* The parts of which the running save has all shards.                     *)
SavedNow(p) ==
    \/ pc \in {"data", "tracker"}
    \/ pc \in {"rotate", "write"} /\ part # FirstPart /\ p = FirstPart

SaveInv ==
    /\ \A p \in Parts, r \in Ranks :
           SavedNow(p) => ModelsAt(p, global_steps, r) = {weights[<<p, r>>]}
    /\ \A r \in written :
           pc = "write" => ModelsAt(part, global_steps, r) = {weights[<<part, r>>]}
    /\ pc = "tracker" => {d.drawn : d \in DataFile(global_steps)} = {drawn}

(* The paths a manager remembers grow up to the last one saved, so that the *)
(* tracker's is never among the older ones.                                *)
Newest(p) == IF SavedNow(p) THEN global_steps ELSE tracker

RotationInv ==
    /\ Training => \A p \in Parts : \A i \in 1..Len(saved[p]) :
                       /\ saved[p][i] <= Newest(p)
                       /\ i < Len(saved[p]) => saved[p][i] < Newest(p)
    /\ pc = "down" => saved = [p \in Parts |-> <<>>]
    /\ InSave => global_steps \in folders \/ (pc = "rotate" /\ part = FirstPart)

IInv == TypeInv /\ TrainInv /\ AheadInv /\ DiskInv /\ SaveInv /\ RotationInv
-----------------------------------------------------------------------------
(* Appending the next batch keeps a model in order.                        *)
LEMMA NextBatchInOrder ==
    ASSUME NEW m \in Models, NEW n \in Nat, NEW l \in Nat, InOrder(m, n)
    PROVE  LET u == [batch |-> n + 1, launch |-> l]
           IN  Append(m, u) \in Models /\ InOrder(Append(m, u), n + 1)
<1> DEFINE u == [batch |-> n + 1, launch |-> l]
<1>1. u \in [batch : Nat, launch : Nat] /\ u.batch = n + 1
  OBVIOUS
<1>2. Append(m, u) \in Models /\ Len(Append(m, u)) = n + 1
  BY <1>1 DEF Models, InOrder
<1>3. ASSUME NEW i \in 1..(n + 1) PROVE Append(m, u)[i].batch = i
  <2>1. CASE i = n + 1
    <3>1. Append(m, u)[i] = u
      BY <2>1 DEF Models, InOrder
    <3> QED BY <3>1, <2>1, <1>1
  <2>2. CASE i # n + 1
    <3>1. i \in 1..n /\ Append(m, u)[i] = m[i]
      BY <2>2 DEF Models, InOrder
    <3> QED BY <3>1 DEF InOrder
  <2> QED BY <2>1, <2>2
<1> QED BY <1>2, <1>3 DEF InOrder

(* With room for two, what a rotation removes is never what the tracker     *)
(* names: only the last path can be the tracker's.                         *)
LEMMA VictimsSpareTracker ==
    ASSUME TypeInv, AheadInv, RotationInv, pc = "rotate", Keep[part] # 1
    PROVE  /\ Excess(part) \in 0..Len(saved[part])
           /\ tracker \notin Victims(part)
<1>1. saved[part] \in Seq(Nat) /\ Len(saved[part]) \in Nat /\ Keep[part] \in Nat
  BY KeepAssumption DEF TypeInv
<1>2. Excess(part) \in 0..Len(saved[part])
  BY <1>1 DEF Excess
<1>3. ASSUME NEW i \in 1..Excess(part) PROVE saved[part][i] < tracker
  <2>1. i \in 1..Len(saved[part]) /\ i < Len(saved[part])
    BY <1>1 DEF Excess
  <2>2. Newest(part) = tracker
    BY DEF Newest, SavedNow
  <2> QED BY <2>1, <2>2 DEF RotationInv, Training, InSave, TypeInv
<1>4. tracker \notin Victims(part)
  <2>1. ASSUME NEW i \in 1..Excess(part) PROVE saved[part][i] # tracker
    <3>1. saved[part][i] \in Nat
      <4>1. i \in 1..Len(saved[part])
        BY <1>1, <1>2
      <4> QED BY <4>1, <1>1
    <3>2. tracker \in Int
      BY DEF TypeInv, NoTracker, Garbled
    <3> QED BY <1>3, <3>1, <3>2
  <2> QED BY <2>1 DEF Victims
<1> QED BY <1>2, <1>4

(* What a load finds in a whole checkpoint.                                *)
LEMMA LoadsWhatWasSaved ==
    ASSUME NEW s \in Nat, NEW m, Whole(s, m)
    PROVE  /\ \A p \in Parts, r \in Ranks :
                  Shard(p, s, r) # {} /\ (CHOOSE f \in Shard(p, s, r) : TRUE).model = m
           /\ LoadedDrawn(s) = s
           /\ Loadable(s)
<1>1. ASSUME NEW p \in Parts, NEW r \in Ranks
      PROVE  Shard(p, s, r) # {} /\ (CHOOSE f \in Shard(p, s, r) : TRUE).model = m
  <2>1. {f.model : f \in Shard(p, s, r)} = {m}
    BY DEF Whole, ModelsAt
  <2>2. Shard(p, s, r) # {}
    BY <2>1
  <2>3. (CHOOSE f \in Shard(p, s, r) : TRUE) \in Shard(p, s, r)
    BY <2>2
  <2> QED BY <2>1, <2>2, <2>3
<1>2. LoadedDrawn(s) = s
  <2>1. {d.drawn : d \in DataFile(s)} = {s}
    BY DEF Whole
  <2>2. (CHOOSE d \in DataFile(s) : TRUE) \in DataFile(s) /\ DataFile(s) # {}
    BY <2>1
  <2> QED BY <2>1, <2>2 DEF LoadedDrawn
<1>3. s # Torn
  BY DEF Torn
<1> QED BY <1>1, <1>2, <1>3 DEF Loadable
-----------------------------------------------------------------------------
LEMMA InitIInv == Init => IInv
<1> SUFFICES ASSUME Init PROVE IInv
  OBVIOUS
<1>1. saved \in [Parts -> Seq(Nat)] /\ pc = "down" /\ written = {}
  BY DEF Init
<1>2. TypeInv
  BY <1>1, PartsAssumption DEF Init, TypeInv, NoTracker
<1>3. TrainInv /\ AheadInv /\ DiskInv /\ RotationInv /\ SaveInv
  BY <1>1 DEF Init, TrainInv, AheadInv, DiskInv, RotationInv, SaveInv, SavedNow,
              Training, InSave, NoTracker
<1> QED BY <1>2, <1>3 DEF IInv

(* What the tracker names stays whole if no file of that step comes or goes. *)
LEMMA DiskKept ==
    ASSUME DiskInv, tracker' = tracker,
           \A f : f.step = tracker => (f \in shards' <=> f \in shards),
           \A d : d.step = tracker => (d \in dataFiles' <=> d \in dataFiles)
    PROVE  DiskInv'
<1> SUFFICES ASSUME tracker > 0
             PROVE  \E m \in Models : InOrder(m, tracker) /\ Whole(tracker, m)'
  BY DEF DiskInv, InOrder
<1>1. PICK m \in Models : InOrder(m, tracker) /\ Whole(tracker, m)
  BY DEF DiskInv
<1>2. \A p \in Parts, r \in Ranks : Shard(p, tracker, r)' = Shard(p, tracker, r)
  BY DEF Shard
<1>3. DataFile(tracker)' = DataFile(tracker)
  BY DEF DataFile
<1>4. Whole(tracker, m)'
  BY <1>1, <1>2, <1>3 DEF Whole, ModelsAt
<1> QED BY <1>1, <1>4

(* A launch in mode "auto": from scratch when there is no tracker, and      *)
(* otherwise with the models and the place the whole checkpoint holds.     *)
LEMMA LaunchStep ==
    ASSUME IInv, Launch, ResumeModes \subseteq {"auto"}
    PROVE  IInv'
<1>1. pc = "down" /\ UNCHANGED <<disk, part, written, saved, restarts>> /\ Resume("auto")
  BY DEF Launch
<1>2. DiskInv'
  BY <1>1, DiskKept DEF IInv, disk
<1>3. saved' = [p \in Parts |-> <<>>]
  BY <1>1 DEF IInv, RotationInv
<1>4. CASE LoadFails
  <2>1. TypeInv'
    BY <1>1, <1>4 DEF LoadFails, IInv, TypeInv, disk, loader
  <2>2. TrainInv' /\ AheadInv' /\ SaveInv' /\ RotationInv'
    BY <1>4, <1>3 DEF LoadFails, TrainInv, AheadInv, SaveInv, RotationInv, SavedNow,
                      Training, InSave
  <2> QED BY <1>2, <2>1, <2>2 DEF IInv
<1>5. ASSUME NEW s \in Nat, NEW m \in Models, InOrder(m, s), tracker = s,
             pc' = "train", global_steps' = s + 1, drawn' = s,
             weights' = [w \in Parts \X Ranks |-> m]
      PROVE  IInv'
  <2>1. TypeInv'
    BY <1>1, <1>5 DEF IInv, TypeInv, disk
  <2>2. TrainInv'
    <3>1. Trained' = drawn' /\ global_steps' > 0
      BY <1>5 DEF Trained, InSave
    <3>2. InOrder(m, drawn')
      BY <1>5
    <3> QED BY <3>1, <3>2, <1>5 DEF TrainInv, InOrder
  <2>3. AheadInv'
    BY <1>1, <1>5 DEF AheadInv, disk
  <2>4. SaveInv'
    BY <1>5 DEF SaveInv, SavedNow
  <2>5. RotationInv'
    <3>1. \A p \in Parts : Len(saved'[p]) = 0
      BY <1>3
    <3> QED BY <3>1, <1>5 DEF RotationInv, InSave
  <2> QED BY <1>2, <2>1, <2>2, <2>3, <2>4, <2>5 DEF IInv
<1>6. CASE tracker \notin folders /\ FromScratch /\ tracker # Garbled
  <2>1. tracker = 0
    BY <1>6 DEF IInv, TypeInv, NoTracker
  <2>2. <<>> \in Models /\ InOrder(<<>>, 0)
    BY DEF Models, InOrder
  <2>3. /\ pc' = "train" /\ global_steps' = 1 /\ drawn' = 0
        /\ weights' = [w \in Parts \X Ranks |-> <<>>]
    BY <1>6 DEF FromScratch, StartTraining, StepAfterLoad
  <2> QED BY <2>1, <2>2, <2>3, <1>5
<1>7. CASE tracker \in folders /\ LoadFrom(tracker)
  <2>1. tracker \in Nat /\ tracker > 0
    BY <1>7 DEF IInv, TypeInv
  <2>2. PICK m \in Models : InOrder(m, tracker) /\ Whole(tracker, m)
    BY <2>1 DEF IInv, DiskInv
  <2>3. /\ \A p \in Parts, r \in Ranks : (CHOOSE f \in Shard(p, tracker, r) : TRUE).model = m
        /\ LoadedDrawn(tracker) = tracker
        /\ Loadable(tracker)
    BY <2>1, <2>2, LoadsWhatWasSaved
  <2>4. /\ pc' = "train" /\ global_steps' = tracker + 1 /\ drawn' = tracker
        /\ weights' = [w \in Parts \X Ranks |->
                           (CHOOSE f \in Shard(w[1], tracker, w[2]) : TRUE).model]
    BY <1>7, <2>3 DEF LoadFrom, StartTraining, StepAfterLoad
  <2>5. ASSUME NEW w \in Parts \X Ranks
        PROVE  (CHOOSE f \in Shard(w[1], tracker, w[2]) : TRUE).model = m
    <3>1. w[1] \in Parts /\ w[2] \in Ranks
      OBVIOUS
    <3> QED BY <3>1, <2>3
  <2>6. weights' = [w \in Parts \X Ranks |-> m]
    BY <2>4, <2>5
  <2> QED BY <2>1, <2>2, <2>4, <2>6, <1>5
<1> QED BY <1>1, <1>4, <1>6, <1>7 DEF Resume

LEMMA NextEpochStep ==
    ASSUME IInv, NextEpoch
    PROVE  IInv'
<1>1. pc = "train" /\ pc' \in {"train", "done"}
  BY DEF NextEpoch
<1>2. UNCHANGED <<disk, global_steps, weights, drawn, part, written, saved, restarts>>
  BY DEF NextEpoch
<1>3. TypeInv'
  BY <1>1, <1>2 DEF IInv, TypeInv, disk
<1>4. TrainInv'
  BY <1>1, <1>2 DEF IInv, TrainInv, Training, InSave, Trained, InOrder
<1>5. AheadInv'
  BY <1>1, <1>2 DEF IInv, AheadInv, Training, InSave, disk
<1>6. DiskInv'
  BY <1>2, DiskKept DEF IInv, disk
<1>7. SaveInv'
  BY <1>1 DEF SaveInv, SavedNow
<1>8. RotationInv'
  BY <1>1, <1>2 DEF IInv, RotationInv, Newest, SavedNow, Training, InSave, disk
<1> QED BY <1>3, <1>4, <1>5, <1>6, <1>7, <1>8 DEF IInv

(* The batch drawn next continues the model of every rank.                 *)
LEMMA TrainStepStep ==
    ASSUME IInv, TrainStep
    PROVE  IInv'
<1>1. /\ pc = "train" /\ drawn' = drawn + 1
      /\ weights' = [w \in Parts \X Ranks |-> Append(weights[w], Update)]
      /\ UNCHANGED <<disk, epochs_left, written, saved, restarts>>
  BY DEF TrainStep
<1>2. \/ pc' = "rotate" /\ part' = FirstPart /\ global_steps' = global_steps
      \/ pc' \in {"train", "done"} /\ part' = part /\ global_steps' = global_steps + 1
  BY DEF TrainStep, EndStep
<1>3. TypeInv'
  BY <1>1, <1>2, PartsAssumption DEF IInv, TypeInv, disk
<1>4. TrainInv'
  <2>1. PICK m \in Models : InOrder(m, drawn) /\ weights = [w \in Parts \X Ranks |-> m]
    BY <1>1 DEF IInv, TrainInv, Training
  <2>2. Append(m, Update) \in Models /\ InOrder(Append(m, Update), drawn + 1)
    BY <2>1, NextBatchInOrder DEF IInv, TypeInv, Update
  <2>3. weights' = [w \in Parts \X Ranks |-> Append(m, Update)]
    BY <1>1, <2>1
  <2>4. global_steps > 0 /\ drawn = global_steps - 1 /\ global_steps \in Nat
    BY <1>1 DEF IInv, TrainInv, TypeInv, Training, Trained, InSave
  <2>5. drawn' = Trained' /\ global_steps' > 0
    BY <1>1, <1>2, <2>4 DEF Trained, InSave
  <2>6. InOrder(Append(m, Update), drawn')
    BY <2>2, <1>1
  <2> DEFINE next == Append(m, Update)
  <2>7. next \in Models /\ InOrder(next, drawn') /\ weights' = [w \in Parts \X Ranks |-> next]
    BY <2>2, <2>3, <2>6
  <2> HIDE DEF next
  <2> QED BY <2>5, <2>7 DEF TrainInv, InOrder
<1>5. AheadInv'
  BY <1>1, <1>2 DEF IInv, AheadInv, TypeInv, Training, InSave, disk, NoTracker, Garbled
<1>6. DiskInv'
  BY <1>1, DiskKept DEF IInv, disk
<1>7. SaveInv'
  BY <1>2 DEF SaveInv, SavedNow
<1>8. RotationInv'
  <2>1. \A p \in Parts : Newest(p) = tracker /\ Newest(p)' = tracker
    BY <1>1, <1>2 DEF Newest, SavedNow, disk
  <2> QED BY <1>1, <1>2, <2>1 DEF IInv, RotationInv, Training, InSave, disk
<1> QED BY <1>3, <1>4, <1>5, <1>6, <1>7, <1>8 DEF IInv
-----------------------------------------------------------------------------
(* A suffix of a sequence.                                                 *)
LEMMA Suffix ==
    ASSUME NEW s \in Seq(Nat), NEW k \in 0..Len(s)
    PROVE  LET t == SubSeq(s, k + 1, Len(s))
           IN  /\ t \in Seq(Nat) /\ Len(t) = Len(s) - k
               /\ \A i \in 1..Len(t) : t[i] = s[i + k] /\ i + k \in 1..Len(s)
<1> DEFINE t == SubSeq(s, k + 1, Len(s))
<1>1. Len(s) \in Nat /\ k \in Nat /\ k <= Len(s)
  OBVIOUS
<1>2. Len(t) = Len(s) - k
  BY <1>1
<1>3. \A i \in 1..Len(t) : t[i] = s[i + k] /\ i + k \in 1..Len(s)
  BY <1>1, <1>2
<1>4. t \in Seq(Nat)
  BY <1>1, <1>2, <1>3
<1> QED BY <1>2, <1>3, <1>4

(* The old paths go; the tracker's checkpoint and the parts this save has   *)
(* already written stay.                                                   *)
LEMMA RotateStep ==
    ASSUME IInv, Rotate, \A p \in Parts : Keep[p] # 1
    PROVE  IInv'
<1>1. /\ pc = "rotate" /\ pc' = "write" /\ written' = {}
      /\ shards' = {f \in shards : ~(f.part = part /\ f.step \in Victims(part))}
      /\ saved' = [saved EXCEPT ![part] = SubSeq(@, Excess(part) + 1, Len(@))]
      /\ folders' = folders \cup {global_steps}
      /\ UNCHANGED <<dataFiles, tracker, global_steps, weights, loader, part, restarts>>
  BY DEF Rotate
<1>2. part \in Parts /\ global_steps \in Nat /\ global_steps > 0 /\ saved \in [Parts -> Seq(Nat)]
  BY <1>1 DEF IInv, TypeInv, TrainInv, Training, InSave
<1>3. Excess(part) \in 0..Len(saved[part]) /\ tracker \notin Victims(part)
  BY <1>1, <1>2, VictimsSpareTracker DEF IInv
<1> DEFINE old == saved[part]
           new == SubSeq(old, Excess(part) + 1, Len(old))
<1>4. /\ old \in Seq(Nat) /\ new \in Seq(Nat) /\ Len(new) = Len(old) - Excess(part)
      /\ \A i \in 1..Len(new) : /\ new[i] = old[i + Excess(part)]
                                /\ i + Excess(part) \in 1..Len(old)
  <2>1. old \in Seq(Nat)
    BY <1>2
  <2> QED BY <2>1, <1>3, Suffix
<1>5. saved'[part] = new /\ \A p \in Parts \ {part} : saved'[p] = saved[p]
  BY <1>1, <1>2
<1>6. TypeInv'
  <2>1. saved' \in [Parts -> Seq(Nat)]
    BY <1>1, <1>2, <1>4
  <2>2. folders' \subseteq Nat \ {0}
    <3>1. folders \subseteq Nat \ {0} /\ global_steps \in Nat \ {0}
      BY <1>2 DEF IInv, TypeInv
    <3> QED BY <3>1, <1>1
  <2>3. tracker' \in folders' \cup {NoTracker, Garbled}
    <3>1. tracker \in folders \cup {NoTracker, Garbled} /\ tracker' = tracker
      BY <1>1 DEF IInv, TypeInv
    <3> QED BY <3>1, <1>1
  <2> QED BY <1>1, <1>2, <2>1, <2>2, <2>3 DEF IInv, TypeInv, loader
<1>7. TrainInv' /\ AheadInv'
  BY <1>1 DEF IInv, TrainInv, AheadInv, Training, InSave, Trained, InOrder, loader
<1>8. DiskInv'
  BY <1>1, <1>3, DiskKept DEF IInv
<1>9. SaveInv'
  <2>1. ASSUME NEW p \in Parts, NEW r \in Ranks, SavedNow(p)'
        PROVE  ModelsAt(p, global_steps, r)' = {weights[<<p, r>>]}'
    <3>1. SavedNow(p) /\ p # part
      BY <1>1, <2>1 DEF SavedNow
    <3>2. Shard(p, global_steps, r)' = Shard(p, global_steps, r)
      BY <1>1, <3>1 DEF Shard
    <3> QED BY <1>1, <3>1, <3>2 DEF IInv, SaveInv, ModelsAt
  <2> QED BY <2>1, <1>1 DEF SaveInv
<1>10. RotationInv'
  <2>1. \A p \in Parts : Newest(p)' = Newest(p)
    BY <1>1 DEF Newest, SavedNow
  <2>2. ASSUME NEW p \in Parts, NEW i \in 1..Len(saved'[p])
        PROVE  /\ saved'[p][i] <= Newest(p)
               /\ i < Len(saved'[p]) => saved'[p][i] < Newest(p)
    <3>1. \A j \in 1..Len(saved[p]) : /\ saved[p][j] <= Newest(p)
                                      /\ j < Len(saved[p]) => saved[p][j] < Newest(p)
      BY <1>1 DEF IInv, RotationInv, Training, InSave
    <3>2. CASE p # part
      BY <3>1, <3>2, <1>5, <2>2
    <3>3. CASE p = part
      <4>1. i \in 1..Len(new) /\ saved'[p][i] = old[i + Excess(part)]
        BY <3>3, <1>4, <1>5, <2>2
      <4>2. i + Excess(part) \in 1..Len(old)
        BY <4>1, <1>4
      <4>3. i < Len(saved'[p]) => i + Excess(part) < Len(old)
        BY <3>3, <4>1, <1>3, <1>4, <1>5
      <4> HIDE DEF old, new
      <4>4. saved[p] = old
        BY <3>3 DEF old
      <4> QED BY <3>1, <4>1, <4>2, <4>3, <4>4
    <3> QED BY <3>2, <3>3
  <2> QED BY <1>1, <2>1, <2>2 DEF RotationInv, InSave
<1> QED BY <1>6, <1>7, <1>8, <1>9, <1>10 DEF IInv

(* A shard of the save in progress; what the tracker names is older.        *)
LEMMA WriteShardStep ==
    ASSUME IInv, NEW r \in Ranks, WriteShard(r)
    PROVE  IInv'
<1> DEFINE f0 == [part |-> part, step |-> global_steps, rank |-> r,
                  model |-> weights[<<part, r>>]]
<1>1. /\ pc = "write" /\ pc' = "write" /\ written' = written \cup {r}
      /\ shards' = (shards \ Shard(part, global_steps, r)) \cup {f0}
      /\ UNCHANGED <<folders, dataFiles, tracker, global_steps, weights, loader,
                     part, saved, restarts>>
  BY DEF WriteShard
<1>2. f0.part = part /\ f0.step = global_steps /\ f0.rank = r /\ f0.model = weights[<<part, r>>]
  OBVIOUS
<1>3. tracker < global_steps /\ tracker # global_steps
  BY <1>1 DEF IInv, AheadInv, TypeInv, Training, InSave, NoTracker, Garbled
<1>4. TypeInv'
  BY <1>1 DEF IInv, TypeInv, loader
<1>5. TrainInv' /\ AheadInv'
  BY <1>1 DEF IInv, TrainInv, AheadInv, Training, InSave, Trained, InOrder, loader
<1>6. DiskInv'
  <2>1. \A f : f.step = tracker => (f \in shards' <=> f \in shards)
    BY <1>1, <1>2, <1>3 DEF Shard
  <2> QED BY <1>1, <2>1, DiskKept DEF IInv
<1>7. ModelsAt(part, global_steps, r)' = {weights[<<part, r>>]}
  <2>1. Shard(part, global_steps, r)' = {f0}
    BY <1>1, <1>2 DEF Shard
  <2> QED BY <2>1, <1>2 DEF ModelsAt
<1>8. ASSUME NEW p \in Parts, NEW q \in Ranks, p # part \/ q # r
      PROVE  ModelsAt(p, global_steps, q)' = ModelsAt(p, global_steps, q)
  <2>1. Shard(p, global_steps, q)' = Shard(p, global_steps, q)
    BY <1>1, <1>2, <1>8 DEF Shard
  <2> QED BY <2>1 DEF ModelsAt
<1>9. SaveInv'
  <2>1. ASSUME NEW p \in Parts, NEW q \in Ranks, SavedNow(p)'
        PROVE  ModelsAt(p, global_steps, q)' = {weights[<<p, q>>]}'
    <3>1. SavedNow(p) /\ p # part
      BY <1>1, <2>1 DEF SavedNow
    <3> QED BY <1>1, <1>8, <3>1 DEF IInv, SaveInv
  <2>2. ASSUME NEW q \in written'
        PROVE  ModelsAt(part, global_steps, q)' = {weights[<<part, q>>]}'
    <3>1. part \in Parts /\ q \in Ranks
      BY <1>1 DEF IInv, TypeInv
    <3>2. CASE q = r
      BY <3>2, <1>1, <1>7
    <3>3. CASE q # r
      BY <3>1, <3>3, <1>1, <1>8 DEF IInv, SaveInv
    <3> QED BY <3>2, <3>3
  <2> QED BY <1>1, <2>1, <2>2 DEF SaveInv
<1>10. RotationInv'
  BY <1>1 DEF IInv, RotationInv, Newest, SavedNow, Training, InSave
<1> QED BY <1>4, <1>5, <1>6, <1>9, <1>10 DEF IInv

(* The new path is the newest of its manager.                              *)
LEMMA PartSavedStep ==
    ASSUME IInv, PartSaved
    PROVE  IInv'
<1>1. /\ pc = "write" /\ written = Ranks
      /\ saved' = [saved EXCEPT ![part] = Append(@, global_steps)]
      /\ UNCHANGED <<disk, global_steps, weights, loader, written, restarts>>
  BY DEF PartSaved
<1>2. \/ part = FirstPart /\ pc' = "rotate" /\ part' \in Parts \ {FirstPart}
      \/ /\ pc' = "data" /\ part' = part
         /\ part # FirstPart \/ Parts = {FirstPart}
  BY DEF PartSaved
<1>3. part \in Parts /\ global_steps \in Nat /\ saved \in [Parts -> Seq(Nat)]
  BY DEF IInv, TypeInv
<1>4. /\ saved'[part] \in Seq(Nat) /\ Len(saved'[part]) = Len(saved[part]) + 1
      /\ saved'[part][Len(saved[part]) + 1] = global_steps
      /\ \A i \in 1..Len(saved[part]) : saved'[part][i] = saved[part][i]
      /\ \A p \in Parts \ {part} : saved'[p] = saved[p]
  <2>1. saved'[part] = Append(saved[part], global_steps) /\ saved[part] \in Seq(Nat)
    BY <1>1, <1>3
  <2>2. \A p \in Parts \ {part} : saved'[p] = saved[p]
    BY <1>1, <1>3
  <2> QED BY <1>3, <2>1, <2>2
<1>5. \A p \in Parts : SavedNow(p)' <=> (p = part \/ SavedNow(p))
  BY <1>1, <1>2, <1>3, PartsAssumption DEF SavedNow
<1>6. TypeInv'
  <2>1. saved' \in [Parts -> Seq(Nat)]
    BY <1>1, <1>3
  <2> QED BY <1>1, <1>2, <1>3, <2>1 DEF IInv, TypeInv, disk, loader
<1>7. TrainInv' /\ AheadInv'
  BY <1>1, <1>2 DEF IInv, TrainInv, AheadInv, Training, InSave, Trained, InOrder, loader, disk
<1>8. DiskInv'
  BY <1>1, DiskKept DEF IInv, disk
<1>9. SaveInv'
  <2>1. \A p \in Parts, r \in Ranks : ModelsAt(p, global_steps, r)' = ModelsAt(p, global_steps, r)
    BY <1>1 DEF ModelsAt, Shard, disk
  <2>2. ASSUME NEW p \in Parts, NEW r \in Ranks, SavedNow(p)'
        PROVE  ModelsAt(p, global_steps, r)' = {weights[<<p, r>>]}'
    BY <1>1, <1>5, <2>1, <2>2 DEF IInv, SaveInv
  <2> QED BY <1>2, <2>2 DEF SaveInv
<1>10. RotationInv'
  <2>1. ASSUME NEW p \in Parts, NEW i \in 1..Len(saved'[p])
        PROVE  /\ saved'[p][i] <= Newest(p)'
               /\ i < Len(saved'[p]) => saved'[p][i] < Newest(p)'
    <3>1. \A j \in 1..Len(saved[p]) : /\ saved[p][j] <= Newest(p)
                                      /\ j < Len(saved[p]) => saved[p][j] < Newest(p)
      BY <1>1 DEF IInv, RotationInv, Training, InSave
    <3>2. CASE p # part
      <4>1. Newest(p)' = Newest(p) /\ saved'[p] = saved[p]
        BY <3>2, <1>1, <1>4, <1>5 DEF Newest, disk
      <4> QED BY <4>1, <3>1, <2>1
    <3>3. CASE p = part
      <4>1. Newest(p)' = global_steps /\ Newest(p) = tracker
        BY <3>3, <1>1, <1>5 DEF Newest, SavedNow
      <4>2. tracker < global_steps /\ tracker \in Int
        BY <1>1 DEF IInv, AheadInv, TypeInv, Training, InSave, NoTracker, Garbled
      <4>3. CASE i = Len(saved[p]) + 1
        BY <4>1, <4>3, <3>3, <1>3, <1>4
      <4>4. CASE i # Len(saved[p]) + 1
        <5>1. i \in 1..Len(saved[p]) /\ saved'[p][i] = saved[p][i] /\ saved[p][i] \in Nat
          BY <4>4, <3>3, <1>3, <1>4, <2>1
        <5>2. saved[p][i] <= tracker
          BY <5>1, <3>1, <4>1
        <5> QED BY <5>1, <5>2, <4>1, <4>2, <1>3
      <4> QED BY <4>3, <4>4
    <3> QED BY <3>2, <3>3
  <2>2. global_steps' \in folders'
    BY <1>1 DEF IInv, RotationInv, InSave, disk
  <2> QED BY <1>2, <2>1, <2>2 DEF RotationInv
<1> QED BY <1>6, <1>7, <1>8, <1>9, <1>10 DEF IInv

LEMMA SaveDataStep ==
    ASSUME IInv, SaveData
    PROVE  IInv'
<1> DEFINE d0 == [step |-> global_steps, drawn |-> drawn]
<1>1. /\ pc = "data" /\ pc' = "tracker"
      /\ dataFiles' = (dataFiles \ DataFile(global_steps)) \cup {d0}
      /\ UNCHANGED <<folders, shards, tracker, global_steps, weights, loader, part,
                     written, saved, restarts>>
  BY DEF SaveData
<1>2. d0.step = global_steps /\ d0.drawn = drawn
  OBVIOUS
<1>3. tracker # global_steps
  BY <1>1 DEF IInv, AheadInv, TypeInv, Training, InSave, NoTracker, Garbled
<1>4. TypeInv'
  BY <1>1 DEF IInv, TypeInv, loader
<1>5. TrainInv' /\ AheadInv'
  BY <1>1 DEF IInv, TrainInv, AheadInv, Training, InSave, Trained, InOrder, loader
<1>6. DiskInv'
  <2>1. \A d : d.step = tracker => (d \in dataFiles' <=> d \in dataFiles)
    BY <1>1, <1>2, <1>3 DEF DataFile
  <2> QED BY <1>1, <2>1, DiskKept DEF IInv
<1>7. SaveInv'
  <2>1. DataFile(global_steps)' = {d0}
    BY <1>1, <1>2 DEF DataFile
  <2>2. {d.drawn : d \in DataFile(global_steps)}' = {drawn}'
    BY <1>1, <1>2, <2>1 DEF loader
  <2>3. ASSUME NEW p \in Parts, NEW r \in Ranks
        PROVE  ModelsAt(p, global_steps, r)' = {weights[<<p, r>>]}'
    <3>1. ModelsAt(p, global_steps, r) = {weights[<<p, r>>]}
      BY <1>1 DEF IInv, SaveInv, SavedNow
    <3> QED BY <1>1, <3>1 DEF ModelsAt, Shard
  <2> QED BY <1>1, <2>2, <2>3 DEF SaveInv
<1>8. RotationInv'
  BY <1>1 DEF IInv, RotationInv, Newest, SavedNow, Training, InSave
<1> QED BY <1>4, <1>5, <1>6, <1>7, <1>8 DEF IInv

(* The moment the tracker names a step, that step is whole.                *)
LEMMA SaveTrackerStep ==
    ASSUME IInv, SaveTracker
    PROVE  IInv'
<1>1. /\ pc = "tracker" /\ tracker' = global_steps
      /\ global_steps' = global_steps + 1 /\ pc' \in {"train", "done"}
      /\ UNCHANGED <<folders, shards, dataFiles, weights, loader, part, written,
                     saved, restarts>>
  BY DEF SaveTracker, EndStep
<1>2. /\ global_steps \in folders /\ global_steps \in Nat /\ global_steps > 0
      /\ drawn = global_steps
  BY <1>1 DEF IInv, TypeInv, TrainInv, RotationInv, Training, InSave, Trained
<1>3. PICK m \in Models : InOrder(m, drawn) /\ weights = [w \in Parts \X Ranks |-> m]
  BY <1>1 DEF IInv, TrainInv, Training, InSave
<1>4. TypeInv'
  BY <1>1, <1>2 DEF IInv, TypeInv, loader
<1>5. TrainInv'
  BY <1>1, <1>2, <1>3 DEF TrainInv, Trained, InSave, InOrder, loader
<1>6. AheadInv'
  BY <1>1, <1>2 DEF AheadInv
<1>7. DiskInv'
  <2>1. ASSUME NEW p \in Parts, NEW r \in Ranks
        PROVE  ModelsAt(p, tracker, r)' = {m}
    <3>1. ModelsAt(p, global_steps, r) = {weights[<<p, r>>]} /\ weights[<<p, r>>] = m
      BY <1>1, <1>3 DEF IInv, SaveInv, SavedNow
    <3> QED BY <1>1, <3>1 DEF ModelsAt, Shard
  <2>2. {d.drawn : d \in DataFile(tracker)}' = {tracker'}
    <3>1. {d.drawn : d \in DataFile(global_steps)} = {global_steps}
      BY <1>1, <1>2 DEF IInv, SaveInv
    <3> QED BY <1>1, <3>1 DEF DataFile
  <2>3. InOrder(m, tracker')
    BY <1>1, <1>2, <1>3
  <2> QED BY <2>1, <2>2, <2>3 DEF DiskInv, Whole, InOrder
<1>8. SaveInv'
  BY <1>1 DEF SaveInv, SavedNow
<1>9. RotationInv'
  <2>1. \A p \in Parts : Newest(p)' = Newest(p)
    BY <1>1 DEF Newest, SavedNow
  <2> QED BY <1>1, <2>1 DEF IInv, RotationInv, Training, InSave
<1> QED BY <1>4, <1>5, <1>6, <1>7, <1>8, <1>9 DEF IInv
-----------------------------------------------------------------------------
(* What dies with the job says nothing; a dead job promises nothing.        *)
LEMMA JobLostStep ==
    ASSUME IInv, JobLost, DiskInv', folders' \subseteq Nat \ {0},
           tracker' \in folders' \cup {NoTracker, Garbled}
    PROVE  IInv'
<1>1. /\ pc' = "down" /\ global_steps' = 0 /\ drawn' = 0 /\ part' = FirstPart
      /\ written' = {} /\ saved' = [p \in Parts |-> <<>>] /\ restarts' = restarts + 1
  BY DEF JobLost
<1>2. TypeInv'
  BY <1>1, PartsAssumption DEF IInv, TypeInv
<1>3. TrainInv' /\ AheadInv' /\ SaveInv' /\ RotationInv'
  BY <1>1 DEF TrainInv, AheadInv, SaveInv, RotationInv, SavedNow, Training, InSave
<1> QED BY <1>2, <1>3 DEF IInv

(* Nothing that a crash can cut short belongs to the tracker's step.        *)
LEMMA CrashStep ==
    ASSUME IInv, Crash, \A p \in Parts : Keep[p] # 1
    PROVE  IInv'
<1>1. PICK torn \in SUBSET (HalfRemoved \cup HalfWritten) : shards' = shards \ torn
  BY DEF Crash
<1>2. folders' \in {folders, folders \cup {global_steps}} /\ (folders' = folders \/ pc = "rotate")
  BY DEF Crash
<1>3. tracker' \in {tracker, Garbled}
  BY DEF Crash
<1>4. folders' \subseteq Nat \ {0}
  <2>1. folders \subseteq Nat \ {0} /\ (pc = "rotate" => global_steps \in Nat \ {0})
    BY DEF IInv, TypeInv, TrainInv, Training, InSave
  <2> QED BY <2>1, <1>2
<1>5. tracker' \in folders' \cup {NoTracker, Garbled}
  <2>1. tracker \in folders \cup {NoTracker, Garbled}
    BY DEF IInv, TypeInv
  <2> QED BY <2>1, <1>2, <1>3
<1>6. DiskInv'
  <2>1. CASE tracker' = Garbled
    BY <2>1 DEF DiskInv, Garbled
  <2>2. CASE tracker' = tracker
    <3>1. InSave => tracker # global_steps
      BY DEF IInv, AheadInv, TypeInv, Training, InSave, NoTracker, Garbled
    <3>2. \A f : f.step = tracker => (f \in shards' <=> f \in shards)
      <4>1. ASSUME NEW f \in HalfRemoved PROVE f.step # tracker
        <5>1. pc = "rotate" /\ f.step \in Victims(part)
          BY DEF HalfRemoved
        <5>2. part \in Parts
          BY DEF IInv, TypeInv
        <5> QED BY <5>1, <5>2, VictimsSpareTracker DEF IInv
      <4>2. ASSUME NEW f \in HalfWritten PROVE f.step # tracker
        BY <3>1 DEF HalfWritten, InSave
      <4> QED BY <1>1, <4>1, <4>2
    <3>3. \A d : d.step = tracker => (d \in dataFiles' <=> d \in dataFiles)
      <4> DEFINE d0 == [step |-> global_steps, drawn |-> Torn]
      <4>1. \/ dataFiles' = dataFiles
            \/ pc = "data" /\ dataFiles' = (dataFiles \ DataFile(global_steps)) \cup {d0}
        BY DEF Crash
      <4>2. d0.step = global_steps
        OBVIOUS
      <4> QED BY <4>1, <4>2, <3>1 DEF DataFile, InSave
    <3> QED BY <2>2, <3>2, <3>3, DiskKept DEF IInv
  <2> QED BY <1>3, <2>1, <2>2
<1> QED BY <1>4, <1>5, <1>6, JobLostStep DEF Crash

LEMMA RelaunchStep ==
    ASSUME IInv, Relaunch
    PROVE  IInv'
<1>1. DiskInv'
  BY DiskKept DEF Relaunch, IInv, disk
<1>2. folders' \subseteq Nat \ {0} /\ tracker' \in folders' \cup {NoTracker, Garbled}
  BY DEF Relaunch, IInv, TypeInv, disk
<1> QED BY <1>1, <1>2, JobLostStep DEF Relaunch

LEMMA StutterStep ==
    ASSUME IInv, UNCHANGED vars
    PROVE  IInv'
<1>1. DiskInv'
  BY DiskKept DEF IInv, vars, disk
<1>2. TypeInv' /\ TrainInv' /\ AheadInv' /\ RotationInv'
  BY DEF IInv, TypeInv, TrainInv, AheadInv, RotationInv, Newest, SavedNow, Training,
         InSave, Trained, InOrder, vars, disk, loader
<1>3. SaveInv'
  <2>1. \A p \in Parts, r \in Ranks : ModelsAt(p, global_steps, r)' = ModelsAt(p, global_steps, r)
    BY DEF ModelsAt, Shard, vars, disk
  <2>2. part \in Parts /\ written \subseteq Ranks
    BY DEF IInv, TypeInv
  <2> QED BY <2>1, <2>2 DEF IInv, SaveInv, SavedNow, ModelsAt, Shard, DataFile, vars, disk, loader
<1> QED BY <1>1, <1>2, <1>3 DEF IInv
-----------------------------------------------------------------------------
LEMMA InvariantHolds ==
    ASSUME ResumeModes \subseteq {"auto"}, \A p \in Parts : Keep[p] # 1
    PROVE  Spec => []IInv
<1>1. IInv /\ [Next]_vars => IInv'
  <2> SUFFICES ASSUME IInv, [Next]_vars PROVE IInv'
    OBVIOUS
  <2> QED BY LaunchStep, NextEpochStep, TrainStepStep, RotateStep, WriteShardStep,
             PartSavedStep, SaveDataStep, SaveTrackerStep, CrashStep, RelaunchStep,
             StutterStep DEF Next, Work
<1> QED BY InitIInv, <1>1, PTL DEF Spec

(* Every crash in mode "auto" leaves a complete checkpoint of one model     *)
(* under the tracker, for any number of ranks, parts, steps and crashes,    *)
(* provided no manager keeps exactly one (_save_checkpoint, _load_checkpoint *)
(* and the rotation of fsdp_checkpoint_manager.py).                        *)
THEOREM TrackerIsSafe ==
    ASSUME ResumeModes \subseteq {"auto"}, \A p \in Parts : Keep[p] # 1
    PROVE  Spec => []TrackerNamesWholeCheckpoint
<1>1. IInv => TrackerNamesWholeCheckpoint
  <2> SUFFICES ASSUME IInv, tracker > 0
               PROVE  /\ \E f \in shards :
                             HasSavedModel(tracker, f.model) /\ InOrder(f.model, tracker)
                      /\ {d.drawn : d \in DataFile(tracker)} = {tracker}
    BY DEF TrackerNamesWholeCheckpoint
  <2>1. PICK m \in Models : InOrder(m, tracker) /\ Whole(tracker, m)
    BY DEF IInv, DiskInv
  <2>2. PICK r \in Ranks : TRUE
    BY RanksAssumption
  <2>3. PICK f \in Shard(FirstPart, tracker, r) : f.model = m
    BY <2>1, <2>2, PartsAssumption DEF Whole, ModelsAt
  <2>4. f \in shards
    BY <2>3 DEF Shard
  <2>5. HasSavedModel(tracker, m)
    BY <2>1 DEF HasSavedModel, Whole, ModelsAt
  <2> QED BY <2>1, <2>3, <2>4, <2>5 DEF Whole
<1> QED BY <1>1, InvariantHolds, PTL

(* Under the same conditions every model is trained on every batch once and *)
(* in order, across any number of crashes (fit and the data loader's state  *)
(* in data.pt).                                                            *)
THEOREM BatchesAreContinuous ==
    ASSUME ResumeModes \subseteq {"auto"}, \A p \in Parts : Keep[p] # 1
    PROVE  Spec => []NoBatchSkippedOrRepeated
<1>1. IInv => NoBatchSkippedOrRepeated
  BY DEF IInv, TrainInv, NoBatchSkippedOrRepeated
<1> QED BY <1>1, InvariantHolds, PTL
-----------------------------------------------------------------------------
(* In every mode and however many checkpoints are kept: steps count one up   *)
(* with every launch at most, and no loader is ahead of its step.           *)
BoundInv ==
    /\ folders \subseteq 1..(TotalTrainingSteps + restarts)
    /\ pc = "down" => folders \subseteq 1..(TotalTrainingSteps + restarts - 1)
    /\ Training => /\ global_steps \in 1..(TotalTrainingSteps + restarts)
                   /\ drawn <= Trained
    /\ InSave => global_steps \in folders \/ (pc = "rotate" /\ part = FirstPart)
    /\ \A d \in dataFiles : d.drawn <= d.step

(* A shard's model, like the one in training, has as many updates as its     *)
(* step says.                                                              *)
LengthInv ==
    /\ \A f \in shards : Len(f.model) = f.step
    /\ Training => \A w \in Parts \X Ranks : Len(weights[w]) = Trained

(* The inductive invariant of types and step numbers, which needs no        *)
(* assumption on modes.                                                     *)
AnyModeInv == TypeOK /\ BoundInv /\ LengthInv

(* The steps of the launches so far are among Steps.                        *)
LEMMA StepsAre ==
    ASSUME restarts \in 0..MaxRestarts, NEW n \in 1..(TotalTrainingSteps + restarts)
    PROVE  n \in Steps
    BY LengthsAssumption DEF Steps

(* The invariant holds at the start.                                        *)
LEMMA AnyModeInit == Init => AnyModeInv
    <1> SUFFICES ASSUME Init PROVE AnyModeInv
        OBVIOUS
    <1>1. <<>> \in Seq(Updates) /\ <<>> \in Seq({})
        OBVIOUS
    <1>2. TypeOK
        BY <1>1, PartsAssumption, LengthsAssumption DEF Init, TypeOK, NoTracker
    <1>3. BoundInv /\ LengthInv
        BY DEF Init, BoundInv, LengthInv, Training, InSave
    <1> QED
        BY <1>2, <1>3 DEF AnyModeInv

(* Where the loader goes on lies within an epoch.                           *)
LEMMA LeftInEpoch ==
    ASSUME NEW n \in Nat
    PROVE  LoadedLeft(n) \subseteq 0..BatchesPerEpoch
    <1>1. n % BatchesPerEpoch \in 0..(BatchesPerEpoch - 1)
        BY LengthsAssumption
    <1> QED
        BY <1>1, LengthsAssumption DEF LoadedLeft

(* A job starts with models of as many updates as its step says.            *)
LEMMA AnyModeStart ==
    ASSUME AnyModeInv, pc = "down", NEW g, g \in 1..(TotalTrainingSteps + restarts),
           NEW w, w \in [Parts \X Ranks -> Seq(Updates)],
           \A x \in Parts \X Ranks : Len(w[x]) = g - 1,
           NEW n \in Nat, n <= g - 1, StartTraining(g, w, n),
           UNCHANGED <<disk, part, written, saved, restarts>>
    PROVE  AnyModeInv'
    <1>1. /\ pc' = "train" /\ global_steps' = g /\ weights' = w /\ drawn' = n
          /\ left' \in LoadedLeft(n) /\ epochs_left' = TotalEpochs - 1
          /\ UNCHANGED <<folders, shards, dataFiles, tracker, part, written, saved, restarts>>
        BY DEF StartTraining, disk
    <1>2. left' \in 0..BatchesPerEpoch /\ epochs_left' \in 0..TotalEpochs
        BY <1>1, LeftInEpoch, LengthsAssumption
    <1>3. TypeOK'
        BY <1>1, <1>2 DEF AnyModeInv, TypeOK
    <1>4. Training' /\ ~InSave' /\ Trained' = g - 1
        BY <1>1 DEF Training, InSave, Trained
    <1>5. BoundInv'
        BY <1>1, <1>4 DEF AnyModeInv, BoundInv
    <1>6. LengthInv'
        BY <1>1, <1>4 DEF AnyModeInv, LengthInv
    <1> QED
        BY <1>3, <1>5, <1>6 DEF AnyModeInv

(* A launch from scratch keeps the invariant.                               *)
LEMMA AnyModeScratch ==
    ASSUME AnyModeInv, pc = "down", FromScratch, UNCHANGED <<disk, part, written, saved, restarts>>
    PROVE  AnyModeInv'
    <1> DEFINE w == [x \in Parts \X Ranks |-> <<>>]
    <1>1. <<>> \in Seq(Updates)
        OBVIOUS
    <1>2. w \in [Parts \X Ranks -> Seq(Updates)] /\ \A x \in Parts \X Ranks : Len(w[x]) = 1 - 1
        BY <1>1
    <1>3. 1 \in 1..(TotalTrainingSteps + restarts) /\ 0 <= 1 - 1 /\ 0 \in Nat
        BY LengthsAssumption DEF AnyModeInv, TypeOK
    <1>4. StartTraining(1, w, 0)
        BY DEF FromScratch, StepAfterLoad
    <1> HIDE DEF w
    <1> QED
        BY <1>2, <1>3, <1>4, AnyModeStart

(* A launch that fails keeps the invariant.                                 *)
LEMMA AnyModeFails ==
    ASSUME AnyModeInv, pc = "down", LoadFails, UNCHANGED <<disk, part, written, saved, restarts>>
    PROVE  AnyModeInv'
    <1>1. /\ pc' = "failed"
          /\ UNCHANGED <<folders, shards, dataFiles, tracker, part, written, saved, restarts,
                         global_steps, weights, drawn, left, epochs_left>>
        BY DEF LoadFails, disk, loader
    <1> QED
        BY <1>1 DEF AnyModeInv, TypeOK, BoundInv, LengthInv, Training, InSave

(* Whichever checkpoint is taken, the step goes on from its name.           *)
LEMMA AnyModeLoad ==
    ASSUME AnyModeInv, pc = "down", NEW s \in folders, LoadFrom(s),
           UNCHANGED <<disk, part, written, saved, restarts>>
    PROVE  AnyModeInv'
    <1>1. CASE ~Loadable(s)
        BY <1>1, AnyModeFails DEF LoadFrom
    <1>2. CASE Loadable(s)
        <2> DEFINE w == [x \in Parts \X Ranks |-> (CHOOSE f \in Shard(x[1], s, x[2]) : TRUE).model]
                   n == LoadedDrawn(s)
        <2>1. StartTraining(s + 1, w, n)
            BY <1>2 DEF LoadFrom, StepAfterLoad
        <2>2. s \in Nat /\ s >= 1 /\ s + 1 \in 1..(TotalTrainingSteps + restarts) /\ (s + 1) - 1 = s
            <3>1. s \in 1..(TotalTrainingSteps + restarts - 1)
                BY DEF AnyModeInv, BoundInv
            <3>2. TotalTrainingSteps \in Nat /\ restarts \in Nat
                BY LengthsAssumption DEF AnyModeInv, TypeOK
            <3> QED
                BY <3>1, <3>2
        <2>3. ASSUME NEW x \in Parts \X Ranks PROVE w[x] \in Seq(Updates) /\ Len(w[x]) = s
            <3>1. x[1] \in Parts /\ x[2] \in Ranks
                OBVIOUS
            <3>2. Shard(x[1], s, x[2]) # {}
                BY <1>2, <3>1 DEF Loadable
            <3>3. PICK f : f = CHOOSE g \in Shard(x[1], s, x[2]) : TRUE
                OBVIOUS
            <3>4. f \in shards /\ f.step = s
                BY <3>2, <3>3 DEF Shard
            <3>5. w[x] = f.model
                BY <3>3
            <3> QED
                BY <3>4, <3>5 DEF AnyModeInv, TypeOK, LengthInv
        <2>4. n \in Nat /\ n <= s
            <3>1. CASE DataFile(s) = {}
                BY <2>2, <3>1 DEF LoadedDrawn
            <3>2. CASE DataFile(s) # {}
                <4>1. PICK d : d = CHOOSE e \in DataFile(s) : TRUE
                    OBVIOUS
                <4>2. d \in dataFiles /\ d.step = s
                    BY <3>2, <4>1 DEF DataFile
                <4>3. n = d.drawn
                    BY <3>2, <4>1 DEF LoadedDrawn
                <4>4. n # Torn
                    BY <1>2 DEF Loadable
                <4> QED
                    BY <4>2, <4>3, <4>4 DEF AnyModeInv, TypeOK, BoundInv
            <3> QED
                BY <3>1, <3>2
        <2>5. w \in [Parts \X Ranks -> Seq(Updates)] /\ \A x \in Parts \X Ranks : Len(w[x]) = (s + 1) - 1
            BY <2>2, <2>3
        <2> HIDE DEF w, n
        <2>6. n <= (s + 1) - 1
            BY <2>2, <2>4
        <2> QED
            BY <2>1, <2>2, <2>4, <2>5, <2>6, AnyModeStart
    <1> QED
        BY <1>1, <1>2

(* A launch keeps the invariant, in whatever mode.                          *)
LEMMA AnyModeLaunch ==
    ASSUME AnyModeInv, Launch
    PROVE  AnyModeInv'
    <1>1. pc = "down" /\ UNCHANGED <<disk, part, written, saved, restarts>>
        BY DEF Launch
    <1>2. \/ FromScratch \/ LoadFails \/ \E s \in folders : LoadFrom(s)
        BY DEF Launch, Resume
    <1> QED
        BY <1>1, <1>2, AnyModeScratch, AnyModeFails, AnyModeLoad

(* NextEpoch keeps the invariant.                                           *)
LEMMA AnyModeEpoch ==
    ASSUME AnyModeInv, NextEpoch
    PROVE  AnyModeInv'
    <1>1. /\ pc = "train" /\ left = 0 /\ pc' \in {"train", "done"}
          /\ UNCHANGED <<folders, shards, dataFiles, tracker, global_steps, weights, drawn,
                         part, written, saved, restarts>>
        BY DEF NextEpoch, disk
    <1>2. left' \in 0..BatchesPerEpoch /\ epochs_left' \in 0..TotalEpochs
        <2>1. left \in 0..BatchesPerEpoch /\ epochs_left \in 0..TotalEpochs /\ BatchesPerEpoch \in Nat
              /\ TotalEpochs \in Nat
            BY LengthsAssumption DEF AnyModeInv, TypeOK
        <2> QED
            BY <2>1 DEF NextEpoch
    <1>3. TypeOK'
        BY <1>1, <1>2 DEF AnyModeInv, TypeOK
    <1>4. BoundInv' /\ LengthInv'
        BY <1>1 DEF AnyModeInv, BoundInv, LengthInv, Training, InSave, Trained
    <1> QED
        BY <1>3, <1>4 DEF AnyModeInv

(* A batch more, an update more.                                            *)
LEMMA UpdatesGrow ==
    ASSUME AnyModeInv, pc = "train", weights' = [w \in Parts \X Ranks |-> Append(weights[w], Update)]
    PROVE  /\ weights' \in [Parts \X Ranks -> Seq(Updates)]
           /\ \A w \in Parts \X Ranks : Len(weights'[w]) = global_steps
    <1>1. /\ drawn \in Nat /\ global_steps \in 1..(TotalTrainingSteps + restarts)
          /\ drawn <= global_steps - 1 /\ restarts \in 0..MaxRestarts
          /\ weights \in [Parts \X Ranks -> Seq(Updates)]
          /\ \A w \in Parts \X Ranks : Len(weights[w]) = global_steps - 1
        BY DEF AnyModeInv, TypeOK, BoundInv, LengthInv, Training, InSave, Trained
    <1>2. drawn + 1 \in 1..(TotalTrainingSteps + restarts) /\ global_steps \in Nat
        BY <1>1, LengthsAssumption
    <1>3. Update \in Updates
        BY <1>1, <1>2, StepsAre DEF Update, Updates
    <1>4. ASSUME NEW w \in Parts \X Ranks
          PROVE  weights'[w] \in Seq(Updates) /\ Len(weights'[w]) = global_steps
        <2>1. weights'[w] = Append(weights[w], Update) /\ weights[w] \in Seq(Updates)
              /\ Len(weights[w]) = global_steps - 1
            BY <1>1
        <2> QED
            BY <1>2, <1>3, <2>1
    <1> QED
        BY <1>4

(* TrainStep keeps the invariant.                                           *)
LEMMA AnyModeTrain ==
    ASSUME AnyModeInv, TrainStep
    PROVE  AnyModeInv'
    <1>1. /\ pc = "train" /\ left > 0 /\ drawn' = drawn + 1 /\ left' = left - 1
          /\ weights' = [w \in Parts \X Ranks |-> Append(weights[w], Update)]
          /\ UNCHANGED <<folders, shards, dataFiles, tracker, epochs_left, written, saved, restarts>>
        BY DEF TrainStep, disk
    <1>2. \/ pc' = "rotate" /\ part' = FirstPart /\ global_steps' = global_steps
          \/ /\ global_steps' = global_steps + 1 /\ part' = part
             /\ pc' = IF LastStep THEN "done" ELSE "train"
        BY DEF TrainStep, EndStep
    <1>3. /\ drawn \in Nat /\ global_steps \in 1..(TotalTrainingSteps + restarts)
          /\ drawn <= global_steps - 1 /\ restarts \in 0..MaxRestarts /\ left \in 0..BatchesPerEpoch
        BY <1>1 DEF AnyModeInv, TypeOK, BoundInv, Training, InSave, Trained
    <1>4. /\ weights' \in [Parts \X Ranks -> Seq(Updates)]
          /\ \A w \in Parts \X Ranks : Len(weights'[w]) = global_steps
        BY <1>1, UpdatesGrow
    <1>5. /\ drawn' \in Nat /\ drawn' <= global_steps /\ left' \in 0..BatchesPerEpoch
          /\ global_steps \in Nat /\ global_steps' \in Nat /\ (global_steps + 1) - 1 = global_steps
          /\ ~LastStep => global_steps + 1 \in 1..(TotalTrainingSteps + restarts)
        BY <1>1, <1>2, <1>3, LengthsAssumption DEF LastStep
    <1>6. TypeOK'
        <2>1. pc' \in {"rotate", "train", "done"} /\ part' \in Parts
            BY <1>2, PartsAssumption DEF AnyModeInv, TypeOK
        <2> QED
            BY <1>1, <1>4, <1>5, <2>1 DEF AnyModeInv, TypeOK
    <1>7. CASE pc' = "rotate" /\ part' = FirstPart /\ global_steps' = global_steps
        <2>1. Training' /\ InSave' /\ Trained' = global_steps
            BY <1>7 DEF Training, InSave, Trained
        <2>2. BoundInv'
            BY <1>1, <1>3, <1>5, <1>7, <2>1 DEF AnyModeInv, BoundInv
        <2>3. LengthInv'
            BY <1>1, <1>4, <2>1 DEF AnyModeInv, LengthInv
        <2> QED
            BY <1>6, <2>2, <2>3 DEF AnyModeInv
    <1>8. CASE /\ global_steps' = global_steps + 1 /\ part' = part
               /\ pc' = IF LastStep THEN "done" ELSE "train"
        <2>1. ~InSave' /\ (Training' => ~LastStep) /\ Trained' = global_steps /\ pc' # "down"
            BY <1>5, <1>8 DEF Training, InSave, Trained
        <2>2. BoundInv'
            BY <1>1, <1>5, <1>8, <2>1 DEF AnyModeInv, BoundInv
        <2>3. LengthInv'
            BY <1>1, <1>4, <2>1 DEF AnyModeInv, LengthInv
        <2> QED
            BY <1>6, <2>2, <2>3 DEF AnyModeInv
    <1> QED
        BY <1>2, <1>7, <1>8

(* A sequence over a set is one over a larger set.                          *)
LEMMA SeqMono ==
    ASSUME NEW S, NEW T, S \subseteq T, NEW q \in Seq(S)
    PROVE  q \in Seq(T)
    OBVIOUS

(* The rest of a sequence.                                                  *)
LEMMA CutTail ==
    ASSUME NEW S, NEW q \in Seq(S), NEW n \in Nat
    PROVE  SubSeq(q, n + 1, Len(q)) \in Seq(S)
    OBVIOUS

(* Rotate keeps the invariant: it makes the directory of its step.          *)
LEMMA AnyModeRotate ==
    ASSUME AnyModeInv, Rotate
    PROVE  AnyModeInv'
    <1>1. /\ pc = "rotate" /\ pc' = "write" /\ written' = {}
          /\ shards' \subseteq shards
          /\ saved' = [saved EXCEPT ![part] = SubSeq(@, Excess(part) + 1, Len(@))]
          /\ folders' = folders \cup {global_steps}
          /\ UNCHANGED <<dataFiles, tracker, global_steps, weights, drawn, left, epochs_left,
                         part, restarts>>
        BY DEF Rotate, loader
    <1>2. /\ part \in Parts /\ saved \in [Parts -> Seq(folders)]
          /\ global_steps \in 1..(TotalTrainingSteps + restarts) /\ restarts \in 0..MaxRestarts
        BY <1>1 DEF AnyModeInv, TypeOK, BoundInv, Training, InSave
    <1>3. Excess(part) \in Nat
        BY <1>2, KeepAssumption DEF Excess
    <1>4. saved' \in [Parts -> Seq(folders')]
        <2>1. \A p \in Parts : saved[p] \in Seq(folders')
            BY <1>1, <1>2, SeqMono
        <2>2. SubSeq(saved[part], Excess(part) + 1, Len(saved[part])) \in Seq(folders')
            <3>1. saved[part] \in Seq(folders')
                BY <1>2, <2>1
            <3> QED
                BY <1>3, <3>1, CutTail
        <2> HIDE DEF Excess
        <2> QED
            BY <1>1, <1>2, <2>1, <2>2
    <1>5. global_steps \in Steps /\ Steps \subseteq Nat
        BY <1>2, StepsAre DEF Steps
    <1>6. TypeOK'
        <2>1. folders' \subseteq Steps
            BY <1>1, <1>5 DEF AnyModeInv, TypeOK
        <2>2. \A f \in shards' : /\ f.part \in Parts /\ f.step \in folders' /\ f.rank \in Ranks
                                 /\ f.model \in Seq(Updates)
            BY <1>1 DEF AnyModeInv, TypeOK
        <2>3. \A d \in dataFiles' : d.step \in folders' /\ d.drawn \in Nat \cup {Torn}
            BY <1>1 DEF AnyModeInv, TypeOK
        <2>4. tracker' \in folders' \cup {NoTracker, Garbled}
            BY <1>1 DEF AnyModeInv, TypeOK
        <2> QED
            BY <1>1, <1>4, <2>1, <2>2, <2>3, <2>4 DEF AnyModeInv, TypeOK
    <1>7. Training /\ InSave /\ Training' /\ InSave' /\ Trained' = Trained
        BY <1>1 DEF Training, InSave, Trained
    <1>8. BoundInv'
        BY <1>1, <1>2, <1>7 DEF AnyModeInv, BoundInv
    <1>9. LengthInv'
        BY <1>1, <1>7 DEF AnyModeInv, LengthInv
    <1> QED
        BY <1>6, <1>8, <1>9 DEF AnyModeInv

(* WriteShard keeps the invariant: the shard's model is of its step.        *)
LEMMA AnyModeWrite ==
    ASSUME AnyModeInv, NEW r \in Ranks, WriteShard(r)
    PROVE  AnyModeInv'
    <1> DEFINE f0 == [part |-> part, step |-> global_steps, rank |-> r, model |-> weights[<<part, r>>]]
    <1>1. /\ pc = "write" /\ written' = written \cup {r}
          /\ shards' \subseteq shards \cup {f0}
          /\ UNCHANGED <<folders, dataFiles, tracker, pc, global_steps, weights, drawn, left,
                         epochs_left, part, saved, restarts>>
        BY DEF WriteShard, loader
    <1>2. /\ f0.part = part /\ f0.step = global_steps /\ f0.rank = r /\ f0.model = weights[<<part, r>>]
        OBVIOUS
    <1> HIDE DEF f0
    <1>3. Training /\ InSave /\ Training' /\ InSave' /\ Trained' = Trained /\ Trained = global_steps
        BY <1>1 DEF Training, InSave, Trained
    <1>4. /\ part \in Parts /\ global_steps \in folders
          /\ weights[<<part, r>>] \in Seq(Updates) /\ Len(weights[<<part, r>>]) = global_steps
        BY <1>1, <1>3 DEF AnyModeInv, TypeOK, BoundInv, LengthInv
    <1>5. \A f \in shards' : /\ f.part \in Parts /\ f.step \in folders' /\ f.rank \in Ranks
                             /\ f.model \in Seq(Updates) /\ Len(f.model) = f.step
        BY <1>1, <1>2, <1>4 DEF AnyModeInv, TypeOK, LengthInv
    <1>6. TypeOK'
        BY <1>1, <1>5 DEF AnyModeInv, TypeOK
    <1>7. BoundInv'
        BY <1>1, <1>3 DEF AnyModeInv, BoundInv
    <1>8. LengthInv'
        BY <1>1, <1>3, <1>5 DEF AnyModeInv, LengthInv
    <1> QED
        BY <1>6, <1>7, <1>8 DEF AnyModeInv

(* PartSaved keeps the invariant.                                           *)
LEMMA AnyModePart ==
    ASSUME AnyModeInv, PartSaved
    PROVE  AnyModeInv'
    <1>1. /\ pc = "write" /\ pc' \in {"rotate", "data"} /\ part' \in Parts
          /\ saved' = [saved EXCEPT ![part] = Append(@, global_steps)]
          /\ UNCHANGED <<folders, shards, dataFiles, tracker, global_steps, weights, drawn, left,
                         epochs_left, written, restarts>>
        BY DEF PartSaved, disk, loader, AnyModeInv, TypeOK
    <1>2. Training /\ InSave /\ Training' /\ InSave' /\ Trained' = Trained
        BY <1>1 DEF Training, InSave, Trained
    <1>3. global_steps \in folders /\ part \in Parts /\ saved \in [Parts -> Seq(folders)]
        BY <1>1, <1>2 DEF AnyModeInv, TypeOK, BoundInv
    <1>4. saved' \in [Parts -> Seq(folders')]
        BY <1>1, <1>3
    <1>5. TypeOK'
        BY <1>1, <1>4 DEF AnyModeInv, TypeOK
    <1>6. BoundInv'
        BY <1>1, <1>2, <1>3 DEF AnyModeInv, BoundInv
    <1>7. LengthInv'
        BY <1>1, <1>2 DEF AnyModeInv, LengthInv
    <1> QED
        BY <1>5, <1>6, <1>7 DEF AnyModeInv

(* SaveData keeps the invariant.                                            *)
LEMMA AnyModeData ==
    ASSUME AnyModeInv, SaveData
    PROVE  AnyModeInv'
    <1> DEFINE d0 == [step |-> global_steps, drawn |-> drawn]
    <1>1. /\ pc = "data" /\ pc' = "tracker"
          /\ dataFiles' \subseteq dataFiles \cup {d0}
          /\ UNCHANGED <<folders, shards, tracker, global_steps, weights, drawn, left, epochs_left,
                         part, written, saved, restarts>>
        BY DEF SaveData, loader
    <1>2. d0.step = global_steps /\ d0.drawn = drawn
        OBVIOUS
    <1> HIDE DEF d0
    <1>3. Training /\ InSave /\ Training' /\ InSave' /\ Trained' = Trained /\ Trained = global_steps
        BY <1>1 DEF Training, InSave, Trained
    <1>4. global_steps \in folders /\ drawn \in Nat /\ drawn <= global_steps
        BY <1>1, <1>3 DEF AnyModeInv, TypeOK, BoundInv
    <1>5. TypeOK'
        BY <1>1, <1>2, <1>4 DEF AnyModeInv, TypeOK
    <1>6. BoundInv'
        BY <1>1, <1>2, <1>3, <1>4 DEF AnyModeInv, BoundInv
    <1>7. LengthInv'
        BY <1>1, <1>3 DEF AnyModeInv, LengthInv
    <1> QED
        BY <1>5, <1>6, <1>7 DEF AnyModeInv

(* SaveTracker keeps the invariant: the directory it names exists.          *)
LEMMA AnyModeTracker ==
    ASSUME AnyModeInv, SaveTracker
    PROVE  AnyModeInv'
    <1>1. /\ pc = "tracker" /\ tracker' = global_steps /\ global_steps' = global_steps + 1
          /\ pc' = (IF LastStep THEN "done" ELSE "train")
          /\ UNCHANGED <<folders, shards, dataFiles, weights, drawn, left, epochs_left,
                         part, written, saved, restarts>>
        BY DEF SaveTracker, EndStep, loader
    <1>2. Training /\ InSave /\ Trained = global_steps
        BY <1>1 DEF Training, InSave, Trained
    <1>3. /\ global_steps \in folders /\ global_steps \in 1..(TotalTrainingSteps + restarts)
          /\ restarts \in 0..MaxRestarts /\ drawn <= global_steps
        BY <1>1, <1>2 DEF AnyModeInv, TypeOK, BoundInv
    <1>4. /\ global_steps' \in Nat /\ (global_steps + 1) - 1 = global_steps
          /\ ~LastStep => global_steps + 1 \in 1..(TotalTrainingSteps + restarts)
        BY <1>1, <1>3, LengthsAssumption DEF LastStep
    <1>5. ~InSave' /\ (Training' => ~LastStep) /\ Trained' = global_steps /\ pc' # "down"
        BY <1>1, <1>4 DEF Training, InSave, Trained
    <1>6. TypeOK'
        BY <1>1, <1>3, <1>4 DEF AnyModeInv, TypeOK
    <1>7. BoundInv'
        BY <1>1, <1>3, <1>4, <1>5 DEF AnyModeInv, BoundInv
    <1>8. LengthInv'
        BY <1>1, <1>2, <1>5 DEF AnyModeInv, LengthInv
    <1> QED
        BY <1>6, <1>7, <1>8 DEF AnyModeInv

(* What is left when a job is gone: no name that was not there or under way.  *)
LEMMA AnyModeLost ==
    ASSUME AnyModeInv, pc # "down", pc # "failed", restarts < MaxRestarts, JobLost,
           folders \subseteq folders', folders' \subseteq folders \cup (IF pc = "rotate" THEN {global_steps} ELSE {}),
           shards' \subseteq shards,
           tracker' \in {tracker, Garbled},
           \A d \in dataFiles' : \/ d \in dataFiles
                                 \/ pc = "data" /\ d.step = global_steps /\ d.drawn = Torn
    PROVE  AnyModeInv'
    <1>1. /\ pc' = "down" /\ global_steps' = 0 /\ weights' = [w \in Parts \X Ranks |-> <<>>]
          /\ drawn' = 0 /\ left' = 0 /\ epochs_left' = 0 /\ part' = FirstPart /\ written' = {}
          /\ saved' = [p \in Parts |-> <<>>] /\ restarts' = restarts + 1
        BY DEF JobLost
    <1>2. restarts \in 0..MaxRestarts /\ restarts' \in 0..MaxRestarts /\ restarts \in Nat
          /\ TotalTrainingSteps + restarts' - 1 = TotalTrainingSteps + restarts
          /\ TotalTrainingSteps + restarts <= TotalTrainingSteps + restarts'
          /\ TotalTrainingSteps + restarts \in Nat /\ TotalTrainingSteps + restarts' \in Nat
        BY <1>1, LengthsAssumption DEF AnyModeInv, TypeOK
    <1>3. pc = "rotate" => global_steps \in 1..(TotalTrainingSteps + restarts)
        BY DEF AnyModeInv, BoundInv, Training, InSave
    <1>4. folders' \subseteq 1..(TotalTrainingSteps + restarts)
        BY <1>3 DEF AnyModeInv, BoundInv
    <1>5. folders' \subseteq 1..(TotalTrainingSteps + restarts')
        BY <1>2, <1>4
    <1>6. folders' \subseteq Steps
        BY <1>2, <1>4, StepsAre
    <1>7. pc = "data" => global_steps \in folders /\ global_steps \in Nat
        BY DEF AnyModeInv, TypeOK, BoundInv, InSave
    <1>8. \A d \in dataFiles' : d.step \in folders' /\ d.drawn \in Nat \cup {Torn} /\ d.drawn <= d.step
        <2>1. ASSUME NEW d \in dataFiles
              PROVE  d.step \in folders' /\ d.drawn \in Nat \cup {Torn} /\ d.drawn <= d.step
            BY DEF AnyModeInv, TypeOK, BoundInv
        <2>2. ASSUME NEW d \in dataFiles', pc = "data", d.step = global_steps, d.drawn = Torn
              PROVE  d.step \in folders' /\ d.drawn \in Nat \cup {Torn} /\ d.drawn <= d.step
            BY <1>7, <2>2 DEF Torn
        <2> QED
            BY <2>1, <2>2
    <1>9. \A f \in shards' : /\ f.part \in Parts /\ f.step \in folders' /\ f.rank \in Ranks
                             /\ f.model \in Seq(Updates) /\ Len(f.model) = f.step
        BY DEF AnyModeInv, TypeOK, LengthInv
    <1>10. <<>> \in Seq(Updates) /\ <<>> \in Seq(folders')
        OBVIOUS
    <1>11. tracker' \in folders' \cup {NoTracker, Garbled}
        BY DEF AnyModeInv, TypeOK
    <1>12. weights' \in [Parts \X Ranks -> Seq(Updates)] /\ saved' \in [Parts -> Seq(folders')]
        BY <1>1, <1>10
    <1>13. TypeOK'
        BY <1>1, <1>2, <1>6, <1>8, <1>9, <1>11, <1>12, PartsAssumption, LengthsAssumption DEF TypeOK
    <1>14. ~Training' /\ ~InSave'
        BY <1>1 DEF Training, InSave
    <1>15. BoundInv'
        BY <1>1, <1>2, <1>4, <1>5, <1>8, <1>14 DEF BoundInv
    <1>16. LengthInv'
        BY <1>9, <1>14 DEF LengthInv
    <1> QED
        BY <1>13, <1>15, <1>16 DEF AnyModeInv

(* A crash or a new launch of a finished job keeps the invariant.           *)
LEMMA AnyModeCrash ==
    ASSUME AnyModeInv, Crash \/ Relaunch
    PROVE  AnyModeInv'
    <1>1. CASE Relaunch
        <2>1. /\ pc = "done" /\ restarts < MaxRestarts /\ JobLost
              /\ UNCHANGED <<folders, shards, dataFiles, tracker>>
            BY <1>1 DEF Relaunch, disk
        <2> QED
            BY <2>1, AnyModeLost
    <1>2. CASE Crash
        <2> DEFINE d0 == [step |-> global_steps, drawn |-> Torn]
        <2>1. pc \notin {"down", "done", "failed"} /\ restarts < MaxRestarts /\ JobLost /\ shards' \subseteq shards
            BY <1>2 DEF Crash
        <2>2. dataFiles' = dataFiles \/ (pc = "data" /\ dataFiles' \subseteq dataFiles \cup {d0})
            BY <1>2 DEF Crash
        <2>3. tracker' \in {tracker, Garbled}
            BY <1>2 DEF Crash
        <2>4. folders \subseteq folders' /\ folders' \subseteq folders \cup (IF pc = "rotate" THEN {global_steps} ELSE {})
            BY <1>2 DEF Crash
        <2>5. d0.step = global_steps /\ d0.drawn = Torn
            OBVIOUS
        <2> HIDE DEF d0
        <2>6. \A d \in dataFiles' : \/ d \in dataFiles
                                    \/ pc = "data" /\ d.step = global_steps /\ d.drawn = Torn
            BY <2>2, <2>5
        <2> QED
            BY <2>1, <2>3, <2>4, <2>6, AnyModeLost
    <1> QED
        BY <1>1, <1>2

(* Every step keeps the invariant.                                          *)
LEMMA AnyModeStep == AnyModeInv /\ [Next]_vars => AnyModeInv'
    <1> SUFFICES ASSUME AnyModeInv, [Next]_vars PROVE AnyModeInv'
        OBVIOUS
    <1>1. CASE UNCHANGED vars
        BY <1>1 DEF vars, disk, loader, AnyModeInv, TypeOK, BoundInv, LengthInv, Training, InSave, Trained
    <1>2. CASE Next
        BY <1>2, AnyModeLaunch, AnyModeEpoch, AnyModeTrain, AnyModeRotate, AnyModeWrite, AnyModePart,
           AnyModeData, AnyModeTracker, AnyModeCrash DEF Next, Work
    <1> QED
        BY <1>1, <1>2

(* The invariant holds throughout.                                          *)
LEMMA AnyModeHolds == Spec => []AnyModeInv
    BY AnyModeInit, AnyModeStep, PTL DEF Spec

(* Type correctness, in every mode: what is on disk has a directory, and    *)
(* steps go one past the end with each launch at most (_save_checkpoint,    *)
(* _load_checkpoint, fit).                                                  *)
THEOREM TypeIsOK == Spec => []TypeOK
    <1>1. AnyModeInv => TypeOK
        BY DEF AnyModeInv
    <1> QED
        BY <1>1, AnyModeHolds, PTL

(* In every mode, whichever checkpoint is resumed, a model has been updated *)
(* as often as its step number says (fit, _load_checkpoint).                *)
THEOREM StepsAreCounted == Spec => []StepCountsUpdates
    <1>1. AnyModeInv => StepCountsUpdates
        BY DEF AnyModeInv, LengthInv, StepCountsUpdates
    <1> QED
        BY <1>1, AnyModeHolds, PTL

(* What the loader yields in all epochs.                                    *)
AllBatches == TotalEpochs * BatchesPerEpoch

(* The batches drawn and those to come are those of all epochs at least; a   *)
(* step past the last is only begun by a launch that finds the last saved.  *)
EpochInv ==
    /\ Training => drawn + left + epochs_left * BatchesPerEpoch >= AllBatches
    /\ pc = "train" /\ global_steps > TotalTrainingSteps => tracker >= TotalTrainingSteps
    /\ DoneMeansTrained

(* Arithmetic of epochs.                                                    *)
LEMMA OneEpochLess ==
    /\ AllBatches \in Nat /\ (TotalEpochs - 1) * BatchesPerEpoch = AllBatches - BatchesPerEpoch
    /\ \A e \in Nat : /\ e * BatchesPerEpoch \in Nat
                      /\ (e - 1) * BatchesPerEpoch = e * BatchesPerEpoch - BatchesPerEpoch
    BY LengthsAssumption DEF AllBatches

(* The rest of an epoch, from wherever the loader goes on, completes it.     *)
LEMMA RestOfEpoch ==
    ASSUME NEW n \in Nat, NEW l \in LoadedLeft(n)
    PROVE  l \in Nat /\ n + l >= BatchesPerEpoch
    <1> DEFINE B == BatchesPerEpoch
    <1>1. B \in Nat /\ B >= 1
        BY LengthsAssumption
    <1>2. n % B \in 0..(B - 1) /\ n % B <= n
        BY <1>1
    <1>3. n % B = 0 /\ n # 0 => n >= B
        BY <1>1
    <1> HIDE DEF B
    <1>4. \/ n % B # 0 /\ l = B - (n % B)
          \/ n = 0 /\ l = B
          \/ n % B = 0 /\ n # 0 /\ l \in {0, B}
        BY DEF LoadedLeft, B
    <1>5. n % B \in Nat /\ B - (n % B) \in Nat
        BY <1>1, <1>2
    <1> QED
        BY <1>1, <1>2, <1>3, <1>4, <1>5 DEF B

(* The invariant holds at the start.                                        *)
LEMMA EpochInit == Init => EpochInv
    BY DEF Init, EpochInv, Training, InSave, DoneMeansTrained

(* A launch keeps the invariant: it starts all epochs anew, from where the  *)
(* loader goes on.                                                          *)
LEMMA EpochLaunch ==
    ASSUME IInv, AnyModeInv, EpochInv, ResumeModes \subseteq {"auto"}, Launch
    PROVE  EpochInv'
    <1>1. tracker' = tracker /\ pc = "down"
        BY DEF Launch, disk
    <1>2. LoadFails \/ FromScratch \/ (tracker \in folders /\ Loadable(tracker) /\ LoadFrom(tracker))
        BY DEF Launch, Resume, LoadFrom
    <1>3. CASE LoadFails
        BY <1>3 DEF LoadFails, EpochInv, Training, InSave, DoneMeansTrained
    <1>4. ASSUME NEW g \in Nat, NEW w, NEW n \in Nat, StartTraining(g, w, n),
                 g > TotalTrainingSteps => tracker >= TotalTrainingSteps
          PROVE  EpochInv'
        <2>1. /\ pc' = "train" /\ global_steps' = g /\ drawn' = n
              /\ left' \in LoadedLeft(n) /\ epochs_left' = TotalEpochs - 1
            BY <1>4 DEF StartTraining
        <2>2. left' \in Nat /\ n + left' >= BatchesPerEpoch
            BY <2>1, RestOfEpoch
        <2>3. epochs_left' * BatchesPerEpoch = AllBatches - BatchesPerEpoch /\ AllBatches \in Nat
              /\ BatchesPerEpoch \in Nat
            BY <2>1, OneEpochLess, LengthsAssumption
        <2>4. drawn' + left' + epochs_left' * BatchesPerEpoch >= AllBatches
            <3> DEFINE k == epochs_left' * BatchesPerEpoch
            <3>1. k = AllBatches - BatchesPerEpoch
                BY <2>3
            <3> HIDE DEF k
            <3>2. ASSUME NEW l \in Nat, n + l >= BatchesPerEpoch PROVE n + l + k >= AllBatches
                BY <2>3, <3>1, <3>2
            <3>3. drawn' + left' + k >= AllBatches
                BY <2>1, <2>2, <3>2
            <3> QED
                BY <3>3 DEF k
        <2> QED
            BY <1>1, <1>4, <2>1, <2>4 DEF EpochInv, DoneMeansTrained
    <1>5. CASE FromScratch
        <2>1. PICK w : StartTraining(1, w, 0)
            BY <1>5 DEF FromScratch, StepAfterLoad
        <2>2. ~(1 > TotalTrainingSteps)
            BY LengthsAssumption
        <2> QED
            BY <1>4, <2>1, <2>2
    <1>6. CASE tracker \in folders /\ Loadable(tracker) /\ LoadFrom(tracker)
        <2>1. tracker \in Nat /\ tracker > 0
            BY <1>6 DEF IInv, TypeInv
        <2>2. LoadedDrawn(tracker) = tracker
            BY <2>1, LoadsWhatWasSaved DEF IInv, DiskInv
        <2>3. PICK w : StartTraining(tracker + 1, w, tracker)
            BY <1>6, <2>2 DEF LoadFrom, StepAfterLoad
        <2>4. tracker + 1 \in Nat /\ (tracker + 1 > TotalTrainingSteps => tracker >= TotalTrainingSteps)
            BY <2>1, LengthsAssumption
        <2> QED
            BY <1>4, <2>1, <2>3, <2>4
    <1> QED
        BY <1>2, <1>3, <1>5, <1>6

(* The last epoch ends only when all batches have been drawn.               *)
LEMMA EpochNext ==
    ASSUME IInv, AnyModeInv, EpochInv, NextEpoch
    PROVE  EpochInv'
    <1>1. /\ pc = "train" /\ left = 0 /\ drawn \in Nat /\ epochs_left \in Nat
          /\ UNCHANGED <<tracker, global_steps, drawn>>
        BY DEF NextEpoch, disk, AnyModeInv, TypeOK
    <1> DEFINE k == epochs_left * BatchesPerEpoch
    <1>2. drawn + left + k >= AllBatches /\ k \in Nat /\ AllBatches \in Nat /\ BatchesPerEpoch \in Nat
        BY <1>1, OneEpochLess, LengthsAssumption DEF EpochInv, Training
    <1>3. CASE epochs_left > 0
        <2>1. pc' = "train" /\ left' = BatchesPerEpoch /\ epochs_left' = epochs_left - 1
            BY <1>1, <1>3 DEF NextEpoch
        <2>2. (epochs_left - 1) * BatchesPerEpoch = k - BatchesPerEpoch
            BY <1>1, OneEpochLess
        <2> DEFINE l == epochs_left' * BatchesPerEpoch
        <2>3. l = k - BatchesPerEpoch
            BY <2>1, <2>2
        <2> HIDE DEF k, l
        <2>4. drawn' + left' + l >= AllBatches
            BY <1>1, <1>2, <2>1, <2>3
        <2> QED
            BY <1>1, <2>1, <2>4 DEF EpochInv, DoneMeansTrained, l
    <1>4. CASE ~(epochs_left > 0)
        <2>1. pc' = "done" /\ epochs_left = 0
            BY <1>1, <1>4 DEF NextEpoch
        <2>2. k = 0
            BY <2>1, LengthsAssumption
        <2> HIDE DEF k
        <2>3. drawn >= AllBatches
            BY <1>1, <1>2, <2>2
        <2>4. drawn = global_steps - 1 /\ global_steps \in Nat
            BY <1>1 DEF IInv, TypeInv, TrainInv, Training, InSave, Trained
        <2>5. TotalTrainingSteps <= BatchesPerEpoch * TotalEpochs =>
                 global_steps - 1 >= TotalTrainingSteps
            <3>1. BatchesPerEpoch * TotalEpochs = AllBatches
                BY LengthsAssumption DEF AllBatches
            <3> HIDE DEF AllBatches
            <3> QED
                BY <1>2, <2>3, <2>4, <3>1, LengthsAssumption
        <2>6. TotalTrainingSteps <= BatchesPerEpoch * TotalEpochs => tracker >= TotalTrainingSteps
            <3>1. global_steps - 1 >= TotalTrainingSteps => global_steps > TotalTrainingSteps
                BY <2>4, LengthsAssumption
            <3> QED
                BY <1>1, <2>5, <3>1 DEF EpochInv
        <2> QED
            BY <1>1, <2>1, <2>5, <2>6 DEF EpochInv, DoneMeansTrained, Training, InSave, Trained
    <1> QED
        BY <1>3, <1>4

(* A step ends: the last one ends the job, no other goes past it.           *)
LEMMA EpochTrain ==
    ASSUME IInv, AnyModeInv, EpochInv, TrainStep
    PROVE  EpochInv'
    <1>1. /\ pc = "train" /\ left > 0 /\ drawn' = drawn + 1 /\ left' = left - 1
          /\ epochs_left' = epochs_left /\ tracker' = tracker
        BY DEF TrainStep, disk
    <1>2. \/ pc' = "rotate"
          \/ /\ global_steps' = global_steps + 1 /\ ~(SaveFreq > 0 /\ LastStep)
             /\ pc' = IF LastStep THEN "done" ELSE "train"
        BY DEF TrainStep, EndStep, SaveDue
    <1> DEFINE k == epochs_left * BatchesPerEpoch
    <1>3. /\ drawn \in Nat /\ left \in Nat /\ epochs_left \in Nat /\ global_steps \in Nat
          /\ k \in Nat /\ AllBatches \in Nat /\ drawn + left + k >= AllBatches
        BY <1>1, OneEpochLess, LengthsAssumption DEF AnyModeInv, TypeOK, EpochInv, Training
    <1>4. epochs_left' * BatchesPerEpoch = k
        BY <1>1
    <1> HIDE DEF k
    <1>5. drawn' + left' + epochs_left' * BatchesPerEpoch >= AllBatches
        BY <1>1, <1>3, <1>4
    <1>6. CASE pc' = "rotate"
        BY <1>5, <1>6 DEF EpochInv, DoneMeansTrained
    <1>7. CASE /\ global_steps' = global_steps + 1 /\ ~(SaveFreq > 0 /\ LastStep)
               /\ pc' = IF LastStep THEN "done" ELSE "train"
        <2>1. CASE LastStep
            <3>1. pc' = "done" /\ ~(SaveFreq > 0) /\ global_steps' - 1 >= TotalTrainingSteps
                BY <1>3, <1>7, <2>1, LengthsAssumption DEF LastStep
            <3> QED
                BY <1>5, <3>1 DEF EpochInv, DoneMeansTrained, Training, InSave, Trained
        <2>2. CASE ~LastStep
            <3>1. pc' = "train" /\ ~(global_steps' > TotalTrainingSteps)
                BY <1>3, <1>7, <2>2, LengthsAssumption DEF LastStep
            <3> QED
                BY <1>5, <3>1 DEF EpochInv, DoneMeansTrained
        <2> QED
            BY <2>1, <2>2
    <1> QED
        BY <1>2, <1>6, <1>7

(* SaveTracker keeps the invariant.                                         *)
LEMMA EpochTracker ==
    ASSUME IInv, AnyModeInv, EpochInv, SaveTracker
    PROVE  EpochInv'
    <1>1. /\ pc = "tracker" /\ tracker' = global_steps /\ global_steps' = global_steps + 1
          /\ pc' = (IF LastStep THEN "done" ELSE "train")
          /\ drawn' = drawn /\ left' = left /\ epochs_left' = epochs_left
        BY DEF SaveTracker, EndStep, loader
    <1>2. global_steps \in Nat /\ drawn' + left' + epochs_left' * BatchesPerEpoch >= AllBatches
        BY <1>1 DEF AnyModeInv, TypeOK, EpochInv, Training, InSave
    <1>3. CASE LastStep
        <2>1. pc' = "done" /\ global_steps' - 1 >= TotalTrainingSteps /\ tracker' >= TotalTrainingSteps
            BY <1>1, <1>2, <1>3, LengthsAssumption DEF LastStep
        <2> QED
            BY <1>2, <2>1 DEF EpochInv, DoneMeansTrained, Training, InSave, Trained
    <1>4. CASE ~LastStep
        <2>1. pc' = "train" /\ ~(global_steps' > TotalTrainingSteps)
            BY <1>1, <1>2, <1>4, LengthsAssumption DEF LastStep
        <2> QED
            BY <1>2, <2>1 DEF EpochInv, DoneMeansTrained
    <1> QED
        BY <1>3, <1>4

(* Every step keeps the invariant.                                          *)
LEMMA EpochStep ==
    ASSUME ResumeModes \subseteq {"auto"}
    PROVE  IInv /\ AnyModeInv /\ EpochInv /\ [Next]_vars => EpochInv'
    <1> SUFFICES ASSUME IInv, AnyModeInv, EpochInv, [Next]_vars PROVE EpochInv'
        OBVIOUS
    <1>1. ASSUME Rotate \/ PartSaved \/ SaveData \/ \E r \in Ranks : WriteShard(r) PROVE EpochInv'
        <2>1. /\ pc' \in {"rotate", "write", "data", "tracker"} /\ InSave
              /\ drawn' = drawn /\ left' = left /\ epochs_left' = epochs_left
            BY <1>1 DEF Rotate, PartSaved, SaveData, WriteShard, loader, InSave
        <2>2. drawn + left + epochs_left * BatchesPerEpoch >= AllBatches
            BY <2>1 DEF EpochInv, Training
        <2>3. drawn' + left' + epochs_left' * BatchesPerEpoch >= AllBatches
            BY <2>1, <2>2
        <2> QED
            BY <2>1, <2>3 DEF EpochInv, DoneMeansTrained
    <1>2. ASSUME Crash \/ Relaunch PROVE EpochInv'
        <2>1. pc' = "down"
            BY <1>2 DEF Crash, Relaunch, JobLost
        <2> QED
            BY <2>1 DEF EpochInv, Training, InSave, DoneMeansTrained
    <1>3. CASE UNCHANGED vars
        BY <1>3 DEF vars, disk, loader, EpochInv, DoneMeansTrained, Training, InSave, Trained
    <1> QED
        BY <1>1, <1>2, <1>3, EpochLaunch, EpochNext, EpochTrain, EpochTracker DEF Next, Work

(* A job that returns has done its training steps and left a checkpoint of  *)
(* the end, if it saves at all, however often it was interrupted (fit).     *)
THEOREM DoneIsTrained ==
    ASSUME ResumeModes \subseteq {"auto"}, \A p \in Parts : Keep[p] # 1
    PROVE  Spec => []DoneMeansTrained
    <1>1. Spec => []EpochInv
        BY EpochInit, EpochStep, InvariantHolds, AnyModeHolds, PTL DEF Spec
    <1>2. EpochInv => DoneMeansTrained
        BY DEF EpochInv
    <1> QED
        BY <1>1, <1>2, PTL
=============================================================================
