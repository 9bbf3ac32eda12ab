----------------------------- MODULE RubricStep -----------------------------
(***************************************************************************)
(* The rows of a batch through one step of rubric on-policy distillation   *)
(* (RayPPOTrainer.fit, verl/verl/trainer/ppo/ray_trainer.py): rollouts are *)
(* scored by GPT, low ones are generated again with a hint and the better  *)
(* answers appended, the batch is padded and reordered for the workers,    *)
(* rows the teacher and the rubric rank too differently are dropped, the   *)
(* rest get an advantage shift measured against the scores of earlier      *)
(* steps, and the batch is padded again and trained on.                    *)
(***************************************************************************)
EXTENDS Integers, Sequences, FiniteSets

CONSTANTS
    Rows,               \* rollouts of a step: train_batch_size * rollout.n
    Divisor,            \* data-parallel size the actor (and critic) splits by, and
                        \* without sequence parallelism what _balance_batch does
    Scores,             \* rubric scores GPT may give
    TeacherScores,      \* mean log-probability ratios of teacher and student
    MinScore,           \* min_score_100
    AppendMinScore, AppendMinGain, RequireImprovement,    \* reroll_append_*
    NohintMinScore, NohintMinGain,                        \* reroll_nohint_*
    DropNum, DropDen,   \* rank_gap_drop_threshold, as a fraction
    HistorySize, WarmupSteps, GlobalMinCount, MinBinCount,  \* history_*
    Labellings,         \* what each rollout may be labelled with by GPT, a set of
                        \* functions to <<domain, difficulty>> or NoLabel
    NoLabel,            \* GPT gave none, or none of the known ones
    Configs,            \* the configurations a training may have, see ConfigAssumption
    MaxSteps            \* bound: steps of the training

ASSUME SizeAssumption ==
    /\ Rows \in Nat \ {0} /\ Divisor \in Nat \ {0}
    /\ Rows % Divisor = 0       \* asserted by validate_config
ASSUME ScoreAssumption ==
    /\ Scores \subseteq Nat /\ TeacherScores \subseteq Int
    /\ {MinScore, AppendMinScore, AppendMinGain, NohintMinScore, NohintMinGain} \subseteq Nat
    /\ DropNum \in Nat /\ DropDen \in Nat \ {0}
ASSUME HistoryAssumption ==
    /\ {HistorySize, GlobalMinCount, MinBinCount, MaxSteps} \subseteq Nat \ {0}
    /\ WarmupSteps \in Nat
ASSUME ConfigAssumption ==
    Configs \subseteq [reroll : BOOLEAN, hint : BOOLEAN, nohint : BOOLEAN, sft : BOOLEAN,
                       generators : Nat \ {0},  \* data-parallel size of generation
                       labels : Labellings, scope : {"off", "appended", "all"},
                       shift : {"off", "rank_residual", "rubric_rank", "history_zscore"}]

VARIABLES
    config,         \* chosen at the launch, fixed; with the labels, which do not
                    \* change from step to step (bound)
    phase,          \* what the step does next
    global_steps,
    initial,        \* scores_100 of the step's rollouts
    batch,          \* the training batch, a sequence of rows
    dropped,        \* rollouts removed in this step; used by properties only
    history         \* _gpt_rubric_history

vars == <<config, phase, global_steps, initial, batch, dropped, history>>

Unscored == -1      \* no finite score: the call failed or timed out
Scored(s) == s # Unscored
Abs(x) == IF x < 0 THEN -x ELSE x
Sign(x) == IF x > 0 THEN 1 ELSE IF x < 0 THEN -1 ELSE 0
AtLeastOne(n) == IF n > 1 THEN n ELSE 1

(* A row of the batch.  weight: its OPD loss weight is positive; sft: its   *)
(* reroll SFT weight is; mask: its response mask is not all zero.          *)
Rollout(i, s) ==
    [src |-> i, kind |-> "orig", score |-> s, pad |-> FALSE, mask |-> TRUE,
     weight |-> TRUE, sft |-> FALSE, teacher |-> 0, shift |-> 0]

Init ==
    /\ config \in Configs
    /\ phase = "rollout"
    /\ global_steps = 1
    /\ initial = [i \in 1..Rows |-> Unscored]
    /\ batch = <<>>
    /\ dropped = {}
    /\ history = <<>>
-----------------------------------------------------------------------------
(* DataProto.select_idxs: the rows at the given places, in their order.     *)
Nth(S, k) == CHOOSE i \in S : Cardinality({j \in S : j =< i}) = k
SelectIdxs(b, S) == [k \in 1..Cardinality(S) |-> b[Nth(S, k)]]

(* _maybe_score_gpt_rollouts: what GPT may make of n answers, each of which  *)
(* it may fail to score.                                                   *)
GptScores(n) == [1..n -> Scores \cup {Unscored}]

(* The student answers every prompt, and GPT scores the answers.            *)
RolloutAndScore ==
    /\ phase = "rollout"
    /\ phase' = "reroll"
    /\ initial' \in GptScores(Rows)
    /\ batch' = [i \in 1..Rows |-> Rollout(i, initial'[i])]
    /\ UNCHANGED <<config, global_steps, dropped, history>>

(* Rows that may be generated again.  Rows without a score are low too, but *)
(* timeouts are excluded and other failures carry no suggestion to build a  *)
(* hint from.                                                              *)
LowIdxs == {i \in 1..Rows : Scored(initial[i]) /\ initial[i] < MinScore}

(* _append_gpt_feedback_to_reroll_prompts: the rows whose prompt has got a   *)
(* hint.  The hint or the prompt with it may be too long, so any part.     *)
PromptReady(S) == SUBSET S

(* The rule a second answer must pass, against its own first score.         *)
Accept(new, old) ==
    /\ Scored(new)
    /\ new >= AppendMinScore
    /\ RequireImprovement => new - old > AppendMinGain

(* A slip: the first scores are indexed like the second ones.              *)
FirstScoreOfPosition(i, position) == initial[position]
FirstScoreOf(i, position) == initial[i]

(* What is appended for the accepted answers: rows with the hinted prompt,  *)
(* and rows with the plain prompt for SFT or else for OPD.                 *)
HintRows(a) ==
    IF config.hint
    THEN [p \in DOMAIN a |-> [a[p] EXCEPT !.kind = "reroll_hint"]]
    ELSE <<>>

SftRows(a) ==
    IF config.sft
    THEN [p \in DOMAIN a |->
             [a[p] EXCEPT !.kind = "reroll_sft", !.weight = FALSE, !.sft = TRUE]]
    ELSE <<>>

Gain(row) == row.score - initial[row.src]

NohintRows(a) ==
    LET good == {p \in DOMAIN a : a[p].score >= NohintMinScore
                                  /\ Gain(a[p]) >= NohintMinGain}
        rows == SelectIdxs(a, good)
    IN  IF config.nohint /\ ~config.sft
        THEN [p \in DOMAIN rows |->
                 [rows[p] EXCEPT !.kind = "reroll_nohint", !.weight = Gain(rows[p]) > 0]]
        ELSE <<>>

(* _concat_training_batches: the rows of the step, then what is appended.   *)
ConcatTrainingBatches(a) == batch \o HintRows(a) \o SftRows(a) \o NohintRows(a)

(* _maybe_reroll_low_gpt_rollouts.  A number of rows that does not split     *)
(* evenly over the generation workers fails an assertion.                  *)
Reroll ==
    /\ phase = "reroll"
    /\ \E ready \in PromptReady(IF config.reroll THEN LowIdxs ELSE {}) :
       \E second \in GptScores(Cardinality(ready)) :
           LET low == [p \in 1..Cardinality(ready) |-> Nth(ready, p)]
               answers == [p \in DOMAIN low |-> Rollout(low[p], second[p])]
               accepted == {p \in DOMAIN low :
                               Accept(second[p], FirstScoreOf(low[p], p))}
               appended == SelectIdxs(answers, accepted)
           IN  IF Cardinality(ready) % config.generators = 0
               THEN /\ phase' = "pad"
                    /\ batch' = ConcatTrainingBatches(appended)
               ELSE phase' = "failed" /\ UNCHANGED batch
    /\ UNCHANGED <<config, global_steps, initial, dropped, history>>
-----------------------------------------------------------------------------
(* A slip: the copies are not marked.                                      *)
AsPaddingUnmarked(row) == row

(* A padding row: a copy that must not train.                               *)
AsPadding(row) ==
    [row EXCEPT !.kind = "padding", !.pad = TRUE, !.mask = FALSE,
                !.weight = FALSE, !.sft = FALSE]

PadSize(b) == (Divisor - (Len(b) % Divisor)) % Divisor

(* pad_dataproto_to_divisor copies rows from the front, more than once over *)
(* if need be.                                                             *)
Padded(b) ==
    b \o [k \in 1..PadSize(b) |-> AsPadding(b[((k - 1) % Len(b)) + 1])]

(* _zero_padding_rows takes what padding rows have gathered since.          *)
ZeroPadding(b) ==
    [i \in DOMAIN b |->
        IF b[i].pad THEN [b[i] EXCEPT !.mask = FALSE, !.weight = FALSE, !.sft = FALSE]
        ELSE b[i]]

Reversed(b) == [i \in DOMAIN b |-> b[Len(b) - i + 1]]

(* The first padding, and _balance_batch, which may put the rows in any     *)
(* order.  The order matters for ties of a rank and for which rows padding  *)
(* copies; keeping and reversing it stand for all.                         *)
PadAndBalance ==
    /\ phase = "pad"
    /\ phase' = "logprob"
    /\ batch' \in {Padded(batch), Reversed(Padded(batch))}
    /\ UNCHANGED <<config, global_steps, initial, dropped, history>>

(* old_log_probs and ref_log_prob give each row its teacher score; that of  *)
(* a row with a zero mask is 0.  A second answer has the value of the first *)
(* (bound).                                                                *)
ComputeLogProbs ==
    /\ phase = "logprob"
    /\ phase' = "rank"
    /\ \E t \in [1..Rows -> TeacherScores] :
           batch' = [i \in DOMAIN batch |->
                        [batch[i] EXCEPT !.teacher =
                            IF batch[i].mask THEN t[batch[i].src] ELSE 0]]
    /\ UNCHANGED <<config, global_steps, initial, dropped, history>>
-----------------------------------------------------------------------------
(* A slip: the lowest value comes first.                                   *)
RankAscending(v, S) ==
    [i \in S |-> Cardinality({j \in S : v[j] < v[i] \/ (v[j] = v[i] /\ j < i)})]

(* _rank_descending: places among the rows in S from 0, the highest value   *)
(* first and equal ones in batch order.                                    *)
RankDescending(v, S) ==
    [i \in S |-> Cardinality({j \in S : v[j] > v[i] \/ (v[j] = v[i] /\ j < i)})]

(* Slips: second answers are ranked too; rows without a score are.          *)
EligibleAppended(b) == {i \in DOMAIN b : ~b[i].pad}
RankedUnscored(b) == {i \in DOMAIN b : ~b[i].pad /\ b[i].kind = "orig"}

Eligible(b) == {i \in DOMAIN b : ~b[i].pad /\ b[i].kind = "orig"}

(* valid_mask: the rows that have both ranks.                               *)
Ranked(b) == {i \in Eligible(b) : Scored(b[i].score)}

(* The teacher ranks every eligible row, the rubric the scored ones.        *)
TeacherRank(b) == RankDescending([i \in DOMAIN b |-> b[i].teacher], Eligible(b))
RubricRank(b) == RankDescending([i \in DOMAIN b |-> b[i].score], Ranked(b))

Denominator(b) == AtLeastOne(Cardinality(Ranked(b)) - 1)

HighGap(b) ==
    LET t == TeacherRank(b)
        r == RubricRank(b)
    IN  {i \in Ranked(b) : Abs(t[i] - r[i]) * DropDen > DropNum * Denominator(b)}

DropCandidates(b) ==
    IF config.scope = "appended" THEN {i \in DOMAIN b : b[i].kind # "orig"}
    ELSE IF config.scope = "all" THEN DOMAIN b
    ELSE {}

(* A slip: all rows may go.                                                *)
KeepNone(b, drop) == drop

(* When nothing would be left, the row the rubric likes best stays.         *)
KeepBest(b, drop) ==
    IF drop = DOMAIN b THEN {i \in drop : RubricRank(b)[i] # 0} ELSE drop

DropSet(b) == KeepBest(b, HighGap(b) \cap DropCandidates(b))
-----------------------------------------------------------------------------
LabelOf(s) == config.labels[s]

(* What a score is measured against: how often each entry of the history    *)
(* counts for a label.  A full bucket counts alone; otherwise everything    *)
(* does, with the domain, the difficulty and the bucket counted again.      *)
Baseline(l) ==
    LET label(k) == LabelOf(history[k].src)
        exact == {k \in DOMAIN history : label(k) = l}
        domain == {k \in DOMAIN history : label(k)[1] = l[1]}
        difficulty == {k \in DOMAIN history : label(k)[2] = l[2]}
        again(k, S) == IF k \in S /\ Cardinality(S) >= AtLeastOne(MinBinCount \div 2)
                       THEN 1 ELSE 0
        copies == AtLeastOne(MinBinCount \div AtLeastOne(Cardinality(exact)))
    IN  [k \in DOMAIN history |->
            IF Cardinality(exact) >= MinBinCount
            THEN IF k \in exact THEN 1 ELSE 0
            ELSE 1 + again(k, domain) + again(k, difficulty)
                   + (IF k \in exact THEN copies ELSE 0)]

UseHistory ==
    global_steps >= WarmupSteps /\ Len(history) >= GlobalMinCount

Labelled(row) == LabelOf(row.src) # NoLabel

(* The sum of natural numbers, as the size of their disjoint union.         *)
Total(f) == Cardinality(UNION {{k} \X (1..f[k]) : k \in DOMAIN f})

(* The sign of the z-score of a row.                                        *)
HistoryShift(row) ==
    LET count == Baseline(LabelOf(row.src))
    IN  IF UseHistory /\ Labelled(row)
        THEN Sign(row.score * Total(count)
                  - Total([k \in DOMAIN history |-> count[k] * history[k].score]))
        ELSE 0

(* The direction in which a ranked row's advantage is shifted.              *)
Shift(b, i) ==
    CASE config.shift = "rank_residual" -> Sign(TeacherRank(b)[i] - RubricRank(b)[i])
      [] config.shift = "rubric_rank" -> Sign(Denominator(b) - 2 * RubricRank(b)[i])
      [] config.shift = "history_zscore" -> HistoryShift(b[i])
      [] OTHER -> 0

(* A slip: the scores are those from before the drop.                      *)
EntriesBeforeDrop(b) ==
    LET S == {i \in Ranked(batch) : Labelled(batch[i])}
        rows == SelectIdxs(batch, S)
    IN  [k \in DOMAIN rows |->
            [step |-> global_steps, src |-> rows[k].src, score |-> rows[k].score]]

(* The step's own scores enter the history, which then keeps its newest.    *)
Entries(b) ==
    LET S == {i \in Ranked(b) : Labelled(b[i])}
        rows == SelectIdxs(b, S)
    IN  [k \in DOMAIN rows |->
            [step |-> global_steps, src |-> rows[k].src, score |-> rows[k].score]]

Newest(h) == SubSeq(h, AtLeastOne(Len(h) - HistorySize + 1), Len(h))

(* _rank_gap_drop_and_rubric_shift.  Without a ranked row it does nothing;  *)
(* what is left after the drop is ranked anew, and the shift is computed    *)
(* before the history is updated.                                          *)
RankGap ==
    /\ phase = "rank"
    /\ phase' = "pad_update"
    /\ LET drop == IF Ranked(batch) = {} THEN {} ELSE DropSet(batch)
           kept == SelectIdxs(batch, DOMAIN batch \ drop)
       IN  /\ dropped' = {batch[i].src : i \in drop}
           /\ batch' = [i \in DOMAIN kept |->
                           [kept[i] EXCEPT !.shift =
                               IF i \in Ranked(kept) THEN Shift(kept, i) ELSE 0]]
           /\ history' = IF config.shift = "history_zscore"
                         THEN Newest(history \o Entries(kept))
                         ELSE history
    /\ UNCHANGED <<config, global_steps, initial>>
-----------------------------------------------------------------------------
(* The second padding, with the training signals of padding rows zeroed.    *)
PadForUpdate ==
    /\ phase = "pad_update"
    /\ phase' = "update"
    /\ batch' = ZeroPadding(Padded(batch))
    /\ UNCHANGED <<config, global_steps, initial, dropped, history>>

(* What the actor makes of a row (dp_actor.py): SFT rows are cut out of the *)
(* policy loss, and only they are in the SFT loss.                         *)
TrainsOpd(row) == row.mask /\ row.weight /\ row.kind # "reroll_sft"
TrainsSft(row) == row.mask /\ row.sft /\ row.kind = "reroll_sft"
Trains(row) == TrainsOpd(row) \/ TrainsSft(row)

(* The update, and the end of the step.                                    *)
UpdateActor ==
    /\ phase = "update"
    /\ phase' = IF global_steps < MaxSteps THEN "rollout" ELSE "done"
    /\ global_steps' = global_steps + 1
    /\ initial' = [i \in 1..Rows |-> Unscored]
    /\ batch' = <<>>
    /\ dropped' = {}
    /\ UNCHANGED <<config, history>>

Next ==
    \/ RolloutAndScore
    \/ Reroll
    \/ PadAndBalance
    \/ ComputeLogProbs
    \/ RankGap
    \/ PadForUpdate
    \/ UpdateActor

Spec == Init /\ [][Next]_vars
-----------------------------------------------------------------------------
Kinds == {"orig", "reroll_hint", "reroll_sft", "reroll_nohint", "padding"}

(* Type invariant: the rows of the batch and the entries of the history.    *)
TypeOK ==
    /\ config \in Configs
    /\ phase \in {"rollout", "reroll", "pad", "logprob", "rank", "pad_update", "update",
                  "done", "failed"}
    /\ global_steps \in 1..(MaxSteps + 1)
    /\ initial \in [1..Rows -> Scores \cup {Unscored}]
    /\ batch \in Seq([src : 1..Rows, kind : Kinds, score : Scores \cup {Unscored},
                     pad : BOOLEAN, mask : BOOLEAN, weight : BOOLEAN, sft : BOOLEAN,
                     teacher : TeacherScores \cup {0}, shift : {-1, 0, 1}])
    /\ dropped \subseteq 1..Rows
    /\ history \in Seq([step : 1..MaxSteps, src : 1..Rows, score : Scores])

InTraining == {i \in DOMAIN batch : Trains(batch[i])}
FirstAnswers == {i \in DOMAIN batch : batch[i].kind = "orig"}
Appended(row) == row.kind \in {"reroll_hint", "reroll_sft", "reroll_nohint"}

(* What one training row is about: the same second answer may train with    *)
(* the hinted prompt and, once, with the plain one.                        *)
Subject(row) ==
    <<row.src, IF row.kind \in {"reroll_sft", "reroll_nohint"} THEN "plain" ELSE row.kind>>

(* No answer is trained on twice with the same prompt, no copy made for     *)
(* padding is trained on, and the first answers that are trained on are     *)
(* exactly those that were not dropped: two paddings, a drop and the        *)
(* reordering neither lose nor double a row.                               *)
RowsTrainOnce ==
    phase = "update" =>
        /\ \A i, j \in InTraining : Subject(batch[i]) = Subject(batch[j]) => i = j
        /\ \A i \in InTraining : ~batch[i].pad /\ batch[i].kind # "padding"
        /\ {batch[i].src : i \in {j \in InTraining : batch[j].kind = "orig"}}
              = (1..Rows) \ dropped

(* However the ranks fall and whatever was appended, removed or copied, the  *)
(* workers can be sent the batch: it splits evenly before the log-probs and  *)
(* before the update, and the update has a row to train on.  (The code      *)
(* keeps the best row only when nothing at all would be left of the batch,  *)
(* and relies on there being no padding rows to keep in that case.)         *)
UpdatePossible ==
    /\ phase = "update" => InTraining # {}
    /\ phase \in {"logprob", "update"} => Len(batch) > 0 /\ Len(batch) % Divisor = 0

(* A second answer is in the batch only for a low first answer, and only if *)
(* it beats that first answer - its own - by more than the minimal gain,    *)
(* through every reordering and padding.                                   *)
AppendedImprove ==
    \A i \in DOMAIN batch : Appended(batch[i]) =>
        /\ initial[batch[i].src] \in 0..(MinScore - 1)
        /\ batch[i].score >= AppendMinScore
        /\ RequireImprovement => Gain(batch[i]) > AppendMinGain

(* The history holds first answers only, each once, the newest ones, in     *)
(* order; of the running step exactly scored ones that were not dropped.    *)
HistoryHonest ==
    /\ Len(history) =< HistorySize
    /\ \A j, k \in DOMAIN history : j < k =>
          /\ history[j].step =< history[k].step
          /\ <<history[j].step, history[j].src>> # <<history[k].step, history[k].src>>
    /\ \A k \in DOMAIN history : history[k].step = global_steps =>
          /\ history[k].src \notin dropped
          /\ history[k].score = initial[history[k].src]

(* Of two first answers the one with the higher score is never shifted      *)
(* lower, with the rubric's rank, or with the history and the same label.   *)
ShiftFollowsRubric ==
    config.shift \in {"rubric_rank", "history_zscore"} =>
        \A i, j \in FirstAnswers :
            /\ Scored(batch[i].score) /\ Scored(batch[j].score)
            /\ config.shift = "rubric_rank" \/ LabelOf(batch[i].src) = LabelOf(batch[j].src)
            /\ batch[i].score > batch[j].score
            => batch[i].shift >= batch[j].shift

(* The teacher and the rubric do not both put row i on the same side of j.  *)
Discordant(i, j) ==
    (batch[i].teacher - batch[j].teacher) * (batch[i].score - batch[j].score) =< 0

(* When every rollout was scored, a row is dropped only if the teacher and  *)
(* the rubric disagree about it and another first answer.                  *)
ScoredDropNeedsDisagreement ==
    [][phase = "rank" /\ (\A s \in 1..Rows : Scored(initial[s])) =>
          \A i \in FirstAnswers : batch[i].src \in dropped' =>
              \E j \in FirstAnswers \ {i} : Scored(batch[j].score) /\ Discordant(i, j)]_vars
=============================================================================
