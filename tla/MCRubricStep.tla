---------------------------- MODULE MCRubricStep ----------------------------
(* Instances of RubricStep for TLC.                                          *)
EXTENDS RubricStep

OneUnlabelled == <<<<"algebra", "easy">>, <<"algebra", "easy">>, NoLabel>>
TwoDifficulties == <<<<"algebra", "easy">>, <<"algebra", "hard">>, NoLabel>>
TwoLabellings == {OneUnlabelled, TwoDifficulties}

Plain(labels, scope, shift) ==
    [reroll |-> FALSE, hint |-> FALSE, nohint |-> FALSE, sft |-> FALSE,
     generators |-> 1, labels |-> labels, scope |-> scope, shift |-> shift]

AllConfigs ==
    { [Plain(OneUnlabelled, "all", "off") EXCEPT !.reroll = TRUE, !.hint = TRUE, !.nohint = TRUE],
      [Plain(OneUnlabelled, "appended", "rank_residual") EXCEPT !.reroll = TRUE, !.sft = TRUE,
                                                                 !.generators = 2],
      Plain(OneUnlabelled, "all", "history_zscore"),
      Plain(TwoDifficulties, "off", "history_zscore"),
      Plain(OneUnlabelled, "all", "rubric_rank") }
=============================================================================
