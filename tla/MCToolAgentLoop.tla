-------------------------- MODULE MCToolAgentLoop --------------------------
(* An instance of ToolAgentLoop for TLC: with tools alone and with an         *)
(* interaction, with and without limits on turns.                           *)
EXTENDS ToolAgentLoop

Config(interaction, assistant, user, logprobs) ==
    [interaction |-> interaction, max_assistant_turns |-> assistant,
     max_user_turns |-> user, logprobs |-> logprobs]

MCConfigs ==
    {Config(FALSE, 0, 0, TRUE), Config(TRUE, 0, 0, TRUE), Config(TRUE, 2, 1, FALSE)}
=============================================================================
