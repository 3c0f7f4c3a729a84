------------------------- MODULE MCWorkflowContext -------------------------
EXTENDS WorkflowContext, TLC
CONSTANTS fetch, report, chat, score, cart, v1, v2
MCSteps     == {fetch, report}
MCToolSteps == {chat}
MCNames     == {score}
MCKeys      == {"wf_fetch", "wf_report", "wf_chat", "wf_state_score"}
MCStepKey   == fetch :> "wf_fetch" @@ report :> "wf_report" @@ chat :> "wf_chat"
MCStateKey  == score :> "wf_state_score"
MCVals      == {v1, v2}
MCShared    == {cart}
MCSymmetry  == Permutations(MCVals)
=============================================================================
