--------------------------- MODULE MCSchedulerV2 ---------------------------
EXTENDS SchedulerV2
CONSTANTS c1, c2, c3, data, intent
MCCases      == {c1, c2, c3}
MCRegistered == {c1, c2}          \* c3 carries an unknown workflow_code
MCPolls      == {data, intent}
MCRouter     == {intent}
=============================================================================
