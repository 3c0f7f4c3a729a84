-------------------------- MODULE MCApprovalEngine --------------------------
EXTENDS ApprovalEngine
CONSTANTS c1, c2
MCCases == {c1, c2}
MCPolls == {Review}
MCNone  == {}
=============================================================================
