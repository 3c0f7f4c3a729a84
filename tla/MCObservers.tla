---------------------------- MODULE MCObservers ----------------------------
EXTENDS Observers
MCSteps == <<"draft", "check">>
=============================================================================
