----------------------------- MODULE MCPowerSave -----------------------------
EXTENDS PowerSave

MCBudgets == {
    [fetch |-> 1, frame |-> 0, down |-> 1, mode |-> 1, fail |-> 1],
    [fetch |-> 0, frame |-> 0, down |-> 1, mode |-> 1, fail |-> 1],
    [fetch |-> 0, frame |-> 1, down |-> 0, mode |-> 2, fail |-> 1]}
=============================================================================
