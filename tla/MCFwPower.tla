----------------------------- MODULE MCFwPower -----------------------------
EXTENDS FwPower

\* Two connected interfaces that sleep and wake; the same with a suspend and a
\* frame less; one of them, with a suspend and another command.
MCBudgets ==
    {[up |-> {0, 1}, doze |-> 2, param |-> 0, frame |-> 2, suspend |-> 0],
     [up |-> {0, 1}, doze |-> 2, param |-> 0, frame |-> 1, suspend |-> 1],
     [up |-> {0}, doze |-> 2, param |-> 1, frame |-> 2, suspend |-> 1]}
=============================================================================
