------------------------------ MODULE MCFifos ------------------------------
(* The three rings of the driver in one run: the ring of a TX queue, used  *)
(* by three blocks, the work queue and the host's receive ring.  A         *)
(* behaviour is of one of them: it works, and the others stay as they were *)
(* initialised.                                                            *)
EXTENDS SharedFifo

CONSTANTS WorkEltNbr, Producers, MaxItems,
          FDN, Sram, Block, Once, Bufferable, Lengths, MaxFrames, MaxSuspends,
          MaxNoMemory

ASSUME WorkAssumption == WorkEltNbr \in Nat /\ WorkEltNbr >= 2 /\ MaxItems \in Nat
ASSUME RxAssumption ==
    /\ FDN \in Nat \ {0} /\ Sram \in Nat \ {0} /\ Block \in Nat \ {0}
    /\ Once \in Nat /\ Bufferable \in Nat /\ MaxFrames \in Nat
    /\ Lengths \subseteq Nat \ {0, 1}

VARIABLES ring,  \* "tx", "work" or "rx": the ring of this behaviour
          widx, mem, ppc, pslot, added, flag, sem, wpc, wslot, quit,
          accepted, ran, finished, overlap,
          sram, wr, rd, rxok, off, fifo, FDT, FDH, irq, rx, semRx, suspend,
          ghost

W == INSTANCE WorkFifo WITH EltNbr <- WorkEltNbr, idx <- widx
R == INSTANCE HostRxFifo

workVars == <<widx, mem, ppc, pslot, added, flag, sem, wpc, wslot, quit,
              accepted, ran, finished, overlap>>
rxVars == <<sram, wr, rd, rxok, off, fifo, FDT, FDH, irq, rx, semRx, suspend,
            ghost>>

MCInit == Init /\ W!Init /\ R!Init /\ ring \in {"tx", "work", "rx"}

MCNext == \/ ring = "tx" /\ Next /\ UNCHANGED <<ring, workVars, rxVars>>
          \/ ring = "work" /\ W!Next /\ UNCHANGED <<ring, vars, rxVars>>
          \/ ring = "rx" /\ R!Next /\ UNCHANGED <<ring, vars, workVars>>

WorkStep(A) == ring = "work" /\ A /\ UNCHANGED <<ring, vars, rxVars>>
RxStep(A)   == ring = "rx" /\ A /\ UNCHANGED <<ring, vars, workVars>>

MCSpec == /\ MCInit /\ [][MCNext]_<<ring, vars, workVars, rxVars>>
          /\ WF_<<ring, workVars>>(WorkStep(W!Worker))
          /\ \A p \in Producers : WF_<<ring, workVars>>(WorkStep(W!Finish(p)))
          /\ WF_<<ring, rxVars>>(RxStep(R!Irq))
          /\ WF_<<ring, rxVars>>(RxStep(R!Rx))

(* The properties of the work queue and of the receive ring: see WorkFifo  *)
(* and HostRxFifo.                                                         *)
QueueSound      == W!QueueSound
WorkEnds        == W!WorkEnds
RxFifoSound     == R!RxFifoSound
CommittedGoesUp == R!CommittedGoesUp
=============================================================================
