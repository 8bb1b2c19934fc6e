----------------------------- MODULE MCPipeline -----------------------------
(***************************************************************************)
(* Small instances of Pipeline for TLC.                                    *)
(***************************************************************************)
EXTENDS Pipeline, TLC

CONSTANTS d1, d2, o1, w1, w2, r1, r2

OneOrg  == [d \in Docs |-> o1]
OnePage == [d \in Docs |-> 1]
\* d1 is estimated at two pages, every other document at three.
TwoSizes == [d \in Docs |-> IF d = d1 THEN 2 ELSE 3]

Faults(lost, raised, aborted) ==
    [k \in FaultKind |-> CASE k = "lost" -> lost
                           [] k = "raised" -> raised
                           [] k = "aborted" -> aborted]
NoFaults   == Faults(0, 0, 0)
OneLost    == Faults(1, 0, 0)
OneRaised  == Faults(0, 1, 0)
LostAndRaised == Faults(1, 1, 0)
OneAborted == Faults(0, 0, 1)

Interchangeable == Permutations({w1, w2}) \cup Permutations({r1, r2})
=============================================================================
