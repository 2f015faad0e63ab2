----------------------------- MODULE MCIngestion -----------------------------
(***************************************************************************)
(* Instances of Ingestion for TLC.  Documents and servers are model values *)
(* d1, d2, s1, s2; every cfg chooses how many of them there are.           *)
(***************************************************************************)
EXTENDS Ingestion

CONSTANTS d1, d2, s1, s2

OneDoc     == {d1}
TwoDocs    == {d1, d2}
OneServer  == {s1}
TwoServers == {s1, s2}

\* Both requests upload the same bytes, or different ones.
SameContent  == [d \in Docs |-> d1]
OwnContent   == [d \in Docs |-> d]

OnServer1 == [d \in Docs |-> s1]
OnServer2 == [d \in Docs |-> s2]

AllFaults   == FaultKinds
StepFaults  == {"step"}
=============================================================================
