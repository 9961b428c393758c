---------------------------- MODULE SakuraClient ----------------------------
(***************************************************************************)
(* The client the controllers are given (setup.go:28-32): the mock if the   *)
(* manager runs dry, and else one that talks to the real API.  The choice   *)
(* is made once, at start.                                                  *)
(***************************************************************************)
EXTENDS MockClient, HTTPClient

CONSTANT MaxMockCalls   \* bound: changes a run makes in the mock

VARIABLES
    dryRun,
    mockCalls           \* how many were made

clientVars == <<dryRun, mockCalls, mockVars, httpVars>>

SetupClient ==
    /\ dryRun \in BOOLEAN
    /\ NewMockClient /\ HTTPInit
    /\ mockCalls = 0

Next ==
    /\ UNCHANGED dryRun
    /\ \/ /\ dryRun /\ MockNext /\ UNCHANGED httpVars
          /\ mockCalls < MaxMockCalls /\ mockCalls' = mockCalls + 1
       \/ ~dryRun /\ HTTPNext /\ UNCHANGED <<mockVars, mockCalls>>

Spec == SetupClient /\ [][Next]_clientVars

\* Types of both clients' state.
ClientTypeOK == MockTypeOK /\ HTTPTypeOK
=============================================================================
