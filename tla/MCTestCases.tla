----------------------------- MODULE MCTestCases -----------------------------
(***************************************************************************)
(* For TLC: a test case is a server test, of which TestClients has the     *)
(* dict of clients, or a client test.                                      *)
(***************************************************************************)
EXTENDS TestClients, ClientCases

testCaseVars == <<vars, caseVars>>

MCInit == Init /\ (NoClientCase \/ InitClientCases)

MCNext ==
    \/ clientTest = 0 /\ Next /\ UNCHANGED caseVars
    \/ clientTest # 0 /\ NextClientCases /\ UNCHANGED vars

\* The test goes on, and clients answer what they receive.
MCSpec ==
    /\ MCInit /\ [][MCNext]_testCaseVars
    /\ WF_testCaseVars(clientTest # 0 /\ TestMoves /\ UNCHANGED vars)
    /\ WF_testCaseVars(clientTest # 0 /\ ClientMoves /\ UNCHANGED vars)

=============================================================================
