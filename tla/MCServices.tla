------------------------------ MODULE MCServices ------------------------------
(***************************************************************************)
(* For TLC: a test with services is one of Sable, or one of another server *)
(* with services of the base class.                                        *)
(***************************************************************************)
EXTENDS Services, Sable

mcVars == <<servicesVars, sableVars>>

OfSable == stage # "none"

\* The variables of the other kind stay as they begin.
MCInit ==
    /\ InitServices /\ SableBegins
    /\ \/ stage = "none" /\ wanted = {}
       \/ stage = "run" /\ ~runServices

OnlyServices(A) == ~OfSable /\ A /\ UNCHANGED sableVars
OnlySable(A) == OfSable /\ A /\ UNCHANGED servicesVars

MCNext == OnlyServices(NextServices) \/ OnlySable(NextSable)

\* The fairness of FairSpecServices and of FairSpecSable.
MCSpec ==
    /\ MCInit /\ [][MCNext]_mcVars
    /\ WF_mcVars(OnlyServices(TestRuns)) /\ WF_mcVars(OnlyServices(ClientStep))
    /\ WF_mcVars(OnlyServices(ServerAnswers)) /\ WF_mcVars(OnlyServices(NickServAnswers))
    /\ \A g \in Group :
          /\ WF_mcVars(OnlyServices(LeaderObeys(g) /\ ConnectionsEnd /\ UNCHANGED clientVars))
          /\ WF_mcVars(OnlyServices(HelperObeys(g) /\ ConnectionsEnd /\ UNCHANGED clientVars))
    /\ WF_mcVars(OnlySable(SableCalls))
    /\ \A c \in SableClients :
          WF_mcVars(OnlySable(SableClientStep(c)))

=============================================================================
