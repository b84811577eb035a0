--------------------------- MODULE MCActionBroker ---------------------------
(***************************************************************************)
(* The action broker alone, with RunLoop's ticker as its fairness.         *)
(***************************************************************************)
EXTENDS ActionBroker

Spec == BrokerInit /\ [][BrokerNext]_brokerVars
FairSpec == Spec /\ \A b \in Brokers : WF_brokerVars(BrokerProgress(b))
=============================================================================
