-------------------------- MODULE MCWagerScenarios --------------------------
(***************************************************************************)
(* ProcessWager against several sets of inputs in one run: the callers of a  *)
(* behaviour send the inputs of one scenario, chosen at the start.           *)
(***************************************************************************)
EXTENDS MCProcessWager

VARIABLE inputs

Scenarios == {Bets, Refunds, Rollbacks, BadReferences}
AllInputs == UNION Scenarios

ScenarioInit == Init /\ inputs \in Scenarios

ScenarioNext ==
  /\ \E p \in Processes : (\E r \in inputs : Receive(p, r)) \/ Step(p) \/ Fail(p)
  /\ UNCHANGED inputs

ScenarioSpec == ScenarioInit /\ [][ScenarioNext]_<<vars, inputs>>
=============================================================================
