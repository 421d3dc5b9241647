------------------------- MODULE ProviderBudgetsMC -------------------------
(* Every session has an owner of its own.                                   *)
EXTENDS ProviderBudgets
OwnerOfEach == [s \in Sessions |-> s]
=============================================================================
