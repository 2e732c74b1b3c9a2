---------------------- MODULE MCDurableDeliveryManager ----------------------
(***************************************************************************)
(* Model checking of the delivery manager with a record of either of two   *)
(* tenants, of which the first has no token, and with both records of the  *)
(* tenant that has.                                                        *)
(***************************************************************************)
EXTENDS DurableDeliveryManager

OneEach == [tenantOf |-> [r \in Records |-> r], faults |-> 1, restarts |-> 1]
AllOfTenant2 == [tenantOf |-> [r \in Records |-> 2], faults |-> 1, restarts |-> 0]

BothScenarios == {OneEach, AllOfTenant2}
OnlyOneEach == {OneEach}
=============================================================================
