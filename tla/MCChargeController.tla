-------------------------- MODULE MCChargeController --------------------------
(* A small instance of ChargeController.                                    *)
EXTENDS ChargeController

SomeFlows == {<<0, 4>>, <<1, 5>>, <<1, 2>>}
=============================================================================
