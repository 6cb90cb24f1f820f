------------------------------ MODULE MCGateway ------------------------------
(* ExecutionGateway for TLC.                                               *)
EXTENDS GatewayProperties

EveryVertical == AllVerticals
===============================================================================
