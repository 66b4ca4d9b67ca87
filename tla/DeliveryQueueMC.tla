----------------------------- MODULE DeliveryQueueMC -----------------------------
EXTENDS DeliveryQueue

CONSTANTS d1, d2

MCParts == [d \in Deliveries |-> IF d = d1 THEN 2 ELSE 1]
MCBackoff == <<1>>
=============================================================================
