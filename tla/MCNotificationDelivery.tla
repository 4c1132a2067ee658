----------------------- MODULE MCNotificationDelivery -----------------------
(* Constants of NotificationDelivery for TLC. *)
EXTENDS NotificationDelivery, TLC

CONSTANTS n1, n2, rest, gateway

(* One tick is 60 seconds: 30 * 2^attempt seconds are 1, 2, 4 ticks. *)
MCDelay == [a \in 1..MaxAttempts |-> 2^(a - 1)]
=============================================================================
