----------------------- MODULE MCNotificationDelivery -----------------------
(* Small instances of NotificationDelivery.                                *)
EXTENDS NotificationDelivery

CONSTANTS j1, j2, a, b
=============================================================================
