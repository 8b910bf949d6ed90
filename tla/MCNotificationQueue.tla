-------------------------- MODULE MCNotificationQueue --------------------------
(* NotificationQueue with the constants of its configuration. *)
EXTENDS NotificationQueue
=============================================================================
