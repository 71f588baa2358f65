------------------------ MODULE MCNotificationDelivery ------------------------
(* TLC instances of NotificationDelivery. *)
EXTENDS NotificationDelivery, TLC

CONSTANTS n1, n2, w1, w2, hook, mail

MCTasks == {n1, n2}
MCWorkers == {w1, w2}
MCOneWorker == {w1}
MCChannels == {hook, mail}
MCHook == {hook}

\* One notification to a webhook, one to an email channel.
MCChannelOf == n1 :> hook @@ n2 :> mail
=============================================================================
