---- MODULE MCMessageQueueActor ----
EXTENDS MessageQueueActor, TLC
====
