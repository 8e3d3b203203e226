-------------------------- MODULE MCTaskQueueWorker --------------------------
(* Three tasks, and threads enough for a restart after a restart.          *)
EXTENDS TaskQueueWorker

MCMaxTasks == 3
MCMaxStarts == 3
=============================================================================
