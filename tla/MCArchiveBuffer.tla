-------------------------- MODULE MCArchiveBuffer --------------------------
(* One node, its frame worker and the archive task.                         *)
EXTENDS ArchiveBuffer

CONSTANTS n1, w1, archiver

OneNode      == {n1}
OneWorker    == {w1}
WorkerOfOne  == [n \in OneNode |-> w1]
=============================================================================
