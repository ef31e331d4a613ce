----------------------------- MODULE MCExecutor -----------------------------
EXTENDS Executor
CONSTANTS c1, c2
MCClient == {c1, c2}
MCWorker == 1 .. 2
MCFuture == 1 .. 2
=============================================================================
