---------------------------- MODULE MCThreadPool ----------------------------
EXTENDS ThreadPool
MCWorker == 1 .. 2
MCFuture == 1 .. 3
=============================================================================
