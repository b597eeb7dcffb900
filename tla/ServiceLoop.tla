----------------------------- MODULE ServiceLoop ----------------------------
(***************************************************************************)
(* The threads that serve a bucket: thread_function of                     *)
(* libports/manage-multithread.c, which two models look at.  ThreadPool    *)
(* follows a thread through the pool of port-deref-deferred.c,             *)
(* ServiceThreads through the counters by which threads come and go.       *)
(***************************************************************************)
CONSTANTS
  Threads,  \* threads that may serve the bucket; an id is reused after exit
  Master    \* the thread that called ports_manage_port_operations_*

VARIABLE
  pc        \* where each service thread is in thread_function
=============================================================================
