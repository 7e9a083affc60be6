---------------------------- MODULE MCScheduler ----------------------------
EXTENDS Scheduler

\* Which faults happen together.  Rejections and aborts are kept apart: an
\* abort in an inline prefill loses the rejections of the same pass.
MCFaultSets ==
    {{"abort"}, {"oom", "overflow"}, {"corrupt", "slow"},
     {"memory", "crash"}, {"stale", "pause"}}

=============================================================================
