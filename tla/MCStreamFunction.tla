-------------------------- MODULE MCStreamFunction --------------------------
EXTENDS StreamFunction

CONSTANTS ta, tb

Conf(async, pipe, cr, tags, want) ==
    [fn |-> async, pfn |-> pipe, cron |-> cr, tags |-> tags, want |-> want]

\* A handler and a cron job, with a wanted target; a pipe; a handler that hides
\* a pipe; a function without a handler; one that observes nothing.
SfnConfigurations ==
    {Conf(TRUE, FALSE, TRUE, TRUE, ta), Conf(FALSE, TRUE, FALSE, TRUE, NoTarget),
     Conf(TRUE, TRUE, FALSE, TRUE, NoTarget), Conf(FALSE, FALSE, TRUE, FALSE, NoTarget),
     Conf(FALSE, FALSE, FALSE, TRUE, NoTarget), Conf(TRUE, FALSE, FALSE, FALSE, NoTarget)}
=============================================================================
