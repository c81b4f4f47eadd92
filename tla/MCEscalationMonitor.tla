------------------------ MODULE MCEscalationMonitor ------------------------
\* Two orders and two workers.  The settings hold a ladder whose levels do not
\* follow its delays, and one that names a level twice.
EXTENDS EscalationMonitor

CONSTANTS w1, w2

MCDefault == << [level |-> 1, after |-> 1] >>
MCSettings == { << [level |-> 1, after |-> 2], [level |-> 2, after |-> 1] >>,
                << [level |-> 1, after |-> 1], [level |-> 1, after |-> 2] >> }
=============================================================================
