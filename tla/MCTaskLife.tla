----------------------------- MODULE MCTaskLife ------------------------------
EXTENDS TaskLife
CONSTANTS k, a, b, c
MCTasks == {k, a, b, c}
\* Processes and threads whose children exit first; processes that leave
\* children behind and creations that fail; tasks reaped while they exit.
MCModes == {[kinds |-> {TRUE, FALSE}, orphans |-> FALSE, fails |-> FALSE, early |-> FALSE],
            [kinds |-> {FALSE}, orphans |-> TRUE, fails |-> TRUE, early |-> FALSE],
            [kinds |-> {TRUE, FALSE}, orphans |-> FALSE, fails |-> FALSE, early |-> TRUE]}
=============================================================================
