---------------------------- MODULE MCBackupChain ----------------------------
EXTENDS Offsite

\* The third release brings a new compose.yaml.
Composes == <<"first", "first", "second">>

\* What varies beside the programs.
Combinations == {{"prune", "clock", "faults"},
                 {"offsite", "prune", "faults"},
                 {"offsite", "migration", "faults"},
                 {"offsite", "damage"},
                 {"offsite", "places"},
                 {"offsite", "releases"}}

\* Only faults beside the off-site worker.
Faulty == {{"offsite", "faults"}}
=============================================================================
