------------------------------ MODULE MCStorage ------------------------------
EXTENDS Storage

\* Two adjacent partitions and one of a single block; the copies of the table
\* are the first and the last block.
MCTable ==
    << [name |-> "MSC", first_lba |-> 1, last_lba |-> 1],
       [name |-> "APP", first_lba |-> 2, last_lba |-> 4],
       [name |-> "DTB", first_lba |-> 5, last_lba |-> 6] >>
=============================================================================
