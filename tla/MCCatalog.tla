------------------------------ MODULE MCCatalog ------------------------------
EXTENDS Catalog
CONSTANTS t1, t2, d1
Entries(one) == [t \in Tables |-> IF t = one THEN <<FALSE>> ELSE <<>>]
\* An empty server; one with the table t1 and the files of t2 copied next to it; one with a device in t1.
MCInits == { [cfg |-> Entries(NoFile), dev |-> [t \in Tables |-> NoFile]],
             [cfg |-> Entries(t1), dev |-> [t \in Tables |-> IF t = t2 THEN {<<t2, 0, d1>>} ELSE {}]],
             [cfg |-> Entries(t1), dev |-> [t \in Tables |-> IF t = t1 THEN {<<t1, 0, d1>>} ELSE NoFile]] }
=============================================================================
