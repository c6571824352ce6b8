---------------------------- MODULE AtomicPages ----------------------------
(***************************************************************************)
(* What writing through the double-write file promises about a data part:  *)
(* what the next start would find changes by whole batches of pages only,  *)
(* and a page and its index entry appear together.                         *)
(***************************************************************************)
EXTENDS FiniteSets, Naturals

CONSTANTS PageNos, Contents, Empty, BatchSize

VARIABLES
    store,    \* page number -> content
    entries   \* index entries [ts, no]

Init ==
    /\ store = [p \in PageNos |-> Empty]
    /\ entries = {}

PutBatch ==
    LET before == store
        after == store'
        changed == {p \in PageNos : after[p] # before[p]}
    IN  /\ changed # {} /\ Cardinality(changed) <= BatchSize
        /\ after \in [PageNos -> Contents]
        /\ entries' = entries \cup {[ts |-> after[p].ts, no |-> p] : p \in changed}

Spec == Init /\ [][PutBatch]_<<store, entries>>
=============================================================================
