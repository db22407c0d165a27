---------------------------- MODULE MemoryIndex ----------------------------
(***************************************************************************)
(* What JsonDMSMemoryStore promises its callers about index.jsonl: it is a *)
(* table of memory records that every operation reads and changes in one   *)
(* indivisible step.  Nothing is ever deleted.                             *)
(***************************************************************************)
EXTENDS Naturals

CONSTANTS Ids, Status

VARIABLE rows       \* the records on file, by memory id

Row == [status : Status, updates : Nat, successor : SUBSET Ids]

Fresh == [status |-> "ACTIVE", updates |-> 0, successor |-> {}]

Init == rows = [i \in {} |-> Fresh]

\* The table with one more record.
With(table, i, row) ==
  [j \in DOMAIN table \cup {i} |-> IF j = i THEN row ELSE table[j]]

Add(i) ==
  /\ i \notin DOMAIN rows
  /\ rows' = With(rows, i, Fresh)

UpdateMeta(i) ==
  /\ i \in DOMAIN rows
  /\ rows' = [rows EXCEPT ![i].updates = @ + 1]

MarkStatus(i, s) ==
  /\ i \in DOMAIN rows
  /\ rows' = [rows EXCEPT ![i].status = s]

Replace(old, new) ==
  /\ old \in DOMAIN rows
  /\ new \notin DOMAIN rows
  /\ rows' = With([rows EXCEPT ![old].status = "REPLACED",
                               ![old].successor = {new}], new, Fresh)

Next ==
  \/ \E i \in Ids : Add(i) \/ UpdateMeta(i)
  \/ \E i \in Ids, s \in Status : MarkStatus(i, s)
  \/ \E old, new \in Ids : Replace(old, new)

Spec == Init /\ [][Next]_rows
=============================================================================
