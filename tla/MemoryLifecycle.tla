-------------------------- MODULE MemoryLifecycle --------------------------
(***************************************************************************)
(* What the memory pool promises about the life of a memory, whoever reads *)
(* it, blames it or prunes it, and wherever the process stops:             *)
(*                                                                         *)
(*     (absent) -> ACTIVE -> PRUNED | RISKY | REPLACED                     *)
(*                           PRUNED -> REPLACED                            *)
(*                                                                         *)
(* Memories are learned one at a time and never deleted, an out-of-service *)
(* memory never comes back, and every REPLACED memory is superseded by     *)
(* exactly the memory learned in the same step.  PRUNED -> REPLACED is a   *)
(* real transition of the code: the pruning pass that ends record() may    *)
(* retire the very memory whose shorter successor is stored next.          *)
(***************************************************************************)
EXTENDS Naturals, Sequences

VARIABLE
  pool     \* for each memory, its status and the memory that superseded it

Status == {"ACTIVE", "PRUNED", "REPLACED", "RISKY"}

None == 0

NewMemory == [status |-> "ACTIVE", successor |-> None]

Init == pool \in Seq([status : Status, successor : {None}])

\* A new memory joins the pool.
Learn == pool' = Append(pool, NewMemory)

\* A new memory joins the pool and takes the place of memory i.
Supersede(i) ==
  /\ pool[i].status \in {"ACTIVE", "PRUNED"}
  /\ pool' = Append([pool EXCEPT ![i] = [status |-> "REPLACED",
                                         successor |-> Len(pool) + 1]],
                    NewMemory)

\* Active memories leave the service: pruned one by one, or found risky
\* together during one read.
Retire(S, why) ==
  /\ \A i \in S : pool[i].status = "ACTIVE"
  /\ pool' = [i \in DOMAIN pool |->
                IF i \in S THEN [pool[i] EXCEPT !.status = why] ELSE pool[i]]

Next ==
  \/ Learn
  \/ \E i \in DOMAIN pool : Supersede(i)
  \/ \E i \in DOMAIN pool : Retire({i}, "PRUNED")
  \/ \E S \in SUBSET DOMAIN pool : Retire(S, "RISKY")

Spec == Init /\ [][Next]_pool
=============================================================================
