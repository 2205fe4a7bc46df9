-------------------------- MODULE ReindexContract --------------------------
(***************************************************************************)
(* What a bulk reindex promises, without Redis, arq or the API.            *)
(*                                                                         *)
(* A job writes rows of the embedding index in one database transaction.   *)
(* Its rows become visible all together (Save) or not at all (Lose); an    *)
(* entity never has two rows; and "completed" is announced only for a job  *)
(* whose transaction has been saved.                                       *)
(***************************************************************************)
EXTENDS FiniteSets

CONSTANTS Jobs,       \* job ids
          Entities    \* the entities that can have a row in embedding_index

VARIABLES indexed,    \* entities with a committed row
          batch,      \* batch[j]: rows j has written and not committed
          saved,      \* jobs that have committed a batch
          told        \* told[j]: the terminal events published for j, or lost

cvars == <<indexed, batch, saved, told>>

Endings == {"completed", "failed", "cancelled"}

\* Entities for which some transaction holds an uncommitted row.
Held == UNION {batch[j] : j \in Jobs}

Init == /\ indexed \in SUBSET Entities
        /\ batch = [j \in Jobs |-> {}]
        /\ saved = {}
        /\ told = [j \in Jobs |-> {}]

\* The job writes the row of one entity inside its transaction.
Write(j) == \E e \in Entities \ (indexed \cup Held) :
              /\ batch' = [batch EXCEPT ![j] = @ \cup {e}]
              /\ UNCHANGED <<indexed, saved, told>>

Save(j) == /\ indexed' = indexed \cup batch[j]
           /\ batch' = [batch EXCEPT ![j] = {}]
           /\ saved' = saved \cup {j}
           /\ UNCHANGED told

Lose(j) == /\ batch' = [batch EXCEPT ![j] = {}]
           /\ UNCHANGED <<indexed, saved, told>>

\* An event is announced; "lost" stands for one that reaches nobody.
Tell(j) == \E ending \in Endings \cup {"lost"} :
              /\ ending = "completed" => j \in saved
              /\ told' = [told EXCEPT ![j] = @ \cup {ending}]
              /\ UNCHANGED <<indexed, batch, saved>>

\* The per-entity tasks, each in a transaction of its own.
IndexOne == \E e \in Entities \ Held :
              /\ indexed' = indexed \cup {e}
              /\ UNCHANGED <<batch, saved, told>>

RemoveOne == \E e \in indexed :
              /\ indexed' = indexed \ {e}
              /\ UNCHANGED <<batch, saved, told>>

Next == \/ \E j \in Jobs : Write(j) \/ Save(j) \/ Lose(j) \/ Tell(j)
        \/ IndexOne
        \/ RemoveOne

Spec == Init /\ [][Next]_cvars
=============================================================================
