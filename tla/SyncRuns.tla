------------------------------ MODULE SyncRuns ------------------------------
(***************************************************************************)
(* What the sync pipeline promises about the documents of a run, without   *)
(* queues, workers, flags or requests.  A run is a SyncJob row.  It adds   *)
(* its documents to the corpus once, in one piece: with all their chunks,  *)
(* or, when cancelled before the embedding, with none.  Only a run that    *)
(* stored every document with its chunks may claim success, with the exact *)
(* count; a claim may be withdrawn, and what is stored stays.              *)
(***************************************************************************)
EXTENDS Naturals

CONSTANTS
    Rows,    \* the SyncJob rows
    Sizes    \* the numbers of documents a run can store

VARIABLES
    stored,   \* per row: documents committed, and how many have chunks
    claimed   \* per row: does it say success, and for how many documents

rvars == <<stored, claimed>>

Nothing == [docs |-> 0, indexed |-> 0]
NoClaim == [said |-> FALSE, docs |-> 0]

RInit ==
    /\ stored = [r \in Rows |-> Nothing]
    /\ claimed = [r \in Rows |-> NoClaim]

Publish(r, content) ==
    /\ stored[r] = Nothing /\ ~claimed[r].said
    /\ stored' = [stored EXCEPT ![r] = content]
    /\ UNCHANGED claimed

PublishWhole(r) == \E n \in Sizes : Publish(r, [docs |-> n, indexed |-> n])

PublishBare(r) == \E n \in Sizes : Publish(r, [docs |-> n, indexed |-> 0])

Claim(r) ==
    /\ stored[r].indexed = stored[r].docs
    /\ claimed' = [claimed EXCEPT ![r] = [said |-> TRUE, docs |-> stored[r].docs]]
    /\ UNCHANGED stored

Withdraw(r) ==
    /\ claimed' = [claimed EXCEPT ![r] = NoClaim]
    /\ UNCHANGED stored

RNext == \E r \in Rows : \/ PublishWhole(r) \/ PublishBare(r)
                         \/ Claim(r) \/ Withdraw(r)

RSpec == RInit /\ [][RNext]_rvars
=============================================================================
