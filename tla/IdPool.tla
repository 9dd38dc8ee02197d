------------------------------- MODULE IdPool --------------------------------
(***************************************************************************)
(* What a pool of ids promises: an id is handed out only while nobody else *)
(* holds it, and it can be handed out again once it has been returned.     *)
(***************************************************************************)
EXTENDS Naturals
CONSTANT Ids
VARIABLE users   \* how many callers hold each id

PoolInit == users = [i \in Ids |-> 0]
Take == \E i \in Ids : users[i] = 0 /\ users' = [users EXCEPT ![i] = 1]
Return == \E i \in Ids : users[i] = 1 /\ users' = [users EXCEPT ![i] = 0]
PoolSpec == PoolInit /\ [][Take \/ Return]_users
=============================================================================
