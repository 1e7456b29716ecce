---------------------------- MODULE MCTaskService ----------------------------
(* Instances of TaskService for TLC: a task graph in which c depends on two  *)
(* tasks and d on one of them, with d a follow-up task not yet created,      *)
(* and a board with a task nobody has scheduled yet and two follow-up slots  *)
(* with a common title.                                                      *)
EXTENDS TaskService, TLC

CONSTANTS a, b, c, d, f1, f2

Fork == a :> {} @@ b :> {} @@ c :> {a, b} @@ d :> {b}
ForkStatus == a :> "ready" @@ b :> "ready" @@ c :> "pending" @@ d :> "absent"
ForkRank == a :> 1 @@ b :> 2 @@ c :> 3 @@ d :> 3
OwnTitle == [t \in Tasks |-> t]

Mixed == a :> {} @@ b :> {a} @@ f1 :> {} @@ f2 :> {}
MixedStatus ==
    a :> "ready" @@ b :> "to_do" @@ f1 :> "absent" @@ f2 :> "absent"
MixedRank == a :> 1 @@ b :> 2 @@ f1 :> 2 @@ f2 :> 2
MixedTitle == a :> a @@ b :> b @@ f1 :> f1 @@ f2 :> f1
=============================================================================
