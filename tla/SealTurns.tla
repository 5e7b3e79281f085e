------------------------------ MODULE SealTurns ------------------------------
(***************************************************************************)
(* What `artifacts --complete` promises of concurrent invocations, with    *)
(* nothing said of locks, inodes or the index: they seal in turn.  A turn  *)
(* can be taken away, and whoever lost it never reports a seal.            *)
(***************************************************************************)
CONSTANT Procs  \* the invocations

VARIABLE turn   \* what has become of the turn of each

TurnsInit == turn = [p \in Procs |-> "waiting"]

(* One begins, and whoever was sealing has lost its turn.                  *)
Begin(p) ==
  /\ turn[p] = "waiting"
  /\ turn' = [q \in Procs |-> IF q = p THEN "sealing"
                              ELSE IF turn[q] = "sealing" THEN "lost" ELSE turn[q]]

Moves(p, from, to) == turn[p] = from /\ turn' = [turn EXCEPT ![p] = to]

(* One that kept its turn closes it.  Who begins now comes after it.       *)
Close(p) == Moves(p, "sealing", "closed")

(* Only a turn that was closed ends in a reported seal; any may come to    *)
(* nothing.                                                                *)
Seal(p)   == Moves(p, "closed", "sealed")
GiveUp(p) == \E from \in {"sealing", "lost", "closed"} : Moves(p, from, "over")

TurnsNext == \E p \in Procs : Begin(p) \/ Close(p) \/ Seal(p) \/ GiveUp(p)

TurnsSpec == TurnsInit /\ [][TurnsNext]_turn
=============================================================================
