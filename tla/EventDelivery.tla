---------------------------- MODULE EventDelivery ----------------------------
(***************************************************************************)
(* What the webhook queue promises, with no queue, lock, retry or worker:  *)
(* an accepted event waits until its effect has been applied, may then be  *)
(* settled, and is otherwise given up.  Nothing is settled without having  *)
(* been applied, and nothing that is settled or given up comes back.       *)
(* PipelineIngest is shown to implement it.                                *)
(***************************************************************************)
CONSTANT Events

VARIABLE phase

Phases == {"absent", "pending", "applied", "settled", "given_up"}

Init == phase = [e \in Events |-> "absent"]

Move(e, from, to) ==
  /\ phase[e] \in from
  /\ phase' = [phase EXCEPT ![e] = to]

Accept(e) == Move(e, {"absent"}, "pending")
Apply(e)  == Move(e, {"pending"}, "applied")
Settle(e) == Move(e, {"applied"}, "settled")
GiveUp(e) == Move(e, {"pending", "applied"}, "given_up")

Next == \E e \in Events : Accept(e) \/ Apply(e) \/ Settle(e) \/ GiveUp(e)

Spec == Init /\ [][Next]_phase

\* An accepted event does not stay undecided for ever.
Progress(e) == Apply(e) \/ Settle(e) \/ GiveUp(e)

FairSpec == Spec /\ \A e \in Events : WF_phase(Progress(e))

=============================================================================
