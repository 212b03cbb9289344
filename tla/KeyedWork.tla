----------------------------- MODULE KeyedWork -----------------------------
(***************************************************************************)
(* What the event queue promises, with no database, dispatcher, slot or    *)
(* process in sight: deliveries are handled one at a time per issue key,   *)
(* a pending delivery settles only by being handled, and a restart of the  *)
(* orchestrator may interrupt handling but loses no pending delivery.      *)
(*                                                                         *)
(* EventQueue implements this specification (see EventQueue!Implements).   *)
(***************************************************************************)
CONSTANTS Delivery, Key, KeyOf

VARIABLE status

Status == {"absent", "pending", "handling", "settled"}

TypeOK == status \in [Delivery -> Status]

Init == status = [d \in Delivery |-> "absent"]

Move(d, from, to) ==
    /\ status[d] = from
    /\ status' = [status EXCEPT ![d] = to]

Submit(d) == Move(d, "absent", "pending")

Discard(d) == Move(d, "absent", "settled")

Handle(d) ==
    /\ \A e \in Delivery : KeyOf[e] = KeyOf[d] => status[e] # "handling"
    /\ Move(d, "pending", "handling")

Settle(d) == Move(d, "handling", "settled")

GiveBack(d) == Move(d, "handling", "pending")

Reopen(d) == Move(d, "settled", "pending")

Forget(d) == Move(d, "settled", "absent")

\* Every handler dies at once; each delivery it held is pending or settled.
Interrupt ==
    /\ status' \in [Delivery -> Status]
    /\ \A d \in Delivery :
          IF status[d] = "handling" THEN status'[d] \in {"pending", "settled"}
                                    ELSE status'[d] = status[d]

Next ==
    \/ \E d \in Delivery :
          \/ Submit(d) \/ Discard(d) \/ Handle(d) \/ Settle(d)
          \/ GiveBack(d) \/ Reopen(d) \/ Forget(d)
    \/ Interrupt

Spec == Init /\ [][Next]_status

\* At most one delivery of a key is being handled.
OneHandlerPerKey ==
    \A d, e \in Delivery :
        status[d] = "handling" /\ status[e] = "handling" /\ KeyOf[d] = KeyOf[e] => d = e
=============================================================================
