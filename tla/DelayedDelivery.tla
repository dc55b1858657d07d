--------------------------- MODULE DelayedDelivery ---------------------------
(***************************************************************************)
(* What the service needs from its queue of deletion messages, seen as a    *)
(* scheduler: a message once accepted stays pending, through requeuing,     *)
(* broken connections and restarts, and is settled only after the deadline  *)
(* it carries.                                                              *)
(***************************************************************************)
EXTENDS Integers

CONSTANT Message    \* records with a field expiredAt

VARIABLES pending,  \* copies of each message that are not settled
          clock

vars == <<pending, clock>>

Init == pending = [m \in Message |-> 0] /\ clock = 1

Accept(m) == pending' = [pending EXCEPT ![m] = @ + 1] /\ UNCHANGED clock

Settle(m) ==
  /\ pending[m] > 0
  /\ m.expiredAt <= clock
  /\ pending' = [pending EXCEPT ![m] = @ - 1]
  /\ UNCHANGED clock

Advance == clock' = clock + 1 /\ UNCHANGED pending

Next == (\E m \in Message : Accept(m) \/ Settle(m)) \/ Advance

Spec == Init /\ [][Next]_vars
=============================================================================
