--------------------------- MODULE EscrowPromise ---------------------------
(***************************************************************************)
(* What the exchange promises about the money a consumer puts behind a job, *)
(* whatever happens around it: the deposit is held until the job's outcome  *)
(* is known; accepted work releases the whole deposit to the provider's     *)
(* side; rejected, late or cancelled work returns the whole deposit to the  *)
(* consumer; and only one of the two ever happens.                          *)
(***************************************************************************)
EXTENDS Naturals

CONSTANT JobIds

VARIABLES
  phase,      \* none, held, accepted, rejected, released, returned
  deposit,    \* what is still in custody for the job
  released,   \* what went to the provider and the protocol
  returned    \* what went back to the consumer

pvars == <<phase, deposit, released, returned>>

Phases == {"none", "held", "accepted", "rejected", "released", "returned"}

Init ==
  /\ phase = [j \in JobIds |-> "none"]
  /\ deposit = [j \in JobIds |-> 0]
  /\ released = [j \in JobIds |-> 0]
  /\ returned = [j \in JobIds |-> 0]

Move(j, from, to) == phase[j] \in from /\ phase' = [phase EXCEPT ![j] = to]

\* A deposit of any size, zero for a job paid for elsewhere.
Hold(j) ==
  /\ Move(j, {"none"}, "held")
  /\ deposit'[j] \in Nat
  /\ deposit' = [deposit EXCEPT ![j] = deposit'[j]]
  /\ UNCHANGED <<released, returned>>

Judge(j) ==
  /\ Move(j, {"held"}, "accepted") \/ Move(j, {"held"}, "rejected")
  /\ UNCHANGED <<deposit, released, returned>>

Release(j) ==
  /\ Move(j, {"accepted"}, "released")
  /\ released' = [released EXCEPT ![j] = deposit[j]]
  /\ deposit' = [deposit EXCEPT ![j] = 0]
  /\ UNCHANGED returned

Return(j) ==
  /\ Move(j, {"held", "rejected"}, "returned")
  /\ returned' = [returned EXCEPT ![j] = deposit[j]]
  /\ deposit' = [deposit EXCEPT ![j] = 0]
  /\ UNCHANGED released

Next == \E j \in JobIds : Hold(j) \/ Judge(j) \/ Release(j) \/ Return(j)

Spec == Init /\ [][Next]_pvars

=============================================================================
