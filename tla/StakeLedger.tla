---------------------------- MODULE StakeLedger ----------------------------
(***************************************************************************)
(* The value of one ProviderStake object and every operation the package    *)
(* performs on it: contracts/sources/staking.move (capacity counters and    *)
(* bond) and contracts/sources/slashing.move (how large a slash is).        *)
(*                                                                          *)
(* A stake is a record; each operator takes the record (and quantities) and *)
(* returns the new record, so that the actions of Exchange compose them in  *)
(* the order settlement.move calls them.  `locked_until` is left out: the   *)
(* only setter, set_unbonding, has no caller, so the field is always 0.     *)
(* u64 overflow aborts a Move transaction; the quantities here stay far     *)
(* below 2^64, so additions are over Nat.                                   *)
(***************************************************************************)
EXTENDS Integers

\* config.move: basis points are out of 10_000.
BPS_DENOM == 10000

\* slashing.move: the four fault classes.
Faults == {"liveness", "sla", "missing", "invalid"}

\* What a slash is computed from: the four magnitudes and the flat penalty.
SlashTerms == [bps : [Faults -> 0 .. BPS_DENOM], flat : Nat]

\* config.move init: the magnitudes the package is published with.
InitialSlash ==
  [bps  |-> [f \in Faults |-> CASE f = "liveness" -> 300
                              [] f = "sla"      -> 5000
                              [] OTHER          -> 10000],
   flat |-> 0]

Stakes(Owners) ==
  [provider : Owners, bond : Nat, capacity : Nat, minted : Nat, reserved : Nat,
   slashedTotal : Nat]

AtMost(x, limit) == IF x > limit THEN limit ELSE x

\* Mutant: the subtraction is not guarded.
PlainSub(x, y) == x - y

\* Subtraction that stops at zero, as release and consume_minted do it.
FloorSub(x, y) == IF x >= y THEN x - y ELSE 0

-----------------------------------------------------------------------------
(* Bond and capacity *)

NewStake(p, amount, cap) ==
  [provider |-> p, bond |-> amount, capacity |-> cap, minted |-> 0, reserved |-> 0,
   slashedTotal |-> 0]

AddedBond(s, amount, extra) ==
  [s EXCEPT !.bond = @ + amount, !.capacity = @ + extra]

\* Mutant: the bond may leave as soon as nothing is reserved, whatever is minted.
UncommittedIgnoresMinted(s) == s.reserved = 0

\* unstake: the bond is free only while nothing is minted and nothing reserved.
Uncommitted(s) == s.minted = 0 /\ s.reserved = 0

Withdrawn(s, amount) == [s EXCEPT !.bond = @ - amount]

\* mint_credits and post_ask share the B6 gate and the counter update.
CanMint(s, qty) == qty > 0 /\ s.minted + qty <= s.capacity
Minted(s, qty) == [s EXCEPT !.minted = @ + qty]

CanReserve(s, qty) == s.reserved + qty <= s.capacity
Reserved(s, qty) == [s EXCEPT !.reserved = @ + qty]

\* Mutant: a terminal job forgets to give its reservation back.
ReleaseNothing(s, qty) == s

Released(s, qty) == [s EXCEPT !.reserved = FloorSub(@, qty)]

\* Mutant: the burn at settlement is not matched in the stake's counter.
ConsumeNothing(s, qty) == s

ConsumedMinted(s, qty) == [s EXCEPT !.minted = FloorSub(@, qty)]

-----------------------------------------------------------------------------
(* Slashing *)

\* The slice of the bond that backs qty SCU; the whole bond when capacity is 0.
BondShare(s, qty) ==
  IF s.capacity = 0 THEN s.bond ELSE (s.bond * qty) \div s.capacity

\* The penalty a fault costs, never more than the bond that is left.
SlashAmount(terms, s, qty, fault) ==
  LET graded == (BondShare(s, qty) * terms.bps[fault]) \div BPS_DENOM
      flat   == IF fault = "invalid" THEN terms.flat ELSE 0
  IN  AtMost(graded + flat, s.bond)

\* Mutant: the penalty is counted and left in the bond.
SlashedOnPaper(s, amount) == [s EXCEPT !.slashedTotal = @ + AtMost(amount, s.bond)]

Slashed(s, amount) ==
  LET take == AtMost(amount, s.bond)
  IN  [s EXCEPT !.bond = @ - take, !.slashedTotal = @ + take]

\* A fault costs a tenth of the remaining capacity, rounded down.
Derated(s) == [s EXCEPT !.capacity = @ - (@ \div 10)]

=============================================================================
