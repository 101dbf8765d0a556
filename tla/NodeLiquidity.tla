--------------------------- MODULE NodeLiquidity ---------------------------
(***************************************************************************)
(* How a provider node keeps capacity on sale (node/src/main.ts, the calls  *)
(* it makes in chain.ts and deepbook.ts, and the discovery file it writes). *)
(* On the "ask" rail it posts shared Asks and tops the newest one up; on    *)
(* the "deepbook" rail it mints credits, deposits them into its             *)
(* BalanceManager and rests an order in the pool, three transactions that   *)
(* may each fail.  A transaction may also go through and be taken for a     *)
(* failure (waitForTransaction throws after it landed).                     *)
(*                                                                          *)
(* All amounts are SCU of this provider.  Every start registers and stakes  *)
(* anew: what a life mints is counted against the stake of that life.       *)
(*                                                                          *)
(* Bounds: MaxLives, MaxFailures and MaxPosts.                              *)
(***************************************************************************)
EXTENDS Integers, Sequences, Functions

CONSTANTS
  Environments,    \* the GIX_* variables and deployment.json a run may start with
  Capacity,        \* GIX_CAPACITY_SCU
  Qty,             \* GIX_ASK_QTY_SCU
  Threshold,       \* GIX_ASK_TOPUP_THRESHOLD_SCU, GIX_DEEPBOOK_REFRESH_THRESHOLD_SCU
  MaxLives, MaxFailures, MaxPosts

Networks == {"localnet", "testnet"}

EnvRecords ==
  [network : Networks, pool : BOOLEAN, deepbook : {"unset", "on", "off"}, chain : BOOLEAN]

ASSUME LiquidityAssumption ==
  /\ Environments \subseteq EnvRecords
  /\ Capacity \in Nat /\ Qty \in Nat \ {0} /\ Threshold \in Nat
  /\ MaxLives \in Nat \ {0} /\ MaxFailures \in Nat /\ MaxPosts \in Nat

VARIABLES
  env,        \* what loadConfig reads
  life,       \* starts of the process so far
  main,       \* where the start-up or the liquidity loop stands
  rail,       \* the rail this life set up: "ask", "deepbook" or "none"
  minted,     \* minted_scu of the stake of this life
  wallet,     \* Credit coins the node holds
  deposit,    \* credits free in the BalanceManager
  resting,    \* credits in resting DeepBook orders
  old,        \* deposit and resting of the BalanceManagers the node lost sight of
  asks,       \* remaining_scu of every Ask posted, oldest first
  current,    \* askId in memory: index into asks, 0 while unset
  passed,     \* history: the asks this life was told of and went on from
  sold,       \* credits in consumers' hands or in unfinished jobs
  file,       \* node-state.json
  unwritten,  \* history: the file could not be written when it last should have been
  failures    \* history: transactions taken for failures

vars == <<env, life, main, rail, minted, wallet, deposit, resting, old, asks, current,
          passed, sold, file, unwritten, failures>>
books == <<minted, wallet, deposit, resting, old, asks, sold>>

\* The mode and the ask a consumer reads; remaining is -1 while it is unset.
Files == [mode : {"ask", "deepbook"}, ask : 0 .. MaxPosts, remaining : Int]

\* The loops run; the process is gone, by a signal or otherwise.
Awake == main = "sleep"
Off   == main \in {"stopped", "crashed"}

TypeOK ==
  /\ env \in EnvRecords /\ life \in 1 .. MaxLives
  /\ main \in {"setup", "post", "manager", "mint", "deposit", "place", "started", "sleep",
               "idle", "stopped", "crashed"}
  /\ rail \in {"ask", "deepbook", "none"}
  /\ minted \in 0 .. Capacity
  /\ wallet \in Nat /\ deposit \in Nat /\ resting \in Nat /\ sold \in Nat
  /\ old \in [deposit : Nat, resting : Nat]
  /\ asks \in Seq(0 .. Qty) /\ Len(asks) <= MaxPosts
  /\ current \in 0 .. Len(asks) /\ passed \subseteq 1 .. Len(asks)
  /\ file \in Files /\ unwritten \in BOOLEAN /\ failures \in 0 .. MaxFailures

Init ==
  /\ env \in Environments
  /\ life = 1 /\ main = "setup" /\ rail = "none"
  /\ minted = 0 /\ wallet = 0 /\ deposit = 0 /\ resting = 0
  /\ old = [deposit |-> 0, resting |-> 0] /\ asks = <<>>
  /\ current = 0 /\ passed = {} /\ sold = 0
  /\ file = [mode |-> "ask", ask |-> 0, remaining |-> -1] /\ unwritten = FALSE
  /\ failures = 0

-----------------------------------------------------------------------------
(* config.ts *)

\* loadConfig and deepbookPoolIdOf: DeepBook needs testnet and a bound pool unless GIX_DEEPBOOK says otherwise; without a
\* pool the node falls back to its own asks.
DeepbookWanted(e) ==
  CASE e.deepbook = "on" -> TRUE
    [] e.deepbook = "off" -> FALSE
    [] OTHER -> e.network = "testnet" /\ e.pool

-----------------------------------------------------------------------------
(* Transactions *)

\* How a transaction ends that the chain would take: the node is told, it goes through
\* and is taken for a failure, or it fails.
Outcomes == {"ok"} \cup (IF failures < MaxFailures THEN {"lost", "failed"} ELSE {})
Count(outcome) == failures' = IF outcome = "ok" THEN failures ELSE failures + 1

\* Mutant: the capacity of the stake is not looked at.
MintsAnyway == TRUE

\* staking.move: the gate post_ask and mint_credits share.
Mints == minted + Qty <= Capacity

\* post_ask: Qty credits minted into a new Ask.  The bound on their number is the model's.
CanPost == Mints /\ Len(asks) < MaxPosts

PostAskTx ==
  /\ minted' = minted + Qty
  /\ asks' = Append(asks, Qty)
  /\ UNCHANGED <<wallet, deposit, resting, old, sold>>

\* Mutant: the stake does not count what is minted.
MintUncountedTx ==
  /\ wallet' = wallet + Qty
  /\ UNCHANGED <<minted, deposit, resting, old, asks, sold>>

MintTx ==
  /\ minted' = minted + Qty
  /\ wallet' = wallet + Qty
  /\ UNCHANGED <<deposit, resting, old, asks, sold>>

\* The coins are selected from all the Credit coins of the wallet.
DepositTx ==
  /\ wallet' = wallet - Qty
  /\ deposit' = deposit + Qty
  /\ UNCHANGED <<minted, resting, old, asks, sold>>

\* Mutant: the order is for less than was deposited.
PlaceLessTx ==
  /\ deposit' = deposit - (Qty - 1)
  /\ resting' = resting + Qty - 1
  /\ UNCHANGED <<minted, wallet, old, asks, sold>>

PlaceTx ==
  /\ deposit' = deposit - Qty
  /\ resting' = resting + Qty
  /\ UNCHANGED <<minted, wallet, old, asks, sold>>

-----------------------------------------------------------------------------
(* The discovery file *)

\* The write replaces the file, or fails and is logged.
Persist(ask, remaining) ==
  /\ file' = [mode |-> IF rail' = "deepbook" THEN "deepbook" ELSE "ask", ask |-> ask,
              remaining |-> remaining]
  /\ unwritten' = FALSE

PersistFails == failures < MaxFailures /\ unwritten' = TRUE /\ UNCHANGED file

\* Mutant: the file still names the ask before.
PersistBefore(ask) == Persist(current, Qty)

\* After a new ask or order.
PersistNew(ask) == Persist(ask, Qty)

-----------------------------------------------------------------------------
(* Coming up *)

\* chain.setup: register and stake.  Without it the node has no chain and no liquidity.
Setup ==
  /\ main = "setup"
  /\ minted' = 0
  /\ \/ /\ env.chain
        /\ main' = IF DeepbookWanted(env) /\ env.pool THEN "manager" ELSE "post"
        /\ UNCHANGED failures
     \/ /\ env.chain /\ failures < MaxFailures
        /\ main' = "started" /\ failures' = failures + 1
     \/ ~env.chain /\ main' = "started" /\ UNCHANGED failures
  /\ UNCHANGED <<env, life, rail, wallet, deposit, resting, old, asks, sold, current,
                 passed, file, unwritten>>

\* The first discovery file; then the loop of the rail that came up, if one did: a first
\* post that failed is not tried again in this life.
Started ==
  /\ main = "started"
  /\ main' = IF rail = "none" THEN "idle" ELSE "sleep"
  /\ UNCHANGED <<env, life, rail, books, current, passed>>
  /\ \/ Persist(current, IF rail = "none" THEN -1 ELSE Qty) /\ UNCHANGED failures
     \/ PersistFails /\ failures' = failures + 1

-----------------------------------------------------------------------------
(* Posting: in the start-up while there is no rail, later in the loops *)

\* Mutant: a loop ends with the first failure.
EndsLoop == IF rail = "none" THEN "started" ELSE "idle"

\* A failure is logged; the loop sleeps and comes again.
AfterFailure == IF rail = "none" THEN "started" ELSE "sleep"

Failed(outcome, Tx) ==
  /\ IF outcome = "lost" THEN Tx ELSE UNCHANGED books
  /\ main' = AfterFailure
  /\ failures' = failures + 1
  /\ UNCHANGED <<rail, current, passed, file, unwritten>>

\* The ask or order is known to rest: a loop writes the file at once.
Rests(newRail, ask) ==
  /\ rail' = newRail
  /\ current' = ask
  /\ passed' = IF current = 0 THEN passed ELSE passed \cup {current}
  /\ IF rail = "none"
       THEN main' = "started" /\ UNCHANGED <<file, unwritten, failures>>
       ELSE /\ main' = "sleep"
            /\ \/ PersistNew(ask) /\ UNCHANGED failures
               \/ PersistFails /\ failures' = failures + 1

Post ==
  /\ main = "post" /\ CanPost
  /\ \E outcome \in Outcomes :
       IF outcome = "ok" THEN PostAskTx /\ Rests("ask", Len(asks) + 1)
                         ELSE Failed(outcome, PostAskTx)
  /\ UNCHANGED <<env, life>>

\* The manager of an earlier life is looked up and taken again.  When the look-up fails a
\* new one is made, and the node no longer sees what lies in the earlier one; when that
\* fails too, there is no maker in this life.
EnsureManager ==
  /\ main = "manager"
  /\ \/ main' = "mint" /\ UNCHANGED <<deposit, resting, old, failures>>
     \/ /\ failures < MaxFailures /\ failures' = failures + 1
        /\ main' = "mint"
        /\ old' = [deposit |-> old.deposit + deposit, resting |-> old.resting + resting]
        /\ deposit' = 0 /\ resting' = 0
     \/ /\ failures < MaxFailures /\ failures' = failures + 1
        /\ main' = "started"
        /\ UNCHANGED <<deposit, resting, old>>
  /\ UNCHANGED <<env, life, rail, minted, wallet, asks, sold, current, passed, file,
                 unwritten>>

\* mint, deposit and place are three transactions: what went through stays.
Mint ==
  /\ main = "mint" /\ Mints
  /\ \E outcome \in Outcomes :
       IF outcome = "ok"
         THEN MintTx /\ main' = "deposit"
              /\ UNCHANGED <<rail, current, passed, file, unwritten, failures>>
         ELSE Failed(outcome, MintTx)
  /\ UNCHANGED <<env, life>>

Deposit ==
  /\ main = "deposit"
  /\ \E outcome \in Outcomes :
       IF outcome = "ok"
         THEN DepositTx /\ main' = "place"
              /\ UNCHANGED <<rail, current, passed, file, unwritten, failures>>
         ELSE Failed(outcome, DepositTx)
  /\ UNCHANGED <<env, life>>

Place ==
  /\ main = "place"
  /\ \E outcome \in Outcomes :
       IF outcome = "ok" THEN PlaceTx /\ Rests("deepbook", 0) ELSE Failed(outcome, PlaceTx)
  /\ UNCHANGED <<env, life>>

\* The capacity is used up: the transaction aborts.
NoCapacity ==
  /\ \/ main = "post" /\ ~CanPost
     \/ main = "mint" /\ ~Mints
  /\ main' = AfterFailure
  /\ UNCHANGED <<env, life, rail, books, current, passed, file, unwritten, failures>>

-----------------------------------------------------------------------------
(* The loops *)

\* Mutant: what cannot be read counts as sold out.
UnreadIsSoldOut(remaining) == {remaining, 0}

\* What a poll learns.  A read that fails is no step: the loop sleeps on.
Observed(remaining) == {remaining}

\* Both loops: enough is left and is written down, or it is time to post.
PollSees(remaining, post) ==
  \/ /\ remaining > Threshold
     /\ \/ Persist(current, remaining) /\ UNCHANGED failures
        \/ PersistFails /\ failures' = failures + 1
     /\ UNCHANGED main
  \/ /\ remaining <= Threshold
     /\ main' = post
     /\ UNCHANGED <<file, unwritten, failures>>

\* The ask that is polled is the newest the node was told of.
TopUpPoll ==
  /\ Awake /\ rail = "ask"
  /\ UNCHANGED <<env, life, rail, books, current, passed>>
  /\ \E seen \in Observed(asks[current]) : PollSees(seen, "post")

\* All open orders of the manager are polled, those of earlier lives too.
RefreshPoll ==
  /\ Awake /\ rail = "deepbook"
  /\ UNCHANGED <<env, life, rail, books, current, passed>>
  /\ \E seen \in Observed(resting) : PollSees(seen, "mint")

-----------------------------------------------------------------------------
(* The world, and going down *)

DrawAsk(i) ==
  /\ asks[i] > 0
  /\ asks' = [asks EXCEPT ![i] = @ - 1]
  /\ sold' = sold + 1
  /\ UNCHANGED <<env, life, main, rail, minted, wallet, deposit, resting, old, current,
                 passed, file, unwritten, failures>>

FillOrder ==
  /\ resting > 0
  /\ resting' = resting - 1
  /\ sold' = sold + 1
  /\ UNCHANGED <<env, life, main, rail, minted, wallet, deposit, old, asks, current, passed,
                 file, unwritten, failures>>

\* Orders of a manager out of sight can still be bought.
FillOldOrder ==
  /\ old.resting > 0
  /\ old' = [old EXCEPT !.resting = @ - 1]
  /\ sold' = sold + 1
  /\ UNCHANGED <<env, life, main, rail, minted, wallet, deposit, resting, asks, current,
                 passed, file, unwritten, failures>>

\* A job ends.  The node settles with the stake of this life, whichever life sold the
\* credits; consume_minted stops at zero.
JobEnds ==
  /\ sold > 0 /\ main \in {"sleep", "idle"} /\ env.chain
  /\ sold' = sold - 1
  /\ minted' = IF minted > 0 THEN minted - 1 ELSE 0
  /\ UNCHANGED <<env, life, main, rail, wallet, deposit, resting, old, asks, current, passed,
                 file, unwritten, failures>>

\* What the process forgets.
Forget == rail' = "none" /\ current' = 0 /\ passed' = {} /\ unwritten' = FALSE

Crash ==
  /\ life < MaxLives /\ ~Off
  /\ main' = "crashed"
  /\ Forget
  /\ UNCHANGED <<env, life, books, file, failures>>

\* SIGINT and SIGTERM: the cancellation of the orders is started and not awaited, and the
\* process exits in the same turn of the event loop, so it is never sent.
Shutdown ==
  /\ main \in {"sleep", "idle"}
  /\ main' = "stopped"
  /\ Forget
  /\ UNCHANGED <<env, life, books, file, failures>>

Restart ==
  /\ Off /\ life < MaxLives
  /\ life' = life + 1 /\ main' = "setup"
  /\ UNCHANGED <<env, rail, books, current, passed, file, unwritten, failures>>

-----------------------------------------------------------------------------
NodeStep ==
  \/ Setup \/ Started \/ Post \/ EnsureManager \/ Mint \/ Deposit \/ Place
  \/ NoCapacity \/ TopUpPoll \/ RefreshPoll

Consumers == (\E i \in DOMAIN asks : DrawAsk(i)) \/ FillOrder \/ FillOldOrder \/ JobEnds

Next == NodeStep \/ Consumers \/ Crash \/ Shutdown \/ Restart

Spec == Init /\ [][Next]_vars

\* The process runs on: every await of the start-up and of the loops comes back.
FairSpec == Spec /\ WF_vars(NodeStep)

-----------------------------------------------------------------------------
(* Properties *)

\* However often the node starts, fails half-way or is settled with another life's stake,
\* what it has on sale, unsold or unfinished is backed by the capacity its stakes were
\* given (staking.move's gate, reached through chain.ts:253-360).
PromisesWithinStakes ==
  wallet + deposit + resting + old.deposit + old.resting + SumFunction(asks) + sold
    <= Capacity * life

\* Unsold credits get stuck outside the book only by what went wrong: at most one lot for
\* each failure and each restart, besides the lot under way (main.ts:121-131, 318-332).
StrandedIsBounded ==
  LET halfway == IF main \in {"deposit", "place", "crashed"} THEN 1 ELSE 0
  IN  wallet + deposit + old.deposit <= Qty * (failures + (life - 1) + halfway)

\* An ask the node goes on from is nearly sold out: the top-up never leaves a big ask
\* behind unattended, whatever is drawn while it polls and posts (main.ts:278-303).
AbandonedAskIsSpent == \A i \in passed : asks[i] <= Threshold

\* Between two polls the discovery file names the ask the node tends and does not
\* understate what is left of it, unless it could not be written (main.ts:189-218).
DiscoveryNamesTendedAsk ==
  Awake /\ rail = "ask" /\ ~unwritten =>
    file.ask = current /\ file.remaining >= asks[current]

\* A loop that runs gets a spent offer replaced, as often as posting fails, unless the
\* capacity is used up ("so liquidity never runs dry", main.ts:305-308).
OfferIsRenewed ==
  /\ (Awake /\ rail = "ask" /\ asks[current] <= Threshold)
       ~> ((current # 0 => asks[current] > Threshold) \/ ~CanPost \/ Off)
  /\ (Awake /\ rail = "deepbook" /\ resting <= Threshold)
       ~> (resting > Threshold \/ ~Mints \/ Off)

=============================================================================
