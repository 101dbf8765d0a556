------------------------------ MODULE WebPage ------------------------------
(***************************************************************************)
(* The trading page (web/src) and what feeds it.  A page is built in one    *)
(* mode: "ws" - the harness's feed; "mock" - a simulator in the page, with  *)
(* a mock wallet; "live" - the chain, with the page's own poller, result    *)
(* fetch and audit.  A step is what one callback does up to its next await. *)
(* In ws mode the harness runs beside the page; a crash of it, like a       *)
(* broken connection, only shows as a close, and the page reconnects.       *)
(*                                                                          *)
(* JobIds names the jobs in every mode.  On the chain there is one, job 1.  *)
(* A price is one unit per SCU.  Bounds: Orders, Drops, MaxCredits; one     *)
(* order, one fetch for the viewer and one audit at a time, Replies reads   *)
(* in flight per poller.                                                    *)
(***************************************************************************)
EXTENDS Harness

CONSTANTS Modes, MaxCredits, Replies

ASSUME PageAssumption == Modes \subseteq {"ws", "mock", "live"} /\ {MaxCredits, Replies} \subseteq Nat

VARIABLES
  mode,
  page,      \* the socket's side of the page: status, hello seen, subscribed, retry timer, ticker
  rows,      \* My Jobs
  orders,    \* open orders, by job; 0 stands for one that made no job
  activity,  \* the wallet's log, by job
  jobs,      \* the jobs of the simulator or of the chain, with the states each has been in
  wallet,    \* mock: credits held; live: USDC; busy: the order being placed, of what credits it saw
  poll,      \* the live job's poller
  fetches,   \* the live job's result fetches: the viewer's and the audit's
  result     \* what they left: the fields read from the chain, the result, the audit

ui   == <<page, rows, orders, activity, jobs, wallet, poll, fetches, result>>
vars == <<harness, mode, ui>>

Terminal == {"Settled", "Refunded", "Slashed", "Expired"}
NoRow == [state |-> "none", sizeScu |-> 0, price |-> 0, money |-> <<>>]
NoFetch == [step |-> "idle", blob |-> "none"]
NoResult == [output |-> "none", claimed |-> "none", verified |-> FALSE]
NoAudit == [ok |-> FALSE, checked |-> "none", against |-> "none"]

\* Without a feed to serve, it does not matter which harness there is.
PageInit ==
  /\ mode \in Modes
  /\ mode = "ws" \/ (chain = "dry-run" /\ actor.minted[1] = Min(Mint))
  /\ page = [status |-> "connecting", hello |-> FALSE, subscribed |-> FALSE, timer |-> FALSE, ticker |-> <<>>]
  /\ rows = [i \in JobIds |-> NoRow]
  /\ orders = [i \in {0} \cup JobIds |-> "none"]
  /\ activity = [i \in {0} \cup JobIds |-> [kind |-> "none", status |-> "none"]]
  /\ jobs = [i \in JobIds |-> [been |-> {}, state |-> "none", fault |-> "none", blob |-> "none"]]
  /\ wallet = [credits |-> 0, usdc |-> 0, busy |-> "none", have |-> 0]
  /\ poll = [on |-> FALSE, timedOut |-> FALSE, triggered |-> FALSE, replies |-> <<>>]
  /\ fetches = [f \in {"view", "audit"} |-> NoFetch]
  /\ result = [fields |-> "unread", shown |-> NoResult, audit |-> NoAudit]

-----------------------------------------------------------------------------
(* The socket (data/ws.ts). *)

Serving == pc \notin {"crashed"}

Rest == UNCHANGED <<jobs, wallet, poll, fetches, result>>
Log  == <<rows, orders, activity>>

\* The page's first connection, or the retry timer's.
Open ==
  /\ link = "down" /\ (page.timer \/ page.status = "connecting")
  /\ link' = "opening"
  /\ page' = [page EXCEPT !.timer = FALSE, !.status = "connecting"]
  /\ UNCHANGED <<wire, drops, Log>> /\ Rest

\* The server accepts, and sends the markets and the tickers.
Accept ==
  /\ link = "opening" /\ Serving
  /\ link' = "up" /\ OnConnection
  /\ page' = [page EXCEPT !.status = "connected"]
  /\ UNCHANGED <<drops, Log>> /\ Rest

\* Mutant: no retry is scheduled.
CloseForGood ==
  /\ link # "down" /\ Serving /\ drops < Drops /\ drops' = drops + 1
  /\ link' = "down" /\ wire' = <<>>
  /\ page' = [page EXCEPT !.status = "disconnected"]
  /\ UNCHANGED Log /\ Rest

\* Refused, broken, or closed by the server's exit: whatever was on the wire is lost.
Close ==
  /\ \/ link # "down" /\ ~Serving /\ UNCHANGED drops
     \/ link # "down" /\ Serving /\ drops < Drops /\ drops' = drops + 1
  /\ link' = "down" /\ wire' = <<>>
  /\ page' = [page EXCEPT !.status = "disconnected", !.timer = TRUE]
  /\ UNCHANGED Log /\ Rest

\* A frame's amounts replace the row's, which keeps those the frame lacks.
RowOf(prev, frame) ==
  [state |-> frame.state, sizeScu |-> frame.sizeScu, price |-> frame.price, money |-> Over(frame.money, prev.money)]

Outcome(state) == IF state = "Slashed" THEN "failed" ELSE "settled"

\* An outcome flips the entry of the order that made the job, or is an entry of its own, once.
Logged(log, id, state) ==
  IF state \notin Terminal \ {"Expired"} THEN log
  ELSE IF log[id].kind = "run" THEN [log EXCEPT ![id].status = Outcome(state)]
  ELSE IF log[id].kind = "settle" THEN log
  ELSE [log EXCEPT ![id] = [kind |-> "settle", status |-> Outcome(state)]]

\* store.tsx's subscriber to the feed.  Any state but the first fills the order, a
\* canceled one too.
OnJob(frame) ==
  /\ rows' = [rows EXCEPT ![frame.id] = RowOf(@, frame)]
  /\ orders' = [orders EXCEPT ![frame.id] = IF @ # "none" /\ frame.state # "Created" THEN "filled" ELSE @]
  /\ activity' = Logged(activity, frame.id, frame.state)

\* To the tickers, once rendered with the markets of the first hello: a ticker that was sent
\* right behind it may have come, and gone, before.
Subscribe ==
  /\ page.hello /\ ~page.subscribed
  /\ page' = [page EXCEPT !.subscribed = TRUE]
  /\ UNCHANGED <<link, wire, drops, Log>> /\ Rest

Receive ==
  /\ link = "up" /\ wire # <<>>
  /\ wire' = Tail(wire)
  /\ LET frame == Head(wire)
     IN /\ page' = [page EXCEPT !.hello = @ \/ frame.t = "hello",
                                !.ticker = IF frame.t = "ticker" /\ page.subscribed THEN frame ELSE @]
        /\ \/ frame.t = "job" /\ OnJob(frame)
           \/ frame.t # "job" /\ UNCHANGED Log
  /\ UNCHANGED <<link, drops>> /\ Rest

Alone == UNCHANGED <<mode, chain, ledger, actor, pc, order, job, ended, tally, feed>>

Connect == mode = "ws" /\ (Open \/ Accept \/ Receive \/ Subscribe) /\ Alone
Break   == mode = "ws" /\ Close /\ Alone

-----------------------------------------------------------------------------
(* The simulator (data/mock.ts) and the mock wallet (trade/mock.ts). *)

Happy == <<"Created", "Matched", "Escrowed", "Dispatched", "Executing", "Attested", "Verified", "Settled">>

Job(i, state, fault) ==
  [jobs EXCEPT ![i].state = state, ![i].been = @ \cup {state}, ![i].fault = fault]

Frame(i, state) ==
  [id |-> i, state |-> state, sizeScu |-> 1, price |-> 1,
   money |-> CASE state = "Settled"  -> [payout |-> 1]
               [] state = "Refunded" -> [refund |-> 1]
               [] state = "Slashed"  -> [slash |-> 1, refund |-> 1]
               [] OTHER -> <<>>]

Free == {i \in JobIds : jobs[i].state = "none" /\ \A j \in 1 .. i - 1 : jobs[j].state # "none"}

\* Every 4.2 s; a tenth of the jobs are made to fail each way.
SpawnJob ==
  /\ \E i \in Free, fault \in {"none", "slash", "refund"} :
       jobs' = Job(i, "Created", fault) /\ OnJob(Frame(i, "Created"))
  /\ UNCHANGED wallet

\* A refund expires on its way, a slash is verified first.
NextState(j) ==
  CASE j.state = "Expired"                            -> "Refunded"
    [] j.fault = "refund" /\ j.state = "Executing"    -> "Expired"
    [] j.fault = "slash" /\ j.state = "Verified"      -> "Slashed"
    [] OTHER -> Happy[(CHOOSE k \in DOMAIN Happy : Happy[k] = j.state) + 1]

TickJob(i) ==
  /\ jobs[i].state \notin {"none", "Settled", "Slashed", "Refunded"}
  /\ LET state == NextState(jobs[i])
     IN jobs' = Job(i, state, jobs[i].fault) /\ OnJob(Frame(i, state))
  /\ UNCHANGED wallet

\* Mutant: the balance is not looked at.
AlwaysCovers(held) == TRUE

Covers(held) == held >= 1

\* The order form is disabled while an order is placed; the funding button is not.
MockFund ==
  /\ wallet.credits + 2 <= MaxCredits /\ wallet.usdc + 2 <= MaxCredits
  /\ wallet' = [wallet EXCEPT !.usdc = @ + 2, !.credits = @ + 2]
  /\ UNCHANGED <<jobs, Log>>

\* What is held is read before the simulated delay.
MockPlace ==
  /\ wallet.busy = "none"
  /\ \E mode_ \in {"buy", "sell", "run", "buyAndRun"} :
       wallet' = [wallet EXCEPT !.busy = mode_, !.have = wallet.credits]
  /\ UNCHANGED <<jobs, Log>>

\* store.tsx submitOrder: an order and an entry for whatever was accepted.
Placed(i, kind) ==
  /\ orders' = [orders EXCEPT ![i] = "open"]
  /\ activity' = [activity EXCEPT ![i] = [kind |-> kind, status |-> "submitted"]]

Idle == [wallet EXCEPT !.busy = "none", !.have = 0]

MockRefused ==
  /\ wallet.busy # "none"
  /\ ~Covers(IF wallet.busy \in {"buy", "buyAndRun"} THEN wallet.usdc ELSE wallet.have)
  /\ wallet' = Idle /\ UNCHANGED <<jobs, Log>>

\* The credits are then set to what was read, less the order's: a funding in between is lost.
MockTrade ==
  /\ \/ /\ wallet.busy = "buy" /\ Covers(wallet.usdc)
        /\ wallet' = [Idle EXCEPT !.usdc = @ - 1, !.credits = @ + 1]
     \/ /\ wallet.busy = "sell" /\ Covers(wallet.have)
        /\ wallet' = [Idle EXCEPT !.credits = wallet.have - 1, !.usdc = @ + 1]
  /\ Placed(0, "trade") /\ UNCHANGED <<jobs, rows>>

\* Buy first, then run.
MockBought ==
  /\ wallet.busy = "buyAndRun" /\ Covers(wallet.usdc)
  /\ wallet' = [wallet EXCEPT !.usdc = @ - 1, !.credits = @ + 1, !.busy = "run", !.have = wallet.credits + 1]
  /\ UNCHANGED <<jobs, Log>>

\* A job that never fails.
InjectOrder(i) ==
  /\ jobs' = Job(i, "Created", "none")
  /\ rows' = [rows EXCEPT ![i] = RowOf(@, Frame(i, "Created"))]

MockRun ==
  /\ wallet.busy = "run" /\ Covers(wallet.have)
  /\ wallet' = [Idle EXCEPT !.credits = wallet.have - 1]
  /\ \E i \in Free : InjectOrder(i) /\ Placed(i, "run")

CancelOrder(i) ==
  /\ orders[i] = "open"
  /\ orders' = [orders EXCEPT ![i] = "canceled"]
  /\ UNCHANGED <<page, rows, activity, jobs, wallet, poll, fetches, result>>

MockNext ==
  /\ mode = "mock"
  /\ \/ SpawnJob \/ MockFund \/ MockPlace \/ MockRefused \/ MockTrade \/ MockBought \/ MockRun
     \/ \E i \in JobIds : TickJob(i)
  /\ UNCHANGED <<page, poll, fetches, result>>

-----------------------------------------------------------------------------
(* The live page: the order (trade/sui.ts), the poller, the result and the audit. *)

\* The chain: acked, judged, settled, or slashed - also for want of an answer.  The
\* attestation names the output's blob, if there is one.
LiveStep ==
  /\ \E state \in CASE jobs[1].state = "Dispatched" -> {"Executing", "Slashed"}
                    [] jobs[1].state = "Executing"  -> {"Verified", "Attested", "Slashed"}
                    [] jobs[1].state = "Attested"   -> {"Slashed"}
                    [] jobs[1].state = "Verified"   -> {"Settled"}
                    [] OTHER -> {} :
       \E blob \in IF state \in {"Verified", "Attested"} THEN {"none", "attested", "other"} ELSE {jobs[1].blob} :
         jobs' = [Job(1, state, "none") EXCEPT ![1].blob = blob]
  /\ UNCHANGED <<page, Log, wallet, poll, fetches, result>>

\* Bound: for the one order.
LiveFund ==
  /\ wallet.usdc = 0 /\ jobs[1].state = "none"
  /\ wallet' = [wallet EXCEPT !.usdc = @ + 1]
  /\ UNCHANGED <<page, Log, jobs, poll, fetches, result>>

\* Only "buy and run" reaches the chain.  An order that was executed may still be reported
\* as failed, or its job not be found among the created objects.
RunTask ==
  /\ wallet.usdc >= 1 /\ jobs[1].state = "none"
  /\ wallet' = [wallet EXCEPT !.usdc = @ - 1]
  /\ jobs' = Job(1, "Dispatched", "none")
  /\ \/ /\ rows' = [rows EXCEPT ![1] = [state |-> "Dispatched", sizeScu |-> 1, price |-> 1, money |-> <<>>]]
        /\ Placed(1, "run") /\ poll' = [poll EXCEPT !.on = TRUE]
     \/ Placed(0, "run") /\ UNCHANGED <<rows, poll>>
     \/ UNCHANGED <<Log, poll>>
  /\ UNCHANGED <<page, fetches, result>>

\* Every 3 s, whether or not earlier reads were answered.
PollTick ==
  /\ poll.on /\ Len(poll.replies) < Replies
  /\ poll' = [poll EXCEPT !.replies = Append(@, jobs[1].state)]
  /\ UNCHANGED <<page, Log, jobs, wallet, fetches, result>>

PollTimeout ==
  /\ poll.on /\ poll' = [poll EXCEPT !.on = FALSE, !.timedOut = TRUE]
  /\ UNCHANGED <<page, Log, jobs, wallet, fetches, result>>

OpenResult == IF result.shown = NoResult /\ fetches["view"].step = "idle"
              THEN fetches' = [fetches EXCEPT !["view"] = [NoFetch EXCEPT !.step = "fields"]]
              ELSE UNCHANGED fetches

\* Mutant: the poller stops once there is a result.
StopsAtResult(state) == state \in Terminal \cup {"Verified"}

StopsPolling(state) == state \in Terminal

\* An answer is applied whatever was applied before it, also once the poller has stopped;
\* the first that has a result opens the viewer.
ApplyLifecycle(state) ==
  /\ rows' = [rows EXCEPT ![1].state = state]
  /\ orders' = [orders EXCEPT ![1] = IF @ = "open" THEN "filled" ELSE @]
  /\ activity' = IF state \in Terminal THEN [activity EXCEPT ![1].status = Outcome(state)] ELSE activity
  /\ IF state \in {"Verified", "Settled"} /\ ~poll.triggered THEN OpenResult ELSE UNCHANGED fetches

PollReply ==
  /\ \E k \in DOMAIN poll.replies :
       LET state == poll.replies[k]
       IN /\ ApplyLifecycle(state)
          /\ poll' = [poll EXCEPT !.replies = RemoveAt(@, k), !.on = @ /\ ~StopsPolling(state),
                                  !.triggered = @ \/ state \in {"Verified", "Settled"}]
  /\ UNCHANGED <<page, jobs, wallet, result>>

ResultReady == rows[1].state \in {"Attested", "Verified", "Settled"}

\* The row's buttons.
View ==
  /\ ResultReady /\ result.shown = NoResult /\ fetches["view"].step = "idle" /\ OpenResult
  /\ UNCHANGED <<page, Log, jobs, wallet, poll, result>>

OpenAudit ==
  /\ ResultReady /\ fetches["audit"].step = "idle" /\ result.audit = NoAudit
  /\ fetches' = [fetches EXCEPT !["audit"].step = IF result.shown = NoResult THEN "fields" ELSE "run"]
  /\ UNCHANGED <<page, Log, jobs, wallet, poll, result>>

Fetching == UNCHANGED <<page, Log, jobs, wallet, poll>>

Goto(f, step) == fetches' = [fetches EXCEPT ![f].step = step]

\* The job's fields, kept for the audit; unreadable, they are read once more and not kept.
ReadJobFields(f) ==
  /\ fetches[f].step \in {"fields", "again"}
  /\ Fetching
  /\ \/ /\ fetches' = [fetches EXCEPT ![f] = [@ EXCEPT !.blob = jobs[1].blob,
                                               !.step = IF jobs[1].blob = "none" THEN "provider" ELSE "blob"]]
        /\ result' = [result EXCEPT !.fields = IF fetches[f].step = "fields" THEN "read" ELSE @]
     \/ /\ Goto(f, IF fetches[f].step = "fields" THEN "again" ELSE "provider")
        /\ UNCHANGED result

Done(f) == fetches' = [fetches EXCEPT ![f] = [NoFetch EXCEPT !.step = IF f = "audit" THEN "run" ELSE "idle"]]

\* A blob is judged by the hash on the chain ...
FetchFromWalrus(f) ==
  /\ fetches[f].step = "blob"
  /\ Fetching
  /\ \/ Goto(f, "provider") /\ UNCHANGED result
     \/ /\ Done(f)
        /\ LET blob == fetches[f].blob
           IN result' = [result EXCEPT !.shown = [output |-> blob, claimed |-> "attested", verified |-> blob = "attested"]]

\* ... but what the provider serves by the hash it serves with it.
FetchVerifiedResult(f) ==
  /\ fetches[f].step = "provider"
  /\ Fetching /\ Done(f)
  /\ \/ UNCHANGED result
     \/ \E output, claimed \in {"attested", "other"} :
          result' = [result EXCEPT !.shown = [output |-> output, claimed |-> claimed, verified |-> output = claimed]]

\* Mutant: the provider's hash wins.
ProvidersHash == IF result.shown # NoResult THEN result.shown.claimed ELSE "attested"

OnChainHash == IF result.fields = "read" THEN "attested" ELSE result.shown.claimed

\* The output check of runAudit; the others pass.  A blob that cannot be fetched fails.
OutputCheck ==
  IF result.fields = "read" /\ jobs[1].blob # "none"
  THEN {[ok |-> jobs[1].blob = OnChainHash, checked |-> jobs[1].blob, against |-> "chain"],
        [ok |-> FALSE, checked |-> "none", against |-> "chain"]}
  ELSE IF result.shown # NoResult
  THEN {[ok |-> result.shown.output = OnChainHash, checked |-> result.shown.output,
         against |-> IF result.fields = "read" THEN "chain" ELSE "provider"]}
  ELSE {[ok |-> TRUE, checked |-> "none", against |-> "itself"]}

RunAudit ==
  /\ fetches["audit"].step = "run"
  /\ \E audit \in OutputCheck : result' = [result EXCEPT !.audit = audit]
  /\ fetches' = [fetches EXCEPT !["audit"] = NoFetch]
  /\ Fetching

LiveNext ==
  /\ mode = "live"
  /\ \/ LiveStep \/ LiveFund \/ RunTask \/ PollTick \/ PollTimeout \/ PollReply \/ View \/ OpenAudit \/ RunAudit
     \/ \E f \in DOMAIN fetches : ReadJobFields(f) \/ FetchFromWalrus(f) \/ FetchVerifiedResult(f)

-----------------------------------------------------------------------------

Init == HarnessInit /\ PageInit

Next ==
  \/ mode = "ws" /\ HarnessNext /\ UNCHANGED <<mode, ui>>
  \/ Connect \/ Break
  \/ (MockNext \/ LiveNext \/ (mode # "ws" /\ \E i \in DOMAIN orders : CancelOrder(i))) /\ UNCHANGED <<harness, mode>>

Spec == Init /\ [][Next]_vars

\* The retry timer fires, the server accepts, the network delivers.
FairSpec == Spec /\ WF_vars(Connect)

-----------------------------------------------------------------------------
(* Properties. *)

\* Every value is of its type; in particular no balance is negative.
TypeOK ==
  /\ HarnessTypeOK
  /\ page.status \in {"connecting", "connected", "disconnected"}
  /\ \A i \in JobIds : rows[i].state \in {"none"} \cup Terminal \cup Range(Happy)
  /\ orders \in [{0} \cup JobIds -> {"none", "open", "filled", "canceled"}]
  /\ activity \in [{0} \cup JobIds -> [kind : {"none", "run", "trade", "settle"},
                                       status : {"none", "submitted", "settled", "failed"}]]
  /\ {wallet.credits, wallet.usdc} \subseteq Nat
  /\ Len(poll.replies) <= Replies

\* The ticker the feed serves is the tally the harness keeps, and a page that shows a ticker
\* and has read all it was sent shows that one; a row keeps the size and price its job was
\* made with, so that what was paid or refunded for it adds up (a chain's events carry
\* neither).
FeedMatchesTally ==
  /\ feed.usdcEscrowed = tally.usdcEscrowed
  /\ feed.usdcSettled = tally.usdcSettledPayout /\ feed.usdcSlashed = tally.usdcSlashed
  /\ link = "up" /\ wire = <<>> /\ page.ticker # <<>> => page.ticker = Ticker(feed)
  /\ mode = "ws" /\ chain = "dry-run" =>
       \A i \in JobIds :
         LET escrow == rows[i].sizeScu * rows[i].price
         IN /\ "payout" \in DOMAIN rows[i].money => rows[i].money.payout = escrow - SettleFee(escrow)
            /\ "refund" \in DOMAIN rows[i].money => rows[i].money.refund = escrow

\* Reached(i, state): did job i get there, on whatever drives it?
Reached(i, state) ==
  IF mode = "ws" THEN CASE state = "Settled" -> ended[i] = "Settled"
                        [] state \in {"Refunded", "Slashed"} -> ended[i] = "Refunded"
                        [] state = "Attested" -> ended[i] \notin {"none", "Dispatched"}
                        [] OTHER -> ended[i] # "none"
  ELSE state \in jobs[i].been

\* The page never reports what did not happen: a row's state is one its job was in, an entry
\* is settled or failed only by a job that ended so, and a poller that stopped before its
\* time has reported the end.
OutcomesAreTrue ==
  /\ \A i \in JobIds :
       /\ rows[i].state # "none" => Reached(i, rows[i].state)
       /\ activity[i].status = "failed" => Reached(i, "Slashed")
       /\ activity[i].status = "settled" => Reached(i, "Settled") \/ Reached(i, "Refunded")
  /\ ~poll.on /\ ~poll.timedOut => rows[1].state = "none" \/ mode # "live" \/ activity[1].status # "submitted"

\* An audit that passes against the chain's hash has hashed the output that was attested.
AuditIsSound == result.audit.ok /\ result.audit.against = "chain" => result.audit.checked = "attested"

\* However the connection breaks, a page that shows a ticker at all ends up with the feed's
\* totals.  (One that connects after the last event may never show any.)
PageCatchesUp == (mode = "ws" /\ pc = "done" /\ page.ticker # <<>>) ~> (page.ticker = Ticker(feed))

\* What runAudit's comment says: a value that is missing is no pass.
MissingOutputIsNoPass == result.audit.ok => result.audit.checked # "none"
=============================================================================
