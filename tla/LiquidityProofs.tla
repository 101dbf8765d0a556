--------------------------- MODULE LiquidityProofs ---------------------------
(***************************************************************************)
(* Theorems about the liquidity loops, for every capacity, lot, threshold,  *)
(* environment and number of restarts and failures.                         *)
(***************************************************************************)
EXTENDS NodeLiquidity, SumProofs, SequenceTheorems, TLAPS

-----------------------------------------------------------------------------
(* The inductive invariant *)

\* What the place in the program says of the rail and of the credits on their way.
Course ==
  /\ rail = "ask" <=> current # 0
  /\ main \in {"setup", "manager", "stopped", "crashed"} => rail = "none"
  /\ main \in {"mint", "deposit", "place"} => rail # "ask"
  /\ main = "deposit" => wallet >= Qty
  /\ main = "place" => deposit >= Qty
  /\ main = "post" /\ current # 0 => asks[current] <= Threshold

\* The file stays right while the loop posts.
FileNamesAsk ==
  main \in {"sleep", "post"} /\ rail = "ask" /\ ~unwritten =>
    file.ask = current /\ file.remaining >= asks[current]

\* Everything a life or an earlier one put on sale and is not through with.
OnSale == wallet + deposit + resting + old.deposit + old.resting + SumFunction(asks) + sold

\* What counts against the stake of this life: its Setup counts from zero.
Counted == IF main = "setup" THEN 0 ELSE minted

\* Every earlier life could use its whole capacity, this one what is counted.
Backed == OnSale <= Capacity * (life - 1) + Counted

LiquidityInv ==
  /\ TypeOK /\ Course /\ AbandonedAskIsSpent /\ StrandedIsBounded /\ FileNamesAsk /\ Backed

-----------------------------------------------------------------------------
(* The operators the steps are built from *)

(* Selling one SCU of an ask leaves a shorter ask and the others alone (ask.move draw). *)
LEMMA DrawnAsks ==
  ASSUME NEW n \in Nat, NEW s \in Seq(0 .. n), NEW i \in DOMAIN s, s[i] > 0
  PROVE  LET t == [s EXCEPT ![i] = @ - 1]
         IN t \in Seq(0 .. n) /\ Len(t) = Len(s) /\ \A k \in 1 .. Len(s) : t[k] \in 0 .. s[k]
OBVIOUS

(* A new ask comes after those there are (post_ask). *)
LEMMA PostedAsks ==
  ASSUME NEW n \in Nat, NEW s \in Seq(0 .. n)
  PROVE  /\ Append(s, n) \in Seq(0 .. n) /\ Len(Append(s, n)) = Len(s) + 1
         /\ \A k \in 1 .. Len(s) : Append(s, n)[k] = s[k]
         /\ Append(s, n)[Len(s) + 1] = n
OBVIOUS

(* What is left of an ask is a natural number. *)
LEMMA AskIsNat ==
  ASSUME NEW n \in Nat, NEW s \in Seq(0 .. n), NEW i \in 1 .. Len(s)
  PROVE  s[i] \in Nat
OBVIOUS

(* Each transaction, when its guard holds, keeps the books well typed. *)
LEMMA TransactionType ==
  ASSUME TypeOK
  PROVE  /\ CanPost /\ PostAskTx => minted' \in 0 .. Capacity /\ asks' \in Seq(0 .. Qty) /\ Len(asks') <= MaxPosts
         /\ Mints /\ MintTx => minted' \in 0 .. Capacity /\ wallet' \in Nat
         /\ wallet >= Qty /\ DepositTx => wallet' \in Nat /\ deposit' \in Nat
         /\ deposit >= Qty /\ PlaceTx => deposit' \in Nat /\ resting' \in Nat
<1> USE LiquidityAssumption DEF TypeOK
<1>1. ASSUME CanPost, PostAskTx
      PROVE  minted' \in 0 .. Capacity /\ asks' \in Seq(0 .. Qty) /\ Len(asks') <= MaxPosts
  <2>1. asks' \in Seq(0 .. Qty) /\ Len(asks') = Len(asks) + 1
    BY <1>1, PostedAsks DEF PostAskTx
  <2>2. Len(asks) \in Nat /\ Len(asks) < MaxPosts
    BY <1>1 DEF CanPost
  <2>3. minted' \in 0 .. Capacity
    BY <1>1 DEF PostAskTx, CanPost, Mints
  <2> QED
    BY <2>1, <2>2, <2>3
<1>2. Mints /\ MintTx => minted' \in 0 .. Capacity /\ wallet' \in Nat
  BY DEF Mints, MintTx
<1>3. wallet >= Qty /\ DepositTx => wallet' \in Nat /\ deposit' \in Nat
  BY DEF DepositTx
<1>4. deposit >= Qty /\ PlaceTx => deposit' \in Nat /\ resting' \in Nat
  BY DEF PlaceTx
<1> QED
  BY <1>1, <1>2, <1>3, <1>4

-----------------------------------------------------------------------------
(* The inductive invariant holds at first *)

(* A node that has not started satisfies the invariant. *)
LEMMA InitInv == Init => LiquidityInv
<1> SUFFICES ASSUME Init PROVE LiquidityInv
  OBVIOUS
<1>1. TypeOK
  <2>1. file \in Files
    BY LiquidityAssumption DEF Init, Files
  <2>2. asks \in Seq(0 .. Qty) /\ Len(asks) = 0
    BY DEF Init
  <2>3. env \in EnvRecords /\ old \in [deposit : Nat, resting : Nat]
    BY LiquidityAssumption DEF Init
  <2>4. life \in 1 .. MaxLives /\ minted \in 0 .. Capacity /\ failures \in 0 .. MaxFailures
    BY LiquidityAssumption DEF Init
  <2>5. current \in 0 .. Len(asks) /\ passed \subseteq 1 .. Len(asks) /\ Len(asks) <= MaxPosts
    BY <2>2, LiquidityAssumption DEF Init
  <2> QED
    BY <2>1, <2>2, <2>3, <2>4, <2>5 DEF Init, TypeOK
<1>2. Course /\ AbandonedAskIsSpent /\ FileNamesAsk
  BY DEF Init, Course, AbandonedAskIsSpent, FileNamesAsk
<1>3. StrandedIsBounded
  BY LiquidityAssumption DEF Init, StrandedIsBounded
<1>4. Backed
  <2>1. SumFunction(asks) = 0
    <3>1. <<>> \in Seq(Nat) /\ 0 \in Nat
      OBVIOUS
    <3>2. SumFunction(<<>>) = 0
      BY <3>1, SumAppend
    <3> QED
      BY <3>2 DEF Init
  <2> QED
    BY <2>1, LiquidityAssumption DEF Init, Backed, OnSale, Counted
<1> QED
  BY <1>1, <1>2, <1>3, <1>4 DEF LiquidityInv

(* Writing the discovery file, or failing to, keeps it well typed (state.ts). *)
LEMMA PersistType ==
  ASSUME TypeOK, NEW ask \in 0 .. MaxPosts, NEW remaining \in Int
  PROVE  /\ Persist(ask, remaining) => file' \in Files /\ unwritten' \in BOOLEAN
         /\ PersistFails /\ failures' = failures + 1 =>
              file' \in Files /\ unwritten' \in BOOLEAN /\ failures' \in 0 .. MaxFailures
<1> USE LiquidityAssumption
<1>1. ASSUME Persist(ask, remaining) PROVE file' \in Files /\ unwritten' \in BOOLEAN
  <2>1. (IF rail' = "deepbook" THEN "deepbook" ELSE "ask") \in {"ask", "deepbook"}
    OBVIOUS
  <2> QED
    BY <1>1, <2>1 DEF Persist, Files
<1>2. ASSUME PersistFails, failures' = failures + 1
      PROVE  file' \in Files /\ unwritten' \in BOOLEAN /\ failures' \in 0 .. MaxFailures
  BY <1>2 DEF TypeOK, PersistFails
<1> QED
  BY <1>1, <1>2

(* A transaction that ends badly, or whose end is not reported, keeps the types. *)
LEMMA FailedType ==
  ASSUME TypeOK, Course, NEW outcome \in Outcomes, outcome # "ok", NEW Tx, Failed(outcome, Tx)
  PROVE  /\ failures' \in 0 .. MaxFailures /\ main' \in {"started", "sleep"}
         /\ Tx \/ UNCHANGED books
         /\ UNCHANGED <<rail, current, passed, file, unwritten>>
BY LiquidityAssumption DEF TypeOK, Failed, Outcomes, AfterFailure

(* Going on from one ask or order to the next keeps the types. *)
LEMMA RestsType ==
  ASSUME TypeOK, Course, NEW newRail \in {"ask", "deepbook"}, NEW ask \in 0 .. MaxPosts, Rests(newRail, ask)
  PROVE  /\ rail' \in {"ask", "deepbook"} /\ current' = ask /\ main' \in {"started", "sleep"}
         /\ passed' \subseteq 1 .. Len(asks)
         /\ file' \in Files /\ unwritten' \in BOOLEAN /\ failures' \in 0 .. MaxFailures
<1> USE LiquidityAssumption DEF TypeOK
<1>1. rail' = newRail /\ current' = ask /\ main' \in {"started", "sleep"}
  BY DEF Rests
<1>2. passed' \subseteq 1 .. Len(asks)
  BY DEF Rests
<1>3. file' \in Files /\ unwritten' \in BOOLEAN /\ failures' \in 0 .. MaxFailures
  BY PersistType DEF Rests, PersistNew
<1> QED
  BY <1>1, <1>2, <1>3

(* What a poll finds, and writes down, keeps the types. *)
LEMMA PollType ==
  ASSUME TypeOK, NEW remaining \in Int, NEW post \in {"post", "mint"}, PollSees(remaining, post)
  PROVE  /\ main' \in {main, post}
         /\ file' \in Files /\ unwritten' \in BOOLEAN /\ failures' \in 0 .. MaxFailures
<1> USE LiquidityAssumption DEF TypeOK
<1>1. current \in 0 .. MaxPosts
  OBVIOUS
<1> QED
  BY <1>1, PersistType DEF PollSees

(* The posts and transactions of the node keep the types. *)
LEMMA PostingType ==
  ASSUME TypeOK, Course, Post \/ Mint \/ Deposit \/ Place \/ NoCapacity
  PROVE  TypeOK'
<1> USE LiquidityAssumption
<1>1. CASE Post
  <2>1. PICK outcome \in Outcomes :
          IF outcome = "ok" THEN PostAskTx /\ Rests("ask", Len(asks) + 1) ELSE Failed(outcome, PostAskTx)
    BY <1>1 DEF Post
  <2>2. CanPost /\ UNCHANGED <<env, life>>
    BY <1>1 DEF Post
  <2>3. CASE outcome = "ok"
    <3>1. Len(asks) + 1 \in 0 .. MaxPosts /\ Len(asks) + 1 # 0
      BY <2>2 DEF TypeOK, CanPost
    <3>2. Len(asks') = Len(asks) + 1 /\ UNCHANGED <<wallet, deposit, resting, old, sold>>
      BY <2>1, <2>3, PostedAsks DEF TypeOK, PostAskTx
    <3>3. minted' \in 0 .. Capacity /\ asks' \in Seq(0 .. Qty) /\ Len(asks') <= MaxPosts
      BY <2>1, <2>2, <2>3, TransactionType
    <3>4. /\ rail' \in {"ask", "deepbook"} /\ current' = Len(asks) + 1 /\ main' \in {"started", "sleep"}
          /\ passed' \subseteq 1 .. Len(asks)
          /\ file' \in Files /\ unwritten' \in BOOLEAN /\ failures' \in 0 .. MaxFailures
      BY <2>1, <2>3, <3>1, RestsType
    <3> QED
      BY <2>2, <3>1, <3>2, <3>3, <3>4 DEF TypeOK
  <2>4. CASE outcome # "ok"
    <3>1. /\ failures' \in 0 .. MaxFailures /\ main' \in {"started", "sleep"}
          /\ (PostAskTx \/ UNCHANGED books) /\ UNCHANGED <<rail, current, passed, file, unwritten>>
      BY <2>1, <2>4, FailedType
    <3>2. CASE PostAskTx
      <4>1. Len(asks') = Len(asks) + 1
        BY <3>2, PostedAsks DEF TypeOK, PostAskTx
      <4> QED
        BY <2>2, <3>1, <3>2, <4>1, TransactionType DEF TypeOK, PostAskTx
    <3>3. CASE UNCHANGED books
      BY <2>2, <3>1, <3>3 DEF TypeOK, books
    <3> QED
      BY <3>1, <3>2, <3>3
  <2> QED
    BY <2>3, <2>4
<1>2. CASE Mint
  <2>1. Mints /\ UNCHANGED <<env, life>>
    BY <1>2 DEF Mint
  <2>2. CASE MintTx /\ main' = "deposit" /\ UNCHANGED <<rail, current, passed, file, unwritten, failures>>
    BY <2>1, <2>2, TransactionType DEF TypeOK, MintTx
  <2>3. ASSUME NEW outcome \in Outcomes, outcome # "ok", Failed(outcome, MintTx)
        PROVE  TypeOK'
    <3>1. /\ failures' \in 0 .. MaxFailures /\ main' \in {"started", "sleep"}
          /\ (MintTx \/ UNCHANGED books) /\ UNCHANGED <<rail, current, passed, file, unwritten>>
      BY <2>3, FailedType
    <3> QED
      BY <2>1, <3>1, TransactionType DEF TypeOK, MintTx, books
  <2> QED
    BY <1>2, <2>2, <2>3 DEF Mint
<1>3. CASE Deposit
  <2>1. wallet >= Qty /\ UNCHANGED <<env, life>>
    BY <1>3 DEF Deposit, Course
  <2>2. CASE DepositTx /\ main' = "place" /\ UNCHANGED <<rail, current, passed, file, unwritten, failures>>
    BY <2>1, <2>2, TransactionType DEF TypeOK, DepositTx
  <2>3. ASSUME NEW outcome \in Outcomes, outcome # "ok", Failed(outcome, DepositTx)
        PROVE  TypeOK'
    <3>1. /\ failures' \in 0 .. MaxFailures /\ main' \in {"started", "sleep"}
          /\ (DepositTx \/ UNCHANGED books) /\ UNCHANGED <<rail, current, passed, file, unwritten>>
      BY <2>3, FailedType
    <3> QED
      BY <2>1, <3>1, TransactionType DEF TypeOK, DepositTx, books
  <2> QED
    BY <1>3, <2>2, <2>3 DEF Deposit
<1>4. CASE Place
  <2>1. deposit >= Qty /\ UNCHANGED <<env, life>>
    BY <1>4 DEF Place, Course
  <2>2. CASE PlaceTx /\ Rests("deepbook", 0)
    BY <2>1, <2>2, TransactionType, RestsType DEF TypeOK, PlaceTx
  <2>3. ASSUME NEW outcome \in Outcomes, outcome # "ok", Failed(outcome, PlaceTx)
        PROVE  TypeOK'
    <3>1. /\ failures' \in 0 .. MaxFailures /\ main' \in {"started", "sleep"}
          /\ (PlaceTx \/ UNCHANGED books) /\ UNCHANGED <<rail, current, passed, file, unwritten>>
      BY <2>3, FailedType
    <3> QED
      BY <2>1, <3>1, TransactionType DEF TypeOK, PlaceTx, books
  <2> QED
    BY <1>4, <2>2, <2>3 DEF Place
<1>5. CASE NoCapacity
  BY <1>5 DEF TypeOK, NoCapacity, AfterFailure, books
<1> QED
  BY <1>1, <1>2, <1>3, <1>4, <1>5

(* The start-up, the polls, the buyers and the ends of the process keep the types. *)
LEMMA OtherType ==
  ASSUME TypeOK, Course,
         Setup \/ Started \/ EnsureManager \/ TopUpPoll \/ RefreshPoll \/ Consumers \/ Crash \/ Shutdown \/ Restart
  PROVE  TypeOK'
<1> USE LiquidityAssumption
<1>1. CASE Setup
  BY <1>1 DEF TypeOK, Setup
<1>2. CASE Started
  <2>1. current \in 0 .. MaxPosts /\ -1 \in Int /\ Qty \in Int
    BY DEF TypeOK
  <2>2. file' \in Files /\ unwritten' \in BOOLEAN /\ failures' \in 0 .. MaxFailures
    BY <1>2, <2>1, PersistType DEF Started, TypeOK
  <2> QED
    BY <1>2, <2>2 DEF TypeOK, Started, books
<1>3. CASE EnsureManager
  <2>1. /\ deposit' \in Nat /\ resting' \in Nat /\ failures' \in 0 .. MaxFailures
        /\ old' \in [deposit : Nat, resting : Nat] /\ main' \in {"mint", "started"}
    <3>1. [deposit |-> old.deposit + deposit, resting |-> old.resting + resting] \in [deposit : Nat, resting : Nat]
      BY DEF TypeOK
    <3>2. /\ deposit \in Nat /\ resting \in Nat /\ failures \in 0 .. MaxFailures
          /\ old \in [deposit : Nat, resting : Nat]
      BY DEF TypeOK
    <3> QED
      BY <1>3, <3>1, <3>2 DEF EnsureManager
  <2> QED
    BY <1>3, <2>1 DEF TypeOK, EnsureManager
<1>4. CASE TopUpPoll
  <2>1. asks[current] \in Int
    BY <1>4 DEF TypeOK, Course, TopUpPoll
  <2>2. PollSees(asks[current], "post")
    BY <1>4 DEF TopUpPoll, Observed
  <2>3. /\ main' \in {main, "post"}
        /\ file' \in Files /\ unwritten' \in BOOLEAN /\ failures' \in 0 .. MaxFailures
    BY <2>1, <2>2, PollType
  <2> QED
    BY <1>4, <2>3 DEF TypeOK, TopUpPoll, books
<1>5. CASE RefreshPoll
  <2>1. PollSees(resting, "mint") /\ resting \in Int
    BY <1>5 DEF RefreshPoll, Observed, TypeOK
  <2>2. /\ main' \in {main, "mint"}
        /\ file' \in Files /\ unwritten' \in BOOLEAN /\ failures' \in 0 .. MaxFailures
    BY <2>1, PollType
  <2> QED
    BY <1>5, <2>2 DEF TypeOK, RefreshPoll, books
<1>6. ASSUME NEW i \in DOMAIN asks, DrawAsk(i) PROVE TypeOK'
  <2>1. asks' \in Seq(0 .. Qty) /\ Len(asks') = Len(asks)
    BY <1>6, DrawnAsks DEF TypeOK, DrawAsk
  <2>2. sold' \in Nat
    <3>1. sold \in Nat
      BY DEF TypeOK
    <3> QED
      BY <1>6, <3>1 DEF DrawAsk
  <2>3. UNCHANGED <<env, life, main, rail, minted, wallet, deposit, resting, old, current, passed, file,
                    unwritten, failures>>
    BY <1>6 DEF DrawAsk
  <2> QED
    BY <2>1, <2>2, <2>3 DEF TypeOK
<1>7. CASE FillOrder
  BY <1>7 DEF TypeOK, FillOrder
<1>8. CASE FillOldOrder
  <2>1. old' \in [deposit : Nat, resting : Nat] /\ sold' \in Nat
    <3>1. old \in [deposit : Nat, resting : Nat] /\ sold \in Nat
      BY DEF TypeOK
    <3> QED
      BY <1>8, <3>1 DEF FillOldOrder
  <2> QED
    BY <1>8, <2>1 DEF TypeOK, FillOldOrder
<1>9. CASE JobEnds
  <2>1. minted' \in 0 .. Capacity /\ sold' \in Nat
    BY <1>9 DEF TypeOK, JobEnds
  <2> QED
    BY <1>9, <2>1 DEF TypeOK, JobEnds
<1>10. CASE Crash
  <2>1. rail' = "none" /\ current' = 0 /\ passed' = {} /\ unwritten' = FALSE /\ main' = "crashed"
    BY <1>10 DEF Crash, Forget
  <2>2. UNCHANGED <<env, life, books, file, failures>>
    BY <1>10 DEF Crash
  <2>3. current' \in 0 .. Len(asks') /\ passed' \subseteq 1 .. Len(asks')
    <3>1. Len(asks) \in Nat /\ asks' = asks
      BY <2>2 DEF TypeOK, books
    <3> QED
      BY <2>1, <3>1
  <2> QED
    BY <2>1, <2>2, <2>3 DEF TypeOK, books
<1>11. CASE Shutdown
  <2>1. rail' = "none" /\ current' = 0 /\ passed' = {} /\ unwritten' = FALSE /\ main' = "stopped"
    BY <1>11 DEF Shutdown, Forget
  <2>2. UNCHANGED <<env, life, books, file, failures>>
    BY <1>11 DEF Shutdown
  <2>3. current' \in 0 .. Len(asks') /\ passed' \subseteq 1 .. Len(asks')
    <3>1. Len(asks) \in Nat /\ asks' = asks
      BY <2>2 DEF TypeOK, books
    <3> QED
      BY <2>1, <3>1
  <2> QED
    BY <2>1, <2>2, <2>3 DEF TypeOK, books
<1>12. CASE Restart
  <2>1. life' \in 1 .. MaxLives
    BY <1>12 DEF TypeOK, Restart
  <2> QED
    BY <1>12, <2>1 DEF TypeOK, Restart, books
<1> QED
  BY <1>1, <1>2, <1>3, <1>4, <1>5, <1>6, <1>7, <1>8, <1>9, <1>10, <1>11, <1>12 DEF Consumers

-----------------------------------------------------------------------------
(* The course of the program, and the asks it leaves behind *)

(* The asks change only by a post and by a draw: none ever gets longer (ask.move). *)
LEMMA AsksShrink ==
  ASSUME TypeOK, Course, [Next]_vars
  PROVE  /\ Len(asks') \in Nat /\ Len(asks) \in Nat /\ Len(asks) <= Len(asks')
         /\ \A k \in 1 .. Len(asks) : asks'[k] <= asks[k]
<1>1. asks' = asks \/ PostAskTx \/ \E i \in DOMAIN asks : DrawAsk(i)
  <2>1. Post => asks' = asks \/ PostAskTx
    BY DEF Post, Failed, books
  <2>2. Mint \/ Deposit \/ Place => asks' = asks
    BY DEF Mint, Deposit, Place, Failed, MintTx, DepositTx, PlaceTx, books
  <2>3. Setup \/ Started \/ EnsureManager \/ NoCapacity \/ TopUpPoll \/ RefreshPoll => asks' = asks
    BY DEF Setup, Started, EnsureManager, NoCapacity, TopUpPoll, RefreshPoll, books
  <2>4. FillOrder \/ FillOldOrder \/ JobEnds \/ Crash \/ Shutdown \/ Restart \/ UNCHANGED vars => asks' = asks
    BY DEF FillOrder, FillOldOrder, JobEnds, Crash, Shutdown, Restart, vars, books
  <2> QED
    BY <2>1, <2>2, <2>3, <2>4 DEF Next, NodeStep, Consumers
<1>2. asks \in Seq(0 .. Qty) /\ Qty \in Nat
  BY LiquidityAssumption DEF TypeOK
<1>3. CASE asks' = asks
  BY <1>2, <1>3
<1>4. CASE PostAskTx
  BY <1>2, <1>4, PostedAsks DEF PostAskTx
<1>5. ASSUME NEW i \in DOMAIN asks, DrawAsk(i)
      PROVE  Len(asks') = Len(asks) /\ \A k \in 1 .. Len(asks) : asks'[k] <= asks[k]
  BY <1>2, <1>5, DrawnAsks DEF DrawAsk
<1> QED
  BY <1>1, <1>2, <1>3, <1>4, <1>5

(* A transaction that ends badly takes a loop back to sleep, and the start-up on. *)
LEMMA FailedCourse ==
  ASSUME Course, NEW outcome \in Outcomes, NEW Tx, Failed(outcome, Tx),
         main \in {"post", "mint", "deposit", "place"}
  PROVE  Course'
BY DEF Course, Failed, AfterFailure

(* The rail, the ask in memory and the credits on their way agree with the place in the program. *)
LEMMA CourseStep == TypeOK /\ Course /\ [Next]_vars => Course'
<1> SUFFICES ASSUME TypeOK, Course, [Next]_vars PROVE Course'
  OBVIOUS
<1>1. CASE Setup \/ Started \/ EnsureManager \/ NoCapacity
  BY <1>1 DEF Course, Setup, Started, EnsureManager, NoCapacity, AfterFailure, books
<1>2. CASE Post
  <2>1. PICK outcome \in Outcomes :
          IF outcome = "ok" THEN PostAskTx /\ Rests("ask", Len(asks) + 1) ELSE Failed(outcome, PostAskTx)
    BY <1>2 DEF Post
  <2>2. main = "post"
    BY <1>2 DEF Post
  <2>3. CASE outcome = "ok"
    <3>1. Len(asks) + 1 # 0
      BY DEF TypeOK
    <3>2. rail' = "ask" /\ current' = Len(asks) + 1 /\ main' \in {"started", "sleep"}
      BY <2>1, <2>3 DEF Rests
    <3> QED
      BY <3>1, <3>2 DEF Course
  <2> QED
    BY <2>1, <2>2, <2>3, FailedCourse
<1>3. CASE Mint
  <2>1. main = "mint" /\ wallet \in Nat /\ Qty \in Nat
    BY <1>3, LiquidityAssumption DEF Mint, TypeOK
  <2>2. CASE MintTx /\ main' = "deposit" /\ UNCHANGED <<rail, current, passed, file, unwritten, failures>>
    BY <2>1, <2>2 DEF Course, MintTx
  <2> QED
    BY <1>3, <2>1, <2>2, FailedCourse DEF Mint
<1>4. CASE Deposit
  <2>1. main = "deposit" /\ deposit \in Nat /\ Qty \in Nat
    BY <1>4, LiquidityAssumption DEF Deposit, TypeOK
  <2>2. CASE DepositTx /\ main' = "place" /\ UNCHANGED <<rail, current, passed, file, unwritten, failures>>
    BY <2>1, <2>2 DEF Course, DepositTx
  <2> QED
    BY <1>4, <2>1, <2>2, FailedCourse DEF Deposit
<1>5. CASE Place
  <2>1. main = "place"
    BY <1>5 DEF Place
  <2>2. CASE PlaceTx /\ Rests("deepbook", 0)
    BY <2>2 DEF Course, Rests
  <2> QED
    BY <1>5, <2>1, <2>2, FailedCourse DEF Place
<1>6. CASE TopUpPoll
  BY <1>6 DEF Course, TopUpPoll, Awake, Observed, PollSees, books
<1>7. CASE RefreshPoll
  BY <1>7 DEF Course, RefreshPoll, Awake, Observed, PollSees, books
<1>8. CASE Consumers
  <2>1. UNCHANGED <<main, rail, current, wallet>>
    BY <1>8 DEF Consumers, DrawAsk, FillOrder, FillOldOrder, JobEnds
  <2>2. UNCHANGED deposit
    BY <1>8 DEF Consumers, DrawAsk, FillOrder, FillOldOrder, JobEnds
  <2>3. current # 0 => asks'[current] <= asks[current] /\ asks'[current] \in Int /\ asks[current] \in Int
    <3>1. TypeOK'
      BY <1>8, OtherType
    <3>2. Len(asks') >= Len(asks) /\ current \in 0 .. Len(asks)
      BY AsksShrink DEF TypeOK
    <3>3. asks \in Seq(0 .. Qty) /\ asks' \in Seq(0 .. Qty) /\ Qty \in Nat
      BY <3>1, LiquidityAssumption DEF TypeOK
    <3>4. current # 0 => current \in 1 .. Len(asks) /\ current \in 1 .. Len(asks')
      BY <3>2, AsksShrink
    <3>5. current # 0 => asks[current] \in Int /\ asks'[current] \in Int
      BY <3>3, <3>4, AskIsNat
    <3> QED
      BY <3>4, <3>5, AsksShrink
  <2> QED
    BY <2>1, <2>2, <2>3, LiquidityAssumption DEF Course
<1>9. CASE Crash \/ Shutdown \/ Restart
  BY <1>9 DEF Course, Crash, Shutdown, Restart, Forget, Off
<1>10. CASE UNCHANGED vars
  BY <1>10 DEF Course, vars
<1> QED
  BY <1>1, <1>2, <1>3, <1>4, <1>5, <1>6, <1>7, <1>8, <1>9, <1>10 DEF Next, NodeStep

(* The node goes on from an ask only when it posts, and it posts when little is left. *)
LEMMA PassedStep ==
  ASSUME TypeOK, Course, [Next]_vars
  PROVE  \A i \in passed' : i \in passed \/ (i = current /\ i \in 1 .. Len(asks) /\ asks[i] <= Threshold)
<1>1. CASE Post
  <2>1. passed' = passed \/ (current # 0 /\ passed' = passed \cup {current})
    BY <1>1 DEF Post, Failed, Rests
  <2>2. current # 0 => current \in 1 .. Len(asks) /\ asks[current] <= Threshold
    BY <1>1 DEF Post, Course, TypeOK
  <2> QED
    BY <2>1, <2>2
<1>2. CASE Place
  <2>1. current = 0
    BY <1>2 DEF Place, Course
  <2> QED
    BY <1>2, <2>1 DEF Place, Failed, Rests
<1>3. CASE Mint \/ Deposit
  BY <1>3 DEF Mint, Deposit, Failed
<1>4. CASE Setup \/ Started \/ EnsureManager \/ NoCapacity \/ TopUpPoll \/ RefreshPoll
  BY <1>4 DEF Setup, Started, EnsureManager, NoCapacity, TopUpPoll, RefreshPoll
<1>5. CASE Consumers
  BY <1>5 DEF Consumers, DrawAsk, FillOrder, FillOldOrder, JobEnds
<1>6. CASE Crash \/ Shutdown
  BY <1>6 DEF Crash, Shutdown, Forget
<1>7. CASE Restart \/ UNCHANGED vars
  BY <1>7 DEF Restart, vars
<1> QED
  BY <1>1, <1>2, <1>3, <1>4, <1>5, <1>6, <1>7 DEF Next, NodeStep

(* What was left behind stays left: asks do not grow. *)
LEMMA SpentStep ==
  ASSUME TypeOK, Course, [Next]_vars, AbandonedAskIsSpent, TypeOK'
  PROVE  AbandonedAskIsSpent'
<1> SUFFICES ASSUME NEW i \in passed' PROVE asks'[i] <= Threshold
  BY DEF AbandonedAskIsSpent
<1>1. i \in 1 .. Len(asks) /\ asks[i] <= Threshold
  BY PassedStep DEF AbandonedAskIsSpent, TypeOK
<1>2. asks'[i] <= asks[i] /\ i \in 1 .. Len(asks')
  BY <1>1, AsksShrink
<1>3. asks \in Seq(0 .. Qty) /\ asks' \in Seq(0 .. Qty) /\ Qty \in Nat
  BY LiquidityAssumption DEF TypeOK
<1>4. asks[i] \in Int /\ asks'[i] \in Int
  BY <1>1, <1>2, <1>3, AskIsNat
<1> QED
  BY <1>1, <1>2, <1>4, LiquidityAssumption

-----------------------------------------------------------------------------
(* Credits off the book *)

Stranded == wallet + deposit + old.deposit
Halfway == IF main \in {"deposit", "place", "crashed"} THEN 1 ELSE 0
Slack == failures + (life - 1) + Halfway

(* A sum of naturals, one of them not zero, less one is a natural. *)
LEMMA SlackIsNat ==
  ASSUME NEW f \in Nat, NEW l \in Nat, l >= 1, NEW h \in Nat
  PROVE  f + (l - 1) + h \in Nat
<1>1. l - 1 \in Nat
  OBVIOUS
<1> QED
  BY <1>1

(* One lot more for each unit of slack more. *)
LEMMA LotsBound ==
  ASSUME NEW q \in Nat, NEW k \in Nat, NEW k2 \in Nat, NEW s \in Int, NEW s2 \in Int, s <= q * k,
         \/ s2 <= s /\ k2 >= k
         \/ s2 <= s + q /\ k2 >= k + 1
         \/ s2 <= s - q /\ k2 >= k - 1
  PROVE  s2 <= q * k2
<1>1. q * (k + 1) = q * k + q /\ q * (k - 1) = q * k - q
  OBVIOUS
<1>2. ASSUME NEW a \in Int, NEW b \in Int, a <= b
      PROVE  q * a <= q * b
  <2>1. b - a \in Nat /\ q * (b - a) >= 0
    BY <1>2
  <2>2. q * b = q * a + q * (b - a)
    OBVIOUS
  <2> QED
    BY <2>1, <2>2
<1>3. q * k \in Int /\ q * k2 \in Int
  OBVIOUS
<1>4. CASE s2 <= s /\ k2 >= k
  BY <1>2, <1>3, <1>4
<1>5. CASE s2 <= s + q /\ k2 >= k + 1
  <2>1. q * (k + 1) <= q * k2
    BY <1>2, <1>5
  <2> QED
    BY <1>1, <1>3, <1>5, <2>1
<1>6. CASE s2 <= s - q /\ k2 >= k - 1
  <2>1. q * (k - 1) <= q * k2
    BY <1>2, <1>6
  <2> QED
    BY <1>1, <1>3, <1>6, <2>1
<1> QED
  BY <1>4, <1>5, <1>6

\* How a step may move the two sides.
Balanced ==
  \/ Stranded' <= Stranded /\ Slack' >= Slack
  \/ Stranded' <= Stranded + Qty /\ Slack' >= Slack + 1
  \/ Stranded' <= Stranded - Qty /\ Slack' >= Slack - 1

(* A lot leaves the book's sight only with a failure, a restart or on its way to the next call. *)
LEMMA StrandedMoves ==
  ASSUME TypeOK, Course, [Next]_vars
  PROVE  Balanced
<1> DEFINE Typed == /\ wallet \in Nat /\ deposit \in Nat /\ resting \in Nat /\ Qty \in Nat
                    /\ old \in [deposit : Nat, resting : Nat] /\ failures \in Nat /\ life \in Nat
<1>0. Typed
  BY LiquidityAssumption DEF TypeOK
<1>1. CASE Post
  <2>1. UNCHANGED <<wallet, deposit, old, life>> /\ main = "post"
    BY <1>1 DEF Post, Failed, PostAskTx, books
  <2>2. main' \in {"started", "sleep"}
    BY <1>1 DEF Post, Failed, Rests, AfterFailure
  <2>3. failures' = failures \/ failures' = failures + 1
    BY <1>1 DEF Post, Failed, Rests, PersistFails
  <2>4. Stranded' <= Stranded /\ Slack' >= Slack
    BY <1>0, <2>1, <2>2, <2>3 DEF Stranded, Slack, Halfway
  <2> QED
    BY <2>4 DEF Balanced
<1>2. CASE Mint
  BY <1>0, <1>2 DEF Balanced, Stranded, Slack, Halfway, Mint, Failed, MintTx, AfterFailure, books
<1>3. CASE Deposit
  BY <1>0, <1>3
     DEF Balanced, Stranded, Slack, Halfway, Deposit, Failed, DepositTx, AfterFailure, books
<1>4. CASE Place
  BY <1>0, <1>4
     DEF Balanced, Stranded, Slack, Halfway, Place, Failed, PlaceTx, Rests, AfterFailure,
         PersistFails, books
<1>5. CASE Setup
  BY <1>0, <1>5 DEF Balanced, Stranded, Slack, Halfway, Setup
<1>6. CASE EnsureManager
  BY <1>0, <1>6 DEF Balanced, Stranded, Slack, Halfway, EnsureManager
<1>7. CASE Started \/ NoCapacity
  BY <1>0, <1>7 DEF Balanced, Stranded, Slack, Halfway, Started, NoCapacity, AfterFailure, books
<1>8. CASE TopUpPoll \/ RefreshPoll
  BY <1>0, <1>8
     DEF Balanced, Stranded, Slack, Halfway, TopUpPoll, RefreshPoll, PollSees, Observed, Awake,
         books
<1>9. CASE Consumers
  BY <1>0, <1>9
     DEF Balanced, Stranded, Slack, Halfway, Consumers, DrawAsk, FillOrder, FillOldOrder, JobEnds
<1>10. CASE Crash \/ Shutdown
  BY <1>0, <1>10 DEF Balanced, Stranded, Slack, Halfway, Crash, Shutdown, books
<1>11. CASE Restart
  BY <1>0, <1>11 DEF Balanced, Stranded, Slack, Halfway, Restart, Off, books
<1>12. CASE UNCHANGED vars
  BY <1>0, <1>12 DEF Balanced, Stranded, Slack, Halfway, vars
<1> QED
  BY <1>1, <1>2, <1>3, <1>4, <1>5, <1>6, <1>7, <1>8, <1>9, <1>10, <1>11, <1>12 DEF Next, NodeStep

(* So the bound on what lies outside the book is kept. *)
LEMMA StrandedStep ==
  ASSUME TypeOK, Course, [Next]_vars, StrandedIsBounded, TypeOK'
  PROVE  StrandedIsBounded'
<1>1. Stranded \in Int /\ Stranded' \in Int /\ Slack \in Nat /\ Slack' \in Nat /\ Qty \in Nat
  <2>1. wallet \in Nat /\ deposit \in Nat /\ old.deposit \in Nat /\ failures \in Nat /\ life \in Nat /\ life >= 1
    BY LiquidityAssumption DEF TypeOK
  <2>2. wallet' \in Nat /\ deposit' \in Nat /\ old'.deposit \in Nat /\ failures' \in Nat /\ life' \in Nat /\ life' >= 1
    BY LiquidityAssumption DEF TypeOK
  <2>3. Halfway \in Nat /\ Halfway' \in Nat
    BY DEF Halfway
  <2>4. Stranded \in Int /\ Stranded' \in Int
    BY <2>1, <2>2 DEF Stranded
  <2>5. Slack \in Nat /\ Slack' \in Nat
    <3>1. Slack = failures + (life - 1) + Halfway /\ Slack' = failures' + (life' - 1) + Halfway'
      BY DEF Slack
    <3> QED
      BY <2>1, <2>2, <2>3, <3>1, SlackIsNat
  <2> QED
    BY <2>4, <2>5, LiquidityAssumption
<1>2. Stranded <= Qty * Slack
  BY DEF StrandedIsBounded, Stranded, Slack, Halfway
<1>3. Stranded' <= Qty * Slack'
  BY <1>1, <1>2, StrandedMoves, LotsBound DEF Balanced
<1> QED
  BY <1>3 DEF StrandedIsBounded, Stranded, Slack, Halfway

-----------------------------------------------------------------------------
(* The promises *)

(* The sum of the asks changes with the asks, lot by lot and draw by draw. *)
LEMMA AsksSum ==
  ASSUME TypeOK
  PROVE  /\ SumFunction(asks) \in Nat
         /\ PostAskTx => SumFunction(asks') = SumFunction(asks) + Qty
         /\ \A i \in DOMAIN asks : DrawAsk(i) => SumFunction(asks') = SumFunction(asks) - 1
<1>1. asks \in Seq(0 .. Qty) /\ Qty \in Nat /\ asks \in Seq(Nat) /\ 0 .. Qty \subseteq Nat
  <2>1. asks \in Seq(0 .. Qty) /\ Qty \in Nat
    BY LiquidityAssumption DEF TypeOK
  <2>2. 0 .. Qty \subseteq Nat
    BY <2>1
  <2> QED
    BY <2>1, <2>2, SeqMonotonic
<1>2. SumFunction(asks) \in Nat /\ SumFunction(Append(asks, Qty)) = SumFunction(asks) + Qty
  BY <1>1, SumAppend
<1>3. ASSUME NEW i \in DOMAIN asks, DrawAsk(i)
      PROVE  SumFunction(asks') = SumFunction(asks) - 1
  <2> DEFINE D == 1 .. Len(asks)
  <2>1. asks[i] > 0 /\ asks' = [asks EXCEPT ![i] = asks[i] - 1]
    BY <1>3 DEF DrawAsk
  <2>2. Len(asks) \in Nat /\ i \in D /\ asks \in [D -> Nat]
    BY <1>1, <1>3
  <2>3. IsFiniteSet(D)
    <3>1. 1 \in Int /\ Len(asks) \in Int
      BY <2>2
    <3> QED
      BY <3>1, FS_Interval
  <2> HIDE DEF D
  <2>4. asks \in [D -> Int] /\ asks[i] \in Nat
    BY <2>2
  <2>5. /\ asks' \in [D -> Int] /\ asks'[i] = asks[i] - 1
        /\ \A x \in D \ {i} : asks'[x] = asks[x]
    BY <2>1, <2>2, <2>4
  <2>6. SumFunction(asks') = SumFunction(asks) - asks[i] + asks'[i]
    BY <2>2, <2>3, <2>4, <2>5, SumChange
  <2> QED
    BY <1>2, <2>4, <2>5, <2>6
<1> QED
  BY <1>2, <1>3 DEF PostAskTx

\* How a step may move the two sides: what is put on sale is counted; a new life counts anew.
Accounted ==
  \/ life' = life /\ OnSale' - Counted' <= OnSale - Counted
  \/ life' = life + 1 /\ OnSale' = OnSale /\ Counted' = 0

(* No step puts on sale what it does not count, and none forgets a count but a new life's. *)
LEMMA SaleMoves ==
  ASSUME TypeOK, [Next]_vars
  PROVE  Accounted
<1> DEFINE Typed == /\ wallet \in Nat /\ deposit \in Nat /\ resting \in Nat /\ sold \in Nat
                    /\ Qty \in Nat /\ minted \in Nat /\ old \in [deposit : Nat, resting : Nat]
                    /\ SumFunction(asks) \in Nat
<1>0. Typed
  BY AsksSum, LiquidityAssumption DEF TypeOK
<1> USE DEF Accounted, OnSale, Counted
<1>1. CASE Post
  <2>1. /\ UNCHANGED <<wallet, deposit, resting, old, sold, life>>
        /\ main = "post" /\ main' \in {"started", "sleep"}
        /\ PostAskTx \/ UNCHANGED <<minted, asks>>
    BY <1>1 DEF Post, Failed, Rests, PostAskTx, AfterFailure, books
  <2>2. CASE PostAskTx
    <3>1. SumFunction(asks') = SumFunction(asks) + Qty
      BY <2>2, AsksSum
    <3>2. minted' = minted + Qty
      BY <2>2 DEF PostAskTx
    <3> QED
      BY <1>0, <2>1, <3>1, <3>2
  <2>3. CASE UNCHANGED <<minted, asks>>
    BY <1>0, <2>1, <2>3
  <2> QED
    BY <2>1, <2>2, <2>3
<1>2. CASE Mint
  BY <1>0, <1>2 DEF Mint, Failed, MintTx, AfterFailure, books
<1>3. CASE Deposit
  BY <1>0, <1>3 DEF Deposit, Failed, DepositTx, AfterFailure, books
<1>4. CASE Place
  BY <1>0, <1>4 DEF Place, Failed, PlaceTx, Rests, AfterFailure, books
<1>5. CASE Setup
  BY <1>0, <1>5 DEF Setup
<1>6. CASE EnsureManager
  BY <1>0, <1>6 DEF EnsureManager
<1>7. CASE Started \/ NoCapacity
  BY <1>0, <1>7 DEF Started, NoCapacity, AfterFailure, books
<1>8. CASE TopUpPoll \/ RefreshPoll
  BY <1>0, <1>8 DEF TopUpPoll, RefreshPoll, PollSees, Observed, Awake, books
<1>9. ASSUME NEW i \in DOMAIN asks, DrawAsk(i)
      PROVE  Accounted
  <2>1. SumFunction(asks') = SumFunction(asks) - 1
    BY <1>9, AsksSum
  <2>2. /\ sold' = sold + 1
        /\ UNCHANGED <<life, main, minted, wallet, deposit, resting, old>>
    BY <1>9 DEF DrawAsk
  <2> QED
    BY <1>0, <2>1, <2>2
<1>10. CASE FillOrder \/ FillOldOrder
  BY <1>0, <1>10 DEF FillOrder, FillOldOrder
<1>11. CASE JobEnds
  BY <1>0, <1>11 DEF JobEnds
<1>12. CASE Crash \/ Shutdown
  BY <1>0, <1>12 DEF Crash, Shutdown, Off, books
<1>13. CASE Restart
  BY <1>0, <1>13 DEF Restart, books
<1>14. CASE UNCHANGED vars
  BY <1>0, <1>14 DEF vars
<1> QED
  BY <1>1, <1>2, <1>3, <1>4, <1>5, <1>6, <1>7, <1>8, <1>9, <1>10, <1>11, <1>12, <1>13, <1>14
     DEF Next, NodeStep, Consumers

(* What is on sale and what is counted are numbers, the count within the capacity. *)
LEMMA SaleType ==
  TypeOK => /\ Capacity \in Nat /\ life \in Nat /\ OnSale \in Int
            /\ Counted \in Nat /\ Counted <= Capacity
<1> SUFFICES ASSUME TypeOK
             PROVE  /\ Capacity \in Nat /\ life \in Nat /\ OnSale \in Int
                    /\ Counted \in Nat /\ Counted <= Capacity
  OBVIOUS
<1>1. Capacity \in Nat /\ life \in Nat /\ minted \in 0 .. Capacity
  BY LiquidityAssumption DEF TypeOK
<1>2. Counted \in Nat /\ Counted <= Capacity
  BY <1>1 DEF Counted
<1>3. /\ wallet \in Nat /\ deposit \in Nat /\ resting \in Nat /\ sold \in Nat
      /\ old.deposit \in Nat /\ old.resting \in Nat /\ SumFunction(asks) \in Nat
  BY AsksSum DEF TypeOK
<1>4. OnSale \in Int
  BY <1>3 DEF OnSale
<1> QED
  BY <1>1, <1>2, <1>4

(* The same after a step. *)
LEMMA SaleTypeNext == TypeOK' => OnSale' \in Int /\ Counted' \in Nat
<1>1. (TypeOK => OnSale \in Int /\ Counted \in Nat)'
  BY SaleType, PTL
<1> QED
  BY <1>1

(* A whole capacity more for a life more; what is counted is within the capacity. *)
LEMMA BackedStep ==
  ASSUME TypeOK, TypeOK', [Next]_vars, Backed
  PROVE  Backed'
<1>1. /\ Capacity \in Nat /\ life \in Nat /\ OnSale \in Int /\ Counted \in Nat
      /\ Counted <= Capacity
  BY SaleType
<1>2. OnSale' \in Int /\ Counted' \in Nat
  BY SaleTypeNext
<1>3. OnSale <= Capacity * (life - 1) + Counted
  BY DEF Backed
<1>4. CASE life' = life /\ OnSale' - Counted' <= OnSale - Counted
  <2>1. Capacity * (life - 1) \in Int
    BY <1>1
  <2> DEFINE c == Capacity * (life - 1)
  <2> HIDE DEF c
  <2>2. c \in Int /\ OnSale <= c + Counted
    BY <1>3, <2>1 DEF c
  <2>3. OnSale' <= c + Counted'
    <3>1. ASSUME NEW a \in Int, NEW b \in Int, NEW x \in Int, NEW y \in Int,
                 x <= c + y, a - b <= x - y
          PROVE  a <= c + b
      BY <2>2, <3>1
    <3>2. OnSale' \in Int /\ Counted' \in Int /\ OnSale \in Int /\ Counted \in Int
      BY <1>1, <1>2
    <3> QED
      BY <1>4, <2>2, <3>1, <3>2
  <2> QED
    BY <1>4, <2>3 DEF Backed, c
<1>5. CASE life' = life + 1 /\ OnSale' = OnSale /\ Counted' = 0
  <2>1. Capacity * (life - 1) + Capacity = Capacity * ((life + 1) - 1)
    BY <1>1
  <2>2. OnSale' <= Capacity * (life' - 1) + Counted'
    BY <1>1, <1>3, <1>5, <2>1
  <2> QED
    BY <2>2 DEF Backed
<1> QED
  BY <1>4, <1>5, SaleMoves DEF Accounted

-----------------------------------------------------------------------------
(* The discovery file *)

(* The file names the ask the loop tends and never understates it, as long as it can be written. *)
LEMMA FileStep ==
  ASSUME TypeOK, Course, [Next]_vars, FileNamesAsk, TypeOK'
  PROVE  FileNamesAsk'
<1> DEFINE Typed == asks \in Seq(0 .. Qty) /\ asks' \in Seq(0 .. Qty) /\ Qty \in Nat /\ current \in 0 .. Len(asks)
                    /\ file \in Files
<1>0. Typed
  BY LiquidityAssumption DEF TypeOK
<1>1. CASE Post
  <2>1. PICK outcome \in Outcomes :
          IF outcome = "ok" THEN PostAskTx /\ Rests("ask", Len(asks) + 1) ELSE Failed(outcome, PostAskTx)
    BY <1>1 DEF Post
  <2>2. CASE outcome = "ok"
    <3>1. asks'[Len(asks) + 1] = Qty
      BY <1>0, <2>1, <2>2, PostedAsks DEF PostAskTx
    <3>2. current' = Len(asks) + 1 /\ (main' = "started" \/ unwritten' = TRUE \/ Persist(Len(asks) + 1, Qty))
          /\ main' \in {"started", "sleep"}
      BY <2>1, <2>2 DEF Rests, PersistNew, PersistFails
    <3> QED
      BY <1>0, <3>1, <3>2 DEF FileNamesAsk, Persist
  <2>3. CASE outcome # "ok"
    <3>1. UNCHANGED <<rail, current, file, unwritten>> /\ main = "post"
      BY <1>1, <2>1, <2>3 DEF Post, Failed
    <3>2. rail = "ask" => asks'[current] <= asks[current] /\ asks'[current] \in Int /\ asks[current] \in Int
      <4>1. rail = "ask" => current \in 1 .. Len(asks)
        BY <1>0 DEF Course
      <4> QED
        BY <1>0, <4>1, AsksShrink, AskIsNat
    <3> QED
      BY <1>0, <3>1, <3>2 DEF FileNamesAsk, Files
  <2> QED
    BY <2>2, <2>3
<1>2. CASE Mint \/ Deposit \/ Place
  <2>1. rail # "ask" /\ (rail' = rail \/ rail' = "deepbook")
    BY <1>2 DEF Course, Mint, Deposit, Place, Failed, Rests
  <2> QED
    BY <2>1 DEF FileNamesAsk
<1>3. CASE Setup
  <2>1. rail' = "none"
    BY <1>3 DEF Setup, Course
  <2> QED
    BY <2>1 DEF FileNamesAsk
<1>4. CASE Started
  <2>1. UNCHANGED <<rail, current, asks>> /\ current \in 0 .. Len(asks)
    BY <1>0, <1>4 DEF Started, books
  <2>2. rail = "ask" => current \in 1 .. Len(asks) /\ asks[current] <= Qty
    BY <1>0, <2>1 DEF Course
  <2>3. rail = "ask" => unwritten' = TRUE \/ (file'.ask = current /\ file'.remaining = Qty)
    BY <1>4 DEF Started, Persist, PersistFails
  <2> QED
    BY <2>1, <2>2, <2>3 DEF FileNamesAsk
<1>5. CASE EnsureManager
  <2>1. rail' = "none"
    BY <1>5 DEF EnsureManager, Course
  <2> QED
    BY <2>1 DEF FileNamesAsk
<1>6. CASE NoCapacity
  <2>1. UNCHANGED <<rail, current, asks, file, unwritten>>
    BY <1>6 DEF NoCapacity, books
  <2>2. rail = "ask" => main = "post"
    BY <1>6 DEF NoCapacity, Course
  <2> QED
    BY <2>1, <2>2 DEF FileNamesAsk
<1>7. CASE TopUpPoll
  <2>1. UNCHANGED <<rail, current, asks>> /\ main = "sleep"
    BY <1>7 DEF TopUpPoll, Awake, books
  <2>2. \/ unwritten' = TRUE
        \/ file'.ask = current /\ file'.remaining = asks[current]
        \/ UNCHANGED <<file, unwritten>>
    BY <1>7 DEF TopUpPoll, Observed, PollSees, Persist, PersistFails
  <2>3. rail = "ask" => asks[current] \in Int
    BY <1>0, AskIsNat DEF Course
  <2> QED
    BY <2>1, <2>2, <2>3 DEF FileNamesAsk
<1>8. CASE RefreshPoll
  <2>1. rail' = "deepbook"
    BY <1>8 DEF RefreshPoll
  <2> QED
    BY <2>1 DEF FileNamesAsk
<1>9. CASE Consumers
  <2>1. UNCHANGED <<main, rail, current, file, unwritten>>
    BY <1>9 DEF Consumers, DrawAsk, FillOrder, FillOldOrder, JobEnds
  <2>2. rail = "ask" => asks'[current] <= asks[current] /\ asks'[current] \in Int /\ asks[current] \in Int
    <3>1. rail = "ask" => current \in 1 .. Len(asks)
      BY <1>0 DEF Course
    <3> QED
      BY <1>0, <3>1, AsksShrink, AskIsNat
  <2> QED
    BY <1>0, <2>1, <2>2 DEF FileNamesAsk, Files
<1>10. CASE Crash \/ Shutdown \/ Restart
  BY <1>10 DEF FileNamesAsk, Crash, Shutdown, Restart
<1>11. CASE UNCHANGED vars
  BY <1>11 DEF FileNamesAsk, vars
<1> QED
  BY <1>1, <1>2, <1>3, <1>4, <1>5, <1>6, <1>7, <1>8, <1>9, <1>10, <1>11 DEF Next, NodeStep

-----------------------------------------------------------------------------
(* The theorems *)

(* Every step keeps the invariant. *)
LEMMA InvStep == LiquidityInv /\ [Next]_vars => LiquidityInv'
<1> SUFFICES ASSUME LiquidityInv, [Next]_vars PROVE LiquidityInv'
  OBVIOUS
<1>1. /\ TypeOK /\ Course /\ AbandonedAskIsSpent /\ StrandedIsBounded /\ FileNamesAsk
      /\ Backed
  BY DEF LiquidityInv
<1>2. TypeOK'
  <2>1. CASE UNCHANGED vars
    BY <1>1, <2>1 DEF TypeOK, vars
  <2> QED
    BY <1>1, <2>1, PostingType, OtherType DEF Next, NodeStep
<1> QED
  BY <1>1, <1>2, CourseStep, SpentStep, StrandedStep, FileStep, BackedStep DEF LiquidityInv

(* The invariant holds for ever. *)
LEMMA InvAlways == Spec => []LiquidityInv
BY InitInv, InvStep, PTL DEF Spec

(* The books of the liquidity loops stay natural numbers, minted within the capacity of the
   stake, however often the node starts and fails. *)
THEOREM LiquidityTypeCorrect == Spec => []TypeOK
<1>1. LiquidityInv => TypeOK
  BY DEF LiquidityInv
<1> QED
  BY <1>1, InvAlways, PTL

(* The top-up never leaves an ask behind that has more than the threshold left (main.ts). *)
THEOREM AbandonedSpent == Spec => []AbandonedAskIsSpent
<1>1. LiquidityInv => AbandonedAskIsSpent
  BY DEF LiquidityInv
<1> QED
  BY <1>1, InvAlways, PTL

(* Credits outside the book are at most one lot for each failure and each restart, besides
   the lot on its way (main.ts, deepbook.ts). *)
THEOREM StrandedBounded == Spec => []StrandedIsBounded
<1>1. LiquidityInv => StrandedIsBounded
  BY DEF LiquidityInv
<1> QED
  BY <1>1, InvAlways, PTL

(* Between two polls the discovery file names the tended ask and does not understate it. *)
THEOREM DiscoveryRight == Spec => []DiscoveryNamesTendedAsk
<1>1. LiquidityInv => DiscoveryNamesTendedAsk
  BY DEF LiquidityInv, FileNamesAsk, DiscoveryNamesTendedAsk, Awake
<1> QED
  BY <1>1, InvAlways, PTL

(* What the node has on sale, unsold or unfinished, is backed by the capacity its stakes were
   given, however many lives put it there and whichever stake a job is settled with (the gate
   of staking.move, chain.ts). *)
THEOREM PromisesBacked == Spec => []PromisesWithinStakes
<1>1. LiquidityInv => PromisesWithinStakes
  <2> SUFFICES ASSUME LiquidityInv PROVE PromisesWithinStakes
    OBVIOUS
  <2>1. /\ Capacity \in Nat /\ life \in Nat /\ OnSale \in Int /\ Counted \in Nat
        /\ Counted <= Capacity
    BY SaleType DEF LiquidityInv
  <2>2. OnSale <= Capacity * (life - 1) + Counted
    BY DEF LiquidityInv, Backed
  <2>3. Capacity * (life - 1) + Capacity = Capacity * life
    BY <2>1
  <2>4. OnSale <= Capacity * life
    BY <2>1, <2>2, <2>3
  <2> QED
    BY <2>4 DEF PromisesWithinStakes, OnSale
<1> QED
  BY <1>1, InvAlways, PTL

=============================================================================
