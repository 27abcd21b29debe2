--------------------------- MODULE EventLogProofs ---------------------------
(***************************************************************************)
(* What the emitted records tell is the truth.  The reader's view is shown *)
(* to be, after every step, the one that can be computed from the program's*)
(* own accounts; what the records claim follows from it and from what is   *)
(* proved of the program.                                                  *)
(***************************************************************************)
EXTENDS EventLog, EventProtocolProofs

(* Reading the log changes nothing: a logged step is a program step. *)
LEMMA LoggedStep == [LogNext]_logVars => [Next]_vars
BY DEF LogNext, EmitNothing, EmitDeploy, EmitVote, EmitFinish, EmitClaim,
       EmitWithdraw, EmitClose, Next, SetUp, Vote, Settle, Close, logVars, vars

(***************************************************************************)
(* The program with its log behaves as the program: all that is proved of  *)
(* the program holds of it.                                                *)
(***************************************************************************)
LEMMA LoggedProgramIsTheProgram == LogSpec => Spec
<1>1. LogInit => Init
  BY DEF LogInit
<1> QED BY <1>1, LoggedStep, PTL DEF LogSpec, Spec

----------------------------------------------------------------------------
(* What the reader should know.                                            *)

(* What a side has paid to players: the deposits withdrawn from it if it   *)
(* has won, the rewards claimed from it if it has lost.                    *)
Paid(id, s) ==
    IF HasWon(id, s) THEN Staked(id, s) - StillToWithdraw(id, s)
    ELSE IF HasLost(id, s) THEN ClaimedBy(id, Other(s))
    ELSE 0

ShownFields(e, amount, paid) ==
    [creator |-> e.creator, start_date |-> e.start_date,
     end_date |-> e.end_date, mint |-> e.mint, burning |-> e.burning,
     result |-> e.result, amount |-> amount, paid |-> paid]

StakesOf(id) == [s \in Sides |-> [u \in Users |-> Stake(id, s, u)]]
PaymentsOf(id) == [s \in Sides |-> Paid(id, s)]

TrueView(id) == ShownFields(event[id], StakesOf(id), PaymentsOf(id))

ViewIsTrue(id) == view[id] = IF Deployed(id) THEN TrueView(id) ELSE None

ViewTyped == view \in [Ids -> EventView \cup {None}]

LogInv ==
    /\ IInv
    /\ ViewTyped
    /\ \A id \in Ids : ViewIsTrue(id)

LEMMA PaidIsNat ==
    ASSUME TypeOK, NEW id \in Ids, Deployed(id), NEW s \in Sides
    PROVE  Paid(id, s) \in Nat
<1>1. /\ Staked(id, s) \in Nat /\ StillToWithdraw(id, s) \in Nat
      /\ ClaimedBy(id, Other(s)) \in Nat
  BY TotalsAreNat, OtherIsSide
<1>2. StillToWithdraw(id, s) <= Staked(id, s)
  <2> DEFINE f == [u \in Users |-> Unwithdrawn(id, s, u)]
             g == [u \in Users |-> Stake(id, s, u)]
  <2>1. \A u \in Users : f[u] \in Nat /\ g[u] \in Nat
    BY TicketTermsAreNat DEF TicketTermsInNat
  <2>2. \A u \in Users : f[u] = g[u] \/ f[u] = 0
    BY DEF Unwithdrawn, Stake
  <2>3. /\ StillToWithdraw(id, s) = SumFunctionOnSet(f, Users)
        /\ Staked(id, s) = SumFunctionOnSet(g, Users)
    BY DEF StillToWithdraw, Staked, Over
  <2> HIDE DEF f, g
  <2>4. \A u \in Users : f[u] <= g[u]
    BY <2>1, <2>2
  <2> QED BY <2>1, <2>3, <2>4, SumMonotone, SetsAssumption
<1> QED BY <1>1, <1>2 DEF Paid

LEMMA TrueViewIsView ==
    ASSUME TypeOK, NEW id \in Ids, Deployed(id)
    PROVE  TrueView(id) \in EventView
<1>1. event[id] \in PredictionEvent
  BY DEF TypeOK, Deployed
<1>2. ASSUME NEW s \in Sides
      PROVE  /\ [u \in Users |-> Stake(id, s, u)] \in [Users -> Nat]
             /\ Paid(id, s) \in Nat
  BY PaidIsNat, TicketTermsAreNat DEF TicketTermsInNat
<1>3. StakesOf(id) \in [Sides -> [Users -> Nat]]
      /\ PaymentsOf(id) \in [Sides -> Nat]
  BY <1>2 DEF StakesOf, PaymentsOf
<1> QED BY <1>1, <1>3 DEF PredictionEvent, TrueView, ShownFields, EventView

(* What is true of an event depends on its record and tickets alone.       *)
LEMMA SameTruth ==
    ASSUME TypeOK, NEW id \in Ids, Deployed(id),
           event'[id] = event[id], ticket'[id] = ticket[id]
    PROVE  TrueView(id)' = TrueView(id)
<1>1. ASSUME NEW s \in Sides
      PROVE  /\ Paid(id, s)' = Paid(id, s)
             /\ \A u \in Users : Stake(id, s, u)' = Stake(id, s, u)
  <2>1. /\ Staked(id, s)' = Staked(id, s)
        /\ StillToWithdraw(id, s)' = StillToWithdraw(id, s)
        /\ ClaimedBy(id, Other(s))' = ClaimedBy(id, Other(s))
    BY TotalsFrame, OtherIsSide
  <2> QED BY <2>1 DEF Paid, HasWon, HasLost, Stake, HasTicket
<1> QED BY <1>1 DEF TrueView, StakesOf, PaymentsOf

LEMMA ViewStays ==
    ASSUME TypeOK, NEW id \in Ids, ViewIsTrue(id), view'[id] = view[id],
           event'[id] = event[id], ticket'[id] = ticket[id]
    PROVE  ViewIsTrue(id)'
<1>1. CASE Deployed(id)
  <2>1. TrueView(id)' = TrueView(id)
    BY <1>1, SameTruth
  <2> QED BY <1>1, <2>1 DEF ViewIsTrue, Deployed
<1>2. CASE ~Deployed(id)
  BY <1>2 DEF ViewIsTrue, Deployed
<1> QED BY <1>1, <1>2

----------------------------------------------------------------------------
(* Each record keeps the view true of the event it is about.               *)

LEMMA DeployIsShown ==
    ASSUME TypeOK, TypeOK', NEW u \in Users, NEW id \in Ids,
           NEW start \in Dates, NEW end \in Dates,
           NEW mint \in [Sides -> Assets], NEW burning \in BOOLEAN,
           EventInv(id), ViewTyped,
           DeployEvent(u, id, start, end, mint, burning),
           ShowDeployed(DeployEvtEvent(u, id, start, end, mint, burning))
    PROVE  ViewIsTrue(id)'
<1>1. /\ ~Deployed(id) /\ ticket' = ticket
      /\ event'[id] = NewEvent(u, start, end, mint, burning)
  BY DEF DeployEvent, TypeOK
<1>2. \A s \in Sides, v \in Users : Stake(id, s, v)' = 0
  BY <1>1 DEF EventInv, NothingHeld, Stake, HasTicket
<1>3. \A s \in Sides : Paid(id, s)' = 0
  BY <1>1, OtherIsSide, NotNone DEF NewEvent, Paid, HasWon, HasLost
<1>4. Deployed(id)'
  <2>1. event'[id] \in PredictionEvent \cup {None}
    BY DEF TypeOK
  <2>2. NewEvent(u, start, end, mint, burning) \in PredictionEvent
    BY MaxU64Assumption DEF NewEvent, PredictionEvent
  <2> QED BY <1>1, <2>2, NotNone DEF Deployed
<1>5. view'[id] =
        [creator |-> u, start_date |-> start, end_date |-> end,
         mint |-> mint, burning |-> burning, result |-> None,
         amount |-> [s \in Sides |-> [v \in Users |-> 0]],
         paid |-> [s \in Sides |-> 0]]
  BY DEF ShowDeployed, DeployEvtEvent, ViewTyped
<1>6. TrueView(id)' = view'[id]
  <2>1. /\ StakesOf(id)' = [s \in Sides |-> [v \in Users |-> 0]]
        /\ PaymentsOf(id)' = [s \in Sides |-> 0]
    BY <1>2, <1>3 DEF StakesOf, PaymentsOf
  <2> QED BY <1>1, <1>5, <2>1 DEF TrueView, ShownFields, NewEvent
<1> QED BY <1>4, <1>6 DEF ViewIsTrue

LEMMA VoteIsShown ==
    ASSUME TypeOK, TypeOK', NEW u \in Users, NEW id \in Ids, NEW s \in Sides,
           NEW n \in Nat, ViewTyped, ViewIsTrue(id), VoteOpen(id),
           RecordVote(u, id, s, n), ShowVote(VoteEvtEvent(u, id, s, n))
    PROVE  ViewIsTrue(id)'
<1> DEFINE t == Other(s)
           c == TicketOrNew(id, s, u).amount + n
<1>1. t \in Sides /\ t # s /\ \A z \in Sides : z = s \/ z = t
  BY DEF Sides, Other
<1>2. Deployed(id) /\ view[id] = TrueView(id)
  BY DEF VoteOpen, ViewIsTrue
<1>3. /\ Deployed(id)'
      /\ Stake(id, s, u)' = Stake(id, s, u) + n
      /\ \A v \in Users \ {u} : Stake(id, s, v)' = Stake(id, s, v)
      /\ \A v \in Users : Stake(id, t, v)' = Stake(id, t, v)
  BY <1>2, VoteRecorded
<1>4. c = Stake(id, s, u) + n
  BY DEF TicketOrNew, NewTicket, Stake
<1>5. \A z \in Sides : Paid(id, z) = 0 /\ Paid(id, z)' = 0
  BY VoteAdds DEF Paid
<1>6. event'[id] = [event[id] EXCEPT !.pool[s] = @ + n]
      /\ event[id] \in PredictionEvent
  BY <1>2 DEF RecordVote, TypeOK, Deployed
<1>7. /\ event'[id].creator = event[id].creator
      /\ event'[id].start_date = event[id].start_date
      /\ event'[id].end_date = event[id].end_date
      /\ event'[id].mint = event[id].mint
      /\ event'[id].burning = event[id].burning
      /\ event'[id].result = event[id].result
  BY <1>6 DEF PredictionEvent
<1>8. view'[id] = [TrueView(id) EXCEPT !.amount[s][u] = c]
  BY <1>2 DEF ShowVote, VoteEvtEvent, ViewTyped
<1>9. [StakesOf(id) EXCEPT ![s][u] = c] = StakesOf(id)'
  BY <1>1, <1>3, <1>4 DEF StakesOf
<1>10. PaymentsOf(id)' = PaymentsOf(id)
  BY <1>5 DEF PaymentsOf
<1>11. view'[id] = ShownFields(event[id], [StakesOf(id) EXCEPT ![s][u] = c],
                               PaymentsOf(id))
  BY <1>8 DEF TrueView, ShownFields
<1>12. TrueView(id)' = view'[id]
  BY <1>7, <1>9, <1>10, <1>11 DEF TrueView, ShownFields
<1> QED BY <1>3, <1>12 DEF ViewIsTrue

LEMMA ResultIsShown ==
    ASSUME TypeOK, TypeOK', NEW u \in Users, NEW id \in Ids, NEW r \in Sides,
           EventInv(id), ViewTyped, ViewIsTrue(id),
           FinishEvent(u, id, r), ShowResult(FinishEvtEvent(id, r))
    PROVE  ViewIsTrue(id)'
<1> DEFINE l == Other(r)
<1>1. l \in Sides /\ l # r /\ Other(l) = r /\ \A z \in Sides : z = l \/ z = r
  BY DEF Sides, Other
<1>2. /\ Deployed(id) /\ ~IsResultSet(id) /\ ticket' = ticket
      /\ view[id] = TrueView(id) /\ MarkedOnlyIfWon(id)
  BY DEF FinishEvent, MayFinish, ViewIsTrue, EventInv
<1>3. event'[id] = [event[id] EXCEPT !.result = r, !.pool[l] = @ - 2 * FeeOf(@)]
      /\ event[id] \in PredictionEvent
  BY <1>2 DEF FinishEvent, TypeOK, Deployed
<1>4. /\ event'[id].creator = event[id].creator
      /\ event'[id].start_date = event[id].start_date
      /\ event'[id].end_date = event[id].end_date
      /\ event'[id].mint = event[id].mint
      /\ event'[id].burning = event[id].burning
      /\ event'[id].result = r
      /\ Deployed(id)'
  BY <1>3, ResultRecorded DEF PredictionEvent
<1>5. \A z \in Sides, v \in Users : Stake(id, z, v)' = Stake(id, z, v)
  BY <1>2 DEF Stake, HasTicket
<1>6. \A z \in Sides : Paid(id, z) = 0
  BY <1>2, OtherIsSide, NotNone DEF Paid, HasWon, HasLost, IsResultSet
<1>7. Paid(id, r)' = 0
  <2>1. StillToWithdraw(id, r) = Staked(id, r) /\ Staked(id, r) \in Nat
    BY <1>2, NothingPaidBeforeTheResult, TotalsAreNat
  <2>2. /\ StillToWithdraw(id, r)' = StillToWithdraw(id, r)
        /\ Staked(id, r)' = Staked(id, r)
    BY <1>2 DEF StillToWithdraw, Unwithdrawn, Staked, Stake, HasTicket
  <2> QED BY <1>4, <2>1, <2>2 DEF Paid, HasWon
<1>8. Paid(id, l)' = 0
  <2>1. \A v \in Users : HasTicket(id, r, v) => ~ticket[id][r][v].claimed
    BY <1>2, NothingPaidBeforeTheResult
  <2>2. \A v \in Users : HasTicket(id, r, v)' => ~ticket'[id][r][v].claimed
    BY <1>2, <2>1 DEF HasTicket
  <2>3. ClaimedBy(id, r)' = 0
    BY <2>2, NothingClaimedNext DEF UnclaimedIsZero
  <2> QED BY <1>1, <1>4, <2>3 DEF Paid, HasWon, HasLost
<1>9. \A z \in Sides : Paid(id, z)' = Paid(id, z)
  BY <1>1, <1>6, <1>7, <1>8
<1>10. view'[id] = [TrueView(id) EXCEPT !.result = r]
  BY <1>2 DEF ShowResult, FinishEvtEvent, ViewTyped
<1>11. StakesOf(id)' = StakesOf(id) /\ PaymentsOf(id)' = PaymentsOf(id)
  BY <1>5, <1>9 DEF StakesOf, PaymentsOf
<1>12. TrueView(id)' = view'[id]
  BY <1>4, <1>10, <1>11 DEF TrueView, ShownFields
<1> QED BY <1>4, <1>12 DEF ViewIsTrue

(* A payment out of side s adds to what s has paid; the stakes stay. *)
LEMMA PaymentIsShown ==
    ASSUME TypeOK, NEW id \in Ids, NEW s \in Sides, NEW n \in Nat,
           Deployed(id), event' = event, ViewTyped, ViewIsTrue(id),
           StakesOf(id)' = StakesOf(id),
           Paid(id, s)' = Paid(id, s) + n,
           Paid(id, Other(s))' = Paid(id, Other(s)),
           view' = [view EXCEPT ![id].paid[s] = @ + n]
    PROVE  ViewIsTrue(id)'
<1>1. \A z \in Sides : z = s \/ z = Other(s)
  BY DEF Sides, Other
<1>2. PaymentsOf(id)' = [PaymentsOf(id) EXCEPT ![s] = @ + n]
  BY <1>1 DEF PaymentsOf
<1>3. view[id] = TrueView(id) /\ Deployed(id)'
  BY DEF ViewIsTrue, Deployed
<1>4. view'[id] = [TrueView(id) EXCEPT !.paid[s] = @ + n]
  BY <1>3 DEF ViewTyped
<1>5. view'[id] = ShownFields(event[id], StakesOf(id),
                              [PaymentsOf(id) EXCEPT ![s] = @ + n])
  BY <1>4 DEF TrueView, ShownFields
<1>6. TrueView(id)' = view'[id]
  BY <1>2, <1>5 DEF TrueView, ShownFields
<1> QED BY <1>3, <1>6 DEF ViewIsTrue

LEMMA ShownResult ==
    ASSUME NEW id \in Ids, Deployed(id), ViewIsTrue(id)
    PROVE  view[id].result = event[id].result
BY DEF ViewIsTrue, TrueView, ShownFields

LEMMA StakesAreKept ==
    ASSUME TypeOK, NEW id \in Ids,
           \A s \in Sides, v \in Users : Stake(id, s, v)' = Stake(id, s, v)
    PROVE  StakesOf(id)' = StakesOf(id)
BY DEF StakesOf

LEMMA ClaimIsShown ==
    ASSUME TypeOK, TypeOK', NEW u \in Users, NEW id \in Ids, NEW w \in Sides,
           ViewTyped, ViewIsTrue(id), EmitClaim(u, id, w)
    PROVE  ViewIsTrue(id)' /\ \A i \in Ids \ {id} : view'[i] = view[i]
<1> DEFINE l == Other(w)
           n == Reward(u, id, w)
<1>1. l \in Sides /\ l # w /\ Other(l) = w
  BY DEF Sides, Other
<1>2. /\ ClaimRewards(u, id, w) /\ Deployed(id) /\ event' = event
      /\ event[id].result = w /\ HasTicket(id, w, u)
      /\ ticket' = [ticket EXCEPT ![id][w][u].claimed = TRUE]
  BY DEF EmitClaim, ClaimRewards, MayClaim
<1>3. /\ n \in Nat /\ ClaimedBy(id, w)' = ClaimedBy(id, w) + n
      /\ StillToWithdraw(id, w)' = StillToWithdraw(id, w)
  BY <1>2, ClaimMarks
<1>4. /\ Staked(id, w)' = Staked(id, w)
      /\ \A s \in Sides, v \in Users : Stake(id, s, v)' = Stake(id, s, v)
  <2>1. \A s \in Sides, v \in Users : Stake(id, s, v)' = Stake(id, s, v)
    BY <1>2, PayingKeepsStakes DEF StakesKept
  <2> QED BY <2>1, SameStakesSameTotal
<1>5. Paid(id, l)' = Paid(id, l) + n
  BY <1>1, <1>2, <1>3 DEF Paid, HasWon, HasLost
<1>6. Paid(id, w)' = Paid(id, w)
  BY <1>2, <1>3, <1>4 DEF Paid, HasWon
<1>7. view' = [view EXCEPT ![id].paid[l] = @ + n]
  BY <1>2, ShownResult DEF EmitClaim, ShowReward, ClaimRewardsEvent
<1>8. StakesOf(id)' = StakesOf(id)
  BY <1>4, StakesAreKept
<1>9. ViewIsTrue(id)'
  <2> HIDE DEF l, n
  <2> QED BY <1>1, <1>2, <1>3, <1>5, <1>6, <1>7, <1>8, PaymentIsShown
<1> QED BY <1>7, <1>9 DEF ViewTyped

LEMMA WithdrawalIsShown ==
    ASSUME TypeOK, TypeOK', NEW u \in Users, NEW id \in Ids, NEW w \in Sides,
           ViewTyped, ViewIsTrue(id), EmitWithdraw(u, id, w)
    PROVE  ViewIsTrue(id)' /\ \A i \in Ids \ {id} : view'[i] = view[i]
<1> DEFINE l == Other(w)
           n == ticket[id][w][u].amount
<1>1. l \in Sides /\ l # w /\ Other(l) = w
  BY DEF Sides, Other
<1>2. /\ WithdrawDeposited(u, id, w) /\ Deployed(id) /\ event' = event
      /\ event[id].result = w /\ HasTicket(id, w, u)
      /\ ticket' = [ticket EXCEPT ![id][w][u].withdrawn = TRUE]
  BY DEF EmitWithdraw, WithdrawDeposited, MayWithdraw
<1>3. /\ n \in Nat /\ ClaimedBy(id, w)' = ClaimedBy(id, w)
      /\ StillToWithdraw(id, w)' = StillToWithdraw(id, w) - n
  BY <1>2, WithdrawalMarks
<1>4. /\ Staked(id, w)' = Staked(id, w)
      /\ \A s \in Sides, v \in Users : Stake(id, s, v)' = Stake(id, s, v)
  <2>1. \A s \in Sides, v \in Users : Stake(id, s, v)' = Stake(id, s, v)
    BY <1>2, PayingKeepsStakes DEF StakesKept
  <2> QED BY <2>1, SameStakesSameTotal
<1>5. Paid(id, w)' = Paid(id, w) + n
  <2>1. StillToWithdraw(id, w) \in Nat /\ Staked(id, w) \in Nat
    BY TotalsAreNat
  <2>2. /\ Paid(id, w) = Staked(id, w) - StillToWithdraw(id, w)
        /\ Paid(id, w)' = Staked(id, w)' - StillToWithdraw(id, w)'
    BY <1>2 DEF Paid, HasWon
  <2> HIDE DEF n
  <2> QED BY <1>3, <1>4, <2>1, <2>2
<1>6. Paid(id, l)' = Paid(id, l)
  BY <1>1, <1>2, <1>3 DEF Paid, HasWon, HasLost
<1>7. view' = [view EXCEPT ![id].paid[w] = @ + n]
  BY <1>2, ShownResult DEF EmitWithdraw, ShowWithdrawal, WithdrawEvent
<1>8. StakesOf(id)' = StakesOf(id)
  BY <1>4, StakesAreKept
<1>9. ViewIsTrue(id)'
  <2> HIDE DEF l, n
  <2> QED BY <1>1, <1>2, <1>3, <1>5, <1>6, <1>7, <1>8, PaymentIsShown DEF l
<1> QED BY <1>7, <1>9 DEF ViewTyped

LEMMA ClosingIsShown ==
    ASSUME TypeOK, NEW u \in Users, NEW id \in Ids, NEW pools \in SUBSET Sides,
           ViewTyped, EmitClose(u, id, pools)
    PROVE  ViewIsTrue(id)'
<1>1. event'[id] = None /\ view'[id] = None
  BY DEF EmitClose, CloseEvent, ShowClosed, CloseEvtEvent, TypeOK, ViewTyped
<1> QED BY <1>1 DEF ViewIsTrue, Deployed

----------------------------------------------------------------------------
LEMMA OtherViewsStay ==
    ASSUME ViewTyped, NEW id \in Ids, NEW i \in Ids \ {id}
    PROVE  /\ \A u, start, end, mint, burning :
                ShowDeployed(DeployEvtEvent(u, id, start, end, mint, burning))
                    => view'[i] = view[i]
           /\ \A u, s, n : ShowVote(VoteEvtEvent(u, id, s, n))
                               => view'[i] = view[i]
           /\ \A r : ShowResult(FinishEvtEvent(id, r)) => view'[i] = view[i]
           /\ ShowClosed(CloseEvtEvent(id)) => view'[i] = view[i]
BY DEF ViewTyped, ShowDeployed, DeployEvtEvent, ShowVote, VoteEvtEvent,
       ShowResult, FinishEvtEvent, ShowClosed, CloseEvtEvent

LEMMA ViewStep ==
    ASSUME IInv, TypeOK', ViewTyped, NEW i \in Ids, ViewIsTrue(i),
           [LogNext]_logVars
    PROVE  ViewIsTrue(i)'
<1>1. TypeOK /\ EventInv(i)
  BY DEF IInv
<1>2. SameAccounts(i) /\ view'[i] = view[i] => ViewIsTrue(i)'
  BY <1>1, ViewStays DEF SameAccounts
<1>3. CASE EmitNothing \/ UNCHANGED logVars
  <2>1. event' = event /\ ticket' = ticket /\ view' = view
    BY <1>3 DEF EmitNothing, Tick, Initialize, CreateSystemFeeTokenAccount,
                CreateEventTokenAccount, logVars
  <2> QED BY <1>1, <2>1, ViewStays
<1>4. CASE EmitDeploy
  <2>1. PICK u \in Users, id \in Ids, start \in Dates, end \in Dates,
             mint \in [Sides -> Assets], burning \in BOOLEAN :
          /\ DeployEvent(u, id, start, end, mint, burning)
          /\ ShowDeployed(DeployEvtEvent(u, id, start, end, mint, burning))
    BY <1>4 DEF EmitDeploy
  <2>2. CASE i = id
    BY <1>1, <2>1, <2>2, DeployIsShown
  <2>3. CASE i # id
    BY <1>1, <1>2, <2>1, <2>3, OtherEventsUntouched, OtherViewsStay
  <2> QED BY <2>2, <2>3
<1>5. ASSUME NEW u \in Users, NEW id \in Ids, NEW s \in Sides, NEW n \in Amounts,
             EmitVote(u, id, s, n)
      PROVE  ViewIsTrue(i)'
  <2>1. n \in Nat
    BY BoundsAssumption
  <2>2. /\ VoteWithTokens(u, id, s, n) \/ VoteWithLamports(u, id, s, n)
        /\ ShowVote(VoteEvtEvent(u, id, s, n))
    BY <1>5 DEF EmitVote
  <2>3. VoteOpen(id) /\ RecordVote(u, id, s, n)
    BY <2>2 DEF VoteWithTokens, VoteWithLamports
  <2>4. CASE i = id
    BY <1>1, <2>1, <2>2, <2>3, <2>4, VoteIsShown
  <2>5. CASE i # id
    <3>1. SameAccounts(i)
      BY <1>1, <2>1, <2>2, <2>5, OtherEventsUntouched
    <3>2. view'[i] = view[i]
      BY <2>2, <2>5, OtherViewsStay
    <3> QED BY <1>2, <3>1, <3>2
  <2> QED BY <2>4, <2>5
<1>6. ASSUME NEW u \in Users, NEW id \in Ids, NEW r \in Sides,
             EmitFinish(u, id, r)
      PROVE  ViewIsTrue(i)'
  <2>1. FinishEvent(u, id, r) /\ ShowResult(FinishEvtEvent(id, r))
    BY <1>6 DEF EmitFinish
  <2>2. CASE i = id
    BY <1>1, <2>1, <2>2, ResultIsShown
  <2>3. CASE i # id
    BY <1>1, <1>2, <2>1, <2>3, OtherEventsUntouched, OtherViewsStay
  <2> QED BY <2>2, <2>3
<1>7. ASSUME NEW u \in Users, NEW id \in Ids, NEW w \in Sides,
             EmitClaim(u, id, w) \/ EmitWithdraw(u, id, w)
      PROVE  ViewIsTrue(i)'
  <2>1. ClaimRewards(u, id, w) \/ WithdrawDeposited(u, id, w)
    BY <1>7 DEF EmitClaim, EmitWithdraw
  <2>2. CASE i = id
    BY <1>1, <1>7, <2>2, ClaimIsShown, WithdrawalIsShown
  <2>3. CASE i # id
    <3>1. SameAccounts(i)
      BY <1>1, <2>1, <2>3, OtherEventsUntouched
    <3>2. view'[i] = view[i]
      <4>1. \/ \E s : view' = [view EXCEPT ![id].paid[s]
                                 = @ + Reward(u, id, w)]
            \/ \E s : view' = [view EXCEPT ![id].paid[s]
                                 = @ + ticket[id][w][u].amount]
        BY <1>7 DEF EmitClaim, EmitWithdraw, ShowReward, ShowWithdrawal,
                    ClaimRewardsEvent, WithdrawEvent
      <4> QED BY <2>3, <4>1 DEF ViewTyped
    <3> QED BY <1>2, <3>1, <3>2
  <2> QED BY <2>2, <2>3
<1>8. ASSUME NEW u \in Users, NEW id \in Ids, NEW pools \in SUBSET Sides,
             EmitClose(u, id, pools)
      PROVE  ViewIsTrue(i)'
  <2>1. CloseEvent(u, id, pools) /\ ShowClosed(CloseEvtEvent(id))
    BY <1>8 DEF EmitClose
  <2>2. CASE i = id
    BY <1>1, <1>8, <2>2, ClosingIsShown
  <2>3. CASE i # id
    BY <1>1, <1>2, <2>1, <2>3, OtherEventsUntouched, OtherViewsStay
  <2> QED BY <2>2, <2>3
<1> QED BY <1>3, <1>4, <1>5, <1>6, <1>7, <1>8 DEF LogNext

(* Every record changes the view of one event. *)
LEMMA ViewIsOfTheIds ==
    ASSUME ViewTyped, [LogNext]_logVars
    PROVE  view' = [i \in Ids |-> view'[i]]
<1> DEFINE Shape == view' = [i \in Ids |-> view'[i]]
<1>1. UNCHANGED view => Shape
  BY DEF ViewTyped
<1>2. /\ \A e : ShowDeployed(e) => Shape
      /\ \A e : ShowVote(e) => Shape
      /\ \A e : ShowResult(e) => Shape
      /\ \A e : ShowClosed(e) => Shape
  BY DEF ViewTyped, ShowDeployed, ShowVote, ShowResult, ShowClosed
<1>3. /\ \A e : ShowReward(e) => Shape
      /\ \A e : ShowWithdrawal(e) => Shape
  BY DEF ViewTyped, ShowReward, ShowWithdrawal
<1> HIDE DEF Shape
<1>4. Shape
  BY <1>1, <1>2, <1>3
     DEF LogNext, EmitNothing, EmitDeploy, EmitVote, EmitFinish, EmitClaim,
         EmitWithdraw, EmitClose, logVars
<1> QED BY <1>4 DEF Shape

TrueViewsTyped == \A id \in Ids : Deployed(id) => TrueView(id) \in EventView

LEMMA TrueViewsAreTypedNext == TypeOK' => TrueViewsTyped'
<1>1. TypeOK => TrueViewsTyped
  BY TrueViewIsView DEF TrueViewsTyped
<1> QED BY <1>1, PTL

(***************************************************************************)
(* After every step the reader's view is the one that the program's own    *)
(* accounts give: who deployed what, every stake, the result, and all that *)
(* has been paid out of each side.                                         *)
(***************************************************************************)
THEOREM LogInvariant == LogSpec => []LogInv
<1>1. LogInit => LogInv
  <2> SUFFICES ASSUME LogInit PROVE LogInv
    OBVIOUS
  <2>1. Init /\ view = [id \in Ids |-> None]
    BY DEF LogInit
  <2>2. \A id \in Ids : event[id] = None
    BY <2>1 DEF Init
  <2> QED BY <2>1, <2>2, InvInit DEF LogInv, ViewIsTrue, Deployed, ViewTyped
<1>2. LogInv /\ [LogNext]_logVars => LogInv'
  <2> SUFFICES ASSUME LogInv, [LogNext]_logVars PROVE LogInv'
    OBVIOUS
  <2>1. IInv /\ IInv' /\ TypeOK' /\ ViewTyped
    BY LoggedStep, InvStep DEF LogInv, IInv
  <2>2. \A i \in Ids : ViewIsTrue(i)'
    BY <2>1, ViewStep DEF LogInv
  <2>3. \A i \in Ids : view'[i] \in EventView \cup {None}
    BY <2>1, <2>2, TrueViewsAreTypedNext DEF ViewIsTrue, TrueViewsTyped
  <2>4. ViewTyped'
    BY <2>1, <2>3, ViewIsOfTheIds DEF ViewTyped
  <2> QED BY <2>1, <2>2, <2>4 DEF LogInv
<1> QED BY <1>1, <1>2, PTL DEF LogSpec

----------------------------------------------------------------------------
(* What the records claim.                                                 *)

(* The pools need no record: they are the sums of the stakes. *)
LEMMA PoolsAreShown ==
    ASSUME TypeOK, NEW id \in Ids, EventInv(id), Deployed(id), ViewIsTrue(id),
           NEW s \in Sides
    PROVE  ShownPool(id, s) = event[id].pool[s]
<1>1. /\ view[id].result = event[id].result
      /\ view[id].amount = StakesOf(id)
  BY DEF ViewIsTrue, TrueView, ShownFields
<1>2. Over(view[id].amount[s]) = Staked(id, s)
  BY <1>1 DEF StakesOf, Staked
<1>3. PoolIsTicketSum(id, s)
  BY DEF EventInv
<1> QED BY <1>1, <1>2, <1>3 DEF ShownPool, PoolIsTicketSum, HasLost

(***************************************************************************)
(* Who reads nothing but the records knows every event: its terms, its     *)
(* result, every stake and the recorded pools, in every reachable state,   *)
(* and takes nothing of a closed event for its successor.                  *)
(***************************************************************************)
THEOREM LogShowsTheEventsAlways == LogSpec => []LogShowsTheEvents
<1>1. LogInv => LogShowsTheEvents
  <2> SUFFICES ASSUME LogInv, NEW id \in Ids
               PROVE  /\ Deployed(id) <=> view[id] # None
                      /\ Deployed(id) =>
                           /\ event[id] =
                                [creator |-> view[id].creator,
                                 start_date |-> view[id].start_date,
                                 end_date |-> view[id].end_date,
                                 pool |-> [s \in Sides |-> ShownPool(id, s)],
                                 mint |-> view[id].mint,
                                 result |-> view[id].result,
                                 burning |-> view[id].burning]
                           /\ \A s \in Sides, u \in Users :
                                 Stake(id, s, u) = view[id].amount[s][u]
    BY DEF LogShowsTheEvents
  <2>1. TypeOK /\ EventInv(id) /\ ViewIsTrue(id)
    BY DEF LogInv, IInv
  <2>2. Deployed(id) => TrueView(id) # None
    BY <2>1, TrueViewIsView, NoneIsNoView
  <2>3. Deployed(id) <=> view[id] # None
    BY <2>1, <2>2 DEF ViewIsTrue
  <2>4. ASSUME Deployed(id)
        PROVE  event[id] = [creator |-> view[id].creator,
                            start_date |-> view[id].start_date,
                            end_date |-> view[id].end_date,
                            pool |-> [s \in Sides |-> ShownPool(id, s)],
                            mint |-> view[id].mint,
                            result |-> view[id].result,
                            burning |-> view[id].burning]
    <3>1. event[id] \in PredictionEvent
      BY <2>1, <2>4 DEF TypeOK, Deployed
    <3>2. [s \in Sides |-> ShownPool(id, s)] = event[id].pool
      BY <2>1, <2>4, <3>1, PoolsAreShown DEF PredictionEvent
    <3>3. /\ view[id].creator = event[id].creator
          /\ view[id].start_date = event[id].start_date
          /\ view[id].end_date = event[id].end_date
          /\ view[id].mint = event[id].mint
          /\ view[id].result = event[id].result
          /\ view[id].burning = event[id].burning
      BY <2>1, <2>4 DEF ViewIsTrue, TrueView, ShownFields
    <3> QED BY <3>1, <3>2, <3>3 DEF PredictionEvent
  <2>5. ASSUME Deployed(id), NEW s \in Sides, NEW u \in Users
        PROVE  Stake(id, s, u) = view[id].amount[s][u]
    BY <2>1, <2>5 DEF ViewIsTrue, TrueView, ShownFields, StakesOf
  <2> QED BY <2>3, <2>4, <2>5
<1> QED BY <1>1, LogInvariant, PTL

(* What is held is what the records took in less what they paid out.       *)
LEMMA HoldingsAreShown ==
    ASSUME TypeOK, NEW id \in Ids, EventInv(id), Deployed(id), ViewIsTrue(id),
           NEW s \in Sides
    PROVE  IF Burns(id, s)
           THEN VaultAmount(id, s) = 0
           ELSE Held(id, s) = ShownPool(id, s) - view[id].paid[s]
<1> DEFINE w == Other(s)
<1>1. w \in Sides /\ w # s /\ Other(w) = s
  BY OtherIsSide
<1>2. /\ view[id].result = event[id].result
      /\ view[id].burning = event[id].burning
      /\ view[id].mint = event[id].mint
      /\ view[id].paid[s] = Paid(id, s)
  BY DEF ViewIsTrue, TrueView, ShownFields, PaymentsOf
<1>3. /\ SideHoldsItsStakes(id, s) /\ PoolIsTicketSum(id, s)
      /\ MarkedOnlyIfWon(id)
  BY DEF EventInv
<1>4. ShownPool(id, s) = event[id].pool[s] /\ event[id].pool[s] \in Nat
  BY PoolsAreShown, PoolsAreNat
<1>5. /\ Staked(id, s) \in Nat /\ StillToWithdraw(id, s) \in Nat
      /\ ClaimedBy(id, w) \in Nat
  BY <1>1, TotalsAreNat
<1>6. ~(HasWon(id, s) /\ HasLost(id, s))
  BY <1>1 DEF HasWon, HasLost
<1>7. CASE ~IsResultSet(id)
  <2>1. ~HasWon(id, s) /\ ~HasLost(id, s)
    BY <1>1, <1>7, NotNone DEF HasWon, HasLost, IsResultSet
  <2>2. Held(id, s) = Staked(id, s) /\ event[id].pool[s] = Staked(id, s)
    BY <1>3, <2>1 DEF SideHoldsItsStakes, PoolIsTicketSum
  <2> QED BY <1>2, <1>4, <1>5, <2>1, <2>2 DEF Burns, Paid, HasLost
<1>8. CASE HasWon(id, s)
  <2>1. IsResultSet(id) /\ ~HasLost(id, s)
    BY <1>6, <1>8, NotNone DEF HasWon, IsResultSet
  <2>2. Held(id, s) = StillToWithdraw(id, s) /\ event[id].pool[s] = Staked(id, s)
    BY <1>3, <1>8, <2>1 DEF SideHoldsItsStakes, PoolIsTicketSum
  <2>3. view[id].paid[s] = Staked(id, s) - StillToWithdraw(id, s)
    BY <1>2, <1>8 DEF Paid
  <2>4. ~Burns(id, s)
    BY <1>2, <2>1 DEF Burns, HasLost
  <2> QED BY <1>4, <1>5, <2>2, <2>3, <2>4
<1>9. CASE HasLost(id, s)
  <2>1. /\ IsResultSet(id) /\ ~HasWon(id, s)
        /\ view[id].paid[s] = ClaimedBy(id, w)
    BY <1>1, <1>2, <1>6, <1>9, NotNone DEF HasLost, IsResultSet, Paid
  <2>2. CASE ~event[id].burning
    <3>1. Held(id, s) = event[id].pool[s] - ClaimedBy(id, w)
      BY <1>3, <1>6, <1>9, <2>1, <2>2 DEF SideHoldsItsStakes
    <3> QED BY <1>2, <1>4, <2>1, <2>2, <3>1 DEF Burns
  <2>3. CASE event[id].burning /\ event[id].mint[s] # Native
    <3>1. VaultAmount(id, s) = 0
      BY <1>3, <1>6, <1>9, <2>1, <2>3 DEF SideHoldsItsStakes
    <3> QED BY <1>2, <1>9, <2>3, <3>1 DEF Burns, HasLost
  <2>4. CASE event[id].burning /\ event[id].mint[s] = Native
    <3>1. Held(id, s) = event[id].pool[s]
      BY <1>3, <1>6, <1>9, <2>1, <2>4 DEF SideHoldsItsStakes
    <3>2. ClaimedBy(id, w) = 0
      <4>1. \A v \in Users : HasTicket(id, w, v) => ~ticket[id][w][v].claimed
        BY <1>1, <1>3, <2>4 DEF MarkedOnlyIfWon
      <4> QED BY <1>1, <4>1, NothingClaimed DEF UnclaimedIsZero
    <3> QED BY <1>2, <1>4, <2>1, <2>4, <3>1, <3>2 DEF Burns
  <2> QED BY <2>2, <2>3, <2>4
<1>10. ~IsResultSet(id) \/ HasWon(id, s) \/ HasLost(id, s)
  <2>1. event[id] \in PredictionEvent
    BY DEF TypeOK, Deployed
  <2> QED BY <2>1 DEF PredictionEvent, IsResultSet, HasWon, HasLost, Sides, Other
<1> QED BY <1>7, <1>8, <1>9, <1>10

(***************************************************************************)
(* The records account for the money, to the unit: deposits, rewards and   *)
(* fees.  Only a burn has to be inferred, from the terms of the event.     *)
(***************************************************************************)
THEOREM LogShowsTheHoldingsAlways == LogSpec => []LogShowsTheHoldings
<1>1. LogInv => LogShowsTheHoldings
  BY HoldingsAreShown DEF LogInv, IInv, LogShowsTheHoldings
<1> QED BY <1>1, LogInvariant, PTL
=============================================================================
