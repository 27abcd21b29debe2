----------------------------- MODULE Rejections -----------------------------
(***************************************************************************)
(* Why an instruction is refused: the error that the accounts of the event *)
(* and of the ticket report.  Anchor first loads the accounts and then     *)
(* checks their constraints in the order of the struct, so the first one   *)
(* that fails decides.  Whoever sent the transaction learns only the error *)
(* and has to know whether it can help to send it again later.             *)
(***************************************************************************)
EXTENDS EventProtocolProperties

Accepted == "Accepted"

(* An account that cannot be loaded is reported before any constraint. *)
VoteRejection(id) ==
    IF ~Deployed(id) THEN "AccountNotInitialized"
    ELSE IF ~IsStarted(id) THEN "NotStartedEvent"
    ELSE IF IsFinished(id) THEN "FinishedEvent"
    ELSE IF IsResultSet(id) THEN "ResultAlreadySetEvent"
    ELSE Accepted

FinishRejection(u, id) ==
    IF ~Deployed(id) \/ fee[Native] = None THEN "AccountNotInitialized"
    ELSE IF u # event[id].creator THEN "ConstraintRaw"
    ELSE IF ~IsFinished(id) THEN "NotFinishedEvent"
    ELSE IF IsResultSet(id) THEN "ResultAlreadySetEvent"
    ELSE Accepted

(* The ticket of side w: its address must be the winning side's. *)
ClaimRejection(u, id, w) ==
    IF ~Deployed(id) \/ ~HasTicket(id, w, u) THEN "AccountNotInitialized"
    ELSE IF event[id].burning THEN "BurningEvent"
    ELSE IF ~IsResultSet(id) THEN "ResultNotSetEvent"
    ELSE IF event[id].result # w THEN "ConstraintSeeds"
    ELSE IF ticket[id][w][u].claimed THEN "AlreadyClaimed"
    ELSE Accepted

WithdrawRejection(u, id, w) ==
    IF ~Deployed(id) \/ ~HasTicket(id, w, u) THEN "AccountNotInitialized"
    ELSE IF ~IsResultSet(id) THEN "ResultNotSetEvent"
    ELSE IF event[id].result # w THEN "ConstraintSeeds"
    ELSE IF ticket[id][w][u].withdrawn THEN "AlreadyWithdrawn"
    ELSE Accepted

CloseRejection(u, id) ==
    IF ~Deployed(id) THEN "AccountNotInitialized"
    ELSE IF u # event[id].creator THEN "ConstraintRaw"
    ELSE IF IsStarted(id) THEN "StartedEvent"
    ELSE Accepted

----------------------------------------------------------------------------
(***************************************************************************)
(* An error that says something is over can be relied on: whoever has once *)
(* been refused with it will be refused with it for ever, although an event*)
(* can be closed and its id deployed again with other dates and terms.     *)
(* BurningEvent is such an error only because a ticket, which is loaded    *)
(* first, exists only once the event can no longer be closed.              *)
(***************************************************************************)
Final == {"FinishedEvent", "StartedEvent", "BurningEvent", "ConstraintSeeds",
          "ResultAlreadySetEvent", "AlreadyClaimed", "AlreadyWithdrawn"}

StaysIfFinal(before, after) == before \in Final => after = before

FinalRejectionsStay(id) ==
    /\ StaysIfFinal(VoteRejection(id), VoteRejection(id)')
    /\ \A u \in Users :
         /\ StaysIfFinal(FinishRejection(u, id), FinishRejection(u, id)')
         /\ StaysIfFinal(CloseRejection(u, id), CloseRejection(u, id)')
         /\ \A w \in Sides :
              /\ StaysIfFinal(ClaimRejection(u, id, w),
                              ClaimRejection(u, id, w)')
              /\ StaysIfFinal(WithdrawRejection(u, id, w),
                              WithdrawRejection(u, id, w)')

RejectionsAreFinal == [][\A id \in Ids : FinalRejectionsStay(id)]_vars
=============================================================================
