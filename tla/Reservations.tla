---------------------------- MODULE Reservations ----------------------------
(***************************************************************************)
(* What a recorder promises about the reservations of send_feedback calls, *)
(* whichever adapter runs above it: a reservation is taken only while the  *)
(* recorder accepts calls, it is settled once, by a delivery or by giving  *)
(* it up, and a Close that has drained leaves none open.  Recorder (the    *)
(* mark3labs adapter) and OfficialCall (the official SDK) implement it.    *)
(***************************************************************************)
CONSTANT Token          \* reservations that may be taken

VARIABLES
    stage,              \* life of each reservation
    refusing,           \* the recorder is closed
    drained             \* some Close has found nothing open

ledgerVars == <<stage, refusing, drained>>

Stage == {"free", "held", "claimed", "delivered", "released"}
Open  == {t \in Token : stage[t] \in {"held", "claimed"}}

LedgerInit ==
    /\ stage = [t \in Token |-> "free"]
    /\ refusing = FALSE
    /\ drained = FALSE

Move(t, from, to) == stage[t] = from /\ stage' = [stage EXCEPT ![t] = to]

Take(t) ==
    /\ ~refusing
    /\ Move(t, "free", "held")
    /\ UNCHANGED <<refusing, drained>>

\* RecordReservedCapability wins the race for the reservation, or Release does.
Claim(t)   == Move(t, "held", "claimed")  /\ UNCHANGED <<refusing, drained>>
Release(t) == Move(t, "held", "released") /\ UNCHANGED <<refusing, drained>>

\* The POST of a claimed reservation returned, or there was nothing to post.
Deliver(t) == Move(t, "claimed", "delivered") /\ UNCHANGED <<refusing, drained>>
Abandon(t) == Move(t, "claimed", "released")  /\ UNCHANGED <<refusing, drained>>

Refuse == refusing' = TRUE /\ UNCHANGED <<stage, drained>>

Drain ==
    /\ refusing
    /\ Open = {}
    /\ drained' = TRUE
    /\ UNCHANGED <<stage, refusing>>

LedgerNext ==
    \/ \E t \in Token : Take(t) \/ Claim(t) \/ Release(t) \/ Deliver(t)
                            \/ Abandon(t)
    \/ Refuse
    \/ Drain

LedgerSpec == LedgerInit /\ [][LedgerNext]_ledgerVars

=============================================================================
