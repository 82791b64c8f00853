---------------------------- MODULE MCWebServer -----------------------------
(***************************************************************************)
(* The watchlist and the front door of the dashboard's server in one       *)
(* instance for TLC.  Their models share no state: "part" says which of    *)
(* them runs in a behaviour.                                               *)
(***************************************************************************)
EXTENDS MCWatchlist, FrontDoor

VARIABLE part
webVars == <<part, vars, doorVars>>

\* The one that does not run has one initial state.
WebInit ==
    /\ part \in {"watchlist", "door"}
    /\ part = "watchlist" \/ file = Nothing
    /\ Init /\ DoorInit

WebNext ==
    \/ part = "watchlist" /\ Next /\ UNCHANGED <<part, doorVars>>
    \/ part = "door" /\ DoorNext /\ UNCHANGED <<part, vars>>

\* The fairness of FairSpec and of DoorSpec
WebSpec ==
    /\ WebInit /\ [][WebNext]_webVars
    /\ \A t \in Thread : WF_vars(ThreadStep(t))
    /\ WF_doorVars(Tick)

\* Every variable of both has its type.
WebTypeOK == TypeOK /\ DoorTypeOK
=============================================================================
