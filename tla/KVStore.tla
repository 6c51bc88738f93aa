------------------------------ MODULE KVStore ------------------------------
(***************************************************************************)
(* What HM4 promises a client: a map from keys to values.  One request is  *)
(* executed at a time.  A request is either applied, at one instant, or    *)
(* refused (the list answered ERROR_NO_MEMORY).  Flushing, saving, loading *)
(* tables and restarting are invisible.                                    *)
(***************************************************************************)
CONSTANTS Keys,     \* the keys clients use
          Vals,     \* the values clients store
          Missing,  \* what GET answers for a key that is not there
          NoReq     \* no request is being executed

VARIABLES db,       \* the map a client sees
          req       \* the request being executed, deleting is writing Missing

vars == <<db, req>>

Requests == [key : Keys, val : Vals \cup {Missing}]

Init == db = [k \in Keys |-> Missing] /\ req = NoReq

Request(r) == req = NoReq /\ req' = r /\ UNCHANGED db

Apply ==
    /\ req # NoReq
    /\ db' = [db EXCEPT ![req.key] = req.val]
    /\ req' = NoReq

Refuse == req # NoReq /\ req' = NoReq /\ UNCHANGED db

Next == (\E r \in Requests : Request(r)) \/ Apply \/ Refuse

Spec == Init /\ [][Next]_vars
=============================================================================
