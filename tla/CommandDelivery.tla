--------------------------- MODULE CommandDelivery --------------------------
(***************************************************************************)
(* What a latest-wins command lane promises.  Requests for a target are    *)
(* numbered in the order in which they were accepted; a delivery carries   *)
(* out some request.  Deliveries never go back to an older request, never  *)
(* invent one and never repeat one, except after a restart of the          *)
(* receiver; an older request may be skipped for a newer one.              *)
(***************************************************************************)
EXTENDS Naturals

CONSTANTS Targets, Requests

VARIABLES requested,   \* the latest request of each target
          delivered,   \* the latest request carried out
          handled      \* how often the receiver carried each one out

vars == <<requested, delivered, handled>>

Fresh == [t \in Targets |-> [n \in Requests |-> 0]]

Init == /\ requested = [t \in Targets |-> 0]
        /\ delivered = [t \in Targets |-> 0]
        /\ handled = Fresh

Request(t) == /\ requested'[t] \in Requests /\ requested'[t] > requested[t]
              /\ requested' = [requested EXCEPT ![t] = requested'[t]]
              /\ UNCHANGED <<delivered, handled>>

Deliver(t) == \E n \in Requests :
                  /\ delivered[t] <= n /\ n <= requested[t]
                  /\ handled[t][n] = 0
                  /\ delivered' = [delivered EXCEPT ![t] = n]
                  /\ handled' = [handled EXCEPT ![t][n] = 1]
                  /\ UNCHANGED requested

Restart == handled' = Fresh /\ UNCHANGED <<requested, delivered>>

Next == (\E t \in Targets : Request(t) \/ Deliver(t)) \/ Restart

Spec == Init /\ [][Next]_vars
=============================================================================
