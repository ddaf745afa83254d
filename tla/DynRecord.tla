----------------------------- MODULE DynRecord -----------------------------
(***************************************************************************)
(* What the dynamic DNS service promises: an address record for each host, *)
(* which a client replaces by posting a new address.  A post is decided    *)
(* before the next one of the same host is accepted; rebuilding the zones  *)
(* changes no record.                                                      *)
(***************************************************************************)
CONSTANTS
  Hosts,
  V4,        \* the addresses that can be published
  Primary,   \* the address of a host that never posted
  Null

VARIABLES
  value,     \* value[d]: the records of host d, Null before it is created
  wanted     \* wanted[d]: the address that is being published, or Null

rvars == <<value, wanted>>

Init ==
  /\ value = [d \in Hosts |-> Null]
  /\ wanted = [d \in Hosts |-> Null]

(* A host that is not there appears, with the address of the server.       *)
Create(d) ==
  /\ value[d] = Null
  /\ value' = [value EXCEPT ![d] = {Primary}]
  /\ UNCHANGED wanted

(* A host disappears, between two posts.                                   *)
Drop(d) ==
  /\ wanted[d] = Null
  /\ value' = [value EXCEPT ![d] = Null]
  /\ UNCHANGED wanted

Accept(d, a) ==
  /\ value[d] # Null /\ wanted[d] = Null
  /\ wanted' = [wanted EXCEPT ![d] = a]
  /\ UNCHANGED value

Decide(d) ==
  /\ wanted[d] # Null
  /\ value' = [value EXCEPT ![d] = {wanted[d]}]
  /\ wanted' = [wanted EXCEPT ![d] = Null]

Next ==
  \E d \in Hosts :
    Create(d) \/ Drop(d) \/ Decide(d) \/ \E a \in V4 : Accept(d, a)

Spec ==
  /\ Init /\ [][Next]_rvars
  /\ \A d \in Hosts : WF_rvars(Decide(d))
=============================================================================
