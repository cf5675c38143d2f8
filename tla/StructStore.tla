------------------------------ MODULE StructStore -------------------------------
(***************************************************************************)
(* What a structure promises to the rest of the VM, and all that modules   *)
(* VM and Activation use of it for locals and globals: requests are served *)
(* one at a time, each takes effect once, nothing stored is ever lost, and *)
(* a lookup answers with NULL or with an object stored under the id.  It   *)
(* is not a map: several objects are under one id after it was set twice,  *)
(* and a lookup may miss an id that is there.                              *)
(***************************************************************************)
EXTENDS Naturals

CONSTANTS Ids, Objs, ConstNull, NULL

VARIABLES
  store,        \* the objects stored under each id
  req,          \* the request being served
  ret           \* the last answer

vars == <<store, req, ret>>

NoReq == [op |-> "none", id |-> 0, obj |-> NULL]
SetReq(id, obj) == [op |-> "set", id |-> id, obj |-> obj]

Init == store = [id \in Ids |-> {}] /\ req = NoReq /\ ret = NULL

Request ==
  /\ req = NoReq
  /\ \E id \in Ids :
       \/ \E obj \in Objs : req' = SetReq(id, obj)
       \/ \E op \in {"get", "delete"} : req' = [op |-> op, id |-> id, obj |-> NULL]
  /\ ret' = NULL /\ UNCHANGED store

\* A delete answers like a get and goes on to store hvm_const_null.
Answer ==
  /\ req.op \in {"get", "delete"}
  /\ ret' \in store[req.id] \cup {NULL}
  /\ req' = IF req.op = "get" THEN NoReq ELSE SetReq(req.id, ConstNull)
  /\ UNCHANGED store

Put ==
  /\ req.op = "set"
  /\ store' = [store EXCEPT ![req.id] = @ \cup {req.obj}]
  /\ req' = NoReq /\ UNCHANGED ret

Next == Request \/ Answer \/ Put

Spec == Init /\ [][Next]_vars
================================================================================
