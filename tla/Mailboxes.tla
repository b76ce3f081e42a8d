----------------------------- MODULE Mailboxes -----------------------------
(***************************************************************************)
(* What an interrupt-IN endpoint promises to the code that fills it: a box *)
(* for one report.  A report that is put in an empty box reaches the host  *)
(* once, after those put before it, or it is lost.                         *)
(***************************************************************************)
EXTENDS Integers, Sequences

CONSTANTS Endpoints, Reports

VARIABLES box,       \* for each endpoint, the report that waits: <<>> or <<r>>
          delivered  \* for each endpoint, the reports the host has taken

vars == <<box, delivered>>

Init == box = [e \in Endpoints |-> <<>>] /\ delivered = [e \in Endpoints |-> <<>>]

Put(e) ==
  /\ box[e] = <<>>
  /\ \E r \in Reports : box' = [box EXCEPT ![e] = <<r>>]
  /\ UNCHANGED delivered

Take(e) ==
  /\ box[e] # <<>>
  /\ box' = [box EXCEPT ![e] = <<>>]
  /\ delivered' = [delivered EXCEPT ![e] = Append(@, box[e][1])]

Lose(e) ==
  /\ box[e] # <<>>
  /\ box' = [box EXCEPT ![e] = <<>>]
  /\ UNCHANGED delivered

Next == \E e \in Endpoints : Put(e) \/ Take(e) \/ Lose(e)

Spec == Init /\ [][Next]_vars
=============================================================================
