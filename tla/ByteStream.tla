------------------------------ MODULE ByteStream ------------------------------
(***************************************************************************)
(* What a session promises the two hosts: what one hands its station comes *)
(* out at the other station whole, once and in order, as far as it has     *)
(* come (Action::Deliver, core/aether-link/src/granted.rs).                *)
(***************************************************************************)
EXTENDS Naturals, Sequences

CONSTANT Data
VARIABLES sent, delivered

Init == sent = <<>> /\ delivered = <<>>

\* The host hands its station more.
Put ==
  /\ \E d \in Data : sent' = Append(sent, d)
  /\ UNCHANGED delivered

\* The other station hands over more of it, as much as it has in order.
Deliver ==
  /\ \E n \in (Len(delivered) + 1) .. Len(sent) : delivered' = SubSeq(sent, 1, n)
  /\ UNCHANGED sent

Next == Put \/ Deliver
Spec == Init /\ [][Next]_<<sent, delivered>>
=============================================================================
