----------------------------- MODULE DeliveryMC -----------------------------
(***************************************************************************)
(* Commands that share the header key "k": each control kind, and a pause  *)
(* with another reason, which reuses the key of the first.                 *)
(***************************************************************************)
EXTENDS Delivery

ControlRequests ==
  [kind : Kinds, key : {"k"}, reason : {"r"}]
    \cup {[kind |-> "pause", key |-> "k", reason |-> "other"]}
=============================================================================
