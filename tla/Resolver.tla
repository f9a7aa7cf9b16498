------------------------------ MODULE Resolver ------------------------------
(***************************************************************************)
(* What resolve_ip (src/dnslookup.rs) promises its caller: one question at *)
(* a time, answered with the names of the address that was asked about or  *)
(* with none.                                                              *)
(***************************************************************************)
CONSTANTS Addr, NoAddr, NoNames

VARIABLES
  asking,       \* the address asked about, or NoAddr
  result        \* the last answer; an address stands for its names

Init == asking = NoAddr /\ result = NoNames

Ask(a) ==
  /\ asking = NoAddr
  /\ asking' = a /\ UNCHANGED result

Answer ==
  /\ asking # NoAddr
  /\ result' \in {asking, NoNames} /\ asking' = NoAddr

Next == Answer \/ \E a \in Addr : Ask(a)

Spec == Init /\ [][Next]_<<asking, result>>
=============================================================================
