----------------------------- MODULE AddressPool -----------------------------
(***************************************************************************)
(* What a node's address allocator promises its callers, with no bitmap    *)
(* and no order of search: a pool of addresses, each owned by at most one  *)
(* pod, handed out while one is free and given back in any number at once. *)
(* NodeAllocator is shown to implement it.                                 *)
(***************************************************************************)
EXTENDS Integers

CONSTANTS Keys,        \* pods
          Addresses,   \* what can be owned
          Nobody       \* owner[k] of a pod that owns no address

VARIABLE owner         \* owner[k]: the address pod k owns, or Nobody

Owned == {owner[k] : k \in Keys} \ {Nobody}

Init == owner = [k \in Keys |-> Nobody]

\* A pod without an address claims one that nobody owns.
Claim(k) ==
  /\ owner[k] = Nobody
  /\ \E a \in Addresses \ Owned : owner' = [owner EXCEPT ![k] = a]

\* Any set of pods gives its addresses back.
Drop(K) == owner' = [k \in Keys |-> IF k \in K THEN Nobody ELSE owner[k]]

Next == (\E k \in Keys : Claim(k)) \/ (\E K \in SUBSET Keys : Drop(K))

Spec == Init /\ [][Next]_owner
==============================================================================
