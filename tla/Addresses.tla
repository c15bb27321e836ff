----------------------------- MODULE Addresses -----------------------------
(***************************************************************************)
(* The tunnel's addresses (internal/wireguard/address.go), in an address   *)
(* space of Width bits: what netip's Prefix and Addr do with them, and how *)
(* the next client's address is found.                                     *)
(***************************************************************************)
EXTENDS Integers

CONSTANT Width     \* the number of bits of an address

ASSUME WidthAssumption == Width \in Nat

Addrs    == 0..(2^Width - 1)
NoAddr   == -1                        \* netip's zero Addr; a string that is none
Prefixes == [addr : Addrs, bits : 0..Width]
NoPrefix == [addr |-> NoAddr, bits |-> 0]   \* a string that is no prefix

Size(p)        == 2^(Width - p.bits)
Network(p, a)  == a - (a % Size(p))
Masked(p)      == [p EXCEPT !.addr = Network(p, @)]
Contains(p, a) == a # NoAddr /\ Network(p, a) = Network(p, p.addr)
Successor(a)   == IF a + 1 \in Addrs THEN a + 1 ELSE NoAddr

\* Only that both parse: nothing asks that the address is in the subnet.
WithPrefixOK(a, p) == a \in Addrs /\ p # NoPrefix

\* Mutant: the scan starts at the prefix as it was written, not at its network.
NextClientAddressUnmasked(p, used) ==
  LET scan[a \in Addrs \cup {NoAddr}] ==
        IF ~Contains(p, a) THEN NoAddr ELSE IF a \notin used THEN a ELSE scan[Successor(a)]
  IN IF p = NoPrefix THEN NoAddr ELSE scan[Successor(p.addr)]

\* The loop from the address after the network's own up to the last of the
\* prefix, the broadcast address like any other; NoAddr when none is free.
NextClientAddress(p, used) ==
  LET scan[a \in Addrs \cup {NoAddr}] ==
        IF ~Contains(p, a) THEN NoAddr ELSE IF a \notin used THEN a ELSE scan[Successor(a)]
  IN IF p = NoPrefix THEN NoAddr ELSE scan[Successor(Masked(p).addr)]
=============================================================================
