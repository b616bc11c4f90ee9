----------------------------- MODULE NetParams -----------------------------
(***************************************************************************)
(* The parameters of a network port, as nmcli.c checks and converts them:   *)
(* the form has a dotted mask, NetworkManager a prefix.                     *)
(*                                                                         *)
(* A dotted text is the sequence of what stands between its dots, a number  *)
(* or Junk (nothing, or something that is no number).  An IPv6 text is       *)
(* reduced to what its check looks at.  OctetBits is 8 in the code; all      *)
(* operators are about octets of any width.                                 *)
(***************************************************************************)
EXTENDS Naturals, Sequences

CONSTANTS OctetBits, Junk, None

ASSUME OctetAssumption == OctetBits \in Nat \ {0} /\ Junk \notin Nat

Octet == 0 .. 2 ^ OctetBits - 1
Width == 4 * OctetBits

(* Two octets are enough for this check. *)
valid_ipv4(s) == Len(s) \in 2 .. 4 /\ \A i \in 1 .. Len(s) : s[i] \in Octet

(* The number a dotted text stands for; octets that are missing are 0. *)
Value(s) ==
    LET v(i) == IF i =< Len(s) THEN s[i] ELSE 0
        base == 2 ^ OctetBits
    IN ((v(1) * base + v(2)) * base + v(3)) * base + v(4)

Bit(m, i) == (m \div 2 ^ i) % 2

(* The 1-bits are contiguous from the MSB. *)
valid_mask(s) ==
    /\ valid_ipv4(s)
    /\ \A i, j \in 0 .. Width - 1 : i < j /\ Bit(Value(s), j) = 0 => Bit(Value(s), i) = 0

(* Comma-separated; commas in a row or at an end are skipped. *)
valid_dns_list(list) == \A i \in 1 .. Len(list) : valid_ipv4(list[i])

valid_ipv6(s) == s.colon /\ s.hex /\ s.len =< 120 /\ s.prefix \in 1 .. 128

nmcli_validate_params(cfg) ==
    /\ valid_ipv4(cfg.ip)
    /\ valid_mask(cfg.mask)
    /\ cfg.gateway # None => valid_ipv4(cfg.gateway)
    /\ valid_dns_list(cfg.dns)
    /\ cfg.ipv6 # None => valid_ipv6(cfg.ipv6)

(* Count the leading 1-bits. *)
nmcli_mask_to_prefix(s) ==
    CHOOSE n \in 0 .. Width :
       /\ \A i \in 1 .. n : Bit(Value(s), Width - i) = 1
       /\ n < Width => Bit(Value(s), Width - n - 1) = 0

(* Shift all ones to the left, and write the octets. *)
prefix_to_mask(n) ==
    LET m == IF n = 0 THEN 0 ELSE ((2 ^ Width - 1) * 2 ^ (Width - n)) % 2 ^ Width
    IN [i \in 1 .. 4 |-> (m \div 2 ^ (Width - i * OctetBits)) % 2 ^ OctetBits]
=============================================================================
