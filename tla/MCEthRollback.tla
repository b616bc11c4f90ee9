--------------------------- MODULE MCEthRollback ---------------------------
(* Instances of EthRollback for TLC                                          *)
EXTENDS EthRollback, TLC

Symmetry == Permutations(Procs) \cup Permutations(Dogs \ {BootDog})

(* Forms with and without a gateway.  Octets have two bits.                  *)
Form(ip, mask, gateway) ==
    [ip |-> ip, mask |-> mask, gateway |-> gateway, dns |-> << >>, ipv6 |-> None]
Here == <<1, 2, 0, 1>>
Router == <<1, 2, 0, 3>>
Wide == <<3, 2>>                   \* the other octets are missing
Narrow == <<3, 3, 3, 3>>

(* The two that NetworkManager accepts differ in the mask and the gateway.   *)
MCForms ==
    { Form(Here, Wide, Router), Form(Here, Narrow, None),
      Form(<<1, 2>>, Wide, None),               \* refused by NetworkManager
      Form(Here, <<3, 1, 0, 0>>, None),         \* refused: not contiguous
      Form(Here, <<3, 4, 0, 0>>, None),
      Form(Here, <<2>>, None),
      Form(<<1, Junk, 0, 1>>, Wide, None),
      Form(Here, Wide, <<1, Junk>>),
      [Form(Here, Wide, None) EXCEPT !.dns = <<Router, <<Junk>> >>],
      [Form(Here, Wide, None) EXCEPT !.ipv6 =
          [colon |-> TRUE, hex |-> TRUE, len |-> 20, prefix |-> 129]] }

(* With several ports: a new address with the gateway, the old one without   *)
MCGatewayForms ==
    { Form(Here, Wide, Router), Form(Here, Narrow, Router),
      Form(Here, Wide, None) }

MCDelivered == Form(Here, Wide, Router)
=============================================================================
