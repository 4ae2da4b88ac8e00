-------------------------- MODULE MCGatewayClient --------------------------
(* Instances of GatewayClient for TLC: who calls the client. *)
EXTENDS GatewayClient

CONSTANTS s1, s2, p1, p2, o1, o2

NoOne      == {}
OneServer  == {s1}
TwoServers == {s1, s2}
TwoPoppers == {p1, p2}
OnePopper  == {p1}
OneOpener  == {o1}
KcpOrEncryptedFirst == <<{"kcp", "encrypted"}, {"tcp", "kcp"}>>
OneOrBoth  == {{s1}, {s1, s2}}
TwoOpeners == {o1, o2}
=============================================================================
