----------------------------- MODULE MCUdpServer -----------------------------
(***************************************************************************)
(* UdpServer with two clients of the format of client.c.  A datagram       *)
(* without three fields is that of a failed recvfrom.                      *)
(***************************************************************************)
EXTENDS UdpServer

MCClients == {"c1", "c2"}
MCText == [c1 |-> <<"n", ",", "i", ",", "1">>, c2 |-> <<"m", ",", "k", ",", "2", "0">>]
=============================================================================
