----------------------------- MODULE MCPacketPath -----------------------------
(* Programs for the instance of PacketPath: what a P4 program does with a    *)
(* packet, as far as the main loop can tell.                                 *)
EXTENDS PacketPath

LOCAL Calling(calls, dest, early) ==
  [calls |-> calls, dest |-> dest, early |-> early, ipsec |-> FALSE]
LOCAL Encrypt == [type |-> "ENCRYPT", offset |-> 14, phase |-> 0, sync |-> FALSE]
LOCAL Decrypt == [type |-> "DECRYPT", offset |-> 14, phase |-> 1, sync |-> FALSE]
LOCAL Digest == [type |-> "MD5_HMAC", offset |-> 14, phase |-> 0, sync |-> TRUE]

Forward == Calling(<< >>, "same", FALSE)
Drop == Calling(<< >>, "drop", FALSE)
Flood == Calling(<< >>, "broadcast", FALSE)
Both == Calling(<<Encrypt, Decrypt>>, "same", TRUE)
Swapped == Calling(<<Decrypt, Encrypt>>, "drop", FALSE)
OnlyDecrypt == Calling(<<Decrypt>>, "same", TRUE)
Hmac == Calling(<<Digest>>, "same", TRUE)
DigestFirst == Calling(<<Digest, Encrypt>>, "drop", FALSE)

Ipsec == [calls |-> IpsecCalls, dest |-> "same", early |-> FALSE, ipsec |-> TRUE]

Some == {Forward, Flood, Both, Swapped, Ipsec, Hmac, DigestFirst}
Queues == <<0, 1>>
===============================================================================
