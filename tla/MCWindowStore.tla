---------------------------- MODULE MCWindowStore ----------------------------
(* Time in units of five minutes: windowTTL, ten minutes, is 2; the spans of  *)
(* the default rules are 1 (velocidade-pix, 300 s), 2 (device-multiplo, 600 s) *)
(* and 12 (geoloc, 3600 s).                                                   *)
EXTENDS WindowStore, TLC

CONSTANTS c1, c2, t1, t2, t3, pix, card, d1, d2

MCTransactions == {t1, t2, t3}
MCCustomerOf == t1 :> c1 @@ t2 :> c1 @@ t3 :> c2
MCChannelOf == t1 :> pix @@ t2 :> card @@ t3 :> pix
MCDeviceOf == t1 :> d1 @@ t2 :> d2 @@ t3 :> NoDevice
MCKm == [a \in MCTransactions |-> [b \in MCTransactions |-> IF a = b THEN 0 ELSE 700]]
=============================================================================
