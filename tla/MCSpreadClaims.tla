---------------------------- MODULE MCSpreadClaims ----------------------------
(***************************************************************************)
(* The values the runs give the constants of SpreadClaims: two             *)
(* observations of two pairs, one of them dearer on Kalshi.                *)
(***************************************************************************)
EXTENDS SpreadClaims

CONSTANTS s1, s2

TwoObservations == {s1, s2}
TwoPairs == [o \in TwoObservations |-> IF o = s1 THEN "pair" ELSE "other"]
PairNames == {"pair", "other"}
KalshiCents == [o \in TwoObservations |-> IF o = s1 THEN 60 ELSE 40]
PolyCents == [o \in TwoObservations |-> 50]

==============================================================================
