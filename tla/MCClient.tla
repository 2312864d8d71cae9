------------------------------- MODULE MCClient -------------------------------
(* Two runs of the client at a time and one data server that runs, of two.   *)
(* MCClient.cfg has one name server, MCNameChecked.cfg two.                  *)
EXTENDS Client, TLC

CONSTANTS n1, n2, d1, d2

MCBody == n1 :> <<"x">> @@ n2 :> <<"y", Nul>>
MCCrc == n1 :> 4 @@ n2 :> 7

OnePair == [complete |-> TRUE, addrs |-> <<[master |-> "m1", slave |-> "s1"]>>]
TwoPairs == [OnePair EXCEPT !.addrs = Append(@, [master |-> "m2", slave |-> "s2"])]

MCDataFile == [complete |-> TRUE, addrs |-> <<d2, d1>>]

\* The clients have the list of the data servers, or their file is refused.
MCClientFiles == {MCDataFile, [MCDataFile EXCEPT !.complete = FALSE]}
=============================================================================
