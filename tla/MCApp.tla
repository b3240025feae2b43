-------------------------------- MODULE MCApp -------------------------------
(* Instances of App for TLC: the dns command with two listeners. *)
EXTENDS App

CONSTANTS udp, tcp, cmd, met

\* protocols: [udp, tcp], or the same protocol twice, which no check rejects.
MCNamings == {[j \in Jobs |-> j], [j \in Jobs |-> IF j = tcp THEN udp ELSE j]}
=============================================================================
