----------------------------- MODULE MCCollector -----------------------------
(* Collector with two instances that have no subscribers, and with one that *)
(* has.                                                                      *)
EXTENDS Collector

CONSTANTS p1, p2, p3, s1

MCCasts == {{p1, p2}, {p3}}
MCVisited == {p3}
=============================================================================
