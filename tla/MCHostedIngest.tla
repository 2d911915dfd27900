---------------------------- MODULE MCHostedIngest ----------------------------
(* Small deployments for TLC.                                              *)
EXTENDS HostedIngest, TLC

CONSTANTS w1, w2, d1, d2, k1, k2, k3, e1, e2, x1, x2

(* Two raw bodies of one envelope, one that reuses its event id for other  *)
(* content, and one larger batch.                                          *)
MCBodies == {"plain", "spaced", "forged", "large"}
MCEventsOf ==
  [b \in Bodies |-> CASE b = "forged" -> {<<e1, x2>>}
                        [] b = "large" -> {<<e1, x1>>, <<e2, x1>>}
                        [] OTHER -> {<<e1, x1>>}]
MCResources == {"events", "bytes"}
Amount(n, m) == [x \in MCResources |-> IF x = "events" THEN n ELSE m]
MCCost ==
  [b \in Bodies |-> CASE b = "large" -> Amount(2, 2)
                        [] b = "spaced" -> Amount(1, 2)
                        [] OTHER -> Amount(1, 1)]
MCHome == [d \in Devices |-> w1]
MCTwoHomes == [d \in Devices |-> IF d = d1 THEN w1 ELSE w2]
MCMaxBatch == Amount(2, 2)
MCMaxMonthly == Amount(2, 3)
MCMaxLifetime == Amount(3, 4)
MCLegacySlots == {<<w1, k2>>}

(* k2 is the key with a legacy receipt.                                   *)
RaceSymmetry == Permutations(Requests) \cup Permutations({k1, k3})
===============================================================================
