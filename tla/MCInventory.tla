----------------------------- MODULE MCInventory -----------------------------
(* Small instances of Inventory for TLC. *)
EXTENDS Inventory, TLC

CONSTANTS d1, d2, d3, p1, s1, www, addr

Sight(t, v, p) == [type |-> t, value |-> v, plugin |-> p]

MCDiscoveries == {<<Sight("subdomain", www, "subfinder")>>,
                  <<Sight("subdomain", www, "amass")>>,
                  <<Sight("subdomain", www, "assetfinder")>>,
                  <<Sight("hostname", www, "theharvester"), Sight("ip", addr, "theharvester")>>}
MCScans == {<<[host |-> www, port |-> 443]>>}
Found(v) == [addresses |-> <<addr, www>>, port |-> 443, version |-> v]
MCDetections == {<<Found("1.0"), Found("unknown")>>}
Interchangeable == Permutations(DiscoverySteps)
=============================================================================
