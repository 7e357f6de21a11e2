--------------------------- MODULE MCEntitlements ---------------------------
(* Instances of Entitlements for TLC. *)
EXTENDS Entitlements, TLC
CONSTANTS p, q, g, t1, t2

MCSources == {p, q, g}
MCTariffs == {t1, t2}
MCTariffOf == (g :> t2) @@ [s \in {p, q} |-> t1]
MCNone == {}

(* Two purchases of a month with different limits, a grant until 4. *)
Purchase(s, limit) == [source |-> s, rev |-> 0, tariff |-> t1, limit |-> limit, period |-> 1, until |-> 0]
Given(rev, until) == [source |-> g, rev |-> rev, tariff |-> t2, limit |-> 0, period |-> 0, until |-> until]
MCPurchases == {Purchase(p, 1), Purchase(q, 2)}
MCGrants == {Purchase(p, 1), Given(1, 4)}
MCRegrants == {Given(1, 4), Given(3, 3)}
MCRefund == {[source |-> p, rev |-> 1, tariff |-> t1]}
MCRefunds == {[source |-> s, rev |-> 1, tariff |-> t1] : s \in {p, q}}
MCSingleRevoke == {[source |-> g, rev |-> 2, tariff |-> t2]}
MCTariffRevoke == {[tariff |-> t2, sources |-> g :> 2]}
MCPurchaseRevoke == {[tariff |-> t1, sources |-> p :> 1]}
MCReset == {[source |-> g, rev |-> 1, tariff |-> t2]}
MCAccounts == {1, 2}
=============================================================================
