----------------------------- MODULE MCNetwork -----------------------------
(* A small instance of Network for TLC: two leases, one without a gateway.  *)
EXTENDS Network

CONSTANTS NoGateway

MCAddrs == {"ip1", "ip2", "gw1", "dns1"}
MCLeases == { [ip |-> "ip1", gateway |-> "gw1", dns |-> {"dns1"}],
              [ip |-> "ip2", gateway |-> NoGateway, dns |-> {}] }
MCHosts == {"host1", "host2", "host name"}
MCInvalidHosts == {"host name"}
============================================================================
