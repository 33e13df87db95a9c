--------------------------- MODULE Network_proofs ---------------------------
(* Proofs about Network, for any leases, addresses, host names and bounds.   *)
EXTENDS Network, SequenceTheorems, WellFoundedInduction, TLAPS

AnyAddr == Addrs \cup {NoAddr, LinkLocalAddr}

Clients == [socket : {0, 1}, state : {"Idle", "Discovering", "Configured", "LinkLocal"},
            config : Leases \cup {NoLease}, elapsed : Nat]

SocketKinds == {"dhcp", "dns", "tcp closed", "tcp connecting", "icmp"}

Stacks == [addr : AnyAddr, route : AnyAddr, dns_servers : SUBSET Addrs, sockets : Seq(SocketKinds)]

Resolved(r, s) ==
  /\ s.dns_servers # {} => r.socket # 0
  /\ r.socket \in 0..Len(s.sockets)
  /\ r.socket # 0 => s.sockets[r.socket] = "dns"

\* The resolver's record, apart from its queries.
Resolvers(r) ==
  r = [socket |-> r.socket, servers |-> r.servers, pending |-> r.pending, next_id |-> r.next_id]

NetTypeOK ==
  /\ client \in Clients
  /\ lease \in Leases \cup {NoLease}
  /\ stack \in Stacks
  /\ Resolvers(resolver)

\* A client without a socket has done nothing yet, and an address that no
\* configuration accounts for is that of a client that is discovering again.
ClientInv ==
  /\ client.socket = 0 => client.config = NoLease /\ stack.addr = NoAddr
  /\ client.config = NoLease /\ stack.addr \notin {NoAddr, LinkLocalAddr} => client.state = "Discovering"

IInv ==
  /\ NetTypeOK
  /\ ClientInv
  /\ ClientMatchesStack
  /\ StaleAddressIsBounded
  /\ Resolved(resolver, stack)

-----------------------------------------------------------------------------
(* The operators.                                                           *)

\* A new socket goes behind those there are.
LEMMA SocketAdded ==
  ASSUME NEW s \in Stacks, NEW kind \in SocketKinds, NEW u, u = AddSocket(s, kind)
  PROVE  /\ u \in Stacks
         /\ u.addr = s.addr /\ u.route = s.route /\ u.dns_servers = s.dns_servers
         /\ Len(u.sockets) = Len(s.sockets) + 1
         /\ \A i \in 1..Len(s.sockets) : u.sockets[i] = s.sockets[i]
         /\ u.sockets[Len(s.sockets) + 1] = kind
<1>1. s.sockets \in Seq(SocketKinds)
  BY DEF Stacks
<1>2. PICK q : q = Append(s.sockets, kind)
  OBVIOUS
<1>3. /\ q \in Seq(SocketKinds)
      /\ Len(q) = Len(s.sockets) + 1
      /\ \A i \in 1..Len(s.sockets) : q[i] = s.sockets[i]
      /\ q[Len(s.sockets) + 1] = kind
  BY <1>1, <1>2
<1>4. u = [s EXCEPT !.sockets = q]
  BY <1>2 DEF AddSocket
<1>5. u \in Stacks /\ u.addr = s.addr /\ u.route = s.route /\ u.dns_servers = s.dns_servers /\ u.sockets = q
  BY <1>3, <1>4 DEF Stacks
<1> QED  BY <1>3, <1>5

\* DnsResolver::init keeps a resolver that has a socket, and gives one to a
\* resolver that finds servers (dns.rs, init).
LEMMA InitResolved ==
  ASSUME NEW s \in Stacks, NEW r, Resolvers(r),
         r.socket \in 0..Len(s.sockets),
         r.socket # 0 => s.sockets[r.socket] = "dns",
         NEW u, u = InitSocket(r, s), NEW v, v = init(r, s)
  PROVE  /\ u \in Stacks /\ Resolvers(v) /\ Resolved(v, u)
         /\ u.addr = s.addr /\ u.route = s.route /\ u.dns_servers = s.dns_servers
<1>0. Len(s.sockets) \in Nat
  BY DEF Stacks
<1>1. CASE CanInit(r, s)
  <2>1. u = AddSocket(s, "dns")
    BY <1>1 DEF InitSocket
  <2>2. v = [r EXCEPT !.socket = Len(s.sockets) + 1, !.servers = s.dns_servers]
    BY <1>1 DEF init
  <2>3. v.socket = Len(s.sockets) + 1 /\ Resolvers(v)
    BY <2>2 DEF Resolvers
  <2>4. /\ u \in Stacks
        /\ u.addr = s.addr /\ u.route = s.route /\ u.dns_servers = s.dns_servers
        /\ Len(u.sockets) = Len(s.sockets) + 1
        /\ u.sockets[Len(s.sockets) + 1] = "dns"
    <3>1. "dns" \in SocketKinds
      BY DEF SocketKinds
    <3> QED  BY <2>1, <3>1, SocketAdded
  <2> QED  BY <1>0, <2>3, <2>4 DEF Resolved
<1>2. CASE ~CanInit(r, s)
  <2>1. u = s /\ v = r
    BY <1>2 DEF init, InitSocket
  <2> QED  BY <1>2, <2>1 DEF CanInit, Resolved
<1> QED  BY <1>1, <1>2

\* NetworkStack::set_ip_config replaces the address, and the route if there is one.
LEMMA ConfigSet ==
  ASSUME NEW s \in Stacks, NEW ip \in AnyAddr, NEW gateway \in AnyAddr,
         NEW u, u = set_ip_config(s, ip, gateway)
  PROVE  /\ u \in Stacks
         /\ u.addr = ip /\ gateway \in {NoAddr, u.route}
         /\ u.dns_servers = s.dns_servers /\ u.sockets = s.sockets
  BY DEF set_ip_config, Stacks

-----------------------------------------------------------------------------
(* The initial state and the three tasks.                                   *)

\* The kernel starts with the invariant, whichever client it gives its tasks.
LEMMA InitIInv == Init => IInv
<1> SUFFICES ASSUME Init
             PROVE  IInv
  OBVIOUS
<1>1. PICK s : s = [addr |-> NoAddr, route |-> NoAddr, dns_servers |-> {}, sockets |-> <<>>]
  OBVIOUS
<1>2. s \in Stacks /\ Len(s.sockets) = 0
  BY <1>1 DEF Stacks, AnyAddr
<1>3. stack = AddSocket(s, "dhcp")
  BY <1>1 DEF Init
<1>4. /\ stack \in Stacks /\ Len(stack.sockets) = 1
      /\ stack.addr = NoAddr /\ stack.dns_servers = {}
  <2>1. "dhcp" \in SocketKinds
    BY DEF SocketKinds
  <2>2. s \in Stacks
    BY <1>2
  <2>3. PICK u : u = stack
    OBVIOUS
  <2>4. u = AddSocket(s, "dhcp")
    BY <1>3, <2>3
  <2>5. /\ u \in Stacks /\ Len(u.sockets) = Len(s.sockets) + 1
        /\ u.addr = s.addr /\ u.dns_servers = s.dns_servers
    BY <2>1, <2>2, <2>4, SocketAdded
  <2> QED  BY <1>1, <1>2, <2>3, <2>5
<1>5. client \in Clients /\ client.config = NoLease /\ client.state \in {"Idle", "Discovering"}
  <2>1. PICK c : c = IdleClient
    OBVIOUS
  <2>2. c \in Clients /\ c.config = NoLease /\ c.state = "Idle"
    BY <2>1 DEF IdleClient, Clients
  <2>3. PICK d : d = Discovering(c)
    OBVIOUS
  <2>4. d \in Clients /\ d.config = NoLease /\ d.state = "Discovering"
    BY <2>2, <2>3 DEF Discovering, Clients
  <2>5. PICK e : e = [d EXCEPT !.socket = 1]
    OBVIOUS
  <2>6. e \in Clients /\ e.config = NoLease /\ e.state = "Discovering"
    BY <2>4, <2>5 DEF Clients
  <2>7. client = c \/ client = e
    BY <2>1, <2>3, <2>5 DEF Init, StartedClient
  <2> QED  BY <2>2, <2>6, <2>7
<1>6. Resolvers(resolver) /\ resolver.socket = 0
  BY DEF Init, Resolvers
<1>7. NetTypeOK
  BY <1>4, <1>5, <1>6 DEF Init, NetTypeOK
<1>8. ClientInv /\ ClientMatchesStack /\ StaleAddressIsBounded
  BY <1>4, <1>5 DEF Init, ClientInv, ClientMatchesStack, StaleAddressIsBounded
<1>9. Resolved(resolver, stack)
  BY <1>4, <1>6 DEF Resolved
<1> QED  BY <1>7, <1>8, <1>9 DEF IInv

\* The network task moves the clock and lets smoltcp work (main.rs, task 1).
LEMMA NetworkStep ==
  ASSUME IInv, NetworkTask
  PROVE  IInv'
<1>1. PICK c : c = client'
  OBVIOUS
<1>2. /\ c \in Clients
      /\ c.socket = client.socket /\ c.state = client.state /\ c.config = client.config
  BY <1>1, NetworkAssumption DEF NetworkTask, tick, IInv, NetTypeOK, Clients
<1>3. lease' \in Leases \cup {NoLease} /\ (changed' \/ (lease' = lease /\ changed' = changed))
  BY DEF NetworkTask, DhcpTraffic, IInv, NetTypeOK
<1>4. UNCHANGED <<stack, resolver>> /\ turn' = "dhcp"
  BY DEF NetworkTask
<1>5. NetTypeOK'
  BY <1>1, <1>2, <1>3, <1>4 DEF IInv, NetTypeOK
<1>6. ClientInv' /\ StaleAddressIsBounded'
  BY <1>1, <1>2, <1>4 DEF IInv, ClientInv, StaleAddressIsBounded
<1>7. ClientMatchesStack'
  BY <1>1, <1>2, <1>3, <1>4 DEF IInv, ClientMatchesStack
<1>8. Resolved(resolver, stack)'
  BY <1>4 DEF IInv, Resolved
<1> QED  BY <1>5, <1>6, <1>7, <1>8 DEF IInv

\* The client falls back to a link-local address (dhcp.rs, fallback_to_link_local).
LEMMA FallbackStep ==
  ASSUME IInv, fallback_to_link_local, client.socket # 0, UNCHANGED lease, turn' = "terminal"
  PROVE  IInv'
<1>1. PICK c, u : c = client' /\ u = stack'
  OBVIOUS
<1>2. /\ c \in Clients
      /\ c.socket = client.socket /\ c.state = "LinkLocal" /\ c.config = client.config
  BY <1>1 DEF fallback_to_link_local, IInv, NetTypeOK, Clients
<1>3. /\ u \in Stacks
      /\ u.addr = LinkLocalAddr /\ u.dns_servers = stack.dns_servers /\ u.sockets = stack.sockets
  <2>1. stack \in Stacks /\ LinkLocalAddr \in AnyAddr /\ NoAddr \in AnyAddr
    BY DEF IInv, NetTypeOK, AnyAddr
  <2>2. u = set_ip_config(stack, LinkLocalAddr, NoAddr)
    BY <1>1 DEF fallback_to_link_local
  <2> QED  BY <2>1, <2>2, ConfigSet
<1>4. UNCHANGED <<changed, resolver, lease>>
  BY DEF fallback_to_link_local
<1>5. NetTypeOK'
  BY <1>1, <1>2, <1>3, <1>4 DEF IInv, NetTypeOK
<1>6. ClientInv' /\ StaleAddressIsBounded' /\ ClientMatchesStack'
  BY <1>1, <1>2, <1>3, <1>4 DEF IInv, ClientInv, StaleAddressIsBounded, ClientMatchesStack
<1>7. Resolved(resolver, stack)'
  BY <1>1, <1>3, <1>4 DEF IInv, Resolved
<1> QED  BY <1>5, <1>6, <1>7 DEF IInv

\* A lease is applied (dhcp.rs, poll; main.rs, handle_dhcp_event).
LEMMA ConfiguredStep ==
  ASSUME IInv, Configured, client.socket # 0, lease # NoLease, UNCHANGED lease, turn' = "terminal"
  PROVE  IInv'
<1>1. PICK c, u, v : c = client' /\ u = stack' /\ v = resolver'
  OBVIOUS
<1>2. lease \in [ip : Addrs, gateway : Addrs \cup {NoAddr}, dns : SUBSET Addrs]
  BY NetworkAssumption DEF IInv, NetTypeOK
<1>3. /\ c \in Clients
      /\ c.socket = client.socket /\ c.state = "Configured" /\ c.config = lease
  BY <1>1 DEF Configured, IInv, NetTypeOK, Clients
<1>4. PICK w : w = set_ip_config(stack, lease.ip, lease.gateway)
  OBVIOUS
<1>5. /\ w \in Stacks
      /\ w.addr = lease.ip /\ lease.gateway \in {NoAddr, w.route}
      /\ w.sockets = stack.sockets
  <2>1. stack \in Stacks /\ lease.ip \in AnyAddr /\ lease.gateway \in AnyAddr
    BY <1>2 DEF IInv, NetTypeOK, AnyAddr
  <2> QED  BY <1>4, <2>1, ConfigSet
<1>6. PICK s : s = [w EXCEPT !.dns_servers = lease.dns]
  OBVIOUS
<1>7. /\ s \in Stacks
      /\ s.addr = lease.ip /\ lease.gateway \in {NoAddr, s.route}
      /\ s.dns_servers = lease.dns /\ s.sockets = stack.sockets
  BY <1>2, <1>5, <1>6 DEF Stacks
<1>8. u = InitSocket(resolver, s) /\ v = init(resolver, s) /\ changed' = FALSE
  BY <1>1, <1>4, <1>6 DEF Configured
<1>9. Resolvers(resolver) /\ resolver.socket \in 0..Len(s.sockets)
      /\ (resolver.socket # 0 => s.sockets[resolver.socket] = "dns")
  BY <1>7 DEF IInv, NetTypeOK, Resolved
<1>10. /\ u \in Stacks /\ Resolvers(v) /\ Resolved(v, u)
       /\ u.addr = s.addr /\ u.route = s.route /\ u.dns_servers = s.dns_servers
  BY <1>7, <1>8, <1>9, InitResolved
<1>11. NetTypeOK'
  BY <1>1, <1>3, <1>10 DEF IInv, NetTypeOK
<1>12. ClientInv' /\ StaleAddressIsBounded'
  BY <1>1, <1>3 DEF IInv, ClientInv, StaleAddressIsBounded
<1>13. ClientMatchesStack'
  BY <1>1, <1>3, <1>7, <1>10 DEF ClientMatchesStack
<1> QED  BY <1>1, <1>10, <1>11, <1>12, <1>13 DEF IInv

\* A lease is lost (dhcp.rs, poll).
LEMMA DeconfiguredStep ==
  ASSUME IInv, Deconfigured, client.socket # 0, lease = NoLease, UNCHANGED lease, turn' = "terminal"
  PROVE  IInv'
<1>1. PICK c : c = client'
  OBVIOUS
<1>2. /\ c \in Clients /\ c.elapsed = 0
      /\ c.socket = client.socket /\ c.state = "Discovering" /\ c.config = NoLease
  BY <1>1 DEF Deconfigured, Discovering, IInv, NetTypeOK, Clients
<1>3. UNCHANGED <<stack, resolver, lease>> /\ changed' = FALSE
  BY DEF Deconfigured
<1>4. NetTypeOK'
  BY <1>1, <1>2, <1>3 DEF IInv, NetTypeOK
<1>5. ClientInv' /\ StaleAddressIsBounded' /\ ClientMatchesStack'
  BY <1>1, <1>2, <1>3, NetworkAssumption DEF IInv, ClientInv, StaleAddressIsBounded, ClientMatchesStack
<1>6. Resolved(resolver, stack)'
  BY <1>3 DEF IInv, Resolved
<1> QED  BY <1>4, <1>5, <1>6 DEF IInv

\* The DHCP task (main.rs, task 2).
LEMMA DhcpStep ==
  ASSUME IInv, DhcpTask
  PROVE  IInv'
<1>1. turn' = "terminal" /\ UNCHANGED lease
  BY DEF DhcpTask
<1>2. CASE client.socket # 0 /\ TimedOut /\ fallback_to_link_local
  BY <1>1, <1>2, FallbackStep
<1>3. CASE client.socket # 0 /\ lease # NoLease /\ Configured
  BY <1>1, <1>3, ConfiguredStep
<1>4. CASE client.socket # 0 /\ lease = NoLease /\ Deconfigured
  BY <1>1, <1>4, DeconfiguredStep
<1>5. CASE (client.socket = 0 \/ ~TimedOut) /\ UNCHANGED <<client, changed, stack, resolver>>
  <2>1. NetTypeOK' /\ ClientInv' /\ ClientMatchesStack' /\ Resolved(resolver, stack)'
    BY <1>1, <1>5 DEF IInv, NetTypeOK, ClientInv, ClientMatchesStack, Resolved, Resolvers
  <2>2. StaleAddressIsBounded'
    <3> SUFFICES ASSUME client.config = NoLease, stack.addr \notin {NoAddr, LinkLocalAddr}
                 PROVE  client.state = "Discovering" /\ client.elapsed <= LINK_LOCAL_TIMEOUT
      BY <1>5 DEF StaleAddressIsBounded
    <3>1. client.state = "Discovering" /\ client.socket # 0
      BY DEF IInv, ClientInv
    <3>2. client.elapsed \in Nat
      BY DEF IInv, NetTypeOK, Clients
    <3> QED  BY <1>5, <3>1, <3>2, NetworkAssumption DEF TimedOut
  <2> QED  BY <2>1, <2>2 DEF IInv
<1> QED  BY <1>2, <1>3, <1>4, <1>5 DEF DhcpTask

\* A step of the terminal that leaves client, lease and configuration alone.
LEMMA QuietStep ==
  ASSUME IInv, turn = "terminal", UNCHANGED <<client, lease, changed>>,
         stack' \in Stacks, stack'.addr = stack.addr, stack'.route = stack.route,
         stack'.dns_servers = stack.dns_servers,
         Resolvers(resolver'), Resolved(resolver', stack')
  PROVE  IInv'
<1>1. NetTypeOK'
  BY DEF IInv, NetTypeOK
<1>2. ClientInv' /\ StaleAddressIsBounded' /\ ClientMatchesStack'
  BY DEF IInv, ClientInv, StaleAddressIsBounded, ClientMatchesStack
<1> QED  BY <1>1, <1>2 DEF IInv

\* The dhcp renew command (dhcp.rs, renew).
LEMMA RenewStep ==
  ASSUME IInv, renew, turn = "terminal"
  PROVE  IInv'
<1>1. PICK c : c = client'
  OBVIOUS
<1>2. /\ c \in Clients /\ c.elapsed = client.elapsed
      /\ c.socket = client.socket /\ c.state = "Discovering" /\ c.config = client.config
  BY <1>1 DEF renew, Discovering, IInv, NetTypeOK, Clients
<1>3. UNCHANGED <<stack, resolver>> /\ lease' = NoLease /\ (changed' \/ (lease = NoLease /\ ~changed))
  BY DEF renew
<1>4. NetTypeOK'
  BY <1>1, <1>2, <1>3 DEF IInv, NetTypeOK
<1>5. ClientInv' /\ StaleAddressIsBounded' /\ ClientMatchesStack'
  BY <1>1, <1>2, <1>3 DEF IInv, ClientInv, StaleAddressIsBounded, ClientMatchesStack, renew
<1>6. Resolved(resolver, stack)'
  BY <1>3 DEF IInv, Resolved
<1> QED  BY <1>4, <1>5, <1>6 DEF IInv

\* The dns command (commands.rs, cmd_dns; dns.rs, resolve).
LEMMA DnsStep ==
  ASSUME IInv, NEW host, cmd_dns(host), turn = "terminal"
  PROVE  IInv'
<1>1. PICK u, r : u = stack' /\ r = init(resolver, stack)
  OBVIOUS
<1>2. u = InitSocket(resolver, stack)
  BY <1>1 DEF cmd_dns
<1>3. /\ u \in Stacks /\ Resolvers(r) /\ Resolved(r, u)
      /\ u.addr = stack.addr /\ u.route = stack.route /\ u.dns_servers = stack.dns_servers
  <2>1. /\ stack \in Stacks /\ Resolvers(resolver) /\ resolver.socket \in 0..Len(stack.sockets)
        /\ resolver.socket # 0 => stack.sockets[resolver.socket] = "dns"
    BY DEF IInv, NetTypeOK, Resolved
  <2> QED  BY <1>1, <1>2, <2>1, InitResolved
<1>4. Resolvers(resolver') /\ resolver'.socket = r.socket
  <2>1. CASE resolver' = r
    BY <1>3, <2>1
  <2>2. CASE resolver' # r
    <3>1. PICK i, q : resolver' = [r EXCEPT !.next_id = i, !.pending = q]
      BY <1>1, <2>2 DEF cmd_dns
    <3> QED  BY <1>3, <3>1 DEF Resolvers
  <2> QED  BY <2>1, <2>2
<1>5. Resolved(resolver', u)
  BY <1>3, <1>4 DEF Resolved
<1>6. UNCHANGED <<client, lease, changed>>
  BY DEF cmd_dns
<1> QED  BY <1>1, <1>3, <1>4, <1>5, <1>6, QuietStep

\* The connect and ping commands (commands.rs).
LEMMA SocketStep ==
  ASSUME IInv, NEW kind \in SocketKinds, OpenSocket(kind), turn = "terminal"
  PROVE  IInv'
<1>1. stack \in Stacks /\ Len(stack.sockets) \in Nat
  BY DEF IInv, NetTypeOK, Stacks
<1>2. PICK u : u = stack'
  OBVIOUS
<1>3. /\ u \in Stacks
      /\ u.addr = stack.addr /\ u.route = stack.route /\ u.dns_servers = stack.dns_servers
      /\ Len(u.sockets) = Len(stack.sockets) + 1
      /\ \A i \in 1..Len(stack.sockets) : u.sockets[i] = stack.sockets[i]
  BY <1>1, <1>2, SocketAdded DEF OpenSocket
<1>4. UNCHANGED <<client, lease, changed, resolver>>
  BY DEF OpenSocket
<1>5. Resolvers(resolver') /\ Resolved(resolver', u)
  BY <1>1, <1>3, <1>4 DEF IInv, NetTypeOK, Resolved
<1> QED  BY <1>2, <1>3, <1>4, <1>5, QuietStep

\* Polling for an answer, taking it and giving up a query (dns.rs) change only
\* the list of queries, and a panic not even that.
LEMMA QueryStep ==
  ASSUME IInv, turn = "terminal",
         PollResolver \/ \E q : get_result(q) \/ cancel(q)
  PROVE  IInv'
<1>1. UNCHANGED <<client, lease, changed, stack>>
  BY DEF PollResolver, get_result, TakeResult, Panic, cancel
<1>2. UNCHANGED resolver \/ \E v : resolver' = [resolver EXCEPT !.pending = v]
  BY DEF PollResolver, get_result, TakeResult, Panic, cancel, Forget
<1>3. Resolvers(resolver') /\ resolver'.socket = resolver.socket
  BY <1>2 DEF IInv, NetTypeOK, Resolvers
<1>4. Resolved(resolver', stack') /\ stack' \in Stacks
  BY <1>1, <1>3 DEF IInv, NetTypeOK, Resolved
<1> QED  BY <1>1, <1>3, <1>4, QuietStep

\* The terminal task (main.rs, task 3).
LEMMA TerminalStep ==
  ASSUME IInv, TerminalTask
  PROVE  IInv'
<1>1. turn = "terminal"
  BY DEF TerminalTask
<1>2. CASE OnlyPrints
  <2>1. stack' \in Stacks /\ Resolvers(resolver') /\ Resolved(resolver', stack')
    BY <1>2 DEF OnlyPrints, IInv, NetTypeOK
  <2> QED  BY <1>1, <1>2, <2>1, QuietStep DEF OnlyPrints
<1>3. CASE renew
  BY <1>1, <1>3, RenewStep
<1>4. CASE \E host \in Hosts : cmd_dns(host)
  BY <1>1, <1>4, DnsStep
<1>5. CASE cmd_connect \/ cmd_ping
  <2>1. PICK kind \in {"tcp closed", "tcp connecting", "icmp"} : OpenSocket(kind)
    BY <1>5 DEF cmd_connect, cmd_ping
  <2>2. kind \in SocketKinds
    BY DEF SocketKinds
  <2> QED  BY <1>1, <2>1, <2>2, SocketStep
<1>6. CASE PollResolver \/ \E q \in handles \cup spent : get_result(q) \/ cancel(q)
  BY <1>1, <1>6, QueryStep
<1> QED  BY <1>2, <1>3, <1>4, <1>5, <1>6 DEF TerminalTask

-----------------------------------------------------------------------------
\* The invariant holds in every state.
THEOREM Invariance == Spec => []IInv
<1>1. IInv /\ [Next]_vars => IInv'
  <2> SUFFICES ASSUME IInv, [Next]_vars
               PROVE  IInv'
    OBVIOUS
  <2>1. CASE UNCHANGED vars
    BY <2>1 DEF vars, IInv, NetTypeOK, ClientInv, ClientMatchesStack, StaleAddressIsBounded, Resolved, Resolvers
  <2>2. CASE Next
    BY <2>1, <2>2, NetworkStep, DhcpStep, TerminalStep DEF Next, Halt
  <2> QED  BY <2>1, <2>2
<1> QED  BY <1>1, InitIInv, PTL DEF Spec

\* What the DHCP client believes is what interface and socket hold (dhcp.rs).
THEOREM ClientIsRight == Spec => []ClientMatchesStack
<1>1. IInv => ClientMatchesStack
  BY DEF IInv
<1> QED  BY <1>1, Invariance, PTL

\* An address without a lease does not outlive the timeout (dhcp.rs, poll).
THEOREM StaleAddressesGo == Spec => []StaleAddressIsBounded
<1>1. IInv => StaleAddressIsBounded
  BY DEF IInv
<1> QED  BY <1>1, Invariance, PTL

\* Known DNS servers have a resolver with a socket of its own (dns.rs, init).
THEOREM ResolverIsReady == Spec => []ResolverFollowsDhcp
<1>1. IInv => ResolverFollowsDhcp
  BY DEF IInv, Resolved, ResolverFollowsDhcp
<1> QED  BY <1>1, Invariance, PTL
-----------------------------------------------------------------------------
(* The queries of the resolver.  The list and the slots are data of any     *)
(* length: each query is listed once, ids and slots are not shared, and the *)
(* slot of a query is in use for its host.  The list alone is not enough: a *)
(* cancelled query is no longer listed, and its handle may still be asked.  *)
(* So the invariant is about all handles whose answer was not given.        *)

USE ZenonT(20), SMTT(20)

Query == [id : Nat, slot : Nat, host : Hosts]
Slot == [host : Hosts, status : {"free", "pending", "completed", "failed"}]

NoRepeats(p) == \A i, j \in DOMAIN p : p[i] = p[j] => i = j

\* The slot of a query is in use, and for its host.
Owns(q, ss) == q.slot \in 1..Len(ss) /\ ss[q.slot].status # "free" /\ ss[q.slot].host = q.host

\* The list p, the handles hs and the slots ss agree, and n is an id to come.
QueriesOK(p, hs, ss, n) ==
  /\ p \in Seq(Query) /\ ss \in Seq(Slot) /\ n \in Nat
  /\ NoRepeats(p)
  /\ ToSet(p) \subseteq hs /\ hs \subseteq Query
  /\ \A q \in hs : Owns(q, ss) /\ q.id < n
  /\ \A q, r \in hs : q.slot = r.slot \/ q.id = r.id => q = r

QOK == QueriesOK(resolver.pending, handles, slots, resolver.next_id)

QInv == ~misused => turn # "panicked" /\ QOK

\* Fewer queries, which own their slots, are in order too.
LEMMA Fewer ==
  ASSUME NEW p, NEW hs, NEW ss, NEW n, QueriesOK(p, hs, ss, n),
         NEW gs, gs \subseteq hs,
         NEW v \in Seq(Query), NoRepeats(v), ToSet(v) \subseteq gs,
         NEW tt \in Seq(Slot), \A q \in gs : Owns(q, tt)
  PROVE  QueriesOK(v, gs, tt, n)
  BY DEF QueriesOK

\* A query of the list has an id, a slot and a host.
LEMMA Listed ==
  ASSUME NEW p \in Seq(Query)
  PROVE  /\ DOMAIN p = 1..Len(p) /\ Len(p) \in Nat
         /\ \A i \in 1..Len(p) : p[i] \in Query
         /\ ToSet(p) = {p[i] : i \in 1..Len(p)} /\ ToSet(p) \subseteq Query
<1>1. DOMAIN p = 1..Len(p) /\ Len(p) \in Nat
  BY LenProperties
<1>2. \A i \in 1..Len(p) : p[i] \in Query
  BY ElementOfSeq
<1> QED  BY <1>1, <1>2 DEF ToSet

-----------------------------------------------------------------------------
(* The loop of DnsResolver::poll.  There is a function that makes its       *)
(* steps, by induction on their number.                                     *)

\* A set with 0 that is closed under adding 1 has every natural number.
LEMMA SetInduction ==
  ASSUME NEW T, 0 \in T, \A n \in Nat : n \in T => n + 1 \in T
  PROVE  Nat \subseteq T
<1> SUFFICES ASSUME Nat \ T # {}
             PROVE  FALSE
  OBVIOUS
<1>1. PICK R : R = OpToRel(<, Nat)
  BY ZenonT(40)
<1>2. IsWellFoundedOn(R, Nat)
  BY <1>1, NatLessThanWellFounded, ZenonT(40)
<1>3. PICK m \in Nat \ T : \A k \in Nat \ T : ~(<<k, m>> \in R)
  BY <1>2, WFMin, ZenonT(40)
<1>4. \A k \in Nat \ T : ~(k < m)
  BY <1>1, <1>3, ZenonT(40) DEF OpToRel
<1>5. m # 0 /\ m - 1 \in Nat /\ m - 1 \notin Nat \ T
  BY <1>4, SMT
<1>6. (m - 1) + 1 = m
  BY SMT
<1> QED  BY <1>5, <1>6, ZenonT(20)

\* The i-th step of the loop, and a function that makes all of them up to m.
Body(g, i, p, done) ==
  IF i = 0 THEN <<>> ELSE IF p[i] \in done THEN g[i - 1] ELSE Append(g[i - 1], p[i])

Runs(g, m, p, done) == g = [i \in 0..m |-> Body(g, i, p, done)]

\* There is such a function for every number of steps.
LEMMA LoopRuns ==
  ASSUME NEW p, NEW done, NEW n \in Nat
  PROVE  \E g : Runs(g, n, p, done)
<1>1. PICK T : T = {m \in Nat : \E g : Runs(g, m, p, done)}
  OBVIOUS
<1>2. 0 \in T
  <2>1. 0 \in Nat /\ 0..0 = {0}
    BY SMT
  <2>2. PICK g : g = [i \in 0..0 |-> <<>>]
    OBVIOUS
  <2>3. \A i \in 0..0 : Body(g, i, p, done) = <<>>
    BY <2>1 DEF Body
  <2>4. Runs(g, 0, p, done)
    BY <2>2, <2>3 DEF Runs
  <2> QED  BY <1>1, <2>1, <2>4
<1>3. ASSUME NEW m \in Nat, m \in T
      PROVE  m + 1 \in T
  <2>1. PICK g : Runs(g, m, p, done)
    BY <1>1, <1>3
  <2>2. PICK h : h = [i \in 0..m + 1 |-> IF i \in 0..m THEN g[i] ELSE Body(g, i, p, done)]
    OBVIOUS
  <2>3. ASSUME NEW i \in 0..m + 1
        PROVE  h[i] = Body(h, i, p, done)
    <3>1. i # 0 => i - 1 \in 0..m /\ i - 1 \in 0..m + 1
      BY SMT
    <3>2. i # 0 => h[i - 1] = g[i - 1]
      BY <2>2, <3>1
    <3>3. Body(h, i, p, done) = Body(g, i, p, done)
      BY <3>2 DEF Body
    <3>4. i \in 0..m => g[i] = Body(g, i, p, done)
      BY <2>1 DEF Runs
    <3> QED  BY <2>2, <3>3, <3>4
  <2>4. Runs(h, m + 1, p, done)
    BY <2>2, <2>3 DEF Runs
  <2>5. m + 1 \in Nat
    BY SMT
  <2> QED  BY <1>1, <2>4, <2>5
<1>4. n \in T
  BY <1>2, <1>3, SetInduction
<1> QED  BY <1>1, <1>4

\* Kept is such a function.
LEMMA KeptRuns ==
  ASSUME NEW p \in Seq(Query), NEW done
  PROVE  Runs(Kept(p, done), Len(p), p, done)
<1>1. Len(p) \in Nat
  BY LenProperties
<1>2. PICK g : Runs(g, Len(p), p, done)
  BY <1>1, LoopRuns
<1>3. g = [i \in 0..Len(p) |->
             IF i = 0 THEN <<>> ELSE IF p[i] \in done THEN g[i - 1] ELSE Append(g[i - 1], p[i])]
  BY <1>2 DEF Runs, Body
<1>4. PICK f : f = Kept(p, done)
  OBVIOUS
<1>5. f = [i \in 0..Len(p) |->
             IF i = 0 THEN <<>> ELSE IF p[i] \in done THEN f[i - 1] ELSE Append(f[i - 1], p[i])]
  BY <1>3, <1>4, ZenonT(20) DEF Kept
<1>6. Runs(f, Len(p), p, done)
  BY <1>5 DEF Runs, Body
<1> QED  BY <1>4, <1>6

\* What is left after i queries: some of the first i, each once, none of `done`.
Part(u, i, p, done) ==
  /\ u \in Seq(Query) /\ NoRepeats(u)
  /\ \A q \in ToSet(u) : q \notin done /\ \E k \in 1..i : q = p[k]

\* A query that is not listed can be appended.
LEMMA Longer ==
  ASSUME NEW u \in Seq(Query), NoRepeats(u), NEW x \in Query, x \notin ToSet(u),
         NEW v, v = Append(u, x)
  PROVE  v \in Seq(Query) /\ NoRepeats(v) /\ ToSet(v) = ToSet(u) \cup {x}
<1>1. PICK n : n = Len(u)
  OBVIOUS
<1>2. /\ n \in Nat /\ v \in Seq(Query) /\ Len(v) = n + 1 /\ v[n + 1] = x
      /\ \A i \in 1..n : v[i] = u[i]
  BY <1>1, SMT
<1>3. /\ DOMAIN u = 1..n /\ ToSet(u) = {u[i] : i \in 1..n}
      /\ DOMAIN v = 1..n + 1 /\ ToSet(v) = {v[i] : i \in 1..n + 1}
  BY <1>1, <1>2, Listed
<1>4. n + 1 \in 1..n + 1 /\ \A i \in 1..n + 1 : i \in 1..n \/ i = n + 1
  BY <1>2, SMT
<1>5. \A i \in 1..n : i \in 1..n + 1
  BY <1>2, SMT
<1>6. \A i \in 1..n : u[i] # x
  BY <1>3
<1>7. NoRepeats(v)
  <2> SUFFICES ASSUME NEW i \in 1..n + 1, NEW j \in 1..n + 1, v[i] = v[j]
               PROVE  i = j
    BY <1>3 DEF NoRepeats
  <2>1. CASE i \in 1..n /\ j \in 1..n
    BY <1>2, <1>3, <2>1 DEF NoRepeats
  <2>2. CASE i = n + 1 \/ j = n + 1
    BY <1>2, <1>4, <1>6, <2>2
  <2> QED  BY <1>4, <2>1, <2>2
<1>8. ToSet(v) = ToSet(u) \cup {x}
  <2>1. \A q \in ToSet(v) : q \in ToSet(u) \cup {x}
    BY <1>2, <1>3, <1>4
  <2>2. \A q \in ToSet(u) \cup {x} : q \in ToSet(v)
    BY <1>2, <1>3, <1>4, <1>5
  <2> QED  BY <2>1, <2>2
<1> QED  BY <1>2, <1>7, <1>8

\* One more step of the loop.
LEMMA PartStep ==
  ASSUME NEW p \in Seq(Query), NoRepeats(p), NEW done, NEW i \in Nat, i + 1 <= Len(p),
         NEW u, Part(u, i, p, done), NEW v, v = IF p[i + 1] \in done THEN u ELSE Append(u, p[i + 1])
  PROVE  Part(v, i + 1, p, done)
<1>1. /\ i + 1 \in 1..Len(p) /\ i + 1 \in 1..i + 1
      /\ \A k \in 1..i : k \in 1..i + 1 /\ k \in 1..Len(p) /\ k # i + 1
  BY Listed, SMT
<1>2. p[i + 1] \in Query /\ DOMAIN p = 1..Len(p)
  BY <1>1, Listed
<1>3. CASE p[i + 1] \in done
  <2>1. v = u
    BY <1>3
  <2> QED  BY <1>1, <2>1 DEF Part
<1>4. CASE p[i + 1] \notin done
  <2>1. PICK x : x = p[i + 1]
    OBVIOUS
  <2>2. v = Append(u, x) /\ x \in Query /\ x \notin done
    BY <1>2, <1>4, <2>1
  <2>3. x \notin ToSet(u)
    <3>1. \A k \in 1..i : p[k] # p[i + 1]
      BY <1>1, <1>2 DEF NoRepeats
    <3> QED  BY <2>1, <3>1 DEF Part
  <2>4. v \in Seq(Query) /\ NoRepeats(v) /\ ToSet(v) = ToSet(u) \cup {x}
    BY <2>2, <2>3, Longer DEF Part
  <2>5. \A q \in ToSet(v) : q \notin done /\ \E k \in 1..i + 1 : q = p[k]
    BY <1>1, <2>1, <2>2, <2>4 DEF Part
  <2> QED  BY <2>4, <2>5 DEF Part
<1> QED  BY <1>3, <1>4

\* What the loop leaves (dns.rs, poll).
LEMMA LoopLeaves ==
  ASSUME NEW p \in Seq(Query), NoRepeats(p), NEW done, NEW v, v = Kept(p, done)[Len(p)]
  PROVE  v \in Seq(Query) /\ NoRepeats(v) /\ ToSet(v) \subseteq ToSet(p) \ done
<1>1. PICK f, n : f = Kept(p, done) /\ n = Len(p)
  OBVIOUS
<1>2. n \in Nat /\ Runs(f, n, p, done)
  BY <1>1, KeptRuns, LenProperties
<1>3. PICK T : T = {i \in Nat : i <= n => Part(f[i], i, p, done)}
  OBVIOUS
<1>4. 0 \in T
  <2>1. 0 \in Nat /\ 0 \in 0..n
    BY <1>2, SMT
  <2>2. f[0] = <<>>
    BY <1>2, <2>1 DEF Runs, Body
  <2>3. PICK e : e = f[0]
    OBVIOUS
  <2>4. e \in Seq(Query) /\ DOMAIN e = {}
    BY <2>2, <2>3, SMT
  <2>5. NoRepeats(e) /\ ToSet(e) = {}
    BY <2>4 DEF NoRepeats, ToSet
  <2>6. Part(e, 0, p, done)
    BY <2>4, <2>5 DEF Part
  <2> QED  BY <1>3, <2>1, <2>3, <2>6
<1>5. ASSUME NEW i \in Nat, i \in T
      PROVE  i + 1 \in T
  <2>1. i + 1 \in Nat /\ i + 1 # 0 /\ (i + 1) - 1 = i /\ (i + 1 <= n => i <= n /\ i + 1 \in 0..n)
    BY <1>2, SMT
  <2>2. ASSUME i + 1 <= n PROVE Part(f[i + 1], i + 1, p, done)
    <3>1. f[i + 1] = IF p[i + 1] \in done THEN f[i] ELSE Append(f[i], p[i + 1])
      BY <1>2, <2>1, <2>2 DEF Runs, Body
    <3>2. Part(f[i], i, p, done)
      BY <1>3, <1>5, <2>1, <2>2
    <3>3. PICK u, w : u = f[i] /\ w = f[i + 1]
      OBVIOUS
    <3>4. w = IF p[i + 1] \in done THEN u ELSE Append(u, p[i + 1])
      BY <3>1, <3>3
    <3>5. Part(u, i, p, done) /\ i + 1 <= Len(p)
      BY <1>1, <2>2, <3>2, <3>3
    <3>6. Part(w, i + 1, p, done)
      BY <3>4, <3>5, PartStep
    <3> QED  BY <3>3, <3>6
  <2> QED  BY <1>3, <2>1, <2>2
<1>6. n \in T
  BY <1>2, <1>4, <1>5, SetInduction
<1>7. n <= n
  BY <1>2, SMT
<1>8. Part(v, n, p, done)
  BY <1>1, <1>3, <1>6, <1>7
<1>9. \A k \in 1..n : p[k] \in ToSet(p)
  BY <1>1, Listed
<1> QED  BY <1>8, <1>9 DEF Part

-----------------------------------------------------------------------------
(* The other operators.                                                     *)

\* The list without one of its entries.
LEMMA Removed ==
  ASSUME NEW p \in Seq(Query), NoRepeats(p), NEW at \in 1..Len(p), NEW v, v = RemoveAt(p, at)
  PROVE  v \in Seq(Query) /\ NoRepeats(v) /\ ToSet(v) \subseteq ToSet(p) \ {p[at]}
<1>1. PICK n : n = Len(p)
  OBVIOUS
<1>2. n \in Nat /\ at \in 1..n /\ DOMAIN p = 1..n /\ ToSet(p) = {p[i] : i \in 1..n}
  BY <1>1, Listed
<1>3. PICK a, b : a = SubSeq(p, 1, at - 1) /\ b = SubSeq(p, at + 1, n)
  OBVIOUS
<1>4. a \in Seq(Query) /\ Len(a) = at - 1 /\ \A i \in 1..at - 1 : a[i] = p[i]
  BY <1>1, <1>2, <1>3, SMT
<1>5. b \in Seq(Query) /\ Len(b) = n - at /\ \A i \in 1..n - at : b[i] = p[at + i]
  BY <1>1, <1>2, <1>3, SMT
<1>6. v = a \o b
  BY <1>1, <1>3 DEF RemoveAt
<1>7. /\ v \in Seq(Query) /\ Len(v) = n - 1
      /\ \A i \in 1..n - 1 : v[i] = IF i < at THEN p[i] ELSE p[i + 1]
  <2>1. /\ v \in Seq(Query) /\ Len(v) = Len(a) + Len(b)
        /\ \A i \in 1..Len(a) + Len(b) : v[i] = IF i <= Len(a) THEN a[i] ELSE b[i - Len(a)]
    BY <1>4, <1>5, <1>6, ConcatProperties
  <2>2. Len(a) + Len(b) = n - 1
    BY <1>2, <1>4, <1>5, SMT
  <2>3. ASSUME NEW i \in 1..n - 1, i < at  PROVE  v[i] = p[i]
    <3>1. i \in 1..at - 1 /\ i <= Len(a)
      BY <1>2, <1>4, <2>3, SMT
    <3>2. v[i] = a[i]
      BY <2>1, <2>2, <3>1
    <3> QED  BY <1>4, <3>1, <3>2
  <2>4. ASSUME NEW i \in 1..n - 1, ~(i < at)  PROVE  v[i] = p[i + 1]
    <3>1. /\ ~(i <= Len(a)) /\ i - Len(a) \in 1..n - at
          /\ at + (i - Len(a)) = i + 1
      BY <1>2, <1>4, <2>4, SMT
    <3>2. v[i] = b[i - Len(a)]
      BY <2>1, <2>2, <3>1
    <3>3. b[i - Len(a)] = p[at + (i - Len(a))]
      BY <1>5, <3>1
    <3> QED  BY <3>1, <3>2, <3>3
  <2> QED  BY <2>1, <2>2, <2>3, <2>4
<1>8. PICK f : f = [i \in 1..n - 1 |-> IF i < at THEN i ELSE i + 1]
  OBVIOUS
<1>9. \A i \in 1..n - 1 : f[i] \in 1..n /\ f[i] # at /\ \A j \in 1..n - 1 : f[i] = f[j] => i = j
  BY <1>2, <1>8, SMT
<1>10. \A i \in 1..n - 1 : v[i] = p[f[i]]
  BY <1>7, <1>8
<1>11. DOMAIN v = 1..n - 1 /\ ToSet(v) = {v[i] : i \in 1..n - 1}
  BY <1>7, Listed
<1>12. NoRepeats(v)
  BY <1>2, <1>9, <1>10, <1>11, SMTT(30) DEF NoRepeats
<1>13. \A i \in 1..n - 1 : v[i] \in ToSet(p) /\ v[i] # p[at]
  BY <1>2, <1>9, <1>10, SMTT(30) DEF NoRepeats
<1> QED  BY <1>7, <1>11, <1>12, <1>13

\* Every set of numbers that is not empty has a least one.
LEMMA Least ==
  ASSUME NEW S, S \subseteq Nat, S # {}
  PROVE  \E m \in S : \A k \in S : ~(k < m)
<1>1. PICK R : R = OpToRel(<, Nat)
  BY ZenonT(40)
<1>2. IsWellFoundedOn(R, Nat)
  BY <1>1, NatLessThanWellFounded, ZenonT(40)
<1>3. PICK m \in S : \A k \in S : ~(<<k, m>> \in R)
  BY <1>2, WFMin, ZenonT(40)
<1> QED  BY <1>1, <1>3, ZenonT(40) DEF OpToRel

\* A slot for a new query is free, or behind the others.
LEMMA FreeSlotIs ==
  ASSUME NEW ss \in Seq(Slot), NEW at, at = FreeSlot(ss)
  PROVE  at \in 1..Len(ss) + 1 /\ (at \in 1..Len(ss) => ss[at].status = "free")
<1>1. PICK n : n = Len(ss)
  OBVIOUS
<1>2. n \in Nat /\ DOMAIN ss = 1..n
  BY <1>1, LenProperties
<1>3. PICK S : S = {i \in 1..n + 1 : i \in 1..n => ss[i].status = "free"}
  OBVIOUS
<1>4. n + 1 \in 1..n + 1 /\ n + 1 \notin 1..n /\ 1..n + 1 \subseteq Nat
  BY <1>2, SMT
<1>5. PICK m \in S : \A k \in S : ~(k < m)
  <2>1. S \subseteq Nat /\ S # {}
    BY <1>3, <1>4
  <2> QED  BY <2>1, Least
<1>6. \A j \in 1..m - 1 : j \in 1..n + 1 /\ j \in 1..n /\ j < m
  <2>1. m \in 1..n + 1
    BY <1>3
  <2> QED  BY <1>2, <2>1, SMT
<1>7. \A j \in 1..m - 1 : ss[j].status # "free"
  BY <1>3, <1>5, <1>6
<1>8. /\ m \in 1..Len(ss) + 1 /\ (m \in DOMAIN ss => ss[m].status = "free")
      /\ \A j \in 1..m - 1 : ss[j].status # "free"
  BY <1>1, <1>2, <1>3, <1>7
<1>9. /\ at \in 1..Len(ss) + 1 /\ (at \in DOMAIN ss => ss[at].status = "free")
  BY <1>8 DEF FreeSlot
<1> QED  BY <1>1, <1>2, <1>9

\* A function on 1..k is a sequence of length k.
LEMMA SlotsAre ==
  ASSUME NEW k \in Nat, NEW u \in [1..k -> Slot]
  PROVE  u \in Seq(Slot) /\ Len(u) = k
  BY SMT

\* Freed slots keep their hosts, and the others stay as they are.
LEMMA Freed ==
  ASSUME NEW ss \in Seq(Slot), NEW done, NEW tt, tt = Free(ss, done)
  PROVE  tt \in Seq(Slot) /\ Len(tt) = Len(ss) /\ \A i \in 1..Len(ss) : i \notin done => tt[i] = ss[i]
<1>1. PICK n : n = Len(ss)
  OBVIOUS
<1>2. n \in Nat /\ DOMAIN ss = 1..n /\ \A i \in 1..n : ss[i] \in Slot
  BY <1>1, LenProperties, ElementOfSeq
<1>3. tt = [i \in 1..n |-> IF i \in done THEN [ss[i] EXCEPT !.status = "free"] ELSE ss[i]]
  BY <1>2 DEF Free
<1>4. \A x \in Slot : [x EXCEPT !.status = "free"] \in Slot
  BY SMT DEF Slot
<1>5. tt \in [1..n -> Slot]
  BY <1>2, <1>3, <1>4
<1>6. tt \in Seq(Slot) /\ Len(tt) = n
  BY <1>2, <1>5, SMT
<1> QED  BY <1>1, <1>3, <1>6

-----------------------------------------------------------------------------
(* The steps that touch the queries.                                        *)

\* An answer, or that there is none, reaches a slot (stack.rs, poll).
LEMMA TrafficKeepsQueries ==
  ASSUME QOK, DnsTraffic, UNCHANGED <<resolver, handles>>
  PROVE  QOK'
<1>1. CASE UNCHANGED slots
  BY <1>1 DEF QOK
<1>2. CASE ~UNCHANGED slots
  <2>1. PICK i \in DOMAIN slots, status \in {"completed", "failed"} :
          slots' = [slots EXCEPT ![i].status = status]
    BY <1>2 DEF DnsTraffic
  <2>2. PICK ss, tt, x : ss = slots /\ tt = slots' /\ x = [slots[i] EXCEPT !.status = status]
    OBVIOUS
  <2>3. PICK n : n = Len(ss)
    OBVIOUS
  <2>4. ss \in Seq(Slot) /\ n \in Nat /\ DOMAIN ss = 1..n /\ i \in 1..n
    BY <2>2, <2>3, LenProperties DEF QOK, QueriesOK
  <2>5. \A k \in 1..n : ss[k] \in Slot
    BY <2>3, <2>4, ElementOfSeq
  <2>6. x \in Slot /\ x.host = ss[i].host /\ x.status # "free"
    <3>1. ss[i] \in Slot
      BY <2>4, <2>5
    <3> QED  BY <2>2, <3>1, SMT DEF Slot
  <2>7. tt = [ss EXCEPT ![i] = x]
    BY <2>1, <2>2
  <2>8. tt \in [1..n -> Slot] /\ \A k \in 1..n : tt[k] = IF k = i THEN x ELSE ss[k]
    <3>1. ss \in [1..n -> Slot]
      BY <2>3, <2>4, LenProperties
    <3> QED  BY <2>4, <2>6, <2>7, <3>1
  <2>9. tt \in Seq(Slot) /\ Len(tt) = n
    BY <2>4, <2>8, SMT
  <2>10. \A q \in handles : Owns(q, ss)
    BY <2>2 DEF QOK, QueriesOK
  <2>11. \A q \in handles : Owns(q, tt)
    BY <2>3, <2>6, <2>8, <2>9, <2>10 DEF Owns
  <2>12. QueriesOK(resolver.pending, handles, tt, resolver.next_id)
    BY <2>9, <2>11 DEF QOK, QueriesOK
  <2> QED  BY <2>2, <2>12 DEF QOK
<1> QED  BY <1>1, <1>2

\* init leaves the queries alone (dns.rs, init).
LEMMA InitKeepsQueries ==
  ASSUME NEW r, Resolvers(r), NEW s, NEW v, v = init(r, s)
  PROVE  v.pending = r.pending /\ v.next_id = r.next_id
<1>1. CASE CanInit(r, s)
  <2>1. v = [r EXCEPT !.socket = Len(s.sockets) + 1, !.servers = s.dns_servers]
    BY <1>1 DEF init
  <2> QED  BY <2>1, SMT DEF Resolvers
<1>2. CASE ~CanInit(r, s)
  BY <1>2 DEF init
<1> QED  BY <1>1, <1>2

\* Owning a slot depends on the slot alone.
LEMMA SlotKept ==
  ASSUME NEW q, NEW ss, NEW tt, Owns(q, ss), Len(tt) = Len(ss), tt[q.slot] = ss[q.slot]
  PROVE  Owns(q, tt)
  BY DEF Owns

\* The loop never meets a free slot.
LEMMA NoFreeSlotMet ==
  ASSUME QOK
  PROVE  ~MeetsFreeSlot
<1>1. PICK p : p = resolver.pending
  OBVIOUS
<1>2. /\ p \in Seq(Query) /\ NoRepeats(p) /\ ToSet(p) \subseteq handles
      /\ \A q \in handles : Owns(q, slots)
      /\ \A q, r \in handles : q.slot = r.slot => q = r
  BY <1>1 DEF QOK, QueriesOK
<1>3. DOMAIN p = 1..Len(p) /\ Len(p) \in Nat /\ \A i \in 1..Len(p) : p[i] \in handles
  BY <1>2, Listed
<1>4. ASSUME NEW i \in DOMAIN p, slots[p[i].slot].status = "free"
      PROVE  FALSE
  BY <1>2, <1>3, <1>4 DEF Owns
<1>5. ASSUME NEW i \in DOMAIN p, NEW j \in 1..i - 1, p[j].slot = p[i].slot
      PROVE  FALSE
  <2>1. j \in 1..Len(p) /\ i \in 1..Len(p) /\ i # j
    BY <1>3, SMT
  <2>2. p[j] = p[i]
    BY <1>2, <1>3, <1>5, <2>1
  <2> QED  BY <1>2, <1>3, <2>1, <2>2 DEF NoRepeats
<1> QED  BY <1>1, <1>4, <1>5 DEF MeetsFreeSlot

\* The finished queries are reported, and their slots freed (dns.rs, poll).
LEMMA PollKeepsQueries ==
  ASSUME QOK, Resolvers(resolver), PollResolver
  PROVE  QOK' /\ turn' = "net"
<1>0. ~MeetsFreeSlot
  BY NoFreeSlotMet
<1>1. PICK p, n, ss, tt, hs, gs :
        /\ p = resolver.pending /\ n = resolver.next_id /\ ss = slots /\ tt = slots'
        /\ hs = handles /\ gs = handles'
  OBVIOUS
<1>2. /\ QueriesOK(p, hs, ss, n) /\ p \in Seq(Query) /\ ss \in Seq(Slot) /\ NoRepeats(p)
      /\ ToSet(p) \subseteq hs
  BY <1>1 DEF QOK, QueriesOK
<1>3. PICK done, freed : done = {q \in ToSet(p) : Answered(q)} /\ freed = {q.slot : q \in done}
  OBVIOUS
<1>4. PICK v : v = Kept(p, done)[Len(p)]
  OBVIOUS
<1>5. resolver' = [resolver EXCEPT !.pending = v] /\ tt = Free(ss, freed) /\ gs = hs \ done /\ turn' = "net"
  BY <1>0, <1>1, <1>3, <1>4 DEF PollResolver, Spend
<1>6. resolver'.pending = v /\ resolver'.next_id = n
  <2>1. PICK u : u = resolver'
    OBVIOUS
  <2>2. u.pending = v /\ u.next_id = resolver.next_id
    BY <1>5, <2>1, SMT DEF Resolvers
  <2> QED  BY <1>1, <2>1, <2>2
<1>7. v \in Seq(Query) /\ NoRepeats(v) /\ ToSet(v) \subseteq ToSet(p) \ done
  BY <1>2, <1>4, LoopLeaves, SMTT(30)
<1>8. tt \in Seq(Slot) /\ Len(tt) = Len(ss) /\ \A i \in 1..Len(ss) : i \notin freed => tt[i] = ss[i]
  BY <1>2, <1>5, Freed
<1>9. ASSUME NEW q \in gs
      PROVE  Owns(q, tt)
  <2>1. q \in hs /\ q \notin done
    BY <1>5
  <2>2. q.slot \notin freed
    <3> SUFFICES ASSUME NEW r \in done, q.slot = r.slot PROVE FALSE
      BY <1>3
    <3>1. r \in hs
      BY <1>2, <1>3
    <3>2. q = r
      BY <1>2, <2>1, <3>1 DEF QueriesOK
    <3> QED  BY <2>1, <3>2
  <2>3. Owns(q, ss)
    BY <1>2, <2>1 DEF QueriesOK
  <2>4. tt[q.slot] = ss[q.slot]
    BY <1>8, <2>2, <2>3 DEF Owns
  <2> QED  BY <1>8, <2>3, <2>4, SlotKept
<1>10. gs \subseteq hs /\ ToSet(v) \subseteq gs
  BY <1>2, <1>5, <1>7
<1>11. QueriesOK(v, gs, tt, n)
  BY <1>2, <1>7, <1>8, <1>9, <1>10, Fewer
<1> QED  BY <1>1, <1>5, <1>6, <1>11 DEF QOK

\* get_result and cancel remove at most one entry, and the query's own if it is live.
LEMMA Forgotten ==
  ASSUME QOK, Resolvers(resolver), NEW q, Forget(q)
  PROVE  /\ resolver'.pending \in Seq(Query) /\ NoRepeats(resolver'.pending)
         /\ ToSet(resolver'.pending) \subseteq ToSet(resolver.pending)
         /\ q \in handles => q \notin ToSet(resolver'.pending)
         /\ resolver'.next_id = resolver.next_id
<1>1. PICK p : p = resolver.pending
  OBVIOUS
<1>2. /\ p \in Seq(Query) /\ NoRepeats(p) /\ ToSet(p) \subseteq handles
      /\ \A x, y \in handles : x.id = y.id => x = y
  BY <1>1 DEF QOK, QueriesOK
<1>3. DOMAIN p = 1..Len(p) /\ Len(p) \in Nat /\ ToSet(p) = {p[i] : i \in 1..Len(p)}
  BY <1>2, Listed
<1>4. q \in handles => \A i \in 1..Len(p) : p[i].id = q.id => p[i] = q
  BY <1>2, <1>3
<1>5. CASE \E i \in DOMAIN p : p[i].id = q.id
  <2>1. PICK S : S = {i \in 1..Len(p) : p[i].id = q.id}
    OBVIOUS
  <2>2. PICK k \in S : \A j \in S : ~(j < k)
    <3>1. 1..Len(p) \subseteq Nat
      BY <1>3, SMT
    <3>2. S \subseteq Nat /\ S # {}
      BY <1>3, <1>5, <2>1, <3>1
    <3> QED  BY <3>2, Least
  <2>3. \A j \in 1..k - 1 : j \in 1..Len(p) /\ j < k
    <3>1. k \in 1..Len(p)
      BY <2>1
    <3> QED  BY <1>3, <3>1, SMT
  <2>4. k \in DOMAIN p /\ p[k].id = q.id /\ \A j \in 1..k - 1 : p[j].id # q.id
    BY <1>3, <2>1, <2>2, <2>3
  <2>5. PICK at : at = CHOOSE i \in DOMAIN p : p[i].id = q.id /\ \A j \in 1..i - 1 : p[j].id # q.id
    OBVIOUS
  <2>6. at \in 1..Len(p) /\ p[at].id = q.id
    BY <1>3, <2>4, <2>5
  <2>7. PICK v : v = RemoveAt(p, at)
    OBVIOUS
  <2>8. v \in Seq(Query) /\ NoRepeats(v) /\ ToSet(v) \subseteq ToSet(p) \ {p[at]}
    BY <1>2, <2>6, <2>7, Removed
  <2>9. resolver' = [resolver EXCEPT !.pending = v]
    BY <1>1, <1>5, <2>5, <2>7 DEF Forget
  <2>10. resolver'.pending = v /\ resolver'.next_id = resolver.next_id
    <3>1. PICK u : u = resolver'
      OBVIOUS
    <3>2. u.pending = v /\ u.next_id = resolver.next_id
      BY <2>9, <3>1, SMT DEF Resolvers
    <3> QED  BY <3>1, <3>2
  <2>11. q \in handles => p[at] = q
    BY <1>4, <2>6
  <2> QED  BY <1>1, <2>8, <2>10, <2>11
<1>6. CASE ~\E i \in DOMAIN p : p[i].id = q.id
  <2>1. UNCHANGED resolver
    BY <1>1, <1>6 DEF Forget
  <2>2. q \notin ToSet(p)
    BY <1>3, <1>6
  <2> QED  BY <1>1, <1>2, <2>1, <2>2
<1> QED  BY <1>5, <1>6

\* Giving up a query (dns.rs, cancel).
LEMMA CancelKeepsQueries ==
  ASSUME QOK, Resolvers(resolver), NEW q, cancel(q)
  PROVE  QOK'
<1>1. PICK v, p, ss, n, hs :
        v = resolver'.pending /\ p = resolver.pending /\ ss = slots /\ n = resolver.next_id /\ hs = handles
  OBVIOUS
<1>2. v \in Seq(Query) /\ NoRepeats(v) /\ ToSet(v) \subseteq ToSet(p) /\ resolver'.next_id = n
  BY <1>1, Forgotten DEF cancel
<1>3. QueriesOK(p, hs, ss, n) /\ slots' = ss /\ handles' = hs
  BY <1>1 DEF QOK, cancel, handleVars
<1>4. ss \in Seq(Slot) /\ ToSet(v) \subseteq hs /\ hs \subseteq hs /\ \A x \in hs : Owns(x, ss)
  BY <1>2, <1>3 DEF QueriesOK
<1>5. QueriesOK(v, hs, ss, n)
  BY <1>2, <1>3, <1>4, Fewer
<1> QED  BY <1>1, <1>2, <1>3, <1>5 DEF QOK

\* Asking for an answer (dns.rs, get_result).
LEMMA ResultKeepsQueries ==
  ASSUME QOK, Resolvers(resolver), NEW q \in handles, get_result(q)
  PROVE  QOK' /\ turn' = "net"
<1>0. Owns(q, slots)
  BY DEF QOK, QueriesOK
<1>1. CASE slots[q.slot].status = "pending"
  <2>1. UNCHANGED <<resolver, slots, handles>> /\ turn' = "net"
    BY <1>0, <1>1 DEF get_result, Owns
  <2> QED  BY <2>1 DEF QOK
<1>2. CASE slots[q.slot].status # "pending"
  <2>0. TakeResult(q)
    BY <1>0, <1>2 DEF get_result, Owns
  <2>1. PICK v, p, ss, tt, n, hs, gs :
          /\ v = resolver'.pending /\ p = resolver.pending /\ ss = slots /\ tt = slots'
          /\ n = resolver.next_id /\ hs = handles /\ gs = handles'
    OBVIOUS
  <2>2. /\ v \in Seq(Query) /\ NoRepeats(v) /\ ToSet(v) \subseteq ToSet(p) /\ q \notin ToSet(v)
        /\ resolver'.next_id = n
    BY <2>0, <2>1, Forgotten DEF TakeResult
  <2>3. /\ QueriesOK(p, hs, ss, n) /\ ss \in Seq(Slot) /\ q \in hs /\ ToSet(p) \subseteq hs
        /\ tt = Free(ss, {q.slot}) /\ gs = hs \ {q} /\ turn' = "net"
    BY <2>0, <2>1 DEF QOK, TakeResult, QueriesOK, Spend
  <2>4. tt \in Seq(Slot) /\ Len(tt) = Len(ss) /\ \A i \in 1..Len(ss) : i \notin {q.slot} => tt[i] = ss[i]
    BY <2>3, Freed, SMTT(30)
  <2>5. ASSUME NEW x \in gs
        PROVE  Owns(x, tt)
    <3>1. x \in hs /\ x # q
      BY <2>3
    <3>2. x.slot # q.slot /\ Owns(x, ss)
      BY <2>3, <3>1 DEF QueriesOK
    <3>3. tt[x.slot] = ss[x.slot]
      BY <2>4, <3>2 DEF Owns
    <3> QED  BY <2>4, <3>2, <3>3, SlotKept
  <2>6. gs \subseteq hs /\ ToSet(v) \subseteq gs
    BY <2>2, <2>3
  <2>7. QueriesOK(v, gs, tt, n)
    BY <2>2, <2>3, <2>4, <2>5, <2>6, Fewer
  <2> QED  BY <2>1, <2>2, <2>3, <2>7 DEF QOK
<1> QED  BY <1>1, <1>2

\* What resolve leaves: the slots with one more taken, the entry of the new query,
\* and the resolver with it.
Waiting(host) == [host |-> host, status |-> "pending"]
Take(ss, at, query) == IF at > Len(ss) THEN Append(ss, query) ELSE [ss EXCEPT ![at] = query]
Asking(n, at, host) == [id |-> n, slot |-> at, host |-> host]
Ask(r, x) == [r EXCEPT !.next_id = (@ + 1) % IdSpace, !.pending = Append(@, x)]

\* The fields that resolve changes.
LEMMA AskIs ==
  ASSUME NEW r, Resolvers(r), NEW x, NEW v, v = Ask(r, x)
  PROVE  v.pending = Append(r.pending, x) /\ v.next_id = (r.next_id + 1) % IdSpace
<1>1. PICK d, e : d = (r.next_id + 1) % IdSpace /\ e = Append(r.pending, x)
  OBVIOUS
<1>2. v = [r EXCEPT !.next_id = d, !.pending = e]
  BY <1>1 DEF Ask
<1>3. v.pending = e /\ v.next_id = d
  BY <1>2, SMT DEF Resolvers
<1> QED  BY <1>1, <1>3

\* The slot that is taken holds the new query, and the others what they held.
Taking(ss, at, query, tt) ==
  /\ tt \in Seq(Slot) /\ at \in 1..Len(tt) /\ tt[at] = query
  /\ \A i \in 1..Len(ss) : i \in 1..Len(tt) /\ (i # at => tt[i] = ss[i])

\* Taking a free slot, or a new one, does that.
LEMMA Taken ==
  ASSUME NEW ss \in Seq(Slot), NEW at \in 1..Len(ss) + 1, NEW query \in Slot,
         NEW tt, tt = Take(ss, at, query)
  PROVE  Taking(ss, at, query, tt)
<1> SUFFICES /\ tt \in Seq(Slot) /\ at \in 1..Len(tt) /\ tt[at] = query
             /\ \A i \in 1..Len(ss) : i \in 1..Len(tt) /\ (i # at => tt[i] = ss[i])
  BY DEF Taking
<1>9. PICK m : m = Len(ss)
  OBVIOUS
<1>0. m \in Nat /\ at \in 1..m + 1 /\ m = Len(ss)
  BY <1>9, LenProperties
<1>1. CASE at > m
  <2>1. at = m + 1
    BY <1>0, <1>1, SMT
  <2>2. tt = Append(ss, query)
    BY <1>0, <1>1 DEF Take
  <2> QED  BY <1>0, <2>1, <2>2, SMT
<1>2. CASE ~(at > m)
  <2>1. at \in 1..m
    BY <1>0, <1>2, SMT
  <2>2. tt = [ss EXCEPT ![at] = query]
    BY <1>0, <1>2 DEF Take
  <2>3. ss \in [1..m -> Slot]
    BY <1>0, LenProperties
  <2>4. tt \in [1..m -> Slot] /\ \A i \in 1..m : tt[i] = IF i = at THEN query ELSE ss[i]
    BY <2>1, <2>2, <2>3
  <2>5. tt \in Seq(Slot) /\ Len(tt) = m
    BY <1>0, <2>4, SlotsAre
  <2> QED  BY <1>0, <2>1, <2>4, <2>5
<1> QED  BY <1>1, <1>2

\* A new query takes a slot that no other query has, and an id of its own.
LEMMA Asked ==
  ASSUME NEW p, NEW hs, NEW ss, NEW n, QueriesOK(p, hs, ss, n), NEW host \in Hosts,
         NEW at, at = FreeSlot(ss), NEW x, x = Asking(n, at, host),
         NEW tt, tt = Take(ss, at, Waiting(host)), NEW v, v = Append(p, x),
         NEW gs, gs = hs \cup {x}
  PROVE  QueriesOK(v, gs, tt, n + 1)
<1>1. PICK m, query, next : m = Len(ss) /\ query = Waiting(host) /\ next = n + 1
  OBVIOUS
<1>4. /\ p \in Seq(Query) /\ NoRepeats(p) /\ ss \in Seq(Slot) /\ n \in Nat
      /\ ToSet(p) \subseteq hs /\ hs \subseteq Query
  BY DEF QueriesOK
<1>5. next \in Nat /\ n < next /\ \A i \in Nat : i < n => i < next /\ i # n
  BY <1>1, <1>4, SMT
<1>7. at \in 1..m + 1 /\ (at \in 1..m => ss[at].status = "free") /\ m \in Nat
  BY <1>1, <1>4, FreeSlotIs, LenProperties
<1>8. query \in Slot /\ query.host = host /\ query.status # "free"
  BY <1>1, SMT DEF Slot, Waiting
<1>9. /\ tt \in Seq(Slot) /\ at \in 1..Len(tt) /\ tt[at] = query
      /\ \A i \in 1..m : i \in 1..Len(tt) /\ (i # at => tt[i] = ss[i])
  <2>1. Waiting(host) \in Slot
    BY <1>1, <1>8
  <2>2. at \in 1..Len(ss) + 1
    BY <1>1, <1>7
  <2>3. Taking(ss, at, Waiting(host), tt)
    BY <1>4, <2>1, <2>2, Taken
  <2> QED  BY <1>1, <2>3 DEF Taking
<1>10. x \in Query /\ x.slot = at /\ x.id = n /\ x.host = host
  <2>1. at \in Nat
    BY <1>7, SMT
  <2> QED  BY <1>4, <2>1, SMT DEF Query, Asking
<1>11. ASSUME NEW q \in hs
       PROVE  Owns(q, tt) /\ q.slot # at /\ q.id < next /\ q.id # n
  <2>1. q.slot \in 1..m /\ ss[q.slot].status # "free" /\ ss[q.slot].host = q.host /\ q.id < n
    BY <1>1 DEF QueriesOK, Owns
  <2>2. q.slot # at
    BY <1>7, <2>1
  <2>3. Owns(q, tt)
    BY <1>9, <2>1, <2>2 DEF Owns
  <2>4. q.id \in Nat
    <3>1. q \in Query
      BY <1>4
    <3> QED  BY <3>1 DEF Query
  <2> QED  BY <1>5, <2>1, <2>2, <2>3, <2>4
<1>12. x \notin ToSet(p)
  BY <1>4, <1>10, <1>11
<1>13. v \in Seq(Query) /\ NoRepeats(v) /\ ToSet(v) = ToSet(p) \cup {x}
  BY <1>4, <1>10, <1>12, Longer
<1>14. Owns(x, tt)
  BY <1>8, <1>9, <1>10 DEF Owns
<1>15. \A q \in gs : Owns(q, tt) /\ q.id < next
  BY <1>5, <1>10, <1>11, <1>14
<1>16. \A q, y \in gs : q.slot = y.slot \/ q.id = y.id => q = y
  <2>1. \A q, y \in hs : q.slot = y.slot \/ q.id = y.id => q = y
    BY DEF QueriesOK
  <2>2. \A q \in hs : q.slot # x.slot /\ q.id # x.id
    BY <1>10, <1>11
  <2> QED  BY <2>1, <2>2, SMTT(30)
<1>17. ToSet(v) \subseteq gs /\ gs \subseteq Query
  BY <1>4, <1>10, <1>13
<1>18. QueriesOK(v, gs, tt, next)
  BY <1>5, <1>9, <1>13, <1>15, <1>16, <1>17 DEF QueriesOK
<1> QED  BY <1>1, <1>18

\* cmd_dns and resolve, for a host that can be asked for and for one that cannot
\* (commands.rs, cmd_dns; dns.rs, resolve).
LEMMA DnsKeepsQueries ==
  ASSUME IInv, QOK, NEW host \in Hosts, cmd_dns(host)
  PROVE  QOK'
<1>1. PICK r, p, n, ss, hs :
        /\ r = init(resolver, stack) /\ p = resolver.pending /\ n = resolver.next_id
        /\ ss = slots /\ hs = handles
  OBVIOUS
<1>2. r.pending = p /\ r.next_id = n /\ Resolvers(r)
  <2>1. /\ stack \in Stacks /\ Resolvers(resolver) /\ resolver.socket \in 0..Len(stack.sockets)
        /\ resolver.socket # 0 => stack.sockets[resolver.socket] = "dns"
    BY DEF IInv, NetTypeOK, Resolved
  <2>2. PICK u : u = InitSocket(resolver, stack)
    OBVIOUS
  <2>3. Resolvers(r)
    BY <1>1, <2>1, <2>2, InitResolved
  <2> QED  BY <1>1, <2>1, <2>3, InitKeepsQueries
<1>3. QueriesOK(p, hs, ss, n)
  BY <1>1 DEF QOK
<1>4. /\ init(resolver, stack).next_id <= MaxId
      /\ \/ resolver' = init(resolver, stack) /\ slots' = slots /\ handles' = handles
         \/ /\ slots' = Take(slots, FreeSlot(slots), Waiting(host))
            /\ resolver' = Ask(init(resolver, stack),
                               Asking(init(resolver, stack).next_id, FreeSlot(slots), host))
            /\ handles' = handles \cup {Asking(init(resolver, stack).next_id, FreeSlot(slots), host)}
  BY DEF cmd_dns, Take, Waiting, Ask, Asking
<1>5. CASE resolver' = init(resolver, stack) /\ slots' = slots /\ handles' = handles
  <2>1. PICK u : u = resolver'
    OBVIOUS
  <2>2. u.pending = p /\ u.next_id = n
    BY <1>1, <1>2, <1>5, <2>1
  <2> QED  BY <1>1, <1>3, <1>5, <2>1, <2>2 DEF QOK
<1>6. CASE /\ slots' = Take(slots, FreeSlot(slots), Waiting(host))
           /\ resolver' = Ask(init(resolver, stack),
                              Asking(init(resolver, stack).next_id, FreeSlot(slots), host))
           /\ handles' = handles \cup {Asking(init(resolver, stack).next_id, FreeSlot(slots), host)}
  <2>1. PICK u, tt, at, gs : u = resolver' /\ tt = slots' /\ at = FreeSlot(ss) /\ gs = handles'
    OBVIOUS
  <2>2. PICK x, v : x = Asking(n, at, host) /\ v = Append(p, x)
    OBVIOUS
  <2>3. u = Ask(r, x) /\ tt = Take(ss, at, Waiting(host)) /\ gs = hs \cup {x}
    BY <1>1, <1>2, <1>6, <2>1, <2>2
  <2>4. u.pending = v /\ u.next_id = (n + 1) % IdSpace
    BY <1>2, <2>2, <2>3, AskIs
  <2>5. (n + 1) % IdSpace = n + 1
    <3>1. n \in Nat /\ n <= MaxId
      BY <1>1, <1>2, <1>3, <1>4 DEF QueriesOK
    <3> QED  BY <3>1, NetworkAssumption, SMT DEF IdSpace
  <2>6. QueriesOK(v, gs, tt, n + 1)
    BY <1>3, <2>1, <2>2, <2>3, Asked
  <2> QED  BY <2>1, <2>4, <2>5, <2>6 DEF QOK
<1> QED  BY <1>4, <1>5, <1>6

\* Whatever leaves the queries and their slots alone.
LEMMA SameQueries ==
  ASSUME QOK, UNCHANGED <<slots, handles>>,
         resolver'.pending = resolver.pending, resolver'.next_id = resolver.next_id
  PROVE  QOK'
  BY DEF QOK

\* A step of the terminal task that asks no spent handle.
LEMMA TerminalKeepsQueries ==
  ASSUME IInv, QOK, ~misused', TerminalTask
  PROVE  QOK' /\ turn' # "panicked"
<1>0. Resolvers(resolver)
  BY DEF IInv, NetTypeOK
<1>1. ASSUME turn' = "net", OnlyPrints \/ renew \/ cmd_connect \/ cmd_ping
      PROVE  QOK' /\ turn' # "panicked"
  <2>1. UNCHANGED <<resolver, slots, handles>>
    BY <1>1 DEF OnlyPrints, renew, cmd_connect, cmd_ping, OpenSocket, handleVars
  <2> QED  BY <1>1, <2>1, SameQueries
<1>2. ASSUME turn' = "net", NEW host \in Hosts, cmd_dns(host)
      PROVE  QOK' /\ turn' # "panicked"
  BY <1>2, DnsKeepsQueries
<1>3. ASSUME PollResolver
      PROVE  QOK' /\ turn' # "panicked"
  BY <1>0, <1>3, PollKeepsQueries
<1>4. ASSUME NEW q \in handles \cup spent, get_result(q)
      PROVE  QOK' /\ turn' # "panicked"
  <2>1. q \in handles
    BY <1>4 DEF get_result
  <2> QED  BY <1>0, <1>4, <2>1, ResultKeepsQueries
<1>5. ASSUME NEW q \in handles \cup spent, cancel(q)
      PROVE  QOK' /\ turn' # "panicked"
  BY <1>0, <1>5, CancelKeepsQueries DEF cancel
<1> QED  BY <1>1, <1>2, <1>3, <1>4, <1>5 DEF TerminalTask

\* Every step keeps the queries in order, until a spent handle is asked.
LEMMA QueriesStep ==
  ASSUME IInv, QInv, [Next]_vars
  PROVE  QInv'
<1> SUFFICES ASSUME ~misused'
             PROVE  turn' # "panicked" /\ QOK'
  BY DEF QInv
<1>0. Resolvers(resolver)
  BY DEF IInv, NetTypeOK
<1>1. ~misused
  <2>1. UNCHANGED misused \/ \E q : get_result(q)
    BY DEF Next, vars, handleVars, Halt, NetworkTask, DhcpTask, TerminalTask, OnlyPrints, renew,
           cmd_dns, cmd_connect, cmd_ping, OpenSocket, PollResolver, cancel
  <2> QED  BY <2>1 DEF get_result
<1>2. turn # "panicked" /\ QOK
  BY <1>1 DEF QInv
<1>3. CASE UNCHANGED vars
  <2>1. UNCHANGED <<turn, resolver, slots, handles>>
    BY <1>3 DEF vars, handleVars
  <2> QED  BY <1>2, <2>1, SameQueries
<1>4. CASE NetworkTask
  <2>1. DnsTraffic /\ UNCHANGED <<resolver, handles>> /\ turn' = "dhcp"
    BY <1>4 DEF NetworkTask, handleVars
  <2> QED  BY <1>2, <2>1, TrafficKeepsQueries
<1>5. CASE DhcpTask
  <2>1. UNCHANGED <<slots, handles>> /\ turn' = "terminal"
    BY <1>5 DEF DhcpTask, handleVars
  <2>2. CASE UNCHANGED resolver
    BY <1>2, <2>1, <2>2, SameQueries
  <2>3. CASE ~UNCHANGED resolver
    <3>1. Configured
      BY <1>5, <2>3 DEF DhcpTask, fallback_to_link_local, Deconfigured
    <3>2. PICK s : resolver' = init(resolver, s)
      BY <3>1 DEF Configured
    <3>3. PICK v : v = resolver'
      OBVIOUS
    <3>4. v.pending = resolver.pending /\ v.next_id = resolver.next_id
      BY <1>0, <3>2, <3>3, InitKeepsQueries
    <3> QED  BY <1>2, <2>1, <3>3, <3>4, SameQueries
  <2> QED  BY <2>2, <2>3
<1>6. CASE TerminalTask
  BY <1>2, <1>6, TerminalKeepsQueries
<1>7. ~Halt
  BY <1>2 DEF Halt
<1> QED  BY <1>3, <1>4, <1>5, <1>6, <1>7 DEF Next

\* As long as no spent handle is asked, each query that is waited for has a slot to
\* itself that asks for its host, for any number of queries and slots, and nothing
\* panics (dns.rs, resolve, poll, get_result, cancel).
THEOREM QueriesHaveSlots == Spec => []QueriesOwnTheirSlots
<1>1. Init => QInv
  <2> SUFFICES ASSUME Init PROVE QInv
    OBVIOUS
  <2>1. PICK p, n : p = resolver.pending /\ n = resolver.next_id
    OBVIOUS
  <2>2. p = <<>> /\ n = 1 /\ slots = <<>> /\ handles = {} /\ turn = "net"
    BY <2>1 DEF Init
  <2>3. p \in Seq(Query) /\ slots \in Seq(Slot) /\ n \in Nat /\ DOMAIN p = {}
    BY <2>2, SMT
  <2>4. NoRepeats(p) /\ ToSet(p) = {}
    BY <2>3 DEF NoRepeats, ToSet
  <2>5. QueriesOK(p, handles, slots, n)
    BY <2>2, <2>3, <2>4 DEF QueriesOK
  <2> QED  BY <2>1, <2>2, <2>5 DEF QInv, QOK
<1>2. QInv => QueriesOwnTheirSlots
  <2> SUFFICES ASSUME QInv, ~misused PROVE QueriesOwnTheirSlots
    BY DEF QueriesOwnTheirSlots
  <2>1. PICK p : p = resolver.pending
    OBVIOUS
  <2>2. /\ NoRepeats(p) /\ \A q \in ToSet(p) : Owns(q, slots)
        /\ \A q, r \in ToSet(p) : q.slot = r.slot => q = r
    BY <2>1 DEF QInv, QOK, QueriesOK
  <2>3. \A i \in DOMAIN p : p[i] \in ToSet(p)
    BY DEF ToSet
  <2>4. \A i \in DOMAIN p : slots[p[i].slot].status # "free" /\ slots[p[i].slot].host = p[i].host
    BY <2>2, <2>3 DEF Owns
  <2>5. \A i, j \in DOMAIN p : p[i].slot = p[j].slot => i = j
    BY <2>2, <2>3 DEF NoRepeats
  <2>6. turn # "panicked"
    BY DEF QInv
  <2> QED  BY <2>1, <2>4, <2>5, <2>6 DEF QueriesOwnTheirSlots
<1> QED  BY <1>1, <1>2, Invariance, QueriesStep, PTL DEF Spec
=============================================================================
