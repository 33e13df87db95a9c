------------------------------ MODULE Network ------------------------------
(***************************************************************************)
(* The network services of the kernel: the DHCP client (net/dhcp.rs), the  *)
(* DNS resolver (net/dns.rs), the stack they share (net/stack.rs), the     *)
(* terminal's network commands (terminal/commands.rs) and the three tasks  *)
(* of kernel_main (main.rs) that drive them.                               *)
(*                                                                         *)
(* The tasks have one priority and each ends its turn with yield_now, so   *)
(* the executor runs them in turn.  None awaits while it holds a lock: a   *)
(* turn is one step.  Time enters the code only in the comparison of now   *)
(* with the client's start time, so `elapsed` is their difference, as far  *)
(* as LINK_LOCAL_TIMEOUT can tell.                                         *)
(***************************************************************************)
EXTENDS Integers, Sequences, FiniteSets, SequencesExt

CONSTANTS
  Addrs,               \* addresses of interfaces, gateways and DNS servers
  Leases,              \* what a DHCP server grants
  NoLease, NoAddr,     \* None
  LinkLocalAddr,       \* 169.254.x.x
  LINK_LOCAL_TIMEOUT,
  Hosts, InvalidHosts, \* host names of the dns command; those smoltcp refuses
  MaxQueries,          \* bound on the slots of the DNS socket
  MaxId,               \* bound on the queries that are started
  MaxSockets           \* bound on sockets: the code has none

\* next_id is a u16.
IdSpace == 65536

ASSUME NetworkAssumption ==
  /\ LINK_LOCAL_TIMEOUT \in Nat
  /\ MaxId \in Nat /\ MaxId + 1 < IdSpace   \* next_id does not wrap
  /\ NoLease \notin Leases
  /\ InvalidHosts \subseteq Hosts
  /\ NoAddr \notin Addrs /\ LinkLocalAddr \notin Addrs
  /\ Leases \subseteq [ip : Addrs, gateway : Addrs \cup {NoAddr}, dns : SUBSET Addrs]

VARIABLES
  turn,      \* the task that runs next: "net", "dhcp" or "terminal", or "panicked"
  client,    \* DhcpClient: [socket, state, config, elapsed]
  lease,     \* what the DHCP socket has negotiated
  changed,   \* it has not yet told the client
  stack,     \* NetworkStack: [addr, route, dns_servers, sockets]
  resolver,  \* DnsResolver: [socket, servers, pending, next_id]
  slots,     \* the DNS socket's queries: slot -> [host, status]
  handles,   \* history: what resolve returned, as far as the answer was not given
  spent,     \* history: and those whose answer was given
  misused    \* history: a spent handle was asked again

handleVars == <<handles, spent, misused>>
vars == <<turn, client, lease, changed, stack, resolver, slots, handleVars>>

Discovering(c) == [c EXCEPT !.state = "Discovering"]

AddSocket(s, kind) == [s EXCEPT !.sockets = Append(@, kind)]

IdleClient == [socket |-> 0, state |-> "Idle", config |-> NoLease, elapsed |-> 0]

\* DhcpClient::start: its socket is the first of the stack.
StartedClient == [Discovering(IdleClient) EXCEPT !.socket = 1]

\* kernel_main starts a client and then gives its tasks another one, which is
\* idle; the socket of the first stays.  Both uses of the client are modelled.
Init ==
  /\ turn = "net"
  /\ client \in {IdleClient, StartedClient}
  /\ lease = NoLease
  /\ changed \in BOOLEAN
  /\ stack = AddSocket([addr |-> NoAddr, route |-> NoAddr, dns_servers |-> {}, sockets |-> <<>>], "dhcp")
  /\ resolver = [socket |-> 0, servers |-> {}, pending |-> <<>>, next_id |-> 1]
  /\ slots = <<>>
  /\ handles = {} /\ spent = {} /\ misused = FALSE

-----------------------------------------------------------------------------
(* The stack.                                                               *)

\* Without a gateway the old default route stays.
set_ip_config(s, ip, gateway) ==
  [s EXCEPT !.addr = ip, !.route = IF gateway = NoAddr THEN @ ELSE gateway]

-----------------------------------------------------------------------------
(* 1. The network stack poller: the clock ticks, and smoltcp may hear from  *)
(* a DHCP or a DNS server, or see a lease expire.                           *)

tick(c) == [c EXCEPT !.elapsed = IF @ <= LINK_LOCAL_TIMEOUT THEN @ + 1 ELSE @]

\* The DHCP socket is the stack's, whether or not a client knows of it.
DhcpTraffic ==
  \/ UNCHANGED <<lease, changed>>
  \/ /\ lease' \in (Leases \cup {NoLease}) \ {lease}
     /\ changed' = TRUE

DnsTraffic ==
  \/ UNCHANGED slots
  \/ \E i \in DOMAIN slots : \E status \in {"completed", "failed"} :
       /\ slots[i].status = "pending"
       /\ slots' = [slots EXCEPT ![i].status = status]

NetworkTask ==
  /\ turn = "net"
  /\ turn' = "dhcp"
  /\ client' = tick(client)
  /\ DhcpTraffic
  /\ DnsTraffic
  /\ UNCHANGED <<stack, resolver, handleVars>>

-----------------------------------------------------------------------------
(* 2. The DHCP task: DhcpClient::poll, and the handling of its event.       *)

\* DnsResolver::init: once, and only if there are servers to ask.
CanInit(r, s) == r.socket = 0 /\ s.dns_servers # {}
init(r, s) ==
  IF CanInit(r, s) THEN [r EXCEPT !.socket = Len(s.sockets) + 1, !.servers = s.dns_servers] ELSE r
InitSocket(r, s) == IF CanInit(r, s) THEN AddSocket(s, "dns") ELSE s

\* Mutant: the age of the discovery is checked in every state.
TimedOutAnyState == client.elapsed > LINK_LOCAL_TIMEOUT

\* Mutant: a client that is still discovering never gives up.
TimedOutRequesting ==
  /\ client.state = "Requesting"
  /\ client.elapsed > LINK_LOCAL_TIMEOUT

TimedOut ==
  /\ client.state \in {"Discovering", "Requesting"}
  /\ client.elapsed > LINK_LOCAL_TIMEOUT

fallback_to_link_local ==
  /\ client' = [client EXCEPT !.state = "LinkLocal"]
  /\ stack' = set_ip_config(stack, LinkLocalAddr, NoAddr)
  /\ UNCHANGED <<changed, resolver>>

\* Mutant: the event is logged and the resolver left to the dns command.
ConfiguredWithoutInit ==
  /\ client' = [client EXCEPT !.state = "Configured", !.config = lease]
  /\ stack' = [set_ip_config(stack, lease.ip, lease.gateway) EXCEPT !.dns_servers = lease.dns]
  /\ changed' = FALSE
  /\ UNCHANGED resolver

\* handle_dhcp_event then initialises the resolver.
Configured ==
  LET s == [set_ip_config(stack, lease.ip, lease.gateway) EXCEPT !.dns_servers = lease.dns]
  IN  /\ client' = [client EXCEPT !.state = "Configured", !.config = lease]
      /\ stack' = InitSocket(resolver, s)
      /\ resolver' = init(resolver, s)
      /\ changed' = FALSE

\* Mutant: the configuration is kept.
DeconfiguredKeepingConfig ==
  /\ client' = [Discovering(client) EXCEPT !.elapsed = 0]
  /\ changed' = FALSE
  /\ UNCHANGED <<stack, resolver>>

\* The interface keeps its address, its route and the servers.
Deconfigured ==
  /\ client' = [Discovering(client) EXCEPT !.config = NoLease, !.elapsed = 0]
  /\ changed' = FALSE
  /\ UNCHANGED <<stack, resolver>>

DhcpTask ==
  /\ turn = "dhcp"
  /\ turn' = "terminal"
  /\ \/ /\ client.socket = 0
        /\ UNCHANGED <<client, changed, stack, resolver>>
     \/ /\ client.socket # 0
        /\ \/ TimedOut /\ fallback_to_link_local
           \/ /\ ~TimedOut /\ ~changed
              /\ UNCHANGED <<client, changed, stack, resolver>>
           \/ ~TimedOut /\ changed /\ lease # NoLease /\ Configured
           \/ ~TimedOut /\ changed /\ lease = NoLease /\ Deconfigured
  /\ UNCHANGED <<lease, slots, handleVars>>

-----------------------------------------------------------------------------
(* 3. The terminal task: nothing was typed, or a command is executed.  The  *)
(* main loop is to poll the resolver, or to ask for or give up a query:     *)
(* nothing in the kernel does yet, and a handle can be copied, so they are  *)
(* called with any handle that resolve has returned.                        *)

\* Commands that only print: help, ifconfig, dhcp status, echo, ...
OnlyPrints == UNCHANGED <<client, lease, changed, stack, resolver, slots, handleVars>>

\* DhcpClient::renew resets the socket, which loses its lease; the start time,
\* the configuration and the address stay.
renew ==
  /\ client.socket # 0
  /\ client' = Discovering(client)
  /\ lease' = NoLease
  /\ changed' = (changed \/ lease # NoLease)
  /\ UNCHANGED <<stack, resolver, slots, handleVars>>

\* The DNS socket takes its first free slot, or grows.
FreeSlot(ss) == CHOOSE i \in 1..Len(ss) + 1 :
                  /\ i \in DOMAIN ss => ss[i].status = "free"
                  /\ \A j \in 1..i - 1 : ss[j].status # "free"

\* cmd_dns, with DnsResolver::resolve.
cmd_dns(host) ==
  LET r == init(resolver, stack)
      slot == FreeSlot(slots)
      query == [host |-> host, status |-> "pending"]
      entry == [id |-> r.next_id, slot |-> slot, host |-> host]
  IN  /\ slot <= MaxQueries /\ r.next_id <= MaxId
      /\ stack' = InitSocket(resolver, stack)
      /\ \/ /\ r.socket = 0 \/ host \in InvalidHosts
            /\ resolver' = r
            /\ UNCHANGED <<slots, handles>>
         \/ /\ r.socket # 0 /\ host \notin InvalidHosts
            /\ slots' = IF slot > Len(slots) THEN Append(slots, query) ELSE [slots EXCEPT ![slot] = query]
            /\ resolver' = [r EXCEPT !.next_id = (@ + 1) % IdSpace, !.pending = Append(@, entry)]
            /\ handles' = handles \cup {entry}
      /\ UNCHANGED <<client, lease, changed, spent, misused>>

Free(ss, done) == [i \in DOMAIN ss |-> IF i \in done THEN [ss[i] EXCEPT !.status = "free"] ELSE ss[i]]

Answered(q) == slots[q.slot].status # "pending"

\* The loop over the queries: what is left of the first i without those in `done`.
Kept(pending, done) ==
  LET kept[i \in 0..Len(pending)] ==
        IF i = 0 THEN <<>>
        ELSE IF pending[i] \in done THEN kept[i - 1] ELSE Append(kept[i - 1], pending[i])
  IN  kept

Spend(done) == handles' = handles \ done /\ spent' = spent \cup done

\* get_query_result unwraps an empty slot.
Panic ==
  /\ turn' = "panicked"
  /\ UNCHANGED <<client, lease, changed, stack, resolver, slots, handles, spent>>

\* The loop meets a slot that is free, or that it has freed itself.
MeetsFreeSlot ==
  \E i \in DOMAIN resolver.pending :
    LET q == resolver.pending[i] IN
      \/ slots[q.slot].status = "free"
      \/ \E j \in 1..i - 1 : resolver.pending[j].slot = q.slot /\ Answered(q)

\* DnsResolver::poll: every finished query is reported, and its slot freed.
PollResolver ==
  LET done == {q \in ToSet(resolver.pending) : Answered(q)}
  IN  /\ \/ MeetsFreeSlot /\ Panic
         \/ /\ ~MeetsFreeSlot
            /\ turn' = "net"
            /\ resolver' = [resolver EXCEPT !.pending = Kept(@, done)[Len(@)]]
            /\ slots' = Free(slots, {q.slot : q \in done})
            /\ Spend(done)
            /\ UNCHANGED <<client, lease, changed, stack>>
      /\ UNCHANGED misused

\* get_result and cancel remove the first entry with the query's id, if there is one.
Forget(q) ==
  LET pending == resolver.pending
      at == CHOOSE i \in DOMAIN pending : /\ pending[i].id = q.id
                                          /\ \A j \in 1..i - 1 : pending[j].id # q.id
  IN  IF \E i \in DOMAIN pending : pending[i].id = q.id
      THEN resolver' = [resolver EXCEPT !.pending = RemoveAt(@, at)]
      ELSE UNCHANGED resolver

\* Mutant: the answer is taken, and the query stays on the list.
TakeResultOnly(q) ==
  /\ turn' = "net"
  /\ slots' = Free(slots, {q.slot})
  /\ Spend({q})
  /\ UNCHANGED <<client, lease, changed, stack, resolver>>

\* The slot is emptied before the list is looked at.
TakeResult(q) ==
  /\ turn' = "net"
  /\ slots' = Free(slots, {q.slot})
  /\ Forget(q)
  /\ Spend({q})
  /\ UNCHANGED <<client, lease, changed, stack>>

get_result(q) ==
  /\ \/ slots[q.slot].status = "free" /\ Panic
     \/ /\ slots[q.slot].status = "pending"
        /\ turn' = "net"
        /\ UNCHANGED <<client, lease, changed, stack, resolver, slots, handles, spent>>
     \/ slots[q.slot].status \in {"completed", "failed"} /\ TakeResult(q)
  /\ misused' = (misused \/ q \in spent)

\* The query itself goes on in its slot.
cancel(q) ==
  /\ turn' = "net"
  /\ Forget(q)
  /\ UNCHANGED <<client, lease, changed, stack, slots, handleVars>>

\* cmd_connect and cmd_ping make a socket, which nothing ever removes; a TCP
\* socket connects if the interface has an address.
OpenSocket(kind) ==
  /\ Len(stack.sockets) < MaxSockets
  /\ stack' = AddSocket(stack, kind)
  /\ UNCHANGED <<client, lease, changed, resolver, slots, handleVars>>

cmd_connect == OpenSocket(IF stack.addr = NoAddr THEN "tcp closed" ELSE "tcp connecting")
cmd_ping == OpenSocket("icmp")

TerminalTask ==
  /\ turn = "terminal"
  /\ \/ /\ turn' = "net"
        /\ \/ OnlyPrints
           \/ renew
           \/ \E host \in Hosts : cmd_dns(host)
           \/ cmd_connect
           \/ cmd_ping
     \/ PollResolver
     \/ \E q \in handles \cup spent : get_result(q) \/ cancel(q)

\* The panic handler halts for good.
Halt == turn = "panicked" /\ UNCHANGED vars

Next == NetworkTask \/ DhcpTask \/ TerminalTask \/ Halt

\* The executor runs all three tasks forever.
Spec == Init /\ [][Next]_vars /\ WF_vars(Next)

-----------------------------------------------------------------------------
(* Properties.                                                              *)

\* What the client believes is what the interface and the DHCP socket hold: while
\* it is Configured the interface has its address, route and servers, after a
\* fallback it has the link-local address, and unless the socket has news the
\* client's configuration is the socket's lease.
ClientMatchesStack ==
  /\ client.state = "Configured" =>
       /\ client.config # NoLease
       /\ stack.addr = client.config.ip
       /\ stack.dns_servers = client.config.dns
       /\ client.config.gateway \in {NoAddr, stack.route}
  /\ client.state = "LinkLocal" => stack.addr = LinkLocalAddr
  /\ client.socket # 0 /\ ~changed => client.config = lease

\* An address whose lease is gone does not outlive the timeout: once the DHCP task
\* has run, an address without a configuration is that of a discovery that began
\* at most LINK_LOCAL_TIMEOUT ago, or the link-local one.
StaleAddressIsBounded ==
  turn # "dhcp" /\ client.config = NoLease /\ stack.addr \notin {NoAddr, LinkLocalAddr} =>
    client.state = "Discovering" /\ client.elapsed <= LINK_LOCAL_TIMEOUT

\* The resolver can be used as soon as DNS servers are known, and it has a socket
\* of its own kind in the stack.
ResolverFollowsDhcp ==
  /\ stack.dns_servers # {} => resolver.socket # 0
  /\ resolver.socket # 0 => stack.sockets[resolver.socket] = "dns"

\* As long as no handle is asked again whose answer was given, by poll or by
\* get_result: each query the resolver waits for has a slot of the DNS socket to
\* itself, which is not free and still asks for its host, so that no answer is lost
\* or given to another query, and get_query_result never panics on an empty slot.
\* (A handle that is asked again empties a slot that may be another query's.)
QueriesOwnTheirSlots ==
  ~misused =>
    /\ turn # "panicked"
    /\ \A i \in DOMAIN resolver.pending :
         LET q == resolver.pending[i] IN
           /\ slots[q.slot].status # "free"
           /\ slots[q.slot].host = q.host
           /\ \A j \in DOMAIN resolver.pending \ {i} : resolver.pending[j].slot # q.slot

\* A lease that the server grants and does not take back is applied to the
\* interface, even when it arrives together with the timeout, if the DHCP task has
\* the client that was started.  (kernel_main gives it another one, main.rs:119,
\* and the lease of the started client's socket is never applied.)
LeaseIsApplied ==
  \A c \in Leases :
    client.socket # 0 /\ lease = c ~> \/ client.config = c /\ stack.addr = c.ip
                                      \/ lease # c
                                      \/ turn = "panicked"
============================================================================
