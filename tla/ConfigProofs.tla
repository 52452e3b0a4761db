---------------------------- MODULE ConfigProofs ----------------------------
(***************************************************************************)
(* Proofs about Config, for any number of peers: what the parser accepts   *)
(* has the type later steps rely on, and what the tunnel and the routines  *)
(* do with it keeps its promises.                                          *)
(***************************************************************************)
EXTENDS Config, TLAPS

-----------------------------------------------------------------------------
(* What the parser accepts                                                 *)

\* A list of addresses that is not an error is a set of families.
LEMMA AddrsType ==
  ASSUME NEW raw, NEW form \in Form, NEW forms,
         parseAddrs(raw, form, forms) # Error
  PROVE  parseAddrs(raw, form, forms) \in SUBSET Families
<1>1. form.families \in SUBSET Families
  BY DEF Form
<1> QED
  BY <1>1 DEF parseAddrs

\* A list of patterns that is not an error has neither blank nor bad lines.
LEMMA PatternsType ==
  ASSUME NEW lines \in Lines, parseRegexList(lines) # Error
  PROVE  parseRegexList(lines) \in SUBSET {"listed.example"}
BY DEF parseRegexList, Lines

LEMMA BoolType ==
  ASSUME NEW raw \in Number, parseBoolKey(raw) # Error
  PROVE  parseBoolKey(raw) \in BOOLEAN
BY DEF parseBoolKey, Number

Device == [Address : SUBSET Families, DNS : SUBSET Families]

LEMMA DevicesType == Devices \subseteq Device
<1> SUFFICES ASSUME NEW d \in Devices
             PROVE  d \in Device
  OBVIOUS
<1>1. PICK s \in Accepted(ParseInterface) : d = [Address |-> s.Address, DNS |-> s.DNS]
  BY DEF Devices
<1>2. s \in ParseInterface /\ ~Rejected(s)
  BY DEF Accepted
<1>3. PICK address \in Raw, dns \in Raw, form \in Form :
        /\ s.Address = parseCIDRNetIP(address, form)
        /\ s.DNS = parseNetIP(dns, form)
  BY <1>2 DEF ParseInterface
<1>4. {"Address", "DNS"} \subseteq DOMAIN s
  BY <1>2 DEF ParseInterface
<1>5. s.Address # Error /\ s.DNS # Error
  BY <1>2, <1>4 DEF Rejected
<1>6. s.Address \in SUBSET Families /\ s.DNS \in SUBSET Families
  BY <1>3, <1>5, AddrsType DEF parseCIDRNetIP, parseNetIP
<1> QED
  BY <1>1, <1>6 DEF Device

LEMMA EndpointsType == PeerEndpoints \subseteq Endpoints
<1> SUFFICES ASSUME NEW s \in Accepted(ParsePeer)
             PROVE  s.Endpoint \in Endpoints
  BY DEF PeerEndpoints
<1>1. s \in ParsePeer /\ ~Rejected(s)
  BY DEF Accepted
<1>2. PICK endpoint \in Endpoints \cup {"unknown"} : s.Endpoint = resolveIPPAndPort(endpoint)
  BY <1>1 DEF ParsePeer
<1>3. "Endpoint" \in DOMAIN s
  BY <1>1 DEF ParsePeer
<1>4. s.Endpoint # Error
  BY <1>1, <1>3 DEF Rejected
<1> QED
  BY <1>2, <1>4 DEF resolveIPPAndPort

\* The sections of the three proxies have the keys that decide routes.
LEMMA ProxySections ==
  ASSUME NEW sections \in {parseSocks5Config, parseHTTPConfig, parseSNIConfig},
         NEW s \in Accepted(sections)
  PROVE  s.TunnelDomains \in SUBSET {"listed.example"} /\ s.LogDomains \in BOOLEAN
<1>1. s \in sections /\ ~Rejected(s)
  BY DEF Accepted
<1>2. /\ \E lines \in Lines : s.TunnelDomains = parseRegexList(lines)
      /\ \E log \in Number : s.LogDomains = parseBoolKey(log)
      /\ {"TunnelDomains", "LogDomains"} \subseteq DOMAIN s
  <2>1. CASE s \in parseSocks5Config
    BY <2>1 DEF parseSocks5Config
  <2>2. CASE s \in parseHTTPConfig
    BY <2>2 DEF parseHTTPConfig
  <2>3. CASE s \in parseSNIConfig
    BY <2>3 DEF parseSNIConfig
  <2> QED
    BY <1>1, <2>1, <2>2, <2>3
<1>3. s.TunnelDomains # Error /\ s.LogDomains # Error
  BY <1>1, <1>2 DEF Rejected
<1> QED
  BY <1>2, <1>3, PatternsType, BoolType

Kinds == {"TCPClientTunnel", "STDIOTunnel", "TCPServerTunnel", "Socks5", "http", "SNI",
          "UDPServerTunnel", "UDPProxyTunnel"}

RoutineOf(kinds) ==
  [kind : kinds, TunnelDomains : SUBSET {"listed.example"}, LogDomains : BOOLEAN]

LEMMA RoutinesDomain == DOMAIN Routines = Kinds
BY DEF Routines, Kinds

LEMMA TunnelledType ==
  ASSUME NEW kind, NEW sections
  PROVE  Tunnelled(kind, sections) \subseteq RoutineOf({kind})
<1>1. [kind |-> kind, TunnelDomains |-> {}, LogDomains |-> FALSE] \in RoutineOf({kind})
  BY DEF RoutineOf
<1> QED
  BY <1>1 DEF Tunnelled

LEMMA ProxiedType ==
  ASSUME NEW kind,
         NEW sections \in {parseSocks5Config, parseHTTPConfig, parseSNIConfig}
  PROVE  Proxied(kind, sections) \subseteq RoutineOf({kind})
BY ProxySections DEF Proxied, RoutineOf

LEMMA RoutinesType ==
  ASSUME NEW kind \in Kinds
  PROVE  Routines[kind] \subseteq RoutineOf({kind})
<1>1. CASE kind \in Proxies
  <2>1. \E sections \in {parseSocks5Config, parseHTTPConfig, parseSNIConfig} :
          Routines[kind] = Proxied(kind, sections)
    BY <1>1 DEF Routines, Proxies
  <2> QED
    BY <2>1, ProxiedType
<1>2. CASE kind \notin Proxies
  <2>1. \E sections : Routines[kind] = Tunnelled(kind, sections)
    BY <1>2 DEF Routines, Proxies, Kinds
  <2> QED
    BY <2>1, TunnelledType
<1> QED
  BY <1>1, <1>2

LEMMA ResolveType == parseResolveConfig \subseteq Strategies
BY ConfigAssumption DEF parseResolveConfig, Lenient, parseString, Optional, Strategies

-----------------------------------------------------------------------------
(* The inductive invariant                                                 *)

LEMMA OrderFacts ==
  /\ Len(Order) = 15
  /\ \A i \in 1..15 : /\ Order[i] = "start" <=> i = 14
                      /\ Order[i] = "serve" <=> i = 15
                      /\ Order[i] \in Kinds => i < 14
                      /\ Order[i] \in {"load", "WGConfig", "Interface", "Peer", "Resolve"}
                           => i < 14
BY DEF Order, Kinds

\* The tunnel is what the configuration says, from the start on.
TunInv ==
  /\ at \in 1..14 => tun = NoTun
  /\ at = 15 => tun = [bind |-> bindForConfig, SystemDNS |-> device.DNS = {},
                      strategy |-> IF resolve = "auto" THEN autoStrategy ELSE resolve]
  /\ EndpointFits

\* Connections are made only by a tunnel that is up, each along its route.
DialInv ==
  dialled # NoDial =>
    /\ at = 15 /\ routine # NoRoutine
    /\ LET route == Route(routine, dialled.host)
       IN /\ dialled.net = route.net
          /\ dialled.resolver = route.resolver
          /\ dialled.addr \in Families =>
               dialled.addr = ResolveAddrWithContext(tun.strategy, dialled.found)

Inv == TypeOK /\ TunInv /\ DialInv

\* The client bind accepts the endpoints it was chosen for.
LEMMA ClientBindFits ==
  ASSUME bindForConfig = "client", NEW endpoint \in CreateIPCRequest
  PROVE  ParseEndpoint(bindForConfig, endpoint)
<1>1. Len(peers) = 1 /\ ParseAddrPort(peers[1])
  BY DEF bindForConfig
<1>2. endpoint = peers[1]
  BY <1>1 DEF CreateIPCRequest
<1> QED
  BY <1>1, <1>2 DEF ParseEndpoint

LEMMA InitConfig == Init => Inv
<1> SUFFICES ASSUME Init
             PROVE  Inv
  OBVIOUS
<1>1. TypeOK
  <2>1. MaxPeers \in Nat
    BY ConfigAssumption
  <2> QED
    BY <2>1, OrderFacts DEF Init, TypeOK, NoDevice, NoTun, Strategies
<1>2. TunInv /\ DialInv
  BY DEF Init, TunInv, DialInv, EndpointFits
<1> QED
  BY <1>1, <1>2 DEF Inv

\* The steps of the parser, and a start that fails without a bind.
Parsing ==
  LoadSources \/ Interface \/ ParsePeers \/ ParseRoutines \/ ParseResolve \/ StartFails

LEMMA ParseStep == Inv /\ at # 0 /\ Parsing => Inv'
<1> SUFFICES ASSUME Inv, at # 0, Parsing
             PROVE  Inv'
  OBVIOUS
<1> USE DEF Inv
<1>0. MaxPeers \in Nat
  BY ConfigAssumption
<1>1. at \in 1..14 /\ at' \in {0, at, at + 1}
  BY OrderFacts, RoutinesDomain DEF Parsing, LoadSources, Interface, ParsePeers,
     ParseRoutines, ParseResolve, StartFails, Advance, Reject, TypeOK
<1>2. at = 14 => at' = 0
  BY <1>1, OrderFacts, RoutinesDomain DEF Parsing, LoadSources, Interface, ParsePeers,
     ParseRoutines, ParseResolve, StartFails, Advance, Reject, TypeOK
<1>3. UNCHANGED <<tun, dialled>>
  BY DEF Parsing, LoadSources, Interface, ParsePeers, ParseRoutines, ParseResolve,
     StartFails
<1>4. tun = NoTun /\ dialled = NoDial
  BY <1>1 DEF TunInv, DialInv
<1>5. device' \in Device
  BY DevicesType DEF Parsing, LoadSources, Interface, ParsePeers, ParseRoutines,
     ParseResolve, StartFails, TypeOK, Device
<1>6. peers' \in Seq(Endpoints) /\ Len(peers') <= MaxPeers
  BY <1>0, EndpointsType DEF Parsing, LoadSources, Interface, ParsePeers,
     ParseRoutines, ParseResolve, StartFails, TypeOK
<1>7. routine' = NoRoutine \/ routine' \in RoutineOf(Kinds)
  <2>1. CASE UNCHANGED routine
    BY <2>1, RoutinesDomain DEF TypeOK, RoutineOf
  <2>2. CASE Order[at] \in Kinds /\ routine' \in Routines[Order[at]]
    <3>1. routine' \in RoutineOf({Order[at]})
      BY <2>2, RoutinesType
    <3> QED
      BY <2>2, <3>1 DEF RoutineOf
  <2> QED
    BY <2>1, <2>2, RoutinesDomain DEF Parsing, LoadSources, Interface, ParsePeers,
       ParseRoutines, ParseResolve, StartFails
<1>8. resolve' \in Strategies
  BY ResolveType DEF Parsing, LoadSources, Interface, ParsePeers, ParseRoutines,
     ParseResolve, StartFails, TypeOK
<1>9. TypeOK'
  BY <1>1, <1>3, <1>5, <1>6, <1>7, <1>8, OrderFacts, RoutinesDomain
     DEF TypeOK, Device, RoutineOf
<1>10. (TunInv /\ DialInv)'
  BY <1>1, <1>2, <1>3, <1>4 DEF TunInv, DialInv, EndpointFits, NoTun
<1> QED
  BY <1>9, <1>10

Tun == [bind : {"nil", "default", "client"}, SystemDNS : BOOLEAN,
        strategy : (Strategies \ {"auto"}) \cup {"nil"}]

LEMMA StartStep == Inv /\ at # 0 /\ (EndpointRefused \/ StartWireguard) => Inv'
<1> SUFFICES ASSUME Inv, at # 0, EndpointRefused \/ StartWireguard
             PROVE  Inv'
  OBVIOUS
<1> USE DEF Inv
<1>1. at = 14 /\ UNCHANGED <<device, peers, routine, resolve, dialled>>
  BY OrderFacts DEF EndpointRefused, StartWireguard, TypeOK
<1>2. bindForConfig \in {"default", "client"} /\ autoStrategy \in {"ipv4", "ipv6"}
  BY DEF bindForConfig, autoStrategy
<1>3. dialled = NoDial
  BY <1>1 DEF DialInv
<1>4. CASE EndpointRefused
  <2>1. at' = 0 /\ tun' = [NoTun EXCEPT !.bind = bindForConfig]
    BY <1>4 DEF EndpointRefused, Reject
  <2>2. bindForConfig = "default"
    BY <1>2, <1>4, ClientBindFits DEF EndpointRefused
  <2>3. tun' \in Tun
    BY <2>1, <2>2 DEF NoTun, Tun
  <2>4. TypeOK'
    BY <1>1, <2>1, <2>3, OrderFacts DEF TypeOK, Tun
  <2>5. (TunInv /\ DialInv)'
    BY <1>1, <1>3, <2>1, <2>2 DEF TunInv, DialInv, EndpointFits, NoTun
  <2> QED
    BY <2>4, <2>5
<1>5. CASE StartWireguard
  <2>1. at' = 15
    BY <1>1, <1>5 DEF StartWireguard, Advance
  <2>2. tun' = [bind |-> bindForConfig, SystemDNS |-> device.DNS = {},
                strategy |-> IF resolve = "auto" THEN autoStrategy ELSE resolve]
    BY <1>5 DEF StartWireguard
  <2>3. TypeOK'
    <3>1. tun' \in Tun
      BY <1>2, <2>2 DEF TypeOK, Strategies, Tun
    <3> QED
      BY <1>1, <2>1, <3>1, OrderFacts DEF TypeOK, Tun
  <2>4. UNCHANGED <<bindForConfig, autoStrategy>>
    BY <1>1 DEF bindForConfig, autoStrategy
  <2>5. (TunInv /\ DialInv)'
    BY <1>1, <1>3, <2>1, <2>2, <2>4 DEF TunInv, DialInv, EndpointFits
  <2> QED
    BY <2>3, <2>5
<1> QED
  BY <1>4, <1>5

\* Every routine has a route.
LEMMA RouteType ==
  ASSUME NEW r \in RoutineOf(Kinds), NEW host
  PROVE  Route(r, host) \in [net : {"tunnel", "direct"}, resolver : {"tunnel", "system"},
                            own : BOOLEAN]
<1>1. LookupAddr \in {"tunnel", "system"}
  BY DEF LookupAddr
<1>2. RoutedDial(r, host) \in [net : {"tunnel", "direct"},
                              resolver : {"tunnel", "system"}, own : BOOLEAN]
  BY DEF RoutedDial
<1>3. r.kind \in Kinds
  BY DEF RoutineOf
<1> QED
  BY <1>1, <1>2, <1>3 DEF Route, Kinds

\* The resolver returns an address of those it was given, or an error.
LEMMA ResolveFinds ==
  ASSUME NEW strategy, NEW found \in SUBSET Families
  PROVE  ResolveAddrWithContext(strategy, found) \in found \cup {Error}
BY DEF ResolveAddrWithContext, Preferred

LEMMA ConnectStep ==
  ASSUME Inv, at # 0, NEW host \in Hosts, Connect(host)
  PROVE  Inv'
<1> USE DEF Inv
<1>1. at = 15 /\ UNCHANGED <<at, device, peers, routine, resolve, tun>>
  BY OrderFacts DEF Connect, TypeOK
<1>2. routine \in RoutineOf(Kinds)
  BY RoutinesDomain DEF Connect, TypeOK, RoutineOf
<1> DEFINE route == Route(routine, host)
           addr(found) == IF route.own THEN ResolveAddrWithContext(tun.strategy, found)
                          ELSE IF found = {} THEN Error ELSE "any"
<1>3. route \in [net : {"tunnel", "direct"}, resolver : {"tunnel", "system"},
                own : BOOLEAN]
  BY <1>2, RouteType
<1>4. PICK found \in Answers(route.resolver) :
        dialled' = [host |-> host, net |-> route.net, resolver |-> route.resolver,
                    found |-> found, addr |-> addr(found)]
  BY DEF Connect
<1>5. found \in SUBSET Families
  BY <1>4 DEF Answers
<1>6. addr(found) \in {"any", Error} \cup Families
  BY <1>5, ResolveFinds
<1>7. addr(found) \in Families =>
        addr(found) = ResolveAddrWithContext(tun.strategy, found)
  <2>1. Error \notin Families /\ "any" \notin Families
    BY ConfigAssumption DEF Families
  <2> QED
    BY <2>1
<1>8. TypeOK'
  <2> HIDE DEF route, addr
  <2> QED
    BY <1>1, <1>3, <1>4, <1>5, <1>6 DEF TypeOK
<1>9. TunInv'
  BY <1>1 DEF TunInv, EndpointFits, bindForConfig, autoStrategy
<1>10. DialInv'
  <2>0. routine # NoRoutine
    BY DEF Connect
  <2>1. Route(routine, dialled'.host) = route /\ Route(routine, host)' = route
    BY <1>1, <1>4 DEF Route, RoutedDial, LookupAddr
  <2> HIDE DEF route, addr
  <2> QED
    BY <1>1, <1>4, <1>7, <2>0, <2>1 DEF DialInv
<1> QED
  BY <1>8, <1>9, <1>10

LEMMA NextConfig == Inv /\ [Next]_vars => Inv'
<1> SUFFICES ASSUME Inv, [Next]_vars
             PROVE  Inv'
  OBVIOUS
<1>1. CASE UNCHANGED vars
  <2>1. TypeOK'
    BY <1>1 DEF vars, Inv, TypeOK
  <2>2. TunInv'
    BY <1>1 DEF vars, Inv, TunInv, EndpointFits, bindForConfig, autoStrategy
  <2>3. Route(routine, dialled.host)' = Route(routine, dialled.host)
    BY <1>1 DEF vars, Route, RoutedDial, LookupAddr
  <2>4. DialInv'
    BY <1>1, <2>3 DEF vars, Inv, DialInv
  <2> QED
    BY <2>1, <2>2, <2>4 DEF Inv
<1>2. CASE Next
  BY <1>2, ParseStep, StartStep, ConnectStep DEF Next, Parsing
<1> QED
  BY <1>1, <1>2

-----------------------------------------------------------------------------
(* Theorems                                                                *)

LEMMA InvHolds == Spec => []Inv
BY InitConfig, NextConfig, PTL DEF Spec

\* Whatever the file holds, what the parser accepts has the type the later steps
\* take for granted.
THEOREM TypeCorrect == Spec => []TypeOK
<1>1. Inv => TypeOK
  BY DEF Inv
<1> QED
  BY <1>1, InvHolds, PTL

\* The client bind refuses no endpoint of the request it is chosen for, however
\* many peers there are.
THEOREM ClientBindIsSafe == Spec => []EndpointFits
<1>1. Inv => EndpointFits
  BY DEF Inv, TunInv
<1> QED
  BY <1>1, InvHolds, PTL

\* The default strategy picks an address of a family the tunnel has whenever the
\* name has one.
THEOREM StrategyFits == Spec => []FamilyFits
<1>1. Inv => FamilyFits
  <2> SUFFICES ASSUME Inv, dialled.addr \in Families, resolve = "auto",
                      NEW family \in dialled.found \cap device.Address
               PROVE  dialled.addr \in device.Address
    BY DEF FamilyFits
  <2>1. dialled # NoDial
    BY DEF NoDial, Families
  <2>2. tun.strategy = autoStrategy
    BY <2>1 DEF Inv, DialInv, TunInv
  <2>3. dialled.addr = ResolveAddrWithContext(autoStrategy, dialled.found)
    BY <2>1, <2>2 DEF Inv, DialInv
  <2>4. dialled.found \in SUBSET Families
    BY <2>1 DEF Inv, TypeOK
  <2>5. family \in {"v4", "v6"} /\ Error \notin {"v4", "v6"}
    BY <2>4, ConfigAssumption DEF Families
  <2> QED
    BY <2>3, <2>4, <2>5 DEF autoStrategy, ResolveAddrWithContext, Preferred, Families
<1> QED
  BY <1>1, InvHolds, PTL

\* The three proxies route by the name alone.
THEOREM NamesDecide == Spec => []RoutedByName
<1>1. Inv => RoutedByName
  <2> SUFFICES ASSUME Inv, dialled # NoDial, routine.kind \in Proxies
               PROVE  dialled.net = "tunnel" <=>
                        \/ routine.TunnelDomains = {}
                        \/ dialled.host.name \in routine.TunnelDomains
    BY DEF RoutedByName
  <2>1. dialled.net = Route(routine, dialled.host).net
    BY DEF Inv, DialInv
  <2>2. dialled.host \in Hosts
    BY DEF Inv, TypeOK
  <2>3. Normalised(dialled.host) = [name |-> dialled.host.name, as |-> "plain"]
    BY <2>2 DEF Normalised, Hosts
  <2>4. shouldTunnel(routine.TunnelDomains, dialled.host) <=>
          \/ routine.TunnelDomains = {}
          \/ dialled.host.name \in routine.TunnelDomains
    BY <2>3 DEF shouldTunnel
  <2>5. RoutedDial(routine, dialled.host).net = "tunnel" <=>
          shouldTunnel(routine.TunnelDomains, dialled.host)
    BY DEF RoutedDial
  <2> QED
    BY <2>1, <2>4, <2>5 DEF Route, Proxies
<1> QED
  BY <1>1, InvHolds, PTL

\* A routine of the configuration that has dialled.
LEMMA DialledRoutine ==
  ASSUME Inv, dialled # NoDial
  PROVE  /\ routine.kind \in Kinds
         /\ tun.SystemDNS = (device.DNS = {})
<1>1. at = 15 /\ routine # NoRoutine
  BY DEF Inv, DialInv
<1>2. tun.SystemDNS = (device.DNS = {})
  BY <1>1 DEF Inv, TunInv
<1>3. routine \in RoutineOf(Kinds)
  BY <1>1, RoutinesDomain DEF Inv, TypeOK, RoutineOf
<1> QED
  BY <1>2, <1>3 DEF RoutineOf

\* With DNS servers in the configuration, no name of a host behind the tunnel
\* is given to the system's resolver.
THEOREM LookupsStayInside == Spec => []NamesStayInTunnel
<1>1. Inv => NamesStayInTunnel
  <2> SUFFICES ASSUME Inv, dialled.net = "tunnel", device.DNS # {}
               PROVE  dialled.resolver = "tunnel"
    BY DEF NamesStayInTunnel
  <2>1. dialled # NoDial
    BY DEF NoDial
  <2>2. routine.kind \in Kinds /\ LookupAddr = "tunnel"
    BY <2>1, DialledRoutine DEF LookupAddr
  <2>3. LET route == Route(routine, dialled.host)
        IN dialled.net = route.net /\ dialled.resolver = route.resolver
    BY <2>1 DEF Inv, DialInv
  <2>4. LET route == RoutedDial(routine, dialled.host)
        IN route.net = "tunnel" => route.resolver = "tunnel"
    BY DEF RoutedDial
  <2> QED
    BY <2>2, <2>3, <2>4 DEF Route, Kinds
<1> QED
  BY <1>1, InvHolds, PTL

==============================================================================
