-------------------------------- MODULE Config --------------------------------
(***************************************************************************)
(* From a configuration file to a connection: config.go reads the file     *)
(* section by section and gives up at the first error, wireguard.go starts *)
(* the tunnel it describes, and the routine it names decides for each      *)
(* connection which network to use and who looks the name up (routine.go,  *)
(* router.go).                                                             *)
(*                                                                         *)
(* The file is whatever the parser finds when it looks: each section may   *)
(* have any of the raw values below.  The Configuration keeps what later   *)
(* steps look at; the rest is checked for errors and left out.             *)
(***************************************************************************)
EXTENDS Naturals, Sequences

CONSTANTS
  Error,     \* an error in place of a value
  MaxPeers   \* how many [Peer] sections a file may have

\* An error is none of the values a key or an address may have.
ASSUME ConfigAssumption ==
  /\ MaxPeers \in Nat
  /\ Error \notin {"", "value", "$value", "bad", "v4", "v6"}

-----------------------------------------------------------------------------
(* Keys                                                                    *)

\* What a key may be in the file: missing (or empty), a value that is right for
\* it, one that is not, $NAME of a variable that is set or is not, or $$value.
Raw == {"missing", "value", "bad", "set", "unset", "escaped"}

\* A missing key is an empty string: the section makes it up when asked for it.
parseString(raw) ==
  CASE raw = "missing" -> ""
    [] raw = "set"     -> "value"
    [] raw = "unset"   -> Error
    [] raw = "escaped" -> "$value"
    [] OTHER           -> raw

\* The caller drops the error and keeps the empty string that came with it.
Lenient(result) == IF result = Error THEN "" ELSE result

Optional == {"missing", "value", "unset"}

\* A number from 0 to 65535; the variables of parseString are not known here.
parsePort(raw) == IF raw = "value" THEN "value" ELSE Error

\* ResolveTCPAddr takes the empty string for any address and any port.
parseTCPAddr(raw) ==
  LET addr == parseString(raw) IN IF addr \in {"", "value"} THEN addr ELSE Error

encodeBase64ToHex(key) == IF key = "value" THEN "value" ELSE Error

parseBase64KeyToHex(raw) == encodeBase64ToHex(parseString(raw))

Families == {"v4", "v6"}

\* A list of addresses, by the families in it and the form they are written in.
parseAddrs(raw, form, forms) ==
  CASE parseString(raw) = ""      -> {}
    [] parseString(raw) = "value" -> IF form.as \in forms THEN form.families ELSE Error
    [] OTHER                      -> Error

Form == [as : {"address", "prefix"}, families : (SUBSET Families) \ {{}}]

parseNetIP(raw, form)      == parseAddrs(raw, form, {"address"})
parseCIDRNetIP(raw, form)  == parseAddrs(raw, form, {"address", "prefix"})
parseAllowedIPs(raw, form) == parseAddrs(raw, form, {"prefix"})

Number == {"missing", "value", "bad"}

\* An optional key that holds a number.
OptionalInt(raw, default) ==
  CASE raw = "missing" -> default
    [] raw = "value"   -> "value"
    [] OTHER           -> Error

\* Defect: a blank line is a pattern, too.
parseRegexList_Blank(lines) == IF "bad" \in lines THEN Error ELSE lines

\* Every line of TunnelDomains is a pattern, and blank lines are not.  A pattern
\* is the host name it matches.
parseRegexList(lines) == IF "bad" \in lines THEN Error ELSE lines \ {"blank"}

Lines == SUBSET {"listed.example", "blank", "bad"}

parseBoolKey(raw) ==
  CASE raw = "missing" -> FALSE
    [] raw = "value"   -> TRUE
    [] OTHER           -> Error

Rejected(section) == \E key \in DOMAIN section : section[key] = Error
Accepted(sections) == {section \in sections : ~Rejected(section)}

-----------------------------------------------------------------------------
(* Sections, each as the set of what may come of parsing one               *)

\* CheckAliveInterval is a number only where CheckAlive has addresses; which
\* number, zero say, is not looked at.
ParseInterface ==
  LET Alive(alive, interval) ==
        IF alive = {} /\ interval # "missing" THEN Error ELSE OptionalInt(interval, "5")
  IN {[Address |-> parseCIDRNetIP(address, form), DNS |-> parseNetIP(dns, form),
       PrivateKey |-> parseBase64KeyToHex(key), MTU |-> OptionalInt(number, "1420"),
       ListenPort |-> OptionalInt(number, "none"), CheckAlive |-> parseNetIP(alive, form),
       CheckAliveInterval |-> Alive(parseNetIP(alive, form), interval)] :
        address \in Raw, dns \in Raw, key \in Raw, number \in Number,
        alive \in Raw, interval \in Number, form \in Form}

\* The endpoint becomes an IP address and a port that nobody checks; a host name
\* that has no address is an error.
resolveIPPAndPort(endpoint) == IF endpoint = "unknown" THEN Error ELSE endpoint

Endpoints == {"none", "1.1.1.1:1", "2.2.2.2:2", "1.1.1.1:odd"}

ParsePeer ==
  {[PublicKey |-> parseBase64KeyToHex(key),
    PreSharedKey |-> IF psk = "missing" THEN "zeros" ELSE encodeBase64ToHex(psk),
    Endpoint |-> resolveIPPAndPort(endpoint),
    KeepAlive |-> OptionalInt(keepAlive, "0"),
    AllowedIPs |-> parseAllowedIPs(allowed, form)] :
     key \in Raw, psk \in Raw, endpoint \in Endpoints \cup {"unknown"},
     keepAlive \in Number, allowed \in Raw, form \in Form}

parseTCPClientTunnelConfig ==
  {[BindAddress |-> parseTCPAddr(bind), Target |-> parseString(target)] :
     bind \in Raw, target \in Raw}

parseSTDIOTunnelConfig == {[Target |-> parseString(target)] : target \in Raw}

parseTCPServerTunnelConfig ==
  {[ListenPort |-> parsePort(port), Target |-> parseString(target)] :
     port \in Raw, target \in Raw}

parseSocks5Config ==
  {[BindAddress |-> parseString(bind), Username |-> Lenient(parseString(user)),
    Password |-> Lenient(parseString(password)),
    TunnelDomains |-> parseRegexList(lines), LogDomains |-> parseBoolKey(log)] :
     bind \in Raw, user \in Optional, password \in Optional, lines \in Lines,
     log \in Number}

parseSNIConfig ==
  {[BindAddress |-> parseString(bind), TunnelDomains |-> parseRegexList(lines),
    LogDomains |-> parseBoolKey(log)] : bind \in Raw, lines \in Lines, log \in Number}

parseHTTPConfig ==
  {[BindAddress |-> parseString(bind), Username |-> Lenient(parseString(user)),
    Password |-> Lenient(parseString(password)),
    CertFile |-> Lenient(parseString(cert)), KeyFile |-> Lenient(parseString(file)),
    TunnelDomains |-> parseRegexList(lines), LogDomains |-> parseBoolKey(log)] :
     bind \in Raw, user \in Optional, password \in Optional, cert \in Optional,
     file \in Optional, lines \in Lines, log \in Number}

parseUDPServerTunnelConfig ==
  {[ListenPort |-> parsePort(port), Target |-> parseString(target),
    InactivityTimeout |-> OptionalInt(timeout, "0")] :
     port \in Raw, target \in Raw, timeout \in Number}

parseUDPProxyTunnelConfig ==
  {[BindAddress |-> parseString(bind), Target |-> parseString(target),
    InactivityTimeout |-> OptionalInt(timeout, "0")] :
     bind \in Raw, target \in Raw, timeout \in Number}

-----------------------------------------------------------------------------
(* What of a section later steps look at                                   *)

Devices == {[Address |-> s.Address, DNS |-> s.DNS] : s \in Accepted(ParseInterface)}

PeerEndpoints == {s.Endpoint : s \in Accepted(ParsePeer)}

Tunnelled(kind, sections) ==
  {[kind |-> kind, TunnelDomains |-> {}, LogDomains |-> FALSE] : s \in Accepted(sections)}

Proxied(kind, sections) ==
  {[kind |-> kind, TunnelDomains |-> s.TunnelDomains, LogDomains |-> s.LogDomains] :
     s \in Accepted(sections)}

Routines ==
  [TCPClientTunnel |-> Tunnelled("TCPClientTunnel", parseTCPClientTunnelConfig),
   STDIOTunnel     |-> Tunnelled("STDIOTunnel", parseSTDIOTunnelConfig),
   TCPServerTunnel |-> Tunnelled("TCPServerTunnel", parseTCPServerTunnelConfig),
   Socks5          |-> Proxied("Socks5", parseSocks5Config),
   http            |-> Proxied("http", parseHTTPConfig),
   SNI             |-> Proxied("SNI", parseSNIConfig),
   UDPServerTunnel |-> Tunnelled("UDPServerTunnel", parseUDPServerTunnelConfig),
   UDPProxyTunnel  |-> Tunnelled("UDPProxyTunnel", parseUDPProxyTunnelConfig)]

Proxies == {"Socks5", "http", "SNI"}

\* parseResolveConfig: any string, and the empty one for a key that is missing
\* or names a variable that is not set.
parseResolveConfig ==
  {Lenient(parseString(raw)) : raw \in Optional \ {"value"}}
    \cup {"auto", "ipv4", "ipv6", "other"}

-----------------------------------------------------------------------------
(* The Configuration and the tunnel                                        *)

\* The order in which ParseConfig looks at the file, and what comes after it.
Order == <<"load", "WGConfig", "Interface", "Peer", "TCPClientTunnel", "STDIOTunnel",
           "TCPServerTunnel", "Socks5", "http", "SNI", "Resolve", "UDPServerTunnel",
           "UDPProxyTunnel", "start", "serve">>

VARIABLES
  at,        \* the position in Order, 0 after an error
  device,    \* Conf.Device: the families of its addresses, whether it has DNS
  peers,     \* Conf.Device.Peers: their endpoints
  routine,   \* one of Conf.Routines, and nil while there is none
  resolve,   \* Conf.Resolve.ResolveStrategy as parsed
  tun,       \* the VirtualTun
  dialled    \* the last connection the routine made

vars == <<at, device, peers, routine, resolve, tun, dialled>>

NoDevice  == [Address |-> {}, DNS |-> {}]
NoRoutine == [kind |-> "nil", TunnelDomains |-> {}, LogDomains |-> FALSE]
NoTun     == [bind |-> "nil", SystemDNS |-> FALSE, strategy |-> "nil"]
NoDial    == [host |-> [name |-> "nil", as |-> "plain"], net |-> "nil",
              resolver |-> "nil", found |-> {}, addr |-> "nil"]

\* What Resolve.ResolveStrategy may be.
Strategies == {"", "auto", "ipv4", "ipv6", "other"}

Hosts == [name : {"listed.example", "other.example"}, as : {"plain", "upper", "dotted"}]

TypeOK ==
  /\ at \in 0..Len(Order)
  /\ device \in [Address : SUBSET Families, DNS : SUBSET Families]
  /\ peers \in Seq(Endpoints) /\ Len(peers) <= MaxPeers
  /\ routine = NoRoutine \/
       routine \in [kind : DOMAIN Routines, TunnelDomains : SUBSET {"listed.example"},
                   LogDomains : BOOLEAN]
  /\ resolve \in Strategies
  /\ tun \in [bind : {"nil", "default", "client"}, SystemDNS : BOOLEAN,
              strategy : (Strategies \ {"auto"}) \cup {"nil"}]
  /\ dialled = NoDial \/
       dialled \in [host : Hosts, net : {"tunnel", "direct"},
                   resolver : {"tunnel", "system"}, found : SUBSET Families,
                   addr : {"any", Error} \cup Families]

Init ==
  /\ at = 1
  /\ device = NoDevice
  /\ peers = <<>>
  /\ routine = NoRoutine
  /\ resolve = "auto"
  /\ tun = NoTun
  /\ dialled = NoDial

Advance == at' = at + 1
Reject  == at' = 0

\* The file is loaded, and the file that WGConfig names; either may not be
\* there, or not be an ini file.
LoadSources ==
  /\ Order[at] \in {"load", "WGConfig"}
  /\ Advance \/ Reject
  /\ UNCHANGED <<device, peers, routine, resolve, tun, dialled>>

\* There must be one [Interface], in the file of WGConfig if that is given.
Interface ==
  /\ Order[at] = "Interface"
  /\ \/ Reject /\ UNCHANGED device
     \/ Advance /\ device' \in Devices
  /\ UNCHANGED <<peers, routine, resolve, tun, dialled>>

\* There must be a [Peer], and there may be more.
ParsePeers ==
  /\ Order[at] = "Peer"
  /\ \/ Reject /\ UNCHANGED peers
     \/ Len(peers) > 0 /\ Advance /\ UNCHANGED peers
     \/ /\ Len(peers) < MaxPeers
        /\ \E endpoint \in PeerEndpoints : peers' = Append(peers, endpoint)
        /\ UNCHANGED at
  /\ UNCHANGED <<device, routine, resolve, tun, dialled>>

\* parseRoutinesConfig: any number of sections of a kind, any of which may be
\* wrong.
ParseRoutines ==
  /\ Order[at] \in DOMAIN Routines
  /\ \/ Reject /\ UNCHANGED routine
     \/ Advance /\ UNCHANGED routine
     \/ routine' \in Routines[Order[at]] /\ UNCHANGED at
  /\ UNCHANGED <<device, peers, resolve, tun, dialled>>

\* A [Resolve] section replaces the default as a whole.
ParseResolve ==
  /\ Order[at] = "Resolve"
  /\ Advance
  /\ resolve' \in {resolve} \cup parseResolveConfig
  /\ UNCHANGED <<device, peers, routine, tun, dialled>>

-----------------------------------------------------------------------------
(* StartWireguardWithLogger                                                *)

\* netip.ParseAddrPort, which wants a number for a port.
ParseAddrPort(endpoint) == endpoint \in {"1.1.1.1:1", "2.2.2.2:2"}

\* Defect: the first peer decides.
bindForConfig_FirstPeer ==
  IF ParseAddrPort(peers[1]) THEN "client" ELSE "default"

bindForConfig ==
  IF Len(peers) = 1 /\ ParseAddrPort(peers[1]) THEN "client" ELSE "default"

\* The client bind takes its own peer for an endpoint and nothing else.
ParseEndpoint(bind, endpoint) ==
  ParseAddrPort(endpoint) /\ (bind = "client" => endpoint = peers[1])

\* The endpoints in the request.
CreateIPCRequest == {peers[i] : i \in 1..Len(peers)} \ {"none"}

\* Defect: the families are taken for each other.
autoStrategy_Swapped ==
  IF "v4" \in device.Address /\ "v6" \notin device.Address THEN "ipv6" ELSE "ipv4"

autoStrategy ==
  IF "v4" \in device.Address /\ "v6" \notin device.Address THEN "ipv4" ELSE "ipv6"

\* IpcSet refuses an endpoint ...
EndpointRefused ==
  /\ Order[at] = "start"
  /\ \E endpoint \in CreateIPCRequest : ~ParseEndpoint(bindForConfig, endpoint)
  /\ Reject
  /\ tun' = [NoTun EXCEPT !.bind = bindForConfig]
  /\ UNCHANGED <<device, peers, routine, resolve, dialled>>

\* ... or the start fails for another reason ...
StartFails ==
  /\ Order[at] = "start"
  /\ Reject
  /\ UNCHANGED <<device, peers, routine, resolve, tun, dialled>>

\* ... or the tunnel is up.
StartWireguard ==
  /\ Order[at] = "start"
  /\ \A endpoint \in CreateIPCRequest : ParseEndpoint(bindForConfig, endpoint)
  /\ Advance
  /\ tun' = [bind |-> bindForConfig, SystemDNS |-> device.DNS = {},
             strategy |-> IF resolve = "auto" THEN autoStrategy ELSE resolve]
  /\ UNCHANGED <<device, peers, routine, resolve, dialled>>

-----------------------------------------------------------------------------
(* Connections                                                             *)

\* Defect: upper case is folded, the trailing dot stays.
Normalised_Dot(host) == IF host.as = "upper" THEN [host EXCEPT !.as = "plain"] ELSE host

\* Lower case, and without a trailing dot.
Normalised(host) == [host EXCEPT !.as = "plain"]

\* A pattern matches the name as it is usually written.
shouldTunnel(patterns, host) ==
  \/ patterns = {}
  \/ Normalised(host).as = "plain" /\ Normalised(host).name \in patterns

\* Defect: names are always looked up by the system.
LookupAddr_System == "system"

\* Who looks a name up for the tunnel's own resolver.
LookupAddr == IF tun.SystemDNS THEN "system" ELSE "tunnel"

Preferred(first, second, found) ==
  IF first \in found THEN first ELSE IF second \in found THEN second ELSE Error

\* The address that is picked from those a name has.  A strategy that is neither
\* finds nothing.
ResolveAddrWithContext(strategy, found) ==
  CASE strategy = "ipv4" -> Preferred("v4", "v6", found)
    [] strategy = "ipv6" -> Preferred("v6", "v4", found)
    [] OTHER             -> Error

\* RoutedDial and routedSocks5Dial: the name goes to the dialler of a network,
\* which looks it up itself.
RoutedDial(r, host) ==
  IF shouldTunnel(r.TunnelDomains, host)
  THEN [net |-> "tunnel", resolver |-> "tunnel", own |-> FALSE]
  ELSE [net |-> "direct", resolver |-> "system", own |-> FALSE]

\* How a routine reaches a host: the network it dials, who looks the name up,
\* and whether that is for ResolveAddrWithContext.
Route(r, host) ==
  CASE r.kind \in {"TCPClientTunnel", "STDIOTunnel"} ->
         [net |-> "tunnel", resolver |-> LookupAddr, own |-> TRUE]
    [] r.kind = "TCPServerTunnel" -> [net |-> "direct", resolver |-> LookupAddr, own |-> TRUE]
    [] r.kind = "UDPServerTunnel" -> [net |-> "direct", resolver |-> "system", own |-> FALSE]
    [] r.kind = "UDPProxyTunnel"  -> [net |-> "tunnel", resolver |-> "tunnel", own |-> FALSE]
    [] r.kind \in {"http", "SNI"} -> RoutedDial(r, host)
    [] r.kind = "Socks5" -> IF r.TunnelDomains = {} /\ ~r.LogDomains
                            THEN [net |-> "tunnel", resolver |-> LookupAddr, own |-> TRUE]
                            ELSE RoutedDial(r, host)

\* What a lookup may find; the tunnel's needs a DNS server.
Answers(resolver) ==
  IF resolver = "tunnel" /\ device.DNS = {} THEN {{}} ELSE SUBSET Families

Connect(host) ==
  /\ Order[at] = "serve"
  /\ routine # NoRoutine
  /\ LET route == Route(routine, host)
     IN \E found \in Answers(route.resolver) :
          dialled' = [host |-> host, net |-> route.net, resolver |-> route.resolver,
                      found |-> found,
                      addr |-> IF route.own THEN ResolveAddrWithContext(tun.strategy, found)
                               ELSE IF found = {} THEN Error ELSE "any"]
  /\ UNCHANGED <<at, device, peers, routine, resolve, tun>>

-----------------------------------------------------------------------------
Next ==
  /\ at # 0
  /\ \/ LoadSources
     \/ Interface
     \/ ParsePeers
     \/ ParseRoutines
     \/ ParseResolve
     \/ EndpointRefused
     \/ StartFails
     \/ StartWireguard
     \/ \E host \in Hosts : Connect(host)

Spec == Init /\ [][Next]_vars

-----------------------------------------------------------------------------
(* Properties                                                              *)

\* The bind that is chosen from the peers accepts every endpoint the request
\* built from the same peers has: no start fails because the client bind refused
\* an endpoint.  Starts that fail for other reasons (StartFails) have no bind here.
EndpointFits == at = 0 => tun.bind # "client"

\* With the default strategy, a name that has an address of a family the tunnel
\* has is resolved to such an address, whatever others it has.
FamilyFits ==
  dialled.addr \in Families /\ resolve = "auto" /\ dialled.found \cap device.Address # {}
    => dialled.addr \in device.Address

\* The three proxies agree: a host goes through the tunnel if its name is listed
\* or nothing is, however the name is written and whoever will look it up.
RoutedByName ==
  dialled # NoDial /\ routine.kind \in Proxies =>
    (dialled.net = "tunnel" <=>
       routine.TunnelDomains = {} \/ dialled.host.name \in routine.TunnelDomains)

\* With DNS servers configured, the name of a host that is reached through the
\* tunnel is looked up there and never by the system.
NamesStayInTunnel ==
  dialled.net = "tunnel" /\ device.DNS # {} => dialled.resolver = "tunnel"

==============================================================================
