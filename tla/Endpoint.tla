------------------------------ MODULE Endpoint ------------------------------
(***************************************************************************)
(* What the settings of two machines add up to: whether OpenCode on the    *)
(* client reaches llama.cpp on the server.  Both machines load the same    *)
(* kind of settings, each its own; they are edited between commands; and   *)
(* each command applies what it loaded to some of what is running, keeps   *)
(* the rest, and passes some of it to the other machine in a token.        *)
(*                                                                         *)
(* Commands are single steps, which succeed or fail part of the way, and   *)
(* the operator is a careful one, who uses a token once and throws it away *)
(* when a reply is pending: interleavings, kills and reuse are in          *)
(* PeerRegistration and Enrollment.                                        *)
(***************************************************************************)
EXTENDS Config, FiniteSets, Functions

CONSTANTS
  Overrides,    \* the override directories the operator may write
  MaxEdits,     \* bound on the edits of the settings
  MaxOutages    \* bound on the outages, failed commands and lost papers

ASSUME EndpointAssumption ==
  /\ IsFiniteSet(Overrides) /\ <<>> \in Overrides
  /\ \A o \in Overrides :
       /\ DOMAIN o \subseteq Domains
       /\ "network" \in DOMAIN o => NetworkFields(o.network)
  /\ MaxEdits \in Nat /\ MaxOutages \in Nat

VARIABLES
  over,      \* the override directory of each machine
  store,     \* peers.json in each config_dir; server.key goes with it
  conf,      \* the server's wg0.conf in each config_dir
  tun,       \* what the server's tunnel runs
  svc,       \* the llama.cpp service: the arguments it was registered with
  open,      \* the firewall rule: the UDP ports it lets in, one or, without it, none
  token,     \* the join token the operator holds
  reply,     \* the enrollment reply the operator holds
  wg,        \* the client's wg0.conf
  ctun,      \* what the client's tunnel runs
  code,      \* the base URL in the client's opencode.json
  edits, outages  \* how many there have been (bounds)

server == <<store, conf, tun, svc, open>>
client == <<wg, ctun, code>>
papers == <<token, reply>>
vars   == <<over, server, papers, client, edits, outages>>

Machines == {"server", "client"}
Dirs == {Load(o).installer.config_dir : o \in {p \in Overrides : Loads(p)}}

None == [none |-> TRUE]    \* a file, a tunnel, a service or a paper that is not there

PeerRecs  == [id : Nat, addr : Addrs]
Tunnels   == [dir : Dirs, addr : Addrs, listen : Int, peers : Seq(PeerRecs)]
Services  == [host : Addrs \cup {NoAddr, Blank}, port : Int, up : BOOLEAN]
Tokens    == [addr : Addrs, key : Dirs, server : Addrs, dial : Int]
Clientele == [id : Nat, addr : Addrs, key : Dirs, server : Addrs, dial : Int]

TypeOK ==
  /\ over \in [Machines -> Overrides]
  /\ store \in [Dirs -> Seq(PeerRecs)]
  /\ conf \in [Dirs -> Tunnels \cup {None}]
  /\ tun = None \/ tun \in Tunnels
  /\ svc = None \/ svc \in Services
  /\ open \subseteq Int
  /\ token = None \/ token \in Tokens
  /\ reply = None \/ reply \in PeerRecs
  /\ wg = None \/ wg \in Clientele
  /\ ctun = None \/ ctun \in Clientele
  /\ code = None \/ code \in [addr : Addrs \cup {NoAddr}, port : Int]
  /\ edits \in 0..MaxEdits /\ outages \in 0..MaxOutages

Init ==
  /\ over = [m \in Machines |-> <<>>]
  /\ store = [d \in Dirs |-> <<>>] /\ conf = [d \in Dirs |-> None]
  /\ tun = None /\ svc = None /\ open = {} /\ token = None /\ reply = None
  /\ wg = None /\ ctun = None /\ code = None
  /\ edits = 0 /\ outages = 0

-----------------------------------------------------------------------------
(* install --role server.                                                  *)

\* The settings a command on machine m begins with; it stops there when they
\* do not load.
Runs(m) == Loads(over[m])
Cfg(m)  == Load(over[m])
Dir     == Cfg("server").installer.config_dir
Net(m)  == Cfg(m).network

\* downloadModelStep indexes the first file of the model.
HasFiles(c) == Find(c.models.models, c.models.default).files > 0

\* ServerIdentity.Config, with the key that is in dir.
Rendered(d, peers) ==
  [dir |-> d, addr |-> Net("server").server_address, listen |-> Net("server").listen_port,
   peers |-> peers]
Renders == WithPrefixOK(Net("server").server_address, Net("server").subnet)
Written(peers) == [conf EXCEPT ![Dir] = Rendered(Dir, peers)]

Taken == {Net("server").server_address} \cup {p.addr : p \in Range(store[Dir])}

\* ServerIdentity.NextClientAddress and MintToken; for the endpoint to dial the
\* operator takes the default, the port that the server listens at.
NextAddress == NextClientAddress(Net("server").subnet, Taken)
Minted ==
  [addr |-> NextAddress, key |-> Dir, server |-> Net("server").server_address,
   dial |-> Net("server").listen_port]

\* A tunnel that is active is kept, whatever it runs.
Raised == IF tun = None THEN Rendered(Dir, store[Dir]) ELSE tun

\* llama-server binds to an address of the machine or does not start.
Binds(t) == t # None /\ Net("server").listen_address = t.addr
Service(t) == [host |-> Net("server").listen_address, port |-> Net("server").port, up |-> Binds(t)]

\* A command that meets an outage of the machine's own: a disk, a program it calls.
Fault == outages < MaxOutages /\ outages' = outages + 1

\* The config is written, the tunnel raised, a service that runs is kept, one that
\* does not is installed and started; when it is registered already, or cannot bind,
\* the step fails and a tunnel this run raised is rolled back.  A firewall rule of
\* the name is kept, whatever its port.
InstallServer ==
  /\ Runs("server") /\ HasFiles(Cfg("server")) /\ Renders /\ NextAddress # NoAddr
  /\ conf' = Written(store[Dir])
  /\ \/ svc # None /\ svc.up /\ UNCHANGED svc
     \/ svc = None /\ svc' = Service(Raised)
     \/ svc # None /\ ~svc.up /\ UNCHANGED svc
  /\ tun' = IF svc'.up THEN Raised ELSE tun
  /\ open' = IF svc'.up /\ open = {} THEN {Net("server").listen_port} ELSE open
  /\ token' = IF svc'.up /\ reply = None THEN Minted ELSE token
  /\ UNCHANGED <<over, store, reply, client, edits, outages>>

\* With no address left for a token the step fails after it wrote the config.
InstallServerFull ==
  /\ Runs("server") /\ HasFiles(Cfg("server")) /\ Renders /\ NextAddress = NoAddr
  /\ conf' = Written(store[Dir])
  /\ UNCHANGED <<over, store, tun, svc, open, papers, client, edits, outages>>

\* A step fails after the config was written; the tunnel and the service of this
\* run, if it got to them, are rolled back, or that fails as well.
InstallServerFails ==
  /\ Runs("server") /\ HasFiles(Cfg("server")) /\ Renders /\ NextAddress # NoAddr
  /\ Fault
  /\ conf' = Written(store[Dir])
  /\ tun' \in {tun, Raised}
  /\ svc' \in IF svc = None THEN {None, Service(Raised), [Service(Raised) EXCEPT !.up = FALSE]}
              ELSE {svc}
  /\ UNCHANGED <<over, store, open, papers, client, edits>>

-----------------------------------------------------------------------------
(* install --role client, with the token the operator holds; while a reply *)
(* is pending the careful one does not enrol again.                        *)

\* JoinToken.validate, DecodeReply: tokens and replies are told apart by the
\* fields they must have, and both have an address.
ValidToken(p) == {"key", "server", "addr"} \subseteq DOMAIN p

\* Mutant: a reply is not asked for its public key.
ValidReplyByAddress(p) == "addr" \in DOMAIN p

ValidReply(p) == {"id", "addr"} \subseteq DOMAIN p

\* A key that nothing holds.
Ids(t) == IF t = None THEN {} ELSE {t.id}
PeerIds(t) == IF t = None THEN {} ELSE {p.id : p \in Range(t.peers)}
Held == Ids(wg) \cup Ids(ctun) \cup Ids(reply) \cup PeerIds(tun)
          \cup UNION {PeerIds(conf[d]) \cup {p.id : p \in Range(store[d])} : d \in Dirs}
Fresh == CHOOSE k \in 1..(Cardinality(Held) + 1) :
           k \notin Held /\ \A l \in 1..(k - 1) : l \in Held

\* Enroll: the address, the server's, its key and its endpoint are the token's.
Enrolled ==
  [id |-> Fresh, addr |-> token.addr, key |-> token.key, server |-> token.server,
   dial |-> token.dial]

\* opencode.FromConfig: Network.EndpointURL of the client's own settings.
EndpointURL == [addr |-> Net("client").server_address, port |-> Net("client").port]

InstallClient ==
  /\ Runs("client") /\ ValidToken(token) /\ reply = None
  /\ wg' = Enrolled
  /\ ctun' = IF ctun = None THEN wg' ELSE ctun
  /\ code' = EndpointURL
  /\ reply' = [id |-> Fresh, addr |-> token.addr]
  /\ token' = None
  /\ UNCHANGED <<over, server, edits, outages>>

\* A step fails after the config was written, and the reply is never shown; a tunnel
\* that this run raised is rolled back, or that fails as well.
InstallClientFails ==
  /\ Runs("client") /\ ValidToken(token) /\ reply = None
  /\ Fault
  /\ wg' = Enrolled
  /\ ctun' \in {ctun, IF ctun = None THEN wg' ELSE ctun}
  /\ code' \in {code, EndpointURL}
  /\ UNCHANGED <<over, server, papers, edits>>

-----------------------------------------------------------------------------
(* wireguard add-peer, with a paper the operator holds, the token perhaps  *)
(* for the reply: the store is saved before the config is rendered, and    *)
(* the tunnel is restarted from what it renders to.                        *)

\* PeerStore.Add: at most one entry for a key.
Add(peers, r) == IF r \in Range(peers) THEN peers ELSE Append(peers, r)

\* Mutant: the config is rendered for the new peer only.
AddPeerAlone(p) ==
  /\ Runs("server") /\ ValidReply(p) /\ Renders
  /\ store' = [store EXCEPT ![Dir] = Add(@, p)]
  /\ conf' = Written(<<p>>)
  /\ tun' = conf'[Dir]
  /\ reply' = None
  /\ UNCHANGED <<over, svc, open, token, client, edits, outages>>

\* Mutant: a tunnel that is active is kept.
AddPeerKeepsTunnel(p) ==
  /\ Runs("server") /\ ValidReply(p) /\ Renders
  /\ store' = [store EXCEPT ![Dir] = Add(@, p)]
  /\ conf' = Written(store'[Dir])
  /\ tun' = IF tun = None THEN conf'[Dir] ELSE tun
  /\ reply' = None
  /\ UNCHANGED <<over, svc, open, token, client, edits, outages>>

AddPeer(p) ==
  /\ Runs("server") /\ ValidReply(p) /\ Renders
  /\ store' = [store EXCEPT ![Dir] = Add(@, p)]
  /\ conf' = Written(store'[Dir])
  /\ tun' = conf'[Dir]
  /\ reply' = None
  /\ UNCHANGED <<over, svc, open, token, client, edits, outages>>

\* It fails after the store was saved: the config does not render; or cannot be
\* written, which may leave it torn; or the tunnel does not come up, perhaps because
\* it did not go down -- Down's error is not looked at, and Up's is returned with
\* whatever Down left.
AddPeerFails(p) ==
  /\ Runs("server") /\ ValidReply(p)
  /\ store' = [store EXCEPT ![Dir] = Add(@, p)]
  /\ \/ ~Renders /\ UNCHANGED <<conf, tun, outages>>
     \/ Renders /\ Fault /\ conf' \in {conf, [conf EXCEPT ![Dir] = None]} /\ UNCHANGED tun
     \/ Renders /\ Fault /\ conf' = Written(store'[Dir]) /\ tun' \in {None, tun}
  /\ UNCHANGED <<over, svc, open, papers, client, edits>>

-----------------------------------------------------------------------------
(* Around the commands.                                                    *)

\* The operator writes or removes overrides on a machine.
Edit(m) ==
  /\ edits < MaxEdits /\ edits' = edits + 1
  /\ \E o \in Overrides \ {over[m]} : over' = [over EXCEPT ![m] = o]
  /\ UNCHANGED <<server, papers, client, outages>>

\* The operator removes the service by hand: nothing in the program does.
ClearService ==
  /\ edits < MaxEdits /\ edits' = edits + 1
  /\ svc # None /\ svc' = None
  /\ UNCHANGED <<over, store, conf, tun, open, papers, client, outages>>

\* The operator loses a paper, but not a reply that add-peer has failed on.
Lose ==
  /\ Fault
  /\ token # None \/ reply # None
  /\ \A d \in Dirs : reply \notin Range(store[d])
  /\ token' = None /\ reply' = None
  /\ UNCHANGED <<over, server, client, edits>>

\* A tunnel stops.
Outage ==
  /\ Fault
  /\ \/ tun # None /\ tun' = None /\ UNCHANGED ctun
     \/ ctun # None /\ ctun' = None /\ UNCHANGED tun
  /\ UNCHANGED <<over, store, conf, svc, open, papers, wg, code, edits>>

\* The server boots: its tunnel runs what its config file has by now, if that is
\* whole, and the service starts again if it can bind.
Reboot ==
  /\ Fault
  /\ tun # None
  /\ tun' = conf[tun.dir]
  /\ svc' = IF svc = None THEN None
            ELSE [svc EXCEPT !.up = tun' # None /\ svc.host = tun'.addr]
  /\ UNCHANGED <<over, store, conf, open, papers, client, edits>>

Commands ==
  \/ InstallServer \/ InstallServerFull \/ InstallServerFails
  \/ InstallClient \/ InstallClientFails
  \/ \E p \in {token, reply} : AddPeer(p) \/ AddPeerFails(p)

Next == Commands \/ Lose \/ ClearService \/ Outage \/ Reboot \/ \E m \in Machines : Edit(m)

Spec == Init /\ [][Next]_vars

-----------------------------------------------------------------------------
\* Of several peers with one /32 the last has it.
Routed(t, c) ==
  \E i \in DOMAIN t.peers :
    /\ t.peers[i] = [id |-> c.id, addr |-> c.addr]
    /\ \A j \in DOMAIN t.peers : j > i => t.peers[j].addr # c.addr

\* A request of OpenCode gets to llama.cpp, when the server's tunnel runs t: it goes
\* to the one address that the client's tunnel takes, the client dials the port that t
\* listens at -- a given one, and let in --, the two ends know each other, and the
\* server listens at that address.
ReachesThrough(t) ==
  /\ t # None /\ ctun # None /\ ctun.key = t.dir /\ Routed(t, ctun)
  /\ ctun.dial = t.listen /\ t.listen # 0 /\ open = {t.listen}
  /\ code # None /\ code.addr = ctun.server /\ code.addr = t.addr
  /\ svc # None /\ svc.up /\ svc.host = t.addr /\ svc.port = code.port

Reaches == ReachesThrough(tun)

\* An operator whose endpoint does not answer runs the commands again, the
\* client's install if its tunnel is down or its settings have changed; nobody is
\* obliged to boot, edit or clear anything.
FairSpec ==
  /\ Spec
  /\ WF_vars(~Reaches /\ InstallServer)
  /\ WF_vars(~Reaches /\ InstallClient /\ (ctun = None \/ code # EndpointURL))
  /\ WF_vars(~Reaches /\ AddPeer(reply))

\* The host addresses of the subnet, by definition rather than by scanning.
HostsOf(p) == {a \in Addrs : Contains(p, a)} \ {Masked(p).addr}

\* Every token offers a host address of the subnet that neither the server nor a
\* registered peer has, the lowest such -- so that the broadcast address, which
\* the code counts among the hosts, goes out only when nothing else is left.
TokensSound ==
  [][token' # token /\ token' # None =>
       LET free == HostsOf(Net("server").subnet) \ Taken
       IN token'.addr \in free /\ \A a \in free : token'.addr <= a]_vars

\* What runs, and the enrolment that is pending, is what the settings of both
\* machines say: a reply made for another config_dir may name an address that is
\* taken in this one.
InForce ==
  /\ Runs("server") /\ Runs("client")
  /\ tun # None /\ tun.dir = Dir /\ tun.addr = Net("server").server_address
  /\ tun.listen = Net("server").listen_port
  /\ code = EndpointURL /\ (reply # None => wg.key = Dir)

\* The config in config_dir is one through which the endpoint answers.
Restorable == ReachesThrough(conf[Dir])

\* installer.go: "re-running install is safe".  While the settings are in force no
\* install, however often and in whatever order it is run, failing or not, cuts off
\* an endpoint that answers: not the client's new enrolment, which its old tunnel
\* ignores.  Nor does its registration, with one exception: an add-peer that takes
\* the tunnel down and fails to bring it up leaves none -- but its config is there,
\* through which the endpoint answers again, and so is the reply to run it with.
RerunKeepsEndpoint ==
  [][Reaches /\ InForce /\ Commands =>
       \/ Reaches'
       \/ AddPeerFails(reply) /\ tun' = None /\ reply' = reply /\ Restorable']_vars

\* Settings that fit together on the server, and with the client's.
Sound ==
  /\ Runs("server") /\ HasFiles(Cfg("server")) /\ Renders
  /\ Net("server").listen_address = Net("server").server_address
  /\ Net("server").listen_port # 0
Shared ==
  /\ Runs("client")
  /\ Net("client").server_address = Net("server").server_address
  /\ Net("client").port = Net("server").port

\* No command brings a service to other settings, or one that is down to run...
ServiceKept ==
  svc # None /\ (~svc.up \/ svc.host # Net("server").listen_address \/ svc.port # Net("server").port)

\* ... nor the firewall rule to another port, nor install the server's tunnel to
\* another address, port or config_dir (add-peer does), nor the client's to another
\* server or to its own later enrolment.
RuleKept == open \notin {{}, {Net("server").listen_port}}
ServerTunnelKept ==
  /\ tun # None
  /\ \/ tun.dir # Dir \/ tun.addr # Net("server").server_address
     \/ tun.listen # Net("server").listen_port
ClientTunnelKept ==
  /\ ctun # None
  /\ \/ ctun.key # Dir \/ ctun.server # Net("server").server_address
     \/ ctun.dial # Net("server").listen_port \/ ctun # wg
     \/ [id |-> ctun.id, addr |-> ctun.addr] \notin Range(store[Dir]) \cup {reply}

SubnetFull == NextAddress = NoAddr

\* With sound and shared settings an operator who goes on re-running the commands
\* gets an endpoint that answers, from whatever earlier settings, failures and
\* outages left, but for four things the program keeps as it finds them -- the
\* service, the firewall rule and the two tunnels -- and a subnet with no address left.
ConvergesUnlessKept ==
  []<>(Sound /\ Shared =>
         \/ Reaches \/ SubnetFull
         \/ ServiceKept \/ RuleKept \/ ServerTunnelKept \/ ClientTunnelKept)
=============================================================================
