----------------------------- MODULE Enrollment -----------------------------
(***************************************************************************)
(* How a macOS client gets into the server's tunnel: `install --role       *)
(* server` mints a join token, the operator carries it to the client,      *)
(* `install --role client` makes keys, a config and a reply of it, and the *)
(* operator carries the reply back to `wireguard add-peer`.  Tokens and    *)
(* replies are printed text: they may be used late, again, or never.  The  *)
(* server's commands are single steps here, and its key is one and the     *)
(* same throughout; PeerRegistration takes the commands apart, and has     *)
(* what replaces the key, after which no client gets through at all.       *)
(***************************************************************************)
EXTENDS Naturals, Sequences, Functions

CONSTANTS
  Clients,     \* the macOS machines
  Hosts,       \* the addresses of the subnet but the first, as numbers
  Server,      \* network.yaml's server_address
  MaxKeys,     \* bound on the client keys generated
  MaxFaults    \* bound on failures, kills and outages

ASSUME EnrollmentAssumption ==
  Hosts \subseteq Nat /\ Server \in Hosts /\ MaxKeys \in Nat /\ MaxFaults \in Nat

VARIABLES
  careful,   \* whether the operator enrolls one client at a time: see Mint; fixed
  store,     \* the server's peers.json
  conf,      \* the peers in its wg0.conf
  serving,   \* the peers its tunnel was started with: see Up
  tokens,    \* the addresses in the join tokens the operator holds
  replies,   \* the enrollment replies the operator holds
  phase,     \* where each client's install is: see Phases
  cconf,     \* the key and address in each client's wg0.conf, or NoPeer
  running,   \* those its tunnel was started with, or NoPeer
  made,      \* how many client keys were ever generated
  acked,     \* the keys add-peer has said are registered (history)
  faults     \* how many faults have happened (bound)

server == <<store, conf, serving, acked>>
papers == <<tokens, replies>>
client == <<phase, cconf, running, made>>
vars   == <<careful, server, papers, client, faults>>

\* The server's tunnel, and the config or running key of a client that has none.
Off       == [up |-> FALSE, peers |-> <<>>]
Up(peers) == [up |-> TRUE, peers |-> peers]
NoPeer    == [key |-> 0, addr |-> 0]

\* What a client's reply registers: PeerFromReply.
Peers == [key : 1..MaxKeys, addr : Hosts \ {Server}]

\* After the enroll step, and after a tunnel step that started the tunnel or
\* found it active.
Phases == {"idle", "enrolled", "raised", "kept"}

TypeOK ==
  /\ careful \in BOOLEAN
  /\ store \in Seq(Peers) /\ conf \in Seq(Peers)
  /\ serving.up \in BOOLEAN /\ serving.peers \in Seq(Peers)
  /\ tokens \subseteq Hosts \ {Server} /\ replies \subseteq Peers
  /\ phase \in [Clients -> Phases]
  /\ cconf \in [Clients -> Peers \cup {NoPeer}] /\ running \in [Clients -> Peers \cup {NoPeer}]
  /\ made \in 0..MaxKeys /\ acked \subseteq 1..MaxKeys /\ faults \in 0..MaxFaults

Init ==
  /\ careful \in BOOLEAN
  /\ store = <<>> /\ conf = <<>> /\ serving = Off /\ acked = {}
  /\ tokens = {} /\ replies = {}
  /\ phase = [c \in Clients |-> "idle"]
  /\ cconf = [c \in Clients |-> NoPeer] /\ running = [c \in Clients |-> NoPeer]
  /\ made = 0
  /\ faults = 0

Fault == faults < MaxFaults /\ faults' = faults + 1

-----------------------------------------------------------------------------
(* The server.                                                             *)

\* Mutant: the server's own address is not reserved.
FreePeersOnly == Hosts \ {store[i].addr : i \in DOMAIN store}

\* Mutant: the registered peers' addresses are not reserved.
FreeServerOnly == Hosts \ {Server}

Free == Hosts \ ({Server} \cup {store[i].addr : i \in DOMAIN store})

\* NextClientAddress scans upwards from the network address.
NextClientAddress == CHOOSE a \in Free : \A b \in Free : a <= b

\* A careful operator throws older tokens away, and asks for one only when no
\* install is going on and every reply was registered or thrown away too.
Mint ==
  \/ /\ careful /\ replies = {} /\ \A c \in Clients : phase[c] = "idle"
     /\ tokens' = {NextClientAddress}
  \/ /\ ~careful
     /\ tokens' = tokens \cup {NextClientAddress}

\* wireguard-server-config writes the config, wireguard-tunnel-up starts a
\* tunnel that is not active, report prints the token.
Install ==
  /\ Free # {}
  /\ Mint
  /\ conf' = store
  /\ serving' = IF serving = Off THEN Up(conf') ELSE serving
  /\ UNCHANGED <<careful, store, acked, replies, client, faults>>

\* The config step fails after writing, for want of an address; or a later step
\* fails, and the rollback of a tunnel this run started may fail too.
InstallFails ==
  /\ conf' = store
  /\ \/ Free = {} /\ UNCHANGED <<serving, faults>>
     \/ Fault /\ serving' \in {serving} \cup (IF serving = Off THEN {Up(conf')} ELSE {})
  /\ UNCHANGED <<careful, store, acked, papers, client>>

\* Mutant: the new peer takes the place of the others.
AddAlone(peers, r) == <<r>>

Add(peers, r) ==
  IF \E i \in DOMAIN peers : peers[i].key = r.key THEN peers ELSE Append(peers, r)

\* Mutant: the tunnel is not reloaded when it is active.
AddPeerNoReload(r) ==
  /\ r \in replies
  /\ store' = Add(store, r)
  /\ conf' = store'
  /\ serving' = IF serving = Off THEN Up(conf') ELSE serving
  /\ acked' = acked \cup {r.key}
  /\ replies' = IF careful THEN replies \ {r} ELSE replies
  /\ UNCHANGED <<careful, tokens, client, faults>>

\* Mutant: the config is not rendered again.
AddPeerNoConfig(r) ==
  /\ r \in replies
  /\ store' = Add(store, r)
  /\ serving' = Up(store')
  /\ acked' = acked \cup {r.key}
  /\ replies' = IF careful THEN replies \ {r} ELSE replies
  /\ UNCHANGED <<careful, conf, tokens, client, faults>>

\* add-peer; a careful operator throws away a reply that is registered.
AddPeer(r) ==
  /\ r \in replies
  /\ store' = Add(store, r)
  /\ conf' = store'
  /\ serving' = Up(conf')
  /\ acked' = acked \cup {r.key}
  /\ replies' = IF careful THEN replies \ {r} ELSE replies
  /\ UNCHANGED <<careful, tokens, client, faults>>

\* It fails, or is killed, after the store is saved: before the config is
\* written, before the tunnel is down, or before it is up again.
AddPeerFails(r) ==
  /\ r \in replies
  /\ Fault
  /\ store' = Add(store, r)
  /\ \/ UNCHANGED <<conf, serving>>
     \/ conf' = store' /\ serving' \in {serving, Off}
  /\ UNCHANGED <<careful, acked, papers, client>>

\* The tunnel service stops; or it is started again, as on every boot, from
\* the config file.
Outage ==
  /\ serving # Off
  /\ Fault
  /\ serving' = Off
  /\ UNCHANGED <<careful, store, conf, acked, papers, client>>

Restart ==
  /\ serving # Off
  /\ serving' = Up(conf)
  /\ UNCHANGED <<careful, store, conf, acked, papers, client, faults>>

-----------------------------------------------------------------------------
(* The clients' install, from its enroll step on; what comes before leaves *)
(* the tunnel alone.                                                       *)

\* enrollStep: always runs, with fresh keys, whatever was enrolled before.
Enroll(c, a) ==
  /\ phase[c] = "idle"
  /\ a \in tokens
  /\ made < MaxKeys
  /\ made' = made + 1
  /\ cconf' = [cconf EXCEPT ![c] = [key |-> made', addr |-> a]]
  /\ phase' = [phase EXCEPT ![c] = "enrolled"]
  /\ tokens' = IF careful THEN tokens \ {a} ELSE tokens
  /\ UNCHANGED <<careful, server, replies, running, faults>>

\* bringTunnelUpStep: a tunnel that is active is left as it is.
TunnelUp(c) ==
  /\ phase[c] = "enrolled"
  /\ \/ /\ running[c] = NoPeer
        /\ running' = [running EXCEPT ![c] = cconf[c]]
        /\ phase' = [phase EXCEPT ![c] = "raised"]
     \/ /\ running[c] # NoPeer
        /\ phase' = [phase EXCEPT ![c] = "kept"]
        /\ UNCHANGED running
  /\ UNCHANGED <<careful, server, papers, cconf, made, faults>>

\* reportStep prints the reply made of the same keys and token.
Report(c) ==
  /\ phase[c] \in {"raised", "kept"}
  /\ phase' = [phase EXCEPT ![c] = "idle"]
  /\ replies' = replies \cup {cconf[c]}
  /\ UNCHANGED <<careful, server, tokens, cconf, running, made, faults>>

\* A step fails; a tunnel this run started is rolled back, unless that fails or
\* the process was killed.
InstallClientFails(c) ==
  /\ phase[c] # "idle"
  /\ Fault
  /\ phase' = [phase EXCEPT ![c] = "idle"]
  /\ \/ UNCHANGED running
     \/ phase[c] = "raised" /\ running' = [running EXCEPT ![c] = NoPeer]
  /\ UNCHANGED <<careful, server, papers, cconf, made>>

\* wg-quick's tunnel does not survive a reboot, and a reboot does not survive
\* an install.
Reboot(c) ==
  /\ phase[c] = "idle" /\ running[c] # NoPeer
  /\ running' = [running EXCEPT ![c] = NoPeer]
  /\ UNCHANGED <<careful, server, papers, phase, cconf, made, faults>>

\* The operator loses a reply.
Lose(r) ==
  /\ r \in replies
  /\ replies' = replies \ {r}
  /\ UNCHANGED <<careful, server, tokens, client, faults>>

Next ==
  \/ Install \/ InstallFails \/ Outage \/ Restart
  \/ \E r \in replies : AddPeer(r) \/ AddPeerFails(r) \/ Lose(r)
  \/ \E c \in Clients :
       \/ \E a \in tokens : Enroll(c, a)
       \/ TunnelUp(c) \/ Report(c) \/ InstallClientFails(c) \/ Reboot(c)

Spec == Init /\ [][Next]_vars

-----------------------------------------------------------------------------
\* As long as the server's key is the one in the client's token, packets flow
\* between them: both tunnels run, the server's knows the client's key, and of the
\* peers it routes the client's /32 to -- WireGuard gives it to the last one named --
\* the client is the one.
Connected(c) ==
  /\ running[c] # NoPeer /\ serving.up
  /\ \E i \in DOMAIN serving.peers :
       /\ serving.peers[i] = running[c]
       /\ \A j \in DOMAIN serving.peers : j > i => serving.peers[j].addr # running[c].addr

\* The addresses the server hands out, with nothing reserved, are those of
\* different clients as long as the operator enrolls one client at a time.
AddressesUniqueIfCareful ==
  careful => \A i, j \in DOMAIN store : store[i].addr = store[j].addr => i = j

\* A client whose registration was acknowledged is served whenever the tunnel is
\* up: through outages, restarts, failed commands and re-installs of the server.
AckedIsServed ==
  serving.up => acked \subseteq {serving.peers[i].key : i \in DOMAIN serving.peers}

\* With a careful operator a client that runs an acknowledged key is connected
\* whenever the server is up, whatever anybody enrolls or re-enrolls, for as long as
\* the server keeps its own key.
AckedIsConnectedIfCareful ==
  careful /\ serving.up =>
    \A c \in Clients : running[c] # NoPeer /\ running[c].key \in acked => Connected(c)

\* Even with another operator, a client that is connected is cut off only by its
\* own tunnel, by the server's -- a replaced server.key among what can stop that, and
\* not followed here -- or by a peer registered at the same address.
OnlySameAddressCutsOff ==
  [][\A c \in Clients : Connected(c) /\ ~Connected(c)' =>
       \/ running'[c] # running[c]
       \/ ~serving'.up
       \/ \E i \in DOMAIN store' :
            store'[i].addr = running[c].addr /\ store'[i] # running[c]]_vars

\* installer.go: "re-running install is safe" -- so the client whose last reply
\* was registered is connected while both tunnels are up.
ReinstallIsSafe ==
  \A c \in Clients :
    /\ phase[c] = "idle"
    /\ cconf[c] # NoPeer /\ running[c] # NoPeer /\ serving.up
    => (cconf[c].key \in acked => Connected(c))
=============================================================================
