-------------------------- MODULE PeerRegistration --------------------------
(***************************************************************************)
(* The server's enrolment files (peers.json, server.key, wg0.conf) and its *)
(* running tunnel, under the two commands that touch them: `wireguard      *)
(* add-peer` (internal/command/wireguard) and the WireGuard steps of       *)
(* `install --role server` (internal/installer/windows/steps.go).  Nothing *)
(* locks the files and os.WriteFile truncates before it writes, so a       *)
(* command is here one step per file operation, and may be killed between  *)
(* any two.                                                                *)
(***************************************************************************)
EXTENDS Naturals, Sequences, FiniteSets, Functions

CONSTANTS
  Procs,        \* commands that may be running at the same time
  Clients,      \* the public keys whose enrollment replies the operator has
  MaxFaults     \* bound on kills and failed operations

ASSUME RegistrationAssumption == IsFiniteSet(Procs) /\ MaxFaults \in Nat

VARIABLES
  store,     \* peers.json
  keyFile,   \* server.key
  conf,      \* wg0.conf
  tunnel,    \* what the running tunnel service was started with
  proc,      \* the commands: where each is and what it holds in memory
  misread,   \* whether a key was ever made though server.key was there, or another
             \* command was making one (history)
  acked,     \* peers whose add-peer said "Registered" and had no other add-peer
             \* beside it (history)
  tokens,    \* server keys named by the join tokens printed so far (history)
  settled,   \* whether the last thing to happen was the success of an add-peer that
             \* no other command overlapped (history)
  faults     \* how many faults have happened (bound)

files   == <<store, keyFile, conf, tunnel>>
history == <<acked, tokens, settled>>
vars    == <<files, proc, misread, history, faults>>

\* A file is missing, empty since its truncation, whole, or mixed of two writes,
\* the shorter over the longer.
Missing == [is |-> "missing"]
Torn    == [is |-> "torn"]
Mixed   == [is |-> "mixed"]
Whole(v) == [is |-> "whole", v |-> v]
Corrupt(file) == file.is \in {"torn", "mixed"}

\* What a write leaves of a file that its writer truncated a step before.
Written(file, v) == {Whole(v)} \cup (IF file = Torn THEN {} ELSE {Mixed})

\* peers.json's peers, by their keys, each once; and what wg0.conf says: the key
\* of its interface, numbered in the order they are made, and its peers.
Peers   == {s \in Seq(Clients) : IsInjective(s)}
Keys    == Nat \ {0}
Configs == [key : Keys, peers : Peers]
Down    == Missing

\* Where a command is, which it is, what it has in memory -- the reply's peer,
\* the peers it loaded or added to, the server key -- and whether others ran
\* beside it: "rival" when both were add-peers (history).
Idle == [at |-> "idle", job |-> "none", peer |-> {}, peers |-> <<>>, key |-> 0, beside |-> "nobody"]

Places == {"idle", "load", "truncate-store", "write-store", "key", "truncate-key", "write-key",
           "truncate-conf", "write-conf", "down", "active", "up", "rest", "rest-or-down"}
Commands == [ at : Places, job : {"none", "add-peer", "install"}, peer : SUBSET Clients,
              peers : Peers, key : Nat, beside : {"nobody", "some", "rival"} ]

IsFile(file, V) == file \in {Missing, Torn, Mixed} \/ (file = Whole(file.v) /\ file.v \in V)

TypeOK ==
  /\ IsFile(store, Peers) /\ IsFile(conf, Configs)
  /\ IsFile(keyFile, Keys) /\ keyFile # Mixed
  /\ IsFile(tunnel, Configs) /\ ~Corrupt(tunnel)
  /\ proc \in [Procs -> Commands]
  /\ acked \subseteq Clients /\ tokens \subseteq Keys
  /\ settled \in BOOLEAN /\ misread \in BOOLEAN /\ faults \in 0..MaxFaults

Init ==
  /\ store = Missing /\ keyFile = Missing /\ conf = Missing /\ tunnel = Down
  /\ proc = [p \in Procs |-> Idle]
  /\ acked = {} /\ tokens = {} /\ settled = FALSE /\ misread = FALSE
  /\ faults = 0

Fault == faults < MaxFaults /\ faults' = faults + 1

-----------------------------------------------------------------------------
(* One command's progress.                                                 *)

At(p, l)  == proc[p].at = l
Job(p, j) == proc[p].job = j

Goto(p, l)           == proc' = [proc EXCEPT ![p].at = l]
HoldPeers(p, l, s)   == proc' = [proc EXCEPT ![p].at = l, ![p].peers = s]
HoldKey(p, l, k)     == proc' = [proc EXCEPT ![p].at = l, ![p].key = k]
\* Past its config a command forgets what it does not look at again: the peers,
\* and the key but for the installer's token.
Drop(p, l) ==
  LET kept == IF Job(p, "install") THEN [Idle EXCEPT !.key = proc[p].key]
                                   ELSE [Idle EXCEPT !.peer = proc[p].peer, !.beside = proc[p].beside]
  IN proc' = [proc EXCEPT ![p] = [kept EXCEPT !.at = l, !.job = proc[p].job]]

\* The command returns: an error, or nil for an add-peer or an install.
Fails(p) == proc' = [proc EXCEPT ![p] = Idle] /\ settled' = FALSE
              /\ UNCHANGED <<acked, tokens>>

\* A command begins, beside those that are running; what an install past its
\* config did beside another is not looked at again.
Others(p) == {q \in Procs \ {p} : ~At(q, "idle")}
PastConf  == {"active", "up", "rest", "rest-or-down"}
Beside(c, jobs) ==
  CASE c.beside = "rival" \/ (c.job = "add-peer" /\ "add-peer" \in jobs) -> "rival"
    [] jobs = {} \/ (c.job = "install" /\ c.at \in PastConf)            -> c.beside
    [] OTHER                                                           -> "some"
Begins(p, c) ==
  proc' = [q \in Procs |->
             CASE q = p -> [c EXCEPT !.beside = Beside(c, {proc[o].job : o \in Others(p)})]
               [] q \in Others(p) -> [proc[q] EXCEPT !.beside = Beside(proc[q], {c.job})]
               [] OTHER -> proc[q]]
Alone(p) == proc[p].beside = "nobody"

\* The operator pastes the reply some client made from a join token, or runs the
\* installer, which begins with the key.
AddPeer(p, c) ==
  /\ At(p, "idle")
  /\ tokens # {}
  /\ Begins(p, [Idle EXCEPT !.at = "load", !.job = "add-peer", !.peer = {c}])
  /\ settled' = FALSE
  /\ UNCHANGED <<files, misread, acked, tokens, faults>>

Install(p) ==
  /\ At(p, "idle")
  /\ Begins(p, [Idle EXCEPT !.at = "key", !.job = "install"])
  /\ settled' = FALSE
  /\ UNCHANGED <<files, misread, acked, tokens, faults>>

\* PeerStore.Load: no file is no peers; one that does not parse is an error.
Loaded(s) == IF s = Missing THEN <<>> ELSE s.v

\* Mutant: a peer is appended without looking for it.
AddAlways(peers, c) == Append(peers, c)

Add(peers, c) == IF c \in Range(peers) THEN peers ELSE Append(peers, c)

\* Mutant: a file that does not parse is taken for no peers.
LoadIgnoresTorn(p) ==
  /\ At(p, "load")
  /\ LET peers == IF Corrupt(store) THEN <<>> ELSE Loaded(store)
     IN IF Job(p, "add-peer")
        THEN \E c \in proc[p].peer : HoldPeers(p, "truncate-store", Add(peers, c))
        ELSE HoldPeers(p, "truncate-conf", peers)
  /\ UNCHANGED <<files, misread, history, faults>>

\* Mutant: Add does not Save.
LoadWithoutSave(p) ==
  /\ At(p, "load")
  /\ \/ /\ ~Corrupt(store)
        /\ IF Job(p, "add-peer")
           THEN \E c \in proc[p].peer : HoldPeers(p, "key", Add(Loaded(store), c))
           ELSE HoldPeers(p, "truncate-conf", Loaded(store))
        /\ UNCHANGED history
     \/ Corrupt(store) /\ Fails(p)
  /\ UNCHANGED <<files, misread, faults>>

Load(p) ==
  /\ At(p, "load")
  /\ \/ /\ ~Corrupt(store)
        /\ IF Job(p, "add-peer")
           THEN \E c \in proc[p].peer : HoldPeers(p, "truncate-store", Add(Loaded(store), c))
           ELSE HoldPeers(p, "truncate-conf", Loaded(store))
        /\ UNCHANGED history
     \/ Corrupt(store) /\ Fails(p)
  /\ UNCHANGED <<files, misread, faults>>

\* PeerStore.Save: os.WriteFile truncates peers.json, then writes it.
TruncateStore(p) ==
  /\ At(p, "truncate-store")
  /\ store' = Torn
  /\ Goto(p, "write-store")
  /\ UNCHANGED <<keyFile, conf, tunnel, misread, history, faults>>

WriteStore(p) ==
  /\ At(p, "write-store")
  /\ store' \in Written(store, proc[p].peers)
  /\ Goto(p, "key")
  /\ UNCHANGED <<keyFile, conf, tunnel, misread, history, faults>>

AfterKey(p) == IF Job(p, "add-peer") THEN "truncate-conf" ELSE "load"

\* LoadOrCreateKey: a key that was read is used if it is one, whatever else.
ReadKey(p) ==
  /\ At(p, "key")
  /\ \/ keyFile.is = "whole" /\ HoldKey(p, AfterKey(p), keyFile.v)
        /\ UNCHANGED history
     \/ keyFile = Torn /\ Fails(p)
  /\ UNCHANGED <<files, misread, faults>>

\* GenerateKeypair: a key that nobody knows.
KeyOf(file)    == IF file.is = "whole" THEN {file.v} ELSE {}
ConfKeyOf(file) == IF file.is = "whole" THEN {file.v.key} ELSE {}
Known == KeyOf(keyFile) \cup ConfKeyOf(conf) \cup ConfKeyOf(tunnel) \cup tokens
           \cup {proc[q].key : q \in Procs}
FreshKey == CHOOSE k \in 1..(Cardinality(Known) + 1) :
              k \notin Known /\ \A l \in 1..(k - 1) : l \in Known

\* Mutant: a new key is made whether or not there is one.
NewKeyAlways(p) ==
  /\ At(p, "key")
  /\ IF keyFile = Missing THEN UNCHANGED faults ELSE Fault
  /\ UNCHANGED misread
  /\ HoldKey(p, "truncate-key", FreshKey)
  /\ UNCHANGED <<files, history>>

\* Any error of os.ReadFile, not only that there is no file, makes a new key.
Rivals(p) == \E q \in Others(p) : proc[q].at \in {"truncate-key", "write-key"}
NewKey(p) ==
  /\ At(p, "key")
  /\ \/ keyFile = Missing /\ misread' = (misread \/ Rivals(p)) /\ UNCHANGED faults
     \/ keyFile # Missing /\ misread' = TRUE /\ Fault
  /\ HoldKey(p, "truncate-key", FreshKey)
  /\ UNCHANGED <<files, history>>

TruncateKey(p) ==
  /\ At(p, "truncate-key")
  /\ keyFile' = Torn
  /\ Goto(p, "write-key")
  /\ UNCHANGED <<store, conf, tunnel, misread, history, faults>>

\* All keys are of one length: the last write is whole.
WriteKey(p) ==
  /\ At(p, "write-key")
  /\ keyFile' = Whole(proc[p].key)
  /\ Goto(p, AfterKey(p))
  /\ UNCHANGED <<store, conf, tunnel, misread, history, faults>>

TruncateConf(p) ==
  /\ At(p, "truncate-conf")
  /\ conf' = Torn
  /\ Goto(p, "write-conf")
  /\ UNCHANGED <<store, keyFile, tunnel, misread, history, faults>>

\* Mutant: add-peer, like the installer, leaves an active tunnel alone.
WriteConfThenActive(p) ==
  /\ At(p, "write-conf")
  /\ conf' \in Written(conf, [key |-> proc[p].key, peers |-> proc[p].peers])
  /\ Drop(p, "active")
  /\ UNCHANGED <<store, keyFile, tunnel, misread, history, faults>>

\* ServerIdentity.Config, Render and WriteConfig; the installer then mints a
\* token of its own public key.
WriteConf(p) ==
  /\ At(p, "write-conf")
  /\ conf' \in Written(conf, [key |-> proc[p].key, peers |-> proc[p].peers])
  /\ \/ Job(p, "add-peer") /\ Drop(p, "down")
     \/ Job(p, "install") /\ Drop(p, "active")
  /\ UNCHANGED <<store, keyFile, tunnel, misread, history, faults>>

\* add-peer ignores Down's error, of which an uninstalled tunnel is one.
TunnelDown(p) ==
  /\ At(p, "down")
  /\ \/ tunnel' = Down /\ UNCHANGED faults
     \/ tunnel # Down /\ Fault /\ UNCHANGED tunnel
  /\ Goto(p, "up")
  /\ UNCHANGED <<store, keyFile, conf, misread, history>>

\* The report is printed: a join token, or that the peer is registered.
Succeeds(p) ==
  /\ proc' = [proc EXCEPT ![p] = Idle]
  /\ settled' = (Job(p, "add-peer") /\ Alone(p))
  /\ acked' = IF Job(p, "add-peer") /\ proc[p].beside # "rival"
               THEN acked \cup proc[p].peer ELSE acked
  /\ tokens' = IF Job(p, "install") THEN tokens \cup {proc[p].key} ELSE tokens

\* bringTunnelUpStep: an active tunnel is left as it is.
ActiveCheck(p) ==
  /\ At(p, "active")
  /\ IF tunnel = Down THEN Goto(p, "up") ELSE Goto(p, "rest")
  /\ UNCHANGED <<files, misread, history, faults>>

\* Up installs the tunnel service from wg0.conf; it fails on one installed
\* already and on a config that does not parse.
TunnelUp(p) ==
  /\ At(p, "up")
  /\ \/ /\ tunnel = Down /\ conf.is = "whole"
        /\ tunnel' = conf
        /\ IF Job(p, "add-peer")
           THEN Succeeds(p)
           ELSE Goto(p, "rest-or-down") /\ UNCHANGED history
        /\ UNCHANGED faults
     \/ /\ tunnel # Down \/ conf.is # "whole"
        /\ Fails(p)
        /\ UNCHANGED <<tunnel, faults>>
     \/ Fault /\ Fails(p) /\ UNCHANGED tunnel
  /\ UNCHANGED <<store, keyFile, conf, misread>>

\* The installer's steps after the tunnel: when one fails, a tunnel that this
\* run brought up is rolled back (unless that fails too); else the token is out.
RestOfInstall(p) ==
  /\ At(p, "rest") \/ At(p, "rest-or-down")
  /\ \/ Succeeds(p) /\ UNCHANGED <<tunnel, faults>>
     \/ /\ Fault /\ Fails(p)
        /\ \/ UNCHANGED tunnel
           \/ At(p, "rest-or-down") /\ tunnel' = Down
  /\ UNCHANGED <<store, keyFile, conf, misread>>

Killed(p) ==
  /\ ~At(p, "idle")
  /\ Fault
  /\ Fails(p)
  /\ UNCHANGED <<files, misread>>

\* The advice of the two "corrupt" errors: delete the file; and re-register.
DeleteStore ==
  /\ \A p \in Procs : At(p, "idle")
  /\ Corrupt(store)
  /\ store' = Missing
  /\ acked' = {}
  /\ settled' = FALSE
  /\ UNCHANGED <<keyFile, conf, tunnel, proc, misread, tokens, faults>>

DeleteKey ==
  /\ \A p \in Procs : At(p, "idle")
  /\ keyFile = Torn
  /\ keyFile' = Missing
  /\ settled' = FALSE
  /\ UNCHANGED <<store, conf, tunnel, proc, misread, acked, tokens, faults>>

Step(p) ==
  \/ Load(p) \/ TruncateStore(p) \/ WriteStore(p)
  \/ ReadKey(p) \/ NewKey(p) \/ TruncateKey(p) \/ WriteKey(p)
  \/ TruncateConf(p) \/ WriteConf(p)
  \/ TunnelDown(p) \/ ActiveCheck(p) \/ TunnelUp(p) \/ RestOfInstall(p)

Next ==
  \/ \E p \in Procs : Step(p) \/ Killed(p) \/ Install(p) \/ \E c \in Clients : AddPeer(p, c)
  \/ DeleteStore \/ DeleteKey

Spec == Init /\ [][Next]_vars

-----------------------------------------------------------------------------
\* A client the operator was told is registered, by an add-peer that had no other
\* beside it, stays registered, and only once however often the reply is pasted,
\* through any later commands and kills, in whatever order they interleave; at
\* worst the store is corrupt and says so.
AckedStayRegistered ==
  (\A p \in Procs : At(p, "idle")) /\ ~Corrupt(store) =>
    \A c \in acked : Cardinality({i \in DOMAIN Loaded(store) : Loaded(store)[i] = c}) = 1

\* An add-peer that succeeds with no other command beside it mends what kills and
\* overlapping commands left: the running tunnel, the config and the store agree
\* and every registered client is served, by the key in server.key.
AddPeerTakesEffect ==
  settled =>
    /\ tunnel = conf
    /\ conf.v.peers = store.v
    /\ keyFile = Whole(conf.v.key)

\* A command with no other beside it writes exactly the peers in peers.json to
\* wg0.conf; one that is overlapped may write those it loaded before the other's
\* save.
ConfigInSync ==
  [][\A p \in Procs : At(p, "write-conf") /\ ~At(p, "write-conf")' /\ ~At(p, "idle")' /\ Alone(p) =>
       store \in {Whole(conf'.v.peers)} \cup (IF conf'.v.peers = <<>> THEN {Missing} ELSE {})]_vars

\* keystore.go: persisting the key keeps "a machine's identity (and any issued
\* tokens) stable across runs".
IdentityIsStable == keyFile.is = "whole" => tokens \subseteq {keyFile.v}

\* It does so through kills, failed runs, the deletion of a torn key and commands
\* at the same time, unless a key was made that was there or in the making: every
\* token that was ever printed names the key in use.
IdentityIsStableIfRead == ~misread => IdentityIsStable
=============================================================================
