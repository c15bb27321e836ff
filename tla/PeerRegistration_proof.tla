----------------------- MODULE PeerRegistration_proof -----------------------
(***************************************************************************)
(* Proofs about PeerRegistration, for any number of commands at the same   *)
(* time, of clients and of faults.  IInv is inductive; the safety          *)
(* properties of the module follow from it.                                *)
(***************************************************************************)
EXTENDS PeerRegistration, FiniteSetTheorems, TLAPS

-----------------------------------------------------------------------------
(* The inductive invariant.                                                *)

\* Where an add-peer is, and an install; and what each has in hand there.
AddPeerPlaces == {"load", "truncate-store", "write-store", "key", "truncate-key", "write-key",
                  "truncate-conf", "write-conf", "down", "up"}
InstallPlaces == {"key", "truncate-key", "write-key", "load", "truncate-conf", "write-conf"}
                   \cup PastConf
MakingKey == {"truncate-key", "write-key"}
MakingConf == {"truncate-conf", "write-conf"}
Saving    == {"truncate-store", "write-store"}
HasKey(c) == c.at \in MakingConf \/ (c.job = "install" /\ c.at \in {"load"} \cup PastConf)

Placed(c) ==
  /\ c.at = "idle"         => c.job = "none"
  /\ c.job = "none"        => c.at = "idle"
  /\ c.job = "add-peer"    => c.at \in AddPeerPlaces /\ \E m \in Clients : c.peer = {m}
  /\ c.job = "install"     => c.at \in InstallPlaces
  /\ c.at \in Saving       => c.peer \subseteq Range(c.peers)
  /\ c.at \in MakingKey    => c.key # 0
  /\ HasKey(c)             => c.key # 0

\* Two commands that run at the same time know of each other, but for an install
\* that does nothing more to the files; and two add-peers of one another.
Aware ==
  \A p, q \in Procs : p # q /\ ~At(p, "idle") /\ ~At(q, "idle") =>
    /\ Job(p, "add-peer") /\ Job(q, "add-peer") => proc[p].beside = "rival"
    /\ Job(p, "add-peer") \/ proc[p].at \notin PastConf => ~Alone(p)

\* An acknowledged client is in peers.json, if that is whole, and in whatever is
\* about to be written there.
AckedStay ==
  /\ acked # {} => store # Missing
  /\ store.is = "whole" => acked \subseteq Range(store.v)
  /\ \A p \in Procs : proc[p].at \in Saving => acked \subseteq Range(proc[p].peers)

\* The peer of an add-peer with no other beside it is in peers.json from the
\* moment it has saved it.
Saved(p) ==
  Job(p, "add-peer") /\ proc[p].beside # "rival" =>
    /\ At(p, "write-store") => store = Torn
    /\ proc[p].at \in AddPeerPlaces \ ({"load"} \cup Saving) =>
         store.is = "whole" /\ proc[p].peer \subseteq Range(store.v)

\* What a command that has nothing beside it has read and written is what is in
\* the files.
InStep(p) ==
  Alone(p) =>
    /\ Job(p, "add-peer") /\ proc[p].at \in {"key"} \cup MakingKey \cup MakingConf =>
         store = Whole(proc[p].peers)
    /\ Job(p, "install") /\ proc[p].at \in MakingConf =>
         store = Whole(proc[p].peers) \/ (store = Missing /\ proc[p].peers = <<>>)
    /\ proc[p].at \in MakingConf \/ (Job(p, "install") /\ At(p, "load")) =>
         keyFile = Whole(proc[p].key)
    /\ At(p, "write-conf") => conf = Torn
    /\ Job(p, "add-peer") /\ proc[p].at \in {"down", "up"} =>
         /\ conf.is = "whole" /\ store = Whole(conf.v.peers)
         /\ keyFile = Whole(conf.v.key)

Settled == settled => (\A p \in Procs : At(p, "idle")) /\ AddPeerTakesEffect

\* Unless a key was made that was there, or in the making: one command makes it,
\* from the missing file on, and everything that was read or printed is it.
OneKey ==
  ~misread =>
    /\ \A p, q \in Procs : proc[p].at \in MakingKey /\ proc[q].at \in MakingKey => p = q
    /\ \A p \in Procs : /\ At(p, "truncate-key") => keyFile = Missing
                        /\ At(p, "write-key")    => keyFile = Torn
                        /\ HasKey(proc[p])       => keyFile = Whole(proc[p].key)
    /\ \A k \in tokens : keyFile = Whole(k)

IInv ==
  /\ TypeOK /\ IsFiniteSet(tokens)
  /\ \A p \in Procs : Placed(proc[p])
  /\ Aware /\ AckedStay
  /\ \A p \in Procs : Saved(p) /\ InStep(p)
  /\ Settled /\ OneKey

-----------------------------------------------------------------------------
(* The operators the model is built from.                                  *)

\* Only command p moves; and what it keeps in memory whatever it does to its
\* peers and its key.
OnlyMoves(p) ==
  /\ proc' \in [Procs -> Commands]
  /\ \A q \in Procs : q # p => proc'[q] = proc[q]
Keeps(p) ==
  /\ proc'[p].job = proc[p].job /\ proc'[p].peer = proc[p].peer
  /\ proc'[p].beside = proc[p].beside

\* A command that is not there is typed like any other.
LEMMA IdleIsCommand == Idle \in Commands
<1>1. <<>> \in Peers
  BY DEF Peers, IsInjective
<1>2. QED
  BY <1>1 DEF Idle, Commands, Places

\* What each of the operators that move a command does to it.
LEMMA Moves ==
  ASSUME proc \in [Procs -> Commands], NEW p \in Procs, NEW l \in Places
  PROVE  /\ Goto(p, l) => /\ OnlyMoves(p) /\ Keeps(p) /\ proc'[p].at = l
                          /\ proc'[p].peers = proc[p].peers /\ proc'[p].key = proc[p].key
         /\ \A s \in Peers :
              HoldPeers(p, l, s) => /\ OnlyMoves(p) /\ Keeps(p) /\ proc'[p].at = l
                                    /\ proc'[p].peers = s /\ proc'[p].key = proc[p].key
         /\ \A k \in Nat :
              HoldKey(p, l, k) => /\ OnlyMoves(p) /\ Keeps(p) /\ proc'[p].at = l
                                  /\ proc'[p].peers = proc[p].peers /\ proc'[p].key = k
<1>0. proc[p] \in Commands
  OBVIOUS
<1>1. ASSUME Goto(p, l)
      PROVE  /\ OnlyMoves(p) /\ Keeps(p) /\ proc'[p].at = l
             /\ proc'[p].peers = proc[p].peers /\ proc'[p].key = proc[p].key
  <2>1. proc' = [proc EXCEPT ![p] = [proc[p] EXCEPT !.at = l]]
    BY <1>1 DEF Goto
  <2>2. [proc[p] EXCEPT !.at = l] \in Commands
    BY <1>0 DEF Commands
  <2>3. QED
    BY <1>0, <2>1, <2>2 DEF OnlyMoves, Keeps, Commands
<1>2. ASSUME NEW s \in Peers, HoldPeers(p, l, s)
      PROVE  /\ OnlyMoves(p) /\ Keeps(p) /\ proc'[p].at = l
             /\ proc'[p].peers = s /\ proc'[p].key = proc[p].key
  <2>1. proc' = [proc EXCEPT ![p] = [proc[p] EXCEPT !.at = l, !.peers = s]]
    BY <1>2 DEF HoldPeers
  <2>2. [proc[p] EXCEPT !.at = l, !.peers = s] \in Commands
    BY <1>0 DEF Commands
  <2>3. QED
    BY <1>0, <2>1, <2>2 DEF OnlyMoves, Keeps, Commands
<1>3. ASSUME NEW k \in Nat, HoldKey(p, l, k)
      PROVE  /\ OnlyMoves(p) /\ Keeps(p) /\ proc'[p].at = l
             /\ proc'[p].peers = proc[p].peers /\ proc'[p].key = k
  <2>1. proc' = [proc EXCEPT ![p] = [proc[p] EXCEPT !.at = l, !.key = k]]
    BY <1>3 DEF HoldKey
  <2>2. [proc[p] EXCEPT !.at = l, !.key = k] \in Commands
    BY <1>0 DEF Commands
  <2>3. QED
    BY <1>0, <2>1, <2>2 DEF OnlyMoves, Keeps, Commands
<1>4. QED
  BY <1>1, <1>2, <1>3

\* What a command keeps past its config, and what is left of one that is over.
LEMMA Leaves ==
  ASSUME proc \in [Procs -> Commands], NEW p \in Procs, NEW l \in Places
  PROVE  /\ Drop(p, l) =>
              /\ OnlyMoves(p) /\ proc'[p].at = l /\ proc'[p].job = proc[p].job
              /\ proc'[p].peers = <<>>
              /\ IF Job(p, "install")
                 THEN proc'[p].key = proc[p].key /\ proc'[p].beside = "nobody"
                 ELSE proc'[p].peer = proc[p].peer /\ proc'[p].beside = proc[p].beside
         /\ proc' = [proc EXCEPT ![p] = Idle] => OnlyMoves(p) /\ proc'[p] = Idle
<1>0. proc[p] \in Commands /\ Idle \in Commands
  BY IdleIsCommand
<1>1. ASSUME Drop(p, l), Job(p, "install")
      PROVE  /\ OnlyMoves(p) /\ proc'[p].at = l /\ proc'[p].job = proc[p].job
             /\ proc'[p].peers = <<>>
             /\ proc'[p].key = proc[p].key /\ proc'[p].beside = "nobody"
  <2> DEFINE c == [Idle EXCEPT !.key = proc[p].key, !.at = l, !.job = proc[p].job]
  <2>1. proc' = [proc EXCEPT ![p] = c]
    BY <1>1 DEF Drop
  <2>2. c \in Commands
    BY <1>0 DEF Commands
  <2>3. /\ c.at = l /\ c.job = proc[p].job /\ c.peers = <<>>
        /\ c.key = proc[p].key /\ c.beside = "nobody"
    BY DEF Idle
  <2> HIDE DEF c
  <2>4. QED
    BY <2>1, <2>2, <2>3 DEF OnlyMoves
<1>2. ASSUME Drop(p, l), ~Job(p, "install")
      PROVE  /\ OnlyMoves(p) /\ proc'[p].at = l /\ proc'[p].job = proc[p].job
             /\ proc'[p].peers = <<>>
             /\ proc'[p].peer = proc[p].peer /\ proc'[p].beside = proc[p].beside
  <2> DEFINE c == [Idle EXCEPT !.peer = proc[p].peer, !.beside = proc[p].beside,
                               !.at = l, !.job = proc[p].job]
  <2>1. proc' = [proc EXCEPT ![p] = c]
    BY <1>2 DEF Drop
  <2>2. c \in Commands
    BY <1>0 DEF Commands
  <2>3. /\ c.at = l /\ c.job = proc[p].job /\ c.peers = <<>>
        /\ c.peer = proc[p].peer /\ c.beside = proc[p].beside
    BY DEF Idle
  <2> HIDE DEF c
  <2>4. QED
    BY <2>1, <2>2, <2>3 DEF OnlyMoves
<1>3. proc' = [proc EXCEPT ![p] = Idle] => OnlyMoves(p) /\ proc'[p] = Idle
  BY <1>0 DEF OnlyMoves
<1>4. QED
  BY <1>1, <1>2, <1>3

\* PeerStore.Add never lists a client twice, nor drops one.
LEMMA AddFacts ==
  ASSUME NEW peers \in Peers, NEW c \in Clients
  PROVE  /\ Add(peers, c) \in Peers
         /\ Range(peers) \subseteq Range(Add(peers, c))
         /\ c \in Range(Add(peers, c))
<1>1. CASE c \in Range(peers)
  BY <1>1 DEF Add
<1>2. CASE c \notin Range(peers)
  <2> DEFINE more == Append(peers, c)
  <2>0. peers \in Seq(Clients) /\ IsInjective(peers)
    BY DEF Peers
  <2>1. /\ more \in Seq(Clients) /\ Len(peers) \in Nat
        /\ DOMAIN peers = 1..Len(peers) /\ DOMAIN more = 1..(Len(peers) + 1)
        /\ \A k \in 1..Len(peers) : more[k] = peers[k]
        /\ more[Len(peers) + 1] = c
    BY <2>0
  <2> HIDE DEF more
  <2>2. \A k \in DOMAIN peers : peers[k] # c
    BY <1>2 DEF Range
  <2>3. IsInjective(more)
    BY <2>0, <2>1, <2>2 DEF IsInjective
  <2>4. Range(peers) \subseteq Range(more) /\ c \in Range(more)
    BY <2>1 DEF Range
  <2>5. QED
    BY <1>2, <2>1, <2>3, <2>4 DEF Add, Peers, more
<1>3. QED
  BY <1>1, <1>2

\* GenerateKeypair makes a key that no file, token or command knows.
LEMMA FreshKeyIsFresh ==
  ASSUME IsFiniteSet(Known)
  PROVE  FreshKey \in Nat \ {0} /\ FreshKey \notin Known
<1> DEFINE n == Cardinality(Known) + 1
           T == (1..n) \ Known
<1>1. n \in Nat /\ n > 0
  BY FS_CardinalityType
<1>2. T # {}
  <2>1. SUFFICES ASSUME 1..n \subseteq Known PROVE FALSE
    OBVIOUS
  <2>2. Cardinality(1..n) <= Cardinality(Known)
    BY <2>1, FS_Subset
  <2>3. Cardinality(1..n) = n
    BY <1>1, FS_Interval
  <2>4. QED
    BY <2>2, <2>3, FS_CardinalityType
<1>3. PICK k \in T : \A l \in T : ~(<<l, k>> \in OpToRel(<, Nat))
  <2>1. T \subseteq Nat
    BY <1>1
  <2> HIDE DEF T
  <2>2. QED
    BY <1>2, <2>1, NatLessThanWellFounded, WFMin
<1> HIDE DEF n
<1>4. ASSUME NEW l \in 1..(k - 1) PROVE l \in Known
  <2>0. k \in 1..n
    BY <1>3
  <2>1. l \in 1..n /\ l \in Nat /\ k \in Nat /\ l < k
    BY <1>1, <2>0
  <2>2. <<l, k>> \in OpToRel(<, Nat)
    BY <2>1 DEF OpToRel
  <2>3. QED
    BY <1>3, <2>1, <2>2
<1>5. k \in 1..n /\ k \notin Known /\ \A l \in 1..(k - 1) : l \in Known
  BY <1>3, <1>4
<1>6. FreshKey \in 1..n /\ FreshKey \notin Known
  BY <1>5 DEF FreshKey, n
<1>7. QED
  BY <1>1, <1>6

\* ... since what is known is finite: there are finitely many commands and tokens.
LEMMA FreshKeyType ==
  ASSUME TypeOK, IsFiniteSet(tokens)
  PROVE  FreshKey \in Keys
<1> DEFINE held == {proc[q].key : q \in Procs}
           key == [q \in Procs |-> proc[q].key]
<1>1. key \in Surjection(Procs, held)
  BY DEF Surjection
<1>2. IsFiniteSet(held)
  <2> HIDE DEF key, held
  <2>1. QED
    BY <1>1, FS_Surjection, RegistrationAssumption
<1>3. IsFiniteSet(KeyOf(keyFile))
  BY FS_EmptySet, FS_Singleton DEF KeyOf
<1>4. IsFiniteSet(ConfKeyOf(conf)) /\ IsFiniteSet(ConfKeyOf(tunnel))
  BY FS_EmptySet, FS_Singleton DEF ConfKeyOf
<1>5. IsFiniteSet(Known)
  <2> HIDE DEF held
  <2>1. IsFiniteSet(KeyOf(keyFile) \cup ConfKeyOf(conf))
    BY <1>3, <1>4, FS_Union
  <2>2. IsFiniteSet(KeyOf(keyFile) \cup ConfKeyOf(conf) \cup ConfKeyOf(tunnel))
    BY <2>1, <1>4, FS_Union
  <2>3. IsFiniteSet(KeyOf(keyFile) \cup ConfKeyOf(conf) \cup ConfKeyOf(tunnel) \cup tokens)
    BY <2>2, FS_Union
  <2>4. IsFiniteSet((KeyOf(keyFile) \cup ConfKeyOf(conf) \cup ConfKeyOf(tunnel) \cup tokens)
                       \cup held)
    BY <2>3, <1>2, FS_Union
  <2>5. QED
    BY <2>4 DEF Known, held
<1>6. QED
  BY <1>5, FreshKeyIsFresh DEF Keys

\* What a file is tells its forms apart.
LEMMA FileForms ==
  /\ Missing.is = "missing" /\ Torn.is = "torn" /\ Mixed.is = "mixed"
  /\ \A v : Whole(v).is = "whole" /\ Whole(v).v = v
BY DEF Missing, Torn, Mixed, Whole

\* What PeerStore.Load returns.
LEMMA LoadedFacts ==
  ASSUME TypeOK, ~Corrupt(store)
  PROVE  /\ Loaded(store) \in Peers
         /\ store = Missing \/ store = Whole(Loaded(store))
<1>1. store = Missing \/ (store = Whole(store.v) /\ store.v \in Peers)
  BY DEF TypeOK, IsFile, Corrupt, Torn, Mixed
<1>2. <<>> \in Peers
  BY DEF Peers, IsInjective
<1>3. Missing # Whole(store.v)
  BY DEF Missing, Whole
<1>4. QED
  BY <1>1, <1>2, <1>3 DEF Loaded

-----------------------------------------------------------------------------
(* What a step of a command does to the commands.                          *)

Steps(p) == Step(p) \/ Killed(p)

\* A command that has begun either is over or goes on as the command it is, knowing
\* of the others that it knew of, but for an install that is past its config.
Advances(p) ==
  /\ ~At(p, "idle") /\ OnlyMoves(p)
  /\ \/ proc'[p] = Idle
     \/ /\ proc'[p].at # "idle" /\ proc'[p].job = proc[p].job
        /\ \/ proc'[p].beside = proc[p].beside
           \/ Job(p, "install") /\ proc'[p].at \in PastConf
        /\ Job(p, "install") /\ proc[p].at \in PastConf => proc'[p].at \in PastConf
        /\ Job(p, "add-peer") => proc'[p].peer = proc[p].peer

\* Whatever a command does that has begun, it advances, and is placed as it should.
LEMMA StepAdvances ==
  ASSUME IInv, NEW p \in Procs, Steps(p)
  PROVE  Advances(p) /\ Placed(proc'[p])
<1>0. /\ proc \in [Procs -> Commands] /\ proc[p] \in Commands /\ Placed(proc[p])
      /\ TypeOK /\ IsFiniteSet(tokens)
  BY DEF IInv, TypeOK
<1>1. ~At(p, "idle") /\ (Job(p, "add-peer") \/ Job(p, "install"))
  <2>1. ~At(p, "idle")
    BY DEF Steps, Step, Killed, Load, TruncateStore, WriteStore, ReadKey, NewKey,
           TruncateKey, WriteKey, TruncateConf, WriteConf, TunnelDown, ActiveCheck, TunnelUp,
           RestOfInstall, At
  <2>2. QED
    BY <1>0, <2>1 DEF Placed, Commands, At, Job
<1>2. ASSUME proc' = [proc EXCEPT ![p] = Idle]
      PROVE  Advances(p) /\ Placed(proc'[p])
  <2>1. OnlyMoves(p) /\ proc'[p] = Idle
    BY <1>0, <1>2, Leaves DEF Places
  <2>2. Placed(Idle)
    BY DEF Placed, Idle, HasKey, MakingKey, MakingConf, Saving, PastConf
  <2>3. QED
    BY <1>1, <2>1, <2>2 DEF Advances
<1>3. ASSUME OnlyMoves(p), proc'[p].job = proc[p].job, proc'[p].at # "idle",
             \/ proc'[p].beside = proc[p].beside
             \/ Job(p, "install") /\ proc'[p].at \in PastConf,
             Job(p, "add-peer") => /\ proc'[p].peer = proc[p].peer
                                   /\ proc'[p].at \in AddPeerPlaces,
             Job(p, "install") => proc'[p].at \in InstallPlaces,
             Job(p, "install") /\ proc[p].at \in PastConf => proc'[p].at \in PastConf,
             proc'[p].at \in Saving => proc'[p].peer \subseteq Range(proc'[p].peers),
             \/ proc'[p].key # 0
             \/ Job(p, "add-peer") /\ proc'[p].at \notin MakingKey \cup MakingConf
      PROVE  Advances(p) /\ Placed(proc'[p])
  <2>1. Advances(p)
    BY <1>1, <1>3 DEF Advances
  <2>2. Placed(proc'[p])
    BY <1>0, <1>1, <1>3 DEF Placed, HasKey, Job
  <2>3. QED
    BY <2>1, <2>2
<1>4. ASSUME NEW l \in Places \ ({"idle"} \cup Saving), Goto(p, l),
             Job(p, "add-peer") => l \in AddPeerPlaces,
             Job(p, "install") => l \in InstallPlaces /\ proc[p].key # 0,
             Job(p, "install") /\ proc[p].at \in PastConf => l \in PastConf,
             proc[p].key # 0 \/ l \notin MakingKey \cup MakingConf
      PROVE  Advances(p) /\ Placed(proc'[p])
  <2>1. /\ OnlyMoves(p) /\ Keeps(p) /\ proc'[p].at = l /\ proc'[p].key = proc[p].key
    BY <1>0, <1>4, Moves
  <2>2. QED
    BY <1>1, <1>3, <1>4, <2>1 DEF Keeps
<1> USE DEF AddPeerPlaces, InstallPlaces, MakingKey, MakingConf, Saving, PastConf
<1>5. CASE Load(p)
  <2>1. Job(p, "install") => proc[p].key # 0
    BY <1>0, <1>5 DEF Load, At, Job, Placed, HasKey
  <2>2. CASE Corrupt(store) /\ Fails(p)
    BY <1>2, <2>2 DEF Fails
  <2>3. CASE ~Corrupt(store) /\ Job(p, "add-peer")
                /\ \E c \in proc[p].peer : HoldPeers(p, "truncate-store", Add(Loaded(store), c))
    <3>1. PICK c \in proc[p].peer : HoldPeers(p, "truncate-store", Add(Loaded(store), c))
      BY <2>3
    <3> DEFINE s == Add(Loaded(store), c)
    <3>2. s \in Peers /\ c \in Range(s) /\ proc[p].peer = {c}
      BY <1>0, <2>3, LoadedFacts, AddFacts DEF Commands, Placed, Job
    <3> HIDE DEF s
    <3>3. /\ OnlyMoves(p) /\ Keeps(p) /\ proc'[p].at = "truncate-store" /\ proc'[p].peers = s
      <4>1. HoldPeers(p, "truncate-store", s)
        BY <3>1 DEF s
      <4>2. QED
        BY <1>0, <3>2, <4>1, Moves DEF Places
    <3>4. QED
      BY <1>3, <2>3, <3>2, <3>3 DEF Keeps, Job
  <2>4. CASE ~Corrupt(store) /\ ~Job(p, "add-peer")
                /\ HoldPeers(p, "truncate-conf", Loaded(store))
    <3>1. /\ OnlyMoves(p) /\ Keeps(p) /\ proc'[p].at = "truncate-conf"
          /\ proc'[p].key = proc[p].key
      BY <1>0, <2>4, LoadedFacts, Moves DEF Places
    <3>2. QED
      BY <1>1, <1>3, <1>5, <2>1, <2>4, <3>1 DEF Keeps, Load, At
  <2>5. QED
    BY <1>5, <2>2, <2>3, <2>4 DEF Load
<1>6. CASE TruncateStore(p)
  <2>1. /\ OnlyMoves(p) /\ Keeps(p) /\ proc'[p].at = "write-store"
        /\ proc'[p].peers = proc[p].peers
    BY <1>0, <1>6, Moves DEF Places, TruncateStore
  <2>2. Job(p, "add-peer")
    BY <1>0, <1>1, <1>6 DEF TruncateStore, At, Job, Placed
  <2>3. QED
    BY <1>0, <1>3, <1>6, <2>1, <2>2 DEF Keeps, TruncateStore, At, Job, Placed
<1>7. CASE WriteStore(p)
  <2>1. Job(p, "add-peer") /\ Goto(p, "key")
    BY <1>0, <1>1, <1>7 DEF WriteStore, At, Job, Placed
  <2>2. QED
    BY <1>4, <2>1 DEF Job, Places
<1>8. CASE ReadKey(p)
  <2>1. CASE keyFile = Torn /\ Fails(p)
    BY <1>2, <2>1 DEF Fails
  <2>2. CASE keyFile.is = "whole" /\ HoldKey(p, AfterKey(p), keyFile.v)
    <3>1. keyFile.v \in Nat \ {0}
      BY <1>0, <2>2 DEF TypeOK, IsFile, Keys, Missing, Torn, Mixed
    <3>2. /\ OnlyMoves(p) /\ Keeps(p) /\ proc'[p].at = AfterKey(p)
          /\ proc'[p].key = keyFile.v
      BY <1>0, <2>2, <3>1, Moves DEF Places, AfterKey
    <3>3. QED
      BY <1>1, <1>3, <1>8, <3>1, <3>2 DEF Keeps, AfterKey, ReadKey, At, Job
  <2>3. QED
    BY <1>8, <2>1, <2>2 DEF ReadKey
<1>9. CASE NewKey(p)
  <2>1. FreshKey \in Nat \ {0}
    BY <1>0, FreshKeyType DEF Keys
  <2>2. HoldKey(p, "truncate-key", FreshKey) /\ At(p, "key")
    BY <1>9 DEF NewKey
  <2>3. /\ OnlyMoves(p) /\ Keeps(p) /\ proc'[p].at = "truncate-key"
        /\ proc'[p].key = FreshKey
    BY <1>0, <2>1, <2>2, Moves DEF Places
  <2>4. QED
    BY <1>1, <1>3, <2>1, <2>2, <2>3 DEF Keeps, At, Job
<1>10. CASE TruncateKey(p)
  <2>1. Goto(p, "write-key") /\ proc[p].key # 0 /\ At(p, "truncate-key")
    BY <1>0, <1>10 DEF TruncateKey, At, Placed
  <2>2. QED
    BY <1>1, <1>4, <2>1 DEF Places, At, Job
<1>11. CASE WriteKey(p)
  <2>1. Goto(p, AfterKey(p)) /\ proc[p].key # 0 /\ At(p, "write-key")
    BY <1>0, <1>11 DEF WriteKey, At, Placed
  <2>2. QED
    BY <1>1, <1>4, <2>1 DEF Places, At, Job, AfterKey
<1>12. CASE TruncateConf(p)
  <2>1. Goto(p, "write-conf") /\ proc[p].key # 0 /\ At(p, "truncate-conf")
    BY <1>0, <1>12 DEF TruncateConf, At, Placed, HasKey
  <2>2. QED
    BY <1>1, <1>4, <2>1 DEF Places, At, Job
<1>13. CASE WriteConf(p)
  <2>1. proc[p].key # 0 /\ At(p, "write-conf")
    BY <1>0, <1>13 DEF WriteConf, At, Placed, HasKey
  <2>2. CASE Job(p, "add-peer") /\ Drop(p, "down")
    <3>1. /\ OnlyMoves(p) /\ proc'[p].at = "down" /\ proc'[p].job = proc[p].job
          /\ proc'[p].peer = proc[p].peer /\ proc'[p].beside = proc[p].beside
      BY <1>0, <2>2, Leaves DEF Places, Job
    <3>2. QED
      BY <1>3, <2>2, <3>1 DEF Job
  <2>3. CASE Job(p, "install") /\ Drop(p, "active")
    <3>1. /\ OnlyMoves(p) /\ proc'[p].at = "active" /\ proc'[p].job = proc[p].job
          /\ proc'[p].key = proc[p].key
      BY <1>0, <2>3, Leaves DEF Places, Job
    <3>2. QED
      BY <1>3, <2>1, <2>3, <3>1 DEF Job
  <2>4. QED
    BY <1>13, <2>2, <2>3 DEF WriteConf
<1>14. CASE TunnelDown(p)
  <2>1. Goto(p, "up") /\ At(p, "down")
    BY <1>14 DEF TunnelDown
  <2>2. Job(p, "add-peer")
    BY <1>0, <1>1, <2>1 DEF At, Job, Placed
  <2>3. QED
    BY <1>4, <2>1, <2>2 DEF Places, Job
<1>15. ASSUME Job(p, "install"), proc[p].at \in PastConf
       PROVE  proc[p].key # 0
  BY <1>0, <1>15 DEF Job, Placed, HasKey
<1>16. CASE ActiveCheck(p)
  <2>1. (Goto(p, "up") \/ Goto(p, "rest")) /\ At(p, "active")
    BY <1>16 DEF ActiveCheck
  <2>2. Job(p, "install")
    BY <1>0, <1>1, <2>1 DEF At, Job, Placed
  <2>3. QED
    BY <1>4, <1>15, <2>1, <2>2 DEF Places, Job, At
<1>17. CASE TunnelUp(p)
  <2>1. \/ proc' = [proc EXCEPT ![p] = Idle]
        \/ Job(p, "install") /\ At(p, "up") /\ Goto(p, "rest-or-down")
    BY <1>1, <1>17 DEF TunnelUp, Succeeds, Fails, Job
  <2>2. CASE Job(p, "install") /\ At(p, "up") /\ Goto(p, "rest-or-down")
    BY <1>4, <1>15, <2>2 DEF Places, Job, At
  <2>3. QED
    BY <1>2, <2>1, <2>2
<1>18. CASE RestOfInstall(p)
  BY <1>2, <1>18 DEF RestOfInstall, Succeeds, Fails
<1>19. CASE Killed(p)
  BY <1>2, <1>19 DEF Killed, Fails
<1>20. QED
  BY <1>5, <1>6, <1>7, <1>8, <1>9, <1>10, <1>11, <1>12, <1>13, <1>14, <1>16, <1>17, <1>18,
     <1>19 DEF Steps, Step

\* A command begins, and it and those that are running know of each other; nothing
\* but that changes for those.
Starts(p) ==
  /\ At(p, "idle") /\ proc' \in [Procs -> Commands]
  /\ \/ proc'[p].at = "load" /\ proc'[p].job = "add-peer"
     \/ proc'[p].at = "key" /\ proc'[p].job = "install"
  /\ \A q \in Procs \ {p} :
       /\ proc'[q].at = proc[q].at /\ proc'[q].job = proc[q].job
       /\ proc'[q].peer = proc[q].peer /\ proc'[q].peers = proc[q].peers
       /\ proc'[q].key = proc[q].key
       /\ proc'[q].beside = "nobody" => proc[q].beside = "nobody"
       /\ proc[q].beside = "rival" => proc'[q].beside = "rival"
       /\ ~At(q, "idle") =>
            /\ proc'[p].beside # "nobody"
            /\ Job(q, "add-peer") \/ proc[q].at \notin PastConf => proc'[q].beside # "nobody"
            /\ Job(q, "add-peer") /\ proc'[p].job = "add-peer" =>
                 proc'[p].beside = "rival" /\ proc'[q].beside = "rival"

\* An install or an add-peer that begins.
LEMMA CommandStarts ==
  ASSUME IInv, NEW p \in Procs, Install(p) \/ \E m \in Clients : AddPeer(p, m)
  PROVE  Starts(p) /\ \A q \in Procs : Placed(proc'[q])
<1>0. proc \in [Procs -> Commands] /\ \A q \in Procs : Placed(proc[q])
  BY DEF IInv, TypeOK
<1>1. ASSUME NEW c \in Commands, Begins(p, c), At(p, "idle"),
             c.beside = "nobody", Placed(c),
             (c.at = "load" /\ c.job = "add-peer") \/ (c.at = "key" /\ c.job = "install")
      PROVE  Starts(p) /\ \A q \in Procs : Placed(proc'[q])
  <2> DEFINE jobs == {proc[o].job : o \in Others(p)}
             d == [c EXCEPT !.beside = Beside(c, jobs)]
             e(q) == [proc[q] EXCEPT !.beside = Beside(proc[q], {c.job})]
  <2>1. /\ proc' = [q \in Procs |-> CASE q = p -> d
                                      [] q \in Others(p) -> e(q)
                                      [] OTHER -> proc[q]]
    BY <1>1 DEF Begins
  <2>2. /\ d \in Commands
        /\ d.at = c.at /\ d.job = c.job /\ d.peer = c.peer /\ d.peers = c.peers
        /\ d.key = c.key /\ d.beside = Beside(c, jobs)
    BY <1>1 DEF Commands, Beside
  <2>3. ASSUME NEW q \in Procs
        PROVE  /\ e(q) \in Commands
               /\ e(q).at = proc[q].at /\ e(q).job = proc[q].job /\ e(q).peer = proc[q].peer
               /\ e(q).peers = proc[q].peers /\ e(q).key = proc[q].key
               /\ e(q).beside = Beside(proc[q], {c.job})
    BY <1>0 DEF Commands, Beside
  <2> HIDE DEF d, e
  <2>4. proc'[p] = d
    BY <2>1 DEF Others
  <2>5. \A q \in Others(p) : proc'[q] = e(q)
    BY <2>1 DEF Others
  <2>6. \A q \in Procs \ ({p} \cup Others(p)) : proc'[q] = proc[q]
    BY <2>1
  <2>7. proc' \in [Procs -> Commands]
    BY <1>0, <2>1, <2>2, <2>3 DEF Others
  <2>8. ASSUME NEW q \in Others(p)
        PROVE  /\ d.beside # "nobody"
               /\ Job(q, "add-peer") \/ proc[q].at \notin PastConf => e(q).beside # "nobody"
               /\ Job(q, "add-peer") /\ c.job = "add-peer" =>
                    d.beside = "rival" /\ e(q).beside = "rival"
               /\ e(q).beside = "nobody" => proc[q].beside = "nobody"
               /\ proc[q].beside = "rival" => e(q).beside = "rival"
    <3>1. jobs # {} /\ proc[q].job \in jobs
      OBVIOUS
    <3>2. /\ d.beside # "nobody"
          /\ Job(q, "add-peer") /\ c.job = "add-peer" => d.beside = "rival"
      BY <1>1, <2>2, <3>1 DEF Beside, Job, PastConf
    <3>3. e(q).beside = Beside(proc[q], {c.job}) /\ proc[q] \in Commands /\ Placed(proc[q])
      BY <1>0, <2>3 DEF Others
    <3>4. QED
      BY <1>1, <3>2, <3>3 DEF Beside, Job, PastConf, Placed, Commands
  <2>9. Starts(p)
    BY <1>1, <2>2, <2>3, <2>4, <2>5, <2>6, <2>7, <2>8 DEF Starts, Others, Job
  <2>10. \A q \in Procs : Placed(proc'[q])
    BY <1>0, <1>1, <2>2, <2>3, <2>4, <2>5, <2>6 DEF Others, Placed, HasKey
  <2>11. QED
    BY <2>9, <2>10
<1>2. CASE Install(p)
  <2> DEFINE c == [Idle EXCEPT !.at = "key", !.job = "install"]
  <2>1. /\ c \in Commands /\ c.at = "key" /\ c.job = "install" /\ c.beside = "nobody"
    BY IdleIsCommand DEF Idle, Commands, Places
  <2>2. Begins(p, c) /\ At(p, "idle")
    BY <1>2 DEF Install
  <2> HIDE DEF c
  <2>3. Placed(c)
    BY <2>1 DEF Placed, HasKey, MakingConf, MakingKey, Saving, InstallPlaces, PastConf
  <2>4. QED
    BY <1>1, <2>1, <2>2, <2>3
<1>3. CASE \E m \in Clients : AddPeer(p, m)
  <2>0. PICK m \in Clients : AddPeer(p, m)
    BY <1>3
  <2> DEFINE c == [Idle EXCEPT !.at = "load", !.job = "add-peer", !.peer = {m}]
  <2>1. /\ c \in Commands /\ c.at = "load" /\ c.job = "add-peer" /\ c.beside = "nobody"
        /\ c.peer = {m}
    BY IdleIsCommand DEF Idle, Commands, Places
  <2>2. Begins(p, c) /\ At(p, "idle")
    BY <2>0 DEF AddPeer
  <2> HIDE DEF c
  <2>3. Placed(c)
    BY <2>1 DEF Placed, HasKey, MakingConf, MakingKey, Saving, AddPeerPlaces, PastConf
  <2>4. QED
    BY <1>1, <2>1, <2>2, <2>3
<1>4. QED
  BY <1>2, <1>3

-----------------------------------------------------------------------------
(* Each part of the invariant is kept.                                     *)

\* What happens is a step of a command, the start of one, or an operator's deletion.
LEMMA Cases ==
  ASSUME Next
  PROVE  \/ \E p \in Procs : Steps(p)
         \/ \E p \in Procs : Install(p) \/ \E m \in Clients : AddPeer(p, m)
         \/ DeleteStore \/ DeleteKey
BY DEF Next, Steps

\* Where the commands are and what they hold.
LEMMA PlacedKept ==
  ASSUME IInv, Next
  PROVE  (\A p \in Procs : Placed(proc'[p])) /\ proc' \in [Procs -> Commands]
<1>0. proc \in [Procs -> Commands] /\ \A q \in Procs : Placed(proc[q])
  BY DEF IInv, TypeOK
<1>1. ASSUME NEW p \in Procs, Steps(p)
      PROVE  (\A q \in Procs : Placed(proc'[q])) /\ proc' \in [Procs -> Commands]
  <2>1. Advances(p) /\ Placed(proc'[p])
    BY <1>1, StepAdvances
  <2>2. QED
    BY <1>0, <2>1 DEF Advances, OnlyMoves
<1>2. ASSUME NEW p \in Procs, Install(p) \/ \E m \in Clients : AddPeer(p, m)
      PROVE  (\A q \in Procs : Placed(proc'[q])) /\ proc' \in [Procs -> Commands]
  BY <1>2, CommandStarts DEF Starts
<1>3. CASE DeleteStore \/ DeleteKey
  BY <1>0, <1>3 DEF DeleteStore, DeleteKey
<1>4. QED
  BY <1>1, <1>2, <1>3, Cases

\* Commands know of those beside them.
LEMMA AwareKept ==
  ASSUME IInv, Next
  PROVE  Aware'
<1>0. proc \in [Procs -> Commands] /\ Aware /\ \A q \in Procs : Placed(proc[q])
  BY DEF IInv, TypeOK
<1> DEFINE Knows(p, q) ==
      p # q /\ proc'[p].at # "idle" /\ proc'[q].at # "idle" =>
        /\ proc'[p].job = "add-peer" /\ proc'[q].job = "add-peer" => proc'[p].beside = "rival"
        /\ proc'[p].job = "add-peer" \/ proc'[p].at \notin PastConf => proc'[p].beside # "nobody"
<1>1. ASSUME NEW r \in Procs, Steps(r), NEW p \in Procs, NEW q \in Procs
      PROVE  Knows(p, q)
  <2>1. Advances(r)
    BY <1>1, StepAdvances
  <2>2. Idle.at = "idle"
    BY DEF Idle
  <2>3. \A o \in Procs : o # r => proc'[o] = proc[o]
    BY <2>1 DEF Advances, OnlyMoves
  <2>4. ~At(r, "idle") /\ (proc'[r].at # "idle" =>
            /\ proc'[r].job = proc[r].job
            /\ \/ proc'[r].beside = proc[r].beside
               \/ Job(r, "install") /\ proc'[r].at \in PastConf
            /\ Job(r, "install") /\ proc[r].at \in PastConf => proc'[r].at \in PastConf)
    BY <2>1, <2>2 DEF Advances
  <2>5. CASE p = r
    <3>1. SUFFICES ASSUME p # q, proc'[p].at # "idle", proc'[q].at # "idle"
                   PROVE  Knows(p, q)
      OBVIOUS
    <3>2. /\ Job(p, "add-peer") /\ Job(q, "add-peer") => proc[p].beside = "rival"
          /\ Job(p, "add-peer") \/ proc[p].at \notin PastConf => proc[p].beside # "nobody"
      BY <1>0, <2>3, <2>4, <2>5, <3>1 DEF Aware, Alone, At
    <3>3. proc'[p].job = "add-peer" => proc'[p].beside = proc[p].beside
      BY <2>4, <2>5, <3>1 DEF Job
    <3>4. proc'[p].at \notin PastConf =>
            /\ proc'[p].beside = proc[p].beside
            /\ Job(p, "add-peer") \/ proc[p].at \notin PastConf
      BY <1>0, <2>4, <2>5, <3>1 DEF Job, Placed, At, Commands
    <3>5. proc'[q].job = proc[q].job /\ proc'[p].job = proc[p].job
      BY <2>3, <2>4, <2>5, <3>1
    <3>6. QED
      BY <3>2, <3>3, <3>4, <3>5 DEF Job
  <2>6. CASE q = r
    BY <1>0, <2>3, <2>4, <2>6 DEF Aware, Alone, At, Job
  <2>7. CASE p # r /\ q # r
    BY <1>0, <2>3, <2>7 DEF Aware, Alone, At, Job
  <2>8. QED
    BY <2>5, <2>6, <2>7
<1>2. ASSUME NEW r \in Procs, Install(r) \/ \E m \in Clients : AddPeer(r, m),
             NEW p \in Procs, NEW q \in Procs
      PROVE  Knows(p, q)
  <2>1. Starts(r)
    BY <1>2, CommandStarts
  <2>2. CASE p # r /\ q # r
    BY <1>0, <2>1, <2>2 DEF Starts, Aware, Alone, At, Job
  <2>3. CASE p = r \/ q = r
    BY <1>0, <2>1, <2>3 DEF Starts, At, Job
  <2>4. QED
    BY <2>2, <2>3
<1>3. ASSUME DeleteStore \/ DeleteKey, NEW p \in Procs, NEW q \in Procs
      PROVE  Knows(p, q)
  BY <1>0, <1>3 DEF DeleteStore, DeleteKey, Aware, Alone, At, Job
<1>4. \A p, q \in Procs : Knows(p, q)
  <2> HIDE DEF Knows
  <2>1. QED
    BY <1>1, <1>2, <1>3, Cases
<1>5. QED
  BY <1>4 DEF Aware, Alone, At, Job

\* The types of the state.
LEMMA TypeKept ==
  ASSUME IInv, Next
  PROVE  TypeOK' /\ IsFiniteSet(tokens')
<1>0. TypeOK /\ IsFiniteSet(tokens) /\ \A q \in Procs : Placed(proc[q]) /\ proc[q] \in Commands
  BY DEF IInv, TypeOK
<1>1. proc' \in [Procs -> Commands]
  BY PlacedKept
<1>2. ASSUME Fault PROVE faults' \in 0..MaxFaults
  BY <1>0, <1>2, RegistrationAssumption DEF TypeOK, Fault
<1>3. ASSUME NEW p \in Procs, Fails(p)
      PROVE  acked' = acked /\ tokens' = tokens /\ settled' \in BOOLEAN
  BY <1>3 DEF Fails
<1>4. ASSUME NEW p \in Procs, Succeeds(p), Job(p, "install") => proc[p].key # 0
      PROVE  /\ acked' \subseteq Clients /\ tokens' \subseteq Keys /\ settled' \in BOOLEAN
             /\ IsFiniteSet(tokens')
  <2>1. acked' \subseteq Clients
    BY <1>0, <1>4 DEF TypeOK, Succeeds, Commands
  <2>2. tokens' \subseteq Keys
    BY <1>0, <1>4 DEF TypeOK, Succeeds, Commands, Keys
  <2>3. IsFiniteSet(tokens')
    BY <1>0, <1>4, FS_AddElement DEF Succeeds
  <2>4. settled' \in BOOLEAN
    BY <1>4 DEF Succeeds
  <2>5. QED
    BY <2>1, <2>2, <2>3, <2>4
<1>5. ASSUME NEW p \in Procs, proc[p].key # 0
      PROVE  [key |-> proc[p].key, peers |-> proc[p].peers] \in Configs
  BY <1>0, <1>5 DEF Commands, Configs, Keys
<1>6. \A V, v : (v \in V => IsFile(Whole(v), V)) /\ IsFile(Torn, V) /\ IsFile(Missing, V)
                   /\ IsFile(Mixed, V)
  BY DEF IsFile, Whole
<1> USE DEF TypeOK
<1>7. ASSUME NEW p \in Procs, Load(p) \/ ReadKey(p) PROVE TypeOK' /\ IsFiniteSet(tokens')
  BY <1>0, <1>1, <1>3, <1>7 DEF Load, ReadKey, files, history
<1>8. ASSUME NEW p \in Procs, TruncateStore(p) \/ WriteStore(p)
      PROVE TypeOK' /\ IsFiniteSet(tokens')
  <2>1. IsFile(store', Peers)
    BY <1>0, <1>6, <1>8 DEF TruncateStore, WriteStore, Written, Commands
  <2>2. QED
    BY <1>0, <1>1, <2>1, <1>8 DEF TruncateStore, WriteStore, files, history
<1>9. ASSUME NEW p \in Procs, NewKey(p) PROVE TypeOK' /\ IsFiniteSet(tokens')
  <2>1. faults' \in 0..MaxFaults /\ misread' \in BOOLEAN
    BY <1>0, <1>2, <1>9 DEF NewKey
  <2>2. QED
    BY <1>0, <1>1, <2>1, <1>9 DEF NewKey, files, history
<1>10. ASSUME NEW p \in Procs, TruncateKey(p) \/ WriteKey(p)
       PROVE TypeOK' /\ IsFiniteSet(tokens')
  <2>1. IsFile(keyFile', Keys) /\ keyFile'.is # "mixed"
    <3>1. CASE TruncateKey(p)
      BY <1>6, <3>1, FileForms DEF TruncateKey
    <3>2. CASE WriteKey(p)
      <4>1. proc[p].key \in Keys /\ keyFile' = Whole(proc[p].key)
        BY <1>0, <3>2 DEF WriteKey, Placed, At, MakingKey, Commands, Keys
      <4>2. QED
        BY <1>6, <4>1, FileForms
    <3>3. QED
      BY <1>10, <3>1, <3>2
  <2>2. QED
    BY <1>0, <1>1, <2>1, <1>10, FileForms DEF TruncateKey, WriteKey, files, history
<1>11. ASSUME NEW p \in Procs, TruncateConf(p) \/ WriteConf(p)
       PROVE TypeOK' /\ IsFiniteSet(tokens')
  <2>1. IsFile(conf', Configs)
    BY <1>0, <1>5, <1>6, <1>11 DEF TruncateConf, WriteConf, Placed, At, HasKey, MakingConf,
                                   Written
  <2>2. QED
    BY <1>0, <1>1, <2>1, <1>11 DEF TruncateConf, WriteConf, files, history
<1>12. IsFile(Down, Configs) /\ ~Corrupt(Down)
  BY <1>6 DEF Down, Corrupt, Missing
<1>13. conf.is = "whole" => IsFile(conf, Configs) /\ ~Corrupt(conf)
  BY <1>0 DEF Corrupt
<1>14. ASSUME NEW p \in Procs, TunnelDown(p) \/ ActiveCheck(p)
       PROVE TypeOK' /\ IsFiniteSet(tokens')
  BY <1>0, <1>1, <1>2, <1>12, <1>14 DEF TunnelDown, ActiveCheck, files, history
<1>15. ASSUME NEW p \in Procs, TunnelUp(p) PROVE TypeOK' /\ IsFiniteSet(tokens')
  <2>1. IsFile(tunnel', Configs) /\ ~Corrupt(tunnel')
    BY <1>0, <1>13, <1>15 DEF TunnelUp
  <2>2. /\ acked' \subseteq Clients /\ tokens' \subseteq Keys /\ settled' \in BOOLEAN
        /\ IsFiniteSet(tokens')
    BY <1>0, <1>3, <1>4, <1>15 DEF TunnelUp, history, Job
  <2>3. faults' \in 0..MaxFaults
    BY <1>0, <1>2, <1>15 DEF TunnelUp
  <2>4. QED
    BY <1>0, <1>1, <2>1, <2>2, <2>3, <1>15 DEF TunnelUp
<1>16. ASSUME NEW p \in Procs, RestOfInstall(p) PROVE TypeOK' /\ IsFiniteSet(tokens')
  <2>1. IsFile(tunnel', Configs) /\ ~Corrupt(tunnel')
    BY <1>0, <1>12, <1>16 DEF RestOfInstall
  <2>2. Job(p, "install") => proc[p].key # 0
    BY <1>0, <1>16 DEF RestOfInstall, Placed, HasKey, PastConf, Job, At
  <2>3. /\ acked' \subseteq Clients /\ tokens' \subseteq Keys /\ settled' \in BOOLEAN
        /\ IsFiniteSet(tokens')
    BY <1>0, <1>3, <1>4, <2>2, <1>16 DEF RestOfInstall
  <2>4. faults' \in 0..MaxFaults
    BY <1>0, <1>2, <1>16 DEF RestOfInstall
  <2>5. QED
    BY <1>0, <1>1, <2>1, <2>3, <2>4, <1>16 DEF RestOfInstall
<1>17. ASSUME NEW p \in Procs, Killed(p) PROVE TypeOK' /\ IsFiniteSet(tokens')
  BY <1>0, <1>1, <1>2, <1>3, <1>17 DEF Killed, files
<1>18. ASSUME NEW p \in Procs, Install(p) \/ \E m \in Clients : AddPeer(p, m)
       PROVE TypeOK' /\ IsFiniteSet(tokens')
  BY <1>0, <1>1, <1>18 DEF Install, AddPeer, files
<1>19. CASE DeleteStore \/ DeleteKey
  <2>1. Missing # Mixed
    BY FileForms
  <2>2. CASE DeleteStore
    BY <1>0, <1>1, <1>6, <2>2 DEF DeleteStore
  <2>3. CASE DeleteKey
    BY <1>0, <1>1, <1>6, <2>1, <2>3 DEF DeleteKey
  <2>4. QED
    BY <1>19, <2>2, <2>3
<1>20. QED
  BY <1>7, <1>8, <1>9, <1>10, <1>11, <1>14, <1>15, <1>16, <1>17, <1>18, <1>19
     DEF Next, Step

\* Where each step takes its command, and what it then holds.
Goes(p, l) ==
  proc'[p].at = l /\ proc'[p].peers = proc[p].peers /\ proc'[p].key = proc[p].key

\* What each step is, in those words, and what it does to the files.
LEMMA Effects ==
  ASSUME IInv, NEW p \in Procs
  PROVE  /\ Load(p) =>
              \/ Corrupt(store) /\ proc'[p] = Idle
              \/ /\ ~Corrupt(store) /\ Job(p, "add-peer") /\ proc'[p].at = "truncate-store"
                 /\ \E c \in Clients : /\ proc[p].peer = {c}
                                       /\ proc'[p].peers = Add(Loaded(store), c)
              \/ /\ ~Corrupt(store) /\ Job(p, "install") /\ proc'[p].at = "truncate-conf"
                 /\ proc'[p].peers = Loaded(store) /\ proc'[p].key = proc[p].key
         /\ TruncateStore(p) => Goes(p, "write-store")
         /\ WriteStore(p)    => Goes(p, "key")
         /\ ReadKey(p) =>
              \/ proc'[p] = Idle
              \/ /\ keyFile = Whole(keyFile.v) /\ proc'[p].at = AfterKey(p)
                 /\ proc'[p].peers = proc[p].peers /\ proc'[p].key = keyFile.v
         /\ NewKey(p) => proc'[p].at = "truncate-key" /\ proc'[p].peers = proc[p].peers
         /\ TruncateKey(p)   => Goes(p, "write-key")
         /\ WriteKey(p)      => Goes(p, AfterKey(p))
         /\ TruncateConf(p)  => Goes(p, "write-conf")
         /\ WriteConf(p) => \/ Job(p, "add-peer") /\ proc'[p].at = "down"
                            \/ /\ Job(p, "install") /\ proc'[p].at = "active"
                               /\ proc'[p].key = proc[p].key
         /\ TunnelDown(p)    => Job(p, "add-peer") /\ Goes(p, "up")
         /\ ActiveCheck(p)   => Job(p, "install") /\ (Goes(p, "up") \/ Goes(p, "rest"))
         /\ TunnelUp(p) => \/ proc'[p] = Idle
                           \/ Job(p, "install") /\ Goes(p, "rest-or-down")
         /\ RestOfInstall(p) \/ Killed(p) => proc'[p] = Idle
<1>0. /\ proc \in [Procs -> Commands] /\ proc[p] \in Commands /\ Placed(proc[p])
      /\ TypeOK /\ IsFiniteSet(tokens)
  BY DEF IInv, TypeOK
<1>1. ASSUME NEW l \in Places, Goto(p, l) PROVE Goes(p, l)
  BY <1>0, <1>1, Moves DEF Goes
<1>2. ASSUME proc' = [proc EXCEPT ![p] = Idle] PROVE proc'[p] = Idle
  BY <1>0, <1>2
<1>3. ASSUME proc[p].at # "idle", ~Job(p, "add-peer") PROVE Job(p, "install")
  BY <1>0, <1>3 DEF Placed, Commands, Job
<1>4. ASSUME Load(p), ~Corrupt(store), Job(p, "add-peer")
      PROVE  /\ proc'[p].at = "truncate-store"
             /\ \E c \in Clients : proc[p].peer = {c} /\ proc'[p].peers = Add(Loaded(store), c)
  <2>1. PICK c \in proc[p].peer : HoldPeers(p, "truncate-store", Add(Loaded(store), c))
    BY <1>4 DEF Load
  <2> DEFINE s == Add(Loaded(store), c)
  <2>2. s \in Peers /\ proc[p].peer = {c} /\ c \in Clients
    BY <1>0, <1>4, LoadedFacts, AddFacts DEF Commands, Placed, Job
  <2>3. HoldPeers(p, "truncate-store", s)
    BY <2>1
  <2> HIDE DEF s
  <2>4. proc'[p].at = "truncate-store" /\ proc'[p].peers = s
    BY <1>0, <2>2, <2>3, Moves DEF Places
  <2>5. QED
    BY <2>2, <2>4 DEF s
<1>5. ASSUME Load(p), ~Corrupt(store), ~Job(p, "add-peer")
      PROVE  /\ Job(p, "install") /\ proc'[p].at = "truncate-conf"
             /\ proc'[p].peers = Loaded(store) /\ proc'[p].key = proc[p].key
  <2>1. HoldPeers(p, "truncate-conf", Loaded(store)) /\ At(p, "load")
    BY <1>5 DEF Load
  <2>2. QED
    BY <1>0, <1>3, <1>5, <2>1, LoadedFacts, Moves DEF Places, At
<1>6. ASSUME Load(p), Corrupt(store) PROVE proc'[p] = Idle
  BY <1>2, <1>6 DEF Load, Fails
<1>7. ASSUME ReadKey(p)
      PROVE  \/ proc'[p] = Idle
             \/ /\ keyFile = Whole(keyFile.v) /\ proc'[p].at = AfterKey(p)
                /\ proc'[p].peers = proc[p].peers /\ proc'[p].key = keyFile.v
  <2>1. CASE keyFile.is = "whole" /\ HoldKey(p, AfterKey(p), keyFile.v)
    <3>1. keyFile = Whole(keyFile.v) /\ keyFile.v \in Nat
      BY <1>0, <2>1, FileForms DEF TypeOK, IsFile, Keys
    <3>2. QED
      BY <1>0, <2>1, <3>1, Moves DEF Places, AfterKey
  <2>2. QED
    BY <1>2, <1>7, <2>1 DEF ReadKey, Fails
<1>8. ASSUME NewKey(p)
      PROVE  proc'[p].at = "truncate-key" /\ proc'[p].peers = proc[p].peers
  <2>1. FreshKey \in Nat
    BY <1>0, FreshKeyType DEF Keys
  <2>2. QED
    BY <1>0, <1>8, <2>1, Moves DEF NewKey, Places
<1>9. ASSUME WriteConf(p)
      PROVE  \/ Job(p, "add-peer") /\ proc'[p].at = "down"
             \/ /\ Job(p, "install") /\ proc'[p].at = "active"
                /\ proc'[p].key = proc[p].key
  BY <1>0, <1>9, Leaves DEF WriteConf, Places
<1>10. AfterKey(p) \in Places
  BY DEF AfterKey, Places
<1>11. /\ TunnelDown(p)  => Job(p, "add-peer") /\ Goes(p, "up")
       /\ ActiveCheck(p) => Job(p, "install") /\ (Goes(p, "up") \/ Goes(p, "rest"))
  <2>1. At(p, "down") => Job(p, "add-peer")
    BY <1>0, <1>3 DEF Placed, InstallPlaces, PastConf, At, Job
  <2>2. At(p, "active") => Job(p, "install")
    BY <1>0, <1>3 DEF Placed, AddPeerPlaces, At, Job
  <2>3. QED
    BY <1>1, <2>1, <2>2 DEF TunnelDown, ActiveCheck, Places
<1>12. TunnelUp(p) => \/ proc'[p] = Idle
                      \/ Job(p, "install") /\ Goes(p, "rest-or-down")
  <2>1. At(p, "up") => proc[p].at # "idle"
    BY DEF At
  <2>2. QED
    BY <1>1, <1>2, <1>3, <2>1 DEF TunnelUp, Succeeds, Fails, Places
<1>13. /\ TruncateStore(p) => Goes(p, "write-store")
       /\ WriteStore(p)    => Goes(p, "key")
       /\ TruncateKey(p)   => Goes(p, "write-key")
       /\ WriteKey(p)      => Goes(p, AfterKey(p))
       /\ TruncateConf(p)  => Goes(p, "write-conf")
  BY <1>1, <1>10 DEF TruncateStore, WriteStore, TruncateKey, WriteKey, TruncateConf, Places
<1>14. RestOfInstall(p) \/ Killed(p) => proc'[p] = Idle
  BY <1>2 DEF RestOfInstall, Killed, Succeeds, Fails
<1>15. QED
  BY <1>4, <1>5, <1>6, <1>7, <1>8, <1>9, <1>11, <1>12, <1>13, <1>14

\* The clients that were told they are registered stay in peers.json: the step that
\* tells one has it there, and no other command is about to write without it.
LEMMA AckedStayKept ==
  ASSUME IInv, Next
  PROVE  AckedStay'
<1>0. /\ TypeOK /\ AckedStay /\ Aware
      /\ \A q \in Procs : Placed(proc[q]) /\ proc[q] \in Commands /\ Saved(q)
  BY DEF IInv, TypeOK
<1> USE DEF Saving
<1>1. ASSUME store' = store, acked' = acked,
             \A q \in Procs : proc'[q].at \in Saving =>
               proc[q].at \in Saving /\ proc'[q].peers = proc[q].peers
      PROVE  AckedStay'
  BY <1>0, <1>1 DEF AckedStay
<1>2. ASSUME NEW p \in Procs, Steps(p), store' = store, acked' = acked,
             proc'[p].at \notin Saving
      PROVE  AckedStay'
  <2>1. \A q \in Procs : q # p => proc'[q] = proc[q]
    BY <1>2, StepAdvances DEF Advances, OnlyMoves
  <2>2. QED
    BY <1>1, <1>2, <2>1
<1>3. ASSUME NEW p \in Procs, Steps(p), Load(p) PROVE AckedStay'
  <2>1. store' = store /\ acked' = acked
    BY <1>3 DEF Load, Fails, files, history
  <2>2. CASE proc'[p].at \notin Saving
    BY <1>2, <1>3, <2>1, <2>2
  <2>3. CASE proc'[p].at \in Saving
    <3>1. PICK c \in Clients : ~Corrupt(store) /\ proc'[p].peers = Add(Loaded(store), c)
      BY <1>3, <2>3, Effects DEF Idle
    <3>2. /\ Loaded(store) \in Peers
          /\ store = Missing \/ store = Whole(Loaded(store))
      BY <1>0, <3>1, LoadedFacts
    <3>3. acked \subseteq Range(Loaded(store))
      BY <1>0, <3>2, FileForms DEF AckedStay
    <3>4. acked \subseteq Range(proc'[p].peers)
      BY <3>1, <3>2, <3>3, AddFacts
    <3>5. \A q \in Procs : q # p => proc'[q] = proc[q]
      BY <1>3, StepAdvances DEF Advances, OnlyMoves
    <3>6. \A q \in Procs : proc'[q].at \in Saving => acked \subseteq Range(proc'[q].peers)
      BY <1>0, <3>4, <3>5 DEF AckedStay
    <3>7. QED
      BY <1>0, <2>1, <3>6 DEF AckedStay
  <2>4. QED
    BY <2>2, <2>3
<1>4. ASSUME NEW p \in Procs, Steps(p), TruncateStore(p) \/ WriteStore(p) PROVE AckedStay'
  <2>1. /\ proc[p].at \in Saving /\ proc'[p].peers = proc[p].peers /\ acked' = acked
    BY <1>4, Effects DEF Goes, TruncateStore, WriteStore, At, history
  <2>2. \A q \in Procs : q # p => proc'[q] = proc[q]
    BY <1>4, StepAdvances DEF Advances, OnlyMoves
  <2>3. \A q \in Procs : proc'[q].at \in Saving => acked \subseteq Range(proc'[q].peers)
    BY <1>0, <2>1, <2>2 DEF AckedStay
  <2>4. store' \in {Torn, Mixed, Whole(proc[p].peers)}
    BY <1>4 DEF TruncateStore, WriteStore, Written
  <2>5. store' # Missing /\ (store'.is = "whole" => acked \subseteq Range(store'.v))
    BY <1>0, <2>1, <2>4, FileForms DEF AckedStay
  <2>6. QED
    BY <2>1, <2>3, <2>5 DEF AckedStay
<1>5. ASSUME NEW p \in Procs, Steps(p), Succeeds(p), store' = store,
             Job(p, "add-peer") => At(p, "up")
      PROVE  AckedStay'
  <2>1. proc'[p].at = "idle" /\ \A q \in Procs : q # p => proc'[q] = proc[q]
    BY <1>0, <1>5, StepAdvances DEF Advances, OnlyMoves, Succeeds, Idle, TypeOK
  <2>2. CASE acked' = acked
    BY <1>2, <1>5, <2>1, <2>2
  <2>3. CASE Job(p, "add-peer") /\ proc[p].beside # "rival" /\ acked' = acked \cup proc[p].peer
    <3>1. store.is = "whole" /\ proc[p].peer \subseteq Range(store.v)
      BY <1>0, <1>5, <2>3 DEF Saved, AddPeerPlaces, At
    <3>2. ASSUME NEW q \in Procs PROVE proc'[q].at \notin Saving
      <4>1. CASE q # p /\ proc[q].at \in Saving
        <5>1. Job(q, "add-peer") /\ ~At(q, "idle")
          BY <1>0, <4>1 DEF Placed, InstallPlaces, PastConf, Job, At, Commands
        <5>2. QED
          BY <1>0, <1>5, <2>3, <4>1, <5>1 DEF Aware, At
      <4>2. QED
        BY <2>1, <4>1
    <3>3. QED
      BY <1>0, <1>5, <2>3, <3>1, <3>2, FileForms DEF AckedStay
  <2>4. QED
    BY <1>5, <2>2, <2>3 DEF Succeeds
<1>6. ASSUME NEW p \in Procs, Steps(p), TunnelUp(p) \/ RestOfInstall(p) PROVE AckedStay'
  <2>1. store' = store
    BY <1>6 DEF TunnelUp, RestOfInstall
  <2>2. proc'[p].at \notin Saving
    BY <1>6, Effects DEF Goes, Idle
  <2>3. Job(p, "add-peer") => At(p, "up")
    BY <1>0, <1>6 DEF TunnelUp, RestOfInstall, Placed, AddPeerPlaces, At, Job
  <2>4. Succeeds(p) \/ acked' = acked
    BY <1>6 DEF TunnelUp, RestOfInstall, Fails, history
  <2>5. QED
    BY <1>2, <1>5, <1>6, <2>1, <2>2, <2>3, <2>4
<1>7. ASSUME NEW p \in Procs, Steps(p),
             ReadKey(p) \/ NewKey(p) \/ TruncateKey(p) \/ WriteKey(p) \/ TruncateConf(p)
               \/ WriteConf(p) \/ TunnelDown(p) \/ ActiveCheck(p) \/ Killed(p)
      PROVE  AckedStay'
  <2>1. store' = store /\ acked' = acked
    BY <1>7 DEF ReadKey, NewKey, TruncateKey, WriteKey, TruncateConf, WriteConf, TunnelDown,
                ActiveCheck, Killed, Fails, files, history
  <2>2. proc'[p].at \notin Saving
    BY <1>7, Effects DEF Goes, Idle, AfterKey
  <2>3. QED
    BY <1>2, <1>7, <2>1, <2>2
<1>8. ASSUME NEW p \in Procs, Steps(p) PROVE AckedStay'
  BY <1>3, <1>4, <1>6, <1>7, <1>8 DEF Steps, Step
<1>9. ASSUME NEW p \in Procs, Install(p) \/ \E m \in Clients : AddPeer(p, m) PROVE AckedStay'
  <2>1. store' = store /\ acked' = acked
    BY <1>9 DEF Install, AddPeer, files
  <2>2. QED
    BY <1>1, <1>9, <2>1, CommandStarts DEF Starts
<1>10. CASE DeleteStore
  BY <1>0, <1>10, FileForms DEF DeleteStore, AckedStay, At
<1>11. CASE DeleteKey
  BY <1>1, <1>11 DEF DeleteKey
<1>12. QED
  BY <1>8, <1>9, <1>10, <1>11, Cases

\* Only a command that is saving touches peers.json.
LEMMA OnlySaversTouchStore ==
  ASSUME NEW p \in Procs, Steps(p), proc[p].at \notin Saving
  PROVE  store' = store
BY DEF Steps, Step, Load, TruncateStore, WriteStore, ReadKey, NewKey, TruncateKey, WriteKey,
       TruncateConf, WriteConf, TunnelDown, ActiveCheck, TunnelUp, RestOfInstall, Killed, At,
       Saving, files

\* An add-peer has its peer in peers.json from the save on, since no command that
\* is no add-peer saves anything.
LEMMA SavedKept ==
  ASSUME IInv, Next, NEW p \in Procs
  PROVE  Saved(p)'
<1>0. /\ Aware /\ proc \in [Procs -> Commands]
      /\ \A q \in Procs : Placed(proc[q]) /\ proc[q] \in Commands /\ Saved(q)
  BY DEF IInv, TypeOK
<1>1. ASSUME proc'[p].at = proc[p].at, proc'[p].job = proc[p].job,
             proc'[p].peer = proc[p].peer, proc[p].beside = "rival" => proc'[p].beside = "rival",
             store' = store
      PROVE  Saved(p)'
  BY <1>0, <1>1 DEF Saved, At, Job
<1>2. ASSUME NEW r \in Procs, Steps(r), r # p PROVE Saved(p)'
  <2>1. proc'[p] = proc[p] /\ ~At(r, "idle")
    BY <1>2, StepAdvances DEF Advances, OnlyMoves
  <2>2. SUFFICES ASSUME Job(p, "add-peer"), proc[p].beside # "rival" PROVE Saved(p)'
    BY <2>1 DEF Saved, Job
  <2>3. ~Job(r, "add-peer")
    BY <1>0, <1>2, <2>1, <2>2 DEF Aware, Placed, At, Job
  <2>4. proc[r].at \notin Saving
    BY <1>0, <2>1, <2>3 DEF Placed, InstallPlaces, PastConf, Saving, At, Job, Commands
  <2>5. QED
    BY <1>1, <1>2, <2>1, <2>4, OnlySaversTouchStore
<1>3. ASSUME Steps(p) PROVE Saved(p)'
  <2>1. SUFFICES ASSUME proc'[p].job = "add-peer", proc'[p].beside # "rival" PROVE Saved(p)'
    BY DEF Saved, Job
  <2>2. /\ Job(p, "add-peer") /\ proc[p].beside # "rival" /\ proc'[p].peer = proc[p].peer
    BY <1>3, <2>1, StepAdvances DEF Advances, Job, Idle
  <2>3. CASE TruncateStore(p)
    BY <2>3, Effects DEF TruncateStore, Saved, At, Goes, Saving
  <2>4. CASE WriteStore(p)
    <3>1. store' = Whole(proc[p].peers)
      BY <1>0, <2>2, <2>4 DEF WriteStore, Saved, Written
    <3>2. proc[p].peer \subseteq Range(proc[p].peers)
      BY <1>0, <2>4 DEF WriteStore, Placed, Saving, At
    <3>3. proc'[p].at = "key"
      BY <2>4, Effects DEF Goes
    <3>4. QED
      BY <2>2, <3>1, <3>2, <3>3, FileForms DEF Saved, At
  <2>5. CASE Load(p)
    BY <2>1, <2>2, <2>5, Effects DEF Saved, At, Idle, Job, Saving
  <2>6. CASE ~TruncateStore(p) /\ ~WriteStore(p) /\ ~Load(p)
    <3>1. ~Killed(p)
      BY <2>1, Effects DEF Idle
    <3>2. proc[p].at \notin {"load"} \cup Saving
      BY <1>3, <2>6, <3>1 DEF Steps, Step, ReadKey, NewKey, TruncateKey, WriteKey,
         TruncateConf, WriteConf, TunnelDown, ActiveCheck, TunnelUp, RestOfInstall, At, Saving
    <3>3. proc'[p].at # "write-store"
      BY <1>3, <2>6, <3>1, Effects DEF Steps, Step, Goes, AfterKey, Idle
    <3>4. store' = store
      BY <1>3, <3>2, OnlySaversTouchStore
    <3>5. store.is = "whole" /\ proc[p].peer \subseteq Range(store.v)
      BY <1>0, <2>2, <3>2 DEF Saved, Placed, Job
    <3>6. QED
      BY <2>2, <3>3, <3>4, <3>5 DEF Saved, At
  <2>7. QED
    BY <2>3, <2>4, <2>5, <2>6
<1>4. ASSUME NEW r \in Procs, Install(r) \/ \E m \in Clients : AddPeer(r, m)
      PROVE  Saved(p)'
  <2>1. Starts(r) /\ store' = store
    BY <1>4, CommandStarts DEF Install, AddPeer, files
  <2>2. CASE r = p
    BY <2>1, <2>2 DEF Starts, Saved, At, Job, AddPeerPlaces
  <2>3. CASE r # p
    BY <1>1, <2>1, <2>3 DEF Starts
  <2>4. QED
    BY <2>2, <2>3
<1>5. CASE DeleteStore \/ DeleteKey
  BY <1>0, <1>5 DEF DeleteStore, DeleteKey, Saved, Placed, At, Job
<1>6. QED
  BY <1>2, <1>3, <1>4, <1>5, Cases

\* What a command with no other beside it has in hand is what is in the files: the
\* steps of the others are none.
LEMMA InStepKept ==
  ASSUME IInv, Next, NEW p \in Procs
  PROVE  InStep(p)'
<1>0. /\ Aware /\ TypeOK /\ proc \in [Procs -> Commands] /\ InStep(p) /\ Saved(p)
      /\ \A q \in Procs : Placed(proc[q]) /\ proc[q] \in Commands
  BY DEF IInv, TypeOK
<1> USE DEF MakingKey, MakingConf
<1>1. ASSUME proc'[p].job = "install" /\ proc'[p].at \in PastConf PROVE InStep(p)'
  BY <1>1 DEF InStep, Job, At, PastConf
<1>2. ASSUME proc'[p].at = "idle" /\ proc'[p].job = "none" PROVE InStep(p)'
  BY <1>2 DEF InStep, Job, At
<1>3. ASSUME NEW r \in Procs, Steps(r), r # p PROVE InStep(p)'
  <2>1. proc'[p] = proc[p] /\ ~At(r, "idle")
    BY <1>3, StepAdvances DEF Advances, OnlyMoves
  <2>2. CASE At(p, "idle")
    BY <1>0, <1>2, <2>1, <2>2 DEF Placed, At
  <2>3. CASE ~At(p, "idle") /\ (Job(p, "add-peer") \/ proc[p].at \notin PastConf)
    <3>1. ~Alone(p)
      BY <1>0, <1>3, <2>1, <2>3 DEF Aware
    <3>2. QED
      BY <2>1, <3>1 DEF InStep, Alone
  <2>4. CASE ~At(p, "idle") /\ ~Job(p, "add-peer") /\ proc[p].at \in PastConf
    <3>1. Job(p, "install")
      BY <1>0, <2>4 DEF Placed, Commands, Job, At
    <3>2. QED
      BY <1>1, <2>1, <2>4, <3>1 DEF Job
  <2>5. QED
    BY <2>2, <2>3, <2>4
<1>4. ASSUME Steps(p) PROVE InStep(p)'
  <2>1. CASE proc'[p] = Idle
    BY <1>2, <2>1 DEF Idle
  <2>2. CASE proc'[p].job = "install" /\ proc'[p].at \in PastConf
    BY <1>1, <2>2
  <2>3. SUFFICES ASSUME proc'[p] # Idle, proc'[p].beside = "nobody",
                        ~(proc'[p].job = "install" /\ proc'[p].at \in PastConf)
                 PROVE  InStep(p)'
    BY <2>1, <2>2 DEF InStep, Alone
  <2>4. /\ proc'[p].job = proc[p].job /\ proc[p].beside = "nobody"
        /\ Job(p, "add-peer") \/ Job(p, "install")
    BY <1>0, <1>4, <2>3, StepAdvances DEF Advances, Job, Placed, At, Commands
  <2> USE <2>3, <2>4, FileForms DEF Goes, InStep, Alone, Job, At, PastConf, AfterKey
  <2>5. CASE Load(p)
    <3>1. proc'[p].job = "install" =>
            /\ proc'[p].at = "truncate-conf" /\ proc'[p].peers = Loaded(store)
            /\ proc'[p].key = proc[p].key /\ ~Corrupt(store) /\ At(p, "load")
      BY <2>5, Effects DEF Load
    <3>2. proc'[p].job = "add-peer" => proc'[p].at = "truncate-store"
      BY <2>5, Effects
    <3>3. ~Corrupt(store) =>
            store = Whole(Loaded(store)) \/ (store = Missing /\ Loaded(store) = <<>>)
      BY <1>0, LoadedFacts DEF Loaded
    <3>4. UNCHANGED <<store, keyFile>>
      BY <2>5 DEF Load, files
    <3>5. QED
      BY <1>0, <3>1, <3>2, <3>3, <3>4
  <2>6. CASE TruncateStore(p)
    BY <1>0, <2>6, Effects DEF TruncateStore, Placed, InstallPlaces
  <2>7. CASE WriteStore(p)
    <3>1. Job(p, "add-peer")
      BY <1>0, <2>7 DEF WriteStore, Placed, InstallPlaces
    <3>2. store' = Whole(proc[p].peers)
      BY <1>0, <2>7, <3>1 DEF WriteStore, Saved, Written
    <3>3. QED
      BY <2>7, <3>1, <3>2, Effects
  <2>8. CASE ReadKey(p)
    BY <1>0, <2>8, Effects DEF ReadKey, files
  <2>9. CASE NewKey(p)
    BY <1>0, <2>9, Effects DEF NewKey, files
  <2>10. CASE TruncateKey(p)
    BY <1>0, <2>10, Effects DEF TruncateKey
  <2>11. CASE WriteKey(p)
    BY <1>0, <2>11, Effects DEF WriteKey
  <2>12. CASE TruncateConf(p)
    BY <1>0, <2>12, Effects DEF TruncateConf
  <2>13. CASE WriteConf(p)
    <3>1. /\ proc'[p].job = "add-peer" /\ proc'[p].at = "down"
          /\ store' = store /\ keyFile' = keyFile
      BY <2>13, Effects DEF WriteConf
    <3> DEFINE c == [key |-> proc[p].key, peers |-> proc[p].peers]
    <3>2. conf' = Whole(c) /\ c.key = proc[p].key /\ c.peers = proc[p].peers
      BY <1>0, <2>13 DEF WriteConf, Written
    <3>3. store = Whole(proc[p].peers) /\ keyFile = Whole(proc[p].key)
      BY <1>0, <2>13, <3>1 DEF WriteConf
    <3> HIDE DEF c
    <3>4. QED
      BY <3>1, <3>2, <3>3
  <2>14. CASE TunnelDown(p)
    BY <1>0, <2>14, Effects DEF TunnelDown
  <2>15. CASE ActiveCheck(p) \/ TunnelUp(p) \/ RestOfInstall(p) \/ Killed(p)
    BY <2>15, Effects
  <2>16. QED
    BY <1>4, <2>5, <2>6, <2>7, <2>8, <2>9, <2>10, <2>11, <2>12, <2>13, <2>14, <2>15
       DEF Steps, Step
<1>5. ASSUME NEW r \in Procs, Install(r) \/ \E m \in Clients : AddPeer(r, m)
      PROVE  InStep(p)'
  <2>1. Starts(r)
    BY <1>5, CommandStarts
  <2>2. CASE r = p
    BY <2>1, <2>2 DEF Starts, InStep, Job, At
  <2>3. CASE r # p
    <3>1. proc'[p].at = proc[p].at /\ proc'[p].job = proc[p].job
      BY <2>1, <2>3 DEF Starts
    <3>2. CASE At(p, "idle")
      BY <1>0, <1>2, <3>1, <3>2 DEF Placed, At
    <3>3. CASE ~At(p, "idle") /\ (Job(p, "add-peer") \/ proc[p].at \notin PastConf)
      BY <2>1, <2>3, <3>3 DEF Starts, InStep, Alone
    <3>4. CASE ~At(p, "idle") /\ ~Job(p, "add-peer") /\ proc[p].at \in PastConf
      <4>1. Job(p, "install")
        BY <1>0, <3>4 DEF Placed, Commands, Job, At
      <4>2. QED
        BY <1>1, <3>1, <3>4, <4>1 DEF Job
    <3>5. QED
      BY <3>2, <3>3, <3>4
  <2>4. QED
    BY <2>2, <2>3
<1>6. CASE DeleteStore \/ DeleteKey
  BY <1>0, <1>2, <1>6 DEF DeleteStore, DeleteKey, Placed, At, Job
<1>7. QED
  BY <1>3, <1>4, <1>5, <1>6, Cases

\* An add-peer that succeeds with no other beside it leaves a settled state, and
\* nothing happens in one that does not end it.
LEMMA SettledKept ==
  ASSUME IInv, Next
  PROVE  Settled'
<1>0. /\ Aware /\ TypeOK /\ proc \in [Procs -> Commands] /\ Settled
      /\ \A q \in Procs : Placed(proc[q]) /\ proc[q] \in Commands /\ InStep(q)
  BY DEF IInv, TypeOK
<1>1. ASSUME NEW p \in Procs, Steps(p) PROVE Settled'
  <2>1. ~At(p, "idle") /\ ~settled
    BY <1>0, <1>1, StepAdvances DEF Advances, Settled
  <2>2. CASE ~settled'
    BY <2>2 DEF Settled
  <2>3. CASE settled'
    <3>1. \/ TunnelUp(p) /\ tunnel' = conf /\ Succeeds(p) /\ Job(p, "add-peer")
          \/ RestOfInstall(p) /\ Succeeds(p)
      BY <1>1, <2>1, <2>3 DEF Steps, Step, Load, TruncateStore, WriteStore, ReadKey, NewKey,
         TruncateKey, WriteKey, TruncateConf, WriteConf, TunnelDown, ActiveCheck, TunnelUp,
         RestOfInstall, Killed, Fails, history
    <3>2. ~RestOfInstall(p) /\ Job(p, "add-peer") /\ Alone(p)
      BY <1>0, <2>3, <3>1 DEF RestOfInstall, Succeeds, Placed, AddPeerPlaces, At, Job
    <3>3. /\ tunnel' = conf /\ conf' = conf /\ store' = store /\ keyFile' = keyFile
          /\ At(p, "up") /\ proc'[p].at = "idle"
      BY <1>0, <3>1, <3>2 DEF TunnelUp, Succeeds, Idle
    <3>4. store = Whole(conf.v.peers) /\ keyFile = Whole(conf.v.key)
      BY <1>0, <3>2, <3>3 DEF InStep, At
    <3>5. ASSUME NEW q \in Procs, q # p PROVE proc'[q].at = "idle"
      <4>1. proc'[q] = proc[q]
        BY <1>1, <3>5, StepAdvances DEF Advances, OnlyMoves
      <4>2. QED
        BY <1>0, <2>1, <3>2, <3>5, <4>1 DEF Aware, At
    <3>6. QED
      BY <3>3, <3>4, <3>5, FileForms DEF Settled, AddPeerTakesEffect, At
  <2>4. QED
    BY <2>2, <2>3
<1>2. CASE \E p \in Procs : Install(p) \/ \E m \in Clients : AddPeer(p, m)
  BY <1>2 DEF Install, AddPeer, Settled
<1>3. CASE DeleteStore \/ DeleteKey
  BY <1>3 DEF DeleteStore, DeleteKey, Settled
<1>4. QED
  BY <1>1, <1>2, <1>3, Cases

\* As long as no key is made that was there or in the making, one key is all there is.
LEMMA OneKeyKept ==
  ASSUME IInv, Next
  PROVE  OneKey'
<1>0. /\ TypeOK /\ proc \in [Procs -> Commands] /\ OneKey
      /\ \A q \in Procs : Placed(proc[q]) /\ proc[q] \in Commands
  BY DEF IInv, TypeOK
<1>1. ASSUME ~misread, keyFile' = keyFile, tokens' = tokens,
             \A q \in Procs :
               \/ proc'[q].at \notin MakingKey /\ ~HasKey(proc'[q])
               \/ /\ proc'[q].at \notin MakingKey /\ proc'[q].key = proc[q].key
                  /\ HasKey(proc[q])
               \/ proc'[q].at = proc[q].at /\ proc'[q].job = proc[q].job
                  /\ proc'[q].key = proc[q].key
      PROVE  OneKey'
  BY <1>0, <1>1 DEF OneKey, HasKey, At, MakingKey
<1>2. ASSUME NEW p \in Procs, Steps(p), ~misread PROVE OneKey'
  <2>0. \A q \in Procs : q # p => proc'[q] = proc[q]
    BY <1>2, StepAdvances DEF Advances, OnlyMoves
  <2> USE DEF MakingKey, MakingConf, PastConf
  <2>1. CASE Load(p) \/ TruncateStore(p) \/ WriteStore(p)
    <3>1. keyFile' = keyFile /\ tokens' = tokens
      BY <2>1 DEF Load, TruncateStore, WriteStore, Fails, files, history
    <3>2. \/ proc'[p].at \notin MakingKey /\ ~HasKey(proc'[p])
          \/ proc'[p].at = "truncate-conf" /\ proc'[p].key = proc[p].key /\ HasKey(proc[p])
      <4>1. CASE Load(p)
        BY <2>1, <4>1, Effects DEF HasKey, Load, Idle, At, Job
      <4>2. CASE TruncateStore(p) \/ WriteStore(p)
        BY <4>2, Effects DEF HasKey, Goes
      <4>3. QED
        BY <2>1, <4>1, <4>2
    <3>3. QED
      BY <1>1, <1>2, <2>0, <3>1, <3>2
  <2>2. CASE ReadKey(p)
    <3>1. keyFile' = keyFile /\ tokens' = tokens
      BY <2>2 DEF ReadKey, Fails, files, history
    <3>2. /\ proc'[p].at \notin MakingKey
          /\ HasKey(proc'[p]) => keyFile = Whole(proc'[p].key)
      BY <2>2, Effects DEF HasKey, AfterKey, Idle
    <3>3. QED
      BY <1>0, <1>2, <2>0, <3>1, <3>2 DEF OneKey, At
  <2>3. CASE NewKey(p)
    <3>1. SUFFICES ASSUME ~misread' PROVE OneKey'
      BY DEF OneKey
    <3>2. keyFile = Missing /\ ~Rivals(p)
      BY <2>3, <3>1 DEF NewKey
    <3>3. keyFile' = Missing /\ tokens' = tokens
      BY <2>3, <3>2 DEF NewKey, files, history
    <3>4. \A q \in Procs : proc[q].at \notin MakingKey /\ ~HasKey(proc[q])
      BY <1>0, <1>2, <2>3, <3>2, FileForms DEF NewKey, OneKey, At, Rivals, Others
    <3>5. tokens = {}
      BY <1>0, <1>2, <3>2, FileForms DEF OneKey
    <3>6. proc'[p].at = "truncate-key" /\ ~HasKey(proc'[p])
      BY <2>3, Effects DEF HasKey
    <3>7. QED
      BY <2>0, <3>3, <3>4, <3>5, <3>6 DEF OneKey, At
  <2>4. CASE TruncateKey(p)
    <3>1. keyFile = Missing /\ keyFile' = Torn /\ tokens' = tokens /\ At(p, "truncate-key")
      BY <1>0, <1>2, <2>4 DEF TruncateKey, OneKey, history
    <3>2. \A q \in Procs : ~HasKey(proc[q]) /\ (q # p => proc[q].at \notin MakingKey)
      BY <1>0, <1>2, <3>1, FileForms DEF OneKey, At
    <3>3. tokens = {}
      BY <1>0, <1>2, <3>1, FileForms DEF OneKey
    <3>4. proc'[p].at = "write-key" /\ ~HasKey(proc'[p])
      BY <2>4, Effects DEF HasKey, Goes
    <3>5. QED
      BY <2>0, <3>1, <3>2, <3>3, <3>4 DEF OneKey, At
  <2>5. CASE WriteKey(p)
    <3>1. /\ keyFile = Torn /\ keyFile' = Whole(proc[p].key) /\ tokens' = tokens
          /\ At(p, "write-key")
      BY <1>0, <1>2, <2>5 DEF WriteKey, OneKey, history
    <3>2. \A q \in Procs : ~HasKey(proc[q]) /\ (q # p => proc[q].at \notin MakingKey)
      BY <1>0, <1>2, <3>1, FileForms DEF OneKey, At
    <3>3. tokens = {}
      BY <1>0, <1>2, <3>1, FileForms DEF OneKey
    <3>4. proc'[p].at \notin MakingKey /\ proc'[p].key = proc[p].key
      BY <2>5, Effects DEF AfterKey, Goes
    <3>5. QED
      BY <2>0, <3>1, <3>2, <3>3, <3>4 DEF OneKey, At
  <2>6. CASE TruncateConf(p) \/ WriteConf(p) \/ TunnelDown(p) \/ ActiveCheck(p)
    <3>1. keyFile' = keyFile /\ tokens' = tokens
      BY <2>6 DEF TruncateConf, WriteConf, TunnelDown, ActiveCheck, files, history
    <3>2. CASE TruncateConf(p)
      <4>1. proc'[p].at = "write-conf" /\ proc'[p].key = proc[p].key /\ HasKey(proc[p])
        BY <3>2, Effects DEF HasKey, TruncateConf, At, Goes
      <4>2. QED
        BY <1>1, <1>2, <2>0, <3>1, <4>1
    <3>3. CASE WriteConf(p)
      <4>1. \/ proc'[p].at = "down" /\ proc'[p].job = "add-peer"
            \/ /\ proc'[p].at = "active" /\ proc'[p].key = proc[p].key /\ HasKey(proc[p])
        BY <1>2, <3>3, Effects, StepAdvances DEF HasKey, WriteConf, At, Job, Advances, Idle
      <4>2. QED
        BY <1>1, <1>2, <2>0, <3>1, <4>1 DEF HasKey
    <3>4. CASE TunnelDown(p)
      <4>1. proc'[p].at = "up" /\ proc'[p].job = "add-peer"
        BY <1>2, <3>4, Effects, StepAdvances DEF Goes, Job, Advances, Idle
      <4>2. QED
        BY <1>1, <1>2, <2>0, <3>1, <4>1 DEF HasKey
    <3>5. CASE ActiveCheck(p)
      <4>1. /\ proc'[p].at \in {"up", "rest"} /\ proc'[p].key = proc[p].key /\ HasKey(proc[p])
        BY <3>5, Effects DEF HasKey, ActiveCheck, At, Job, Goes
      <4>2. QED
        BY <1>1, <1>2, <2>0, <3>1, <4>1
    <3>6. QED
      BY <2>6, <3>2, <3>3, <3>4, <3>5
  <2>7. CASE TunnelUp(p) \/ RestOfInstall(p) \/ Killed(p)
    <3>1. keyFile' = keyFile
      BY <2>7 DEF TunnelUp, RestOfInstall, Killed, files
    <3>2. \/ proc'[p].at = "idle" /\ proc'[p].job = "none"
          \/ /\ proc'[p].at = "rest-or-down" /\ proc'[p].key = proc[p].key /\ HasKey(proc[p])
      BY <2>7, Effects DEF HasKey, TunnelUp, At, Job, Goes, Idle
    <3>3. \/ tokens' = tokens
          \/ /\ Job(p, "install") /\ proc[p].at \in PastConf
             /\ tokens' = tokens \cup {proc[p].key}
      BY <2>7 DEF TunnelUp, RestOfInstall, Killed, Succeeds, Fails, history, At, Job
    <3>4. \A k \in tokens' : keyFile = Whole(k)
      BY <1>0, <1>2, <3>3 DEF OneKey, HasKey, Job
    <3>5. \A q \in Procs : /\ proc'[q].at \in MakingKey => q # p
                           /\ HasKey(proc'[q]) => keyFile = Whole(proc'[q].key)
      BY <1>0, <1>2, <2>0, <3>2 DEF OneKey, HasKey
    <3>6. QED
      BY <1>0, <1>2, <2>0, <3>1, <3>4, <3>5 DEF OneKey, At
  <2>8. QED
    BY <1>2, <2>1, <2>2, <2>3, <2>4, <2>5, <2>6, <2>7 DEF Steps, Step
<1>3. ASSUME NEW p \in Procs, Install(p) \/ \E m \in Clients : AddPeer(p, m), ~misread
      PROVE  OneKey'
  <2>1. Starts(p) /\ keyFile' = keyFile /\ tokens' = tokens
    BY <1>3, CommandStarts DEF Install, AddPeer, files
  <2>2. proc'[p].at \notin MakingKey /\ ~HasKey(proc'[p])
    BY <2>1 DEF Starts, HasKey, MakingKey, MakingConf, PastConf
  <2>3. QED
    BY <1>1, <1>3, <2>1, <2>2 DEF Starts
<1>4. ASSUME DeleteStore \/ DeleteKey, ~misread PROVE OneKey'
  <2>1. CASE DeleteStore
    BY <1>1, <1>4, <2>1 DEF DeleteStore
  <2>2. CASE DeleteKey
    BY <1>0, <1>4, <2>2, FileForms DEF DeleteKey, OneKey, At, HasKey, MakingKey, MakingConf,
                                       PastConf
  <2>3. QED
    BY <1>4, <2>1, <2>2
<1>5. CASE misread
  <2>1. misread'
    BY <1>5 DEF Next, Step, Load, TruncateStore, WriteStore, ReadKey, NewKey, TruncateKey,
       WriteKey, TruncateConf, WriteConf, TunnelDown, ActiveCheck, TunnelUp, RestOfInstall,
       Killed, Install, AddPeer, DeleteStore, DeleteKey
  <2>2. QED
    BY <2>1 DEF OneKey
<1>6. QED
  BY <1>2, <1>3, <1>4, <1>5, Cases

-----------------------------------------------------------------------------
(* The theorems.                                                           *)

\* The empty files, with no command running, satisfy the invariant.
LEMMA InitIInv == Init => IInv
<1> SUFFICES ASSUME Init PROVE IInv
  OBVIOUS
<1>1. /\ \A q \in Procs : proc[q] = Idle
      /\ store = Missing /\ keyFile = Missing /\ conf = Missing /\ tunnel = Missing
      /\ acked = {} /\ tokens = {} /\ settled = FALSE /\ misread = FALSE
  BY DEF Init, Down
<1>2. /\ Idle.at = "idle" /\ Idle.job = "none"
  BY DEF Idle
<1>3. TypeOK /\ IsFiniteSet(tokens)
  <2>1. \A V : IsFile(Missing, V)
    BY DEF IsFile
  <2>2. Missing # Mixed /\ ~Corrupt(Missing)
    BY FileForms DEF Corrupt
  <2>3. proc \in [Procs -> Commands]
    BY IdleIsCommand DEF Init
  <2>4. faults \in 0..MaxFaults
    BY RegistrationAssumption DEF Init
  <2>5. settled \in BOOLEAN /\ misread \in BOOLEAN
    BY <1>1
  <2>6. QED
    BY <1>1, <2>1, <2>2, <2>3, <2>4, <2>5, FS_EmptySet DEF TypeOK
<1>4. \A q \in Procs : Placed(proc[q])
  BY <1>1, <1>2 DEF Placed, HasKey, Saving, MakingKey, MakingConf, PastConf
<1>5. Aware /\ AckedStay
  BY <1>1, <1>2, FileForms DEF Aware, AckedStay, At, Saving
<1>6. \A q \in Procs : Saved(q) /\ InStep(q)
  BY <1>1, <1>2 DEF Saved, InStep, Job, At, MakingConf
<1>7. Settled /\ OneKey
  BY <1>1, <1>2 DEF Settled, OneKey, MakingKey, MakingConf, HasKey, PastConf, At
<1>8. QED
  BY <1>3, <1>4, <1>5, <1>6, <1>7 DEF IInv

\* Every step keeps it.
LEMMA NextKeepsIInv == IInv /\ [Next]_vars => IInv'
<1>1. ASSUME IInv, Next PROVE IInv'
  BY <1>1, TypeKept, PlacedKept, AwareKept, AckedStayKept, SavedKept, InStepKept, SettledKept,
     OneKeyKept DEF IInv
<1>2. ASSUME IInv, UNCHANGED vars PROVE IInv'
  <2>1. /\ store' = store /\ keyFile' = keyFile /\ conf' = conf /\ tunnel' = tunnel
        /\ proc' = proc /\ acked' = acked /\ tokens' = tokens /\ faults' = faults
        /\ UNCHANGED <<misread, settled>>
    BY <1>2 DEF vars, files, history
  <2>2. TypeOK' /\ IsFiniteSet(tokens')
    BY <1>2, <2>1 DEF IInv, TypeOK
  <2>3. (\A q \in Procs : Placed(proc[q]))' /\ Aware' /\ AckedStay'
    BY <1>2, <2>1 DEF IInv, Aware, AckedStay, At, Job, Alone
  <2>4. (\A q \in Procs : Saved(q) /\ InStep(q))'
    BY <1>2, <2>1 DEF IInv, Saved, InStep, At, Job, Alone
  <2>5. Settled' /\ OneKey'
    BY <1>2, <2>1 DEF IInv, Settled, OneKey, AddPeerTakesEffect, At
  <2>6. QED
    BY <2>2, <2>3, <2>4, <2>5 DEF IInv
<1>3. QED
  BY <1>1, <1>2

\* Every reachable state satisfies the inductive invariant.
THEOREM Inductive == Spec => []IInv
<1>1. QED
  BY InitIInv, NextKeepsIInv, PTL DEF Spec

\* The types of the files, of the commands and of the history.
THEOREM TypeCorrect == Spec => []TypeOK
<1>1. IInv => TypeOK
  BY DEF IInv
<1>2. QED
  BY <1>1, Inductive, PTL

\* A client that the operator was told is registered is in peers.json exactly once,
\* whenever no command runs and the file is whole, whatever was killed or overlapped.
THEOREM AckedStays == Spec => []AckedStayRegistered
<1>1. ASSUME IInv PROVE AckedStayRegistered
  <2>1. SUFFICES ASSUME ~Corrupt(store), NEW c \in acked
                 PROVE  Cardinality({i \in DOMAIN Loaded(store) : Loaded(store)[i] = c}) = 1
    BY DEF AckedStayRegistered
  <2> DEFINE s == Loaded(store)
  <2>2. s \in Peers /\ store = Whole(s)
    BY <1>1, <2>1, LoadedFacts DEF IInv, AckedStay
  <2>3. c \in Range(s)
    BY <1>1, <2>1, <2>2, FileForms DEF IInv, AckedStay
  <2> HIDE DEF s
  <2>4. PICK i \in DOMAIN s : s[i] = c
    BY <2>3 DEF Range
  <2>5. {j \in DOMAIN s : s[j] = c} = {i}
    BY <2>2, <2>4 DEF Peers, IsInjective
  <2>6. QED
    BY <2>5, FS_Singleton DEF s
<1>2. QED
  BY <1>1, Inductive, PTL

\* An add-peer that succeeds with no other command beside it leaves store, config,
\* key and running tunnel in agreement.
THEOREM TakesEffect == Spec => []AddPeerTakesEffect
<1>1. IInv => AddPeerTakesEffect
  BY DEF IInv, Settled, AddPeerTakesEffect
<1>2. QED
  BY <1>1, Inductive, PTL

\* Every token names the key in use unless a key was made that was there or in the
\* making.
THEOREM StableIdentity == Spec => []IdentityIsStableIfRead
<1>1. IInv => IdentityIsStableIfRead
  BY FileForms DEF IInv, OneKey, IdentityIsStableIfRead, IdentityIsStable
<1>2. QED
  BY <1>1, Inductive, PTL

\* A command with no other beside it writes the peers of peers.json to wg0.conf.
THEOREM ConfigFollowsStore == Spec => ConfigInSync
<1> DEFINE Writes(p) ==
      At(p, "write-conf") /\ ~At(p, "write-conf")' /\ ~At(p, "idle")' /\ Alone(p)
<1>1. ASSUME IInv, Next, NEW p \in Procs, Writes(p)
      PROVE  store \in {Whole(conf'.v.peers)}
                         \cup (IF conf'.v.peers = <<>> THEN {Missing} ELSE {})
  <2>1. \A r \in Procs : Steps(r) => r = p
    BY <1>1, StepAdvances DEF Advances, OnlyMoves, At
  <2>2. ~\E r \in Procs : Install(r) \/ \E m \in Clients : AddPeer(r, m)
    BY <1>1, CommandStarts DEF Starts, At
  <2>3. Steps(p)
    BY <1>1, <2>1, <2>2, Cases DEF DeleteStore, DeleteKey, At
  <2>4. ~Killed(p)
    BY <1>1, Effects DEF Idle, At
  <2>5. WriteConf(p)
    BY <1>1, <2>3, <2>4 DEF Steps, Step, Load, TruncateStore, WriteStore, ReadKey, NewKey,
       TruncateKey, WriteKey, TruncateConf, TunnelDown, ActiveCheck, TunnelUp, RestOfInstall,
       At, Idle
  <2>6. conf' = Whole([key |-> proc[p].key, peers |-> proc[p].peers])
    BY <1>1, <2>5 DEF WriteConf, Written, IInv, InStep
  <2>7. conf'.v.peers = proc[p].peers
    BY <2>6, FileForms
  <2>8. store = Whole(proc[p].peers) \/ (store = Missing /\ proc[p].peers = <<>>)
    BY <1>1, <2>5 DEF IInv, InStep, WriteConf, Placed, At, Job, MakingConf
  <2>9. QED
    BY <2>7, <2>8
<1>2. IInv /\ [Next]_vars =>
        (\A p \in Procs : At(p, "write-conf") /\ ~At(p, "write-conf")' /\ ~At(p, "idle")'
                            /\ Alone(p) =>
           store \in {Whole(conf'.v.peers)}
                       \cup (IF conf'.v.peers = <<>> THEN {Missing} ELSE {}))
  BY <1>1 DEF vars, At
<1>3. QED
  BY <1>2, Inductive, PTL DEF Spec, ConfigInSync
=============================================================================
