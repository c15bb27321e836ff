--------------------------- MODULE Enrollment_proof ---------------------------
(***************************************************************************)
(* Proofs about Enrollment, for any clients, any subnet and any number of  *)
(* keys and faults.  IInv is inductive; every safety property of the       *)
(* module follows from it.                                                 *)
(***************************************************************************)
EXTENDS Enrollment, WellFoundedInduction, TLAPS

-----------------------------------------------------------------------------
(* The inductive invariant.                                                *)

\* The peers of the server's config were all in peers.json, and those its
\* tunnel serves all in the config; and peers are only ever added.
Lists == {store, conf, serving.peers}
Lagging ==
  /\ Range(serving.peers) \subseteq Range(conf)
  /\ Range(conf) \subseteq Range(store)

\* A key that was acknowledged is one of the config's, and of the tunnel's.
Registered(peers, keys) == \A k \in keys : \E i \in DOMAIN peers : peers[i].key = k
AckedEverywhere ==
  /\ Registered(conf, acked)
  /\ serving.up => Registered(serving.peers, acked)

\* No list of the server's names a key twice or, with a careful operator, an
\* address.
DistinctKeys(peers)  == \A i, j \in DOMAIN peers : peers[i].key = peers[j].key => i = j
DistinctAddrs(peers) == \A i, j \in DOMAIN peers : peers[i].addr = peers[j].addr => i = j
NoneTwice ==
  \A peers \in Lists : DistinctKeys(peers) /\ (careful => DistinctAddrs(peers))

\* Wherever a client's key is written down, it is with the same address: a key
\* is made once, for one token.
Known == {NoPeer} \cup Range(store) \cup replies \cup Range(cconf) \cup Range(running)
KeyFixesPeer ==
  /\ \A p, q \in Known : p.key = q.key => p = q
  /\ \A p \in Known : p.key <= made

\* A client whose install is past its enroll step has a config.
Enrolling == \A c \in Clients : phase[c] # "idle" => cconf[c] # NoPeer

\* With a careful operator at most one address is on its way, from a token
\* through a client's install to a reply...
OneAtATime ==
  /\ \A a, b \in tokens : a = b
  /\ \A c, d \in Clients : phase[c] # "idle" /\ phase[d] # "idle" => c = d
  /\ \A r, s \in replies : r = s
  /\ tokens # {} => replies = {} /\ \A c \in Clients : phase[c] = "idle"
  /\ replies # {} => \A c \in Clients : phase[c] = "idle"

\* ... and it is in the store only if that reply was registered already.
NotYetTaken ==
  \A i \in DOMAIN store :
    /\ \A a \in tokens : store[i].addr # a
    /\ \A c \in Clients : phase[c] # "idle" => store[i].addr # cconf[c].addr
    /\ \A r \in replies : store[i].addr = r.addr => store[i] = r

IInv ==
  /\ TypeOK
  /\ Lagging /\ AckedEverywhere /\ NoneTwice
  /\ KeyFixesPeer /\ Enrolling
  /\ careful => OneAtATime /\ NotYetTaken

-----------------------------------------------------------------------------
(* The operators the model is built from.                                  *)

\* NextClientAddress's scan ends at a free address whenever there is one.
LEMMA FreeHasLeast ==
  ASSUME Free # {}
  PROVE  NextClientAddress \in Free
<1>1. Free \subseteq Nat
  BY EnrollmentAssumption DEF Free
<1>2. PICK a \in Free : \A b \in Free : ~(<<b, a>> \in OpToRel(<, Nat))
  BY <1>1, NatLessThanWellFounded, WFMin
<1>3. ASSUME NEW b \in Free PROVE a <= b
  <2>1. a \in Nat /\ b \in Nat
    BY <1>1
  <2>2. <<b, a>> \in Nat \X Nat /\ <<b, a>>[1] = b /\ <<b, a>>[2] = a
    BY <2>1
  <2>3. ~(b < a)
    BY <2>2, <1>2 DEF OpToRel
  <2>4. QED
    BY <2>1, <2>3
<1>4. QED
  BY <1>3 DEF NextClientAddress

\* PeerStore.Add keeps what is there, puts r's key there, and introduces
\* neither a key nor an address a second time.
LEMMA AddFacts ==
  ASSUME NEW peers \in Seq(Peers), NEW r \in Peers
  PROVE  /\ Add(peers, r) \in Seq(Peers)
         /\ Range(peers) \subseteq Range(Add(peers, r))
         /\ Range(Add(peers, r)) \subseteq Range(peers) \cup {r}
         /\ \E i \in DOMAIN Add(peers, r) : Add(peers, r)[i].key = r.key
         /\ DistinctKeys(peers) => DistinctKeys(Add(peers, r))
         /\ /\ DistinctAddrs(peers)
            /\ \A i \in DOMAIN peers : peers[i].addr = r.addr => peers[i] = r
            => DistinctAddrs(Add(peers, r))
<1>1. CASE \E i \in DOMAIN peers : peers[i].key = r.key
  BY <1>1 DEF Add
<1>2. CASE ~\E i \in DOMAIN peers : peers[i].key = r.key
  <2> DEFINE more == Append(peers, r)
  <2>1. Add(peers, r) = more
    BY <1>2 DEF Add
  <2>2. /\ more \in Seq(Peers) /\ Len(peers) \in Nat
        /\ DOMAIN peers = 1..Len(peers)
        /\ DOMAIN more = 1..(Len(peers) + 1)
        /\ \A k \in 1..Len(peers) : more[k] = peers[k]
        /\ more[Len(peers) + 1] = r
    OBVIOUS
  <2> HIDE DEF more
  <2>3. Range(more) = Range(peers) \cup {r}
    BY <2>2 DEF Range
  <2>4. \E i \in DOMAIN more : more[i].key = r.key
    BY <2>2
  <2>5. DistinctKeys(peers) => DistinctKeys(more)
    BY <2>2, <1>2 DEF DistinctKeys
  <2>6. ASSUME DistinctAddrs(peers),
               \A i \in DOMAIN peers : peers[i].addr = r.addr => peers[i] = r
        PROVE  DistinctAddrs(more)
    <3>1. \A i \in DOMAIN peers : peers[i].addr # r.addr
      BY <2>6, <1>2
    <3>2. QED
      BY <2>2, <2>6, <3>1 DEF DistinctAddrs
  <2>7. QED
    BY <2>1, <2>3, <2>2, <2>4, <2>5, <2>6
<1>3. QED
  BY <1>1, <1>2

\* What a longer list registers.
LEMMA RegisteredGrows ==
  ASSUME NEW less, NEW more, NEW keys, Range(less) \subseteq Range(more),
         Registered(less, keys)
  PROVE  Registered(more, keys)
<1>1. SUFFICES ASSUME NEW k \in keys PROVE \E i \in DOMAIN more : more[i].key = k
  BY DEF Registered
<1>2. PICK i \in DOMAIN less : less[i].key = k
  BY DEF Registered
<1>3. less[i] \in Range(more)
  BY DEF Range
<1>4. QED
  BY <1>2, <1>3 DEF Range

-----------------------------------------------------------------------------
(* What a step may do to the server's lists.                               *)

\* peers.json only ever takes a reply's peer; the config is as it was or what
\* is in peers.json, the tunnel as it was, down, or what is in the config; and
\* only add-peer acknowledges a key, with all three up to date.
LEMMA ServerStep ==
  ASSUME [Next]_vars
  PROVE  /\ careful' = careful
         /\ store' = store \/ \E r \in replies : store' = Add(store, r)
         /\ conf' = conf \/ conf' = store'
         /\ serving' = serving \/ serving' = Off \/ serving' = Up(conf')
         /\ \/ acked' = acked
            \/ \E r \in replies :
                 /\ acked' = acked \cup {r.key}
                 /\ store' = Add(store, r) /\ conf' = store' /\ serving' = Up(conf')
<1>1. CASE Install
  BY <1>1 DEF Install
<1>2. CASE InstallFails
  BY <1>2 DEF InstallFails
<1>3. CASE Outage \/ Restart
  BY <1>3 DEF Outage, Restart
<1>4. ASSUME NEW r \in replies, AddPeer(r)
      PROVE  /\ careful' = careful /\ store' = Add(store, r) /\ conf' = store'
             /\ serving' = Up(conf') /\ acked' = acked \cup {r.key}
  BY <1>4 DEF AddPeer
<1>5. ASSUME NEW r \in replies, AddPeerFails(r)
      PROVE  /\ careful' = careful /\ store' = Add(store, r) /\ acked' = acked
             /\ conf' = conf \/ conf' = store'
             /\ serving' = serving \/ serving' = Off
  BY <1>5 DEF AddPeerFails
<1>6. ASSUME \/ \E r \in replies : Lose(r)
             \/ \E c \in Clients :
                  \/ \E a \in tokens : Enroll(c, a)
                  \/ TunnelUp(c) \/ Report(c) \/ InstallClientFails(c) \/ Reboot(c)
             \/ UNCHANGED vars
      PROVE  UNCHANGED <<careful, store, conf, serving, acked>>
  BY <1>6 DEF Lose, Enroll, TunnelUp, Report, InstallClientFails, Reboot, vars, server
<1>7. QED
  BY <1>1, <1>2, <1>3, <1>4, <1>5, <1>6 DEF Next

\* So the lists stay lists of peers, behind one another and without repetition,
\* and what was acknowledged stays on them.
LEMMA ListsKept ==
  ASSUME IInv, [Next]_vars
  PROVE  /\ \A peers \in Lists' : peers \in Seq(Peers)
         /\ serving'.up \in BOOLEAN
         /\ Range(store) \subseteq Range(store')
         /\ Range(store') \subseteq Range(store) \cup replies
         /\ Lagging' /\ AckedEverywhere' /\ NoneTwice'
<1> USE DEF Lists
<1>0. /\ store \in Seq(Peers) /\ conf \in Seq(Peers) /\ serving.peers \in Seq(Peers)
      /\ serving.up \in BOOLEAN /\ replies \subseteq Peers
  BY DEF IInv, TypeOK
<1>1. /\ store' = store \/ \E r \in replies : store' = Add(store, r)
      /\ conf' = conf \/ conf' = store'
      /\ serving' = serving \/ serving' = Off \/ serving' = Up(conf')
      /\ careful' = careful
  BY ServerStep
<1>2. /\ store' \in Seq(Peers)
      /\ Range(store) \subseteq Range(store')
      /\ Range(store') \subseteq Range(store) \cup replies
  <2>1. CASE store' = store
    BY <2>1, <1>0
  <2>2. CASE \E r \in replies : store' = Add(store, r)
    <3>1. PICK r \in replies : store' = Add(store, r)
      BY <2>2
    <3>2. r \in Peers
      BY <1>0
    <3>3. /\ Add(store, r) \in Seq(Peers)
          /\ Range(store) \subseteq Range(Add(store, r))
          /\ Range(Add(store, r)) \subseteq Range(store) \cup {r}
      BY <1>0, <3>2, AddFacts, Zenon
    <3>4. QED
      BY <3>1, <3>3
  <2>3. QED
    BY <1>1, <2>1, <2>2
<1>3. /\ serving'.peers \in {serving.peers, <<>>, conf'}
      /\ serving'.up \in BOOLEAN
      /\ serving'.up => serving' = serving \/ serving'.peers = conf'
  <2>1. CASE serving' = serving
    BY <2>1, <1>0
  <2>2. CASE serving' = Off
    BY <2>2 DEF Off
  <2>3. CASE serving' = Up(conf')
    BY <2>3 DEF Up
  <2>4. QED
    BY <1>1, <2>1, <2>2, <2>3
<1>4. <<>> \in Seq(Peers) /\ Range(<<>>) = {} /\ DOMAIN <<>> = {}
  BY DEF Range
<1>5. \A peers \in Lists' : peers \in Seq(Peers)
  BY <1>0, <1>1, <1>2, <1>3, <1>4
<1>6. Lagging'
  <2>1. Range(conf) \subseteq Range(conf') /\ Range(conf') \subseteq Range(store')
    BY <1>1, <1>2 DEF IInv, Lagging
  <2>2. Range(serving'.peers) \subseteq Range(conf')
    BY <1>3, <1>4, <2>1 DEF IInv, Lagging
  <2>3. QED
    BY <2>1, <2>2 DEF Lagging
<1>7. NoneTwice'
  <2>1. DistinctKeys(store') /\ (careful => DistinctAddrs(store'))
    <3>1. CASE store' = store
      BY <3>1 DEF IInv, NoneTwice
    <3>2. ASSUME NEW r \in replies, store' = Add(store, r)
          PROVE  DistinctKeys(store') /\ (careful => DistinctAddrs(store'))
      <4>1. DistinctKeys(store) /\ (careful => DistinctAddrs(store))
        BY DEF IInv, NoneTwice
      <4>2. careful => \A i \in DOMAIN store : store[i].addr = r.addr => store[i] = r
        BY DEF IInv, NotYetTaken
      <4>3. QED
        BY <3>2, <4>1, <4>2, <1>0, AddFacts
    <3>3. QED
      BY <1>1, <3>1, <3>2
  <2>2. DistinctKeys(<<>>) /\ DistinctAddrs(<<>>)
    BY <1>4 DEF DistinctKeys, DistinctAddrs
  <2>3. \A peers \in Lists : DistinctKeys(peers) /\ (careful => DistinctAddrs(peers))
    BY DEF IInv, NoneTwice
  <2>4. \A peers \in Lists' : peers \in Lists \cup {store', <<>>}
    BY <1>1, <1>3
  <2> HIDE DEF Lists
  <2>5. QED
    BY <1>1, <2>1, <2>2, <2>3, <2>4 DEF NoneTwice
<1>8. AckedEverywhere'
  <2>1. CASE acked' = acked
    <3>1. Range(conf) \subseteq Range(conf')
      BY <1>1, <1>2 DEF IInv, Lagging
    <3>2. Registered(conf', acked)
      BY <3>1, RegisteredGrows DEF IInv, AckedEverywhere
    <3>3. serving'.up => Registered(serving'.peers, acked)
      BY <3>2, <1>3 DEF IInv, AckedEverywhere
    <3>4. QED
      BY <2>1, <3>2, <3>3 DEF AckedEverywhere
  <2>2. ASSUME NEW r \in replies,
               /\ acked' = acked \cup {r.key}
               /\ store' = Add(store, r) /\ conf' = store' /\ serving' = Up(conf')
        PROVE  AckedEverywhere'
    <3>1. Registered(store', acked)
      <4>1. Range(conf) \subseteq Range(store')
        BY <1>2 DEF IInv, Lagging
      <4>2. QED
        BY <4>1, RegisteredGrows DEF IInv, AckedEverywhere
    <3>2. \E i \in DOMAIN store' : store'[i].key = r.key
      BY <2>2, <1>0, AddFacts
    <3>3. Registered(store', acked')
      BY <2>2, <3>1, <3>2 DEF Registered
    <3>4. QED
      BY <2>2, <3>3 DEF AckedEverywhere, Up
  <2>3. QED
    BY <2>1, <2>2, ServerStep
<1>9. QED
  BY <1>2, <1>3, <1>5, <1>6, <1>7, <1>8

-----------------------------------------------------------------------------
(* What a step may do to the papers and to the clients.                    *)

\* Everything stays of its type.
LEMMA TypeKept ==
  ASSUME IInv, [Next]_vars
  PROVE  TypeOK'
<1> USE EnrollmentAssumption
<1>0. TypeOK
  BY DEF IInv
<1>1. /\ store' \in Seq(Peers) /\ conf' \in Seq(Peers)
      /\ serving'.up \in BOOLEAN /\ serving'.peers \in Seq(Peers)
      /\ careful' \in BOOLEAN
  BY <1>0, ListsKept, ServerStep DEF Lists, TypeOK
<1> DEFINE Rest ==
      /\ tokens' \subseteq Hosts \ {Server} /\ replies' \subseteq Peers
      /\ phase' \in [Clients -> Phases]
      /\ cconf' \in [Clients -> Peers \cup {NoPeer}]
      /\ running' \in [Clients -> Peers \cup {NoPeer}]
      /\ made' \in 0..MaxKeys /\ acked' \subseteq 1..MaxKeys /\ faults' \in 0..MaxFaults
<1>2. ASSUME Fault PROVE faults' \in 0..MaxFaults
  BY <1>0, <1>2 DEF Fault, TypeOK
<1>3. CASE Install
  <2>1. NextClientAddress \in Hosts \ {Server}
    BY <1>3, FreeHasLeast DEF Install, Free
  <2>2. tokens' \subseteq Hosts \ {Server}
    BY <1>0, <1>3, <2>1 DEF Install, Mint, TypeOK
  <2>3. Rest
    BY <1>0, <1>3, <2>2 DEF Install, TypeOK, client
  <2>4. QED BY <1>1, <2>3 DEF TypeOK
<1>4. CASE InstallFails
  <2>1. Rest
    BY <1>0, <1>2, <1>4 DEF InstallFails, TypeOK, client, papers
  <2>2. QED BY <1>1, <2>1 DEF TypeOK
<1>5. CASE Outage \/ Restart
  <2>1. Rest
    BY <1>0, <1>2, <1>5 DEF Outage, Restart, TypeOK, client, papers
  <2>2. QED BY <1>1, <2>1 DEF TypeOK
<1>6. ASSUME NEW r \in replies, AddPeer(r) \/ AddPeerFails(r) \/ Lose(r) PROVE TypeOK'
  <2>1. r.key \in 1..MaxKeys
    BY <1>0 DEF TypeOK, Peers
  <2>2. acked' \subseteq 1..MaxKeys
    BY <1>0, <1>6, <2>1 DEF AddPeer, AddPeerFails, Lose, TypeOK, server
  <2>3. Rest
    BY <1>0, <1>2, <1>6, <2>2 DEF AddPeer, AddPeerFails, Lose, TypeOK, client, papers, server
  <2>4. QED BY <1>1, <2>3 DEF TypeOK
<1>7. ASSUME NEW c \in Clients, NEW a \in tokens, Enroll(c, a) PROVE TypeOK'
  <2>1. made' \in 1..MaxKeys
    BY <1>0, <1>7 DEF Enroll, TypeOK
  <2>2. [key |-> made', addr |-> a] \in Peers
    BY <1>0, <2>1 DEF Peers, TypeOK
  <2>3. Rest
    BY <1>0, <1>7, <2>1, <2>2 DEF Enroll, TypeOK, Phases, server
  <2>4. QED BY <1>1, <2>3 DEF TypeOK
<1>8. ASSUME NEW c \in Clients, TunnelUp(c) PROVE TypeOK'
  <2>1. Rest
    BY <1>0, <1>8 DEF TunnelUp, TypeOK, Phases, server, papers
  <2>2. QED BY <1>1, <2>1 DEF TypeOK
<1>9. ASSUME NEW c \in Clients, Report(c) PROVE TypeOK'
  <2>1. cconf[c] \in Peers
    BY <1>0, <1>9 DEF Report, TypeOK, IInv, Enrolling
  <2>2. Rest
    BY <1>0, <1>9, <2>1 DEF Report, TypeOK, Phases, server
  <2>3. QED BY <1>1, <2>2 DEF TypeOK
<1>10. ASSUME NEW c \in Clients, InstallClientFails(c) \/ Reboot(c) PROVE TypeOK'
  <2>1. Rest
    BY <1>0, <1>2, <1>10 DEF InstallClientFails, Reboot, TypeOK, Phases, server, papers
  <2>2. QED BY <1>1, <2>1 DEF TypeOK
<1>11. CASE UNCHANGED vars
  <2>1. Rest
    BY <1>0, <1>11 DEF vars, server, papers, client, TypeOK
  <2>2. QED BY <1>1, <2>1 DEF TypeOK
<1>12. QED
  BY <1>3, <1>4, <1>5, <1>6, <1>7, <1>8, <1>9, <1>10, <1>11 DEF Next

\* No step writes down a key with anything but what it was made with: only a
\* client's enroll step makes one, and that is new.
LEMMA KnownStep ==
  ASSUME IInv, [Next]_vars
  PROVE  \/ Known' \subseteq Known /\ made' = made
         \/ /\ made' = made + 1
            /\ \E a \in tokens : Known' \subseteq Known \cup {[key |-> made', addr |-> a]}
<1>0. /\ phase \in [Clients -> Phases]
      /\ cconf \in [Clients -> Peers \cup {NoPeer}]
      /\ running \in [Clients -> Peers \cup {NoPeer}]
  BY DEF IInv, TypeOK
<1>1. Range(store') \subseteq Known
  BY ListsKept DEF Known
<1> DEFINE Same == /\ replies' \subseteq Known
                   /\ Range(cconf') \subseteq Known
                   /\ Range(running') \subseteq Known
                   /\ made' = made
<1>2. \A c \in Clients : cconf[c] \in Known /\ running[c] \in Known
  BY <1>0 DEF Known, Range
<1>3. /\ replies \subseteq Known /\ NoPeer \in Known
      /\ Range(cconf) \subseteq Known /\ Range(running) \subseteq Known
  BY DEF Known
<1>4. Same => Known' \subseteq Known /\ made' = made
  BY <1>1, <1>3 DEF Known
<1>5. CASE Install \/ InstallFails \/ Outage \/ Restart
  <2>1. Same
    BY <1>5, <1>3 DEF Install, InstallFails, Outage, Restart, papers, client
  <2>2. QED BY <1>4, <2>1
<1>6. ASSUME NEW r \in replies, AddPeer(r) \/ AddPeerFails(r) \/ Lose(r) PROVE Same
  BY <1>6, <1>3 DEF AddPeer, AddPeerFails, Lose, papers, client
<1>7. ASSUME NEW c \in Clients, NEW a \in tokens, Enroll(c, a)
      PROVE  made' = made + 1 /\ Known' \subseteq Known \cup {[key |-> made', addr |-> a]}
  <2>1. /\ cconf' = [cconf EXCEPT ![c] = [key |-> made', addr |-> a]]
        /\ made' = made + 1 /\ replies' = replies /\ running' = running
    BY <1>7 DEF Enroll
  <2>2. \A d \in DOMAIN cconf' :
          cconf'[d] \in Range(cconf) \cup {[key |-> made', addr |-> a]}
    BY <1>0, <2>1 DEF Range
  <2>3. Range(cconf') \subseteq Known \cup {[key |-> made', addr |-> a]}
    BY <2>2, <1>3 DEF Range
  <2>4. QED
    BY <2>1, <2>3, <1>1, <1>3 DEF Known
<1>8. ASSUME NEW c \in Clients, TunnelUp(c) \/ Report(c) \/ InstallClientFails(c) \/ Reboot(c)
      PROVE  Same
  <2>1. cconf' = cconf /\ made' = made
    BY <1>8 DEF TunnelUp, Report, InstallClientFails, Reboot
  <2>2. replies' \subseteq replies \cup {cconf[c]}
    BY <1>8 DEF TunnelUp, Report, InstallClientFails, Reboot, papers
  <2>3. \/ running' = running
        \/ \E p \in {NoPeer, cconf[c]} : running' = [running EXCEPT ![c] = p]
    BY <1>8 DEF TunnelUp, Report, InstallClientFails, Reboot
  <2>4. \A d \in DOMAIN running' : running'[d] \in Known
    BY <1>0, <1>2, <1>3, <2>3
  <2>5. Range(running') \subseteq Known
    BY <2>4 DEF Range
  <2>6. QED
    BY <1>2, <1>3, <2>1, <2>2, <2>5
<1>9. CASE UNCHANGED vars
  <2>1. Same
    BY <1>9, <1>3 DEF vars, papers, client
  <2>2. QED BY <1>4, <2>1
<1>10. QED
  BY <1>4, <1>5, <1>6, <1>7, <1>8, <1>9 DEF Next

\* Keys are never made twice, so each names one peer.
LEMMA KeyFixesPeerKept ==
  ASSUME IInv, [Next]_vars
  PROVE  KeyFixesPeer'
<1>0. made \in Nat
  BY EnrollmentAssumption DEF IInv, TypeOK
<1>1. /\ \A p, q \in Known : p.key = q.key => p = q
      /\ \A p \in Known : p.key <= made
  BY DEF IInv, KeyFixesPeer
<1>2. CASE Known' \subseteq Known /\ made' = made
  BY <1>1, <1>2 DEF KeyFixesPeer
<1>3. ASSUME NEW a \in tokens, made' = made + 1,
             Known' \subseteq Known \cup {[key |-> made', addr |-> a]}
      PROVE  KeyFixesPeer'
  <2> DEFINE new == [key |-> made', addr |-> a]
  <2>1. new.key = made + 1
    BY <1>3
  <2>2. \A p \in Known' : p \in Known \/ p = new
    BY <1>3
  <2>3. \A p \in Known : p.key \in Int
    <3>1. \A p \in Known : p \in Peers \cup {NoPeer}
      BY DEF IInv, TypeOK, Known, Range
    <3>2. QED
      BY <3>1 DEF Peers, NoPeer
  <2> HIDE DEF new
  <2>4. \A p, q \in Known' : p.key = q.key => p = q
    BY <1>0, <1>1, <2>1, <2>2, <2>3
  <2>5. \A p \in Known' : p.key <= made'
    BY <1>0, <1>1, <1>3, <2>1, <2>2, <2>3
  <2>6. QED
    BY <2>4, <2>5 DEF KeyFixesPeer
<1>4. QED
  BY <1>2, <1>3, KnownStep

\* Only an enroll step starts an install, and it writes the config.
LEMMA EnrollingKept ==
  ASSUME IInv, [Next]_vars
  PROVE  Enrolling'
<1>0. /\ phase \in [Clients -> Phases] /\ made \in Nat
      /\ cconf \in [Clients -> Peers \cup {NoPeer}]
      /\ \A c \in Clients : phase[c] # "idle" => cconf[c] # NoPeer
  BY EnrollmentAssumption DEF IInv, TypeOK, Enrolling
<1>1. ASSUME NEW c \in Clients, NEW a \in tokens, Enroll(c, a) PROVE Enrolling'
  <2>1. [key |-> made', addr |-> a] # NoPeer
    BY <1>0, <1>1 DEF Enroll, NoPeer
  <2>2. QED
    BY <1>0, <1>1, <2>1 DEF Enroll, Enrolling
<1>2. ASSUME NEW c \in Clients, TunnelUp(c) \/ Report(c) \/ InstallClientFails(c) \/ Reboot(c)
      PROVE  Enrolling'
  BY <1>0, <1>2 DEF TunnelUp, Report, InstallClientFails, Reboot, Enrolling, papers
<1>3. CASE \/ Install \/ InstallFails \/ Outage \/ Restart
           \/ \E r \in replies : AddPeer(r) \/ AddPeerFails(r) \/ Lose(r)
           \/ UNCHANGED vars
  BY <1>0, <1>3 DEF Install, InstallFails, Outage, Restart, AddPeer, AddPeerFails, Lose,
                    Enrolling, client, vars
<1>4. QED
  BY <1>1, <1>2, <1>3 DEF Next

\* The addresses a careful operator has on their way: a token is minted when
\* there is none, becomes one client's config, then its reply, or is lost.
LEMMA OneAtATimeKept ==
  ASSUME IInv, [Next]_vars, careful
  PROVE  OneAtATime'
<1> USE DEF OneAtATime
<1>0. OneAtATime /\ phase \in [Clients -> Phases]
  BY DEF IInv, TypeOK
<1>1. CASE Install
  BY <1>0, <1>1 DEF Install, Mint, client
<1>2. CASE InstallFails \/ Outage \/ Restart \/ UNCHANGED vars
  BY <1>0, <1>2 DEF InstallFails, Outage, Restart, vars, papers, client
<1>3. ASSUME NEW r \in replies, AddPeer(r) \/ AddPeerFails(r) \/ Lose(r)
      PROVE  OneAtATime'
  BY <1>0, <1>3 DEF AddPeer, AddPeerFails, Lose, papers, client
<1>4. ASSUME NEW c \in Clients, NEW a \in tokens, Enroll(c, a) PROVE OneAtATime'
  BY <1>0, <1>4 DEF Enroll
<1>5. ASSUME NEW c \in Clients, TunnelUp(c) PROVE OneAtATime'
  BY <1>0, <1>5 DEF TunnelUp, papers
<1>6. ASSUME NEW c \in Clients, Report(c) PROVE OneAtATime'
  <2>1. phase[c] # "idle" /\ tokens = {} /\ replies = {}
    BY <1>0, <1>6 DEF Report
  <2>2. replies' = {cconf[c]} /\ tokens' = {} /\ \A d \in Clients : phase'[d] = "idle"
    BY <1>0, <1>6, <2>1 DEF Report
  <2>3. QED
    BY <2>2
<1>7. ASSUME NEW c \in Clients, InstallClientFails(c) \/ Reboot(c) PROVE OneAtATime'
  BY <1>0, <1>7 DEF InstallClientFails, Reboot, papers
<1>8. QED
  BY <1>1, <1>2, <1>3, <1>4, <1>5, <1>6, <1>7 DEF Next

\* ... and no step registers another peer at such an address: the only reply
\* there can be is the one that carries it.
LEMMA NotYetTakenKept ==
  ASSUME IInv, [Next]_vars, careful
  PROVE  NotYetTaken'
<1> USE DEF NotYetTaken
<1>0. /\ NotYetTaken /\ OneAtATime /\ phase \in [Clients -> Phases]
      /\ cconf \in [Clients -> Peers \cup {NoPeer}]
  BY DEF IInv, TypeOK
<1>1. CASE Install
  <2>1. NextClientAddress \in Free
    BY <1>1, FreeHasLeast DEF Install
  <2>2. \A i \in DOMAIN store : store[i].addr # NextClientAddress
    BY <2>1 DEF Free
  <2>3. QED
    BY <1>0, <1>1, <2>2 DEF Install, Mint, client
<1>2. CASE InstallFails \/ Outage \/ Restart \/ UNCHANGED vars
  <2>1. UNCHANGED <<store, tokens, replies, phase, cconf>>
    BY <1>2 DEF InstallFails, Outage, Restart, vars, papers, client, server
  <2>2. QED
    BY <1>0, <2>1
<1>3. ASSUME NEW r \in replies, AddPeer(r) \/ AddPeerFails(r) PROVE NotYetTaken'
  <2>1. /\ store' = Add(store, r) /\ tokens' = tokens /\ phase' = phase
        /\ cconf' = cconf /\ replies' \subseteq replies
    BY <1>3 DEF AddPeer, AddPeerFails, papers, client
  <2>2. /\ tokens = {} /\ \A c \in Clients : phase[c] = "idle"
        /\ \A s \in replies : s = r
    BY <1>0 DEF OneAtATime
  <2>3. Range(store') \subseteq Range(store) \cup {r}
    BY <2>1, AddFacts DEF IInv, TypeOK
  <2>4. ASSUME NEW i \in DOMAIN store', store'[i].addr = r.addr PROVE store'[i] = r
    <3>1. store'[i] \in Range(store) \cup {r}
      BY <2>3 DEF Range
    <3>2. \A p \in Range(store) : p.addr = r.addr => p = r
      BY <1>0 DEF Range
    <3>3. QED
      BY <2>4, <3>1, <3>2
  <2>5. QED
    BY <2>1, <2>2, <2>4
<1>4. ASSUME NEW r \in replies, Lose(r) PROVE NotYetTaken'
  BY <1>0, <1>4 DEF Lose, client, server
<1>5. ASSUME NEW c \in Clients, NEW a \in tokens, Enroll(c, a) PROVE NotYetTaken'
  <2>1. /\ store' = store /\ replies' = replies /\ tokens' \subseteq tokens
        /\ cconf' = [cconf EXCEPT ![c] = [key |-> made', addr |-> a]]
        /\ \A d \in Clients : d # c => phase'[d] = phase[d]
    BY <1>0, <1>5 DEF Enroll, server
  <2>2. /\ \A d \in Clients : d # c => cconf'[d] = cconf[d]
        /\ cconf'[c].addr = a
    BY <1>0, <2>1
  <2>3. QED
    BY <1>0, <2>1, <2>2
<1>6. ASSUME NEW c \in Clients, TunnelUp(c) PROVE NotYetTaken'
  BY <1>0, <1>6 DEF TunnelUp, papers, server
<1>7. ASSUME NEW c \in Clients, Report(c) PROVE NotYetTaken'
  <2>1. phase[c] # "idle" /\ replies = {}
    BY <1>0, <1>7 DEF Report, OneAtATime
  <2>2. /\ store' = store /\ tokens' = tokens /\ cconf' = cconf
        /\ replies' = {cconf[c]}
        /\ \A d \in Clients : phase'[d] # "idle" => phase[d] # "idle"
    BY <1>0, <1>7, <2>1 DEF Report, server
  <2>3. QED
    BY <1>0, <2>1, <2>2
<1>8. ASSUME NEW c \in Clients, InstallClientFails(c) \/ Reboot(c) PROVE NotYetTaken'
  BY <1>0, <1>8 DEF InstallClientFails, Reboot, papers, server
<1>9. QED
  BY <1>1, <1>2, <1>3, <1>4, <1>5, <1>6, <1>7, <1>8 DEF Next

-----------------------------------------------------------------------------
(* The theorems.                                                           *)

\* A machine room with no server, no token and no client satisfies IInv.
LEMMA InitIInv == Init => IInv
<1> SUFFICES ASSUME Init PROVE IInv
  OBVIOUS
<1> USE EnrollmentAssumption
<1>1. /\ store = <<>> /\ conf = <<>> /\ serving.peers = <<>> /\ ~serving.up
      /\ acked = {} /\ tokens = {} /\ replies = {} /\ made = 0
      /\ phase = [c \in Clients |-> "idle"]
      /\ cconf = [c \in Clients |-> NoPeer] /\ running = [c \in Clients |-> NoPeer]
  BY DEF Init, Off
<1>2. Range(<<>>) = {} /\ DOMAIN <<>> = {} /\ <<>> \in Seq(Peers)
  BY DEF Range
<1>3. TypeOK
  BY <1>1, <1>2 DEF Init, Off, TypeOK, Phases
<1>4. Lagging /\ AckedEverywhere
  BY <1>1, <1>2 DEF Lagging, AckedEverywhere, Registered
<1>5. NoneTwice
  BY <1>1, <1>2 DEF NoneTwice, Lists, DistinctKeys, DistinctAddrs
<1>6. KeyFixesPeer
  <2>1. \A p \in Known : p = NoPeer
    BY <1>1, <1>2 DEF Known, Range
  <2>2. NoPeer.key = 0
    BY DEF NoPeer
  <2>3. QED
    BY <1>1, <2>1, <2>2 DEF KeyFixesPeer
<1>7. Enrolling /\ OneAtATime /\ NotYetTaken
  BY <1>1, <1>2 DEF Enrolling, OneAtATime, NotYetTaken
<1>8. QED
  BY <1>3, <1>4, <1>5, <1>6, <1>7 DEF IInv

\* Nor does any step of the server, of a client or of the operator falsify it.
LEMMA NextKeepsIInv == IInv /\ [Next]_vars => IInv'
<1> SUFFICES ASSUME IInv, [Next]_vars PROVE IInv'
  OBVIOUS
<1>1. careful' = careful
  BY ServerStep
<1>2. (careful => OneAtATime /\ NotYetTaken)'
  BY <1>1, OneAtATimeKept, NotYetTakenKept
<1>3. QED
  BY <1>2, TypeKept, ListsKept, KeyFixesPeerKept, EnrollingKept DEF IInv

\* IInv holds of every reachable state.
THEOREM Inductive == Spec => []IInv
BY InitIInv, NextKeepsIInv, PTL DEF Spec

\* The model's variables keep the types of the code's values: in particular
\* every address minted, configured or registered is a client address of the
\* subnet, and a reply is only ever made of a config.
THEOREM TypeCorrect == Spec => []TypeOK
<1>1. IInv => TypeOK
  BY DEF IInv
<1>2. QED
  BY <1>1, Inductive, PTL

\* NextClientAddress never hands out an address that a client in peers.json has,
\* when the operator enrolls one client at a time.
THEOREM AddressesUnique == Spec => []AddressesUniqueIfCareful
<1>1. IInv => AddressesUniqueIfCareful
  BY DEF IInv, NoneTwice, Lists, DistinctAddrs, AddressesUniqueIfCareful
<1>2. QED
  BY <1>1, Inductive, PTL

\* What add-peer has acknowledged is served whenever the tunnel is up, for all
\* the failures, outages, restarts and re-installs in between.
THEOREM AckedServed == Spec => []AckedIsServed
<1>1. IInv => AckedIsServed
  BY DEF IInv, AckedEverywhere, Registered, AckedIsServed
<1>2. QED
  BY <1>1, Inductive, PTL

\* Under a careful operator, a client that runs an acknowledged key is routed to
\* whenever the server is up.
THEOREM AckedConnected == Spec => []AckedIsConnectedIfCareful
<1>1. IInv => AckedIsConnectedIfCareful
  <2> SUFFICES ASSUME IInv, careful, serving.up, NEW c \in Clients,
                      running[c] # NoPeer, running[c].key \in acked
               PROVE  Connected(c)
    BY DEF AckedIsConnectedIfCareful
  <2>1. PICK i \in DOMAIN serving.peers : serving.peers[i].key = running[c].key
    BY DEF IInv, AckedEverywhere, Registered
  <2>2. serving.peers[i] \in Known
    BY DEF IInv, Lagging, Known, Range
  <2>3. running[c] \in Known
    BY DEF IInv, TypeOK, Known, Range
  <2>4. serving.peers[i] = running[c]
    BY <2>1, <2>2, <2>3 DEF IInv, KeyFixesPeer
  <2>5. DistinctAddrs(serving.peers) /\ DOMAIN serving.peers \subseteq Int
    BY DEF IInv, TypeOK, NoneTwice, Lists
  <2>6. \A j \in DOMAIN serving.peers : j > i => serving.peers[j].addr # running[c].addr
    BY <2>4, <2>5 DEF DistinctAddrs
  <2>7. QED
    BY <2>4, <2>6 DEF Connected
<1>2. QED
  BY <1>1, Inductive, PTL

\* With any operator, no step of the server cuts a connected client off unless
\* the tunnel goes down or another peer is registered at the client's address.
THEOREM CutOffByOwnAddressOnly == Spec => OnlySameAddressCutsOff
<1> DEFINE Cut(c) ==
      Connected(c) /\ ~Connected(c)' =>
        \/ running'[c] # running[c]
        \/ ~serving'.up
        \/ \E i \in DOMAIN store' :
             store'[i].addr = running[c].addr /\ store'[i] # running[c]
<1>1. ASSUME IInv, IInv', [Next]_vars PROVE [\A c \in Clients : Cut(c)]_vars
  <2> SUFFICES ASSUME NEW c \in Clients,
                      Connected(c), running'[c] = running[c], serving'.up,
                      \A i \in DOMAIN store' :
                        store'[i].addr = running[c].addr => store'[i] = running[c]
               PROVE  Connected(c)'
    OBVIOUS
  <2>1. CASE serving' = serving
    BY <2>1 DEF Connected
  <2>2. CASE serving' # serving
    <3>1. serving' = Up(conf')
      BY <1>1, <2>2, ServerStep DEF Off
    <3>2. serving'.peers = conf'
      BY <3>1 DEF Up
    <3>3. running[c] \in Range(conf')
      <4>1. running[c] \in Range(conf)
        BY <1>1 DEF Connected, IInv, Lagging, Range
      <4>2. Range(conf) \subseteq Range(conf')
        BY <1>1, ServerStep, ListsKept DEF IInv, Lagging
      <4>3. QED
        BY <4>1, <4>2
    <3>4. PICK i \in DOMAIN conf' : conf'[i] = running[c]
      BY <3>3 DEF Range
    <3>5. \A j \in DOMAIN conf' : conf'[j].addr = running[c].addr => conf'[j] = running[c]
      BY <1>1 DEF IInv, Lagging, Range
    <3>6. DistinctKeys(conf') /\ DOMAIN conf' \subseteq Int
      BY <1>1 DEF IInv, TypeOK, NoneTwice, Lists
    <3>7. \A j \in DOMAIN conf' : j > i => conf'[j].addr # running[c].addr
      BY <3>4, <3>5, <3>6 DEF DistinctKeys
    <3>8. QED
      BY <3>2, <3>4, <3>7 DEF Connected
  <2>3. QED
    BY <2>1, <2>2
<1>2. QED
  BY <1>1, Inductive, PTL DEF Spec, OnlySameAddressCutsOff
=============================================================================
