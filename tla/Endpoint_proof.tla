--------------------------- MODULE Endpoint_proof ---------------------------
(***************************************************************************)
(* Proofs about Endpoint and the address arithmetic of Addresses, for      *)
(* addresses of any width, any defaults, any overrides of them and any     *)
(* number of installs.                                                     *)
(*                                                                         *)
(* NextClientAddress's scan is a recursive function, so a fixed point of   *)
(* its equation: that the one it has is the scan (ScanFinds) is shown by   *)
(* giving a fixed point outright and, for any other, taking the greatest   *)
(* address at which it differs.  NextIsLeastFree says what the scan finds. *)
(*                                                                         *)
(* IInv is the inductive invariant of the specification: that a token      *)
(* decodes into one endpoint the client can dial, and that a second        *)
(* install at the same settings keeps the endpoint, follow from it.        *)
(***************************************************************************)
EXTENDS Endpoint, FiniteSetTheorems, FunctionTheorems, WellFoundedInduction, TLAPS

-----------------------------------------------------------------------------
(* Addresses: what NextClientAddress's scan finds.                         *)

\* A power of two counts the subsets of an interval: so it is a positive number.
LEMMA Powers ==
  ASSUME NEW n \in Nat
  PROVE  2^n \in Nat \ {0}
<1>1. IsFiniteSet(1..n) /\ Cardinality(1..n) = n
  BY FS_Interval
<1>2. IsFiniteSet(SUBSET (1..n)) /\ Cardinality(SUBSET (1..n)) = 2^n
  BY <1>1, FS_SUBSET
<1>3. Cardinality(SUBSET (1..n)) \in Nat /\ Cardinality(SUBSET (1..n)) # 0
  <2>1. {} \in SUBSET (1..n)
    OBVIOUS
  <2>2. QED
    BY <1>2, <2>1, FS_CardinalityType, FS_EmptySet
<1>4. QED
  BY <1>2, <1>3

\* Rounding down to a multiple of s: the numbers that come down to the same one as
\* b are the s from there on.
LEMMA Rounding ==
  ASSUME NEW s \in Nat \ {0}, NEW a \in Nat, NEW b \in Nat
  PROVE  LET n == b - (b % s) IN
         n \in 0..b /\ (a - (a % s) = n <=> (n <= a /\ a < n + s))
<1> DEFINE q == a \div s
           k == b \div s
<1>1. /\ a = s * q + (a % s) /\ q \in Nat /\ a % s \in 0..(s - 1)
      /\ b = s * k + (b % s) /\ k \in Nat /\ b % s \in 0..(s - 1)
  OBVIOUS
<1> HIDE DEF q, k
<1>2. s * q \in Nat /\ s * k \in Nat
  BY <1>1
<1>3. ASSUME s * k <= a, a < s * k + s PROVE q = k
  <2>1. CASE q >= k + 1
    <3>1. s * q >= s * (k + 1) /\ s * (k + 1) = s * k + s
      BY <1>1, <2>1
    <3>2. QED
      BY <1>1, <1>2, <1>3, <3>1
  <2>2. CASE q + 1 <= k
    <3>1. s * (q + 1) <= s * k /\ s * (q + 1) = s * q + s
      BY <1>1, <2>2
    <3>2. QED
      BY <1>1, <1>2, <1>3, <3>1
  <2>3. QED
    BY <1>1, <2>1, <2>2
<1>4. QED
  BY <1>1, <1>2, <1>3

\* The addresses that a prefix contains are consecutive, from its network address on.
LEMMA Containing ==
  ASSUME NEW p \in Prefixes
  PROVE  LET n == Masked(p).addr IN
         /\ n \in Addrs
         /\ \A a \in Addrs : Contains(p, a) <=> (n <= a /\ a < n + Size(p))
         /\ ~Contains(p, NoAddr)
<1>1. /\ p.addr \in Addrs /\ Width - p.bits \in Nat
      /\ Masked(p).addr = p.addr - (p.addr % Size(p))
  BY WidthAssumption DEF Prefixes, Masked, Network
<1>2. Size(p) \in Nat \ {0} /\ 2^Width \in Nat \ {0}
  BY <1>1, Powers, WidthAssumption DEF Size
<1> HIDE DEF Size
<1>3. Addrs \subseteq Nat /\ NoAddr \notin Addrs
  BY <1>2 DEF Addrs, NoAddr
<1>4. Masked(p).addr \in Addrs
  <2>1. p.addr \in Nat /\ p.addr - (p.addr % Size(p)) \in 0..p.addr
    BY <1>1, <1>2, <1>3, Rounding
  <2>2. QED
    BY <1>1, <1>2, <2>1 DEF Addrs
<1>5. ASSUME NEW a \in Addrs
      PROVE  Contains(p, a) <=> (Masked(p).addr <= a /\ a < Masked(p).addr + Size(p))
  <2>1. Contains(p, a) <=> a - (a % Size(p)) = Masked(p).addr
    BY <1>1, <1>3 DEF Contains, Network
  <2>2. a \in Nat /\ p.addr \in Nat
    BY <1>1, <1>3
  <2> DEFINE n == p.addr - (p.addr % Size(p))
  <2>3. a - (a % Size(p)) = n <=> (n <= a /\ a < n + Size(p))
    BY <1>2, <2>2, Rounding
  <2>4. QED
    BY <1>1, <2>1, <2>3
<1>6. QED
  BY <1>4, <1>5 DEF Contains

\* A set of naturals that is not empty has a least element.
LEMMA LeastExists ==
  ASSUME NEW T, T \subseteq Nat, T # {}
  PROVE  \E x \in T : \A y \in T : x <= y
<1>1. PICK x \in T : \A y \in T : ~(<<y, x>> \in OpToRel(<, Nat))
  BY NatLessThanWellFounded, WFMin
<1>2. ASSUME NEW y \in T PROVE x <= y
  <2>1. x \in Nat /\ y \in Nat
    OBVIOUS
  <2>2. <<y, x>> \in Nat \X Nat /\ <<y, x>>[1] = y /\ <<y, x>>[2] = x
    BY <2>1
  <2>3. ~(y < x)
    BY <2>2, <1>1 DEF OpToRel
  <2>4. QED
    BY <2>1, <2>3
<1>3. QED
  BY <1>2

\* The addresses that a scan of p which has got to a has yet to find.
From(p, used, a) == {b \in Addrs : Contains(p, a) /\ Contains(p, b) /\ a <= b /\ b \notin used}

\* x is what a scan of T returns.
FirstOf(x, T) == IF T = {} THEN x = NoAddr ELSE x \in T /\ \A y \in T : x <= y

\* There is one first of a set of addresses, and no second.
LEMMA FirstExists ==
  ASSUME NEW T, T \subseteq Addrs
  PROVE  /\ \E x : FirstOf(x, T)
         /\ \A x, y : FirstOf(x, T) /\ FirstOf(y, T) => x = y
<1>1. Addrs \subseteq Nat
  BY WidthAssumption, Powers DEF Addrs
<1>2. \E x : FirstOf(x, T)
  BY <1>1, LeastExists DEF FirstOf
<1>3. ASSUME NEW x, NEW y, FirstOf(x, T), FirstOf(y, T) PROVE x = y
  <2>1. CASE T = {}
    BY <1>3, <2>1 DEF FirstOf
  <2>2. CASE T # {}
    <3>1. x \in Nat /\ y \in Nat /\ x <= y /\ y <= x
      BY <1>1, <1>3, <2>2 DEF FirstOf
    <3>2. QED
      BY <3>1
  <2>3. QED
    BY <2>1, <2>2
<1>4. QED
  BY <1>2, <1>3

\* A turn of the loop: what is first from a is found from what is first from a's
\* successor, which may be none.
LEMMA ScanTurn ==
  ASSUME NEW p \in Prefixes, NEW used, NEW a \in Addrs \cup {NoAddr}, NEW y,
         FirstOf(y, From(p, used, Successor(a)))
  PROVE  FirstOf(IF ~Contains(p, a) THEN NoAddr ELSE IF a \notin used THEN a ELSE y,
                 From(p, used, a))
<1>1. 2^Width \in Nat
  BY WidthAssumption, Powers
<1>2. Addrs \subseteq Nat /\ NoAddr \notin Addrs
  BY <1>1 DEF Addrs, NoAddr
<1>3. CASE ~Contains(p, a)
  BY <1>3 DEF From, FirstOf
<1>4. CASE Contains(p, a) /\ a \notin used
  <2>1. a \in Addrs
    BY <1>4, Containing
  <2>2. a \in From(p, used, a) /\ \A b \in From(p, used, a) : a <= b
    BY <1>2, <1>4, <2>1 DEF From
  <2>3. QED
    BY <1>4, <2>2 DEF FirstOf
<1>5. CASE Contains(p, a) /\ a \in used
  <2>1. a \in Addrs
    BY <1>5, Containing
  <2>2. CASE a + 1 \in Addrs
    <3>1. ASSUME NEW b \in Addrs
          PROVE  b \in From(p, used, a) <=> b \in From(p, used, Successor(a))
      <4>1. Successor(a) = a + 1 /\ a \in Nat /\ b \in Nat
        BY <1>2, <2>1, <2>2 DEF Successor
      <4>2. Contains(p, b) /\ a + 1 <= b => Contains(p, a + 1)
        <5> DEFINE n == Masked(p).addr
                   m == n + Size(p)
        <5>1. /\ n \in Nat /\ n <= a
              /\ Contains(p, a + 1) <=> (n <= a + 1 /\ a + 1 < m)
              /\ Contains(p, b) <=> (n <= b /\ b < m)
          BY <1>2, <1>5, <2>1, <2>2, Containing
        <5>2. m \in Int
          BY <5>1, Powers, WidthAssumption DEF Size, Prefixes
        <5> HIDE DEF n, m
        <5>3. QED
          BY <4>1, <5>1, <5>2
      <4>3. b # a => (a <= b <=> a + 1 <= b)
        BY <4>1
      <4>4. a + 1 <= b => a <= b
        BY <4>1
      <4>5. QED
        BY <1>5, <4>1, <4>2, <4>3, <4>4 DEF From
    <3>2. From(p, used, a) = From(p, used, Successor(a))
      BY <3>1 DEF From
    <3>3. QED
      BY <1>5, <3>2
  <2>3. CASE a + 1 \notin Addrs
    <3>1. Successor(a) = NoAddr /\ ~Contains(p, NoAddr)
      BY <2>3 DEF Successor, Contains
    <3>2. y = NoAddr
      BY <3>1 DEF From, FirstOf
    <3>3. \A b \in Addrs : a <= b => b = a
      BY <1>1, <2>1, <2>3 DEF Addrs
    <3>4. From(p, used, a) = {}
      BY <1>5, <3>3 DEF From
    <3>5. QED
      BY <1>5, <3>2, <3>4 DEF FirstOf
  <2>4. QED
    BY <2>2, <2>3
<1>6. QED
  BY <1>3, <1>4, <1>5

\* The loop as a function: the recursive definition of NextClientAddress, and what it
\* is defined to be a solution of.
Turn(p, used, f) ==
  [a \in Addrs \cup {NoAddr} |->
     IF ~Contains(p, a) THEN NoAddr ELSE IF a \notin used THEN a ELSE f[Successor(a)]]

\* The successor of an address is an address or none.
LEMMA SuccessorType ==
  \A a \in Addrs \cup {NoAddr} : Successor(a) \in Addrs \cup {NoAddr}
BY DEF Successor

\* The recursive definition has a solution, so that the loop ends wherever it starts.
LEMMA ScanExists ==
  ASSUME NEW p \in Prefixes, NEW used
  PROVE  \E f : f = Turn(p, used, f)
<1> DEFINE f == [a \in Addrs \cup {NoAddr} |-> CHOOSE x : FirstOf(x, From(p, used, a))]
<1>1. \A a \in Addrs \cup {NoAddr} : FirstOf(f[a], From(p, used, a))
  <2> TAKE a \in Addrs \cup {NoAddr}
  <2>1. \E x : FirstOf(x, From(p, used, a))
    BY FirstExists DEF From
  <2>2. QED
    BY <2>1
<1>2. ASSUME NEW a \in Addrs \cup {NoAddr} PROVE f[a] = Turn(p, used, f)[a]
  <2>1. FirstOf(f[Successor(a)], From(p, used, Successor(a)))
    BY <1>1, SuccessorType
  <2>2. FirstOf(Turn(p, used, f)[a], From(p, used, a))
    BY <2>1, ScanTurn DEF Turn
  <2>3. QED
    BY <1>1, <2>2, FirstExists DEF From
<1>3. f = Turn(p, used, f)
  BY <1>2 DEF Turn
<1>4. QED
  BY <1>3

\* Any solution finds what is first: a greatest address at which it did not would be
\* one that the loop does not leave.
LEMMA ScanFinds ==
  ASSUME NEW p \in Prefixes, NEW used, NEW f, f = Turn(p, used, f)
  PROVE  \A a \in Addrs \cup {NoAddr} : FirstOf(f[a], From(p, used, a))
<1>1. 2^Width \in Nat
  BY WidthAssumption, Powers
<1> DEFINE Amiss == {a \in Addrs : ~FirstOf(f[a], From(p, used, a))}
           top == 2^Width
           Left == {top - a : a \in Amiss}
<1>2. ASSUME NEW a \in Addrs \cup {NoAddr},
             FirstOf(f[Successor(a)], From(p, used, Successor(a)))
      PROVE  FirstOf(f[a], From(p, used, a))
  <2>1. f[a] = Turn(p, used, f)[a]
    OBVIOUS
  <2>2. QED
    BY <1>2, <2>1, ScanTurn DEF Turn
<1>3. FirstOf(f[NoAddr], From(p, used, NoAddr))
  <2>1. f[NoAddr] = Turn(p, used, f)[NoAddr]
    OBVIOUS
  <2>2. f[NoAddr] = NoAddr
    BY <2>1, Containing DEF Turn
  <2>3. QED
    BY <2>2, Containing DEF From, FirstOf
<1>4. ASSUME Amiss # {} PROVE FALSE
  <2>1. Left \subseteq Nat /\ Left # {}
    BY <1>1, <1>4 DEF Addrs
  <2>2. PICK k \in Left : \A l \in Left : k <= l
    BY <2>1, LeastExists
  <2>3. PICK a \in Amiss : k = top - a
    OBVIOUS
  <2>4. ~FirstOf(f[Successor(a)], From(p, used, Successor(a)))
    BY <1>2, <2>3
  <2>5. Successor(a) = a + 1 /\ a + 1 \in Amiss
    BY <1>3, <2>3, <2>4 DEF Successor
  <2>6. top - (a + 1) \in Left
    BY <2>5
  <2>7. top - a <= top - (a + 1)
    BY <2>2, <2>3, <2>6
  <2>8. QED
    BY <1>1, <2>3, <2>7 DEF Addrs
<1>5. QED
  BY <1>3, <1>4

\* NextClientAddress: "the lowest host address within subnet that is not already in
\* taken", for every subnet and every set of addresses; none, if all are taken.
THEOREM NextIsLeastFree ==
  ASSUME NEW p \in Prefixes, NEW used
  PROVE  FirstOf(NextClientAddress(p, used), HostsOf(p) \ used)
<1> DEFINE f == CHOOSE g : g = Turn(p, used, g)
           first == Successor(Masked(p).addr)
<1>1. f = Turn(p, used, f)
  BY ScanExists
<1>2. NextClientAddress(p, used) = f[first]
  <2>1. p # NoPrefix
    BY Powers, WidthAssumption DEF Prefixes, NoPrefix, NoAddr, Addrs
  <2>2. QED
    BY <2>1 DEF NextClientAddress, Turn
<1>3. FirstOf(f[first], From(p, used, first))
  BY <1>1, ScanFinds, Containing, SuccessorType
<1>4. From(p, used, first) = HostsOf(p) \ used
  <2> DEFINE n == Masked(p).addr
             m == n + Size(p)
  <2>1. /\ n \in Addrs /\ 2^Width \in Nat /\ m \in Int
        /\ \A b \in Addrs : Contains(p, b) <=> (n <= b /\ b < m)
        /\ ~Contains(p, NoAddr)
    <3>1. 2^Width \in Nat /\ Size(p) \in Nat
      BY Powers, WidthAssumption DEF Size, Prefixes
    <3>2. QED
      BY <3>1, Containing DEF Addrs
  <2>2. first = IF n + 1 \in Addrs THEN n + 1 ELSE NoAddr
    BY DEF Successor
  <2>3. From(p, used, first)
          = {b \in Addrs : Contains(p, first) /\ Contains(p, b) /\ first <= b} \ used
    BY DEF From
  <2>4. HostsOf(p) = {b \in Addrs : Contains(p, b)} \ {n}
    BY DEF HostsOf
  <2> HIDE DEF n, m, first
  <2>5. ASSUME NEW b \in Addrs, Contains(p, b)
        PROVE  (Contains(p, first) /\ first <= b) <=> b # n
    BY <2>1, <2>2, <2>5 DEF Addrs
  <2>6. QED
    BY <2>3, <2>4, <2>5
<1>5. QED
  BY <1>2, <1>3, <1>4

-----------------------------------------------------------------------------
(* The inductive invariant.                                                *)

\* Every config is written for its own directory.
ConfsAreTheirs == \A d \in Dirs : conf[d] # None => conf[d].dir = d

\* The store holds what the tunnel runs, and what its config says, and at most the
\* reply besides that an add-peer which failed has saved.
Lags(peers, all) == all = peers \/ (reply # None /\ all = Append(peers, reply))
Lagging ==
  tun # None =>
    /\ Lags(tun.peers, store[tun.dir])
    /\ conf[tun.dir] # None => Lags(conf[tun.dir].peers, store[tun.dir])

\* A careful operator has one enrolment on its way at a time.
OnePaper == token = None \/ reply = None

\* Its address is no peer's of the server it is for, until it is registered...
OfferFree ==
  token # None => \A p \in Range(store[token.key]) : p.addr # token.addr

\* ... and the client's config is what the reply was made with.
ReplyFree ==
  reply # None =>
    /\ wg # None /\ wg.id = reply.id /\ wg.addr = reply.addr
    /\ \A p \in Range(store[wg.key]) : p.addr = reply.addr => p = reply

IInv == TypeOK /\ ConfsAreTheirs /\ Lagging /\ OnePaper /\ OfferFree /\ ReplyFree

-----------------------------------------------------------------------------
(* The settings and the state's types.                                     *)

\* What settings that load hold: Validate asks that the server's address is there.
LEMMA LoadFacts ==
  ASSUME NEW o \in Overrides, Loads(o)
  PROVE  /\ Load(o).network.subnet \in Prefixes \cup {NoPrefix}
         /\ Load(o).network.server_address \in Addrs \cup {NoAddr}
         /\ Load(o).network.listen_address \in Addrs \cup {NoAddr, Blank}
         /\ Load(o).network.port \in Int /\ Load(o).network.listen_port \in Int
         /\ Load(o).installer.config_dir \in Dirs
<1>1. Load(o).network = IF "network" \in DOMAIN o THEN Over(o["network"], Defaults["network"])
                        ELSE Defaults["network"]
  BY DEF Load, resolveDefaults, Merge, Domains
<1>2. Load(o).network.server_address # Blank
  BY DEF Loads, Load, Validate
<1>3. Load(o).installer.config_dir \in Dirs
  BY DEF Dirs
<1>4. NetworkFields(Defaults["network"])
  BY ConfigAssumption
<1>5. "network" \in DOMAIN o => NetworkFields(o["network"])
  BY EndpointAssumption
<1>6. ASSUME NEW k \in {"subnet", "server_address", "listen_address", "port", "listen_port"}
      PROVE  \/ Load(o).network[k] = Defaults["network"][k] /\ k \in DOMAIN Defaults["network"]
             \/ /\ "network" \in DOMAIN o /\ k \in DOMAIN o["network"]
                /\ Load(o).network[k] = o["network"][k]
  BY <1>1, ConfigAssumption DEF Over
<1>7. QED
  BY <1>2, <1>3, <1>4, <1>5, <1>6 DEF NetworkFields

\* The same of a machine whose settings load.
LEMMA CfgFacts ==
  ASSUME TypeOK, NEW m \in Machines, Runs(m)
  PROVE  /\ Net(m).subnet \in Prefixes \cup {NoPrefix}
         /\ Net(m).server_address \in Addrs \cup {NoAddr}
         /\ Net(m).listen_address \in Addrs \cup {NoAddr, Blank}
         /\ Net(m).port \in Int /\ Net(m).listen_port \in Int
         /\ Cfg(m).installer.config_dir \in Dirs
BY LoadFacts DEF TypeOK, Runs, Net, Cfg

\* The range of a list that was appended to.
LEMMA AppendRange ==
  ASSUME NEW peers \in Seq(PeerRecs), NEW r \in PeerRecs
  PROVE  /\ Append(peers, r) \in Seq(PeerRecs)
         /\ Len(peers) \in Nat /\ DOMAIN peers = 1..Len(peers)
         /\ DOMAIN Append(peers, r) = 1..(Len(peers) + 1)
         /\ \A k \in 1..Len(peers) : Append(peers, r)[k] = peers[k]
         /\ Append(peers, r)[Len(peers) + 1] = r
         /\ Range(Append(peers, r)) = Range(peers) \cup {r}
<1> HIDE DEF PeerRecs
<1>1. /\ Append(peers, r) \in Seq(PeerRecs)
      /\ Len(peers) \in Nat /\ DOMAIN peers = 1..Len(peers)
      /\ DOMAIN Append(peers, r) = 1..(Len(peers) + 1)
      /\ \A k \in 1..Len(peers) : Append(peers, r)[k] = peers[k]
      /\ Append(peers, r)[Len(peers) + 1] = r
  OBVIOUS
<1>2. Range(Append(peers, r)) = Range(peers) \cup {r}
  BY <1>1 DEF Range
<1>3. QED
  BY <1>1, <1>2

\* PeerStore.Add keeps what is there and adds at most the one peer.
LEMMA AddFacts ==
  ASSUME NEW peers \in Seq(PeerRecs), NEW r \in PeerRecs
  PROVE  /\ Add(peers, r) \in Seq(PeerRecs)
         /\ Add(peers, r) = IF r \in Range(peers) THEN peers ELSE Append(peers, r)
         /\ Range(Add(peers, r)) = Range(peers) \cup {r}
BY AppendRange DEF Add

\* Only the reply passes for one, and only the token for one.
LEMMA PaperKinds ==
  ASSUME TypeOK
  PROVE  /\ \A p \in {token, reply} : ValidReply(p) => p = reply /\ reply # None /\ reply \in PeerRecs
         /\ ValidToken(token) => token # None /\ token \in Tokens
<1>1. DOMAIN None = {"none"}
  BY DEF None
<1>2. \A r \in PeerRecs : DOMAIN r = {"id", "addr"}
  BY DEF PeerRecs
<1>3. \A t \in Tokens : DOMAIN t = {"addr", "key", "server", "dial"}
  BY DEF Tokens
<1>4. QED
  BY <1>1, <1>2, <1>3 DEF TypeOK, ValidReply, ValidToken

\* The values of a function with a finite domain are finitely many.
LEMMA FiniteImage ==
  ASSUME NEW S, IsFiniteSet(S), NEW f
  PROVE  IsFiniteSet({f[x] : x \in S})
<1> DEFINE T == {f[x] : x \in S}
           g == [x \in S |-> f[x]]
<1>1. g \in Surjection(S, T)
  BY DEF Surjection
<1>2. QED
  BY <1>1, FS_Surjection

\* The elements of a sequence, and the keys of a tunnel's peers, are finitely many.
LEMMA FiniteRanges ==
  /\ \A s \in Seq(PeerRecs) : IsFiniteSet({p.id : p \in Range(s)})
  /\ \A t : t = None \/ t \in Tunnels => IsFiniteSet(PeerIds(t))
<1>1. ASSUME NEW s \in Seq(PeerRecs) PROVE IsFiniteSet({p.id : p \in Range(s)})
  <2>1. IsFiniteSet(1..Len(s)) /\ DOMAIN s = 1..Len(s)
    BY FS_Interval
  <2> DEFINE f == [i \in 1..Len(s) |-> s[i].id]
  <2>2. {p.id : p \in Range(s)} = {f[i] : i \in 1..Len(s)}
    BY <2>1 DEF Range
  <2>3. IsFiniteSet({f[i] : i \in 1..Len(s)})
    <3> HIDE DEF f
    <3>1. QED
      BY <2>1, FiniteImage
  <2>4. QED
    BY <2>2, <2>3
<1>2. QED
  BY <1>1, FS_EmptySet DEF PeerIds, Tunnels

\* There are finitely many keys, so one that nothing holds.
LEMMA FreshType ==
  ASSUME TypeOK
  PROVE  Fresh \in Nat
<1>1. IsFiniteSet(Dirs)
  <2>1. IsFiniteSet({p \in Overrides : Loads(p)})
    BY EndpointAssumption, FS_Subset
  <2> DEFINE f == [o \in Overrides |-> Load(o).installer.config_dir]
  <2>2. Dirs = {f[o] : o \in {p \in Overrides : Loads(p)}}
    BY DEF Dirs
  <2>3. IsFiniteSet({f[o] : o \in {p \in Overrides : Loads(p)}})
    <3> HIDE DEF f
    <3>1. QED
      BY <2>1, FiniteImage
  <2>4. QED
    BY <2>2, <2>3
<1>2. IsFiniteSet(Held)
  <2> DEFINE of == [d \in Dirs |-> PeerIds(conf[d]) \cup {p.id : p \in Range(store[d])}]
             all == {of[d] : d \in Dirs}
  <2>1. \A d \in Dirs : IsFiniteSet(of[d])
    BY FiniteRanges, FS_Union DEF TypeOK
  <2>2. IsFiniteSet(all)
    <3> HIDE DEF of
    <3>1. QED
      BY <1>1, FiniteImage
  <2>3. IsFiniteSet(UNION all)
    BY <2>1, <2>2, FS_UNION
  <2>4. IsFiniteSet(Ids(wg)) /\ IsFiniteSet(Ids(ctun)) /\ IsFiniteSet(Ids(reply))
    BY FS_EmptySet, FS_Singleton DEF Ids
  <2>5. IsFiniteSet(PeerIds(tun))
    BY FiniteRanges DEF TypeOK
  <2>6. Held = (((Ids(wg) \cup Ids(ctun)) \cup Ids(reply)) \cup PeerIds(tun)) \cup UNION all
    <3>1. all = {PeerIds(conf[d]) \cup {p.id : p \in Range(store[d])} : d \in Dirs}
      OBVIOUS
    <3> HIDE DEF all
    <3>2. QED
      BY <3>1 DEF Held
  <2> HIDE DEF all
  <2>7. QED
    BY <2>3, <2>4, <2>5, <2>6, FS_Union
<1>3. Cardinality(Held) \in Nat
  BY <1>2, FS_CardinalityType
<1> DEFINE m == Cardinality(Held) + 1
           free == {k \in 1..m : k \notin Held}
<1>4. free # {}
  <2>1. SUFFICES ASSUME 1..m \subseteq Held PROVE FALSE
    OBVIOUS
  <2>2. Cardinality(1..m) = m
    BY <1>3, FS_Interval
  <2>3. Cardinality(1..m) <= Cardinality(Held)
    BY <1>2, <2>1, FS_Subset
  <2>4. QED
    BY <1>3, <2>2, <2>3
<1>5. PICK k \in free : \A l \in free : k <= l
  <2>1. free \subseteq Nat
    BY <1>3
  <2> HIDE DEF free
  <2>2. QED
    BY <1>4, <2>1, LeastExists
<1>6. k \notin Held /\ \A l \in 1..(k - 1) : l \in Held
  BY <1>3, <1>5
<1>7. Fresh \in 1..m
  BY <1>5, <1>6 DEF Fresh
<1>8. QED
  BY <1>3, <1>7

-----------------------------------------------------------------------------
(* Every step keeps the invariant.                                         *)

\* Nothing is installed at first.
LEMMA InitIInv == Init => IInv
<1> SUFFICES ASSUME Init PROVE IInv
  OBVIOUS
<1>1. TypeOK
  <2>1. <<>> \in Overrides /\ 0 \in 0..MaxEdits /\ 0 \in 0..MaxOutages
    BY EndpointAssumption
  <2>2. QED
    BY <2>1 DEF Init, TypeOK
<1>2. QED
  BY <1>1 DEF Init, IInv, ConfsAreTheirs, Lagging, OnePaper, OfferFree, ReplyFree

\* What a command that renders the config writes and starts is a tunnel of the settings'
\* directory.
LEMMA RenderedType ==
  ASSUME TypeOK, Runs("server"), Renders, NEW peers \in Seq(PeerRecs)
  PROVE  /\ Dir \in Dirs
         /\ Rendered(Dir, peers) \in Tunnels
         /\ Rendered(Dir, peers).dir = Dir /\ Rendered(Dir, peers).peers = peers
         /\ Rendered(Dir, peers).addr = Net("server").server_address
         /\ Rendered(Dir, peers).listen = Net("server").listen_port
         /\ Rendered(Dir, peers) # None
<1>1. /\ Dir \in Dirs /\ Net("server").server_address \in Addrs
      /\ Net("server").listen_port \in Int
  BY CfgFacts DEF Machines, Dir, Renders, WithPrefixOK
<1>2. Rendered(Dir, peers) \in Tunnels
  BY <1>1 DEF Rendered, Tunnels
<1>3. DOMAIN Rendered(Dir, peers) # DOMAIN None
  BY DEF Rendered, None
<1>4. QED
  BY <1>1, <1>2, <1>3 DEF Rendered

\* Install's service and token have their types: the token's address is free.
LEMMA InstallTypes ==
  ASSUME TypeOK, Runs("server"), Renders
  PROVE  /\ \A t : Service(t) \in Services
         /\ NextAddress # NoAddr =>
              /\ Minted \in Tokens
              /\ Minted.addr = NextAddress /\ Minted.key = Dir
         /\ FirstOf(NextAddress, HostsOf(Net("server").subnet) \ Taken)
<1>1. /\ Net("server").subnet \in Prefixes /\ Net("server").server_address \in Addrs
      /\ Net("server").listen_address \in Addrs \cup {NoAddr, Blank}
      /\ Net("server").port \in Int /\ Net("server").listen_port \in Int /\ Dir \in Dirs
  BY CfgFacts DEF Renders, WithPrefixOK, Machines, Dir
<1>2. FirstOf(NextAddress, HostsOf(Net("server").subnet) \ Taken)
  BY <1>1, NextIsLeastFree DEF NextAddress
<1>3. NextAddress # NoAddr => NextAddress \in Addrs
  BY <1>2 DEF FirstOf, HostsOf
<1>4. ASSUME NEW t
      PROVE  Service(t) \in Services
  <2>1. Binds(t) \in BOOLEAN
    BY DEF Binds
  <2>2. QED
    BY <1>1, <2>1 DEF Service, Services
<1>5. QED
  BY <1>1, <1>2, <1>3, <1>4 DEF Minted, Tokens

\* install --role server keeps a tunnel that is up; one it raises runs the whole store.
LEMMA InstallServerKeeps ==
  ASSUME IInv, InstallServer \/ InstallServerFull \/ InstallServerFails
  PROVE  IInv'
<1> DEFINE new == Rendered(Dir, store[Dir])
<1>1. TypeOK /\ Runs("server") /\ Renders
  BY DEF IInv, InstallServer, InstallServerFull, InstallServerFails
<1>2. /\ Dir \in Dirs /\ store[Dir] \in Seq(PeerRecs)
      /\ new \in Tunnels /\ new.dir = Dir /\ new.peers = store[Dir] /\ new # None
  BY <1>1, CfgFacts, RenderedType DEF TypeOK, Machines, Dir
<1>3. /\ UNCHANGED <<over, store, reply, wg, ctun, code, edits>>
      /\ conf' = [conf EXCEPT ![Dir] = new]
      /\ tun' = tun \/ (tun = None /\ tun' = new)
      /\ \/ svc' = svc \/ svc' = Service(Raised)
         \/ svc' = None \/ svc' = [Service(Raised) EXCEPT !.up = FALSE]
      /\ open' = open \/ open' = {Net("server").listen_port}
      /\ token' = token \/ (reply = None /\ token' = Minted /\ NextAddress # NoAddr)
      /\ outages' = outages \/ Fault
  <2>1. CASE InstallServer
    BY <2>1 DEF InstallServer, client, Raised, Written
  <2>2. CASE InstallServerFull
    BY <2>2 DEF InstallServerFull, client, papers, Written
  <2>3. CASE InstallServerFails
    BY <2>3 DEF InstallServerFails, client, papers, Raised, Written
  <2>4. QED
    BY <2>1, <2>2, <2>3
<1> HIDE DEF new
<1>4. TypeOK'
  <2>1. conf' \in [Dirs -> Tunnels \cup {None}] /\ (tun' = None \/ tun' \in Tunnels)
    BY <1>1, <1>2, <1>3 DEF TypeOK
  <2>2. svc' = None \/ svc' \in Services
    <3>1. Service(Raised) \in Services
      BY <1>1, InstallTypes
    <3>2. [Service(Raised) EXCEPT !.up = FALSE] \in Services
      BY <3>1 DEF Services
    <3>3. QED
      BY <1>1, <1>3, <3>1, <3>2 DEF TypeOK
  <2>3. token' = None \/ token' \in Tokens
    BY <1>1, <1>3, InstallTypes DEF TypeOK
  <2>4. open' \subseteq Int
    BY <1>1, <1>3, CfgFacts DEF TypeOK, Machines
  <2>5. outages' \in 0..MaxOutages
    BY <1>1, <1>3, EndpointAssumption DEF TypeOK, Fault
  <2>6. QED
    BY <1>1, <1>3, <2>1, <2>2, <2>3, <2>4, <2>5 DEF TypeOK
<1>5. /\ \A d \in Dirs : conf'[d] = IF d = Dir THEN new ELSE conf[d]
      /\ tun # None => tun.dir \in Dirs
  BY <1>1, <1>2, <1>3 DEF TypeOK, Tunnels
<1>6. ConfsAreTheirs'
  BY <1>2, <1>3, <1>5 DEF IInv, ConfsAreTheirs
<1>7. Lagging'
  BY <1>2, <1>3, <1>5 DEF IInv, Lagging, Lags
<1>8. OnePaper'
  BY <1>3 DEF IInv, OnePaper
<1>9. OfferFree'
  <2>1. CASE token' = token
    BY <1>3, <2>1 DEF IInv, OfferFree
  <2>2. CASE token' = Minted /\ NextAddress # NoAddr
    <3>1. token'.key = Dir /\ token'.addr \notin Taken
      BY <1>1, <2>2, InstallTypes DEF FirstOf
    <3>2. QED
      BY <1>3, <3>1 DEF OfferFree, Taken
  <2>3. QED
    BY <1>3, <2>1, <2>2
<1>10. ReplyFree'
  BY <1>3 DEF IInv, ReplyFree
<1>11. QED
  BY <1>4, <1>6, <1>7, <1>8, <1>9, <1>10 DEF IInv

\* install --role client makes its config of the token, and its reply if it succeeds.
LEMMA InstallClientKeeps ==
  ASSUME IInv, InstallClient \/ InstallClientFails
  PROVE  IInv'
<1>1. /\ TypeOK /\ Runs("client") /\ reply = None
      /\ token # None /\ token \in Tokens
  BY PaperKinds DEF IInv, InstallClient, InstallClientFails
<1>2. Fresh \in Nat
  BY <1>1, FreshType
<1> HIDE DEF Fresh
<1>3. /\ UNCHANGED <<over, store, conf, tun, svc, open, edits>>
      /\ wg' = [id |-> Fresh, addr |-> token.addr, key |-> token.key,
                server |-> token.server, dial |-> token.dial]
      /\ ctun' = ctun \/ ctun' = wg'
      /\ code' = code \/ code' = EndpointURL
      /\ outages' = outages \/ Fault
      /\ \/ token' = None /\ reply' = [id |-> Fresh, addr |-> token.addr]
         \/ token' = token /\ reply' = None
  BY <1>1 DEF InstallClient, InstallClientFails, server, papers, Enrolled
<1>4. wg' \in Clientele /\ wg' # None
  <2>1. wg' \in Clientele
    BY <1>1, <1>2, <1>3 DEF Clientele, Tokens
  <2>2. DOMAIN wg' = {"id", "addr", "key", "server", "dial"}
    BY <1>3
  <2>3. QED
    BY <2>1, <2>2 DEF None
<1>5. reply' = None \/ reply' \in PeerRecs
  BY <1>1, <1>2, <1>3 DEF PeerRecs, Tokens
<1>6. EndpointURL \in [addr : Addrs \cup {NoAddr}, port : Int]
  BY <1>1, CfgFacts DEF EndpointURL, Machines
<1>7. outages' \in 0..MaxOutages
  BY <1>1, <1>3, EndpointAssumption DEF TypeOK, Fault
<1>8. TypeOK'
  BY <1>1, <1>3, <1>4, <1>5, <1>6, <1>7 DEF TypeOK
<1>9. ConfsAreTheirs' /\ Lagging'
  BY <1>1, <1>3 DEF IInv, ConfsAreTheirs, Lagging, Lags
<1>10. OnePaper' /\ OfferFree'
  BY <1>1, <1>3 DEF IInv, OnePaper, OfferFree
<1>11. ReplyFree'
  <2>1. CASE reply' = None
    BY <2>1 DEF ReplyFree
  <2>2. CASE reply' = [id |-> Fresh, addr |-> token.addr]
    <3>1. wg'.id = reply'.id /\ wg'.addr = reply'.addr /\ wg'.key = token.key
      BY <1>3, <2>2
    <3>2. \A p \in Range(store[token.key]) : p.addr # reply'.addr
      BY <1>1, <2>2 DEF IInv, OfferFree
    <3>3. QED
      BY <1>3, <1>4, <3>1, <3>2 DEF ReplyFree
  <2>3. QED
    BY <1>3, <2>1, <2>2
<1>12. QED
  BY <1>8, <1>9, <1>10, <1>11 DEF IInv

\* add-peer: the reply is saved, and with it what the tunnel does not run yet.
LEMMA AddPeerKeeps ==
  ASSUME IInv, NEW p \in {token, reply}, AddPeer(p) \/ AddPeerFails(p)
  PROVE  IInv'
<1> DEFINE all == Add(store[Dir], p)
           new == Rendered(Dir, all)
<1>1. /\ TypeOK /\ Runs("server") /\ p = reply /\ reply # None /\ reply \in PeerRecs
  BY PaperKinds DEF IInv, AddPeer, AddPeerFails
<1>2. Dir \in Dirs /\ store[Dir] \in Seq(PeerRecs)
  BY <1>1, CfgFacts DEF TypeOK, Machines, Dir
<1>3. /\ all \in Seq(PeerRecs) /\ Range(all) = Range(store[Dir]) \cup {reply}
      /\ all = IF reply \in Range(store[Dir]) THEN store[Dir] ELSE Append(store[Dir], reply)
  BY <1>1, <1>2, AddFacts
<1>4. Renders => new \in Tunnels /\ new.dir = Dir /\ new.peers = all /\ new # None
  BY <1>1, <1>3, RenderedType
<1>5. /\ UNCHANGED <<over, svc, open, token, wg, ctun, code, edits>>
      /\ store' = [store EXCEPT ![Dir] = all]
      /\ outages' = outages \/ Fault
  BY DEF AddPeer, AddPeerFails, client, papers
<1> HIDE DEF new
<1>6. \/ /\ Renders /\ conf' = [conf EXCEPT ![Dir] = new]
         /\ tun' = new /\ reply' = None
      \/ /\ \/ conf' = conf \/ conf' = [conf EXCEPT ![Dir] = None]
            \/ Renders /\ conf' = [conf EXCEPT ![Dir] = new]
         /\ tun' \in {None, tun} /\ reply' = reply
  <2>1. CASE AddPeer(p)
    <3>1. store'[Dir] = all
      BY <1>1, <1>2, <1>5 DEF TypeOK
    <3>2. conf' = [conf EXCEPT ![Dir] = new]
      BY <2>1, <3>1 DEF AddPeer, Written, new
    <3>3. conf'[Dir] = new
      BY <1>1, <1>2, <3>2 DEF TypeOK
    <3>4. QED
      BY <2>1, <3>2, <3>3 DEF AddPeer
  <2>2. CASE AddPeerFails(p)
    <3>1. store'[Dir] = all
      BY <1>1, <1>2, <1>5 DEF TypeOK
    <3>2. Written(store'[Dir]) = [conf EXCEPT ![Dir] = new]
      BY <3>1 DEF Written, new
    <3>3. QED
      BY <2>2, <3>2 DEF AddPeerFails, papers
  <2>3. QED
    BY <2>1, <2>2
<1> HIDE DEF all
<1>7. \A d \in Dirs : store'[d] = IF d = Dir THEN all ELSE store[d]
  BY <1>1, <1>2, <1>5 DEF TypeOK
<1>8. outages' \in 0..MaxOutages
  BY <1>1, <1>5, EndpointAssumption DEF TypeOK, Fault
<1>9. CASE Renders /\ conf' = [conf EXCEPT ![Dir] = new] /\ tun' = new /\ reply' = None
  <2>1. \A d \in Dirs : conf'[d] = IF d = Dir THEN new ELSE conf[d]
    BY <1>1, <1>2, <1>9 DEF TypeOK
  <2>2. tun' = new
    BY <1>9
  <2>3. TypeOK'
    BY <1>1, <1>2, <1>3, <1>4, <1>5, <1>8, <1>9 DEF TypeOK
  <2>4. ConfsAreTheirs'
    BY <1>2, <1>4, <1>9, <2>1 DEF IInv, ConfsAreTheirs
  <2>5. Lagging'
    BY <1>2, <1>4, <1>7, <1>9, <2>1, <2>2 DEF Lagging, Lags
  <2>6. token = None
    BY <1>1 DEF IInv, OnePaper
  <2>7. QED
    BY <1>5, <1>9, <2>3, <2>4, <2>5, <2>6 DEF IInv, OnePaper, OfferFree, ReplyFree
<1>10. CASE /\ \/ conf' = conf \/ conf' = [conf EXCEPT ![Dir] = None]
               \/ Renders /\ conf' = [conf EXCEPT ![Dir] = new]
            /\ tun' \in {None, tun} /\ reply' = reply
  <2>1. \A d \in Dirs :
          conf'[d] = conf[d] \/ conf'[d] = None \/ (d = Dir /\ Renders /\ conf'[d] = new)
    BY <1>1, <1>2, <1>10 DEF TypeOK
  <2>2. conf' \in [Dirs -> Tunnels \cup {None}]
    BY <1>1, <1>2, <1>4, <1>10 DEF TypeOK
  <2>3. TypeOK'
    BY <1>1, <1>2, <1>3, <1>5, <1>8, <1>10, <2>2 DEF TypeOK
  <2>4. ConfsAreTheirs'
    BY <1>4, <2>1 DEF IInv, ConfsAreTheirs
  <2>5. ASSUME NEW peers \in Seq(PeerRecs), Lags(peers, store[Dir])
        PROVE  all = peers \/ all = Append(peers, reply)
    <3>1. CASE store[Dir] = peers
      BY <1>3, <3>1
    <3>2. CASE store[Dir] = Append(peers, reply)
      <4>1. reply \in Range(Append(peers, reply))
        BY <1>1, AppendRange
      <4>2. QED
        BY <1>3, <3>2, <4>1
    <3>3. QED
      BY <2>5, <3>1, <3>2 DEF Lags
  <2>6. Lagging'
    <3>1. \A t : t \in Tunnels => t.peers \in Seq(PeerRecs) /\ t.dir \in Dirs
      BY DEF Tunnels
    <3>2. tun # None => /\ tun.peers \in Seq(PeerRecs) /\ tun.dir \in Dirs
                        /\ conf[tun.dir] # None => conf[tun.dir].peers \in Seq(PeerRecs)
      BY <1>1, <3>1 DEF TypeOK
    <3>3. ASSUME tun # None, NEW peers \in Seq(PeerRecs), Lags(peers, store[tun.dir])
          PROVE  store'[tun.dir] = peers \/ store'[tun.dir] = Append(peers, reply)
      BY <1>7, <2>5, <3>2, <3>3 DEF Lags
    <3>4. CASE tun' = None
      BY <3>4 DEF Lagging
    <3>5. CASE tun' = tun /\ tun # None
      <4>1. store'[tun.dir] = tun.peers \/ store'[tun.dir] = Append(tun.peers, reply)
        BY <1>1, <3>2, <3>3, <3>5 DEF IInv, Lagging
      <4>2. ASSUME conf'[tun.dir] # None
            PROVE  \/ store'[tun.dir] = conf'[tun.dir].peers
                   \/ store'[tun.dir] = Append(conf'[tun.dir].peers, reply)
        <5>1. CASE conf'[tun.dir] = conf[tun.dir]
          BY <1>1, <3>2, <3>3, <3>5, <4>2, <5>1 DEF IInv, Lagging
        <5>2. CASE tun.dir = Dir /\ Renders /\ conf'[tun.dir] = new
          BY <1>2, <1>4, <1>7, <5>2
        <5>3. QED
          BY <2>1, <3>2, <3>5, <4>2, <5>1, <5>2
      <4>3. QED
        BY <1>1, <1>10, <3>5, <4>1, <4>2 DEF Lagging, Lags
    <3>6. QED
      BY <1>10, <3>4, <3>5
  <2>7. token = None
    BY <1>1 DEF IInv, OnePaper
  <2>8. ReplyFree'
    <3>1. wg # None /\ wg.key \in Dirs
      BY <1>1 DEF IInv, ReplyFree, TypeOK, Clientele
    <3>2. Range(store'[wg.key]) \subseteq Range(store[wg.key]) \cup {reply}
      BY <1>3, <1>7, <3>1
    <3>3. QED
      BY <1>1, <1>5, <1>10, <3>1, <3>2 DEF IInv, ReplyFree
  <2>9. QED
    BY <1>5, <1>10, <2>3, <2>4, <2>6, <2>7, <2>8 DEF IInv, OnePaper, OfferFree
<1>11. QED
  BY <1>6, <1>9, <1>10

\* Edits, outages and lost papers: a reply is lost only while no store has it, and a
\* boot brings up what the tunnel's own config says.
LEMMA TheRestKeeps ==
  ASSUME IInv, \/ Lose \/ ClearService \/ Outage \/ Reboot \/ UNCHANGED vars
               \/ \E m \in Machines : Edit(m)
  PROVE  IInv'
<1>0. TypeOK /\ ConfsAreTheirs /\ Lagging /\ OnePaper /\ OfferFree /\ ReplyFree
  BY DEF IInv
<1>1. CASE UNCHANGED vars
  <2>1. UNCHANGED <<over, store, conf, tun, svc, open, token, reply, wg, ctun, code, edits, outages>>
    BY <1>1 DEF vars, server, papers, client
  <2>2. TypeOK'
    BY <1>0, <2>1 DEF TypeOK
  <2>3. QED
    BY <1>0, <2>1, <2>2 DEF IInv, ConfsAreTheirs, Lagging, Lags, OnePaper, OfferFree, ReplyFree
<1>2. CASE ClearService \/ \E m \in Machines : Edit(m)
  <2>1. /\ UNCHANGED <<store, conf, tun, open, token, reply, wg, ctun, code, outages>>
        /\ svc' \in {svc, None} /\ edits < MaxEdits /\ edits' = edits + 1
    BY <1>2 DEF ClearService, Edit, server, papers, client
  <2>2. over' \in [Machines -> Overrides]
    BY <1>0, <1>2 DEF ClearService, Edit, TypeOK
  <2>3. edits' \in 0..MaxEdits
    BY <1>0, <2>1, EndpointAssumption DEF TypeOK
  <2>4. TypeOK'
    BY <1>0, <2>1, <2>2, <2>3 DEF TypeOK
  <2>5. QED
    BY <1>0, <2>1, <2>4 DEF IInv, ConfsAreTheirs, Lagging, Lags, OnePaper, OfferFree, ReplyFree
<1>3. CASE Lose
  <2>1. /\ UNCHANGED <<over, store, conf, tun, svc, open, wg, ctun, code, edits>>
        /\ token' = None /\ reply' = None
        /\ \A d \in Dirs : reply \notin Range(store[d])
        /\ outages < MaxOutages /\ outages' = outages + 1
    BY <1>3 DEF Lose, Fault, server, client
  <2>2. outages' \in 0..MaxOutages
    BY <1>0, <2>1, EndpointAssumption DEF TypeOK
  <2>3. TypeOK'
    BY <1>0, <2>1, <2>2 DEF TypeOK
  <2>4. ASSUME NEW d \in Dirs, NEW peers \in Seq(PeerRecs), Lags(peers, store[d])
        PROVE  store[d] = peers
    <3>1. reply # None => reply \in Range(Append(peers, reply))
      BY <1>0, AppendRange DEF TypeOK
    <3>2. QED
      BY <2>1, <2>4, <3>1 DEF Lags
  <2>5. Lagging'
    <3>1. \A t : t \in Tunnels => t.peers \in Seq(PeerRecs) /\ t.dir \in Dirs
      BY DEF Tunnels
    <3>2. tun # None => /\ tun.peers \in Seq(PeerRecs) /\ tun.dir \in Dirs
                        /\ conf[tun.dir] # None => conf[tun.dir].peers \in Seq(PeerRecs)
      BY <1>0, <3>1 DEF TypeOK
    <3>3. QED
      BY <1>0, <2>1, <2>4, <3>2 DEF Lagging, Lags
  <2>6. QED
    BY <1>0, <2>1, <2>3, <2>5 DEF IInv, ConfsAreTheirs, OnePaper, OfferFree, ReplyFree
<1>4. CASE Outage
  <2>1. /\ UNCHANGED <<over, store, conf, svc, open, token, reply, wg, code, edits>>
        /\ tun' \in {tun, None} /\ ctun' \in {ctun, None}
        /\ outages < MaxOutages /\ outages' = outages + 1
    BY <1>4 DEF Outage, Fault, papers
  <2>2. outages' \in 0..MaxOutages
    BY <1>0, <2>1, EndpointAssumption DEF TypeOK
  <2>3. TypeOK'
    BY <1>0, <2>1, <2>2 DEF TypeOK
  <2>4. QED
    BY <1>0, <2>1, <2>3 DEF IInv, ConfsAreTheirs, Lagging, Lags, OnePaper, OfferFree, ReplyFree
<1>5. CASE Reboot
  <2>1. /\ UNCHANGED <<over, store, conf, open, token, reply, wg, ctun, code, edits>>
        /\ tun # None /\ tun' = conf[tun.dir]
        /\ svc' = IF svc = None THEN None
                  ELSE [svc EXCEPT !.up = tun' # None /\ svc.host = tun'.addr]
        /\ outages < MaxOutages /\ outages' = outages + 1
    BY <1>5 DEF Reboot, Fault, papers, client
  <2>2. outages' \in 0..MaxOutages
    BY <1>0, <2>1, EndpointAssumption DEF TypeOK
  <2>3. /\ tun.dir \in Dirs /\ (tun' = None \/ tun' \in Tunnels)
        /\ tun' # None => tun'.dir = tun.dir
    BY <1>0, <2>1 DEF TypeOK, Tunnels, ConfsAreTheirs
  <2>4. svc' = None \/ svc' \in Services
    <3>1. (tun' # None /\ svc.host = tun'.addr) \in BOOLEAN
      OBVIOUS
    <3>2. QED
      BY <1>0, <2>1, <3>1 DEF TypeOK, Services
  <2>5. TypeOK'
    BY <1>0, <2>1, <2>2, <2>3, <2>4 DEF TypeOK
  <2>6. QED
    BY <1>0, <2>1, <2>3, <2>5 DEF IInv, ConfsAreTheirs, Lagging, Lags, OnePaper, OfferFree, ReplyFree
<1>6. QED
  BY <1>1, <1>2, <1>3, <1>4, <1>5

\* No step falsifies it.
LEMMA NextKeepsIInv == IInv /\ [Next]_vars => IInv'
BY InstallServerKeeps, InstallClientKeeps, AddPeerKeeps, TheRestKeeps DEF Next, Commands

-----------------------------------------------------------------------------
(* The theorems.                                                           *)

\* IInv holds throughout.
THEOREM Inductive == Spec => []IInv
<1>1. QED
  BY InitIInv, NextKeepsIInv, PTL DEF Spec

\* Files, tunnels, papers and the service are of their types, whatever the settings: no
\* address but one of the address space is ever written or run.
THEOREM TypeCorrect == Spec => []TypeOK
<1>1. IInv => TypeOK
  BY DEF IInv
<1>2. QED
  BY <1>1, Inductive, PTL

\* TokensSound: whatever the settings and the peers, a join token offers the lowest
\* host address of the subnet that is not the server's or a peer's.
THEOREM TokensAreSound == Spec => TokensSound
<1> DEFINE free == HostsOf(Net("server").subnet) \ Taken
           A == token' # token /\ token' # None =>
                  token'.addr \in free /\ \A a \in free : token'.addr <= a
<1>1. IInv /\ [Next]_vars => [A]_vars
  <2> SUFFICES ASSUME IInv, Next, token' # token, token' # None
               PROVE  token'.addr \in free /\ \A a \in free : token'.addr <= a
    OBVIOUS
  <2>1. InstallServer /\ token' = Minted
    <3>1. ~(\/ InstallServerFull \/ InstallServerFails \/ InstallClient \/ InstallClientFails
            \/ Lose \/ ClearService \/ Outage \/ Reboot)
      BY DEF InstallServerFull, InstallServerFails, InstallClient, InstallClientFails,
             Lose, ClearService, Outage, Reboot, papers
    <3>2. \A m \in Machines : ~Edit(m)
      BY DEF Edit, papers
    <3>3. \A p \in {token, reply} : ~AddPeer(p) /\ ~AddPeerFails(p)
      BY DEF AddPeer, AddPeerFails, papers
    <3>4. InstallServer
      BY <3>1, <3>2, <3>3 DEF Next, Commands
    <3>5. QED
      BY <3>4 DEF InstallServer
  <2>2. /\ Minted.addr = NextAddress /\ NextAddress # NoAddr
        /\ FirstOf(NextAddress, free)
    BY <2>1, InstallTypes DEF InstallServer, IInv
  <2>3. QED
    BY <2>1, <2>2 DEF FirstOf
<1>2. QED
  BY <1>1, Inductive, PTL DEF Spec, TokensSound

\* What add-peer writes while the endpoint answers with its settings in force: one peer
\* more than the tunnel runs, or none, so that the client keeps its route.
LEMMA StillReaches ==
  ASSUME IInv, Reaches, InForce, reply # None, reply \in PeerRecs, NEW all,
         all = Add(store[Dir], reply)
  PROVE  Dir \in Dirs /\ ReachesThrough(Rendered(Dir, all))
<1>1. /\ TypeOK /\ Lagging /\ ReplyFree
      /\ tun # None /\ Routed(tun, ctun) /\ tun.dir = Dir /\ Runs("server")
  BY DEF IInv, Reaches, ReachesThrough, InForce
<1>2. /\ Dir \in Dirs /\ store[Dir] \in Seq(PeerRecs)
      /\ tun \in Tunnels /\ tun.peers \in Seq(PeerRecs)
  BY <1>1, CfgFacts DEF TypeOK, Machines, Dir, Tunnels
<1>3. \A q \in Range(store[Dir]) : q.addr = reply.addr => q = reply
  BY <1>1 DEF InForce, ReplyFree
<1>4. store[Dir] = tun.peers \/ store[Dir] = Append(tun.peers, reply)
  BY <1>1 DEF Lagging, Lags
<1>5. /\ all = tun.peers \/ all = Append(tun.peers, reply)
      /\ Range(tun.peers) \subseteq Range(store[Dir])
  <2>1. all = IF reply \in Range(store[Dir]) THEN store[Dir] ELSE Append(store[Dir], reply)
    BY <1>2, AddFacts
  <2>2. Range(Append(tun.peers, reply)) = Range(tun.peers) \cup {reply}
    BY <1>2, AppendRange
  <2>3. QED
    BY <1>4, <2>1, <2>2
<1> DEFINE new == Rendered(Dir, all)
<1>6. /\ new.dir = tun.dir /\ new.addr = tun.addr /\ new.listen = tun.listen
      /\ new.peers = all /\ new # None
  <2>1. DOMAIN new # DOMAIN None
    BY DEF Rendered, None
  <2>2. QED
    BY <1>1, <2>1 DEF Rendered, InForce
<1> HIDE DEF new
<1>7. Routed(new, ctun)
  <2>1. PICK i \in DOMAIN tun.peers :
          /\ tun.peers[i] = [id |-> ctun.id, addr |-> ctun.addr]
          /\ \A j \in DOMAIN tun.peers : j > i => tun.peers[j].addr # ctun.addr
    BY <1>1 DEF Routed
  <2>2. CASE all = tun.peers
    BY <1>6, <2>1, <2>2 DEF Routed
  <2>3. CASE all = Append(tun.peers, reply)
    <3> DEFINE l == Len(tun.peers)
    <3>1. /\ l \in Nat /\ DOMAIN tun.peers = 1..l /\ DOMAIN all = 1..(l + 1)
          /\ \A k \in 1..l : all[k] = tun.peers[k]
          /\ all[l + 1] = reply
      BY <1>2, <2>3, AppendRange
    <3> HIDE DEF l
    <3>2. CASE reply.addr # ctun.addr
      <4>1. /\ i \in DOMAIN all /\ all[i] = [id |-> ctun.id, addr |-> ctun.addr]
            /\ \A j \in DOMAIN all : j > i => all[j].addr # ctun.addr
        BY <2>1, <3>1, <3>2
      <4>2. QED
        BY <1>6, <4>1 DEF Routed
    <3>3. CASE reply.addr = ctun.addr
      <4>1. tun.peers[i] \in Range(store[Dir]) /\ tun.peers[i].addr = reply.addr
        BY <1>5, <2>1, <3>3 DEF Range
      <4>2. reply = [id |-> ctun.id, addr |-> ctun.addr]
        BY <1>3, <2>1, <4>1
      <4>3. /\ l + 1 \in DOMAIN all /\ all[l + 1] = [id |-> ctun.id, addr |-> ctun.addr]
            /\ \A j \in DOMAIN all : j > l + 1 => all[j].addr # ctun.addr
        BY <3>1, <4>2
      <4>4. QED
        BY <1>6, <4>3 DEF Routed
    <3>4. QED
      BY <3>2, <3>3
  <2>4. QED
    BY <1>5, <2>2, <2>3
<1>8. ReachesThrough(new)
  BY <1>6, <1>7 DEF Reaches, ReachesThrough
<1>9. QED
  BY <1>2, <1>8 DEF new

\* RerunKeepsEndpoint: while the settings are in force, no install that is run again,
\* whether it succeeds or fails, cuts off an endpoint that answers, whatever was edited,
\* failed or lost before; nor does add-peer, unless it takes the tunnel down and cannot
\* bring it up -- and then the config it wrote is one through which the endpoint
\* answers.  Of the commands only add-peer restarts the tunnel, and all that is new in
\* it is the pending reply, whose address is no other peer's.
THEOREM RerunsAreSafe == Spec => RerunKeepsEndpoint
<1> DEFINE A == Reaches /\ InForce /\ Commands =>
                  \/ Reaches'
                  \/ AddPeerFails(reply) /\ tun' = None /\ reply' = reply /\ Restorable'
<1>1. ASSUME IInv, Reaches, InForce, Commands
      PROVE  \/ Reaches'
             \/ AddPeerFails(reply) /\ tun' = None /\ reply' = reply /\ Restorable'
  <2>0. /\ TypeOK /\ tun # None /\ ctun # None /\ open # {}
        /\ svc # None /\ svc.up /\ code = EndpointURL
    BY <1>1 DEF IInv, Reaches, ReachesThrough, InForce
  <2>1. CASE InstallServer \/ InstallServerFull \/ InstallServerFails
    <3>1. UNCHANGED <<tun, ctun, code, svc, open>>
      BY <2>0, <2>1 DEF InstallServer, InstallServerFull, InstallServerFails, Raised, client
    <3>2. QED
      BY <1>1, <3>1 DEF Reaches, ReachesThrough, Routed
  <2>2. CASE InstallClient \/ InstallClientFails
    <3>1. UNCHANGED <<tun, ctun, code, svc, open>>
      BY <2>0, <2>2 DEF InstallClient, InstallClientFails, server
    <3>2. QED
      BY <1>1, <3>1 DEF Reaches, ReachesThrough, Routed
  <2>3. ASSUME NEW p \in {token, reply}, AddPeer(p) \/ AddPeerFails(p)
        PROVE  \/ Reaches'
               \/ AddPeerFails(reply) /\ tun' = None /\ reply' = reply /\ Restorable'
    <3> DEFINE all == Add(store[Dir], reply)
               new == Rendered(Dir, all)
    <3>1. p = reply /\ reply # None /\ reply \in PeerRecs
      BY <2>0, <2>3, PaperKinds DEF AddPeer, AddPeerFails
    <3>2. Dir \in Dirs /\ ReachesThrough(new)
      BY <1>1, <3>1, StillReaches
    <3>3. /\ UNCHANGED <<over, ctun, code, svc, open>>
          /\ store'[Dir] = all
      BY <2>0, <2>3, <3>1, <3>2 DEF AddPeer, AddPeerFails, TypeOK, client
    <3>4. Dir' = Dir
      BY <3>3 DEF Dir, Cfg
    <3> HIDE DEF all
    <3>5. Written(store'[Dir])[Dir] = new
      BY <2>0, <3>2, <3>3 DEF Written, TypeOK
    <3> HIDE DEF new
    <3>6. CASE AddPeer(p)
      <4>1. tun' = new
        BY <3>5, <3>6 DEF AddPeer
      <4>2. QED
        BY <3>2, <3>3, <4>1 DEF Reaches, ReachesThrough, Routed
    <3>7. CASE AddPeerFails(p)
      <4>1. CASE tun' = tun
        BY <1>1, <3>3, <4>1 DEF Reaches, ReachesThrough, Routed
      <4>2. CASE tun' = None /\ conf' = Written(store'[Dir])
        <5>1. (conf[Dir])' = new
          BY <3>4, <3>5, <4>2
        <5>2. Restorable'
          <6>1. Restorable' = ReachesThrough(conf[Dir])'
            BY DEF Restorable
          <6>2. QED
            BY <3>2, <3>3, <5>1, <6>1 DEF ReachesThrough, Routed
        <5>3. QED
          BY <3>1, <3>7, <4>2, <5>2 DEF AddPeerFails, papers
      <4>3. QED
        BY <3>7, <4>1, <4>2 DEF AddPeerFails
    <3>8. QED
      BY <2>3, <3>6, <3>7
  <2>4. QED
    BY <1>1, <2>1, <2>2, <2>3 DEF Commands
<1>2. IInv /\ [Next]_vars => [A]_vars
  BY <1>1
<1>3. QED
  BY <1>2, Inductive, PTL DEF Spec, RerunKeepsEndpoint

=============================================================================
