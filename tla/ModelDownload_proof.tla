------------------------- MODULE ModelDownload_proof -------------------------
(***************************************************************************)
(* Proofs about ModelDownload, for any number of files, of versions of     *)
(* any sizes and of faults.  IInv is inductive; the safety properties of   *)
(* the module follow from it.                                              *)
(***************************************************************************)
EXTENDS ModelDownload, WellFoundedInduction, TLAPS

-----------------------------------------------------------------------------
(* The inductive invariant.                                                *)

\* Unit k of a file is unit k of a version up to the newest, which has one, and
\* never an older version's than the unit before.
Sound(file, newest) ==
  \A k \in DOMAIN file :
    /\ file[k] \in (1..newest) \X Nat
    /\ file[k][2] = k
    /\ k <= Size[file[k][1]]
    /\ k > 1 => file[k - 1][1] <= file[k][1]

\* While a body is received the file ends where the next unit goes, in units no
\* newer than the body; and progressWriter has counted at most the bytes that
\* were there before the request and those of the body.
Receiving ==
  pc = "copy" =>
    /\ next = Len(disk[cur]) + 1 /\ next <= Size[body] + 1
    /\ next > 1 => disk[cur][next - 1][1] <= body
    /\ written <= MaxSize + next - 1

\* Download's loop has done the files before cur, one result each, and those
\* are of the checksum's version where there is one.
LoopDone ==
  /\ pc \in {"copy", "check", "mismatch"} => cur \in Files
  /\ pc = "ok" => cur = F + 1
  /\ Len(verified) = cur - 1
  /\ \A f \in 1..(cur - 1) : verified[f] = (pinned # None)
  /\ pinned # None => \A f \in 1..(cur - 1) : disk[f] = WholeFile(pinned)

\* Without checksums they are whole all the same, if the origin declares its
\* lengths and has not published a second version; and so is a file about to be
\* called done.
WholeUnchecked ==
  lengths /\ remote = 1 /\ pinned = None =>
    /\ \A f \in 1..(cur - 1) : disk[f] = WholeFile(1)
    /\ pc = "check" => disk[cur] = WholeFile(1)

IInv ==
  /\ TypeOK
  /\ disk \in [Files -> Seq(Versions \X Nat)]
  /\ body <= remote
  /\ \A f \in Files : Sound(disk[f], remote)
  /\ Receiving /\ LoopDone /\ WholeUnchecked

-----------------------------------------------------------------------------
(* The operators the model is built from.                                  *)

\* A set of naturals that is not empty has a least element.
LEMMA LeastExists ==
  ASSUME NEW T, T \subseteq Nat, T # {}
  PROVE  \E x \in T : \A y \in T : x <= y
<1>1. PICK x \in T : \A y \in T : ~(<<y, x>> \in OpToRel(<, Nat))
  BY NatLessThanWellFounded, WFMin
<1>2. ASSUME NEW y \in T PROVE x <= y
  <2>1. x \in Nat /\ y \in Nat
    OBVIOUS
  <2>2. <<y, x>> \in Nat \X Nat /\ <<y, x>>[1] = y /\ <<y, x>>[2] = x
    BY <2>1
  <2>3. ~(y < x)
    BY <2>2, <1>1 DEF OpToRel
  <2>4. QED
    BY <2>1, <2>3
<1>3. QED
  BY <1>2

\* The sizes of the versions have a bound: the first k of them do, for each k,
\* since a least k for which they had none would be one more than one for which
\* they have.
LEMMA SizesBounded == \E n \in Nat : \A v \in Versions : Size[v] <= n
<1> DEFINE Bounded(k) == \E n \in Nat : \A v \in 1..k : Size[v] <= n
           T == {k \in Nat : k <= Latest /\ ~Bounded(k)}
<1>1. /\ Latest \in Nat /\ Versions = 1..Latest
      /\ \A v \in Versions : Size[v] \in Nat
  BY DownloadAssumption DEF Latest, Versions
<1>2. ASSUME T # {} PROVE FALSE
  <2>1. PICK k \in T : \A l \in T : k <= l
    <3>1. T \subseteq Nat
      OBVIOUS
    <3> HIDE DEF T
    <3>2. QED
      BY <1>2, <3>1, LeastExists
  <2>2. k \in Nat /\ k <= Latest /\ ~Bounded(k)
    BY <2>1
  <2>3. k # 0
    <3>1. Bounded(0)
      OBVIOUS
    <3>2. QED
      BY <2>2, <3>1
  <2>4. k - 1 \in Nat /\ k - 1 <= Latest /\ ~(k <= k - 1)
    BY <1>1, <2>2, <2>3
  <2>5. PICK n \in Nat : \A v \in 1..(k - 1) : Size[v] <= n
    <3>1. k - 1 \notin T
      <4> HIDE DEF T
      <4>1. QED
        BY <2>1, <2>4
    <3>2. Bounded(k - 1)
      <4> HIDE DEF Bounded
      <4>1. QED
        BY <3>1, <2>4
    <3>3. QED
      BY <3>2
  <2>6. Size[k] \in Nat
    BY <1>1, <2>2, <2>3
  <2>7. PICK m \in Nat : n <= m /\ Size[k] <= m
    BY <2>5, <2>6
  <2>8. \A v \in 1..k : Size[v] <= m
    <3>1. ASSUME NEW v \in 1..k PROVE Size[v] <= m
      <4>1. CASE v = k
        BY <4>1, <2>7
      <4>2. CASE v # k
        <5>1. v \in 1..(k - 1) /\ v \in Versions
          BY <4>2, <2>2, <1>1
        <5>2. Size[v] \in Nat /\ Size[v] <= n
          BY <5>1, <2>5, <1>1
        <5>3. QED
          BY <5>2, <2>7
      <4>3. QED
        BY <4>1, <4>2
    <3>2. QED
      BY <3>1
  <2>9. QED
    BY <2>2, <2>8
<1>3. Bounded(Latest)
  <2> HIDE DEF Bounded
  <2>1. QED
    BY <1>1, <1>2
<1>4. QED
  BY <1>1, <1>3

\* So MaxSize is the size of the largest version.
LEMMA MaxSizeIsMax ==
  /\ MaxSize \in Nat \ {0}
  /\ \A v \in Versions : Size[v] \in Nat \ {0} /\ Size[v] <= MaxSize
<1>1. Versions # {} /\ \A v \in Versions : Size[v] \in Nat \ {0}
  <2>1. Len(Size) \in Nat \ {0} /\ Versions = 1..Len(Size)
    BY DownloadAssumption DEF Versions
  <2>2. Versions # {}
    BY <2>1
  <2>3. \A v \in 1..Len(Size) : Size[v] \in Nat \ {0}
    BY DownloadAssumption
  <2>4. QED
    BY <2>1, <2>2, <2>3
<1>2. PICK n \in Nat : \A v \in Versions : Size[v] <= n
  BY SizesBounded
<1> DEFINE T == {n - Size[v] : v \in Versions}
<1>3. T \subseteq Nat /\ T # {}
  BY <1>1, <1>2
<1>4. PICK g \in T : \A h \in T : g <= h
  <2> HIDE DEF T
  <2>1. QED
    BY <1>3, LeastExists
<1>5. PICK v \in Versions : g = n - Size[v]
  BY <1>4
<1>6. \A w \in Versions : Size[w] <= Size[v]
  <2>1. ASSUME NEW w \in Versions PROVE Size[w] <= Size[v]
    <3>1. n - Size[v] <= n - Size[w]
      BY <1>4, <1>5
    <3>2. QED
      BY <3>1, <1>1
  <2>2. QED
    BY <2>1
<1>7. \E m \in {Size[w] : w \in Versions} : \A w \in Versions : Size[w] <= m
  BY <1>6
<1>8. /\ MaxSize \in {Size[w] : w \in Versions}
      /\ \A w \in Versions : Size[w] <= MaxSize
  BY <1>7 DEF MaxSize
<1>9. QED
  BY <1>1, <1>8

-----------------------------------------------------------------------------
(* What a step may do to the files on disk.                                *)

Emptied  == disk' = [disk EXCEPT ![cur] = <<>>]
Received == disk' = [disk EXCEPT ![cur] = Append(@, <<body, next>>)]

\* A step leaves the files as they are, empties the one the loop is at -- for an
\* answer that starts from the beginning, or for the operator -- or appends the
\* body's next unit to it; and the origin never takes a version back.
LEMMA DiskStep ==
  ASSUME IInv, [Next]_vars
  PROVE  /\ pinned' = pinned /\ lengths' = lengths
         /\ remote' = remote \/ (remote < Latest /\ remote' = remote + 1)
         /\ \/ disk' = disk
            \/ Emptied /\ cur \in Files /\ pc = "request" /\ pc' = "copy" /\ next' = 1
            \/ Emptied /\ cur \in Files /\ pc = "mismatch" /\ pc' = "idle"
            \/ Received /\ pc = "copy" /\ cur \in Files /\ next <= Size[body] /\ remote' = remote
<1> USE DEF setup
<1> DEFINE Frame == UNCHANGED <<pinned, lengths>>
<1>1. disk \in [Files -> Seq(Versions \X Nat)]
  BY DEF IInv
<1>2. pc \in {"copy", "check", "mismatch"} => cur \in Files
  BY DEF IInv, LoopDone
<1>3. CASE Start \/ RespondNotSatisfiable \/ EndOfBody \/ Check \/ Return
           \/ RequestFails \/ Cut \/ Killed
  BY <1>3 DEF Start, RespondNotSatisfiable, EndOfBody, Check, Return, RequestFails, Cut, Killed
<1>4. CASE Publish \/ UNCHANGED vars
  BY <1>4 DEF Publish, vars
<1>5. CASE RespondOK
  BY <1>5 DEF RespondOK, Respond, Emptied
<1>6. CASE RespondPartial
  <2>1. disk' = [disk EXCEPT ![cur] = disk[cur]] /\ UNCHANGED <<setup, remote>>
    BY <1>6 DEF RespondPartial, Respond
  <2>2. disk' = disk
    BY <2>1, <1>1
  <2>3. QED
    BY <2>1, <2>2
<1>7. CASE Copy
  BY <1>2, <1>7 DEF Copy, Received
<1>8. CASE DeleteFile
  BY <1>2, <1>8 DEF DeleteFile, Emptied
<1>9. QED
  BY <1>3, <1>4, <1>5, <1>6, <1>7, <1>8 DEF Next, Receive

\* The versions, as numbers, and what the invariant says of them.
LEMMA VersionFacts ==
  ASSUME IInv
  PROVE  /\ Latest \in Nat /\ Versions = 1..Latest
         /\ \A v \in Versions : Size[v] \in Nat \ {0} /\ Size[v] <= MaxSize
         /\ MaxSize \in Nat /\ F \in Nat /\ Files = 1..F
         /\ body \in 1..remote /\ remote \in 1..Latest
         /\ next \in Nat \ {0} /\ cur \in 1..(F + 1)
<1>1. Latest \in Nat /\ Versions = 1..Latest
  BY DownloadAssumption DEF Latest, Versions
<1>2. QED
  BY <1>1, MaxSizeIsMax, DownloadAssumption DEF Files, IInv, TypeOK

\* So a file is no longer than the largest version, and its units are typed.
LEMMA SoundFits ==
  ASSUME NEW newest \in Versions, NEW file \in Seq(Versions \X Nat), Sound(file, newest)
  PROVE  file \in Seq(Versions \X (1..MaxSize)) /\ Len(file) <= MaxSize
<1>0. /\ Latest \in Nat /\ Versions = 1..Latest /\ MaxSize \in Nat
      /\ \A v \in Versions : Size[v] \in Nat /\ Size[v] <= MaxSize
  BY MaxSizeIsMax, DownloadAssumption DEF Latest, Versions
<1>1. DOMAIN file = 1..Len(file) /\ Len(file) \in Nat
  OBVIOUS
<1>2. ASSUME NEW k \in 1..Len(file)
      PROVE  file[k] \in Versions \X (1..MaxSize) /\ k <= MaxSize
  <2>1. /\ file[k] \in (1..newest) \X Nat /\ file[k][2] = k
        /\ k <= Size[file[k][1]]
    BY <1>1 DEF Sound
  <2> DEFINE v == file[k][1]
  <2>2. file[k] = <<v, k>> /\ v \in Versions /\ k <= Size[v]
    BY <2>1, <1>0
  <2>3. Size[v] \in Nat /\ Size[v] <= MaxSize /\ k \in Nat /\ k >= 1
    BY <2>2, <1>0, <1>1
  <2>4. k \in 1..MaxSize
    BY <1>0, <2>2, <2>3
  <2>5. QED
    BY <2>2, <2>4
<1>3. Len(file) <= MaxSize
  <2>1. CASE Len(file) = 0
    BY <2>1, <1>0
  <2>2. CASE Len(file) # 0
    <3>1. Len(file) \in 1..Len(file)
      BY <2>2, <1>0, <1>1
    <3>2. QED
      BY <3>1, <1>0, <1>2
  <2>3. QED
    BY <2>1, <2>2
<1>4. file \in [1..Len(file) -> Versions \X (1..MaxSize)]
  BY <1>1, <1>2
<1>5. file \in Seq(Versions \X (1..MaxSize))
  <2>1. ASSUME NEW S, NEW n \in Nat, NEW g \in [1..n -> S] PROVE g \in Seq(S)
    OBVIOUS
  <2>2. QED
    BY <1>1, <1>4, <2>1
<1>6. QED
  BY <1>3, <1>5

\* No step puts a unit out of place on disk.
LEMMA SoundKept ==
  ASSUME IInv, [Next]_vars
  PROVE  /\ disk' \in [Files -> Seq(Versions \X Nat)]
         /\ \A f \in Files : Sound(disk'[f], remote')
<1> USE VersionFacts
<1>0. /\ disk \in [Files -> Seq(Versions \X Nat)]
      /\ \A f \in Files : Sound(disk[f], remote)
  BY DEF IInv
<1>1. remote' \in Nat /\ remote <= remote'
  BY DiskStep
<1>2. ASSUME NEW file, Sound(file, remote) PROVE Sound(file, remote')
  <2>1. 1..remote \subseteq 1..remote'
    BY <1>1
  <2>2. QED
    BY <1>2, <2>1 DEF Sound
<1>3. CASE disk' = disk
  BY <1>0, <1>2, <1>3
<1>4. CASE Emptied
  <2>1. <<>> \in Seq(Versions \X Nat) /\ Sound(<<>>, remote')
    BY DEF Sound
  <2>2. \A f \in Files : disk'[f] = <<>> \/ disk'[f] = disk[f]
    BY <1>0, <1>4 DEF Emptied
  <2>3. disk' \in [Files -> Seq(Versions \X Nat)]
    BY <1>0, <1>4, <2>1 DEF Emptied
  <2>4. QED
    BY <1>0, <1>2, <2>1, <2>2, <2>3
<1>5. CASE Received /\ pc = "copy" /\ cur \in Files /\ next <= Size[body] /\ remote' = remote
  <2> DEFINE old == disk[cur]
             more == Append(old, <<body, next>>)
  <2>1. /\ <<body, next>> \in Versions \X Nat /\ <<body, next>> \in (1..remote) \X Nat
        /\ <<body, next>>[1] = body /\ <<body, next>>[2] = next
    OBVIOUS
  <2>2. old \in Seq(Versions \X Nat) /\ Sound(old, remote)
    BY <1>0, <1>5
  <2>3. /\ more \in Seq(Versions \X Nat) /\ Len(old) \in Nat
        /\ DOMAIN old = 1..Len(old) /\ DOMAIN more = 1..(Len(old) + 1)
        /\ \A k \in 1..Len(old) : more[k] = old[k]
        /\ more[Len(old) + 1] = <<body, next>>
    BY <2>1, <2>2
  <2>4. next = Len(old) + 1 /\ (next > 1 => old[next - 1][1] <= body)
    BY <1>5 DEF IInv, Receiving
  <2>5. disk' \in [Files -> Seq(Versions \X Nat)]
    BY <1>0, <1>5, <2>3 DEF Received
  <2>6. \A f \in Files : disk'[f] = IF f = cur THEN more ELSE disk[f]
    BY <1>0, <1>5 DEF Received
  <2> HIDE DEF old, more
  <2>7. ASSUME NEW k \in 1..(Len(old) + 1)
        PROVE  /\ more[k] \in (1..remote') \X Nat
               /\ more[k][2] = k
               /\ k <= Size[more[k][1]]
               /\ k > 1 => more[k - 1][1] <= more[k][1]
    <3>1. CASE k = Len(old) + 1
      <4>1. more[k] = <<body, next>> /\ k = next
        BY <2>3, <2>4, <3>1
      <4>2. k > 1 => more[k - 1] = old[k - 1]
        <5>1. k > 1 => k - 1 \in 1..Len(old)
          BY <2>1, <3>1
        <5>2. QED
          BY <2>3, <5>1
      <4>3. QED
        BY <1>5, <2>1, <2>4, <4>1, <4>2
    <3>2. CASE k \in 1..Len(old)
      <4>1. more[k] = old[k] /\ (k > 1 => more[k - 1] = old[k - 1])
        <5>1. Len(old) \in Nat /\ (k > 1 => k - 1 \in 1..Len(old))
          BY <2>3, <3>2
        <5>2. QED
          BY <2>3, <3>2, <5>1
      <4>2. QED
        BY <1>5, <2>2, <2>3, <3>2, <4>1 DEF Sound
    <3>3. QED
      BY <2>3, <3>1, <3>2
  <2>8. Sound(more, remote')
    BY <2>3, <2>7 DEF Sound
  <2>9. QED
    BY <1>0, <1>2, <2>5, <2>6, <2>8
<1>6. QED
  BY <1>3, <1>4, <1>5, DiskStep

-----------------------------------------------------------------------------
(* Each part of the invariant is kept.                                     *)

\* The answers to a request...
Responds == RespondOK \/ RespondPartial

\* ... and what they have in common.
LEMMA ResponseStep ==
  ASSUME IInv, Responds
  PROVE  /\ pc = "request" /\ pc' = "copy" /\ cur \in Files /\ body' = remote
         /\ \/ next' = 1 /\ Emptied
            \/ next' = Have + 1 /\ disk' = disk /\ Have \in 1..(Size[remote] - 1)
         /\ written' = Have /\ shown' = None
         /\ total' \in {-1, Size[remote], Have - 1}
         /\ UNCHANGED <<pinned, lengths, cur, verified, remote, faults>>
<1> USE VersionFacts
<1>0. disk \in [Files -> Seq(Versions \X Nat)] /\ Size[remote] \in Nat
  BY DEF IInv
<1>1. CASE RespondOK
  BY <1>1 DEF RespondOK, Respond, Emptied, setup
<1>2. CASE RespondPartial
  <2>1. PICK t \in {Size[remote], Have + IF lengths THEN Size[remote] - Have ELSE -1} :
          Respond(Have + 1, disk[cur], t)
    BY <1>2 DEF RespondPartial
  <2>2. cur \in Files /\ Have \in 1..(Size[remote] - 1)
    BY <1>2 DEF RespondPartial
  <2>3. t \in {-1, Size[remote], Have - 1}
    BY <1>0, <2>2
  <2>4. disk' = disk
    BY <1>0, <2>1 DEF Respond
  <2>5. QED
    BY <2>1, <2>2, <2>3, <2>4 DEF Respond, setup
<1>3. QED
  BY <1>1, <1>2 DEF Responds

\* The file keeps ending where the body's next unit goes.
LEMMA ReceivingKept ==
  ASSUME IInv, [Next]_vars
  PROVE  Receiving'
<1> USE VersionFacts
<1>0. /\ disk \in [Files -> Seq(Versions \X Nat)]
      /\ \A f \in Files : Sound(disk[f], remote) /\ Len(disk[f]) <= MaxSize
      /\ written \in Nat
  <2>1. written \in 0..(2 * MaxSize) /\ disk \in [Files -> Seq(Versions \X Nat)]
    BY DEF IInv, TypeOK
  <2>2. \A f \in Files : Len(disk[f]) <= MaxSize
    BY DEF IInv, TypeOK
  <2>3. QED
    BY <2>1, <2>2 DEF IInv
<1>1. CASE Responds
  <2>1. /\ pc = "request" /\ pc' = "copy" /\ cur \in Files /\ body' = remote /\ cur' = cur
        /\ written' = Have
        /\ \/ next' = 1 /\ Emptied
           \/ next' = Have + 1 /\ disk' = disk /\ Have \in 1..(Size[remote] - 1)
    BY <1>1, ResponseStep
  <2>2. /\ disk[cur] \in Seq(Versions \X Nat) /\ Have \in Nat /\ Have <= MaxSize
        /\ Sound(disk[cur], remote) /\ DOMAIN disk[cur] = 1..Have
    BY <1>0, <2>1 DEF Have
  <2>3. CASE next' = 1 /\ Emptied
    <3>1. disk'[cur] = <<>>
      BY <1>0, <2>1, <2>3 DEF Emptied
    <3>2. Size[remote] \in Nat
      OBVIOUS
    <3>3. QED
      BY <2>1, <2>2, <2>3, <3>1, <3>2 DEF Receiving
  <2>4. CASE next' = Have + 1 /\ disk' = disk /\ Have \in 1..(Size[remote] - 1)
    <3>1. disk[cur][Have] \in (1..remote) \X Nat
      <4>1. Have \in DOMAIN disk[cur]
        BY <2>2, <2>4
      <4>2. QED
        BY <2>2, <4>1 DEF Sound
    <3>2. disk[cur][Have][1] <= remote /\ Size[remote] \in Nat
      BY <3>1
    <3>3. next' - 1 = Have /\ Len(disk'[cur']) = Have
      BY <2>1, <2>2, <2>4 DEF Have
    <3>4. disk'[cur'][next' - 1][1] <= body'
      <4>1. disk'[cur'][next' - 1] = disk[cur][Have]
        BY <2>1, <2>4, <3>3
      <4>2. QED
        BY <2>1, <3>2, <4>1
    <3>5. next' = Len(disk'[cur']) + 1 /\ next' <= Size[body'] + 1
      <4>1. next' = Len(disk'[cur']) + 1
        BY <2>4, <3>3
      <4>2. Have + 1 <= Size[remote] + 1
        BY <2>4, <3>2
      <4>3. QED
        BY <2>1, <2>4, <4>1, <4>2
    <3>6. written' <= MaxSize + next' - 1
      <4>1. Have <= MaxSize + (Have + 1) - 1
        BY <2>2
      <4>2. QED
        BY <2>1, <2>4, <4>1
    <3>7. QED
      BY <3>4, <3>5, <3>6 DEF Receiving
  <2>5. QED
    BY <2>1, <2>3, <2>4
<1>2. CASE Copy
  <2>1. /\ pc = "copy" /\ cur \in Files /\ next <= Size[body] /\ cur' = cur /\ body' = body
        /\ next' = next + 1 /\ written' = written + 1
        /\ disk' = [disk EXCEPT ![cur] = Append(@, <<body, next>>)]
    BY <1>2 DEF Copy, IInv, LoopDone
  <2>2. next = Len(disk[cur]) + 1 /\ written <= MaxSize + next - 1
    BY <2>1 DEF IInv, Receiving
  <2>3. /\ disk'[cur] = Append(disk[cur], <<body, next>>)
        /\ disk[cur] \in Seq(Versions \X Nat) /\ <<body, next>> \in Versions \X Nat
    BY <1>0, <2>1
  <2>4. Len(disk'[cur]) = next /\ disk'[cur][next] = <<body, next>>
    BY <2>2, <2>3
  <2>5. next' - 1 = next /\ Size[body] \in Nat
    BY <2>1
  <2>6. next' <= Size[body'] + 1 /\ written' <= MaxSize + next' - 1
    <3>1. body \in Versions /\ Size[body] \in Nat
      BY <2>1
    <3>2. written \in Int /\ MaxSize \in Int /\ next \in Int
      BY <1>0
    <3> HIDE VersionFacts
    <3>3. next + 1 <= Size[body] + 1 /\ written + 1 <= MaxSize + (next + 1) - 1
      BY <2>1, <2>2, <3>1, <3>2
    <3>4. QED
      BY <2>1, <3>3
  <2>7. disk'[cur'][next' - 1][1] <= body' /\ next' = Len(disk'[cur']) + 1
    BY <1>0, <2>1, <2>4, <2>5
  <2>8. QED
    BY <2>1, <2>6, <2>7 DEF Receiving
<1>3. CASE Publish \/ UNCHANGED vars
  BY <1>3 DEF Publish, vars, pw, IInv, Receiving
<1>4. CASE \/ Start \/ RespondNotSatisfiable \/ EndOfBody \/ Check \/ Return
           \/ RequestFails \/ Cut \/ Killed \/ DeleteFile
  <2>1. pc' # "copy"
    BY <1>4 DEF Start, RespondNotSatisfiable, EndOfBody, Check, Return, RequestFails, Cut,
                Killed, DeleteFile
  <2>2. QED
    BY <2>1 DEF Receiving
<1>5. QED
  BY <1>1, <1>2, <1>3, <1>4 DEF Next, Receive, Responds

\* What a whole file is: the units of one version, all of them, in order.
LEMMA WholeFacts ==
  ASSUME NEW v \in Versions, NEW file \in Seq(Versions \X Nat),
         Len(file) = Size[v], \A k \in DOMAIN file : file[k] = <<v, k>>
  PROVE  file = WholeFile(v)
<1>1. file = [k \in 1..Len(file) |-> file[k]] /\ DOMAIN file = 1..Len(file)
  OBVIOUS
<1>2. QED
  BY <1>1 DEF WholeFile

\* A file is called done only by VerifySHA256, and not touched again in the run.
LEMMA LoopDoneKept ==
  ASSUME IInv, [Next]_vars
  PROVE  LoopDone'
<1> USE VersionFacts
<1>0. /\ disk \in [Files -> Seq(Versions \X Nat)] /\ LoopDone
      /\ verified \in Seq(BOOLEAN)
  BY DEF IInv, TypeOK
<1>1. \A f \in 1..(cur - 1) : f \in Files /\ f # cur
  OBVIOUS
<1>2. /\ pinned' = pinned
      /\ \A f \in 1..(cur - 1) : disk'[f] = disk[f]
  <2>1. disk' = disk \/ Emptied \/ Received
    BY DiskStep
  <2>2. QED
    BY <1>0, <1>1, <2>1, DiskStep DEF Emptied, Received
<1>3. CASE Start
  <2>1. cur' = 1 /\ verified' = <<>> /\ pc' = "request"
    BY <1>3 DEF Start
  <2>2. QED
    BY <2>1 DEF LoopDone
<1>4. CASE Check
  <2>1. pc = "check" /\ cur \in Files /\ disk' = disk
    BY <1>0, <1>4 DEF Check, LoopDone
  <2>2. CASE Matches /\ verified' = Append(verified, pinned # None)
             /\ cur' = cur + 1 /\ pc' = "request"
    <3>1. /\ Len(verified') = cur
          /\ \A f \in 1..cur : verified'[f] = IF f = cur THEN pinned # None ELSE verified[f]
      <4> DEFINE flag == pinned # None
      <4>1. flag \in BOOLEAN /\ Len(verified) = cur - 1
        BY <1>0 DEF LoopDone
      <4>2. verified' = Append(verified, flag) /\ cur \in Nat
        BY <2>1, <2>2
      <4> HIDE DEF flag
      <4> HIDE VersionFacts
      <4>3. /\ Len(verified') = cur
            /\ \A f \in 1..cur : verified'[f] = IF f = cur THEN flag ELSE verified[f]
        BY <1>0, <4>1, <4>2
      <4>4. QED
        BY <4>3 DEF flag
    <3>2. \A f \in 1..cur : f # cur => f \in 1..(cur - 1)
      OBVIOUS
    <3>3. \A f \in 1..(cur' - 1) : verified'[f] = (pinned' # None)
      <4>1. cur' - 1 = cur /\ pinned' = pinned
        BY <1>2, <2>2
      <4>2. \A f \in 1..(cur - 1) : verified[f] = (pinned # None)
        BY <1>0 DEF LoopDone
      <4> HIDE VersionFacts
      <4>3. QED
        BY <3>1, <3>2, <4>1, <4>2
    <3>4. pinned # None => \A f \in 1..cur : disk[f] = WholeFile(pinned)
      BY <1>0, <2>2, <3>2 DEF LoopDone, Matches
    <3>5. QED
      BY <1>2, <2>1, <2>2, <3>1, <3>3, <3>4 DEF LoopDone
  <2>3. CASE pc' = "mismatch" /\ UNCHANGED <<cur, verified>>
    BY <1>0, <1>2, <2>1, <2>3 DEF LoopDone
  <2>4. QED
    BY <1>4, <2>2, <2>3 DEF Check
<1>5. CASE Return
  <2>1. cur = F + 1
    BY <1>5 DEF Return
  <2>2. QED
    BY <1>0, <1>2, <1>5, <2>1 DEF Return, LoopDone
<1>6. CASE Responds
  <2>1. cur \in Files /\ pc' = "copy" /\ UNCHANGED <<cur, verified>>
    BY <1>6, ResponseStep
  <2>2. QED
    BY <1>0, <1>2, <2>1 DEF LoopDone
<1>7. CASE \/ RespondNotSatisfiable \/ EndOfBody \/ Copy \/ RequestFails \/ Cut \/ Killed
           \/ Publish \/ DeleteFile \/ UNCHANGED vars
  <2>1. UNCHANGED <<cur, verified>>
    BY <1>7 DEF RespondNotSatisfiable, EndOfBody, Copy, RequestFails, Cut, Killed, Publish,
                DeleteFile, vars
  <2>2. pc' = pc \/ pc' \in {"idle", "failed"} \/ (pc' = "check" /\ cur \in Files)
    BY <1>0, <1>7 DEF RespondNotSatisfiable, EndOfBody, Copy, RequestFails, Cut, Killed,
                Publish, DeleteFile, vars, LoopDone
  <2>3. QED
    BY <1>0, <1>2, <2>1, <2>2 DEF LoopDone
<1>8. QED
  BY <1>3, <1>4, <1>5, <1>6, <1>7 DEF Next, Receive, Responds

\* Where nothing newer was published, a file as long as the first version is it.
LEMMA FullIsWhole ==
  ASSUME IInv, remote = 1, cur \in Files, Have >= Size[1]
  PROVE  disk[cur] = WholeFile(1)
<1> USE VersionFacts
<1>1. /\ disk[cur] \in Seq(Versions \X Nat) /\ Sound(disk[cur], 1)
      /\ Have = Len(disk[cur])
  BY DEF IInv, Have
<1>2. DOMAIN disk[cur] = 1..Have /\ Have \in Nat /\ Size[1] \in Nat \ {0}
  <2>1. DOMAIN disk[cur] = 1..Have /\ Have \in Nat
    BY <1>1
  <2>2. 1 \in Versions
    OBVIOUS
  <2>3. QED
    BY <2>1, <2>2
<1>3. ASSUME NEW k \in 1..Have PROVE disk[cur][k] = <<1, k>> /\ k <= Size[1]
  <2>1. /\ disk[cur][k] \in (1..1) \X Nat /\ disk[cur][k][2] = k
        /\ k <= Size[disk[cur][k][1]]
    <3>1. k \in DOMAIN disk[cur]
      BY <1>2
    <3>2. QED
      BY <1>1, <3>1 DEF Sound
  <2>2. disk[cur][k][1] = 1
    BY <2>1
  <2>3. QED
    BY <2>1, <2>2
<1>4. Have = Size[1]
  <2>1. Have \in 1..Have
    BY <1>2
  <2>2. QED
    BY <1>2, <1>3, <2>1
<1>5. QED
  BY <1>1, <1>2, <1>3, <1>4, WholeFacts

\* Only a full file of the one version there is gets as far as its check.
LEMMA WholeUncheckedKept ==
  ASSUME IInv, [Next]_vars
  PROVE  WholeUnchecked'
<1> USE VersionFacts
<1> SUFFICES ASSUME lengths', remote' = 1, pinned' = None
             PROVE  /\ \A f \in 1..(cur' - 1) : disk'[f] = WholeFile(1)
                    /\ pc' = "check" => disk'[cur'] = WholeFile(1)
  BY DEF WholeUnchecked
<1>0. lengths /\ remote = 1 /\ pinned = None
  <2>1. remote' = remote \/ remote' = remote + 1
    BY DiskStep
  <2>2. remote \in Nat \ {0}
    OBVIOUS
  <2>3. remote = 1
    BY <2>1, <2>2
  <2>4. lengths /\ pinned = None
    BY DiskStep, Zenon
  <2>5. QED
    BY <2>3, <2>4
<1>1. /\ \A f \in 1..(cur - 1) : disk[f] = WholeFile(1)
      /\ pc = "check" => disk[cur] = WholeFile(1)
      /\ disk \in [Files -> Seq(Versions \X Nat)]
  BY <1>0 DEF IInv, WholeUnchecked
<1>2. \A f \in 1..(cur - 1) : disk'[f] = WholeFile(1)
  <2>1. \A f \in 1..(cur - 1) : f \in Files /\ f # cur
    OBVIOUS
  <2>2. disk' = disk \/ Emptied \/ Received
    BY DiskStep
  <2>3. QED
    BY <1>1, <2>1, <2>2 DEF Emptied, Received
<1>3. CASE RespondNotSatisfiable
  <2>1. cur \in Files /\ Have >= Size[1] /\ UNCHANGED <<cur, disk>>
    BY <1>0, <1>3 DEF RespondNotSatisfiable
  <2>2. QED
    BY <1>0, <1>2, <2>1, FullIsWhole
<1>4. CASE EndOfBody
  <2>1. pc = "copy" /\ cur \in Files /\ next > Size[body] /\ UNCHANGED <<cur, disk>>
    BY <1>4 DEF EndOfBody, IInv, LoopDone
  <2>2. body = 1 /\ next = Len(disk[cur]) + 1 /\ Size[1] \in Nat
    BY <1>0, <2>1 DEF IInv, Receiving
  <2>3. Have >= Size[1]
    BY <1>1, <2>1, <2>2 DEF Have
  <2>4. QED
    BY <1>0, <1>2, <2>1, <2>3, FullIsWhole
<1>5. CASE Start
  BY <1>5 DEF Start
<1>6. CASE Check
  <2>1. pc = "check" /\ disk' = disk /\ pc' # "check" /\ cur' \in {cur, cur + 1}
    BY <1>6 DEF Check
  <2>2. \A f \in 1..cur : f = cur \/ f \in 1..(cur - 1)
    OBVIOUS
  <2>3. QED
    BY <1>1, <2>1, <2>2
<1>7. CASE Responds
  <2>1. pc' = "copy" /\ cur' = cur
    BY <1>7, ResponseStep
  <2>2. QED
    BY <1>2, <2>1
<1>8. CASE Copy \/ Return \/ RequestFails \/ Cut \/ Killed \/ DeleteFile
  <2>1. cur' = cur /\ pc' # "check"
    BY <1>0, <1>8 DEF Copy, Return, RequestFails, Cut, Killed, DeleteFile
  <2>2. QED
    BY <1>2, <2>1
<1>9. CASE Publish \/ UNCHANGED vars
  <2>1. cur' = cur /\ pc' = pc /\ disk' = disk
    BY <1>9 DEF Publish, vars
  <2>2. QED
    BY <1>1, <2>1
<1>10. QED
  BY <1>3, <1>4, <1>5, <1>6, <1>7, <1>8, <1>9 DEF Next, Receive, Responds

\* Everything stays of its type: the counters of progressWriter stay within
\* twice the largest version, however often a file is resumed.
LEMMA TypeKept ==
  ASSUME IInv, [Next]_vars
  PROVE  TypeOK'
<1> USE VersionFacts
<1>0. TypeOK /\ disk \in [Files -> Seq(Versions \X Nat)]
  BY DEF IInv
<1>1. /\ pinned' \in Versions \cup {None} /\ lengths' \in BOOLEAN /\ remote' \in Versions
  <2>1. /\ pinned' = pinned /\ lengths' = lengths
        /\ remote' = remote \/ (remote < Latest /\ remote' = remote + 1)
    BY DiskStep
  <2>2. remote \in Versions /\ pinned \in Versions \cup {None} /\ lengths \in BOOLEAN
    BY <1>0 DEF TypeOK
  <2>3. QED
    BY <2>1, <2>2
<1>2. \A f \in Files : disk'[f] \in Seq(Versions \X (1..MaxSize)) /\ Len(disk'[f]) <= MaxSize
  BY <1>1, SoundKept, SoundFits
<1> DEFINE Rest ==
      /\ pc' \in {"idle", "request", "copy", "check", "ok", "failed", "mismatch"}
      /\ cur' \in 1..(F + 1)
      /\ body' \in Versions /\ next' \in 1..(MaxSize + 1)
      /\ written' \in 0..(2 * MaxSize) /\ total' \in -1..(2 * MaxSize)
      /\ shown' \in 0..(2 * MaxSize)
      /\ verified' \in Seq(BOOLEAN) /\ Len(verified') <= F
      /\ faults' \in 0..MaxFaults
<1>3. ASSUME Fault PROVE faults' \in 0..MaxFaults
  BY <1>0, <1>3, DownloadAssumption DEF Fault, TypeOK
<1>4. CASE Responds
  <2>1. /\ pc' = "copy" /\ body' = remote /\ written' = Have /\ shown' = None
        /\ next' = 1 \/ (next' = Have + 1 /\ Have < Size[remote])
        /\ total' \in {-1, Size[remote], Have - 1}
        /\ UNCHANGED <<cur, verified, faults>> /\ cur \in Files
    <3>1. Size[remote] \in Nat
      OBVIOUS
    <3>2. QED
      BY <1>4, <3>1, ResponseStep
  <2>2. Have \in 0..MaxSize /\ Size[remote] \in 1..MaxSize /\ remote \in Versions
    <3>1. Have \in 0..MaxSize
      BY <1>0, <2>1 DEF TypeOK, Have
    <3>2. remote \in Versions
      BY <1>0 DEF TypeOK
    <3>3. QED
      BY <3>1, <3>2
  <2>3. next' \in 1..(MaxSize + 1) /\ total' \in -1..(2 * MaxSize)
    <3>0. MaxSize \in Nat
      OBVIOUS
    <3> HIDE VersionFacts
    <3>1. 1 \in 1..(MaxSize + 1) /\ Have + 1 \in 1..(MaxSize + 1)
      BY <2>2, <3>0
    <3>2. Size[remote] \in -1..(2 * MaxSize) /\ Have - 1 \in -1..(2 * MaxSize)
      BY <2>2, <3>0
    <3>3. -1 \in -1..(2 * MaxSize)
      BY <3>0
    <3>4. QED
      BY <2>1, <3>1, <3>2, <3>3
  <2>4. written' \in 0..(2 * MaxSize) /\ shown' \in 0..(2 * MaxSize)
    BY <2>1, <2>2 DEF None
  <2>5. Rest
    BY <1>0, <2>1, <2>2, <2>3, <2>4 DEF TypeOK
  <2>6. QED
    BY <1>1, <1>2, <2>5 DEF TypeOK
<1>5. CASE Copy
  <2>1. /\ next <= Size[body] /\ Size[body] <= MaxSize /\ Size[body] \in Nat
        /\ written <= MaxSize + next - 1
    <3>1. pc = "copy" /\ next <= Size[body]
      BY <1>5 DEF Copy
    <3>2. written <= MaxSize + next - 1
      BY <3>1 DEF IInv, Receiving
    <3>3. body \in Versions
      BY <1>0 DEF TypeOK
    <3>4. QED
      BY <3>1, <3>2, <3>3
  <2>2. next' \in 1..(MaxSize + 1) /\ written' \in 0..(2 * MaxSize)
    <3>1. next' = next + 1 /\ written' = written + 1
      BY <1>5 DEF Copy
    <3>2. next \in Nat \ {0} /\ written \in Nat /\ MaxSize \in Nat
      BY <1>0 DEF TypeOK
    <3>3. QED
      BY <2>1, <3>1, <3>2
  <2>3. Rest
    <3>1. /\ shown' = written'
          /\ UNCHANGED <<pc, cur, body, total, verified, faults>>
      BY <1>5 DEF Copy
    <3>2. QED
      BY <1>0, <2>2, <3>1 DEF TypeOK
  <2>4. QED
    BY <1>1, <1>2, <2>3 DEF TypeOK
<1>6. CASE Start
  <2>1. Rest
    BY <1>0, <1>6 DEF Start, TypeOK, pw
  <2>2. QED
    BY <1>1, <1>2, <2>1 DEF TypeOK
<1>7. CASE Check
  <2>1. cur \in Files /\ Len(verified) = cur - 1 /\ (pinned # None) \in BOOLEAN
    BY <1>7 DEF Check, IInv, LoopDone
  <2>2. verified' \in Seq(BOOLEAN) /\ Len(verified') <= F /\ cur' \in 1..(F + 1)
    <3>1. verified \in Seq(BOOLEAN)
      BY <1>0 DEF TypeOK
    <3>2. CASE verified' = Append(verified, pinned # None) /\ cur' = cur + 1
      <4>1. /\ Append(verified, pinned # None) \in Seq(BOOLEAN)
            /\ Len(Append(verified, pinned # None)) = cur
        BY <2>1, <3>1
      <4>2. QED
        BY <2>1, <3>2, <4>1
    <3>3. CASE UNCHANGED <<cur, verified>>
      BY <2>1, <3>1, <3>3
    <3>4. QED
      BY <1>7, <3>2, <3>3 DEF Check
  <2>3. Rest
    BY <1>0, <1>7, <2>2 DEF Check, TypeOK, pw
  <2>4. QED
    BY <1>1, <1>2, <2>3 DEF TypeOK
<1>8. CASE \/ RespondNotSatisfiable \/ EndOfBody \/ Return \/ RequestFails \/ Cut \/ Killed
           \/ Publish \/ DeleteFile \/ UNCHANGED vars
  <2>1. UNCHANGED <<cur, pw, verified>>
    BY <1>8 DEF RespondNotSatisfiable, EndOfBody, Return, RequestFails, Cut, Killed,
                Publish, DeleteFile, vars
  <2>2. faults' \in 0..MaxFaults
    BY <1>0, <1>3, <1>8 DEF RespondNotSatisfiable, EndOfBody, Return, RequestFails, Cut,
                Killed, Publish, DeleteFile, vars, TypeOK
  <2>3. pc' \in {pc, "idle", "check", "ok", "failed"}
    BY <1>8 DEF RespondNotSatisfiable, EndOfBody, Return, RequestFails, Cut, Killed,
                Publish, DeleteFile, vars
  <2>4. Rest
    BY <1>0, <2>1, <2>2, <2>3 DEF TypeOK, pw
  <2>5. QED
    BY <1>1, <1>2, <2>4 DEF TypeOK
<1>9. QED
  BY <1>4, <1>5, <1>6, <1>7, <1>8 DEF Next, Receive, Responds

-----------------------------------------------------------------------------
(* The theorems.                                                           *)

\* An empty models directory satisfies IInv.
LEMMA InitIInv == Init => IInv
<1> SUFFICES ASSUME Init PROVE IInv
  OBVIOUS
<1>1. /\ Latest \in Nat \ {0} /\ Versions = 1..Latest /\ MaxSize \in Nat
      /\ 1 \in Versions /\ F \in Nat \ {0} /\ MaxFaults \in Nat
      /\ \A v \in Versions : Size[v] \in Nat
  BY MaxSizeIsMax, DownloadAssumption DEF Latest, Versions
<1>2. /\ pc = "idle" /\ cur = 1 /\ disk = [f \in Files |-> <<>>] /\ verified = <<>>
      /\ body = 1 /\ next = 1 /\ remote = 1 /\ written = 0 /\ total = 0 /\ shown = 0
      /\ faults = 0 /\ pinned \in Versions \cup {None} /\ lengths \in BOOLEAN
  BY DEF Init, None
<1>3. TypeOK
  BY <1>1, <1>2 DEF TypeOK
<1>4. \A f \in Files : disk[f] = <<>> /\ Sound(disk[f], remote)
  BY <1>2 DEF Sound
<1>5. disk \in [Files -> Seq(Versions \X Nat)]
  BY <1>2
<1>6. Receiving /\ LoopDone /\ WholeUnchecked
  BY <1>2 DEF Receiving, LoopDone, WholeUnchecked
<1>7. QED
  BY <1>2, <1>3, <1>4, <1>5, <1>6 DEF IInv

\* No answer, cut, kill, re-run or publication falsifies it.
LEMMA NextKeepsIInv == IInv /\ [Next]_vars => IInv'
<1> SUFFICES ASSUME IInv, [Next]_vars PROVE IInv'
  OBVIOUS
<1>1. body' <= remote'
  <2>1. body \in Nat /\ remote \in Nat /\ body <= remote
    BY VersionFacts
  <2>2. remote <= remote' /\ remote' \in Nat
    BY <2>1, DiskStep
  <2>3. body' = body \/ (body' = remote /\ remote' = remote)
    <3>1. CASE Responds
      BY <3>1, ResponseStep
    <3>2. CASE ~Responds
      BY <3>2 DEF Next, Receive, Responds, Start, RespondNotSatisfiable, EndOfBody, Check,
             Return, RequestFails, Cut, Killed, Publish, DeleteFile, Copy, pw, vars
    <3>3. QED
      BY <3>1, <3>2
  <2>4. QED
    BY <2>1, <2>2, <2>3
<1>2. /\ disk' \in [Files -> Seq(Versions \X Nat)]
      /\ \A f \in Files : Sound(disk'[f], remote')
  BY SoundKept
<1>3. QED
  BY <1>1, <1>2, TypeKept, ReceivingKept, LoopDoneKept, WholeUncheckedKept DEF IInv

\* IInv holds of every reachable state.
THEOREM Inductive == Spec => []IInv
BY InitIInv, NextKeepsIInv, PTL DEF Spec

\* Everything is of its type: no file ever grows past the largest version, and
\* progressWriter's counters never past twice that.
THEOREM TypeCorrect == Spec => []TypeOK
<1>1. IInv => TypeOK
  BY DEF IInv
<1>2. QED
  BY <1>1, Inductive, PTL

\* However Fetch is interrupted and resumed, no unit of a file is skipped,
\* repeated or out of order.
THEOREM UnitsInPlace == Spec => []InPlace
<1>1. IInv => InPlace
  BY DEF IInv, Sound, InPlace
<1>2. QED
  BY <1>1, Inductive, PTL

\* What Download reports verified is whole, and so is what it returns nil for.
THEOREM VerifiedWhole == Spec => []VerifiedIsWhole
<1>1. IInv => VerifiedIsWhole
  <2> SUFFICES ASSUME IInv PROVE VerifiedIsWhole
    OBVIOUS
  <2>1. /\ F \in Nat /\ Files = 1..F /\ cur \in 1..(F + 1)
        /\ verified \in Seq(BOOLEAN) /\ LoopDone /\ WholeUnchecked
    BY DownloadAssumption DEF IInv, TypeOK, Files
  <2>2. DOMAIN verified = 1..(cur - 1) /\ Len(verified) = cur - 1
    BY <2>1 DEF LoopDone
  <2>3. ASSUME NEW f \in DOMAIN verified, verified[f] PROVE disk[f] = WholeFile(pinned)
    <3>1. verified[f] = (pinned # None)
      BY <2>1, <2>2 DEF LoopDone
    <3>2. pinned # None
      BY <2>3, <3>1, Zenon
    <3>3. QED
      BY <2>1, <2>2, <3>2 DEF LoopDone
  <2>4. ASSUME pc = "ok"
        PROVE  /\ Len(verified) = F
               /\ IF pinned # None
                  THEN \A f \in Files : verified[f]
                  ELSE lengths /\ remote = 1 => \A f \in Files : disk[f] = WholeFile(1)
    <3>1. cur = F + 1 /\ Files = 1..(cur - 1)
      BY <2>1, <2>4 DEF LoopDone
    <3>2. ASSUME pinned # None, NEW f \in Files PROVE verified[f]
      <4>1. verified[f] = (pinned # None)
        BY <2>1, <3>1 DEF LoopDone
      <4>2. QED
        BY <3>2, <4>1, Zenon
    <3>3. pinned = None /\ lengths /\ remote = 1 => \A f \in Files : disk[f] = WholeFile(1)
      BY <2>1, <3>1 DEF WholeUnchecked
    <3>4. QED
      BY <2>1, <2>2, <3>1, <3>2, <3>3
  <2>5. QED
    BY <2>3, <2>4 DEF VerifiedIsWhole
<1>2. QED
  BY <1>1, Inductive, PTL

\* Bytes on disk are thrown away only for an answer that starts over, or by the
\* operator.
THEOREM ResumeKeepsBytes == Spec => OnlyRestartShrinks
<1> DEFINE Shrinks(f) ==
      Len(disk'[f]) < Len(disk[f]) =>
        \/ pc = "request" /\ pc' = "copy" /\ next' = 1
        \/ pc = "mismatch" /\ pc' = "idle"
<1>1. ASSUME IInv, [Next]_vars PROVE [\A f \in Files : Shrinks(f)]_vars
  <2> SUFFICES ASSUME NEW f \in Files PROVE Shrinks(f)
    OBVIOUS
  <2>1. disk[f] \in Seq(Versions \X Nat) /\ Len(disk[f]) \in Nat
    BY <1>1 DEF IInv
  <2>2. CASE disk' = disk
    BY <2>1, <2>2
  <2>3. CASE Received /\ pc = "copy" /\ cur \in Files
    <3>1. disk'[f] = disk[f] \/ disk'[f] = Append(disk[f], <<body, next>>)
      BY <1>1, <2>3 DEF Received, IInv
    <3>2. <<body, next>> \in Versions \X Nat
      BY <1>1, VersionFacts
    <3>3. Len(Append(disk[f], <<body, next>>)) = Len(disk[f]) + 1
      BY <2>1, <3>2
    <3>4. QED
      BY <2>1, <3>1, <3>3
  <2>4. QED
    BY <1>1, <2>2, <2>3, DiskStep
<1>2. QED
  BY <1>1, Inductive, PTL DEF Spec, OnlyRestartShrinks
=============================================================================
