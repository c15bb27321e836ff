--------------------------- MODULE ModelDownload ---------------------------
(***************************************************************************)
(* Downloader.Download over HTTPSource.Fetch (internal/model): the files   *)
(* of one model fetched in turn, each resumed from the bytes on disk and   *)
(* then checked.  A file is a sequence of units, <<version, place>>; the   *)
(* origin may publish a new version at any time.  The body arrives a unit  *)
(* at a time, and may be cut, or the program killed, after any of them.    *)
(***************************************************************************)
EXTENDS Integers, Sequences

CONSTANTS
  F,            \* number of the model's files
  Size,         \* Size[v] is the length of version v of each file
  MaxFaults     \* bound on failed requests, cut bodies and kills

None     == 0
Files    == 1..F
Versions == DOMAIN Size
Latest   == Len(Size)

ASSUME DownloadAssumption ==
  /\ F \in Nat \ {0} /\ Size \in Seq(Nat \ {0}) /\ Size # <<>>
  /\ MaxFaults \in Nat

VARIABLES
  pinned,    \* the version models.yaml has the checksums of, or None: fixed
  lengths,   \* whether the origin's responses carry their length: fixed
  pc,        \* "idle", "request", "copy", "check", or how the last run ended:
             \* "ok", "failed" (a transfer) or "mismatch" (a checksum)
  cur,       \* the file Download's loop is at
  disk,      \* the files, <<>> when missing or empty
  body,      \* the version being received
  next,      \* the next unit of it to come
  written,   \* progressWriter's count
  total,     \* progressWriter's total
  shown,     \* the last Progress reported for this file, or None
  verified,  \* Result.Verified of the files done in this run, in order
  remote,    \* the version the origin serves
  faults     \* how many faults have happened (bound)

pw    == <<body, next, written, total, shown>>
setup == <<pinned, lengths>>
vars  == <<setup, pc, cur, disk, pw, verified, remote, faults>>

WholeFile(v) == [k \in 1..Size[v] |-> <<v, k>>]
MaxSize == CHOOSE n \in {Size[v] : v \in Versions} : \A v \in Versions : Size[v] <= n

TypeOK ==
  /\ pinned \in Versions \cup {None} /\ lengths \in BOOLEAN
  /\ pc \in {"idle", "request", "copy", "check", "ok", "failed", "mismatch"}
  /\ cur \in 1..(F + 1)
  /\ \A f \in Files : disk[f] \in Seq(Versions \X (1..MaxSize)) /\ Len(disk[f]) <= MaxSize
  /\ body \in Versions /\ next \in 1..(MaxSize + 1)
  /\ written \in 0..(2 * MaxSize) /\ total \in -1..(2 * MaxSize)
  /\ shown \in 0..(2 * MaxSize)
  /\ verified \in Seq(BOOLEAN) /\ Len(verified) <= F
  /\ remote \in Versions /\ faults \in 0..MaxFaults

Init ==
  /\ pinned \in Versions \cup {None} /\ lengths \in BOOLEAN
  /\ pc = "idle" /\ cur = 1
  /\ disk = [f \in Files |-> <<>>]
  /\ body = 1 /\ next = 1 /\ written = 0 /\ total = 0 /\ shown = None
  /\ verified = <<>>
  /\ remote = 1
  /\ faults = 0

Fault == faults < MaxFaults /\ faults' = faults + 1

\* The installer calls Download: the loop starts at the first file.
Start ==
  /\ pc \in {"idle", "ok", "failed", "mismatch"}
  /\ pc' = "request" /\ cur' = 1 /\ verified' = <<>>
  /\ UNCHANGED <<setup, disk, pw, remote, faults>>

Have == Len(disk[cur])      \* the Range asked for starts here, if it is not 0

\* Fetch sends the request and openTarget looks at the status.
Respond(from, startsAt, t) ==
  /\ pc = "request" /\ cur \in Files
  /\ body' = remote /\ next' = from
  /\ disk' = [disk EXCEPT ![cur] = startsAt]
  /\ written' = Have /\ total' = t /\ shown' = None
  /\ pc' = "copy"
  /\ UNCHANGED <<setup, cur, verified, remote, faults>>

\* Mutant: 200 does not truncate the file.
RespondOKAppends == Respond(1, disk[cur], IF lengths THEN Size[remote] ELSE -1)

\* 200: there was no Range, or the server ignored it; the file is truncated.
\* http.Response.ContentLength is -1 when the length is unknown.
RespondOK == Respond(1, <<>>, IF lengths THEN Size[remote] ELSE -1)

\* Mutant: 206 truncates the file.
RespondPartialCreates ==
  /\ cur \in Files
  /\ Have \in 1..(Size[remote] - 1)
  /\ Respond(Have + 1, <<>>, Size[remote])

\* Mutant: 206 is taken to start from the beginning.
RespondPartialWhole ==
  /\ cur \in Files
  /\ Have \in 1..(Size[remote] - 1)
  /\ Respond(1, disk[cur], Size[remote])

\* 206: the rest is appended; the total is Content-Range's, or added up.
RespondPartial ==
  /\ cur \in Files
  /\ Have \in 1..(Size[remote] - 1)
  /\ \/ Respond(Have + 1, disk[cur], Size[remote])
     \/ Respond(Have + 1, disk[cur],
                Have + IF lengths THEN Size[remote] - Have ELSE -1)

\* Mutant: 416 is an error like any other status.
RespondNotSatisfiableFails ==
  /\ pc = "request" /\ cur \in Files
  /\ Have > 0 /\ Have >= Size[remote]
  /\ pc' = "failed"
  /\ UNCHANGED <<setup, cur, disk, pw, verified, remote, faults>>

\* 416: what is on disk is taken to be the whole file.
RespondNotSatisfiable ==
  /\ pc = "request" /\ cur \in Files
  /\ Have > 0 /\ Have >= Size[remote]
  /\ pc' = "check"
  /\ UNCHANGED <<setup, cur, disk, pw, verified, remote, faults>>

\* No answer, or any other status.
RequestFails ==
  /\ pc = "request" /\ cur \in Files
  /\ Fault
  /\ pc' = "failed"
  /\ UNCHANGED <<setup, cur, disk, pw, verified, remote>>

\* io.Copy through progressWriter.Write.
Copy ==
  /\ pc = "copy" /\ next <= Size[body]
  /\ disk' = [disk EXCEPT ![cur] = Append(@, <<body, next>>)]
  /\ next' = next + 1
  /\ written' = written + 1
  /\ shown' = written'
  /\ UNCHANGED <<setup, pc, cur, body, total, verified, remote, faults>>

EndOfBody ==
  /\ pc = "copy" /\ next > Size[body]
  /\ pc' = "check"
  /\ UNCHANGED <<setup, cur, disk, pw, verified, remote, faults>>

\* The connection drops: an error, but a body without a length may just end.
Cut ==
  /\ pc = "copy" /\ next <= Size[body]
  /\ Fault
  /\ \/ pc' = "failed"
     \/ ~lengths /\ pc' = "check"
  /\ UNCHANGED <<setup, cur, disk, pw, verified, remote>>

\* Mutant: only the length of the file is checked.
MatchesLength == pinned # None => Len(disk[cur]) = Size[pinned]

\* VerifySHA256, and the results of Download's loop.
Matches == pinned # None => disk[cur] = WholeFile(pinned)

Check ==
  /\ pc = "check"
  /\ \/ /\ Matches
        /\ verified' = Append(verified, pinned # None)
        /\ cur' = cur + 1 /\ pc' = "request"
     \/ /\ ~Matches
        /\ pc' = "mismatch"
        /\ UNCHANGED <<cur, verified>>
  /\ UNCHANGED <<setup, disk, pw, remote, faults>>

Return ==
  /\ pc = "request" /\ cur \notin Files
  /\ pc' = "ok"
  /\ UNCHANGED <<setup, cur, disk, pw, verified, remote, faults>>

Killed ==
  /\ pc \in {"request", "copy", "check"}
  /\ Fault
  /\ pc' = "idle"
  /\ UNCHANGED <<setup, cur, disk, pw, verified, remote>>

\* The origin publishes the next version under the same URL.
Publish ==
  /\ remote < Latest
  /\ remote' = remote + 1
  /\ UNCHANGED <<setup, pc, cur, disk, pw, verified, faults>>

\* "Delete the file and re-run install": what a mismatch asks the operator for.
DeleteFile ==
  /\ pc = "mismatch"
  /\ disk' = [disk EXCEPT ![cur] = <<>>]
  /\ pc' = "idle"
  /\ UNCHANGED <<setup, cur, pw, verified, remote, faults>>

Receive == \/ RespondOK \/ RespondPartial \/ RespondNotSatisfiable
           \/ Copy \/ EndOfBody \/ Check \/ Return

Next == Start \/ Receive \/ RequestFails \/ Cut \/ Killed \/ Publish \/ DeleteFile

Spec == Init /\ [][Next]_vars

\* A download under way goes on; the operator runs one that was interrupted
\* again, and does delete the file sooner or later when told to.
FairSpec ==
  /\ Spec
  /\ WF_vars(Receive)
  /\ WF_vars(Start /\ pc \in {"idle", "failed"})
  /\ SF_vars(DeleteFile)

-----------------------------------------------------------------------------
\* No cut, kill, restart or resume skips, repeats or reorders a unit: every file
\* on disk has its units in their places, and only ever older ones before newer.
InPlace ==
  \A f \in Files : \A k \in DOMAIN disk[f] :
    /\ disk[f][k][2] = k
    /\ k > 1 => disk[f][k - 1][1] <= disk[f][k][1]

\* A file Download calls verified is, whole, the version of the checksum --
\* also when the origin changed between an attempt and its resumption.  Download
\* returns nil only with every file done: verified where there are checksums, and
\* even without them whole, if the origin declares its lengths and never changed.
VerifiedIsWhole ==
  /\ \A f \in DOMAIN verified : verified[f] => disk[f] = WholeFile(pinned)
  /\ pc = "ok" =>
       /\ Len(verified) = F
       /\ IF pinned # None
          THEN \A f \in Files : verified[f]
          ELSE lengths /\ remote = 1 => \A f \in Files : disk[f] = WholeFile(1)

\* Resuming never throws bytes away: only an answer that ignored the Range does,
\* or the operator.
OnlyRestartShrinks ==
  [][\A f \in Files : Len(disk'[f]) < Len(disk[f]) =>
       \/ pc = "request" /\ pc' = "copy" /\ next' = 1
       \/ pc = "mismatch" /\ pc' = "idle"]_vars

\* However often it was interrupted, and whatever the origin served meanwhile, a
\* download that is run again succeeds once the origin serves what is pinned.
EventuallyDownloaded == <>[](pinned \in {None, remote}) => <>(pc = "ok")
=============================================================================
