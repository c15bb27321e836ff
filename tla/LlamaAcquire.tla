---------------------------- MODULE LlamaAcquire ----------------------------
(***************************************************************************)
(* What Acquirer.Acquire (internal/llama) does to the disk: the release    *)
(* archive, fetched under a name that carries the release tag, and the one *)
(* directory every release is unpacked into, entry by entry.               *)
(* ServerPrograms puts these operations in the order the code calls them.  *)
(***************************************************************************)
EXTENDS Naturals, Sequences

CONSTANTS
  Releases,   \* release tags
  Name        \* the base name of each entry of the archive, in archive order

ASSUME AcquireAssumption ==
  Releases \cap {"none", "torn"} = {} /\ Name \in Seq(STRING)

VARIABLES
  zips,       \* what is on disk of each release's archive
  dir         \* what is on disk of each entry: the release it is whole from,
              \* "torn" when it was truncated and not wholly written

Entries == DOMAIN Name
Nowhere == 0

AcquireTypeOK ==
  /\ zips \in [Releases -> {"none", "part", "whole", "bad"}]
  /\ dir \in [Entries -> Releases \cup {"none", "torn"}]

AcquireInit ==
  /\ zips = [r \in Releases |-> "none"]
  /\ dir = [e \in Entries |-> "none"]

(* Fetch: HTTPSource resumes what is there, takes a 416 for done, starts   *)
(* the file afresh where the answer is a 200, and does not look inside     *)
(* (ModelDownload models how a body gets mixed or cut).                    *)
Archive(r, is) == zips' = [zips EXCEPT ![r] = is]

FetchedWhole(r) == Archive(r, "whole") \/ (zips[r] = "bad" /\ UNCHANGED zips)
FetchedBad(r)   == Archive(r, "bad")
FetchFailed(r)  == Archive(r, "part") \/ UNCHANGED zips

\* zip.OpenReader needs the directory at the archive's end; a checksum is found
\* wrong only when the entry is copied.
Opens(r) == zips[r] \in {"whole", "bad"}

\* extractOne opens with O_CREATE|O_TRUNC...
Truncate(e) == dir' = [dir EXCEPT ![e] = "torn"]

\* ... and copies the entry, whose checksum the last read compares: in a bad archive
\* one of them, if no other then the last, is not what it should be.
Copies(e, r) == zips[r] = "whole" \/ e # Len(Name)
CopyFails(r) == zips[r] = "bad"
Write(e, r) == dir' = [dir EXCEPT ![e] = r]

serverBinaryRank ==
  [ n \in {"llama-server.exe", "llama-server", "server.exe", "server"} |->
      CASE n = "llama-server.exe" -> 0
        [] n = "llama-server"     -> 1
        [] n = "server.exe"       -> 2
        [] n = "server"           -> 3 ]

HasServer == \E e \in Entries : Name[e] \in DOMAIN serverBinaryRank

\* FindServerBinary: of the files with a known name, whole or torn, the best
\* ranked; of equals the first one met.
FindServerBinary ==
  LET found == {e \in Entries : dir[e] # "none" /\ Name[e] \in DOMAIN serverBinaryRank}
      Before(e, f) == LET a == serverBinaryRank[Name[e]]
                          b == serverBinaryRank[Name[f]]
                      IN a < b \/ (a = b /\ e <= f)
  IN IF found = {} THEN Nowhere ELSE CHOOSE e \in found : \A f \in found : Before(e, f)

\* The program's libraries are entries like itself; it runs when none is amiss.
Loads == \A e \in Entries : dir[e] \in Releases
=============================================================================
