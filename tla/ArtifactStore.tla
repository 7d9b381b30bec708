--------------------------- MODULE ArtifactStore ----------------------------
(***************************************************************************)
(* The artifact server (internal/artifactserver): the v3 and v4 protocols  *)
(* of actions/upload-artifact and download-artifact over one directory.    *)
(* The server keeps no state but its files, so two uploads meet in them    *)
(* alone; each request is handled by a goroutine of its own. Artifacts of  *)
(* one protocol under different names share no file, so there is one       *)
(* artifact a protocol.                                                    *)
(*                                                                         *)
(* A file is a sequence of units, each naming the upload it came from and  *)
(* its place there; Hole is a stretch nobody wrote.  A request to upload   *)
(* opens the file, creating it if need be, and writes later, so a deletion *)
(* can come in between: the handle then belongs to a file that no name     *)
(* refers to (an older incarnation).  The client is modelled from how the  *)
(* handlers use it: it sends the parts of its content, in any order and at *)
(* the same time, resends a part whose response it has not seen, and       *)
(* finishes when every part is acknowledged.                               *)
(***************************************************************************)
EXTENDS Integers, Sequences, FiniteSets, FiniteSetsExt, SequencesExt

CONSTANTS Uploads,      \* the uploads of one `mirror run`
          Kinds,        \* the kinds of upload considered
          Hole

\* length: of the content in units; parts: how many requests carry it;
\* gzip: the v3 client compressed it; overwrite: a v4 upload deletes first.
Kind == [proto : {"v3", "v4"}, length : Nat, parts : Nat, gzip : BOOLEAN,
         overwrite : BOOLEAN]

\* Some request carries the content, be it empty; v3 knows no deletion and
\* v4 declares no encoding.
ASSUME KindsAssumption ==
  \A k \in Kinds : /\ k \in Kind /\ k.parts \in {1, k.length} \ {0}
                   /\ k.proto = "v4" => ~k.gzip
                   /\ k.proto = "v3" => ~k.overwrite

Protos == {"v3", "v4"}

VARIABLES kind,         \* kind[u]
          status,       \* where the client of u stands
          files,        \* files[p, gz]: content, or <<>> with no such file
          exists,       \* the files that exist
          incarnation,  \* how often the v4 artifact has been deleted
          handling,     \* requests between the open and the write
          acked,        \* acked[u]: the parts the client knows are stored
          disturbed     \* the uploads another one of the item interfered with

vars == <<kind, status, files, exists, incarnation, handling, acked, disturbed>>

Statuses == {"idle", "cleared", "sending", "committed", "finished"}
Paths == Protos \X BOOLEAN
Path(u) == <<kind[u].proto, kind[u].gzip>>
MaxLength == Max({k.length : k \in Kinds})

TypeOK ==
  /\ kind \in [Uploads -> Kinds]
  /\ status \in [Uploads -> Statuses]
  /\ exists \subseteq Paths
  /\ \A p \in Paths : Len(files[p]) <= MaxLength
  /\ \A p \in Paths \ exists : files[p] = <<>>
  /\ incarnation \in 0..Cardinality(Uploads)
  /\ \A h \in handling : /\ h.upload \in Uploads
                         /\ h.part \in 1..kind[h.upload].parts
                         /\ h.incarnation \in 0..incarnation
  /\ \A u \in Uploads : acked[u] \subseteq 1..kind[u].parts
  /\ disturbed \subseteq Uploads

Init ==
  /\ kind \in [Uploads -> Kinds]
  /\ status = [u \in Uploads |-> "idle"]
  /\ files = [p \in Paths |-> <<>>]
  /\ exists = {}
  /\ incarnation = 0
  /\ handling = {}
  /\ acked = [u \in Uploads |-> {}]
  /\ disturbed = {}

-----------------------------------------------------------------------------
(* The store.                                                              *)

Content(u) == [n \in 1..kind[u].length |-> <<u, n>>]

\* The whole content, or its n-th unit.
Part(u, n) == IF kind[u].parts = 1 THEN Content(u) ELSE <<Content(u)[n]>>

\* Bytes beyond those written stay as they were; a seek past the end that
\* nothing is written after leaves the file as long as it was.
WriteAt(file, offset, units) ==
  [n \in 1..Max({Len(file), IF units = <<>> THEN 0 ELSE offset + Len(units)}) |->
     IF n \in offset + 1..offset + Len(units) THEN units[n - offset]
     ELSE IF n <= Len(file) THEN file[n] ELSE Hole]

\* v3 sends a Content-Range; every v4 block is written at offset 0.
Offset(u, n) == IF kind[u].proto = "v3" THEN n - 1 ELSE 0

-----------------------------------------------------------------------------
(* The requests that begin an upload.                                      *)

SameItem(u, v) == u # v /\ kind[u].proto = kind[v].proto

Active(v) == status[v] \in {"cleared", "sending", "committed"}

\* From here on u interferes with the uploads of its item, and those still
\* under way with u; finished ones only if u leaves their files in place.
Interfering(u) ==
  {v \in Uploads : SameItem(u, v) /\ status[v] # "idle"}
    \cup (IF \E v \in Uploads : /\ SameItem(u, v)
                                /\ \/ Active(v)
                                   \/ status[v] = "finished" /\ ~kind[u].overwrite
          THEN {u} ELSE {})

Begin(u, to) ==
  /\ status[u] = "idle"
  /\ status' = [status EXCEPT ![u] = to]
  /\ disturbed' = disturbed \cup Interfering(u)

\* v3: the server answers with a URL and remembers nothing.
Reserve(u) ==
  /\ kind[u].proto = "v3"
  /\ Begin(u, "sending")
  /\ UNCHANGED <<kind, files, exists, incarnation, handling, acked>>

DeleteNothing(u) ==
  /\ kind[u].proto = "v4" /\ kind[u].overwrite
  /\ Begin(u, "cleared")
  /\ UNCHANGED <<kind, files, exists, incarnation, handling, acked>>

\* The artifact's directory goes, with the blob in it.
DeleteArtifact(u) ==
  /\ kind[u].proto = "v4" /\ kind[u].overwrite
  /\ Begin(u, "cleared")
  /\ files' = [files EXCEPT ![Path(u)] = <<>>]
  /\ exists' = exists \ {Path(u)}
  /\ incarnation' = incarnation + 1
  /\ UNCHANGED <<kind, handling, acked>>

CreateArtifact(u) ==
  /\ kind[u].proto = "v4"
  /\ \/ ~kind[u].overwrite /\ Begin(u, "sending")
     \/ /\ status[u] = "cleared"
        /\ status' = [status EXCEPT ![u] = "sending"]
        /\ UNCHANGED disturbed
  /\ UNCHANGED <<kind, files, exists, incarnation, handling, acked>>

-----------------------------------------------------------------------------
(* The requests that carry content.                                        *)

IncarnationNow(u) == IF kind[u].proto = "v4" THEN incarnation ELSE 0

Requested(u, n) ==
  /\ status[u] = "sending" /\ n \in 1..kind[u].parts \ acked[u]
  /\ handling' = handling \cup {[upload |-> u, part |-> n,
                                 incarnation |-> IncarnationNow(u)]}
  /\ exists' = exists \cup {Path(u)}
  /\ UNCHANGED <<kind, status, incarnation, acked, disturbed>>

OpenTruncating(u, n) ==
  Requested(u, n) /\ files' = [files EXCEPT ![Path(u)] = <<>>]

\* Part n arrives for the first time, or again: O_CREATE without O_TRUNC.
Open(u, n) == Requested(u, n) /\ UNCHANGED files

Stored(h, units) ==
  IF h.incarnation = IncarnationNow(h.upload)
  THEN files' = [files EXCEPT ![Path(h.upload)] =
                   WriteAt(@, Offset(h.upload, h.part), units)]
  ELSE UNCHANGED files

\* The body is copied and the response sent; the client may not see it.
Write(h) ==
  /\ handling' = handling \ {h}
  /\ Stored(h, Part(h.upload, h.part))
  /\ \/ acked' = [acked EXCEPT ![h.upload] = @ \cup {h.part}]
     \/ UNCHANGED acked
  /\ UNCHANGED <<kind, status, exists, incarnation, disturbed>>

\* The body breaks off: what arrived of it stays, the response is an error.
BreakOff(h) ==
  /\ handling' = handling \ {h}
  /\ \E n \in 0..Len(Part(h.upload, h.part)) - 1 :
       Stored(h, SubSeq(Part(h.upload, h.part), 1, n))
  /\ UNCHANGED <<kind, status, exists, incarnation, acked, disturbed>>

-----------------------------------------------------------------------------
(* The requests that end an upload.                                        *)

AllAcked(u) == acked[u] = 1..kind[u].parts

\* comp=blocklist: a manifest the server takes no notice of.
CommitBlockList(u) ==
  /\ kind[u].proto = "v4" /\ status[u] = "sending" /\ AllAcked(u)
  /\ status' = [status EXCEPT ![u] = "committed"]
  /\ UNCHANGED <<kind, files, exists, incarnation, handling, acked, disturbed>>

\* FinalizeArtifact (v4) or PATCH artifacts (v3): the server has nothing to do.
Finalize(u) ==
  /\ \/ kind[u].proto = "v4" /\ status[u] = "committed"
     \/ kind[u].proto = "v3" /\ status[u] = "sending" /\ AllAcked(u)
  /\ status' = [status EXCEPT ![u] = "finished"]
  /\ UNCHANGED <<kind, files, exists, incarnation, handling, acked, disturbed>>

Quiet ==
  /\ \A u \in Uploads : status[u] = "finished"
  /\ handling = {}
  /\ UNCHANGED vars

Next ==
  \/ \E u \in Uploads :
       \/ Reserve(u) \/ DeleteArtifact(u) \/ CreateArtifact(u)
       \/ \E n \in 1..MaxLength : Open(u, n)
       \/ CommitBlockList(u) \/ Finalize(u)
  \/ \E h \in handling : Write(h) \/ BreakOff(h)
  \/ Quiet

Spec == Init /\ [][Next]_vars

-----------------------------------------------------------------------------
(* Downloading.                                                            *)

NotFound == [found |-> FALSE, body |-> <<>>, gzip |-> FALSE]

Body(path, gzip) == [found |-> TRUE, body |-> files[path], gzip |-> gzip]

\* The content encoding is declared only for a path asked for without the
\* .gz__ suffix that is there with it alone.
V3Download(suffix) ==
  CASE <<"v3", suffix>> \in exists -> Body(<<"v3", suffix>>, FALSE)
    [] ~suffix /\ <<"v3", FALSE>> \notin exists /\ <<"v3", TRUE>> \in exists ->
         Body(<<"v3", TRUE>>, TRUE)
    [] OTHER -> NotFound

V4Download ==
  IF <<"v4", FALSE>> \in exists THEN Body(<<"v4", FALSE>>, FALSE) ELSE NotFound

\* The files there are, each to be asked for by its own name, the suffix
\* included.
V3Listed == {suffix \in BOOLEAN : <<"v3", suffix>> \in exists}

V4Listed == {suffix \in {FALSE} : <<"v4", suffix>> \in exists}

Downloads(proto) ==
  IF proto = "v3" THEN {V3Download(suffix) : suffix \in V3Listed}
                  ELSE {V4Download : suffix \in V4Listed}

-----------------------------------------------------------------------------
(* Properties.                                                             *)

\* store.go of the artifact server: once a part is acknowledged its bytes
\* are where they belong, and no chunk out of order, no late or broken
\* resend of it and no request that outlived a deletion takes them away,
\* until another upload of the item interferes.
AcknowledgedIsStored ==
  \A u \in Uploads \ disturbed : \A n \in acked[u] :
    LET at == IF kind[u].parts = 1 THEN 1..kind[u].length ELSE {n} IN
    \A k \in at : k \in DOMAIN files[Path(u)] /\ files[Path(u)][k] = <<u, k>>

\* usage.md:250-258, and the round trips of v3_test.go and v4_test.go: what
\* is listed of an artifact after its upload has finished, and no other
\* upload of it has interfered, downloads as what was uploaded, nothing
\* missing, nothing of a deleted predecessor left, and compressed content
\* declared as such.
DownloadedAsUploaded ==
  \A u \in Uploads \ disturbed :
    status[u] = "finished" =>
      Downloads(kind[u].proto) =
        {[found |-> TRUE, body |-> Content(u), gzip |-> kind[u].gzip]}
=============================================================================
