------------------------ MODULE ArtifactStoreProofs --------------------------
(***************************************************************************)
(* Theorems about the artifact server, for every number of uploads and     *)
(* every kind of content, of any length and in any number of v3 chunks.    *)
(***************************************************************************)
EXTENDS ArtifactStore, SequenceTheorems, TLAPS

\* What the server keeps whole (ArtifactStoreBlocks.cfg shows what it does
\* not): a v4 artifact comes in one block, and nothing is compressed.
OneBlock == \A k \in Kinds : k.proto = "v4" => k.parts = 1
Uncompressed == \A k \in Kinds : ~k.gzip

-----------------------------------------------------------------------------
(* The parts of the inductive invariant.                                   *)

Unit == (Uploads \X Nat) \cup {Hole}

Handled == [upload : Uploads, part : Nat, incarnation : Nat]

Typed ==
  /\ kind \in [Uploads -> Kinds]
  /\ status \in [Uploads -> Statuses]
  /\ files \in [Paths -> Seq(Unit)]
  /\ exists \subseteq Paths
  /\ incarnation \in Nat
  /\ handling \subseteq Handled
  /\ acked \in [Uploads -> SUBSET Nat]
  /\ disturbed \subseteq Uploads

\* A file that is there was opened by an upload, and one that is not has no
\* content.
FilesInv ==
  /\ \A p \in exists : \E u \in Uploads : status[u] # "idle" /\ Path(u) = p
  /\ \A p \in Paths \ exists : files[p] = <<>>

\* Requests come from uploads that have been announced; what they opened is
\* there, unless the artifact has been deleted since.
RequestOK(h) ==
  /\ status[h.upload] \in {"sending", "committed", "finished"}
  /\ h.part \in 1..kind[h.upload].parts
  /\ h.incarnation <= IncarnationNow(h.upload)
  /\ h.incarnation = IncarnationNow(h.upload) => Path(h.upload) \in exists

\* The client ends an upload when all is acknowledged.
AckOK(u) ==
  /\ acked[u] \subseteq 1..kind[u].parts
  /\ status[u] \in {"idle", "cleared"} => acked[u] = {}
  /\ status[u] \in {"committed", "finished"} => AllAcked(u)

ProtocolInv == (\A h \in handling : RequestOK(h)) /\ (\A u \in Uploads : AckOK(u))

\* No other upload of the item of u has a request left that can reach its file.
Alone(u) ==
  /\ \A v \in Uploads : SameItem(u, v) =>
       \/ status[v] = "idle"
       \/ status[v] = "finished" /\ kind[u].overwrite
  /\ \A h \in handling : SameItem(u, h.upload) => h.incarnation # IncarnationNow(u)

\* The places of the units that part n carries.
Places(u, n) == IF kind[u].parts = 1 THEN 1..kind[u].length ELSE {n}

\* The file of u holds units of u only, among them those acknowledged.
Intact(u) ==
  /\ \A h \in handling : h.upload = u => h.incarnation = IncarnationNow(u)
  /\ acked[u] # {} => Path(u) \in exists
  /\ \A k \in DOMAIN files[Path(u)] :
       k <= kind[u].length /\ files[Path(u)][k] \in {<<u, k>>, Hole}
  /\ \A n \in acked[u] : \A k \in Places(u, n) :
       k \in DOMAIN files[Path(u)] /\ files[Path(u)][k] = <<u, k>>

SureInv ==
  \A u \in Uploads \ disturbed : status[u] # "idle" => Alone(u) /\ Intact(u)

IInv == Typed /\ FilesInv /\ ProtocolInv /\ SureInv

-----------------------------------------------------------------------------
(* Contents and files.                                                     *)

LEMMA KindFields ==
  ASSUME Typed, NEW u \in Uploads
  PROVE  /\ kind[u] \in Kinds /\ kind[u].proto \in Protos /\ kind[u].gzip \in BOOLEAN
         /\ kind[u].length \in Nat /\ kind[u].parts \in Nat \ {0}
         /\ kind[u].parts \in {1, kind[u].length}
         /\ kind[u].proto = "v4" => ~kind[u].gzip
         /\ kind[u].proto = "v3" => ~kind[u].overwrite
         /\ Path(u) \in Paths
<1>1. kind[u] \in Kinds
  BY DEF Typed
<1>2. kind[u].proto \in Protos /\ kind[u].gzip \in BOOLEAN
  BY <1>1, KindsAssumption DEF Kind, Protos
<1>3. kind[u].length \in Nat /\ kind[u].parts \in Nat
  BY <1>1, KindsAssumption DEF Kind
<1>4. Path(u) \in Paths
  BY <1>2 DEF Path, Paths
<1> QED
  BY <1>1, <1>2, <1>3, <1>4, KindsAssumption

\* In one item, two uploads write to the same incarnation or to none.
LEMMA SameItemSameIncarnation ==
  ASSUME NEW u \in Uploads, NEW v \in Uploads, kind[u].proto = kind[v].proto
  PROVE  IncarnationNow(u) = IncarnationNow(v)
BY DEF IncarnationNow

\* A part is a run of units of the content, from its offset on.
LEMMA PartIs ==
  ASSUME Typed, OneBlock, NEW u \in Uploads, NEW n \in 1..kind[u].parts
  PROVE  /\ Part(u, n) \in Seq(Unit) /\ Offset(u, n) \in Nat
         /\ Offset(u, n) + Len(Part(u, n)) <= kind[u].length
         /\ \A i \in 1..Len(Part(u, n)) : Part(u, n)[i] = <<u, Offset(u, n) + i>>
         /\ Places(u, n) = Offset(u, n) + 1..Offset(u, n) + Len(Part(u, n))
<1>1. kind[u].length \in Nat /\ kind[u].parts \in Nat
  BY KindFields
<1>2. \A k \in 1..kind[u].length : <<u, k>> \in Unit
  BY <1>1 DEF Unit
<1>3. CASE kind[u].parts = 1
  <2>1. Part(u, n) = [k \in 1..kind[u].length |-> <<u, k>>]
    BY <1>3 DEF Part, Content
  <2>2. Offset(u, n) = 0
    BY <1>3 DEF Offset
  <2>3. Part(u, n) \in Seq(Unit) /\ Len(Part(u, n)) = kind[u].length
    BY <1>1, <1>2, <2>1
  <2> QED
    BY <1>1, <1>3, <2>1, <2>2, <2>3 DEF Places
<1>4. CASE kind[u].parts # 1
  <2>1. kind[u].parts = kind[u].length /\ kind[u].proto = "v3"
    BY <1>4, KindFields DEF OneBlock, Protos
  <2>2. Part(u, n) = << <<u, n>> >>
    BY <1>4, <2>1 DEF Part, Content
  <2>3. Offset(u, n) = n - 1
    BY <2>1 DEF Offset
  <2>4. Part(u, n) \in Seq(Unit) /\ Len(Part(u, n)) = 1 /\ Part(u, n)[1] = <<u, n>>
    BY <1>1, <1>2, <2>1, <2>2
  <2>5. n \in 1..kind[u].length
    BY <2>1
  <2> QED
    BY <1>1, <1>4, <2>3, <2>4, <2>5 DEF Places
<1> QED
  BY <1>3, <1>4

LEMMA MaxOfTwo ==
  ASSUME NEW a \in Nat, NEW b \in Nat
  PROVE  Max({a, b}) = IF a >= b THEN a ELSE b
BY DEF Max

\* What a write of s at o leaves of the file f and what it puts there.
IsWrite(W, f, o, s) ==
  /\ W \in Seq(Unit)
  /\ \A k \in DOMAIN f : k \in DOMAIN W
  /\ \A k \in o + 1..o + Len(s) : k \in DOMAIN W /\ W[k] = s[k - o]
  /\ \A k \in DOMAIN W : k \notin o + 1..o + Len(s) =>
       \/ k \in DOMAIN f /\ W[k] = f[k]
       \/ k \notin DOMAIN f /\ W[k] = Hole
  /\ \A k \in DOMAIN W : k \in DOMAIN f \/ (k <= o + Len(s) /\ Len(s) # 0)

LEMMA WriteAtIs ==
  ASSUME NEW f \in Seq(Unit), NEW o \in Nat, NEW s \in Seq(Unit)
  PROVE  IsWrite(WriteAt(f, o, s), f, o, s)
<1> DEFINE W == WriteAt(f, o, s)
           m == Max({Len(f), IF s = <<>> THEN 0 ELSE o + Len(s)})
           Value(k) == IF k \in o + 1..o + Len(s) THEN s[k - o]
                       ELSE IF k <= Len(f) THEN f[k] ELSE Hole
<1>1. Len(f) \in Nat /\ Len(s) \in Nat /\ (s = <<>> <=> Len(s) = 0) /\ DOMAIN f = 1..Len(f)
  OBVIOUS
<1>2. /\ Len(s) = 0 => m = Len(f)
      /\ Len(s) # 0 => m = IF Len(f) >= o + Len(s) THEN Len(f) ELSE o + Len(s)
  <2>1. CASE Len(s) = 0
    BY <1>1, <2>1, MaxOfTwo
  <2>2. CASE Len(s) # 0
    <3>1. o + Len(s) \in Nat /\ m = Max({Len(f), o + Len(s)})
      BY <1>1, <2>2
    <3> HIDE DEF m
    <3> QED
      BY <1>1, <2>2, <3>1, MaxOfTwo
  <2> QED
    BY <2>1, <2>2
<1> HIDE DEF m
<1>3. /\ m \in Nat /\ Len(f) <= m
      /\ Len(s) # 0 => o + Len(s) <= m
      /\ m <= Len(f) \/ (m <= o + Len(s) /\ Len(s) # 0)
  BY <1>1, <1>2
<1>4. W = [k \in 1..m |-> Value(k)]
  BY DEF WriteAt, m
<1> HIDE DEF W
<1>5. ASSUME NEW k \in o + 1..o + Len(s)
      PROVE  k \in 1..m /\ Value(k) = s[k - o] /\ Value(k) \in Unit
  <2>1. k - o \in 1..Len(s) /\ k \in 1..m
    BY <1>1, <1>3
  <2>2. Value(k) = s[k - o]
    OBVIOUS
  <2> QED
    BY <2>1, <2>2
<1>6. ASSUME NEW k \in Nat \ {0}, k \notin o + 1..o + Len(s)
      PROVE  Value(k) = (IF k \in DOMAIN f THEN f[k] ELSE Hole) /\ Value(k) \in Unit
  <2>1. CASE k \in DOMAIN f
    BY <1>1, <1>6, <2>1
  <2>2. CASE k \notin DOMAIN f
    BY <1>1, <1>6, <2>2 DEF Unit
  <2> QED
    BY <2>1, <2>2
<1>7. \A k \in 1..m : Value(k) \in Unit
  BY <1>3, <1>5, <1>6
<1> HIDE DEF Value
<1>8. W \in Seq(Unit) /\ DOMAIN W = 1..m /\ \A k \in 1..m : W[k] = Value(k)
  BY <1>3, <1>4, <1>7
<1>9. \A k \in DOMAIN f : k \in DOMAIN W
  BY <1>1, <1>3, <1>8
<1>10. \A k \in o + 1..o + Len(s) : k \in DOMAIN W /\ W[k] = s[k - o]
  BY <1>5, <1>8
<1>11. \A k \in DOMAIN W : k \notin o + 1..o + Len(s) =>
         \/ k \in DOMAIN f /\ W[k] = f[k]
         \/ k \notin DOMAIN f /\ W[k] = Hole
  BY <1>3, <1>6, <1>8
<1>12. \A k \in DOMAIN W : k \in DOMAIN f \/ (k <= o + Len(s) /\ Len(s) # 0)
  BY <1>1, <1>3, <1>8
<1> QED
  BY <1>8, <1>9, <1>10, <1>11, <1>12 DEF IsWrite, W

-----------------------------------------------------------------------------
(* The steps.                                                              *)

LEMMA ExceptType ==
  ASSUME NEW A, NEW B, NEW f \in [A -> B], NEW a, NEW b \in B
  PROVE  [f EXCEPT ![a] = b] \in [A -> B]
OBVIOUS

LEMMA StoredIs ==
  ASSUME NEW h \in handling, NEW units, Stored(h, units)
  PROVE  /\ h.incarnation = IncarnationNow(h.upload) =>
              files' = [files EXCEPT ![Path(h.upload)] =
                          WriteAt(files[Path(h.upload)], Offset(h.upload, h.part), units)]
         /\ h.incarnation # IncarnationNow(h.upload) => files' = files
BY DEF Stored

\* What a request brings: its part or what arrived of it.
Carried(h, units) ==
  /\ units \in Seq(Unit)
  /\ Len(units) <= Len(Part(h.upload, h.part))
  /\ \A i \in 1..Len(units) : units[i] = Part(h.upload, h.part)[i]

LEMMA Handles ==
  ASSUME Typed, ProtocolInv, NEW h \in handling
  PROVE  /\ h.upload \in Uploads /\ h.part \in 1..kind[h.upload].parts
         /\ h.incarnation \in Nat /\ RequestOK(h)
BY DEF Typed, ProtocolInv, RequestOK, Handled

\* A write or a break-off of h is a store of what h carries.
LEMMA WriteCarries ==
  ASSUME Typed, OneBlock, ProtocolInv, NEW h \in handling, Write(h) \/ BreakOff(h)
  PROVE  /\ \E units : Carried(h, units) /\ Stored(h, units)
         /\ \/ acked' = acked
            \/ /\ acked' = [acked EXCEPT ![h.upload] = @ \cup {h.part}]
               /\ Stored(h, Part(h.upload, h.part))
         /\ handling' = handling \ {h}
         /\ UNCHANGED <<kind, status, exists, incarnation, disturbed>>
<1> DEFINE P == Part(h.upload, h.part)
<1>1. P \in Seq(Unit)
  BY Handles, PartIs
<1>2. CASE Write(h)
  <2>1. Carried(h, P)
    BY <1>1 DEF Carried
  <2> QED
    BY <1>2, <2>1 DEF Write
<1>3. CASE BreakOff(h)
  <2>1. PICK n \in 0..Len(P) - 1 : Stored(h, SubSeq(P, 1, n))
    BY <1>3 DEF BreakOff
  <2> HIDE DEF P
  <2>2. /\ SubSeq(P, 1, n) \in Seq(Unit) /\ Len(SubSeq(P, 1, n)) = n
        /\ \A i \in 1..n : SubSeq(P, 1, n)[i] = P[i]
    BY <1>1, SubSeqProperties
  <2>3. Carried(h, SubSeq(P, 1, n))
    BY <1>1, <2>2 DEF Carried, P
  <2> QED
    BY <1>3, <2>1, <2>3 DEF BreakOff
<1> QED
  BY <1>2, <1>3

LEMMA TypeStep == ASSUME OneBlock, Typed, ProtocolInv, [Next]_vars PROVE Typed'
<1> USE DEF Typed
<1>1. CASE UNCHANGED vars
  BY <1>1 DEF vars
<1>2. ASSUME NEW u \in Uploads, NEW to \in Statuses, Begin(u, to)
      PROVE  status' \in [Uploads -> Statuses] /\ disturbed' \subseteq Uploads
  BY <1>2 DEF Begin, Interfering
<1>3. ASSUME NEW u \in Uploads, Reserve(u) PROVE Typed'
  BY <1>2, <1>3 DEF Reserve, Statuses
<1>4. ASSUME NEW u \in Uploads, DeleteArtifact(u) PROVE Typed'
  <2>1. files' \in [Paths -> Seq(Unit)]
    <3>1. << >> \in Seq(Unit)
      OBVIOUS
    <3> QED
      BY <1>4, <3>1, ExceptType DEF DeleteArtifact
  <2> QED
    BY <1>2, <1>4, <2>1 DEF DeleteArtifact, Statuses
<1>5. ASSUME NEW u \in Uploads, CreateArtifact(u) PROVE Typed'
  BY <1>2, <1>5 DEF CreateArtifact, Statuses
<1>6. ASSUME NEW u \in Uploads, NEW n \in 1..MaxLength, Open(u, n) PROVE Typed'
  <2>1. n \in Nat
    BY <1>6, KindFields DEF Open, Requested
  <2>2. IncarnationNow(u) \in Nat
    BY DEF IncarnationNow
  <2>3. [upload |-> u, part |-> n, incarnation |-> IncarnationNow(u)] \in Handled
    BY <2>1, <2>2 DEF Handled
  <2> QED
    BY <1>6, <2>3, KindFields DEF Open, Requested
<1>7. ASSUME NEW u \in Uploads, CommitBlockList(u) \/ Finalize(u) PROVE Typed'
  BY <1>7 DEF CommitBlockList, Finalize, Statuses
<1>8. ASSUME NEW h \in handling, Write(h) \/ BreakOff(h) PROVE Typed'
  <2>1. PICK units : Carried(h, units) /\ Stored(h, units)
    BY <1>8, WriteCarries
  <2>2. /\ h.upload \in Uploads /\ Path(h.upload) \in Paths /\ h.part \in Nat
        /\ Offset(h.upload, h.part) \in Nat
    BY Handles, PartIs, KindFields, SMTT(30)
  <2>3. WriteAt(files[Path(h.upload)], Offset(h.upload, h.part), units) \in Seq(Unit)
    BY <2>1, <2>2, WriteAtIs DEF Carried, IsWrite
  <2>4. files' \in [Paths -> Seq(Unit)]
    <3> DEFINE new == WriteAt(files[Path(h.upload)], Offset(h.upload, h.part), units)
    <3>1. files' = files \/ files' = [files EXCEPT ![Path(h.upload)] = new]
      BY <2>1, StoredIs
    <3> HIDE DEF new
    <3>2. new \in Seq(Unit)
      BY <2>3 DEF new
    <3> QED
      BY <3>1, <3>2, ExceptType
  <2>5. acked' \in [Uploads -> SUBSET Nat]
    <3>1. acked[h.upload] \cup {h.part} \in SUBSET Nat
      BY <2>2
    <3>2. acked' = acked \/ acked' = [acked EXCEPT ![h.upload] = acked[h.upload] \cup {h.part}]
      BY <1>8, WriteCarries
    <3> QED
      BY <3>1, <3>2, ExceptType
  <2> QED
    BY <1>8, <2>4, <2>5, WriteCarries
<1> QED
  BY <1>1, <1>3, <1>4, <1>5, <1>6, <1>7, <1>8 DEF Next, Quiet

\* The kind of an upload stays, and it does not become idle again.
LEMMA Onward ==
  ASSUME OneBlock, Typed, ProtocolInv, [Next]_vars
  PROVE  kind' = kind /\ \A u \in Uploads : status[u] # "idle" => status'[u] # "idle"
<1> USE DEF Typed
<1>1. CASE UNCHANGED vars
  BY <1>1 DEF vars
<1>2. ASSUME NEW u \in Uploads, Reserve(u) \/ DeleteArtifact(u) \/ CreateArtifact(u)
      PROVE  kind' = kind /\ \A v \in Uploads : status[v] # "idle" => status'[v] # "idle"
  BY <1>2 DEF Reserve, DeleteArtifact, CreateArtifact, Begin
<1>3. ASSUME NEW u \in Uploads, NEW n, Open(u, n) PROVE kind' = kind /\ status' = status
  BY <1>3 DEF Open, Requested
<1>4. ASSUME NEW u \in Uploads, CommitBlockList(u) \/ Finalize(u)
      PROVE  kind' = kind /\ \A v \in Uploads : status[v] # "idle" => status'[v] # "idle"
  BY <1>4 DEF CommitBlockList, Finalize
<1>5. ASSUME NEW h \in handling, Write(h) \/ BreakOff(h) PROVE kind' = kind /\ status' = status
  BY <1>5, WriteCarries
<1> QED
  BY <1>1, <1>2, <1>3, <1>4, <1>5 DEF Next, Quiet

LEMMA FilesStep ==
  ASSUME OneBlock, Typed, ProtocolInv, FilesInv, [Next]_vars PROVE FilesInv'
<1> USE DEF Typed
<1>1. \A u \in Uploads : Path(u)' = Path(u)
  BY Onward DEF Path
<1>2. ASSUME exists' \subseteq exists, \A p \in Paths \ exists' : files'[p] = << >>
      PROVE  FilesInv'
  BY <1>1, <1>2, Onward DEF FilesInv
<1>3. ASSUME exists' = exists, files' = files PROVE FilesInv'
  BY <1>2, <1>3 DEF FilesInv
<1>4. ASSUME NEW u \in Uploads, DeleteArtifact(u) PROVE FilesInv'
  <2>1. \A p \in Paths \ exists' : files'[p] = << >>
    BY <1>4 DEF DeleteArtifact, FilesInv
  <2> QED
    BY <1>2, <1>4, <2>1 DEF DeleteArtifact
<1>5. ASSUME NEW u \in Uploads, NEW n, Open(u, n) PROVE FilesInv'
  <2>1. exists' = exists \cup {Path(u)} /\ files' = files /\ status[u] # "idle"
    BY <1>5 DEF Open, Requested
  <2> QED
    BY <1>1, <2>1, Onward DEF FilesInv
<1>6. ASSUME NEW h \in handling, Write(h) \/ BreakOff(h) PROVE FilesInv'
  <2>1. PICK units : Carried(h, units) /\ Stored(h, units)
    BY <1>6, WriteCarries
  <2>2. exists' = exists
    BY <1>6, WriteCarries
  <2>3. CASE h.incarnation # IncarnationNow(h.upload)
    BY <1>3, <2>1, <2>2, <2>3, StoredIs
  <2>4. CASE h.incarnation = IncarnationNow(h.upload)
    <3>1. Path(h.upload) \in exists
      BY <2>4, Handles DEF RequestOK
    <3>2. \A p \in Paths : p # Path(h.upload) => files'[p] = files[p]
      BY <2>1, <2>4, StoredIs
    <3> QED
      BY <1>2, <2>2, <3>1, <3>2 DEF FilesInv
  <2> QED
    BY <2>3, <2>4
<1>7. ASSUME NEW u \in Uploads,
             Reserve(u) \/ CreateArtifact(u) \/ CommitBlockList(u) \/ Finalize(u)
      PROVE  FilesInv'
  BY <1>3, <1>7 DEF Reserve, CreateArtifact, CommitBlockList, Finalize
<1>8. CASE UNCHANGED vars
  BY <1>3, <1>8 DEF vars
<1> QED
  BY <1>4, <1>5, <1>6, <1>7, <1>8 DEF Next, Quiet

\* Only the deletion of the v4 artifact begins another incarnation.
LEMMA IncarnationGrows ==
  ASSUME OneBlock, Typed, ProtocolInv, [Next]_vars
  PROVE  \A u \in Uploads :
           /\ IncarnationNow(u) \in Nat
           /\ \/ IncarnationNow(u)' = IncarnationNow(u)
              \/ /\ IncarnationNow(u)' = IncarnationNow(u) + 1 /\ kind[u].proto = "v4"
                 /\ \E w \in Uploads : DeleteArtifact(w)
<1> USE DEF Typed
<1>1. incarnation' = incarnation \/ \E w \in Uploads : DeleteArtifact(w)
  <2>1. \A h \in handling : Write(h) \/ BreakOff(h) => incarnation' = incarnation
    BY WriteCarries
  <2> QED
    BY <2>1 DEF Next, Quiet, vars, Reserve, CreateArtifact, Open, Requested,
                CommitBlockList, Finalize
<1>2. \A w \in Uploads : DeleteArtifact(w) => incarnation' = incarnation + 1
  BY DEF DeleteArtifact
<1> QED
  BY <1>1, <1>2, Onward DEF IncarnationNow

LEMMA AckStep ==
  ASSUME OneBlock, Typed, ProtocolInv, [Next]_vars, NEW v \in Uploads PROVE AckOK(v)'
<1> USE DEF Typed
<1>1. AckOK(v) /\ kind'[v] = kind[v]
  BY Onward DEF ProtocolInv
<1>2. ASSUME acked'[v] = acked[v], status'[v] = status[v] PROVE AckOK(v)'
  BY <1>1, <1>2 DEF AckOK, AllAcked
<1>3. ASSUME NEW u \in Uploads, Reserve(u) \/ DeleteArtifact(u) \/ CreateArtifact(u)
      PROVE  AckOK(v)'
  <2>1. acked' = acked /\ (u # v => status'[v] = status[v])
    BY <1>3 DEF Reserve, DeleteArtifact, CreateArtifact, Begin
  <2>2. ASSUME u = v
        PROVE  status[v] \in {"idle", "cleared"} /\ status'[v] \in {"cleared", "sending"}
    BY <1>3, <2>2 DEF Reserve, DeleteArtifact, CreateArtifact, Begin
  <2> QED
    BY <1>1, <1>2, <2>1, <2>2 DEF AckOK
<1>4. ASSUME NEW u \in Uploads, NEW n, Open(u, n) PROVE AckOK(v)'
  BY <1>2, <1>4 DEF Open, Requested
<1>5. ASSUME NEW u \in Uploads, CommitBlockList(u) \/ Finalize(u) PROVE AckOK(v)'
  <2>1. acked' = acked /\ (u # v => status'[v] = status[v])
    BY <1>5 DEF CommitBlockList, Finalize
  <2>2. ASSUME u = v PROVE AllAcked(v) /\ status'[v] \in {"committed", "finished"}
    BY <1>1, <1>5, <2>2 DEF CommitBlockList, Finalize, AckOK
  <2> QED
    BY <1>1, <1>2, <2>1, <2>2 DEF AckOK, AllAcked
<1>6. ASSUME NEW h \in handling, Write(h) \/ BreakOff(h) PROVE AckOK(v)'
  <2>1. status' = status
    BY <1>6, WriteCarries
  <2>2. CASE acked'[v] = acked[v]
    BY <1>2, <2>1, <2>2
  <2>3. CASE acked'[v] # acked[v]
    <3>1. v = h.upload /\ acked'[v] = acked[v] \cup {h.part}
      BY <1>6, <2>3, WriteCarries, Handles
    <3>2. h.part \in 1..kind[v].parts /\ status[v] \in {"sending", "committed", "finished"}
      BY <3>1, Handles DEF RequestOK
    <3> QED
      BY <1>1, <2>1, <3>1, <3>2 DEF AckOK, AllAcked
  <2> QED
    BY <2>2, <2>3
<1>7. CASE UNCHANGED vars
  BY <1>2, <1>7 DEF vars
<1> QED
  BY <1>3, <1>4, <1>5, <1>6, <1>7 DEF Next, Quiet

LEMMA RequestStep ==
  ASSUME OneBlock, Typed, ProtocolInv, [Next]_vars, NEW h \in handling' PROVE RequestOK(h)'
<1> USE DEF Typed
<1> DEFINE u == h.upload
<1>1. CASE h \in handling
  <2>1. RequestOK(h) /\ u \in Uploads /\ kind'[u] = kind[u] /\ Path(u)' = Path(u)
    BY <1>1, Handles, Onward DEF Path
  <2>2. status'[u] \in {"sending", "committed", "finished"}
    <3>1. status[u] \in {"sending", "committed", "finished"}
      BY <2>1 DEF RequestOK
    <3>2. \A g \in handling : Write(g) \/ BreakOff(g) => status' = status
      BY WriteCarries
    <3> QED
      BY <2>1, <3>1, <3>2 DEF Next, Quiet, vars, Reserve, DeleteArtifact, CreateArtifact, Begin,
         Open, Requested, CommitBlockList, Finalize
  <2>3. CASE IncarnationNow(u)' = IncarnationNow(u)
    <3>1. Path(u) \in exists => Path(u) \in exists'
      <4>1. \A g \in handling : Write(g) \/ BreakOff(g) => exists' = exists
        BY WriteCarries
      <4>2. ASSUME NEW w \in Uploads, DeleteArtifact(w) PROVE Path(u) # Path(w)
        <5>1. kind[u].proto # "v4" /\ kind[w].proto = "v4"
          BY <2>1, <2>3, <4>2 DEF DeleteArtifact, IncarnationNow
        <5> QED
          BY <5>1 DEF Path
      <4> QED
        BY <4>1, <4>2 DEF Next, Quiet, vars, Reserve, DeleteArtifact, CreateArtifact,
           Open, Requested, CommitBlockList, Finalize
    <3> QED
      BY <2>1, <2>2, <2>3, <3>1 DEF RequestOK
  <2>4. CASE IncarnationNow(u)' # IncarnationNow(u)
    <3>1. IncarnationNow(u)' = IncarnationNow(u) + 1 /\ IncarnationNow(u) \in Nat
      BY <2>1, <2>4, IncarnationGrows
    <3>2. h.incarnation \in Nat
      BY <1>1, Handles
    <3> QED
      BY <2>1, <2>2, <3>1, <3>2 DEF RequestOK
  <2> QED
    BY <2>3, <2>4
<1>2. CASE h \notin handling
  <2>1. PICK w \in Uploads, n \in 1..MaxLength :
          Open(w, n) /\ h = [upload |-> w, part |-> n, incarnation |-> IncarnationNow(w)]
    <3>1. \A g \in handling : Write(g) \/ BreakOff(g) => handling' = handling \ {g}
      BY WriteCarries
    <3>2. \A w \in Uploads, n \in 1..MaxLength : Open(w, n) =>
            handling' = handling \cup
              {[upload |-> w, part |-> n, incarnation |-> IncarnationNow(w)]}
      BY DEF Open, Requested
    <3> QED
      BY <1>2, <3>1, <3>2 DEF Next, Quiet, vars, Reserve, DeleteArtifact, CreateArtifact,
         CommitBlockList, Finalize
  <2>2. /\ h.upload = w /\ h.part = n /\ h.incarnation = IncarnationNow(w)
        /\ IncarnationNow(w)' = IncarnationNow(w) /\ IncarnationNow(w) \in Nat
        /\ status'[w] = "sending" /\ n \in 1..kind'[w].parts
        /\ Path(w)' \in exists'
    BY <2>1 DEF Open, Requested, IncarnationNow, Path
  <2> QED
    BY <2>2 DEF RequestOK
<1> QED
  BY <1>1, <1>2

-----------------------------------------------------------------------------
(* The uploads nothing has interfered with.                                *)

LEMMA OthersFile ==
  ASSUME NEW u, NEW w, kind[u].proto # kind[w].proto PROVE Path(u) # Path(w)
BY DEF Path

LEMMA Untouched ==
  ASSUME NEW u \in Uploads, Alone(u), Intact(u), kind' = kind, acked'[u] = acked[u],
         files'[Path(u)] = files[Path(u)], IncarnationNow(u)' = IncarnationNow(u),
         Path(u) \in exists => Path(u) \in exists', handling' \subseteq handling,
         \A v \in Uploads : SameItem(u, v) => status'[v] = status[v]
  PROVE  Alone(u)' /\ Intact(u)'
<1>1. Path(u)' = Path(u) /\ \A n : Places(u, n)' = Places(u, n)
  BY DEF Path, Places
<1>2. \A v : SameItem(u, v)' <=> SameItem(u, v)
  BY DEF SameItem
<1>3. Alone(u)'
  BY <1>2 DEF Alone
<1>4. Intact(u)'
  BY <1>1 DEF Intact
<1> QED
  BY <1>3, <1>4

\* A store into another item, or by a request that outlived a deletion,
\* does not reach the file of u.
LEMMA StoresElsewhere ==
  ASSUME Typed, ProtocolInv, NEW u \in Uploads, Alone(u), NEW h \in handling, h.upload # u,
         NEW units, Stored(h, units)
  PROVE  files'[Path(u)] = files[Path(u)]
<1>1. h.upload \in Uploads /\ Path(u) \in Paths
  BY Handles, KindFields
<1>2. CASE kind[h.upload].proto = kind[u].proto
  <2>1. h.incarnation # IncarnationNow(u) /\ IncarnationNow(u) = IncarnationNow(h.upload)
    BY <1>1, <1>2, SameItemSameIncarnation DEF Alone, SameItem
  <2> QED
    BY <2>1, StoredIs
<1>3. CASE kind[h.upload].proto # kind[u].proto
  <2>1. Path(u) # Path(h.upload)
    BY <1>3, OthersFile
  <2> QED
    BY <1>1, <2>1, StoredIs DEF Typed
<1> QED
  BY <1>2, <1>3

\* A store of u puts units of u into the file of u, where they belong.
LEMMA StoresOwn ==
  ASSUME Typed, OneBlock, ProtocolInv, NEW u \in Uploads, Intact(u),
         NEW h \in handling, h.upload = u, NEW units, Carried(h, units), Stored(h, units)
  PROVE  LET o == Offset(u, h.part)  F == files[Path(u)]  G == files'[Path(u)] IN
         /\ \A k \in DOMAIN G : k <= kind[u].length /\ G[k] \in {<<u, k>>, Hole}
         /\ \A k \in DOMAIN F : F[k] = <<u, k>> => k \in DOMAIN G /\ G[k] = <<u, k>>
         /\ \A k \in o + 1..o + Len(units) : k \in DOMAIN G /\ G[k] = <<u, k>>
<1> DEFINE o == Offset(u, h.part)
           P == Part(u, h.part)
           F == files[Path(u)]
           G == files'[Path(u)]
<1>1. /\ h.part \in 1..kind[u].parts /\ Path(u) \in Paths
      /\ h.incarnation = IncarnationNow(u)
  BY Handles, KindFields DEF Intact
<1>2. /\ o \in Nat /\ o + Len(P) <= kind[u].length /\ P \in Seq(Unit)
      /\ \A i \in 1..Len(P) : P[i] = <<u, o + i>>
  BY <1>1, PartIs
<1>3. F \in Seq(Unit) /\ kind[u].length \in Nat
  BY <1>1, KindFields DEF Typed
<1>4. G = WriteAt(F, o, units)
  <2>1. files' = [files EXCEPT ![Path(u)] = WriteAt(F, o, units)]
    BY <1>1, StoredIs
  <2> QED
    BY <1>1, <2>1 DEF Typed
<1>5. /\ units \in Seq(Unit) /\ Len(units) <= Len(P)
      /\ \A i \in 1..Len(units) : units[i] = P[i]
  BY DEF Carried
<1>6. /\ \A k \in DOMAIN F : k <= kind[u].length /\ F[k] \in {<<u, k>>, Hole}
  BY DEF Intact
<1> HIDE DEF o, P, F, G
<1>7. Len(units) \in Nat /\ Len(P) \in Nat
  BY <1>2, <1>5
<1>8. \A k \in o + 1..o + Len(units) : units[k - o] = <<u, k>>
  <2> SUFFICES ASSUME NEW k \in o + 1..o + Len(units) PROVE units[k - o] = <<u, k>>
    OBVIOUS
  <2>1. k - o \in 1..Len(units) /\ k - o \in 1..Len(P) /\ o + (k - o) = k
    BY <1>2, <1>5, <1>7
  <2> QED
    BY <1>2, <1>5, <2>1
<1>9. IsWrite(G, F, o, units)
  BY <1>2, <1>3, <1>4, <1>5, WriteAtIs
<1>10. \A k \in o + 1..o + Len(units) : k \in DOMAIN G /\ G[k] = <<u, k>>
  BY <1>8, <1>9 DEF IsWrite
<1>11. ASSUME NEW k \in DOMAIN F, F[k] = <<u, k>> PROVE k \in DOMAIN G /\ G[k] = <<u, k>>
  BY <1>9, <1>10, <1>11 DEF IsWrite
<1>12. ASSUME NEW k \in DOMAIN G PROVE k <= kind[u].length /\ G[k] \in {<<u, k>>, Hole}
  <2>1. k \in Nat
    <3>1. G \in Seq(Unit)
      BY <1>9 DEF IsWrite
    <3> QED
      BY <3>1
  <2>2. k <= kind[u].length
    BY <1>2, <1>3, <1>5, <1>6, <1>7, <1>9, <2>1 DEF IsWrite
  <2>3. G[k] \in {<<u, k>>, Hole}
    BY <1>6, <1>9, <1>10 DEF IsWrite
  <2> QED
    BY <2>2, <2>3
<1> QED
  BY <1>10, <1>11, <1>12 DEF o, F, G

\* Who begins interferes with every upload of its item that is under way.
LEMMA Interference ==
  ASSUME Typed, NEW u \in Uploads, NEW w \in Uploads, NEW to, Begin(w, to), u \notin disturbed'
  PROVE  /\ u \notin disturbed
         /\ u # w /\ status[u] # "idle" => kind[u].proto # kind[w].proto
         /\ u = w => \A v \in Uploads : SameItem(u, v) =>
                       status[v] = "idle" \/ (status[v] = "finished" /\ kind[u].overwrite)
<1>1. disturbed' = disturbed \cup Interfering(w)
  BY DEF Begin
<1>2. ASSUME u # w, status[u] # "idle" PROVE kind[u].proto # kind[w].proto
  BY <1>1, <1>2 DEF Interfering, SameItem
<1>3. ASSUME u = w, NEW v \in Uploads, SameItem(u, v)
      PROVE  status[v] = "idle" \/ (status[v] = "finished" /\ kind[u].overwrite)
  <2>1. ~(Active(v) \/ (status[v] = "finished" /\ ~kind[u].overwrite))
    BY <1>1, <1>3 DEF Interfering
  <2>2. status[v] \in Statuses
    BY DEF Typed
  <2> QED
    BY <2>1, <2>2 DEF Active, Statuses
<1> QED
  BY <1>1, <1>2, <1>3

\* An upload that has not begun has no file, no request and no answer.
LEMMA NothingBefore ==
  ASSUME Typed, ProtocolInv, FilesInv, NEW u \in Uploads, status[u] = "idle"
  PROVE  /\ acked[u] = {} /\ \A h \in handling : h.upload # u
         /\ (\A v \in Uploads : SameItem(u, v) => status[v] = "idle") =>
              /\ files[Path(u)] = << >>
              /\ \A h \in handling : ~SameItem(u, h.upload)
<1>1. acked[u] = {}
  BY DEF ProtocolInv, AckOK
<1>2. \A h \in handling : status[h.upload] # "idle" /\ h.upload \in Uploads
  BY Handles DEF RequestOK
<1>3. ASSUME \A v \in Uploads : SameItem(u, v) => status[v] = "idle"
      PROVE  files[Path(u)] = << >>
  <2>1. \A v \in Uploads : Path(v) = Path(u) => status[v] = "idle"
    BY <1>3 DEF Path, SameItem
  <2>2. Path(u) \in Paths \ exists
    BY <2>1, KindFields DEF FilesInv
  <2> QED
    BY <2>2 DEF FilesInv
<1> QED
  BY <1>1, <1>2, <1>3

LEMMA BeginsSure ==
  ASSUME OneBlock, Typed, ProtocolInv, FilesInv, NEW u \in Uploads, status[u] = "idle",
         Reserve(u) \/ DeleteArtifact(u) \/ CreateArtifact(u), u \notin disturbed'
  PROVE  Alone(u)' /\ Intact(u)'
<1> USE DEF Typed
<1>1. PICK to : Begin(u, to)
  BY DEF Reserve, DeleteArtifact, CreateArtifact
<1>2. \A v \in Uploads : SameItem(u, v) =>
        /\ status[v] = "idle" \/ (status[v] = "finished" /\ kind[u].overwrite)
        /\ status'[v] = status[v]
  BY <1>1, Interference DEF Begin, SameItem
<1>3. /\ kind' = kind /\ acked' = acked /\ handling' = handling
      /\ \A v : SameItem(u, v)' <=> SameItem(u, v)
      /\ Path(u)' = Path(u) /\ Path(u) \in Paths
  BY KindFields DEF Reserve, DeleteArtifact, CreateArtifact, SameItem, Path
<1>4. acked[u] = {} /\ \A h \in handling : h.upload # u
  BY NothingBefore
<1>5. files'[Path(u)] = << >> /\
        \A h \in handling : SameItem(u, h.upload) => h.incarnation # IncarnationNow(u)'
  <2>1. CASE kind[u].overwrite
    <3>1. DeleteArtifact(u) /\ kind[u].proto = "v4"
      <4>1. kind[u].proto = "v4"
        BY <2>1, KindFields DEF Protos
      <4> QED
        BY <2>1, <4>1 DEF Reserve, CreateArtifact
    <3>2. files'[Path(u)] = << >>
      BY <1>3, <3>1 DEF DeleteArtifact
    <3>3. IncarnationNow(u)' = incarnation + 1
      BY <3>1 DEF DeleteArtifact, IncarnationNow
    <3>4. ASSUME NEW h \in handling, SameItem(u, h.upload)
          PROVE  h.incarnation # IncarnationNow(u)'
      <4>1. h.incarnation <= incarnation /\ h.incarnation \in Nat
        BY <3>1, <3>4, Handles DEF RequestOK, IncarnationNow, SameItem
      <4> QED
        BY <3>3, <4>1
    <3> QED
      BY <3>2, <3>4
  <2>2. CASE ~kind[u].overwrite
    <3>1. files' = files
      BY <2>2 DEF Reserve, DeleteArtifact, CreateArtifact
    <3>2. \A v \in Uploads : SameItem(u, v) => status[v] = "idle"
      BY <1>2, <2>2
    <3> QED
      BY <3>1, <3>2, NothingBefore
  <2> QED
    BY <2>1, <2>2
<1>6. Alone(u)'
  BY <1>2, <1>3, <1>5 DEF Alone
<1>7. Intact(u)'
  <2>1. DOMAIN << >> = {}
    OBVIOUS
  <2> QED
    BY <1>3, <1>4, <1>5, <2>1 DEF Intact
<1> QED
  BY <1>6, <1>7

\* The requests that begin or announce an upload.
LEMMA BeginningKeepsSure ==
  ASSUME OneBlock, Typed, ProtocolInv, NEW u \in Uploads, status[u] # "idle",
         u \notin disturbed', Alone(u), Intact(u), NEW w \in Uploads,
         Reserve(w) \/ DeleteArtifact(w) \/ CreateArtifact(w)
  PROVE  Alone(u)' /\ Intact(u)'
<1> USE DEF Typed
<1>1. CASE kind[u].proto = kind[w].proto
  <2>1. \A to : ~Begin(w, to)
    BY <1>1, Interference DEF Begin
  <2>2. CreateArtifact(w) /\ status[w] = "cleared"
    BY <2>1 DEF Reserve, DeleteArtifact, CreateArtifact
  <2>3. w = u
    BY <1>1, <2>2 DEF Alone, SameItem
  <2>4. \A v \in Uploads : SameItem(u, v) => status'[v] = status[v]
    BY <2>2, <2>3 DEF CreateArtifact, Begin, SameItem
  <2>5. /\ UNCHANGED <<kind, files, exists, handling, acked>>
        /\ IncarnationNow(u)' = IncarnationNow(u)
    BY <2>2 DEF CreateArtifact, IncarnationNow
  <2> QED
    BY <2>4, <2>5, Untouched
<1>2. CASE kind[u].proto # kind[w].proto
  <2>1. \A v \in Uploads : SameItem(u, v) => status'[v] = status[v]
    BY <1>2 DEF Reserve, DeleteArtifact, CreateArtifact, Begin, SameItem
  <2>2. Path(u) # Path(w) /\ Path(u) \in Paths
    BY <1>2, OthersFile, KindFields
  <2>3. /\ files'[Path(u)] = files[Path(u)]
        /\ Path(u) \in exists => Path(u) \in exists'
        /\ kind' = kind /\ acked' = acked /\ handling' = handling
    BY <2>2 DEF Reserve, DeleteArtifact, CreateArtifact
  <2>4. IncarnationNow(u)' = IncarnationNow(u)
    BY <1>2 DEF Reserve, DeleteArtifact, CreateArtifact, IncarnationNow
  <2> QED
    BY <2>1, <2>3, <2>4, Untouched
<1> QED
  BY <1>1, <1>2

LEMMA OpenKeepsSure ==
  ASSUME OneBlock, Typed, ProtocolInv, NEW u \in Uploads, Alone(u), Intact(u),
         NEW w \in Uploads, NEW n, Open(w, n)
  PROVE  Alone(u)' /\ Intact(u)'
<1> DEFINE g == [upload |-> w, part |-> n, incarnation |-> IncarnationNow(w)]
<1>1. /\ UNCHANGED <<kind, status, files, incarnation, acked>> /\ status[w] = "sending"
      /\ handling' = handling \cup {g} /\ exists' = exists \cup {Path(w)}
  BY DEF Open, Requested
<1>2. ~SameItem(u, w)
  BY <1>1 DEF Alone
<1>3. /\ Path(u)' = Path(u) /\ IncarnationNow(u)' = IncarnationNow(u)
      /\ \A v : SameItem(u, v)' <=> SameItem(u, v)
      /\ \A k : Places(u, k)' = Places(u, k)
  BY <1>1 DEF Path, IncarnationNow, SameItem, Places
<1>4. g.upload = w /\ g.incarnation = IncarnationNow(w)
  OBVIOUS
<1> HIDE DEF g
<1>5. Alone(u)'
  BY <1>1, <1>2, <1>3, <1>4 DEF Alone
<1>6. Intact(u)'
  <2>1. \A h \in handling' : h.upload = u => h.incarnation = IncarnationNow(u)
    BY <1>1, <1>4 DEF Intact
  <2> QED
    BY <1>1, <1>3, <2>1 DEF Intact
<1> QED
  BY <1>5, <1>6

LEMMA StoreKeepsSure ==
  ASSUME OneBlock, Typed, ProtocolInv, NEW u \in Uploads, Alone(u), Intact(u),
         NEW h \in handling, Write(h) \/ BreakOff(h)
  PROVE  Alone(u)' /\ Intact(u)'
<1>1. /\ handling' = handling \ {h} /\ UNCHANGED <<kind, status, exists, incarnation>>
      /\ h.upload \in Uploads /\ h.part \in 1..kind[h.upload].parts
  BY Handles, WriteCarries
<1>2. PICK units : Carried(h, units) /\ Stored(h, units)
  BY WriteCarries
<1>3. /\ Path(u)' = Path(u) /\ IncarnationNow(u)' = IncarnationNow(u)
      /\ \A v : SameItem(u, v)' <=> SameItem(u, v)
      /\ \A k : Places(u, k)' = Places(u, k)
  BY <1>1 DEF Path, IncarnationNow, SameItem, Places
<1>4. CASE h.upload # u
  <2>1. files'[Path(u)] = files[Path(u)]
    BY <1>2, <1>4, StoresElsewhere
  <2>2. acked'[u] = acked[u]
    BY <1>1, <1>4, WriteCarries DEF Typed
  <2> QED
    BY <1>1, <1>3, <2>1, <2>2, Untouched
<1>5. CASE h.upload = u
  <2> DEFINE F == files[Path(u)]
             G == files'[Path(u)]
  <2>1. Alone(u)'
    BY <1>1, <1>3 DEF Alone
  <2>2. /\ \A k \in DOMAIN G : k <= kind[u].length /\ G[k] \in {<<u, k>>, Hole}
        /\ \A k \in DOMAIN F : F[k] = <<u, k>> => k \in DOMAIN G /\ G[k] = <<u, k>>
    BY <1>2, <1>5, StoresOwn
  <2>3. \A n \in acked[u] : \A k \in Places(u, n) : k \in DOMAIN F /\ F[k] = <<u, k>>
    BY DEF Intact
  <2>4. ASSUME NEW n \in acked'[u], NEW k \in Places(u, n)
        PROVE  k \in DOMAIN G /\ G[k] = <<u, k>>
    <3>1. CASE n \in acked[u]
      BY <2>2, <2>3, <3>1
    <3>2. CASE n \notin acked[u]
      <4>1. n = h.part /\ Stored(h, Part(u, n))
        BY <1>1, <1>5, <3>2, WriteCarries DEF Typed
      <4>2. Part(u, n) \in Seq(Unit) /\ k \in Offset(u, n) + 1..Offset(u, n) + Len(Part(u, n))
        BY <1>1, <1>5, <4>1, PartIs
      <4>3. Carried(h, Part(u, n))
        BY <1>5, <4>1, <4>2 DEF Carried
      <4> QED
        BY <1>5, <4>1, <4>2, <4>3, StoresOwn
    <3> QED
      BY <3>1, <3>2
  <2>5. Path(u) \in exists
    BY <1>5, Handles DEF RequestOK, Intact
  <2>6. \A g \in handling' : g.upload = u => g.incarnation = IncarnationNow(u)
    BY <1>1 DEF Intact
  <2> HIDE DEF F, G
  <2>7. Intact(u)'
    BY <1>1, <1>3, <2>2, <2>4, <2>5, <2>6 DEF Intact, F, G
  <2> QED
    BY <2>1, <2>7
<1> QED
  BY <1>4, <1>5

LEMMA SureStep ==
  ASSUME OneBlock, Typed, ProtocolInv, FilesInv, SureInv, [Next]_vars PROVE SureInv'
<1> USE DEF Typed
<1> SUFFICES ASSUME NEW u \in Uploads, u \notin disturbed', status'[u] # "idle"
             PROVE  Alone(u)' /\ Intact(u)'
  BY DEF SureInv
<1>1. u \notin disturbed
  <2>1. \A w \in Uploads : \A to : Begin(w, to) => disturbed \subseteq disturbed'
    BY DEF Begin
  <2>2. \A h \in handling : Write(h) \/ BreakOff(h) => disturbed' = disturbed
    BY WriteCarries
  <2> QED
    BY <2>1, <2>2 DEF Next, Quiet, vars, Reserve, DeleteArtifact, CreateArtifact, Open,
       Requested, CommitBlockList, Finalize
<1>2. CASE status[u] = "idle"
  <2>1. Reserve(u) \/ DeleteArtifact(u) \/ CreateArtifact(u)
    <3>1. \A h \in handling : Write(h) \/ BreakOff(h) => status' = status
      BY WriteCarries
    <3> QED
      BY <1>2, <3>1 DEF Next, Quiet, vars, Reserve, DeleteArtifact, CreateArtifact, Begin, Open,
         Requested, CommitBlockList, Finalize
  <2> QED
    BY <1>2, <2>1, BeginsSure
<1>3. CASE status[u] # "idle"
  <2>1. Alone(u) /\ Intact(u)
    BY <1>1, <1>3 DEF SureInv
  <2>2. ASSUME NEW w \in Uploads, Reserve(w) \/ DeleteArtifact(w) \/ CreateArtifact(w)
        PROVE  Alone(u)' /\ Intact(u)'
    BY <1>3, <2>1, <2>2, BeginningKeepsSure
  <2>3. ASSUME NEW w \in Uploads, NEW n, Open(w, n) PROVE Alone(u)' /\ Intact(u)'
    BY <2>1, <2>3, OpenKeepsSure
  <2>4. ASSUME NEW h \in handling, Write(h) \/ BreakOff(h) PROVE Alone(u)' /\ Intact(u)'
    BY <2>1, <2>4, StoreKeepsSure
  <2>5. ASSUME NEW w \in Uploads, CommitBlockList(w) \/ Finalize(w)
        PROVE  Alone(u)' /\ Intact(u)'
    <3>1. /\ status[w] \in {"sending", "committed"}
          /\ status' = [status EXCEPT ![w] = status'[w]]
          /\ UNCHANGED <<kind, files, exists, handling, acked, incarnation>>
      BY <2>5 DEF CommitBlockList, Finalize
    <3>2. ~SameItem(u, w)
      BY <2>1, <3>1 DEF Alone
    <3>3. \A v \in Uploads : SameItem(u, v) => status'[v] = status[v]
      BY <3>1, <3>2
    <3>4. IncarnationNow(u)' = IncarnationNow(u)
      BY <3>1 DEF IncarnationNow
    <3> QED
      BY <2>1, <3>1, <3>3, <3>4, Untouched
  <2>6. CASE UNCHANGED vars
    <3>1. IncarnationNow(u)' = IncarnationNow(u)
      BY <2>6 DEF vars, IncarnationNow
    <3> QED
      BY <2>1, <2>6, <3>1, Untouched DEF vars
  <2> QED
    BY <2>2, <2>3, <2>4, <2>5, <2>6 DEF Next, Quiet
<1> QED
  BY <1>2, <1>3

-----------------------------------------------------------------------------
LEMMA Initially == Init => IInv
<1> SUFFICES ASSUME Init PROVE IInv
  OBVIOUS
<1>1. Typed
  <2>1. /\ kind \in [Uploads -> Kinds] /\ exists \subseteq Paths /\ incarnation \in Nat
        /\ handling \subseteq Handled /\ disturbed \subseteq Uploads
    BY DEF Init
  <2>2. /\ status \in [Uploads -> Statuses] /\ acked \in [Uploads -> SUBSET Nat]
    BY DEF Init, Statuses
  <2>3. << >> \in Seq(Unit)
    OBVIOUS
  <2>4. files \in [Paths -> Seq(Unit)]
    BY <2>3, Zenon DEF Init
  <2> QED
    BY <2>1, <2>2, <2>4 DEF Typed
<1>2. FilesInv /\ ProtocolInv /\ SureInv
  BY DEF Init, FilesInv, ProtocolInv, AckOK, SureInv
<1> QED
  BY <1>1, <1>2 DEF IInv

\* The inductive invariant of the server's files, of the requests it is
\* handling and of what its clients know.
THEOREM Invariance == ASSUME OneBlock PROVE Spec => []IInv
<1>1. IInv /\ [Next]_vars => IInv'
  BY TypeStep, FilesStep, AckStep, RequestStep, SureStep DEF IInv, ProtocolInv
<1> QED
  BY <1>1, Initially, PTL DEF Spec

\* storage.go of the artifact server: whatever the order of the parts, the
\* resends, the broken requests and those that outlive a deletion, what a
\* response has acknowledged stays where it belongs.
THEOREM PartsStay == ASSUME OneBlock PROVE Spec => []AcknowledgedIsStored
<1>1. IInv => AcknowledgedIsStored
  <2> SUFFICES ASSUME IInv, NEW u \in Uploads \ disturbed, NEW n \in acked[u]
               PROVE  \A k \in Places(u, n) :
                        k \in DOMAIN files[Path(u)] /\ files[Path(u)][k] = <<u, k>>
    BY DEF AcknowledgedIsStored, Places
  <2>1. status[u] # "idle"
    BY DEF IInv, ProtocolInv, AckOK
  <2> QED
    BY <2>1 DEF IInv, SureInv, Intact
<1> QED
  BY <1>1, Invariance, PTL

\* What is known of the file of a finished upload.
LEMMA FinishedFile ==
  ASSUME OneBlock, IInv, NEW u \in Uploads \ disturbed, status[u] = "finished"
  PROVE  Path(u) \in exists /\ files[Path(u)] = Content(u)
<1> DEFINE F == files[Path(u)]
           L == kind[u].length
<1>1. /\ Intact(u) /\ acked[u] = 1..kind[u].parts /\ Typed
  BY DEF IInv, SureInv, ProtocolInv, AckOK, AllAcked
<1>2. /\ kind[u].parts \in Nat \ {0} /\ L \in Nat /\ kind[u].parts \in {1, L}
      /\ Path(u) \in Paths
  BY <1>1, KindFields
<1>3. Path(u) \in exists
  BY <1>1, <1>2 DEF Intact
<1>4. \A k \in 1..L : k \in DOMAIN F /\ F[k] = <<u, k>>
  <2> SUFFICES ASSUME NEW k \in 1..L PROVE \E n \in acked[u] : k \in Places(u, n)
    BY <1>1 DEF Intact
  <2>1. CASE kind[u].parts = 1
    BY <1>1, <1>2, <2>1 DEF Places
  <2>2. CASE kind[u].parts # 1
    BY <1>1, <1>2, <2>2 DEF Places
  <2> QED
    BY <2>1, <2>2
<1>5. F \in Seq(Unit)
  BY <1>1, <1>2 DEF Typed
<1>6. \A k \in DOMAIN F : k <= L
  BY <1>1 DEF Intact
<1> HIDE DEF F, L
<1>7. Len(F) = L
  BY <1>2, <1>4, <1>5, <1>6
<1>8. F = [n \in 1..L |-> <<u, n>>]
  <2>1. F = [n \in 1..L |-> F[n]]
    BY <1>5, <1>7
  <2> QED
    BY <1>4, <2>1
<1> QED
  BY <1>3, <1>8 DEF F, L, Content

\* usage.md:250-258: uncompressed and in one v4 block, what has been uploaded
\* downloads whole, as itself and under one name.
THEOREM RoundTrip ==
  ASSUME OneBlock, Uncompressed PROVE Spec => []DownloadedAsUploaded
<1>1. IInv => DownloadedAsUploaded
  <2> SUFFICES ASSUME IInv, NEW u \in Uploads \ disturbed, status[u] = "finished"
               PROVE  Downloads(kind[u].proto) =
                        {[found |-> TRUE, body |-> Content(u), gzip |-> kind[u].gzip]}
    BY DEF DownloadedAsUploaded
  <2>1. Path(u) \in exists /\ files[Path(u)] = Content(u)
    BY FinishedFile
  <2>2. \A v \in Uploads : kind[v].gzip = FALSE
    BY KindFields DEF IInv, Uncompressed
  <2>3. Path(u) = <<kind[u].proto, FALSE>> /\ kind[u].proto \in Protos
    BY <2>2, KindFields DEF Path, IInv
  <2>4. \A p \in exists : p[2] = FALSE
    BY <2>2 DEF IInv, FilesInv, Path
  <2>5. CASE kind[u].proto = "v3"
    <3>1. V3Listed = {FALSE}
      BY <2>1, <2>3, <2>4, <2>5 DEF V3Listed
    <3>2. V3Download(FALSE) = [found |-> TRUE, body |-> Content(u), gzip |-> FALSE]
      BY <2>1, <2>3, <2>5 DEF V3Download, Body
    <3> QED
      BY <2>2, <2>5, <3>1, <3>2 DEF Downloads
  <2>6. CASE kind[u].proto = "v4"
    <3>1. V4Listed = {FALSE}
      BY <2>1, <2>3, <2>6 DEF V4Listed
    <3>2. V4Download = [found |-> TRUE, body |-> Content(u), gzip |-> FALSE]
      BY <2>1, <2>3, <2>6 DEF V4Download, Body
    <3> QED
      BY <2>2, <2>6, <3>1, <3>2 DEF Downloads
  <2> QED
    BY <2>3, <2>5, <2>6 DEF Protos
<1> QED
  BY <1>1, Invariance, PTL
=============================================================================
