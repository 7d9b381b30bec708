-------------------------- MODULE CacheStoreProofs ---------------------------
(***************************************************************************)
(* Theorems about the cache store, for every number of runs, saves and     *)
(* keys, and whatever keys are prefixes of others.                         *)
(***************************************************************************)
EXTENDS CacheStore, WellFoundedInduction, TLAPS

-----------------------------------------------------------------------------
(* The parts of the inductive invariant.                                   *)

\* The types, without the bounds on how much there is of anything.
Typed ==
  /\ status \in [Runs -> {"idle", "open", "refused", "ended"}]
  /\ index \in [Runs -> SUBSET Entry]
  /\ pending \in [Runs -> SUBSET [id : Saves, key : Keys, version : Versions]]
  /\ writing \in [Runs -> Saves \cup {None}]
  /\ file.kind \in FileKinds /\ file.entries \subseteq Entry
  /\ blob \in [Saves -> SUBSET Chunks]
  /\ clock \in Nat \ {0}
  /\ overlapped \in BOOLEAN

Ids(es) == {e.id : e \in es}

\* A run that is not open holds nothing.
ClosedInv ==
  \A r \in Runs : status[r] # "open" =>
    index[r] = {} /\ pending[r] = {} /\ writing[r] = None

\* The index is rewritten for an entry that is in memory.
WritingInv ==
  \A r \in Runs : writing[r] # None => writing[r] \in Ids(index[r]) /\ file.kind # "absent"

\* An entry is known by the instant of its commit.
ClockInv ==
  /\ \A e \in Known : e.createdAt < clock
  /\ \A e, f \in Known : e.createdAt = f.createdAt => e = f

\* Runs that are alive one at a time hand what was saved on to the next.
HandedOnInv ==
  /\ file.kind = "absent" => saved = {}
  /\ ~overlapped =>
       /\ \A q, r \in Runs : status[q] = "open" /\ status[r] = "open" => q = r
       /\ \A r \in Runs : status[r] = "open" => saved \subseteq Ids(index[r])
       /\ file.kind = "written" => saved \subseteq Ids(file.entries)

IInv ==
  Typed /\ ClosedInv /\ WritingInv /\ ClockInv /\ ServedBlobsAreWhole /\ HandedOnInv

-----------------------------------------------------------------------------
LEMMA KnownType == ASSUME Typed PROVE Known \subseteq Entry
BY DEF Typed, Known

LEMMA CommitType ==
  ASSUME Typed, NEW r \in Runs, NEW p \in pending[r], Commit(r, p)
  PROVE  /\ p.id \in Saves
         /\ \E e \in Entry : /\ e.id = p.id /\ e.createdAt = clock
                            /\ index' = [index EXCEPT ![r] = index[r] \cup {e}]
<1> DEFINE e == [id |-> p.id, key |-> p.key, version |-> p.version, createdAt |-> clock]
<1>1. p \in [id : Saves, key : Keys, version : Versions]
  BY DEF Typed
<1>2. e \in Entry /\ e.id = p.id /\ e.createdAt = clock
  BY <1>1 DEF Entry, Typed
<1>3. index' = [index EXCEPT ![r] = index[r] \cup {e}]
  BY DEF Commit, Committed
<1> HIDE DEF e
<1> QED
  BY <1>1, <1>2, <1>3

LEMMA WriteType ==
  ASSUME Typed, NEW r \in Runs, WriteIndex(r)
  PROVE  /\ file'.kind \in {"written", "garbled"}
         /\ file'.kind = "written" => file'.entries = index[r]
         /\ file'.kind = "garbled" => file'.entries = {}
<1>1. file' \in Overwritten(index[r])
  BY DEF WriteIndex
<1> QED
  BY <1>1 DEF Overwritten

LEMMA TypeStep == Typed /\ [Next]_vars => Typed'
<1> SUFFICES ASSUME Typed, [Next]_vars PROVE Typed'
  OBVIOUS
<1>1. CASE UNCHANGED vars
  BY <1>1 DEF vars, Typed
<1>2. ASSUME NEW r \in Runs, Open(r) PROVE Typed'
  BY <1>2 DEF Open, Typed
<1>3. ASSUME NEW r \in Runs, End(r) PROVE Typed'
  BY <1>3 DEF End, Typed
<1>4. ASSUME NEW r \in Runs, WriteIndex(r) PROVE Typed'
  <2>1. file'.kind \in FileKinds /\ file'.entries \subseteq Entry
    BY <1>4, WriteType DEF Typed, FileKinds
  <2> QED
    BY <1>4, <2>1 DEF WriteIndex, Typed
<1>5. ASSUME NEW r \in Runs, WriteFails(r) PROVE Typed'
  BY <1>5 DEF WriteFails, Typed
<1>6. ASSUME NEW r \in Runs, NEW s \in Saves, NEW key \in Keys, NEW version \in Versions,
             Reserve(r, s, key, version)
      PROVE  Typed'
  BY <1>6 DEF Reserve, Typed
<1>7. ASSUME NEW r \in Runs, NEW p \in pending[r], Commit(r, p) PROVE Typed'
  <2>1. index' \in [Runs -> SUBSET Entry] /\ p.id \in Saves
    BY <1>7, CommitType DEF Typed
  <2>2. file'.kind \in FileKinds /\ file'.entries = {}
    BY <1>7 DEF Commit, FileKinds
  <2> QED
    BY <1>7, <2>1, <2>2 DEF Commit, Typed
<1>8. ASSUME NEW r \in Runs, NEW p \in pending[r], NEW chunk \in Chunks, Upload(r, p, chunk)
      PROVE  Typed'
  BY <1>8 DEF Upload, Typed
<1> QED
  BY <1>1, <1>2, <1>3, <1>4, <1>5, <1>6, <1>7, <1>8 DEF Next

LEMMA ClosedStep == Typed /\ ClosedInv /\ [Next]_vars => ClosedInv'
<1> SUFFICES ASSUME Typed, ClosedInv, [Next]_vars PROVE ClosedInv'
  OBVIOUS
<1> USE DEF Typed, ClosedInv
<1>1. CASE UNCHANGED vars
  BY <1>1 DEF vars
<1>2. ASSUME NEW r \in Runs, Open(r) \/ End(r) PROVE ClosedInv'
  BY <1>2 DEF Open, End
<1>3. ASSUME NEW r \in Runs, WriteIndex(r) \/ WriteFails(r) PROVE ClosedInv'
  BY <1>3 DEF WriteIndex, WriteFails
<1>4. ASSUME NEW r \in Runs, NEW s, NEW key, NEW version, Reserve(r, s, key, version)
      PROVE  ClosedInv'
  BY <1>4 DEF Reserve, Unlocked
<1>5. ASSUME NEW r \in Runs, NEW p \in pending[r], Commit(r, p) PROVE ClosedInv'
  BY <1>5 DEF Commit, Unlocked
<1>6. ASSUME NEW r \in Runs, NEW p \in pending[r], NEW chunk, Upload(r, p, chunk)
      PROVE  ClosedInv'
  BY <1>6 DEF Upload
<1> QED
  BY <1>1, <1>2, <1>3, <1>4, <1>5, <1>6 DEF Next

LEMMA WritingStep == Typed /\ WritingInv /\ ClosedInv /\ [Next]_vars => WritingInv'
<1> SUFFICES ASSUME Typed, WritingInv, ClosedInv, [Next]_vars, NEW q \in Runs, writing'[q] # None
             PROVE  writing'[q] \in Ids(index'[q]) /\ file'.kind # "absent"
  BY DEF WritingInv, Ids
<1> USE DEF Typed
<1>1. CASE UNCHANGED vars
  BY <1>1 DEF vars, WritingInv
<1>2. ASSUME NEW r \in Runs, Open(r) PROVE writing'[q] \in Ids(index'[q]) /\ file'.kind # "absent"
  <2>1. q # r /\ writing' = writing /\ file' = file /\ index'[q] = index[q]
    BY <1>2 DEF Open, ClosedInv
  <2> QED
    BY <2>1 DEF WritingInv
<1>3. ASSUME NEW r \in Runs, End(r) \/ WriteFails(r)
      PROVE  writing'[q] \in Ids(index'[q]) /\ file'.kind # "absent"
  <2>1. q # r /\ writing'[q] = writing[q] /\ file' = file /\ index'[q] = index[q]
    BY <1>3 DEF End, WriteFails
  <2> QED
    BY <2>1 DEF WritingInv
<1>4. ASSUME NEW r \in Runs, WriteIndex(r)
      PROVE  writing'[q] \in Ids(index'[q]) /\ file'.kind # "absent"
  <2>1. q # r /\ writing'[q] = writing[q] /\ index'[q] = index[q]
    BY <1>4 DEF WriteIndex
  <2> QED
    BY <1>4, <2>1, WriteType DEF WritingInv
<1>5. ASSUME NEW r \in Runs, NEW s, NEW key, NEW version, Reserve(r, s, key, version)
      PROVE  writing'[q] \in Ids(index'[q]) /\ file'.kind # "absent"
  BY <1>5 DEF Reserve, WritingInv
<1>6. ASSUME NEW r \in Runs, NEW p \in pending[r], Commit(r, p)
      PROVE  writing'[q] \in Ids(index'[q]) /\ file'.kind # "absent"
  <2>1. file'.kind # "absent"
    BY <1>6 DEF Commit
  <2>2. CASE q = r
    <3>1. PICK e \in Entry : /\ e.id = p.id
                             /\ index' = [index EXCEPT ![r] = index[r] \cup {e}]
      BY <1>6, CommitType
    <3>2. writing'[r] = p.id /\ e \in index'[r]
      BY <1>6, <3>1 DEF Commit
    <3> QED
      BY <2>1, <2>2, <3>1, <3>2 DEF Ids
  <2>3. CASE q # r
    BY <1>6, <2>1, <2>3 DEF Commit, WritingInv
  <2> QED
    BY <2>2, <2>3
<1>7. ASSUME NEW r \in Runs, NEW p \in pending[r], NEW chunk, Upload(r, p, chunk)
      PROVE  writing'[q] \in Ids(index'[q]) /\ file'.kind # "absent"
  BY <1>7 DEF Upload, WritingInv
<1> QED
  BY <1>1, <1>2, <1>3, <1>4, <1>5, <1>6, <1>7 DEF Next

\* What is known afterwards was known before, but for the entry of a commit.
LEMMA KnownGrows ==
  ASSUME Typed, [Next]_vars, NEW e \in Known'
  PROVE  \/ e \in Known /\ clock <= clock'
         \/ /\ clock' = clock + 1 /\ e.createdAt = clock /\ blob[e.id] = Chunks
            /\ \A f \in Known' : f \in Known \/ f = e
<1> USE DEF Typed
<1>1. CASE UNCHANGED vars
  BY <1>1 DEF vars, Known
<1>2. ASSUME NEW r \in Runs, Open(r) PROVE e \in Known /\ clock <= clock'
  BY <1>2 DEF Open, Known
<1>3. ASSUME NEW r \in Runs, End(r) \/ WriteFails(r) PROVE e \in Known /\ clock <= clock'
  BY <1>3 DEF End, WriteFails, Known
<1>4. ASSUME NEW r \in Runs, WriteIndex(r) PROVE e \in Known /\ clock <= clock'
  <2>1. file'.entries \subseteq index[r]
    BY <1>4, WriteType
  <2> QED
    BY <1>4, <2>1 DEF WriteIndex, Known
<1>5. ASSUME NEW r \in Runs, NEW s, NEW key, NEW version, Reserve(r, s, key, version)
      PROVE  e \in Known /\ clock <= clock'
  BY <1>5 DEF Reserve, Known
<1>6. ASSUME NEW r \in Runs, NEW p \in pending[r], NEW chunk, Upload(r, p, chunk)
      PROVE  e \in Known /\ clock <= clock'
  BY <1>6 DEF Upload, Known
<1>7. ASSUME NEW r \in Runs, NEW p \in pending[r], Commit(r, p)
      PROVE  \/ e \in Known /\ clock <= clock'
             \/ /\ clock' = clock + 1 /\ e.createdAt = clock /\ blob[e.id] = Chunks
                /\ \A f \in Known' : f \in Known \/ f = e
  <2>1. PICK n \in Entry : /\ n.id = p.id /\ n.createdAt = clock
                           /\ index' = [index EXCEPT ![r] = index[r] \cup {n}]
    BY <1>7, CommitType
  <2>2. /\ file'.entries = {} /\ clock' = clock + 1 /\ blob[p.id] = Chunks
    BY <1>7 DEF Commit, Uploaded
  <2>3. \A f \in Known' : f \in Known \/ f = n
    BY <2>1, <2>2 DEF Known
  <2> QED
    BY <2>1, <2>2, <2>3
<1> QED
  BY <1>1, <1>2, <1>3, <1>4, <1>5, <1>6, <1>7 DEF Next

LEMMA ClockStep == Typed /\ ClockInv /\ [Next]_vars => ClockInv'
<1> SUFFICES ASSUME Typed, ClockInv, [Next]_vars PROVE ClockInv'
  OBVIOUS
<1>1. \A e \in Known : e.createdAt \in Nat
  BY KnownType DEF Entry
<1>2. clock \in Nat /\ clock' \in Nat
  BY TypeStep DEF Typed
<1>3. ASSUME NEW e \in Known' PROVE e.createdAt < clock'
  BY <1>1, <1>2, KnownGrows DEF ClockInv
<1>4. ASSUME NEW e \in Known', NEW f \in Known', e.createdAt = f.createdAt PROVE e = f
  <2>1. CASE e \in Known /\ f \in Known
    BY <1>4, <2>1 DEF ClockInv
  <2>2. CASE e \notin Known
    <3>1. e.createdAt = clock /\ (f \in Known \/ f = e)
      BY <2>2, KnownGrows
    <3>2. f \in Known => f.createdAt < clock /\ f.createdAt \in Nat
      BY <1>1 DEF ClockInv
    <3> QED
      BY <1>2, <1>4, <3>1, <3>2
  <2>3. CASE f \notin Known
    <3>1. f.createdAt = clock /\ (e \in Known \/ e = f)
      BY <2>3, KnownGrows
    <3>2. e \in Known => e.createdAt < clock /\ e.createdAt \in Nat
      BY <1>1 DEF ClockInv
    <3> QED
      BY <1>2, <1>4, <3>1, <3>2
  <2> QED
    BY <2>1, <2>2, <2>3
<1> QED
  BY <1>3, <1>4 DEF ClockInv

LEMMA BlobStep == Typed /\ ServedBlobsAreWhole /\ [Next]_vars => ServedBlobsAreWhole'
<1> SUFFICES ASSUME Typed, ServedBlobsAreWhole, [Next]_vars, NEW e \in Known'
             PROVE  blob'[e.id] = Chunks
  BY DEF ServedBlobsAreWhole
<1>1. blob[e.id] = Chunks
  BY KnownGrows DEF ServedBlobsAreWhole
<1>2. e.id \in Saves
  BY TypeStep, KnownType DEF Typed, Entry, Known
<1>3. \A s \in Saves : blob[s] \subseteq blob'[s] /\ blob'[s] \subseteq Chunks
  <2>1. ASSUME NEW r \in Runs, NEW p \in pending[r], NEW chunk \in Chunks, Upload(r, p, chunk)
        PROVE  \A s \in Saves : blob[s] \subseteq blob'[s]
    BY <2>1 DEF Upload, Typed
  <2>2. blob' = blob \/ \E r \in Runs : \E p \in pending[r], chunk \in Chunks :
                          Upload(r, p, chunk)
    BY DEF Next, vars, Open, End, WriteIndex, WriteFails, Reserve, Commit
  <2>3. \A s \in Saves : blob'[s] \subseteq Chunks
    BY TypeStep DEF Typed
  <2> QED
    BY <2>1, <2>2, <2>3
<1> QED
  BY <1>1, <1>2, <1>3

\* What an index holds of the saves only grows while its run is open.
LEMMA IdsGrow ==
  ASSUME Typed, [Next]_vars, NEW q \in Runs, status[q] = "open", status'[q] = "open"
  PROVE  Ids(index[q]) \subseteq Ids(index'[q])
<1> USE DEF Typed
<1>1. index[q] \subseteq index'[q]
  <2>1. CASE UNCHANGED vars
    BY <2>1 DEF vars
  <2>2. ASSUME NEW r \in Runs, Open(r) \/ End(r) PROVE index[q] \subseteq index'[q]
    BY <2>2 DEF Open, End
  <2>3. ASSUME NEW r \in Runs, WriteIndex(r) \/ WriteFails(r) PROVE index[q] \subseteq index'[q]
    BY <2>3 DEF WriteIndex, WriteFails
  <2>4. ASSUME NEW r \in Runs, NEW s, NEW key, NEW version, Reserve(r, s, key, version)
        PROVE  index[q] \subseteq index'[q]
    BY <2>4 DEF Reserve
  <2>5. ASSUME NEW r \in Runs, NEW p \in pending[r], NEW chunk, Upload(r, p, chunk)
        PROVE  index[q] \subseteq index'[q]
    BY <2>5 DEF Upload
  <2>6. ASSUME NEW r \in Runs, NEW p \in pending[r], Commit(r, p)
        PROVE  index[q] \subseteq index'[q]
    BY <2>6 DEF Commit
  <2> QED
    BY <2>1, <2>2, <2>3, <2>4, <2>5, <2>6 DEF Next
<1> QED
  BY <1>1 DEF Ids

LEMMA HandedOnStep ==
  Typed /\ ClosedInv /\ WritingInv /\ HandedOnInv /\ [Next]_vars => HandedOnInv'
<1> SUFFICES ASSUME Typed, ClosedInv, WritingInv, HandedOnInv, [Next]_vars PROVE HandedOnInv'
  OBVIOUS
<1> USE DEF Typed
<1>1. ASSUME UNCHANGED <<file, saved, overlapped>>,
             \A r \in Runs : status'[r] = "open" => status[r] = "open"
      PROVE  HandedOnInv'
  <2>1. ASSUME NEW r \in Runs, status'[r] = "open", ~overlapped
        PROVE  saved \subseteq Ids(index'[r])
    BY <1>1, <2>1, IdsGrow DEF HandedOnInv
  <2> QED
    BY <1>1, <2>1 DEF HandedOnInv, Ids
<1>2. ASSUME NEW r \in Runs, Open(r) PROVE HandedOnInv'
  <2>1. file' = file /\ saved' = saved
    BY <1>2 DEF Open
  <2>2. ASSUME ~overlapped' PROVE ~overlapped /\ \A q \in Runs : status'[q] = "open" => q = r
    BY <1>2, <2>2 DEF Open
  <2>3. ASSUME ~overlapped', status'[r] = "open" PROVE saved \subseteq Ids(index'[r])
    BY <1>2, <2>2, <2>3 DEF Open, HandedOnInv
  <2> QED
    BY <2>1, <2>2, <2>3 DEF HandedOnInv, Ids
<1>3. ASSUME NEW r \in Runs, WriteIndex(r) PROVE HandedOnInv'
  <2>1. /\ status' = status /\ index' = index /\ overlapped' = overlapped
        /\ saved' = saved \cup {writing[r]} /\ status[r] = "open"
        /\ writing[r] \in Ids(index[r])
    BY <1>3 DEF WriteIndex, WritingInv
  <2>2. file'.kind # "absent" /\ (file'.kind = "written" => file'.entries = index[r])
    BY <1>3, WriteType
  <2>3. ASSUME ~overlapped PROVE saved' \subseteq Ids(index'[r])
    BY <2>1, <2>3 DEF HandedOnInv
  <2>4. ASSUME ~overlapped, file'.kind = "written" PROVE saved' \subseteq Ids(file'.entries)
    BY <2>1, <2>2, <2>3, <2>4
  <2> QED
    BY <2>1, <2>2, <2>3, <2>4 DEF HandedOnInv
<1>4. ASSUME NEW r \in Runs, NEW p \in pending[r], Commit(r, p) PROVE HandedOnInv'
  <2>1. /\ file'.kind = "truncated" /\ saved' = saved /\ overlapped' = overlapped
        /\ status' = status
    BY <1>4 DEF Commit
  <2>2. ASSUME NEW q \in Runs, status'[q] = "open", ~overlapped
        PROVE  saved \subseteq Ids(index'[q])
    BY <2>1, <2>2, IdsGrow DEF HandedOnInv
  <2> QED
    BY <2>1, <2>2 DEF HandedOnInv
<1>5. ASSUME NEW r \in Runs, End(r) \/ WriteFails(r) PROVE HandedOnInv'
  BY <1>1, <1>5 DEF End, WriteFails
<1>6. ASSUME NEW r \in Runs, NEW s, NEW key, NEW version, Reserve(r, s, key, version)
      PROVE  HandedOnInv'
  BY <1>1, <1>6 DEF Reserve
<1>7. ASSUME NEW r \in Runs, NEW p \in pending[r], NEW chunk, Upload(r, p, chunk)
      PROVE  HandedOnInv'
  BY <1>1, <1>7 DEF Upload
<1>8. CASE UNCHANGED vars
  BY <1>1, <1>8 DEF vars
<1> QED
  BY <1>2, <1>3, <1>4, <1>5, <1>6, <1>7, <1>8 DEF Next

-----------------------------------------------------------------------------
LEMMA Initially == Init => IInv
<1> SUFFICES ASSUME Init PROVE IInv
  OBVIOUS
<1>1. Known = {}
  BY DEF Init, Known
<1>2. Typed
  <2>1. file.kind \in FileKinds /\ file.entries \subseteq Entry
    BY DEF Init, FileKinds
  <2>2. clock \in Nat \ {0}
    BY DEF Init
  <2>3. /\ overlapped \in BOOLEAN
        /\ status \in [Runs -> {"idle", "open", "refused", "ended"}]
        /\ writing \in [Runs -> Saves \cup {None}]
        /\ index \in [Runs -> SUBSET Entry]
        /\ pending \in [Runs -> SUBSET [id : Saves, key : Keys, version : Versions]]
    BY Zenon DEF Init
  <2>4. blob \in [Saves -> SUBSET Chunks]
    BY DEF Init
  <2> QED
    BY <2>1, <2>2, <2>3, <2>4 DEF Typed
<1>3. ClosedInv /\ WritingInv /\ HandedOnInv
  BY DEF Init, ClosedInv, WritingInv, HandedOnInv
<1> QED
  BY <1>1, <1>2, <1>3 DEF IInv, ClockInv, ServedBlobsAreWhole

\* The inductive invariant of the store: what is in memory, in index.json
\* and on disk, as the handlers and the starts of runs leave them.
THEOREM Invariance == Spec => []IInv
<1>1. IInv /\ [Next]_vars => IInv'
  BY TypeStep, ClosedStep, WritingStep, ClockStep, BlobStep, HandedOnStep DEF IInv
<1> QED
  BY <1>1, Initially, PTL DEF Spec

\* handlers.go: no run serves, now or after reading index.json, an archive
\* that is not whole.
THEOREM WholeBlobs == Spec => []ServedBlobsAreWhole
<1>1. IInv => ServedBlobsAreWhole
  BY DEF IInv
<1> QED
  BY <1>1, Invariance, PTL

\* store.go:26-29: runs that are alive one at a time hand every save on.
THEOREM Restorable == Spec => []SavedIsRestorable
<1>1. IInv => SavedIsRestorable
  BY DEF IInv, HandedOnInv, SavedIsRestorable, Ids
<1> QED
  BY <1>1, Invariance, PTL

-----------------------------------------------------------------------------
(* Find.  The parts of the definition of Better, by name.                  *)

Fits(x, key) == x.key = key \/ <<key, x.key>> \in Extends

Rank(x, k, keys) == <<k, IF x.key = keys[k] THEN 0 ELSE 1>>

Ranks(x, keys) ==
  {Rank(x, k, keys) : k \in {k \in 1..Len(keys) :
     x.key = keys[k] \/ <<keys[k], x.key>> \in Extends}}

Less(a, b) == a[1] < b[1] \/ (a[1] = b[1] /\ a[2] < b[2])

Best(x, keys) ==
  CHOOSE a \in Ranks(x, keys) : \A b \in Ranks(x, keys) : a = b \/ Less(a, b)

LEMMA BetterMeans ==
  ASSUME NEW e, NEW f, NEW keys
  PROVE  Better(e, f, keys) <=>
           IF Ranks(e, keys) = {} THEN FALSE
           ELSE IF Ranks(f, keys) = {} THEN TRUE
           ELSE \/ Less(Best(e, keys), Best(f, keys))
                \/ Best(e, keys) = Best(f, keys) /\ e.createdAt > f.createdAt
BY DEF Better, Best, Less, Ranks, Rank

\* The best rank is that of the first key that fits.
LEMMA BestIsFirst ==
  ASSUME NEW keys, NEW x, Len(keys) \in Nat, NEW k \in 1..Len(keys), Fits(x, keys[k]),
         \A l \in 1..Len(keys) : Fits(x, keys[l]) => k <= l
  PROVE  Ranks(x, keys) # {} /\ Best(x, keys) = Rank(x, k, keys)
<1>1. Rank(x, k, keys) \in Ranks(x, keys)
  BY DEF Ranks, Fits
<1>2. ASSUME NEW b \in Ranks(x, keys) PROVE Rank(x, k, keys) = b \/ Less(Rank(x, k, keys), b)
  <2>1. PICK l \in 1..Len(keys) : Fits(x, keys[l]) /\ b = Rank(x, l, keys)
    BY <1>2 DEF Ranks, Fits
  <2>2. k <= l /\ k \in Int /\ l \in Int
    BY <2>1
  <2> QED
    BY <2>1, <2>2 DEF Rank, Less
<1>3. Best(x, keys) \in Ranks(x, keys) /\
        \A b \in Ranks(x, keys) : Best(x, keys) = b \/ Less(Best(x, keys), b)
  BY <1>1, <1>2 DEF Best
<1>4. PICK l \in 1..Len(keys) : Best(x, keys) = Rank(x, l, keys)
  BY <1>3 DEF Ranks
<1>5. \/ Best(x, keys) = Rank(x, k, keys)
      \/ /\ Less(Best(x, keys), Rank(x, k, keys))
         /\ Less(Rank(x, k, keys), Best(x, keys))
  BY <1>1, <1>2, <1>3
<1>6. ~(Less(Rank(x, l, keys), Rank(x, k, keys)) /\ Less(Rank(x, k, keys), Rank(x, l, keys)))
  BY DEF Less, Rank
<1> QED
  BY <1>1, <1>4, <1>5, <1>6

LEMMA Least ==
  ASSUME NEW T \in SUBSET Nat, T # {}
  PROVE  \E x \in T : \A y \in T : x <= y
<1> DEFINE R == OpToRel(<, Nat)
<1>1. IsWellFoundedOn(R, Nat)
  BY NatLessThanWellFounded, Zenon
<1>2. R = {ss \in Nat \X Nat : ss[1] < ss[2]}
  BY Zenon DEF OpToRel
<1> HIDE DEF R
<1>3. PICK x \in T : \A y \in T : ~(<<y, x>> \in R)
  BY <1>1, WFMin, Zenon
<1>4. \A y \in T : ~(y < x)
  BY <1>2, <1>3
<1> QED
  BY <1>4

\* The clock bounds the ages, so a set of entries has a newest one.
LEMMA NewestIsThere ==
  ASSUME Typed, ClockInv, NEW es \in SUBSET Known, es # {}
  PROVE  Newest(es) \in es /\ \A f \in es : Newest(es).createdAt >= f.createdAt
<1> DEFINE T == {clock - e.createdAt : e \in es}
<1>1. \A e \in es : e.createdAt \in Nat /\ e.createdAt < clock
  BY KnownType DEF Entry, ClockInv
<1>2. clock \in Nat
  BY DEF Typed
<1>3. T \in SUBSET Nat /\ T # {}
  BY <1>1, <1>2
<1>4. PICK t \in T : \A y \in T : t <= y
  BY <1>3, Least
<1>5. PICK e \in es : t = clock - e.createdAt
  BY <1>4
<1>6. \A f \in es : t <= clock - f.createdAt
  BY <1>4
<1>7. \A f \in es : e.createdAt >= f.createdAt
  BY <1>1, <1>2, <1>5, <1>6
<1> QED
  BY <1>7 DEF Newest

\* What a key of the request matches: entries of the version that fit it,
\* those of the key itself if there are any.
LEMMA MatchType ==
  ASSUME NEW X, NEW key, NEW version
  PROVE  /\ \A e \in Match(X, key, version) :
              e \in X /\ e.version = version /\ Fits(e, key)
         /\ \A f \in X : f.version = version /\ Fits(f, key) =>
              /\ Match(X, key, version) # {}
              /\ \/ f \in Match(X, key, version)
                 \/ f.key # key /\ \A e \in Match(X, key, version) : e.key = key
         /\ \A e, f \in Match(X, key, version) : e.key = key <=> f.key = key
BY DEF Match, Exact, Prefixed, Fits

LEMMA FindFindsBest ==
  ASSUME Typed, ClockInv, NEW r \in Runs, NEW keys \in Requests, NEW version \in Versions,
         NEW es, es = {e \in index[r] : e.version = version},
         NEW e, e = Find(index[r], keys, version)
  PROVE  IF e = None THEN \A f \in es : ~Answers(keys, f)
         ELSE e \in es /\ Answers(keys, e) /\ \A f \in es \ {e} : Better(e, f, keys)
<1> DEFINE X == index[r]
           M(k) == Match(X, keys[k], version)
           hits == {k \in 1..Len(keys) : M(k) # {}}
           first == CHOOSE k \in hits : \A l \in hits : k <= l
<1>1. Len(keys) = 2
  BY DEF Requests
<1>2. X \subseteq Known /\ X \subseteq Entry
  BY DEF Known, Typed
<1>3. e = IF hits = {} THEN None ELSE Newest(M(first))
  BY DEF Find
<1>4. \A f \in es : f \in X /\ f.version = version
  OBVIOUS
<1>5. CASE hits = {}
  <2>1. ASSUME NEW f \in es, NEW k \in 1..Len(keys), Fits(f, keys[k]) PROVE FALSE
    <3>1. f \in X /\ f.version = version
      BY <1>4
    <3>2. M(k) # {}
      BY <2>1, <3>1, MatchType
    <3> QED
      BY <1>5, <3>2
  <2>2. e = None
    BY <1>3, <1>5
  <2> QED
    BY <2>1, <2>2 DEF Answers, Fits
<1>6. CASE hits # {}
  <2>1. first \in hits /\ \A l \in hits : first <= l
    <3>1. hits \in SUBSET Nat
      BY <1>1
    <3>2. \E k \in hits : \A l \in hits : k <= l
      BY <1>6, <3>1, Least
    <3> HIDE DEF hits
    <3> QED
      BY <3>2
  <2>2. first \in 1..Len(keys) /\ M(first) # {}
    BY <2>1
  <2>3. \A e1 \in M(first) : e1 \in X /\ e1.version = version /\ Fits(e1, keys[first])
    BY MatchType
  <2>4. M(first) \in SUBSET Known
    BY <1>2, <2>3
  <2>5. e \in M(first) /\ \A f \in M(first) : e.createdAt >= f.createdAt
    <3>1. e = Newest(M(first))
      BY <1>3, <1>6
    <3>2. \A m \in SUBSET Known : m # {} =>
            Newest(m) \in m /\ \A f \in m : Newest(m).createdAt >= f.createdAt
      BY NewestIsThere
    <3> HIDE DEF first, M, hits
    <3>3. /\ Newest(M(first)) \in M(first)
          /\ \A f \in M(first) : Newest(M(first)).createdAt >= f.createdAt
      BY <2>2, <2>4, <3>2
    <3> QED
      BY <3>1, <3>3
  <2>6. \A f \in es, l \in 1..Len(keys) : Fits(f, keys[l]) => first <= l
    <3> SUFFICES ASSUME NEW f \in es, NEW l \in 1..Len(keys), Fits(f, keys[l])
                 PROVE  l \in hits
      BY <2>1
    <3>1. f \in X /\ f.version = version
      BY <1>4
    <3> QED
      BY <3>1, MatchType
  <2> HIDE DEF first, M, hits
  <2>7. e \in es /\ Fits(e, keys[first])
    BY <2>3, <2>5
  <2>8. e # None
    BY <1>2, <2>3, <2>5, NoneAssumption DEF Entry
  <2>9. Answers(keys, e)
    BY <2>2, <2>7 DEF Answers, Fits
  <2>10. Ranks(e, keys) # {} /\ Best(e, keys) = Rank(e, first, keys)
    BY <1>1, <2>2, <2>6, <2>7, BestIsFirst
  <2>11. ASSUME NEW f \in es, f # e PROVE Better(e, f, keys)
    <3>1. CASE Ranks(f, keys) = {}
      BY <2>10, <3>1, BetterMeans
    <3>2. CASE Ranks(f, keys) # {}
      <4> DEFINE fits == {k \in 1..Len(keys) : Fits(f, keys[k])}
      <4>1. fits \in SUBSET Nat /\ fits # {}
        BY <1>1, <3>2 DEF Ranks, Fits
      <4>2. PICK k \in fits : \A l \in fits : k <= l
        BY <4>1, Least
      <4>3. Best(f, keys) = Rank(f, k, keys)
        BY <1>1, <4>2, BestIsFirst, SMTT(30)
      <4>4. first <= k /\ first \in Int /\ k \in Int
        BY <1>1, <2>2, <2>6, <4>2
      <4>5. CASE first < k
        <5>1. Less(Best(e, keys), Best(f, keys))
          BY <2>10, <4>3, <4>4, <4>5 DEF Less, Rank
        <5> QED
          BY <2>10, <3>2, <5>1, BetterMeans
      <4>6. CASE first = k
        <5>1. f \in X /\ f.version = version /\ Fits(f, keys[first])
          BY <1>4, <4>2, <4>6
        <5>2. CASE f \in M(first)
          <6>1. Best(e, keys) = Best(f, keys)
            <7>1. e.key = keys[first] <=> f.key = keys[first]
              BY <2>5, <5>2, MatchType DEF M
            <7> QED
              BY <2>10, <4>3, <4>6, <7>1 DEF Rank
          <6>2. e.createdAt >= f.createdAt /\ e.createdAt # f.createdAt
            BY <1>2, <1>4, <2>5, <2>7, <2>11, <5>2 DEF ClockInv
          <6>3. e.createdAt \in Nat /\ f.createdAt \in Nat
            BY <1>2, <1>4, <2>7 DEF Entry
          <6>4. e.createdAt > f.createdAt
            BY <6>2, <6>3
          <6> QED
            BY <2>10, <3>2, <6>1, <6>4, BetterMeans
        <5>3. CASE f \notin M(first)
          <6>1. f.key # keys[first] /\ e.key = keys[first]
            BY <2>5, <5>1, <5>3, MatchType DEF M
          <6>2. Less(Best(e, keys), Best(f, keys))
            BY <2>10, <4>3, <4>4, <4>6, <6>1 DEF Less, Rank
          <6> QED
            BY <2>10, <3>2, <6>2, BetterMeans
        <5> QED
          BY <5>2, <5>3
      <4> QED
        BY <4>4, <4>5, <4>6
    <3> QED
      BY <3>1, <3>2
  <2> QED
    BY <2>7, <2>8, <2>9, <2>11
<1> QED
  BY <1>5, <1>6

\* store.go, Find: on any index a run has come by, the request's key order,
\* then an exact match, then the age decide, and the answer is the best.
THEOREM BestIsFound == Spec => []FindIsBest
<1>1. IInv => FindIsBest
  BY FindFindsBest, ZenonT(60) DEF IInv, FindIsBest
<1> QED
  BY <1>1, Invariance, PTL
=============================================================================
