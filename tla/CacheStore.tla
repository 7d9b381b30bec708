----------------------------- MODULE CacheStore -----------------------------
(***************************************************************************)
(* The actions/cache store (internal/cacheserver/store.go and its HTTP     *)
(* handlers, handlers.go): every `mirror run` opens the store under the    *)
(* shared cache root, keeps the index in memory and rewrites index.json on *)
(* each commit.  Several runs may be alive at once and a run may be killed *)
(* at any point.                                                           *)
(*                                                                         *)
(* A save is one use of the client protocol of actions/cache: reserve,     *)
(* upload every chunk, commit; its index is the random id of Reserve.      *)
(* Store.mu makes each handler's access to the index atomic within a run;  *)
(* os.WriteFile is two actions, because it truncates the file and then     *)
(* writes it, and other runs may act in between.                           *)
(***************************************************************************)
EXTENDS Naturals, FiniteSets, Sequences

CONSTANTS Runs,         \* invocations of mirror run
          Saves,        \* cache ids, one per save
          Keys,         \* cache keys
          Extends,      \* the pairs <<p, k>> of keys where p is a prefix of k
          Versions,
          Chunks,       \* the chunks of one archive
          None

ASSUME NoneAssumption ==
  None \notin Saves /\ None \notin [id : Saves, key : Keys, version : Versions, createdAt : Nat]

VARIABLES status,       \* status[r]: of the invocation r
          index,        \* index[r]: the committed entries r has in memory
          pending,      \* pending[r]: reserved, not committed
          writing,      \* writing[r]: the save whose commit is rewriting the file
          file,         \* index.json
          blob,         \* blob[s]: the chunks of s on disk
          saved,        \* the saves whose commit was answered 200
          clock,        \* time.Now() at the next commit
          overlapped    \* two invocations have been alive at once

vars == <<status, index, pending, writing, file, blob, saved, clock, overlapped>>

Entry == [id : Saves, key : Keys, version : Versions, createdAt : Nat]

\* index.json is absent, truncated and not yet written, a mix of two writes,
\* or the index of whoever wrote it last.
FileKinds == {"absent", "truncated", "garbled", "written"}

TypeOK ==
  /\ status \in [Runs -> {"idle", "open", "refused", "ended"}]
  /\ index \in [Runs -> SUBSET Entry]
  /\ pending \in [Runs -> SUBSET [id : Saves, key : Keys, version : Versions]]
  /\ writing \in [Runs -> Saves \cup {None}]
  /\ file \in [kind : FileKinds, entries : SUBSET Entry, length : 0..Cardinality(Saves)]
  /\ blob \in [Saves -> SUBSET Chunks]
  /\ saved \in SUBSET Saves
  /\ clock \in 1..Cardinality(Saves) + 1
  /\ overlapped \in BOOLEAN

Init ==
  /\ status = [r \in Runs |-> "idle"]
  /\ index = [r \in Runs |-> {}]
  /\ pending = [r \in Runs |-> {}]
  /\ writing = [r \in Runs |-> None]
  /\ file = [kind |-> "absent", entries |-> {}, length |-> 0]
  /\ blob = [s \in Saves |-> {}]
  /\ saved = {}
  /\ clock = 1
  /\ overlapped = FALSE

-----------------------------------------------------------------------------
(* Find.                                                                   *)

Oldest(es) == CHOOSE e \in es : \A f \in es : e.createdAt <= f.createdAt

\* The first of the entries sorted by CreatedAt, newest first.
Newest(es) == CHOOSE e \in es : \A f \in es : e.createdAt >= f.createdAt

Exact(es, key, version) ==
  {e \in es : e.key = key /\ e.version = version}

Prefixed(es, key, version) ==
  {e \in es : <<key, e.key>> \in Extends /\ e.version = version}

\* What one key of the request finds: an exact match, else a prefix match.
Match(es, key, version) ==
  IF Exact(es, key, version) # {} THEN Exact(es, key, version)
  ELSE Prefixed(es, key, version)

\* The first key that finds anything decides.
Find(es, keys, version) ==
  LET hits == {k \in 1..Len(keys) : Match(es, keys[k], version) # {}}
  IN  IF hits = {} THEN None
      ELSE Newest(Match(es, keys[CHOOSE k \in hits : \A l \in hits : k <= l],
                        version))

-----------------------------------------------------------------------------
(* The life of an invocation.                                              *)

\* OpenStore: no file is an empty store, an unreadable one ends the command.
Open(r) ==
  /\ status[r] = "idle"
  /\ IF file.kind \in {"absent", "written"}
     THEN /\ status' = [status EXCEPT ![r] = "open"]
          /\ index' = [index EXCEPT ![r] = file.entries]
     ELSE /\ status' = [status EXCEPT ![r] = "refused"]
          /\ UNCHANGED index
  /\ overlapped' = (overlapped \/ \E q \in Runs : status[q] = "open")
  /\ UNCHANGED <<pending, writing, file, blob, saved, clock>>

\* The command ends or is killed, wherever it stands.
End(r) ==
  /\ status[r] = "open"
  /\ status' = [status EXCEPT ![r] = "ended"]
  /\ index' = [index EXCEPT ![r] = {}]
  /\ pending' = [pending EXCEPT ![r] = {}]
  /\ writing' = [writing EXCEPT ![r] = None]
  /\ UNCHANGED <<file, blob, saved, clock, overlapped>>

-----------------------------------------------------------------------------
(* The handlers.                                                           *)

IsNew(s) ==
  /\ blob[s] = {} /\ s \notin saved
  /\ \A r \in Runs : /\ \A p \in pending[r] : p.id # s
                     /\ \A e \in index[r] : e.id # s
  /\ \A e \in file.entries : e.id # s

\* mu is held for the whole of a commit.
Unlocked(r) == status[r] = "open" /\ writing[r] = None

ReserveVisibly(r, s, key, version) ==
  /\ Unlocked(r) /\ IsNew(s)
  /\ pending' = [pending EXCEPT ![r] = @ \cup
                   {[id |-> s, key |-> key, version |-> version]}]
  /\ index' = [index EXCEPT ![r] = @ \cup
                 {[id |-> s, key |-> key, version |-> version, createdAt |-> 0]}]
  /\ UNCHANGED <<status, writing, file, blob, saved, clock, overlapped>>

Reserve(r, s, key, version) ==
  /\ Unlocked(r) /\ IsNew(s)
  /\ pending' = [pending EXCEPT ![r] = @ \cup
                   {[id |-> s, key |-> key, version |-> version]}]
  /\ UNCHANGED <<status, index, writing, file, blob, saved, clock, overlapped>>

\* A chunk is written at its offset, in any order and without the mutex.
Upload(r, p, chunk) ==
  /\ status[r] = "open" /\ p \in pending[r]
  /\ blob' = [blob EXCEPT ![p.id] = @ \cup {chunk}]
  /\ UNCHANGED <<status, index, pending, writing, file, saved, clock, overlapped>>

Uploaded(p) == blob[p.id] = Chunks

Committed(r, p) ==
  {[id |-> p.id, key |-> p.key, version |-> p.version, createdAt |-> clock]}

\* The commit moves the entry to the index and truncates index.json.  The
\* client commits once all its chunks have been accepted.
Commit(r, p) ==
  /\ Unlocked(r) /\ p \in pending[r] /\ Uploaded(p)
  /\ pending' = [pending EXCEPT ![r] = @ \ {p}]
  /\ index' = [index EXCEPT ![r] = @ \cup Committed(r, p)]
  /\ clock' = clock + 1
  /\ writing' = [writing EXCEPT ![r] = p.id]
  /\ file' = [kind |-> "truncated", entries |-> {}, length |-> 0]
  /\ UNCHANGED <<status, blob, saved, overlapped>>

\* What a write leaves, os.WriteFile having truncated the file before: the
\* index is longer the more entries it has, and one written over a longer
\* one of another run, or over one as long in entries, may leave its tail.
Overwritten(es) ==
  (IF file.length <= Cardinality(es)
   THEN {[kind |-> "written", entries |-> es, length |-> Cardinality(es)]} ELSE {})
  \cup
  (IF file.length >= Cardinality(es) /\ file.entries # es
   THEN {[kind |-> "garbled", entries |-> {}, length |-> file.length]} ELSE {})

WriteIndexOmitsNew(r) ==
  /\ status[r] = "open" /\ writing[r] # None
  /\ file' \in Overwritten({e \in index[r] : e.id # writing[r]})
  /\ saved' = saved \cup {writing[r]}
  /\ writing' = [writing EXCEPT ![r] = None]
  /\ UNCHANGED <<status, index, pending, blob, clock, overlapped>>

WriteIndex(r) ==
  /\ status[r] = "open" /\ writing[r] # None
  /\ file' \in Overwritten(index[r])
  /\ saved' = saved \cup {writing[r]}
  /\ writing' = [writing EXCEPT ![r] = None]
  /\ UNCHANGED <<status, index, pending, blob, clock, overlapped>>

\* The write fails after the truncation: the client is told so, but the
\* entry stays in memory and its reservation is gone.  (A file that cannot
\* even be opened would keep its old contents; that case is left out.)
WriteFails(r) ==
  /\ status[r] = "open" /\ writing[r] # None
  /\ writing' = [writing EXCEPT ![r] = None]
  /\ UNCHANGED <<status, index, pending, file, blob, saved, clock, overlapped>>

-----------------------------------------------------------------------------
Next ==
  \E r \in Runs :
    \/ Open(r) \/ End(r) \/ WriteIndex(r) \/ WriteFails(r)
    \/ \E s \in Saves, key \in Keys, version \in Versions :
         Reserve(r, s, key, version)
    \/ \E p \in pending[r] :
         Commit(r, p) \/ \E chunk \in Chunks : Upload(r, p, chunk)

Spec == Init /\ [][Next]_vars

-----------------------------------------------------------------------------
(* Properties.                                                             *)

\* Everything some run can serve, now or after opening the file.
Known == file.entries \cup UNION {index[r] : r \in Runs}

\* handlers.go: an archive is served only when it is whole, whoever reserved
\* it and whatever became of that run: a reservation is not an entry.
ServedBlobsAreWhole == \A e \in Known : blob[e.id] = Chunks

\* The requests of a client: a key and one restore-key.
Requests == {<<k, l>> : k, l \in Keys}

\* How good an answer e is, smaller is better: the request's keys count
\* first, then an exact match, then the age.
Better(e, f, keys) ==
  LET Rank(x, k) == <<k, IF x.key = keys[k] THEN 0 ELSE 1>>
      Ranks(x)   == {Rank(x, k) : k \in {k \in 1..Len(keys) :
                       x.key = keys[k] \/ <<keys[k], x.key>> \in Extends}}
      Less(a, b) == a[1] < b[1] \/ (a[1] = b[1] /\ a[2] < b[2])
      Best(x)    == CHOOSE a \in Ranks(x) : \A b \in Ranks(x) : a = b \/ Less(a, b)
  IN  IF Ranks(e) = {} THEN FALSE
      ELSE IF Ranks(f) = {} THEN TRUE
      ELSE \/ Less(Best(e), Best(f))
           \/ Best(e) = Best(f) /\ e.createdAt > f.createdAt

Answers(keys, e) ==
  \E k \in 1..Len(keys) : e.key = keys[k] \/ <<keys[k], e.key>> \in Extends

\* Find: on whatever index a run has come by, the answer is the best entry
\* of the version, and there is none only if no entry matches any key.
FindIsBest ==
  \A r \in Runs, keys \in Requests, version \in Versions :
    LET es == {e \in index[r] : e.version = version}
        e  == Find(index[r], keys, version)
    IN  IF e = None THEN \A f \in es : ~Answers(keys, f)
        ELSE e \in es /\ Answers(keys, e) /\ \A f \in es \ {e} : Better(e, f, keys)

\* store.go:26-29: what was saved in one run is there for a later one, unless
\* the file is unreadable or two runs were alive at once (the later commit
\* then rewrites the file without the other run's entries).
SavedIsRestorable ==
  ~overlapped /\ file.kind = "written" =>
    saved \subseteq {e.id : e \in file.entries}
=============================================================================
