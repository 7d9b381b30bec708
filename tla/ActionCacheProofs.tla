-------------------------- MODULE ActionCacheProofs --------------------------
(***************************************************************************)
(* Theorems about the action cache, for every number of calls and every    *)
(* history of the ref, versions without an action.yml included.            *)
(***************************************************************************)
EXTENDS ActionCache, TLAPS

-----------------------------------------------------------------------------
(* The parts of the inductive invariant.                                   *)

\* What holds of every call, disturbed or not: a file is open only in tar,
\* and nothing is copied before the copying starts.
CallOK(c) ==
  /\ IF pc[c] = "extract" THEN open[c] \subseteq todo[c] ELSE open[c] = {}
  /\ pc[c] \notin {"check", "download", "failed"} => got[c] \in Versions
  /\ pc[c] \notin {"copy", "done", "failed"} => copied[c] = [f \in Files |-> NoFile]
  /\ pc[c] = "check" => ~sure[c]

WholeFile(v) == [ver : {v}, by : Calls, whole : {TRUE}]

\* c's tar has the directory to itself: what it has closed is whole, what it
\* has open is not, and there is nothing else.
Extracting(c) ==
  /\ todo[c] \subseteq Contents[got[c]]
  /\ \A f \in Files :
       \/ /\ f \in open[c]
          /\ tree[f] = [ver |-> got[c], by |-> c, whole |-> FALSE]
       \/ /\ f \in Contents[got[c]] \ todo[c]
          /\ tree[f] \in WholeFile(got[c])
       \/ /\ f \in (Files \ Contents[got[c]]) \cup (todo[c] \ open[c])
          /\ tree[f] = NoFile

\* What c has copied so far is of its version.
Copying(c) ==
  /\ todo[c] \subseteq Contents[got[c]]
  /\ \A f \in Files : IF f \in Contents[got[c]] \ todo[c]
                      THEN copied[c][f] \in WholeFile(got[c])
                      ELSE copied[c][f] = NoFile

Alone(c) == \A d \in Calls \ {c} : ~Fetching(d)

UsePlaces == {"parse", "list", "copy", "done"}

\* A call that nothing should disturb is the only one that fetches, or
\* reads a version that stays as it is.
SureOK(c) ==
  sure[c] =>
    /\ Fetching(c) => Alone(c)
    /\ pc[c] \in {"rmdir", "mkdir", "chdir"} => Present = {}
    /\ pc[c] = "extract" => Extracting(c)
    /\ pc[c] \in UsePlaces /\ Marker \in Contents[got[c]] =>
         /\ pc[c] # "done" => NobodyFetches /\ IsWhole(tree, got[c])
         /\ pc[c] = "copy" => Copying(c)
         /\ pc[c] = "done" => IsWhole(copied[c], got[c])

CallInv == \A c \in Calls : CallOK(c)

SureInv == \A c \in Calls : SureOK(c)

IInv == TypeOK /\ CallInv /\ SureInv

-----------------------------------------------------------------------------
LEMMA ContentsType ==
  /\ Marker \in Files /\ Len(Contents) \in Nat \ {0}
  /\ \A v \in Versions : Contents[v] \subseteq Files /\ v # 0
BY ContentsAssumption DEF Versions

LEMMA NotNoFile ==
  /\ \A r \in Extracted : r # NoFile
  /\ \A v \in Versions : WholeFile(v) \subseteq Extracted
  /\ \A v \in Versions, c \in Calls :
       [ver |-> v, by |-> c, whole |-> FALSE] \in Extracted
<1>1. \A r \in Extracted : r.ver # NoFile.ver
  BY ContentsType DEF Extracted, NoFile
<1> QED
  BY <1>1 DEF Extracted, WholeFile

LEMMA CloseMakesWhole ==
  ASSUME NEW v \in Versions, NEW c \in Calls, NEW r, r = [ver |-> v, by |-> c, whole |-> FALSE]
  PROVE  [r EXCEPT !.whole = TRUE] \in WholeFile(v)
<1>1. r \in [ver : {v}, by : Calls, whole : BOOLEAN]
  OBVIOUS
<1> QED
  BY <1>1 DEF WholeFile

LEMMA TypeStep == TypeOK /\ CallInv /\ [Next]_vars => TypeOK'
<1> SUFFICES ASSUME TypeOK, CallInv, [Next]_vars PROVE TypeOK'
  OBVIOUS
<1> USE ContentsType DEF TypeOK, Goto, Places, FetchPlaces
<1>1. CASE UNCHANGED vars
  BY <1>1 DEF vars
<1>2. ASSUME NEW c \in Calls, Hit(c) PROVE TypeOK'
  <2>1. tree[Marker].ver \in Versions
    BY <1>2 DEF Hit, Present, Extracted
  <2>2. sure' \in [Calls -> BOOLEAN]
    <3>1. (NobodyFetches /\ IsWhole(tree, tree[Marker].ver)) \in BOOLEAN
      BY DEF NobodyFetches, IsWhole
    <3> QED
      BY <1>2, <3>1 DEF Hit
  <2> QED
    BY <1>2, <2>1, <2>2 DEF Hit
<1>3. ASSUME NEW c \in Calls, Miss(c) PROVE TypeOK'
  <2>1. sure' \in [Calls -> BOOLEAN]
    BY <1>3 DEF Miss, NobodyFetches, Fetching
  <2> QED
    BY <1>3, <2>1 DEF Miss
<1>4. ASSUME NEW c \in Calls,
             Download(c) \/ UnlinkFiles(c) \/ RemoveDir(c) \/ MakeDir(c) \/ EndExtract(c)
      PROVE  TypeOK'
  BY <1>4, ZenonT(60) DEF Download, UnlinkFiles, RemoveDir, MakeDir, EndExtract
<1>5. ASSUME NEW c \in Calls, ChangeDir(c) PROVE TypeOK'
  <2>1. got[c] \in Versions
    BY <1>5 DEF ChangeDir, CallInv, CallOK
  <2> QED
    BY <1>5, <2>1 DEF ChangeDir
<1>6. ASSUME NEW c \in Calls, NEW f \in Files, OpenFile(c, f) PROVE TypeOK'
  <2>1. [ver |-> got[c], by |-> c, whole |-> FALSE] \in Extracted
    BY <1>6, NotNoFile DEF OpenFile, CallInv, CallOK
  <2> QED
    BY <1>6, <2>1 DEF OpenFile
<1>7. ASSUME NEW c \in Calls, NEW f \in Files, CloseFile(c, f) PROVE TypeOK'
  <2>1. tree' \in [Files -> Extracted \cup {NoFile}]
    <3>1. CASE tree[f] = [ver |-> got[c], by |-> c, whole |-> FALSE]
      <4>1. [tree[f] EXCEPT !.whole = TRUE] \in Extracted
        BY <1>7, <3>1, CloseMakesWhole, NotNoFile DEF CloseFile, CallInv, CallOK
      <4> QED
        BY <1>7, <3>1, <4>1 DEF CloseFile
    <3>2. CASE tree[f] # [ver |-> got[c], by |-> c, whole |-> FALSE]
      BY <1>7, <3>2 DEF CloseFile
    <3> QED
      BY <3>1, <3>2
  <2> QED
    BY <1>7, <2>1 DEF CloseFile
<1>8. ASSUME NEW c \in Calls, ParseMetadata(c) \/ ListDir(c) \/ EndCopy(c) PROVE TypeOK'
  <2>1. CASE ParseMetadata(c) \/ EndCopy(c)
    BY <2>1 DEF ParseMetadata, EndCopy
  <2>2. CASE ListDir(c)
    <3>1. Present \in SUBSET Files
      BY DEF Present
    <3> QED
      BY <2>2, <3>1 DEF ListDir
  <2> QED
    BY <1>8, <2>1, <2>2
<1>9. ASSUME NEW c \in Calls, NEW f \in Files, CopyFile(c, f) PROVE TypeOK'
  BY <1>9 DEF CopyFile
<1>10. ASSUME NEW c \in Calls, Breaks(c) PROVE TypeOK'
  BY <1>10 DEF Breaks
<1>11. CASE RefMoves
  BY <1>11 DEF RefMoves, Versions
<1> QED
  BY <1>1, <1>2, <1>3, <1>4, <1>5, <1>6, <1>7, <1>8, <1>9, <1>10, <1>11 DEF Next, Fetch, Stage

LEMMA CallStep == TypeOK /\ CallInv /\ [Next]_vars => CallInv'
<1> SUFFICES ASSUME TypeOK, CallInv, [Next]_vars, NEW d \in Calls PROVE CallOK(d)'
  BY DEF CallInv
<1> USE DEF TypeOK, Goto, CallOK
<1>0. CallOK(d) /\ (\A c \in Calls : CallOK(c))
  BY DEF CallInv
<1>1. CASE UNCHANGED vars \/ RefMoves
  BY <1>0, <1>1 DEF vars, RefMoves
<1>2. ASSUME NEW c \in Calls, Hit(c) PROVE CallOK(d)'
  <2>1. tree[Marker].ver \in Versions
    BY <1>2, ContentsType DEF Hit, Present, Extracted
  <2> QED
    BY <1>0, <1>2, <2>1 DEF Hit
<1>3. ASSUME NEW c \in Calls, Miss(c) PROVE CallOK(d)'
  BY <1>0, <1>3 DEF Miss
<1>4. ASSUME NEW c \in Calls,
             Download(c) \/ UnlinkFiles(c) \/ RemoveDir(c) \/ MakeDir(c) \/ EndExtract(c)
      PROVE  CallOK(d)'
  BY <1>0, <1>4 DEF Download, UnlinkFiles, RemoveDir, MakeDir, EndExtract
<1>5. ASSUME NEW c \in Calls, ChangeDir(c) PROVE CallOK(d)'
  BY <1>0, <1>5 DEF ChangeDir
<1>6. ASSUME NEW c \in Calls, NEW f \in Files, OpenFile(c, f) \/ CloseFile(c, f)
      PROVE  CallOK(d)'
  BY <1>0, <1>6 DEF OpenFile, CloseFile
<1>7. ASSUME NEW c \in Calls, ParseMetadata(c) \/ ListDir(c) \/ EndCopy(c) PROVE CallOK(d)'
  BY <1>0, <1>7 DEF ParseMetadata, ListDir, EndCopy
<1>8. ASSUME NEW c \in Calls, NEW f \in Files, CopyFile(c, f) PROVE CallOK(d)'
  BY <1>0, <1>8 DEF CopyFile
<1>9. ASSUME NEW c \in Calls, Breaks(c) PROVE CallOK(d)'
  BY <1>0, <1>9 DEF Breaks
<1> QED
  BY <1>1, <1>2, <1>3, <1>4, <1>5, <1>6, <1>7, <1>8, <1>9 DEF Next, Fetch, Stage

-----------------------------------------------------------------------------
(* What a step of one call does to another, that nothing should disturb.   *)

LEMMA WholeHasMarker ==
  ASSUME TypeOK, NEW v \in Versions, IsWhole(tree, v)
  PROVE  Present = Contents[v]
<1>1. ASSUME NEW f \in Files PROVE f \in Present <=> f \in Contents[v]
  BY NotNoFile, <1>1 DEF IsWhole, Present, WholeFile
<1> QED
  BY <1>1, ContentsType DEF Present

\* d is where it was, and no call has started to fetch.
Stays(d) ==
  /\ pc'[d] = pc[d] /\ got'[d] = got[d] /\ todo'[d] = todo[d]
  /\ open'[d] = open[d] /\ copied'[d] = copied[d]
  /\ sure'[d] => sure[d]
  /\ \A e \in Calls : Fetching(e)' => Fetching(e)

LEMMA StaysSure ==
  ASSUME NEW d \in Calls, SureOK(d), Stays(d), UNCHANGED tree
  PROVE  SureOK(d)'
<1> SUFFICES ASSUME sure'[d] PROVE SureOK(d)'
  BY DEF SureOK
<1>1. Alone(d) => Alone(d)'
  BY DEF Stays, Alone
<1>2. NobodyFetches => NobodyFetches'
  BY DEF Stays, NobodyFetches
<1>3. Present' = Present /\ (Extracting(d) => Extracting(d)') /\ (Copying(d) => Copying(d)')
  BY DEF Stays, Present, Extracting, Copying
<1>4. Fetching(d)' = Fetching(d) /\ \A v : IsWhole(tree, v) => IsWhole(tree, v)'
  BY DEF Stays, Fetching, IsWhole
<1>5. \A v : IsWhole(copied[d], v) => IsWhole(copied[d], v)'
  BY DEF Stays, IsWhole
<1> QED
  BY <1>1, <1>2, <1>3, <1>4, <1>5 DEF SureOK, Stays

\* Whoever writes to the directory is fetching.
LEMMA WritesDisturbNobody ==
  ASSUME NEW d \in Calls, SureOK(d), Stays(d), NEW c \in Calls \ {d}, Fetching(c)
  PROVE  SureOK(d)'
<1> SUFFICES ASSUME sure'[d] PROVE SureOK(d)'
  BY DEF SureOK
<1>1. sure[d] /\ ~Fetching(d) /\ ~NobodyFetches
  BY DEF Stays, SureOK, Alone, NobodyFetches
<1>2. ~Fetching(d)' /\ pc[d] \notin FetchPlaces /\ pc'[d] \notin FetchPlaces
  BY <1>1 DEF Stays, Fetching
<1>3. \A v : IsWhole(copied[d], v) => IsWhole(copied[d], v)'
  BY DEF Stays, IsWhole
<1> QED
  BY <1>1, <1>2, <1>3 DEF SureOK, Stays, UsePlaces, FetchPlaces

LEMMA MissDisturbsNobody ==
  ASSUME TypeOK, CallInv, NEW d \in Calls, SureOK(d), NEW c \in Calls, Miss(c)
  PROVE  SureOK(d)'
<1> SUFFICES ASSUME sure'[d] PROVE SureOK(d)'
  BY DEF SureOK
<1> USE DEF TypeOK, Goto
<1>1. CASE d = c
  <2>1. NobodyFetches /\ pc' = [pc EXCEPT ![c] = "download"]
    BY <1>1 DEF Miss
  <2>2. Alone(c)'
    BY <2>1 DEF Alone, NobodyFetches, Fetching
  <2> QED
    BY <1>1, <2>1, <2>2 DEF SureOK, UsePlaces
<1>2. CASE d # c
  <2>1. /\ sure[d] /\ ~Fetching(d) /\ pc'[d] = pc[d] /\ Marker \notin Present
        /\ got' = got /\ copied' = copied
    BY <1>2 DEF Miss
  <2>2. ~Fetching(d)' /\ pc[d] \notin FetchPlaces
    BY <2>1 DEF Fetching
  <2>3. pc[d] \in UsePlaces => got[d] \in Versions
    BY DEF CallInv, CallOK, UsePlaces
  <2>4. ASSUME pc[d] \in UsePlaces, Marker \in Contents[got[d]] PROVE pc[d] = "done"
    BY <2>1, <2>3, <2>4, WholeHasMarker DEF SureOK
  <2>5. \A v : IsWhole(copied[d], v) => IsWhole(copied[d], v)'
    BY <2>1 DEF IsWhole
  <2> QED
    BY <2>1, <2>2, <2>4, <2>5 DEF SureOK, FetchPlaces
<1> QED
  BY <1>1, <1>2

LEMMA OthersSure ==
  ASSUME TypeOK, CallInv, NEW d \in Calls, SureOK(d), NEW c \in Calls \ {d},
         Fetch(c) \/ Stage(c) \/ Breaks(c)
  PROVE  SureOK(d)'
<1> USE DEF TypeOK, Goto
<1>1. CASE Miss(c)
  BY <1>1, MissDisturbsNobody
<1>2. ASSUME \/ Hit(c) \/ Download(c) \/ RemoveDir(c) \/ MakeDir(c) \/ ChangeDir(c)
             \/ EndExtract(c) \/ ParseMetadata(c) \/ ListDir(c) \/ EndCopy(c) \/ Breaks(c)
             \/ \E f \in Files : CopyFile(c, f)
      PROVE  SureOK(d)'
  <2>1. /\ pc'[d] = pc[d] /\ got'[d] = got[d] /\ todo'[d] = todo[d]
        /\ open'[d] = open[d] /\ copied'[d] = copied[d] /\ tree' = tree
        /\ sure'[d] = sure[d]
    BY <1>2 DEF Hit, Download, RemoveDir, MakeDir, ChangeDir, EndExtract, ParseMetadata, ListDir,
                EndCopy, Breaks, CopyFile
  <2>2. \A e \in Calls : Fetching(e)' => Fetching(e)
    BY <1>2 DEF Hit, Download, RemoveDir, MakeDir, ChangeDir, EndExtract, ParseMetadata, ListDir,
                EndCopy, Breaks, CopyFile, Fetching, FetchPlaces
  <2> QED
    BY <2>1, <2>2, StaysSure DEF Stays
<1>3. ASSUME UnlinkFiles(c) \/ \E f \in Files : OpenFile(c, f) \/ CloseFile(c, f)
      PROVE  SureOK(d)'
  <2>1. Fetching(c)
    BY <1>3 DEF UnlinkFiles, OpenFile, CloseFile, Fetching, FetchPlaces
  <2>2. Stays(d)
    BY <1>3 DEF UnlinkFiles, OpenFile, CloseFile, Stays, Fetching, FetchPlaces
  <2> QED
    BY <2>1, <2>2, WritesDisturbNobody
<1> QED
  BY <1>1, <1>2, <1>3 DEF Fetch, Stage

-----------------------------------------------------------------------------
(* What a step of a call does to itself.                                   *)

LEMMA FetchOwn ==
  ASSUME TypeOK, CallInv, NEW c \in Calls, SureOK(c), sure[c],
         \/ Download(c) \/ UnlinkFiles(c) \/ RemoveDir(c) \/ MakeDir(c) \/ ChangeDir(c)
  PROVE  SureOK(c)'
<1> USE DEF TypeOK, Goto
<1>1. /\ pc[c] \in FetchPlaces
      /\ pc'[c] \in {"unlink", "rmdir", "mkdir", "chdir", "extract", "failed"}
      /\ \A e \in Calls \ {c} : pc'[e] = pc[e]
  BY DEF Download, UnlinkFiles, RemoveDir, MakeDir, ChangeDir, FetchPlaces
<1>2. Alone(c)'
  BY <1>1 DEF SureOK, Alone, Fetching
<1>3. pc'[c] \in {"rmdir", "mkdir", "chdir"} => Present' = {}
  <2>1. CASE UnlinkFiles(c)
    BY <2>1 DEF UnlinkFiles, Present
  <2>2. CASE ~UnlinkFiles(c)
    <3>1. tree' = tree
      BY <2>2 DEF Download, RemoveDir, MakeDir, ChangeDir
    <3>2. Present' = Present
      BY <3>1 DEF Present
    <3>3. pc'[c] \in {"rmdir", "mkdir", "chdir"} => Present = {}
      BY <2>2 DEF Download, RemoveDir, MakeDir, ChangeDir, SureOK
    <3> QED
      BY <3>2, <3>3
  <2> QED
    BY <2>1, <2>2
<1>4. pc'[c] = "extract" => Extracting(c)'
  <2> SUFFICES ASSUME pc'[c] = "extract" PROVE Extracting(c)'
    OBVIOUS
  <2>1. /\ ChangeDir(c) /\ pc[c] = "chdir" /\ tree' = tree
        /\ todo'[c] = Contents[got[c]] /\ got' = got /\ open'[c] = {}
    BY DEF Download, UnlinkFiles, RemoveDir, MakeDir, ChangeDir, CallInv, CallOK
  <2>2. \A f \in Files : tree[f] = NoFile
    BY <2>1 DEF SureOK, Present
  <2> QED
    BY <2>1, <2>2 DEF Extracting
<1> QED
  BY <1>1, <1>2, <1>3, <1>4 DEF SureOK, UsePlaces

LEMMA ExtractOwn ==
  ASSUME TypeOK, CallInv, NEW c \in Calls, SureOK(c), sure[c],
         NEW f \in Files, OpenFile(c, f) \/ CloseFile(c, f)
  PROVE  SureOK(c)'
<1> USE DEF TypeOK
<1>1. /\ pc[c] = "extract" /\ pc' = pc /\ got' = got
      /\ Alone(c) /\ Extracting(c)
      /\ open[c] \subseteq todo[c] /\ got[c] \in Versions
  BY DEF OpenFile, CloseFile, SureOK, Fetching, FetchPlaces, CallInv, CallOK
<1>2. Alone(c)'
  BY <1>1 DEF Alone, Fetching
<1>3. CASE OpenFile(c, f)
  <2>1. /\ open[c] = {} /\ f \in todo[c] /\ todo' = todo /\ open'[c] = {f}
        /\ tree' = [tree EXCEPT ![f] = [ver |-> got[c], by |-> c, whole |-> FALSE]]
    BY <1>3 DEF OpenFile
  <2> DEFINE r == [ver |-> got[c], by |-> c, whole |-> FALSE]
  <2>2. tree'[f] = r /\ \A g \in Files \ {f} : tree'[g] = tree[g]
    BY <2>1
  <2> HIDE DEF r
  <2>3. Extracting(c)'
    BY <1>1, <2>1, <2>2 DEF Extracting, r
  <2> QED
    BY <1>1, <1>2, <2>3 DEF SureOK, UsePlaces
<1>4. CASE CloseFile(c, f)
  <2>1. open[c] = {f} /\ todo'[c] = todo[c] \ {f} /\ open'[c] = {}
    BY <1>4 DEF CloseFile
  <2>2. tree[f] = [ver |-> got[c], by |-> c, whole |-> FALSE] /\ f \in Contents[got[c]]
    BY <1>1, <2>1 DEF Extracting
  <2>3. tree' = [tree EXCEPT ![f].whole = TRUE]
    BY <1>4, <2>2 DEF CloseFile
  <2>4. tree'[f] \in WholeFile(got[c]) /\ \A g \in Files \ {f} : tree'[g] = tree[g]
    BY <1>1, <2>2, <2>3, CloseMakesWhole
  <2>5. Extracting(c)'
    BY <1>1, <2>1, <2>2, <2>4 DEF Extracting, WholeFile
  <2> QED
    BY <1>1, <1>2, <2>5 DEF SureOK, UsePlaces
<1> QED
  BY <1>3, <1>4

LEMMA EndExtractOwn ==
  ASSUME TypeOK, CallInv, NEW c \in Calls, SureOK(c), sure[c], EndExtract(c)
  PROVE  SureOK(c)'
<1> USE DEF TypeOK, Goto
<1>1. /\ pc[c] = "extract" /\ pc' = [pc EXCEPT ![c] = "parse"] /\ todo[c] = {} /\ open[c] = {}
      /\ got' = got /\ tree' = tree /\ Alone(c) /\ Extracting(c) /\ got[c] \in Versions
  BY DEF EndExtract, SureOK, Fetching, FetchPlaces, CallInv, CallOK
<1>2. NobodyFetches'
  BY <1>1 DEF NobodyFetches, Alone, Fetching, FetchPlaces
<1>3. IsWhole(tree, got[c])'
  BY <1>1 DEF Extracting, IsWhole, WholeFile
<1> QED
  BY <1>1, <1>2, <1>3 DEF SureOK, Fetching, FetchPlaces, UsePlaces

LEMMA HitOwn ==
  ASSUME TypeOK, CallInv, NEW c \in Calls, Hit(c)
  PROVE  SureOK(c)'
<1> SUFFICES ASSUME sure'[c] PROVE SureOK(c)'
  BY DEF SureOK
<1> USE DEF TypeOK, Goto
<1>1. /\ NobodyFetches /\ IsWhole(tree, tree[Marker].ver)
      /\ pc' = [pc EXCEPT ![c] = "parse"] /\ got'[c] = tree[Marker].ver /\ tree' = tree
  BY DEF Hit
<1>2. NobodyFetches'
  BY <1>1 DEF NobodyFetches, Fetching, FetchPlaces
<1>3. IsWhole(tree, got[c])'
  BY <1>1 DEF IsWhole
<1> QED
  BY <1>1, <1>2, <1>3 DEF SureOK, Fetching, FetchPlaces, UsePlaces

LEMMA StageOwn ==
  ASSUME TypeOK, CallInv, NEW c \in Calls, SureOK(c), sure[c], Stage(c)
  PROVE  SureOK(c)'
<1> USE DEF TypeOK, Goto
<1>1. /\ pc[c] \in {"parse", "list", "copy"} /\ pc'[c] \in {"list", "copy", "done", "failed"}
      /\ \A e \in Calls \ {c} : pc'[e] = pc[e]
      /\ UNCHANGED <<tree, got, sure>> /\ got[c] \in Versions
  BY DEF Stage, ParseMetadata, ListDir, EndCopy, CopyFile, CallInv, CallOK
<1> SUFFICES ASSUME Marker \in Contents[got[c]] PROVE SureOK(c)'
  BY <1>1 DEF SureOK, Fetching, FetchPlaces, UsePlaces
<1>2. NobodyFetches /\ IsWhole(tree, got[c])
  BY <1>1 DEF SureOK, UsePlaces
<1>3. NobodyFetches' /\ IsWhole(tree, got[c])'
  BY <1>1, <1>2 DEF NobodyFetches, Fetching, FetchPlaces, IsWhole
<1>4. pc'[c] = "copy" => Copying(c)'
  <2>1. CASE ListDir(c)
    <3>1. todo'[c] = Contents[got[c]] /\ copied' = copied
      BY <1>1, <1>2, <2>1, WholeHasMarker DEF ListDir
    <3>2. copied[c] = [f \in Files |-> NoFile]
      BY <2>1 DEF ListDir, CallInv, CallOK
    <3> QED
      BY <1>1, <3>1, <3>2 DEF Copying
  <2>2. ASSUME NEW f \in Files, CopyFile(c, f) PROVE Copying(c)'
    <3>1. /\ Copying(c) /\ f \in todo[c] /\ todo'[c] = todo[c] \ {f}
          /\ copied'[c] = [copied[c] EXCEPT ![f] = tree[f]]
      BY <1>1, <2>2 DEF CopyFile, SureOK, UsePlaces
    <3>2. f \in Contents[got[c]] /\ tree[f] \in WholeFile(got[c])
      BY <1>2, <3>1 DEF Copying, IsWhole, WholeFile
    <3>3. copied'[c][f] = tree[f] /\ \A g \in Files \ {f} : copied'[c][g] = copied[c][g]
      BY <3>1
    <3> QED
      BY <1>1, <3>1, <3>2, <3>3 DEF Copying
  <2> QED
    BY <2>1, <2>2 DEF Stage, ParseMetadata, EndCopy
<1>5. pc'[c] = "done" => IsWhole(copied[c], got[c])'
  <2> SUFFICES ASSUME pc'[c] = "done" PROVE IsWhole(copied[c], got[c])'
    OBVIOUS
  <2>1. pc[c] = "copy" /\ todo[c] = {} /\ copied' = copied
    BY <1>1 DEF Stage, ParseMetadata, ListDir, EndCopy, CopyFile
  <2>2. Copying(c)
    BY <2>1 DEF SureOK, UsePlaces
  <2> QED
    BY <1>1, <2>1, <2>2 DEF Copying, IsWhole, WholeFile
<1> QED
  BY <1>1, <1>3, <1>4, <1>5 DEF SureOK, Fetching, FetchPlaces, UsePlaces

LEMMA SureStep == TypeOK /\ CallInv /\ SureInv /\ [Next]_vars => SureInv'
<1> SUFFICES ASSUME TypeOK, CallInv, SureInv, [Next]_vars, NEW d \in Calls PROVE SureOK(d)'
  BY DEF SureInv
<1>0. SureOK(d)
  BY DEF SureInv
<1>1. CASE UNCHANGED vars \/ RefMoves
  BY <1>0, <1>1, StaysSure DEF vars, RefMoves, Stays, Fetching
<1>2. ASSUME NEW c \in Calls, Fetch(c) \/ Stage(c) \/ Breaks(c) PROVE SureOK(d)'
  <2>1. CASE c # d
    BY <1>0, <1>2, <2>1, OthersSure
  <2>2. CASE c = d
    <3>1. CASE Hit(d) \/ Miss(d)
      BY <1>0, <3>1, HitOwn, MissDisturbsNobody
    <3>2. CASE ~sure'[d]
      BY <3>2 DEF SureOK
    <3>3. CASE sure'[d] /\ ~Hit(d) /\ ~Miss(d)
      <4>1. sure[d] /\ ~Breaks(d)
        BY <1>2, <2>2, <3>3 DEF Fetch, Stage, Breaks, TypeOK, Download, UnlinkFiles, RemoveDir,
             MakeDir, ChangeDir, OpenFile, CloseFile, EndExtract, ParseMetadata, ListDir, EndCopy,
             CopyFile
      <4> QED
        BY <1>0, <1>2, <2>2, <3>3, <4>1, FetchOwn, ExtractOwn, EndExtractOwn, StageOwn DEF Fetch
    <3> QED
      BY <3>1, <3>2, <3>3
  <2> QED
    BY <2>1, <2>2
<1> QED
  BY <1>1, <1>2 DEF Next

-----------------------------------------------------------------------------
(* The theorems.                                                           *)

LEMMA Initially == Init => IInv
<1> SUFFICES ASSUME Init PROVE IInv
  OBVIOUS
<1>1. TypeOK
  BY ContentsType DEF Init, TypeOK, Places, Versions
<1>2. CallInv
  BY DEF Init, CallInv, CallOK
<1>3. SureInv
  BY DEF Init, SureInv, SureOK
<1> QED
  BY <1>1, <1>2, <1>3 DEF IInv

\* FetchRemote and prepareUsesStep, any number of calls at once: a call that
\* nothing should disturb is alone while it writes, and what it reads stays.
THEOREM Invariance == Spec => []IInv
<1>1. IInv /\ [Next]_vars => IInv'
  BY TypeStep, CallStep, SureStep DEF IInv
<1> QED
  BY Initially, <1>1, PTL DEF Spec

\* The variables keep their types: every file in the cache or in a job was
\* extracted by a call from a version of the ref.
THEOREM TypeCorrect == Spec => []TypeOK
<1>1. IInv => TypeOK
  BY DEF IInv
<1> QED
  BY Invariance, <1>1, PTL

\* fetch.go: the removal before the extraction and the check of the marker
\* before everything give an undisturbed call the files of one version.
THEOREM UndisturbedCopiesAreWhole == Spec => []CopiesAreWhole
<1>1. IInv => CopiesAreWhole
  BY DEF IInv, SureInv, SureOK, UsePlaces, CopiesAreWhole
<1> QED
  BY Invariance, <1>1, PTL

LEMMA WarmStep ==
  TypeOK /\ CallInv /\ [Next]_vars => (Warm => tree' = tree /\ dir' = dir /\ Warm')
<1> SUFFICES ASSUME TypeOK, CallInv, [Next]_vars, Warm
             PROVE  tree' = tree /\ dir' = dir /\ Warm'
  OBVIOUS
<1>1. PICK v \in Versions : Marker \in Contents[v] /\ IsWhole(tree, v)
  BY DEF Warm
<1>2. Marker \in Present
  BY <1>1, WholeHasMarker
<1>3. \A c \in Calls : pc[c] \notin FetchPlaces
  BY DEF Warm, NobodyFetches, Fetching
<1>4. /\ tree' = tree /\ dir' = dir
      /\ \A c \in Calls : pc'[c] \notin FetchPlaces
  BY <1>2, <1>3, ZenonT(60)
  DEF Next, Fetch, Stage, Breaks, RefMoves, vars, TypeOK, Goto, FetchPlaces,
       Hit, Miss, Download, UnlinkFiles, RemoveDir, MakeDir, ChangeDir, OpenFile, CloseFile,
       EndExtract, ParseMetadata, ListDir, EndCopy, CopyFile
<1>5. Warm'
  BY <1>1, <1>4 DEF Warm, NobodyFetches, Fetching, IsWhole
<1> QED
  BY <1>4, <1>5

\* "a mutable branch ref won't auto-refresh" (fetch.go:11-12), whatever calls.
THEOREM NoAutoRefresh == Spec => WarmStaysWarm
<1>1. IInv /\ [Next]_vars => [Warm => tree' = tree /\ dir' = dir /\ Warm']_vars
  BY WarmStep DEF IInv
<1> QED
  BY Invariance, <1>1, PTL DEF Spec, WarmStaysWarm
=============================================================================
