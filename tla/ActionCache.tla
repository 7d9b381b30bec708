---------------------------- MODULE ActionCache -----------------------------
(***************************************************************************)
(* One entry of the action cache: FetchRemote (internal/actions/fetch.go), *)
(* as the combinations of a job, its other jobs and other invocations of   *)
(* the command call it, each from prepareUsesStep, which goes on to read   *)
(* the metadata and to copy the directory into the job.  EnsureNode        *)
(* (internal/actions/node.go) fills its own directory by the same steps,   *)
(* with bin/node as the marker and a version that never moves.             *)
(*                                                                         *)
(* There is no lock.  A call finds the marker (action.yml) or not; without *)
(* it, it downloads the archive, removes the directory, makes it again and *)
(* has tar extract into it.  The file system is modelled as the code uses  *)
(* it: a directory is removed by unlinking what is in it and then the      *)
(* directory, tar keeps the directory it changed to even when another call *)
(* has removed that, and writes files one by one over those already there. *)
(*                                                                         *)
(* `sure' is a history variable: the calls that nothing should disturb.    *)
(***************************************************************************)
EXTENDS Naturals, Sequences

CONSTANTS Calls,        \* the calls of FetchRemote for one owner/repo/ref
          Files,        \* the names an archive may contain
          Marker,       \* action.yml
          NoDir,        \* no directory is there
          Contents      \* Contents[v]: the files of version v of the ref

ASSUME CallsAssumption == NoDir \notin Calls

ASSUME ContentsAssumption ==
  /\ Marker \in Files
  /\ Contents \in Seq(SUBSET Files)
  /\ Contents # <<>>

Versions == 1..Len(Contents)

NoFile == [ver |-> 0]

\* A file as extracted by a call, whole once tar has closed it.
Extracted == [ver : Versions, by : Calls, whole : BOOLEAN]

VARIABLES upstream,     \* the version the ref names at the origin
          dir,          \* who made the directory that is there now
          tree,         \* the files in it
          pc,           \* where each call stands
          got,          \* got[c]: the version c downloaded or found
          cwd,          \* cwd[c]: the directory c's tar has changed to
          todo,         \* todo[c]: files left to extract or to copy
          open,         \* open[c]: the file c's tar has open, at most one
          copied,       \* copied[c]: what c has copied into its job
          sure          \* sure[c]: see Hit and Miss

vars == <<upstream, dir, tree, pc, got, cwd, todo, open, copied, sure>>

FetchPlaces == {"download", "unlink", "rmdir", "mkdir", "chdir", "extract"}

Places == FetchPlaces \cup {"check", "parse", "list", "copy", "done", "failed"}

TypeOK ==
  /\ upstream \in Versions
  /\ dir \in Calls \cup {NoDir}
  /\ tree \in [Files -> Extracted \cup {NoFile}]
  /\ pc \in [Calls -> Places]
  /\ got \in [Calls -> Versions \cup {0}]
  /\ cwd \in [Calls -> Calls \cup {NoDir}]
  /\ todo \in [Calls -> SUBSET Files]
  /\ open \in [Calls -> SUBSET Files]
  /\ copied \in [Calls -> [Files -> Extracted \cup {NoFile}]]
  /\ sure \in [Calls -> BOOLEAN]

Init ==
  /\ upstream = 1
  /\ dir = NoDir
  /\ tree = [f \in Files |-> NoFile]
  /\ pc = [c \in Calls |-> "check"]
  /\ got = [c \in Calls |-> 0]
  /\ cwd = [c \in Calls |-> NoDir]
  /\ todo = [c \in Calls |-> {}]
  /\ open = [c \in Calls |-> {}]
  /\ copied = [c \in Calls |-> [f \in Files |-> NoFile]]
  /\ sure = [c \in Calls |-> FALSE]

Goto(c, from, to) == pc[c] = from /\ pc' = [pc EXCEPT ![c] = to]

Fetching(c) == pc[c] \in FetchPlaces
NobodyFetches == \A c \in Calls : ~Fetching(c)

Present == {f \in Files : tree[f] # NoFile}

\* What a directory holds once version v has been extracted into it.
IsWhole(files, v) ==
  \A f \in Files : IF f \in Contents[v]
                   THEN files[f] \in [ver : {v}, by : Calls, whole : {TRUE}]
                   ELSE files[f] = NoFile

-----------------------------------------------------------------------------
(* FetchRemote.                                                            *)

\* Only the marker is looked at.  Nothing should disturb a call that finds
\* a version extracted as a whole and nobody at work on the directory.
Hit(c) ==
  /\ Goto(c, "check", "parse")
  /\ Marker \in Present
  /\ got' = [got EXCEPT ![c] = tree[Marker].ver]
  /\ sure' = [sure EXCEPT ![c] = NobodyFetches /\ IsWhole(tree, tree[Marker].ver)]
  /\ UNCHANGED <<upstream, dir, tree, cwd, todo, open, copied>>

\* A check that looks for the origin's version.
MissStale(c) ==
  /\ Goto(c, "check", "download")
  /\ Marker \in Present => tree[Marker].ver # upstream
  /\ sure' = [d \in Calls |-> IF d = c THEN NobodyFetches
                                       ELSE sure[d] /\ ~Fetching(d)]
  /\ UNCHANGED <<upstream, dir, tree, got, cwd, todo, open, copied>>

\* Nor should anything disturb a call that downloads while no other does.
Miss(c) ==
  /\ Goto(c, "check", "download")
  /\ Marker \notin Present
  /\ sure' = [d \in Calls |-> IF d = c THEN NobodyFetches
                                       ELSE sure[d] /\ ~Fetching(d)]
  /\ UNCHANGED <<upstream, dir, tree, got, cwd, todo, open, copied>>

Download(c) ==
  /\ Goto(c, "download", "unlink")
  /\ got' = [got EXCEPT ![c] = upstream]
  /\ UNCHANGED <<upstream, dir, tree, cwd, todo, open, copied, sure>>

\* os.RemoveAll, without the removal.
KeepFiles(c) ==
  /\ Goto(c, "unlink", "mkdir")
  /\ UNCHANGED <<upstream, dir, tree, got, cwd, todo, open, copied, sure>>

\* os.RemoveAll: first the files ...
UnlinkFiles(c) ==
  /\ Goto(c, "unlink", "rmdir")
  /\ tree' = [f \in Files |-> NoFile]
  /\ UNCHANGED <<upstream, dir, got, cwd, todo, open, copied, sure>>

\* ... then the directory, unless another call's files have appeared in it.
RemoveDir(c) ==
  /\ Goto(c, "rmdir", IF Present = {} THEN "mkdir" ELSE "failed")
  /\ dir' = IF Present = {} THEN NoDir ELSE dir
  /\ UNCHANGED <<upstream, tree, got, cwd, todo, open, copied, sure>>

\* os.MkdirAll is content with a directory that is there.
MakeDir(c) ==
  /\ Goto(c, "mkdir", "chdir")
  /\ dir' = IF dir = NoDir THEN c ELSE dir
  /\ UNCHANGED <<upstream, tree, got, cwd, todo, open, copied, sure>>

\* tar changes to the directory, if it is still there.
ChangeDir(c) ==
  /\ Goto(c, "chdir", IF dir = NoDir THEN "failed" ELSE "extract")
  /\ cwd' = [cwd EXCEPT ![c] = dir]
  /\ todo' = [todo EXCEPT ![c] = Contents[got[c]]]
  /\ UNCHANGED <<upstream, dir, tree, got, open, copied, sure>>

\* tar makes each file anew, and fails in a directory that was removed.
OpenFile(c, f) ==
  /\ pc[c] = "extract" /\ open[c] = {} /\ f \in todo[c]
  /\ dir = cwd[c]
  /\ tree' = [tree EXCEPT ![f] = [ver |-> got[c], by |-> c, whole |-> FALSE]]
  /\ open' = [open EXCEPT ![c] = {f}]
  /\ UNCHANGED <<upstream, dir, pc, got, cwd, todo, copied, sure>>

\* The name may by now be another call's file, or gone.
CloseFile(c, f) ==
  /\ pc[c] = "extract" /\ open[c] = {f}
  /\ tree' = IF tree[f] = [ver |-> got[c], by |-> c, whole |-> FALSE]
             THEN [tree EXCEPT ![f].whole = TRUE]
             ELSE tree
  /\ open' = [open EXCEPT ![c] = {}]
  /\ todo' = [todo EXCEPT ![c] = @ \ {f}]
  /\ UNCHANGED <<upstream, dir, pc, got, cwd, copied, sure>>

EndExtract(c) ==
  /\ Goto(c, "extract", "parse")
  /\ todo[c] = {}
  /\ UNCHANGED <<upstream, dir, tree, got, cwd, todo, open, copied, sure>>

-----------------------------------------------------------------------------
(* prepareUsesStep, after FetchRemote.                                     *)

ParseMetadata(c) ==
  /\ Goto(c, "parse", IF Marker \in Present THEN "list" ELSE "failed")
  /\ UNCHANGED <<upstream, dir, tree, got, cwd, todo, open, copied, sure>>

\* CopyToContainer: `docker cp' or `cp -R' lists the directory ...
ListDir(c) ==
  /\ Goto(c, "list", IF dir = NoDir THEN "failed" ELSE "copy")
  /\ todo' = [todo EXCEPT ![c] = Present]
  /\ UNCHANGED <<upstream, dir, tree, got, cwd, open, copied, sure>>

\* ... and copies file by file what it finds, failing at one that is gone.
CopyFile(c, f) ==
  /\ pc[c] = "copy" /\ f \in todo[c]
  /\ f \in Present
  /\ copied' = [copied EXCEPT ![c][f] = tree[f]]
  /\ todo' = [todo EXCEPT ![c] = @ \ {f}]
  /\ UNCHANGED <<upstream, dir, tree, pc, got, cwd, open, sure>>

EndCopy(c) ==
  /\ Goto(c, "copy", "done")
  /\ todo[c] = {}
  /\ UNCHANGED <<upstream, dir, tree, got, cwd, todo, open, copied, sure>>

-----------------------------------------------------------------------------
(* What else happens.                                                      *)

\* A step of the call fails, or its process ends: what it has written to the
\* directory stays.  A tar that outlives its parent is the parent ending later.
Breaks(c) ==
  /\ pc[c] \notin {"done", "failed"}
  /\ pc' = [pc EXCEPT ![c] = "failed"]
  /\ got' = [got EXCEPT ![c] = 0]
  /\ cwd' = [cwd EXCEPT ![c] = NoDir]
  /\ todo' = [todo EXCEPT ![c] = {}]
  /\ open' = [open EXCEPT ![c] = {}]
  /\ sure' = [sure EXCEPT ![c] = FALSE]
  /\ UNCHANGED <<upstream, dir, tree, copied>>

\* A branch or a tag moves at the origin.
RefMoves ==
  /\ upstream < Len(Contents)
  /\ upstream' = upstream + 1
  /\ UNCHANGED <<dir, tree, pc, got, cwd, todo, open, copied, sure>>

Fetch(c) ==
  \/ Hit(c) \/ Miss(c) \/ Download(c)
  \/ UnlinkFiles(c) \/ RemoveDir(c) \/ MakeDir(c)
  \/ ChangeDir(c) \/ EndExtract(c)
  \/ \E f \in Files : OpenFile(c, f) \/ CloseFile(c, f)

Stage(c) ==
  \/ ParseMetadata(c) \/ ListDir(c) \/ EndCopy(c)
  \/ \E f \in Files : CopyFile(c, f)

Next ==
  \/ \E c \in Calls : Fetch(c) \/ Stage(c) \/ Breaks(c)
  \/ RefMoves

Spec == Init /\ [][Next]_vars

-----------------------------------------------------------------------------
(* Properties.                                                             *)

\* A call that downloads while no other call does, or that finds a version
\* as a whole with nobody at work on it, ends with exactly the files of that
\* one version in its job: whatever an earlier call left in the directory
\* when it broke off, wherever the ref has moved, and whoever calls
\* meanwhile (fetch.go: the RemoveAll before the extraction, and the check
\* of the marker before everything).  Only a version without the marker, which
\* is no action, may be downloaded once more while a call goes on to read it.
CopiesAreWhole ==
  \A c \in Calls :
    pc[c] = "done" /\ sure[c] /\ Marker \in Contents[got[c]] => IsWhole(copied[c], got[c])

\* "a mutable branch ref won't auto-refresh" (fetch.go:11-12): once a
\* version with the marker is there as a whole and nobody is at work on the
\* directory, no call ever changes it again or starts a download.
Warm == NobodyFetches /\ \E v \in Versions : Marker \in Contents[v] /\ IsWhole(tree, v)

WarmStaysWarm == [][Warm => tree' = tree /\ dir' = dir /\ Warm']_vars
=============================================================================
