------------------------------ MODULE FileMove ------------------------------
(***************************************************************************)
(* Moving the files that are too large to upload (internal/app/move.go and *)
(* internal/mover): the record of each file in memory and in queue.json,   *)
(* the file system, and one move at a time.  A call of the operating       *)
(* system is one action, so that the process can die, the power fail or    *)
(* the user touch a file between any two of them.                          *)
(*                                                                         *)
(* The contents of a file are a version number; a digest is the version it *)
(* was computed from.  Cancelling the context is one more way for a step   *)
(* to fail.                                                                *)
(***************************************************************************)
EXTENDS Naturals, FiniteSets

CONSTANTS
  N,           \* number of oversize records; their order is the queue's
  Dirs,        \* folders the user may choose as a destination
  Names,       \* base names of the files
  MaxWrites,   \* bound: how often the user saves over a source file
  MaxForeign,  \* bound: files that other programs create
  MaxCalls,    \* bound: calls of MoveOversize
  MaxCrashes   \* bound: process deaths and power failures

Files == 1..N

ASSUME MoveConstants ==
  /\ N \in Nat \ {0}
  /\ MaxWrites \in Nat /\ MaxForeign \in Nat /\ MaxCalls \in Nat /\ MaxCrashes \in Nat

VARIABLES
  name,     \* base name of each record's file
  fs,       \* what is at each path
  vol,      \* what a power failure may take from a path
  undo,     \* how a power failure may bring a source back
  mem,      \* the records in memory
  disk,     \* the records in queue.json
  saver,    \* another operation that is saving the queue: its snapshot
  mv,       \* locals of MoveOversize and Move
  latest,   \* history: the newest version of each file
  late,     \* history: files written between the last check and the removal
  undone,   \* history: files whose finished rename a power failure took back
  litter,   \* history: partial paths whose removal failed or that a crash left
  budget    \* bounds: writes, foreign files, calls, crashes so far

vars == <<name, fs, vol, undo, mem, disk, saver, mv, latest, late, undone, litter, budget>>

-----------------------------------------------------------------------------
(* Paths, contents, records.                                               *)

Source(f) == <<"source", f, f>>
Destination(d, n) == <<"destination", d, n>>
\* partialPath: the hidden file next to the destination.
PartialPath(p) == <<"partial", p[2], p[3]>>
NoPath == <<"none", 0, 0>>

Sources == {Source(f) : f \in Files}
Destinations == {Destination(d, n) : d \in Dirs, n \in Names}
Partials == {PartialPath(p) : p \in Destinations}
Paths == Sources \cup Destinations \cup Partials

Absent == [kind |-> "absent", file |-> 0, version |-> 0]
Foreign == [kind |-> "foreign", file |-> 0, version |-> 0]
Torn(f) == [kind |-> "torn", file |-> f, version |-> 0]
Copy(f, v) == [kind |-> "file", file |-> f, version |-> v]

Exists(p) == p \in Paths /\ fs[p] # Absent

Oversize(p) == [st |-> "oversize", path |-> p, dest |-> NoPath]
Unsaved == [f \in Files |-> [st |-> "free", path |-> NoPath, dest |-> NoPath]]

NoMove ==
  [at |-> "idle", todo |-> {}, dir |-> NoPath, file |-> 0, dest |-> NoPath,
   from |-> NoPath, to |-> NoPath, digest |-> 0, partial |-> FALSE, installed |-> FALSE]

At(l) == mv.at = l
Goto(l) == mv' = [mv EXCEPT !.at = l]

\* What the step of another party leaves alone.
files == <<fs, vol, undo>>
queue == <<mem, disk, saver>>
ghosts == <<latest, late, undone, litter>>

-----------------------------------------------------------------------------
(* MoveOversize: the records.                                              *)

\* The call is refused as a whole when one destination is taken.
MoveOversize(d) ==
  LET items == {f \in Files : mem[f].st = "oversize"} IN
  /\ At("idle")
  /\ budget.calls < MaxCalls
  /\ items # {}
  /\ \A f \in items : ~Exists(Destination(d, name[f]))
  /\ mv' = [NoMove EXCEPT !.at = "item", !.todo = items, !.dir = d]
  /\ budget' = [budget EXCEPT !.calls = @ + 1]
  /\ UNCHANGED <<name, files, queue, ghosts>>

\* The next file: it must still be the one that was scanned (version 0).  The
\* intent goes to memory, the save follows.
NextItem ==
  /\ At("item")
  /\ \E f \in mv.todo :
       LET d == Destination(mv.dir, name[f]) IN
       /\ \A g \in mv.todo : f <= g
       /\ fs[mem[f].path] = Copy(f, 0)
       /\ mem' = [mem EXCEPT ![f].st = "moving", ![f].dest = d]
       /\ mv' = [mv EXCEPT !.at = "intent", !.file = f, !.dest = d, !.todo = @ \ {f}]
  /\ UNCHANGED <<name, files, disk, saver, ghosts, budget>>

\* The context is cancelled, the file is not the scanned one, or all are done.
CallReturns ==
  /\ At("item")
  /\ mv' = NoMove
  /\ UNCHANGED <<name, files, queue, ghosts, budget>>

PersistMuFree == saver = Unsaved

\* Mutant of SaveIntent: the move begins without waiting for the save.
MoveBeforeSave ==
  /\ At("intent")
  /\ Goto("inspect")
  /\ UNCHANGED <<name, files, queue, ghosts, budget>>

SaveIntent ==
  /\ At("intent")
  /\ PersistMuFree
  /\ disk' = mem
  /\ Goto("inspect")
  /\ UNCHANGED <<name, files, mem, saver, ghosts, budget>>

\* A failed save has left the old or the new queue.json.
SaveIntentFails ==
  /\ At("intent")
  /\ PersistMuFree
  /\ disk' \in {disk, mem}
  /\ mv' = [mv EXCEPT !.at = "withdraw"]
  /\ UNCHANGED <<name, files, mem, saver, ghosts, budget>>

BackToOversize ==
  mem' = [mem EXCEPT ![mv.file].st = "oversize", ![mv.file].dest = NoPath]

WithdrawIntent ==
  /\ At("withdraw")
  /\ BackToOversize
  /\ mv' = NoMove
  /\ UNCHANGED <<name, files, disk, saver, ghosts, budget>>

\* Move returned an error: the record is oversize again, and that is saved.
MoveFailed ==
  /\ At("failed")
  /\ BackToOversize
  /\ Goto("saveFailure")
  /\ UNCHANGED <<name, files, disk, saver, ghosts, budget>>

\* Mutant of MoveSucceeded: the destination is cleared before it becomes the path.
MoveSucceededSwapped ==
  /\ At("moved")
  /\ mem' = [mem EXCEPT ![mv.file] = [st |-> "moved", path |-> NoPath, dest |-> NoPath]]
  /\ Goto("saveSuccess")
  /\ UNCHANGED <<name, files, disk, saver, ghosts, budget>>

MoveSucceeded ==
  /\ At("moved")
  /\ mem' = [mem EXCEPT ![mv.file] = [st |-> "moved", path |-> mv.dest, dest |-> NoPath]]
  /\ Goto("saveSuccess")
  /\ UNCHANGED <<name, files, disk, saver, ghosts, budget>>

\* The save of the result; only a saved success lets the loop go on.
SaveResult ==
  /\ At("saveFailure") \/ At("saveSuccess")
  /\ PersistMuFree
  /\ \/ /\ disk' = mem
        /\ mv' = IF At("saveSuccess")
                 THEN [NoMove EXCEPT !.at = "item", !.todo = mv.todo, !.dir = mv.dir]
                 ELSE NoMove
     \/ /\ disk' \in {disk, mem}
        /\ mv' = NoMove
  /\ UNCHANGED <<name, files, mem, saver, ghosts, budget>>

\* An operation that does not need opMu saves the queue: it takes persistMu
\* with a snapshot of the current queue and writes it later.
OtherSnapshot ==
  /\ PersistMuFree
  /\ ~At("down")
  /\ mem # disk
  /\ saver' = mem
  /\ UNCHANGED <<name, files, mem, disk, mv, ghosts, budget>>

OtherSaves ==
  /\ ~PersistMuFree
  /\ disk' \in {disk, saver}
  /\ saver' = Unsaved
  /\ UNCHANGED <<name, files, mem, mv, ghosts, budget>>

-----------------------------------------------------------------------------
(* Move: the files.                                                        *)

\* destinationAbsent, and the source is a regular file.
Inspect ==
  /\ At("inspect")
  /\ ~Exists(mv.dest)
  /\ Exists(mem[mv.file].path)
  /\ mv' = [mv EXCEPT !.at = "rename", !.from = mem[mv.file].path, !.to = mv.dest]
  /\ UNCHANGED <<name, files, queue, ghosts, budget>>

\* What follows a finished rename: of the source itself, or of the partial.
Renamed == IF mv.from \in Sources THEN "moved" ELSE "syncDir"

\* The name moved from mv.from to mv.to: a rename of the source can be undone by
\* a power failure until its directory is synced, the name of a copy be lost.
Arrive ==
  /\ fs' = [fs EXCEPT ![mv.to] = fs[mv.from], ![mv.from] = Absent]
  /\ mv' = [mv EXCEPT !.at = Renamed, !.partial = FALSE, !.installed = mv.from \in Partials]
  /\ IF mv.from \in Sources
     THEN undo' = [undo EXCEPT ![mv.file] = <<"rename", mv.to>>]
          /\ vol' = [vol EXCEPT ![mv.to] = "none"]
     ELSE vol' = [vol EXCEPT ![mv.to] = vol[mv.from], ![mv.from] = "none"]
          /\ UNCHANGED undo
  /\ UNCHANGED <<name, queue, ghosts, budget>>

\* Mutant of Rename: rename(2), which replaces what is there.
RenameReplacing == At("rename") /\ Arrive

\* renameat2 with RENAME_NOREPLACE.
Rename == At("rename") /\ ~Exists(mv.to) /\ Arrive

\* The fallback without renameat2: a hard link, then unlink.
Link ==
  /\ At("rename")
  /\ ~Exists(mv.to)
  /\ fs' = [fs EXCEPT ![mv.to] = fs[mv.from]]
  /\ vol' = [vol EXCEPT ![mv.to] = IF vol[mv.from] = "data" THEN "data" ELSE "entry"]
  /\ Goto("unlink")
  /\ UNCHANGED <<name, undo, queue, ghosts, budget>>

Unlink == At("unlink") /\ Arrive

\* unlink failed: the new link is removed, or that fails too.
UnlinkFails ==
  /\ At("unlink")
  /\ \/ fs' = [fs EXCEPT ![mv.to] = Absent] /\ vol' = [vol EXCEPT ![mv.to] = "none"]
     \/ UNCHANGED <<fs, vol>>
  /\ Goto("cleanup")
  /\ UNCHANGED <<name, undo, queue, ghosts, budget>>

\* EXDEV: the destination is looked at again and the source is hashed.
HashSource ==
  /\ At("rename")
  /\ mv.from \in Sources
  /\ ~Exists(mv.to)
  /\ mv' = [mv EXCEPT !.at = "create", !.digest = fs[mv.from].version]
  /\ UNCHANGED <<name, files, queue, ghosts, budget>>

\* createPartial: O_CREATE|O_EXCL.
CreatePartial ==
  LET p == PartialPath(mv.dest) IN
  /\ At("create")
  /\ ~Exists(p)
  /\ fs' = [fs EXCEPT ![p] = Torn(mv.file)]
  /\ vol' = [vol EXCEPT ![p] = "data"]
  /\ mv' = [mv EXCEPT !.at = "copy", !.partial = TRUE, !.from = p]
  /\ UNCHANGED <<name, undo, queue, ghosts, budget>>

\* The bytes arrive, or others of the same number.
CopyBytes ==
  /\ At("copy")
  /\ fs' = [fs EXCEPT ![mv.from] = fs[mem[mv.file].path]] \/ UNCHANGED fs
  /\ Goto("sync")
  /\ UNCHANGED <<name, vol, undo, queue, ghosts, budget>>

\* Mutant of SyncPartial: Close without Sync.
CloseOnly ==
  /\ At("sync")
  /\ Goto("verify")
  /\ UNCHANGED <<name, files, queue, ghosts, budget>>

SyncPartial ==
  /\ At("sync")
  /\ vol' = [vol EXCEPT ![mv.from] = "entry"]
  /\ Goto("verify")
  /\ UNCHANGED <<name, fs, undo, queue, ghosts, budget>>

Digest(p) == fs[p] = Copy(mv.file, mv.digest)

VerifyPartial ==
  /\ At("verify")
  /\ Digest(mv.from)
  /\ ~Exists(mv.dest)
  /\ Goto("rename")
  /\ UNCHANGED <<name, files, queue, ghosts, budget>>

SyncDir ==
  /\ At("syncDir")
  /\ vol' = [vol EXCEPT ![mv.dest] = IF @ = "entry" THEN "none" ELSE @]
  /\ Goto("verifyInstalled")
  /\ UNCHANGED <<name, fs, undo, queue, ghosts, budget>>

VerifyInstalled ==
  /\ At("verifyInstalled")
  /\ Digest(mv.dest)
  /\ Goto("rehash")
  /\ UNCHANGED <<name, files, queue, ghosts, budget>>

\* The source is read again immediately before it is removed.
RehashSource ==
  /\ At("rehash")
  /\ Digest(mem[mv.file].path)
  /\ Goto("remove")
  /\ UNCHANGED <<name, files, queue, ghosts, budget>>

RemoveSource ==
  /\ At("remove")
  /\ fs' = [fs EXCEPT ![mem[mv.file].path] = Absent]
  /\ undo' = [undo EXCEPT ![mv.file] = <<"remove", mv.dest>>]
  /\ Goto("moved")
  /\ UNCHANGED <<name, vol, queue, ghosts, budget>>

\* Any step may find an error, a taken path or a cancelled context.
MoveSteps ==
  {"inspect", "rename", "create", "copy", "sync", "verify", "syncDir",
   "verifyInstalled", "rehash", "remove"}

StepFails ==
  /\ mv.at \in MoveSteps
  /\ Goto("cleanup")
  /\ UNCHANGED <<name, files, queue, ghosts, budget>>

\* The deferred functions, last first: the destination this move installed ...
DropInstalled ==
  /\ At("cleanup")
  /\ \/ /\ mv.installed
        /\ fs' = [fs EXCEPT ![mv.dest] = Absent]
        /\ vol' = [vol EXCEPT ![mv.dest] = "none"]
     \/ UNCHANGED <<fs, vol>>
  /\ mv' = [mv EXCEPT !.at = "cleanup2", !.installed = FALSE]
  /\ UNCHANGED <<name, undo, queue, ghosts, budget>>

\* Mutant of DropPartial: only a finished copy is removed.
DropFinishedPartial ==
  LET p == PartialPath(mv.dest) IN
  /\ At("cleanup2")
  /\ IF mv.partial /\ fs[p].kind = "file"
     THEN fs' = [fs EXCEPT ![p] = Absent] /\ vol' = [vol EXCEPT ![p] = "none"]
     ELSE UNCHANGED <<fs, vol>>
  /\ mv' = [mv EXCEPT !.at = "failed", !.partial = FALSE]
  /\ UNCHANGED <<name, undo, queue, ghosts, budget>>

\* ... then the partial file it created.
DropPartial ==
  LET p == PartialPath(mv.dest) IN
  /\ At("cleanup2")
  /\ \/ /\ mv.partial
        /\ fs' = [fs EXCEPT ![p] = Absent]
        /\ vol' = [vol EXCEPT ![p] = "none"]
        /\ UNCHANGED litter
     \/ /\ UNCHANGED <<fs, vol>>
        /\ litter' = IF mv.partial THEN litter \cup {p} ELSE litter
  /\ mv' = [mv EXCEPT !.at = "failed", !.partial = FALSE]
  /\ UNCHANGED <<name, undo, queue, latest, late, undone, budget>>

-----------------------------------------------------------------------------
(* The process and the world around it.                                    *)

\* The process dies.
Crash ==
  /\ ~At("down")
  /\ budget.crashes < MaxCrashes
  /\ mv' = [NoMove EXCEPT !.at = "down"]
  /\ saver' = Unsaved
  /\ litter' = litter \cup {p \in Partials : mv.partial /\ p = PartialPath(mv.dest)}
  /\ budget' = [budget EXCEPT !.crashes = @ + 1]
  /\ UNCHANGED <<name, files, mem, disk, latest, late, undone>>

\* What a power failure leaves at a path that was written.
Damage(p) == IF vol[p] = "entry" THEN {fs[p], Absent} ELSE {fs[p], Absent, Torn(fs[p].file)}

\* The power fails.  A rename or a removal in a directory that was not synced
\* happened or did not.
PowerFailure ==
  LET dirty == {p \in Paths : vol[p] # "none"}
      open == {f \in Files : undo[f][1] # "none" /\ ~Exists(Source(f))} IN
  /\ budget.crashes < MaxCrashes
  /\ mv' = [NoMove EXCEPT !.at = "down"]
  /\ saver' = Unsaved
  /\ \E back \in SUBSET open, left \in [dirty -> UNION {Damage(p) : p \in dirty}] :
       LET taken == {f \in back : undo[f][1] = "rename"} IN
       /\ \A p \in dirty : left[p] \in Damage(p)
       /\ fs' = [p \in Paths |->
                   IF p \in {Source(f) : f \in back} THEN fs[undo[p[2]][2]]
                   ELSE IF p \in {undo[f][2] : f \in taken} THEN Absent
                   ELSE IF p \in dirty THEN left[p] ELSE fs[p]]
       /\ undone' = undone \cup taken
  /\ vol' = [p \in Paths |-> "none"]
  /\ undo' = [f \in Files |-> <<"none", NoPath>>]
  /\ litter' = Partials
  /\ budget' = [budget EXCEPT !.crashes = @ + 1]
  /\ UNCHANGED <<name, mem, disk, latest, late>>

\* regularFileExists.
Regular(p) == Exists(p)

\* reconcileMovingJobs for one record; unclear: a path could not be inspected.
Reconciled(r, unclear) ==
  IF r.st # "moving" THEN r
  ELSE IF unclear THEN [r EXCEPT !.st = "failed"]
  ELSE IF Regular(r.path)
       THEN [r EXCEPT !.st = "oversize", !.dest = IF Regular(r.dest) THEN @ ELSE NoPath]
  ELSE IF Regular(r.dest) THEN [st |-> "moved", path |-> r.dest, dest |-> NoPath]
  ELSE [r EXCEPT !.st = "failed"]

\* The program starts again; the reconciled queue is saved, or that fails.
Load ==
  /\ At("down")
  /\ \E unclear \in SUBSET Files :
       mem' = [f \in Files |-> Reconciled(disk[f], f \in unclear)]
  /\ disk' \in {disk, mem'}
  /\ mv' = NoMove
  /\ UNCHANGED <<name, files, saver, ghosts, budget>>

\* The user saves a new version over a source; a link to it sees it too.
UserWrites(f) ==
  LET new == Copy(f, latest[f] + 1) IN
  /\ budget.writes < MaxWrites
  /\ fs[Source(f)].kind = "file"
  /\ latest' = [latest EXCEPT ![f] = @ + 1]
  /\ fs' = [p \in Paths |-> IF p = Source(f) \/ (At("unlink") /\ mv.from = Source(f) /\ p = mv.to)
                            THEN new ELSE fs[p]]
  /\ late' = IF At("remove") /\ mv.file = f THEN late \cup {f} ELSE late
  /\ budget' = [budget EXCEPT !.writes = @ + 1]
  /\ UNCHANGED <<name, vol, undo, queue, mv, undone, litter>>

\* Another program creates a file.
ForeignFile(p) ==
  /\ budget.foreign < MaxForeign
  /\ ~Exists(p)
  /\ fs' = [fs EXCEPT ![p] = Foreign]
  /\ budget' = [budget EXCEPT !.foreign = @ + 1]
  /\ UNCHANGED <<name, vol, undo, queue, mv, ghosts>>

-----------------------------------------------------------------------------
(* Specification.                                                          *)

Init ==
  /\ name \in [Files -> Names]
  /\ fs = [p \in Paths |-> IF p \in Sources THEN Copy(p[2], 0) ELSE Absent]
  /\ vol = [p \in Paths |-> "none"]
  /\ undo = [f \in Files |-> <<"none", NoPath>>]
  /\ mem = [f \in Files |-> Oversize(Source(f))]
  /\ disk = mem
  /\ saver = Unsaved
  /\ mv = NoMove
  /\ latest = [f \in Files |-> 0]
  /\ late = {} /\ undone = {} /\ litter = {}
  /\ budget = [writes |-> 0, foreign |-> 0, calls |-> 0, crashes |-> 0]

Records ==
  \/ \E d \in Dirs : MoveOversize(d)
  \/ NextItem \/ CallReturns \/ SaveIntent \/ SaveIntentFails \/ WithdrawIntent
  \/ MoveFailed \/ MoveSucceeded \/ SaveResult

Transfer ==
  \/ Inspect \/ Rename \/ Link \/ Unlink \/ UnlinkFails \/ HashSource
  \/ CreatePartial \/ CopyBytes \/ SyncPartial \/ VerifyPartial
  \/ SyncDir \/ VerifyInstalled \/ RehashSource \/ RemoveSource
  \/ StepFails \/ DropInstalled \/ DropPartial

World ==
  \/ OtherSnapshot \/ OtherSaves \/ Crash \/ PowerFailure \/ Load
  \/ \E f \in Files : UserWrites(f)
  \/ \E p \in Destinations \cup Partials : ForeignFile(p)

\* Nobody asks for another move.
Rest == At("idle") /\ PersistMuFree /\ UNCHANGED vars

Next == Records \/ Transfer \/ World \/ Rest

Spec == Init /\ [][Next]_vars

-----------------------------------------------------------------------------
(* Properties.                                                             *)

ContentType ==
  [kind : {"absent", "foreign", "torn", "file"}, file : {0} \cup Files, version : 0..MaxWrites]
RecordType ==
  [st : {"oversize", "moving", "moved", "failed"}, path : Sources \cup Destinations,
   dest : Destinations \cup {NoPath}]
LocalsType ==
  [at : {"idle", "down", "item", "intent", "withdraw", "unlink", "cleanup", "cleanup2",
         "failed", "moved", "saveFailure", "saveSuccess"} \cup MoveSteps,
   todo : SUBSET Files, dir : Dirs \cup {NoPath}, file : {0} \cup Files,
   dest : Destinations \cup {NoPath}, from : Paths \cup {NoPath},
   to : Destinations \cup {NoPath}, digest : 0..MaxWrites,
   partial : BOOLEAN, installed : BOOLEAN]

\* Type invariant of the file move.
MoveTypeOK ==
  /\ name \in [Files -> Names]
  /\ fs \in [Paths -> ContentType]
  /\ vol \in [Paths -> {"none", "entry", "data"}]
  /\ undo \in [Files -> {"none", "rename", "remove"} \X (Destinations \cup {NoPath})]
  /\ mem \in [Files -> RecordType] /\ disk \in [Files -> RecordType]
  /\ saver \in [Files -> RecordType] \cup {Unsaved}
  /\ mv \in LocalsType
  /\ latest \in [Files -> 0..MaxWrites]
  /\ late \subseteq Files /\ undone \subseteq Files /\ litter \subseteq Partials

\* Whatever fails, in whatever order, the newest contents of every file exist
\* complete at some path, at any moment and after any power failure; only what
\* the user wrote after Move read the source for the last time can be missing
\* (copyAfterEXDEV keeps the source until the copy is synced and verified).
CopyKept ==
  \A f \in Files \ late : \E p \in Paths : fs[p] = Copy(f, latest[f])

\* If the process dies now, the restart (Load, reconcileMovingJobs) shows an
\* oversize or moved record at a path where its file is.
RestartFindsFile ==
  \A f \in Files \ undone :
    LET r == Reconciled(disk[f], FALSE) IN
    r.st # "failed" => fs[r.path].kind = "file" /\ fs[r.path].file = f

\* A move never replaces or removes a file that some other program made, nor
\* overwrites the file of another record (Move: "The destination is never
\* overwritten").
NeverOverwrites ==
  [][\A p \in Paths :
       /\ fs[p] = Foreign => fs'[p] = Foreign
       /\ fs[p].kind = "file" /\ fs'[p] # Absent => fs'[p].file = fs[p].file]_fs

\* When no move is running, a partial copy is only where a crash left it or its
\* removal failed (a leftover makes every later move to that place fail).
NoLeftover ==
  At("idle") => \A p \in Partials \ litter : fs[p] \in {Absent, Foreign}
=============================================================================
