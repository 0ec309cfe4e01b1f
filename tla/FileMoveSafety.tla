---------------------------- MODULE FileMoveSafety ----------------------------
(***************************************************************************)
(* The promises of Move, for any number of files, folders and names: the   *)
(* inductive invariant Kept says where every file is at each point of a    *)
(* move, what a power failure could still take back, and that every record *)
(* that a restart can meet leads to the file.                              *)
(***************************************************************************)
EXTENDS FileMove, TLAPS

IsFile(p, f) == fs[p].kind = "file" /\ fs[p].file = f

\* A destination that holds the file of f for good.
Home(f, d) == d \in Destinations /\ IsFile(d, f) /\ vol[d] = "none"

\* The source of the file in hand is not touched before the copy is verified.
SourceHeld ==
  {"intent", "withdraw", "unlink", "cleanup", "cleanup2", "failed"} \cup MoveSteps
InHand == SourceHeld \cup {"moved", "saveFailure", "saveSuccess"}
IntentSaved == (SourceHeld \ {"intent", "withdraw"}) \cup {"moved"}

-----------------------------------------------------------------------------
(* The records.                                                            *)

\* A record that was not moved is at its source.
RecordShape(f, r) ==
  /\ r.st # "moved" => r.path = Source(f)
  /\ r.st = "moved" => r.path \in Destinations
  /\ r.st = "moving" => r.dest \in Destinations
QueueShape ==
  \A f \in Files :
    RecordShape(f, mem[f]) /\ RecordShape(f, disk[f])
    /\ (saver # Unsaved => RecordShape(f, saver[f]))

\* A restart that meets this record finds the file.
Leads(f, r) ==
  /\ r.st = "oversize" => IsFile(Source(f), f)
  /\ r.st = "moving" => IsFile(Source(f), f) \/ Home(f, r.dest)
  /\ r.st = "moved" => Home(f, r.path)
QueueLeads ==
  \A f \in Files \ undone :
    Leads(f, mem[f]) /\ Leads(f, disk[f]) /\ (saver # Unsaved => Leads(f, saver[f]))

-----------------------------------------------------------------------------
(* The locals of MoveOversize and Move.                                    *)

Locals ==
  /\ \A f \in mv.todo : mem[f].st = "oversize"
  /\ At("item") => mv.dir \in Dirs
  /\ mv.at \in InHand =>
       /\ mv.dir \in Dirs /\ mv.file \in Files /\ mv.dest \in Destinations
       /\ mv.file \notin mv.todo
  /\ mv.at \in {"idle", "down", "item", "intent", "withdraw", "inspect", "create",
                "moved", "failed", "saveFailure", "saveSuccess"} => ~mv.partial
  /\ mv.at \notin {"syncDir", "verifyInstalled", "rehash", "remove", "cleanup", "moved",
                   "saveSuccess"} => ~mv.installed
  /\ mv.at \in {"rename", "unlink"} =>
       /\ mv.to = mv.dest
       /\ \/ mv.from = Source(mv.file) /\ ~mv.partial
          \/ mv.from = PartialPath(mv.dest) /\ mv.partial
  /\ At("create") => mv.to = mv.dest
  /\ mv.at \in {"copy", "sync", "verify"} =>
       mv.to = mv.dest /\ mv.from = PartialPath(mv.dest) /\ mv.partial
  /\ mv.at \in {"syncDir", "verifyInstalled", "rehash", "remove"} => mv.installed /\ ~mv.partial

\* The intent is in memory, and once saved in everything that may be written.
IntentKept ==
  /\ mv.at \in SourceHeld \cup {"moved"} =>
       mem[mv.file].st = "moving" /\ mem[mv.file].path = Source(mv.file)
       /\ mem[mv.file].dest = mv.dest
  /\ mv.at \in IntentSaved =>
       /\ disk[mv.file] = mem[mv.file]
       /\ saver # Unsaved => saver[mv.file] = mem[mv.file]

-----------------------------------------------------------------------------
(* The file system.                                                        *)

\* A source is the file itself or gone, and nothing that was there at the start
\* is volatile; nor is what is no part of a move.
SourcesWhole ==
  /\ \A f \in Files : (fs[Source(f)] = Absent \/ IsFile(Source(f), f)) /\ vol[Source(f)] = "none"
  /\ \A p \in Paths : fs[p] \in {Absent, Foreign} => vol[p] = "none"

\* What a power failure would undo leaves the file at its new place.
Undoable ==
  \A f \in Files : undo[f][1] # "none" => Home(f, undo[f][2]) /\ fs[Source(f)] = Absent

\* How far the copy has come.
Progress ==
  /\ mv.at \in SourceHeld => IsFile(Source(mv.file), mv.file)
  /\ mv.partial =>
       LET p == PartialPath(mv.dest) IN
       /\ fs[p].kind \in {"torn", "file"} /\ fs[p].file = mv.file
       /\ At("copy") => fs[p].kind = "torn"
       /\ At("verify") => vol[p] = "entry"
       /\ mv.at \in {"rename", "unlink"} => vol[p] = "entry" /\ fs[p] = Copy(mv.file, mv.digest)
  /\ mv.installed => fs[mv.dest] = Copy(mv.file, mv.digest)
  /\ At("unlink") => fs[mv.to] = fs[mv.from]
  /\ At("syncDir") => vol[mv.dest] \in {"entry", "none"}
  /\ mv.at \in {"verifyInstalled", "rehash", "remove"} => vol[mv.dest] = "none"
  /\ At("moved") => Home(mv.file, mv.dest)

\* The newest contents of f are at the source, or for good at a destination.
Newest(f) ==
  IF fs[Source(f)] # Absent THEN fs[Source(f)] = Copy(f, latest[f])
  ELSE \E d \in Destinations :
         /\ fs[d] = Copy(f, latest[f]) /\ vol[d] = "none"
         /\ undo[f][1] # "none" => undo[f][2] = d
NewestKept ==
  /\ \A f \in Files \ late : Newest(f)
  /\ At("remove") /\ mv.file \notin late => mv.digest = latest[mv.file]

\* A partial file is the one in hand, or litter.
PartialsKnown ==
  \A p \in Partials \ litter :
    fs[p] \in {Absent, Foreign} \/ (mv.partial /\ p = PartialPath(mv.dest))

BudgetType == budget \in [writes : 0..MaxWrites, foreign : Nat, calls : Nat, crashes : Nat]
WritesCounted == BudgetType /\ \A f \in Files : latest[f] <= budget.writes

Kept ==
  /\ MoveTypeOK /\ WritesCounted /\ Locals
  /\ QueueShape /\ IntentKept /\ QueueLeads
  /\ SourcesWhole /\ Undoable /\ Progress /\ NewestKept /\ PartialsKnown

-----------------------------------------------------------------------------
(* Paths and contents.                                                     *)

\* Sources, destinations and partial paths are three kinds of path, and each
\* names its file or its destination.
LEMMA PathFacts ==
  /\ \A f \in Files : Source(f) \in Sources /\ Source(f)[2] = f
  /\ \A d \in Dirs, n \in Names : Destination(d, n) \in Destinations
  /\ \A d \in Destinations : PartialPath(d) \in Partials
  /\ \A p \in Sources : \E f \in Files : p = Source(f)
  /\ \A d, e \in Destinations : PartialPath(d) = PartialPath(e) => d = e
  /\ \A p \in Sources : p \notin Destinations /\ p \notin Partials /\ p \in Paths
  /\ \A p \in Destinations : p \notin Partials /\ p \in Paths
  /\ \A p \in Partials : p \in Paths
  /\ NoPath \notin Paths
  BY DEF Source, Sources, Destination, Destinations, PartialPath, Partials, Paths, NoPath

\* The contents a path may have.
LEMMA ContentFacts ==
  /\ Absent \in ContentType /\ Foreign \in ContentType
  /\ \A f \in {0} \cup Files : Torn(f) \in ContentType
  /\ \A f \in Files : \A v \in 0..MaxWrites : Copy(f, v) \in ContentType
  /\ Absent.kind = "absent" /\ Foreign.kind = "foreign"
  /\ \A f, v : Copy(f, v).kind = "file" /\ Copy(f, v).file = f /\ Copy(f, v).version = v
  /\ \A f : Torn(f).kind = "torn" /\ Torn(f).file = f
  /\ \A f, g, v, w : Copy(f, v) = Copy(g, w) => f = g /\ v = w
  BY MoveConstants DEF MoveConstants, ContentType, Absent, Foreign, Torn, Copy, Files

-----------------------------------------------------------------------------
(* Steps that only change the locals of the move.                          *)

\* What does not mention them is kept.
LEMMA LocalsOnly ==
  ASSUME Kept, UNCHANGED <<name, files, queue, ghosts>>, mv' \in LocalsType
  PROVE  MoveTypeOK' /\ QueueShape' /\ QueueLeads' /\ SourcesWhole' /\ Undoable'
         /\ (BudgetType' /\ budget'.writes = budget.writes => WritesCounted')
  BY DEF Kept, files, queue, ghosts, QueueShape, QueueLeads, RecordShape, Leads, Home, IsFile,
         SourcesWhole, Undoable, WritesCounted, MoveTypeOK

\* The locals of a new call and of none are typed.
LEMMA IdleTyped ==
  /\ NoMove \in LocalsType /\ [NoMove EXCEPT !.at = "down"] \in LocalsType
  /\ \A T \in SUBSET Files, d \in Dirs :
       [NoMove EXCEPT !.at = "item", !.todo = T, !.dir = d] \in LocalsType
<1>1. 0 \in 0..MaxWrites BY MoveConstants DEF MoveConstants
<1> QED BY <1>1 DEF NoMove, LocalsType

\* Inspect looks at both paths and remembers them.
LEMMA InspectKept ==
  ASSUME Kept, Inspect
  PROVE  Kept'
<1> USE PathFacts, ContentFacts
    DEF Kept, Goto, At, files, queue, ghosts, SourceHeld, MoveSteps, InHand, Inspect
<1>1. UNCHANGED <<name, files, queue, ghosts>> OBVIOUS
<1>2. BudgetType' /\ budget'.writes = budget.writes BY DEF WritesCounted, BudgetType
<1>3. mv' \in LocalsType
  <2>1. mem[mv.file].path \in Paths /\ mv.dest \in Destinations BY DEF IntentKept, Locals
  <2> QED BY <2>1 DEF MoveTypeOK, LocalsType
<1>4. Locals' BY DEF Locals, MoveTypeOK, LocalsType, IntentKept, NoMove
<1>5. IntentKept' BY DEF IntentKept, IntentSaved, MoveTypeOK, LocalsType, NoMove
<1>6. Progress'
  BY DEF Progress, Locals, IsFile, Home, MoveTypeOK, LocalsType, Digest, IntentKept, NoMove
<1>7. NewestKept'
  BY DEF NewestKept, Progress, Newest, Locals, IsFile, MoveTypeOK, LocalsType, Digest,
     IntentKept, NoMove
<1>8. PartialsKnown' BY DEF PartialsKnown, Locals, MoveTypeOK, LocalsType, NoMove
<1> QED BY <1>1, <1>2, <1>3, <1>4, <1>5, <1>6, <1>7, <1>8, LocalsOnly

\* The digest is that of the source as it is now.
LEMMA HashSourceKept ==
  ASSUME Kept, HashSource
  PROVE  Kept'
<1> USE PathFacts, ContentFacts
    DEF Kept, Goto, At, files, queue, ghosts, SourceHeld, MoveSteps, InHand, HashSource
<1>1. UNCHANGED <<name, files, queue, ghosts>> OBVIOUS
<1>2. BudgetType' /\ budget'.writes = budget.writes BY DEF WritesCounted, BudgetType
<1>3. mv' \in LocalsType
  <2>1. fs[mv.from] \in ContentType BY DEF MoveTypeOK, Locals
  <2> QED BY <2>1 DEF MoveTypeOK, LocalsType, ContentType
<1>4. Locals' BY DEF Locals, MoveTypeOK, LocalsType, IntentKept, NoMove
<1>5. IntentKept' BY DEF IntentKept, IntentSaved, MoveTypeOK, LocalsType, NoMove
<1>6. Progress'
  BY DEF Progress, Locals, IsFile, Home, MoveTypeOK, LocalsType, Digest, IntentKept, NoMove
<1>7. NewestKept'
  BY DEF NewestKept, Progress, Newest, Locals, IsFile, MoveTypeOK, LocalsType, Digest,
     IntentKept, NoMove
<1>8. PartialsKnown' BY DEF PartialsKnown, Locals, MoveTypeOK, LocalsType, NoMove
<1> QED BY <1>1, <1>2, <1>3, <1>4, <1>5, <1>6, <1>7, <1>8, LocalsOnly

\* A copy that is renamed holds what the source held when it was hashed.
LEMMA VerifyPartialKept ==
  ASSUME Kept, VerifyPartial
  PROVE  Kept'
<1> USE PathFacts, ContentFacts
    DEF Kept, Goto, At, files, queue, ghosts, SourceHeld, MoveSteps, InHand, VerifyPartial
<1>1. UNCHANGED <<name, files, queue, ghosts>> OBVIOUS
<1>2. BudgetType' /\ budget'.writes = budget.writes BY DEF WritesCounted, BudgetType
<1>3. mv' \in LocalsType
  BY DEF MoveTypeOK, LocalsType
<1>4. Locals' BY DEF Locals, MoveTypeOK, LocalsType, IntentKept, NoMove
<1>5. IntentKept' BY DEF IntentKept, IntentSaved, MoveTypeOK, LocalsType, NoMove
<1>6. Progress'
  BY DEF Progress, Locals, IsFile, Home, MoveTypeOK, LocalsType, Digest, IntentKept, NoMove
<1>7. NewestKept'
  BY DEF NewestKept, Progress, Newest, Locals, IsFile, MoveTypeOK, LocalsType, Digest,
     IntentKept, NoMove
<1>8. PartialsKnown' BY DEF PartialsKnown, Locals, MoveTypeOK, LocalsType, NoMove
<1> QED BY <1>1, <1>2, <1>3, <1>4, <1>5, <1>6, <1>7, <1>8, LocalsOnly

\* The copy at the destination is read back.
LEMMA VerifyInstalledKept ==
  ASSUME Kept, VerifyInstalled
  PROVE  Kept'
<1> USE PathFacts, ContentFacts
    DEF Kept, Goto, At, files, queue, ghosts, SourceHeld, MoveSteps, InHand, VerifyInstalled
<1>1. UNCHANGED <<name, files, queue, ghosts>> OBVIOUS
<1>2. BudgetType' /\ budget'.writes = budget.writes BY DEF WritesCounted, BudgetType
<1>3. mv' \in LocalsType
  BY DEF MoveTypeOK, LocalsType
<1>4. Locals' BY DEF Locals, MoveTypeOK, LocalsType, IntentKept, NoMove
<1>5. IntentKept' BY DEF IntentKept, IntentSaved, MoveTypeOK, LocalsType, NoMove
<1>6. Progress'
  BY DEF Progress, Locals, IsFile, Home, MoveTypeOK, LocalsType, Digest, IntentKept, NoMove
<1>7. NewestKept'
  BY DEF NewestKept, Progress, Newest, Locals, IsFile, MoveTypeOK, LocalsType, Digest,
     IntentKept, NoMove
<1>8. PartialsKnown' BY DEF PartialsKnown, Locals, MoveTypeOK, LocalsType, NoMove
<1> QED BY <1>1, <1>2, <1>3, <1>4, <1>5, <1>6, <1>7, <1>8, LocalsOnly

\* When the source is about to be removed, the copy holds its newest contents.
LEMMA RehashSourceKept ==
  ASSUME Kept, RehashSource
  PROVE  Kept'
<1> USE PathFacts, ContentFacts
    DEF Kept, Goto, At, files, queue, ghosts, SourceHeld, MoveSteps, InHand, RehashSource
<1>1. UNCHANGED <<name, files, queue, ghosts>> OBVIOUS
<1>2. BudgetType' /\ budget'.writes = budget.writes BY DEF WritesCounted, BudgetType
<1>3. mv' \in LocalsType
  BY DEF MoveTypeOK, LocalsType
<1>4. Locals' BY DEF Locals, MoveTypeOK, LocalsType, IntentKept, NoMove
<1>5. IntentKept' BY DEF IntentKept, IntentSaved, MoveTypeOK, LocalsType, NoMove
<1>6. Progress'
  BY DEF Progress, Locals, IsFile, Home, MoveTypeOK, LocalsType, Digest, IntentKept, NoMove
<1>7. NewestKept'
  BY DEF NewestKept, Progress, Newest, Locals, IsFile, MoveTypeOK, LocalsType, Digest,
     IntentKept, NoMove
<1>8. PartialsKnown' BY DEF PartialsKnown, Locals, MoveTypeOK, LocalsType, NoMove
<1> QED BY <1>1, <1>2, <1>3, <1>4, <1>5, <1>6, <1>7, <1>8, LocalsOnly

\* Any step may fail; the deferred functions come next.
LEMMA StepFailsKept ==
  ASSUME Kept, StepFails
  PROVE  Kept'
<1> USE PathFacts, ContentFacts
    DEF Kept, Goto, At, files, queue, ghosts, SourceHeld, MoveSteps, InHand, StepFails
<1>1. UNCHANGED <<name, files, queue, ghosts>> OBVIOUS
<1>2. BudgetType' /\ budget'.writes = budget.writes BY DEF WritesCounted, BudgetType
<1>3. mv' \in LocalsType
  BY DEF MoveTypeOK, LocalsType
<1>4. Locals' BY DEF Locals, MoveTypeOK, LocalsType, IntentKept, NoMove
<1>5. IntentKept' BY DEF IntentKept, IntentSaved, MoveTypeOK, LocalsType, NoMove
<1>6. Progress'
  BY DEF Progress, Locals, IsFile, Home, MoveTypeOK, LocalsType, Digest, IntentKept, NoMove
<1>7. NewestKept'
  BY DEF NewestKept, Progress, Newest, Locals, IsFile, MoveTypeOK, LocalsType, Digest,
     IntentKept, NoMove
<1>8. PartialsKnown' BY DEF PartialsKnown, Locals, MoveTypeOK, LocalsType, NoMove
<1> QED BY <1>1, <1>2, <1>3, <1>4, <1>5, <1>6, <1>7, <1>8, LocalsOnly

\* The call of MoveOversize returns.
LEMMA CallReturnsKept ==
  ASSUME Kept, CallReturns
  PROVE  Kept'
<1> USE PathFacts, ContentFacts
    DEF Kept, Goto, At, files, queue, ghosts, SourceHeld, MoveSteps, InHand, CallReturns
<1>1. UNCHANGED <<name, files, queue, ghosts>> OBVIOUS
<1>2. BudgetType' /\ budget'.writes = budget.writes BY DEF WritesCounted, BudgetType
<1>3. mv' \in LocalsType
  BY IdleTyped
<1>4. Locals' BY DEF Locals, MoveTypeOK, LocalsType, IntentKept, NoMove
<1>5. IntentKept' BY DEF IntentKept, IntentSaved, MoveTypeOK, LocalsType, NoMove
<1>6. Progress'
  BY DEF Progress, Locals, IsFile, Home, MoveTypeOK, LocalsType, Digest, IntentKept, NoMove
<1>7. NewestKept'
  BY DEF NewestKept, Progress, Newest, Locals, IsFile, MoveTypeOK, LocalsType, Digest,
     IntentKept, NoMove
<1>8. PartialsKnown' BY DEF PartialsKnown, Locals, MoveTypeOK, LocalsType, NoMove
<1> QED BY <1>1, <1>2, <1>3, <1>4, <1>5, <1>6, <1>7, <1>8, LocalsOnly

\* A call takes the oversize records, which are at their sources.
LEMMA MoveOversizeKept ==
  ASSUME Kept, NEW d \in Dirs, MoveOversize(d)
  PROVE  Kept'
<1> USE PathFacts, ContentFacts
    DEF Kept, Goto, At, files, queue, ghosts, SourceHeld, MoveSteps, InHand, MoveOversize
<1>1. UNCHANGED <<name, files, queue, ghosts>> OBVIOUS
<1>2. BudgetType' /\ budget'.writes = budget.writes BY DEF WritesCounted, BudgetType
<1>3. mv' \in LocalsType
  BY IdleTyped
<1>4. Locals' BY DEF Locals, MoveTypeOK, LocalsType, IntentKept, NoMove
<1>5. IntentKept' BY DEF IntentKept, IntentSaved, MoveTypeOK, LocalsType, NoMove
<1>6. Progress'
  BY DEF Progress, Locals, IsFile, Home, MoveTypeOK, LocalsType, Digest, IntentKept, NoMove
<1>7. NewestKept'
  BY DEF NewestKept, Progress, Newest, Locals, IsFile, MoveTypeOK, LocalsType, Digest,
     IntentKept, NoMove
<1>8. PartialsKnown' BY DEF PartialsKnown, Locals, MoveTypeOK, LocalsType, NoMove
<1> QED BY <1>1, <1>2, <1>3, <1>4, <1>5, <1>6, <1>7, <1>8, LocalsOnly

-----------------------------------------------------------------------------
(* Steps that change records.                                              *)

QueueTyped ==
  mem \in [Files -> RecordType] /\ disk \in [Files -> RecordType]
  /\ saver \in [Files -> RecordType] \cup {Unsaved}

\* What they leave alone.
LEMMA FilesKept ==
  ASSUME Kept, UNCHANGED <<name, files, latest, late, undone>>
  PROVE  SourcesWhole' /\ Undoable' /\ (\A f \in Files \ late' : Newest(f)')
         /\ (mv' \in LocalsType /\ QueueTyped' /\ litter' \subseteq Partials => MoveTypeOK')
         /\ (BudgetType' /\ budget'.writes = budget.writes => WritesCounted')
  BY DEF Kept, files, SourcesWhole, Undoable, NewestKept, Newest, Home, IsFile, WritesCounted,
     MoveTypeOK, QueueTyped

\* The record of a failed move is oversize again, the others are what they were.
LEMMA BackToOversizeIs ==
  ASSUME Kept, mv.at \in {"withdraw", "failed"}, BackToOversize
  PROVE  /\ mv.file \in Files
         /\ mem' \in [Files -> RecordType]
         /\ mem'[mv.file].st = "oversize" /\ mem'[mv.file].path = Source(mv.file)
         /\ \A f \in Files \ {mv.file} : mem'[f] = mem[f]
<1>1. mv.file \in Files /\ mem \in [Files -> RecordType] /\ mem[mv.file].path = Source(mv.file)
  BY DEF Kept, Locals, InHand, SourceHeld, MoveTypeOK, IntentKept
<1> QED BY <1>1, PathFacts DEF BackToOversize, RecordType

\* The intent could not be saved and is taken back in memory.
LEMMA WithdrawIntentKept ==
  ASSUME Kept, WithdrawIntent
  PROVE  Kept'
<1> USE PathFacts, ContentFacts
    DEF Kept, Goto, At, files, queue, ghosts, SourceHeld, MoveSteps, InHand, WithdrawIntent
<1>1. /\ mv.file \in Files /\ mem' \in [Files -> RecordType]
      /\ mem'[mv.file].st = "oversize" /\ mem'[mv.file].path = Source(mv.file)
      /\ \A f \in Files \ {mv.file} : mem'[f] = mem[f]
  BY BackToOversizeIs
<1>2. UNCHANGED <<name, files, latest, late, undone>> OBVIOUS
<1>3. BudgetType' /\ budget'.writes = budget.writes BY DEF WritesCounted, BudgetType
<1>4. mv' \in LocalsType /\ litter' \subseteq Partials
  BY IdleTyped DEF MoveTypeOK
<1>5. QueueTyped'
  BY <1>1 DEF MoveTypeOK, QueueTyped
<1>6. Locals' BY <1>1 DEF Locals, MoveTypeOK, LocalsType, NoMove
<1>7. IntentKept'
  BY <1>1 DEF IntentKept, IntentSaved, MoveTypeOK, LocalsType, NoMove, RecordType, Locals,
     QueueShape, RecordShape, PersistMuFree
<1>8. QueueShape'
  BY <1>1 DEF QueueShape, RecordShape, MoveTypeOK, RecordType, Locals, PersistMuFree
<1>9. IsFile(Source(mv.file), mv.file) BY DEF Progress
<1>10. QueueLeads' BY <1>2, <1>1, <1>9 DEF QueueLeads, Leads, Home, IsFile
<1>11. Progress'
  BY DEF Progress, Locals, IsFile, Home, MoveTypeOK, LocalsType, NoMove, IntentKept, QueueShape,
     RecordShape, Copy
<1>12. NewestKept' /\ PartialsKnown'
  BY <1>2, FilesKept DEF NewestKept, PartialsKnown, Locals, MoveTypeOK, LocalsType, NoMove
<1> QED BY <1>2, <1>3, <1>4, <1>5, <1>6, <1>7, <1>8, <1>10, <1>11, <1>12, FilesKept

\* Move returned an error: the source is where it was.
LEMMA MoveFailedKept ==
  ASSUME Kept, MoveFailed
  PROVE  Kept'
<1> USE PathFacts, ContentFacts
    DEF Kept, Goto, At, files, queue, ghosts, SourceHeld, MoveSteps, InHand, MoveFailed
<1>1. /\ mv.file \in Files /\ mem' \in [Files -> RecordType]
      /\ mem'[mv.file].st = "oversize" /\ mem'[mv.file].path = Source(mv.file)
      /\ \A f \in Files \ {mv.file} : mem'[f] = mem[f]
  BY BackToOversizeIs
<1>2. UNCHANGED <<name, files, latest, late, undone>> OBVIOUS
<1>3. BudgetType' /\ budget'.writes = budget.writes BY DEF WritesCounted, BudgetType
<1>4. mv' \in LocalsType /\ litter' \subseteq Partials
  BY DEF MoveTypeOK, LocalsType, Locals
<1>5. QueueTyped'
  BY <1>1 DEF MoveTypeOK, QueueTyped
<1>6. Locals' BY <1>1 DEF Locals, MoveTypeOK, LocalsType, NoMove
<1>7. IntentKept'
  BY <1>1 DEF IntentKept, IntentSaved, MoveTypeOK, LocalsType, NoMove, RecordType, Locals,
     QueueShape, RecordShape, PersistMuFree
<1>8. QueueShape'
  BY <1>1 DEF QueueShape, RecordShape, MoveTypeOK, RecordType, Locals, PersistMuFree
<1>9. IsFile(Source(mv.file), mv.file) BY DEF Progress
<1>10. QueueLeads' BY <1>2, <1>1, <1>9 DEF QueueLeads, Leads, Home, IsFile
<1>11. Progress'
  BY DEF Progress, Locals, IsFile, Home, MoveTypeOK, LocalsType, NoMove, IntentKept, QueueShape,
     RecordShape, Copy
<1>12. NewestKept' /\ PartialsKnown'
  BY <1>2, FilesKept DEF NewestKept, PartialsKnown, Locals, MoveTypeOK, LocalsType, NoMove
<1> QED BY <1>2, <1>3, <1>4, <1>5, <1>6, <1>7, <1>8, <1>10, <1>11, <1>12, FilesKept

\* An older snapshot that is written now still leads to every file.
LEMMA OtherSavesKept ==
  ASSUME Kept, OtherSaves
  PROVE  Kept'
<1> USE PathFacts, ContentFacts
    DEF Kept, Goto, At, files, queue, ghosts, SourceHeld, MoveSteps, InHand, OtherSaves
<1>1. UNCHANGED <<name, files, latest, late, undone>> OBVIOUS
<1>2. BudgetType' /\ budget'.writes = budget.writes BY DEF WritesCounted, BudgetType
<1>3. mv' \in LocalsType /\ litter' \subseteq Partials
  BY DEF MoveTypeOK, LocalsType, Locals
<1>4. QueueTyped'
  BY DEF MoveTypeOK, PersistMuFree, QueueTyped
<1>5. Locals'
  BY DEF Locals, MoveTypeOK, LocalsType, IntentKept, NoMove, BackToOversize, RecordType
<1>6. IntentKept'
  BY DEF IntentKept, IntentSaved, MoveTypeOK, LocalsType, NoMove, RecordType, Locals,
     BackToOversize, QueueShape, RecordShape, PersistMuFree
<1>7. QueueShape'
  BY DEF QueueShape, RecordShape, MoveTypeOK, RecordType, Locals, BackToOversize, PersistMuFree
<1>8. QueueLeads'
  BY DEF QueueLeads, Leads, Home, IsFile, MoveTypeOK, RecordType, Locals, BackToOversize,
     PersistMuFree, Progress, QueueShape, RecordShape
<1>9. Progress'
  BY DEF Progress, Locals, IsFile, Home, MoveTypeOK, LocalsType, NoMove, IntentKept, QueueShape,
     RecordShape, Copy
<1>10. NewestKept' /\ PartialsKnown'
  BY <1>1, FilesKept DEF NewestKept, PartialsKnown, Locals, MoveTypeOK, LocalsType, NoMove
<1> QED BY <1>1, <1>2, <1>3, <1>4, <1>5, <1>6, <1>7, <1>8, <1>9, <1>10, FilesKept

\* The save of the result, and the next file or the end of the call.
LEMMA SaveResultKept ==
  ASSUME Kept, SaveResult
  PROVE  Kept'
<1> USE PathFacts, ContentFacts
    DEF Kept, Goto, At, files, queue, ghosts, SourceHeld, MoveSteps, InHand, SaveResult
<1>1. UNCHANGED <<name, files, latest, late, undone, litter, budget, mem, saver>> OBVIOUS
<1>2. mv.at \in {"saveSuccess", "saveFailure"} /\ saver = Unsaved BY DEF PersistMuFree
<1>3. BudgetType' BY <1>1 DEF WritesCounted, BudgetType
<1>4. \/ mv' = NoMove
      \/ mv' = [NoMove EXCEPT !.at = "item", !.todo = mv.todo, !.dir = mv.dir]
  OBVIOUS
<1>5. mv' \in LocalsType
  <2>1. mv.todo \in SUBSET Files /\ mv.dir \in Dirs BY <1>2 DEF MoveTypeOK, LocalsType, Locals
  <2>2. CASE mv' = NoMove BY <2>2, IdleTyped
  <2>3. CASE mv' = [NoMove EXCEPT !.at = "item", !.todo = mv.todo, !.dir = mv.dir]
    BY <2>1, <2>3, IdleTyped
  <2> QED BY <1>4, <2>2, <2>3
<1>6. disk' \in [Files -> RecordType] BY DEF MoveTypeOK
<1>7. /\ mv'.todo \in {{}, mv.todo} /\ mv'.at \in {"idle", "item"} 
      /\ ~mv'.partial /\ ~mv'.installed /\ (mv'.at = "item" => mv'.dir = mv.dir)
  <2>1. CASE mv' = NoMove BY <2>1 DEF NoMove
  <2>2. CASE mv' = [NoMove EXCEPT !.at = "item", !.todo = mv.todo, !.dir = mv.dir]
    BY <2>2 DEF NoMove
  <2> QED BY <1>4, <2>1, <2>2
<1>8. Locals' /\ IntentKept' 
  BY <1>2, <1>1, <1>7 DEF Locals, IntentKept, IntentSaved
<1>9. QueueShape' BY <1>1 DEF QueueShape
<1>10. QueueLeads' BY <1>1 DEF QueueLeads, Leads, Home, IsFile
<1>11. Progress' BY <1>7 DEF Progress
<1>12. NewestKept' BY <1>1, <1>7, FilesKept DEF NewestKept
<1>13. PartialsKnown' BY <1>1, <1>7, <1>2 DEF PartialsKnown, Locals
<1> QED BY <1>1, <1>3, <1>5, <1>6, <1>8, <1>9, <1>10, <1>11, <1>12, <1>13, FilesKept
    DEF MoveTypeOK, QueueTyped

\* The record in hand names the destination while its file is at the source.
LEMMA NextItemKept ==
  ASSUME Kept, NextItem
  PROVE  Kept'
<1> USE PathFacts, ContentFacts
    DEF Kept, Goto, At, files, queue, ghosts, SourceHeld, MoveSteps, InHand
<1>1. PICK f \in mv.todo :
        /\ fs[mem[f].path] = Copy(f, 0)
        /\ mem' = [mem EXCEPT ![f].st = "moving", ![f].dest = Destination(mv.dir, name[f])]
        /\ mv' = [mv EXCEPT !.at = "intent", !.file = f, !.dest = Destination(mv.dir, name[f]),
                            !.todo = @ \ {f}]
  BY DEF NextItem
<1> DEFINE d == Destination(mv.dir, name[f])
<1>2. UNCHANGED <<name, files, latest, late, undone, litter, budget, disk, saver>>
  BY DEF NextItem
<1>3. BudgetType' BY <1>2 DEF WritesCounted, BudgetType
<1>4. f \in Files /\ d \in Destinations /\ At("item") /\ mv.dir \in Dirs
  BY DEF NextItem, MoveTypeOK, LocalsType, Locals
<1>5. mem[f].st = "oversize" /\ mem[f].path = Source(f) /\ mem[f] \in RecordType
  BY <1>4 DEF Locals, QueueShape, RecordShape, MoveTypeOK
<1>6. mv' = [mv EXCEPT !.at = "intent", !.file = f, !.dest = d, !.todo = @ \ {f}] BY <1>1
<1> HIDE DEF d
<1>7. mv' \in LocalsType BY <1>4, <1>6 DEF MoveTypeOK, LocalsType
<1>8. /\ mv'.at = "intent" /\ mv'.file = f /\ mv'.dest = d /\ mv'.todo = mv.todo \ {f}
      /\ mv'.dir = mv.dir /\ ~mv'.partial /\ ~mv'.installed
  BY <1>4, <1>6 DEF MoveTypeOK, LocalsType, Locals
<1>9. mem' = [mem EXCEPT ![f].st = "moving", ![f].dest = d] BY <1>1 DEF d
<1>10. /\ mem' \in [Files -> RecordType]
       /\ mem'[f].st = "moving" /\ mem'[f].path = Source(f) /\ mem'[f].dest = d
       /\ \A g \in Files \ {f} : mem'[g] = mem[g]
  <2>1. mem \in [Files -> RecordType] BY DEF MoveTypeOK
  <2> HIDE DEF Kept
  <2> QED BY <1>4, <1>5, <1>9, <2>1 DEF RecordType
<1>11. IsFile(Source(f), f) BY <1>1, <1>5 DEF IsFile
<1>12. Locals' BY <1>4, <1>8, <1>10 DEF Locals, MoveTypeOK, LocalsType
<1>13. IntentKept' BY <1>8, <1>10 DEF IntentKept, IntentSaved
<1>14. QueueShape' BY <1>2, <1>4, <1>10 DEF QueueShape, RecordShape
<1>15. QueueLeads' BY <1>2, <1>4, <1>10, <1>11 DEF QueueLeads, Leads, Home, IsFile
<1>16. Progress' BY <1>2, <1>8, <1>11 DEF Progress, IsFile
<1>17. NewestKept' BY <1>2, <1>8, FilesKept DEF NewestKept
<1>18. PartialsKnown' BY <1>2, <1>4, <1>8 DEF PartialsKnown, Locals
<1> QED BY <1>2, <1>3, <1>7, <1>10, <1>12, <1>13, <1>14, <1>15, <1>16, <1>17, <1>18, FilesKept
        DEF MoveTypeOK, QueueTyped

\* What Load makes of a record leads to its file.
LEMMA LoadKept ==
  ASSUME Kept, Load
  PROVE  Kept'
<1> USE PathFacts, ContentFacts
    DEF Kept, Goto, At, files, queue, ghosts, SourceHeld, MoveSteps, InHand
<1>1. UNCHANGED <<name, files, latest, late, undone, litter, budget, saver>> BY DEF Load
<1>2. BudgetType' BY <1>1 DEF WritesCounted, BudgetType
<1>3. mv' \in LocalsType /\ mv'.todo = {} /\ mv'.at = "idle" /\ ~mv'.partial /\ ~mv'.installed
  BY IdleTyped DEF Load, NoMove
<1>4. PICK unclear \in SUBSET Files : mem' = [f \in Files |-> Reconciled(disk[f], f \in unclear)]
  BY DEF Load
<1>5. ASSUME NEW f \in Files
      PROVE  LET r == Reconciled(disk[f], f \in unclear) IN
             /\ r \in RecordType /\ RecordShape(f, r)
             /\ f \notin undone => Leads(f, r)
  <2>1. disk[f] \in RecordType /\ RecordShape(f, disk[f]) BY DEF MoveTypeOK, QueueShape
  <2>2. f \notin undone => Leads(f, disk[f]) BY DEF QueueLeads
  <2>3. fs[Source(f)] = Absent \/ IsFile(Source(f), f) BY DEF SourcesWhole
  <2>4. CASE disk[f].st # "moving" BY <2>1, <2>2, <2>4 DEF Reconciled
  <2>5. CASE disk[f].st = "moving" /\ f \in unclear
    <3> DEFINE r == [disk[f] EXCEPT !.st = "failed"]
    <3>1. r \in RecordType /\ r.st = "failed" /\ r.path = disk[f].path BY <2>1 DEF RecordType
    <3>2. Reconciled(disk[f], f \in unclear) = r BY <2>5 DEF Reconciled
    <3> QED BY <3>1, <3>2, <2>1, <2>5 DEF RecordShape, Leads
  <2>6. CASE disk[f].st = "moving" /\ f \notin unclear
    <3> DEFINE dest == IF Regular(disk[f].dest) THEN disk[f].dest ELSE NoPath
               over == [disk[f] EXCEPT !.st = "oversize",
                                       !.dest = IF Regular(disk[f].dest) THEN @ ELSE NoPath]
               moved == [st |-> "moved", path |-> disk[f].dest, dest |-> NoPath]
               failed == [disk[f] EXCEPT !.st = "failed"]
    <3>1. over \in RecordType /\ over.st = "oversize" /\ over.path = Source(f)
      BY <2>1, <2>6 DEF RecordType, RecordShape
    <3>2. failed \in RecordType /\ failed.st = "failed" /\ failed.path = Source(f)
      BY <2>1, <2>6 DEF RecordType, RecordShape
    <3>3. moved \in RecordType /\ moved.path \in Destinations
      BY <2>1, <2>6 DEF RecordType, RecordShape
    <3>4. CASE Regular(Source(f))
      <4>1. Reconciled(disk[f], f \in unclear) = over
        BY <2>1, <2>6, <3>4 DEF Reconciled, RecordShape
      <4> QED BY <4>1, <3>1, <3>4, <2>3 DEF RecordShape, Leads, Regular, Exists
    <3>5. CASE ~Regular(Source(f)) /\ Regular(disk[f].dest)
      <4>1. Reconciled(disk[f], f \in unclear) = moved
        BY <2>1, <2>6, <3>5 DEF Reconciled, RecordShape
      <4>2. f \notin undone => Home(f, disk[f].dest)
        BY <2>2, <2>6, <3>5 DEF Leads, Regular, Exists, IsFile
      <4> QED BY <4>1, <4>2, <3>3 DEF RecordShape, Leads
    <3>6. CASE ~Regular(Source(f)) /\ ~Regular(disk[f].dest)
      <4>1. Reconciled(disk[f], f \in unclear) = failed
        BY <2>1, <2>6, <3>6 DEF Reconciled, RecordShape
      <4> QED BY <4>1, <3>2 DEF RecordShape, Leads
    <3> QED BY <3>4, <3>5, <3>6
  <2> QED BY <2>4, <2>5, <2>6
<1>6. \A f \in Files : /\ mem'[f] \in RecordType /\ RecordShape(f, mem'[f])
                       /\ f \notin undone => Leads(f, mem'[f])
  BY <1>5, <1>4
<1>7. mem' \in [Files -> RecordType] BY <1>4, <1>6
<1>8. disk' \in {disk, mem'} BY DEF Load
<1>9. Locals' /\ IntentKept' BY <1>3 DEF Locals, IntentKept, IntentSaved
<1>10. QueueShape' BY <1>1, <1>6, <1>8 DEF QueueShape
<1>11. QueueLeads' BY <1>1, <1>6, <1>8 DEF QueueLeads, Leads, Home, IsFile
<1>12. Progress' BY <1>3 DEF Progress
<1>13. NewestKept' BY <1>1, <1>3, FilesKept DEF NewestKept
<1>14. PartialsKnown' BY <1>1, <1>3 DEF PartialsKnown, Load, Locals
<1> QED BY <1>1, <1>2, <1>3, <1>7, <1>8, <1>9, <1>10, <1>11, <1>12, <1>13, <1>14, FilesKept
        DEF MoveTypeOK, QueueTyped

\* Once the intent is saved, everything that may be written holds it.
LEMMA SaveIntentKept ==
  ASSUME Kept, SaveIntent
  PROVE  Kept'
<1> USE PathFacts, ContentFacts
    DEF Kept, Goto, At, files, queue, ghosts, SourceHeld, MoveSteps, InHand, SaveIntent
<1>1. UNCHANGED <<name, files, latest, late, undone>> OBVIOUS
<1>2. BudgetType' /\ budget'.writes = budget.writes BY DEF WritesCounted, BudgetType
<1>3. mv' \in LocalsType /\ litter' \subseteq Partials
  BY DEF MoveTypeOK, LocalsType, Locals
<1>4. QueueTyped'
  BY DEF MoveTypeOK, QueueTyped
<1>5. Locals'
  BY DEF Locals, MoveTypeOK, LocalsType, IntentKept, NoMove, BackToOversize, RecordType
<1>6. IntentKept'
  BY DEF IntentKept, IntentSaved, MoveTypeOK, LocalsType, NoMove, RecordType, Locals,
     BackToOversize, QueueShape, RecordShape, PersistMuFree
<1>7. QueueShape'
  BY DEF QueueShape, RecordShape, MoveTypeOK, RecordType, Locals, BackToOversize, PersistMuFree
<1>8. QueueLeads'
  BY DEF QueueLeads, Leads, Home, IsFile, MoveTypeOK, RecordType, Locals, BackToOversize,
     PersistMuFree, Progress, QueueShape, RecordShape
<1>9. Progress'
  BY DEF Progress, Locals, IsFile, Home, MoveTypeOK, LocalsType, NoMove, IntentKept, QueueShape,
     RecordShape, Copy
<1>10. NewestKept' /\ PartialsKnown'
  BY <1>1, FilesKept DEF NewestKept, PartialsKnown, Locals, MoveTypeOK, LocalsType, NoMove
<1> QED BY <1>1, <1>2, <1>3, <1>4, <1>5, <1>6, <1>7, <1>8, <1>9, <1>10, FilesKept

\* A save of the intent that failed has written it or not.
LEMMA SaveIntentFailsKept ==
  ASSUME Kept, SaveIntentFails
  PROVE  Kept'
<1> USE PathFacts, ContentFacts
    DEF Kept, Goto, At, files, queue, ghosts, SourceHeld, MoveSteps, InHand, SaveIntentFails
<1>1. UNCHANGED <<name, files, latest, late, undone>> OBVIOUS
<1>2. BudgetType' /\ budget'.writes = budget.writes BY DEF WritesCounted, BudgetType
<1>3. mv' \in LocalsType /\ litter' \subseteq Partials
  BY DEF MoveTypeOK, LocalsType, Locals
<1>4. QueueTyped'
  BY DEF MoveTypeOK, QueueTyped
<1>5. Locals'
  BY DEF Locals, MoveTypeOK, LocalsType, IntentKept, NoMove, BackToOversize, RecordType
<1>6. IntentKept'
  BY DEF IntentKept, IntentSaved, MoveTypeOK, LocalsType, NoMove, RecordType, Locals,
     BackToOversize, QueueShape, RecordShape, PersistMuFree
<1>7. QueueShape'
  BY DEF QueueShape, RecordShape, MoveTypeOK, RecordType, Locals, BackToOversize, PersistMuFree
<1>8. QueueLeads'
  BY DEF QueueLeads, Leads, Home, IsFile, MoveTypeOK, RecordType, Locals, BackToOversize,
     PersistMuFree, Progress, QueueShape, RecordShape
<1>9. Progress'
  BY DEF Progress, Locals, IsFile, Home, MoveTypeOK, LocalsType, NoMove, IntentKept, QueueShape,
     RecordShape, Copy
<1>10. NewestKept' /\ PartialsKnown'
  BY <1>1, FilesKept DEF NewestKept, PartialsKnown, Locals, MoveTypeOK, LocalsType, NoMove
<1> QED BY <1>1, <1>2, <1>3, <1>4, <1>5, <1>6, <1>7, <1>8, <1>9, <1>10, FilesKept

\* The record of a moved file names the place where it is.
LEMMA MoveSucceededKept ==
  ASSUME Kept, MoveSucceeded
  PROVE  Kept'
<1> USE PathFacts, ContentFacts
    DEF Kept, Goto, At, files, queue, ghosts, SourceHeld, MoveSteps, InHand, MoveSucceeded
<1>1. UNCHANGED <<name, files, latest, late, undone>> OBVIOUS
<1>2. BudgetType' /\ budget'.writes = budget.writes BY DEF WritesCounted, BudgetType
<1>3. mv' \in LocalsType /\ litter' \subseteq Partials
  BY DEF MoveTypeOK, LocalsType, Locals
<1>4. QueueTyped'
  BY DEF MoveTypeOK, RecordType, Locals, QueueTyped
<1>5. Locals'
  BY DEF Locals, MoveTypeOK, LocalsType, IntentKept, NoMove, BackToOversize, RecordType
<1>6. IntentKept'
  BY DEF IntentKept, IntentSaved, MoveTypeOK, LocalsType, NoMove, RecordType, Locals,
     BackToOversize, QueueShape, RecordShape, PersistMuFree
<1>7. QueueShape'
  BY DEF QueueShape, RecordShape, MoveTypeOK, RecordType, Locals, BackToOversize, PersistMuFree
<1>8. QueueLeads'
  BY DEF QueueLeads, Leads, Home, IsFile, MoveTypeOK, RecordType, Locals, BackToOversize,
     PersistMuFree, Progress, QueueShape, RecordShape
<1>9. Progress'
  BY DEF Progress, Locals, IsFile, Home, MoveTypeOK, LocalsType, NoMove, IntentKept, QueueShape,
     RecordShape, Copy
<1>10. NewestKept' /\ PartialsKnown'
  BY <1>1, FilesKept DEF NewestKept, PartialsKnown, Locals, MoveTypeOK, LocalsType, NoMove
<1> QED BY <1>1, <1>2, <1>3, <1>4, <1>5, <1>6, <1>7, <1>8, <1>9, <1>10, FilesKept

\* Another operation takes its snapshot.
LEMMA OtherSnapshotKept ==
  ASSUME Kept, OtherSnapshot
  PROVE  Kept'
<1> USE PathFacts, ContentFacts
    DEF Kept, Goto, At, files, queue, ghosts, SourceHeld, MoveSteps, InHand, OtherSnapshot
<1>1. UNCHANGED <<name, files, latest, late, undone>> OBVIOUS
<1>2. BudgetType' /\ budget'.writes = budget.writes BY DEF WritesCounted, BudgetType
<1>3. mv' \in LocalsType /\ litter' \subseteq Partials
  BY DEF MoveTypeOK, LocalsType, Locals
<1>4. QueueTyped'
  BY DEF MoveTypeOK, QueueTyped
<1>5. Locals'
  BY DEF Locals, MoveTypeOK, LocalsType, IntentKept, NoMove, BackToOversize, RecordType
<1>6. IntentKept'
  BY DEF IntentKept, IntentSaved, MoveTypeOK, LocalsType, NoMove, RecordType, Locals,
     BackToOversize, QueueShape, RecordShape, PersistMuFree
<1>7. QueueShape'
  BY DEF QueueShape, RecordShape, MoveTypeOK, RecordType, Locals, BackToOversize, PersistMuFree
<1>8. QueueLeads'
  BY DEF QueueLeads, Leads, Home, IsFile, MoveTypeOK, RecordType, Locals, BackToOversize,
     PersistMuFree, Progress, QueueShape, RecordShape
<1>9. Progress'
  BY DEF Progress, Locals, IsFile, Home, MoveTypeOK, LocalsType, NoMove, IntentKept, QueueShape,
     RecordShape, Copy
<1>10. NewestKept' /\ PartialsKnown'
  BY <1>1, FilesKept DEF NewestKept, PartialsKnown, Locals, MoveTypeOK, LocalsType, NoMove
<1> QED BY <1>1, <1>2, <1>3, <1>4, <1>5, <1>6, <1>7, <1>8, <1>9, <1>10, FilesKept

\* A death of the process leaves files and queue.json as they are.
LEMMA CrashKept ==
  ASSUME Kept, Crash
  PROVE  Kept'
<1> USE PathFacts, ContentFacts
    DEF Kept, Goto, At, files, queue, ghosts, SourceHeld, MoveSteps, InHand, Crash
<1>1. UNCHANGED <<name, files, latest, late, undone>> OBVIOUS
<1>2. BudgetType' /\ budget'.writes = budget.writes BY DEF WritesCounted, BudgetType
<1>3. mv' \in LocalsType /\ litter' \subseteq Partials
  BY IdleTyped DEF MoveTypeOK
<1>4. QueueTyped'
  BY DEF MoveTypeOK, QueueTyped
<1>5. Locals'
  BY DEF Locals, MoveTypeOK, LocalsType, IntentKept, NoMove, BackToOversize, RecordType
<1>6. IntentKept'
  BY DEF IntentKept, IntentSaved, MoveTypeOK, LocalsType, NoMove, RecordType, Locals,
     BackToOversize, QueueShape, RecordShape, PersistMuFree
<1>7. QueueShape'
  BY DEF QueueShape, RecordShape, MoveTypeOK, RecordType, Locals, BackToOversize, PersistMuFree
<1>8. QueueLeads'
  BY DEF QueueLeads, Leads, Home, IsFile, MoveTypeOK, RecordType, Locals, BackToOversize,
     PersistMuFree, Progress, QueueShape, RecordShape
<1>9. Progress'
  BY DEF Progress, Locals, IsFile, Home, MoveTypeOK, LocalsType, NoMove, IntentKept, QueueShape,
     RecordShape, Copy
<1>10. NewestKept' /\ PartialsKnown'
  BY <1>1, FilesKept DEF NewestKept, PartialsKnown, Locals, MoveTypeOK, LocalsType, NoMove
<1> QED BY <1>1, <1>2, <1>3, <1>4, <1>5, <1>6, <1>7, <1>8, <1>9, <1>10, FilesKept

-----------------------------------------------------------------------------
(* Steps that change files.                                                *)

FilesTyped ==
  /\ mv \in LocalsType
  /\ fs \in [Paths -> ContentType]
  /\ vol \in [Paths -> {"none", "entry", "data"}]
  /\ undo \in [Files -> {"none", "rename", "remove"} \X (Destinations \cup {NoPath})]

\* The other files and their destinations, when a step works on f towards d.
SourcesStay(f) ==
  \A g \in Files \ {f} :
    /\ fs'[Source(g)] = fs[Source(g)] /\ vol'[Source(g)] = vol[Source(g)]
    /\ undo'[g] = undo[g]
DestinationsStay(f, d) ==
  \A e \in Destinations :
    \/ fs'[e] = fs[e] /\ vol'[e] = vol[e]
    \/ e = d /\ \A g \in Files \ {f} : ~IsFile(d, g)

\* The file in hand while Move works on it.
LEMMA HandFacts ==
  ASSUME Kept, mv.at \in SourceHeld
  PROVE  /\ mv.file \in Files /\ mv.dest \in Destinations
         /\ IsFile(Source(mv.file), mv.file) /\ fs[Source(mv.file)] # Absent
         /\ undo[mv.file][1] = "none" /\ vol[Source(mv.file)] = "none"
         /\ mem[mv.file].st = "moving" /\ mem[mv.file].path = Source(mv.file)
         /\ mem[mv.file].dest = mv.dest
         /\ FilesTyped
  BY ContentFacts
     DEF Kept, Locals, IntentKept, Progress, InHand, IsFile, Undoable, SourcesWhole, MoveTypeOK,
         FilesTyped

\* What a step that changes files leaves alone.
LEMMA QueueKept ==
  ASSUME Kept, UNCHANGED <<name, queue, latest, late, undone, budget>>
  PROVE  /\ WritesCounted' /\ QueueShape'
         /\ FilesTyped' /\ litter' \subseteq Partials => MoveTypeOK'
  BY DEF Kept, queue, WritesCounted, BudgetType, QueueShape, RecordShape, MoveTypeOK, FilesTyped

\* A step on the file in hand, with destination d, leaves the other files where
\* they are; what is shown of f itself is enough for the whole.
LEMMA OthersKept ==
  ASSUME Kept, mv.at \in SourceHeld \cap IntentSaved,
         NEW f \in Files, f = mv.file, NEW d \in Destinations, d = mv.dest,
         UNCHANGED <<queue, latest, late, undone>>,
         SourcesStay(f), DestinationsStay(f, d), vol'[Source(f)] = "none",
         \/ IsFile(Source(f), f)' /\ undo'[f] = undo[f]
         \/ fs'[Source(f)] = Absent /\ Home(f, d)' /\ undo'[f][2] = d,
         f \notin late => Newest(f)'
  PROVE  /\ QueueLeads' /\ Undoable'
         /\ \A g \in Files \ late' : Newest(g)'
         /\ \A g \in Files :
              (fs'[Source(g)] = Absent \/ IsFile(Source(g), g)') /\ vol'[Source(g)] = "none"
<1> USE PathFacts, ContentFacts, HandFacts DEF queue, SourcesStay, DestinationsStay
<1>1. \A g \in Files \ {f}, e \in Destinations : IsFile(e, g) => fs'[e] = fs[e] /\ vol'[e] = vol[e]
  OBVIOUS
<1>2. \A g \in Files \ {f}, e \in Destinations : Home(g, e) => Home(g, e)'
  BY <1>1 DEF Home, IsFile
<1>3. \A g \in Files \ {f} : IsFile(Source(g), g) => IsFile(Source(g), g)' BY DEF IsFile
<1>4. QueueLeads'
  <2>1. IsFile(Source(f), f)' \/ Home(f, d)' OBVIOUS
  <2>2. Leads(f, mem[f])' /\ disk[f] = mem[f] /\ (saver # Unsaved => saver[f] = mem[f])
    BY <2>1 DEF Kept, IntentKept, IntentSaved, Leads
  <2>3. \A g \in Files \ {f} : \A r : Leads(g, r) => Leads(g, r)'
    BY <1>2, <1>3 DEF Leads, Home
  <2> QED BY <2>2, <2>3 DEF Kept, QueueLeads
<1>5. ASSUME NEW g \in Files, undo'[g][1] # "none"
      PROVE  Home(g, undo[g][2])' /\ fs'[Source(g)] = Absent
  <2>1. CASE g # f BY <1>2, <1>5, <2>1 DEF Kept, Undoable, Home
  <2>2. CASE g = f /\ undo'[f] = undo[f] BY <1>5, <2>2
  <2>3. CASE g = f /\ fs'[Source(f)] = Absent /\ Home(f, d)' /\ undo'[f][2] = d
    BY <2>3 DEF Home, IsFile
  <2> QED BY <2>1, <2>2, <2>3
<1>6. ASSUME NEW g \in Files \ late PROVE Newest(g)'
  <2>1. CASE g = f BY <2>1
  <2>2. CASE g # f /\ fs[Source(g)] # Absent BY <1>6, <2>2 DEF Kept, NewestKept, Newest
  <2>3. CASE g # f /\ fs[Source(g)] = Absent
    <3>1. PICK e \in Destinations :
            /\ fs[e] = Copy(g, latest[g]) /\ vol[e] = "none"
            /\ undo[g][1] # "none" => undo[g][2] = e
      BY <1>6, <2>3 DEF Kept, NewestKept, Newest
    <3>2. fs'[e] = fs[e] /\ vol'[e] = vol[e] BY <1>1, <2>3, <3>1 DEF IsFile
    <3> QED BY <2>3, <3>1, <3>2 DEF Newest
  <2> QED BY <2>1, <2>2, <2>3
<1>7. \A g \in Files : (fs[Source(g)] = Absent \/ IsFile(Source(g), g)) /\ vol[Source(g)] = "none"
  BY DEF Kept, SourcesWhole
<1>8. \A g \in Files :
        (fs'[Source(g)] = Absent \/ IsFile(Source(g), g)') /\ vol'[Source(g)] = "none"
  BY <1>3, <1>7
<1> QED BY <1>4, <1>5, <1>6, <1>8 DEF Undoable

\* The hard link: the file is at two names.
LEMMA LinkKept ==
  ASSUME Kept, Link
  PROVE  Kept'
<1> USE PathFacts, ContentFacts DEF Goto, At, files, queue, ghosts, Exists, FilesTyped
<1>1. mv.at \in SourceHeld \cap IntentSaved BY DEF Link, SourceHeld, IntentSaved, MoveSteps
<1>2. PICK f \in Files, d \in Destinations : f = mv.file /\ d = mv.dest BY <1>1, HandFacts
<1>3. /\ IsFile(Source(f), f) /\ fs[Source(f)] # Absent /\ undo[f][1] = "none"
      /\ vol[Source(f)] = "none" /\ mem[f].path = Source(f)
      /\ FilesTyped
  BY <1>1, <1>2, HandFacts
<1>4. /\ mv.to = d /\ mv.from \in {Source(f), PartialPath(d)} /\ fs[d] = Absent
      /\ fs[mv.from] \notin {Absent, Foreign}
  BY <1>2, <1>3 DEF Link, Kept, Locals, Progress, IsFile
<1>5. UNCHANGED <<name, queue, latest, late, undone, budget>> BY DEF Link
<1>6. mv' \in LocalsType BY <1>2, <1>3 DEF Link, LocalsType, MoveSteps
<1>7. fs' \in [Paths -> ContentType] /\ vol' \in [Paths -> {"none", "entry", "data"}]
      /\ undo' \in [Files -> {"none", "rename", "remove"} \X (Destinations \cup {NoPath})]
  BY <1>2, <1>3, <1>4 DEF Link
<1>8. litter' \subseteq Partials BY <1>2 DEF Link, Kept, MoveTypeOK
<1>9. MoveTypeOK' /\ WritesCounted' /\ QueueShape' BY <1>5, <1>6, <1>7, <1>8, QueueKept
<1>10. Locals' /\ IntentKept'
  BY <1>2, <1>3 DEF Link, Kept, Locals, IntentKept, IntentSaved, SourceHeld, InHand, MoveSteps,
     LocalsType
<1>11. /\ QueueLeads' /\ Undoable' /\ \A g \in Files \ late' : Newest(g)'
       /\ \A g \in Files :
            (fs'[Source(g)] = Absent \/ IsFile(Source(g), g)') /\ vol'[Source(g)] = "none"
  <2>1. SourcesStay(f)
    BY <1>2, <1>3, <1>4 DEF Link, SourcesStay
  <2>2. vol'[Source(f)] = "none" /\ fs'[Source(f)] = fs[Source(f)] /\ undo'[f] = undo[f]
    BY <1>2, <1>3, <1>4 DEF Link
  <2>3. f \notin late => Newest(f)'
    BY <1>3, <1>5, <2>2 DEF Kept, NewestKept, Newest
  <2>4. DestinationsStay(f, d)
    BY <1>2, <1>3, <1>4 DEF Link, IsFile, DestinationsStay
  <2> QED BY <1>1, <1>2, <1>3, <1>5, <2>3, <2>1, <2>2, <2>4, OthersKept DEF IsFile
<1>12. SourcesWhole'
  BY <1>2, <1>3, <1>4, <1>11 DEF Link, Kept, SourcesWhole
<1>13. Progress'
  BY <1>2, <1>3, <1>4, <1>10 DEF Link, Kept, Progress, Locals, SourceHeld, MoveSteps,
     LocalsType, IsFile, Home, SourcesWhole
<1>14. NewestKept' BY <1>5, <1>11, <1>2, <1>3 DEF Link, NewestKept, LocalsType, Kept
<1>15. PartialsKnown' BY <1>2, <1>3, <1>4 DEF Link, Kept, PartialsKnown, LocalsType
<1> QED BY <1>9, <1>10, <1>11, <1>12, <1>13, <1>14, <1>15 DEF Kept

\* The new link is removed, or stays beside the source.
LEMMA UnlinkFailsKept ==
  ASSUME Kept, UnlinkFails
  PROVE  Kept'
<1> USE PathFacts, ContentFacts DEF Goto, At, files, queue, ghosts, Exists, FilesTyped
<1>1. mv.at \in SourceHeld \cap IntentSaved
  BY DEF UnlinkFails, SourceHeld, IntentSaved, MoveSteps
<1>2. PICK f \in Files, d \in Destinations : f = mv.file /\ d = mv.dest BY <1>1, HandFacts
<1>3. /\ IsFile(Source(f), f) /\ fs[Source(f)] # Absent /\ undo[f][1] = "none"
      /\ vol[Source(f)] = "none" /\ mem[f].path = Source(f)
      /\ FilesTyped
  BY <1>1, <1>2, HandFacts
<1>4. mv.to = d /\ mv.from \in {Source(f), PartialPath(d)} /\ IsFile(d, f)
  BY <1>2, <1>3 DEF UnlinkFails, Kept, Locals, Progress, IsFile
<1>5. UNCHANGED <<name, queue, latest, late, undone, budget>> BY DEF UnlinkFails
<1>6. mv' \in LocalsType BY <1>2, <1>3 DEF UnlinkFails, LocalsType, MoveSteps
<1>7. fs' \in [Paths -> ContentType] /\ vol' \in [Paths -> {"none", "entry", "data"}]
      /\ undo' \in [Files -> {"none", "rename", "remove"} \X (Destinations \cup {NoPath})]
  BY <1>2, <1>3, <1>4 DEF UnlinkFails
<1>8. litter' \subseteq Partials BY <1>2 DEF UnlinkFails, Kept, MoveTypeOK
<1>9. MoveTypeOK' /\ WritesCounted' /\ QueueShape' BY <1>5, <1>6, <1>7, <1>8, QueueKept
<1>10. Locals' /\ IntentKept'
  BY <1>2, <1>3 DEF UnlinkFails, Kept, Locals, IntentKept, IntentSaved, SourceHeld, InHand,
     MoveSteps, LocalsType
<1>11. /\ QueueLeads' /\ Undoable' /\ \A g \in Files \ late' : Newest(g)'
       /\ \A g \in Files :
            (fs'[Source(g)] = Absent \/ IsFile(Source(g), g)') /\ vol'[Source(g)] = "none"
  <2>1. SourcesStay(f)
    BY <1>2, <1>3, <1>4 DEF UnlinkFails, SourcesStay
  <2>2. vol'[Source(f)] = "none" /\ fs'[Source(f)] = fs[Source(f)] /\ undo'[f] = undo[f]
    BY <1>2, <1>3, <1>4 DEF UnlinkFails
  <2>3. f \notin late => Newest(f)'
    BY <1>3, <1>5, <2>2 DEF Kept, NewestKept, Newest
  <2>4. DestinationsStay(f, d)
    BY <1>2, <1>3, <1>4 DEF UnlinkFails, IsFile, DestinationsStay
  <2> QED BY <1>1, <1>2, <1>3, <1>5, <2>3, <2>1, <2>2, <2>4, OthersKept DEF IsFile
<1>12. SourcesWhole'
  BY <1>2, <1>3, <1>4, <1>11 DEF UnlinkFails, Kept, SourcesWhole
<1>13. Progress'
  BY <1>2, <1>3, <1>4, <1>10 DEF UnlinkFails, Kept, Progress, Locals, SourceHeld, MoveSteps,
     LocalsType, IsFile, Home, SourcesWhole
<1>14. NewestKept' BY <1>5, <1>11, <1>2, <1>3 DEF UnlinkFails, NewestKept, LocalsType, Kept
<1>15. PartialsKnown' BY <1>2, <1>3, <1>4 DEF UnlinkFails, Kept, PartialsKnown, LocalsType
<1> QED BY <1>9, <1>10, <1>11, <1>12, <1>13, <1>14, <1>15 DEF Kept

\* The partial file is new.
LEMMA CreatePartialKept ==
  ASSUME Kept, CreatePartial
  PROVE  Kept'
<1> USE PathFacts, ContentFacts DEF Goto, At, files, queue, ghosts, Exists, FilesTyped
<1>1. mv.at \in SourceHeld \cap IntentSaved
  BY DEF CreatePartial, SourceHeld, IntentSaved, MoveSteps
<1>2. PICK f \in Files, d \in Destinations : f = mv.file /\ d = mv.dest BY <1>1, HandFacts
<1>3. /\ IsFile(Source(f), f) /\ fs[Source(f)] # Absent /\ undo[f][1] = "none"
      /\ vol[Source(f)] = "none" /\ mem[f].path = Source(f)
      /\ FilesTyped
  BY <1>1, <1>2, HandFacts
<1>4. fs[PartialPath(d)] = Absent
  BY <1>2, <1>3 DEF CreatePartial, Kept, Locals, Progress, IsFile
<1>5. UNCHANGED <<name, queue, latest, late, undone, budget>> BY DEF CreatePartial
<1>6. mv' \in LocalsType BY <1>2, <1>3 DEF CreatePartial, LocalsType, MoveSteps
<1>7. fs' \in [Paths -> ContentType] /\ vol' \in [Paths -> {"none", "entry", "data"}]
      /\ undo' \in [Files -> {"none", "rename", "remove"} \X (Destinations \cup {NoPath})]
  BY <1>2, <1>3, <1>4 DEF CreatePartial
<1>8. litter' \subseteq Partials BY <1>2 DEF CreatePartial, Kept, MoveTypeOK
<1>9. MoveTypeOK' /\ WritesCounted' /\ QueueShape' BY <1>5, <1>6, <1>7, <1>8, QueueKept
<1>10. Locals' /\ IntentKept'
  BY <1>2, <1>3 DEF CreatePartial, Kept, Locals, IntentKept, IntentSaved, SourceHeld, InHand,
     MoveSteps, LocalsType
<1>11. /\ QueueLeads' /\ Undoable' /\ \A g \in Files \ late' : Newest(g)'
       /\ \A g \in Files :
            (fs'[Source(g)] = Absent \/ IsFile(Source(g), g)') /\ vol'[Source(g)] = "none"
  <2>1. SourcesStay(f)
    BY <1>2, <1>3, <1>4 DEF CreatePartial, SourcesStay
  <2>2. vol'[Source(f)] = "none" /\ fs'[Source(f)] = fs[Source(f)] /\ undo'[f] = undo[f]
    BY <1>2, <1>3, <1>4 DEF CreatePartial
  <2>3. f \notin late => Newest(f)'
    BY <1>3, <1>5, <2>2 DEF Kept, NewestKept, Newest
  <2>4. DestinationsStay(f, d)
    BY <1>2, <1>3, <1>4 DEF CreatePartial, IsFile, DestinationsStay
  <2> QED BY <1>1, <1>2, <1>3, <1>5, <2>3, <2>1, <2>2, <2>4, OthersKept DEF IsFile
<1>12. SourcesWhole'
  BY <1>2, <1>3, <1>4, <1>11 DEF CreatePartial, Kept, SourcesWhole
<1>13. Progress'
  BY <1>2, <1>3, <1>4, <1>10 DEF CreatePartial, Kept, Progress, Locals, SourceHeld, MoveSteps,
     LocalsType, IsFile, Home, SourcesWhole
<1>14. NewestKept' BY <1>5, <1>11, <1>2, <1>3 DEF CreatePartial, NewestKept, LocalsType, Kept
<1>15. PartialsKnown' BY <1>2, <1>3, <1>4 DEF CreatePartial, Kept, PartialsKnown, LocalsType
<1> QED BY <1>9, <1>10, <1>11, <1>12, <1>13, <1>14, <1>15 DEF Kept

\* The copy arrives in the partial file.
LEMMA CopyBytesKept ==
  ASSUME Kept, CopyBytes
  PROVE  Kept'
<1> USE PathFacts, ContentFacts DEF Goto, At, files, queue, ghosts, Exists, FilesTyped
<1>1. mv.at \in SourceHeld \cap IntentSaved BY DEF CopyBytes, SourceHeld, IntentSaved, MoveSteps
<1>2. PICK f \in Files, d \in Destinations : f = mv.file /\ d = mv.dest BY <1>1, HandFacts
<1>3. /\ IsFile(Source(f), f) /\ fs[Source(f)] # Absent /\ undo[f][1] = "none"
      /\ vol[Source(f)] = "none" /\ mem[f].path = Source(f)
      /\ FilesTyped
  BY <1>1, <1>2, HandFacts
<1>4. mv.from = PartialPath(d) /\ fs[PartialPath(d)].kind = "torn" /\ fs[PartialPath(d)].file = f
  BY <1>2, <1>3 DEF CopyBytes, Kept, Locals, Progress, IsFile
<1>5. UNCHANGED <<name, queue, latest, late, undone, budget>> BY DEF CopyBytes
<1>6. mv' \in LocalsType BY <1>2, <1>3 DEF CopyBytes, LocalsType, MoveSteps
<1>7. fs' \in [Paths -> ContentType] /\ vol' \in [Paths -> {"none", "entry", "data"}]
      /\ undo' \in [Files -> {"none", "rename", "remove"} \X (Destinations \cup {NoPath})]
  BY <1>2, <1>3, <1>4 DEF CopyBytes
<1>8. litter' \subseteq Partials BY <1>2 DEF CopyBytes, Kept, MoveTypeOK
<1>9. MoveTypeOK' /\ WritesCounted' /\ QueueShape' BY <1>5, <1>6, <1>7, <1>8, QueueKept
<1>10. Locals' /\ IntentKept'
  BY <1>2, <1>3 DEF CopyBytes, Kept, Locals, IntentKept, IntentSaved, SourceHeld, InHand,
     MoveSteps, LocalsType
<1>11. /\ QueueLeads' /\ Undoable' /\ \A g \in Files \ late' : Newest(g)'
       /\ \A g \in Files :
            (fs'[Source(g)] = Absent \/ IsFile(Source(g), g)') /\ vol'[Source(g)] = "none"
  <2>1. SourcesStay(f)
    BY <1>2, <1>3, <1>4 DEF CopyBytes, SourcesStay
  <2>2. vol'[Source(f)] = "none" /\ fs'[Source(f)] = fs[Source(f)] /\ undo'[f] = undo[f]
    BY <1>2, <1>3, <1>4 DEF CopyBytes
  <2>3. f \notin late => Newest(f)'
    BY <1>3, <1>5, <2>2 DEF Kept, NewestKept, Newest
  <2>4. DestinationsStay(f, d)
    BY <1>2, <1>3, <1>4 DEF CopyBytes, IsFile, DestinationsStay
  <2> QED BY <1>1, <1>2, <1>3, <1>5, <2>3, <2>1, <2>2, <2>4, OthersKept DEF IsFile
<1>12. SourcesWhole'
  <2>1. ASSUME NEW p \in Paths, fs'[p] \in {Absent, Foreign} PROVE vol'[p] = "none"
    <3>1. fs'[p] = fs[p] BY <1>2, <1>3, <1>4, <2>1 DEF CopyBytes, IsFile
    <3> QED BY <2>1, <3>1 DEF CopyBytes, Kept, SourcesWhole
  <2> QED BY <1>11, <2>1 DEF SourcesWhole
<1>13. Progress'
  BY <1>2, <1>3, <1>4, <1>10 DEF CopyBytes, Kept, Progress, Locals, SourceHeld, MoveSteps,
     LocalsType, IsFile, Home, SourcesWhole
<1>14. NewestKept' BY <1>5, <1>11, <1>2, <1>3 DEF CopyBytes, NewestKept, LocalsType, Kept
<1>15. PartialsKnown' BY <1>2, <1>3, <1>4 DEF CopyBytes, Kept, PartialsKnown, LocalsType
<1> QED BY <1>9, <1>10, <1>11, <1>12, <1>13, <1>14, <1>15 DEF Kept

\* The bytes of the copy are on the disk.
LEMMA SyncPartialKept ==
  ASSUME Kept, SyncPartial
  PROVE  Kept'
<1> USE PathFacts, ContentFacts DEF Goto, At, files, queue, ghosts, Exists, FilesTyped
<1>1. mv.at \in SourceHeld \cap IntentSaved
  BY DEF SyncPartial, SourceHeld, IntentSaved, MoveSteps
<1>2. PICK f \in Files, d \in Destinations : f = mv.file /\ d = mv.dest BY <1>1, HandFacts
<1>3. /\ IsFile(Source(f), f) /\ fs[Source(f)] # Absent /\ undo[f][1] = "none"
      /\ vol[Source(f)] = "none" /\ mem[f].path = Source(f)
      /\ FilesTyped
  BY <1>1, <1>2, HandFacts
<1>4. /\ mv.from = PartialPath(d) /\ fs[PartialPath(d)].file = f
      /\ fs[PartialPath(d)].kind \in {"torn", "file"}
  BY <1>2, <1>3 DEF SyncPartial, Kept, Locals, Progress, IsFile
<1>5. UNCHANGED <<name, queue, latest, late, undone, budget>> BY DEF SyncPartial
<1>6. mv' \in LocalsType BY <1>2, <1>3 DEF SyncPartial, LocalsType, MoveSteps
<1>7. fs' \in [Paths -> ContentType] /\ vol' \in [Paths -> {"none", "entry", "data"}]
      /\ undo' \in [Files -> {"none", "rename", "remove"} \X (Destinations \cup {NoPath})]
  BY <1>2, <1>3, <1>4 DEF SyncPartial
<1>8. litter' \subseteq Partials BY <1>2 DEF SyncPartial, Kept, MoveTypeOK
<1>9. MoveTypeOK' /\ WritesCounted' /\ QueueShape' BY <1>5, <1>6, <1>7, <1>8, QueueKept
<1>10. Locals' /\ IntentKept'
  BY <1>2, <1>3 DEF SyncPartial, Kept, Locals, IntentKept, IntentSaved, SourceHeld, InHand,
     MoveSteps, LocalsType
<1>11. /\ QueueLeads' /\ Undoable' /\ \A g \in Files \ late' : Newest(g)'
       /\ \A g \in Files :
            (fs'[Source(g)] = Absent \/ IsFile(Source(g), g)') /\ vol'[Source(g)] = "none"
  <2>1. SourcesStay(f)
    BY <1>2, <1>3, <1>4 DEF SyncPartial, SourcesStay
  <2>2. vol'[Source(f)] = "none" /\ fs'[Source(f)] = fs[Source(f)] /\ undo'[f] = undo[f]
    BY <1>2, <1>3, <1>4 DEF SyncPartial
  <2>3. f \notin late => Newest(f)'
    BY <1>3, <1>5, <2>2 DEF Kept, NewestKept, Newest
  <2>4. DestinationsStay(f, d)
    BY <1>2, <1>3, <1>4 DEF SyncPartial, IsFile, DestinationsStay
  <2> QED BY <1>1, <1>2, <1>3, <1>5, <2>3, <2>1, <2>2, <2>4, OthersKept DEF IsFile
<1>12. SourcesWhole'
  BY <1>2, <1>3, <1>4, <1>11 DEF SyncPartial, Kept, SourcesWhole
<1>13. Progress'
  BY <1>2, <1>3, <1>4, <1>10 DEF SyncPartial, Kept, Progress, Locals, SourceHeld, MoveSteps,
     LocalsType, IsFile, Home, SourcesWhole
<1>14. NewestKept' BY <1>5, <1>11, <1>2, <1>3 DEF SyncPartial, NewestKept, LocalsType, Kept
<1>15. PartialsKnown' BY <1>2, <1>3, <1>4 DEF SyncPartial, Kept, PartialsKnown, LocalsType
<1> QED BY <1>9, <1>10, <1>11, <1>12, <1>13, <1>14, <1>15 DEF Kept

\* The name of the copy is on the disk.
LEMMA SyncDirKept ==
  ASSUME Kept, SyncDir
  PROVE  Kept'
<1> USE PathFacts, ContentFacts DEF Goto, At, files, queue, ghosts, Exists, FilesTyped
<1>1. mv.at \in SourceHeld \cap IntentSaved BY DEF SyncDir, SourceHeld, IntentSaved, MoveSteps
<1>2. PICK f \in Files, d \in Destinations : f = mv.file /\ d = mv.dest BY <1>1, HandFacts
<1>3. /\ IsFile(Source(f), f) /\ fs[Source(f)] # Absent /\ undo[f][1] = "none"
      /\ vol[Source(f)] = "none" /\ mem[f].path = Source(f)
      /\ FilesTyped
  BY <1>1, <1>2, HandFacts
<1>4. IsFile(d, f) /\ vol[d] \in {"entry", "none"}
  BY <1>2, <1>3 DEF SyncDir, Kept, Locals, Progress, IsFile
<1>5. UNCHANGED <<name, queue, latest, late, undone, budget>> BY DEF SyncDir
<1>6. mv' \in LocalsType BY <1>2, <1>3 DEF SyncDir, LocalsType, MoveSteps
<1>7. fs' \in [Paths -> ContentType] /\ vol' \in [Paths -> {"none", "entry", "data"}]
      /\ undo' \in [Files -> {"none", "rename", "remove"} \X (Destinations \cup {NoPath})]
  BY <1>2, <1>3, <1>4 DEF SyncDir
<1>8. litter' \subseteq Partials BY <1>2 DEF SyncDir, Kept, MoveTypeOK
<1>9. MoveTypeOK' /\ WritesCounted' /\ QueueShape' BY <1>5, <1>6, <1>7, <1>8, QueueKept
<1>10. Locals' /\ IntentKept'
  BY <1>2, <1>3 DEF SyncDir, Kept, Locals, IntentKept, IntentSaved, SourceHeld, InHand,
     MoveSteps, LocalsType
<1>11. /\ QueueLeads' /\ Undoable' /\ \A g \in Files \ late' : Newest(g)'
       /\ \A g \in Files :
            (fs'[Source(g)] = Absent \/ IsFile(Source(g), g)') /\ vol'[Source(g)] = "none"
  <2>1. SourcesStay(f)
    BY <1>2, <1>3, <1>4 DEF SyncDir, SourcesStay
  <2>2. vol'[Source(f)] = "none" /\ fs'[Source(f)] = fs[Source(f)] /\ undo'[f] = undo[f]
    BY <1>2, <1>3, <1>4 DEF SyncDir
  <2>3. f \notin late => Newest(f)'
    BY <1>3, <1>5, <2>2 DEF Kept, NewestKept, Newest
  <2>4. DestinationsStay(f, d)
    BY <1>2, <1>3, <1>4 DEF SyncDir, IsFile, DestinationsStay
  <2> QED BY <1>1, <1>2, <1>3, <1>5, <2>3, <2>1, <2>2, <2>4, OthersKept DEF IsFile
<1>12. SourcesWhole'
  BY <1>2, <1>3, <1>4, <1>11 DEF SyncDir, Kept, SourcesWhole
<1>13. Progress'
  BY <1>2, <1>3, <1>4, <1>10 DEF SyncDir, Kept, Progress, Locals, SourceHeld, MoveSteps,
     LocalsType, IsFile, Home, SourcesWhole
<1>14. NewestKept' BY <1>5, <1>11, <1>2, <1>3 DEF SyncDir, NewestKept, LocalsType, Kept
<1>15. PartialsKnown' BY <1>2, <1>3, <1>4 DEF SyncDir, Kept, PartialsKnown, LocalsType
<1> QED BY <1>9, <1>10, <1>11, <1>12, <1>13, <1>14, <1>15 DEF Kept

\* Only what this move installed is taken away, and the source is still there.
LEMMA DropInstalledKept ==
  ASSUME Kept, DropInstalled
  PROVE  Kept'
<1> USE PathFacts, ContentFacts DEF Goto, At, files, queue, ghosts, Exists, FilesTyped
<1>1. mv.at \in SourceHeld \cap IntentSaved
  BY DEF DropInstalled, SourceHeld, IntentSaved, MoveSteps
<1>2. PICK f \in Files, d \in Destinations : f = mv.file /\ d = mv.dest BY <1>1, HandFacts
<1>3. /\ IsFile(Source(f), f) /\ fs[Source(f)] # Absent /\ undo[f][1] = "none"
      /\ vol[Source(f)] = "none" /\ mem[f].path = Source(f)
      /\ FilesTyped
  BY <1>1, <1>2, HandFacts
<1>4. mv.installed => IsFile(d, f)
  BY <1>2, <1>3 DEF DropInstalled, Kept, Locals, Progress, IsFile
<1>5. UNCHANGED <<name, queue, latest, late, undone, budget>> BY DEF DropInstalled
<1>6. mv' \in LocalsType BY <1>2, <1>3 DEF DropInstalled, LocalsType, MoveSteps
<1>7. fs' \in [Paths -> ContentType] /\ vol' \in [Paths -> {"none", "entry", "data"}]
      /\ undo' \in [Files -> {"none", "rename", "remove"} \X (Destinations \cup {NoPath})]
  BY <1>2, <1>3, <1>4 DEF DropInstalled
<1>8. litter' \subseteq Partials BY <1>2 DEF DropInstalled, Kept, MoveTypeOK
<1>9. MoveTypeOK' /\ WritesCounted' /\ QueueShape' BY <1>5, <1>6, <1>7, <1>8, QueueKept
<1>10. Locals' /\ IntentKept'
  BY <1>2, <1>3 DEF DropInstalled, Kept, Locals, IntentKept, IntentSaved, SourceHeld, InHand,
     MoveSteps, LocalsType
<1>11. /\ QueueLeads' /\ Undoable' /\ \A g \in Files \ late' : Newest(g)'
       /\ \A g \in Files :
            (fs'[Source(g)] = Absent \/ IsFile(Source(g), g)') /\ vol'[Source(g)] = "none"
  <2>1. SourcesStay(f)
    BY <1>2, <1>3, <1>4 DEF DropInstalled, SourcesStay
  <2>2. vol'[Source(f)] = "none" /\ fs'[Source(f)] = fs[Source(f)] /\ undo'[f] = undo[f]
    BY <1>2, <1>3, <1>4 DEF DropInstalled
  <2>3. f \notin late => Newest(f)'
    BY <1>3, <1>5, <2>2 DEF Kept, NewestKept, Newest
  <2>4. DestinationsStay(f, d)
    BY <1>2, <1>3, <1>4 DEF DropInstalled, IsFile, DestinationsStay
  <2> QED BY <1>1, <1>2, <1>3, <1>5, <2>3, <2>1, <2>2, <2>4, OthersKept DEF IsFile
<1>12. SourcesWhole'
  <2>1. ASSUME NEW p \in Paths, fs'[p] \in {Absent, Foreign} PROVE vol'[p] = "none"
    <3>1. fs[p] \in {Absent, Foreign} => vol[p] = "none" BY DEF Kept, SourcesWhole
    <3> QED BY <1>2, <1>3, <2>1, <3>1 DEF DropInstalled
  <2> QED BY <1>11, <2>1 DEF SourcesWhole
<1>13. Progress'
  BY <1>2, <1>3, <1>4, <1>10 DEF DropInstalled, Kept, Progress, Locals, SourceHeld, MoveSteps,
     LocalsType, IsFile, Home, SourcesWhole
<1>14. NewestKept' BY <1>5, <1>11, <1>2, <1>3 DEF DropInstalled, NewestKept, LocalsType, Kept
<1>15. PartialsKnown' BY <1>2, <1>3, <1>4 DEF DropInstalled, Kept, PartialsKnown, LocalsType
<1> QED BY <1>9, <1>10, <1>11, <1>12, <1>13, <1>14, <1>15 DEF Kept

\* The partial file is removed, or becomes litter.
LEMMA DropPartialKept ==
  ASSUME Kept, DropPartial
  PROVE  Kept'
<1> USE PathFacts, ContentFacts DEF Goto, At, files, queue, ghosts, Exists, FilesTyped
<1>1. mv.at \in SourceHeld \cap IntentSaved
  BY DEF DropPartial, SourceHeld, IntentSaved, MoveSteps
<1>2. PICK f \in Files, d \in Destinations : f = mv.file /\ d = mv.dest BY <1>1, HandFacts
<1>3. /\ IsFile(Source(f), f) /\ fs[Source(f)] # Absent /\ undo[f][1] = "none"
      /\ vol[Source(f)] = "none" /\ mem[f].path = Source(f)
      /\ FilesTyped
  BY <1>1, <1>2, HandFacts
<1>4. mv.partial => fs[PartialPath(d)].file = f /\ fs[PartialPath(d)].kind \in {"torn", "file"}
  BY <1>2, <1>3 DEF DropPartial, Kept, Locals, Progress, IsFile
<1>5. UNCHANGED <<name, queue, latest, late, undone, budget>> BY DEF DropPartial
<1>6. mv' \in LocalsType BY <1>2, <1>3 DEF DropPartial, LocalsType, MoveSteps
<1>7. fs' \in [Paths -> ContentType] /\ vol' \in [Paths -> {"none", "entry", "data"}]
      /\ undo' \in [Files -> {"none", "rename", "remove"} \X (Destinations \cup {NoPath})]
  BY <1>2, <1>3, <1>4 DEF DropPartial
<1>8. litter' \subseteq Partials BY <1>2 DEF DropPartial, Kept, MoveTypeOK
<1>9. MoveTypeOK' /\ WritesCounted' /\ QueueShape' BY <1>5, <1>6, <1>7, <1>8, QueueKept
<1>10. Locals' /\ IntentKept'
  BY <1>2, <1>3 DEF DropPartial, Kept, Locals, IntentKept, IntentSaved, SourceHeld, InHand,
     MoveSteps, LocalsType
<1>11. /\ QueueLeads' /\ Undoable' /\ \A g \in Files \ late' : Newest(g)'
       /\ \A g \in Files :
            (fs'[Source(g)] = Absent \/ IsFile(Source(g), g)') /\ vol'[Source(g)] = "none"
  <2>1. SourcesStay(f)
    BY <1>2, <1>3, <1>4 DEF DropPartial, SourcesStay
  <2>2. vol'[Source(f)] = "none" /\ fs'[Source(f)] = fs[Source(f)] /\ undo'[f] = undo[f]
    BY <1>2, <1>3, <1>4 DEF DropPartial
  <2>3. f \notin late => Newest(f)'
    BY <1>3, <1>5, <2>2 DEF Kept, NewestKept, Newest
  <2>4. DestinationsStay(f, d)
    BY <1>2, <1>3, <1>4 DEF DropPartial, IsFile, DestinationsStay
  <2> QED BY <1>1, <1>2, <1>3, <1>5, <2>3, <2>1, <2>2, <2>4, OthersKept DEF IsFile
<1>12. SourcesWhole'
  <2>1. ASSUME NEW p \in Paths, fs'[p] \in {Absent, Foreign} PROVE vol'[p] = "none"
    <3>1. fs[p] \in {Absent, Foreign} => vol[p] = "none" BY DEF Kept, SourcesWhole
    <3> QED BY <1>2, <1>3, <2>1, <3>1 DEF DropPartial
  <2> QED BY <1>11, <2>1 DEF SourcesWhole
<1>13. Progress'
  BY <1>2, <1>3, <1>4, <1>10 DEF DropPartial, Kept, Progress, Locals, SourceHeld, MoveSteps,
     LocalsType, IsFile, Home, SourcesWhole
<1>14. NewestKept' BY <1>5, <1>11, <1>2, <1>3 DEF DropPartial, NewestKept, LocalsType, Kept
<1>15. PartialsKnown' BY <1>2, <1>3, <1>4 DEF DropPartial, Kept, PartialsKnown, LocalsType
<1> QED BY <1>9, <1>10, <1>11, <1>12, <1>13, <1>14, <1>15 DEF Kept

\* The source goes when the verified copy is there for good.
LEMMA RemoveSourceKept ==
  ASSUME Kept, RemoveSource
  PROVE  Kept'
<1> USE PathFacts, ContentFacts DEF Goto, At, files, queue, ghosts, Exists, FilesTyped
<1>1. mv.at \in SourceHeld \cap IntentSaved
  BY DEF RemoveSource, SourceHeld, IntentSaved, MoveSteps
<1>2. PICK f \in Files, d \in Destinations : f = mv.file /\ d = mv.dest BY <1>1, HandFacts
<1>3. /\ IsFile(Source(f), f) /\ fs[Source(f)] # Absent /\ undo[f][1] = "none"
      /\ vol[Source(f)] = "none" /\ mem[f].path = Source(f)
      /\ FilesTyped
  BY <1>1, <1>2, HandFacts
<1>4. /\ fs[d] = Copy(f, mv.digest) /\ vol[d] = "none"
      /\ f \notin late => mv.digest = latest[f]
  BY <1>2 DEF RemoveSource, Kept, Locals, Progress, NewestKept
<1>5. UNCHANGED <<name, queue, latest, late, undone, budget>> BY DEF RemoveSource
<1>6. mv' \in LocalsType BY <1>2, <1>3 DEF RemoveSource, LocalsType, MoveSteps
<1>7. fs' \in [Paths -> ContentType] /\ vol' \in [Paths -> {"none", "entry", "data"}]
      /\ undo' \in [Files -> {"none", "rename", "remove"} \X (Destinations \cup {NoPath})]
  BY <1>2, <1>3, <1>4 DEF RemoveSource
<1>8. litter' \subseteq Partials BY <1>2 DEF RemoveSource, Kept, MoveTypeOK
<1>9. MoveTypeOK' /\ WritesCounted' /\ QueueShape' BY <1>5, <1>6, <1>7, <1>8, QueueKept
<1>10. Locals' /\ IntentKept'
  BY <1>2, <1>3 DEF RemoveSource, Kept, Locals, IntentKept, IntentSaved, SourceHeld, InHand,
     MoveSteps, LocalsType
<1>11. /\ QueueLeads' /\ Undoable' /\ \A g \in Files \ late' : Newest(g)'
       /\ \A g \in Files :
            (fs'[Source(g)] = Absent \/ IsFile(Source(g), g)') /\ vol'[Source(g)] = "none"
  <2>1. SourcesStay(f)
    BY <1>2, <1>3, <1>4 DEF RemoveSource, SourcesStay
  <2>2. vol'[Source(f)] = "none" /\ fs'[Source(f)] = Absent /\ Home(f, d)' /\ undo'[f][2] = d
    BY <1>2, <1>3, <1>4 DEF RemoveSource, Home, IsFile
  <2>3. f \notin late => Newest(f)'
    <3>1. fs'[d] = Copy(f, mv.digest) /\ vol'[d] = "none" BY <1>2, <1>3, <1>4 DEF RemoveSource
    <3> QED BY <1>4, <1>5, <2>2, <3>1 DEF Newest
  <2>4. DestinationsStay(f, d)
    BY <1>2, <1>3, <1>4 DEF RemoveSource, IsFile, DestinationsStay
  <2> QED BY <1>1, <1>2, <1>3, <1>5, <2>3, <2>1, <2>2, <2>4, OthersKept DEF IsFile
<1>12. SourcesWhole'
  BY <1>2, <1>3, <1>4, <1>11 DEF RemoveSource, Kept, SourcesWhole
<1>13. Progress'
  BY <1>2, <1>3, <1>4, <1>10 DEF RemoveSource, Kept, Progress, Locals, SourceHeld, MoveSteps,
     LocalsType, IsFile, Home, SourcesWhole
<1>14. NewestKept' BY <1>5, <1>11, <1>2, <1>3 DEF RemoveSource, NewestKept, LocalsType, Kept
<1>15. PartialsKnown' BY <1>2, <1>3, <1>4 DEF RemoveSource, Kept, PartialsKnown, LocalsType
<1> QED BY <1>9, <1>10, <1>11, <1>12, <1>13, <1>14, <1>15 DEF Kept

\* The file, or its copy, takes its new name.
LEMMA ArriveKept ==
  ASSUME Kept, Arrive, mv.at \in {"rename", "unlink"},
         fs[mv.dest] \in {Absent, fs[mv.from]}
  PROVE  Kept'
<1> USE PathFacts, ContentFacts DEF Goto, At, files, queue, ghosts, Exists, FilesTyped
<1>1. mv.at \in SourceHeld \cap IntentSaved
  BY DEF Arrive, Renamed, SourceHeld, IntentSaved, MoveSteps
<1>2. PICK f \in Files, d \in Destinations : f = mv.file /\ d = mv.dest BY <1>1, HandFacts
<1>3. /\ IsFile(Source(f), f) /\ fs[Source(f)] # Absent /\ undo[f][1] = "none"
      /\ vol[Source(f)] = "none" /\ mem[f].path = Source(f)
      /\ FilesTyped
  BY <1>1, <1>2, HandFacts
<1>4. /\ mv.to = d /\ fs[d] \in {Absent, fs[mv.from]}
      /\ fs[mv.from] \notin {Absent, Foreign} /\ fs[mv.from].file = f
      /\ \/ mv.from = Source(f) /\ ~mv.partial
         \/ /\ mv.from = PartialPath(d) /\ mv.partial /\ vol[mv.from] = "entry"
            /\ fs[mv.from] = Copy(f, mv.digest)
  BY <1>2, <1>3 DEF Kept, Locals, Progress, IsFile
<1>5. UNCHANGED <<name, queue, latest, late, undone, budget>> BY DEF Arrive, Renamed
<1>6. mv' \in LocalsType
  <2>1. CASE mv.from \in Partials BY <1>3, <2>1 DEF Arrive, Renamed, LocalsType, MoveSteps
  <2>2. CASE mv.from \notin Partials
    <3>1. (mv.from \in Partials) = FALSE BY <2>2
    <3>2. mv' = [mv EXCEPT !.at = Renamed, !.partial = FALSE, !.installed = FALSE]
      BY <3>1 DEF Arrive
    <3>3. Renamed \in {"moved", "syncDir"} BY DEF Renamed
    <3> QED BY <1>3, <3>2, <3>3 DEF LocalsType, MoveSteps
  <2> QED BY <2>1, <2>2
<1>7. fs' \in [Paths -> ContentType] /\ vol' \in [Paths -> {"none", "entry", "data"}]
      /\ undo' \in [Files -> {"none", "rename", "remove"} \X (Destinations \cup {NoPath})]
  <2>1. mv.from \in Paths /\ mv.to \in Paths BY <1>4
  <2>2. fs' \in [Paths -> ContentType] BY <1>3, <2>1 DEF Arrive
  <2>3. CASE mv.from \in Sources BY <1>2, <1>3, <1>4, <2>1, <2>2, <2>3 DEF Arrive
  <2>4. CASE mv.from \notin Sources BY <1>3, <2>1, <2>2, <2>4 DEF Arrive
  <2> QED BY <2>3, <2>4
<1>8. litter' \subseteq Partials BY <1>2 DEF Arrive, Renamed, Kept, MoveTypeOK
<1>9. MoveTypeOK' /\ WritesCounted' /\ QueueShape' BY <1>5, <1>6, <1>7, <1>8, QueueKept
<1>10. Locals' /\ IntentKept'
  BY <1>2, <1>3 DEF Arrive, Renamed, Kept, Locals, IntentKept, IntentSaved, SourceHeld, InHand,
     MoveSteps, LocalsType
<1>11. /\ QueueLeads' /\ Undoable' /\ \A g \in Files \ late' : Newest(g)'
       /\ \A g \in Files :
            (fs'[Source(g)] = Absent \/ IsFile(Source(g), g)') /\ vol'[Source(g)] = "none"
  <2>1. SourcesStay(f)
    BY <1>2, <1>3, <1>4 DEF Arrive, Renamed, SourcesStay
  <2>2. /\ vol'[Source(f)] = "none"
        /\ \/ fs'[Source(f)] = fs[Source(f)] /\ undo'[f] = undo[f]
           \/ /\ fs'[Source(f)] = Absent /\ Home(f, d)' /\ undo'[f][2] = d
              /\ fs'[d] = fs[Source(f)] /\ vol'[d] = "none"
    BY <1>2, <1>3, <1>4 DEF Arrive, Home, IsFile
  <2>3. f \notin late => Newest(f)'
    BY <1>3, <1>5, <2>2 DEF Kept, NewestKept, Newest
  <2>4. DestinationsStay(f, d)
    BY <1>2, <1>3, <1>4 DEF Arrive, Renamed, IsFile, DestinationsStay
  <2> QED BY <1>1, <1>2, <1>3, <1>5, <2>3, <2>1, <2>2, <2>4, OthersKept DEF IsFile
<1>12. SourcesWhole'
  BY <1>2, <1>3, <1>4, <1>11 DEF Arrive, Renamed, Kept, SourcesWhole
<1>13. Progress'
  BY <1>2, <1>3, <1>4, <1>10 DEF Arrive, Renamed, Kept, Progress, Locals, SourceHeld, MoveSteps,
     LocalsType, IsFile, Home, SourcesWhole
<1>14. NewestKept' BY <1>5, <1>11, <1>2, <1>3 DEF Arrive, Renamed, NewestKept, LocalsType, Kept
<1>15. PartialsKnown' BY <1>2, <1>3, <1>4 DEF Arrive, Renamed, Kept, PartialsKnown, LocalsType
<1> QED BY <1>9, <1>10, <1>11, <1>12, <1>13, <1>14, <1>15 DEF Kept

\* Neither way to rename replaces another file.
LEMMA RenameKept ==
  ASSUME Kept, Rename \/ Unlink
  PROVE  Kept'
<1>1. mv.at \in {"rename", "unlink"} /\ Arrive BY DEF Rename, Unlink, At
<1>2. fs[mv.dest] \in {Absent, fs[mv.from]}
  BY <1>1, PathFacts, HandFacts
     DEF Rename, Unlink, At, Exists, Kept, Locals, Progress, InHand, SourceHeld, MoveSteps
<1> QED BY <1>1, <1>2, ArriveKept

\* The rest of the world touches files, but no record and no move.
LEMMA UserWritesKept ==
  ASSUME Kept, NEW f \in Files, UserWrites(f)
  PROVE  Kept'
<1> USE PathFacts, ContentFacts DEF Goto, At, files, queue, ghosts, Exists
<1> DEFINE new == Copy(f, latest[f] + 1)
           twin == At("unlink") /\ mv.from = Source(f)
<1>1. /\ IsFile(Source(f), f) /\ budget.writes < MaxWrites
      /\ latest' = [latest EXCEPT ![f] = @ + 1]
      /\ fs' = [p \in Paths |-> IF p = Source(f) \/ (twin /\ p = mv.to) THEN new ELSE fs[p]]
      /\ late' = IF At("remove") /\ mv.file = f THEN late \cup {f} ELSE late
      /\ budget' = [budget EXCEPT !.writes = @ + 1]
      /\ UNCHANGED <<name, vol, undo, queue, mv, undone, litter>>
  BY DEF UserWrites, Kept, SourcesWhole, IsFile
<1>2. /\ fs \in [Paths -> ContentType] /\ latest \in [Files -> 0..MaxWrites] /\ MaxWrites \in Nat
      /\ budget \in [writes : 0..MaxWrites, foreign : Nat, calls : Nat, crashes : Nat]
      /\ \A g \in Files : latest[g] <= budget.writes
  BY MoveConstants DEF Kept, MoveTypeOK, WritesCounted, BudgetType, MoveConstants
<1>3. latest' \in [Files -> 0..MaxWrites] /\ latest'[f] = latest[f] + 1
      /\ \A g \in Files \ {f} : latest'[g] = latest[g]
  BY <1>1, <1>2
<1>4. WritesCounted' BY <1>1, <1>2, <1>3 DEF WritesCounted, BudgetType
<1>5. new \in ContentType
  <2>1. latest[f] + 1 \in 0..MaxWrites BY <1>1, <1>2
  <2> QED BY <2>1
<1> HIDE DEF new
<1>6. twin => /\ f = mv.file /\ mv.to \in Destinations /\ mv.to = mv.dest
              /\ IsFile(mv.to, f) /\ ~mv.installed /\ ~mv.partial
  BY <1>1 DEF Kept, Locals, Progress, InHand, SourceHeld, IsFile
<1> HIDE DEF twin
<1>7. fs' \in [Paths -> ContentType] /\ fs'[Source(f)] = new
      /\ \A p \in Paths : p # Source(f) /\ (p # mv.to \/ ~twin) => fs'[p] = fs[p]
      /\ (twin => fs'[mv.to] = new)
  BY <1>1, <1>2, <1>5, <1>6
<1>8. \A p \in Paths : fs'[p] = fs[p] \/ (fs'[p] = new /\ fs[p].kind = "file" /\ fs[p].file = f)
  BY <1>1, <1>6, <1>7 DEF IsFile
<1>9. new.kind = "file" /\ new.file = f BY DEF new
<1>10. \A p \in Paths, g \in Files : IsFile(p, g) => IsFile(p, g)' BY <1>8, <1>9 DEF IsFile
<1>11. \A g \in Files, d \in Destinations : Home(g, d) => Home(g, d)' BY <1>1, <1>10 DEF Home
<1>12. MoveTypeOK'
  <2>1. late' \subseteq Files BY <1>1 DEF Kept, MoveTypeOK
  <2> QED BY <1>1, <1>3, <1>7, <2>1 DEF Kept, MoveTypeOK
<1>13. Locals' /\ IntentKept' /\ QueueShape'
  BY <1>1 DEF Kept, Locals, IntentKept, QueueShape, RecordShape
<1>14. QueueLeads' BY <1>1, <1>10, <1>11 DEF Kept, QueueLeads, Leads, Home
<1>15. SourcesWhole' BY <1>1, <1>8, <1>9, <1>10 DEF Kept, SourcesWhole, IsFile
<1>16. Undoable'
  <2>1. \A g \in Files : fs[Source(g)] = Absent => fs'[Source(g)] = Absent BY <1>8
  <2> QED BY <1>1, <1>11, <2>1 DEF Kept, Undoable, Home
<1>17. Progress'
  <2>1. mv.at \in SourceHeld => IsFile(Source(mv.file), mv.file)'
    BY <1>1, <1>10 DEF Kept, Progress, Locals, InHand
  <2>2. \A p \in Partials : fs'[p] = fs[p] /\ vol'[p] = vol[p] BY <1>1, <1>6, <1>7
  <2>3. mv.partial => PartialPath(mv.dest) \in Partials
    BY DEF Kept, Locals, InHand, SourceHeld, MoveSteps, MoveTypeOK, LocalsType
  <2>4. mv.installed => mv.dest \in Destinations
    BY DEF Kept, Locals, InHand, SourceHeld, MoveSteps, MoveTypeOK, LocalsType
  <2>5. mv.installed => fs'[mv.dest] = fs[mv.dest] BY <1>6, <1>7, <2>4
  <2>6. At("unlink") => fs'[mv.to] = fs'[mv.from]
    <3>1. SUFFICES ASSUME At("unlink") PROVE fs'[mv.to] = fs'[mv.from]
      OBVIOUS
    <3>2. /\ fs[mv.to] = fs[mv.from] /\ mv.file \in Files /\ mv.to \in Destinations
          /\ mv.from = Source(mv.file) \/ mv.from \in Partials
      BY <3>1 DEF Kept, Locals, Progress, InHand, SourceHeld
    <3>3. CASE twin BY <1>6, <1>7, <3>3 DEF twin
    <3>4. CASE ~twin BY <1>7, <2>2, <3>1, <3>2, <3>4 DEF twin
    <3> QED BY <3>3, <3>4
  <2>7. At("moved") => Home(mv.file, mv.dest)'
    BY <1>1, <1>11 DEF Kept, Progress, Locals, InHand
  <2> QED BY <1>1, <2>1, <2>2, <2>3, <2>5, <2>6, <2>7 DEF Kept, Progress
<1>18. NewestKept'
  <2>1. ASSUME NEW g \in Files \ late', g # f PROVE Newest(g)'
    <3>1. Newest(g) /\ latest'[g] = latest[g] BY <1>1, <1>3, <2>1 DEF Kept, NewestKept
    <3>2. \A p \in Paths : fs[p] \in {Absent, Copy(g, latest[g])} => fs'[p] = fs[p]
      BY <1>8, <2>1
    <3> QED BY <1>1, <3>1, <3>2 DEF Newest
  <2>2. f \notin late' => Newest(f)' BY <1>3, <1>7 DEF Newest, new
  <2>3. At("remove") /\ mv.file \notin late' => mv.digest = latest'[mv.file]
    BY <1>1, <1>3 DEF Kept, NewestKept, Locals, InHand, SourceHeld, MoveSteps
  <2> QED BY <1>1, <2>1, <2>2, <2>3 DEF NewestKept
<1>19. PartialsKnown'
  <2>1. \A p \in Partials : fs'[p] = fs[p] BY <1>6, <1>7
  <2> QED BY <1>1, <2>1 DEF Kept, PartialsKnown
<1> QED
  BY <1>4, <1>12, <1>13, <1>14, <1>15, <1>16, <1>17, <1>18, <1>19 DEF Kept

\* Another program creates a file where there is none.
LEMMA ForeignFileKept ==
  ASSUME Kept, NEW q \in Destinations \cup Partials, ForeignFile(q)
  PROVE  Kept'
<1> USE PathFacts, ContentFacts DEF Goto, At, files, queue, ghosts, Exists
<1>1. /\ fs[q] = Absent /\ q \in Paths
      /\ fs' = [fs EXCEPT ![q] = Foreign]
      /\ budget' = [budget EXCEPT !.foreign = @ + 1]
      /\ UNCHANGED <<name, vol, undo, queue, mv, ghosts>>
  BY DEF ForeignFile
<1>2. fs \in [Paths -> ContentType] BY DEF Kept, MoveTypeOK
<1>3. fs' \in [Paths -> ContentType] /\ fs'[q] = Foreign
      /\ \A p \in Paths : p # q => fs'[p] = fs[p]
  BY <1>1, <1>2
<1>4. WritesCounted' BY <1>1 DEF Kept, WritesCounted, BudgetType
<1>5. MoveTypeOK' BY <1>1, <1>3 DEF Kept, MoveTypeOK
<1>6. Locals' /\ IntentKept' /\ QueueShape'
  BY <1>1 DEF Kept, Locals, IntentKept, QueueShape, RecordShape
<1>7. \A p \in Paths : fs[p] # Absent => fs'[p] = fs[p] BY <1>1, <1>3
<1>8. \A f \in Files : fs'[Source(f)] = fs[Source(f)] BY <1>3
<1>9. \A p \in Paths, f \in Files : IsFile(p, f) => IsFile(p, f)' BY <1>7 DEF IsFile
<1>10. \A f \in Files, d \in Destinations : Home(f, d) => Home(f, d)' BY <1>1, <1>9 DEF Home
<1>11. QueueLeads' BY <1>1, <1>9, <1>10 DEF Kept, QueueLeads, Leads, Home
<1>12. SourcesWhole' BY <1>1, <1>3, <1>8, <1>9 DEF Kept, SourcesWhole
<1>13. Undoable' BY <1>1, <1>8, <1>10 DEF Kept, Undoable, Home
<1>14. NewestKept' BY <1>1, <1>7, <1>8 DEF Kept, NewestKept, Newest
<1>15. PartialsKnown' BY <1>1, <1>3 DEF Kept, PartialsKnown
<1>16. Progress'
  <2>1. mv.at \in SourceHeld => IsFile(Source(mv.file), mv.file)'
    BY <1>1, <1>9 DEF Kept, Progress, Locals, InHand
  <2>2. mv.partial => fs'[PartialPath(mv.dest)] = fs[PartialPath(mv.dest)]
    <3>1. mv.partial => PartialPath(mv.dest) \in Partials
      BY DEF Kept, Locals, InHand, SourceHeld, MoveSteps, MoveTypeOK, LocalsType
    <3> QED BY <1>7, <3>1 DEF Kept, Progress
  <2>3. mv.installed => fs'[mv.dest] = fs[mv.dest]
    <3>1. mv.installed => mv.dest \in Destinations
      BY DEF Kept, Locals, InHand, SourceHeld, MoveSteps, MoveTypeOK, LocalsType
    <3> QED BY <1>7, <3>1 DEF Kept, Progress
  <2>4. At("unlink") => fs'[mv.to] = fs[mv.to] /\ fs'[mv.from] = fs[mv.from]
    <3>1. SUFFICES ASSUME At("unlink") PROVE fs'[mv.to] = fs[mv.to] /\ fs'[mv.from] = fs[mv.from]
      OBVIOUS
    <3>2. /\ mv.file \in Files /\ mv.dest \in Destinations /\ mv.to = mv.dest
          /\ fs[mv.to] = fs[mv.from] /\ fs[mv.from] # Absent
          /\ mv.from \in Paths
      BY <3>1 DEF Kept, Locals, Progress, InHand, SourceHeld, IsFile
    <3> QED BY <1>7, <3>2
  <2>5. At("moved") => Home(mv.file, mv.dest)'
    BY <1>1, <1>10 DEF Kept, Progress, Locals, InHand
  <2> QED BY <1>1, <2>1, <2>2, <2>3, <2>4, <2>5 DEF Kept, Progress
<1> QED
  BY <1>4, <1>5, <1>6, <1>11, <1>12, <1>13, <1>14, <1>15, <1>16 DEF Kept

\* A power failure: a name that was not synced may be undone, contents that were
\* not synced may be lost; the file in hand still has its source.
LEMMA PowerFailureKept ==
  ASSUME Kept, PowerFailure
  PROVE  Kept'
<1> USE PathFacts, ContentFacts DEF Goto, At, files, queue, ghosts, Exists
<1> DEFINE dirty == {p \in Paths : vol[p] # "none"}
           open == {f \in Files : undo[f][1] # "none" /\ ~Exists(Source(f))}
<1>1. PICK back \in SUBSET open, left \in [dirty -> UNION {Damage(p) : p \in dirty}] :
        LET taken == {f \in back : undo[f][1] = "rename"} IN
        /\ \A p \in dirty : left[p] \in Damage(p)
        /\ fs' = [p \in Paths |->
                    IF p \in {Source(f) : f \in back} THEN fs[undo[p[2]][2]]
                    ELSE IF p \in {undo[f][2] : f \in taken} THEN Absent
                    ELSE IF p \in dirty THEN left[p] ELSE fs[p]]
        /\ undone' = undone \cup taken
  BY DEF PowerFailure
<1> DEFINE taken == {f \in back : undo[f][1] = "rename"}
<1>2. /\ mv' = [NoMove EXCEPT !.at = "down"] /\ saver' = Unsaved
      /\ vol' = [p \in Paths |-> "none"] /\ undo' = [f \in Files |-> <<"none", NoPath>>]
      /\ litter' = Partials /\ budget' = [budget EXCEPT !.crashes = @ + 1]
      /\ UNCHANGED <<name, mem, disk, latest, late>>
  BY DEF PowerFailure
<1>3. /\ fs \in [Paths -> ContentType] /\ \A f \in Files : Source(f) \in Paths
      /\ \A f \in Files : fs[Source(f)] = Absent \/ IsFile(Source(f), f)
      /\ \A f \in Files : vol[Source(f)] = "none"
      /\ \A f \in back : f \in Files /\ Home(f, undo[f][2]) /\ fs[Source(f)] = Absent
  BY DEF Kept, MoveTypeOK, SourcesWhole, Undoable
<1> HIDE DEF open
<1>4. \A f \in back : fs'[Source(f)] = fs[undo[f][2]] BY <1>1, <1>3
<1>5. \A f \in Files \ back : fs'[Source(f)] = fs[Source(f)]
  <2>1. ASSUME NEW f \in Files \ back PROVE fs'[Source(f)] = fs[Source(f)]
    <3>1. Source(f) \notin {Source(g) : g \in back} BY <1>3
    <3>2. Source(f) \notin {undo[g][2] : g \in taken} BY <1>3 DEF Home
    <3>3. Source(f) \notin dirty BY <1>3
    <3> QED BY <1>1, <1>3, <3>1, <3>2, <3>3
  <2> QED BY <2>1
<1>6. \A p \in Paths \ Sources : fs'[p] = IF p \in {undo[f][2] : f \in taken} THEN Absent
                                          ELSE IF p \in dirty THEN left[p] ELSE fs[p]
  BY <1>1, <1>3
<1>7. \A f \in Files, d \in Destinations :
        Home(f, d) /\ f \notin taken => fs'[d] = fs[d] /\ Home(f, d)'
  <2>1. ASSUME NEW f \in Files, NEW d \in Destinations, Home(f, d), f \notin taken
        PROVE  fs'[d] = fs[d] /\ Home(f, d)'
    <3>1. d \notin {undo[g][2] : g \in taken} BY <1>3, <2>1 DEF Home, IsFile
    <3>2. d \notin dirty BY <2>1 DEF Home
    <3>3. fs'[d] = fs[d] BY <1>6, <3>1, <3>2
    <3> QED BY <1>2, <2>1, <3>3 DEF Home, IsFile
  <2> QED BY <2>1
<1>8. ASSUME NEW f \in Files, IsFile(Source(f), f) PROVE IsFile(Source(f), f)'
  BY <1>3, <1>5, <1>8 DEF IsFile
<1>9. fs' \in [Paths -> ContentType]
  <2>1. ASSUME NEW p \in dirty PROVE left[p] \in ContentType
    <3>1. fs[p] \in ContentType BY <1>3
    <3>2. fs[p].file \in {0} \cup Files BY <3>1 DEF ContentType
    <3> QED BY <1>1, <3>1, <3>2 DEF Damage
  <2>2. ASSUME NEW p \in Paths PROVE fs'[p] \in ContentType
    <3>1. CASE p \in Sources
      <4>1. PICK f \in Files : p = Source(f) BY <3>1
      <4> QED BY <1>3, <1>4, <1>5, <4>1 DEF Home
    <3>2. CASE p \notin Sources BY <1>3, <1>6, <2>1, <3>2
    <3> QED BY <3>1, <3>2
  <2>3. fs' = [p \in Paths |-> fs'[p]] BY <1>1
  <2> QED BY <2>2, <2>3
<1>10. MoveTypeOK'
  <2>1. undo' \in [Files -> {"none", "rename", "remove"} \X (Destinations \cup {NoPath})]
    BY <1>2
  <2>2. taken \subseteq Files BY <1>3
  <2>3. undone' \subseteq Files BY <1>1, <2>2 DEF Kept, MoveTypeOK
  <2> QED BY <1>2, <1>9, <2>1, <2>3, IdleTyped DEF Kept, MoveTypeOK
<1>11. WritesCounted' BY <1>2 DEF Kept, WritesCounted, BudgetType
<1>12. /\ mv'.at = "down" /\ mv'.todo = {} /\ ~mv'.partial /\ ~mv'.installed
  BY <1>2 DEF NoMove
<1>13. Locals' /\ IntentKept' /\ Progress'
  BY <1>12 DEF Locals, IntentKept, IntentSaved, InHand, SourceHeld, MoveSteps, Progress
<1>14. QueueShape' BY <1>2 DEF Kept, QueueShape, RecordShape
<1>15. QueueLeads'
  <2>1. ASSUME NEW f \in Files \ undone', NEW r, Leads(f, r) PROVE Leads(f, r)'
    <3>1. f \in Files /\ f \notin taken BY <1>1, <2>1
    <3>2. IsFile(Source(f), f) => IsFile(Source(f), f)' BY <1>8, <3>1
    <3>3. \A d : Home(f, d) => Home(f, d)' BY <1>7, <3>1 DEF Home
    <3> QED BY <2>1, <3>2, <3>3 DEF Leads
  <2> QED BY <1>1, <1>2, <2>1 DEF Kept, QueueLeads
<1>16. SourcesWhole'
  <2>1. \A f \in Files : fs'[Source(f)] = Absent \/ IsFile(Source(f), f)'
    BY <1>3, <1>4, <1>5 DEF Home, IsFile
  <2> QED BY <1>2, <2>1 DEF SourcesWhole
<1>17. Undoable' BY <1>2 DEF Undoable
<1>18. NewestKept'
  <2>1. ASSUME NEW f \in Files \ late PROVE Newest(f)'
    <3>1. Newest(f) BY DEF Kept, NewestKept
    <3>2. CASE fs[Source(f)] # Absent BY <1>2, <1>3, <1>5, <3>1, <3>2 DEF Newest
    <3>3. CASE fs[Source(f)] = Absent
      <4>1. PICK d \in Destinations :
              /\ fs[d] = Copy(f, latest[f]) /\ vol[d] = "none"
              /\ undo[f][1] # "none" => undo[f][2] = d
        BY <3>1, <3>3 DEF Newest
      <4>2. CASE f \in back
        <5>1. undo[f][1] # "none" BY <4>2 DEF open
        <5> QED BY <1>2, <1>4, <4>1, <4>2, <5>1 DEF Newest
      <4>3. CASE f \notin back
        <5>1. fs'[d] = fs[d] /\ vol'[d] = "none" BY <1>2, <1>7, <4>1, <4>3 DEF Home, IsFile
        <5> QED BY <1>2, <1>5, <3>3, <4>1, <4>3, <5>1 DEF Newest
      <4> QED BY <4>2, <4>3
    <3> QED BY <3>2, <3>3
  <2> QED BY <1>2, <1>12, <2>1 DEF NewestKept
<1>19. PartialsKnown' BY <1>2 DEF PartialsKnown
<1> QED
  BY <1>10, <1>11, <1>13, <1>14, <1>15, <1>16, <1>17, <1>18, <1>19 DEF Kept

-----------------------------------------------------------------------------
(* The promises.                                                           *)

\* At the start every file is at its source.
LEMMA KeptInit ==
  ASSUME Init
  PROVE  Kept
<1> USE PathFacts, ContentFacts, MoveConstants DEF MoveConstants, Init
<1>1. \A f \in Files : fs[Source(f)] = Copy(f, 0) BY DEF Sources
<1>2. \A p \in Paths \ Sources : fs[p] = Absent OBVIOUS
<1>3. \A f \in Files : mem[f].st = "oversize" /\ mem[f].path = Source(f) /\ mem[f] \in RecordType
  BY DEF Oversize, RecordType
<1>4. mv.at = "idle" /\ mv.todo = {} /\ ~mv.partial /\ ~mv.installed BY DEF NoMove
<1>5. MoveTypeOK
  <2>1. \A p \in Paths : fs[p] \in ContentType
    BY <1>1, <1>2
  <2>2. mv \in LocalsType BY IdleTyped
  <2> QED BY <1>3, <2>1, <2>2 DEF MoveTypeOK
<1>6. WritesCounted BY DEF WritesCounted, BudgetType
<1>7. Locals /\ IntentKept /\ Progress
  BY <1>4 DEF At, Locals, IntentKept, IntentSaved, InHand, SourceHeld, MoveSteps, Progress
<1>8. QueueShape BY <1>3 DEF QueueShape, RecordShape
<1>9. QueueLeads BY <1>1, <1>3 DEF QueueLeads, Leads, IsFile
<1>10. SourcesWhole BY <1>1 DEF SourcesWhole, IsFile
<1>11. Undoable BY DEF Undoable
<1>12. NewestKept BY <1>1, <1>4 DEF NewestKept, Newest, At
<1>13. PartialsKnown BY <1>2 DEF PartialsKnown
<1> QED
  BY <1>5, <1>6, <1>7, <1>8, <1>9, <1>10, <1>11, <1>12, <1>13 DEF Kept

\* Every step keeps the invariant.
LEMMA KeptNext ==
  ASSUME Kept, [Next]_vars
  PROVE  Kept'
<1>1. CASE Records
  BY <1>1, MoveOversizeKept, NextItemKept, CallReturnsKept, SaveIntentKept, SaveIntentFailsKept,
     WithdrawIntentKept, MoveFailedKept, MoveSucceededKept, SaveResultKept DEF Records
<1>2. CASE Transfer
  BY <1>2, InspectKept, RenameKept, LinkKept, UnlinkFailsKept, HashSourceKept,
     CreatePartialKept, 
     CopyBytesKept, SyncPartialKept, VerifyPartialKept, SyncDirKept, VerifyInstalledKept,
     RehashSourceKept, RemoveSourceKept, StepFailsKept, DropInstalledKept, DropPartialKept
     DEF Transfer
<1>3. CASE World
  BY <1>3, OtherSnapshotKept, OtherSavesKept, CrashKept, PowerFailureKept, LoadKept,
     UserWritesKept, ForeignFileKept DEF World
<1>4. CASE UNCHANGED vars
  BY <1>4 DEF vars, Kept, MoveTypeOK, WritesCounted, BudgetType, Locals, At, QueueShape,
     RecordShape, 
     IntentKept, QueueLeads, Leads, Home, IsFile, SourcesWhole, Undoable, Progress,
     NewestKept, Newest, PartialsKnown
<1> QED BY <1>1, <1>2, <1>3, <1>4 DEF Next, Rest

\* Kept is an invariant of the specification.
LEMMA AlwaysKept == Spec => []Kept
<1>1. Init => Kept BY KeptInit
<1>2. Kept /\ [Next]_vars => Kept' BY KeptNext
<1> QED BY <1>1, <1>2, PTL DEF Spec

\* The variables of the move keep their types.
THEOREM MoveTypes == Spec => []MoveTypeOK
<1>1. Kept => MoveTypeOK BY DEF Kept
<1> QED BY <1>1, AlwaysKept, PTL

\* Move loses nothing: whatever step fails, whenever the process dies or the power
\* fails, the newest contents of every file are complete at some path, but for what
\* the user wrote after Move read the source for the last time.
THEOREM NothingLost == Spec => []CopyKept
<1>1. ASSUME Kept PROVE CopyKept
  <2>1. ASSUME NEW f \in Files \ late PROVE \E p \in Paths : fs[p] = Copy(f, latest[f])
    <3>1. Newest(f) BY <1>1 DEF Kept, NewestKept
    <3> QED BY <3>1, PathFacts DEF Newest
  <2> QED BY <2>1 DEF CopyKept
<1> QED BY <1>1, AlwaysKept, PTL

\* Every restart finds every file: an oversize or moved record that Load makes from
\* queue.json is at a path where its file is, but for a finished rename that a power
\* failure took back.
THEOREM RestartLeads == Spec => []RestartFindsFile
<1>1. ASSUME Kept PROVE RestartFindsFile
  <2>1. ASSUME NEW f \in Files \ undone, Reconciled(disk[f], FALSE).st # "failed"
        PROVE  IsFile(Reconciled(disk[f], FALSE).path, f)
    <3> DEFINE r == disk[f]
    <3>1. Leads(f, r) /\ RecordShape(f, r) /\ r \in RecordType
      BY <1>1, <2>1 DEF Kept, QueueLeads, QueueShape, MoveTypeOK
    <3>2. CASE r.st # "moving"
      <4>1. Reconciled(r, FALSE) = r BY <3>2 DEF Reconciled
      <4>2. r.st \in {"oversize", "moved"} BY <2>1, <3>1, <3>2, <4>1 DEF RecordType
      <4> QED BY <3>1, <4>1, <4>2 DEF Leads, RecordShape, Home
    <3>3. CASE r.st = "moving"
      <4>1. fs[Source(f)] = Absent \/ IsFile(Source(f), f) BY <1>1 DEF Kept, SourcesWhole
      <4>2. r.path = Source(f) BY <3>1, <3>3 DEF RecordShape
      <4>3. CASE Regular(r.path) /\ Regular(r.dest)
        BY <3>1, <3>3, <4>1, <4>2, <4>3 DEF Reconciled, Regular, Exists, RecordType
      <4>4. CASE Regular(r.path) /\ ~Regular(r.dest)
        BY <3>1, <3>3, <4>1, <4>2, <4>4 DEF Reconciled, Regular, Exists, RecordType
      <4>5. CASE ~Regular(r.path) /\ Regular(r.dest)
        <5>1. ~IsFile(Source(f), f)
          BY <4>2, <4>5, PathFacts, ContentFacts DEF Regular, Exists, IsFile
        <5> QED BY <3>1, <3>3, <4>5, <5>1 DEF Reconciled, Leads, Home
      <4>6. CASE ~Regular(r.path) /\ ~Regular(r.dest)
        BY <2>1, <3>1, <3>3, <4>6 DEF Reconciled, RecordType
      <4> QED BY <4>3, <4>4, <4>5, <4>6
    <3> QED BY <3>2, <3>3
  <2> QED BY <2>1 DEF RestartFindsFile, IsFile
<1> QED BY <1>1, AlwaysKept, PTL

\* No partial copy is left behind unless a crash or a failed removal left it.
THEOREM LeftoversKnown == Spec => []NoLeftover
<1>1. Kept => NoLeftover BY DEF Kept, PartialsKnown, Locals, NoLeftover, At
<1> QED BY <1>1, AlwaysKept, PTL

\* What a step may not do to the file at a path.
Respected(p) ==
  /\ fs[p] = Foreign => fs'[p] = Foreign
  /\ fs[p].kind = "file" /\ fs'[p] # Absent => fs'[p].file = fs[p].file

\* A step of Move respects what is at every path.
LEMMA TransferRespects ==
  ASSUME Kept, Transfer, NEW p \in Paths
  PROVE  Respected(p)
<1> USE PathFacts, ContentFacts DEF At, Goto, files
<1>1. CASE Rename \/ Unlink
  <2>1. mv.at \in {"rename", "unlink"} /\ Arrive BY <1>1 DEF Rename, Unlink
  <2>2. PICK f \in Files, d \in Destinations : f = mv.file /\ d = mv.dest
    BY <2>1, HandFacts DEF SourceHeld, MoveSteps
  <2>3. /\ mv.to = d /\ mv.from \in {Source(f), PartialPath(d)} /\ fs \in [Paths -> ContentType]
        /\ fs[mv.from].file = f /\ fs[mv.from] \notin {Absent, Foreign}
        /\ fs[d] \in {Absent, fs[mv.from]}
    BY <1>1, <2>1, <2>2 DEF Kept, MoveTypeOK, Locals, Progress, SourceHeld, MoveSteps, IsFile,
       Rename, Unlink, Exists
  <2>4. fs' = [fs EXCEPT ![mv.to] = fs[mv.from], ![mv.from] = Absent] BY <2>1 DEF Arrive
  <2> QED BY <2>2, <2>3, <2>4 DEF Respected
<1>2. CASE Link \/ UnlinkFails
  <2>1. PICK f \in Files, d \in Destinations : f = mv.file /\ d = mv.dest
    BY <1>2, HandFacts DEF Link, UnlinkFails, SourceHeld, MoveSteps
  <2>2. /\ mv.to = d /\ fs \in [Paths -> ContentType]
        /\ fs[d] = Absent \/ (fs[d] # Foreign /\ UnlinkFails)
    BY <1>2, <2>1 DEF Kept, MoveTypeOK, Locals, Progress, SourceHeld, MoveSteps, IsFile, Link,
       UnlinkFails, Exists
  <2>3. p # d => fs'[p] = fs[p] BY <1>2, <2>1, <2>2 DEF Link, UnlinkFails
  <2>4. UnlinkFails => fs'[d] \in {fs[d], Absent} BY <1>2, <2>1, <2>2 DEF UnlinkFails
  <2> QED BY <2>1, <2>2, <2>3, <2>4 DEF Respected
<1>3. CASE CreatePartial \/ CopyBytes
  <2>1. PICK f \in Files, d \in Destinations : f = mv.file /\ d = mv.dest
    BY <1>3, HandFacts DEF CreatePartial, CopyBytes, SourceHeld, MoveSteps
  <2>2. fs[PartialPath(d)].kind \in {"absent", "torn"}
    BY <1>3, <2>1 DEF Kept, Locals, Progress, CreatePartial, CopyBytes, Exists
  <2>3. p # PartialPath(d) => fs'[p] = fs[p]
    BY <1>3, <2>1 DEF Kept, MoveTypeOK, Locals, CreatePartial, CopyBytes
  <2> QED BY <2>1, <2>2, <2>3 DEF Respected
<1>4. CASE RemoveSource \/ DropInstalled \/ DropPartial
  <2>1. PICK f \in Files, d \in Destinations : f = mv.file /\ d = mv.dest
    BY <1>4, HandFacts DEF RemoveSource, DropInstalled, DropPartial, SourceHeld, MoveSteps
  <2>2. /\ fs[Source(f)].kind = "file" /\ mem[f].path = Source(f)
        /\ mv.installed => fs[d] # Foreign
        /\ mv.partial => fs[PartialPath(d)] # Foreign
        /\ fs \in [Paths -> ContentType]
    BY <1>4, <2>1 DEF Kept, MoveTypeOK, IntentKept, Progress, RemoveSource, DropInstalled,
       DropPartial, 
                      SourceHeld, MoveSteps, IsFile
  <2>3. fs'[p] \in {fs[p], Absent} /\ (fs[p] = Foreign => fs'[p] = fs[p])
    BY <1>4, <2>1, <2>2 DEF RemoveSource, DropInstalled, DropPartial
  <2> QED BY <2>3 DEF Respected
<1>5. CASE fs' = fs BY <1>5 DEF Respected
<1> QED
  BY <1>1, <1>2, <1>3, <1>4, <1>5
     DEF Transfer, Inspect, HashSource, SyncPartial, VerifyPartial, SyncDir, VerifyInstalled,
         RehashSource, StepFails

\* So do the user, other programs, and a power failure.
LEMMA WorldRespects ==
  ASSUME Kept, World, NEW p \in Paths
  PROVE  Respected(p)
<1> USE PathFacts, ContentFacts DEF At, files
<1>1. CASE PowerFailure
  <2> DEFINE dirty == {q \in Paths : vol[q] # "none"}
             open == {f \in Files : undo[f][1] # "none" /\ ~Exists(Source(f))}
  <2>1. PICK back \in SUBSET open, left \in [dirty -> UNION {Damage(q) : q \in dirty}] :
          LET taken == {f \in back : undo[f][1] = "rename"} IN
          /\ \A q \in dirty : left[q] \in Damage(q)
          /\ fs' = [q \in Paths |->
                      IF q \in {Source(f) : f \in back} THEN fs[undo[q[2]][2]]
                      ELSE IF q \in {undo[f][2] : f \in taken} THEN Absent
                      ELSE IF q \in dirty THEN left[q] ELSE fs[q]]
    BY <1>1 DEF PowerFailure
  <2>2. \A f \in back : f \in Files /\ fs[Source(f)] = Absent /\ fs[undo[f][2]].kind = "file"
    BY DEF Kept, Undoable, Home, IsFile
  <2>3. p \in dirty => fs[p] # Foreign BY DEF Kept, SourcesWhole
  <2>4. CASE p \in {Source(f) : f \in back} BY <2>2, <2>4 DEF Respected
  <2>5. CASE /\ p \notin {Source(f) : f \in back}
             /\ p \in {undo[f][2] : f \in {g \in back : undo[g][1] = "rename"}}
    BY <2>1, <2>2, <2>5 DEF Respected
  <2>6. CASE /\ p \notin {Source(f) : f \in back} /\ p \in dirty
             /\ p \notin {undo[f][2] : f \in {g \in back : undo[g][1] = "rename"}}
    <3>1. fs'[p] = left[p] BY <2>1, <2>6
    <3>2. fs'[p] \in {fs[p], Absent, Torn(fs[p].file)} BY <2>1, <2>6, <3>1 DEF Damage
    <3> QED BY <2>3, <2>6, <3>2 DEF Respected
  <2>7. CASE /\ p \notin {Source(f) : f \in back} /\ p \notin dirty
             /\ p \notin {undo[f][2] : f \in {g \in back : undo[g][1] = "rename"}}
    BY <2>1, <2>7 DEF Respected
  <2> QED BY <2>4, <2>5, <2>6, <2>7
<1>2. ASSUME NEW f \in Files, UserWrites(f) PROVE Respected(p)
  <2>1. fs[Source(f)].kind = "file" /\ fs[Source(f)].file = f
    BY <1>2 DEF UserWrites, Kept, SourcesWhole, IsFile
  <2>2. At("unlink") /\ mv.from = Source(f) => fs[mv.to] = fs[Source(f)]
    BY DEF Kept, Progress
  <2>3. fs'[p] = IF p = Source(f) \/ (At("unlink") /\ mv.from = Source(f) /\ p = mv.to)
                 THEN Copy(f, latest[f] + 1) ELSE fs[p]
    BY <1>2 DEF UserWrites
  <2> QED BY <2>1, <2>2, <2>3 DEF Respected
<1>3. ASSUME NEW q \in Destinations \cup Partials, ForeignFile(q) PROVE Respected(p)
  BY <1>3 DEF ForeignFile, Respected, Kept, MoveTypeOK, Exists
<1>4. CASE OtherSnapshot \/ OtherSaves \/ Crash \/ Load
  BY <1>4 DEF OtherSnapshot, OtherSaves, Crash, Load, Respected
<1> QED BY <1>1, <1>2, <1>3, <1>4 DEF World

\* The destination is never overwritten: no step of a move, and no power failure
\* during one, replaces what some other program made or the file of another record.
THEOREM NothingReplaced == Spec => NeverOverwrites
<1>1. ASSUME Kept, [Next]_vars
      PROVE  [\A p \in Paths :
                /\ fs[p] = Foreign => fs'[p] = Foreign
                /\ fs[p].kind = "file" /\ fs'[p] # Absent => fs'[p].file = fs[p].file]_fs
  <2>1. CASE fs' = fs BY <2>1
  <2>2. CASE Transfer BY <1>1, <2>2, TransferRespects DEF Respected
  <2>3. CASE World BY <1>1, <2>3, WorldRespects DEF Respected
  <2>4. CASE Records
    BY <2>1, <2>4 DEF Records, MoveOversize, NextItem, CallReturns, SaveIntent, SaveIntentFails,
                      WithdrawIntent, MoveFailed, MoveSucceeded, SaveResult, files
  <2> QED BY <1>1, <2>1, <2>2, <2>3, <2>4 DEF Next, Rest, vars
<1> QED BY <1>1, AlwaysKept, PTL DEF Spec, NeverOverwrites
=============================================================================
