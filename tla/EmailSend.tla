------------------------------ MODULE EmailSend ------------------------------
(***************************************************************************)
(* The threads that send mails (saveAndSendEmailManyBuffers).              *)
(*                                                                         *)
(* CSMTPAlert starts a detached thread for each mail, with a copy of all   *)
(* buffers.  The thread saves the newest images of its buffers as files,   *)
(* packs them in an archive, sends it and deletes what it has saved.  The  *)
(* directory of the files is named after the newest image, so threads that *)
(* were started for the same image work in the same directory, on files    *)
(* with the same names: an alert and the forced mail of the same pass, or  *)
(* two cameras, whose notifiers have the same mTmpDir.                     *)
(*                                                                         *)
(* Disk and network work here, but for a mail the server may refuse.  No   *)
(* video is attached (mIsWriteVideoToEmail), and only the archive is sent. *)
(***************************************************************************)
EXTENDS Integers, Sequences, FiniteSets

CONSTANTS
  NumBuffers,
  MailThreads,   \* threads that can be started
  BufferLists,   \* lists of buffers that alerts are about (one buffer, or mBuffersForWrite)
  KindsOfPass,   \* the kinds of mails a pass may start together
  ImageCount,    \* images of a mail (mLastImagesCountToEmailInZip + 1)
  MaxImages      \* bound: images of a buffer

ASSUME BuffersAssumption ==
  /\ {NumBuffers, ImageCount} \subseteq Nat \ {0}
  /\ MaxImages \in Nat
  /\ IsFiniteSet(MailThreads)
  /\ KindsOfPass \subseteq SUBSET {"alert", "force", "reply"}
  /\ BufferLists \subseteq Seq(0..(NumBuffers - 1)) \ {<<>>}

VARIABLES
  newest,     \* newest[b]: the newest image of buffer b, 0 if it is empty
  dirs,       \* temporary directories
  files,      \* images in them
  archives,   \* threads whose archive is there
  job,        \* what each thread was started with
  pc,         \* where it is
  at, step,   \* the buffer, and the image or file, it is at
  tmpIdDir,   \* its directory
  savedNames,
  zipped,     \* names of the files in its archive
  outcome,    \* of its mail
  crashed     \* a null pointer was dereferenced

thread == <<job, pc, at, step, tmpIdDir, savedNames, zipped, outcome>>
disk == <<dirs, files, archives>>
mailVars == <<newest, disk, thread, crashed>>

Buffers == 0..(NumBuffers - 1)
NoDir == 0
NoJob == [kind |-> "none", bufferIds |-> <<>>, copy |-> [b \in Buffers |-> 0]]
Runs(m, where) == ~crashed /\ pc[m] = where
FirstImage(last) == IF last > ImageCount THEN last - ImageCount + 1 ELSE 1

Goto(m, where) == pc' = [pc EXCEPT ![m] = where]

-----------------------------------------------------------------------------
\* The camera of buffer b.
PushBack(b) ==
  /\ ~crashed
  /\ newest[b] < MaxImages
  /\ newest' = [newest EXCEPT ![b] = @ + 1]
  /\ UNCHANGED <<disk, thread, crashed>>

\* A pass starts a thread for each mail that is due, with the same copy; there is
\* one pass for a newest image.
Start ==
  \E kinds \in KindsOfPass, list \in BufferLists :
    \E of \in [kinds -> {m \in MailThreads : pc[m] = "unused"}] :
      LET kindOf(m) == CHOOSE k \in kinds : of[k] = m
          started == {of[k] : k \in kinds}
      IN  /\ ~crashed
          /\ newest[list[1]] > 0
          /\ \A m \in MailThreads :
               job[m].bufferIds = list => job[m].copy[list[1]] # newest[list[1]]
          /\ Cardinality(started) = Cardinality(kinds)
          /\ job' = [m \in MailThreads |->
                       IF m \in started
                         THEN [kind |-> kindOf(m), bufferIds |-> list, copy |-> newest]
                         ELSE job[m]]
          /\ pc' = [m \in MailThreads |-> IF m \in started THEN "buffer" ELSE pc[m]]
          /\ UNCHANGED <<newest, disk, at, step, tmpIdDir, savedNames, zipped, outcome, crashed>>

-----------------------------------------------------------------------------
(* addFilesAndSaveStatic. *)

\* The loop runs over the indices of bufferIds, and takes them for buffers.
NextBuffer(m) ==
  LET b == at[m]
      copy == job[m].copy
  IN  /\ Runs(m, "buffer")
      /\ IF b >= Len(job[m].bufferIds)
           THEN Goto(m, "lock") /\ UNCHANGED <<at, step, tmpIdDir, dirs>>
           ELSE IF b \notin Buffers \/ copy[b] = 0
             THEN at' = [at EXCEPT ![m] = b + 1] /\ UNCHANGED <<pc, step, tmpIdDir, dirs>>
             ELSE /\ tmpIdDir' = [tmpIdDir EXCEPT ![m] = copy[b]]
                  /\ dirs' = dirs \cup {copy[b]}
                  /\ step' = [step EXCEPT ![m] = FirstImage(copy[b])]
                  /\ Goto(m, "save")
                  /\ UNCHANGED at
      /\ UNCHANGED <<newest, files, archives, job, savedNames, zipped, outcome, crashed>>

\* saveTo: without the directory there is no file and no name.
SaveImage(m) ==
  LET file == [dir |-> tmpIdDir[m], name |-> <<at[m], step[m]>>]
      more == step[m] < job[m].copy[at[m]]
  IN  /\ Runs(m, "save")
      /\ IF tmpIdDir[m] \in dirs
           THEN /\ files' = files \cup {file}
                /\ savedNames' = [savedNames EXCEPT ![m] = Append(@, file)]
           ELSE UNCHANGED <<files, savedNames>>
      /\ step' = [step EXCEPT ![m] = @ + 1]
      /\ IF more THEN UNCHANGED <<at, pc>>
                 ELSE at' = [at EXCEPT ![m] = @ + 1] /\ Goto(m, "buffer")
      /\ UNCHANGED <<newest, dirs, archives, job, tmpIdDir, zipped, outcome, crashed>>

-----------------------------------------------------------------------------
(* callScriptStatic and sendEmailAndDeleteFiles. *)

\* The locker uses the last image before anything has checked that there is one.
LockLast(m) ==
  /\ Runs(m, "lock")
  /\ IF tmpIdDir[m] = NoDir
       THEN crashed' = TRUE /\ UNCHANGED pc
       ELSE /\ Goto(m, IF savedNames[m] = <<>> THEN "unsent" ELSE "open")
            /\ UNCHANGED crashed
  /\ UNCHANGED <<newest, disk, job, at, step, tmpIdDir, savedNames, zipped, outcome>>

OpenZip(m) ==
  /\ Runs(m, "open")
  /\ IF tmpIdDir[m] \in dirs
       THEN archives' = archives \cup {m} /\ Goto(m, "zip")
       ELSE UNCHANGED archives /\ Goto(m, "unsent")
  /\ step' = [step EXCEPT ![m] = 1]
  /\ UNCHANGED <<newest, dirs, files, job, at, tmpIdDir, savedNames, zipped, outcome, crashed>>

\* zipped[m] with the file that is next, if it can be read.
ZippedNext(m) ==
  LET file == savedNames[m][step[m]]
  IN  IF file \in files THEN zipped[m] \cup {file.name} ELSE zipped[m]

NamesOf(m) == {savedNames[m][k].name : k \in DOMAIN savedNames[m]}

\* Mutant of ZipFile: a file that cannot be read is left out.
ZipFileSkip(m) ==
  /\ Runs(m, "zip")
  /\ zipped' = [zipped EXCEPT ![m] = ZippedNext(m)]
  /\ IF step[m] < Len(savedNames[m])
       THEN step' = [step EXCEPT ![m] = @ + 1] /\ UNCHANGED pc
       ELSE Goto(m, "send") /\ UNCHANGED step
  /\ UNCHANGED <<newest, disk, job, at, tmpIdDir, savedNames, outcome, crashed>>

\* A file that cannot be read is left out, and makes createZipFile fail when it has
\* packed the others: the thread then returns, and the archive stays.
ZipFile(m) ==
  /\ Runs(m, "zip")
  /\ zipped' = [zipped EXCEPT ![m] = ZippedNext(m)]
  /\ IF step[m] < Len(savedNames[m])
       THEN step' = [step EXCEPT ![m] = @ + 1] /\ UNCHANGED pc
       ELSE /\ Goto(m, IF ZippedNext(m) = NamesOf(m) THEN "send" ELSE "unsent")
            /\ UNCHANGED step
  /\ UNCHANGED <<newest, disk, job, at, tmpIdDir, savedNames, outcome, crashed>>

\* Mutant of Send: a mail the server refuses is not cleaned up.
SendOrStop(m) ==
  /\ Runs(m, "send")
  /\ \E ok \in BOOLEAN :
       /\ outcome' = [outcome EXCEPT ![m] = IF ok THEN "sent" ELSE "refused"]
       /\ IF ok THEN archives' = archives \ {m} /\ Goto(m, "delete")
                ELSE UNCHANGED archives /\ Goto(m, "done")
  /\ step' = [step EXCEPT ![m] = 1]
  /\ UNCHANGED <<newest, dirs, files, job, at, tmpIdDir, savedNames, zipped, crashed>>

\* sendEmail, once; then the archive is removed, whatever became of the mail.
Send(m) ==
  /\ Runs(m, "send")
  /\ \E result \in {"sent", "refused"} : outcome' = [outcome EXCEPT ![m] = result]
  /\ archives' = archives \ {m}
  /\ step' = [step EXCEPT ![m] = 1]
  /\ Goto(m, "delete")
  /\ UNCHANGED <<newest, dirs, files, job, at, tmpIdDir, savedNames, zipped, crashed>>

DeleteFile(m) ==
  /\ Runs(m, "delete")
  /\ files' = files \ {savedNames[m][step[m]]}
  /\ IF step[m] < Len(savedNames[m])
       THEN step' = [step EXCEPT ![m] = @ + 1] /\ UNCHANGED pc
       ELSE Goto(m, "rmdir") /\ UNCHANGED step
  /\ UNCHANGED <<newest, dirs, archives, job, at, tmpIdDir, savedNames, zipped, outcome, crashed>>

Used(dir) == (\E f \in files : f.dir = dir) \/ (\E m \in archives : tmpIdDir[m] = dir)

\* rmdir removes an empty directory only.
RemoveDir(m) ==
  /\ Runs(m, "rmdir")
  /\ dirs' = IF Used(tmpIdDir[m]) THEN dirs ELSE dirs \ {tmpIdDir[m]}
  /\ Goto(m, "done")
  /\ UNCHANGED <<newest, files, archives, job, at, step, tmpIdDir, savedNames, zipped, outcome,
                 crashed>>

-----------------------------------------------------------------------------
MailInit ==
  /\ newest = [b \in Buffers |-> 0]
  /\ dirs = {} /\ files = {} /\ archives = {}
  /\ job = [m \in MailThreads |-> NoJob]
  /\ pc = [m \in MailThreads |-> "unused"]
  /\ at = [m \in MailThreads |-> 0] /\ step = [m \in MailThreads |-> 0]
  /\ tmpIdDir = [m \in MailThreads |-> NoDir]
  /\ savedNames = [m \in MailThreads |-> <<>>]
  /\ zipped = [m \in MailThreads |-> {}]
  /\ outcome = [m \in MailThreads |-> "none"]
  /\ crashed = FALSE

MailNext ==
  \/ \E b \in Buffers : PushBack(b)
  \/ Start
  \/ \E m \in MailThreads :
       \/ NextBuffer(m) \/ SaveImage(m) \/ LockLast(m)
       \/ OpenZip(m) \/ ZipFile(m) \/ Send(m) \/ DeleteFile(m) \/ RemoveDir(m)

MailSpec == MailInit /\ [][MailNext]_mailVars

-----------------------------------------------------------------------------
Steps == {"unused", "buffer", "save", "lock", "open", "zip", "send", "delete", "rmdir", "done",
          "unsent"}

MailTypeOK ==
  /\ newest \in [Buffers -> 0..MaxImages]
  /\ dirs \subseteq 1..MaxImages
  /\ \A f \in files : f.dir \in dirs
  /\ archives \subseteq MailThreads
  /\ pc \in [MailThreads -> Steps]
  /\ at \in [MailThreads -> Nat] /\ step \in [MailThreads -> Nat]
  /\ tmpIdDir \in [MailThreads -> 0..MaxImages]
  /\ outcome \in [MailThreads -> {"none", "sent", "refused"}]
  /\ crashed \in BOOLEAN

-----------------------------------------------------------------------------
(* Properties. *)

\* What a mail is about: the indices of its list, taken for buffers.
Shown(m) == {b \in 0..(Len(job[m].bufferIds) - 1) : b \in Buffers /\ job[m].copy[b] > 0}
DirsOf(m) == {job[m].copy[b] : b \in Shown(m)}
Sharing(m) == {k \in MailThreads : DirsOf(k) \cap DirsOf(m) # {}}
ImagesOf(m, buffers) ==
  UNION {{b} \X (FirstImage(job[m].copy[b])..job[m].copy[b]) : b \in buffers}

\* Two threads in a directory can delete each other's files and the directory, but a mail
\* that is sent shows all images of a buffer it was started for, or, if there are several,
\* none: a mail of one buffer is complete.  With more than two threads the directory may be
\* missing for a part of the images: what was saved is sent together or not at all.
MailsComplete ==
  /\ MailTypeOK
  /\ \A m \in MailThreads : outcome[m] = "sent" =>
       /\ zipped[m] = NamesOf(m)
       /\ Cardinality(Sharing(m)) <= 2 =>
            \E buffers \in (SUBSET Shown(m)) \ {{}} : zipped[m] = ImagesOf(m, buffers)

\* The threads of a directory leave nothing behind, in whatever order they finish,
\* unless one of them has returned without its mail.  Only a mail of several buffers, which
\* has a directory for each, removes no more than the last.
CleanedUp ==
  /\ \A f \in files : \E m \in MailThreads : f.dir \in DirsOf(m) /\ pc[m] # "done"
  /\ \A d \in dirs : \E m \in MailThreads :
       d \in DirsOf(m) /\ (pc[m] # "done" \/ Cardinality(DirsOf(m)) > 1)
=============================================================================
