---------------------------- MODULE FileTransfer ----------------------------
(***************************************************************************)
(* Downloads of folders from a host.  The host reads the files of its read *)
(* jobs one block at a time (fs::handle_read_jobs in the connection, or    *)
(* handle_read_jobs_tick in the connection manager when Delegated), the    *)
(* client writes them under a .download name beside a .digest and gives    *)
(* them their own name when the next file starts or the job is done.  A    *)
(* file is sent only after its digest was confirmed by the client: over,   *)
(* from an offset, or skipped.  A lost connection leaves the client's jobs *)
(* saved by their file number; they can be resumed in the next one.        *)
(*                                                                         *)
(* A file is its sequence of blocks, the same in every session, so that    *)
(* the digest kept beside a part is that of the file.  Files are numbered  *)
(* from 1.  What each side is yet to receive is kept by job: messages of   *)
(* two jobs touch nothing in common but the order of the host's list, and  *)
(* which of them comes first is left open.                                 *)
(***************************************************************************)
EXTENDS Naturals, Sequences, SequencesExt

CONSTANTS Jobs,       \* the downloads a user starts, each into its folder
          Files,      \* files of a job
          Blocks,     \* blocks of a file
          Present,    \* files the client's folders hold beforehand
          Left,       \* files of which an earlier, lost transfer left the first block
          Delegated,  \* the connection manager reads (Windows), or the connection
          MaxErrors,  \* bound: files the host fails to open or read
          MaxLosses,  \* bound: connections lost
          Cancels     \* whether the user cancels

TransferAssumption ==
    /\ Files \in Nat \ {0} /\ Blocks \in Nat \ {0} /\ Present \union Left \subseteq 1..Files
    /\ Delegated \in BOOLEAN /\ Cancels \in BOOLEAN
    /\ MaxErrors \in Nat /\ MaxLosses \in Nat

VARIABLES queue,     \* host: read_jobs, in order
          readers,   \* host: the state of each read job
          writers,   \* client: <<>> or the write job, by id
          disk,      \* client: what is under each file's three names
          toHost, toClient,  \* what the host and the client are yet to receive of a job
          asked,     \* client: confirmations shown to the user
          answered,  \* what the user said of a file that existed
          status,    \* what the user was last told of a job
          saved,     \* client: the file number kept of a job
          errors, losses

vars == <<queue, readers, writers, disk, toHost, toClient, asked, answered,
          status, saved, errors, losses>>
host == <<queue, readers>>
user == <<asked, answered, status, saved>>

Whole == [k \in 1..Blocks |-> k]
Before == <<0>>                          \* what a file held beforehand

NewReader(f) == [file |-> f, open |-> FALSE, pos |-> 0, confirmed |-> FALSE,
                 waiting |-> FALSE, skipped |-> FALSE]
NewWriter(f, resume) == [file |-> f, open |-> FALSE, resume |-> resume,
                         strategy |-> "ask"]

Init ==
    /\ queue = <<>>
    /\ readers = [j \in Jobs |-> NewReader(1)]
    /\ writers = [j \in Jobs |-> <<>>]
    /\ disk = [j \in Jobs |-> [f \in 1..Files |->
                [final |-> IF f \in Present THEN <<Before>> ELSE <<>>,
                 part |-> IF f \in Left THEN <<<<1>>>> ELSE <<>>,
                 digest |-> f \in Left]]]
    /\ toHost = [j \in Jobs |-> <<>>] /\ toClient = [j \in Jobs |-> <<>>]
    /\ asked = {}
    /\ answered = [j \in Jobs |-> [f \in 1..Files |-> "no"]]
    /\ status = [j \in Jobs |-> "none"]
    /\ saved = [j \in Jobs |-> 1]
    /\ errors = 0 /\ losses = 0

-----------------------------------------------------------------------------
(* The host                                                                *)

NextFile(r) == [r EXCEPT !.file = @ + 1, !.open = FALSE, !.pos = 0,
                         !.confirmed = FALSE, !.waiting = FALSE]

(* init_data_stream: what one job becomes and sends *)
Opened(r, fails) ==
    LET now == IF r.open THEN r
               ELSE [r EXCEPT !.open = TRUE, !.pos = 0,
                              !.confirmed = FALSE, !.waiting = FALSE]
    IN  IF r.file > Files THEN [job |-> [r EXCEPT !.open = FALSE], out |-> <<>>]
        ELSE IF ~r.open /\ fails
        THEN [job |-> NextFile(r), out |-> <<[k |-> "error"]>>]
        ELSE IF now.confirmed \/ now.waiting THEN [job |-> now, out |-> <<>>]
        ELSE [job |-> [now EXCEPT !.waiting = TRUE],
              out |-> <<[k |-> "digest", f |-> r.file]>>]

(* read, and job_completed and job_error after it *)
ReadOnce(r, fails) ==
    IF ~r.confirmed
    THEN IF r.waiting THEN [job |-> r, out |-> <<>>, ends |-> FALSE]
         ELSE [job |-> r, ends |-> TRUE,
               out |-> <<[k |-> IF r.skipped /\ Files = 1 THEN "error" ELSE "done"]>>]
    ELSE IF fails
    THEN [job |-> NextFile(r), out |-> <<[k |-> "error"]>>, ends |-> Delegated]
    ELSE LET more == r.pos < Blocks
         IN  [job |-> IF more THEN [r EXCEPT !.pos = @ + 1] ELSE NextFile(r),
              out |-> <<[k |-> "block", f |-> r.file,
                         data |-> IF more THEN <<r.pos + 1>> ELSE <<>>]>>,
              ends |-> FALSE]

(* Mutant: the reader does not seek. *)
ConfirmedFromStart(r, c) ==
    IF ~Delegated /\ c.f # r.file THEN r
    ELSE IF c.skip THEN [NextFile(r) EXCEPT !.skipped = TRUE]
    ELSE [r EXCEPT !.confirmed = TRUE, !.skipped = FALSE]

(* Mutant: a skipped file is still waited for. *)
ConfirmedStillWaiting(r, c) ==
    IF ~Delegated /\ c.f # r.file THEN r
    ELSE IF c.skip THEN [NextFile(r) EXCEPT !.skipped = TRUE, !.waiting = TRUE]
    ELSE [r EXCEPT !.confirmed = TRUE, !.skipped = FALSE,
                   !.pos = IF c.offset > 0 THEN c.offset ELSE @]

(* confirm, which set_file_skipped and set_stream_offset follow *)
Confirmed(r, c) ==
    IF ~Delegated /\ c.f # r.file THEN r
    ELSE IF c.skip THEN [NextFile(r) EXCEPT !.skipped = TRUE]
    ELSE [r EXCEPT !.confirmed = TRUE, !.skipped = FALSE,
                   !.pos = IF c.offset > 0 THEN c.offset ELSE @]

(* The jobs that a tick may find unable to open their file, or to read it *)
Failing(o, r) ==
    /\ errors + (IF o THEN 1 ELSE 0) + (IF r THEN 1 ELSE 0) <= MaxErrors
    /\ errors' = errors + (IF o THEN 1 ELSE 0) + (IF r THEN 1 ELSE 0)

(* Every job of the list is opened, a bad one in vain *)
OpenedJobs(bad, o) ==
    [j \in Jobs |-> IF j \in ToSet(queue) THEN Opened(readers[j], o /\ bad = j)
                    ELSE [job |-> readers[j], out |-> <<>>]]

(* handle_read_jobs: every job is opened, the first is read *)
ConnectionTick ==
    /\ ~Delegated
    /\ queue # <<>>
    /\ \E bad \in Jobs, o, r \in BOOLEAN :
        LET opened == OpenedJobs(bad, o)
            first  == Head(queue)
            read   == ReadOnce(opened[first].job, r)
        IN  /\ Failing(o, r)
            /\ o => bad \in ToSet(queue) /\ ~readers[bad].open /\ readers[bad].file <= Files
            /\ r => opened[first].job.confirmed
            /\ readers' = [j \in Jobs |-> IF j = first THEN read.job ELSE opened[j].job]
            /\ toClient' = [j \in Jobs |-> toClient[j] \o opened[j].out
                                          \o (IF j = first THEN read.out ELSE <<>>)]
            /\ queue' = IF read.ends THEN Tail(queue) ELSE queue
    /\ UNCHANGED <<writers, disk, toHost, user, losses>>

(* handle_read_jobs_tick: the first job is opened and read, an error ends it *)
ManagerTick ==
    /\ Delegated
    /\ queue # <<>>
    /\ LET first == Head(queue) IN \E o, r \in BOOLEAN :
        LET opened == Opened(readers[first], o)
            read   == IF o THEN [job |-> opened.job, out |-> <<>>, ends |-> TRUE]
                      ELSE ReadOnce(opened.job, r)
        IN  /\ Failing(o, r)
            /\ o => ~readers[first].open /\ readers[first].file <= Files
            /\ r => ~o /\ opened.job.confirmed
            /\ readers' = [readers EXCEPT ![first] = read.job]
            /\ toClient' = [toClient EXCEPT ![first] = @ \o opened.out \o read.out]
            /\ queue' = IF read.ends THEN Tail(queue) ELSE queue
    /\ UNCHANGED <<writers, disk, toHost, user, losses>>

(* A FileAction arrives: Send, SendConfirm or Cancel *)
HostReceives(j) ==
    /\ toHost[j] # <<>>
    /\ toHost' = [toHost EXCEPT ![j] = Tail(@)]
    /\ LET m == Head(toHost[j]) IN
        /\ queue' = CASE m.k = "send"    -> Append(queue, j)
                      [] m.k = "cancel"  -> RemoveFirst(queue, j)
                      [] m.k = "confirm" -> queue
        /\ readers' = CASE m.k = "send" -> [readers EXCEPT ![j] = NewReader(m.f)]
                        [] m.k = "confirm" /\ j \in ToSet(queue) ->
                               [readers EXCEPT ![j] = Confirmed(@, m)]
                        [] OTHER -> readers
    /\ UNCHANGED <<writers, disk, toClient, user, errors, losses>>

-----------------------------------------------------------------------------
(* The client                                                              *)

Writing(j) == writers[j] # <<>>
Has(d) == d.part # <<>> /\ d.digest

(* modify_time: the part takes the file's name *)
Named(d) == [final |-> IF d.part = <<>> THEN d.final ELSE d.part,
             part |-> <<>>, digest |-> FALSE]
NamedIn(folder, f) == [g \in 1..Files |-> IF g = f THEN Named(folder[g]) ELSE folder[g]]

(* confirm on the write job *)
WriterConfirmed(w, c) ==
    IF c.f # w.file THEN w
    ELSE IF c.skip THEN [w EXCEPT !.file = @ + 1, !.open = FALSE]
    ELSE [w EXCEPT !.open = (c.offset > 0) \/ @]

Confirm(f, skip, offset) ==
    [k |-> "confirm", f |-> f, skip |-> skip, offset |-> offset]

ToHost(j, m) == toHost' = [toHost EXCEPT ![j] = Append(@, m)]

Confirms(j, c) ==
    /\ writers' = [writers EXCEPT ![j][1] = WriterConfirmed(@, c)]
    /\ ToHost(j, c)

(* A digest: is_write_need_confirmation, then an answer or a question *)
OnDigest(j, m) ==
    IF ~Writing(j) THEN UNCHANGED <<writers, toHost, asked>>
    ELSE LET w == writers[j][1]
             d == disk[j][m.f]
             resumes == w.resume /\ Has(d) /\ Len(d.part[1]) > 0
         IN  IF resumes
             THEN Confirms(j, Confirm(m.f, FALSE, Len(d.part[1]))) /\ UNCHANGED asked
             ELSE IF d.final = <<>>
             THEN Confirms(j, Confirm(m.f, FALSE, 0)) /\ UNCHANGED asked
             ELSE IF w.strategy # "ask"
             THEN Confirms(j, Confirm(m.f, w.strategy = "skip", 0)) /\ UNCHANGED asked
             ELSE asked' = asked \union {<<j, m.f>>} /\ UNCHANGED <<writers, toHost>>

(* TransferJob::write *)
Written(folder, w, m) ==
    IF m.f # w.file \/ ~w.open
    THEN [NamedIn(folder, w.file) EXCEPT ![m.f].part = <<m.data>>, ![m.f].digest = TRUE]
    ELSE [folder EXCEPT ![m.f].part[1] = @ \o m.data]

OnBlock(j, m) ==
    IF ~Writing(j) THEN UNCHANGED <<writers, disk>>
    ELSE LET w == writers[j][1]
         IN  /\ disk' = [disk EXCEPT ![j] = Written(@, w, m)]
             /\ writers' = [writers EXCEPT ![j][1] = [@ EXCEPT !.file = m.f, !.open = TRUE]]

(* jobDone and jobError: the last one stands, unless the user cancelled *)
Told(j, what) == [status EXCEPT ![j] = IF @ = "cancelled" THEN @ ELSE what]

OnDone(j) ==
    /\ disk' = IF Writing(j) THEN [disk EXCEPT ![j] = NamedIn(@, writers[j][1].file)]
               ELSE disk
    /\ writers' = [writers EXCEPT ![j] = <<>>]
    /\ status' = Told(j, "done")

OnError(j) ==
    /\ writers' = [writers EXCEPT ![j] = <<>>]
    /\ status' = Told(j, "error")

(* A FileResponse arrives *)
ClientReceives(j) ==
    /\ toClient[j] # <<>>
    /\ toClient' = [toClient EXCEPT ![j] = Tail(@)]
    /\ LET m == Head(toClient[j]) IN
        CASE m.k = "digest" -> OnDigest(j, m) /\ UNCHANGED <<disk, status>>
          [] m.k = "block"  -> OnBlock(j, m) /\ UNCHANGED <<toHost, asked, status>>
          [] m.k = "done"   -> OnDone(j) /\ UNCHANGED <<toHost, asked>>
          [] m.k = "error"  -> OnError(j) /\ UNCHANGED <<toHost, asked, disk>>
    /\ UNCHANGED <<host, answered, saved, errors, losses>>

(* SendFiles *)
Start(j) ==
    /\ status[j] = "none"
    /\ status' = [status EXCEPT ![j] = "running"]
    /\ writers' = [writers EXCEPT ![j] = <<NewWriter(1, FALSE)>>]
    /\ ToHost(j, [k |-> "send", f |-> 1])
    /\ UNCHANGED <<host, disk, toClient, asked, answered, saved, errors, losses>>

(* AddJob with what was saved, then ResumeJob *)
Resume(j) ==
    /\ status[j] = "saved"
    /\ status' = [status EXCEPT ![j] = "running"]
    /\ writers' = [writers EXCEPT ![j] = <<NewWriter(saved[j], TRUE)>>]
    /\ ToHost(j, [k |-> "send", f |-> saved[j]])
    /\ UNCHANGED <<host, disk, toClient, asked, answered, saved, errors, losses>>

(* SetConfirmOverrideFile: the user answers, for this file or for all *)
Answer(j, f) ==
    /\ <<j, f>> \in asked
    /\ asked' = asked \ {<<j, f>>}
    /\ \E over, remember \in BOOLEAN :
        /\ answered' = [answered EXCEPT ![j] = [g \in 1..Files |->
                          IF g = f \/ (remember /\ g > f)
                          THEN IF over THEN "over" ELSE "skip" ELSE @[g]]]
        /\ IF ~Writing(j) THEN UNCHANGED <<writers, toHost>>
           ELSE LET c == Confirm(f, ~over, 0)
                    w == [writers[j][1] EXCEPT
                            !.strategy = IF ~remember THEN @
                                         ELSE IF over THEN "over" ELSE "skip"]
                IN  /\ writers' = [writers EXCEPT ![j] = <<WriterConfirmed(w, c)>>]
                    /\ ToHost(j, c)
    /\ UNCHANGED <<host, disk, toClient, status, saved, errors, losses>>

(* cancel_transfer_job, with remove_download_file *)
Cancel(j) ==
    /\ Cancels
    /\ status[j] = "running"
    /\ status' = [status EXCEPT ![j] = "cancelled"]
    /\ writers' = [writers EXCEPT ![j] = <<>>]
    /\ disk' = [disk EXCEPT ![j] = [g \in 1..Files |->
                  IF g = writers[j][1].file
                  THEN [@[g] EXCEPT !.part = <<>>, !.digest = FALSE] ELSE @[g]]]
    /\ ToHost(j, [k |-> "cancel"])
    /\ UNCHANGED <<host, toClient, asked, answered, saved, errors, losses>>

(* The connection ends; sync_jobs_status_to_local keeps the jobs under way *)
Lose ==
    /\ losses < MaxLosses
    /\ losses' = losses + 1
    /\ queue' = <<>> /\ asked' = {}
    /\ toHost' = [j \in Jobs |-> <<>>] /\ toClient' = [j \in Jobs |-> <<>>]
    /\ saved' = [j \in Jobs |-> IF Writing(j) THEN writers[j][1].file ELSE saved[j]]
    /\ status' = [j \in Jobs |-> IF Writing(j) THEN "saved" ELSE status[j]]
    /\ writers' = [j \in Jobs |-> <<>>]
    /\ UNCHANGED <<readers, disk, answered, errors>>

Next ==
    \/ ConnectionTick \/ ManagerTick \/ Lose
    \/ \E j \in Jobs : \/ HostReceives(j) \/ ClientReceives(j)
                       \/ Start(j) \/ Resume(j) \/ Cancel(j)
                       \/ \E f \in 1..Files : Answer(j, f)

Spec == Init /\ [][Next]_vars

(* The timers and the two tasks run, and the user answers what is asked *)
FairSpec ==
    /\ Spec
    /\ WF_vars(ConnectionTick) /\ WF_vars(ManagerTick)
    /\ \A j \in Jobs : WF_vars(HostReceives(j)) /\ WF_vars(ClientReceives(j))
    /\ \A j \in Jobs, f \in 1..Files : WF_vars(Answer(j, f))
-----------------------------------------------------------------------------
Contents == {<<Before>>} \union {<<[k \in 1..(b - a) |-> a + k]>> : a, b \in 0..Blocks}

(* The shape of the state: readers, writers, files and what was said of them. *)
TypeOK ==
    /\ ToSet(queue) \subseteq Jobs
    /\ readers \in [Jobs -> [file : 1..(Files + 1), open : BOOLEAN, pos : 0..Blocks,
                            confirmed : BOOLEAN, waiting : BOOLEAN, skipped : BOOLEAN]]
    /\ \A j \in Jobs : Writing(j) =>
          writers[j][1] \in [file : 1..(Files + 1), open : BOOLEAN, resume : BOOLEAN,
                             strategy : {"ask", "over", "skip"}]
    /\ \A j \in Jobs, f \in 1..Files :
          /\ disk[j][f].final \in {<<>>} \union Contents
          /\ disk[j][f].part \in {<<>>} \union Contents
    /\ asked \subseteq Jobs \X (1..Files)
    /\ status \in [Jobs -> {"none", "running", "done", "error", "cancelled", "saved"}]

(* A file is found under its own name only whole: what it held before the  *)
(* transfer, or every block of the host's file, in order, whatever was     *)
(* cancelled, lost and resumed (modify_time, set_stream_offset).           *)
FinalIsWhole ==
    \A j \in Jobs, f \in 1..Files : disk[j][f].final \in {<<>>, <<Before>>, <<Whole>>}

(* A job the user was told is done has every file in its place, but those  *)
(* the user said to skip (FileTransferDone, job_done).                     *)
DoneIsComplete ==
    \A j \in Jobs : status[j] = "done" =>
        \A f \in 1..Files : disk[j][f].final = <<Whole>> \/ answered[j][f] = "skip"

(* A file the folder held is replaced only when the user said so, for it   *)
(* or for the files after an earlier one (override_file_confirm).          *)
Consented ==
    \A j \in Jobs, f \in 1..Files :
        disk[j][f].final = <<Before>> /\ disk'[j][f].final # <<Before>>
            => answered[j][f] = "over"
OnlyByConsent == [][Consented]_vars

(* Every download ends in some way, if the user answers what is asked: no  *)
(* job waits at the head of the host's list for a client that dropped it.  *)
Ended(j) == status[j] # "running"
EveryJobEnds == \A j \in Jobs : []<>Ended(j)
=============================================================================
