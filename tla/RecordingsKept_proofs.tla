------------------------ MODULE RecordingsKept_proofs ------------------------
(***************************************************************************)
(* What becomes of the bytes of recordings, for any uploads, users, jobs   *)
(* and requests: a row has its bytes, an analysis that may run has its     *)
(* recording, and nothing is left behind.  The three are proved together,  *)
(* with what requests, the sweep and workers have read (Keeps).  Each part *)
(* of Keeps has a lemma of its own, with a step for each kind of action.   *)
(***************************************************************************)
EXTENDS Recordings_proofs

---------------------------------------------------------------------------
(* What the parts of actions do.                                           *)

\* A request that moves on keeps what it carries, and the others stand still.
LEMMA Moved ==
    ASSUME RequestType, NEW r \in Requests, NEW at, Goes(r, at),
           request[r].op \in {"upload", "complete", "delete"}
    PROVE  /\ \A q \in Requests : q # r => request'[q] = request[q]
           /\ request'[r].op = request[r].op /\ request'[r].at = at /\ request'[r].id = request[r].id
           /\ request[r].op = "delete" => request'[r].kept = request[r].kept
<1>1. CASE request[r].op = "upload"
      BY <1>1, Shapes DEF Goes, Set, RequestType, Uploads
<1>2. CASE request[r].op = "complete"
      BY <1>2, Shapes DEF Goes, Set, RequestType, Completes
<1>3. CASE request[r].op = "delete"
      BY <1>3, Shapes DEF Goes, Set, RequestType, Deletes
<1> QED
    BY <1>1, <1>2, <1>3

\* A request that ends leaves the others as they were.
LEMMA Left ==
    ASSUME RequestType, NEW r \in Requests, Ends(r)
    PROVE  /\ \A q \in Requests : q # r => request'[q] = request[q]
           /\ request'[r].op = "none"
BY DEF Ends, Set, RequestType, Idle

\* A request that is set to a record leaves the others as they were.
LEMMA Begun ==
    ASSUME RequestType, NEW r \in Requests, NEW new, Set(r, new)
    PROVE  \A q \in Requests : request'[q] = IF q = r THEN new ELSE request[q]
BY DEF Set, RequestType

\* What one cancel of an account deletion does: one job of its list goes, and ends if it waits.
LEMMA Cancels ==
    ASSUME RequestType, NEW r \in Requests, CancelPaused(r)
    PROVE  \E j \in Jobs :
             /\ \A q \in Requests : q # r => request'[q] = request[q]
             /\ request'[r].op = "account" /\ request'[r].at = "cancel" /\ request'[r].user = request[r].user
             /\ request[r].op = "account" /\ request[r].at = "cancel"
             /\ request'[r].listed = request[r].listed /\ request'[r].todo = request[r].todo
             /\ request'[r].paused = request[r].paused \ {j}
             /\ jobs' = IF jobs[j].status \in {"queued", "paused"} THEN [jobs EXCEPT ![j].status = "ended"] ELSE jobs
             /\ Marked("busy", jobs[j].status = "running")
             /\ UNCHANGED <<objects, accounts, rows, place, used, signed, aged, sweep>>
<1>1. request[r] \in Closings /\ request[r].op = "account" /\ request[r].at = "cancel"
      BY Shapes DEF CancelPaused, At
<1>2. PICK j \in Jobs :
         /\ Set(r, [request[r] EXCEPT !.paused = @ \ {j}])
         /\ jobs' = IF jobs[j].status \in {"queued", "paused"} THEN [jobs EXCEPT ![j].status = "ended"] ELSE jobs
         /\ Marked("busy", jobs[j].status = "running")
      BY <1>1 DEF CancelPaused, Closings
<1>3. UNCHANGED <<objects, accounts, rows, place, used, signed, aged, sweep>>
      BY DEF CancelPaused
<1>4. \A q \in Requests : request'[q] = IF q = r THEN [request[r] EXCEPT !.paused = @ \ {j}] ELSE request[q]
      BY <1>2, Begun
<1>5. /\ request'[r].op = "account" /\ request'[r].at = "cancel" /\ request'[r].user = request[r].user
      /\ request'[r].listed = request[r].listed /\ request'[r].todo = request[r].todo
      /\ request'[r].paused = request[r].paused \ {j}
      BY <1>1, <1>4 DEF Closings
<1> QED
    BY <1>1, <1>2, <1>3, <1>4, <1>5

\* What one clearing of an account deletion does: one recording of its list loses the bytes it may lose.
LEMMA Clears ==
    ASSUME RequestType, NEW r \in Requests, AccountBytes(r)
    PROVE  \E s \in request[r].todo :
             /\ \A q \in Requests : q # r => request'[q] = request[q]
             /\ request'[r].op = "account" /\ request'[r].at = "bytes" /\ request'[r].user = request[r].user
             /\ request[r].op = "account" /\ request[r].at = "bytes"
             /\ request'[r].listed = request[r].listed /\ request'[r].todo = request[r].todo \ {s}
             /\ request'[r].paused = request[r].paused
             /\ place' = [place EXCEPT ![s.id] = @ \ Bytes(s)]
             /\ UNCHANGED <<objects, accounts, rows, used, signed, aged, jobs, sweep, scars>>
<1>1. request[r] \in Closings /\ request[r].op = "account" /\ request[r].at = "bytes"
      BY Shapes DEF AccountBytes, At
<1>2. PICK s \in request[r].todo :
         Set(r, [request[r] EXCEPT !.todo = @ \ {s}]) /\ place' = [place EXCEPT ![s.id] = @ \ Bytes(s)]
      BY DEF AccountBytes
<1>3. UNCHANGED <<objects, accounts, rows, used, signed, aged, jobs, sweep, scars>>
      BY DEF AccountBytes
<1>4. \A q \in Requests : request'[q] = IF q = r THEN [request[r] EXCEPT !.todo = @ \ {s}] ELSE request[q]
      BY <1>2, Begun
<1>5. /\ request'[r].op = "account" /\ request'[r].at = "bytes" /\ request'[r].user = request[r].user
      /\ request'[r].listed = request[r].listed /\ request'[r].todo = request[r].todo \ {s}
      /\ request'[r].paused = request[r].paused
      BY <1>1, <1>4 DEF Closings
<1> QED
    BY <1>1, <1>2, <1>3, <1>4, <1>5

\* What the listing of an account deletion does: every row of the user is on the list, as the row keeps it.
LEMMA Lists ==
    ASSUME RequestType, NEW r \in Requests, ListRecordings(r)
    PROVE  /\ \A q \in Requests : q # r => request'[q] = request[q]
           /\ request'[r].op = "account" /\ request'[r].at = "bytes" /\ request'[r].user = request[r].user
           /\ request[r].op = "account" /\ request[r].at = "cancel" /\ request[r].paused = {}
           /\ request'[r].paused = {} /\ request'[r].todo = request'[r].listed
           /\ \A s \in request'[r].listed :
                s.id \in Ids /\ Owner[s.id] = request[r].user /\ rows[s.id] # None /\ s.kept = rows[s.id].kept
           /\ \A i \in Ids : Owner[i] = request[r].user /\ rows[i] # None => \E s \in request'[r].listed : s.id = i
           /\ UNCHANGED <<objects, accounts, rows, place, used, signed, aged, jobs, sweep, scars>>
<1> DEFINE mine == {Snapshot(i) : i \in Mine(request[r].user)}
<1>1. ASSUME NEW s \in mine
      PROVE  s.id \in Ids /\ Owner[s.id] = request[r].user /\ rows[s.id] # None /\ s.kept = rows[s.id].kept
  <2>1. PICK i \in Mine(request[r].user) : s = Snapshot(i)
        OBVIOUS
  <2> QED
      BY <2>1 DEF Mine, Snapshot
<1>2. ASSUME NEW i \in Ids, Owner[i] = request[r].user, rows[i] # None
      PROVE  \E s \in mine : s.id = i
  <2>1. Snapshot(i) \in mine /\ Snapshot(i).id = i
        BY <1>2 DEF Mine, Snapshot
  <2> QED
      BY <2>1
<1> HIDE DEF mine
<1>3. Set(r, [request[r] EXCEPT !.at = "bytes", !.listed = mine, !.todo = mine])
      BY DEF ListRecordings, mine
<1>4. request[r] \in Closings /\ request[r].op = "account" /\ request[r].at = "cancel" /\ request[r].paused = {}
      BY Shapes DEF ListRecordings, At
<1>5. /\ \A q \in Requests : q # r => request'[q] = request[q]
      /\ request'[r] = [request[r] EXCEPT !.at = "bytes", !.listed = mine, !.todo = mine]
      BY <1>3 DEF Set, RequestType
<1>6. /\ request'[r].op = "account" /\ request'[r].at = "bytes" /\ request'[r].user = request[r].user
      /\ request'[r].paused = request[r].paused /\ request'[r].todo = mine /\ request'[r].listed = mine
      BY <1>4, <1>5 DEF Closings
<1>7. UNCHANGED <<objects, accounts, rows, place, used, signed, aged, jobs, sweep, scars>>
      BY DEF ListRecordings
<1> QED
    BY <1>1, <1>2, <1>4, <1>5, <1>6, <1>7

\* The service keeps to its configuration, and the history only grows.
LEMMA Lasting ==
    ASSUME [Next]_vars
    PROVE  objects' = objects /\ scars \subseteq scars'
<1>1. ASSUME NEW r \in Requests, Serve(r) \/ GoesAway(r)
      PROVE  objects' = objects /\ scars \subseteq scars'
  <2>1. CASE \/ UploadRefused(r) \/ UploadStored(r) \/ DropLocal(r) \/ UploadCreate(r)
             \/ CompleteStat(r) \/ CompleteQuota(r) \/ CompleteProbe(r) \/ CompleteDrop(r) \/ CompleteCreate(r)
             \/ DeleteLook(r) \/ DeleteRow(r) \/ DeleteBytes(r) \/ SubmitRefused(r) \/ GoesAway(r)
        BY <2>1, MarksGrow
           DEF UploadRefused, UploadStored, DropLocal, UploadCreate, CompleteStat, CompleteQuota,
               CompleteProbe, CompleteDrop, CompleteCreate, DeleteLook, DeleteRow, DeleteBytes,
               SubmitRefused, GoesAway
  <2>2. CASE \/ CancelPaused(r) \/ ListRecordings(r) \/ AccountBytes(r) \/ DeleteUser(r)
             \/ (\E j \in Jobs : CreateJob(r, j)) \/ \E u \in Users : DeleteAccount(r, u)
        BY <2>2, MarksGrow DEF CancelPaused, ListRecordings, AccountBytes, DeleteUser, CreateJob, DeleteAccount
  <2>3. CASE \E i \in Ids : Upload(r, i) \/ CompleteUpload(r, i) \/ Delete(r, i) \/ Submit(r, i)
        BY <2>3, MarksGrow DEF Upload, CompleteUpload, Delete, Submit
  <2> QED
      BY <1>1, <2>1, <2>2, <2>3 DEF Serve
<1>2. ASSUME NEW j \in Jobs, Job(j)
      PROVE  objects' = objects /\ scars \subseteq scars'
      BY <1>2, MarksGrow DEF Job, Waits, Take, KeepCopy, Succeed, Stop
<1>3. ASSUME NEW i \in Ids, BeginUpload(i) \/ Put(i) \/ ObjectAges(i) \/ RowAges(i)
      PROVE  objects' = objects /\ scars \subseteq scars'
      BY <1>3 DEF BeginUpload, Put, ObjectAges, RowAges
<1>4. CASE Sweep
      BY <1>4, MarksGrow
         DEF Sweep, SweepList, SweepPick, SweepBytes, SweepRow, ListObjects, ListNames, SweepOrphan,
             SweepEnds, Sweeps
<1>5. CASE Crash \/ UNCHANGED vars
      BY <1>5, MarksGrow DEF Crash, vars
<1> QED
    BY <1>1, <1>2, <1>3, <1>4, <1>5 DEF Next

\* The bytes of a recording only go, but for an object that is put and a copy
\* that is kept, or are those of a new upload.
LEMMA PlaceSteps ==
    ASSUME TypeOK, [Next]_vars, NEW k \in Ids
    PROVE  \/ place'[k] \subseteq place[k] \cup {"originals"}
           \/ \E r \in Requests : Upload(r, k)
           \/ \E j \in Jobs : KeepCopy(j) /\ jobs[j].of = k /\ place'[k] = place[k] \cup {"kept"}
<1> DEFINE Loses == place'[k] \subseteq place[k] \cup {"originals"}
<1>1. ASSUME NEW r \in Requests, NEW i \in Ids, Upload(r, i)
      PROVE  Loses \/ Upload(r, k)
      BY <1>1, TypesApart DEF Upload, PlaceType
<1>2. ASSUME NEW j \in Jobs, KeepCopy(j)
      PROVE  Loses \/ (jobs[j].of = k /\ place'[k] = place[k] \cup {"kept"})
      BY <1>2, TypesApart DEF KeepCopy, PlaceType
<1>3. ASSUME NEW r \in Requests,
             \/ UploadRefused(r) \/ UploadStored(r) \/ DropLocal(r) \/ UploadCreate(r)
             \/ CompleteDrop(r) \/ DeleteBytes(r) \/ AccountBytes(r)
      PROVE  Loses
      BY <1>3, TypesApart, Clears
         DEF UploadRefused, UploadStored, DropLocal, UploadCreate, CompleteDrop, DeleteBytes, PlaceType
<1>4. ASSUME NEW r \in Requests,
             \/ CompleteStat(r) \/ CompleteQuota(r) \/ CompleteProbe(r) \/ CompleteCreate(r)
             \/ DeleteLook(r) \/ DeleteRow(r) \/ CancelPaused(r) \/ ListRecordings(r) \/ DeleteUser(r)
             \/ SubmitRefused(r) \/ GoesAway(r)
             \/ (\E j \in Jobs : CreateJob(r, j)) \/ (\E u \in Users : DeleteAccount(r, u))
             \/ (\E i \in Ids : CompleteUpload(r, i) \/ Delete(r, i) \/ Submit(r, i))
      PROVE  Loses
  <2>1. place' = place
        BY <1>4
           DEF CompleteStat, CompleteQuota, CompleteProbe, CompleteCreate, DeleteLook, DeleteRow,
               CancelPaused, ListRecordings, DeleteUser, SubmitRefused, GoesAway, CreateJob, DeleteAccount,
               CompleteUpload, Delete, Submit
  <2> QED
      BY <2>1
<1>5. ASSUME NEW i \in Ids, BeginUpload(i) \/ Put(i) \/ ObjectAges(i) \/ RowAges(i)
      PROVE  Loses
      BY <1>5, TypesApart DEF BeginUpload, Put, ObjectAges, RowAges, PlaceType
<1>6. ASSUME NEW j \in Jobs, Job(j), ~KeepCopy(j)
      PROVE  Loses
  <2>1. place' = place
        BY <1>6 DEF Job, Waits, Take, Succeed, Stop
  <2> QED
      BY <2>1
<1>7. CASE Sweep
      BY <1>7, TypesApart
         DEF Sweep, SweepList, SweepPick, SweepBytes, SweepRow, ListObjects, ListNames, SweepOrphan,
             SweepEnds, PlaceType
<1>8. CASE Crash \/ UNCHANGED vars
      BY <1>8 DEF Crash, vars
<1> QED
    BY <1>1, <1>2, <1>3, <1>4, <1>5, <1>6, <1>7, <1>8 DEF Next, Serve

\* What the deletion of an account has listed and has still to do changes only
\* as it lists, and with each recording it clears.
LEMMA ClosingSteps ==
    ASSUME TypeOK, [Next]_vars, NEW q \in Requests, At(q, "account", "bytes")'
    PROVE  \/ At(q, "account", "bytes") /\ request'[q] = request[q]
           \/ request'[q].todo = request'[q].listed
           \/ AccountBytes(q)
<1> DEFINE Same == request'[q] = request[q]
<1>1. ASSUME NEW r \in Requests,
             \/ UploadRefused(r) \/ UploadStored(r) \/ DropLocal(r) \/ UploadCreate(r)
             \/ CompleteStat(r) \/ CompleteQuota(r) \/ CompleteProbe(r) \/ CompleteDrop(r) \/ CompleteCreate(r)
             \/ DeleteLook(r) \/ DeleteRow(r) \/ DeleteBytes(r) \/ DeleteUser(r)
             \/ SubmitRefused(r) \/ GoesAway(r) \/ (\E j \in Jobs : CreateJob(r, j))
      PROVE  Same
  <2>1. Ends(r) \/ (request[r].op \in {"upload", "complete", "delete"} /\ \E at : Goes(r, at))
        BY <1>1
           DEF UploadRefused, UploadStored, DropLocal, UploadCreate, CompleteStat, CompleteQuota,
               CompleteProbe, CompleteDrop, CompleteCreate, DeleteLook, DeleteRow, DeleteBytes, DeleteUser,
               SubmitRefused, GoesAway, CreateJob, At
  <2> QED
      BY <2>1, TypesApart, Moved, Left DEF At
<1>2. ASSUME NEW r \in Requests,
             \/ \E u \in Users : DeleteAccount(r, u)
             \/ \E i \in Ids : Upload(r, i) \/ CompleteUpload(r, i) \/ Delete(r, i) \/ Submit(r, i)
      PROVE  Same
  <2>1. CASE \E u \in Users : DeleteAccount(r, u)
    <3>1. PICK new : Set(r, new) /\ new.at = "cancel"
          BY <2>1 DEF DeleteAccount
    <3> QED
        BY <3>1, TypesApart, Begun DEF At
  <2>2. CASE \E i \in Ids : Upload(r, i) \/ CompleteUpload(r, i) \/ Delete(r, i) \/ Submit(r, i)
    <3>1. PICK i \in Ids : Upload(r, i) \/ CompleteUpload(r, i) \/ Delete(r, i) \/ Submit(r, i)
          BY <2>2
    <3>2. \/ Set(r, [op |-> "upload", at |-> "copy", id |-> i])
          \/ Set(r, [op |-> "complete", at |-> "stat", id |-> i])
          \/ Set(r, [op |-> "delete", at |-> "look", id |-> i, kept |-> rows[i].kept])
          \/ Set(r, [op |-> "submit", at |-> "create", id |-> i])
          BY <3>1 DEF Upload, CompleteUpload, Delete, Submit
    <3> QED
        BY <3>2, TypesApart, Begun DEF At
  <2> QED
      BY <1>2, <2>1, <2>2
<1>3. ASSUME NEW r \in Requests, CancelPaused(r) \/ ListRecordings(r) \/ AccountBytes(r)
      PROVE  Same \/ request'[q].todo = request'[q].listed \/ AccountBytes(q)
      BY <1>3, TypesApart, Cancels, Lists, Clears DEF At
<1>4. CASE Sweep \/ UNCHANGED vars \/ (\E j \in Jobs : Job(j))
           \/ \E i \in Ids : BeginUpload(i) \/ Put(i) \/ ObjectAges(i) \/ RowAges(i)
  <2>1. request'[q] = request[q]
        BY <1>4
           DEF Sweep, SweepList, SweepPick, SweepBytes, SweepRow, ListObjects, ListNames, SweepOrphan,
               SweepEnds, Sweeps, vars, Job, Waits, Take, KeepCopy, Succeed, Stop, BeginUpload, Put,
               ObjectAges, RowAges
  <2> QED
      BY <2>1 DEF At
<1>5. ~Crash
      BY DEF Crash, At, Idle
<1> QED
    BY <1>1, <1>2, <1>3, <1>4, <1>5 DEF Next, Serve, At

\* The sweep comes to drop a row only by clearing its bytes.
LEMMA SweepSteps ==
    ASSUME TypeOK, [Next]_vars, sweep'.at = "row"
    PROVE  (sweep.at = "row" /\ sweep'.now = sweep.now) \/ SweepBytes
<1>1. sweep' = sweep \/ Sweep \/ Crash
  <2>1. ASSUME NEW r \in Requests, Serve(r) \/ GoesAway(r)
        PROVE  sweep' = sweep
        BY <2>1
           DEF Serve, UploadRefused, UploadStored, DropLocal, UploadCreate, CompleteStat, CompleteQuota,
               CompleteProbe, CompleteDrop, CompleteCreate, DeleteLook, DeleteRow, DeleteBytes, DeleteUser,
               SubmitRefused, GoesAway, CreateJob, DeleteAccount, Upload, CompleteUpload, Delete, Submit,
               CancelPaused, ListRecordings, AccountBytes
  <2>2. ASSUME NEW j \in Jobs, Job(j)
        PROVE  sweep' = sweep
        BY <2>2 DEF Job, Waits, Take, KeepCopy, Succeed, Stop
  <2>3. ASSUME NEW i \in Ids, BeginUpload(i) \/ Put(i) \/ ObjectAges(i) \/ RowAges(i)
        PROVE  sweep' = sweep
        BY <2>3 DEF BeginUpload, Put, ObjectAges, RowAges
  <2> QED
      BY <2>1, <2>2, <2>3 DEF Next, vars
<1>2. ~Crash
      BY DEF Crash
<1> QED
    BY <1>1, <1>2, TypesApart
       DEF Sweep, SweepList, SweepPick, SweepRow, ListObjects, ListNames, SweepOrphan, SweepEnds, Sweeps,
           SweepType, Expiring, Orphaning

\* An upload that has its file goes on with it, or drops it.
LEMMA UploadSteps ==
    ASSUME TypeOK, UploadsOwn, [Next]_vars, Told', NEW q \in Requests, request[q].op = "upload",
           request[q].at # "create"
    PROVE  \/ request'[q].op = "upload" /\ request'[q].at # "create" /\ request'[q].id = request[q].id
           \/ UploadRefused(q) \/ DropLocal(q) \/ UploadCreate(q)
<1> DEFINE On == request'[q].op = "upload" /\ request'[q].at # "create" /\ request'[q].id = request[q].id
<1>1. ASSUME NEW r \in Requests, UploadRefused(r) \/ DropLocal(r) \/ UploadCreate(r)
      PROVE  On \/ q = r
  <2>1. Ends(r) \/ (request[r].op = "upload" /\ Goes(r, "create"))
        BY <1>1 DEF UploadRefused, DropLocal, UploadCreate, At
  <2> QED
      BY <2>1, TypesApart, Moved, Left
<1>2. ASSUME NEW r \in Requests,
             \/ UploadStored(r)
             \/ CompleteStat(r) \/ CompleteQuota(r) \/ CompleteProbe(r) \/ CompleteDrop(r) \/ CompleteCreate(r)
             \/ DeleteLook(r) \/ DeleteRow(r) \/ DeleteBytes(r) \/ DeleteUser(r)
             \/ SubmitRefused(r) \/ GoesAway(r) \/ (\E j \in Jobs : CreateJob(r, j))
      PROVE  On
  <2>1. \/ request[r].op = "upload" /\ request[r].at # "create" /\ Goes(r, "local")
        \/ (request[r].op # "upload" \/ request[r].at = "create") /\ Ends(r)
        \/ request[r].op \in {"complete", "delete"} /\ \E at : Goes(r, at)
        BY <1>2
           DEF UploadStored, CompleteStat, CompleteQuota, CompleteProbe, CompleteDrop, CompleteCreate,
               DeleteLook, DeleteRow, DeleteBytes, DeleteUser, SubmitRefused, GoesAway, CreateJob, At
  <2> QED
      BY <2>1, TypesApart, Moved, Left
<1>3. ASSUME NEW r \in Requests,
             \/ \E u \in Users : DeleteAccount(r, u)
             \/ \E i \in Ids : Upload(r, i) \/ CompleteUpload(r, i) \/ Delete(r, i) \/ Submit(r, i)
             \/ CancelPaused(r) \/ ListRecordings(r) \/ AccountBytes(r)
      PROVE  On
  <2>1. request[r].op # "upload" /\ \A p \in Requests : p # r => request'[p] = request[p]
    <3>1. CASE CancelPaused(r) \/ ListRecordings(r) \/ AccountBytes(r)
          BY <3>1, TypesApart, Cancels, Lists, Clears
    <3>2. CASE ~(CancelPaused(r) \/ ListRecordings(r) \/ AccountBytes(r))
      <4>1. request[r] = Idle /\ \E new : Set(r, new)
            BY <1>3, <3>2 DEF DeleteAccount, Upload, CompleteUpload, Delete, Submit, Free
      <4> QED
          BY <4>1, TypesApart, Begun DEF Idle
    <3> QED
        BY <3>1, <3>2
  <2> QED
      BY <2>1
<1>4. CASE Sweep \/ UNCHANGED vars \/ (\E j \in Jobs : Job(j))
           \/ \E i \in Ids : BeginUpload(i) \/ Put(i) \/ ObjectAges(i) \/ RowAges(i)
  <2>1. request'[q] = request[q]
        BY <1>4
           DEF Sweep, SweepList, SweepPick, SweepBytes, SweepRow, ListObjects, ListNames, SweepOrphan,
               SweepEnds, Sweeps, vars, Job, Waits, Take, KeepCopy, Succeed, Stop, BeginUpload, Put,
               ObjectAges, RowAges
  <2> QED
      BY <2>1
<1>5. ~Crash
      BY DEF Crash, Marked, Told, Quiet, Straight, Free, Idle
<1> QED
    BY <1>1, <1>2, <1>3, <1>4, <1>5 DEF Next, Serve

---------------------------------------------------------------------------
(* The steps that take more than one leaf, before the conjuncts they are   *)
(* needed for.                                                             *)

\* A request that only moves on or ends comes to no recording anew.
LEMMA ComesToNone ==
    ASSUME RequestType, NEW r \in Requests, sweep' = sweep,
           Ends(r) \/ (request[r].op \in {"upload", "complete", "delete"} /\ \E at : Goes(r, at))
    PROVE  \A i \in Ids : (HasRead(i)' => HasRead(i)) /\ (Uploading(i)' => Uploading(i))
<1>1. /\ \A q \in Requests : q # r => request'[q] = request[q]
      /\ \/ request'[r].op = "none"
         \/ /\ request'[r].op = request[r].op /\ request'[r].op \in {"upload", "complete", "delete"}
            /\ request'[r].id = request[r].id
      BY Moved, Left
<1> QED
    BY <1>1 DEF HasRead, Uploading

\* Requests that move on without a new row come to no id that is still uploaded.
LEMMA MovesUploaded ==
    ASSUME TypeOK, UploadedBefore, NEW r \in Requests,
           \/ UploadStored(r) \/ DropLocal(r) \/ CompleteStat(r) \/ CompleteProbe(r) \/ CompleteQuota(r)
           \/ DeleteLook(r) \/ DeleteRow(r)
    PROVE  UploadedBefore'
<1>1. /\ Ends(r) \/ (request[r].op \in {"upload", "complete", "delete"} /\ \E at : Goes(r, at))
      /\ UNCHANGED <<sweep, used>>
      BY DEF UploadStored, DropLocal, CompleteStat, CompleteProbe, CompleteQuota, DeleteLook, DeleteRow, At
<1>2. \A i \in Ids : rows[i] = None => rows'[i] = None
      BY TypesApart
         DEF UploadStored, DropLocal, CompleteStat, CompleteProbe, CompleteQuota, DeleteLook, DeleteRow,
             RowsType
<1> QED
    BY <1>1, <1>2, ComesToNone, TypesApart DEF UploadedBefore

\* The step that writes the row ends the only upload of its id.
LEMMA CreatesUploaded ==
    ASSUME TypeOK, UploadedBefore, UploadsOwn, Alone("upload"), CompletesOwn,
           NEW r \in Requests, NEW i, i = request[r].id, UploadCreate(r) \/ CompleteCreate(r)
    PROVE  UploadedBefore'
<1>1. Ends(r) /\ UNCHANGED <<sweep, used>>
      BY DEF UploadCreate, CompleteCreate
<1>2. i \in used /\ ~Uploading(i)'
  <2>1. CASE UploadCreate(r)
        BY <2>1, <1>1, Left, TypesApart DEF UploadCreate, At, UploadsOwn, Alone, Uploading
  <2>2. CASE CompleteCreate(r)
    <3>1. request[r].op = "complete" /\ i \in signed /\ signed \subseteq used
          BY <2>2, TypesApart DEF CompleteCreate, At, CompletesOwn, TypeOK
    <3> QED
        BY <3>1, <1>1, Left, TypesApart DEF UploadsOwn, Uploading
  <2> QED
      BY <2>1, <2>2
<1>3. \A k \in Ids : rows[k] = None /\ k # i => rows'[k] = None
      BY TypesApart DEF UploadCreate, CompleteCreate, RowsType
<1> QED
    BY <1>1, <1>2, <1>3, ComesToNone, TypesApart DEF UploadedBefore

\* An upload that writes a row has its file in place.
LEMMA UploadCreateHasBytes ==
    ASSUME TypeOK, UploadedBefore, UploadsOwn, Straight', UploadsFit, RowsHaveBytes, NEW r \in Requests,
           UploadCreate(r)
    PROVE  RowsHaveBytes'
<1> DEFINE i == request[r].id
<1>1. /\ Ends(r) /\ request[r].op = "upload" /\ (request[r].at = "create" => objects)
      /\ request[r].at # "create" => ~objects /\ request[r].at = "copy"
      BY DEF UploadCreate, At, UploadsOwn
<1>2. \A k \in Ids : RowGoesToo(k) => RowGoesToo(k)'
      BY <1>1, Left, TypesApart DEF RowGoesToo, At, UploadCreate
<1>3. \A k \in Ids : k # i => rows'[k] = rows[k] /\ place'[k] = place[k]
      BY TypesApart DEF UploadCreate, RowsType, PlaceType
<1>4. i \in Ids /\ rows[i] = None
      BY <1>1, TypesApart, Shapes DEF Uploads, UploadedBefore, Uploading
<1>5. rows'[i] # None => Home \in place'[i]
  <2>1. rows'[i] # None => place' = place /\ i \notin aged
        BY <1>4 DEF UploadCreate, Marked, Straight
  <2> QED
      BY <2>1, <1>1 DEF UploadsFit, Home
<1>6. Home' = Home
      BY DEF UploadCreate, Home
<1> QED
    BY <1>2, <1>3, <1>4, <1>5, <1>6 DEF RowsHaveBytes

\* A client that goes away takes no bytes from a row.
LEMMA GoesAwayHasBytes ==
    ASSUME TypeOK, Straight', RowsHaveBytes, NEW r \in Requests, GoesAway(r)
    PROVE  RowsHaveBytes'
<1>1. Ends(r) /\ request[r].at # "bytes" /\ UNCHANGED <<rows, place, objects, sweep>>
      BY DEF GoesAway, Marked, Straight
<1>2. \A k \in Ids : RowGoesToo(k) => RowGoesToo(k)'
      BY <1>1, TypesApart, Left DEF RowGoesToo, At
<1> QED
    BY <1>1, <1>2 DEF RowsHaveBytes, Home

\* A process that dies takes no bytes from a row.
LEMMA CrashHasBytes ==
    ASSUME Straight', RowsHaveBytes, Crash
    PROVE  RowsHaveBytes'
<1>1. sweep.at = "idle" /\ \A r \in Requests : request[r] = Idle
      BY DEF Crash, Marked, Straight, Free
<1>2. \A k \in Ids : ~RowGoesToo(k)
      BY <1>1 DEF RowGoesToo, At, Idle
<1> QED
    BY <1>2 DEF RowsHaveBytes, Crash, Home

\* A cancelled job that waits was not at work.
LEMMA CancelPausedRuns ==
    ASSUME TypeOK, WorkersRun, NEW r \in Requests, CancelPaused(r)
    PROVE  WorkersRun'
<1>1. PICK j \in Jobs :
         jobs' = IF jobs[j].status \in {"queued", "paused"} THEN [jobs EXCEPT ![j].status = "ended"] ELSE jobs
      BY Cancels, TypesApart
<1> QED
    BY <1>1, TypesApart DEF WorkersRun, JobsType

\* A job is made on a row that is there, so on bytes that are there.
LEMMA CreateJobHasInput ==
    ASSUME TypeOK, AccountsOwn, Quiet', RowsHaveBytes, JobsHaveInput, NEW r \in Requests, NEW j \in Jobs,
           CreateJob(r, j)
    PROVE  JobsHaveInput'
<1> DEFINE i == request[r].id
<1>1. rows[i] # None /\ ~Deleting(i) /\ ~Closing(Owner[i])
      BY DEF CreateJob, Marked, Quiet, Straight
<1>2. i \in Ids
      BY TypesApart, Shapes DEF CreateJob, At, Submits
<1>3. ~RowGoesToo(i)
      BY <1>1 DEF Deleting, Closing, RowGoesToo, At, AccountsOwn
<1>4. \A k \in Ids : InUse(k)' => InUse(k) \/ k = i
      BY TypesApart DEF CreateJob, JobsType, InUse
<1> QED
    BY <1>1, <1>2, <1>3, <1>4 DEF JobsHaveInput, RowsHaveBytes, CreateJob, Home

\* A row that ages stays a row.
LEMMA RowStays ==
    ASSUME RowsType, NEW i \in Ids, RowAges(i)
    PROVE  \A k \in Ids : rows'[k] = None <=> rows[k] = None
<1>1. [rows[i] EXCEPT !.old = TRUE] \in Rows
      BY DEF RowAges, RowsType, Rows
<1> QED
    BY <1>1, NoneAssumption DEF RowAges, RowsType

\* A row that ages keeps its bytes for the jobs on it.
LEMMA RowAgesHasInput ==
    ASSUME TypeOK, JobsHaveInput, NEW i \in Ids, RowAges(i)
    PROVE  JobsHaveInput'
<1>1. \A k \in Ids : InUse(k)' = InUse(k)
      BY DEF RowAges, InUse
<1> QED
    BY <1>1, RowStays, TypesApart DEF JobsHaveInput, RowAges, Home

\* A completed upload that writes its row meets no copy that is there already.
LEMMA CompleteCreateTold ==
    ASSUME TypeOK, UploadsOwn, CompletesOwn, CompletesApart, CopiesTold, LeavesNothing, NEW r \in Requests,
           CompleteCreate(r)
    PROVE  CopiesTold'
<1> DEFINE i == request[r].id
<1>1. Ends(r) /\ request[r].op = "complete" /\ UNCHANGED <<place, jobs, sweep>>
      BY DEF CompleteCreate, At
<1>2. /\ \A q \in Requests : q # r => request'[q] = request[q]
      /\ request'[r].op = "none"
      BY <1>1, TypesApart, Left
<1>3. i \in Ids
      BY <1>1, TypesApart, Shapes DEF Completes
<1>4. "kept" \notin place[i]
  <2>1. ~InHand(i)
        BY <1>1, <1>3 DEF InHand, UploadsOwn, CompletesOwn, CompletesApart, Completing, Leaving, At
  <2>2. rows[i] = None
        BY <1>1, <1>3 DEF CompletesApart, Completing
  <2> QED
      BY <1>3, <2>1, <2>2 DEF LeavesNothing, Emptied
<1>5. \A k \in Ids : k # i => rows'[k] = rows[k]
      BY TypesApart DEF CompleteCreate, RowsType
<1> QED
    BY <1>1, <1>2, <1>3, <1>4, <1>5 DEF CopiesTold, Copied, RowTells, DeletesTell, AccountsTell, SweepTells

\* An account deletion that clears a recording only takes files: who told of a copy still does.
LEMMA AccountBytesTold ==
    ASSUME TypeOK, CopiesTold, NEW r \in Requests, AccountBytes(r)
    PROVE  CopiesTold'
<1>1. /\ \A q \in Requests : q # r => request'[q] = request[q]
      /\ request'[r].op = "account" /\ request'[r].todo \subseteq request[r].todo /\ request[r].op = "account"
      /\ \A k \in Ids : place'[k] \subseteq place[k]
      /\ UNCHANGED <<rows, jobs, sweep>>
      BY TypesApart, Clears DEF PlaceType
<1>2. \A k \in Ids :
        /\ RowTells(k) => RowTells(k)'
        /\ DeletesTell(k) => DeletesTell(k)'
        /\ AccountsTell(k) => AccountsTell(k)'
        /\ SweepTells(k) => SweepTells(k)'
        /\ Copied(k) => Copied(k)'
      BY <1>1 DEF RowTells, DeletesTell, AccountsTell, SweepTells, Copied
<1> QED
    BY <1>1, <1>2 DEF CopiesTold

\* The sweep drops a row and leaves every copy told of as it was.
LEMMA SweepRowTold ==
    ASSUME TypeOK, CopiesTold, SweepRow
    PROVE  CopiesTold'
<1>1. /\ sweep.at = "row" /\ sweep'.at = "pick" /\ sweep'.todo \subseteq sweep.todo
      /\ UNCHANGED <<request, jobs, place>>
      BY DEF SweepRow, Sweeps
<1>2. \A k \in Ids : rows'[k] = rows[k] \/ rows'[k] = None
      BY TypesApart DEF SweepRow, RowsType
<1> QED
    BY <1>1, <1>2 DEF CopiesTold, Copied, RowTells, DeletesTell, AccountsTell, SweepTells

\* An upload ends with a row for its file, or with the file gone.
LEMMA UploadCreateLeaves ==
    ASSUME TypeOK, UploadsOwn, Alone("upload"), FilesFit, UploadsPlain, LeavesNothing, NEW r \in Requests,
           UploadCreate(r)
    PROVE  LeavesNothing'
<1> DEFINE i == request[r].id
<1>1. Ends(r) /\ request[r].op = "upload" /\ (objects => request[r].at = "create")
      BY DEF UploadCreate, At
<1>2. /\ \A q \in Requests : q # r => request'[q] = request[q]
      /\ request'[r].op = "none"
      BY <1>1, TypesApart, Left
<1>3. \A k \in Ids : k # i => rows'[k] = rows[k] /\ place'[k] = place[k] /\ (InHand(k) => InHand(k)')
      BY <1>1, <1>2, TypesApart DEF UploadCreate, RowsType, PlaceType, InHand, At
<1>4. i \in Ids
      BY <1>1, TypesApart, Shapes DEF Uploads
<1>5. rows'[i] = None => place'[i] \subseteq {"originals"}
  <2>1. [old |-> FALSE, kept |-> FALSE] # None
    <3>1. [old |-> FALSE, kept |-> FALSE] \in Rows
          BY DEF Rows
    <3> QED
        BY <3>1, NoneAssumption
  <2>2. rows'[i] = None => place'[i] = place[i] \ {Home}
        BY <1>4, <2>1, TypesApart DEF UploadCreate, RowsType, PlaceType
  <2>3. objects => "disk" \notin place[i]
        BY <1>1, <1>4 DEF FilesFit, Alone
  <2>4. "kept" \notin place[i]
        BY <1>1, <1>4 DEF UploadsPlain, Uploading
  <2> QED
      BY <1>4, <2>2, <2>3, <2>4, TypesApart DEF PlaceType, Home
<1> QED
    BY <1>3, <1>5 DEF LeavesNothing, Emptied

\* A cleared recording leaves no file behind.
LEMMA AccountBytesLeaves ==
    ASSUME TypeOK, LeavesNothing, NEW r \in Requests, AccountBytes(r)
    PROVE  LeavesNothing'
<1>1. \A k \in Ids : place'[k] \subseteq place[k] /\ rows'[k] = rows[k] /\ (InHand(k) => InHand(k)')
      BY TypesApart, Clears DEF PlaceType, InHand, At
<1> QED
    BY <1>1 DEF LeavesNothing, Emptied

\* A row that ages still tells of its files.
LEMMA RowAgesLeaves ==
    ASSUME TypeOK, LeavesNothing, NEW i \in Ids, RowAges(i)
    PROVE  LeavesNothing'
<1>1. place' = place /\ \A k \in Ids : InHand(k)' = InHand(k)
      BY DEF RowAges, InHand, At
<1> QED
    BY <1>1, RowStays, TypesApart DEF LeavesNothing, Emptied

\* A client that goes away leaves only what the history tells of.
LEMMA GoesAwayLeaves ==
    ASSUME TypeOK, Alone("upload"), Told', FilesFit, UploadsPlain, LeavesNothing, UploadsOwn,
           NEW r \in Requests, GoesAway(r)
    PROVE  LeavesNothing'
<1>1. /\ Ends(r) /\ request[r].at # "bytes" /\ (request[r].op = "upload" => request[r].at = "create")
      /\ UNCHANGED <<rows, place>>
      BY DEF GoesAway, Marked, Told, Quiet, Straight
<1>2. /\ \A q \in Requests : q # r => request'[q] = request[q]
      /\ request'[r].op = "none"
      BY <1>1, TypesApart, Left
<1>3. \A k \in Ids : InHand(k) /\ ~InHand(k)' => request[r].op = "upload" /\ request[r].id = k
      BY <1>1, <1>2 DEF InHand, At
<1>4. \A k \in Ids : request[r].op = "upload" /\ request[r].id = k => "disk" \notin place[k] /\ "kept" \notin place[k]
      BY <1>1 DEF FilesFit, UploadsPlain, Uploading, UploadsOwn, Alone
<1> QED
    BY <1>1, <1>3, <1>4, TypesApart DEF LeavesNothing, Emptied, PlaceType

\* A process that dies leaves only what the history tells of.
LEMMA CrashLeaves ==
    ASSUME Told', LeavesNothing, Crash
    PROVE  LeavesNothing'
<1>1. \A r \in Requests : request[r] = Idle
      BY DEF Crash, Marked, Told, Quiet, Straight, Free
<1>2. \A k \in Ids : ~InHand(k)
      BY <1>1 DEF InHand, At, Idle
<1> QED
    BY <1>2 DEF LeavesNothing, Emptied, Crash

\* A job made while no account of its owner is being deleted concerns no such deletion.
LEMMA CreateJobSpares ==
    ASSUME TypeOK, Quiet', AccountsSpare, NEW r \in Requests, NEW j \in Jobs, CreateJob(r, j)
    PROVE  AccountsSpare'
<1>1. Ends(r) /\ ~Closing(Owner[request[r].id])
      BY DEF CreateJob, Marked, Quiet, Straight
<1>2. \A k \in Jobs : jobs'[k] = IF k = j THEN [status |-> "queued", of |-> request[r].id, worker |-> "no"] ELSE jobs[k]
      BY TypesApart DEF CreateJob, JobsType
<1>3. ASSUME NEW q \in Requests, request'[q].op = "account",
             NEW k \in Jobs, Owner[jobs'[k].of] = request'[q].user, jobs'[k].status \in Active
      PROVE  request'[q].at = "cancel" /\ k \in request'[q].paused
  <2>1. request'[q] = request[q]
        BY <1>1, <1>3, Left, TypesApart
  <2>2. Owner[request[r].id] # request[q].user
        BY <1>1, <1>3, <2>1 DEF Closing
  <2>3. k # j /\ jobs'[k] = jobs[k]
        BY <1>2, <1>3, <2>1, <2>2
  <2>4. k \in OwnedBy(request[q].user)
        BY <1>3, <2>1, <2>3 DEF OwnedBy, Active
  <2> QED
      BY <1>3, <2>1, <2>3, <2>4 DEF AccountsSpare
<1> QED
    BY <1>3 DEF AccountsSpare, OwnedBy

\* An account deletion clears no recording an analysis may still run on.
LEMMA AccountBytesHasInput ==
    ASSUME TypeOK, AccountsOwn, AccountsSpare, JobsHaveInput, NEW r \in Requests, AccountBytes(r)
    PROVE  JobsHaveInput'
<1>1. PICK s \in request[r].todo :
         /\ request[r].op = "account" /\ request[r].at = "bytes"
         /\ place' = [place EXCEPT ![s.id] = @ \ Bytes(s)]
         /\ UNCHANGED <<objects, rows, jobs>>
      BY Clears, TypesApart
<1>2. Owner[s.id] = request[r].user
      BY <1>1 DEF AccountsOwn
<1>3. ~InUse(s.id)
  <2>1. ASSUME NEW j \in Jobs, jobs[j].of = s.id, jobs[j].status \in Active
        PROVE  FALSE
    <3>1. j \in OwnedBy(request[r].user)
          BY <1>2, <2>1 DEF OwnedBy, Active
    <3> QED
        BY <1>1, <2>1, <3>1 DEF AccountsSpare
  <2> QED
      BY <2>1 DEF InUse
<1>4. \A i \in Ids : i # s.id => place'[i] = place[i]
      BY <1>1, TypesApart DEF PlaceType
<1> QED
    BY <1>1, <1>3, <1>4 DEF JobsHaveInput, InUse, Home

\* What is not uploading and has lost the bytes it had is empty but for its
\* original.
LEMMA BytesEmpty ==
    ASSUME TypeOK, FilesFit, NEW s \in Snapshots, ~Uploading(s.id), "kept" \in place[s.id] => s.kept
    PROVE  place[s.id] \ Bytes(s) \subseteq {"originals"}
<1>1. s.id \in Ids
      BY DEF Snapshots
<1>2. place[s.id] \subseteq {"disk", "originals", "kept"}
      BY <1>1, TypesApart DEF PlaceType
<1>3. objects => "disk" \notin place[s.id]
      BY <1>1 DEF FilesFit, Uploading
<1> QED
    BY <1>2, <1>3 DEF Bytes, Home

---------------------------------------------------------------------------
(* What was read is of recordings once uploaded.                           *)

\* What has a row, or has been read, was uploaded, and its upload is over.
LEMMA UploadedBeforeKept ==
    ASSUME TypeOK, UploadedBefore, UploadsOwn, Alone("upload"), CompletesOwn, [Next]_vars
    PROVE  UploadedBefore'
<1>1. ASSUME NEW r \in Requests, UploadRefused(r) \/ CompleteDrop(r) \/ DeleteBytes(r) \/ SubmitRefused(r)
      PROVE  UploadedBefore'
      BY <1>1, TypesApart, Left
         DEF UploadRefused, CompleteDrop, DeleteBytes, SubmitRefused, UploadedBefore, HasRead, Uploading
<1>2. ASSUME NEW r \in Requests,
             \/ UploadStored(r) \/ DropLocal(r) \/ CompleteStat(r) \/ CompleteProbe(r) \/ CompleteQuota(r)
             \/ DeleteLook(r) \/ DeleteRow(r)
      PROVE  UploadedBefore'
      BY <1>2, MovesUploaded
<1>3. ASSUME NEW r \in Requests, UploadCreate(r) \/ CompleteCreate(r)
      PROVE  UploadedBefore'
      BY <1>3, CreatesUploaded
<1>4. ASSUME NEW r \in Requests, NEW i \in Ids, Upload(r, i)
      PROVE  UploadedBefore'
      BY <1>4 DEF Upload, UploadedBefore, HasRead, Uploading, Set
<1>5. ASSUME NEW r \in Requests, NEW i \in Ids, CompleteUpload(r, i)
      PROVE  UploadedBefore'
      BY <1>5 DEF CompleteUpload, UploadedBefore, HasRead, Uploading, Set
<1>6. ASSUME NEW r \in Requests, NEW i \in Ids, Delete(r, i) \/ Submit(r, i)
      PROVE  UploadedBefore'
      BY <1>6, TypesApart DEF Delete, Submit, UploadedBefore, HasRead, Uploading, RequestType, Set
<1>7. ASSUME NEW r \in Requests, NEW u \in Users, DeleteAccount(r, u)
      PROVE  UploadedBefore'
      BY <1>7 DEF DeleteAccount, UploadedBefore, HasRead, Uploading, Set
<1>8. ASSUME NEW r \in Requests, CancelPaused(r) \/ ListRecordings(r) \/ AccountBytes(r)
      PROVE  UploadedBefore'
      BY <1>8, TypesApart, Cancels, Lists, Clears DEF UploadedBefore, HasRead, Uploading
<1>9. ASSUME NEW r \in Requests, DeleteUser(r)
      PROVE  UploadedBefore'
      BY <1>9, TypesApart, Left DEF DeleteUser, UploadedBefore, HasRead, Uploading
<1>10. ASSUME NEW r \in Requests, NEW j \in Jobs, CreateJob(r, j)
       PROVE  UploadedBefore'
       BY <1>10, TypesApart, Left DEF CreateJob, UploadedBefore, HasRead, Uploading
<1>11. ASSUME NEW i \in Ids, BeginUpload(i) \/ Put(i) \/ ObjectAges(i) \/ RowAges(i)
       PROVE  UploadedBefore'
       BY <1>11, TypesApart
          DEF BeginUpload, Put, ObjectAges, RowAges, UploadedBefore, HasRead, Uploading, RowsType
<1>12. ASSUME NEW j \in Jobs,
              \/ Take(j) \/ KeepCopy(j) \/ Succeed(j) \/ Stop(j)
              \/ (\E from \in {"queued", "paused"}, to \in {"queued", "paused", "ended"} : Waits(j, from, to))
       PROVE  UploadedBefore'
       BY <1>12, TypesApart
          DEF Take, KeepCopy, Succeed, Stop, Waits, UploadedBefore, HasRead, Uploading, RowsType
<1>13. CASE \/ SweepList \/ SweepPick \/ SweepBytes \/ SweepRow \/ ListObjects \/ ListNames \/ SweepOrphan
            \/ SweepEnds
       BY <1>13, TypesApart
          DEF SweepList, SweepPick, SweepBytes, SweepRow, ListObjects, ListNames, SweepOrphan, SweepEnds,
              UploadedBefore, HasRead, Uploading, RowsType, Snapshot, SweepType, Expiring, Orphaning,
              Sweeps
<1>14. ASSUME NEW r \in Requests, GoesAway(r)
       PROVE  UploadedBefore'
       BY <1>14, TypesApart, Left DEF GoesAway, UploadedBefore, HasRead, Uploading
<1>15. CASE Crash \/ UNCHANGED vars
       BY <1>15 DEF Crash, vars, UploadedBefore, HasRead, Uploading, Idle
<1> QED
    BY <1>1, <1>2, <1>3, <1>4, <1>5, <1>6, <1>7, <1>8, <1>9, <1>10, <1>11, <1>12, <1>13, <1>14, <1>15
       DEF Next, Serve, Job, Sweep

\* An upload works on an id that was given out and has no signed URL.
LEMMA UploadsOwnKept ==
    ASSUME TypeOK, UploadsOwn, [Next]_vars
    PROVE  UploadsOwn'
<1>1. ASSUME NEW r \in Requests,
             \/ UploadRefused(r) \/ UploadStored(r) \/ DropLocal(r) \/ UploadCreate(r) \/ CompleteStat(r)
             \/ CompleteQuota(r) \/ CompleteProbe(r) \/ CompleteDrop(r) \/ CompleteCreate(r)
             \/ DeleteLook(r) \/ DeleteRow(r) \/ DeleteBytes(r) \/ SubmitRefused(r)
      PROVE  UploadsOwn'
      BY <1>1, TypesApart, Left, Moved
         DEF UploadRefused, UploadStored, DropLocal, UploadCreate, CompleteStat, CompleteQuota,
             CompleteProbe, CompleteDrop, CompleteCreate, DeleteLook, DeleteRow, DeleteBytes,
             SubmitRefused, UploadsOwn, At, Marked
<1>2. ASSUME NEW r \in Requests, NEW i \in Ids, Upload(r, i)
      PROVE  UploadsOwn'
      BY <1>2, TypesApart DEF Upload, UploadsOwn, Set
<1>3. ASSUME NEW r \in Requests, NEW i \in Ids, CompleteUpload(r, i)
      PROVE  UploadsOwn'
      BY <1>3 DEF CompleteUpload, UploadsOwn, Set
<1>4. ASSUME NEW r \in Requests, NEW i \in Ids, Delete(r, i) \/ Submit(r, i)
      PROVE  UploadsOwn'
      BY <1>4, TypesApart DEF Delete, Submit, UploadsOwn, Set, RequestType
<1>5. ASSUME NEW r \in Requests, NEW u \in Users, DeleteAccount(r, u)
      PROVE  UploadsOwn'
      BY <1>5 DEF DeleteAccount, UploadsOwn, Set
<1>6. ASSUME NEW r \in Requests, CancelPaused(r) \/ ListRecordings(r) \/ AccountBytes(r)
      PROVE  UploadsOwn'
      BY <1>6, TypesApart, Cancels, Lists, Clears DEF UploadsOwn
<1>7. ASSUME NEW r \in Requests, DeleteUser(r)
      PROVE  UploadsOwn'
      BY <1>7, TypesApart, Left DEF DeleteUser, UploadsOwn
<1>8. ASSUME NEW r \in Requests, NEW j \in Jobs, CreateJob(r, j)
      PROVE  UploadsOwn'
      BY <1>8, TypesApart, Left DEF CreateJob, UploadsOwn
<1>9. ASSUME NEW i \in Ids, BeginUpload(i) \/ Put(i) \/ ObjectAges(i) \/ RowAges(i)
      PROVE  UploadsOwn'
      BY <1>9 DEF BeginUpload, Put, ObjectAges, RowAges, UploadsOwn
<1>10. ASSUME NEW j \in Jobs,
              \/ Take(j) \/ KeepCopy(j) \/ Succeed(j) \/ Stop(j)
              \/ (\E from \in {"queued", "paused"}, to \in {"queued", "paused", "ended"} : Waits(j, from, to))
       PROVE  UploadsOwn'
       BY <1>10 DEF Take, KeepCopy, Succeed, Stop, Waits, UploadsOwn
<1>11. CASE \/ SweepList \/ SweepPick \/ SweepBytes \/ SweepRow \/ ListObjects \/ ListNames \/ SweepOrphan
            \/ SweepEnds
       BY <1>11
          DEF SweepList, SweepPick, SweepBytes, SweepRow, ListObjects, ListNames, SweepOrphan, SweepEnds,
              UploadsOwn, Sweeps
<1>12. ASSUME NEW r \in Requests, GoesAway(r)
       PROVE  UploadsOwn'
       BY <1>12, TypesApart, Left DEF GoesAway, UploadsOwn
<1>13. CASE Crash \/ UNCHANGED vars
       BY <1>13 DEF Crash, vars, UploadsOwn, Idle
<1> QED
    BY <1>1, <1>2, <1>3, <1>4, <1>5, <1>6, <1>7, <1>8, <1>9, <1>10, <1>11, <1>12, <1>13
       DEF Next, Serve, Job, Sweep

\* No two requests upload to one id.
LEMMA AloneUploadKept ==
    ASSUME TypeOK, UploadsOwn, Alone("upload"), [Next]_vars
    PROVE  Alone("upload")'
<1>1. ASSUME NEW r \in Requests,
             \/ UploadRefused(r) \/ UploadStored(r) \/ DropLocal(r) \/ UploadCreate(r) \/ CompleteStat(r)
             \/ CompleteQuota(r) \/ CompleteProbe(r) \/ CompleteDrop(r) \/ CompleteCreate(r)
             \/ DeleteLook(r) \/ DeleteRow(r) \/ DeleteBytes(r) \/ SubmitRefused(r)
      PROVE  Alone("upload")'
      BY <1>1, TypesApart, Left, Moved
         DEF UploadRefused, UploadStored, DropLocal, UploadCreate, CompleteStat, CompleteQuota,
             CompleteProbe, CompleteDrop, CompleteCreate, DeleteLook, DeleteRow, DeleteBytes,
             SubmitRefused, At, Alone, Marked
<1>2. ASSUME NEW r \in Requests, NEW i \in Ids, Upload(r, i)
      PROVE  Alone("upload")'
      BY <1>2 DEF Upload, UploadsOwn, Alone, Set
<1>3. ASSUME NEW r \in Requests, NEW i \in Ids, CompleteUpload(r, i)
      PROVE  Alone("upload")'
      BY <1>3 DEF CompleteUpload, Alone, Set
<1>4. ASSUME NEW r \in Requests, NEW i \in Ids, Delete(r, i) \/ Submit(r, i)
      PROVE  Alone("upload")'
      BY <1>4, TypesApart DEF Delete, Submit, Alone, Set, RequestType
<1>5. ASSUME NEW r \in Requests, NEW u \in Users, DeleteAccount(r, u)
      PROVE  Alone("upload")'
      BY <1>5 DEF DeleteAccount, Alone, Set
<1>6. ASSUME NEW r \in Requests, CancelPaused(r) \/ ListRecordings(r) \/ AccountBytes(r)
      PROVE  Alone("upload")'
      BY <1>6, TypesApart, Cancels, Lists, Clears DEF Alone
<1>7. ASSUME NEW r \in Requests, DeleteUser(r)
      PROVE  Alone("upload")'
      BY <1>7, TypesApart, Left DEF DeleteUser, Alone
<1>8. ASSUME NEW r \in Requests, NEW j \in Jobs, CreateJob(r, j)
      PROVE  Alone("upload")'
      BY <1>8, TypesApart, Left DEF CreateJob, Alone
<1>9. ASSUME NEW i \in Ids, BeginUpload(i) \/ Put(i) \/ ObjectAges(i) \/ RowAges(i)
      PROVE  Alone("upload")'
      BY <1>9 DEF BeginUpload, Put, ObjectAges, RowAges, Alone
<1>10. ASSUME NEW j \in Jobs,
              \/ Take(j) \/ KeepCopy(j) \/ Succeed(j) \/ Stop(j)
              \/ (\E from \in {"queued", "paused"}, to \in {"queued", "paused", "ended"} : Waits(j, from, to))
       PROVE  Alone("upload")'
       BY <1>10 DEF Take, KeepCopy, Succeed, Stop, Waits, Alone
<1>11. CASE \/ SweepList \/ SweepPick \/ SweepBytes \/ SweepRow \/ ListObjects \/ ListNames \/ SweepOrphan
            \/ SweepEnds
       BY <1>11
          DEF SweepList, SweepPick, SweepBytes, SweepRow, ListObjects, ListNames, SweepOrphan, SweepEnds,
              Alone, Sweeps
<1>12. ASSUME NEW r \in Requests, GoesAway(r)
       PROVE  Alone("upload")'
       BY <1>12, TypesApart, Left DEF GoesAway, Alone
<1>13. CASE Crash \/ UNCHANGED vars
       BY <1>13 DEF Crash, vars, Alone, Idle
<1> QED
    BY <1>1, <1>2, <1>3, <1>4, <1>5, <1>6, <1>7, <1>8, <1>9, <1>10, <1>11, <1>12, <1>13
       DEF Next, Serve, Job, Sweep

\* What a client completes has a signed URL, and the service has an object
\* store.
LEMMA CompletesOwnKept ==
    ASSUME TypeOK, CompletesOwn, [Next]_vars
    PROVE  CompletesOwn'
<1>1. ASSUME NEW r \in Requests,
             \/ UploadRefused(r) \/ UploadStored(r) \/ DropLocal(r) \/ UploadCreate(r) \/ CompleteStat(r)
             \/ CompleteQuota(r) \/ CompleteProbe(r) \/ CompleteDrop(r) \/ CompleteCreate(r)
             \/ DeleteLook(r) \/ DeleteRow(r) \/ DeleteBytes(r) \/ SubmitRefused(r)
      PROVE  CompletesOwn'
      BY <1>1, TypesApart, Left, Moved
         DEF UploadRefused, UploadStored, DropLocal, UploadCreate, CompleteStat, CompleteQuota,
             CompleteProbe, CompleteDrop, CompleteCreate, DeleteLook, DeleteRow, DeleteBytes,
             SubmitRefused, CompletesOwn, At, Marked
<1>2. ASSUME NEW r \in Requests, NEW i \in Ids, Upload(r, i)
      PROVE  CompletesOwn'
      BY <1>2 DEF Upload, CompletesOwn, Set
<1>3. ASSUME NEW r \in Requests, NEW i \in Ids, CompleteUpload(r, i)
      PROVE  CompletesOwn'
      BY <1>3 DEF CompleteUpload, CompletesOwn, Set
<1>4. ASSUME NEW r \in Requests, NEW i \in Ids, Delete(r, i) \/ Submit(r, i)
      PROVE  CompletesOwn'
      BY <1>4, TypesApart DEF Delete, Submit, CompletesOwn, Set, RequestType
<1>5. ASSUME NEW r \in Requests, NEW u \in Users, DeleteAccount(r, u)
      PROVE  CompletesOwn'
      BY <1>5 DEF DeleteAccount, CompletesOwn, Set
<1>6. ASSUME NEW r \in Requests, CancelPaused(r) \/ ListRecordings(r) \/ AccountBytes(r)
      PROVE  CompletesOwn'
      BY <1>6, TypesApart, Cancels, Lists, Clears DEF CompletesOwn
<1>7. ASSUME NEW r \in Requests, DeleteUser(r)
      PROVE  CompletesOwn'
      BY <1>7, TypesApart, Left DEF DeleteUser, CompletesOwn
<1>8. ASSUME NEW r \in Requests, NEW j \in Jobs, CreateJob(r, j)
      PROVE  CompletesOwn'
      BY <1>8, TypesApart, Left DEF CreateJob, CompletesOwn
<1>9. ASSUME NEW i \in Ids, BeginUpload(i) \/ Put(i) \/ ObjectAges(i) \/ RowAges(i)
      PROVE  CompletesOwn'
      BY <1>9 DEF BeginUpload, Put, ObjectAges, RowAges, CompletesOwn
<1>10. ASSUME NEW j \in Jobs,
              \/ Take(j) \/ KeepCopy(j) \/ Succeed(j) \/ Stop(j)
              \/ (\E from \in {"queued", "paused"}, to \in {"queued", "paused", "ended"} : Waits(j, from, to))
       PROVE  CompletesOwn'
       BY <1>10 DEF Take, KeepCopy, Succeed, Stop, Waits, CompletesOwn
<1>11. CASE \/ SweepList \/ SweepPick \/ SweepBytes \/ SweepRow \/ ListObjects \/ ListNames \/ SweepOrphan
            \/ SweepEnds
       BY <1>11
          DEF SweepList, SweepPick, SweepBytes, SweepRow, ListObjects, ListNames, SweepOrphan, SweepEnds,
              CompletesOwn, Sweeps
<1>12. ASSUME NEW r \in Requests, GoesAway(r)
       PROVE  CompletesOwn'
       BY <1>12, TypesApart, Left DEF GoesAway, CompletesOwn
<1>13. CASE Crash \/ UNCHANGED vars
       BY <1>13 DEF Crash, vars, CompletesOwn, Idle
<1> QED
    BY <1>1, <1>2, <1>3, <1>4, <1>5, <1>6, <1>7, <1>8, <1>9, <1>10, <1>11, <1>12, <1>13
       DEF Next, Serve, Job, Sweep

\* The deletion of an account has listed recordings of that account.
LEMMA AccountsOwnKept ==
    ASSUME TypeOK, AccountsOwn, [Next]_vars
    PROVE  AccountsOwn'
<1>1. ASSUME NEW r \in Requests,
             \/ UploadRefused(r) \/ UploadStored(r) \/ DropLocal(r) \/ UploadCreate(r) \/ CompleteStat(r)
             \/ CompleteQuota(r) \/ CompleteProbe(r) \/ CompleteDrop(r) \/ CompleteCreate(r)
             \/ DeleteLook(r) \/ DeleteRow(r) \/ DeleteBytes(r) \/ SubmitRefused(r)
      PROVE  AccountsOwn'
      BY <1>1, TypesApart, Left, Moved
         DEF UploadRefused, UploadStored, DropLocal, UploadCreate, CompleteStat, CompleteQuota,
             CompleteProbe, CompleteDrop, CompleteCreate, DeleteLook, DeleteRow, DeleteBytes,
             SubmitRefused, AccountsOwn, At, Marked
<1>2. ASSUME NEW r \in Requests, NEW i \in Ids, Upload(r, i)
      PROVE  AccountsOwn'
      BY <1>2 DEF Upload, AccountsOwn, Set
<1>3. ASSUME NEW r \in Requests, NEW i \in Ids, CompleteUpload(r, i)
      PROVE  AccountsOwn'
      BY <1>3 DEF CompleteUpload, AccountsOwn, Set
<1>4. ASSUME NEW r \in Requests, NEW i \in Ids, Delete(r, i) \/ Submit(r, i)
      PROVE  AccountsOwn'
      BY <1>4, TypesApart DEF Delete, Submit, AccountsOwn, Set, RequestType
<1>5. ASSUME NEW r \in Requests, NEW u \in Users, DeleteAccount(r, u)
      PROVE  AccountsOwn'
      BY <1>5 DEF DeleteAccount, AccountsOwn, Set
<1>6. ASSUME NEW r \in Requests, CancelPaused(r) \/ ListRecordings(r) \/ AccountBytes(r)
      PROVE  AccountsOwn'
      BY <1>6, TypesApart, Cancels, Lists, Clears DEF AccountsOwn
<1>7. ASSUME NEW r \in Requests, DeleteUser(r)
      PROVE  AccountsOwn'
      BY <1>7, TypesApart, Left DEF DeleteUser, AccountsOwn
<1>8. ASSUME NEW r \in Requests, NEW j \in Jobs, CreateJob(r, j)
      PROVE  AccountsOwn'
      BY <1>8, TypesApart, Left DEF CreateJob, AccountsOwn
<1>9. ASSUME NEW i \in Ids, BeginUpload(i) \/ Put(i) \/ ObjectAges(i) \/ RowAges(i)
      PROVE  AccountsOwn'
      BY <1>9 DEF BeginUpload, Put, ObjectAges, RowAges, AccountsOwn
<1>10. ASSUME NEW j \in Jobs,
              \/ Take(j) \/ KeepCopy(j) \/ Succeed(j) \/ Stop(j)
              \/ (\E from \in {"queued", "paused"}, to \in {"queued", "paused", "ended"} : Waits(j, from, to))
       PROVE  AccountsOwn'
       BY <1>10 DEF Take, KeepCopy, Succeed, Stop, Waits, AccountsOwn
<1>11. CASE \/ SweepList \/ SweepPick \/ SweepBytes \/ SweepRow \/ ListObjects \/ ListNames \/ SweepOrphan
            \/ SweepEnds
       BY <1>11
          DEF SweepList, SweepPick, SweepBytes, SweepRow, ListObjects, ListNames, SweepOrphan, SweepEnds,
              AccountsOwn, Sweeps
<1>12. ASSUME NEW r \in Requests, GoesAway(r)
       PROVE  AccountsOwn'
       BY <1>12, TypesApart, Left DEF GoesAway, AccountsOwn
<1>13. CASE Crash \/ UNCHANGED vars
       BY <1>13 DEF Crash, vars, AccountsOwn, Idle
<1> QED
    BY <1>1, <1>2, <1>3, <1>4, <1>5, <1>6, <1>7, <1>8, <1>9, <1>10, <1>11, <1>12, <1>13
       DEF Next, Serve, Job, Sweep

\* The sweep has listed rows of recordings that had one, as they were.
LEMMA SweepOwnKept ==
    ASSUME TypeOK, SweepOwn, [Next]_vars
    PROVE  SweepOwn'
<1>1. ASSUME NEW r \in Requests,
             \/ UploadRefused(r) \/ UploadStored(r) \/ DropLocal(r) \/ UploadCreate(r) \/ CompleteStat(r)
             \/ CompleteQuota(r) \/ CompleteProbe(r) \/ CompleteDrop(r) \/ CompleteCreate(r)
             \/ DeleteLook(r) \/ DeleteRow(r) \/ DeleteBytes(r) \/ SubmitRefused(r)
      PROVE  SweepOwn'
      BY <1>1
         DEF UploadRefused, UploadStored, DropLocal, UploadCreate, CompleteStat, CompleteQuota,
             CompleteProbe, CompleteDrop, CompleteCreate, DeleteLook, DeleteRow, DeleteBytes,
             SubmitRefused, SweepOwn, Marked
<1>2. ASSUME NEW r \in Requests, NEW i \in Ids,
             Upload(r, i) \/ CompleteUpload(r, i) \/ Delete(r, i) \/ Submit(r, i)
      PROVE  SweepOwn'
      BY <1>2, TypesApart
         DEF Upload, CompleteUpload, Delete, Submit, SweepOwn, SweepType, Expiring, Orphaning, Set,
             RequestType, Free, Idle
<1>3. ASSUME NEW r \in Requests, NEW u \in Users, DeleteAccount(r, u)
      PROVE  SweepOwn'
      BY <1>3 DEF DeleteAccount, SweepOwn
<1>4. ASSUME NEW r \in Requests, CancelPaused(r) \/ ListRecordings(r) \/ AccountBytes(r)
      PROVE  SweepOwn'
      BY <1>4, TypesApart, Cancels, Lists, Clears DEF SweepOwn
<1>5. ASSUME NEW r \in Requests, DeleteUser(r)
      PROVE  SweepOwn'
      BY <1>5 DEF DeleteUser, SweepOwn
<1>6. ASSUME NEW r \in Requests, NEW j \in Jobs, CreateJob(r, j)
      PROVE  SweepOwn'
      BY <1>6 DEF CreateJob, SweepOwn
<1>7. ASSUME NEW i \in Ids, BeginUpload(i) \/ Put(i) \/ ObjectAges(i) \/ RowAges(i)
      PROVE  SweepOwn'
      BY <1>7 DEF BeginUpload, Put, ObjectAges, RowAges, SweepOwn
<1>8. ASSUME NEW j \in Jobs,
             \/ Take(j) \/ KeepCopy(j) \/ Succeed(j) \/ Stop(j)
             \/ (\E from \in {"queued", "paused"}, to \in {"queued", "paused", "ended"} : Waits(j, from, to))
      PROVE  SweepOwn'
      BY <1>8 DEF Take, KeepCopy, Succeed, Stop, Waits, SweepOwn
<1>9. CASE \/ SweepList \/ SweepPick \/ SweepBytes \/ SweepRow \/ ListObjects \/ ListNames \/ SweepOrphan
           \/ SweepEnds
      BY <1>9, TypesApart
         DEF SweepList, SweepPick, SweepBytes, SweepRow, ListObjects, ListNames, SweepOrphan, SweepEnds,
             SweepOwn, SweepType, Expiring, Orphaning, Sweeps
<1>10. ASSUME NEW r \in Requests, GoesAway(r)
       PROVE  SweepOwn'
       BY <1>10 DEF GoesAway, SweepOwn
<1>11. CASE Crash \/ UNCHANGED vars
       BY <1>11 DEF Crash, vars, SweepOwn
<1> QED
    BY <1>1, <1>2, <1>3, <1>4, <1>5, <1>6, <1>7, <1>8, <1>9, <1>10, <1>11 DEF Next, Serve, Job, Sweep

---------------------------------------------------------------------------
(* Rows and their bytes.                                                   *)

\* While an upload is being completed its recording has no row, is not expiring
\* and nobody removes it.
LEMMA CompletesApartKept ==
    ASSUME TypeOK, UploadedBefore, UploadsOwn, Alone("upload"), CompletesOwn, AccountsOwn, SweepOwn,
           Straight', CompletesApart, Alone("complete"), [Next]_vars
    PROVE  CompletesApart'
<1>1. ASSUME NEW r \in Requests,
             \/ UploadRefused(r) \/ UploadStored(r) \/ DropLocal(r) \/ UploadCreate(r) \/ CompleteStat(r)
             \/ CompleteQuota(r) \/ CompleteProbe(r) \/ CompleteDrop(r) \/ CompleteCreate(r)
             \/ DeleteLook(r) \/ DeleteRow(r) \/ DeleteBytes(r) \/ SubmitRefused(r)
      PROVE  CompletesApart'
      BY <1>1, TypesApart, Left, Moved
         DEF UploadRefused, UploadStored, DropLocal, UploadCreate, CompleteStat, CompleteQuota,
             CompleteProbe, CompleteDrop, CompleteCreate, DeleteLook, DeleteRow, DeleteBytes,
             SubmitRefused, UploadedBefore, UploadsOwn, Alone, CompletesOwn, Marked, CompletesApart,
             Completing, Expired, Leaving, At, RowsType
<1>2. ASSUME NEW r \in Requests, NEW i \in Ids, Upload(r, i)
      PROVE  CompletesApart'
      BY <1>2 DEF Upload, CompletesApart, Completing, Expired, Leaving, At, Set
<1>3. ASSUME NEW r \in Requests, NEW i \in Ids, CompleteUpload(r, i)
      PROVE  CompletesApart'
      BY <1>3, TypesApart
         DEF CompleteUpload, UploadedBefore, HasRead, Uploading, UploadsOwn, Alone, CompletesOwn,
             AccountsOwn, SweepOwn, Marked, Straight, Deleting, CompletesApart, Completing, Expired,
             Leaving, At, RowsType, SweepType, Expiring, Orphaning, Set, RequestType, Free, Idle
<1>4. ASSUME NEW r \in Requests, NEW i \in Ids, Delete(r, i) \/ Submit(r, i)
      PROVE  CompletesApart'
      BY <1>4, TypesApart DEF Delete, Submit, CompletesApart, Completing, Expired, Leaving, At, Set, RequestType
<1>5. ASSUME NEW r \in Requests, NEW u \in Users, DeleteAccount(r, u)
      PROVE  CompletesApart'
      BY <1>5 DEF DeleteAccount, CompletesApart, Completing, Expired, Leaving, At, Set
<1>6. ASSUME NEW r \in Requests, CancelPaused(r) \/ ListRecordings(r) \/ AccountBytes(r)
      PROVE  CompletesApart'
      BY <1>6, TypesApart, Cancels, Lists, Clears DEF CompletesApart, Completing, Expired, Leaving, At
<1>7. ASSUME NEW r \in Requests, DeleteUser(r)
      PROVE  CompletesApart'
      BY <1>7, TypesApart, Left DEF DeleteUser, CompletesApart, Completing, Expired, Leaving, At
<1>8. ASSUME NEW r \in Requests, NEW j \in Jobs, CreateJob(r, j)
      PROVE  CompletesApart'
      BY <1>8, TypesApart, Left DEF CreateJob, CompletesApart, Completing, Expired, Leaving, At
<1>9. ASSUME NEW i \in Ids, BeginUpload(i) \/ Put(i) \/ ObjectAges(i) \/ RowAges(i)
      PROVE  CompletesApart'
      BY <1>9, TypesApart
         DEF BeginUpload, Put, ObjectAges, RowAges, CompletesApart, Completing, Expired, Leaving, At,
             RowsType
<1>10. ASSUME NEW j \in Jobs,
              \/ Take(j) \/ KeepCopy(j) \/ Succeed(j) \/ Stop(j)
              \/ (\E from \in {"queued", "paused"}, to \in {"queued", "paused", "ended"} : Waits(j, from, to))
       PROVE  CompletesApart'
       BY <1>10, TypesApart
          DEF Take, KeepCopy, Succeed, Stop, Waits, CompletesApart, Completing, Expired, Leaving, At,
              RowsType
<1>11. CASE \/ SweepList \/ SweepPick \/ SweepBytes \/ SweepRow \/ ListObjects \/ ListNames \/ SweepOrphan
            \/ SweepEnds
       BY <1>11, TypesApart
          DEF SweepList, SweepPick, SweepBytes, SweepRow, ListObjects, ListNames, SweepOrphan, SweepEnds,
              Marked, Straight, CompletesApart, Completing, Expired, Leaving, At, RowsType, SweepType,
              Expiring, Orphaning, Sweeps
<1>12. ASSUME NEW r \in Requests, GoesAway(r)
       PROVE  CompletesApart'
       BY <1>12, TypesApart, Left DEF GoesAway, CompletesApart, Completing, Expired, Leaving, At
<1>13. CASE Crash \/ UNCHANGED vars
       BY <1>13 DEF Crash, vars, CompletesApart, Completing, Expired, Leaving, At, Idle
<1> QED
    BY <1>1, <1>2, <1>3, <1>4, <1>5, <1>6, <1>7, <1>8, <1>9, <1>10, <1>11, <1>12, <1>13
       DEF Next, Serve, Job, Sweep

\* Whoever removes the bytes of a recording has removed its row.
LEMMA RowsGoFirstKept ==
    ASSUME TypeOK, UploadedBefore, RowsGoFirst, CompletesApart, [Next]_vars
    PROVE  RowsGoFirst'
<1>1. ASSUME NEW r \in Requests,
             \/ UploadRefused(r) \/ UploadStored(r) \/ DropLocal(r) \/ UploadCreate(r) \/ CompleteStat(r)
             \/ CompleteQuota(r) \/ CompleteProbe(r) \/ CompleteDrop(r) \/ CompleteCreate(r)
             \/ DeleteLook(r) \/ DeleteRow(r) \/ DeleteBytes(r) \/ SubmitRefused(r)
      PROVE  RowsGoFirst'
      BY <1>1, TypesApart, Left, Moved
         DEF UploadRefused, UploadStored, DropLocal, UploadCreate, CompleteStat, CompleteQuota,
             CompleteProbe, CompleteDrop, CompleteCreate, DeleteLook, DeleteRow, DeleteBytes,
             SubmitRefused, UploadedBefore, HasRead, Uploading, RowsGoFirst, CompletesApart, Completing,
             Leaving, At, RowsType, Marked
<1>2. ASSUME NEW r \in Requests, NEW i \in Ids, Upload(r, i)
      PROVE  RowsGoFirst'
      BY <1>2 DEF Upload, RowsGoFirst, Leaving, At, Set
<1>3. ASSUME NEW r \in Requests, NEW i \in Ids, CompleteUpload(r, i)
      PROVE  RowsGoFirst'
      BY <1>3 DEF CompleteUpload, RowsGoFirst, Leaving, At, Set
<1>4. ASSUME NEW r \in Requests, NEW i \in Ids, Delete(r, i) \/ Submit(r, i)
      PROVE  RowsGoFirst'
      BY <1>4, TypesApart DEF Delete, Submit, RowsGoFirst, Leaving, At, Set, RequestType
<1>5. ASSUME NEW r \in Requests, NEW u \in Users, DeleteAccount(r, u)
      PROVE  RowsGoFirst'
      BY <1>5 DEF DeleteAccount, RowsGoFirst, Leaving, At, Set
<1>6. ASSUME NEW r \in Requests, CancelPaused(r) \/ ListRecordings(r) \/ AccountBytes(r)
      PROVE  RowsGoFirst'
      BY <1>6, TypesApart, Cancels, Lists, Clears DEF RowsGoFirst, Leaving, At
<1>7. ASSUME NEW r \in Requests, DeleteUser(r)
      PROVE  RowsGoFirst'
      BY <1>7, TypesApart, Left DEF DeleteUser, RowsGoFirst, Leaving, At
<1>8. ASSUME NEW r \in Requests, NEW j \in Jobs, CreateJob(r, j)
      PROVE  RowsGoFirst'
      BY <1>8, TypesApart, Left DEF CreateJob, RowsGoFirst, Leaving, At
<1>9. ASSUME NEW i \in Ids, BeginUpload(i) \/ Put(i) \/ ObjectAges(i) \/ RowAges(i)
      PROVE  RowsGoFirst'
      BY <1>9, TypesApart DEF BeginUpload, Put, ObjectAges, RowAges, RowsGoFirst, Leaving, At, RowsType
<1>10. ASSUME NEW j \in Jobs,
              \/ Take(j) \/ KeepCopy(j) \/ Succeed(j) \/ Stop(j)
              \/ (\E from \in {"queued", "paused"}, to \in {"queued", "paused", "ended"} : Waits(j, from, to))
       PROVE  RowsGoFirst'
       BY <1>10, TypesApart DEF Take, KeepCopy, Succeed, Stop, Waits, RowsGoFirst, Leaving, At, RowsType
<1>11. CASE \/ SweepList \/ SweepPick \/ SweepBytes \/ SweepRow \/ ListObjects \/ ListNames \/ SweepOrphan
            \/ SweepEnds
       BY <1>11, TypesApart
          DEF SweepList, SweepPick, SweepBytes, SweepRow, ListObjects, ListNames, SweepOrphan, SweepEnds,
              RowsGoFirst, Leaving, At, RowsType, Sweeps
<1>12. ASSUME NEW r \in Requests, GoesAway(r)
       PROVE  RowsGoFirst'
       BY <1>12, TypesApart, Left DEF GoesAway, RowsGoFirst, Leaving, At
<1>13. CASE Crash \/ UNCHANGED vars
       BY <1>13 DEF Crash, vars, RowsGoFirst, Leaving, At, Idle
<1> QED
    BY <1>1, <1>2, <1>3, <1>4, <1>5, <1>6, <1>7, <1>8, <1>9, <1>10, <1>11, <1>12, <1>13
       DEF Next, Serve, Job, Sweep

\* No two requests complete one upload, unless they raced.
LEMMA AloneCompleteKept ==
    ASSUME TypeOK, Alone("upload"), Straight', Alone("complete"), [Next]_vars
    PROVE  Alone("complete")'
<1>1. ASSUME NEW r \in Requests,
             \/ UploadRefused(r) \/ UploadStored(r) \/ DropLocal(r) \/ UploadCreate(r) \/ CompleteStat(r)
             \/ CompleteQuota(r) \/ CompleteProbe(r) \/ CompleteDrop(r) \/ CompleteCreate(r)
             \/ DeleteLook(r) \/ DeleteRow(r) \/ DeleteBytes(r) \/ SubmitRefused(r)
      PROVE  Alone("complete")'
      BY <1>1, TypesApart, Left, Moved
         DEF UploadRefused, UploadStored, DropLocal, UploadCreate, CompleteStat, CompleteQuota,
             CompleteProbe, CompleteDrop, CompleteCreate, DeleteLook, DeleteRow, DeleteBytes,
             SubmitRefused, Alone, At, Marked
<1>2. ASSUME NEW r \in Requests, NEW i \in Ids,
             Upload(r, i) \/ CompleteUpload(r, i) \/ Delete(r, i) \/ Submit(r, i)
      PROVE  Alone("complete")'
      BY <1>2, TypesApart
         DEF Upload, CompleteUpload, Delete, Submit, Alone, Completing, Marked, Straight, Set, RequestType
<1>3. ASSUME NEW r \in Requests, NEW u \in Users, DeleteAccount(r, u)
      PROVE  Alone("complete")'
      BY <1>3 DEF DeleteAccount, Alone, Set
<1>4. ASSUME NEW r \in Requests, CancelPaused(r) \/ ListRecordings(r) \/ AccountBytes(r)
      PROVE  Alone("complete")'
      BY <1>4, TypesApart, Cancels, Lists, Clears DEF Alone
<1>5. ASSUME NEW r \in Requests, DeleteUser(r)
      PROVE  Alone("complete")'
      BY <1>5, TypesApart, Left DEF DeleteUser, Alone
<1>6. ASSUME NEW r \in Requests, NEW j \in Jobs, CreateJob(r, j)
      PROVE  Alone("complete")'
      BY <1>6, TypesApart, Left DEF CreateJob, Alone
<1>7. ASSUME NEW i \in Ids, BeginUpload(i) \/ Put(i) \/ ObjectAges(i) \/ RowAges(i)
      PROVE  Alone("complete")'
      BY <1>7 DEF BeginUpload, Put, ObjectAges, RowAges, Alone
<1>8. ASSUME NEW j \in Jobs,
             \/ Take(j) \/ KeepCopy(j) \/ Succeed(j) \/ Stop(j)
             \/ (\E from \in {"queued", "paused"}, to \in {"queued", "paused", "ended"} : Waits(j, from, to))
      PROVE  Alone("complete")'
      BY <1>8 DEF Take, KeepCopy, Succeed, Stop, Waits, Alone
<1>9. CASE \/ SweepList \/ SweepPick \/ SweepBytes \/ SweepRow \/ ListObjects \/ ListNames \/ SweepOrphan
           \/ SweepEnds
      BY <1>9
         DEF SweepList, SweepPick, SweepBytes, SweepRow, ListObjects, ListNames, SweepOrphan, SweepEnds,
             Alone, Sweeps
<1>10. ASSUME NEW r \in Requests, GoesAway(r)
       PROVE  Alone("complete")'
       BY <1>10, TypesApart, Left DEF GoesAway, Alone
<1>11. CASE Crash \/ UNCHANGED vars
       BY <1>11 DEF Crash, vars, Alone, Idle
<1> QED
    BY <1>1, <1>2, <1>3, <1>4, <1>5, <1>6, <1>7, <1>8, <1>9, <1>10, <1>11 DEF Next, Serve, Job, Sweep

\* A completed upload about to get its row has its object.
LEMMA CompletesFitKept ==
    ASSUME TypeOK, UploadedBefore, UploadsOwn, Alone("upload"), CompletesOwn, AccountsOwn, SweepOwn,
           Straight', CompletesFit, CompletesApart, Alone("complete"), [Next]_vars
    PROVE  CompletesFit'
<1>1. ASSUME NEW r \in Requests,
             \/ UploadRefused(r) \/ UploadStored(r) \/ DropLocal(r) \/ UploadCreate(r) \/ CompleteStat(r)
             \/ CompleteQuota(r)
      PROVE  CompletesFit'
      BY <1>1, TypesApart, Left, Moved
         DEF UploadRefused, UploadStored, DropLocal, UploadCreate, CompleteStat, CompleteQuota,
             CompletesOwn, CompletesFit, RowGoesToo, At, PlaceType, Marked
<1>2. ASSUME NEW r \in Requests,
             \/ CompleteProbe(r) \/ CompleteDrop(r) \/ CompleteCreate(r) \/ DeleteLook(r) \/ DeleteRow(r)
             \/ DeleteBytes(r) \/ SubmitRefused(r)
      PROVE  CompletesFit'
      BY <1>2, TypesApart, Moved, Left
         DEF CompleteProbe, CompleteDrop, CompleteCreate, DeleteLook, DeleteRow, DeleteBytes,
             SubmitRefused, Alone, CompletesOwn, CompletesFit, CompletesApart, Completing, Leaving,
             RowGoesToo, At, PlaceType
<1>3. ASSUME NEW r \in Requests, NEW i \in Ids,
             Upload(r, i) \/ CompleteUpload(r, i) \/ Delete(r, i) \/ Submit(r, i)
      PROVE  CompletesFit'
      BY <1>3, TypesApart
         DEF Upload, CompleteUpload, Delete, Submit, CompletesOwn, CompletesFit, RowGoesToo, At, PlaceType,
             Marked, Set, RequestType, Free, Idle
<1>4. ASSUME NEW r \in Requests, NEW u \in Users, DeleteAccount(r, u)
      PROVE  CompletesFit'
      BY <1>4 DEF DeleteAccount, SweepOwn, CompletesFit, RowGoesToo, At, Set, Free, Idle
<1>5. ASSUME NEW r \in Requests, CancelPaused(r) \/ ListRecordings(r) \/ AccountBytes(r)
      PROVE  CompletesFit'
      BY <1>5, TypesApart, Cancels, Lists, Clears
         DEF CompletesOwn, AccountsOwn, CompletesFit, RowGoesToo, At, PlaceType
<1>6. ASSUME NEW r \in Requests, DeleteUser(r)
      PROVE  CompletesFit'
      BY <1>6, TypesApart, Left DEF DeleteUser, AccountsOwn, CompletesFit, RowGoesToo, At
<1>7. ASSUME NEW r \in Requests, NEW j \in Jobs, CreateJob(r, j)
      PROVE  CompletesFit'
      BY <1>7, TypesApart, Left DEF CreateJob, CompletesFit, RowGoesToo, At
<1>8. ASSUME NEW i \in Ids, BeginUpload(i) \/ Put(i) \/ ObjectAges(i) \/ RowAges(i)
      PROVE  CompletesFit'
      BY <1>8, TypesApart
         DEF BeginUpload, Put, ObjectAges, RowAges, CompletesOwn, CompletesFit, RowGoesToo, At, PlaceType
<1>9. ASSUME NEW j \in Jobs,
             \/ Take(j) \/ KeepCopy(j) \/ Succeed(j) \/ Stop(j)
             \/ (\E from \in {"queued", "paused"}, to \in {"queued", "paused", "ended"} : Waits(j, from, to))
      PROVE  CompletesFit'
      BY <1>9, TypesApart
         DEF Take, KeepCopy, Succeed, Stop, Waits, CompletesOwn, CompletesFit, RowGoesToo, At, PlaceType
<1>10. CASE \/ SweepList \/ SweepPick \/ SweepBytes \/ SweepRow \/ ListObjects \/ ListNames \/ SweepOrphan
            \/ SweepEnds
       BY <1>10, TypesApart
          DEF SweepList, SweepPick, SweepBytes, SweepRow, ListObjects, ListNames, SweepOrphan, SweepEnds,
              CompletesOwn, SweepOwn, CompletesFit, CompletesApart, Completing, Expired, RowGoesToo, At,
              PlaceType, Sweeps
<1>11. ASSUME NEW r \in Requests, GoesAway(r)
       PROVE  CompletesFit'
       BY <1>11, TypesApart, Shapes, Left
          DEF GoesAway, UploadedBefore, HasRead, Uploading, UploadsOwn, Alone, CompletesOwn, AccountsOwn,
              SweepOwn, CompletesFit, CompletesApart, Completing, Expired, Leaving, RowGoesToo, At,
              PlaceType, Home, Bytes, Marked, Straight, SweepType, Expiring, Orphaning, Uploads, Completes,
              Deletes, Closings
<1>12. CASE Crash \/ UNCHANGED vars
       BY <1>12 DEF Crash, vars, CompletesFit, RowGoesToo, At, Idle
<1> QED
    BY <1>1, <1>2, <1>3, <1>4, <1>5, <1>6, <1>7, <1>8, <1>9, <1>10, <1>11, <1>12 DEF Next, Serve, Job, Sweep

\* An upload about to get its row has its bytes.
LEMMA UploadsFitKept ==
    ASSUME TypeOK, UploadedBefore, UploadsOwn, Alone("upload"), CompletesOwn, AccountsOwn, SweepOwn,
           UploadsFit, [Next]_vars
    PROVE  UploadsFit'
<1>1. ASSUME NEW r \in Requests,
             \/ UploadRefused(r) \/ UploadStored(r) \/ DropLocal(r) \/ UploadCreate(r) \/ CompleteStat(r)
             \/ CompleteQuota(r) \/ CompleteProbe(r) \/ CompleteDrop(r) \/ CompleteCreate(r)
             \/ DeleteLook(r) \/ DeleteRow(r) \/ DeleteBytes(r) \/ SubmitRefused(r)
      PROVE  UploadsFit'
      BY <1>1, TypesApart, Left, Moved
         DEF UploadRefused, UploadStored, DropLocal, UploadCreate, CompleteStat, CompleteQuota,
             CompleteProbe, CompleteDrop, CompleteCreate, DeleteLook, DeleteRow, DeleteBytes,
             SubmitRefused, UploadedBefore, HasRead, Uploading, UploadsOwn, Alone, CompletesOwn,
             UploadsFit, At, PlaceType, Marked
<1>2. ASSUME NEW r \in Requests, NEW i \in Ids, Upload(r, i)
      PROVE  UploadsFit'
      BY <1>2, TypesApart DEF Upload, UploadsOwn, UploadsFit, PlaceType, Set
<1>3. ASSUME NEW r \in Requests, NEW i \in Ids, CompleteUpload(r, i)
      PROVE  UploadsFit'
      BY <1>3 DEF CompleteUpload, UploadsFit, Set
<1>4. ASSUME NEW r \in Requests, NEW i \in Ids, Delete(r, i) \/ Submit(r, i)
      PROVE  UploadsFit'
      BY <1>4, TypesApart DEF Delete, Submit, UploadsFit, Set, RequestType
<1>5. ASSUME NEW r \in Requests, NEW u \in Users, DeleteAccount(r, u)
      PROVE  UploadsFit'
      BY <1>5 DEF DeleteAccount, UploadsFit, Set
<1>6. ASSUME NEW r \in Requests, CancelPaused(r) \/ ListRecordings(r) \/ AccountBytes(r)
      PROVE  UploadsFit'
      BY <1>6, TypesApart, Cancels, Lists, Clears
         DEF UploadedBefore, HasRead, Uploading, UploadsOwn, AccountsOwn, UploadsFit, PlaceType
<1>7. ASSUME NEW r \in Requests, DeleteUser(r)
      PROVE  UploadsFit'
      BY <1>7, TypesApart, Left DEF DeleteUser, UploadsFit
<1>8. ASSUME NEW r \in Requests, NEW j \in Jobs, CreateJob(r, j)
      PROVE  UploadsFit'
      BY <1>8, TypesApart, Left DEF CreateJob, UploadsFit
<1>9. ASSUME NEW i \in Ids, BeginUpload(i) \/ Put(i) \/ ObjectAges(i) \/ RowAges(i)
      PROVE  UploadsFit'
      BY <1>9, TypesApart DEF BeginUpload, Put, ObjectAges, RowAges, UploadsOwn, UploadsFit, PlaceType
<1>10. ASSUME NEW j \in Jobs,
              \/ Take(j) \/ KeepCopy(j) \/ Succeed(j) \/ Stop(j)
              \/ (\E from \in {"queued", "paused"}, to \in {"queued", "paused", "ended"} : Waits(j, from, to))
       PROVE  UploadsFit'
       BY <1>10, TypesApart DEF Take, KeepCopy, Succeed, Stop, Waits, UploadsOwn, UploadsFit, PlaceType
<1>11. CASE \/ SweepList \/ SweepPick \/ SweepBytes \/ SweepRow \/ ListObjects \/ ListNames \/ SweepOrphan
            \/ SweepEnds
       BY <1>11, TypesApart
          DEF SweepList, SweepPick, SweepBytes, SweepRow, ListObjects, ListNames, SweepOrphan, SweepEnds,
              UploadedBefore, HasRead, Uploading, UploadsOwn, SweepOwn, UploadsFit, PlaceType, Sweeps
<1>12. ASSUME NEW r \in Requests, GoesAway(r)
       PROVE  UploadsFit'
       BY <1>12, TypesApart, Left DEF GoesAway, UploadsFit
<1>13. CASE Crash \/ UNCHANGED vars
       BY <1>13 DEF Crash, vars, UploadsFit, Idle
<1> QED
    BY <1>1, <1>2, <1>3, <1>4, <1>5, <1>6, <1>7, <1>8, <1>9, <1>10, <1>11, <1>12, <1>13
       DEF Next, Serve, Job, Sweep

\* An object the sweep takes for an orphan has no row.
LEMMA OrphansFitKept ==
    ASSUME TypeOK, SweepOwn, Straight', OrphansFit, [Next]_vars
    PROVE  OrphansFit'
<1>1. ASSUME NEW r \in Requests,
             \/ UploadRefused(r) \/ UploadStored(r) \/ DropLocal(r) \/ UploadCreate(r) \/ CompleteStat(r)
             \/ CompleteQuota(r) \/ CompleteProbe(r) \/ CompleteDrop(r) \/ CompleteCreate(r)
             \/ DeleteLook(r) \/ DeleteRow(r) \/ DeleteBytes(r) \/ SubmitRefused(r)
      PROVE  OrphansFit'
      BY <1>1, TypesApart
         DEF UploadRefused, UploadStored, DropLocal, UploadCreate, CompleteStat, CompleteQuota,
             CompleteProbe, CompleteDrop, CompleteCreate, DeleteLook, DeleteRow, DeleteBytes,
             SubmitRefused, SweepOwn, OrphansFit, RowsType, Marked, Straight
<1>2. ASSUME NEW r \in Requests, NEW i \in Ids,
             Upload(r, i) \/ CompleteUpload(r, i) \/ Delete(r, i) \/ Submit(r, i)
      PROVE  OrphansFit'
      BY <1>2 DEF Upload, CompleteUpload, Delete, Submit, OrphansFit, Marked
<1>3. ASSUME NEW r \in Requests, NEW u \in Users, DeleteAccount(r, u)
      PROVE  OrphansFit'
      BY <1>3 DEF DeleteAccount, OrphansFit
<1>4. ASSUME NEW r \in Requests, CancelPaused(r) \/ ListRecordings(r) \/ AccountBytes(r)
      PROVE  OrphansFit'
      BY <1>4, TypesApart, Cancels, Lists, Clears DEF OrphansFit
<1>5. ASSUME NEW r \in Requests, DeleteUser(r)
      PROVE  OrphansFit'
      BY <1>5, TypesApart DEF DeleteUser, SweepOwn, OrphansFit
<1>6. ASSUME NEW r \in Requests, NEW j \in Jobs, CreateJob(r, j)
      PROVE  OrphansFit'
      BY <1>6 DEF CreateJob, OrphansFit
<1>7. ASSUME NEW i \in Ids, BeginUpload(i) \/ Put(i) \/ ObjectAges(i) \/ RowAges(i)
      PROVE  OrphansFit'
      BY <1>7, TypesApart DEF BeginUpload, Put, ObjectAges, RowAges, SweepOwn, OrphansFit, RowsType
<1>8. ASSUME NEW j \in Jobs,
             \/ Take(j) \/ KeepCopy(j) \/ Succeed(j) \/ Stop(j)
             \/ (\E from \in {"queued", "paused"}, to \in {"queued", "paused", "ended"} : Waits(j, from, to))
      PROVE  OrphansFit'
      BY <1>8, TypesApart DEF Take, KeepCopy, Succeed, Stop, Waits, SweepOwn, OrphansFit, RowsType
<1>9. CASE SweepList
      BY <1>9 DEF SweepList, OrphansFit, Sweeps
<1>10. CASE SweepPick
       BY <1>10 DEF SweepPick, OrphansFit, Sweeps
<1>11. CASE SweepBytes
       BY <1>11 DEF SweepBytes, OrphansFit, Sweeps
<1>12. CASE SweepRow
       BY <1>12 DEF SweepRow, OrphansFit, Sweeps
<1>13. CASE ListObjects \/ ListNames
       BY <1>13 DEF ListObjects, ListNames, OrphansFit, Sweeps
<1>14. CASE SweepOrphan
       BY <1>14 DEF SweepOrphan, OrphansFit, Sweeps
<1>15. CASE SweepEnds
       BY <1>15 DEF SweepEnds, OrphansFit, Sweeps
<1>16. ASSUME NEW r \in Requests, GoesAway(r)
       PROVE  OrphansFit'
       BY <1>16 DEF GoesAway, OrphansFit
<1>17. CASE Crash \/ UNCHANGED vars
       BY <1>17 DEF Crash, vars, OrphansFit
<1> QED
    BY <1>1, <1>2, <1>3, <1>4, <1>5, <1>6, <1>7, <1>8, <1>9, <1>10, <1>11, <1>12, <1>13, <1>14, <1>15,
       <1>16, <1>17 DEF Next, Serve, Job, Sweep

\* A row has its bytes, unless it is about to go itself.
LEMMA RowsHaveBytesKept ==
    ASSUME TypeOK, UploadedBefore, UploadsOwn, CompletesOwn, AccountsOwn, SweepOwn, Straight', RowsGoFirst,
           CompletesApart, CompletesFit, UploadsFit, OrphansFit, RowsHaveBytes, [Next]_vars
    PROVE  RowsHaveBytes'
<1>1. ASSUME NEW r \in Requests,
             \/ UploadRefused(r) \/ UploadStored(r) \/ DropLocal(r) \/ CompleteStat(r) \/ CompleteQuota(r)
             \/ CompleteProbe(r)
      PROVE  RowsHaveBytes'
      BY <1>1, TypesApart, Left, Moved
         DEF UploadRefused, UploadStored, DropLocal, CompleteStat, CompleteQuota, CompleteProbe,
             UploadedBefore, Uploading, RowsHaveBytes, RowGoesToo, At, PlaceType, Home, Marked
<1>2. ASSUME NEW r \in Requests, UploadCreate(r) \/ GoesAway(r)
      PROVE  RowsHaveBytes'
      BY <1>2, UploadCreateHasBytes, GoesAwayHasBytes
<1>3. ASSUME NEW r \in Requests, CompleteDrop(r)
      PROVE  RowsHaveBytes'
      BY <1>3, TypesApart, Left
         DEF CompleteDrop, CompletesApart, Completing, RowsHaveBytes, RowGoesToo, At, Home
<1>4. ASSUME NEW r \in Requests, CompleteCreate(r) \/ DeleteLook(r)
      PROVE  RowsHaveBytes'
      BY <1>4, TypesApart, Shapes, NoneAssumption, Left, Moved
         DEF CompleteCreate, DeleteLook, UploadedBefore, UploadsOwn, CompletesOwn, SweepOwn,
             CompletesApart, Completing, RowsHaveBytes, RowsGoFirst, CompletesFit, UploadsFit, OrphansFit,
             Leaving, RowGoesToo, At, RowsType, Home, Marked, Straight, SweepType
<1>5. ASSUME NEW r \in Requests, DeleteRow(r) \/ DeleteBytes(r) \/ SubmitRefused(r)
      PROVE  RowsHaveBytes'
      BY <1>5, TypesApart, Moved, Left
         DEF DeleteRow, DeleteBytes, SubmitRefused, RowsHaveBytes, RowsGoFirst, Leaving, RowGoesToo, At,
             PlaceType, RowsType, Home
<1>6. ASSUME NEW r \in Requests, NEW i \in Ids,
             Upload(r, i) \/ CompleteUpload(r, i) \/ Delete(r, i) \/ Submit(r, i)
      PROVE  RowsHaveBytes'
      BY <1>6, TypesApart
         DEF Upload, CompleteUpload, Delete, Submit, UploadedBefore, RowsHaveBytes, RowGoesToo, At,
             PlaceType, Home, Marked, Set, RequestType, Free, Idle
<1>7. ASSUME NEW r \in Requests, NEW u \in Users, DeleteAccount(r, u)
      PROVE  RowsHaveBytes'
      BY <1>7 DEF DeleteAccount, RowsHaveBytes, RowGoesToo, At, Home, Set, Free, Idle
<1>8. ASSUME NEW r \in Requests, CancelPaused(r) \/ ListRecordings(r) \/ AccountBytes(r)
      PROVE  RowsHaveBytes'
      BY <1>8, TypesApart, Cancels, Lists, Clears
         DEF AccountsOwn, RowsHaveBytes, RowGoesToo, At, PlaceType, Home
<1>9. ASSUME NEW r \in Requests, DeleteUser(r)
      PROVE  RowsHaveBytes'
      BY <1>9, TypesApart, Left DEF DeleteUser, AccountsOwn, RowsHaveBytes, RowGoesToo, At, Home
<1>10. ASSUME NEW r \in Requests, NEW j \in Jobs, CreateJob(r, j)
       PROVE  RowsHaveBytes'
       BY <1>10, TypesApart, Left DEF CreateJob, RowsHaveBytes, RowGoesToo, At, Home
<1>11. ASSUME NEW i \in Ids, BeginUpload(i) \/ Put(i) \/ ObjectAges(i) \/ RowAges(i)
       PROVE  RowsHaveBytes'
       BY <1>11, TypesApart
          DEF BeginUpload, Put, ObjectAges, RowAges, RowsHaveBytes, RowGoesToo, At, PlaceType, RowsType,
              Home
<1>12. ASSUME NEW j \in Jobs,
              \/ Take(j) \/ KeepCopy(j) \/ Succeed(j) \/ Stop(j)
              \/ (\E from \in {"queued", "paused"}, to \in {"queued", "paused", "ended"} : Waits(j, from, to))
       PROVE  RowsHaveBytes'
       BY <1>12, TypesApart
          DEF Take, KeepCopy, Succeed, Stop, Waits, RowsHaveBytes, RowGoesToo, At, PlaceType, RowsType,
              Home
<1>13. CASE \/ SweepList \/ SweepPick \/ SweepBytes \/ SweepRow \/ ListObjects \/ ListNames \/ SweepOrphan
            \/ SweepEnds
       BY <1>13, TypesApart
          DEF SweepList, SweepPick, SweepBytes, SweepRow, ListObjects, ListNames, SweepOrphan, SweepEnds,
              RowsHaveBytes, OrphansFit, RowGoesToo, At, PlaceType, RowsType, Home, SweepType, Expiring,
              Orphaning, Sweeps
<1>14. CASE Crash
       BY <1>14, CrashHasBytes
<1>15. CASE UNCHANGED vars
       BY <1>15 DEF vars, RowsHaveBytes, RowGoesToo, At, Home
<1> QED
    BY <1>1, <1>2, <1>3, <1>4, <1>5, <1>6, <1>7, <1>8, <1>9, <1>10, <1>11, <1>12, <1>13, <1>14, <1>15
       DEF Next, Serve, Job, Sweep

---------------------------------------------------------------------------
(* Analyses and their recordings.                                          *)

\* A deletion past its look removes no recording of an analysis that may still
\* run.
LEMMA DeletesSpareKept ==
    ASSUME TypeOK, Quiet', DeletesSpare, [Next]_vars
    PROVE  DeletesSpare'
<1>1. ASSUME NEW r \in Requests,
             \/ UploadRefused(r) \/ UploadStored(r) \/ DropLocal(r) \/ UploadCreate(r) \/ CompleteStat(r)
             \/ CompleteQuota(r) \/ CompleteProbe(r) \/ CompleteDrop(r) \/ CompleteCreate(r)
             \/ DeleteLook(r) \/ DeleteRow(r) \/ DeleteBytes(r) \/ SubmitRefused(r)
      PROVE  DeletesSpare'
      BY <1>1, TypesApart, Left, Moved
         DEF UploadRefused, UploadStored, DropLocal, UploadCreate, CompleteStat, CompleteQuota,
             CompleteProbe, CompleteDrop, CompleteCreate, DeleteLook, DeleteRow, DeleteBytes,
             SubmitRefused, DeletesSpare, InUse, At, Marked
<1>2. ASSUME NEW r \in Requests, NEW i \in Ids,
             Upload(r, i) \/ CompleteUpload(r, i) \/ Delete(r, i) \/ Submit(r, i)
      PROVE  DeletesSpare'
      BY <1>2, TypesApart
         DEF Upload, CompleteUpload, Delete, Submit, DeletesSpare, InUse, Marked, Set, RequestType
<1>3. ASSUME NEW r \in Requests, NEW u \in Users, DeleteAccount(r, u)
      PROVE  DeletesSpare'
      BY <1>3, TypesApart DEF DeleteAccount, DeletesSpare, InUse, Set, RequestType
<1>4. ASSUME NEW r \in Requests, CancelPaused(r) \/ ListRecordings(r) \/ AccountBytes(r)
      PROVE  DeletesSpare'
      BY <1>4, TypesApart, Cancels, Lists, Clears DEF DeletesSpare, InUse, Active, JobsType
<1>5. ASSUME NEW r \in Requests, DeleteUser(r)
      PROVE  DeletesSpare'
      BY <1>5, TypesApart, Left DEF DeleteUser, DeletesSpare, InUse, Active
<1>6. ASSUME NEW r \in Requests, NEW j \in Jobs, CreateJob(r, j)
      PROVE  DeletesSpare'
      BY <1>6, TypesApart, Shapes, Left
         DEF CreateJob, DeletesSpare, InUse, Active, At, JobsType, Marked, Quiet, Straight, Deleting
<1>7. ASSUME NEW i \in Ids, BeginUpload(i) \/ Put(i) \/ ObjectAges(i) \/ RowAges(i)
      PROVE  DeletesSpare'
      BY <1>7 DEF BeginUpload, Put, ObjectAges, RowAges, DeletesSpare, InUse
<1>8. ASSUME NEW j \in Jobs, Take(j) \/ KeepCopy(j)
      PROVE  DeletesSpare'
      BY <1>8, TypesApart DEF Take, KeepCopy, DeletesSpare, InUse, JobsType
<1>9. ASSUME NEW j \in Jobs, Succeed(j)
      PROVE  DeletesSpare'
      BY <1>9, TypesApart DEF Succeed, JobsType
<1>10. ASSUME NEW j \in Jobs, Stop(j)
       PROVE  DeletesSpare'
       BY <1>10, TypesApart DEF Stop, JobsType
<1>11. ASSUME NEW j \in Jobs,
              (\E from \in {"queued", "paused"}, to \in {"queued", "paused", "ended"} : Waits(j, from, to))
       PROVE  DeletesSpare'
       BY <1>11 DEF Waits, DeletesSpare, InUse, Active
<1>12. CASE \/ SweepList \/ SweepPick \/ SweepBytes \/ SweepRow \/ ListObjects \/ ListNames \/ SweepOrphan
            \/ SweepEnds
       BY <1>12
          DEF SweepList, SweepPick, SweepBytes, SweepRow, ListObjects, ListNames, SweepOrphan, SweepEnds,
              DeletesSpare, InUse, Sweeps
<1>13. ASSUME NEW r \in Requests, GoesAway(r)
       PROVE  DeletesSpare'
       BY <1>13, TypesApart, Left DEF GoesAway, DeletesSpare, InUse
<1>14. CASE Crash \/ UNCHANGED vars
       BY <1>14 DEF Crash, vars, DeletesSpare, InUse, Idle
<1> QED
    BY <1>1, <1>2, <1>3, <1>4, <1>5, <1>6, <1>7, <1>8, <1>9, <1>10, <1>11, <1>12, <1>13, <1>14
       DEF Next, Serve, Job, Sweep

\* The recording the sweep removes has no analysis that may still run.
LEMMA SweepSparesKept ==
    ASSUME TypeOK, Quiet', SweepSpares, [Next]_vars
    PROVE  SweepSpares'
<1>1. ASSUME NEW r \in Requests,
             \/ UploadRefused(r) \/ UploadStored(r) \/ DropLocal(r) \/ UploadCreate(r) \/ CompleteStat(r)
             \/ CompleteQuota(r) \/ CompleteProbe(r) \/ CompleteDrop(r) \/ CompleteCreate(r)
             \/ DeleteLook(r) \/ DeleteRow(r) \/ DeleteBytes(r) \/ SubmitRefused(r)
      PROVE  SweepSpares'
      BY <1>1
         DEF UploadRefused, UploadStored, DropLocal, UploadCreate, CompleteStat, CompleteQuota,
             CompleteProbe, CompleteDrop, CompleteCreate, DeleteLook, DeleteRow, DeleteBytes,
             SubmitRefused, SweepSpares, InUse, Expired, Marked
<1>2. ASSUME NEW r \in Requests, NEW i \in Ids,
             Upload(r, i) \/ CompleteUpload(r, i) \/ Delete(r, i) \/ Submit(r, i)
      PROVE  SweepSpares'
      BY <1>2 DEF Upload, CompleteUpload, Delete, Submit, SweepSpares, InUse, Expired, Marked
<1>3. ASSUME NEW r \in Requests, NEW u \in Users, DeleteAccount(r, u)
      PROVE  SweepSpares'
      BY <1>3 DEF DeleteAccount, SweepSpares, InUse, Expired
<1>4. ASSUME NEW r \in Requests, CancelPaused(r) \/ ListRecordings(r) \/ AccountBytes(r)
      PROVE  SweepSpares'
      BY <1>4, TypesApart, Cancels, Lists, Clears DEF SweepSpares, InUse, Active, Expired, JobsType
<1>5. ASSUME NEW r \in Requests, DeleteUser(r)
      PROVE  SweepSpares'
      BY <1>5 DEF DeleteUser, SweepSpares, InUse, Active, Expired
<1>6. ASSUME NEW r \in Requests, NEW j \in Jobs, CreateJob(r, j)
      PROVE  SweepSpares'
      BY <1>6 DEF CreateJob, SweepSpares, InUse, Expired, Marked, Quiet, Straight, Deleting
<1>7. ASSUME NEW i \in Ids, BeginUpload(i) \/ Put(i) \/ ObjectAges(i) \/ RowAges(i)
      PROVE  SweepSpares'
      BY <1>7 DEF BeginUpload, Put, ObjectAges, RowAges, SweepSpares, InUse, Expired
<1>8. ASSUME NEW j \in Jobs, Take(j) \/ KeepCopy(j)
      PROVE  SweepSpares'
      BY <1>8, TypesApart DEF Take, KeepCopy, SweepSpares, InUse, Expired, JobsType
<1>9. ASSUME NEW j \in Jobs, Succeed(j)
      PROVE  SweepSpares'
      BY <1>9, TypesApart DEF Succeed, JobsType
<1>10. ASSUME NEW j \in Jobs, Stop(j)
       PROVE  SweepSpares'
       BY <1>10, TypesApart DEF Stop, JobsType
<1>11. ASSUME NEW j \in Jobs,
              (\E from \in {"queued", "paused"}, to \in {"queued", "paused", "ended"} : Waits(j, from, to))
       PROVE  SweepSpares'
       BY <1>11 DEF Waits, SweepSpares, InUse, Active, Expired
<1>12. CASE \/ SweepList \/ SweepPick \/ SweepBytes \/ SweepRow \/ ListObjects \/ ListNames \/ SweepOrphan
            \/ SweepEnds
       BY <1>12, TypesApart
          DEF SweepList, SweepPick, SweepBytes, SweepRow, ListObjects, ListNames, SweepOrphan, SweepEnds,
              SweepSpares, InUse, Expired, SweepType, Expiring, Orphaning, Sweeps
<1>13. ASSUME NEW r \in Requests, GoesAway(r)
       PROVE  SweepSpares'
       BY <1>13 DEF GoesAway, SweepSpares, InUse, Expired
<1>14. CASE Crash \/ UNCHANGED vars
       BY <1>14 DEF Crash, vars, SweepSpares, InUse, Expired
<1> QED
    BY <1>1, <1>2, <1>3, <1>4, <1>5, <1>6, <1>7, <1>8, <1>9, <1>10, <1>11, <1>12, <1>13, <1>14
       DEF Next, Serve, Job, Sweep

\* Past its cancels, the deletion of an account meets no analysis that may
\* still run.
LEMMA AccountsSpareKept ==
    ASSUME TypeOK, Quiet', AccountsSpare, [Next]_vars
    PROVE  AccountsSpare'
<1>1. ASSUME NEW r \in Requests,
             \/ UploadRefused(r) \/ UploadStored(r) \/ DropLocal(r) \/ UploadCreate(r) \/ CompleteStat(r)
             \/ CompleteQuota(r) \/ CompleteProbe(r) \/ CompleteDrop(r) \/ CompleteCreate(r)
             \/ DeleteLook(r) \/ DeleteRow(r) \/ DeleteBytes(r) \/ SubmitRefused(r)
      PROVE  AccountsSpare'
      BY <1>1, TypesApart, Left, Moved
         DEF UploadRefused, UploadStored, DropLocal, UploadCreate, CompleteStat, CompleteQuota,
             CompleteProbe, CompleteDrop, CompleteCreate, DeleteLook, DeleteRow, DeleteBytes,
             SubmitRefused, AccountsSpare, OwnedBy, At, Marked
<1>2. ASSUME NEW r \in Requests, NEW i \in Ids,
             Upload(r, i) \/ CompleteUpload(r, i) \/ Delete(r, i) \/ Submit(r, i)
      PROVE  AccountsSpare'
      BY <1>2, TypesApart
         DEF Upload, CompleteUpload, Delete, Submit, AccountsSpare, OwnedBy, Marked, Set, RequestType
<1>3. ASSUME NEW r \in Requests, NEW u \in Users, DeleteAccount(r, u)
      PROVE  AccountsSpare'
      BY <1>3 DEF DeleteAccount, AccountsSpare, OwnedBy, Active, Set
<1>4. ASSUME NEW r \in Requests, CancelPaused(r) \/ ListRecordings(r) \/ AccountBytes(r)
      PROVE  AccountsSpare'
      BY <1>4, TypesApart, Cancels, Lists, Clears DEF AccountsSpare, OwnedBy, Active, JobsType, Marked, Quiet
<1>5. ASSUME NEW r \in Requests, DeleteUser(r)
      PROVE  AccountsSpare'
      BY <1>5, TypesApart, Left DEF DeleteUser, AccountsSpare, OwnedBy, Active
<1>6. ASSUME NEW r \in Requests, NEW j \in Jobs, CreateJob(r, j)
      PROVE  AccountsSpare'
      BY <1>6, CreateJobSpares
<1>7. ASSUME NEW i \in Ids, BeginUpload(i) \/ Put(i) \/ ObjectAges(i) \/ RowAges(i)
      PROVE  AccountsSpare'
      BY <1>7 DEF BeginUpload, Put, ObjectAges, RowAges, AccountsSpare, OwnedBy
<1>8. ASSUME NEW j \in Jobs, Take(j) \/ KeepCopy(j)
      PROVE  AccountsSpare'
      BY <1>8, TypesApart DEF Take, KeepCopy, AccountsSpare, OwnedBy, JobsType
<1>9. ASSUME NEW j \in Jobs, Succeed(j)
      PROVE  AccountsSpare'
      BY <1>9, TypesApart DEF Succeed, JobsType
<1>10. ASSUME NEW j \in Jobs, Stop(j)
       PROVE  AccountsSpare'
       BY <1>10, TypesApart DEF Stop, JobsType
<1>11. ASSUME NEW j \in Jobs,
              (\E from \in {"queued", "paused"}, to \in {"queued", "paused", "ended"} : Waits(j, from, to))
       PROVE  AccountsSpare'
       BY <1>11 DEF Waits, AccountsSpare, OwnedBy, Active
<1>12. CASE \/ SweepList \/ SweepPick \/ SweepBytes \/ SweepRow \/ ListObjects \/ ListNames \/ SweepOrphan
            \/ SweepEnds
       BY <1>12
          DEF SweepList, SweepPick, SweepBytes, SweepRow, ListObjects, ListNames, SweepOrphan, SweepEnds,
              AccountsSpare, OwnedBy, Sweeps
<1>13. ASSUME NEW r \in Requests, GoesAway(r)
       PROVE  AccountsSpare'
       BY <1>13, TypesApart, Left DEF GoesAway, AccountsSpare, OwnedBy
<1>14. CASE Crash \/ UNCHANGED vars
       BY <1>14 DEF Crash, vars, AccountsSpare, OwnedBy, Idle
<1> QED
    BY <1>1, <1>2, <1>3, <1>4, <1>5, <1>6, <1>7, <1>8, <1>9, <1>10, <1>11, <1>12, <1>13, <1>14
       DEF Next, Serve, Job, Sweep

\* A worker belongs to a running job.
LEMMA WorkersRunKept ==
    ASSUME TypeOK, AccountsSpare, WorkersRun, [Next]_vars
    PROVE  WorkersRun'
<1>1. ASSUME NEW r \in Requests,
             \/ UploadRefused(r) \/ UploadStored(r) \/ DropLocal(r) \/ UploadCreate(r) \/ CompleteStat(r)
             \/ CompleteQuota(r) \/ CompleteProbe(r) \/ CompleteDrop(r) \/ CompleteCreate(r)
             \/ DeleteLook(r) \/ DeleteRow(r) \/ DeleteBytes(r) \/ SubmitRefused(r)
      PROVE  WorkersRun'
      BY <1>1
         DEF UploadRefused, UploadStored, DropLocal, UploadCreate, CompleteStat, CompleteQuota,
             CompleteProbe, CompleteDrop, CompleteCreate, DeleteLook, DeleteRow, DeleteBytes,
             SubmitRefused, WorkersRun, Marked
<1>2. ASSUME NEW r \in Requests, NEW i \in Ids,
             Upload(r, i) \/ CompleteUpload(r, i) \/ Delete(r, i) \/ Submit(r, i)
      PROVE  WorkersRun'
      BY <1>2 DEF Upload, CompleteUpload, Delete, Submit, WorkersRun, Marked
<1>3. ASSUME NEW r \in Requests, NEW u \in Users, DeleteAccount(r, u)
      PROVE  WorkersRun'
      BY <1>3 DEF DeleteAccount, WorkersRun
<1>4. ASSUME NEW r \in Requests, CancelPaused(r)
      PROVE  WorkersRun'
      BY <1>4, CancelPausedRuns
<1>5. ASSUME NEW r \in Requests, ListRecordings(r) \/ AccountBytes(r)
      PROVE  WorkersRun'
      BY <1>5, TypesApart, Lists, Clears DEF WorkersRun
<1>6. ASSUME NEW r \in Requests, DeleteUser(r)
      PROVE  WorkersRun'
      BY <1>6 DEF DeleteUser, WorkersRun, Active, At, AccountsSpare
<1>7. ASSUME NEW r \in Requests, NEW j \in Jobs, CreateJob(r, j)
      PROVE  WorkersRun'
      BY <1>7 DEF CreateJob, WorkersRun
<1>8. ASSUME NEW i \in Ids, BeginUpload(i) \/ Put(i) \/ ObjectAges(i) \/ RowAges(i)
      PROVE  WorkersRun'
      BY <1>8 DEF BeginUpload, Put, ObjectAges, RowAges, WorkersRun
<1>9. ASSUME NEW j \in Jobs, Take(j) \/ KeepCopy(j)
      PROVE  WorkersRun'
      BY <1>9, TypesApart DEF Take, KeepCopy, WorkersRun, JobsType
<1>10. ASSUME NEW j \in Jobs, Succeed(j)
       PROVE  WorkersRun'
       BY <1>10, TypesApart DEF Succeed, JobsType
<1>11. ASSUME NEW j \in Jobs, Stop(j)
       PROVE  WorkersRun'
       BY <1>11, TypesApart DEF Stop, JobsType
<1>12. ASSUME NEW j \in Jobs,
              (\E from \in {"queued", "paused"}, to \in {"queued", "paused", "ended"} : Waits(j, from, to))
       PROVE  WorkersRun'
       BY <1>12 DEF Waits, WorkersRun
<1>13. CASE \/ SweepList \/ SweepPick \/ SweepBytes \/ SweepRow \/ ListObjects \/ ListNames \/ SweepOrphan
            \/ SweepEnds
       BY <1>13
          DEF SweepList, SweepPick, SweepBytes, SweepRow, ListObjects, ListNames, SweepOrphan, SweepEnds,
              WorkersRun, Sweeps
<1>14. ASSUME NEW r \in Requests, GoesAway(r)
       PROVE  WorkersRun'
       BY <1>14 DEF GoesAway, WorkersRun
<1>15. CASE Crash \/ UNCHANGED vars
       BY <1>15 DEF Crash, vars, WorkersRun
<1> QED
    BY <1>1, <1>2, <1>3, <1>4, <1>5, <1>6, <1>7, <1>8, <1>9, <1>10, <1>11, <1>12, <1>13, <1>14, <1>15
       DEF Next, Serve, Job, Sweep

\* An analysis that may still run has its recording, with its bytes.
LEMMA JobsHaveInputKept ==
    ASSUME TypeOK, UploadedBefore, AccountsOwn, Quiet', DeletesSpare, SweepSpares, AccountsSpare,
           JobsHaveInput, RowsHaveBytes, OrphansFit, CompletesApart, [Next]_vars
    PROVE  JobsHaveInput'
<1>1. ASSUME NEW r \in Requests,
             \/ UploadRefused(r) \/ UploadStored(r) \/ DropLocal(r) \/ UploadCreate(r) \/ CompleteStat(r)
             \/ CompleteQuota(r) \/ CompleteProbe(r) \/ CompleteDrop(r) \/ CompleteCreate(r)
             \/ DeleteLook(r) \/ DeleteRow(r) \/ DeleteBytes(r) \/ SubmitRefused(r)
      PROVE  JobsHaveInput'
      BY <1>1, TypesApart
         DEF UploadRefused, UploadStored, DropLocal, UploadCreate, CompleteStat, CompleteQuota,
             CompleteProbe, CompleteDrop, CompleteCreate, DeleteLook, DeleteRow, DeleteBytes,
             SubmitRefused, UploadedBefore, Uploading, JobsHaveInput, DeletesSpare, CompletesApart,
             Completing, InUse, At, PlaceType, RowsType, Home, Marked
<1>2. ASSUME NEW r \in Requests, NEW i \in Ids,
             Upload(r, i) \/ CompleteUpload(r, i) \/ Delete(r, i) \/ Submit(r, i)
      PROVE  JobsHaveInput'
      BY <1>2, TypesApart
         DEF Upload, CompleteUpload, Delete, Submit, UploadedBefore, JobsHaveInput, InUse, PlaceType, Home,
             Marked
<1>3. ASSUME NEW r \in Requests, NEW u \in Users, DeleteAccount(r, u)
      PROVE  JobsHaveInput'
      BY <1>3 DEF DeleteAccount, JobsHaveInput, InUse, Home
<1>4. ASSUME NEW r \in Requests, CancelPaused(r) \/ ListRecordings(r)
      PROVE  JobsHaveInput'
      BY <1>4, TypesApart, Cancels, Lists DEF JobsHaveInput, InUse, Active, JobsType, Home
<1>5. ASSUME NEW r \in Requests, AccountBytes(r)
      PROVE  JobsHaveInput'
      BY <1>5, AccountBytesHasInput
<1>6. ASSUME NEW r \in Requests, DeleteUser(r)
      PROVE  JobsHaveInput'
      BY <1>6 DEF DeleteUser, JobsHaveInput, InUse, Active, OwnedBy, Home
<1>7. ASSUME NEW r \in Requests, NEW j \in Jobs, CreateJob(r, j)
      PROVE  JobsHaveInput'
      BY <1>7, CreateJobHasInput
<1>8. ASSUME NEW i \in Ids, BeginUpload(i) \/ Put(i) \/ ObjectAges(i)
      PROVE  JobsHaveInput'
      BY <1>8, TypesApart DEF BeginUpload, Put, ObjectAges, JobsHaveInput, InUse, PlaceType, Home
<1>9. ASSUME NEW i \in Ids, RowAges(i)
      PROVE  JobsHaveInput'
      BY <1>9, RowAgesHasInput
<1>10. ASSUME NEW j \in Jobs, Take(j) \/ KeepCopy(j)
       PROVE  JobsHaveInput'
       BY <1>10, TypesApart DEF Take, KeepCopy, JobsHaveInput, InUse, JobsType, PlaceType, Home
<1>11. ASSUME NEW j \in Jobs, Succeed(j)
       PROVE  JobsHaveInput'
       BY <1>11, TypesApart DEF Succeed, JobsType
<1>12. ASSUME NEW j \in Jobs, Stop(j)
       PROVE  JobsHaveInput'
       BY <1>12, TypesApart DEF Stop, JobsType
<1>13. ASSUME NEW j \in Jobs,
              (\E from \in {"queued", "paused"}, to \in {"queued", "paused", "ended"} : Waits(j, from, to))
       PROVE  JobsHaveInput'
       BY <1>13 DEF Waits, JobsHaveInput, InUse, Active, Home
<1>14. CASE \/ SweepList \/ SweepPick \/ SweepBytes \/ SweepRow \/ ListObjects \/ ListNames \/ SweepOrphan
            \/ SweepEnds
       BY <1>14, TypesApart
          DEF SweepList, SweepPick, SweepBytes, SweepRow, ListObjects, ListNames, SweepOrphan, SweepEnds,
              JobsHaveInput, SweepSpares, OrphansFit, InUse, Expired, PlaceType, RowsType, Home, Sweeps
<1>15. ASSUME NEW r \in Requests, GoesAway(r)
       PROVE  JobsHaveInput'
       BY <1>15 DEF GoesAway, JobsHaveInput, InUse, Home
<1>16. CASE Crash \/ UNCHANGED vars
       BY <1>16 DEF Crash, vars, JobsHaveInput, InUse, Home
<1> QED
    BY <1>1, <1>2, <1>3, <1>4, <1>5, <1>6, <1>7, <1>8, <1>9, <1>10, <1>11, <1>12, <1>13, <1>14, <1>15,
       <1>16 DEF Next, Serve, Job, Sweep

---------------------------------------------------------------------------
(* What is left behind.                                                    *)

\* With an object store, a file on the disk is one that an upload is about to
\* drop.
LEMMA FilesFitKept ==
    ASSUME TypeOK, UploadsOwn, Alone("upload"), Told', FilesFit, [Next]_vars
    PROVE  FilesFit'
<1> SUFFICES ASSUME NEW k \in Ids, objects, "disk" \in place'[k]
             PROVE  \E r \in Requests : request'[r].op = "upload" /\ request'[r].at # "create" /\ request'[r].id = k
  <2>1. objects' = objects
        BY Lasting
  <2> QED
      BY <2>1 DEF FilesFit
<1>1. ASSUME NEW r \in Requests, Upload(r, k)
      PROVE  request'[r].op = "upload" /\ request'[r].at # "create" /\ request'[r].id = k
      BY <1>1, TypesApart DEF Upload, Set, RequestType
<1>2. CASE "disk" \in place[k]
  <2>1. PICK r \in Requests : request[r].op = "upload" /\ request[r].at # "create" /\ request[r].id = k
        BY <1>2 DEF FilesFit
  <2>2. ~UploadRefused(r) /\ ~DropLocal(r)
        BY <2>1, TypesApart DEF UploadRefused, DropLocal, PlaceType
  <2>3. ~UploadCreate(r)
        BY <2>1 DEF UploadCreate, At
  <2> QED
      BY <2>1, <2>2, <2>3, UploadSteps
<1>3. CASE "disk" \notin place[k] /\ \A r \in Requests : ~Upload(r, k)
      BY <1>3, PlaceSteps
<1> QED
    BY <1>1, <1>2, <1>3

\* No copy is kept of what is still being uploaded.
LEMMA UploadsPlainKept ==
    ASSUME TypeOK, UploadedBefore, UploadsPlain, JobsHaveInput, WorkersRun, [Next]_vars
    PROVE  UploadsPlain'
<1>1. ASSUME NEW r \in Requests,
             \/ UploadRefused(r) \/ UploadStored(r) \/ DropLocal(r) \/ UploadCreate(r) \/ CompleteStat(r)
             \/ CompleteQuota(r) \/ CompleteProbe(r) \/ CompleteDrop(r) \/ CompleteCreate(r)
             \/ DeleteLook(r) \/ DeleteRow(r) \/ DeleteBytes(r) \/ SubmitRefused(r)
      PROVE  UploadsPlain'
      BY <1>1, TypesApart, Left, Moved
         DEF UploadRefused, UploadStored, DropLocal, UploadCreate, CompleteStat, CompleteQuota,
             CompleteProbe, CompleteDrop, CompleteCreate, DeleteLook, DeleteRow, DeleteBytes,
             SubmitRefused, Uploading, UploadsPlain, At, PlaceType, Marked
<1>2. ASSUME NEW r \in Requests, NEW i \in Ids, Upload(r, i)
      PROVE  UploadsPlain'
      BY <1>2, TypesApart DEF Upload, Uploading, UploadsPlain, PlaceType, Set
<1>3. ASSUME NEW r \in Requests, NEW i \in Ids, CompleteUpload(r, i)
      PROVE  UploadsPlain'
      BY <1>3 DEF CompleteUpload, Uploading, UploadsPlain, Set
<1>4. ASSUME NEW r \in Requests, NEW i \in Ids, Delete(r, i) \/ Submit(r, i)
      PROVE  UploadsPlain'
      BY <1>4, TypesApart DEF Delete, Submit, Uploading, UploadsPlain, Set, RequestType
<1>5. ASSUME NEW r \in Requests, NEW u \in Users, DeleteAccount(r, u)
      PROVE  UploadsPlain'
      BY <1>5 DEF DeleteAccount, Uploading, UploadsPlain, Set
<1>6. ASSUME NEW r \in Requests, CancelPaused(r) \/ ListRecordings(r) \/ AccountBytes(r)
      PROVE  UploadsPlain'
      BY <1>6, TypesApart, Cancels, Lists, Clears DEF Uploading, UploadsPlain, PlaceType
<1>7. ASSUME NEW r \in Requests, DeleteUser(r)
      PROVE  UploadsPlain'
      BY <1>7, TypesApart, Left DEF DeleteUser, Uploading, UploadsPlain
<1>8. ASSUME NEW r \in Requests, NEW j \in Jobs, CreateJob(r, j)
      PROVE  UploadsPlain'
      BY <1>8, TypesApart, Left DEF CreateJob, Uploading, UploadsPlain
<1>9. ASSUME NEW i \in Ids, BeginUpload(i) \/ Put(i) \/ ObjectAges(i) \/ RowAges(i)
      PROVE  UploadsPlain'
      BY <1>9, TypesApart DEF BeginUpload, Put, ObjectAges, RowAges, Uploading, UploadsPlain, PlaceType
<1>10. ASSUME NEW j \in Jobs,
              \/ Take(j) \/ KeepCopy(j) \/ Succeed(j) \/ Stop(j)
              \/ (\E from \in {"queued", "paused"}, to \in {"queued", "paused", "ended"} : Waits(j, from, to))
       PROVE  UploadsPlain'
       BY <1>10, TypesApart
          DEF Take, KeepCopy, Succeed, Stop, Waits, UploadedBefore, Uploading, UploadsPlain, JobsHaveInput,
              PlaceType, WorkersRun, InUse, JobsType
<1>11. CASE \/ SweepList \/ SweepPick \/ SweepBytes \/ SweepRow \/ ListObjects \/ ListNames \/ SweepOrphan
            \/ SweepEnds
       BY <1>11, TypesApart
          DEF SweepList, SweepPick, SweepBytes, SweepRow, ListObjects, ListNames, SweepOrphan, SweepEnds,
              Uploading, UploadsPlain, PlaceType, Sweeps
<1>12. ASSUME NEW r \in Requests, GoesAway(r)
       PROVE  UploadsPlain'
       BY <1>12, TypesApart, Left DEF GoesAway, Uploading, UploadsPlain
<1>13. CASE Crash \/ UNCHANGED vars
       BY <1>13 DEF Crash, vars, Uploading, UploadsPlain, Idle
<1> QED
    BY <1>1, <1>2, <1>3, <1>4, <1>5, <1>6, <1>7, <1>8, <1>9, <1>10, <1>11, <1>12, <1>13
       DEF Next, Serve, Job, Sweep

\* Every row and every list read that names a recording knows of its kept copy,
\* or its job is about to record it.
LEMMA CopiesToldKept ==
    ASSUME TypeOK, UploadsOwn, Alone("upload"), CompletesOwn, UploadsPlain, CopiesTold, WorkersRun,
           CompletesApart, LeavesNothing, [Next]_vars
    PROVE  CopiesTold'
<1>1. ASSUME NEW r \in Requests,
             \/ UploadRefused(r) \/ UploadStored(r) \/ DropLocal(r) \/ UploadCreate(r) \/ CompleteStat(r)
             \/ CompleteQuota(r) \/ CompleteProbe(r) \/ CompleteDrop(r) \/ DeleteLook(r) \/ DeleteRow(r)
             \/ DeleteBytes(r) \/ SubmitRefused(r)
      PROVE  CopiesTold'
      BY <1>1, TypesApart, Left, Moved
         DEF UploadRefused, UploadStored, DropLocal, UploadCreate, CompleteStat, CompleteQuota,
             CompleteProbe, CompleteDrop, DeleteLook, DeleteRow, DeleteBytes, SubmitRefused, Uploading,
             CopiesTold, Copied, RowTells, DeletesTell, AccountsTell, SweepTells, UploadsPlain, At,
             PlaceType, RowsType, Marked
<1>2. ASSUME NEW r \in Requests, CompleteCreate(r) \/ AccountBytes(r)
      PROVE  CopiesTold'
      BY <1>2, CompleteCreateTold, AccountBytesTold
<1>3. ASSUME NEW r \in Requests, NEW i \in Ids,
             Upload(r, i) \/ CompleteUpload(r, i) \/ Delete(r, i) \/ Submit(r, i)
      PROVE  CopiesTold'
      BY <1>3, TypesApart
         DEF Upload, CompleteUpload, Delete, Submit, CopiesTold, Copied, RowTells, DeletesTell,
             AccountsTell, SweepTells, PlaceType, Marked, Set, RequestType
<1>4. ASSUME NEW r \in Requests, NEW u \in Users, DeleteAccount(r, u)
      PROVE  CopiesTold'
      BY <1>4 DEF DeleteAccount, CopiesTold, Copied, RowTells, DeletesTell, AccountsTell, SweepTells, Set
<1>5. ASSUME NEW r \in Requests, CancelPaused(r) \/ ListRecordings(r)
      PROVE  CopiesTold'
      BY <1>5, TypesApart, Cancels, Lists
         DEF Alone, CopiesTold, Copied, RowTells, DeletesTell, AccountsTell, SweepTells, JobsType,
             WorkersRun
<1>6. ASSUME NEW r \in Requests, DeleteUser(r)
      PROVE  CopiesTold'
      BY <1>6, TypesApart, Left
         DEF DeleteUser, CopiesTold, Copied, RowTells, DeletesTell, AccountsTell, SweepTells
<1>7. ASSUME NEW r \in Requests, NEW j \in Jobs, CreateJob(r, j)
      PROVE  CopiesTold'
      BY <1>7, TypesApart, Left
         DEF CreateJob, CopiesTold, Copied, RowTells, DeletesTell, AccountsTell, SweepTells, WorkersRun
<1>8. ASSUME NEW i \in Ids, BeginUpload(i) \/ Put(i)
      PROVE  CopiesTold'
      BY <1>8, TypesApart
         DEF BeginUpload, Put, CopiesTold, Copied, RowTells, DeletesTell, AccountsTell, SweepTells,
             PlaceType
<1>9. ASSUME NEW i \in Ids, ObjectAges(i)
      PROVE  CopiesTold'
      BY <1>9 DEF ObjectAges, CopiesTold, Copied, RowTells, DeletesTell, AccountsTell, SweepTells
<1>10. ASSUME NEW i \in Ids, RowAges(i)
       PROVE  CopiesTold'
       BY <1>10 DEF RowAges, CopiesTold, Copied, RowTells, DeletesTell, AccountsTell, SweepTells
<1>11. ASSUME NEW j \in Jobs, Take(j) \/ KeepCopy(j)
       PROVE  CopiesTold'
       BY <1>11, TypesApart
          DEF Take, KeepCopy, CopiesTold, Copied, RowTells, DeletesTell, AccountsTell, SweepTells,
              PlaceType, JobsType
<1>12. ASSUME NEW j \in Jobs, Succeed(j)
       PROVE  CopiesTold'
       BY <1>12, TypesApart DEF Succeed, JobsType
<1>13. ASSUME NEW j \in Jobs, Stop(j)
       PROVE  CopiesTold'
       BY <1>13, TypesApart DEF Stop, JobsType
<1>14. ASSUME NEW j \in Jobs,
              (\E from \in {"queued", "paused"}, to \in {"queued", "paused", "ended"} : Waits(j, from, to))
       PROVE  CopiesTold'
       BY <1>14 DEF Waits, CopiesTold, Copied, RowTells, DeletesTell, AccountsTell, SweepTells
<1>15. CASE SweepList \/ SweepPick \/ SweepBytes \/ ListObjects \/ ListNames \/ SweepOrphan \/ SweepEnds
       BY <1>15, TypesApart
          DEF SweepList, SweepPick, SweepBytes, ListObjects, ListNames, SweepOrphan, SweepEnds, CopiesTold,
              Copied, RowTells, DeletesTell, AccountsTell, SweepTells, PlaceType, Snapshot, SweepType,
              Expiring, Orphaning, Sweeps
<1>16. CASE SweepRow
       BY <1>16, SweepRowTold
<1>17. ASSUME NEW r \in Requests, GoesAway(r)
       PROVE  CopiesTold'
       BY <1>17, TypesApart, Left
          DEF GoesAway, CopiesTold, Copied, RowTells, DeletesTell, AccountsTell, SweepTells
<1>18. CASE Crash \/ UNCHANGED vars
       BY <1>18 DEF Crash, vars, CopiesTold, Copied, RowTells, DeletesTell, AccountsTell, SweepTells, Idle
<1> QED
    BY <1>1, <1>2, <1>3, <1>4, <1>5, <1>6, <1>7, <1>8, <1>9, <1>10, <1>11, <1>12, <1>13, <1>14, <1>15,
       <1>16, <1>17, <1>18 DEF Next, Serve, Job, Sweep

\* What the deletion of an account has cleared stays empty.
LEMMA AccountsEmptyKept ==
    ASSUME TypeOK, UploadedBefore, AccountsOwn, FilesFit, CopiesTold, WorkersRun, AccountsSpare,
         AccountsEmpty, [Next]_vars
    PROVE  AccountsEmpty'
<1> SUFFICES ASSUME NEW q \in Requests, At(q, "account", "bytes")', NEW s \in request'[q].listed \ request'[q].todo
             PROVE  Emptied(s.id)'
    BY DEF AccountsEmpty
<1>1. CASE AccountBytes(q)
  <2>1. PICK t \in request[q].todo :
             /\ request[q].op = "account" /\ request[q].at = "bytes"
             /\ request'[q].listed = request[q].listed /\ request'[q].todo = request[q].todo \ {t}
             /\ place' = [place EXCEPT ![t.id] = @ \ Bytes(t)]
        BY <1>1, TypesApart, Clears
  <2>2. /\ t \in Snapshots /\ t.id \in Ids /\ t \in request[q].listed
        /\ s.id \in Ids
        BY <2>1, TypesApart, Shapes DEF Closings, Snapshots, AccountsOwn
  <2>3. ~Uploading(t.id)
        BY <2>1, <2>2 DEF UploadedBefore, HasRead
  <2>4. ~Copied(t.id)
        BY <2>1, <2>2 DEF Copied, WorkersRun, AccountsSpare, OwnedBy, Active, AccountsOwn
  <2>5. "kept" \in place[t.id] => t.kept
        BY <2>1, <2>2, <2>4 DEF CopiesTold, AccountsTell
  <2>6. Emptied(t.id)'
        BY <2>1, <2>2, <2>3, <2>5, BytesEmpty, TypesApart DEF PlaceType, Emptied
  <2>7. CASE s # t
    <3>1. Emptied(s.id)
          BY <2>1, <2>7 DEF AccountsEmpty, At
    <3> QED
        BY <2>1, <2>2, <3>1, TypesApart DEF PlaceType, Emptied
  <2> QED
      BY <2>6, <2>7
<1>2. CASE At(q, "account", "bytes") /\ request'[q] = request[q]
  <2>1. /\ s \in request[q].listed /\ s.id \in Ids /\ Owner[s.id] = request[q].user
        /\ Emptied(s.id)
        BY <1>2, TypesApart, Shapes DEF At, Closings, Snapshots, AccountsOwn, AccountsEmpty
  <2>2. \A r \in Requests : ~Upload(r, s.id)
        BY <1>2, <2>1 DEF Upload, UploadedBefore, HasRead, At
  <2>3. \A j \in Jobs : ~(KeepCopy(j) /\ jobs[j].of = s.id)
        BY <1>2, <2>1 DEF KeepCopy, WorkersRun, AccountsSpare, OwnedBy, Active, At
  <2> QED
      BY <2>1, <2>2, <2>3, PlaceSteps DEF Emptied
<1> QED
    BY <1>1, <1>2, ClosingSteps

\* What the sweep has cleared stays empty until its row is gone.
LEMMA SweepEmptiesKept ==
    ASSUME TypeOK, UploadedBefore, SweepOwn, FilesFit, CopiesTold, WorkersRun, SweepSpares, SweepEmpties,
         [Next]_vars
    PROVE  SweepEmpties'
<1> SUFFICES ASSUME sweep'.at = "row" PROVE Emptied(sweep.now.id)'
    BY DEF SweepEmpties
<1> DEFINE s == sweep.now
<1>1. CASE SweepBytes
  <2>1. /\ sweep.at = "bytes" /\ s \in Snapshots /\ s.id \in Ids /\ s \in sweep.todo
        /\ sweep'.now = s /\ place' = [place EXCEPT ![s.id] = @ \ Bytes(s)]
        BY <1>1, TypesApart DEF SweepBytes, Sweeps, SweepType, Expiring, Orphaning, Snapshots, SweepOwn
  <2>2. ~Uploading(s.id)
        BY <2>1 DEF UploadedBefore, HasRead
  <2>3. ~Copied(s.id)
        BY <2>1 DEF Copied, WorkersRun, SweepSpares, Expired, InUse, Active
  <2>4. "kept" \in place[s.id] => s.kept
        BY <2>1, <2>3 DEF CopiesTold, SweepTells
  <2> QED
      BY <2>1, <2>2, <2>4, BytesEmpty, TypesApart DEF PlaceType, Emptied
<1>2. CASE sweep.at = "row" /\ sweep'.now = sweep.now
  <2>1. s \in sweep.todo /\ s.id \in Ids /\ Emptied(s.id)
        BY <1>2, TypesApart DEF SweepType, Expiring, Orphaning, Snapshots, SweepOwn, SweepEmpties
  <2>2. \A r \in Requests : ~Upload(r, s.id)
        BY <1>2, <2>1 DEF Upload, UploadedBefore, HasRead
  <2>3. \A j \in Jobs : ~(KeepCopy(j) /\ jobs[j].of = s.id)
        BY <1>2, <2>1 DEF KeepCopy, WorkersRun, SweepSpares, Expired, InUse, Active
  <2> QED
      BY <1>2, <2>1, <2>2, <2>3, PlaceSteps DEF Emptied
<1> QED
    BY <1>1, <1>2, SweepSteps

\* What has no row and is in nobody's hands has left no bytes.
LEMMA LeavesNothingKept ==
    ASSUME TypeOK, UploadsOwn, Alone("upload"), AccountsOwn, Told', FilesFit, UploadsPlain, CopiesTold,
           AccountsEmpty, SweepEmpties, JobsHaveInput, WorkersRun, DeletesSpare, AccountsSpare, UploadedBefore,
           SweepSpares, LeavesNothing, [Next]_vars
    PROVE  LeavesNothing'
<1>1. ASSUME NEW r \in Requests,
             \/ UploadRefused(r) \/ UploadStored(r) \/ DropLocal(r) \/ CompleteStat(r) \/ CompleteQuota(r)
             \/ CompleteProbe(r)
      PROVE  LeavesNothing'
      BY <1>1, TypesApart, Left, Moved
         DEF UploadRefused, UploadStored, DropLocal, CompleteStat, CompleteQuota, CompleteProbe, Uploading,
             LeavesNothing, InHand, Emptied, UploadsPlain, At, PlaceType, Marked
<1>2. ASSUME NEW r \in Requests, UploadCreate(r) \/ AccountBytes(r) \/ GoesAway(r)
      PROVE  LeavesNothing'
      BY <1>2, UploadCreateLeaves, AccountBytesLeaves, GoesAwayLeaves
<1>3. ASSUME NEW r \in Requests,
             \/ CompleteDrop(r) \/ CompleteCreate(r) \/ DeleteLook(r) \/ DeleteRow(r) \/ DeleteBytes(r)
             \/ SubmitRefused(r)
      PROVE  LeavesNothing'
      BY <1>3, TypesApart, Left, Moved
         DEF CompleteDrop, CompleteCreate, DeleteLook, DeleteRow, DeleteBytes, SubmitRefused,
             LeavesNothing, InHand, Emptied, CopiesTold, DeletesTell, DeletesSpare, InUse, Active,
             WorkersRun, FilesFit, Copied, At, PlaceType, RowsType, Home, Bytes
<1>4. ASSUME NEW r \in Requests, NEW i \in Ids, Upload(r, i) \/ CompleteUpload(r, i)
      PROVE  LeavesNothing'
      BY <1>4, TypesApart
         DEF Upload, CompleteUpload, LeavesNothing, InHand, Emptied, At, PlaceType, Marked, Set,
             RequestType, Free, Idle
<1>5. ASSUME NEW r \in Requests, NEW i \in Ids, Delete(r, i) \/ Submit(r, i)
      PROVE  LeavesNothing'
      BY <1>5, TypesApart DEF Delete, Submit, LeavesNothing, InHand, Emptied, At, Set, RequestType, Free, Idle
<1>6. ASSUME NEW r \in Requests, NEW u \in Users, DeleteAccount(r, u)
      PROVE  LeavesNothing'
      BY <1>6 DEF DeleteAccount, LeavesNothing, InHand, Emptied, At, Set, Free, Idle
<1>7. ASSUME NEW r \in Requests, CancelPaused(r) \/ ListRecordings(r)
      PROVE  LeavesNothing'
      BY <1>7, TypesApart, Cancels, Lists DEF LeavesNothing, InHand, Emptied, At
<1>8. ASSUME NEW r \in Requests, DeleteUser(r)
      PROVE  LeavesNothing'
      BY <1>8, TypesApart, Left
         DEF DeleteUser, LeavesNothing, InHand, Emptied, AccountsEmpty, At, PlaceType, Marked, Told, Quiet,
             Mine
<1>9. ASSUME NEW r \in Requests, NEW j \in Jobs, CreateJob(r, j)
      PROVE  LeavesNothing'
      BY <1>9, TypesApart, Left DEF CreateJob, LeavesNothing, InHand, Emptied, At
<1>10. ASSUME NEW i \in Ids, BeginUpload(i) \/ Put(i) \/ ObjectAges(i)
       PROVE  LeavesNothing'
       BY <1>10, TypesApart DEF BeginUpload, Put, ObjectAges, LeavesNothing, InHand, Emptied, At, PlaceType
<1>11. ASSUME NEW i \in Ids, RowAges(i)
       PROVE  LeavesNothing'
       BY <1>11, RowAgesLeaves
<1>12. ASSUME NEW j \in Jobs,
              \/ Take(j) \/ KeepCopy(j) \/ Succeed(j) \/ Stop(j)
              \/ (\E from \in {"queued", "paused"}, to \in {"queued", "paused", "ended"} : Waits(j, from, to))
       PROVE  LeavesNothing'
       BY <1>12, TypesApart
          DEF Take, KeepCopy, Succeed, Stop, Waits, LeavesNothing, JobsHaveInput, InHand, Emptied, InUse,
              WorkersRun, At, PlaceType, JobsType
<1>13. CASE \/ SweepList \/ SweepPick \/ SweepBytes \/ SweepRow \/ ListObjects \/ ListNames \/ SweepOrphan
            \/ SweepEnds
       BY <1>13, TypesApart
          DEF SweepList, SweepPick, SweepBytes, SweepRow, ListObjects, ListNames, SweepOrphan, SweepEnds,
              LeavesNothing, InHand, Emptied, SweepEmpties, At, PlaceType, RowsType, Sweeps
<1>14. CASE Crash
       BY <1>14, CrashLeaves
<1>15. CASE UNCHANGED vars
       BY <1>15 DEF vars, LeavesNothing, InHand, Emptied, At
<1> QED
    BY <1>1, <1>2, <1>3, <1>4, <1>5, <1>6, <1>7, <1>8, <1>9, <1>10, <1>11, <1>12, <1>13, <1>14, <1>15
       DEF Next, Serve, Job, Sweep

---------------------------------------------------------------------------
(* The inductive invariant, and the theorems.                              *)

\* What holds of recordings beside their types.
Keeps ==
    Known /\ BytesFit /\ RecordingIsThere /\ Spared /\ InputIsThere /\ CopiesFit /\ NothingIsLeft

\* Nothing is there at the start.
LEMMA InitKeeps == Init => Keeps
<1> SUFFICES ASSUME Init PROVE Keeps
    OBVIOUS
<1>1. /\ \A r \in Requests : request[r] = Idle
      /\ sweep = [at |-> "idle"] /\ \A i \in Ids : rows[i] = None /\ place[i] = {}
      /\ signed = {} /\ \A j \in Jobs : jobs[j].status = "none" /\ jobs[j].worker = "no"
      BY DEF Init
<1>2. Known
      BY <1>1 DEF Idle, Known, UploadedBefore, HasRead, UploadsOwn, Alone, CompletesOwn, AccountsOwn, SweepOwn
<1>3. BytesFit /\ RecordingIsThere
      BY <1>1
         DEF Idle, BytesFit, CompletesApart, Completing, RowsGoFirst, Leaving, Alone, CompletesFit,
             UploadsFit, OrphansFit, RecordingIsThere, RowsHaveBytes, At
<1>4. Spared /\ InputIsThere
      BY <1>1
         DEF Idle, Spared, DeletesSpare, SweepSpares, Expired, AccountsSpare, WorkersRun, InputIsThere,
             JobsHaveInput, InUse, Active
<1>5. CopiesFit /\ NothingIsLeft
      BY <1>1
         DEF Idle, CopiesFit, FilesFit, UploadsPlain, CopiesTold, AccountsEmpty, SweepEmpties,
             NothingIsLeft, LeavesNothing, Emptied, At
<1> QED
    BY <1>2, <1>3, <1>4, <1>5 DEF Keeps

\* Every step keeps it: the scars only grow, so what they excuse now they
\* excused before.
LEMMA Keeping == TypeOK /\ Keeps /\ [Next]_vars => Keeps'
<1> SUFFICES ASSUME TypeOK, Keeps, [Next]_vars
             PROVE  Keeps'
    OBVIOUS
<1>1. /\ (Straight' => Straight) /\ (Quiet' => Quiet) /\ (Told' => Told)
      /\ (Quiet' => Straight') /\ (Told' => Quiet')
      BY Lasting DEF Straight, Quiet, Told
<1>2. UploadedBefore /\ UploadsOwn /\ Alone("upload") /\ CompletesOwn /\ AccountsOwn /\ SweepOwn
      BY DEF Keeps, Known
<1>3. Known'
      BY <1>2, UploadedBeforeKept, UploadsOwnKept, AloneUploadKept, CompletesOwnKept, AccountsOwnKept,
         SweepOwnKept
         DEF Known
<1>4. Straight' => /\ CompletesApart /\ RowsGoFirst /\ Alone("complete") /\ CompletesFit /\ UploadsFit
                   /\ OrphansFit /\ RowsHaveBytes
      BY <1>1 DEF Keeps, BytesFit, RecordingIsThere
<1>5. BytesFit' /\ RecordingIsThere'
      BY <1>2, <1>4, CompletesApartKept, RowsGoFirstKept, AloneCompleteKept, CompletesFitKept,
         UploadsFitKept, OrphansFitKept, RowsHaveBytesKept
         DEF BytesFit, RecordingIsThere
<1>6. Quiet' => DeletesSpare /\ SweepSpares /\ AccountsSpare /\ WorkersRun /\ JobsHaveInput
      BY <1>1 DEF Keeps, Spared, InputIsThere
<1>7. Spared' /\ InputIsThere'
      BY <1>1, <1>2, <1>4, <1>6, DeletesSpareKept, SweepSparesKept, AccountsSpareKept, WorkersRunKept,
         JobsHaveInputKept
         DEF Spared, InputIsThere
<1>8. Told' => FilesFit /\ UploadsPlain /\ CopiesTold /\ AccountsEmpty /\ SweepEmpties /\ LeavesNothing
      BY <1>1 DEF Keeps, CopiesFit, NothingIsLeft
<1>9. CopiesFit' /\ NothingIsLeft'
      BY <1>1, <1>2, <1>4, <1>6, <1>8, FilesFitKept, UploadsPlainKept, CopiesToldKept, AccountsEmptyKept,
         SweepEmptiesKept, LeavesNothingKept
         DEF CopiesFit, NothingIsLeft
<1> QED
    BY <1>3, <1>5, <1>7, <1>9 DEF Keeps

\* All parts of Keeps hold of every state of the service.
THEOREM KeptInvariance == Spec => []Keeps
BY InitKeeps, Keeping, TypeCorrect, PTL DEF Spec

\* A recording that has a row has its bytes, whatever is uploaded, deleted and
\* swept at one time, unless two requests for one recording raced or a call was
\* cut short.
THEOREM RecordingCorrect == Spec => []RecordingIsThere
<1>1. Keeps => RecordingIsThere
      BY DEF Keeps
<1> QED BY <1>1, KeptInvariance, PTL

\* An analysis that is queued, running or paused has the row of its recording
\* and its bytes, short of such races and of a job that was resumed while its
\* account was deleted.
THEOREM InputCorrect == Spec => []InputIsThere
<1>1. Keeps => InputIsThere
      BY DEF Keeps
<1> QED BY <1>1, KeptInvariance, PTL

\* What no row names, and no upload or deletion has in hand, is at most an
\* object the sweep will find: no file and no copy for playback is left behind,
\* short of those cases and of a copy that was never told of.
THEOREM LeftCorrect == Spec => []NothingIsLeft
<1>1. Keeps => NothingIsLeft
      BY DEF Keeps
<1> QED BY <1>1, KeptInvariance, PTL
==============================================================================
