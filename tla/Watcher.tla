------------------------------ MODULE Watcher ------------------------------
(***************************************************************************)
(* mindex-watch: a tree of files, the events of its changes, a task that   *)
(* debounces them and a task that compares the tree with the index, over a *)
(* server that treats one file as FileLifecycle says.                      *)
(***************************************************************************)
EXTENDS Naturals, Sequences

CONSTANTS
  Paths,       \* the paths in the scope of the .mindex file
  Contents,    \* what a file may hold
  Oversized,   \* contents over mindexfile::MAX_CODE_BYTES, or not UTF-8
  Absent,      \* no file
  Nobody,      \* no claim
  MaxChanges   \* edits and failures of one behaviour

ASSUME WatcherAssumption ==
  /\ Oversized \subseteq Contents
  /\ Absent \notin Contents
  /\ Nobody \notin {"flush", "drift"}
  /\ MaxChanges \in Nat

VARIABLES
  disk,      \* the tree
  events,    \* the unbounded channel from inotify
  buf,       \* the debounce buffer: the last event of each path
  watching,  \* the startup check is over and inotify is on
  task,      \* the two tasks of the watcher, and the request each has out
  stage,     \* the server: the stage of each file,
  version,   \* the text it was last pushed with,
  claim,     \* and whose request holds its IndexClaim
  changes,   \* edits and failures so far
  excused    \* paths whose fate the drift task or a failure has touched

watchVars == <<events, buf, watching>>
serverVars == <<stage, version, claim>>
watcherVars == <<disk, watchVars, task, serverVars, changes, excused>>

Tasks == {"flush", "drift"}
Nothing == [p \in Paths |-> Absent]

(* pc: idle; hash: hashing the tree; read: reading what is to be pushed;
   index: POST /index is out; delete: DELETE /files is to be sent. *)
Task == [pc : {"idle", "hash", "read", "index", "delete"},
         todo : SUBSET Paths,
         text : [Paths -> Contents \cup {Absent}],
         del : SUBSET Paths]

Idle == [pc |-> "idle", todo |-> {}, text |-> Nothing, del |-> {}]
Hashing == [Idle EXCEPT !.pc = "hash", !.todo = Paths]

At(t, pc) == task[t].pc = pc
Become(t, new) == task' = [task EXCEPT ![t] = new]

(* What the watcher pushes or hashes when it looks at a path. *)
Tracked(p) == IF disk[p] \in Oversized THEN Absent ELSE disk[p]

(* The index shows of a path what the tree holds there. *)
InSync(p) ==
  IF Tracked(p) = Absent THEN stage[p] # "published"
  ELSE stage[p] = "published" /\ version[p] = Tracked(p)

(* Work on the path that the debounce task knows of. *)
Underway(p) ==
  \/ \E i \in DOMAIN events : events[i][2] = p
  \/ buf[p] # "none"
  \/ p \in task["flush"].todo \cup task["flush"].del
  \/ task["flush"].text[p] # Absent

(* A path that is in step, with nothing to come, needs no excuse any more. *)
Settled(p) == InSync(p) /\ ~Underway(p) /\ stage[p] \notin {"pending", "failed"}

-----------------------------------------------------------------------------
WatcherInit ==
  /\ disk \in [Paths -> {Absent} \cup (Contents \ Oversized)]
  /\ events = <<>>
  /\ buf = [p \in Paths |-> "none"]
  /\ watching = FALSE
  /\ task = [t \in Tasks |-> IF t = "drift" THEN Hashing ELSE Idle]
  /\ stage = [p \in Paths |-> "absent"]
  /\ version = Nothing
  /\ claim = [p \in Paths |-> Nobody]
  /\ changes = 0
  /\ excused = Paths

(* Someone edits, creates or removes a file.  Before the watch is on nobody
   hears of it; inotify may drop an event, and a directory that is moved has
   events for itself only (convert_event, classify). *)
Edit(p, c) ==
  /\ changes < MaxChanges /\ c # disk[p]
  /\ changes' = changes + 1
  /\ disk' = [disk EXCEPT ![p] = c]
  /\ \/ /\ watching
        /\ events' = Append(events, <<IF c = Absent THEN "delete" ELSE "upsert", p>>)
        /\ UNCHANGED excused
     \/ /\ UNCHANGED events
        /\ excused' = excused \cup {p}
  /\ UNCHANGED <<buf, watching, task, serverVars>>

(* The first drift check is over: watch the tree, start the two tasks. *)
StartWatching ==
  /\ ~watching /\ At("drift", "idle")
  /\ watching' = TRUE
  /\ excused' = {p \in excused : ~Settled(p)}
  /\ UNCHANGED <<disk, events, buf, task, serverVars, changes>>

-----------------------------------------------------------------------------
(* MUTANT of Receive: the first event of a path stays. *)
ReceiveFirst ==
  /\ watching /\ At("flush", "idle") /\ events # <<>>
  /\ LET e == Head(events)
     IN  buf' = [buf EXCEPT ![e[2]] = IF @ = "none" THEN e[1] ELSE @]
  /\ events' = Tail(events)
  /\ UNCHANGED <<disk, watching, task, serverVars, changes, excused>>

(* rx.recv(): HashMap::insert, so the last event of a path wins. *)
Receive ==
  /\ watching /\ At("flush", "idle") /\ events # <<>>
  /\ buf' = [buf EXCEPT ![Head(events)[2]] = Head(events)[1]]
  /\ events' = Tail(events)
  /\ UNCHANGED <<disk, watching, task, serverVars, changes, excused>>

(* The deadline of the batch: the select is biased, so only once the channel
   is empty.  The loop does not receive again before the flush is over. *)
StartFlush ==
  /\ At("flush", "idle") /\ events = <<>>
  /\ \E p \in Paths : buf[p] # "none"
  /\ Become("flush", [Idle EXCEPT !.pc = "read",
                        !.todo = {p \in Paths : buf[p] = "upsert"},
                        !.del = {p \in Paths : buf[p] = "delete"}])
  /\ buf' = [p \in Paths |-> "none"]
  /\ UNCHANGED <<disk, events, watching, serverVars, changes, excused>>

(* The interval of the drift task. *)
StartDrift ==
  /\ watching /\ At("drift", "idle")
  /\ Become("drift", Hashing)
  /\ UNCHANGED <<disk, watchVars, serverVars, changes, excused>>

(* build_manifest hashes one file after the other. *)
HashFile(p) ==
  /\ At("drift", "hash") /\ p \in task["drift"].todo
  /\ Become("drift", [task["drift"] EXCEPT !.todo = @ \ {p},
                                           !.text[p] = Tracked(p)])
  /\ UNCHANGED <<disk, watchVars, serverVars, changes, excused>>

-----------------------------------------------------------------------------
(* MUTANT of Missing: the baseline is read without looking at the status, so
   that a failed or deleted row counts as known. *)
NeverSeen(local) ==
  {p \in Paths : stage[p] = "absent" /\ local[p] # Absent}

(* The four buckets compute_drift makes of a manifest: a path in flight is in
   none of the three that are acted on. *)
InFlight == {p \in Paths : stage[p] = "pending"}
Published == {p \in Paths : stage[p] = "published"}

Stale(local) ==
  {p \in Published : local[p] \notin {Absent, version[p]}}
Missing(local) ==
  {p \in Paths \ (Published \cup InFlight) : local[p] # Absent}
Orphaned(local) == {p \in Published : local[p] = Absent}

(* check_drift, unless the manifest is empty; then what to push and delete. *)
Query ==
  LET local == task["drift"].text IN
  /\ At("drift", "hash") /\ task["drift"].todo = {}
  /\ IF local = Nothing
       THEN Become("drift", Idle)
       ELSE Become("drift", [Idle EXCEPT !.pc = "read",
              !.todo = Stale(local) \cup Missing(local), !.del = Orphaned(local)])
  /\ UNCHANGED <<disk, watchVars, serverVars, changes, excused>>

(* flush and reindex_files: read one file of the batch, or leave it out. *)
Read(t, p) ==
  /\ At(t, "read") /\ p \in task[t].todo
  /\ Become(t, [task[t] EXCEPT !.todo = @ \ {p}, !.text[p] = Tracked(p)])
  /\ UNCHANGED <<disk, watchVars, serverVars, changes, excused>>

ToPush(t) == {p \in Paths : task[t].text[p] # Absent}

(* The batch is read: push it if it is not empty, then delete. *)
Send(t) ==
  /\ At(t, "read") /\ task[t].todo = {}
  /\ Become(t, [task[t] EXCEPT !.pc = IF ToPush(t) # {} THEN "index" ELSE "delete",
                               !.todo = ToPush(t)])
  /\ UNCHANGED <<disk, watchVars, serverVars, changes, excused>>

-----------------------------------------------------------------------------
(* What the drift task writes is not the debounce task's doing. *)
Touch(t, p) == excused' = IF t = "drift" THEN excused \cup {p} ELSE excused

(* The server's job takes a file of the request: unless another request holds
   it (the file is skipped) or it is stored as pushed. *)
Take(t, p) ==
  /\ At(t, "index") /\ p \in task[t].todo
  /\ Become(t, [task[t] EXCEPT !.todo = @ \ {p}])
  /\ IF claim[p] # Nobody \/ (stage[p] = "published" /\ version[p] = task[t].text[p])
       THEN UNCHANGED <<serverVars, excused>>
       ELSE /\ claim' = [claim EXCEPT ![p] = t]
            /\ stage' = [stage EXCEPT ![p] = "pending"]
            /\ version' = [version EXCEPT ![p] = task[t].text[p]]
            /\ Touch(t, p)
  /\ UNCHANGED <<disk, watchVars, changes>>

Held(t) == {p \in Paths : claim[p] = t}

(* The job ends: what is still pending gets its new stage, the claims go, and
   the watcher goes on to its deletes whatever the answer was. *)
End(t, new) ==
  /\ stage' = [p \in Paths |-> IF p \in Held(t) /\ stage[p] = "pending"
                                 THEN new ELSE stage[p]]
  /\ claim' = [p \in Paths |-> IF p \in Held(t) THEN Nobody ELSE claim[p]]
  /\ UNCHANGED version
  /\ Become(t, [task[t] EXCEPT !.pc = "delete", !.todo = {}, !.text = Nothing])
  /\ UNCHANGED <<disk, watchVars>>

Answered(t) ==
  /\ At(t, "index") /\ task[t].todo = {}
  /\ End(t, "published") /\ UNCHANGED <<changes, excused>>

(* The embedder is down, or the request does not get through. *)
PushFails(t) ==
  /\ At(t, "index") /\ changes < MaxChanges
  /\ changes' = changes + 1
  /\ End(t, "failed")
  /\ excused' = excused \cup Held(t) \cup task[t].todo

(* DELETE /files takes no claim. *)
Delete(t) ==
  /\ At(t, "delete")
  /\ stage' = [p \in Paths |-> IF p \in task[t].del /\ stage[p] # "absent"
                                 THEN "deleted" ELSE stage[p]]
  /\ Become(t, Idle)
  /\ UNCHANGED <<disk, watchVars, version, claim, changes>>
  /\ excused' = IF t = "drift"
                  THEN {p \in excused \cup task[t].del : ~Settled(p)'}
                  ELSE excused

(* The other calls that may fail: the answer is logged, the pass is over. *)
CallFails(t) ==
  /\ \/ At(t, "delete") /\ task[t].del # {}
     \/ t = "drift" /\ At(t, "hash") /\ task[t].todo = {}
  /\ changes < MaxChanges
  /\ changes' = changes + 1
  /\ excused' = excused \cup task[t].del
  /\ Become(t, Idle)
  /\ UNCHANGED <<disk, watchVars, serverVars>>

(* The watcher is stopped and started: what it held is lost, its requests are
   dropped where they stand, and it begins with a drift check. *)
Restart ==
  /\ changes < MaxChanges
  /\ changes' = changes + 1
  /\ events' = <<>>
  /\ buf' = [p \in Paths |-> "none"]
  /\ watching' = FALSE
  /\ task' = [t \in Tasks |-> IF t = "drift" THEN Hashing ELSE Idle]
  /\ claim' = [p \in Paths |-> Nobody]
  /\ excused' = Paths
  /\ UNCHANGED <<disk, stage, version>>

(* The retry worker takes up a row nobody works on. *)
Retry(p, new) ==
  /\ claim[p] = Nobody
  /\ \/ stage[p] = "pending" /\ new \in {"published", "failed"}
     \/ stage[p] = "failed" /\ new = "published"
  /\ stage' = [stage EXCEPT ![p] = new]
  /\ UNCHANGED <<disk, watchVars, task, version, claim, changes, excused>>

-----------------------------------------------------------------------------
TaskStep(t) ==
  \/ t = "drift" /\ (Query \/ \E p \in Paths : HashFile(p))
  \/ \E p \in Paths : Read(t, p) \/ Take(t, p)
  \/ Send(t) \/ Answered(t) \/ Delete(t)

WatcherStep ==
  \/ StartWatching \/ Receive \/ StartFlush \/ StartDrift
  \/ \E t \in Tasks : TaskStep(t)

WorkerStep == \E p \in Paths, new \in {"published", "failed"} : Retry(p, new)

Disturbance ==
  \/ \E p \in Paths, c \in Contents \cup {Absent} : Edit(p, c)
  \/ \E t \in Tasks : PushFails(t) \/ CallFails(t)
  \/ Restart

WatcherNext == WatcherStep \/ WorkerStep \/ Disturbance

WatcherSpec == WatcherInit /\ [][WatcherNext]_watcherVars

-----------------------------------------------------------------------------
WatcherTypeOK ==
  /\ disk \in [Paths -> Contents \cup {Absent}]
  /\ events \in Seq({"upsert", "delete"} \X Paths)
  /\ buf \in [Paths -> {"none", "upsert", "delete"}]
  /\ watching \in BOOLEAN
  /\ task \in [Tasks -> Task]
  /\ stage \in [Paths -> {"absent", "pending", "published", "failed", "deleted"}]
  /\ version \in [Paths -> Contents \cup {Absent}]
  /\ claim \in [Paths -> Tasks \cup {Nobody}]
  /\ changes \in 0 .. MaxChanges
  /\ excused \subseteq Paths

(* Once the tree stands still the index becomes what it is, whatever edits,
   lost events, failures and restarts there were, and although the two tasks
   push and delete behind each other's backs: while any file is tracked. *)
TreeGetsIndexed ==
  <>[]((\A p \in Paths : InSync(p)) \/ \A p \in Paths : Tracked(p) = Absent)

(* The debounce task alone forgets no edit, also not one made while an earlier
   one is read, pushed or deleted: a path it left out of step is one that the
   drift task or a failure interfered with, or a file over the cap. *)
DebounceForgetsNothing ==
  \A p \in Paths \ excused :
    InSync(p) \/ Underway(p) \/ disk[p] \in Oversized
=============================================================================
