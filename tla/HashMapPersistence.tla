-------------------------- MODULE HashMapPersistence --------------------------
(***************************************************************************)
(* The durability of shared/hashset.go: the persistence worker, the file   *)
(* it replaces, Close, crashes, and LoadFromDisk at the next start.        *)
(*                                                                         *)
(* The contents of the map are abstracted to the order in which they came  *)
(* about: every change of the map makes a new state, numbered from 1; 0 is *)
(* the empty map a process starts with.  After a restart the map is in an  *)
(* old state again, and its next change makes a new one.                   *)
(***************************************************************************)
EXTENDS Integers

CONSTANTS MaxRetries,    \* persistence.MaxRetries
          MaxState,      \* bound: how many changes are made
          MaxVersion     \* bound: versions from here on are not told apart

ASSUME RetriesAssumption == MaxRetries \in Nat \ {0}
ASSUME BoundAssumption == MaxState \in Nat /\ MaxVersion \in Nat

State == 0 .. MaxState
Version == 0 .. MaxVersion

VARIABLES mode,      \* the process: down, loading, up, closing, closed
          mem,       \* the state of the map
          last,      \* the newest state there has been
          version,   \* h.currentVersion
          worker,    \* persistenceWorker: pc, its snapshot, failed attempts
          trigger,   \* persistChan holds a request
          file,      \* the file at FilePath
          durable,   \* the file at FilePath as of the directory's last flush
          temp,      \* the file at FilePath.tmp
          closeFrom  \* the state when Close was called (history)

disk == <<file, durable, temp>>
vars == <<mode, mem, last, version, worker, trigger, disk, closeFrom>>

(* A file: absent, partly written, complete in the cache, or on the disk.  *)
File(f, v, e) == [form |-> f, version |-> v, entries |-> e]
Absent == File("absent", 0, 0)
Partial == File("partial", 0, 0)

Worker(pc) == [pc |-> pc, version |-> 0, entries |-> 0, attempt |-> 0, final |-> FALSE,
               saved |-> FALSE]

Init == /\ mode = "loading"
        /\ mem = 0 /\ last = 0 /\ version = 0
        /\ worker = Worker("select")
        /\ trigger = FALSE
        /\ file = Absent /\ durable = Absent /\ temp = Absent
        /\ closeFrom = 0

Running == mode \in {"up", "closing"}
-----------------------------------------------------------------------------
(* A wrong LoadFromDisk: versions start from 0 in every process.           *)
LoadFromDiskKeepsVersion ==
    /\ mode = "loading"
    /\ mode' = "up"
    /\ IF file.form \in {"cached", "synced"}
       THEN mem' = file.entries /\ UNCHANGED version
       ELSE UNCHANGED <<mem, version>>
    /\ UNCHANGED <<last, worker, trigger, disk, closeFrom>>

(* NewClientManager loads the file after the worker has been started; a    *)
(* file that is missing or does not decode leaves the map empty.           *)
LoadFromDisk ==
    /\ mode = "loading"
    /\ mode' = "up"
    /\ IF file.form \in {"cached", "synced"}
       THEN mem' = file.entries /\ version' = file.version
       ELSE UNCHANGED <<mem, version>>
    /\ UNCHANGED <<last, worker, trigger, disk, closeFrom>>

(* Put, Remove, Clear: any change of the map.                              *)
Change ==
    /\ Running
    /\ last < MaxState
    /\ last' = last + 1 /\ mem' = last + 1
    /\ UNCHANGED <<mode, version, worker, trigger, disk, closeFrom>>

(* A full persistChan makes TriggerSnapshot return an error and no more.   *)
TriggerSnapshot ==
    /\ mode = "up"
    /\ trigger' = TRUE
    /\ UNCHANGED <<mode, mem, last, version, worker, disk, closeFrom>>

(* Close: close(stopChan), then persistWG.Wait().                          *)
Close ==
    /\ mode = "up"
    /\ mode' = "closing"
    /\ closeFrom' = mem
    /\ UNCHANGED <<mem, last, version, worker, trigger, disk>>

CloseReturns ==
    /\ mode = "closing"
    /\ worker.pc = "done"
    /\ mode' = "closed"
    /\ UNCHANGED <<mem, last, version, worker, trigger, disk, closeFrom>>
-----------------------------------------------------------------------------
Next1(v) == IF v < MaxVersion THEN v + 1 ELSE v

(* CreateSnapshot takes a version under one lock ...                       *)
TakeVersion(final) ==
    /\ version' = Next1(version)
    /\ worker' = [Worker("copy") EXCEPT !.version = version', !.final = final]
    /\ UNCHANGED <<mode, mem, last, disk, closeFrom>>

(* A wrong Tick: it may come before the file has been loaded.              *)
TickBeforeLoad == /\ worker.pc = "select" /\ mode # "down"
                  /\ TakeVersion(FALSE)
                  /\ UNCHANGED trigger

(* The worker's select.  The first tick comes SnapshotInterval after the   *)
(* start, when the file has long been loaded.                              *)
Tick == /\ worker.pc = "select" /\ Running
        /\ TakeVersion(FALSE)
        /\ UNCHANGED trigger

Triggered == /\ worker.pc = "select" /\ trigger
             /\ trigger' = FALSE
             /\ TakeVersion(FALSE)

(* A wrong end: the worker returns without a final snapshot.               *)
StoppedAtOnce == /\ worker.pc = "select" /\ mode = "closing"
                 /\ worker' = [Worker("done") EXCEPT !.saved = TRUE]
                 /\ UNCHANGED <<mode, mem, last, version, trigger, disk, closeFrom>>

Stopped == /\ worker.pc = "select" /\ mode = "closing"
           /\ TakeVersion(TRUE)
           /\ UNCHANGED trigger

(* ... and copies the entries under another.                               *)
Copy ==
    /\ worker.pc = "copy"
    /\ worker' = [worker EXCEPT !.pc = "create", !.entries = mem]
    /\ UNCHANGED <<mode, mem, last, version, trigger, disk, closeFrom>>

(* writeSnapshotToDisk: create and fill the temporary file, sync it, and   *)
(* rename it.                                                              *)
Create ==
    /\ worker.pc = "create"
    /\ temp' = Partial
    /\ worker' = [worker EXCEPT !.pc = "encode"]
    /\ UNCHANGED <<mode, mem, last, version, trigger, file, durable, closeFrom>>

Encode ==
    /\ worker.pc = "encode"
    /\ temp' = File("cached", worker.version, worker.entries)
    /\ worker' = [worker EXCEPT !.pc = "sync"]
    /\ UNCHANGED <<mode, mem, last, version, trigger, file, durable, closeFrom>>

(* A wrong Sync: the contents stay in the cache.                           *)
SyncNothing ==
    /\ worker.pc = "sync"
    /\ worker' = [worker EXCEPT !.pc = "rename"]
    /\ UNCHANGED <<mode, mem, last, version, trigger, disk, closeFrom>>

Sync ==
    /\ worker.pc = "sync"
    /\ temp' = [temp EXCEPT !.form = "synced"]
    /\ worker' = [worker EXCEPT !.pc = "rename"]
    /\ UNCHANGED <<mode, mem, last, version, trigger, file, durable, closeFrom>>

(* What persistSnapshot leaves behind, written or given up.                *)
AfterPersist(saved) ==
    worker' = [Worker(IF worker.final THEN "done" ELSE "select") EXCEPT !.saved = saved]

(* The directory is not synced: a power loss may undo the rename, and it   *)
(* may have been flushed last before this rename or long ago.              *)
Rename ==
    /\ worker.pc = "rename"
    /\ file' = temp
    /\ temp' = Absent
    /\ durable' \in {durable, file}
    /\ AfterPersist(TRUE)
    /\ UNCHANGED <<mode, mem, last, version, trigger, closeFrom>>

(* A wrong Fail: the worker gives up for ever.                             *)
FailForGood ==
    /\ worker.pc \in {"create", "encode", "sync", "rename"}
    /\ temp' = Absent
    /\ worker' = [worker EXCEPT !.pc = "done"]
    /\ UNCHANGED <<mode, mem, last, version, trigger, file, durable, closeFrom>>

(* Any of the four may fail.  The temporary file is removed, and the same  *)
(* snapshot is tried again, MaxRetries times in all.                       *)
Fail ==
    /\ worker.pc \in {"create", "encode", "sync", "rename"}
    /\ temp' = IF worker.pc = "create" THEN temp ELSE Absent
    /\ IF worker.attempt + 1 < MaxRetries
       THEN worker' = [worker EXCEPT !.pc = "create", !.attempt = @ + 1]
       ELSE AfterPersist(FALSE)
    /\ UNCHANGED <<mode, mem, last, version, trigger, file, durable, closeFrom>>
-----------------------------------------------------------------------------
(* The process ends without Close, or after it.                            *)
Exit ==
    /\ mode # "down"
    /\ mode' = "down"
    /\ mem' = 0 /\ version' = 0 /\ trigger' = FALSE /\ closeFrom' = 0
    /\ worker' = Worker("done")
    /\ UNCHANGED last

Crash == Exit /\ UNCHANGED disk

(* A machine that goes down loses what is only in its cache: contents that *)
(* were not synced, and renames not flushed.                               *)
AfterPowerLoss(f) == {f} \cup (IF f.form = "cached" THEN {Partial} ELSE {})

PowerLoss ==
    /\ Exit
    /\ file' \in AfterPowerLoss(file) \cup AfterPowerLoss(durable)
    /\ temp' \in AfterPowerLoss(temp)
    /\ durable' = file'

(* NewHashMapWithPersistence: an empty map and a worker.                   *)
Start ==
    /\ mode = "down"
    /\ mode' = "loading"
    /\ worker' = Worker("select")
    /\ UNCHANGED <<mem, last, version, trigger, disk, closeFrom>>

Write == Create \/ Encode \/ Sync \/ Rename

Next ==
    \/ LoadFromDisk \/ Change \/ TriggerSnapshot \/ Close \/ CloseReturns
    \/ Tick \/ Triggered \/ Stopped \/ Copy \/ Write \/ Fail
    \/ Crash \/ PowerLoss \/ Start

Spec == Init /\ [][Next]_vars

(* The ticker fires for ever, the worker runs, and no file operation fails *)
(* every time it is tried.                                                 *)
Fairness ==
    /\ WF_vars(LoadFromDisk) /\ WF_vars(Copy) /\ WF_vars(Tick \/ Triggered)
    /\ WF_vars(Write \/ Fail)
    /\ SF_vars(Create) /\ SF_vars(Encode) /\ SF_vars(Sync) /\ SF_vars(Rename)

FairSpec == Spec /\ Fairness
-----------------------------------------------------------------------------
TypeOK ==
    /\ mode \in {"down", "loading", "up", "closing", "closed"}
    /\ mem \in 0 .. last /\ last \in State /\ closeFrom \in 0 .. last
    /\ version \in Version
    /\ trigger \in BOOLEAN
    /\ worker.pc \in {"select", "copy", "create", "encode", "sync", "rename", "done"}
    /\ worker.version \in 0 .. version /\ worker.entries \in 0 .. last
    /\ worker.attempt \in 0 .. MaxRetries - 1
    /\ worker.final \in BOOLEAN /\ worker.saved \in BOOLEAN
    /\ worker.pc = "done" => mode \in {"down", "closing", "closed"}
    /\ worker.final => mode = "closing"

(* Whenever the process or the machine stops, the next start finds no      *)
(* snapshot or a complete one: never a torn file.                          *)
FileWhole == file.form # "partial"

(* The file only moves forward, also over crashes, restarts and retries:   *)
(* no snapshot is replaced by one of an older map or of a lower version    *)
(* unless the machine fails.                                               *)
NeverOlder == [][\/ /\ file'.entries >= file.entries
                    /\ file'.version >= file.version
                 \/ PowerLoss]_vars

(* When Close has returned and its last write succeeded, the file has all  *)
(* that was in the map when Close was called.                              *)
CloseKeepsAll == mode = "closed" /\ worker.saved => file.entries >= closeFrom

(* A change reaches the disk unless the process ends: periodic snapshots   *)
(* are taken for ever, and a failed one is made up for by a later one.     *)
EventuallyPersisted ==
    \A n \in State : (mode = "up" /\ mem = n) ~> (mode # "up" \/ file.entries >= n)
=============================================================================
