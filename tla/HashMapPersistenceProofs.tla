----------------------- MODULE HashMapPersistenceProofs -----------------------
(***************************************************************************)
(* Theorems about HashMapPersistence, for any number of changes, retries,  *)
(* crashes, power losses and restarts: the file is never torn, it only     *)
(* moves forward, and a Close that could write has saved everything.       *)
(***************************************************************************)
EXTENDS HashMapPersistence, TLAPS

Place == {"select", "copy", "create", "encode", "sync", "rename", "done"}

(* The worker has a snapshot, first its version, then its entries too.     *)
HasVersion == worker.pc \in {"copy", "create", "encode", "sync", "rename"}
HasEntries == worker.pc \in {"create", "encode", "sync", "rename"}

Workers == [pc : Place, version : Version, entries : State, attempt : 0 .. MaxRetries - 1,
            final : BOOLEAN, saved : BOOLEAN]

Content == [form : {"absent", "partial", "cached", "synced"}, version : Version, entries : State]

Types ==
    /\ mode \in {"down", "loading", "up", "closing", "closed"}
    /\ mem \in State /\ last \in State /\ closeFrom \in State /\ version \in Version
    /\ trigger \in BOOLEAN
    /\ worker \in Workers
    /\ file \in Content /\ durable \in Content /\ temp \in Content

(* Nothing is newer than the newest state.                                 *)
NoneNewer == /\ mem <= last /\ closeFrom <= last
             /\ worker.entries <= last /\ worker.version <= version
             /\ file.entries <= last /\ durable.entries <= last

(* What is under the file's name is nothing, or has been synced.           *)
Whole(f) == f.form = "synced" \/ f = Absent

(* Just before the rename the temporary file has the worker's snapshot.    *)
TempRight ==
    /\ worker.pc = "sync" => temp = File("cached", worker.version, worker.entries)
    /\ worker.pc = "rename" => temp = File("synced", worker.version, worker.entries)

(* The file is behind the map, and behind the snapshot about to replace it,*)
(* which is behind the map itself.                                         *)
FileBehind ==
    /\ mode \in {"up", "closing", "closed"} => file.entries <= mem /\ file.version <= version
    /\ HasVersion => file.version <= worker.version
    /\ HasEntries => file.entries <= worker.entries /\ worker.entries <= mem

(* The worker writes only while the process runs with its map loaded.      *)
Modes ==
    /\ mode = "down" => worker = Worker("done")
    /\ mode = "loading" => worker = Worker("select")
    /\ mode \in {"down", "loading"} => mem = 0 /\ version = 0 /\ ~trigger
    /\ HasVersion => Running
    /\ worker.pc = "done" => mode \in {"down", "closing", "closed"}
    /\ mode = "closed" => worker.pc = "done"
    /\ worker.final => HasVersion /\ mode = "closing"

(* What was there when Close was called: in the map, in the last snapshot, *)
(* and in the file when the last snapshot has been written.                *)
CloseRight ==
    /\ mode \in {"closing", "closed"} => closeFrom <= mem
    /\ worker.final /\ HasEntries => closeFrom <= worker.entries
    /\ mode \in {"closing", "closed"} /\ worker.pc = "done" /\ worker.saved =>
           closeFrom <= file.entries

Inv == Types /\ NoneNewer /\ Whole(file) /\ Whole(durable) /\ TempRight /\ FileBehind
       /\ Modes /\ CloseRight
-----------------------------------------------------------------------------
(* Zero is a state, a version and a number of attempts.                    *)
LEMMA Zero == 0 \in State /\ 0 \in Version /\ 0 \in 0 .. MaxRetries - 1
  BY RetriesAssumption, BoundAssumption DEF State, Version

(* A worker without a snapshot.                                            *)
LEMMA WorkerIs ==
    ASSUME NEW p \in Place
    PROVE  /\ Worker(p) \in Workers /\ Worker(p).pc = p
           /\ Worker(p).version = 0 /\ Worker(p).entries = 0
           /\ ~Worker(p).final /\ ~Worker(p).saved
  BY Zero DEF Worker, Workers

(* Two files that are not a snapshot.                                      *)
LEMMA NoSnapshot == Absent \in Content /\ Partial \in Content
  BY Zero DEF Absent, Partial, File, Content

(* The process starts with an empty map, whose worker has no snapshot.     *)
LEMMA InitInv == Init => Inv
  <1> SUFFICES ASSUME Init PROVE Inv
    OBVIOUS
  <1> "select" \in Place
    BY DEF Place
  <1>1. /\ worker \in Workers /\ worker.pc = "select"
        /\ worker.version = 0 /\ worker.entries = 0 /\ ~worker.final
    BY WorkerIs DEF Init
  <1>2. /\ file = Absent /\ durable = Absent /\ temp = Absent
        /\ file.entries = 0 /\ file.version = 0 /\ durable.entries = 0
    BY DEF Init, Absent, File
  <1>3. Types
    BY <1>1, <1>2, Zero, NoSnapshot DEF Init, Types
  <1>4. NoneNewer
    BY <1>1, <1>2 DEF Init, NoneNewer
  <1> QED BY <1>1, <1>2, <1>3, <1>4 DEF Init, Inv, Whole, TempRight, FileBehind, Modes, CloseRight,
                                  HasVersion, HasEntries

(* The process loads the file, or starts and has an empty map.             *)
LEMMA LoadOK ==
    ASSUME Inv, LoadFromDisk \/ Start
    PROVE  Inv'
  <1> "select" \in Place /\ "done" \in Place
    BY DEF Place
  <1>1. CASE LoadFromDisk
    <2>1. worker.pc = "select" /\ worker.version = 0 /\ worker.entries = 0 /\ ~worker.final
      BY <1>1, WorkerIs DEF LoadFromDisk, Inv, Modes
    <2>2. /\ mem' \in State /\ version' \in Version /\ mem' <= last
          /\ 0 <= version' /\ file.entries <= mem' /\ file.version <= version'
      BY <1>1 DEF LoadFromDisk, Inv, Types, NoneNewer, Modes, Whole, Content, Absent, File,
                  State, Version
    <2>3. Types' /\ NoneNewer'
      BY <1>1, <2>1, <2>2 DEF LoadFromDisk, disk, Inv, Types, NoneNewer
    <2>4. Whole(file)' /\ Whole(durable)' /\ TempRight'
      BY <1>1 DEF LoadFromDisk, disk, Inv, Whole, TempRight
    <2>5. FileBehind' /\ Modes' /\ CloseRight'
      BY <1>1, <2>1, <2>2 DEF LoadFromDisk, disk, Inv, FileBehind, Modes, CloseRight,
                              HasVersion, HasEntries
    <2> QED BY <2>3, <2>4, <2>5 DEF Inv
  <1>2. CASE Start
    <2>1. /\ worker' \in Workers /\ worker'.pc = "select" /\ worker' = Worker("select")
          /\ worker'.version = 0 /\ worker'.entries = 0 /\ ~worker'.final
      BY <1>2, WorkerIs DEF Start
    <2>2. /\ UNCHANGED <<mem, last, version, trigger, file, durable, temp, closeFrom>>
          /\ mode' = "loading" /\ mem = 0 /\ version = 0 /\ ~trigger
      BY <1>2 DEF Start, disk, Inv, Modes
    <2>3. Types' /\ NoneNewer'
      BY <2>1, <2>2 DEF Inv, Types, NoneNewer
    <2> QED BY <2>1, <2>2, <2>3 DEF Inv, Whole, TempRight, FileBehind, Modes, CloseRight,
                                    HasVersion, HasEntries
  <1> QED BY <1>1, <1>2

(* Calls of the map's users: a change, a request for a snapshot, Close.    *)
LEMMA CallsOK ==
    ASSUME Inv, Change \/ TriggerSnapshot \/ Close \/ CloseReturns
    PROVE  Inv'
  <1> USE DEF disk, Inv, Types, NoneNewer, TempRight, FileBehind, Modes, CloseRight, HasVersion,
              HasEntries, Running
  <1>1. CASE Change
    <2>1. /\ last' = last + 1 /\ mem' = last' /\ Running
          /\ UNCHANGED <<mode, version, worker, trigger, file, durable, temp, closeFrom>>
      BY <1>1 DEF Change
    <2>2. /\ last' \in State /\ last < last' /\ last \in Int
          /\ mem \in Int /\ closeFrom \in Int
      BY <1>1, <2>1, BoundAssumption DEF Change, State
    <2>3. worker.entries \in Int /\ file.entries \in Int /\ durable.entries \in Int
      BY DEF Workers, Content, State
    <2>4. Types' /\ NoneNewer'
      BY <2>1, <2>2, <2>3
    <2> QED BY <2>1, <2>2, <2>3, <2>4
  <1>2. CASE TriggerSnapshot \/ CloseReturns
    BY <1>2 DEF TriggerSnapshot, CloseReturns
  <1>3. CASE Close
    <2>1. /\ mode = "up" /\ mode' = "closing" /\ closeFrom' = mem
          /\ UNCHANGED <<mem, last, version, worker, trigger, file, durable, temp>>
          /\ worker.pc # "done" /\ ~worker.final
      BY <1>3 DEF Close
    <2>2. Types' /\ NoneNewer' /\ TempRight' /\ Whole(file)' /\ Whole(durable)'
      BY <2>1 DEF Whole
    <2>3. mem \in Int /\ FileBehind' /\ Modes' /\ CloseRight'
      BY <2>1 DEF State
    <2> QED BY <2>2, <2>3
  <1> QED BY <1>1, <1>2, <1>3
-----------------------------------------------------------------------------
(* The select of the worker: it takes a new version for a snapshot.        *)
LEMMA TakeOK ==
    ASSUME Inv, Tick \/ Triggered \/ Stopped
    PROVE  Inv'
  <1>1. PICK final \in BOOLEAN : /\ TakeVersion(final) /\ worker.pc = "select" /\ Running
                                 /\ trigger' \in BOOLEAN
                                 /\ final => mode = "closing"
    <2>1. CASE Tick
      <3>1. TakeVersion(FALSE) /\ worker.pc = "select" /\ Running /\ trigger' \in BOOLEAN
        BY <2>1 DEF Tick, Inv, Types
      <3> QED BY <3>1
    <2>2. CASE Triggered
      <3>1. TakeVersion(FALSE) /\ worker.pc = "select" /\ trigger' \in BOOLEAN /\ trigger
        BY <2>2 DEF Triggered
      <3>2. Running
        BY <3>1 DEF Inv, Types, Modes, Running
      <3> QED BY <3>1, <3>2
    <2>3. CASE Stopped
      <3>1. TakeVersion(TRUE) /\ worker.pc = "select" /\ trigger' \in BOOLEAN /\ mode = "closing"
        BY <2>3 DEF Stopped, Inv, Types
      <3> QED BY <3>1 DEF Running
    <2> QED BY <2>1, <2>2, <2>3
  <1>2. version' \in Version /\ version <= version'
    BY <1>1, BoundAssumption DEF TakeVersion, Next1, Version, Inv, Types
  <1>3. /\ worker' \in Workers
        /\ worker'.pc = "copy" /\ worker'.version = version' /\ worker'.entries = 0
        /\ worker'.final = final
    <2>1. worker' = [Worker("copy") EXCEPT !.version = version', !.final = final]
      BY <1>1 DEF TakeVersion
    <2>2. Worker("copy") \in Workers /\ Worker("copy").pc = "copy" /\ Worker("copy").entries = 0
      BY WorkerIs DEF Place
    <2> QED BY <1>2, <2>1, <2>2 DEF Workers
  <1>4. UNCHANGED <<mode, mem, last, file, durable, temp, closeFrom>>
    BY <1>1 DEF TakeVersion, disk
  <1>5. Types'
    BY <1>1, <1>2, <1>3, <1>4 DEF Inv, Types
  <1>6. NoneNewer'
    BY <1>2, <1>3, <1>4 DEF Inv, Types, NoneNewer, State, Version
  <1>7. TempRight' /\ Whole(file)' /\ Whole(durable)'
    BY <1>3, <1>4 DEF Inv, TempRight, Whole
  <1>8. FileBehind'
    <2>1. file.entries <= mem /\ file.version <= version /\ file.version \in Version
      BY <1>1 DEF Inv, Types, Content, FileBehind, Running
    <2>2. file.version <= version'
      BY <1>2, <2>1 DEF Inv, Types, Version
    <2> QED BY <1>3, <1>4, <2>1, <2>2 DEF FileBehind, HasVersion, HasEntries
  <1>9. Modes' /\ CloseRight'
    BY <1>1, <1>3, <1>4 DEF Inv, Modes, CloseRight, HasVersion, HasEntries, Running
  <1> QED BY <1>5, <1>6, <1>7, <1>8, <1>9 DEF Inv

(* A step within one snapshot, which keeps its version and leaves the file *)
(* as it is.                                                               *)
LEMMA WorkerOnly ==
    ASSUME Inv, HasVersion, HasVersion', worker' \in Workers,
           worker'.version = worker.version, worker'.final = worker.final,
           HasEntries' => \/ HasEntries /\ worker'.entries = worker.entries
                          \/ worker'.entries = mem,
           worker'.entries <= last, temp' \in Content, TempRight',
           UNCHANGED <<mode, mem, last, version, trigger, file, durable, closeFrom>>
    PROVE  Inv'
  <1>1. Running /\ worker'.pc \notin {"select", "done"}
    BY DEF Inv, Modes, HasVersion
  <1>2. Types' /\ NoneNewer' /\ Whole(file)' /\ Whole(durable)'
    BY DEF Inv, Types, NoneNewer, Whole
  <1>3. FileBehind'
    BY <1>1 DEF Inv, Types, State, FileBehind, Running
  <1>4. Modes'
    BY <1>1 DEF Inv, Modes, Running
  <1>5. CloseRight'
    BY <1>1 DEF Inv, Modes, CloseRight, Running
  <1> QED BY <1>2, <1>3, <1>4, <1>5 DEF Inv

(* The copy of the entries: the snapshot has all that is in the map.       *)
LEMMA CopyOK ==
    ASSUME Inv, Copy
    PROVE  Inv'
  <1>1. /\ worker \in Workers
        /\ mem \in State /\ mem <= last
    BY DEF Inv, Types, NoneNewer
  <1>2. worker.pc = "copy" /\ worker' = [worker EXCEPT !.pc = "create", !.entries = mem]
        /\ UNCHANGED <<mode, mem, last, version, trigger, file, durable, temp, closeFrom>>
    BY DEF Copy, disk
  <1>3. /\ worker' \in Workers
        /\ worker'.pc = "create" /\ worker'.entries = mem
        /\ worker'.version = worker.version /\ worker'.final = worker.final
    BY <1>1, <1>2 DEF Place, Workers
  <1>4. temp' \in Content /\ TempRight' /\ HasVersion /\ HasVersion'
    BY <1>2, <1>3 DEF Inv, Types, TempRight, HasVersion
  <1> QED BY <1>1, <1>2, <1>3, <1>4, WorkerOnly

(* Create, Encode and Sync touch only the temporary file.                  *)
LEMMA WriteTempOK ==
    ASSUME Inv, Create \/ Encode \/ Sync
    PROVE  Inv'
  <1>1. /\ worker \in Workers
        /\ worker.entries <= last
    BY DEF Inv, Types, NoneNewer
  <1>2. /\ \E p \in {"encode", "sync", "rename"} : worker' = [worker EXCEPT !.pc = p]
        /\ UNCHANGED <<mode, mem, last, version, trigger, file, durable, closeFrom>>
        /\ HasVersion /\ HasEntries
    BY DEF Create, Encode, Sync, HasVersion, HasEntries
  <1>3. /\ worker' \in Workers
        /\ worker'.entries = worker.entries
        /\ worker'.version = worker.version /\ worker'.final = worker.final
        /\ worker'.pc \in {"encode", "sync", "rename"}
    BY <1>1, <1>2 DEF Place, Workers
  <1>4. temp' \in Content /\ TempRight'
    <2>1. CASE Create
      <3>1. temp' = Partial /\ worker'.pc = "encode"
        BY <1>1, <2>1 DEF Create, Workers
      <3> QED BY <3>1, NoSnapshot DEF TempRight
    <2>2. CASE Encode
      <3>1. worker'.pc = "sync" /\ temp' = File("cached", worker.version, worker.entries)
        BY <1>1, <2>2 DEF Encode, Workers
      <3>2. worker.version \in Version /\ worker.entries \in State
        BY <1>1 DEF Workers
      <3> QED BY <1>3, <3>1, <3>2 DEF TempRight, Content, File
    <2>3. CASE Sync
      <3>1. temp = File("cached", worker.version, worker.entries)
        BY <2>3 DEF Sync, Inv, TempRight
      <3>2. worker'.pc = "rename" /\ temp' = File("synced", worker.version, worker.entries)
        BY <1>1, <2>3, <3>1 DEF Sync, File, Workers
      <3>3. worker.version \in Version /\ worker.entries \in State
        BY <1>1 DEF Workers
      <3> QED BY <1>3, <3>2, <3>3 DEF TempRight, Content, File
    <2> QED BY <2>1, <2>2, <2>3
  <1>5. HasVersion'
    BY <1>3 DEF HasVersion
  <1> QED BY <1>1, <1>2, <1>3, <1>4, <1>5, WorkerOnly
-----------------------------------------------------------------------------
(* The end of a snapshot: written into the file, or given up.              *)
LEMMA PersistEnds ==
    ASSUME Inv, HasEntries, NEW saved \in BOOLEAN, AfterPersist(saved),
           UNCHANGED <<mode, mem, last, version, trigger, closeFrom>>,
           file' \in Content, durable' \in {durable, file}, temp' \in Content, Whole(file)',
           \/ saved /\ file'.entries = worker.entries /\ file'.version = worker.version
           \/ ~saved /\ file' = file
    PROVE  Inv'
  <1>1. /\ worker \in Workers
        /\ Running /\ HasVersion
    BY DEF Inv, Types, Modes, HasVersion, HasEntries
  <1>2. /\ worker' \in Workers
        /\ worker'.pc = (IF worker.final THEN "done" ELSE "select")
        /\ worker'.version = 0 /\ worker'.entries = 0
        /\ worker'.final = FALSE /\ worker'.saved = saved
    <2> DEFINE p == IF worker.final THEN "done" ELSE "select"
    <2>1. p \in Place /\ worker' = [Worker(p) EXCEPT !.saved = saved]
      BY DEF AfterPersist, Place
    <2>2. /\ Worker(p) \in Workers /\ Worker(p).pc = p /\ Worker(p).version = 0
          /\ Worker(p).entries = 0 /\ ~Worker(p).final
      BY <2>1, WorkerIs
    <2> QED BY <2>1, <2>2 DEF Workers
  <1>3. Types'
    BY <1>2 DEF Inv, Types
  <1>4. file'.entries <= mem /\ file'.version <= version
    BY <1>1, BoundAssumption
       DEF Inv, Types, NoneNewer, FileBehind, HasVersion, HasEntries, Running, Content, State,
           Version
  <1>5. NoneNewer' /\ Whole(durable)'
    BY <1>2, <1>3, <1>4, BoundAssumption
       DEF Inv, Types, NoneNewer, Whole, Content, State, Version
  <1>6. TempRight' /\ FileBehind' /\ Modes'
    BY <1>1, <1>2, <1>4 DEF Inv, Modes, TempRight, FileBehind, HasVersion, HasEntries, Running
  <1>7. CloseRight'
    BY <1>1, <1>2 DEF Inv, Modes, CloseRight, HasEntries, Running
  <1> QED BY <1>3, <1>5, <1>6, <1>7 DEF Inv

(* The rename puts the worker's snapshot in the file's place.              *)
LEMMA RenameOK ==
    ASSUME Inv, Rename
    PROVE  Inv'
  <1>1. /\ temp = File("synced", worker.version, worker.entries) /\ temp \in Content
        /\ HasEntries /\ Absent \in Content
    BY BoundAssumption
       DEF Inv, Types, TempRight, Rename, HasEntries, Content, Absent, File, Version, State
  <1>2. /\ file' = temp /\ file'.entries = worker.entries /\ file'.version = worker.version
        /\ Whole(file)'
    BY <1>1 DEF Rename, File, Whole
  <1> QED BY <1>1, <1>2, PersistEnds DEF Rename

(* A failed write is tried again with the same snapshot, or given up.      *)
LEMMA FailOK ==
    ASSUME Inv, Fail
    PROVE  Inv'
  <1>1. /\ worker \in Workers
        /\ HasEntries /\ HasVersion /\ worker.entries <= last
    BY DEF Inv, Types, NoneNewer, Fail, HasEntries, HasVersion
  <1>2. /\ temp' \in Content
        /\ UNCHANGED <<mode, mem, last, version, trigger, file, durable, closeFrom>>
    BY BoundAssumption DEF Inv, Types, Fail, Content, Absent, File, Version, State
  <1>3. CASE worker.attempt + 1 < MaxRetries
    <2>1. worker' = [worker EXCEPT !.pc = "create", !.attempt = @ + 1]
      BY <1>3 DEF Fail
    <2>2. /\ worker' \in Workers
          /\ worker'.pc = "create" /\ worker'.entries = worker.entries
          /\ worker'.version = worker.version /\ worker'.final = worker.final
      <3>1. worker.attempt + 1 \in 0 .. MaxRetries - 1 /\ "create" \in Place
        BY <1>1, <1>3, RetriesAssumption DEF Workers, Place
      <3> QED BY <1>1, <2>1, <3>1 DEF Workers
    <2>3. HasVersion' /\ TempRight'
      BY <2>2 DEF HasVersion, TempRight
    <2> QED BY <1>1, <1>2, <2>2, <2>3, WorkerOnly
  <1>4. CASE ~(worker.attempt + 1 < MaxRetries)
    <2>1. AfterPersist(FALSE)
      BY <1>4 DEF Fail
    <2> QED BY <1>1, <1>2, <2>1, PersistEnds DEF Inv, Types
  <1> QED BY <1>3, <1>4

(* The process ends; the machine may lose what was not synced.             *)
LEMMA ExitOK ==
    ASSUME Inv, Crash \/ PowerLoss
    PROVE  Inv'
  <1>1. /\ mode' = "down" /\ mem' = 0 /\ version' = 0 /\ trigger' = FALSE /\ closeFrom' = 0
        /\ worker' = Worker("done") /\ last' = last
    BY DEF Crash, PowerLoss, Exit
  <1>2. /\ file' \in {file, durable} /\ durable' \in {file, durable}
        /\ temp' \in {temp, Partial}
    <2>1. CASE Crash
      BY <2>1 DEF Crash, disk
    <2>2. CASE PowerLoss
      <3>1. file.form # "cached" /\ durable.form # "cached"
        BY DEF Inv, Whole, Absent, File
      <3> QED BY <2>2, <3>1 DEF PowerLoss, AfterPowerLoss
    <2> QED BY <2>1, <2>2
  <1>3. /\ worker' \in Workers
        /\ worker'.pc = "done" /\ worker'.version = 0 /\ worker'.entries = 0
        /\ ~worker'.final
    BY <1>1, WorkerIs DEF Place
  <1>4. Types'
    BY <1>1, <1>2, <1>3, Zero, NoSnapshot DEF Inv, Types
  <1>5. NoneNewer' /\ Whole(file)' /\ Whole(durable)'
    BY <1>1, <1>2, <1>3 DEF Inv, Types, NoneNewer, Whole, State
  <1>6. TempRight' /\ FileBehind' /\ Modes' /\ CloseRight'
    BY <1>1, <1>3 DEF TempRight, FileBehind, Modes, CloseRight, HasVersion, HasEntries
  <1> QED BY <1>4, <1>5, <1>6 DEF Inv
-----------------------------------------------------------------------------
(* Every step keeps the invariant.                                         *)
LEMMA NextInv ==
    ASSUME Inv, [Next]_vars
    PROVE  Inv'
  <1>1. CASE UNCHANGED vars
    BY <1>1 DEF vars, disk, Inv, Types, NoneNewer, Whole, TempRight, FileBehind, Modes, CloseRight,
           HasVersion, HasEntries, Running
  <1> QED BY <1>1, LoadOK, CallsOK, TakeOK, CopyOK, WriteTempOK, RenameOK, FailOK, ExitOK
          DEF Next, Write

(* The inductive invariant holds always.                                   *)
LEMMA Invariant == Spec => []Inv
  BY InitInv, NextInv, PTL DEF Spec

(* Types, and where the worker can be while the process starts, runs and   *)
(* ends.                                                                   *)
THEOREM TypeCorrect == Spec => []TypeOK
  <1>1. Inv => TypeOK
    <2> SUFFICES ASSUME Inv PROVE TypeOK
      OBVIOUS
    <2>1. /\ worker.pc \in Place /\ worker.version \in Version /\ worker.entries \in State
          /\ worker.attempt \in 0 .. MaxRetries - 1
          /\ worker.final \in BOOLEAN /\ worker.saved \in BOOLEAN
      BY DEF Inv, Types, Workers
    <2>2. /\ mem \in 0 .. last /\ closeFrom \in 0 .. last
          /\ worker.version \in 0 .. version /\ worker.entries \in 0 .. last
      BY <2>1, BoundAssumption DEF Inv, Types, NoneNewer, State, Version
    <2> QED BY <2>1, <2>2 DEF Inv, Types, Modes, TypeOK, Place
  <1> QED BY Invariant, <1>1, PTL

(* Whenever process or machine stop, the next start finds no snapshot or a *)
(* complete one.                                                           *)
THEOREM FileAlwaysWhole == Spec => []FileWhole
  <1>1. Inv => FileWhole
    BY DEF Inv, Whole, FileWhole, Absent, File
  <1> QED BY Invariant, <1>1, PTL

(* When Close has returned and its write succeeded, the file has all that  *)
(* was in the map when Close was called.                                   *)
THEOREM CloseAlwaysKeepsAll == Spec => []CloseKeepsAll
  <1>1. Inv => CloseKeepsAll
    BY DEF Inv, Types, Content, State, Modes, CloseRight, CloseKeepsAll
  <1> QED BY Invariant, <1>1, PTL

(* No snapshot is replaced by one of an older map or of a lower version    *)
(* unless the machine fails.                                               *)
THEOREM FileMovesForward == Spec => NeverOlder
  <1> DEFINE Forward == file'.entries >= file.entries /\ file'.version >= file.version
  <1>1. Inv /\ [Next]_vars => Forward \/ PowerLoss \/ UNCHANGED vars
    <2> SUFFICES ASSUME Inv, Next, ~PowerLoss PROVE Forward
      OBVIOUS
    <2>1. CASE Rename
      <3>1. file' = File("synced", worker.version, worker.entries)
        BY <2>1 DEF Inv, TempRight, Rename
      <3>2. file.version <= worker.version /\ file.entries <= worker.entries
        BY <2>1 DEF Inv, FileBehind, HasVersion, HasEntries, Rename
      <3> QED BY <3>1, <3>2 DEF File, Inv, Types, Content, State, Version
    <2>2. CASE ~Rename
      <3>1. file' = file
        BY <2>2 DEF Next, Write, LoadFromDisk, Change, TriggerSnapshot, Close, CloseReturns, Tick,
               Triggered, Stopped, TakeVersion, Copy, Create, Encode, Sync, Fail, Crash, Start, disk
      <3> QED BY <3>1 DEF Inv, Types, Content, State, Version
    <2> QED BY <2>1, <2>2
  <1> QED BY Invariant, <1>1, PTL DEF Spec, NeverOlder
=============================================================================
