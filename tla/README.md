# A verification of the peer-discovery system in TLA+

The repository is a small peer-to-peer chat network in Go. A **bootstrap server**
registers clients, checks that they are alive and hands each of them a random few of
the others; the **clients** gossip their contacts among themselves and chat; a
**benchmark tool** loads the server. Server and clients share one package, `shared/`,
whose client manager, priority queue and hash map are the heart of all three programs.
This directory holds models of that package, the configurations that check them with
TLC, and proofs for TLAPS. Paths below are relative to `src/`.

## Inventory

| Part | State | Operations | What makes it hard |
|---|---|---|---|
| Priority queue, `shared/priority_queue.go` | two slices, an index map, one lock | Insert (new, update), ExtractMin, Remove, Peek, GetPriority, Clear, GetRandomSubset | the index map has to follow every swap; Remove from the middle sifts either way |
| Hash map, `shared/hashset.go` | two slices, an index map, one lock | Put, Get, Remove, RandomEntry, Clear, CreateSnapshot, LoadFromDisk | Remove moves the last entry into the hole |
| Its persistence, `shared/hashset.go:361-576` | version, worker, file, temporary file | tick, trigger, write with retries, Close, load | crashes between the steps, failed writes, two locks for one snapshot |
| Client manager, `shared/client_manager.go` | registry (hash map), list of live clients (priority queue of timestamps), callbacks | AddClient, RemoveClient, Clear, GetRandomSubset; a health-check goroutine every 100 ms; a cleanup worker every second | two structures, two locks, none over both; verdicts of slow HTTP checks; time |
| Its worker control, `shared/client_manager.go:100-128, 247-290` | workersMutex, workerWG, the stop channel | StartWorkers, StopWorkers, UpdateConfig, Close | waiting with a lock held; restarts |
| Bootstrap handlers, `bootstrap/main.go`, `shared/client_manager_handlers.go` | the client manager, its file | connect, delete, the UI's forms | requests run concurrently, come late, or lose their answer; the server exits without saving |
| Docker clients, `bootstrap/docker_client.go` | the Docker daemon's containers | create, remove, bulk create, remove all | partial failure, list-then-act |
| Client, `client/main.go` | connection, client manager, queryQueue, sequenceCounter | connect, disconnect, auto-connect, expandContacts, contacts handler | callbacks after the lock, HTTP calls in the middle |
| Chat, `client/main.go`, `client/db.go` | a SQLite database for each client | send, receive, history | delivery and saving are separate steps |
| Benchmark, `benchmark/main.go` | work counter, condition variable, clients, metrics | Start, Stop, worker, throttle controller, metrics updater | condition variable without a predicate; counts checked and then used |

How they interact: the bootstrap's `connect` is AddClient and then GetRandomSubset,
`delete` is RemoveClient. A client feeds the answer to its own client manager, whose add
and remove callbacks keep `queryQueue`; `expandContacts` takes the longest unqueried peer
out of it and exchanges random subsets with it. Health checks are HTTP requests to
`/alive` of the clients. The bootstrap also makes and removes the containers that clients
run in, so a removal there shows in its registry only when checks fail. Only the registry
is persistent. `PROJECT.json` lists the parts
with their status and every hazard with its line.

What makes each part correct: the data structures must be the map and the priority queue
they look like; the file must always be whole and never go back; a client that answers
must stay registered and be listed again and again, one that does not must disappear, a
removed one must not come back; the workers must be two, start, stop, and stop only once;
a request on the containers must not report what is not so; a client and the server must
agree on whether it is connected, as far as calls and processes that fail allow.

## Modules

| Module | Models | Checked by |
|---|---|---|
| `Maps` | Go maps and slices as functions: `With`, `Without`, `Exchange`, `Minima` | |
| `Identities` | the clients' IDs, container IDs: finitely many | |
| `AbstractPriorityQueue` | what a priority queue promises: a map with a minimum | |
| `PriorityQueue` | the heap, one step a loop iteration | `MCPriorityQueue` |
| `PriorityQueueProofs` | theorems about it | TLAPS |
| `KeyValueMap` | what the hash map promises: a map that can be saved and restored | |
| `HashMap` | slices and index map, one step a method | `MCHashMap` |
| `HashMapProofs` | theorems about it | TLAPS |
| `HashMapPersistence` | worker, file, retries, Close, crashes, restarts | `MCHashMapPersistence.cfg` |
| `HashMapPersistenceProofs` | theorems about it | TLAPS |
| `Registry` | what a registry of clients promises, over exits and restarts | |
| `ClientManager` | API calls, health checks, cleanup, one step a lock section or callback | with its history |
| `ClientManagerHistory` | the same with two history variables | `MCClientManager.cfg` |
| `RandomSubset` | GetRandomSubset, both sampling loops, and the lookups after it | `MCRandomSubset` |
| `WorkerControl` | StartWorkers, StopWorkers, UpdateConfig and the two workers | `MCWorkerControl*.cfg` |
| `WorkerControlProofs` | theorems about it | TLAPS |
| `QueryQueue` | a client's callbacks and contact expansion on its client manager | `MCQueryQueue.cfg` |
| `ClientManagerProofs` | theorems about `ClientManagerHistory` and `RandomSubset` | TLAPS |
| `Containers` | the container handlers and the calls they make to the Docker daemon | in `Deployment` |
| `Connection` | connect, disconnect, refresh, auto-connect and the server's registry | in `Deployment` |
| `Deployment` | both together: processes begin and end with their containers | `MCDeployment.cfg` |
| `DeploymentProofs` | theorems about it | TLAPS |
| `Chat` | sending, receiving and saving messages | in `ContactList` |
| `ContactList` | the list of contacts with their last messages, on `Chat` | `MCContactList.cfg` |
| `Gossip` | several clients that exchange contacts | `MCGossip.cfg` |
| `ClientProofs` | theorems about `Chat` and `QueryQueue` | TLAPS |
| `BenchmarkPool` | the benchmark's worker pool, Start and Stop | `MCBenchmarkPool.cfg` |
| `BenchmarkPoolProofs` | theorems about it | TLAPS |

An operator whose comment begins "A wrong ..." is a variant of the definition below it,
with a plausible bug. No specification uses it; it is put in place of that definition to
see that a property notices.

### PriorityQueue

`size`, `priorities`, `values` and `indexMap` are the fields of the Go struct (a slice is
a function on `0 .. size-1`). Every method holds `pq.mu` throughout, so a method starts
only at `pc = "rest"`. What it does before it calls `heapifyUp` or `heapifyDown` is one
step, and each iteration of these loops is one. `RemoveAt` serves Remove and ExtractMin:
ExtractMin is the removal of the root, and at the root `Remove`'s choice is always to
sink. Priorities are integers; the application uses `int64` time stamps and sequence
numbers and never computes with them inside the queue.

* `ValidAtRest`: when a method has returned, the heap is in order (the repository's own
  `validateUnsafe`, which only tests call). It is proved, and a part of `HeapInv`.
* `HeapInv`: the index map is exact at every step, also between two iterations, and the
  order fails at most around the loop's `index`; this is the inductive invariant.
* `ImplementsMap`: every method answers as `AbstractPriorityQueue` with the map
  `v |-> priorities[indexMap[v]]`, and heapify steps are stutters.

Bounds: six values and three priorities. Six entries make a heap of three levels, in which
removing from the middle can make the moved entry rise (the last entry may be smaller than
the parent of the hole only if they are in different subtrees, which takes six entries);
ties and strict orders both occur.

### HashMap

One step a method, under `h.mu`. `snapshot` is the entry list of the last snapshot;
LoadFromDisk replaces everything by it and rebuilds the index map, where a repeated key
would keep its last index (`LastIndex`). `SlicesExact` says that map and slices agree and
that no snapshot has a key twice; `ImplementsMap` that the map is `KeyValueMap`, so that a
load restores exactly what was saved. Three keys suffice for a first, a middle and a last
entry.

### HashMapPersistence

Contents are abstracted to the order in which they arose: each change makes a new number,
`mem` is the number of the map's present contents. `file` and `temp` are the two files:
absent, partly written, complete but only in the operating system's cache, or synced.
`Create`, `Encode`, `Sync` and `Rename` are the four steps of `writeSnapshotToDisk`, each
of which may fail (`Fail`, with the retry counter). `Crash` ends the process anywhere;
`PowerLoss` also loses what was not synced, and may undo a rename, because the directory is
never synced: `durable` is what the directory held when it was last flushed.

* `FileWhole`: the file at the path is never a torn one, whatever stops when.
* `NeverOlder`: short of a power loss, the file is never replaced by one of an older map
  or of a lower version, also over restarts and retries.
* `CloseKeepsAll`: if Close's final write succeeded, the file has everything Close found.
* `EventuallyPersisted`: each change reaches the file unless the process ends.

Assumption: the first tick comes after the file has been loaded. `EnablePersistence` starts
the worker before `LoadFromDisk` runs, but all programs use an interval of 30 s; a tick at
once would break `NeverOlder` (the variant `TickBeforeLoad`). Bounds: two attempts a write,
three changes, versions up to 3: a restart, a retry and an overlap of change and snapshot
all fit. Close returns nil also when its final write was given up; `CloseKeepsAll` is about
the other case.

### Registry

The abstract specification of a registry in the system. `members` come in by `Add`, or by
`Start`, which brings back what was last in the file (`saved`); they go by `Remove` and
`Exit`, or by `Expel`, if a health check has given them up. `Add` and `Remove` need a request
for it, under way before the step or after it (`adding`, `removing`); Clear is a `Remove` of
every member at once. `GiveUp` is the verdict of a check, and needs that the client is
unregistered or does not answer; until `Expel` it may have been added again. Two modules
implement it:

| Variable | `ClientManagerHistory`: `ImplementsRegistry` | `Deployment`: `ServerIsRegistry` |
|---|---|---|
| `members` | `hashMap` | `registered` |
| `suspects` | `Suspects`: a check is past its verdict | `condemned` |
| `answering` | `up` | running, and not given up |
| `adding` | `AskedToAdd`: Put called, Insert not yet | `Asking("connect")` |
| `removing` | `AskedToRemove`: half way through RemoveClient or Clear | `Asking("delete")` |
| `running`, `saved` | always, nothing | `serverUp`, `file` |

This is what ties the two models together: `Connection` abstracts from the client manager's
queue, clock and callbacks, and both agree on who gets in and out, and on what is between a
verdict and its removal. In `Connection` a check of a running client may fail (`CheckFails`);
that client did not answer in time, so `answering` leaves it out.

`QueryQueue` abstracts from the same client manager, but is not shown to be a registry: there
Clear is a single step that leaves no trace of who asked for it, so a wrong removal would
pass as part of one.

### ClientManager

`hashMap` is the set of registered IDs, `queue` maps each listed ID to its age. The code
keeps time stamps and uses only differences to the present; the model keeps ages, which
`Tick` increases, and stops them at `AgeCap`, beyond which all are too old. A thread that
has read the clock carries in `since` how long ago that was; `MaxDelay` bounds it. `thread`
gives each goroutine's place: a caller (an HTTP handler), a health check, the cleanup
worker. Each access to `hashMap` or `queue` is a step, each callback is one.

* AddClient: `AddClient` (Put), `Insert`, `AddCallback`.
* RemoveClient: `RemoveClient` (hash map), `Dequeue`, `RemoveCallback`.
* A check: `Pick` (a random registered ID), `Contains`, `Judge` (too old, too young, or
  to be pinged), `Ping` (hostname lookup), `Answer` (the HTTP request or its timeout), then
  `Insert` and `AddCallback`, or `DequeueDead`, `DeadCallback`, `Unregister`.
* A sweep: `StartSweep` (clock), then `Peek`, `ExtractMin` and `EvictCallback` in a loop.
* `Change`: a client starts or stops answering at any moment.

`listener` is what the callbacks say is listed: the client program builds its query queue
from it. The priority queue is used by its contract, proved in `PriorityQueueProofs`.

`ClientManagerHistory` adds variables that constrain nothing. `stable` holds the IDs that
were registered while answering, with no check that had already given them up, and have
neither been removed nor failed to answer since; `gone` those removed when no call or check
that might list them was under way.

* `StableRegistered`: a stable client is registered. A late verdict can undo only the one
  registration it overlaps.
* `GoneForgotten`: a gone client is neither registered nor listed.
* `DeadUnregistered`, `ExpiredEvicted`, `GhostVanishes`, `AliveListed` (liveness): a dead
  client is unregistered; an old entry is evicted or refreshed; an entry without a
  registration, which overlapping calls do leave behind, goes away; an answering client
  that stays registered is listed again and again.

Bounds: one ID (the calls on different IDs share no state but the sweep's choice of the
oldest), two callers, one check, `MaxAge` and `MinAge` 1: an entry is young, old enough to be
pinged, or too old, and two calls overlap with a verdict. Any number of checks, callers and
ages is what the proofs of the three safety properties are for. `MaxDelay` is 1: with 0,
threads that read the clock one after the other without a pause could keep time from
passing, which the code cannot.

Fairness (`Fairness`): goroutines that can run do (weak); both tickers fire for ever (weak,
`StartSweep`); a random choice made for ever falls on each registered client (strong,
`Pick`); time passes (strong, `Tick`, which waits for threads at `MaxDelay`). Nothing is
assumed of callers or clients.

### RandomSubset

The sampling runs under `pq.mu` on a queue that is any arrangement of distinct IDs, which
`PriorityQueue`'s `IndexMapExact` justifies; the registry changes at any step.
`SampleRight`: the sample has min(n, size) different members of the queue, and rejection
always has one left. `AnswerRight`: no client is named twice, none that was removed while
the queue was sampled or before (`seen` holds who was registered at some moment of the
lookups), and no sampled one that always was registered is left out. Five IDs make `n =
size/2`, `n > size/2` with two rounds of replacement, `n = size` and `n > size` all occur.

### WorkerControl

A channel is the number of the `make` that created it. StopWorkers and UpdateConfig keep
`workersMutex` while they wait for `workerWG`; a section under RLock is one step enabled
while nobody holds the lock. `OneOfEachKind`: restarts never leave two workers of a kind.
`NoPanic`: no closed channel is closed again, and the wait group counts exactly the live
workers. `FlagAndIntervalRight`: between calls, `workersRunning` is the truth and the
workers run at the configured interval. `MaxStarts` bounds starts to four, enough for a
start, a stop, a second start and two restarts in between by three callers. TLC's deadlock
check is off because the program does deadlock: see the finding.

### QueryQueue

A client's own query queue (peers waiting to be asked for contacts) on top of its client
manager, of which only the registry is kept: whether a removal finds an entry in the list of
live clients, and so calls back, is left open (`Expire`, `RemoveCallback`). The callbacks,
the health check and the cleanup worker are steps of the threads `Worker`; the expansion
worker is `Expander`, with `Extract`, `Lookup`, `QueryFails` (also for a peer that is up) or
`QueryAnswered`, `Learn` for each contact of the answer, and `Learned`. A contact that is
not registered when asked (`NewContact`, `Learn`) is added a step later (`Put`).
`sequenceCounter++` is not protected by a lock in the code, so `Load` and `Store` are two
steps, and the number passed to Insert may be read again at any moment before it (`Read`);
numbers are kept relative to the counter, which only ever shifts them.

* `QueriedAgain`: a peer that answers, stays registered and is not being removed is asked
  again and again, whatever failed query, late callback or raced counter came before.
* `ForgottenLeaves`: a peer that stays unregistered leaves the query queue for good.

Bounds: two peers, so that one waits behind the other, one thread besides the expander (a
race needs two), and `MaxLag` 2: no callback takes a new number while one in use is further
behind. Fairness: goroutines go on (weak), a thread that has to wait for the bound gets its
number (strong, `Load`), and random health checks find each registered peer again (strong,
`Refresh`): a check skips a peer that was inserted less than `MinAge` ago, which in the
model is a step that changes nothing, so either a check comes through some time or
something else inserts the peer again. Assumed besides: `http.Post`, which has no timeout,
ends.

### Gossip

Several clients and the bootstrap server. Of each client `knows` has the contacts of its
client manager, and `query` its one exchange under way: `expandContacts` sends a random subset
and the client's own identity (`Sent`), the peer's contactsHandler adds them (`Received`) and
answers with a random subset (`Answered`), which the client adds (`Learned`). A random subset
has `SubsetSize` members, or all if there are fewer. A connection, a request or its answer may
be lost, a check may fail although its client runs, a client may disconnect and the server
may lose a registration; `MaxFailures` bounds all of these.

* `Spreads`: if the network comes to stay in one piece (`Linked`: of any two parts, a client
  of one knows a client of the other), everybody gets to know everybody.

`README.md:190` promises more, that all peers get to know all the others. The code does not
ensure it: of two clients that connect, the second hears of the first in the server's
answer, and may drop it after one failed health check before it has asked it. Both stay
connected, so that neither asks the server again, and neither ever hears of the other.
Nothing mends a network that has been split, which is what the premise `Linked` excludes.

Bounds: three clients with subsets of one, so that each contact is told separately, links go
in one direction and a chain of three has to close; one failure, which cuts any link or
loses any message at any moment. Fairness: requests are handled and each client goes on
asking (weak); each contact is told to each other some time (strong, `Telling`), since
choices are random and a peer is asked again and again (`QueriedAgain`). Nothing is assumed
of what answers name. All clients run: the promise is about the peers in the network. A
request that arrives after its client has given up, which could only add a contact, is left
out.

### Containers, Connection, Deployment

`Containers` is the Docker side. `containers` maps the ID of each client container to its
name and status (`created`, `running`, `crashed`, which the restart policy undoes, and
`exited`). `request` is what each HTTP request has still to do; one call to the daemon is
one step, since other requests come in between:

* add: `ContainerCreate` (or `ContainerCreateRefused`, if the name is taken), then
  `ContainerStart`; bulk creation draws a name first (`GenerateRandomName`) and goes on
  whatever fails;
* remove: `ContainerStop`, whose errors do not matter, then `ContainerRemove`;
* remove all: `GetClientContainers`, then `ContainerRemove` for each name, in any order, as
  each has a goroutine; one error makes the answer an error.

`CallFails` lets any call fail at any time, `AnswerLost` after the daemon has done what it
was asked. Docker and docker compose are external: an ID is given once, a name belongs to
one container, and one client exists at the start, because `docker-compose.yml` starts it
under the same name prefix.

`Connection` is the HTTP side. `process[c]` has a client's fields `connected`, `retryCount`
and `maxRetries`, its auto-connect worker, one request of its dashboard under way, and a
refresh of another tab that has found the client not connected and is about to connect
(`refresh`). `c.mutex` is held over the whole call (`Free`), so that `call[c]` is its only
one: `sent`, then `served`, then `Answer`; or it ends by `Refused` (no server) or `Break`
(connection lost, on either side of the server's work), after which the request may be in
`late` and still be served. `Judge`, `CheckFails` and `Unregister` are what a health check
does to the registry, `Persist`, `Exit` and `Start` what becomes of it when the server ends,
which it does only without `Close` (`log.Fatalf` and signals skip the deferred function).

`Deployment` has both, with Connection's `running` replaced by the containers that run; each
step of the daemon that changes that set is also a `Begin` or `End` of a client (`Follow`).

* `AnswersTrue`: an answer that is no error is true whatever other requests did meanwhile:
  the client was started; no container a removal was about, of any status, is left.
* `ConnectedIsRegistered`: a client that says it is connected is registered, unless a health
  check removed it, the server forgot it in an exit, or its disconnect lost its answer or
  came late. Those registrations are in the history variable `excused`, and a connect
  takes them out again.
* `Rejoins`: a client with auto-connect is, while it runs, connected again and again, unless
  `MAX_RETRIES` attempts in a row have failed.
* `GoneUnregistered`: a removed client leaves the registry for good, also when its last
  connect comes after its removal or the server restarts with its entry in the file.

Bounds: two containers with two names, the one that exists first with auto-connect and
`MAX_RETRIES` 0 (for ever) or 1, two requests, bulk creations of up to two, and `MaxEvents`
3 requests and faults in all. Each violation of the wrong variants takes at most three, and
so do the cases the properties excuse: a registration, a broken call, its late arrival.
After the last event the system comes to rest, so the deadlock check is off. Fairness:
goroutines that can run do (`RequestStep`, `ClientStep`), which includes that calls end,
although `http.Post` has no timeout; the daemon restarts crashed processes; a registered
client that does not answer is found by some check (`DeadUnregistered` of `ClientManager`);
and the server is started again.

What the model shows besides, and no property forbids: a client whose registration was lost,
to a late verdict or to an exit within 30 s of it, stays unregistered, because its worker
looks only at `connected`; a disconnect whose answer is lost leaves a client that says it is
connected and is not registered, and a connect whose answer is lost the opposite; Disconnect
is undone by the auto-connect worker at its next tick; bulk creation answers OK even if
every creation failed; a container that was created and not started keeps its name.

### Chat

`send` maps each message made to the place of its request: on its way (`request`), saved by
the receiver (`saved`), confirmed (`accepted`), still on its way after the sender gave up
(`late`) or `over`. `RcvMessage` is the statement INSERT OR REPLACE on one client's database,
in the receiver's handler and in the sender's; either may fail. A crash of a client is a
broken connection or a save that fails, because the database file survives. IDs are clock
readings, and two clients, or two handlers, may read the same one.

* `SentIsReceived`: a message the sender shows as sent is at the receiver.
* `HistoryKept`: no later message replaces it, unless made in the same nanosecond.

Both are proved for any clients, messages and clock; the run that checks them is that of
`ContactList`.

### ContactList

The contact list beside a chat, with `Chat` below it. `contacts` are the rows of table
Contact, `known` the peers of a client's query queue, `page` what a tab of its browser
lists. A tab first reads the rows, each with its last message (`GetContactsWithLastMessage`:
the partition by `Partner`, and a LEFT JOIN, so that a contact may have none and a partner
without a row is not listed), then appends the known peers that the query did not return,
with no message, and saves them (`AppendNewContacts`), which may fail. Between the two,
messages are sent and saved, and other tabs do the same.

* `PreviewCatchesUp`: a contact that was saved once, or that stays in the query queue, is
  listed with the newest message of its chat again and again. For a peer that goes from
  the queue before its row is saved nothing is promised: it is not listed, whatever it sent.

A contact that is listed for the first time may have messages, although the comment at
`client/main.go:660` says "No messages yet": its peer may have written before. A
listing after its row has been saved shows them.

Bounds: two messages between two clients (also to themselves), four clock readings in two
seconds: crossing messages, equal IDs, equal seconds with different IDs; one viewer with one
tab, and one peer that may be in its query queue. Fairness: a tab asks every few seconds
(weak), and adding a contact that is listed again and again succeeds some time (strong).
Nothing is assumed of messages.

### BenchmarkPool

Each Start call has a context, a throttle controller, a metrics updater and workers of its
own; `workCounter`, the condition variable (`waiters`, first come first), `stopChan`
(`stopped`), `running` and the wait groups are shared by all calls, of which two may be
under way because `Check` and `SetRunning` are two steps. A worker is at `top` (looks at the
context), `load`, `claim` (compare-and-swap), `work`, `lock` (about to wait) or `wait`. A
second Stop panics at the closed channel, which net/http recovers, and so skips the
broadcast (`Close`). A tick that meets a changed rate only restarts the ticker.

* `WorkConserved`: ticks given out less operations begun are the counter (`owed` is history).
* `NothingLeft`: a Start call that has returned leaves no goroutine behind.
* `WorkGoesOn`: while the tool runs, operations are performed again and again: a signal that
  finds no sleeper is lost, but not for good.
* `LoadEnds`: after Stop, operations cease, even if Start never returns.

Bounds: two Start and two Stop calls, one worker each, `MaxWork` 2 (a tick at the bound
still signals). Fairness: goroutines go on; the tick and the exit of a controller are
strongly fair, because its select picks at random among what is ready. `performWork` ends,
since the tool's HTTP client has a timeout.

That Start returns after Stop is not among the properties, because it does not: a worker
that finds no work calls `workCond.Wait` (`benchmark/main.go:260`) without looking at the
context again, Stop broadcasts once (611), and Start cancels the context only afterwards
(590). A worker that goes to sleep after the broadcast is never woken, Start waits for it
for ever (593), and the tool stays "running".

## Runs

| Run | Shows |
|---|---|
| `priority_queue` | the heap is a priority queue |
| `hash_map` | the slices are a map |
| `random_subset` | subsets are right although the registry changes |
| `client_manager` | it is a registry; registrations and removals hold against late verdicts; dead, old and ghost entries go, and answering clients are listed |
| `worker_control` | no duplicate workers, panics or stale intervals |
| `persistence` | the file is whole, moves forward, and catches up |
| `query_queue` | live peers stay in the rotation, forgotten ones leave it |
| `deployment` | answers about containers are true, connected clients registered; they rejoin, gone ones are forgotten, and the server keeps a registry |
| `chat` | what is shown as sent was received, and stays; the preview of a contact catches up with its chat |
| `benchmark_pool` | work is conserved and goes on; Start and Stop clean up |
| `gossip` | a network in one piece gets to know itself |
| `worker_control_stop` | **fails**: StopWorkers may never return |

The failing run is a disagreement with the repository's comments, described with its lines
under "findings" in `PROJECT.json`: StopWorkers waits with the lock that a worker in its
tick or at its start needs, so both wait for ever.

Types of `PriorityQueue`, `HashMap`, `HashMapPersistence`, `ClientManager`, `QueryQueue` and
`Chat` are proved (`TypeCorrect`, `QueryTypeCorrect`, `ChatTypeCorrect`), so the runs do not
check them. `ContactList` and `Gossip`, whose properties are liveness, state none. The other
modules' runs check their type invariants too.

## Proofs

TLC's runs are bounded; the theorems hold for all sets of keys, values and integer
priorities, any number of callers, workers, requests, containers, faults, crashes, retries
and of Start and Stop calls, any clients, ages and messages. Every invariant and every
action property that a passing run checks is proved.

The assumptions are those of the modules: priorities are integers (`PriorityAssumption`),
counts, ages and bounds are natural numbers, the value that stands for nobody is no ID, and
the cleanup worker and the expander are goroutines of their own. There are finitely many
IDs (`FiniteAssumption` of `Identities`), since container IDs are strings of a fixed length.
The definitions of `Chat` and `RandomSubset` that every module has (`ChatNext`,
`SubsetSpec`, ...) carry the module's name, so that one module of proofs can extend two.

*Priority queue* (`PriorityQueueProofs`). `ShapeInvariant` first: types and the exact index
map, preserved by every step; its lemmas say what a swap, an append and a removal do to the
index map. Then `HeapInvariant`: with `Shape`, the order fails at most at the edge the
running loop is about to mend, and the children of `index` are in order with its parent.
The second part is what makes it inductive: without it a swap would leave the grandparent
unrelated to the children. `HeapCorrect` states it as the runs' `HeapInv`, and `HeapValid` is
its instance at rest. `RootIsLeast` takes the
least index of an entry below the root and looks at its parent, by the well-foundedness of
the naturals; with it `Refinement` maps each method to the abstract one and each heapify
step to a stutter.

*Hash map* (`HashMapProofs`). The inductive invariant is types, exact index map, and
snapshots without repeated keys; the last is needed because LoadFromDisk's loop would
otherwise give a key its last index only, and the slices a key twice. One lemma a method
gives the invariant and the abstract map it leaves; `Refinement` puts them together.

*Worker pool* (`BenchmarkPoolProofs`). `WorkConserved` follows from an invariant about the
two counters alone: only a claim is not obvious, and there the compare-and-swap has seen the
value that was loaded. For `NothingLeft` the invariant `Inv` adds what makes it inductive:
the waiters are distinct workers in Wait (so a Signal never wakes a worker of a finished
call), a call past the shared wait has no worker and no controller until it spawns again,
and one past the second wait no updater. One lemma a group of actions preserves it.

*Chat* (`ClientProofs`). `SentIsReceived` is not inductive: a save by the sender needs
`AnsweredIsReceived`, that a confirmed message is at its receiver, and both need that no
save destroys a row, which holds because a row's key is the instant of its message
(`MessagesOK`, `RowsOK`). `RcvMessageKeeps` says this once for INSERT OR REPLACE; all
actions are instances of a step that saves (`SaveStep`), one that does not (`QuietStep`),
and `Send`. `HistoryKept` is the same fact about each step.

*Deployment* (`DeploymentProofs`). `RegistrationKept`: every step of the system is one of
`Connection` or leaves it alone (`NextIsConnection`), so the invariant speaks of that part.
`KeptOK` makes it inductive: it holds while the server is down too, when what counts is the
file, and already covers a client whose connect was served and not yet answered;
`CallRight` adds that a client disconnects only from a connection. `AnswersAlwaysTrue`: a
step of any request only makes containers evolve (`Evolves`: names stay, IDs do not come
back, no container is merely "created" again), and what a request knows survives that
(`RightStays`). `Right` is the inductive part: as long as a removal has not failed, each
container it is about still has a name that it has to remove.

`ImplementsConnection` and `ImplementsContainers`: Deployment implements both its parts, so
that what holds of either alone holds of the whole. `TypeCorrect` needs that an attempt of
the auto-connect worker is counted only if one is left (`MayRetry`), that a call is the
worker's or the page's and of a running process (`OneCaller`), and that a creation begun is
one of those asked for (`OneLeft`).

*Client manager* (`ClientManagerProofs`). `StableStaysRegistered` is inductive once no check
has condemned a stable client (`StableSafe`), `GoneStaysForgotten` once no thread will list
a gone one (`GoneSafe`). Both follow from what a single step can do to registry, queue and
threads: `Effects` lists it in six parts (what is removed was condemned or removed by a
call, what is listed was about to be, ...), and `StepOK` shows that each action of the
model, with any number of others under way, does no more.

*Registry*. `IsRegistry` and `ServerKeepsRegistry` are refinements, each from the types of
its module (`TypeOK`; `ClientsTyped` and `ServerTyped`): one lemma for each group of actions
names the step of the registry that it is, or shows that it is none (`Quiet`). What has to
be shown is whose request a step serves (`AskedToAdd`, `AskedToRemove`, `Asking`), who is
given up by it, and who no longer is (`SuspectsOf`): several checks of one client may be past
their verdict, so that a removal need not clear it of suspicion, and a goroutine that adds,
calls back or sweeps changes nothing of this. In the client manager the verdict is reached
only in `Ping` and `Answer` (`PingIsRegistry`); an entry that is merely too old is dropped
from the queue and no more.

*GetRandomSubset* (at the end of `ClientManagerProofs`) and the *query queue* (at the end of
`ClientProofs`). `OneLeft` is why rejection sampling ends: fewer values picked than the
queue has, so one is left, by the pigeonhole principle. `SampleAlwaysRight` needs that what
is picked is distinct and comes from the part of the queue read so far, `AnswerAlwaysRight`
that the answer holds none but sampled IDs already looked up, and each of these that was
registered all along. For `QueryTypeCorrect`, a goroutine on the way to queue a peer
has one (`HasPeer`), which is where a reinsertion without a target would show.

*Worker control* (`WorkerControlProofs`). Live workers belong to the last start and have its
channel (`OfLastStart`), no channel is closed before it is made and the last one is open
while workers run (`Channels`), and who waits has closed it (`Waiting`). With the wait group
equal to the number of live workers (`Counted`), a wait that returns leaves none, so a
restart has two, and no channel is closed twice. None of it says that a wait returns: it may
not, see the finding.

*Persistence* (`HashMapPersistenceProofs`). `FileAlwaysWhole` is about the directory as well:
what it held when last flushed (`durable`) must be whole, too, since a power loss brings it
back, and so must the temporary file just before the rename (`TempRight`). `FileMovesForward`
needs that the file is behind the snapshot being written, and that behind the map
(`FileBehind`), after every crash and restart. `CloseAlwaysKeepsAll` follows what Close found
through map, last snapshot and file (`CloseRight`).

`TypeCorrect` of the worker pool: a worker claims only from a count it has seen above zero
(`Counts`), so the counter never falls below it, and every sleeper is among the waiters
(`AllWait`).

Only model-checked: liveness, which this prover does not reach (`EventuallyPersisted`,
`DeadUnregistered`, `ExpiredEvicted`, `GhostVanishes`, `AliveListed`, `QueriedAgain`,
`ForgottenLeaves`, `Rejoins`, `GoneUnregistered`, `WorkGoesOn`, `LoadEnds`,
`PreviewCatchesUp`, `Spreads`). No model defines anything recursively, so no proof needs
induction over data; the one step that takes a least counterexample (`RootIsLeast`) uses the
well-foundedness of the naturals.

## Not modelled, and what could follow

The models and proofs planned are done. What ties `Connection` to `ClientManager` is
`Registry`, for safety; that its checks find every registered client that does not answer is
assumed as fairness in `Deployment` and is `DeadUnregistered` of `ClientManager`, by reading.
A proof that connects the two would need liveness, which is out of the prover's reach. In
`Registry` a save takes the members of one moment, as `Persist` does; that the file's
snapshot may be of an earlier one, as `HashMapPersistence` has it, is left there.

Not modelled:

* `performWork`'s choice to remove a client first, and the benchmark's metrics. Workers
  compare the number of clients with `MAX_CLIENTS` before they add one, and two may remove
  the same one, so the "maximum number of concurrent clients" of `README.md:98` is exceeded
  by any overlap, and nothing brings the number back; there is no bound to check. The
  metrics are counters under one lock and are only shown.
* The client's `Shutdown`, which nothing calls; configuration from the environment.
* HTML templates and generated code, JSON and HTTP formatting, logging, the container
  images and scripts.
