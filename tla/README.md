# A verification of the UDP provisioning server

`src/` is a small C server: a thread pool (`mythread.c`) runs one job per UDP
datagram (`main.c`), and each job creates a user account and allocates an IP
address in MongoDB (`db.c`, over the driver layer of `mongo_sql.c`) through a
pool of connections. This directory holds TLA+ models of it, the TLC runs that
check them on small instances, and TLAPS proofs for instances of any size.

## 1. Inventory

| Part | Source | State | Operations | Made correct by |
|---|---|---|---|---|
| worker thread pool | `mythread.c/.h` | `jobs_mutex`, `jobs_cond`, list of jobs, list of workers, each worker's `terminate` | `workqueue_init`, `worker_function`, `workqueue_add_job`, `workqueue_shutdown` | no lost wakeup, each job run once, shutdown stops the workers (it does not) |
| list macros | `mythread.h` | `prev`, `next` of each block | `LL_ADD`, `LL_REMOVE` | the pointers spell the list, no stale pointer is written through |
| socket pool | `db.c`, `mongo_sql.c` | list of `NOSQL_SOCK`: mutex, `connected`, driver handles | `DBInit`, `nosql_get_socket`, `nosql_release_socket`, `nosql_init_socket`, `nosql_destroy_socket` | a thread that asks gets a socket, alone, and gives it back |
| provisioning | `db.c` | the tables `groups`, `users`, `group_ip`; the row, field count and table name kept in the socket; a static reply buffer | `AddUser`, `AllocIp` | an answer describes what the database holds, an address goes to one user |
| driver layer | `mongo_sql.c` | `nosql_row`, `numfields` | `nosql_select_query`, `nosql_exec_direct`, `nosql_free_result`, `nosql_error_judge`, `fetch_data`, ... | rows are the rows of this query, errors reach the caller |
| UDP front end | `main.c`, `client.c` | datagrams, job blocks | receive loop, `split`, `deal_msg`, the client's send/receive | a request that is not lost is answered, and with its own fields (not so with two workers in `split`) |
| Oracle layer | `ora/sql.c` | statement cache, handles | `sql_prepare`, `sql_query`, ... | a cached statement is the one prepared for this query |
| SQL parser | `ora/sql_prepare_parser.c` | none | `sql_translate`: literals become binds | a template with its binds put back is the statement |
| configuration | `confparse.c` | `CONF` | read once | - |

The receive loop calls `workqueue_add_job`; a worker calls `deal_msg`, which
calls `AddUser` and then `AllocIp`; each of these takes a socket, makes two or
three database calls on it and releases it. Shared state: the job list (under
`jobs_mutex`), the `terminate` flags (under nothing), the sockets (each under
its own mutex, taken with `trylock`), the database and the static reply buffer
of `AllocIp` (under nothing). Hard to test: the order of wakeups, the shutdown,
the scan of the socket pool under contention, `AddUser`'s second release, a
failure between two database calls, two clients at once, a lost reply, two workers in
`strtok`, whose static pointer nothing protects either. Each of these is a hazard
of `PROJECT.json`, at its line, with the properties for it.

## 2. Plan

The modules, in the order in which they were written: the most important
behaviour first.

| Module | Models | Uses |
|---|---|---|
| `ThreadPool` | the pool of worker threads, at the grain of its mutex and condition variable | refines `JobDispatch` |
| `JobDispatch` | the abstract specification: a stack of jobs, each run at most once | |
| `JobList` | the list macros, pointer by pointer; its `order` is `waiting_jobs` of `ThreadPool` | |
| `SocketPool` | taking, connecting and releasing MongoDB sockets | |
| `Provision` | `AddUser` and `AllocIp` on those sockets, the driver layer, failures, restarts | `Pool == INSTANCE SocketPool`, refines `AddressLease` |
| `AddressLease` | the abstract specification: an address is taken for good, then leased to one client | |
| `UdpServer` | `main`, `split` and the clients, with datagrams lost and repeated | `Pool == INSTANCE JobDispatch` |
| `OraSock` | the statement cache of the Oracle layer | |
| `SqlPrepare` | the SQL parser as operators on sequences of symbols | |
| `OraSql` | the statement cache with the statements the parser makes of texts | `OraSock`, `SqlPrepare` |

What is left: `JobList` could be shown to implement the `stack` of
`JobDispatch`, for which its blocks need names that are not used again; two
threads of `Provision` could be shown to implement a weaker lease, one in which
an address is taken once and granted to any number of clients. Neither would find
out more about the code than the runs and theorems below do.

## 3. The modules and the code

**`ThreadPool`** (`mythread.c`). One thread `Main` runs `main()`: it creates the
workers (`workqueue_init`), then adds a job per datagram (`workqueue_add_job`)
and may stop the pool once (`workqueue_shutdown`, which `main.c` never calls;
`ServerNext` is `Next` without it). A worker is in `worker_function`. `wpc` and
`mpc` are the program counters; a step is what a thread does between two points
where another can act: `pthread_mutex_lock`, `pthread_cond_wait` (which gives the
mutex up and sleeps in one step, and whose return is `Lock` again, before the test of
the inner `while`), `pthread_cond_signal`, `pthread_cond_broadcast`, the
unlocks, and the accesses to `terminate` and to the list of workers that no lock
protects. `SpuriousWakeup` is POSIX's. Three things of the code are easily
modelled away and are not: a worker that finds `terminate` breaks out with the
mutex held (`Exit`), `workqueue_shutdown` reads `worker->next` after the worker may
have freed itself (`ShutdownNext`, which may crash), and `threadpool_init` ignores
a failure of `workqueue_init` (`CreateFails`). `TakeJob` is `LL_REMOVE` and the
unlock together, since the mutex is held throughout.

**`JobDispatch`** is what the rest of the server relies on: a job is accepted
once, taken from the top by one worker, and finished or, by a shutdown, dropped.
`ImplementsDispatch` maps `stack` to `waiting_jobs` and `running` to `job`.

**`JobList`** (`mythread.h`). Blocks come from a `malloc` that does not clear
them and go back to `free`; `LL_ADD` and `LL_REMOVE` are the assignments of the
macros in their order. The mutex is held around each, so each is one step. `order`
is a history variable.

**`SocketPool`** (`db.c`, `nosql_init_socket`). `DBInit` is the choice of `N`
sockets and of those it could connect, `Up`. A thread in `nosql_get_socket` looks
at one socket per step, from the head of the list: `Busy` (`trylock` fails),
`Grab`, then `ConnectOk` or `ConnectFails` if the socket is not connected, and
`NoHandle` when the scan is back at its start: the function returns `NULL`, which both
its callers dereference. `Release` is the release of an error path and of
`AllocIp`; a successful `AddUser` releases twice (`AddUserRelease`,
`AddUserReleaseAgain`). `pthread_mutex_unlock` on a default glibc mutex frees it
whoever holds it: `Unlock`.

**`Provision`** (`db.c`, `mongo_sql.c`, `deal_msg`) puts the rest of `AddUser` and
`AllocIp` on the steps of `SocketPool`: `LeaveAddUser`, `GetSocket` and
`LastRelease` take a step of `Pool` together with one of their own, and
`Restart` resets its variables with the others. `AddUser`'s second release brings two
threads to one socket (`sock_shared`), and the model goes on from there. So every access to
what they then have in common is a step: `WriteTable` writes `table_name` and `numfields`, `Query`
asks in the table that is there by then and writes the row, `TakeGroup`, `CheckUser` and `GetIp` test
and copy the row, `StoreUser` and `MarkIp` update the table that is there by then, `FreeRow`
frees the row. A row that one thread reads while another is on its socket may be freed under it, and
then have any text (`Junk`); a query with `numfields` 0 fetches nothing. `Select` and
`Exec` give every way `nosql_select_query` and `nosql_exec_direct` may return,
the failures among them chosen by `Faults`, and what they leave in the row: `row`
is `NoRow` when `nosql_row` is `NULL`, `<<>>` when it is there and `row[0]` is not.
Addresses are sequences of parts, because `fetch_data` copies each document found
over the one before with `strncpy` and no terminator (`LastToReach`, `Fetch`), and because
`ipaddr`, the static buffer that `AllocIp` returns and all threads share, is written and read a
byte at a time: `CopyIp` is one step of the `strcpy`, `ReadIp` of the `snprintf` of the update,
`Answer` of the `sprintf` of the reply. `shared` says whether two threads have been on one socket.

**`AddressLease`** is what the clients of `Provision` are promised, without
sockets, rows, return codes and processes: an address is taken out of the pool once,
and an address that is taken may be granted once, to a client that has none. One that is
taken and not granted is lost, as the code loses it when a call fails or the
server ends. `Lease` maps `taken` to `marks` and `leases` to `answers`.

**`UdpServer`** (`main.c`, `client.c`). `Receive` is `recvfrom` in `main` with
`workqueue_add_job`: the pool is a stack of jobs, as `ThreadPool` implements it.
A worker runs `deal_msg`: `Take` begins with a local `buf` of which nothing is
known, `CopyBytes` copies the text there a few bytes at a time, and the last
of them calls `strtok`, of which each call is three
steps: `Load` reads the static pointer, `Scan` finds the token, `Store` ends it with a
NUL and writes the pointer. All workers share that pointer, so that a worker may go
on in the buffer of another, cut that, and collect pointers into it. `buf` of a worker has the bytes
`strcpy` has put there and no others: past them, and after `deal_msg` has returned (`Leave`), a
`strtok` that gets there finds any tokens whatever (`Tokens`), up to `Reach` bytes away, or ends the server
(`Stray`); so does a NUL or a pointer that it writes where no buffer is known to be (`WritesAstray`).
`Check` copies the three fields from where they are by then; any other number of them is
`exit(0)`, which is the `Restart` that `Die` is at any other time. `Answer` stands for
`AddUser`, `AllocIp` and `sendto`: `Provision` has their outcomes, and each of
them is one reply to the sender of the job. `ReceiveFails` is the `recvfrom` whose result
`main` does not look at: a job with an empty text, and so an `exit(0)`. A text is
short and its fields have a byte each, or two: how long a field is makes no
difference. `alone` says whether a worker had `split` to itself.

**`OraSock`** (`ora/sql.c`). One socket, used by one thread. A node of
`query_list` is known by its template and has bound types and data; `prepared`,
`defined` and `arrays` are what OCI knows of each statement handle and where its
rows go. `prepared` tells the text of a node (`"node"`, a template) from a direct
statement (`"direct"`, the text itself), since the two can be equal.
`FindTemplate` and `AddTemplate` are the two ways through
`sql_prepare_query`; a statement whose binds OCI finds no places for (`Bindable`)
is executed directly. `DirectQuery`, `DirectSelectQuery` and their failures take
whatever handle is in `queryHandle`. The layer has no callers in the repository; they
are taken to fetch rows only after a select that returned 0 and then to end it
with `sql_finish_select_query`.

**`SqlPrepare`** (`ora/sql_prepare_parser.c`). A text is a sequence of symbols, a
position of it stands for a pointer. `sql_no_insert_translate` goes from delimiter to
delimiter while an `=` is left, and `sql_insert_translate` from comma to comma;
both are recursive functions of the position, where the code loops. `Integer` is
`strtoll` with its truncations to `int` and `unsigned`, `String` the cut at
`VALMAXLEN`. `Places` and `PutBack` say what a template with its binds means to the
database: a place for a bind is an `:r` outside quotes, although the parser puts
one inside them too. **`OraSql`** makes the statements of `OraSock` out of texts this way.

The `MC*` modules hold the values of constants, a symmetry set for `JobList`, and in
`MCOraSock` assumptions about the parser that TLC evaluates at the start of its
runs. The `*Proofs` modules hold
the theorems. An operator called a mutant in its comment is a plausible
mistake in the operator after it; `PROJECT.json` says which property
catches it. They are no part of any specification.

## 4. The runs

| Run | Instance | Distinct states | Shows |
|---|---|---|---|
| `pool` | 3 workers, 3 jobs, fair | 178 069 | `NoLostWakeup`, `JobAfterLoop`, `AtMostOneExit`, `FrozenAfterExit`, `ImplementsDispatch`, `EveryJobRuns`, `ShutdownLosesMutex` |
| `list_safety` | 4 blocks, symmetric | 559 | `ListIsStack`, `NoStrayWrite` |
| `sock_pool` | 3 threads, 4 sockets, 3 of them connected, fair | 17 222 | `NoNullWhenEnough`, `ConnectAlone`, `LockedIsInUse`, `EveryCallEnds` |
| `prov_one` | 1 thread, 2 sockets (1 connected), 3 requests for 2 ids, 3 addresses, every fault but `exec_down` | 69 621 | `OneUserPerId`, `AddressOnce`, `OneAddressPerId`, `AnswerHolds`, `UserStored`, `AnswerIsAddress`, `ImplementsLease` |
| `prov_group` | 2 threads, symmetric, 2 sockets, 1 request, 2 addresses, no call returning -1 | 1 415 067 | `GroupRight`, `AnswerOfAddresses`, `PoolSafe` |
| `udp` | 2 clients, 2 workers, 3 jobs; datagrams lost, receives that fail, a server that ends anywhere; fair | 309 418 | `SplitGivesFields`, `NothingVanishes`, `EveryClientAnswered` |
| `ora_cache` | 6 texts: two selects with one template, two inserts with one, a select with a quoted date, an update with an open quote; every OCI failure | 99 014 | `TemplateRunsAsAsked`, `RowsWhereFetched`, `ExecutesWhatWasAsked` |

and each type invariant. Five runs show a disagreement between the code and what it says of itself
(`PROJECT.json`, "findings"):

- `sock_shared` (`OneUserPerSocket`): `AddUser` releases its socket at
  `db.c:176` and again at `db.c:180`. Between the two another thread takes the
  socket, the second release unlocks it under that thread, and a third call
  shares the connection. 3 threads, 3 connected sockets.
- `prov_down` (`UserStored`): with no database server, `nosql_exec_direct`
  returns -2, callers test for -1, and `AddUser` reports a success.
- `prov_stale` (`GroupRight`): an update of `AllocIp` that fails leaves the address in
  `nosql_row`; the next `AddUser` on that socket whose select returns -2 stores
  the address as its group. This is why `prov_group` leaves out failing updates.
- `prov_mixed` (`AnswerIsAddress`): of two free addresses, the longer first, the
  row gets the second followed by the end of the first. This is why `prov_one` has
  addresses of one length.
- `ora_direct` (`StatementForItsSQL`): a direct statement after a cached one is
  prepared in the handle of the cached one. `RowsWhereFetched` and
  `TemplateRunsAsAsked` say what holds all the same.

**Bounds.** `Jobs` bounds a behaviour of `ThreadPool`; three jobs and three
workers give a worker that sleeps, one on its way and one that overtakes it, a
signal that wakes nobody, and a shutdown at any of these points. The theorems of section 6
lift the bounds from the properties of `JobList`, `OraSock` and `Provision`, from those of
`ThreadPool` but `EveryJobRuns` and `ShutdownLosesMutex`, from those of `SocketPool` but
`EveryCallEnds`, and from those of `UdpServer` but `EveryClientAnswered`. In `Provision` nothing is
counted: the tables are finite because the clients and the addresses are, and `Width` is the size of
its texts. One thread needs three requests (a
client, the same client under another name, another client) and three
addresses (one lost in a failed update, one for each client). The two threads
of `prov_group` need two sockets, so that each can have the row of the other's last
call and that `NoNullWhenEnough` says something; the two addresses differ in one byte, so
that the buffer can be half of each. Its behaviours go on after the threads have met on one socket, up to
an answer, a second address marked or a user stored in a wrong table (`MixBound`): beyond that only `PoolSafe`
says anything, and for it the theorem `SafePool` has no bound. Four
blocks are a list with a head, a tail and an inner element, and one block outside it.
`Jobs` bounds what a behaviour of `UdpServer` receives: three let a client ask
twice while the other's job runs, and let two workers be in `split` with a third
job on the stack. The run has no repeated datagrams, which `NothingEverVanishes` has, and
which `OneAddressPerId` has as repeated requests. Its texts have 5 and 6 bytes: `Chunk` = 3 lets others
see the first half of a copy, and `Reach` = 4 lets a `strtok` in a buffer of which nothing is known
find one or two tokens before it comes to an end. In `ora_cache` an `int` has `Width` = 3
bits and a string at most `ValMaxLen` = 4 bytes, so that literals at and over these limits
are short; those of its texts fit, and `OtherValues` evaluates those that do not.

**Deadlock** is checked in the five runs of `Provision`, where a server can always be
restarted. It is not in the others, where the code may really stop: with the
workers asleep and the bound on jobs reached, or the mutex lost (`ThreadPool`); with
every client waiting for what was lost (`UdpServer`); with every
block forgotten by `workqueue_shutdown` (`JobList`); when the process
has died (`SocketPool`, `OraSock`).

## 5. Fairness

`FairSpec` of `ThreadPool` has weak fairness for each worker, for `LinkWorker`,
for the steps of `workqueue_add_job` and for those of `workqueue_shutdown`: the operating
system runs every thread that can run. It is weak because pthread mutexes
are not first-come first-served: a worker that waits for a mutex others keep taking may
never get it. Nothing makes `Main` receive a datagram or stop the pool,
nothing makes a condition variable wake a thread without a signal, and nothing says that
`pthread_create` is tried again. Under it `EveryJobRuns` holds for as long as the
pool is not shut down. It rests on the bound on jobs too: the list is last-in
first-out (`ImplementsDispatch`), so that jobs arriving for ever could starve an
old one. The property says that no wakeup is lost, not that the order is fair.

`FairSpec` of `SocketPool` has weak fairness for the steps of each thread inside a call,
not for the arrival of a job: no step blocks, since the scan uses `trylock` and
the driver's calls have timeouts.

`FairSpec` of `UdpServer` has weak fairness for each worker, which rests on `EveryJobRuns`
and `EveryCallEnds`; for `Receive` of each client, since `main` reads its socket for ever and the
kernel hands datagrams over in the order in which they came; and for `ClientReceive`. Nothing
makes a client send, nothing makes the network lose a datagram or the server
end. `EveryClientAnswered` then says that what is lost is the only thing a client can
wait for in vain. `Provision` and `OraSock` state safety only.

## 6. The proofs

Everything below holds for every value of the constants that the named assumptions
allow, and is checked by TLAPS to the last leaf.

**`ThreadPoolProofs`** (any finite, non-empty set of workers, any set of jobs). The
inductive invariant `IInv` adds to `TypeOK` who holds the mutex at each
program counter (`LockInv`, in which an ended worker still owns it), what
`Main`'s locals hold (`MainInv`), that only an executing worker has a job
(`WorkerInv`), that the job about to be pushed is nowhere else (`FreshInv`), and
`JobAfterLoop`. `AtMostOneExit` follows from `LockInv`: two ended workers would both
own the mutex. `FrozenAfterExit` follows since every change of the lists needs the
mutex. `NoLostWakeup` is inductive given `IInv`, by counting: a worker falls
asleep only when the list is empty; a signal moves one worker from `Asleep` to `Coming`
or finds none asleep; a worker leaves `Coming` with a job in hand, or to sleep on an empty
list. `FreshInv` is what makes `Submit` possible in `ImplementsDispatch`.

**`JobListProofs`** (any set of blocks). `IInv` is `TypeOK`, `ListIsStack` and
`NoPrev`: no listed block has a `prev`, since `LL_ADD` does not set the old
head's and `LL_REMOVE` only ever removes the head. So `LL_REMOVE` writes nothing through
`prev`, and through `next` only NULL into the block after the head.

**`SocketPoolProofs`** (any finite set of threads, any number of sockets). `EnoughSockets`
is the one that needs an idea, for no invariant of one scan survives the others:
sockets behind it are released, those before it taken. `ScanInv` says of each position `k`
that if some thread is past it, then the threads past it and the sockets of
`Up` up to it are together no more than all threads. A thread passes `k`
only when the socket there is locked, by a thread that is not past it (`LockedIsInUse`, `ConnectAlone`,
`PlaceInv`). When a scan is past every socket, `Up` has fewer sockets than there are
threads. AddUser's second release only frees sockets, and does not disturb this.

**`ProvisionProofs`** (any threads, sockets, requests, addresses and faults).
`LastReaches` and `FetchType` say what the overlay of documents in a row is (a greatest
number is chosen there, and a least one in `split`: `NumberSets` shows that there is one), and
`ProvTypeOK` is inductive with `Where`, the place of a thread in the socket pool and in its function. What
two threads do to each other is kept apart with `Quiet`: until two have been on one socket (`shared`)
each is on its own (`Alone`), and `OthersKeep` and `SocketKept` say that a step of one leaves the
variables of the others and the data of their sockets, so that a thread has in its socket the table it wrote
there (`OnTable`).
- `GroupRight`, any number of threads until they share a socket, if no update returns -1: `RowInv` says that
  a socket has a row only while some thread is between the query that wrote it and the step that frees it, so
  that a query finds no row of another call, and what it finds afterwards is its own
  (`GroupOf`). An update that fails leaves a row behind, which is `prov_stale`.
- `UserStored`, any number of threads until they share a socket, if no update returns -2: a thread enters
  `AllocIp` only by the step in which `StoreUser` saw its update done, in the table `users`. Without that
  condition it is `prov_down`.
- `AnswerOfAddresses`, any number of threads until they share a socket, every fault, restarts included, if the
  addresses have one length (`EqualLengths`): a row with a text is an address, but for what the two queries of
  `AddUser` left (`LeftInv`). So each byte of the buffer is that of some address in its place
  (`BufferInv`), whichever threads copy at once; and once a thread has copied one whole address no byte up to its
  end becomes NUL again (`Written`), since other copies write bytes of addresses over it.
- `OneUserPerId`, one thread, every fault: between the query for the id and the update no
  one else writes, and the restart begins anew (`UserInv`). The row has the group when the query for the id is
  made, so that one that returns -2 is taken for a user found.
- `AnswerIsAddress`, one thread, every fault, if addresses have one length: what is read of the buffer is the
  beginning of the address it has (`IpInv`, `ReadHeld`), and it has one at a time (`HoldsOne`). `prov_mixed` is
  what happens without that condition.
- `AddressOnce`, `OneAddressPerId`, `AnswerHolds` and `ImplementsLease`, one thread, under
  `LeaseAssumption`: updates do not return -2 (else an address is answered that was not
  marked, and answered again), clients have user names of their own (else one replaces another's user,
  who can then ask again), addresses have one length. `SocketInv` says that
  `AllocIp` takes a socket without a row: with one thread the scan stops at the first
  connected socket, and only sockets after a failed update keep a row. `AddressData` follows one
  address from the row through the buffer to the answer, `UserData` one client from the query to its user.
- `PoolSafe`, any threads and faults, also two on one socket: every step of `Provision` is a step of its
  `Pool`, or leaves the pool alone, or is a restart, which is `Pool`'s `Init` again. So the inductive
  invariant of `SocketPoolProofs`, taken from there with `INSTANCE`, holds of the
  composition, and the counting argument is not repeated.

**`UdpServerProofs`** (any clients, texts without empty fields, workers and jobs, and every fault, repeated
datagrams included). `NothingVanishes` is inductive with the types of network and pool: a
job leaves the stack for a worker, and a worker for a reply or a restart, which
records its sender as lost. That workers confuse their fields does not matter,
since the address of the reply is in the job and not in the text.
`UdpTypeOK` does not say that a pointer stays inside a buffer, which it need not: `Scan` may find any token
that the known bytes allow, in a buffer that is half copied or no more. What is left to say is that
a `strtok(NULL)` goes on from a pointer that some call has set, that a pointer in use points to a worker's
buffer, and that a worker out of `deal_msg` has nothing in its own (`Place`, `SplitInv`,
`OthersStay`).
`SplitGivesFields` adds `FieldInv`: while a worker has `split` to itself, its buffer is a beginning of the text
(`Copied`), and then from the static
pointer on still the text, the fields before the pointer are those it has
collected, each with its NUL behind it (`Progress`, `RightStays`), and the next token begins at the first field
that is left (`NextPlace`, `FieldEnds`). The property says what the fields of
a text are without recursion, by where they begin (`Starts`), so that no induction over the text is
needed: each token is the next start.

**`OraSockProofs`** (any statements, also infinitely many; templates that keep
the word `from`, `StatementsAssumption`). `IInv` adds
that no handle is prepared with the template of another (`PreparedInv`), that a node no direct
statement has touched fetches into its own array (`NodeInv`), that templates without a
node have none (`ArraysInv`), where the rows of the current select go (`FetchInv`), and
that bound types are those of every statement of the template where types are fixed
(`TypesInv`). `TemplateRunsAsAsked` and `RowsWhereFetched` follow. `StatementForItsSQL`, which
`ora_direct` refutes, holds under `AllPrepared`: each statement has a template that OCI
takes, and `sql_prepare` does not fail. Other failures, closes and reconnects do not disturb it, so
that a direct statement is the only way a node loses its handle.

**`OraSqlProofs`** composes that with the parser: `ExecutesWhatWasAsked` follows from
`TemplateRunsAsAsked` if `RoundTrip` holds, by which each template that OCI takes with the
binds of some statement makes each of its statements again. `RoundTrip` is about `sql_translate` and the texts only; TLC
evaluates it for the texts of the runs (`StatementsRoundTrip` of `MCOraSock`). It would be
false for all templates: that of the select with a quoted date has more binds than places. So
`RanInv` is needed, which says that nodes, and what is executed as a template, have a
template that was taken (`Accepted`), by an earlier statement if not by this one.

## 7. Only model-checked, and not modelled

Model-checked only: the liveness properties `EveryJobRuns`, `ShutdownLosesMutex`,
`EveryCallEnds` and `EveryClientAnswered` (liveness and `ENABLED` are out of the prover's
reach); `RoundTrip` and the other assumptions of `MCOraSock`, which rest on what recursion over a
text computes (induction over data is out of its reach, too), and with it the parser's half
of `ExecutesWhatWasAsked`.

Stated under a condition, because the code does not give more:

- `OneUserPerId`, `AddressOnce`, `OneAddressPerId`, `AnswerHolds` and `ImplementsLease` for one worker
  thread, and `AnswerIsAddress` as well. With two, both can query before either writes, and the buffer of
  `AllocIp` is shared: two clients get one address, or one of them a mixture (`AnswerOfAddresses`).
- `GroupRight`, `UserStored` and `AnswerOfAddresses` until two threads have been on one socket. After that a
  thread may take a text for its group that it did not ask for, or put its user into another collection while
  `AddUser` reports success.
- `NoNullWhenEnough` when there are as many connected sockets as threads. `conf.ini` has 16
  threads and 5 sockets.
- `AnswerHolds`, `OneAddressPerId` and `ImplementsLease` for clients with user names of their own: an update by `user_name`
  replaces the user of another id.
- `SplitGivesFields` for a worker that has `split` to itself. With two, fields are lost,
  repeated or those of another client, or their number is wrong and the server ends:
  `NothingVanishes` and `EveryClientAnswered` say what holds all the same.
- `ExecutesWhatWasAsked` for literals that fit into their binds, which `OtherValues` shows
  not to hold of others, and for statements that run as templates: a node whose handle a
  direct statement has taken runs that (`ora_direct`).
- `AnswerIsAddress` for addresses of one length, `UserStored` where no update returns -2, `GroupRight`
  where none returns -1, and `StatementForItsSQL` where no statement is executed directly: the runs that
  expect a violation are those without the condition.
- `TemplateRunsAsAsked`, as to types, where equal templates have equal types; `sql_prepare_query`
  does not compare them.

Not modelled:

- what C leaves open when two threads use one memory: a row that is freed twice or used after that, and bytes
  written by `strtok` into a frame that is no more, do no harm in the model or end the server. What they do
  to other data of the process is not followed, nor is an address so long that its copy would leave `ipaddr`.
- two calls of libmongoc on one client at once, which it does not allow: in the model they take effect one after the
  other, or end the server.
- two documents of `group_ip` with one address (`AddressesAssumption`): the update would mark one of them.
- failures of `malloc`, memory that is leaked, and documents that lack the field a query projects.
- `nosql_select_count`, `nosql_exec_del_direct`, `nosql_free_cursor_result`, which have no caller; `mongoc_cleanup`
  after a failed connection, whose effect on other sockets is the driver's.
- `sql_free_result`, `sql_destroy_socket`, `sql_num_rows` and `sql_num_fields`; a caller of
  the Oracle layer that ends a select that failed, or fetches from it. `sql_free_result` frees the array
  of a node, which stays defined in it, and the handle of a direct select, which stays `queryHandle`:
  what the next call does then is OCI's. `sql_close` frees a handle twice once a
  statement was cached, and the model records that as `crashed`.
- texts longer than the buffers of `main.c` and `client.c`, and empty fields, which `strtok` skips. More fields
  than `revbuf` has room for end the server, or do no harm.
- the order in which datagrams of one client arrive: it has one on its way at a time.
- quotes that are doubled inside a string, `:r` in the text of a statement, numbers with
  exponents, and texts longer than the buffers of the parser.
- configuration (`confparse.c`): its values are the CONSTANTS. Vendored headers.

## 8. Running it

    tlc -workers 2 -config pool.cfg MCThreadPool.tla
    tlapm ThreadPoolProofs.tla

`PROJECT.json` lists the runs with their modules, the theorems, the mutants, the hazards with
the properties that cover them, and for each definition the lines of source it models.
