# Verification of jega

jega is a cooperative networking library for Python: an event loop written in C
(`src/loop.c`) that runs callbacks and switches greenlets, with locks, events,
channels, futures, task executors, name lookup (over its own copy of c-ares) and
sockets on top, and a Python layer (`jega/`) that adds signal handling, thread
and process pools and patched standard modules. This directory holds TLA+ models
of it, TLC configurations that check them, and proofs that TLAPS checks.

Paths below are relative to the repository.

## Inventory

| Component | State | Operations | Interacts with |
|---|---|---|---|
| Ring queue, `src/queue.c` | array, `first`, `last`, `size`, `max` | push (doubles a full queue), push without growth, shift | the loop's `pendings`, the executor's and the channel's queues |
| Timer heap, `src/heapq.c` | array, `size`, `max` | push, pop, peek at the top | the loop's `scheduled` |
| Event loop, `src/loop.c` | `state`, `pendings`, `scheduled`, `activecnt`, `ioactivecnt`, `postfork`, `suspend_thread`, the loop greenlet, the global `catch_signal` | run, run_once, stop, call_soon, call_later, call_repeatedly, add_callback, sleep, set_timeout, add and remove reader and writer, trampolines, fork and signal handlers | everything |
| Threads and signals, `jega/loop.py` | the self-pipe, `_signal_handlers`, the process's handlers, the wakeup descriptor | call_soon_threadsafe, add_signal_handler, remove_signal_handler, reset after a fork | event loop, other threads |
| Handles and timers, `src/timer.c` | `cancelled`, `called`, `seconds`, `interval`, `repeat` | fire, re-arm, cancel | event loop |
| Descriptor registry, `lib/picoev` | per descriptor: loop, events, callback, timeout slot; the timeout wheel; what the kernel watches | add, del, set_events, set_timeout, poll and dispatch | event loop, sockets, lookup |
| Semaphore, BoundedSemaphore, Lock, `src/locks.c` | `counter`, `waiters` (a set of greenlets), a timer per timed wait | acquire, release, `_notify_waiter` | event loop |
| RLock, Condition, `src/locks.c` | owner and count; a list of waiter semaphores | acquire, release, wait, notify, notify_all | Semaphore |
| Event, `src/event.c` | `flag`, a Condition on a Lock | set, clear, wait | Condition |
| Channel, `src/channel.c` | queue of messages with their senders, set of receivers, one handle | send, recv, the notifier | event loop, ring queue |
| Futures, `src/futures.c` | state, result, exception, callbacks, waiters, a handle | result, exception, set_result, set_exception, cancel, add and remove a done callback | executor, event loop |
| Task executor, `src/executor.c` | queue of work items, `run_workers`, `max_workers` | submit, the worker greenlets | futures, event loop |
| Tasks, greenlets, `src/task.c`, `src/greensupport.c` | a greenlet, `started` | spawn, start, switch, throw | all of the above |
| Thread pool, `jega/futures/_thread.py` | work queue, threads, shutdown flags; an item's event and its InfiniteHandler | submit, shutdown, the threads, the exit handler | event loop across threads |
| Thread futures, `jega/futures/_base.py` | state, waiters with their counts and events | cancel, result, wait, as_completed | thread pool |
| Process pool, `jega/futures/_process.py` | call queue, result queue, pending items | submit, shutdown | threads, processes |
| Sockets, `src/socket.c`, `jega/ext/jsocket.py`, `jega/ext/jselect.py` | a descriptor, a timeout | recv, send and their variants in retry loops, select, shutdown, accept, connect; getaddrinfo, getnameinfo | trampolines, lookup |
| Lookup, `src/lookup.c` | a c-ares channel per loop, a context per lookup | gethostbyname and the like, the sockets c-ares has watched | descriptor registry, c-ares |
| c-ares queries, `ares_process.c` and its neighbours | lists of queries by id, by timeout and by server; per server two sockets and a queue | send, resend, match answers, end queries, time out | lookup |
| c-ares messages and hosts | none | names and replies from and to bytes, hosts file, sort list, addresses as text | c-ares queries, `src/socket.c` |
| c-ares configuration, `ares_init.c` | the settings of a channel | init from options, environment and files; dup | lookup |
| `jega/ext/jssl.py`, `src/local.c`, `src/buffer.c`, `src/util.c`, `src/jega.c`, `jega/patch.py` | | wrappers and sequential helpers | |

What is hard in this code:

* *Control flow by switching.* A callback, a timer, a descriptor's callback or
  the callback of a c-ares query switches to a greenlet in the middle of the
  work of the loop or of c-ares, and that greenlet may then use, stop or run
  again what it interrupted.
* *Counters instead of state.* Whether `run()` goes on is decided by `activecnt`
  and `ioactivecnt`, which are maintained in a dozen functions; `wait()` of the
  thread futures counts the calls it still has to hear.
* *Late wake-ups.* Locks, channels and executors schedule wake-ups through the
  loop's queue; by the time one is served, its reason may be gone.
* *Timeouts*, which throw an exception into a greenlet wherever it is by then,
  or into another one, and the timeout wheel, whose buckets are read before
  their callbacks run.
* *Deferred deletion.* picoev leaves the kernel's registration of a descriptor
  in place until the next event.
* *Threads, signals and fork*, which the loop notices at certain points only,
  and of which a byte in a pipe of limited size has to tell it.
* *Retries.* A query is sent again to other servers, and answers to it come
  late, twice or never.

What makes each component correct: the queue is a FIFO and the heap a priority
queue; the loop loses, duplicates, reorders, forgets and miscounts nothing and
ends only when there is nothing left to do; it sleeps over nothing that a thread
or a signal handed to it; a semaphore conserves its permits, loses no wake-up
and wakes only those that wait; a condition's notification reaches a waiter; a
channel delivers every message once; a future is resolved once and everybody
that waits for it goes on; every submitted item is run; a shutdown returns; who
waits for a socket that is ready goes on; every lookup ends, with an answer to
its own question; what is read from a message, a file or a text is what is
written there.

## Modules

| Module | Models | Code it follows |
|---|---|---|
| `Fifo` | what a queue promises | |
| `RingQueue` | the circular buffer | `src/queue.c` |
| `PriorityQueue` | what the timer heap promises | |
| `HeapQueue` | the binary heap in an array | `src/heapq.c` |
| `TimerService` | what the loop promises about timers | |
| `EventLoop` | the scheduler | `src/loop.c`, `src/timer.c`, the poll of `lib/picoev` |
| `Wakeup` | threads, signals and fork | `jega/loop.py`, the signal handlers of `src/loop.c` |
| `WokenLoop` | `EventLoop` and, next to it, `Wakeup` | |
| `Permits` | what the semaphores promise | |
| `Semaphore` | Semaphore, BoundedSemaphore and Lock | `src/locks.c` 14-480 |
| `Monitor` | what a Condition on an RLock promises | |
| `Condition` | RLock and Condition | `src/locks.c` 487-1102 |
| `Event` | Event | `src/event.c` |
| `Channel` | send, recv and the notifier | `src/channel.c` |
| `Greenlets` | the constants that `Condition` and `Channel` share | |
| `Executor` | TaskExecutor with its futures | `src/executor.c`, `src/futures.c` |
| `ThreadPool` | ThreadPoolExecutor, its futures, wait and as_completed | `jega/futures/_thread.py`, `jega/futures/_base.py` |
| `Sockets` | trampolines, callbacks of descriptors, the timeout wheel, socket calls and select | `src/loop.c`, `lib/picoev`, `jega/ext/jsocket.py`, `jega/ext/jselect.py`, `src/jega.c` |
| `Resolver` | lookups that wait, and the queries of c-ares | `src/lookup.c`, `ares_process.c`, `ares_send.c`, `ares_query.c`, `ares_search.c`, `ares__close_sockets.c` |
| `Names` | reading names in DNS messages | `ares_expand_name.c` |
| `Replies` | parsing replies, the sort list | `ares_parse_*_reply.c`, `sort_addresses` of `ares_gethostbyname.c` |
| `Messages` | what comes from the network, and the texts of names, for `Names`, `Queries` and `Replies` | |
| `Queries` | queries, and whether an answer has their questions | `ares_mkquery.c`, `same_questions` of `ares_process.c` |
| `Hostents` | hosts file, the hosts that lookups come to | `ares_gethostbyname.c`, `ares_gethostbyaddr.c`, `ares__get_hostent.c`, the callbacks of `src/lookup.c` |
| `AddressInfo` | getaddrinfo, getnameinfo, the addresses of sockets | `src/socket.c`, `ares_getnameinfo.c` |
| `Lookups` | the worlds in which hosts and addresses are looked up, for the two above | |
| `Addresses` | addresses as text, networks | `inet_net_pton.c`, `inet_ntop.c`, `bitncmp.c` |
| `Configuration` | the settings of a channel | `ares_init.c`, `ares_options.c` |
| `Settings` | what a channel takes its settings from | `init_channel` of `src/lookup.c` |
| `EventLoopProofs`, `SemaphoreProofs`, `ConditionProofs`, `ChannelProofs`, `ExecutorProofs`, `ThreadPoolProofs`, `SocketsProofs`, `ResolverProofs` | theorems | |
| `MC...` | instances for TLC | |

A definition whose comment begins with "Mutant:" is not part of a model: it is
a plausible mistake in the definition that follows it, kept to show which
property would notice.

How they fit together. A module about a component that uses another has of the
other what that one's abstract specification or its properties promise, and not
its variables:

* `EventLoop` has a sequence and a set where the code has a ring queue and a
  heap, with the contracts that `Fifo` and `PriorityQueue` state and that the
  two data structures are shown to implement. `Channel` and `Executor` have
  sequences for their queues.
* `Condition` uses of its semaphores only what `Permits` promises, and `Event`
  uses `WaitersReachable` of `Condition`. select() in `Sockets` waits for an
  Event as `Event` says.
* `Channel`, `Executor`, `Semaphore` and `ThreadPool` hand callbacks to the
  loop, which serves them: `QueuedIsServed` of `EventLoop`. From another thread
  that takes the byte of `Wakeup`.
* `Sockets` composes greenlets, the loop, picoev and the kernel in one module,
  since a property of any of them depends on the order in which all four act.
  `Resolver` does the same for greenlets, the callbacks of `src/lookup.c` and
  c-ares, over what `Sockets` shows of descriptors. What a finished query comes
  to as a host is `Hostents`, what Python makes of it `AddressInfo`.

Three MC modules explore several specifications *side by side*: `MCStructures`,
`MCEventLoopLive` (`EventLoop` and `Wakeup`, of `WokenLoop`) and `MCLocks` (`Condition`, `Semaphore`,
`Event` and `Channel`). No part reads another's variables, and a part takes a step only
while the others are in their initial states, so that the run explores the sum of the
state spaces and not the product; a behaviour of one part is a behaviour of the
whole, with the others idle.

### RingQueue

The variables are the fields of `queue_t`. The array has `max` slots; the code
allocates one more and never uses it. `Push` has two cases, a free slot (`Store`)
and `realloc_queue` followed by the store (`PushGrow`). `reindex_queue` is
`Copied` and `Reindexed`: it walks from the old first to the old last index, and
does not look at the size. `Garbage` stands for memory nobody wrote. `ret` is
the value of the last call, so that the refinement covers what callers see.

### HeapQueue

`heap`, `heapsize`, `heapmax` and the last value popped. The loops of `_siftdown`
and `_siftup` are functions from the number of turns to what the loop works on,
the array and the index of the item: `Rise` and `Sink` are one turn, and a turn
after the loop has ended changes nothing, so that `SiftDown` and `SiftUp` take
as many turns as there can be at most. The code carries the item in a variable
and writes it where the loop ends; here it changes places with the item that
moves (`Swapped`), which gives the same array. `_siftup` takes the item down to a
leaf, as the code does, and lets it rise again from there. `Unwritten` stands for
memory nobody wrote. Deadlines are a constant, since no code changes the deadline
of a timer that is in the heap.

### EventLoop

There are two greenlets that matter, main and the loop's, and `active` says
which one has control. `pc` is where the loop greenlet is: in the `while` of
`LoopObject_run` (*check*), at the start of `internal_run_once` (*begin*), in
`fire_timers` (*timers*), in `fire_pendings` between two items (*pendings*) or in
the middle of one (*firing*), before the poll (*poll*), between two reported
descriptors (*events*), in the callback of one (*iocb*), after the poll (*end*),
not yet in its loop because `_run` was entered by `loop_switch` and went straight
back (*start*), or *dead*. `item` is what `fire_pendings` holds while it fires.

User code, the actions of `User`, runs when main has control or when the loop is
*firing* or in *iocb*; a call from another thread (`call_soon_threadsafe`) can
also get in while the loop is in `epoll_wait`, which releases the interpreter
lock. A user may call anything in any order. The constraints on users are those
that keep the program's memory sound: a repeated timer's interval is positive
(`call_repeatedly(0)` writes outside of the object), and a process does not fork
and register a descriptor inside the callback of a poll that the reset tears
down.

`Suspend`, `ThrowToMain`, `Resume` and `StartSuspended` are the switches. What a
callback does besides calling the API is irrelevant, except how it ends:
normally, with `LoopAbortException` or with another exception (`FinishItem`,
`IoReturn`).

Time is in seconds, as in `time(NULL)`, and only grows. `fire_timers` reads the
clock once, which is `now`. A handle object is created once, but the handle of a
signal handler is queued again each time the signal comes (`AddCallback`).

After a reset in a forked child `internal_run_once` polls the `main_loop` it read
before the reset. What that returns depends on the memory allocator: the poll of
the model reports any subset of the registered descriptors, none included.

### Semaphore

`notifies` counts the scheduled calls of `_notify_waiter`; `armed` are the
greenlets whose timeout timer exists and is not cancelled; `place` is where each
greenlet is. A greenlet waiting in `loop_switch` can be switched to by
`_notify_waiter`, by its timer's exception, by another exception and by anything
that schedules a switch to it and comes late (`SpuriousSwitch`). `Value`,
`Bounded` and the rule that only the holder releases tell Semaphore,
BoundedSemaphore and Lock apart. `Lock` has no bound and no owner in the code:
`extra` counts the releases by somebody who did not acquire, and mutual
exclusion is claimed as long as there are none.

### Condition

One model for both locks a Condition can be made on: with `Reentrant` an RLock,
whose own `_is_owned`, `_release_save` and `_acquire_restore` the Condition
borrows, otherwise a Lock, for which it uses its own, which try to acquire it.
`permits` is the counter of the semaphore inside, `waiters` and `released` are
the semaphores that `wait()` makes, before and after `notify()` gets to them.
Each operation is a step up to where it has to wait; `place` says where that is:
in `acquire()`, in the first half of `wait()`, or in its second half, *restore*,
where it takes the lock back.

Greenlets use `with` blocks, so that an exception leaves all of them; `depth`
counts them. An exception while `wait()` takes the lock back (`RestoreEnds`)
leaves the greenlet in its blocks without the lock: it is then in `robbed`, and
the `release()` at the end of the block raises on an RLock and gives away
somebody else's permit on a Lock. `stray` counts the latter, and exclusion on a
Lock is claimed as long as there was none.

`notify(n)` on a list with entries of greenlets that have timed out is allowed,
and may wake nobody. The code does so, and no document promises otherwise;
`WaitersReachable` is what makes `notify_all()` reliable.

### Event

A flag and where each greenlet is in `wait()`. No method of an Event waits while
it has the lock, so the lock is free whenever one starts or is resumed, and each
half of `wait()` is a step. A `wait()` that finds the flag set returns None at
once; what `wait()` returns is not part of the state.

### Channel

`pendings`, `receivers` (the code's `waiters`) and `handle` are the fields of the
object; messages are
numbered in the order of the sends. `notifying` and `caller` are the local state
of `ChannelObject_notify`, which runs in the loop's greenlet and switches first
to a receiver, with the message, then to the sender. In between those greenlets
run, send, receive and end (`Leave`), and come back by switching to the loop.
`doing` says what each greenlet waits for: *send* and *recv* on this channel,
*away* on anything else.

`Disturb` is a timeout, another exception or a late switch that takes a greenlet
out of `send()` or `recv()`. Neither function cleans up after that: a receiver
stays in the set and is switched to with a message later, wherever it is by
then, and that message is lost. `disturbed` records this, and what holds only
without it says so. `InOrder` holds regardless.

### Wakeup

`pc` is where the loop's thread is; `item` is whose callback it is in. A thread's
call_soon_threadsafe is two steps, `CallSoon` and `WriteToSelf`, with anything in
between. Threads take turns at the interpreter: a step of another thread comes
while the loop waits in `epoll_wait`, or in the middle of Python code (`InPython`).

A signal goes to one of two handlers. `sigint_cb` of `src/loop.c` notes the first
signal in `catch_signal`. Python's C handler notes it in `tripped` and writes to
the pipe if `signal.set_wakeup_fd()` was given one; the Python handler runs when
Python code next does (`HandleSignals`), which in an idle loop is when the
callback of the pipe is called. `remove_signal_handler` puts neither `sigint_cb`
nor the former handler back. A forked child shares the pipe with its parent
(`Parent` may take or add bytes) until `call_fork_loop` makes a new one.

The pipe holds `Room` bytes and a full one takes no more, which is harmless: the
bytes are not counted against the callbacks, one is enough.

### Executor

Everything runs in one thread; `active` is the greenlet that runs, and `place` is
where each of the others is: a client in its own code or in `result()`, a worker
before its first item (*fresh*), between items (*next*), waiting for nothing
(*idle*), in a function that runs (*fn*) or waits (*parked*), or anyone in
`back_waiter` (*back*). `SwitchTo` is `greenlet_switch`: where the greenlet goes
on depends on where it left, and not on why it is switched to.

`BackWaiter` schedules the worker's handle once and `PopWaiter` switches to one
waiter; control comes back only by that handle. What clients and functions do is
`UserCode`: submit, cancel, set_result, done callbacks, waiting, in any order and
also in the middle of another greenlet's `back_waiter`. `Drop` is the end of the
executor with items in its queue. `Signal` is Ctrl-C, which a worker notices
before it takes an item, and which then ends it.

`run_workers` only grows. Without a limit there is therefore one worker for each
item; with one, workers that have found nothing sleep and nothing wakes them, and
`ItemsCovered` does not speak of them. Nor does `cancel()` wake those who wait.

### ThreadPool

The workers are threads, all else is the loop's thread: a greenlet's call is a
step, since no lock of a future is held across a switch. `calls` is what workers
gave to call_soon_threadsafe, in order, and `LoopStep` serves it. A worker goes
through `_work_queue.get()` (*get*), the look at the shutdown flags after a
timeout (*empty*), the wait for the loop to say whether the future may run
(*event*), the function (*fn*), and the two calls it hands over at its end
(*report*). `kept` are the items whose InfiniteHandler keeps the loop running.

`_shutdown` of the module and of the executor, and the end of the executor's last
reference, have the same effect on a worker, and are `open` together. `joining`
is shutdown(wait=True), which blocks the loop's thread, the loop included.

A greenlet waits in `result()`, in `wait()` or in the loop of `as_completed()`,
which is in *yield* while its caller has control. `Tell` is what a future does to
its waiters. `ReturnsAtOnce` includes the calls of `wait()` that raise for want of
a method (`f.cancelled()`, which is a property). A timeout of `as_completed()` is
a float where `wait()` wants an integer, and is left out for that reason.

### Sockets

The two sockets are each other's peers; bytes are counted and not told apart.
`target` is `picoev.fds` and `interest` what the kernel watches, which differ
between a `picoev_del` and the next event. `timeout_idx` and `vec` are the two
halves of the timeout wheel: what a descriptor says of its bucket, and what the
buckets hold. `batch` is what one `epoll_wait` reported and is still to be
delivered, in any order; the callbacks are those of the moment of delivery.

A call of a greenlet is a record (`Method`) of what it tries, what it waits for
and how long: `Recv` waits before it reads, `SendTo` gives up when it fails
twice, `SendAll` goes on. `Trampoline` is `internal_io_trampoline` up to its
switch and `SwitchBack` what is behind it; `RunFirst` and `TrampolineOfNoLoop` are
the case of a main greenlet that finds the loop stopped and not ended.
`TimeOut` stops the loop and `Throw` puts the exception into the main greenlet,
whoever was waiting: it ends its run() or its own wait.

Two things the code does are followed up to where they leave the language.
`shared` records that a second greenlet waited for a descriptor in use, which
picoev asserts does not happen; `wild` that a callback's argument was taken for
one of another type, that a NULL callback was called, or that a descriptor
expired that was not registered. The loop stops there (`wild`), and properties
speak of what comes before (`Defined`).

### Resolver

A lookup is a record that says which question comes next: AAAA then A, a name as
it is and in the search domains (`SearchCallback`, `HostCallback`). `channel` is
the structure of c-ares: the queries, and the lists they are in, which `Sent`,
`Unlisted` and `Freed` keep. `stolen` is the list that `handle_error` has taken
from a server and goes through, query by query (`MoveOn`).

`processfds` is a sequence of steps by `pc`: read the answers of a server, expire
timeouts, process broken connections. Each of them may end a query, whose
callback resumes a greenlet in the middle (`ending` is that query); the greenlet
may begin another lookup on the same channel before `FreeQuery` removes the
first. `Unreachable` is the error of a socket, for which the code destroys the
channel; those who wait are then in `abandoned`.

Time is relative to the current second, so that it may pass for ever: a second
further back than `Lag` is taken for `Lag` ago. A server may answer whatever it
was asked over its present socket at any time, more than once, or never, with
records, none, an alias only, SERVFAIL or a truncated answer. Nothing is written
to TCP connections, because `state_cb` hands only the first events of a socket to
picoev: a query that changes to TCP ends with its timeout.

### Names, Replies, Queries, Hostents, AddressInfo, Addresses, Configuration

These have no variables (but for `Messages`, `Settings` and `Lookups`, below). Each translates functions of c-ares and of
`src/socket.c`, as loops, folds or recursive operators, and states what they should
agree with:

* `Names`: bytes of a message are numbers, positions count from 0. The two loops of
  `ares_expand_name.c` are loops here too: a turn is a function of a record of the
  code's local variables (`Measure` for `name_length`, `Expand` for
  `ares_expand_name`, `CountByte` and `CopyByte` for the bytes of a label), and
  `Looped` takes turns until one changes nothing, at most as many as it is given.
  `Turns` is enough for every walk: that the passes end with them is part of
  `ExpandsNames`. The reference is `NamesIn`, the least set of positions that
  has those of zero bytes and those from which a label or pointer leads into it; it
  has no limit on pointers and no passes. `Messages` states the agreement as an
  invariant of a buffer into which any bytes come, one after another, so that TLC
  meets every message with a shortest one first.
* `Queries`: `ares_mkquery` and `same_questions`. The three loops of `ares_mkquery`, the
  two over the characters of a label (`CopyChar`, which counts and copies at once) and
  the one over the labels (`WriteLabel`), are taken by `Looped` too (`Encoded`). The
  query is as long as `Counted` says, whatever the loops write: `Mkquery` has what they
  write up to that length. For a text that is but a dot they write one byte less, and
  the last byte of the query is what the memory held, any byte. For a text that ends in
  an escaped dot they write one byte more, which is not in the query (see Findings; that
  it is written behind the buffer is undefined, and what becomes of the memory there is
  left out). The reference is
  `Names`: what is written for a text is read as that text again, and what is read is
  written as the same bytes. `Messages` has it as an invariant of the buffer, whose
  bytes are taken for a text and, the last one, for the byte in the memory: `WritesNames`,
  of every text but those that end in an escaped dot. `CountsNames` says of all texts
  that there is room for what is written, and is violated.
* `Replies`: a reply is a question and a sequence of records. The loops of
  `ares_parse_a_reply`, `ares_parse_aaaa_reply` and `ares_parse_ptr_reply` are
  functions of the number of records read, and so is the insertion sort of
  `sort_addresses`, whose order a list of sets of addresses gives. The references are
  what a conforming reply says (`FindsAddresses`) and what a stable sort does
  (`SortsStably`). `Messages` has them as an invariant, `FollowsAliases`, of a reply to
  which a conforming server adds one record after another.
* `Hostents`: texts, names and addresses are symbols with a kind, the world a
  lookup meets is a record of its hosts file, its answers and its order of
  lookups. `InetAddr` is `inet_addr`, which returns for 255.255.255.255 what it returns
  for no address (`INADDR_NONE`): a line of the hosts file with that address is not
  read, and the text of it is looked up like a name.
* `AddressInfo`: `getaddrinfo`, `getnameinfo`, and addresses of peers, with the
  code's peculiarities (an IPv4 address for a socket of the other family copies
  more bytes than there are; a type is tested bit by bit). `Lookups` has the world that
  a lookup meets as a variable: it is one of several, and its hosts file gets one line
  after another. `KnownWithoutServers` is an invariant of it, and speaks of
  every address but 255.255.255.255.
* `Addresses`: octets and words with their shifts, texts as sequences of tokens.
  Printing and reading back, prefixes, and matching a network.
* `Configuration`: the four sources in their order, the lines of a file, and what
  `ares_save_options` can and cannot say of a channel. The reference, `TakesFirst`, says
  for each setting which value it has to have, without a channel: the first that options,
  environment, the files in their order or the defaults have, where the lines of a file
  are looked through for a setting at a time. A file that cannot be read says nothing; one
  of those for the order of lookups, if the others before it do not have that, takes the
  servers and the sort list of resolv.conf with it. Of domains that the caller or the
  environment asks for, where resolv.conf has some too, `TakesFirst` says nothing:
  that they are kept is `DomainsAreKept`, and is violated (see Findings). `Settings` has the
  surroundings of a process as a variable: they are arranged in one of several ways,
  and resolv.conf gets one line after another. `Precedence` is an invariant of them, and
  so is `DupKeeps`: a channel that is made there and duplicated there is the same, but
  for rotation, and for the sort list if a file could not be read.

## Runs

| Run | Instance | What it shows |
|---|---|---|
| `structures` | a ring of 3 slots growing to 6; a heap of 8 timers growing from 2; all messages of up to 6 bytes out of 6, and all texts of up to 5 with what the memory holds; replies of 4 records; a hosts file of 3 lines, all answers and orders of lookups; addresses out of 5 octets and 3 words; settings from all sources with a resolv.conf of 2 lines and other files of up to 2 | the ring implements `Fifo` and the heap `PriorityQueue`; names, replies, lookups, addresses and settings agree with their reference definitions |
| `query_room` | the same | a violation: see Findings |
| `domains` | the same | a violation: see Findings |
| `event_loop` | 1 handle, 2 timers, intervals 1 and 2, clock up to 2, up to 2 queued signal callbacks | `activecnt` is exact, and the loop implements `TimerService` |
| `event_loop_live` | 1 handle, 1 timer, 1 descriptor, forks, clock up to 2; 2 threads, SIGINT and SIGTERM, a pipe of 2 bytes, 2 queued callbacks, 1 fork; with fairness | the descriptor count, a run returns normally only when nothing is left, the queue and due timers are served, Ctrl-C is obeyed, no sleep over a thread's call, signals are served |
| `locks` | 4 greenlets on a semaphore, 1 permit, 2 extra releases, 3 wake-ups under way; an event with 3 greenlets; 3 greenlets on an RLock up to 2 deep or a Lock with 1 stray release, 3 semaphores for their waits; a channel with 3 greenlets, no buffer or one of 2, 4 messages; with fairness | permits conserved, the semaphore implements `Permits`, nobody sleeps through a `set()`; notify_all() reaches whoever waits, and the condition implements `Monitor`; order, no loss, no duplicate in the channel, and what is sent before the notifier runs is delivered |
| `channel_again` | 3 greenlets, no buffer, 2 messages | a violation: see Findings |
| `executor` | 2 clients, 2 workers, 2 futures, no limit or a limit of 1, 1 callback, 1 signal, with fairness | no item strands, callbacks are called once, who waits for a result gets it and goes on for no other reason |
| `thread_pool` | 2 threads, 3 futures, 1 greenlet, all ways to wait, with fairness | the loop runs until the results are in, waiters' counts are exact, a function runs only in state running, joins end |
| `thread_pool_exit` | the same with one way to wait | a violation: see Findings |
| `sockets` | 3 greenlets of which one is main, 2 calls each, 2 sockets that buffer 1 byte, one of them fragile, clock up to 2, with fairness | the descriptor count is exact with trampolines, callbacks and timeouts; who waits is registered, and goes on when its socket is ready |
| `resolver` | 2 greenlets, 3 lookups, 2 servers of which one is fragile, 1 search domain, 2 tries, 1 id for all, with fairness | queries can be found by whatever may end them, results belong to their names, lookups end |

Why the bounds are enough.

*Structures.* In the queue 3 slots already wrap at every position, and growth
happens at each of them. In the heap 8 timers give four levels, with a last node
that has one child or none. Six bytes hold a name of two labels and a pointer
to it, a pointer to a pointer, and loops of up to three; the six byte values
are one for each case of the code. Texts of five bytes have two labels with an
escaped character, and every way to end in dots and backslashes. Four records are two aliases and two
addresses. With 3 word values every pattern of zeros in an IPv6 address occurs.

*Event loop.* Two timers are enough for every order of two deadlines, for one
timer that is queued while the other is in the heap or re-armed, and for
cancelling either; the second interval makes deadlines differ although the timers
were created together. A clock bound of 2 lets a repeated timer of interval 1
fire twice. The handle stands for anything that is not a timer. Two threads are
one that has queued its call and one that writes; two bytes are a full pipe and
one that is not; of the two signals one is the loop's to obey and one is not.

*Locks.* Four greenlets on a semaphore are one inside, two waiting and one
newcomer. The semaphore is not bounded: a BoundedSemaphore is the same with
`Release` refused more often, so that whatever holds of all behaviours of the one
holds of the other's. Three greenlets on a condition are one inside and two
waiting, one of which may have timed out and left its entry behind, which takes
the third semaphore. A depth of 2 is the least that distinguishes giving up one
level from all.

*Channel, executor, threads.* Three greenlets on a channel are a sender, a
receiver, and one more of either; four messages fill the buffer of 2 twice. Two
clients wait for one future, or for two, one of which is resolved from outside; two workers are
one in `back_waiter` or with a function that waits, and one that runs. Three
futures are one that is done, one that is cancelled and one that runs when
somebody waits for all of them.

*Sockets and lookups.* Two of the greenlets share a socket, and the same
descriptor may be registered again, by the same greenlet, between the deletion
and the event that carries it out; each of two calls needs a retry with a buffer
of 1. A clock of 2 passes one bucket that expires. Two servers are the least
where a query moves to another server and back in the next round; one id for all
queries is the worst case for matching; a delay of 1 and then 2 seconds makes
timeouts differ; `Lag` exceeds the longest delay.

Bounds by name: `MaxNow` and `MaxClock` (the clock), `MaxPendings` and `MaxQueued`
(nobody adds a callback beyond it), `Room` (bytes), `MaxForks`, `MaxMax` (the
queue's doubling), `MaxExtra`, `MaxNotifies`, `MaxDepth`, `MaxStray` and the size
of `Waiter` (semaphores of `wait()` that are referred to; a new one may reuse the
name of one that is gone), `MaxSent`, `Future`, `Worker` and `Touched` (futures
that are given callbacks and results), `MaxSignals`, `Calls`, `Selects`, `Shuts`
and `MaxCalls`, `Fragile`, `Wanted`, `Id`, `Key` (live queries) and `Lag`.

CHECK_DEADLOCK FALSE stands where the system may really stop: in `locks` every
greenlet may end up waiting for a permit that nobody holds, or, at a channel, for
a message that does not come, or have ended (of a condition and an event a timeout
may always end the wait); in the run of the executor every greenlet may have ended
or wait for a result that does not come; in those of the thread pool a join from
the loop's thread may wait for ever; and in `sockets` every greenlet may have
made its calls, or be stopped at something undefined.

### Fairness

Nothing is assumed of users, of the clock (but in `Resolver`), of signals or of
the network.

`EventLoop` asks for weak fairness of `LoopStep` only: callbacks return and the
loop's own code proceeds while it has control. It is one thread that executes C
code, so that is what the processor guarantees, provided user code returns. Each
liveness property says "while the loop keeps control". `DueTimerIsServed` has a
further premise, that the queue is emptied again and again: `fire_pendings` runs
until the queue is empty and callbacks that always schedule another one starve
timers and descriptors.

`Wakeup` asks for the same of its loop, and strong fairness of `ReadFromSelf`:
`epoll_wait`, called again and again with a byte in the pipe, does not for ever
return without it.

`Semaphore` asks for weak fairness of `NotifyWaiter`: the loop reaches each
handle in its queue, which is `QueuedIsServed`. No greenlet is assumed to release
what it acquired, and no order among the waiters is promised: they are a Python
set, and newcomers overtake them. `Event` assumes that a notified greenlet is
resumed, which is what `Permits` promises of the semaphore it waits for; nobody
is assumed to call `set()`.

`FairChannelSpec` assumes that a greenlet gives control back, that the notifier
goes on when it has control (weak fairness), and that the loop reaches the
notifier's handle (strong fairness, since other greenlets are switched to
between: `QueuedIsServed` is what justifies it).

`Executor!FairSpec` assumes that the code of `back_waiter` and of a worker
proceeds while it has control and that a function ends or waits (weak fairness of
`BackStep`, and of `WorkerStep` with `Park`), that a client's code gives control
back (strong fairness of `Yield`, since it may be interrupted by switches), and
that a worker's handle in the loop's queue is served (strong fairness of `Fire`,
again `QueuedIsServed`). That a parked function is resumed is not assumed.

`ThreadPool!FairSpec` assumes that every thread is scheduled and its function
returns (weak fairness of each `WorkerStep`), that run() serves what was handed
over (`LoopStep`), and that join() notices that the threads have ended.

`Sockets!FairSpec` is weak fairness of the one thread: of some step of the loop
or of a greenlet. It does not choose between greenlets, as the code does not.
Time and failures are not forced.

`Resolver!FairSpec` says that the thread does not stop except in the poll, and
that time passes when it polls again and again (strong fairness of `Tick`).
Servers need not answer.

### Findings

`channel_again` shows the code differ from its comment. `notify_to_loop`
(`src/channel.c` 211-241) makes a new handle for the notifier, "// reschedule",
when the old one was called; but nothing ever sets `called` of a HandleObject,
so that every send after the notifier has run leaves it unscheduled. A receiver
that comes later waits for ever unless the notifier is in the middle of its
loop. This is why `FirstIsDelivered` speaks of what is sent before the notifier
has run.

`thread_pool_exit` shows the code differ from the comment at the head of
`jega/futures/_thread.py`, by which the exit handler "tells the workers to exit
when their work queues are empty". A worker whose `get()` has timed out looks at
the shutdown flags (line 97), and not at the queue again. If an item is submitted
and the pool is shut down between the two, every thread ends and the item is
still in the queue; its InfiniteHandler keeps `run()` from returning.

`query_room` shows `ares_mkquery` differ from its comments. "Compute the length of the
encoded name so we can check buflen" (`ares_mkquery.c` 99), and "add 1 unless name is
empty or ends with a period" (110): line 112 looks at the last character alone. A text
whose last dot is escaped has that dot in its last label, which is then counted without
its length byte. The buffer and the length of the query are the counted ones, so
the last byte of the question does not fit, the query is sent without it, and
`same_questions` cannot read it when the answer comes. The trace is the text of a
backslash and a dot.

`domains` shows `ares_init_options` differ from its comment. "Initialize configuration by
each of the four sources, from highest precedence to lowest" (`ares_init.c` 193) puts
options and environment before resolv.conf. But `config_domain` and `set_search`, called
for the lines of that file (986 and 990), do not ask whether there are domains already,
as the other settings are asked for, and `set_search` frees those there are. CHANGES has
this as a problem that was fixed on November 22 2006 ("the domains of the options struct
will be overridden", 792-794).

## Proofs

The theorems hold for all values of the constants, so for any number of timers,
handles, descriptors, greenlets, threads, futures and permits, any capacity and
any bound. Properties that are proved in this way and that the runs of the
instances no longer list (`TypeOK`, `Aligned`, `TimerInOnePlace`,
`QueueInDeadlineOrder`, `CancelledNeverFires`, `MutualExclusion`, `NoLostWakeup`,
`OwnerExact`, `Exclusion`, `Rendezvous` and their like) are theorems only; the
runs are spent on what needs TLC.

`EventLoopProofs`: the inductive invariant `IInv` strengthens the listed
properties by what relates the control state to the data: nothing is being fired
unless `pc` says so and what is being fired was marked as called; the main
greenlet has control whenever the loop is dead; `now` is not ahead of the clock;
a repeated timer's interval is positive; the heap and the descriptors are finite
sets, without which a count means nothing; and timers in the queue or the heap
exist, are not marked as called and are not being fired. Without the last one
`TimerInOnePlace` is not inductive: a timer that could be both queued and
re-armed would be in two places a step later. From it follow `TypeCorrect`,
`CountersExact`, `IoCounterExact`, `TimersKept`, `DeadlineOrder`, `NormalReturn`,
`LoopImplementsTimerService` and `CancelIsFinal`. Each is laid out as one step
per action.

At its end, with `Wakeup` next to the loop's own state as in `MCEventLoopLive`:
`LoopIsWoken`, that the loop does not wait while a thread's call is queued without
a byte or a thread about to write one. The invariant `WInv` adds that the pipe
holds a number of bytes between none and `Room`: with that `WokenForWork` is
inductive, because a thread's entry in the loop's queue and the note that a byte
is due come in one step, and the loop begins to wait with an empty queue. The premise `PipeOK` says that
`Room` is positive and the signals are a finite set.

`SemaphoreProofs`: `SemaphoreConserves`, `WaitsEndCleanly`, `WakeupsKept`,
`LockExcludes` and `SemaphoreImplementsPermits`, the last for the steps
(`Permits!Safe`). `NoLostWakeup` needs conservation and that the waiters are the
waiting greenlets: it is a bound on permits or on waiters, and both change when
one of them gives up.

`ConditionProofs`: `OwnerIsExact`, `LockExcludes`, `NotifyReachesWaiters` and
`ConditionIsMonitor`. The invariant adds to the listed ones how many permits
there are: a Lock has one more than it should for every stray release, less one
for each greenlet inside (`Cardinality`, which is why the greenlets must be a
finite set), and how each greenlet stands to the lock (`Standing`): one in
`wait()` has saved the number of its blocks, one in `acquire()` has none, and one
that lost the lock is running. `ConditionIsMonitor` takes each action of the
lock and the condition to an action of `Monitor` or to no step at all; a
timeout that comes when the notification is under way returns like one that was
notified.

`ChannelProofs`: `MessagesInOrder`, `MessagesKept` and `UnbufferedRendezvous`.
The order follows from the numbers: the buffer holds the messages sent last, and
what was received was sent before them (`Numbered`). The rendezvous needs in
addition that exactly the greenlet in control is running, that the notifier
remembers a sender exactly while a receiver runs, and that this sender has no
other message in the buffer (`OneEach`); otherwise resuming it would leave a
message whose sender no longer waits.

The same module has the queue that the messages are kept in. `QueueInvariant` and
`QueueImplementsFifo`, of the circular buffer: the invariant is `QueueTypeOK`,
`Aligned` and `NoGarbage` together, since the modulus arithmetic of a step needs the
range of the fields, and that `reindex_queue` copies exactly the contents needs
`Aligned` and that the queue is full. The refinement shows for each operation how
`Contents` changes: a store appends, a growth keeps it, a shift takes the head.

`ExecutorProofs`: `NoItemStranded`, `CallbacksCalledOnce` and `ResultsAreThere`.
`ItemsCovered` counts: a worker that takes an item leaves the set of those to
come, and a worker leaves it without an item only when the queue is empty, when
Ctrl-C ends it (which is counted), or when the executor has been dropped with its
queue (`Dropped`). `CallbacksOnce` needs that a callback in the list has not been
called yet (`Uncalled`). `ResultIsThere`
needs that whoever goes through the waiters of a future does so because that
future has its result, and that what a greenlet runs or waits for is a future
(`HasFuture`). The assumption `Separate` says that clients, workers and the loop
are different greenlets.

The same module has what has no actors: the timer heap and the functions of c-ares.

`HeapIsOrdered` and `HeapImplementsPriorityQueue`, of the timer heap. What a turn
of a loop keeps is `Rising`: every timer is due no earlier than its parent but for
the one that rises, and what is below that one is due no earlier than its parent
either; for the item that sinks it is `Sinking`. A swap keeps the set of timers and
keeps them apart (`SwapKeeps`), so the two sifts do (`SiftDownOrders`,
`SiftUpOrders`), and from the order of neighbours follows that nothing is due before
the root (`RootIsEarliest`). The loops need induction on the number of turns, and
the library's theorem of it takes an operator, which the provers here cannot be
given; `CountsUp` is the same fact for a set of numbers, from the least number that
is not in it (`NatLessThanWellFounded`), and `LoopEnds` the rule for loops that is
derived from it once: what holds at first and is kept by a turn holds in the end,
and a measure that every turn decreases says that it is the end.

`NamesAreExpanded`, of the names in DNS messages: for every sequence of bytes and
every position in it, a name is accepted if and only if the position is in
`NamesIn`, both passes come to the same zero byte, and the text of the second is
as long as the first has counted (which is the size of its buffer). The loops are
reasoned about by `LoopsKeep` and `LoopIsOver`, once each: what a turn keeps is
true of the last state, and if a measure goes down with every turn, and the turns
suffice, the last state is one that a turn does not change. The measure of the first
pass is the pointers it may still follow, times the length of the message, and the
rest of the message. That an accepted position is in `NamesIn` goes backwards over
the walk (`AcceptedIsName`). The other direction (`NameIsAccepted`) is why the limit
on pointers is right: were a position of `NamesIn` refused, the walk from it would
have followed more pointers than there are bytes; but the sets of positions from
which at most k pointers lead to an end grow with k until they grow no more, and
they cannot grow more often than there are positions. The second pass checks
nothing; it is shown to be at the first's place after each turn (`ExpandFollows`),
and to have written what the first has counted, label by label (`EscapedIs`).

`NamesAreWritten`, of the names in queries: for a text of any bytes, with whatever in the
memory, if `ares_mkquery` makes a query for it and the text does not end in an escaped dot,
the query is as long as what is written (one byte longer for the text that is but a dot),
`ares_expand_name` reads its name to the last byte, and as this
text, if it has no backslashes and but for the dot at its end; what is read, if it is
not too long, is written as the same bytes; and `same_questions` finds that a question
for it is the same exactly if its type is, and there are as many, in another order and
with the name as a pointer too. Which bytes are the name of which text is a relation, `Spelled`: the least that has the empty
name and, with every name, that name with a label added, where the text gets the label
as `Escaped` writes it, and a dot. Being the least, it is what induction is here: what
the empty name has and an added label keeps, all pairs have. The bytes and the escapes
of a label are related by `SpelledLabel` in the same way. Four facts go over these
relations: a label's text is read by the loops of `ares_mkquery` as the label
(`LabelReadsBack`), a name's text is written as the name (`WritesBack`), both passes of
`ares_expand_name` walk a name in a message and come to its text (`TextIsWalked`), and
whatever `ares_mkquery` writes is a name of some text, which without backslashes is the
one it was given (`WrittenIs`). That the length counted beforehand is the length written is
`CountedIs`: a character is counted for every byte of every label, and one for every dot
that ends a label, so that only the end of the text has to be looked at, where a dot is
one that ends a label unless it is escaped.

`AliasesAreFollowed`, of the replies: from every reply that a conforming server may
give, however many aliases and records it has, the addresses of the last alias are
taken, all of them, no other and in their order, with the names that lead there; and
every sort list puts them in its order and keeps theirs where it does not tell them
apart. The loops exist as sequences of states (`StatesExist`). What the loop
over the records keeps is `HasRead`: after k records the name is that of the last alias
read, and the addresses are those of the matching records so far, of which there are
none while aliases are read. An address that the sort puts in leaves the others in their order
(`InsertedKeeps`): all that it passes come behind it, and all that it does not, as they are
in order themselves, come before it or with it, and were there first.

`DuplicatesKeep`, of the settings: whatever the caller asked for, the environment
has and the files say, in any number of lines, a channel and its duplicate agree in
everything but the rotation, and the sort list if a file cannot be read (the channel
may have lost it with that file, while the duplicate, which has lookups already, never
opens the file). What makes it more than a copy
is that the options cannot say that a sort list is empty: an empty one is as good as
none. With a sort list the duplicate has all that `Complete` asks for and reads no
file. Without one it reads resolv.conf, but so did the channel that it is made of,
which had none either; both then find the same sort list, an empty one, and the same
domains if the file names any (`ConfsAreSame`), although they start from different
settings. What is known already no line and no file changes, but for the domains
(`LineIsRead`, `FilesAdd`). Of the servers the options have those with an IPv4
address: if these are all, `Picked` picks all (`PickedIs`), else all are copied, and
for the flag PRIMARY the first of one server is that server (`FirstOfIs`).

`PrecedenceIsKept`, of the settings too: every setting of every channel is the one its
reference demands, for any options, words of RES_OPTIONS, and lines of the four files,
each of which may be missing or unreadable; nothing is claimed of domains that are asked
for and in resolv.conf.
A reader of words or lines is a recursive function over them, and what it makes of a
setting that is known is nothing (`FirstStays`): so a run of words or lines gives a
setting the first value that it has there (`WordsAreTaken`, `LineGives`), and of two
sources one after the other the second counts only where the first has nothing
(`FirstOfFour`). Three settings are not like this. The sort list and the servers are
gathered from all lines (`EntriesAre`), and the domains are overwritten by each line
that names any (`LastStays`). A file that cannot be read ends the reading (`GivesUp`): what the earlier
lines set at once stays, and what they gather is dropped.

`KnownIsFound`, of the lookups: whatever the hosts file has in any number of lines, the
servers answer and the order of lookups is, an address given as text (but 255.255.255.255) and the address of
a peer are found without them, and so is a name of the hosts file, if the file comes
first: with the address of the first line that has it. That a file which comes first
decides is `FileIsFirst`, over any number of lookups; what getnameinfo says of an
address, if it is not its number, comes from a line's names or from the records of a
reply (`ResultIsOneOf`, `NameIsAnswered`), and these are names, not numbers
(`NameAssumption`).

`ThreadPoolProofs`: `UndoneIsKept`, `RunsWhileRunning` and `WaitersCount`. The invariant follows
an item: it is in the queue, then with one thread, and the calls handed over for
it are in the loop's queue in the order they were made (`Ordered`), at most one
of each kind and none before its stage (`Stage`, `Staged`). `KeptAlive` then holds
because the call that releases the handler comes behind the one that sets the
result, and `RunsInState` because a thread goes on to the function only if the
event is set and the item is not cancelled, and a cancelled future never becomes
running. `WaitersCount` builds on that invariant and says of `as_completed()` what
it holds (`Collects`): what it has collected is done, is not what it is about to
yield, and nothing of that is left when it waits. `Countable` is there
because the count is the number of futures not told of yet.

`SocketsProofs`: `DescriptorCountExact` and `RegisteredWhileWaiting`, as long as
nobody waits for a descriptor that is in use (`Defined`, which does not come back
once it has been false: `Monotone`). That the count is the number of registered descriptors
is not inductive: `SwitchBack` counts down and unregisters, so the descriptor must
be registered, and the greenlet's own. The invariant therefore says whose each
descriptor is (`Owned`): a trampoline's, whose greenlet waits for it, or the
callbacks' of greenlets that are in `select()` on it; and the other way round, that
who waits is registered (`Waiting`). While a bucket of timeouts is gone through, a
timeout can have been thrown into the main greenlet, which then runs although the
loop is in the middle of its poll; it can register nothing, because the loop is
stopped (`Phases`), and this is why an entry of the wheel that no longer is its
descriptor's stems from the bucket itself (`Expiry`). The premise `Sensible` says
that the calls are calls of the methods and the descriptors finitely many.

`ResolverProofs`: `QueriesAreHeld` and `ResultsAreAnswers`. The invariant `IInv`
says that the lists of a channel are of its live queries, each once (`Listed`,
`AllListed`); in which lists and over which open socket a query that is not being
ended is found (`HeldIn`); that its timeout is still to come, or `process_timeouts`
has it in hand (`OnTime`, `Dues`); that a greenlet waits exactly if it has one
query; and that this query asks about the name of its lookup (`Asks`). Between two steps a query may be in flight but listed with no
server, when `handle_error` has stolen it, and this is why `QueriesHeld` alone is
not inductive: the list it was stolen into is the only place that still has it. A
query that ends is `ending` until the greenlet has come back, and may be followed
by another of the same greenlet in the meantime; so the greenlet has one query
that is not ending, or none. What a result is about is the name of the question,
through every search domain and through both families (`SearchName`,
`SearchCallbackName`). The premise `Sensible` says that what the greenlets look up
are lookups, and that servers are given numbers of seconds.

The assumptions are named (the ASSUMEs of the modules, and the premises
`SemaphoreAssumption`, which `MCLocks` assumes of its instance, and `Countable`, `Separate`, `PipeOK`, `Sensible` of the proof modules), and all about constants:
the kinds of objects are disjoint, intervals are positive, capacities are at
least one, deadlines are integers, sets of greenlets, signals, futures and
descriptors are finite, and c-ares has a place for one query of each greenlet and
for the one that is over.

Only model-checked: all liveness under fairness, so the fairness part of
`ImplementsPermits`, `SetReleasesAll` of `Event` and `JoinEnds` too; and of the modules
without variables `ReadsBack` of `Addresses`, whose definitions are recursive operators
or folds and would need induction over their data.

## Not modelled

*Process pool.* `submit()` uses a name its module does not import
(`evergreen.current`) and a method the loop does not have (`call_from_thread`):
there is no behaviour to be faithful to.

*jssl, accept, connect, files made of sockets, poll objects.* They are the retry
loops of `Sockets` around other calls; those of jssl wait for what another
library says.

*Of the loop:* `set_socket_acceptor`, which is not in the table of methods;
`run_until_complete`, which uses an undefined name when it has a timeout.

*Of c-ares:* what is compiled for Windows only (`ares_platform.c`,
`windows_port.c`, the registry), reading lines, memory and error texts; EDNS;
`ares_cancel`, which nothing calls.

*Of lookups:* the end of a wait by somebody else's exception, which frees the
context that a query in flight still refers to (`src/lookup.c` 220).

*Of the thread futures:* done callbacks, map.

*Helpers:* `spawn` and `wait_task` (`src/task.c`) only put an item into the loop's
queue; `local.c`, `buffer.c`, `util.c`, `jega.c` and the patching of standard
modules are sequential and without interaction. Allocation failure and reference
counts are left out everywhere.

Behaviours that a reader of the code may trip over, that the models follow where
they can, and that no property forbids, because nothing in the repository
promises otherwise:

* `sigint_cb` keeps the first signal, and a SIGTERM, which nothing consumes,
  hides every later SIGINT.
* After the reset in a forked child `sigint_cb` replaces the handlers that were
  added for SIGINT and SIGTERM, while their entries in `_signal_handlers` stay.
* `fetch_timer` in `src/locks.c` takes away a TimeoutException that belongs to an
  enclosing timeout.
* `notify(1)` may spend itself on the entry of a waiter that has timed out.
* An executor with a limit has workers that sleep for ever when they find
  nothing; `cancel()` of a future wakes nobody that waits for it; `set_result`
  does not change the state that `result()` looks at. Of three greenlets in
  `result()` of one future the third is not told.
* An error of one socket ends all lookups under way, and only the main greenlet
  hears of it.
* Without a family, getaddrinfo fails for a host that has IPv6 addresses only.
* 255.255.255.255 is no address to c-ares: getaddrinfo asks the servers for it, and a
  line of the hosts file that has it is ignored.
* The last byte of the query for "." is whatever the memory held.
* A timeout of a socket that is below one second becomes zero, which means none,
  and one beyond the wheel's 127 seconds fires early.

Left out of the modelled parts: an exception in `wait()` of a condition that is
still pending while the lock is taken back (the interpreter's error indicator,
which every greenlet shares until it is switched); a Lock that one greenlet
acquires twice, which deadlocks by design; sending on a channel from a callback of
the loop itself, which yields to the loop's parent; and what the loop does with
the ValueError that the notifier raises when it finds a receiver and no message.

## Plan

What is left, by worth:

1. Proofs for the modules without variables, with their recursion in the form that
   `HeapQueue` has: `ReadsBack` of `Addresses`.
2. accept and connect in `Sockets`; done callbacks and map of the thread futures.
3. Larger instances: three clients of one future, three servers.
