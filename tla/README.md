# Verification of Zero

Zero answers fraud queries by vector search: a load balancer accepts TCP
connections and passes the raw descriptors to single-threaded workers
(SCM_RIGHTS), which frame HTTP requests, normalize the payload to 14 quantized
coordinates and count the frauds among the 5 nearest reference vectors of an
IVF index. Balancer and worker each come in two engines, epoll and io_uring.
This directory models that system in TLA+, checks small instances with TLC and
proves the main safety properties with TLAPS.

Paths below are relative to `src/crates/`.

## 1. The system

| Component | Source | State | Operations |
|---|---|---|---|
| epoll worker | `zero-server/src/worker.rs`, `fdpass.rs` (`recv_fd`), `http.rs` (framing) | `conns`, `is_ctrl` by descriptor number; the batch of events being walked; the kernel's descriptor table, epoll set, control-link queues | wait, accept a control link, drain descriptors, close a link, read, serve, answer, close a client |
| epoll balancer | `zero-server/src/lb.rs`, `fdpass.rs` (`send_fd`) | `ups`, `rr`, the accepted `cfd`, `ok` | dial, accept, send, reconnect, retry, give up, close |
| io_uring worker | `zero-server/src/worker_uring.rs` | `conns`, `ctrls`, the provided-buffer ring, pushed SQEs; the kernel's requests in flight and completions | push, submit and wait, reap, one handler per completion, `serve`, `close_client` |
| io_uring balancer | `zero-server/src/lb_uring.rs` | `SendSlab`, `rr`; sends in flight | push, submit and wait, accept completion, send completion |
| IVF search | `zero-index/src/search.rs` | top-5 list, probes, skip set, candidates | select probes, prune, scan, gate, repair |
| distance kernels, quantization | `zero-index/src/search.rs`, `quant.rs` | none (pure) | `quantize`, scalar and AVX2 distance, box bound |
| index layout and loading | `zero-index/src/format.rs`, `search.rs` (`from_bytes`, readers, `build_soa`) | section offsets, block tables | lay out, validate, read, build the pair tables |
| index builder | `zero-convert/src/main.rs` | references, order, boxes, file | parse, train, assign, order, pack |
| HTTP parser | `zero-server/src/http.rs` | none | `parse`, `content_length` |
| normalization | `zero-index/src/normalize.rs` | the scanner's position, section, depth; the collected fields | scan a payload, calendar arithmetic, features |
| tuning, accuracy gate | `zero-gate/src/main.rs` | thresholds | offline statistics over `search_fast` |
| process setup, deployment | `main.rs`, `hardening.rs`, `deploy/` | none | engine choice, system settings |

How they interact. The balancer dials each worker's control socket, and sends
one message per client over it; the kernel queues the message and installs a
new descriptor in the worker when it is received. Balancer and worker share no
memory and send no acknowledgement: what the balancer knows of a worker is
whether `sendmsg` succeeds. Inside a worker everything runs on one thread,
which parses, normalizes and searches, and writes or pushes the answer, before
it looks at the next event. The index is built offline by `zero-convert`;
builder and search share `format.rs` and nothing else.

What is hard.

* Both workers name everything by descriptor number, and the kernel reuses
  numbers at once. The epoll worker walks a batch of events while its handlers
  open and close descriptors; a completion of the io_uring worker carries
  nothing but a number, and a request keeps its file alive after the number was
  closed. A stale event, mark, buffer or completion would serve one client's
  bytes to another.
* epoll reports what is in the socket, not what is in the worker's buffer.
* The io_uring worker's receives share a small ring of provided buffers: one
  not given back starves every client, one given back early is overwritten.
* A full submission queue is flushed in the middle of a handler, so that a
  request may be in the kernel before the handler is done.
* The io_uring balancer's messages are read by the kernel later than they are
  pushed; message and descriptor have to last exactly until the completion.
* Workers crash and restart at any point of a placement. The failover must not
  place a client twice, wait for the dead, leak, or abandon a queue.
* The search skips most of the index on the strength of lower bounds computed
  in 16- and 32-bit lanes. One bound too large, one comparison too strict, one
  cluster visited twice, and an answer is silently wrong.
* Builder and search compute on their own where a coordinate is in the file; a
  disagreement is another silent error.
* The payload scanner is no JSON parser: it keeps one section name and one
  brace depth, and the order of sections and members is the client's.

Properties that make each component correct:

* workers: tables and kernel agree, no event or completion goes stale, no bytes
  cross connections, no complete request is stranded, answers are in order and
  complete, closes have a cause, no socket is forgotten, no provided buffer is
  lost or shared, what was handed over is not lost, servable requests are
  eventually answered;
* balancers: one owner per client, rotation and failover order, no leak, no
  abandoned queue, messages pinned as long as they are needed, nobody waits for
  ever, and nobody for another's worker;
* search: every reference found once and with its own label, no double votes, no
  neighbour lost by pruning, exact when promised;
* kernels: the engines agree, bounds are bounds, nothing overflows;
* requests: framed whole however they are cut, features those of the document.

The hazards behind them are listed with their lines in `PROJECT.json`.

## 2. Modules

| Module | Role |
|---|---|
| `EpollWorker`, `EpollWorkerProofs` | the epoll worker over an explicit kernel; its theorems |
| `Handoff` | abstract: what the balancer promises about a client |
| `EpollBalancer`, `EpollBalancerProofs` | the epoll balancer with crashing workers; its theorems, and that it implements `Handoff` |
| `UringWorker`, `UringWorkerProofs` | the io_uring worker over the rings; its theorems, first those that hold whatever happens, then those that hold without trouble, then those that hold of every number by itself |
| `UringBalancer`, `UringBalancerProofs` | the io_uring balancer over the rings; its theorems |
| `NearestVote` | abstract: the vote of the nearest references |
| `IvfSearch`, `IvfSearchProofs` | the three searches, step by step; their theorems, and those of the file they search |
| `IvfDistance`, `IvfDistanceProofs` | quantization and the kernels with their machine widths; their theorems |
| `IndexFile` | the file format, the builder that writes it, the reader of it; its theorems are in `IvfSearchProofs` |
| `CivilTime` | the calendar functions of `normalize`, and a calendar that counts |
| `FraudRequest`, `FraudRequestProofs` | one request from the first byte to the features; framing, the scan and the calendar proved |
| `NatLemmas` | least elements and induction over sets of naturals, counting in sequences, ranks, sequences that grow and shrink, bags over one element; shared by the proofs |
| `MC...` | instances for TLC; `MCIvfSearch` composes `IndexFile` with `IvfSearch` |

A definition that begins a comment with "Slip:" is a plausible programming
error kept next to the operation it would spoil. No specification uses one; each
is there to show that a property would notice it.

### EpollWorker

The program's variables (`pc`, `cur`, `batch`, `conns`, `isCtrl`) are apart from
the kernel's (`fdt`, `interest`, `backlog`, `ctrlq`) and from the peers'. `fdt`
is the descriptor table: which file a number means now. `accept4` and `recvmsg`
take the lowest free number, so numbers are reused as early as possible.

* `EpollWait` takes all ready events, or any `MaxEvents` of them; the batch is
  walked in any order (the kernel's order is arrival order).
* Each `Dispatch...`, `CtrlHangUp`, `ClientHup`, `ReadClose`, `Read` is one branch of
  the event loop; loops inside a handler (`accept_ctrl`, `drain_fds`, the parse
  loop) are one action per turn, so that the environment interleaves with them.
* A client's bytes are units; unit `i` of client `c` is `<<c, i>>`, and `Stream`
  says which unit ends a request and of which kind the request is. A read
  takes all that is there up to the room left (`recv`), so requests are cut at
  any unit. `parse` finds the first complete request; that it does so whatever
  the cut is what `FramedWhole` of `FraudRequest` shows of the bytes.
* `SendFails` is `send_all` giving up on a peer that left or does not read for
  50 ms; `DrainDone` includes the message whose descriptor could not be
  installed.
* `ReadClose` for a client that is gone stands both for the end of the stream and
  for an error; such a client's remaining bytes may also still be read.

### UringWorker

`sq` holds what is pushed, `armed` (a bag) what the kernel has taken, `cq` what
it posted, `done` the completions of this wakeup still to be handled. There is
one action per completion handler; each contains every push it makes, and a
push into a full queue submits what is there (`Push`, `Submit`), as `push` does.
`fdt` again is the descriptor table. A request is bound to its file when it is
submitted (`Request`), which the model carries along as `file` and the program
does not see: closing a number neither ends an armed receive nor recalls what
is pushed for it. `pool` and `mem` are the ring of provided buffers and what
the kernel wrote into them. `trouble` is a history variable, of the events a
request may suffer from, each with the number that was closed over it, if one
was: a request rejected or refused, an answer not sent, a socket that came over no
known link; no provided buffer left, a client that left with answers outstanding,
no descriptor left (these close no number with something still to come for it).

After a close while a multishot receive is armed the code does mix up files: the
socket lives on behind the receive (`uring_closed`), and what it receives carries
a number that may mean somebody else by then. `Spoiled` are the numbers that were
closed that way. `NoStaleCompletion` and `NoSocketForgotten` say that this is where
it ends: whatever happened, and however often numbers changed hands, a completion
under any other number is of the file that number means, and a socket open under
one is served with exactly one receive. So ordinary closes, of clients that go,
links that end, receives that run out of buffers, leave nothing behind, and a
spoiled number does not spoil others. `BuffersAccounted` holds of all.
`InOrderAnswers` needs a run without trouble (`Sound`: short of descriptors at
most), because a socket left over answers nothing any more and the bytes of one
client may be answered to another.

Facts about the kernel the model rests on: a completion reports the end of a
control link only when the queue is empty, so that sockets handed over survive
the balancer's exit here (`HandOverKept`, unlike under epoll); a multishot
accept that succeeds stays armed; a receive may end with any chunk; completions
are posted while others are handled, which is the ring without
`DEFER_TASKRUN` that `build_ring` falls back to and a superset of the other.
Sends are carried out when they are submitted, whole and in order: short sends and
a full socket buffer, with which unlinked sends may overtake each other, are not
modelled. What `InOrderAnswers` checks is therefore to whom an answer goes and
which request it is for, not that the ring keeps the order. The 400 of a rejected request is pushed, and
its number closed before anything is submitted, so that it is never delivered;
a failing send closes its number once more. Both are in the model as the code
has them.

### EpollBalancer and Handoff

One action per call that other processes can notice: `Dial`, `Accept`, `Send` /
`SendFails`, `Reconnect` / `ReconnectFails`, `Resend` / `ResendFails`, `Close`.
A link `<<w, k>>` is the `k`-th connection made to worker `w`; `lbOpen` holds the
descriptors still open on this side, `live` those whose other end is open, so a
leak and a dead link are both visible. `sendmsg` blocks on a full queue: `Send`
is then simply not enabled. `Crash` closes what the worker holds and what is in
flight to it. `rr` is kept modulo the number of workers, the only way it is used
(the wrap of the 64-bit counter after 2^64 clients is out of the model).
`doubted` is a history variable: the workers that were down at some moment since
the client at hand was accepted. Not modelled: `sendmsg` refusing for lack of
kernel memory or too many descriptors in flight (ENOBUFS, ETOOMANYREFS), which
would be taken for a dead link.

`Handoff` says what is promised: a client has one owner; it goes to the worker
whose turn it is; another gets it, or nobody, only if those passed over were
down meanwhile. `KeepsPromise` is the refinement: `carried` is the accepted
client until its send succeeds, `with[w]` what `w` holds or has in flight.

### UringBalancer

`slots` and `free` are the `SendSlab`: a slot holds the descriptor its message
carries, or nothing. `Alloc` and `Take` are its operations, inside `OnAccept` and
`OnSend`. The kernel reads the message and looks up its descriptor when it
carries the send out (`KernelSend`), which may be long after the push and in any
order among the sends that had to wait. This balancer dials its links once: a
worker that is gone is never replaced and its clients are closed
(`KernelSendFails`, then `OnSend`); there is no failover and no retry, so
`Handoff` is not its specification, and `InRotation`, `ClosedWhenGiven` and
`OthersServed` say what remains. A hung worker's sends stay in flight and hold
their descriptors. `order` and `given` are history variables. The counter `rr`
does not wrap.

### IvfSearch, NearestVote and IndexFile

`engine` selects the scalar search, the AVX2 search or the fast pass
(`search_fast`). Probing, scanning and repairing are the loops of the code, one
action per cluster, block or reference. The top list is the code's: `Top5` with
the index of its first largest entry, or the sorted list of `update_top5`. Which
clusters are probed is left to the operator `CentDist` and, on ties, to chance
(`IsProbeOrder`): both selection loops return the nearest centroids, and in
different orders among equals. The early exit inside one scalar distance is part
of `Lane`: a partial sum that reaches the limit is rejected as the whole would
be (`GivenUpIsFar` of `IvfDistance`). Empty clusters are scanned as the code does,
in no steps. An index without clusters is excluded (`IndexAssumption`): `n - 1`
at `search.rs:447` would underflow.

`NearestVote` is one step: an answer in the band the settings ask to be exact is
the number of frauds among `Top` references no other is nearer than; ties may be
broken either way. `ExactVote` is the refinement. The band is the borderline
range of the repair gate, everything for settings that always repair, and empty
for the fast pass, which promises nothing.

In `IvfSearch` the vectors are abstract. `BoundsAssumption` is all the search
relies on: a distance fits below `u32::MAX`, a partial sum and a box bound never
exceed it. The theorems of `IvfDistance` establish this for the arithmetic of
the code, given vectors whose coordinates lie in the ranges `normalize`
produces. That holds for queries by construction (`clampf`, the mark -1 in
coordinates 5 and 6). Of the reference file it is an assumption:
`parse_references` quantizes what it finds to -10000..10000 in every coordinate.
`ParseReferences` quantizes too (`Coordinate`: a member that is no number counts as
0); the instance has ties, a clamped value and unreadable members.

`IndexFile` keeps the file byte by byte: `LayoutFor` is `layout_for`, `BuildIvf`
puts header, centroids, boxes, tables, labels and pair-interleaved blocks where
the builder puts them (`Puts`), and `IsIndex`, the readers and `FromBytes` take
them from where the search looks. `MCIvfSearch` builds a file for every
assignment of the references to clusters, loads it, and lets `IvfSearch` search
what was loaded, with boxes and centroids read back through the tables of
`build_soa`. `EveryReference` then relates what is searched to what was given to
the builder, end to end. k-means training only decides the assignment, and all
assignments are explored.

### IvfDistance

`Scale`, `Half16` and `Half32` are 10000, 2^15 and 2^31 in the code. They are
parameters because TLC's integers have 32 bits themselves, so that overflow of a
32-bit lane cannot be seen at full size; the assumption on them (`2 * Scale <
Half16`, `20 * Scale^2 < Half32 - 1`) is what the code's values satisfy and all
that is used. The operators follow the intrinsics, in the code's order of
addition, with a wrap at every operation. `QuantizeIsNear` is about one number:
that a query, computed in 32-bit floats, and a reference, parsed as a 64-bit one,
come to the same step next to a tie is not claimed; numbers are exact here.

### FraudRequest and CivilTime

Bytes are tokens: a string, a number, a brace, CR, LF. `Arrive` is a read of any
length the instance allows, and `Parse` what `http::parse` makes of the buffer.
The scanner is one action per token and per branch of the loop (`OpenBrace`,
`CloseBrace`, `KeySection`, `KeyArray`, `KeyField`, `NotKey`, `Other`,
`Truncated`), with the section, depth and position of the code; `Finish` is the
rest of `normalize` up to the scaling, which is in `IvfDistance`. `Expected`
reads the features off the document itself, with the calendar of `CivilTime`
(`DayNumber` counts days and leap years) in place of Sakamoto's and Hinnant's
formulas.

`Document` says which payloads the scanner can read, and `Says` what they say, by
where their tokens are: a token's `Level` is the braces open before it, a field's
value stands behind the key of its name `Within` the object it belongs to.
`PayloadAssumption` asks that what is posted be such a document of the values
`given`; TLC checks it of every payload of the instance.

Left out, as assumptions on payloads: white space and line breaks inside the
payload; signs and exponents of numbers; escaped quotes; a nested object inside a
section whose members are called like the section's own fields (the scanner
would take them, being depth-blind within a section); an object called like one
of the five anywhere but among the document's own members; a required section that
is `null` (`Placed`). The 32-bit wrap of a long number in `fast_f32` and the wrap of a huge
Content-Length (`UsizeMod`) are not exercised; nor is the panic on a timestamp
shorter than its format.

## 3. Runs

Every run finishes within three minutes with two workers.

| Run | Instance | Shows |
|---|---|---|
| `worker_reuse` | epoll worker: 2 clients and 2 links over 3 descriptors, batch of 2, buffer of 2 units, clients and links may vanish | `TypeOK`, `TablesAgree`, `NoStaleEvent`, `OwnBytesOnly` |
| `worker_serve` | epoll worker: 2 clients (pipelined and oversized; rejected and impatient), 1 link, fairness | `NoStrandedRequest`, `InOrderAnswers`, `CloseIsJustified`, `HandOverKept`, `RequestsAnswered` |
| `worker_lb_exit` | as above, balancer may exit | finding: `HandOverKept` is violated |
| `uring_worker` | 2 clients (pipelined; rejected and leaving), 2 links, 3 descriptors, 1 provided buffer, submission queue of 2 | `TypeOK`, `BuffersAccounted`, `NoStaleCompletion`, `NoSocketForgotten`, `InOrderAnswers`, `HandOverKept` |
| `uring_closed` | 2 clients (one goes on after a request that is rejected), 1 link, 2 provided buffers | finding: `ClosedIsClosed` is violated |
| `uring_no_buffers` | 2 clients, 3 descriptors, 1 provided buffer | finding: `RearmedWhenOutOfBuffers` is violated |
| `uring_balancer` | 2 workers (one hangs or crashes), 4 clients, 2 descriptors, submission queue of 1, links of 1, fairness | `TypeOK`, `SlabPinned`, `InRotation`, `ClosedWhenGiven`, `OthersServed` |
| `balancer_failover` | 3 workers, 3 clients, queues of 1, 3 crashes, fairness | `TypeOK`, `OneOwner`, `NoLinkLeaked`, `NoQueueAbandoned`, `KeepsPromise` (implements `Handoff`), `EveryClientPlaced` |
| `search` | the files of all 3^5 assignments of 5 references to 3 clusters, 2 queries, 3 engines, 5 settings, top 2, blocks of 2 | `EveryReference`, `TypeOK`, `SlotsHonest`, `NothingNearerMissed`, `WorstOnlyShrinks`, `ExactVote` (implements `NearestVote`) |
| `search_max_off` | 3 references, top 3 | finding: `MaxMeansOff` is violated |
| `distance_corners` | coordinates at the corners of their ranges, lanes just wide enough | `TypeOK`, `QuantizeIsNear`, `EnginesAgree`, `GivenUpIsFar`, `BoxIsBound` |
| `request` | every order of the sections, gaps and foreign members, 36 pairs of dates, requests cut at every token | `FramedWhole`, `FeaturesOfPayload` |

Why the bounds are enough.

* Three descriptors for four files (`worker_reuse`, `uring_worker`)
  and two for four clients (`uring_balancer`) force every reuse: client after
  client, link after client, client after link, each within one batch; and the
  process runs out of descriptors. A connection buffer of two units is filled by
  one request, split by the next, and too small for the oversized one. One
  provided buffer is the tightest ring. Submission queues of one or two overflow
  in the middle of the handlers that push two or three requests.
* Three workers make a failover that passes two backends, wraps round and comes
  back to a restarted worker; a queue of one blocks the sender at once.
  `MaxLinks` is one more than `MaxCrashes`, the number of links a worker can ever
  be given, so that bound is never the reason a step is missing.
* Three clusters are one probed, one pruned and one repaired; blocks of two give
  full and partial blocks, several blocks in a cluster and empty clusters; points
  at equal distance occur for both queries; one object of the reference file is a
  coordinate short. One pair of coordinates keeps the file small: the index
  arithmetic over pairs is the same expression for any number of them.
* The dates are on both sides of the ends of February in leap and other years, of
  a year's end, and of midnight.

The runs over the workers, the balancers, the search and the request turn
deadlock checking off where the system does stop: when the clients have sent
what they send, all are placed, the search has answered or the request is done.

Very small event arrays can starve a descriptor in the epoll model, since the
choice of `MaxEvents` ready events is free at each wait; the kernel rotates its
ready list. `worker_serve` therefore uses an array that holds all events.

One behaviour of the io_uring worker is in the model and not reached at these
bounds: a message that brings a socket for a number that is no link's any more
(`OnCtrlEmpty`).

### Fairness

* Epoll worker: `WF_vars(Worker)`. The thread polls, spins or waits with a timeout
  of microseconds and never sleeps while an event is ready. Clients and balancer
  are not fair: they may stop at any time.
* Epoll balancer: `WF_vars(Balancer)`; each worker is started once (the compose
  file starts them), not again after a crash; a running worker reads its links.
* io_uring balancer: the thread handles its completions; the kernel accepts
  and sends what it can; only the workers in `Reliable` go on taking clients, the
  others may hang or crash.
* Search: none. Its loops go over finite ranges and nothing else runs beside it.
* io_uring worker: none is stated. What would be its liveness (a request is
  answered) is stated as safety by `NoSocketForgotten`: an open client always has
  exactly one receive outstanding.

### Findings

1. `worker_lb_exit`. "worker now owns the fd" (`lb.rs:149`) is true of the
   queue, not of the worker: if the balancer exits while descriptors are queued,
   the epoll worker sees the hang-up first, closes the link without draining it
   (`worker.rs:225-229`), and those clients are cut off. (Nor does the comment hold
   when every backend refused the client: the outcome is discarded, `let _ = ok`,
   and the client closed. `Handoff` allows that drop, and only when the workers
   passed over were down.)
2. `uring_closed`. `serve` "returns true if the connection should be closed"
   (`worker_uring.rs:351`), and the answer to a rejected request says "Connection:
   close" (`http.rs:14`). `close_client` (`:414`) closes the number; the armed
   multishot receive keeps the socket, so the connection stays open and its bytes
   are still received, under a number that is free for somebody else. The 400 itself
   is resolved when it is submitted, after the close, and does not reach the client.
3. `search_max_off`. A threshold of `u32::MAX` is documented as "off" /
   "disabled" (`search.rs:70-71`, `113`). The gate uses `>=`, and `u32::MAX` is
   also the worst distance of a list that is not full, so a fast pass that
   found fewer than five references repairs anyway. The answer is exact then;
   only the cost differs from what is documented.
4. `uring_no_buffers`. "multishot terminated (e.g. -ENOBUFS) -- re-arm"
   (`worker_uring.rs:332`): a receive that ends with -ENOBUFS has a negative
   result, and the test for that (`:311`) closes the client before the re-arm is
   reached.

## 4. Proofs

Checked by TLAPS for every value of the constants that meets the named
assumptions; nothing is assumed besides those.

**Epoll worker** (`WorkerAssumption`: finite bounds, disjoint names;
`StreamAssumption`: the units of one request have one kind). `TypeOK`,
`TablesAgree`, `NoStaleEvent`, `OwnBytesOnly`, `NoStrandedRequest`,
`InOrderAnswers`, `CloseIsJustified`, `HandOverKept`. The inductive
invariant `IInv` adds `Cursor` (one event per descriptor in the batch, none for
the descriptor being handled) and `Progress` (no more is read than was sent). None
of the three table properties is inductive alone: closing a descriptor keeps
`NoStaleEvent` only because the batch holds no second event for it, the event
being handled is a client's only because the mark agrees with the descriptor
table, and a received descriptor overwrites no buffer only because it was free.
`OwnBytesOnly` and `NoStrandedRequest` are then carried together (`Buffers`) on
top of `IInv`.

`OnePlace` says that a file is behind one descriptor at most, that a socket
still queued on a link is behind none, and that it is queued once.
`InOrderAnswers` needs it, and `Served`: the bytes answered, the bytes in the
connection buffer and the bytes not read yet are three consecutive stretches of
the client's stream (`Stretches`), and a client not installed yet has neither
buffer nor answer (`Fresh`). Order then follows by counting: an answer is the
`k`-th because `k - 1` requests end before its own. `CloseIsJustified` needs
`HangUps`, that an event in the batch that reports a hang-up is of a peer that
did hang up. `HandOverKept` is proved for finitely many clients and
links, a balancer that does not exit (the run `worker_lb_exit` shows it false
without) and as many descriptors as files (`Calm`); that there is a free one for
a queued client is a pigeonhole argument.

**Epoll balancer** (`BalancerAssumption`). `TypeOK`, `NoLinkLeaked`,
`NoQueueAbandoned`, and `KeepsPromise`, that every step is a step of `Handoff` or
a stutter. `BInv` adds `AtHand` (what `cfd` and `ok` say at each place of the
loop), `Round`, `LinkBook` (live links belong to running workers and are open; only
they carry anything) and `Excused`: whoever the failover has passed was down
meanwhile. The last is the heart: it turns "the send failed" into "that worker
was down", which is what licenses failover and drop in `Handoff`. `OneOwner`
needs `Apart` besides: a client is on one queue or with one worker, once, and
only if it was accepted and its send is over.

**io_uring worker** (`UringAssumption`). `TypeOK` and `BuffersAccounted`, which
holds whatever happens. The invariant is `RingBook`, the same said by counting:
each buffer number occurs once in the ring, the posted and the reaped completions
taken together. A submission posts only completions that name no buffer
(`Quiet`), which is why a push in the middle of a handler disturbs nothing.

`NoStaleCompletion` and `NoSocketForgotten` are proved of every run, by an invariant
that is stated number by number: `Calm`. For each number that is not spoiled,
`NeatNow` counts the requests pushed, the completions posted or being handled and
the copies in flight: a served number has one receive (or one recvmsg) over the
three places taken together and nothing else has any (`Account`), a new
descriptor is announced by one completion until it is served (`Neat`), what is
posted or in flight for the number is for its file (`Mine`), and a completion
that ends a receive is the last one (`LastEnd`), which is why closing on it leaves
nothing behind. The two properties are not inductive, since neither speaks of what
is pushed or in flight under a number that is free. What makes it a matter of one
number is that no handler pushes, closes or serves any number but the one its
completion carries or brings, and that the kernel brings only numbers that are
free, for which `Account` says that nothing is left, unless they are spoiled: a
number stays so, and whatever arrives under it is confined to it. A push that
overflows submits in the middle of a handler, so the effect of a submission is
stated apart (`SubmitEffect`), and of a push by counting.

`InOrderAnswers` and `HandOverKept` are about runs without trouble and share
another invariant, `Wiring`, which also holds the data. `Wired` says what ties the
queues to the tables: every descriptor is announced by one completion or served (`Known`,
`Announcements`), a request pushed, in flight or completed is for a descriptor that
is served and, once submitted, for that descriptor's file (`Pushed`, `Flying`,
`Completed`), each connection has one receive and each link one recvmsg over the
three places taken together (`OneEach`), and a completion that ends a receive is
the last one for its descriptor (`LastEnds`), which is why closing on it leaves
nothing behind. `Flows` says the same of the data: the answers written, the
answers pushed, the bytes buffered and the bytes in provided buffers still to be
served are consecutive stretches of what was received (`ServesOne`, `Brings`,
`Holds`, `Continue`), and a client that left had all its answers (`Settled`), so
that no send fails. Besides it takes what holds whatever happens: `OnePlace`, that
a file is behind one descriptor, or queued once, or in the backlog; `Sending`; and
`RingBook`, without which a buffer could be overwritten under a completion that
names it. The predicates are stated of parameters, because a handler is not one
step: it pushes, a full queue submits in the middle, and only then is the
completion gone from the head. The cause of trouble matters: with "descriptors"
alone everything but `HandOverKept` still holds, and each other kind has a handler
that breaks the wiring.

**io_uring balancer** (`UringBalancerAssumption`). `TypeOK`, `SlabPinned`,
`InRotation` and `ClosedWhenGiven`. The invariant of the first two is
`BookKept`: every pending send (pushed, flying, completed) has a slot with its
own client's open descriptor, no two have the same slot or descriptor, every
other slot is on the free list once, and every open descriptor is announced by
one completion or is in one slot. It is stated over its parts (`Book(q, f, c, d,
sl, fr, ft)`) so that the two halves of a handler, a push and the submission a
full queue forces, can be taken one after the other (`AssignBook`,
`SubmittedBook`). The rotation needs `Rota` besides: a client is in the backlog,
or announced, or in the order, each once and never in two descriptors, so that
every unsent send is its client's only one (two sends have two slots, hence two
descriptors, hence two clients), a client with an unsent send was not given yet,
and a client whose send completed was given or had a worker that is gone.

**Search** (`SearchAssumption`, `IndexAssumption`, `BoundsAssumption`). `TypeOK`,
`SlotsHonest`, `NothingNearerMissed`, `WorstOnlyShrinks`, `ExactWhenRepaired`, and
the refinement `ExactVote`. The argument: the worst distance only shrinks, so what
was settled (looked at, or ruled out by a bound at least as large as the worst)
stays settled; the repair's candidates are all clusters not settled, taken in
the order of their bounds, so when the first is hopeless all are. `SInv` carries
this with the order of the AVX2 list and the fact that a cluster waiting for a
scan has no reference in the list. The vote then follows by counting
(`ExactListVotes`): slots in use and references held correspond one to one, so the
list is a nearest set of `Top` references, or, when a slot is free and the worst
is the largest distance there is, of all of them.

**Kernels** (`WidthAssumption`, `VectorAssumption`). `TypeOK`, `EnginesAgree`,
`BoxIsBound`, `GivenUpIsFar`: with 12 coordinates in 0..Scale and 2 in
-Scale..Scale no difference leaves a 16-bit lane and no partial sum exceeds
20 * Scale^2, so no wrap ever happens and the capped signed comparison decides as
the unsigned one would.

**A request** (`RequestAssumption`: a request is whole, it ends with its headers
or as far behind them as `content_length` reads from them, and that length does
not wrap; `PayloadAssumption`: what is posted is a `Document`). `FramedWhole` is inductive together with where the reads may end; the
step is `ParsedWhole`: the blank lines of a prefix are those of the stream that
end in it (`BlanksOfPrefix`), so that every prefix that has the first of them has
the same headers, hence the same Content-Length. `BodyDelivered` says of the same
invariant that the walk gets the body and nothing of what follows. The calendar is
proved for every date from 1970 on (`FastDaysCount`, `FastWeekdayCounts`): both
formulas are brought to 365 y + y/4 - y/100 + y/400 of a year that starts in March
(`DaysByMarch`, where Hinnant's eras cancel), and the counting calendar is brought
there by induction over the years (`LeapsCounted`) and month by month
(`MonthsCounted`). `FeaturesCounted` concludes that `Features` of any collected
values is `Expected` of them.

`FeaturesOfPayload` (`ScannedFeatures`) adds that the scan collects the right
values, for a document of any length, order and nesting. The scanner keeps one
section and one depth, no stack, so the invariant `Walk` says what those two are
worth: the depth is the `Level` of the token before the position; between a known
object's key and its brace the section is that object's already (`Opening`), and
anywhere else it is the object the position is `Within`, or "root" within none
(`InSection`; no position is within two, `WithinOne`). Each token keeps this: a
brace opens the object only behind its key (`OpenStep`); a closing brace leaves the
section exactly when the level falls to 1 (`CloseStep`), deeper objects of the
section passing unseen; a value that is read again as if it were a key is none,
because no colon follows. A key then sets the field it says in the document and
no other (`SectionStep`, `FieldStep`, where `LocalIsMember` compares the code's
table of sections and keys with `Where`), the array of known merchants is skipped
over without a key or a brace in it (`ArrayFacts`), and what is collected at a
position is what the document says before it (`Collected`). No induction over the
nesting is needed: one over the steps is enough, because a level is a count.

**The index file** (`FormatAssumption`; `IsBuild`: the numbers of a build fit the
fields that hold them, 16 bits for a coordinate, 8 for a label, 32 for a count; these are the
types of the tool, so that only builds whose counts wrap are left out).
`WhatIsPutIsFound` is the round trip: the reader accepts the file and finds each
reference where the builder, computing block and lane on its own, had put it, and
every centroid, box, start and count. The argument has three parts. The sections
follow one another (`LayoutOrder`), and inside one of them an address is a number
in mixed radix, block, pair, lane and half, so that two places have two addresses
(`MixedRadix`, `PlaceBlock`, `PairOffset`, `LabelsApart`, `ValuesApart`). Hence every
put has its bytes to itself (`Own`, which `OwnUnion` carries from section to
section up to `PutsOwn`), and a byte of the file is that of the one put that covers
it (`Stored`). And two or four bytes make up the number they were cut from
(`Bytes16`, `Bytes32`). `BoxesHold` follows: a box that is read is around what is
read. `FileBounds` adds the squares up (`SumsCompare`): in every file and for
every query, a cluster's box is no further than any reference in it and no partial
sum of a distance exceeds it. That is what `BoundsAssumption` asks of the bounds,
for the sums of the scalar loops; that the AVX2 kernels add up the same and that
a distance fits 32 bits is proved in `IvfDistanceProofs`. `AssignmentSpreads` says that a sort of the clusters exists and uses every
reference once (`OrderExists`, induction over the size of the cluster), and
`EachGivenOnce` concludes that what the search calls `Refs` is, one to one, what the
builder was given. `SoaHolds` is the same for the tables of the vector kernels. The
proofs stand in `IvfSearchProofs`, because the conclusion is about both modules.

Only model-checked: `EveryReference`, which names the references of one instance
(`EachGivenOnce` is the fact behind it, for every file), and the liveness properties, which are out of the prover's reach.

## 5. What is left

Not modelled, and why:

* k-means training (`zero-convert`, floating point): it decides which cluster a
  reference is in, and the search is checked for every assignment.
* The bodies of responses, logging, the gate's statistics: no state, no decision
  the server takes.
* Engine choice, affinity, memory locking, socket options, the compose files:
  system calls and settings outside the programs' state.
* Short sends and a full socket buffer under io_uring; a control message that
  is truncated; refusals of `sendmsg` for lack of kernel memory.
* Payloads outside the assumptions listed under `FraudRequest`.

Worth proving next: `BoundsAssumption` itself for a loaded file. `FileBounds`
has the order of its sums, `IvfDistanceProofs` the kernels' lanes and widths; the two
are not joined, because `IvfSearch` and `IvfDistance` each declare the query a
variable, so the kernels' operators would first have to move to a module without state.
