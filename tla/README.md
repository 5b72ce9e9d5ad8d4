# A TLA+ model of xltop

xltop shows who is using a Lustre filesystem. Four programs work together:

| program | source | what it does |
|---|---|---|
| `xltop-master` | `master.c` and most of `src/src` | keeps the tree of hosts, jobs and clusters, counts traffic, answers HTTP requests |
| `xltop-servd` | `servd.c` | on each file server, reads counters of every client nid from `/proc` and PUTs differences to the master |
| `xltop-clusd`, `_xltop-clusd` | `clusd.c` | turns `qhost -j` into lines "host job", PUT to the master |
| `xltop` | `xltop.c`, `screen.c` | polls the master and draws the top consumers |

Each program is one thread around a libev loop, so a callback is never
interrupted by another callback of the same program. What interleaves is
callbacks (messages, timers, sockets), programs, and the world outside
(clients of Lustre, the kernel, the network).

Paths below are relative to `src/src`. "Proved" means by TLAPS for every value
of the constants; "checked" means by TLC on the instance of the run.

## 1. Components

### The master's flow tree (`x_node.c`, `job.c`, `host.c`, `lnet.c`, `clus.c`, `serv.c`)

*State.* Two trees of `x_node`s: consumers (host in job in cluster in the
universe U) and providers (server in filesystem in the universe V). An edge is
kept three times: `x_parent`, the parent's `x_child_list`, and its
`x_nr_child`. A hash table of `k_node`s counts the traffic of pairs (consumer,
provider); a pair gets its k_node when it first sees traffic. Each `lnet` maps
nids to hosts. Each job has `j_fake` (an idle job, never freed) and the timer
`j_zombie_w`.

*Operations.* A line of `PUT /clus/NAME` moves a host to a job, making either
if it is new, and starts the old job's timer if that was its last host
(`clus_msg_cb`). A line of `PUT /serv/NAME` finds the host of a nid, making it
if it is new, and adds the numbers to every pair of an ancestor of the host
and an ancestor of the server (`serv_msg_cb`, `x_update`). The timer frees a
job without hosts and its k_nodes (`job_zombie_cb`, `x_destroy`,
`k_destroy`). GETs walk the tree and stop where a pair has no k_node
(`serv_get_r`, `k_heap_top`).

*Hard.* Long legal sequences: a host leaves a job, the job is repopulated
before its timer fires, is emptied again, is freed, and another of the same
name is made. Everything is redundant (edges) or lazy (k_nodes), and walks
trust both.

*Correct if* the representations of an edge agree and levels are right; no
k_node outlives a node; walks and `k_destroy` find every k_node; sums agree in
both directions of the hierarchy, whatever moves; every empty job that is not
fake is freed.

### The rate of a k_node (`k_freshen`, `k_update`)

*State.* `k_t`, `k_pending`, `k_rate`, `k_sum`. Nothing happens when a tick
ends: `k_freshen` makes up for missed ticks when somebody looks. *Hard.* A tick that
is missed, one that is not and many of them are separate cases, and what is reported
may be negative. *Correct if* looking makes no difference to what is seen (it does
make one while a rate is negative, see section 4) and no report is counted twice.

### The top query (`top.c`, `k_heap.c`)

*State.* For one request, a heap of at most `limit` k_nodes, then sorted in
place. *Operations.* A walk down both trees from the nodes the client names, which
gives up where a pair has no k_node and may leave out the jobs of other owners;
an offer of each k_node it ends at; the sort. *Correct if* no k_node of the levels
asked for is left out, except those of hosts that were moved to a job without a
k_node (`Hidden` in `TopWalk`), none of another owner's job is offered, and the answer
is the greatest ones, sorted.

### Connections of the HTTP server (`botz.c`, `n_buf.c`)

*State.* Per connection: a request buffer, a buffer for the response header
and one for its body, the flags of an exchange (`botz_x`), the events its
watcher waits for, an idle timer. *Operations.* `bc_io_cb` on readable or
writable, `bc_timer_cb`. *Hard.* Requests arrive in any pieces, several at
once, or are cut off; the socket takes responses in any pieces; the buffers
are finite; the events are set by hand on each way out of the callback.
*Correct if* the client gets one whole answer for each request, in order, and
never waits for an answer that will not come.

### The entries of the HTTP server (`botz.c`, `x_botz.c`)

*State.* One hash table of entries by parent and name, each with methods, a lookup
and data. *Operations.* `botz_add` while the configuration is read; `bx_lookup` for
each request, which keeps what a lookup makes. *Hard.* What is kept is found by
all later requests, while jobs come and go; names of the client's choice reach the
lookups. *Correct if* only what is never freed is kept, and what is kept makes no
difference to any answer.

### The collector (`servd.c`, `curl_x.c`)

*State.* `lxt_hash_table`: targets, each with the last counters of every nid;
`nid_hash_table`: the difference of each nid in this round; `serv_status`.
*Operations.* One callback (`clock_cb`): collect, PUT differences, PUT status
and adopt the schedule in the reply. *Hard.* Lustre acts meanwhile; exports
and targets come and go and their counters start from zero; a read or a PUT
may fail; the master may be restarted with another schedule. *Correct if* what
the master adds up never exceeds what a client did, visible traffic is taken up,
and the schedule ends up being the master's.

### The job filter (`clusd.c`)

*State.* Two line buffers and a pointer into one of them. *Correct if* every
job is written with the host it is listed under, and every host is written.

### Pid files and the socket of the master (`pidfile.c`, `evx_listen.c`, `main` in `master.c`, `servd.c`)

*State.* A file, its lock, its path; the port. *Hard.* Instances that start and
end at once: a file is unlinked between another's open and lock. *Correct if* the
file at the path has the pid of the instance that holds it, and always that of a
running master.

### The client (`xltop.c`, `curl_x.c`)

*State.* Tables of hosts, jobs, clusters and filesystems; each cluster's list of
jobs; each host's pointer to its job; a watcher per cluster and filesystem; the
rows of the last `/top`. *Operations.* Adding the entries at start, a poll of a
cluster, of a filesystem, of `/top`, drawing. *Hard.* The caches are filled by
different requests at different times; a poll frees jobs that hosts still point
to; a GET that fails leaves a poll with no answer. *Correct if* what is drawn is
from the last replies and was not freed.

### The screen of the client (`screen.c`, the end of `xltop.c`)

*State.* The list with the buffer its rows point into, the window on it, the
height of the terminal, the text of the status bar and when it was set, the
pending events. *Operations.* Keys, signals, polls, the refresh timer, which is
the only one that draws. *Hard.* Everybody else asks for a refresh by feeding the
timer's watcher, which is then cleared by hand; a GET of the list may fail after
the old one is gone. *Correct if* what is drawn is there and is current, and the
window and the status bar fit the list.

### The rest

Not modelled: see section 7 and the list of components in `PROJECT.json`.

## 2. Modules

| module | models | variables ↔ code |
|---|---|---|
| `FlowTree` | the flow tree | `tree` = hashed `x_node`s with `x_parent`, `x_child_list`, `x_nr_child`; `fake` = `j_fake`; `zombie` = active `j_zombie_w`; `nidHost` = `l_hash_table`; `ksum` = `k_hash_table` with one component of `k_sum` |
| `FlowLedger` | what the master promises, without pointers, timers and lazily made counters | |
| `FlowTreeProofs` | theorems about `FlowTree` and `TopWalk` | |
| `TopWalk` | the walk of GET /top over `FlowTree`, which it extends | none of its own |
| `KNode`, `KTicker` | rate of a k_node; the rate kept at the end of every tick | `knode` = the `k_node`; `now` = `ev_now`; `gained` is a history variable: what was reported without the negative reports |
| `KHeap` | `k_heap.c`, one turn of a loop per action | `h`, `count` = `h_k`, `h_count`; `n`, `i`, `k` = locals of the loops |
| `BotzConn` | one connection | `conn` = `botz_conn` with `botz_x` and watchers; `sent`, `fin`, `pos`, `got` = the socket seen from the client |
| `BotzAnswers` | what a client of a connection is owed: the answers to the requests of a stream that is read as a whole | none; it extends `BotzConn` and says what `Asked`, `Told` are |
| `BotzSession` | what a client of a connection sees: what it is told at any time was owed before, in order | |
| `BotzEntries` | what the paths of the HTTP server stand for | `entries` = `bl_entry_table` with `e_parent`, `e_ops`, `e_data`; `nodes` = the names in the `x_hash_table`s |
| `Servd` | the collector between Lustre and the master | `known` = `lxt_hash_table`; `ts` = the `l_hash_table`s; `ns`, `cur` = `nid_hash_table` and which of its `ns_time` are `now`; `tmp` = `tmp_list`; `pc`, `todo`, `reading` = where `clock_cb` is; `sched` = interval and offset of `clock_w`; `config` = `s_interval` and `s_offset` in the master |
| `Clusd` | `qhost_j_filter` | `buf`, `i`, `host` = `line`, `i`, `host`; `found` = `found_job` |
| `XlClient` | the caches of the client, between the master and the screen | `table`, `watched`, `fed` = `xl_hash_table[X_FS]` and `[X_CLUS]`, the entries with a started watcher, those with a fed event; `jobList` = the `c_job_list`s; `hJob`, `dangling` = `h_job` and whether what it points to is freed; `totals` = the fields of `xl_fs` |
| `Screen` | keys, signals, list and status bar of the client | `pending` = libev's pending watchers; `length`, `from`, `buf` = `top_k_length`, what `top_k` points into, `top_nb`; `start`, `delta` = `scroll_start`, `scroll_delta`; `bar`, `age` = `status_bar`, seconds since `status_bar_time` |
| `Pidfile` | pid files and the master's socket | `fd`, `lock`, `text` = what the kernel knows of each process and file; `pc` = where `main` is |
| `KNodeProofs` | theorems about `KHeap` and `KNode` | |
| `CollectorProofs` | theorems about `Servd` and `Clusd` | |
| `BotzConnProofs`, `BotzEntriesProofs`, `XlClientProofs`, `ScreenProofs`, `PidfileProofs` | theorems about the module of that name | |

`MC*` modules give constants their values.

Actions are named after the function they model. A part of a callback is an
action of its own only where something outside may act in between: the system
calls of `pidfile_create`, the files one round of `servd` reads. `KHeap` has
an action for each turn of a loop, so that the loops are checked and not
recited. `FlowTree` takes one line of a PUT body as a step: a body of one line
is a legal request, so every state between lines is a state between requests.

Abstractions that matter:

* Names are model values. Hosts, jobs and clusters have tables of their own
  in the code, so the sets are disjoint.
* `ksum` is one number per pair. The code keeps `NR_STATS` of them, treated
  alike.
* malloc may fail after the configuration if `AllocMayFail` is TRUE. A failed
  malloc of a job leaves the state alone; of a host, it leaves a job without
  hosts; of a k_node, it leaves that pair without one.
* A job made by `job_lookup` has any value in `fake`: the code does not clear
  the memory and only `clus_lookup` sets `j_fake`.
* Timers have no durations in `FlowTree`: an active timer may fire at any time.
  This allows more behaviours than the code has.
* `BotzConn` works with tokens: a request line or a header line, the end of a
  line, or one unit of a body. Handlers are a table from path to status and
  length; no handler of the program sets `r_close` or answers 204. Which error a
  request is refused with (501 for an unknown method, `botz.c:292`, or another) is left
  out: each is an answer without a body that closes the connection.
* `KNode` uses whole numbers, rounded toward zero, and a window in which a rate is
  halved by an empty tick. Floating point rounding is not modelled. Reports have any
  sign: `servd` sends a negative difference after a reset (`servd.c:289-290`). The
  clock, `ev_now`, is assumed not to go back.
* In `XlClient` the master is reduced to the job of each host and the status of
  each server; a reply is what a GET of them returns. A job's owner, title and
  number of hosts are left out: they are copied when the client first sees the
  job and not again (`xltop.c:288-294`), so a job that grows keeps its first
  number. Reading a freed job is shown as `Freed`. The cluster of a job is a constant,
  for the name of a job is `JOBID@CLUSTER`: the `list_move` at `xltop.c:296` keeps a job on
  the list of its cluster.
* `TopWalk` is a function of the state: a GET is handled in one callback. It says
  which k_nodes are offered; `KHeap` takes any sequence of offers.
* `BotzEntries` takes paths as sequences of names (`pathsep` drops empty ones) and
  names what a body shows. An entry is called by the names that lead to it. The
  `s_status` of a server is left to `Servd`: which answer a path gets does not depend
  on it.
* `Screen` takes pending callbacks in any order, which allows more than libev's
  priorities. `age` counts seconds up to five; the code compares with four.
* `Pidfile` assumes that the name the master binds has one address, as the default
  `0.0.0.0` has: `evx_listen_add_name` would take the next one.
* In `Servd`, a counter stands for one of the three of `NR_STATS`.

## 3. Runs

| run | instance | shows |
|---|---|---|
| `flow_tree` | 2 hosts (one in the lnet file, one found by the text of its nid), 2 clusters with idle jobs, 1 more job with another owner, 2 servers on different lnets, 2 nids; sums up to 2 | consistency, no dangling, conservation, stability of listings, answers of /top that are complete but for `Hidden` hosts, refinement of `FlowLedger`; empty jobs are freed |
| `rate` | 6 ticks of 2 units, updates of -6, -1, 0, 3, 8, up to 16 of each sign | lazy rates equal eager ones, and where a negative one depends on who looked; a rate is an average |
| `top_heap` | 7 k_nodes, two pairs equal, limit 4 | the greatest, sorted; loops end |
| `botz_conn` | 9 streams of 6 to 15 tokens, buffer of 4 tokens | one whole answer each, in order; nobody is left waiting |
| `botz_entries` | all paths of up to 3 names, also unknown ones, "." and ".."; 2 clusters, 2 servers, a filesystem; 2 jobs that come and go | the cache is transparent and keeps only what lasts |
| `servd` | 2 targets, 1 nid on both, 2 units of traffic, 1 fault, which may be a failed read, PUTs may get lost, 1 restart of the master | nothing counted twice; differences exact; status right; visible traffic is taken up; the schedule settles |
| `servd_zeros` | the same without fairness | **violated**: finding 1 |
| `clusd` | all inputs up to 5 lines, 2 hosts, 2 jobs | every job is written under its host, and idle for each host without one that another follows |
| `clusd_last_host` | the same | **violated**: finding 2 |
| `pidfile` | 3 instances, 4 files, either program | the file at the path names the instance that holds it; that of a running master is always there |
| `xl_client` | 2 hosts, 3 clusters (two names in one hash chain, one of them with interval zero), 4 jobs, 2 servers, 2 filesystems in one chain; GETs may fail | the caches agree with the last replies; when a freed job can be shown |
| `screen` | lists of up to 3 rows, terminals with room for no row, 1 and 2; 3 keys, signals or failures | nothing freed or stale is drawn, no refresh is lost, the window is full, the status bar settles |

### Why the bounds are enough

* `flow_tree`: a job must be able to lose its last host to another job, get one
  back before its timer fires, be freed and be made again in the other cluster, and a
  host must be able to cross clusters: two hosts, two idle jobs and one that is not do
  all of it. Two zombies at once need a second job; the theorems of section 5, which
  remove the bounds for most of the properties, cover them. Sums stop at 2, so that
  either both hosts or one of them in two jobs have had traffic; a third report adds
  no new shape of `ksum`. Every node, depth and owner is asked for in every state.
* `rate`: six ticks let a rate pass 0, 1 and more missed ticks in a row after
  a jump start and after a mix; 8 units in a tick is enough to be halved to 0
  within them. 6 lost in a tick make the rate negative with enough left to be halved
  twice; 1 lost is less than one per unit of time.
* `top_heap`: a heap of four has a node with two children, one with one and
  leaves; a walk of seven fills it, replaces in it and rejects.
* `botz_conn`: every stream is read in every division into pieces, so a buffer
  of four makes lines, headers and bodies straddle it. The streams have
  pipelining, a body that looks like requests, a length given twice, an Expect
  header, two requests in a row with one, a request with two, "Connection: close",
  errors, and a body too long for the buffer.
* `servd`: three rounds with a reset in between need two units of traffic and
  one fault. One restart of the master finds `clock_cb` at any of its steps; of the
  two schedules one has the interval and offset that servd starts with.
* `botz_entries`: a path is a directory, a node and a name below it at its longest;
  every such path is asked for with every method in every state, also after the job
  or host it names has come or gone. Two servers share a directory.
* `screen`: windows of no row, one and two over lists of up to three rows have
  every relation of list, window and scroll position. Three events put a failure or a
  resize between a key and the refresh it asked for; replies and refreshes are not
  bounded.
* `clusd`: the filter looks at one line and a flag, so five lines give every
  pair of successive transitions in both buffers.
* `xl_client`: two hosts let a job lose one and keep the other, lose its last
  and get one back, and cross clusters before either is polled. One of three
  clusters is alone in its chain and two share one, in either order.
* `pidfile`: at most one file is at the path and each instance has one open.

`CHECK_DEADLOCK FALSE` is used where the system really stops: a closed
connection, an answered query, a filter at the end of its input.

### Fairness

* `FlowTree!FairSpec`: an active timer of a job fires in the end. libev calls it
  after 300 s; the loop runs until the process ends. Messages are not fair:
  nobody has to send them.
* `BotzConn!FairSpec`: as long as the socket is readable or writable and the loop
  waits for that, callbacks go on. It is weak fairness of `IoCb` with the
  enabling condition spelled out. The client is only assumed to read what is
  written to it or go away; nothing makes it send.
* `Servd!FairSpec`: `clock_w` is periodic, and its callback goes on to its next part.
  For a PUT this is an assumption about the network and not something the code
  guarantees: `curl_x_put` sets no timeout (`curl_x.c:123-137`), so a PUT that neither
  gets an answer nor fails would stop the collector for good. Strong fairness of `StatusAnswered` says that not
  every status PUT that is ever made gets lost; `CatchesUp` does not need it. Lustre
  and restarts are not fair.
* `Screen!FairSpec`: the callbacks that are pending are called, and seconds go by:
  the refresh timer repeats every second, whatever else wakes the loop (strong
  fairness, because it is only possible between two turns). Keys, signals, replies and
  failures are not fair.
* `KHeap!FairSpec`: a loop goes on.

## 4. Findings

1. `nid_stats_read` passes `&err, &eof` to `n_buf_fill(nb, fd, &eof, &err)`
   (`servd.c:138`, `n_buf.h:15`). A read that fails is taken for zeros, which become
   the baseline; the next round then reports everything the file ever counted
   as new. Run `servd_zeros`.
2. The comment in `clusd.c:9-13` says that an idle host is written as a line of
   its own. The last host of the input is not, because the filter notices an
   idle host only at the next host line (`clusd.c:86-97`). Run `clusd_last_host`.

Smaller observations that no run is about:

* in the hazards of `PROJECT.json`, with a note: the uninitialised `j_fake`, the
  zombie timer restarted with no time left (`job.c:17`), `ev_timer_again` with a
  repeat of zero, the pid file that is unlinked between open and lock, the interval
  zero of the cluster NONE in the client;
* `bx_lookup` answers 404 to `job/J/..` and `job/J/.`, which the lookup of the job takes
  for names below it, while `clus/C/..` is the directory: hosts and jobs have no entry.
  GET of `host/H` and `job/J` is 200 with an empty body, whatever the method;
* the owner filter of `/top` sees jobs only, so it has no effect on a walk that starts
  at a host or stops above the jobs (`Owns` in `TopWalk` says when it has);
* the status bar can show a range of an earlier window for up to four seconds after a
  resize or a list that failed, and a message set in the turn of a scroll is
  overwritten before it is drawn (`xltop.c:887`): `BarSettles` says only that it ends
  up right;
* a negative rate depends on who looks: after a tick in which nobody did it decays
  (`x_node.c:341-343`), after one in which somebody did it is replaced by what was
  reported in that tick, be it nothing (`x_node.c:334-335`). `KTicker` states this
  exception, and `ImplementsTicker` that there is no other;
* a stats file that is still empty is taken for a failed read (`servd.c:138` again: at
  the end of the file `n_buf_fill` sets what the caller reads as `err`); nothing is
  lost by it (`ReadGivenUp`);
* a request that repeats its Expect header after the first was answered is told
  "100 Continue" twice (`botz.c:267-269`, `botz.c:613-616`): hence the hypothesis of
  `ContinueInPlace`;
* `curl_x.c:73` prints `curl_easy_strerror(rc)`, of the wrong variable; `send_stats`
  (`servd.c:505`) never frees `stats_buf`; case `b` of the options of `master.c` falls
  through to `c`; `evx_listen_add_name` takes the next address of a name when the
  first is in use.

Two weaknesses of the client are stated exactly by properties that hold: a freed job
is shown when a GET of its cluster fails or a host has left for another cluster
(`FreedOnlyIfUnlisted`, never otherwise), and of the names in one hash chain only the
first that was added gets a watcher (`OneWatchedPerChain`): later ones go in front of it
and find their `next` set.

## 5. Proofs

Each theorem is of the form `Spec => []Invariant`, or of an action property or a
refinement, for all values of the constants that satisfy the `ASSUME` of the module:
any names, any finite trees, any streams and paths, any sizes. "Needs malloc" is the
hypothesis `~AllocMayFail`, without which the property does not hold: see the hazards
at `x_node.c:248` and `clus.c:131`.

| module | theorem | states | needs malloc |
|---|---|---|---|
| `FlowTreeProofs` | `TypeCorrect` | `TypeOK` (in no run of its own: the properties below need more) | |
| | `TreeAlwaysConsistent` | `TreeConsistent` | |
| | `ListedAlwaysStays` | the action property `ListedStays` | |
| | `NoJobEverForgotten` | `NoJobForgotten` | yes |
| | `NothingEverDangles` | `NothingDangles` | yes |
| | `CountersStayReachable` | `KReachable`, what walks and `k_destroy` trust | yes |
| | `FlowTreeImplementsLedger` | `ImplementsLedger`, the refinement of `FlowLedger` | yes |
| | `TopAlwaysComplete` | `TopComplete` of `TopWalk` | yes |
| | `TrafficAlwaysConserved` | `TrafficConserved` | yes |
| `KNodeProofs` | `TypeCorrect`, `AlwaysHoldsGreatest`, `AlwaysSorted` | `TypeOK`, `HoldsGreatest`, `Sorted` of `KHeap` | |
| | `RateTypeCorrect`, `RateAlwaysAverage` | `RateTypeOK` (in no run of its own), `RateIsAverage` | |
| | `RateImplementsTicker` | `ImplementsTicker`, the refinement of `KTicker` | |
| `BotzConnProofs` | `TypeCorrect`, `AlwaysWatched` | `TypeOK`, `Watched` | |
| | `ContinueAlwaysInPlace` | `ContinueInPlace` | |
| | `TimeoutAlwaysSpares` | the action property `TimeoutSparesAnswers` | |
| | `CompleteNeverDropped` | the action property `NeverDropsComplete` | |
| | `SessionImplemented` | `ImplementsSession`, the refinement of `BotzSession` | |
| `BotzEntriesProofs` | `OnlyLastingEntriesEver`, `CacheAlwaysTransparent`, `DotDotAlwaysReturns` | `OnlyLastingEntries`, `CacheTransparent`, `DotDotReturns` | |
| `CollectorProofs` | `TypeCorrect`, `StatusAlwaysCounts` | `TypeOK`, `StatusCounts` | |
| | `OvercountsNever`, `DeltaAlwaysExact` | `NeverOvercounts`, `DeltaExact` | |
| | `FilterAlwaysRemembers`, `FilterAlwaysExact` | `FilterTypeOK` and `Remembers` (in no run of their own), `FilterExact` | |
| `XlClientProofs` | `OneAlwaysWatchedPerChain` | `OneWatchedPerChain`, and that a watcher stays | |
| | `FreedAlwaysUnlisted`, `ListedJobsAlwaysKept` | `FreedOnlyIfUnlisted`, `KeepsListedJobs` | |
| | `FsAlwaysShowsLastReply` | `FsShowsLastReply` | |
| `ScreenProofs` | `RowsAlwaysLive`, `ScreenAlwaysCurrent`, `WindowAlwaysFull` | `RowsLive`, `ScreenCurrent`, `WindowFull` | |
| `PidfileProofs` | `FileAlwaysNamesHolder`, `PidAlwaysAtPath` | `FileNamesHolder`, `PidAtPath` | |

Hardly any of these properties is inductive. What follows says what each proof adds.

### The flow tree

`TreeInv` is inductive: types, `LinksAgree` and `LevelsAgree` of the tree, idle jobs
are fake, and every zombie is a live job that is not fake. The last part is what makes
`x_destroy` safe: only a job is ever destroyed, never an idle one, so hosts always have
a job to be in. Lemmas say what `XInit`, `XSetParent` and `XDestroy` do to a tree that
is consistent, each counting children with the theorems about cardinalities; an action
is then a composition of them.

`KInv` adds that k_nodes are closed upwards on the provider side and under U:
`KUpdate` preserves it because `Path0 \X Path1` is a product of closed sets, and
`KDestroy` because, the pairs being closed, the recursion that starts at <<x, V>>
reaches all pairs of x. That is why `NothingDangles` needs `KReachable`. The refinement
maps each line of a PUT to one step of the ledger or a stutter and `ZombieFires` to
`Retire`; the pairs a freed job loses are exactly those whose total the ledger resets.

`TopComplete` needs one more fact, `JobsCharged`: where a job has a k_node, its cluster
has one, because `x_update` makes both and a job is never moved. A host does move and
keeps its k_nodes, so nothing of the kind holds between host and job: `Hidden` in
`TopWalk` says which k_nodes of hosts a walk cannot come to. The walk is unfolded one
level of each tree at a time; there are four levels and three.

`TrafficConserved` is an equation of sums. `SumFunctionOnSet` is defined by a choice of a
recursive function, and the first lemmas show that this function exists for every finite
set and adds one term at a time. With them a line of a PUT adds its number to one term
of a sum exactly when it adds it to the whole, and a freed job loses the whole and the
terms alike, and is no term of any other sum.

### The heap

`HeapInv` says between any two turns of any loop which cell the order may be wrong at:
above cell i while it rises, below it while it sinks, nowhere between. `Cells` is the
heap with the k_node in hand put where the loop would leave it, so that a turn is a swap
and what is held does not change. After `k_heap_order` has put a cell behind the heap it is no
greater than the cells behind it and no less than those before. Any `Rank` will do: ties are
allowed, and `Limit` may be zero.

### Rates

The specification of the ticker has no ticks that were missed, so the refinement maps a
k_node to what a reader would see of it now (`Seen`), and the passing of time, which
leaves the k_node as it is, to a step of the ticker. That step is the heart of the
proof: `OneTick` says that one more tick is missed exactly when the clock is in the
phase of ticks, and `FreshLater` that `k_freshen` after one more tick gives what
`k_freshen` before it gives, mixed once more. The two formulas for that, the first tick
with what is pending and the others at once by a power, meet in `DecayType`. A look
leaves what is seen as it is (`Touch`) because a k_node that is fresh stays so (`FreshTwice`)
and the time of its tick moves by whole ticks (`SamePhase`).

Negative rates are why the ticker has to know who looked: the first tick after a look
goes through `Mix`, which replaces a negative rate, every further one through `Decay`,
which halves it. `Looked` maps to that: no tick has ended since the last look.
`Average` is the invariant behind `RateIsAverage`: the rate over one tick, what is
pending, and the two together are each no more than what was gained, and their
negatives no more than what was lost (`Within`). All three are needed, because a rate
that is not positive is replaced by what is pending, and because the two may have
different signs. What was lost is `gained - sum`, so one history variable is enough. `Pow2` is a
recursive function; that it exists is proved by gluing together its finite parts.

### Connections

`ConnInv` is `TypeOK`, `Watched` and a fact about the timer: as long as the timer of the
accept runs, no request is ready and no response either. Each function of `botz.c` has a
lemma that says what it keeps, and `bc_io_cb` is followed along each of its ways out.
`Parse` is a loop, written as a recursive function of the tokens read; that it exists, and ends,
is proved by taking a least place where it would not.

`ContinueInPlace` needs `PlaceInv`, which relates the buffers to the stream and to all
that the client was told. The request buffer is the end of what was read. While no
response is ready, an Expect header pending or answered (never both) belongs to the
request being read: no end of a header lies between it and the place read up to, or
only a body is still to come. "100 Continue" is the last thing told only while no
response is ready, so the response header comes right after it. Writing moves units
from the buffers to the client and leaves their concatenation as it is. The
property has the hypothesis `~RepeatsExpect`, which the argument needs in one place:
a header line that sets `x_expect_100` after the answer to an earlier one.

`SessionImplemented` says that the pieces do not matter: a request read in any pieces,
behind others in the buffer or not, is answered as `BotzAnswers` answers it, which sees
the whole stream at once and knows nothing of buffers, flags or callbacks. What it owes
is defined from the back (the answer to the request that starts at i, then what is owed
from its end on), while the connection works from the front, so the argument starts with
`Skips(s, p, at, u)`: whatever comes after the first p tokens, what is owed is u followed by what
is owed from place `at` on. `SkipsOn` moves it over one request (`OwnGrows`: a request
that is whole stays as it is when more arrives); `AnswersGrow` says that what is owed is
only ever added to, except that the end of the stream cuts off the last request.

`SessionInv` is inductive. With u what was told or is in the output buffers: u starts what
is owed, and either its last answer closes the connection, or there is a place `at` with
`Skips(sent, pos, at, u)` where the connection stands. Between two exchanges that
is the place it has read up to. While it reads (`Reads`), `at` is where the request
started, and the flags are what `BotzAnswers` finds from there to the place read up to: the
path, the last Content-Length, whether a "Connection: close" came, whether an empty line
did. `TurnServes` carries this over one turn of the loop in `bc_io_cb`, `ParseServes` over
the loop. At its end the buffer is `Stuck`, with no whole line or not all of the body,
or the exchange is `Ready`: refused, or complete with the body in the buffer, which
`HandleServes` drops and so comes to the start of the next request. `WrittenWasDue` is why
a client is told only what was owed before the callback.

`CompleteNeverDropped` comes from the same invariant. A full buffer belongs to a connection
that is stuck, because an answer frees at least one token of it, and `StuckIsCut`
says that `BotzAnswers` owes nothing yet for a request that is cut there. So what was told is
all that is owed. This is also where "We may have left something behind in the request
buffer" (`botz.c:583`) matters: the callback looks at the buffer again after each answer.

### Entries

`EntriesInv` says that the table is the static one plus entries for names that are
never freed. A path of any length is walked by a recursive function of the
position; `CacheTransparent` compares two walks of the same path in step, which
differ only in who made an entry, and `DotDotReturns` a walk with the walk of the
path that has ".." and what it undoes left out: the table they carry is the same
by then, because what one lookup keeps the second finds.

### The collector

`StatusCounts` follows from types. `NeverOvercounts` needs `TrafficCovers`: for each nid,
what the master has added up, what servd has read and not sent, and the units in the
files above their baselines are together no more than its traffic. The unread units are
counted as a set of pairs (target, number of the unit), so that the argument works for
any number of targets. It is four inequalities and not one, because a term can vanish:
the unsent difference is negative after a reset, and a PUT that is lost or a restart of
the master drops one.

`DeltaExact` needs `DeltaInv`: a counter is read once per round, so that targets not yet
listed and nids not yet read still have the baseline of the round before, and
the difference of a nid so far is the net gain over those that were read.

### The filter

`FilterInv` says that the output is what is due for the lines so far, and that the
filter knows of them what the next one needs: `host` points to a line equal to the last
host line, `found_job` says whether a job came since, and with no current host that
last line is bogus or there is none. `AboveMore` and `AboveStays` say how the last host
line and its jobs change with a line more, for a line in any place, and
`FlattenMore` that what is due for it comes behind the rest. `FlattenSeq` of the
library is a recursive function: `FlatExists` and `FlatAgree` unfold it.

### The client

`ChainInv`: an entry is added once, and each chain has had its watcher since its first
name came. `CacheInv`: the list of a cluster is what its last reply listed, a host points to a
job on its cluster's list or to a freed one, and then the last reply of that job's cluster did
not have the host. `TotalsInv`: the fields of a filesystem are the fold of its last
reply. That the fold computes counts, sums and maxima for every finite reply is proved
by induction over the subsets of the reply, in the order the fold takes them.

### The screen

`ScreenInv` adds to the types what a refresh guarantees: while none is asked for and the
loop is not being left, the terminal shows the list, the window and the bar as they
are. `ev_clear_pending` in `screen_refresh_cb` is where this could go wrong; it keeps the
invariant because the callback has drawn by then what was fed.

### Pid files

`FileInv`: an instance past the lock holds the lock of the file it has open, one that
runs has its pid in it, one master at most is beyond `listen()`, and the file
a master has opened is at the path until that master unlinks it. The last two
support each other: another master could only unlink the file after binding the port.

### Assumptions

They are named in the module that declares the constants, and TLC evaluates them on each
run: nodes of different kinds are different (their hash tables are); trees, targets,
nids and servers are finite; paths and streams are finite sequences; values such as
`NoNode`, `NoJob` and `Absent` are none of the values they stand for the lack of; the schedule and
terminal sizes are some sets. The bounds that runs put on counters (`MaxSum`,
`MaxTraffic`, `MaxEvents`, ...) are any natural numbers, so they do not limit the theorems.

### Only model-checked

* Liveness: `EmptyJobReclaimed`, `EveryoneAnswered`, `CatchesUp`, `SettlesOnSchedule`,
  `BarSettles`, `Terminates`. Fairness and ENABLED are out of reach of the provers here.

Every invariant, action property and refinement that a passing run checks has a theorem.

## 6. Plan

Done: all modules of section 2, their runs, and the theorems above.

Left for later modelling, if at all: a zombie timer with durations (the restart at
`job.c:17`); a clock that is set back under `KNode`; `NBuf`, a request buffer with
start, end and size that implements the sequence `BotzConn` uses for it.

## 7. Not modelled

Parsing of options, configuration files, addresses and query strings; the text of
answers; the columns of the client and what it copies once from a reply; accepting
connections and socket flags (`evx_listen.c`); GET /_domains, which lists what the
configuration fixed; subscriptions (`sub.c`), which nothing creates; hash tables and lists
(`hash.c`, the vendored `list.h`), which are functions and sets in the modules; the
shell scripts.
