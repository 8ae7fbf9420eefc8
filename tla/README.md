# A formal model of disc_zmq

disc_zmq does discovery on top of ZeroMQ: nodes broadcast UDP datagrams to say
what they publish, subscribe to, offer and request, and connect their ZeroMQ
sockets to each other's endpoints. The repository holds three implementations of
the protocol (C++, C, Python) and an unrelated small network library. This
directory holds TLA+ modules that model the three nodes, what they write on the wire
and the data structures under them, TLC configurations that check the modules on small
instances, and TLAPS proofs of what holds for every instance. Paths below are relative to the repository's root, which
`PROJECT.json` calls `src/`.

    tlc -workers 2 -config pubsub_safety.cfg MCPubSub     model-check one run
    tlapm PubSub_proofs.tla                               check the proofs of a module

`PROJECT.json` lists the components, the runs, the mutants (for each property a
plausible bug that breaks it), the source lines of every definition, the findings,
the hazards and the theorems.


## 1. The system

### Components

| Component | Source | State it keeps | Operations |
|---|---|---|---|
| Topic table (`TopicsInfo`) | `cpp/topicsInfo.cc` | a map from topic names to addresses, flags (connected, advertised, subscribed, requested), callbacks, pending requests | setters and readers of each; `AddAdvAddress`, `RemoveAdvAddress`, `AddReq`, `DelReq` |
| C++ node, publish/subscribe | `cpp/discZmq.cc` | a table `topics`; PUB and SUB sockets; the broadcast socket; GUID and endpoint | constructor, destructor, `Advertise`, `UnAdvertise`, `Publish`, `Subscribe`, `UnSubscribe`, `RecvTopicUpdates`, `RecvDiscoveryUpdates` with ADV and SUB |
| C++ node, services | `cpp/discZmq.cc` | a table `topicsSrvs`; two DEALER sockets, `srvRequester` and `srvReplier` | `SrvAdvertise`, `SrvUnAdvertise`, `SrvRequest`, `SrvRequestAsync`, `SendPendingAsyncSrvCalls`, `RecvSrvRequest`, `RecvSrvReply`, ADV_SVC and SUB_SVC |
| One `SpinOnce` for both | `cpp/discZmq.cc:103-125` | the thread | send pending requests, then serve one socket of four, by priority |
| UDP broadcast socket | `cpp/sockets/socket.cc` | the kernel's receive buffer | `sendTo`, `recvFrom` |
| C++ wire format | `cpp/packet.cc` | a header, a body | `Pack`, `UnPack`, setters |
| Host address choice | `cpp/netUtils.cc` | none | `DetermineHost` |
| ZeroMQ wrappers | `cpp/zmq/*.hpp` | `zmsg`: the parts of a message | `zmsg`: push, wrap, unwrap, send, recv; the rest are vendored calls of libzmq |
| Command line tools | `cpp/tools/*.cc` | none | each a short program of calls on one node, which ends in `Spin` or in a key |
| C node | `c/src/dzmq/dzmq.c` | lists of topics and connections, one SUB and one PUB socket, a timer | `dzmq_init`, `advertise`, `subscribe`, `publish`, `dzmq_timer`, `spin_once`, `spin` |
| C lists | `c/src/dzmq/impl/{topic,connection}.c` | doubly linked lists with first and last pointers | append, remove, search, destroy |
| C wire format and helpers | `c/src/dzmq/impl/*.c` | none | serialise and parse headers, GUIDs, addresses, clock |
| Python node | `python/disc_zmq.py` | lists of publishers, subscribers, connections; a repeater thread | `advertise`, `subscribe`, `publish`, `spinOnce` |
| libnnet | `nnet/libnnet` | none | IP checksum, UDP frames, mDNS names |
| Tests, vendored gtest | `cpp/*_TEST.cc`, `cpp/test` | | |

### How they interact

The application and `SpinOnce` share one thread, and nothing in the C++ node is
locked: between two nodes there is concurrency, inside a node there are only
callbacks. A node talks to others in three ways.

* Broadcast datagrams. `Advertise` sends ADV with the node's GUID and endpoint;
  `Subscribe` sends SUB; whoever advertises the topic answers SUB with ADV. A node
  hears its own datagrams. `SrvAdvertise`, `SrvRequest` and `SrvRequestAsync` do the
  same with ADV_SVC and SUB_SVC.
* Publications. A node that hears ADV of a topic it subscribes to, and is not
  connected for, connects its SUB socket to the endpoint. Its SUB socket is also
  connected, `inproc`, to its own PUB socket from the start. (The C node keeps one list
  of connections for all topics; the Python node one entry for each topic and publisher,
  and an `inproc` endpoint for each publisher of its own.)
* Requests and replies. A node that hears ADV_SVC connects `srvRequester`, a DEALER
  socket, to the endpoint of `srvReplier`, another. DEALER sockets deal messages out
  to their peers in turn; nothing ties a reply to a request or to a requester.

### What is hard

* Order: nodes start, subscribe, advertise and withdraw in any order, and datagrams
  are lost, repeated and overtaken.
* Partial failure: a `connect` throws between two writes to the table; a broadcast
  throws after the table has changed; a process ends without telling anyone.
* Stale state: the connected flag and the addresses outlive what they describe.
* Blocking: `SrvRequest` spins and then waits 250 ms for *a* message; a send on a
  DEALER socket without a peer blocks the only thread.
* Delayed and misdirected messages: a late response is the next request's, a reply
  goes to whichever requester is next in turn.
* Priority: the poll in `SpinOnce` serves the subscriber first, `srvReplier` second,
  discovery third and `srvRequester` last. The C node looks at its timer once a spin, before the
  poll.
* Ends that nobody asked for: the C node's spin ends at the first 0 that `spin_once` returns,
  and assertions end its process; an exception ends the Python node's main thread and not the repeater.
* Two threads in the Python node, which share the list of publishers and the broadcast socket.
* Dialects: three programs write "the same" datagram, with different widths.

`hazards` in `PROJECT.json` gives each at its line with the properties that would
catch it going wrong.

### What makes each component correct

* Topic table: an address is listed once, and exactly while it has been added and
  not removed; requests leave in the order they came, through any mixture of calls.
* Discovery: what the table says is true of the sockets (no connected flag without a
  connection, no connection to itself, no address that is not a publisher's, no more
  connections than reasons for them); a subscriber ends up connected.
* Publish/subscribe: to the application it is a bus, whatever discovery does.
* Services: a request is served at most once and answered at most once; requests
  leave in order; only a node that offers a service answers; a send has a peer;
  an asynchronous request is answered in the end.
* C, Python: one connection for each reason to have one; a node hears itself; lost datagrams
  are made up for (Python); nothing but what a user can see ends the spin (C).
* Wire formats, `zmsg`, lists, libnnet: what is read is what was written, and where it is not, exactly
  when.


## 2. Modules

| Module | What it is |
|---|---|
| `TopicsInfo` | the topic table: one operator per method, no variables |
| `TopicsInfoApi` | one table under any sequence of calls |
| `UdpBroadcast` | what a `sendTo` and a `recvFrom` do to the receive buffers |
| `PubSub` | C++ nodes that discover, publish and subscribe |
| `TopicBus` | what the application sees of it: the abstract specification of `PubSub` and of `CNode` |
| `Services` | C++ nodes that discover, request and reply |
| `ServiceCalls` | the life of a request: the abstract specification of `Services` |
| `CppNode` | `PubSub` and `Services` in one thread, with one `SpinOnce`, running a program |
| `CNode` | nodes of the C library |
| `PyNode` | nodes of the Python module, with their two threads |
| `Codecs` | discovery datagrams byte for byte, written and read by each of the three nodes |
| `CLists` | the linked lists of the C node, cell by cell |
| `ZMsg` | multipart messages of `zmsg.hpp` |
| `HostAddress` | the address each node chooses on one machine |
| `Nnet` | libnnet: IP headers, mDNS queries, the reception of frames |
| `MCData`, `MCPubSub`, `MCServices`, `MCCppNode`, `MCCNode`, `MCPyNode` | instances for TLC |
| `WireParts` | `Codecs` and `ZMsg` as instances, and their properties by name |
| `NetworkParts` | `HostAddress` and `Nnet` as instances, and their properties by name |
| `TopicsInfo_proofs` | lemmas about the operators of the table |
| `PubSub_proofs`, `Services_proofs`, `CppNode_proofs`, `CNode_proofs`, `PyNode_proofs` | theorems about those modules |
| `Data_proofs` | theorems about `TopicsInfoApi`, `CLists`, `ZMsg` and `Codecs` |
| `Network_proofs` | theorems about `HostAddress` and `Nnet` |

`PubSub` and `Services` both extend `TopicsInfo` and `UdpBroadcast`; `CppNode` composes the two by
`INSTANCE`, and `CNode` and `PyNode` extend `UdpBroadcast`. An operator
whose comment starts with "Mutant of" is a wrong version of its namesake; no
specification uses it, and replacing the right one by it must break a property.

### TopicsInfo, TopicsInfoApi

A table is a function whose domain is the set of known topics. The C++ readers return
a result through a reference and `false` for an unknown topic; here an unknown
topic reads like a fresh entry, since every caller treats the two alike. Writers insert a
fresh entry first, as `Set*` and `Add*` do. `RemoveAdvAddress` drops the whole entry
with its last address; `Without`, what `std::remove` leaves of a list, is a recursive function, so that
`Data_proofs` can say what it computes. `TopicsInfoApi` keeps beside the table the addresses that ought
to be in it, and the requests handed out, to state what the table must be.

### UdpBroadcast

Each node's receive buffer is a set, so datagrams overtake each other. Equal
datagrams that wait at the same time merge; handling an ADV or SUB twice in a row has no
effect that handling it once lacks, except one more answer or one more attempt to
connect, and `"dup"` in `Faults` lets a datagram be received again at any later time. `"loss"` covers a datagram the network
drops, a `sendTo` that throws (both `Subscribe` and `SendAdvertiseMsg` have changed
the table by then and go on), and a full buffer. `InboxCap` bounds a buffer;
beyond it datagrams are lost, as they are in the kernel.

### PubSub

| Variable | Code |
|---|---|
| `status` | has the process started, has it ended |
| `topics` | `Node::topics` |
| `filters` | the subscriptions inside the SUB socket, counted as ZeroMQ counts them |
| `conns` | the pipes from the SUB socket to each publisher |
| `inbox` | the broadcast socket's buffer |
| `pipe` | publications between a PUB and a SUB socket |
| `called` | the callback run by the last step, an observer for `TopicBus` |

Each method of `Node` and each branch of `DispatchDiscoveryMsg` is one action; the poll in
`SpinOnce` chooses among `RecvTopicUpdates` and `RecvDiscoveryUpdates`. Decisions
worth knowing:

* The constructor makes a fresh GUID and a fresh endpoint, so one model value stands for a
  run of a process, its GUID and its endpoint. A process that restarts is another node.
* The socket served is any one with a message, although the code prefers the
  subscriber: a publication that is in `pipe` may still be on the wire when the
  node polls. Only liveness needs the priority, see `CppNode` and section 4.
* A callback runs at the end of `RecvTopicUpdates`, when the node's state is
  consistent, so what it calls on its node is a later action of the application.
* A pipe that is still connecting, or is at its high-water mark, loses messages. `Publish`
  therefore delivers to any subset of the pipes of the subscribers that match.
* ZeroMQ filters are prefixes (`PrefixOf`), and a message may be in the pipe when
  `UnSubscribe` is called: the check of the `subscribed` flag in `RecvTopicUpdates`
  is what protects the application.
* A second `connect` to an endpoint opens a second pipe in older versions of libzmq
  and none in newer ones: `SingleConnect` selects, and both are checked.
* `Publish` passes the payload through `c_str()`: `CStr` maps a payload to what is left.
* A `connect` that throws is the second disjunct of `DispatchAdv` under `"connect" \in Faults`.

### Services

`pc` says what the thread of a node is doing: `"app"` between calls, `"find"` in the
retry loop of `SrvRequest`, `"await"` in its poll for the response, `"spin"` in
`SpinOnce`, `"reply"` in `RecvSrvRequest` with a response to send. The call in
progress, with its retries, is `call`; the response to send is `reply`. `requests` and
`replies` are the pipes between DEALER sockets.

* `SrvRequest` is a loop: `Retry` sends SUB_SVC and runs one whole `SpinOnce`, in which
  the node may send other pending requests, serve others or hear the replier;
  `SendRequest` sends to *any* peer; `TakeResponse` takes *any* message for
  the response; `Timeout` and `GiveUp` return -1.
* Where the code sends on a DEALER socket, the peer is chosen freely: the order in
  which DEALER goes round its peers is not visible to the node.
* `SendReply` needs a connected requester. Without one the thread stays at
  `"reply"`, as `send` does.
* Callbacks run at the end of `RecvSrvReply`, as in `PubSub`, and the callback of a service,
  which runs inside `RecvSrvRequest`, only computes its response. What a callback calls on
  its own node is a later step from `"app"`; a callback that calls its node in the middle of
  a `SrvRequest` of the same node, which nests calls, is not modelled.
* Requests are numbered, and the response to a request carries its number, so that a
  property can tell whose response it is. The code has no such number.
* `outcome` is the callback or return value of the last step, an observer.

`TopicBus` and `ServiceCalls` are written without looking at discovery or sockets;
`ImplementsBus` and `ImplementsCalls` are the refinement mappings. The first reads the
bus off the tables and pipes; the second reads the phase of each request off the
place that holds it (table, call, pipe, reply).


### CppNode

`script` is what is left of the program of each node: `publisher`, `subscriber`, `requester` and `replier`
are the main functions of `cpp/tools`, as sequences of calls. `Call` makes the next call,
`BlockingCall` goes on with a `SrvRequest`, `Serve` is a `SpinOnce` that finds a message on a given
socket, `SpinAlone` what a `SpinOnce` does before or without one. Each is a step of `PubSub` or of
`Services` that leaves the other's variables alone, so the two modules are not stated again (`TopicsArePubSub` says so of
topics: a process is unborn, up or gone by `running` and `script`). A program at
`"Spin"` spins for ever; one at `"getchar"` may end. `Sockets` lists the four sockets in the order in which
`SpinOnce` looks at them. `Next` may serve any of those with a message, because a message may still be on
its way; `Thread`, which fairness is about, serves the first.

### CNode

| Variable | Code |
|---|---|
| `published`, `subscribed`, `connections` | the lists; `published` is kept after the end of a process, for the properties |
| `pc` | before the timer check, in the poll, or out of `dzmq_spin` |
| `timer`, `elapsed`, `late` | is a timer set, is its period over, how many events were served since |
| `leftover` | the data part of a message is still unread |
| `trouble` | a call of the system has failed or a foreign datagram was sent; an observer |

* A message has three parts. Without a subscriber for its topic `spin_once` returns 0 before it
  reads the last part (`Unread`): `dzmq_spin` ends, and in a program that spins again the part
  is read for a topic and fails an assertion (`AbortOnMessage`).
* `timing.c` hands `clock_gettime` the address of its own parameter, so outside Mac OS the time is
  undefined. `TimeIsUp` is then any Boolean.
* `header.c` copies the name without the NUL behind it: a node reads the name and whatever the stack holds
  after it. `ReadAs` is the choice among the names that begin with the one sent, and none.
* Datagrams of C++ nodes and an ADV with an address that is not `tcp://` come as `Foreign`: the first
  aborts or is unknown, which `Codecs` shows byte for byte; the second ends the spin.
* `TopicBus` is the same abstract specification as for `PubSub`.

### PyNode

The main thread makes one call or serves one event at a time; `unsaid` is the point in `advertise` at
which the publisher is in the list and not yet announced, where the repeater may come first. `repeater`
and `walk` are the second thread, one datagram at a time. An exception out of `spin` ends the main thread and
leaves the repeater and the sockets: such a node goes on advertising. An interrupt cancels the
timer if there is one; while the repeater walks there is none, and it arms the next (`Interrupt`). `spinOnce`
catches what discovery raises and nothing else. A node may run the C library instead
(`library`): its publications have three parts, a Python node's have two, and the reader wants three.

### The modules about data

`Codecs` has the three writers and the three readers, with the asserts, exceptions and reads
past the end that each meets. A C node takes 512 bytes of a datagram and copies the topic into a buffer on its stack
without a NUL (`header.c:45`, `dzmq.c:346`): what it reads as a string is the topic and then whatever the stack shows up to
the next NUL, a member of `Leftover`, or the type and flags that lie behind a full buffer. A length beyond a buffer
overruns it, which ends the process or does not (`Overruns`). A Python node slices and has neither. `CLists` has cells, `next`, `prev`, the pointers `first` and `last` as the code
leaves them, and the set `live` of cells that were not freed; a use of a freed cell is recorded and
nothing is modelled behind it. `ZMsg` has the textual form of UUIDs that `send` and `recv` rewrite,
and the envelope. `HostAddress` puts the three choices on one machine beside each other: the address a node gives to others, and the host and
port it broadcasts to. `DZMQ_IP` is read by C++ and Python, `DZMQ_BCAST_HOST` and `DZMQ_BCAST_PORT` by Python alone; each
may be unset, empty or set. `Nnet` holds integers in the
byte order of the machine, so that every swap is where the code has it. `WireParts` and `NetworkParts` give
each its variables and name the assumptions of the theorems, `WireAssumption` and `NetworkAssumption`, which TLC
evaluates on the values of the run. `MCData` runs these and `TopicsInfoApi` in one run: `part` is chosen by the first step, and the others stay as they were.


## 3. What each run checks

Bounds are constants of the instances: number of nodes and topics, `InboxCap`, `HWM`,
`MaxFilters`, `MaxRetries`, `MaxRequest`, `MaxReq`, `MaxList`, `MaxCells`, `MaxParts`. Sizes are
distinct states.

| Run | Instance | Properties, and what they show |
|---|---|---|
| `data` (455k) | topic table: 2 topics, 2 addresses, 2 requests. Datagrams: topics of 1 to 512 letters, addresses of 13 to 267, a stack that is clean or holds three letters. Lists: 2 keys, 5 cells. Frames: queries of 0 to 453 letters, frames of others. Messages: 2 of 9 parts. Hosts: up to 3 of 8 addresses, 3 values of each variable of the environment | see below |
| `pubsub_safety` (339k) | 2 nodes, 2 topics, all faults, double pipes; n1 publishes what it subscribes to, n2 has one endpoint for two topics | `NoSelfLink`, `ConnectedHasLink`, `AddressesAreGenuine`, `PipesAreAccounted`: what the table says is true of the sockets |
| `pubsub_refine` (30k) | 2 nodes, 2 topics with one name a prefix of the other, 2 payloads, 2 callbacks, 2 messages a pipe, 2 filters a topic | `ImplementsBus`; `SubscriptionIsServed`: a subscribed topic has a callback and a filter |
| `services_calls` (376k) | 1 requester of 2 services at 2 repliers; repeated datagrams | `NoSecondCopy`, `AsyncInOrder`, `OnlyAdvertisersReply` |
| `services_shared` (91k) | 2 requesters, one blocking with a retry, of 1 replier that may withdraw; connects that throw, exits | `ImplementsCalls`, retries included; `ConnectedHasLink`: a send has a peer |
| `node_live` (13k) | whole C++ nodes, four pairs of programs: subscriber and publisher that hears itself; two subscribers of which one advertises; blocking requester and replier that calls itself; an asynchronous requester and a replier that also subscribe, advertise and publish | `DiscoverySettles`, `AsyncRequestsAreAnswered`, `ThreadsGoOn` under `FairSpec`; `NoSelfLink` for both halves at once; `TopicsArePubSub`: each step of a node is one of `PubSub` or leaves it alone |
| `cnode` (325k) | 2 C nodes, 2 topics with one name a prefix of the other, timers, one node with a clock that works; repeated and foreign datagrams, failing calls, exits | `OnePipePerConnection`; `StopsOnLongerNameOnly`: what ends a spin or a process; `TimerWaitsForOneEvent`; `ImplementsBus` |
| `pynode` (76k) | 2 nodes that advertise a topic, one subscribes; the other runs Python or C; loss, failing sends and connects, exits | `OnePerTopicAndPublisher`, `OwnTopicsAreConnected`; `DiscoverySurvivesLoss` under `FairSpec` |
| `pubsub_every_publisher`, `pubsub_connected`, `services_response`, `pynode_spin` | no faults | the findings of section 5 |

The properties of `data` say when each conversion is right and exactly when it is not:

* `AddressesAreThosePresent`, `RequestsInOrder`: the address list is a set, through erasure and re-creation of
  entries; each queue is first in, first out.
* `DialectIsRead`: C++ reads C++, and C and Python read each other, at every length: the type and the address as
  they were sent, and the topic, to which a C node adds what its stack shows behind it (so it reads the topic that was
  sent only if a NUL happens to follow). Between C and Python the
  GUID comes out byte-reversed; a NUL in a topic spoils the topic of a C++ datagram, and its address too
  unless the topic is the longer of the two (it may then hold, behind the NUL, the address with its length).
* `DialectsNeverMix`: C++ writes two bytes of topic length and two of flags where the other two and `README.md:10-18`
  have one and sixteen. A C++ node fails on every datagram of the others. On a C++ SUB with a topic below 256 letters
  the others fail; of other C++ datagrams they take a letter of the topic for the type, unless the topic has a multiple of 256
  letters. Then the length byte is 0 and the type is the high byte of the length: a Python node gets an empty topic, a C
  node the name that its stack holds from before, and at 512 letters it takes the datagram for a SUB to it.
* `ListHoldsItsCells`, `OnlyLostEndsAreMisused`: the lists are right until an end of one is removed, which leaves
  `first` or `last` at freed memory; `destroy` of a list that never held a cell reads a null pointer.
* `ChecksumFailsOnSecondCarryOnly`: the carry is added once, and only when that carries again is the checksum
  wrong. `QueryIsUnderstood`: a query gets through to the code that answers and is understood; its frame fits the 512 bytes of the buffer exactly
  up to 452 bytes of name, so that names of 453 to 472, which the code lets through, are written past its end; a machine
  also answers to prefixes and extensions of its name, because `nnet_streq` stops at the shorter end.
* `PartsSurvive`, `UnwrapUndoesWrap`: parts arrive unchanged but for 33 characters that begin with @; `unwrap`
  takes an empty first part for a delimiter.
* `BestAddressIsChosen`: the search of the interfaces finds a public address if there is one, in
  whatever order. `CAndPythonShareANetwork`: when those two nodes of one machine give out one address, and broadcast
  to one host and port. With `DZMQ_BCAST_HOST` or `DZMQ_BCAST_PORT` set to anything else they do not.

Some of these are about calls that no node of the repository makes: `RemoveAdvAddress`, `remove` and `destroy` of the lists,
and `unwrap` have no caller outside the tests. What is checked there is what the functions promise to a user.

`OnePerTopicAndPublisher` and `DiscoverySurvivesLoss` say "connected" of an entry in `sub_connections`, as the code does. The entry
is made before the connect (`disc_zmq.py:345`), and when that raises it stands all the same: the model takes that
step, the node never tries again, and no property says that it should find the publisher.

Why these bounds are enough to be of use: two nodes are the smallest system in which a
node hears both itself and another; two topics at one endpoint give shared pipes and
prefix filters; three nodes appear where the question needs them (two repliers
for misdirected requests, two requesters for misdirected responses, two publishers).
Two requests are needed for one to overtake, be taken for or be swapped with another.
One retry gives a blocking call that has found nobody, one that finds a replier in its own spin,
and one that gives up; more retries repeat the same step. `InboxCap = 1` forces
overflow, which is loss; `node_live` uses buffers that hold every datagram the instance can have, and `pynode`,
where a full buffer is one more loss, three. In
`pubsub_safety` `HWM` is 0, so nothing is published: publications touch no table
and no connection, as the lemma `PublishStep` in `PubSub_proofs` shows. Five cells are enough to remove two
neighbours from the middle of a list and one end, and to append after that. The lengths in `data` lie on both sides of one byte
(255, 256) and of the limits of the code.
Every fault that discovery meets is in some run. Deadlock is not checked (`CHECK_DEADLOCK
FALSE`) because each system may stop: programs end, bounds run out, processes exit. That no thread
is stuck is `ThreadsGoOn`.


## 4. Fairness

* `CppNode`: `FairSpec` is weak fairness of each node's `Thread`, that is, every process gets the processor. A
  `Thread` step makes the next call, or spins with the priorities of `cpp/discZmq.cc:117-124`: the subscriber
  first, then `srvReplier`, then discovery, then `srvRequester`. No fairness is assumed for a socket, a datagram
  or a response: that each gets its turn is what the properties show. They hold because the
  programs publish a finite number of messages, as the tool does (`num`). A publisher that outruns the spin starves discovery
  and replies for good; that is a limit of the code which the run does not hide but does not reach.
* The run leaves out loss and failing connects: SUB and ADV are sent once in C++, so one loss is
  enough for a subscriber never to be connected. An exit (of the publisher, by a key) is in.
  `AsyncRequestsAreAnswered` and `ThreadsGoOn` claim nothing once a process has ended:
  `RecvSrvRequest` blocks in `send` if its only requester is gone.
* There is a single requester in each program: with two, `srvReplier` may give the response of one to
  the other, and `AsyncRequestsAreAnswered` is false of the code.
* `PyNode`: weak fairness of the end of `advertise`, of the repeater thread and of the service of each
  ADV by `spin`; strong fairness that a datagram repeated for ever is heard some time, without which loss
  could be total. No fairness for the application, exits, or failing calls.
* `PubSub`, `Services` and `CNode` are checked for safety and refinement only. In `CNode` nothing repeats a
  datagram, so its discovery has the same limit as the C++ node's.


## 5. Findings

* `pubsub_every_publisher` (`cpp/discZmq.cc:569`). A subscriber connects only while the topic is
  not connected yet. With two publishers of a topic it connects to the one it hears first, and
  the other's messages never reach it, although the comment on `Subscribe`
  (`cpp/discZmq.cc:218`) speaks of the nodes, plural, that publish on the topic.
* `pubsub_connected` (`cpp/topicsInfo.cc:86`). `Connected` is documented as being connected to a
  node that advertises the topic (`cpp/topicsInfo.hh:112`). Nothing clears the flag: not
  `UnAdvertise`, which tells nobody, not the end of the publisher. Together with the first
  finding, a subscriber does not come back to a publisher that restarts.
* `services_response` (`cpp/discZmq.cc:311`). `SrvRequest` returns whatever message comes next.
  The counterexample makes an asynchronous and then a blocking request, and the blocking
  one returns the response of the asynchronous one. After a timeout the same happens to a
  late response.
* `pynode_spin` (`python/disc_zmq.py:379`). `publish` sends two parts (`:253`) and `spinOnce` unpacks three, so a
  Python subscriber raises `ValueError` at the first message of a Python publisher and its main thread
  ends, in what the class calls a basic pub/sub system with discovery (`:47`). With a publisher of the C library
  it works.

The limits that passing properties state (dialects, GUID order, removed ends of lists, the second carry, prefixes of
names, the end of the C node's spin) are in section 3 and, at their lines, among the hazards.


## 6. Proofs

TLAPS proves the following for every set of nodes, topics and callbacks, every assignment of
publishers, subscribers, repliers and requesters, every set of faults and every bound; for data, for every topic,
address, key, part, interface and name. The proofs use the assumptions the modules name: `NULL` is no callback,
`CStr` maps payloads to payloads, a name begins with itself, requests are numbered from one, bounds are natural
numbers, and those of `WireParts` and `NetworkParts`, see below. Three theorems assume more, in their statements, and
say so below. `PROJECT.json` lists the theorems. The argument is the same everywhere: an inductive invariant (`IInv`;
for data `ListInv`, `MsgInv`, `CodecInv`, `HostInv`, `NnetInv`), a lemma for each action or kind of action, and the
theorem that it holds in every reachable state, from which the rest follow.

Every safety property that a passing run checks is also a theorem. What is left to TLC alone is liveness.

### The topic table: `TopicsInfo_proofs`, `Data_proofs`

`TopicsInfo_proofs` has lemmas about the table's operators: what each returns,
that it keeps a table a table, and which fields of which topics it leaves alone.
`AddAdvAddressKeepsDistinct` and `DelReqFacts` are of interest by themselves.

`Data_proofs`, of `TopicsInfoApi`: `Spec => []TypeOK`, `[]AddressesAreThosePresent`, `[]RequestsInOrder`, for lists and
queues of every length. What `RemoveAdvAddress` leaves of a list is given by recursion on its length (`Kept`), and
`WithoutFacts`, that it is exactly the rest and still without repetition, needs induction on it. The library's
induction theorems take an operator and cannot be used here, so `AllNumbers` derives induction for a *set* of numbers
from the least number outside it. The invariant says of lists that they hold each present address once
(`ListsAreExact`) and of queues that what was handed out, followed by what waits, is in
the order it was made (`QueuesAreSorted`); the property is the first half of that, and not inductive without the second.

### C++ publish/subscribe: `PubSub_proofs`

`Spec => []TypeOK`, `[]NoSelfLink`, `[]ConnectedHasLink`,
`[]AddressesAreGenuine`. None of the three safety invariants is inductive. An ADV is in
flight before its address is in a table, and the GUID is compared with the node's while the
address is connected to. The missing part is `AdvertisementsAreGenuine`: every ADV in a
buffer carries the GUID and the endpoint of one process, which did start and which has the topic
in its table as long as it runs. `IInv` is the conjunction. Only one step can
connect; its branch is `ConnectingStep`. The other steps fall under two
lemmas, `LinksUntouched` (no flag, no address, no pipe changes) and `GenuineStep` (whatever is new is genuine).

On top of `IInv`:

* `[]SubscriptionIsServed`.
* `[]PipesAreAccounted`, assuming that there are finitely many topics, since it counts them. A step that opens a pipe adds
  the topic it connects to the set that is counted, where it was not before (`AccountsGrow`); no other step
  opens a pipe or takes a topic out.
* `Spec => ImplementsBus`, assuming `SingleConnect`. The refinement maps the subscription of a topic to its
  callback or `NULL`, and what a node offers to the topics its table marks as its own. Discovery leaves both alone; `Start`, the
  end of a process and each call are steps of the bus or stutter. The bus delivers a publication to a
  reader once, so it needs `OnePipePerPublisher`, which is where the assumption enters: with a libzmq that
  opens a second pipe for a second connect the theorem is not claimed.

### C++ services: `Services_proofs`

`Spec => []TypeOK`, `[]NoSelfLink`, `[]ConnectedHasLink`. The first needs
`ControlInv`: at the points of its code where the thread uses a call or a reply, there is one; the types of
messages sent depend on it. The others need `AdvertisedBySender`. Each action has a lemma that
shows the four parts of `IInv` one by one. `ConnectedHasLink` is what keeps a requester from
blocking: both places that send a request look at the connected flag and nothing else.

The second half of the module views a state as *places* that hold request numbers in sequences (`Held`): the queue of a
service at a node, the call in progress, the pipe of requests between two nodes, the reply in hand, the pipe of
replies. A step of the code then does one of four things to the places: it empties some (`Empties`),
takes the head off one (`LosesHead`), moves the head of one to the end of another (`MovesHead`) or appends a new
number to one (`Makes`). Each action gets a lemma that says which, and the results follow from that alone.

* `HeldOnce`, `[]NoSecondCopy`: a number is held at one place at most, and only numbers already made are held
  (`HeldInv`). The four effects preserve it.
* `[]AsyncInOrder`: the inductive form compares what waits for a service with what is on its way for it. It holds for
  services that the node never calls with `SrvRequest`, and needs `CallsAreSync`, that the call in progress
  is one of the application's.
* `[]OnlyAdvertisersReply`: from `OnlyRepliersAdvertise`, and from the check in `RecvSrvRequest` that makes a reply.
* `Spec => ImplementsCalls`: the phase of a request is the level of the place that holds it, and "over" when no
  place does (`PhaseIs`), so a move of a head is a step of `ServiceCalls` from one phase to the next.

### Whole C++ nodes: `CppNode_proofs`

`Spec => []NoSelfLink`, `Spec => TopicsArePubSub`, and what follows from them. `CppNode` has two kinds of steps. A
step for topics is a step of `PubSub`, and one for services a step of `Services`; what has to be shown is that it
leaves the other alone. For `PubSub` that is a stutter. `Services` also sees the thread, which goes to `"spin"` and back
while a publication is served: `Aside` is such a step, and keeps everything proved of services. Each disjunct of
`Next` has a lemma (`StartIs`, `CallIs`, `AloneIs`, `ServeIs`, `ExitIs`); `EveryStep` joins them. `PubSub`
starts and ends processes, a whole node follows its program: `PubSub` sees in `running` and `script` who is
unborn, up or gone, so `ProgramsOK`, that programs stay sequences of calls, is needed beside it. `Fresh`
is what `Init` says of tables and sockets, without saying who runs, which a composition needs by itself. With the refinement, the theorems of `PubSub_proofs` and `Services_proofs` hold of whole nodes: they are
instantiated, after a proof that their assumptions hold of the composition, in `TopicsStaySafe`, `TopicsImplementBus`,
`ServicesStaySafe` and `ServicesImplementCalls`. `TopicsImplementBus` assumes `SingleConnect`, as `PubSub`'s does.

### C: `CNode_proofs`

`Spec => []TypeOK`, `[]OnePipePerConnection`, `[]StopsOnLongerNameOnly`, `[]TimerWaitsForOneEvent`, and
`Spec => ImplementsBus`, here without an assumption on libzmq: `IInv` holds that a node has one pipe for each address in its list.
What had to be added to the properties:

* for connections, `AdvertisementsAreGenuine`, as in `PubSub`;
* for the ends of a spin, `MessagesWereFiltered`, that what waits in a pipe has passed one of the reader's filters and
  is of a topic the sender published, and `CallsAreTheApplications`, that no foreign datagram waits while there
  was no `trouble`. Then a message without a subscriber is of a longer name than one subscribed to;
* for the timer, `TimerIsCheckedFirst`: when a spin gets to its poll with a timer that is armed, no event has
  passed since it became due.

### Python: `PyNode_proofs`

`Spec => []TypeOK`, `[]OnePerTopicAndPublisher`, `[]OwnTopicsAreConnected`. The type of `walk`, the index at which
the repeater reads the shared list, needs `ThreadsKeepToTheList`. `OwnTopicsAreConnected` speaks of moments
at which the main thread is free; `OwnTopicsAreConnectedOrUnsaid` adds the moment between the two
halves of `advertise`, at which a topic may be in the list and not connected, and then it is the one in `unsaid`. An exception there
ends the main thread, which the property does not speak of.

### C lists: `Data_proofs`

`ListSpec => []ListHoldsItsCells`, `[]OnlyLostEndsAreMisused`, for any keys and any number of cells. The invariant
speaks of neighbours (`Linked`): the `next` and `prev` of each cell are the cells beside it in the order of their
allocation, `first` and `last` are the two ends. `InOrder` adds that the live cells are those of the
list. `append` and `remove` change the pointers of neighbours only, and `remove` keeps them right unless the cell is
at an end, which the code does not look at. What a walk from `first` meets follows by induction on its
steps (`VisitedIs`: `Least` gives the first step that would differ from `Met`), and so does what a search finds and what
`destroy` frees.

### Multipart messages: `Data_proofs`

`Msg!Spec => []PartsSurvive`, `[]UnwrapUndoesWrap`, for parts of any length without a NUL (they are C strings) and
messages of any number of parts. `MsgInv` says of a message on its way that each of its frames is what `send`
makes of that part. What remains is about one part, printed or not: `encode_uuid` and `decode_uuid` undo
each other on every pair of hexadecimal digits, and with other characters the 33 that arrive are capital digits.

### Discovery datagrams: `Data_proofs`

`Codec!Spec => []DialectIsRead`, `[]DialectsNeverMix`. `CodecInv` keeps what was sent and who made what of it. Each
writer's datagram is a concatenation of fields (`Datagram`); `Layout` says at which index each byte of each field is,
and `IsLong` and `IsShort` are what follows for the two dialects. Then each reader is a few lemmas: `LongIsRead`,
`ShortIsRead` for its own dialect, `LongIsMisread` and `ShortIsRead` for the other. `NullSpoilsAddress` follows what a
C++ reader takes for the length of the address when a NUL has cut the topic by one, two or more bytes.

The theorems are about the messages of `MessagesFit`, and each of its conditions is one of the code or is needed:

* a topic is not empty, and its length can be written: below 2^16 in C++, whose `topicLength` has two bytes, up to 193
  in C, as `DZMQ_MAX_TOPIC_LENGTH` allows, and up to 192 in Python, whose assertion allows no more;
* an address has no NUL and at most 267 bytes, as `DZMQ_MAX_ADDR_LENGTH` and `ADDRESS_MAXLENGTH` allow;
* topics of C and Python nodes are without the bytes 0 and 1. A C string has no 0. A first letter of 1 would be
  the high byte of a topic length of 256 to 511 to a C++ reader, which the datagram may just have; with every
  letter from 2 on it has not;
* `Leftover` is any set of strings that the stack of a C node may show, and has one at least. Nothing is said of which.

A datagram of more than 65507 bytes is not sent, and C and Python nodes see the first 512 of a long one (`ReceivedFacts`):
their own always fit, a long C++ one is cut, and `LongIsReceived` is `Layout` for what is left. `BothAreShown` and `RestFacts`
say what a char pointer shows of a topic with a rest behind it.

`Codecs` was rewritten in places for the proofs: integers of two bytes are written out (`TwoBytes`, `ValueAt`) and not
folded. One statement had to be corrected. "No reader of the other dialect learns a topic" fails for C++ topics whose length is a
multiple of 256: there Python nodes learn an empty one, and C nodes one that was never sent.

### Host addresses: `Network_proofs`

`Host!Spec => []BestAddressIsChosen`, `[]CAndPythonShareANetwork`, for any number of interfaces in any order.
`NetworkAssumption` says that an address of four bytes is told from what is none. The search is a recursive function of
the number of interfaces seen; that what it prefers after n of them is the first public one, else the first that
is not the loopback, is shown by induction on n. The C node's search is the first index with a property
(`SelectInSeq`), Python's choice the least of the places that are left of the list; `SameChoice` shows that both are the same place.
For `BCAST_HOST` and `BCAST_PORT` the theorem is an equivalence: the two nodes share host and port exactly if the
environment of the Python node has either unset, or set to what the C node uses.

### libnnet: `Network_proofs`

`Net!Spec => []ChecksumFailsOnSecondCarryOnly`, `[]QueryIsUnderstood`, for names of any length and any addresses of two
16-bit words. `NnetInv` keeps that a frame of the library is what `nnet_mdns_send_query` makes of a name and that what
was heard is what the receiver makes of it. The checksum is arithmetic modulo 2^16 on the sum of ten words, with one
or two carries. `NameComesOut` goes through the labels: from each place where one begins on, the reader finds the
rest of the name, by induction from the last label to the first. `QueryIsUnderstood` had to be
restated on the way: a label of more than 255 characters does not fit its length byte (`LabelsFit`), and such a name
comes out otherwise.

### Only model-checked

Liveness under fairness (`DiscoverySettles`, `AsyncRequestsAreAnswered`, `ThreadsGoOn`, `DiscoverySurvivesLoss`) and
`ENABLED`: out of the prover's reach. The four findings are counterexamples, which need no proof.


## 7. Not modelled, and the plan

Every component the repository names is modelled, in whole or in part, but for its tests. Left out, and why:

* TCP and multicast sockets of `cpp/sockets`, which no node uses, and socket options: calls of the operating system.
* ZeroMQ itself and its wrappers `zmq.hpp` and `zhelpers.hpp`, which are vendored. The modules model what the nodes see
  of it: pipes with a limit, prefix filters counted by name, DEALER sockets that send in turn.
* Memory safety of the teardown in `Fini`, and of what follows the use of a freed cell in `CLists`.
* Printing, logging, getters, reading the command line; the clock and GUID generation, beyond what `TimeIsUp`
  and the identity of a node say.
* The stubs of libnnet (`nnet_ip_rx`, the ARP receiver, the answer to a query) and its ports to hardware.
* A callback that calls its own node in the middle of a `SrvRequest` of that node, which nests calls.
* `unadvertise` and `unsubscribe` of Python, which only raise.
* gtest, which is third-party.
