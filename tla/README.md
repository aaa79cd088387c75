# CyberLink for C, modelled in TLA+

This directory holds a TLA+ model of the UPnP stack of the repository
(`CyberLink4C`) and of the media server the application (`MUtO LIFER`) builds on it,
the runs of TLC that check it on small instances, and the proofs that TLAPS checks
for every instance. Source paths below are relative to
`CyberLink4C/src/cybergarage/` unless they say otherwise.

## 1. Inventory of the system

| Part | State | Operations | Interacts with | Hard behaviour | What makes it correct |
|---|---|---|---|---|---|
| Control point: device cache (`upnp/ccontrolpoint.c`, `ccontrolpoint_event.c`) | `deviceList`, `mutex`, `expMutex`, `expCond`, `expThread` | start, stop, ipchanged, add/update/remove a device by SSDP packet, expiration handler, (un/re)subscribe | receive threads, HTTP client calls, application callbacks with the lock released | interleaving of receivers, expiration thread and application; unlock windows; lost signals | one entry per UDN, expired devices leave, listeners see the cache |
| Eventing, device side (`upnp/cdevice_http_server.c`, `cservice_notify.c`, `cservice.c`, `event/csubscriber.c`) | subscriber list of a service, notify count, service mutex | SUBSCRIBE (new, renew), UNSUBSCRIBE, set a state variable, notify, notify all after a second | posts NOTIFY to the control point while it holds the service mutex | two mutexes across two processes, timeouts, removal during a walk | events are delivered in order, dropped subscribers find out |
| Eventing, control point side (`upnp/ccontrolpoint_http_server.c`) | SID, event key, state table of the service | NOTIFY handler: SID lookup, gap test, re-subscription, listeners | device, application | out-of-order handlers, wrap of the key, re-subscription under the lock | no event lost or taken twice, no false gap |
| Device (`upnp/cdevice.c`, `cdevice_advertiser.c`) | advertiser thread, HTTP and SSDP server lists, port, lease | start, stop, announce, byebye | control points over multicast | a long sleep of the advertiser across stop and start, lost datagrams | known while it runs, forgotten after it stopped |
| Control (`upnp/control/`, `caction.c`, `cargument_list.c`, `cstatevariable.c`, `soap/csoap_request.c`) | one action and one variable object per device, shared by all client threads; one per caller | post an action or a query, dispatch, listener, answer, M-POST retry | HTTP server, eventing | arguments of overlapping calls, stale outputs and status codes, retry | a caller gets the result of its own call, at most one execution |
| HTTP server (`http/chttp_server.c`, `chttp_server_list.c`) | accept thread, list of client threads, server mutex | open, accept, serve, stop, close, delete | all HTTP requests of device and control point | client threads unlink and free themselves in a server that is being freed | what is freed is not in use, stop returns |
| HTTP messages (`http/chttp_request.c`, `chttp_packet.c`, `chttp_response.c`) | a message read piece by piece | post, read first line, headers, body, answer | control, eventing, description download | timeouts and errors in the middle of a message, keep-alive | a response belongs to its request, both sides end |
| SSDP servers (`upnp/ssdp/`, `upnp/cdevice_ssdp_server.c`) | one socket and thread per interface, the timestamps of the M-SEARCH filter | open, start, receive, filter, stop, close, delete | control point, device | a thread object freed while its thread runs, partial failures of a list | stop ends all threads, searches are answered once per interval |
| Media server (`upnp/cdevice.c:1507-1585`, `cdevice_http_server.c:55-700`, `MUtO LIFER/Model/Upnp/UPnPManager.m`) | two HTTP server lists, their port, the static pointer of `strtok` | start, restart, stop, stream a song from an offset | renderers, other programs on the ports | servers left by the run before, requests that share `strtok` | the song URLs lead to a streaming server, the length is that of the rest of the song, a file is sent from the byte asked for on, of a converted song one frame is left out |
| Utilities (`util/`, `io/`, `net/`) | threads, mutexes, condition variables, circular lists, sockets | | everything | `cg_thread_stop` neither joins nor locks | |
| XML, SOAP envelopes (`xml/`, `soap/`) | trees of one request | parse, print | control | none between threads | text processing |
| AV content directory, renderer (`CyberLink4C/std/av`) | content tree, service descriptions | Browse, GetTransportInfo | control | the tree is read without a lock | application of the stack |
| iOS application (`MUtO LIFER/`) | renderer and server lists, song URLs | screens, discovery callbacks | Objective-C wrapper, GCDAsyncSocket (vendored) | callbacks on other queues | |

`PROJECT.json` lists every part with its status, and every hazard of this code at
the line where it bites with the property that watches it.

## 2. Modules

| Module | Models | Use |
|---|---|---|
| `ControlPoint` | device cache, receivers, expiration thread, start/stop/ipchanged/subscribe | specification and properties |
| `MCControlPoint` | a network on which one device keeps announcing itself | liveness properties that need it |
| `ControlPointProofs` | | proofs of type correctness and of all three invariants |
| `EventFeed` | what eventing promises: a feed taken in order, acknowledged only when taken | abstract specification |
| `Eventing` | subscriptions between one service of a device and one control point | specification, properties, refinement of `EventFeed` |
| `EventingProofs` | | proofs of type correctness, of `NoFalseGap`, of `HeardInOrder`, and that `Eventing` implements `EventFeed` |
| `RemoteCall` | what a caller may rely on when it posts a request: executed at most once, and before it is told of a success | abstract specification |
| `HttpExchange` | one request over one connection, token by token | specification, properties, refinement of `RemoteCall` |
| `HttpExchangeProofs` | | proofs of type correctness, that an exchange implements `RemoteCall`, and of `CalmIsWhole` |
| `Control` | callers and the device's client threads around one action and one state variable | specification, properties, refinement of `RemoteCall` for every call |
| `ControlProofs` | | proofs of type correctness, of both invariants, and that every call implements `RemoteCall` |
| `HttpServer` | one HTTP server with its accept and client threads | specification and properties |
| `HttpServerProofs` | | proofs of type correctness and of all four invariants |
| `SsdpServers` | the list of SSDP servers of a device and the M-SEARCH filter | specification and properties |
| `SsdpServersProofs` | | proofs of type correctness, of the stop's safety and of the filter |
| `Discovery` | start and stop of a device, its advertisers, and the lease at a control point, in time | specification and properties |
| `DiscoveryProofs` | | proofs of type correctness and of all three invariants |
| `MediaDevice`, `MCMediaDevice` | the ports of the media server and the requests for a song; Range headers for TLC | specification and properties |
| `MediaDeviceProofs` | | proofs of type correctness and of both invariants |

They compose through what they leave to each other: `ControlPoint` takes packets as they
come, and `Discovery` says when a device sends them; `SsdpServers` says what happens to the threads that
receive them. `Control` and `Eventing` treat a request over HTTP as a caller and a
server thread, `HttpExchange` what may happen to its bytes and `HttpServer` to the thread;
`RemoteCall` is the contract both `HttpExchange` and `Control` implement.

### ControlPoint

A `CgUpnpDevice` is an address in `1..MaxDevs` that is never used twice; the
device list is the set `devs`, in order of the addresses because devices are
appended as they are allocated. A pointer outside `devs` points to freed memory; an
action that dereferences one sets `fault` and ends the behaviour, because the C
program has undefined behaviour from there on.

Every thread has a program counter. A step ends where the code locks or unlocks a
mutex, waits, calls the listener, or fetches something over the network: the code
between two such points runs under one mutex or touches only locals. The main
correspondences are

* `AliveArrives`, `AddLookup`, `UpdateOk/Blank/Fails`, `CreateOk/Fails`, `AddSignal`,
  `AddNotify`: `cg_upnp_controlpoint_adddevicebyssdppacket`. The description is
  fetched with the mutex held, and may parse, not parse, or parse with services that do not.
  A device whose new description does not parse is in `blank`: it is still in the list,
  but no lookup by UDN finds it.
* `ByebyeArrives`, `RemoveLookup`, `RemoveNotify`, `RemoveDelete`:
  `..._removedevicebyssdppacket`, used by receivers, the expiration thread and `ipchanged`.
* `ExpirerTop` to `Timeout`: `cg_upnp_controlpoint_expirationhandler`, the timed wait of
  `util/ccond.c` included (a timeout below a second is no timeout at all).
* `StopExpirer` to `StartServers`, `IpChanged` to `IpEnd`, `Subscribe`: the calls of the
  application, one at a time. start calls stop first, as the code does; ipchanged does not look
  whether the control point runs. A subscription or its renewal that fails clears the SID and
  signals nobody.

### Eventing and EventFeed

One service and one control point. A `CgUpnpSubscriber` is its SID, a number. A
request over HTTP is two threads: the caller, which waits for its `peer`, and the
thread that serves it; the caller may give up (`TimesOut`, `NotifyTimesOut`), which is
the poll of two seconds in `net/csocket.c`, and the server then goes on without a
client. A connection may be refused.

* `Begin`, `Request`, `Refused`, `TimesOut`, `CallDone`: `subscribe`, `resubscribe` and
  `unsubscribe` of `ccontrolpoint_event.c`, called with the control point locked, as its
  header asks ("should be ALWAYS locked"). The control point's own service mutex adds
  nothing to that lock and is left out.
* `NotFound`, `Accept`, `Gap`, `Tell`, `AnswerNotify`:
  `cg_upnp_controlpoint_httprequestreceived`. The listeners are called after the unlock.
* `AddSubscriber`, `AnswerSubscribe`, `StartNotifyAll`: a new subscription; the answer is
  sent, and a second later a thread notifies all subscribers. `RenewLookup`, `Renew`: a
  renewal, whose subscriber is used after the service mutex is released.
  `UnsubscribeLock`: the handler locks the service mutex and then calls a lookup that
  locks it too, so nothing follows.
* `SetValue`, `NotifyLock` to `NotifyEnd`: `cg_upnp_service_notifymain` under the
  service mutex, `cg_upnp_subscriber_notifymain` and the counter of `csubscriber.c`.

`EventFeed` says what that is for: whoever holds a subscription takes its events one by
one, and the device counts an event only when it has been taken. `Eventing` implements it
with `holder <- sid`, `acked <- count`, `taken <- taken` (property `FeedKept`).

### HttpServer

A connection, its socket, its `CgThread` object and the thread itself are one member of
`Conns`. The application walks once from `Open` to `Delete`, and its stop is split where the
code locks, sleeps or frees: `Stop` (flag of the accept thread), `FreeAcceptor`, `LockList`,
`StopClient` for each listed thread, `FreeClient`, `UnlockList`, `Close`, `Delete`. The accept thread
(`AccBegin` to `AccStartFails`) leaves its loop on any failure of `accept`; its stop does not
wait for it. A client thread (`Begin` to `FreeSelf`) reads, looks at its flag, serves, and
unlinks and frees itself. A use of freed memory sets `fault`.

### HttpExchange and RemoteCall

A message is a sequence of tokens: first line, the two headers that decide its framing, the
empty line, and one token per byte of the body. A read or a write fails at any token, with or without a part of it
transferred: a line that was cut leaves the token `rest`, the LF of an empty line cut after its CR included. A first line
written but for its end is followed by the headers all the same (`chttp_request.c:356` looks at no result), so that
it still parses, with the first header behind it: `WriteFails` sends it and may swallow that header. How much
body is expected (`ContentLength`) is decided by the header read, not by the first line. `CutHeaders` is the loop of
`chttp_packet.c:481`, which takes a pause for the empty line; `ReadBody`, `ReadNothing` and
`ReadError` the loop of line 596 with its five tries and the -1 it adds to the length; `Drain` the
loop for an answer without Content-Length; `Written` the decision to keep the connection. `result` is
what the client's function tells its caller, and `executed` counts calls of the listener.

### Control

The calls are numbered, and a value is the number of the call it comes from, so that a property can say
whose result a caller got. `CopyArgument`, `Clear`, `Listen`, `ListenerSucceeds/Fails` and
`AnswerAction` work on the one action object of the device, in the order and with the windows
of `cdevice_http_server.c:1207` and `caction_ctrl.c:65`; `ClearValue`, `NotifyClear`,
`QuerySucceeds/Fails`, `NotifyValue` and `AnswerQuery` on the variable, as in `cquery_ctrl.c:43` and
`cstatevariable.c:99`. `mixed` remembers the calls that overlapped another one, of which nothing
is claimed. `TakeResult`, `SucceedCut`, `Fail` and `GiveUp` are what the caller's objects keep.

### SsdpServers

The application walks over the list (`Advance`) once to open, start, stop, close and delete the server of each
interface; the threads are freed one after the other while the rest still run, the sockets closed after
the last. A receive thread (`Begin` to `Respond`) ends on any failed receive. `Duplicate`, `Stamp`, `Drop` and `Pass`
are `filter_duplicate_m_search`; each interface has its own filter here, because what is equal is
decided from a hash that includes the address of the sender.

### Discovery

In time: a step takes none unless the code sleeps. The application is in a call of start or stop
(`Byebye`, `StopAdvertiser`, `CloseServers`, `OpenServers`, `FirstAnnounce`, `StartAdvertiser`), and
every advertiser ever started has its own program counter, although all share one `CgThread`
object and so one flag. An announcement is heard or lost as a whole; the control point keeps the end of
the last lease (`expires`), as `cssdp_packet.c` and the expiration handler do.

### MediaDevice

`main` and `stream` are the sockets (interface and port) of the two server lists; `taken` those of other
programs and of closed connections. `OpenMain(Fails)` and `OpenStream(Fails)` are the loops of
`cdevice.c:1531` and `1555`; a list that opens no server is cleared, which is the only way the
streaming servers of an earlier run ever go. `currentPort` is what `startLibreUPnPDevice` puts into the
song URLs. A request is a client thread in
`cg_upnp_device_getStreamingrequestrecieved`, cut at its four calls of `strtok`, whose static pointer is `saved`: whose
string it is in, and which numbers of it are left. A `Range` header is the numbers in it: the first is taken for the
offset, also that of a suffix (`bytes=-500` is read as the offset 500), the end is not looked at, and a
header without a number hands a null pointer to `atoi` (`crash`). A request without the header calls `strtok` all the same and
goes on in the string of an earlier one, into which it may write a NUL; when that request has ended the string
is freed, and the NUL may do harm (`Spoil`).

A file is answered in one step (`Answer`), with what is given to the socket. A song in another format is converted:
`AnswerConverted` sends the header and seeks to the frame of the offset (`byteoffset/4`), and `Convert` is one turn
of the loop, which reads a chunk, seeks to the frame after the one that comes next, and sends the chunk. The
first of these seeks leaves out one frame; all later ones go where the converter is anyway, since the count of frames in
`frametoseek` is one behind from then on. How many bytes the loop sends is decided by the end of the song and not by
`Content-Length`, which is reckoned from the duration in the URL: the property speaks of both, and ties neither to the
other. `Seek` and `Read` are `ExtAudioFileSeek` and `ExtAudioFileRead`, whose source is taken to have 44100 frames a second.
A main server answers a song URL with the whole file, or with nothing where the URL has a duration behind the name (`MainAnswer`).

## 3. Runs

| Run | Checks | Instance |
|---|---|---|
| `cp_receivers` | `TypeOK`, `UniqueUdn`, `LockedPointersValid` | two receivers, two UDNs, devices that move, leases of one second or none, one call |
| `cp_lifecycle` | `CachedIsAnnounced`, `CallsReturn` | one receiver, one UDN, two calls, two incarnations of the expiration thread |
| `cp_kept` | `ExpiredRemoved`, `SubscriptionRenewed` | two UDNs, one of which keeps announcing itself |
| `ev_feed` | `TypeOK`, `NoFalseGap`, `FeedKept`, `HeardInOrder` | two handlers, two notifiers, one worker, two subscriptions, a key that wraps after 1 |
| `ev_current` | `TableCurrent`, `DropNoticed` | one thread of each kind, two subscriptions |
| `ev_unsubscribe` | `UnsubscribeAnswered` is violated | one thread of each kind, one subscription |
| `http_server` | `TypeOK`, `ListedAlive`, `NoFaultWhileServing`, `QuietStopSafe`, `AtMostOneMore`, `StopReturns`, `ClientEnds` | two connections with two requests each |
| `http_exchange` | `TypeOK`, `CalmIsWhole`, `ImplementsCall`, `ExchangeEnds` | a request of two body bytes, an answer of one, kept alive; two failures |
| `control` | `TypeOK`, `OwnResult`, `PublishedIsValue`, `ImplementsCalls` | two callers, two calls, two arguments |
| `ssdp_servers` | `TypeOK`, `FaultOnlyInBusyStop`, `SearchesApart`, `ReceiversEnd` | two interfaces, one search and any other packet, two filter intervals |
| `discovery` | `TypeOK`, `KnownWhileRunning`, `ForgottenAfterStop`, `AdvertisersEnd` | two advertisers, a lease of four ticks, eighteen ticks |
| `media_device` | `TypeOK`, `SongPort`, `OwnBytes`, `StartEnds` | two interfaces, two starts, a port in use, two requests; a song of eight bytes or of four frames in chunks of two; headers with an offset and an end, without a number, or none |

Bounds. Two receivers (or two handlers, or two notifiers) are enough for every
race the code admits between two holders of one pointer or two carriers of one value; two UDNs
make one device the successor of another in the list; two incarnations of the expiration
thread let the first outlive a stop and a start. `MaxDevs` = 2 lets a device be removed and
added again, or two be cached at once. `MaxTime` = 2 lets a lease of one second begin,
end at the current second and be over. `MaxSeq` = 1 in `ev_feed` puts
`CG_UPNP_EVENT_MAX_SEQ` within reach of two events, and `MaxCount` = 2 the later wrap of the
device's own counter within reach of three; in `ev_current` both lie beyond every execution, so that
liveness is about a feed that does not wrap. `MaxSubs` = 2 is a subscription and its successor.
`cp_receivers` uses the symmetry of its UDNs: neither the specification nor its invariants name one.

Two connections of `http_server` are one that is listed and one that is being accepted, or two that
leave at once; two requests let a connection be kept once and be used after the stop. In `http_exchange`
`MaxTries` is 2 where the code has 5, so that the two failures of `MaxTrouble` can use it up; two body bytes let a read
be short. Two calls of `control` are one after another, with the objects
the first has left, or overlapping; a third would overlap in no new way, since nothing is claimed of overlapping calls.
Two interfaces of `ssdp_servers` give a thread that still runs while its neighbour's object is
freed. Eighteen ticks of `discovery` hold a start, its first announcement, a stop, a start, a stop and a
lease; two advertisers are one that sleeps over the stop and its successor. In `media_device` a port in
use, the two ports of the first start and the two of the second are distinct; a change of the taken ports
during a start is the case its invariant excludes (`steady`), and lengths are modulo 16. Offset 6 is inside the file and, at the last
frame, inside the converted song; from offset 0 the conversion has two chunks with the skipped frame between them. Suffix ranges and
offsets beyond the end are in the model and in the proof, not in this instance.

Deadlock is checked where the system never stops: in the runs of `ControlPoint` and `Eventing`, whose `AtRest`
names the states in which all threads wait for
work (and, in `Eventing`, for a handler that is stuck or for a subscriber beyond the bound). The other
modules run one life of an object or one exchange and really stop at its end, at a fault or at the bound of their
clock; that nobody waits for ever is a liveness property there (`StopReturns`, `ClientEnds`, `ExchangeEnds`,
`ReceiversEnd`, `StartEnds`).

Fairness. In `ControlPoint` and `Eventing` one strong fairness condition per thread: a thread that can repeatedly go on
does, and a thread that keeps finding a mutex free gets it in the end, which is what a
scheduler without starvation gives. Packets, calls of the application, changes of the state
variable and the end of leases are never fair. The clock is weakly fair. Two runs assume
more, and say so in their specification: `KeeperSpec`, that one device keeps announcing
itself (without it the expiration thread can sleep for ever), and
`Eventing!FairSpec`, that the expiration thread goes on renewing. The other modules use weak fairness: of
a stop or a start that has begun, of the client threads (reads have a timeout of two seconds and listeners
return), of an accept or a receive whose socket is closed. Weak fairness is enough for their mutexes because
every owner leaves in two steps and a server serves finitely many connections. `Discovery` and `Control` need no
fairness: their properties are safety properties, the first with time in the state.

### What the runs show of the code

* `ev_unsubscribe`: an unsubscription is never answered, and the service never notifies again.

Behaviour that the models have, that no checked property forbids and that a reader may find surprising:

* `ControlPoint`: two byebyes of one device received on two interfaces free it twice; a device
  refreshed while its expiry is being reported is deleted all the same; a device whose services cannot be parsed
  again leaves without a call of the listener; the signal for a device that is added between the scan and the wait of
  the expiration thread is lost; a stop sends the thread flag and signal without its mutex, so that it may
  sleep on; receivers may add devices after stop has cleared the list; stop does not unsubscribe.
* `Eventing`: the event keys of control point and device wrap at different numbers, and a gap is then
  seen where nothing is missing; a subscriber that is being
  renewed can be freed by a notification thread, and the other way round (`fault`).
* `HttpServer`, `SsdpServers`: a stop with a connection or a packet under way uses freed memory; the properties say
  exactly when it does not. The accept thread and a receive thread end for good at their first error (a receive
  thread at an empty datagram), and the server stays open without them. A client
  thread that cannot be started leaves its connection open until the server stops.
* `HttpExchange`: after a pause among the headers a request may be executed without its body, and on a connection that is
  kept alive the rest of it is answered as a bad request.
* `Control`: an argument a request leaves out has the value of an earlier request; overlapping calls mix
  arguments and results; an answer cut short makes an action fail with status 0 and a query succeed with the empty value;
  a query publishes the empty value to all subscribers.
* `Discovery`: a device that was stopped and started within the sleep of its advertiser has two of them from then on.
* `MediaDevice`: every restart moves the ports by two, and the URLs handed out before lead nowhere or, at
  the port of a main server, to an answer that ignores the range; the announced location has the port of the
  streaming servers, which answer no description (no property says that a device is found through it, because it
  is not); two song requests at once may crash the server, and so may a single one with a `Range` header without a number; a
  conversion leaves out a frame after its first chunk.

## 4. Proofs

`ControlPointProofs` proves for every number of threads, UDNs, devices, ages and bounds

* `TypeCorrect`: `Spec => []TypeOK`;
* `LockProtectsPointers`: `Spec => []LockedPointersValid`;
* `OneDevicePerUdn`: `Spec => []UniqueUdn`;
* `CacheIsAnnounced`: `Spec => []CachedIsAnnounced`.

The last three are not inductive. `LockedPointersValid` holds because only the owner of the
mutex is at the program points that use a pointer under it and because every removal
takes the mutex, and `UniqueUdn` because `CreateOk` happens in the region in which
the failed lookup was made. The inductive invariant `IInv` adds to the type
invariant and the two properties `MutexHeld` (a thread in a locked region owns
the mutex) and that blank devices are in the list. A step either changes neither
cache nor owner (`RespectfulStep`) or is one of the few that do; each has a lemma.
`CachedIsAnnounced` rests on `AInv` besides: `NamesPacket` (what a thread is about to report has an
address with the UDN of its packet, even when the device is freed by then) and, as the property itself
does, on a listener and on devices that stay where they are: no device is then blank, so that whoever removes
one looks it up under the name it reports. A step that takes a report away leaves the device reported or removed.

`EventingProofs` proves, again for every value of the constants,

* `TypeCorrect`: `Spec => []TypeOK`;
* `GapsAreReal`: `Spec => []NoFalseGap`;
* `FeedImplemented`: `Spec => FeedKept`, the refinement of `EventFeed`;
* `ToldInOrder`: `Spec => HeardInOrder`, an action property.

The inductive invariant `IInv` has four parts besides the types. `MutexHeld`: a thread that
calls owns the control point's mutex, one that notifies the service mutex, so there is one of
each. `CallsWell`: who waits for an answer waits for a worker that serves its request, and an
answer to a renewal names the subscription renewed. `PostsWell`: a notification is in one
handler at most, and as long as its subscriber is in the list the notifier waits for that
handler; a handler whose client has given up therefore carries an event of a dropped
subscription. `FeedWell`: the counts of device and control point for the subscription held
differ by the event that is between its acceptance and its count (`InStep`), and nothing of a
subscription is delivered before the answer that tells its SID is taken (`Untouched`), because
the caller keeps the mutex that the NOTIFY handler needs. `MaxSeq < MaxCount` enters where the
device's counter must not wrap before the key does. `IInv` was checked with TLC on the
instance of `ev_feed` before it was proved. One lemma per kind of thread shows that its steps
preserve the parts; the `Frame` lemmas say which steps leave a part alone. `ToldInOrder` adds `OrderInv`: the
event of a subscriber that is still in the list is the newest under way, because its notifier keeps the service mutex
until it is answered, and an event nobody waits for any more belongs to a dropped subscriber.

`HttpServerProofs` proves `Types`, `ListSafety` (`ListedAlive`), `ServingSafety`
(`NoFaultWhileServing`), `QuietSafety` (`QuietStopSafe`) and `StopSafety` (`AtMostOneMore`) for every number of connections and
requests. The inductive invariant is `Inv == TypeOK /\ MutexInv /\ ListInv /\ ServingInv /\ QuietInv /\ NoAcceptorInv`. `MutexInv`:
the mutex belongs to the thread whose program counter says so. `ListInv`: listed objects are alive; a thread
that has unlinked itself is not listed and cannot be again, since the accept thread lists only a thread
it has not started. `ServingInv`: until the stop everything a running thread uses is there. `QuietInv`: in a quiet
stop nobody but the application runs. `NoAcceptorInv`: without an accept thread there is no connection. `StopSafety`
adds `AfterInv`: a thread that has served a request after its flag was cleared is past the loop that looks at the
flag, or before its next look, and no step sets the flag of a thread that runs.

`DiscoveryProofs` proves `Types`, `Known` (`KnownWhileRunning`), `Forgotten` (`ForgottenAfterStop`) and
`Ended` (`AdvertisersEnd`) for every lease, wait and number of starts. Its `IInv` adds to the types `Clock` (nobody oversleeps, nor sleeps
longer than he may), `LeaseInv`, `Control` (a set flag implies that the last advertiser is alive), `Fresh`
(the last advertiser wakes up early enough to announce before the lease in force ends) and `After` (`stopAt`
bounds what an advertiser that a stop has missed may still do).

`SsdpServersProofs` proves `Types`, `QuietSafety` (`FaultOnlyInBusyStop`) and `FilterSafety` (the action property
`SearchesApart`) for every number of interfaces, any searches and any interval. Its `IInv` has `OpenInv` (what is not
opened yet is untouched), `FreedInv` (no socket of a freed server is open, and none at all after the walk that
closes them), `ServeInv` (until the stop all that a thread uses is there), `QuietInv` (in a quiet stop all threads wait or have
ended) and `FilterInv` (a timestamp of the filter is not older than the last search it let through).

`ControlProofs` proves `Types`, `ResultIsOwn` (`OwnResult`), `ValueIsPublished` (`PublishedIsValue`) and `CallsImplemented`
(`ImplementsCalls`) for any callers, calls and arguments. Its `IInv` adds to the types and to `OwnResult`: `CallInv` (a
call in the device belongs to one caller), `OnceInv` (where a call is says how often its listener has run: this
carries the refinement of `RemoteCall` through the M-POST retry), `MixInv` (two calls in the device at once
are both marked as mixed), `DataInv` (a call that is not mixed finds the device's objects as it has left them) and `PubInv` (what was
published last is the value of the variable, or a query is about to notify).

`HttpExchangeProofs` proves `Types` and `ExchangeImplements` (`ImplementsCall`) for bodies of any length and any number of
failures. Its `IInv` has two parts besides the types. `OnePlace`: the first line of the request is in one place, still to be
written, on its way, in the hands of the server or executed, because what is cut leaves a rest of a line, which is
no first line. `Earned`: where the first line of a success is, the request has been executed. Most steps
move no first line on (`Lesser`), so that each needs a few lines.

`WholeWhenCalm` (`CalmIsWhole`) needs where both sides are in both messages as long as nothing has failed (`CalmInv`): what is
under way and what is still to be written are together the message without the first tokens (`Left`), as
many as the program counter, the headers and the counted length of its reader say (`AtHeaders`, `AtBody`, `HasRead`). A
reader never meets the end of the stream early, because a side that has closed has nothing left to write
(`ClosedQuiet`, `NotEarly`); so that the three ways in which a message is cut contradict the invariant. The lemmas about
`Rest` are about sequences alone; one lemma per reading step serves both the request and the answer. `CalmInv` was
checked with TLC, with and without keep-alive and body of the answer, before it was proved.

`MediaDeviceProofs` proves `Types`, `SongPortHolds` (`SongPort`) and `BytesAreOwn` (`OwnBytes`) for any interfaces, ports in use,
requests, ranges, songs and chunks. `PortInv`: no main server has a port beyond the one tried last, and once the main
servers are open that port is full, so that the streaming servers go on to a later one unless a
port changes hands. `BytesInv`: a request that nobody has come between finds the static pointer of `strtok` where
it has left it; and a conversion (`Progress`) has sent every frame from that of the offset to where it is, but for the one
after the first chunk once it is beyond that chunk. `Types` is more than types, because `TypeOK` bounds the port by two for every start beyond the ports of
other programs: `SearchInv` says that no socket of the device is above the port tried last, so that a port beyond those of
other programs is free (`Fresh`) and the search for the main or the streaming servers ends there.

The assumptions are the named ones of the modules: that the kinds of
threads are different, that the bounds are numbers, that the media server is started with a network interface
(`InterfaceAssumption`: the application starts it once it is connected to a receiver, and without an interface
the search for a port has no end), and, in `Discovery`, that half a lease and a
random wait fit into the lease (450 to 900 seconds and at most a second against 1800, with the constants of `cdevice.h`).

Every invariant and every safety property of the passing runs is a theorem. Only model-checked are the liveness
properties, which are out of the prover's reach (fairness and ENABLED): `SubscriptionRenewed`, `TableCurrent`,
`DropNoticed`, `CallsReturn`, `ExpiredRemoved`, `StopReturns`, `ClientEnds`, `ExchangeEnds`, `ReceiversEnd` and `StartEnds`; and the violation that
`ev_unsubscribe` shows, `UnsubscribeAnswered`.

## 5. Abstractions and what is not modelled

* A description that parses carries the UDN of the packet that led to it. Descriptions, SOAP
  and XML are reduced to their outcome.
* Condition variables do not wake up spuriously. List operations are single steps, so a
  torn list (a subscriber is added without the service mutex) is not seen. Two threads that assign
  one string at the same time leave one of the two values; that they may corrupt the heap is not seen.
* One service per device; one application thread; one action and one variable in `Control`.
* Addresses, SIDs and `CgThread` objects are not used twice.
* The value of a state variable is a counter or the number of a call; a torn string is not seen.
* `long` has 64 bits, so that the notify counter reaches `UINT32_MAX`. The sleep of the advertiser is not
  truncated to 32 bits, which holds for leases of up to 8590 seconds.
* The datagrams of one announcement are heard or lost together, and at once.
* The sleep of a second in `cg_thread_stop` orders nothing in `HttpServer` and `SsdpServers`; it takes time in `Discovery`.
* The device description of a control point is fetched by the exchange of `HttpExchange`; `ControlPoint` has its outcome.
* In `MediaDevice` a song is its bytes or frames by number, a range the numbers of its header; what is sent is
  what is handed to the socket. The interfaces stay the same during a run (the code asks for them at every open), and a bind
  fails only because the port is in use. That `Content-Range` is worded wrongly, that HEAD is answered with a body and the
  leaks on errors are not properties of the model.
* In `Discovery` a device is "known" while the lease of a received announcement is in force. The control point of this very
  build would not cache it, because the announced location leads to a streaming server, which answers no description
  (`upnp/cdevice.c:1144`, `upnp/cdevice_http_server.c:298`): the properties are about the announcements, and what other control
  points or a build without streaming servers can rely on.
* In `Eventing` the walk of `cg_upnp_service_notifymain` that removes expired subscribers and the one that notifies
  are entered in one step (`NotifyLock`), both under the service mutex; malformed subscription requests, which change
  nothing, are left out. `FeedKept` relies on callers that lock the control point, as its header asks;
  `tests/ClinkTestCaseSubscription.cpp` calls without it (lines 82 and 91), which the model leaves out.
* `SsdpServers!Close` closes, frees and forgets a socket in one step; a receive thread that looks in between, which only
  a busy stop admits, is at a fault already.
* In `Control` the arguments of a request for an action without a listener are not copied; only a later request that leaves an
  argument out, once the action has been given a listener, could tell.
* In `HttpExchange` a line is cut by a write that fails. A read that is cut in the middle of a line returns an error and
  the line is not parsed.

Not modelled: the search of a control point (its answers are packets of `ControlPoint`) and the answers of a device to
searches, which this build never sends (`cdevice.c:1438`); persistent connections of the client
(`CG_HTTP_USE_PERSISTENT_CONNECTIONS`, which no project of the repository defines for the application); the XML
parsers, URI, dictionary, string and list functions, which are sequential and close to their unit tests; the
AV content directory and renderer, whose listeners are those of `Control` and keep no state of their own
that another thread changes (outside the samples); the Objective-C wrappers, the screens of the application
and GCDAsyncSocket. More than half of the repository's lines are of these kinds, texts of service
descriptions among them, so that the share of lines the modules account for stays small.

## 6. Plan

1. `ControlPoint`, `Eventing` and `EventFeed` with their proofs: done.
2. `HttpServer`, `Discovery`, `SsdpServers` with their proofs: done.
3. `HttpExchange`, `Control`, `MediaDevice` with their proofs: done.
4. The content directory of the file system sample: Browse on two client threads while a third re-reads the directory.
5. The browser side of the application: its renderer and server lists against the callbacks of the control point.
