# A verification of simple-cdn-networks in TLA+

The repository is a small content delivery network: a DNS server that sends
each client to one of several replicas, and the HTTP server the replicas run.
This directory holds a model of it, the configurations with which TLC checks
the model on small instances, and proofs that TLAPS checks for instances of any
size. Source references are to the root of the repository: `dnsserver.py:166`.

    tlc -workers 2 -config MCConcurrentTable_sole.cfg MCConcurrentTable
    tlapm ConcurrentTable_proofs.tla

The other modules of proofs are `RoutingTable_proofs`, `DnsServer_proofs`,
`GeoRouting_proofs`, `ReplicaServer_proofs`, `MaxMindReader_proofs`, `DatabaseFile_proofs`
and `GeoIp2_proofs`; each is checked by itself.

## 1. The system

### 1.1 Components

| component | state | operations |
|---|---|---|
| DNS server, routing table (`dnsserver.py:27-33,159-171,109-113`) | `CLIENT_REPLICA_ROUTING_TABLE`, a `defaultdict` of `defaultdict`s of records `sum, min, max, samples`; shared by all threads, no lock | `update_latency` adds a ping result; the `min(..., key=avg)` of `resolve` reads the best replica |
| DNS server, threads (`dnsserver.py:106-117,133-155,174-186`) | `CLIENTS`, a shared set; per thread its position in `ping_replica_servers` | `serve_dns` starts a thread per datagram; `process_request` calls `resolve` and answers; `ping_thread` pings every replica every 100 s |
| DNS server, geography (`dnsserver.py:63-103`) | an `lru_cache` of locations | `find_closest_replica_server`, `distance_between_locations`, `find_location_coordinates` |
| Replica HTTP server (`server/src/main.rs`) | `RAM_CACHE` under tokio's `RwLock`; `./disk`, read only; `ORIGIN`, written once at start | `proxy`, `preload`, `ping`, `beacon` |
| Earlier HTTP servers (`server/main_tide.rs`, `server/main_actix.rs`) | a cache under a `Mutex` | the same endpoints; not built any more |
| MaxMind DB reader, lookups (`maxminddb/reader.py`) | metadata, `_ipv4_start`, `closed` | `get`, `get_with_prefix_len`, `close`; vendored |
| MaxMind DB reader, decoder and file (`maxminddb/decoder.py`, `file.py`, `__init__.py`, `reader.py:39-107`) | the buffer: bytes, a mapping, or a handle with its offset, its descriptor and a lock; the stack of `decode` | `open_database`, `decode`, `FileBuffer._read`, `rfind`, `close` |
| GeoIP2 database and models (`geoip2/database.py`, `models.py`, `records.py`, `errors.py`, `mixins.py`) | the reader; in a model its attributes, `raw`, and `_network` once it was read | the eight methods of `Reader`, `network`, `==`; vendored |
| GeoIP2 web service client (`geoip2/webservice.py`) | the session | `city`, `country`, `insights`, `close`, of a client for threads and one for tasks; vendored, not used by the CDN |
| Deployment (`deploy.sh`, `deployCDN.py`, `runCDN.py`, `stopCDN.py`, `Makefile`) | none | `ssh`, `scp` |

### 1.2 Interaction

* A DNS query of a client without a row in the table adds the client to
  `CLIENTS`, pings **every** replica for **every** client inside the query's
  thread, and is then answered by geography. A query of a client with a row is
  answered by the lowest average.
* The ping thread runs the same `ping_replica_servers`. It and the query
  threads call `update_latency` concurrently.
* A ping is `POST /ping` to a replica, whose handler runs scamper once per
  request, without awaiting: it occupies a worker thread of the runtime. The
  answer has one line of JSON per client; a line without `avg` (the client does
  not answer pings) is skipped.
* `POST /preload` is answered at once; a spawned task fetches the listed paths
  from the origin one by one and inserts each, compressed, under the write
  lock. `GET /<path>` reads RAM (`try_read`), then disk, then the origin.
* For a location that is not in the `lru_cache`, a thread of the DNS server opens
  a `geoip2` reader over `maxminddb.Reader`, which walks the search tree of the
  mapped file and decodes the record it finds. A reader may be shared by threads.
  `geoip2` writes the address and the length of the prefix into the decoded record
  and makes a model of it. The location is taken from the model; the database may
  not list a host, or have no coordinates for it: both raise.
* The deployment starts a replica and then preloads it once.

### 1.3 What is hard, and what makes each part correct

* **Unlocked table.** Every statement of `update_latency` looks the record up
  again, some of them twice; a lookup can create a row or a record, and two threads
  can each create the same one. Correct: a result is counted at most once; with
  one updater exactly once and atomically; the minimum is the minimum of what
  was measured; what is lost is measured again, so the table converges.
* **Exceptions and missing timeouts.** No handler in the DNS server; one silent
  or refusing replica ends or blocks the thread that pings it. Correct:
  without faults every query ends and the ping thread comes round for ever;
  an answer always has a reason (geography, or a result of the client's own).
* **Distance.** The arguments of the haversine formula change roles; locations
  come from a cache or from the database, or do not come. Correct: `asin` stays
  defined, an answer rests on the locations of all replicas and does not depend
  on what is cached, and the replica chosen is the closest.
* **The search tree.** Three layouts of a node, one of them with a shared byte;
  IPv4 addresses start below the zeros of an IPv6 tree, at a node that is found
  once and kept without a lock; the tree may end before the zeros do. Correct:
  a lookup finds the one network of its address and the length of its prefix,
  a good database is never called invalid, the kept node is the right one.
* **Reading a file that others read.** Where there is `pread`, the descriptor is
  taken and then used; where there is none, the offset is shared by all threads
  and a lock guards it. The reader may be closed between any two steps. Correct:
  a value comes out as it was encoded; only a closed reader or a corrupt file makes
  decoding fail; decoding ends, also when pointers go round in a circle; nobody keeps
  the lock.
* **Calls that share a reader or a client.** A record is decoded for each call
  and changed by it; a session is opened by the first call and closed by anyone; the
  service answers what it likes, when it likes. Correct: a model says what the
  record of the network around *its* address says, under the right names; errors
  say what the answer said; no session is left open; calls end as far as timeouts
  can make them.
* **The lock of `RAM_CACHE`.** Readers that do not wait, writers that do, guards
  held across decompression, panics in the middle of a preload. Correct: no
  guard is leaked, a preload that finishes has cached its list, entries get no
  older, replies are texts of the origin, nobody starves.

The hazards, each at its line and with the properties aimed at it, are listed in
`PROJECT.json`.

## 2. The modules

| module | models | extends / instantiates |
|---|---|---|
| `RoutingTable` | the table, `update_latency`, the minimum of `resolve` | |
| `LatencyStats` | abstract: a result counts once and at once | |
| `ConcurrentTable` | any number of updaters and readers on the table | `RoutingTable`; refines `LatencyStats` |
| `RoutingTable_proofs` | lemmas about the table, for both of its users | `RoutingTable`, `TLAPS` |
| `ConcurrentTable_proofs` | nothing is counted twice; the minimum that no update overlaps; one updater: exactness, the nearest replica, the refinement | `ConcurrentTable`, `RoutingTable_proofs` |
| `DnsServer` | ping thread, query threads, pings and their failures | `RoutingTable` |
| `DnsServer_proofs` | theorems about it | `DnsServer`, `RoutingTable_proofs` |
| `GeoRouting` | threads that choose the closest replica, the distance, the cache of locations they share | |
| `GeoRouting_proofs` | theorems about it | `GeoRouting`, `TLAPS` |
| `TokioRwLock` | tokio's fair `RwLock` (a library: modelled from its use) | |
| `ContentService` | abstract: a request gets a text the origin has had, or none | |
| `ReplicaServer` | the handlers of `main.rs` over the lock, cache, disk, origin | `TokioRwLock`; refines `ContentService` |
| `ReplicaServer_proofs` | theorems about it | `ReplicaServer`, `TLAPS` |
| `SearchTree` | the format of a database and `_read_node` | |
| `MaxMindReader` | threads that look addresses up in a reader, and `close` | `SearchTree` |
| `MaxMindReader_proofs` | theorems about it | `MaxMindReader`, `TLAPS` |
| `FileBuffer` | the bytes of a file and the ways to read them | |
| `MaxMindDecoder` | threads that decode values, one read of the buffer per step | `FileBuffer` |
| `DatabaseFile` | a reader over its file: opening, metadata, records, close | `MaxMindDecoder` |
| `DatabaseFile_proofs` | theorems about it | `DatabaseFile`, `TLAPS` |
| `GeoIpRecords` | the data classes: records and models | |
| `GeoIpCalls` | callers and the models they hold: errors, `network`, equality | `GeoIpRecords` |
| `GeoIpReader` | `geoip2.database.Reader` | `SearchTree`, `GeoIpCalls` |
| `WebClient` | `geoip2.webservice.Client` and `AsyncClient` | `GeoIpCalls` |
| `GeoIp2` | callers of a reader or of a client | `GeoIpReader`, `WebClient` |
| `GeoIp2_proofs` | theorems about it | `GeoIp2`, `TLAPS` |
| `MC...` | instances for TLC | |

Operators introduced by a comment "Mistaken:" are not part of any
specification. Each is one plausible bug, in a form that can be substituted for
the definition after it; `PROJECT.json` says which property then fails.

### RoutingTable

The grain is that of the interpreter. CPython may switch threads between any
two bytecodes, and whenever a default factory, a Python function, runs. So
`TABLE[c][r]["sum"] += x` is `Outer` (look up the row; a miss calls the
factory), `MakeRow` (bind what the factory returned, even if another thread has
bound a row meanwhile), `Inner`, `MakeRec`, `Read` and a store into the record
**found before**, which may have been replaced. `StoreSum`, `StoreMinMax` and
`StoreSamples` end the statements. `min` and `max` are never read by the
program: their values are left out; their four lookups, which can create the
row and the record, are one pass.

The minimum: `BestReplica` is the membership test together with the lookup of the row
(both find the same row, as bound keys are never deleted, or a newer one bound
between them, which the test itself might have seen); `Iterate` creates the
iterator; `NextKey` raises `RuntimeError` when the row has grown, `ValueError`
when it has no keys, returns, or goes to the next key; `GotSum` and
`GotSamples` are the terms of `avg`, which looks the table up afresh and can
therefore read a newer row, create a record in it, or divide by zero. Averages
are compared as fractions, exactly; floating-point rounding is not modelled.

Rows and records are named after the thread that made them. Nothing deletes
from the table, so a thread makes at most one row per client and one record per
row and replica: the names are fresh.

### DnsServer

`Receive` starts a query's thread (or ends it, for a datagram that is not DNS),
`Check` is the branch of `resolve`, `AddClient` and `Post ... EndOfBatch` the branch of
a new client, `Geolocate` and `MinReturns` the two answers. A replica
responds (`Respond`) with an average for the clients it reached, or fails
(`Fail`: refused, or a 500 page that is no JSON), or, if it is in `Faulty`,
never answers. There is no handler, so `Fail` ends the thread. `find_location_coordinates`
raises for a client the database does not list (`Unlisted`). Between batches the
ping thread sleeps; `Wake` ends the sleep whenever it likes, as time is not modelled.

### GeoRouting

Several query threads run `find_closest_replica_server` at once. Each asks for the
client of a query (`Ask`), then for one replica after another (`Host`, in the order in
which the interpreter goes through the set, one order as long as the program runs). A host
that is cached is a `Hit`; otherwise (`Miss`) the thread reads the database while others go
on, and `Read` keeps the location and goes on, or `Fail` raises: `AddressNotFoundError` from
`reader.city`, or `float(None)` for a host without coordinates. `Continue` is what follows
a location: it is `source_coordinates` (`Source`), or the distance is computed once and the
replica kept if it is `Nearer`. `Used` and `Stored` are `functools.lru_cache` as CPython has
it: the entry used is moved to the end, a location is read outside of the cache's lock and
kept unless another thread has kept it meanwhile, in the place of the one not used for
longest; an exception is not kept. What a thread goes on with is what the *cache* returns.

An angle is a point with integer coordinates on a circle of `Radius` around 0. Such points
have exact sines and cosines, and those of all radii are dense on the circle, the poles and
the date line included. `Haversine` is then an integer, `2 * Radius^4` times the *a* of the
formula; the distance grows with *a*, so the least distance is the least *a*. The rounding
of floats is left out: `a` itself can come out as a little more than 1 for opposite places,
so what is shown of `asin(sqrt(a))` is shown of the formula, not of its rounding.

### ReplicaServer

A task is polled by one of `Workers` threads and gives it up only where it
awaits. `compress`, `decompress` and scamper do not await: a task in `Busy`
occupies a worker, and any other step needs a free one. `Lookup` is `try_read`;
a hit keeps the guard until `Inflated`. `ServerError`/`Retry` are the
loop on 5xx, `Unreachable` the `expect` that panics on a transport error (for a
request the connection is closed; for a preload the rest of its list is
dropped, though 204 was answered long ago), the second half of `Inflated` the `expect` on a
file of `./disk` that does not decompress (`Damaged`; what is in RAM was compressed by
`preload`), `HangUp` a client that leaves while
the handler awaits. A text is its path and its version; `Publish` changes the
version at the origin at any time. A status below 500 counts as a text, an
error page included, because the code makes no difference.

`TokioRwLock` hands a lock that becomes free to the waiters in order, all the
readers up to the first writer; `try_read` fails while a writer holds the lock
**or waits for it**. That second half is what keeps a preload from starving.

### SearchTree and MaxMindReader

A database is what it is made of: networks with their data, and the nodes above
them, numbered in any way that gives the root 0 (`WellFormed`). The format, an
external matter, says which record ends each path (`Record`) and which byte lies
where (`Packed`, `Byte`). `ReadNode` is the code: it computes offsets, reads bytes and
puts them together again. `Unshare` is the treatment of the shared byte.

`MaxMindReader` walks the tree one iteration per step. `Start` is `_start_node`
up to its loop, `Skip` and `EndSkip` that loop and the store of `_ipv4_start`,
`Walk` and `EndWalk` the loop of `_find_address_in_tree` and its three outcomes,
`Resolve` the arithmetic of `_resolve_data_pointer`. The kept node is tested and
returned in one step: once set, it is only set to the same value again
(`StartNodeExact`). After `Close` a mapped file raises when it is read; bytes in
memory have no `close` and go on. The decoder is taken to return what is stored
at a place, which is what `DatabaseFile` checks; the metadata behind the data is
not part of the size.

### FileBuffer, MaxMindDecoder and DatabaseFile

A file is its bytes. `BeginRead` and `EndRead` are the two steps of
`FileBuffer._read`: `fileno()` and `pread`; or `acquire`, `seek`, and then `read`
and `release`. A mapping and bytes in memory are read in one step. `Failure` says
what reading raises after a close: `ValueError` from a closed handle or mapping,
`OSError` from a descriptor that is free; one that has been given to another file
(`Reuse`) is read without complaint. `Rfind` leaves out the last byte of the
file, as `file.py:32` does.

`decode` is recursive, so its calls are a stack, of the arrays, maps and pointers whose
parts are being decoded. `point` is where a thread stands: about to read a control
byte, the byte of an extended type, the bytes of a long size, or a payload; or with a
value, or an error, in its hands. What one step makes of the two does not depend on other
threads, and is a function: `Got` says what follows from the bytes that were read
(`Typed`, `Enter` and `Scalar` choose the decoder, `Push` calls `decode` again), `Handed`
what follows when a finished value is given to the container or pointer it is a part of.
`Read` and `Hand` are the actions. All types, all codes of sizes and
all ranges of pointers are there; a number is its digits to the base 256, a text or a
string of bytes is its length and first byte. The interpreter's limit of recursion
is `MaxDepth`.

`Open` is `open_database` without the C extension, which is not part of the
repository, `FindMarker` and `EndOpen` are the rest of `Reader.__init__`. `Fault` is what
can be wrong with the metadata, a node count that is a text included: the size of the tree
is computed from it, and dividing or multiplying raises. A number of another type than an
unsigned integer there (a boolean, a double) is not modelled: `Natural` makes it 0. `Resolve`
begins to decode the record at a place the search tree names.

### GeoIpRecords, GeoIpCalls, GeoIpReader, WebClient, GeoIp2

A response is a function from names to values or to such functions. `GeoIpRecords` has
one operator per data class: which names it knows, what it says of those that
are not there, and how the arguments are handed on. A model that a caller
holds is its class, the response it was made of, and what the reader added;
`Attributes` computes from these what the object has. The one thing that changes
later is `_network`, which `Look` fills in.

`GeoIpReader` is `_get` with its three outcomes, the two stores into the decoded
record, and the construction, each a step of its own: the record belongs to the
thread (`Fresh`) because the decoder makes a new one for each call. The lookup
is one step, which `LookupsCorrect` of `MaxMindReader_proofs` justifies; it yields
the network around the address, or (`Left`) the step at which the walk leaves the tree: the
summary of the walk, not the walk.

`WebClient` has both clients. `requests` limits the time between two pieces of an
answer, `aiohttp` the time of all, so `Timeout` of a `Client` is disabled just after
a piece (`arriving`). The service may answer with any member of `Answers`, send
pieces for ever, or break the connection. `ErrorFor` and `Success` are the
mapping of answers, with what escapes it: a body that is JSON but no object makes
`in` or `.get` raise, a part of it that is none makes the construction of a model raise, a missing Content-Type is a `KeyError` in a `Client` only.

`GeoIp2` puts them together: a program has a reader or a client, and compares models.

## 3. What is checked

| run | instance | checks |
|---|---|---|
| `table_sole` | 1 updater, 1 reader, 1 client, 2 replicas, 4 results | `TypeOK`, `SoleUpdaterExact`, `HalfRecordsAreTransient`, `BestReplicaAssigned`, and that the table implements `LatencyStats` (`StatsSpec`) |
| `table_races` | 2 updaters, 2 readers, one thread being both; a result each | `NeverOvercounts`, `UndisturbedIsSequential` |
| `table_best` | 2 updaters, 1 reader | **violated**: `BestReplicaAssigned` |
| `dns_queries` | ping thread, 2 queries of a new client that has no location, lost pings, a replica that fails | `TypeOK`, `AnswersAreJustified` |
| `dns_batches` | ping thread, 1 query of a new client, no faults, fairness | `QueriesEnd`, `PingsForever`, `TableConverges` |
| `dns_pingstops` | one faulty replica, fairness | **violated**: `PingsForever` |
| `geo_domain` | 2 threads, 3 replicas, 2 clients, at up to 5 places or nowhere; 3 locations cached | `TypeOK`, `DistanceDefined`, `AnswersNeedEveryLocation`, `AnswersAreNearest` |
| `geo_closest` | the same | **violated**: `ClosestIsAssigned` |
| `replica_service` | 2 requests, 1 preload of 2 paths, one of them on disk, where it may be damaged, 2 workers, all failures, a change of each text, fairness for requests | `TypeOK`, `PreloadedIsCached`, `GuardsBelong`, `ContentSpec`, `CacheNeverRegresses`, `RequestsEnd`, `PreloadsEnd` |
| `mmdb_lookup` | 2 threads, one reader, 125 databases, `close` at any time | `TypeOK`, `LookupCorrect`, `ErrorsHaveCause`, `StartNodeExact` |
| `mmdb_decode` | 2 threads, 16 files (3 sound, 13 corrupt), 4 modes, with and without `mmap` and `pread`, `close` and reuse of the descriptor, fairness | `TypeOK`, `DecodeCorrect`, `ErrorsHaveCause`, `DecodesEnd` |
| `geoip2` | 2 callers of a reader of 8 databases, one per type, or of either client with 19 answers; 4 addresses, 4 responses, 2 locales, fairness | `TypeOK`, `ModelsReflectResponses`, `ModelsKeepTheirAddress`, `NotFoundNetworkIsLargest`, `EqualUntilLooked`, `AnswersAreHeeded`, `SessionsDoNotLeak`, `CallsEnd` |

The refinements are `StatsSpec` (the table implements `LatencyStats`) and
`ContentSpec` (the replica server implements `ContentService`).

What the violations show:

* `table_best`: two threads make the row of a new client at the same time. One
  stores its sum in the row that is lost and its count in the row that stays: a
  record with a count and too small a sum, which makes a distant replica the
  best one although nothing runs any more. A later batch adds correct results
  to the record but the error stays in the sum.
* `dns_pingstops`: one replica that refuses a ping or never answers it ends the
  measurements until the server is restarted.
* `geo_closest`: both coordinates of the first location are taken as
  longitudes, both of the second as latitudes. Another replica than the closest is
  chosen, even for a client at the very place of a replica.

### Bounds

* One client and two replicas in the table: records of different clients share
  nothing but the outer dict, where a key is bound once per client, and two replicas
  are what a comparison needs. Two updaters are enough for every race on a
  creation or an increment. A third thread reads, and in `table_races` one of the two
updaters reads as well: a reader whose iterator is old may create a record in a new
row, and it takes a second reader to see that. `MaxCalls` bounds the results of an
  updater: four, with one updater, so that both records get several; one each,
  with two, so that every pair of bytecodes can interleave.
* Latencies 2 and 3: two results for the near replica add up to more than one
  for the far one, so the sum alone misorders them.
* `MaxResults` bounds the averages the ping thread receives per client and
  replica, as it runs for ever. Beyond the bound its pings find no client
  answering, which is something clients may do; the thread itself goes on. In
  `dns_queries` it is 0: there the two query threads race with each other while the
  ping thread posts and sleeps around them. In `dns_batches` it is 1: the ping
  thread races with a query thread.
* `MaxVersion` is 1: an old and a new text of each path. Two paths: one
  preloaded and on disk, one preloaded only. Two workers: a preload or a ping
  can hold one, or two tasks both.
* The circle of radius 5 has twelve points: 0, 37, 53 and 90 degrees and their mirror
  images. A client and a replica are at one of five places, a pole among them, or nowhere,
  the others at one of two: ties and nearest replicas that come first or last. Three cached
  locations for five hosts and two threads that evict each other's.
* One file on disk, sound or damaged whenever it is read.

* Addresses of 1 and 3 bits stand for 32 and 128: two bits to skip, so that the
  tree can end before, in and after the zeros. Databases of 28 bits have up to two
  networks, those of 24 and 32 one or none; all layouts of them are initial
  states. The data lies so far away that pointers use every bit of a record.
  The proofs cover all lengths, databases and numbers of threads.
* The three sound files hold every type, every code of sizes on both sides of its
  limits (28, 29, 284, 285, 65820, 65821) and a pointer of each of the four
  lengths, one of them to a pointer. The corrupt ones have one fault each: a circle of
  pointers, an unknown type, a key that cannot be hashed, a text that is no
  UTF-8, a double of seven bytes, values cut off at the end of the file, no
  marker, a marker at the very end, metadata that is no map, has a key that is no text,
  lacks a key, or has a node count that is a text. Two threads, as the offset and the lock are shared by pairs.
  `MaxDepth` is 4, one more than the sound files need.
* Two callers hold two models, which is what a comparison needs, and share the
  reader or the session. Addresses have 2 and 4 bits; the databases have networks
  in front of, around and behind the zeros of IPv4 addresses. One answer for
  each branch of the mapping.

Deadlock is checked where the system goes on for ever; the runs that turn it off
have finitely many updates or queries and then nothing left to do.

### Fairness

* `DnsServer!Fairness`: threads of the interpreter are scheduled; `sleep` ends;
  a replica that is not faulty answers a ping. A faulty replica need not, a
  query need not arrive, a fault need not happen.
* `ReplicaServer!ServeFairness`: tokio's scheduler polls every task that is
  ready, and scamper ends. Fairness of a request's steps is strong because
  other tasks can take the free worker again and again between its polls.
  `SF(Fetched)` says that an origin that is asked again and again answers
  below 500 at last: without it the retry loop is unbounded, as in the code.
  `LoadFairness` is the same for preloads. It is assumed only
  in `PreloadsEnd`; `RequestsEnd` holds also when a preload stops for good with
  the write lock, or one of the two workers, in its hands.
* `DatabaseFile!Fairness`: threads are scheduled (weak), and a thread that waits for
  the lock of a `FileBuffer` gets it at last (strong): it is a semaphore
  of the operating system, which wakes its waiters. Nobody need close the reader.
* `GeoIp2!Fairness`: a caller that can go on does, and a request that can time out
  does. The service need not answer. A `Client` whose service sends pieces for ever
  has no timeout: `CallsEnd` excludes just that case, by its premise.

## 4. What is proved

The theorems hold for every value of the constants that the assumptions of the
modules admit. `PROJECT.json` lists them with the properties of section 3 they state.

### The table

`TableAssumption`: there are clients and replicas, latencies are positive naturals,
the values for "none" and for exceptions are none of the others. `ThreadAssumption`:
every thread updates or reads. Nothing bounds the numbers of clients, replicas,
updaters, readers and calls.

`ConcurrentTable_proofs`: `TypeCorrect` (`Spec => []TypeOK`) and
`NeverOvercountsCorrect` (`Spec => []NeverOvercounts`): however many threads race, no
record that can be reached has more samples, or a larger sum, than the results that
have been stored. Neither is inductive. The invariant that is, `IInv`, has three parts:

* `TypeInv` (in `RoutingTable_proofs`): `RTTypeOK`, and `RefInv`, both parts of `TypeOK`:
  the row bound to a client, or held by a thread, is a row *of that client*, the record bound in a row is
  a record of that client and replica, and a thread past a lookup does hold what it
  looked up. Without it a store could land in a record of another client.
* `HistoryTyped`: the counters of stores are naturals.
* `CountInv`: the bound of `NeverOvercounts` for **every** record, reachable or
  not, and for the value `val` that a thread has read and not yet written back.
  The last is what a lost update needs: the thread writes `val + 1` over
  whatever is there by then, so `val` must itself be bounded by the stores up to now.

`UndisturbedMinimum` (`Spec => []UndisturbedIsSequential`). The
invariant `MinInv` says of each thread that no update has overlapped: the table is
`Settled` for its client; the iterator is that of the bound row and has its keys
(`Seen`); a lookup finds what is bound and makes nothing (`Sees`); and the best replica
so far is not above any of those `Compared`. The step that counts is `Frozen`: while a client
is settled, no step of any thread changes its row. It fails without the second part
of `Settled`, since a minimum that was overlapped can still create a record. Averages
are fractions, so the step from one comparison to the next is `FractionsTransitive`.

If there is at most one updater (`SoleUpdater`, the hypothesis of
each theorem), and any number of readers,

* `SoleUpdaterLosesNothing` (`Spec => []SoleUpdaterExact`) and `HalfRecordsPass`
  (`Spec => []HalfRecordsAreTransient`),
* `BestIsNearest` (`Spec => []BestReplicaAssigned`): what `table_best` refutes for two,
* `ImplementsLatencyStats` (`Spec => StatsSpec`), the refinement.

`SoleInv` says why: rows and records that are not bound are empty, every reference is
to what is bound, and the value read is still the one stored, as only the updater makes or
stores anything (`MakersAdd`: a reader looks up what is there). `ExactInv` is then kept
by the two stores, and `BestIsNearest` follows from it and `MinInv` by dividing
a comparison of averages by both counts. For the refinement, `CommittedIsCounted` writes
the abstract state with the counts alone, and `CountStep` shows that nothing but
`StoreSamples` changes one.

### The DNS server

`DnsServer_proofs`, for any clients, replicas, queries, faults and order of the
replicas (`ServerAssumption`): `TypeCorrect` and `AnswersHaveReasons`
(`Spec => []AnswersAreJustified`). The invariant follows what has been heard through the
table: a record (`RecordsHeard`), an argument (`ArgHeard`), an iterator (`IterHeard`) and
the result of a minimum (`MinFor`) are each for a client and a replica of which an
average has been heard, or, for the last, an exception.

`GeoRouting_proofs`, for any finite set of replicas, any order of them, any number of
threads, any size of the cache and any radius (`GeoAssumption`): `TypeCorrect`, `AsinIsDefined`
(`Spec => []DistanceDefined`), `OneUnknownReplicaFailsAll` (`Spec => []AnswersNeedEveryLocation`)
and `ChoiceIsNearest` (`Spec => []AnswersAreNearest`). `AsinIsDefined` is arithmetic: a cosine
lies between -Radius^2 and Radius^2 (`CosineBounds`, the inequality of Cauchy), and
`DistanceBounds` follows for the product of two. The invariant has `Cached`: an entry is of a
host once and says what the database says, which `AppendCached`, `PartCached`, `UsedCached` and
`StoredCached` keep. So a hit returns what a read would; `Search` says of each thread which
replica is the first of the nearest among those it has compared (`IsNearest`, kept by
`NearestGrows`), and `Right` says it of the replica it has answered.

### The replica server

`ReplicaServer_proofs`, for any requests, preloads with any lists of paths, pings and
workers, and every kind of failure (`ReplicaAssumption`, `BodyAssumption`):

* `TypeCorrect`; `GuardsAreReturned` (`Spec => []GuardsBelong`); `PreloadsAreComplete`
  (`Spec => []PreloadedIsCached`).
* `SolePreloadNeverRegresses`: with at most one preload, `Spec => CacheNeverRegresses`.
* `ImplementsContentService`: `Spec => ContentSpec`, the refinement.

The invariant has `Labels` (which handler has which steps), `Texts` (what a task holds,
or the cache, or a reply, is a text the origin has had for that path), `Belongs` and `Progress`
(the paths a preload is through with, the one in its hands and those still to come are its
list, in this order, and the first are cached, also after a panic). `Belongs` is
`GuardsBelong` for any lock and any labels, so that `AcquireBelongs` and `ReleaseBelongs` are
facts about the lock alone. They rest on `GrantServes`: the readers that `Grant` serves at
once are those in front of the first writer, which exists because a set of numbers has
a least element (`LeastNumber`). `SolePreloadNeverRegresses` adds `Newer`: the text a
preload is about to insert is no older than the one that is cached.

### Lookups in a database

`MaxMindReader_proofs` proves, for addresses of any two lengths, any set of well-formed
databases, any number of threads, and a reader in memory or mapped:

* `TypeCorrect`: `Spec => []TypeOK`, where `WithinAddress` bounds the walk of each thread by
  the bits of its address.
* `ReadNodeIsRecord`: reading a node's bytes gives the record back, for each layout.
* `LookupsCorrect`: `Spec => []LookupCorrect`. A lookup that returns a record has
  found the network that contains the address, with its prefix length; one that
  returns none has found that there is no such network.
* `ErrorsCaused`: `Spec => []ErrorsHaveCause`.
* `StartNodeCorrect`: `Spec => []StartNodeExact`.

Assumptions: `BitsAssumption` (IPv4 addresses are the shorter ones),
`DatabaseAssumption` (databases are well formed; a corrupt file may loop over
wrong nodes and is outside of the theorems) and `ReaderAssumption`.

The argument is a descent. `Reached(d, p, n, v)` says that `v` is the record at
the end of the first `n` bits of `p` and that all shorter prefixes are nodes. It
holds at the root, a step of either loop takes it from `n` to `n + 1`
(`NextReached`, which rests on `ReadNodeIsRecord`), and where it ends the kind
of the record decides (`KindOfRecord`, `NoNetwork`). The inductive invariant adds
to the properties that each thread's loop has reached its node: along zeros in
the first loop; along the whole address in the second, or out of the tree within
the zeros, with `i = 0`. That last case is why the prefix of an IPv4 address can
be 0 in an IPv6 database. `StartNodeExact` carries the descent from the thread that
computed `_ipv4_start` to those that start there.

### The file and its decoder

`DatabaseFile_proofs`, for any number of threads, any files with any bytes, any limit of
recursion, every mode and platform (`FilesAssumption`: sizes and places are naturals, bytes
are 0..255; `DepthAssumption`, `ThreadsAssumption`, `ModesAssumption`):

* `TypeCorrect`: `Spec => []TypeOK`. Of a corrupt file too, a thread decodes no deeper than
  the interpreter allows, reads at natural offsets, and its call ends with one of the errors
  this code raises.
* `LockIsGivenBack`: `Spec => []LockOfAReader`. Whoever holds the lock is in the middle of a
  read; no thread keeps it when it returns, raises or is idle.
* `ReadsAreNotMixed`: `Spec => []ReadsItsOwn`. What a read returns are the bytes of the
  reader's file at the offset *this* thread asked for, though all threads share one offset;
  the exception is a descriptor that was taken before a close and then given to another file.

What one step of a decoder does is settled first, by lemmas without variables: `GotOk` and
`HandedOk` say that a well-formed stand (`StandOk`: a `PointOk` point and a stack of
`FrameOk` frames) is followed by a well-formed one, whatever bytes were read. The invariant
`IInv` adds what is about the sharing: `BufferHeld` (the lock is held only where it is used),
`ReaderHeld`, and, for each thread, `ThreadHeld`: it has begun a read only if it is about
to read; if its buffer seeks, then it has begun exactly when it holds the lock, and **the
shared offset is its own**. That last part is what a second thread would break if it could seek
without the lock.

Two more have a hypothesis, `FilesAreSound`: of each file that is called sound, a thread
*alone* decodes the metadata, which have no fault and say where the data are, and the value at
each place. In `Leads(run, ...)`, `run[n]` is where such a thread stands after `n` steps.

* `DecodedAsAlone`: `Spec => []DecodeCorrect`. Then any number of threads, in every mode, and
  whenever the reader is closed, decode these values.
* `OnlyClosingFails`: `Spec => []ErrorsHaveCause`. Then a sound file is opened in
  each mode that is supported, and a call raises only what reading a closed buffer raises.

The argument is a simulation: each thread is `On` the run of its place (`Follows`), or has
met the close (`Failing`). A read takes it one step along the run, by `ReadsAreNotMixed`; where
the run has ended, it has its value. That a given file *is* sound is a matter of what a
recursive decoder computes, by induction over the data: this TLC checks for the three sound
files of `mmdb_decode`, whose behaviours include those of a thread alone. So the theorems say
that concurrency, modes and closing change nothing, and TLC says what there is to change.

### Callers of geoip2

`GeoIp2_proofs`, for any number of callers, reader or client, states each safety property of the
run `geoip2` as a theorem:

* `TypeCorrect`: a call ends with a model or an error that geoip2, or Python, has; of a
  reader, with none but `ReaderErrors`.
* `ModelsOfTheirAddress` (`Spec => []ModelsKeepTheirAddress`): a model has the address of its
  own call, and a network in which every address has the record it was made of.
* `NotFoundIsOfTheLargest` (`Spec => []NotFoundNetworkIsLargest`): the network an
  `AddressNotFoundError` names is empty, and the next larger one is not.
* `ModelsReflect` (`Spec => []ModelsReflectResponses`), for every response and all locales.
* `EqualUntilOneIsLooked` (`Spec => []EqualUntilLooked`).
* `EachAnswerIsHeeded` (`Spec => []AnswersAreHeeded`), whatever the service answers.
* `NoSessionLeaks` (`Spec => []SessionsDoNotLeak`).

The invariant `IInv` has `VarsTyped`, `SessionsKept` (a `Client` has one open session, an
`AsyncClient` none, or one, open or closed: `GetSession` and `CloseClient` keep that whatever
calls are under way), and for each caller `CallInv`: `Recorded` follows the decoded record through
the two stores of `_model_for` (it is that of a network around the address of this call, and
holds the address, then the prefix too), `Heard` is the answer of this call, and `OutcomeHeld`
what the call has ended with (`ReadModel`, `SentModel`, `ReadError`, `SentError`). The properties
of networks then follow from `LeavesAt` and `Within`: networks that contain one address are
nested, so in a database whose networks are apart there is one around it at most.
`ModelsReflect` goes through the data classes one by one; nothing in it depends on the state.

Assumptions: a database is a set of networks that are apart (`DatabasesAssumption`; the
format cannot express others), addresses have one of two lengths (`AddressesAssumption`),
an answer has a status, and one that is an object is one of the responses, or has a part
that is no object, of which no model can be made (`AnswersAssumption`), the value None is no address and no network (`CallsAssumption`). Of
responses, `ResponsesAssumption` says that their subdivisions are a list, that they do not say
`prefix_len` themselves, and that two names of responses stand for two responses: else models of
different names would be equal, which would say nothing about the code.

### What is only model-checked

* Liveness: `QueriesEnd`, `PingsForever`, `TableConverges`, `RequestsEnd`, `PreloadsEnd`,
  `DecodesEnd` and `CallsEnd`. The prover cannot treat fairness.
* What the decoder computes of given bytes: that the three files are sound (above).

Every other property of a run that passes is a theorem.

## 5. Observations without a run

Met while modelling; each follows from the modules, none has a run of its own.

* A `resolve` between the creation of a row or record and the store of its count
  raises `ValueError`, `ZeroDivisionError` or `RuntimeError` (`NextKey`,
  `GotSamples`): the query is not answered, as nothing handles it.
* A minimum that an update has overlapped may create a record in the new row of its
  client after that update has ended. A later minimum can then raise
  `RuntimeError` although nothing updates the table.
* A second query of a new client that arrives while the first is measuring is
  answered from the unfinished row, not by geography.
* A client that answers no ping never gets a row: each of its queries pings every
  replica first, then is answered by geography.
* A file of `./disk` that does not decompress closes the connection of every request
  for it, as nothing falls back to the origin.
* A replica that refuses a ping leaves every query of a new client unanswered.
* Two overlapping preloads of one path may insert the older text last. The
  deployment preloads once, which `CacheNeverRegresses` is checked for.
* A 4xx page of the origin is served as 200, and cached by a preload.
* `proxy` does not insert what it fetched on a miss, so a path that was not
  preloaded misses for ever; README.md:29 describes an LFU replacement that the code
  does not have.
* An IPv4 lookup in an IPv6 database can return the prefix length 0 for a network
  that is wider than the zeros in front.
* Of a corrupt file, decoding raises `IndexError`, `struct.error`,
  `UnicodeDecodeError`, `TypeError`, `KeyError` or `RecursionError` as often as
  `InvalidDatabaseError`. The test of `decoder.py:167` never holds.
* A reader whose metadata cannot be decoded leaves its buffer open
  (`reader.py:93-101`); only a file without a marker is closed again.
* After a close, a thread that has taken the descriptor already may read another
  file, which the program has opened meanwhile.
* In MODE_FILE a marker at the very end of the file is not found.
* Reading `network` of a model changes what the model is equal to.
* An `AsyncClient` that was closed keeps its closed session: later calls raise
  `RuntimeError`. A `Client` goes on to work after `close`.
* An answer that is JSON but no object, or has a part that is none, makes both clients raise
  `TypeError` or `AttributeError`; an answer without a Content-Type is a `KeyError` of `Client`.
* One replica that the location database does not list, or has no coordinates for,
  makes the query of every new client raise.
* Nothing removes a client from `CLIENTS` or from the table, and the body of
  every ping names them all.

## 6. What is not modelled

* The earlier HTTP servers, `main_tide.rs` and `main_actix.rs`: they lie outside of
  the Cargo package, whose dependencies do not name their frameworks, so nothing
  builds or deploys them.
* The C extension of `maxminddb`, which is not in the repository; a mapping on
  a platform without `mmap` (MODE_MMAP there fails before it does anything).
* DNS parsing and packing (`dnslib`), logging, arguments, socket set-up: no state.
* `warp`'s routing: `/ping` other than POST and nested paths go to no handler
  modelled here or to `proxy`; `beacon` has no state.
* Floating point, and the times 100 s and 10 s.
* Two addresses of one replica: a line of scamper's names the address it was sent from
  (`src`), which is taken to be the one the replica was asked by.
* A search tree with a record size the format does not have (`reader.py:208-209`):
  `WellFormed` excludes it.
* `UPDATE_ROUTING_TABLE_FREQUENCY`, `PriorityQueue` and `urlopen`: unused.
* The deployment scripts: lists of `ssh` and `scp` commands, without state of their own.
* The text of representations, messages, URLs and user agents of `geoip2`.

## 7. Plan

Done, in this order: `RoutingTable`, `ConcurrentTable` with `LatencyStats` and
the first proofs; `DnsServer`; `GeoRouting`; `ReplicaServer` with
`TokioRwLock` and `ContentService`; `SearchTree` and `MaxMindReader` with proofs;
the locations of `GeoRouting`, later with threads that share their cache; `GeoIpRecords`, `GeoIpCalls`, `GeoIpReader`, `WebClient` and `GeoIp2`;
`FileBuffer`, `MaxMindDecoder` and `DatabaseFile`; the proofs about `DnsServer`,
`GeoRouting`, `ReplicaServer`, the minimum and the sole updater; the proofs about `DatabaseFile`,
for which the steps of the decoder became functions, and about `GeoIp2`.

Next: action properties that follow from the invariants proved (what is bound in the table
stays bound, a session that was closed stays closed); a refinement that states the reader of
`geoip2` over an abstract map of networks to records.
