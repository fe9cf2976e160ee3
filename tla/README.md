# A TLA+ verification project for modbusone

modbusone is a Go library for Modbus: clients (masters) and servers (slaves) over
serial lines (RTU) and TCP, with a failover mode in which two clients, or two servers,
share one line. This directory holds TLA+ modules that model the library, TLC
configurations that check them, and TLAPS proofs.

## 1. The system

| Part | Source | State | Operations | Talks to |
|---|---|---|---|---|
| Function codes, PDUs, errors | `modbus.go` | none (pure) | make, read, validate a PDU | everything |
| Data codec | `data.go` | none (pure) | bools/registers to bytes and back | handlers |
| Request splitting | `rtu_client.go:312-342` | the loop's locals | `MakePDURequestHeadersSized` | callers of a client |
| `SimpleHandler` | `simple_handler.go` | the application's tables | `OnRead`, `OnWrite`, `OnError` | clients, servers |
| RTU frames, CRC | `serial_rtu.go`, `crc/` | over-size switches | `MakeRTU`, `GetPDU` | clients, servers |
| `rtuPacketReader` | `packet_reader.go` | left-over bytes, last packet, last read time | `Read` | clients, servers, failover |
| Serial context | `serial.go` | port, counters | `Read`, `Write`, `Close`, delays | the above |
| `RTUClient` | `rtu_client.go` | one transaction, `actions` channel, reader goroutine | `ServeRTU`, `StartTransactionToServer`, `DoTransactions`, `Close` | handler, port, callers |
| `RTUServer` | `rtu_server.go` | none between requests | `Serve`, `Close` | handler, port |
| `FailoverSerialConn` | `failover.go` | active/passive, misses, the request awaited, times, a lock | `Read`, `Write` | RTUServer, FailoverRTUClient |
| `FailoverRTUClient` | `failover_rtu_client.go` | as RTUClient, and the last packet overheard | `Serve`, ... | FailoverSerialConn |
| `TCPClient`, `TCPServer` | `tcp_client.go`, `tcp_server.go` | connection, exit error, lock | `Serve`, `DoTransaction2` | handler, connection |

How they interact. A caller sends a `clientStart` on the unbuffered channel `actions` and
waits on an `errChan` of its own. `ServeRTU` receives it, asks the handler for the data of
a write, writes the frame and then selects between a timer and `actions`, on which the
reader goroutine offers packets and, once, an error. The server reads a packet, calls its
handler and writes the reply after a delay. Both count what they drop in the port's
statistics. Both read through an `rtuPacketReader`, which cuts frames out of the bytes of
the port. A `FailoverSerialConn` sits between a server, or a `FailoverRTUClient`, and the
port: it hears both directions of the bus, and drops what its owner writes while its twin
is thought to be active. Over TCP the callers themselves write and read, one at a time
under a lock, and `Serve` only waits for the end; the server runs a goroutine for each
connection.

What is hard here: callers, the reader, the timer and `Close` meet in two different loops
of `ServeRTU`; a reply may be late, lost, damaged or from another server, and nothing in
an RTU frame says which request it answers; a server may execute a request whose reply is
lost; a broadcast is never answered; address arithmetic is 16 bits wide; the failover
connection guesses from timing and shape alone which packets are requests and which are
replies. `PROJECT.json` lists these under `hazards`, each at its line.

What makes each part correct:

* splitting: the requests tile the range, exactly, and the loop ends;
* the client: one transaction at a time, each answered once, every packet accounted for,
  `Close` effective;
* client and servers together: a caller is told that its transaction succeeded only if the
  addressed server executed it, once, and then the right values were moved;
* packet reader: what is returned is a whole frame, every frame that arrives whole after a
  gap is returned once and in order, and `Read` never spins;
* failover servers: never two voices (under the premises of section 2), the standby
  executes what the active one executes, and as long as one of them is up the client is answered;
* failover clients: both handlers learn the same values, the primary comes back, and as
  long as one of them is up the server is asked;
* TCP: the same promise as client and servers on a bus; `Serve` knows why it ends, and
  every call returns.

## 2. Modules

| Module | Models | Checked by |
|---|---|---|
| `Modbus` | pure functions of `modbus.go`, `IsRequestReply`, `GetPDUSizeFromHeader`, frames | all runs |
| `RequestHeaders` | `MakePDURequestHeadersSized`, a step per iteration | `request_headers`; proofs |
| `RequestHeadersProofs` | theorems about it | tlapm |
| `Data` | `data.go`; `MCRTULink` compares its closed form of the packing with the loop of the code | link runs; proofs |
| `SimpleHandler` | `simple_handler.go` over the tables of an application that refuses what they do not hold | all runs with a handler |
| `Handling` | what a server makes of a request: read, write, exception reply | link, failover, TCP runs; proofs |
| `HandlingProofs` | theorems about the codec, `SimpleHandler` and a server's handling of one request | tlapm |
| `CRC` | `crc/`: the tables, the running sum, `Validate`; a reference by division | `packet_reader`, `two_wire_reader` |
| `PacketReader` | `rtuPacketReader.Read` and the size functions, over bytes | `packet_reader`, `two_wire_reader`; proofs |
| `PacketReaderProofs` | theorems about it | tlapm |
| `RTUClient` | `ServeRTU`, its reader, its callers, `MultiIDHandler` | client and link runs; proofs |
| `RTUClientPort` | `RTUClient` on a port that delivers anything, bounded for TLC | `rtu_client`, `caller_abandoned`, `onerror_panic` |
| `RTUClientProofs` | the client's inductive invariant and its types, step by step; theorems about it on any port | tlapm |
| `RTUServer` | `Serve` of several servers | link runs |
| `RTULink` | a client and servers on one bus | `rtu_link`, `rtu_link_live`; proofs |
| `RTULinkProofs` | theorems about it; the refinement of `Transactions` | tlapm |
| `FailoverConn` | `FailoverSerialConn`: its operations as functions on a record | failover runs |
| `FailoverServers` | two servers behind `FailoverConn`s, and a client | `failover_servers`, `forced_back`; proofs |
| `FailoverServersProofs` | types of the connection's operations and of the pair; the invariants behind `OneVoice` and `StandbyInSync` | tlapm |
| `FailoverClients` | two `FailoverRTUClient`s, their goroutines, and a server | `failover_clients`; proofs |
| `FailoverClientsProofs` | the invariant behind its types and `StandbyInSync` | tlapm |
| `TCP` | `TCPClient` with several callers, `TCPServer`, byte streams | `tcp`; proofs |
| `TCPProofs` | theorems about it; the refinement of `Transactions` | tlapm |
| `Transactions` | what client and servers promise together, without bytes, timers or goroutines | refined by `RTULink` and by `TCP` |
| `MC*` | constants for TLC | |

Conventions. A PDU is a sequence of bytes; a Go error is a number (0 is nil, 1..255 are
exception codes). A pair of results is a record with a field `err`. Bools are bits. A
definition whose comment starts with "Mutant:" is a plausible mistake in the definition
after it: put in its place, it makes one of the properties fail, which shows that the
property depends on that code. Nothing else uses it.

### RTUClient and the code

| Model | Code |
|---|---|
| `caller[c]` (`pc`, `b`, `i`, `err`) | a goroutine in `DoTransactions`: its batch, index, last result; `wait` is `<-errChan` |
| `serve` = `outer` / `write` / `read` | `ServeRTU` at line 150, at 170-171, in `READ_LOOP` |
| `serve` = `returned` / `panic` | returned, with the deferred `Close`; unwound by `OnError`'s panic |
| `act` | `act.data`, `act.errChan` (as `from`) and `afc` |
| `reader`, `held` | the goroutine of lines 130-147 and the packet it offers |
| `in`, `open` | what `packetReader.Read` will return; the port is open |
| `mem` | the memories behind the handlers |
| `stats` | the counters of `com.Stats()` that `ServeRTU` increments |
| `written`, `taken`, `accepted`, a packet's `txn` | history variables; no guard reads them |

A send on an unbuffered channel and its receive are one step. The answer on `errChan` and
the caller's next move are one step too, because the caller touches nothing shared in
between. Each packet branch of `READ_LOOP` is an action: `DropOtherID`, `BadPacket`,
`ExceptionReply`, `UnexpectedReply`, `ReadReply`, `WriteReply`. The other selects are
`Timeout`, `Overlap` (another caller's request) and `TakeReadError`.

### RTULink and its refinement

`RTULink` composes the client with servers and a bus that keeps order and may lose any
packet at any receiver. `Transactions` is the abstract specification. The mapping decodes
each frame written into the request it carries, reads off `serve` and `act` whose request
is waiting, takes the memories as they are, and maps `told`, the error that each caller was
told last, from what it received on its `errChan`; `log`, the history of what each server
executed, is a variable of both. The abstract `Execute` allows a server to execute a request
at most once, in the order of issue, perhaps after the client gave up. `Succeed` is the only
way to tell the caller of a read or of a write that all is well. It requires that the
addressed server executed this very request and did not refuse it, and that the values left
at the client are those of that execution. `Fail` and `Refuse` tell an error and leave the
client's copy as it was. A broadcast is reported as a success when it is issued, which is all
the code knows. Nobody else writes to the servers of a bus (`OthersWrite` is `FALSE`).

`Timely` states that the client's timeout (`GetTransactionTimeOut`) exceeds what a server
and the line can take: the timer fires only when nothing is on its way. Without it neither
`NoStaleReply` nor the refinement holds, because RTU replies carry no request number: a late
reply to an earlier read of the same length is accepted for a later one. With `Timely` set to `FALSE` in `rtu_link.cfg` TLC
finds `NoStaleReply` violated, and with a caller that gives up a read and asks the same again
`ImplementsTransactions`.

`Deployment` of `RTULink` is the other hypothesis of the proof of the refinement: every
request is one that `MakeRequestHeader` makes (`IsRequestHeader`). `MCRTULink` assumes it, so
TLC evaluates it for the constants of the runs.

### PacketReader and the code

A step is one iteration of the inner loop: `TakeLast` (lines 65-67), `PortRead`,
`PortEmpty` and `PortFail` (68-98), each with what follows it up to the next read, so
`Finish` (117-137) is part of the step that completes a frame. The port may return any
number of the bytes that have arrived. Of time only one thing is kept: `late`, that the
cutoff has passed since the last read; `Pause` sets it. Frames carry real checksums,
computed by the reference division, while the reader uses the code's tables.

History variables say what a reader may be held to. `clean` holds from a pause with
nothing left to read until something other than a whole frame arrives, a pause falls
between the bytes of the port, or a read fills the buffer; `tail` are the frames since
then. `Delivered` says that they have all been returned whenever `Read` waits with nothing
left. `Settles` gives the variant that makes `Read` end: the bytes held, then the bytes not
yet looked at.

### The failover connection and the code

`FailoverConn` is pure: each of `serverRead`, `clientRead` and `Write` runs under the lock
and is one function from a connection to the next one and to what its caller sees. A time
is only known as before or after the delay it is compared with: `requestTime` against
`MissDelay`, `lastRead` against `PrimaryDisconnectDelay` (`disconnected`), `startTime`
against `PrimaryForceBackDelay` (`forceBack`). `Write` of an active failover server, which
sleeps without the lock, is `Sleep` and `WakeUp`.

`FailoverServers` puts an `RTUServer` loop behind two of them, with a client and a bus
that everybody hears. A server may stop in any state, with its application, and start
again from nothing. Assumed, because the code asks for it: the primary replies within
`SecondaryDelay`, the failover within `MissDelay`, the client waits longer than
`MissDelay`; and nothing is lost on the bus.

`Deployment` collects the premises of `OneVoice`. None of them is checked by the code, and
without any one of them it goes wrong, as TLC shows when the constant it is about is changed:

* The primary is not started while its failover, passive, has a packet to read or has counted
  a miss (`StartsEarly` is `FALSE`). It may start while the failover is down, is active, or has
  missed nothing. Otherwise both may turn active with the same request.
* `PrimaryForceBackDelay` ends only while the bus is quiet and the failover is passive
  (`ForcesBack` is `FALSE`). `failover.go:115` asks nothing but the clock. A primary that is
  forced back beside an active failover answers what the failover answers: `forced_back`. The
  failover does not step down either. `Serve` reads nothing while `Write` sleeps and `Write`
  resets `requestTime`, so the replies of the primary are read as requests, and lines 154-160,
  which are to notice the interruption, are not reached.
* The client asks nobody else (`f.id` is 0 or `SlaveID`). A request to a third server leaves
  `requestTime` set, since nothing is written for it, and makes an active failover step down at
  the next packet (lines 154-160) without any primary.
* The failover's `MissesMax` exceeds the primary's by two or more, and the primary's is not
  0: with 0 and 1, 0 and 2, 1 and 2, 2 and 2, or 2 and 3 both may turn active. Section 4 says
  why. The defaults are 2 and 4.
* The application serves every request it is sent. `IsRequestReply` does not know an
  exception as the reply to a request (`failover.go:182`): it counts as a miss, and so does
  the request after it, until the failover turns active beside a primary that works.

`Memories` and `Pdus` are sets closed under what a server does with a packet; the reachable
ones are computed in `MCFailoverServers`. The field `isReply` of a packet on the bus is
history: no connection reads it, and the invariants use it to say which packet is which.

`FailoverClients` models the two goroutines of `FailoverRTUClient.Serve`, the unbuffered
channel and the callers. Both applications poll at the same pace; a client that polls
faster than its twin would take the silence for a failure. `ServeStart` takes a
transaction up to the end of `Write` in one step, since the steps in between touch
nothing another goroutine reads except under the connection's lock, in `Write` itself.
`ServeWritten` is a step of its own: `isActive` is read again there after the lock was
given up. `fresh` are the clients that no packet escaped: it leaves out a client after it
dropped the packet of line 219, skipped a reply at line 166, or asked while something else
was on its way. `StandbyInSync` is about the others.

`Deployment` of `FailoverClients` is the hypothesis of its proofs, and `MCFailoverClients`
assumes it for the run: memories hold values of their Go types, requests are ones that
`MakeRequestHeader` makes, a broadcast is a write, and no read that is asked looks like the
reply to another request. The last is needed because a client that listens knows a reply
only by its bytes. The address of a read stands where a reply has its length: a read at an
address of 768 to 1023 is taken for the three bytes that answer a read of 17 to 24 coils,
if it follows one that nobody answered.

### TCP and the code

Streams are sequences of bytes, with real MBAP headers; `readTCP` says what a stream holds
so far: a frame, an error, or not enough. A caller in `DoTransaction2` is at `lock`,
`send`, `read`, `reply`, `cancel` or `done`. `Close`, and a transaction that takes the client
down (`Breaks`, `Cancels`), are two steps, because they set `exitError` before they cancel and
another goroutine may run between. The abstract specification is the `Transactions` of the
RTU link, the error that each call returns included (`Told`), with one server that others
write to as well (`Disturb`):
a stranger's write changes what the server holds at any moment, and must change nothing else
the abstraction sees. `Deployment` is what the requests have to be for that: at most
`MaxPDUSize` bytes, a read for at most `MaxPerPacket` values, and the header of a write one
that `MakeRequestHeader` makes. A read for more may be answered by a frame that the
client's buffer cannot take: the client then fails with its bytes still in the stream.

## 3. Runs

| Run | Shows | Bounds |
|---|---|---|
| `request_headers` | `Tiling`, `WithinLimits`, `CoversRange`, `FailsOnlyOutOfRange`, `Terminates` | 6 codes, 5 addresses, 9 quantities, 11 limits: zero, one, both sides of a packet's capacity and of the end of the address space |
| `rtu_client` | `OneTransaction`, `DropsAccounted`, `WaitersAnswered`, `CloseStopsServe` | 2 callers with 5 requests; 2 arrivals out of 7 packets, one for each branch; write errors; close at any time |
| `caller_abandoned` | expected violation | 1 caller, 1 read, close |
| `onerror_panic` | expected violation | 1 caller, an id without a handler |
| `rtu_link` | `ImplementsTransactions`, `NoStaleReply` | 1 caller, 2 servers, 4 requests (a write, a read of what it wrote, a broadcast, a refused read), two wires, losses, servers that stop, close |
| `rtu_link_live` | `ImplementsTransactions`, `AllSucceed` | 1 caller, 2 servers, the 8 function codes, no faults |
| `packet_reader` | `ReturnedWhole`, `Delivered`, `Settles` | 4 kinds of reader, scripts of 2 or 3 frames with a stray byte, a damaged frame or a header that lies about its length; a buffer of 26 bytes, so that it can fill; a pause or a close at any point |
| `two_wire_reader` | expected violation | server 1 hears a write to server 2, its reply, and a read for itself |
| `failover_servers` | `OneVoice`, `StandbyInSync`, `SomebodyAnswers` | the default `MissesMax` (2 and 4), 3 requests (write, broadcast, read), 2 stops, 2 packets queued |
| `forced_back` | expected violation | the default `MissesMax`, one request, 1 stop, 2 packets queued, a force-back at any time |
| `failover_clients` | `StandbyInSync`, `PrimaryComesBack`, `SomebodyAsks` | `MissesMax` 2 and 3, one fault of any kind, 5 requests out of turn |
| `tcp` | `ExitReason`, `ImplementsTransactions`, `AllReturn` | 2 callers with 4 requests (a write, a read, a write the server refuses; a request with a byte too many), a stranger that writes a register or sends one of 3 kinds of bad bytes, `Close` of either side at any point |

Two arrivals are enough for `rtu_client`: a packet can be dropped outside a transaction or
by id and the next be taken by the branch under test; the proof below removes the bound
for the invariants. Two stops in `failover_servers` let each server stop once, or one of
them again after it came back. In `failover_clients` the failover's `MissesMax` is one less
than the default, still more than the primary's, which is all the code relies on; one fault
is followed by any number of rounds. Its invariants were also checked once with the default
4 and with two faults (3.7 million states), too long for the regular run. Deadlock is not
checked: every run may end, when the work is done, a port has failed or the client has
returned.

Four runs are expected to fail. They state what a comment in the code, or its README, says:

* `caller_abandoned`: when the port closes while a reply is awaited, `ServeRTU` returns at
  `rtu_client.go:198` without answering, and the caller waits for ever. (`Overlap` leaves
  the second caller waiting in the same way; `EveryTransactionAnswered` covers both.)
* `onerror_panic`: a read to an id without a handler is sent; an exception reply to it
  panics at `rtu_client.go:122`.
* `two_wire_reader`: after a request `GetRTUBidirectionalSizeFromHeader2`
  (`packet_reader.go:250`) prefers to read the next packet as a request, too. The reply of
  another server to a write of several registers is then given a length made of its
  checksum, and this server's own request disappears into it until the cutoff drops both.
  It happens unless that checksum byte is so small that the bytes that follow make up the
  length before the cutoff.
* `forced_back`: the primary stops and starts again, `PrimaryForceBackDelay` ends while the
  failover is active and a request waits to be read by both, and both answer it, where the
  README promises two devices that "appear as a single device" and a failover that is "to stay
  quiet on the port until the primary fails" (`src/README.md:302-304`).

`FailsOnlyOutOfRange` takes the end of the address space from the code, which refuses a range
that ends with address 65535 (`rtu_client.go:325`, `modbus.go:169`, `modbus.go:379`), although
`modbus.go:90` calls that "the largest address".

Fairness. `WF` on the steps of `ServeRTU` and of the reader: Go schedules its goroutines,
the timer of a transaction fires, and `ServeRTU` has at every point one step it is waiting
for. Nothing is assumed of the wire, of callers or of `Close` in `rtu_client`. In
`rtu_link_live` the servers, too, are assumed to run. `FairSpec` of `RequestHeaders` says
that a call that does not block goes on. In `tcp` goroutines are scheduled, `sync.Mutex`
lets a waiting caller in eventually (`SF` on `Lock`; the mutex of Go hands over to a
starving waiter), the application calls `Serve`, and a connection is accepted or refused;
neither side is assumed ever to be closed. In `failover_servers` a server that is up works
and the client goes on asking (`SF`, as it can ask only when it does not wait).
`SomebodyAnswers` has a premise, that broadcasts end: a broadcast between two requests
makes both servers forget the first (`failover.go:139`), so that no miss is counted. In
`failover_clients` something goes on while anything can (`WF` on all steps but faults and
the longer delays), and `PrimaryForceBackDelay` passes again and again (`SF`).

## 4. Proofs

`RequestHeadersProofs`, for every function code, address, quantity and limit:

* `HeaderInverse`: `GetFunctionCode`, `GetAddress` and `GetRequestCount` recover the
  arguments of `MakeRequestHeader`. It rests on the recovery of a 16-bit number from its
  two bytes (`TwoBytes`) and on the shape of each kind of header (`HeaderShape`).
* `SplitCorrect`: `Spec => [](TypeOK /\ Tiling /\ WithinLimits /\ CoversRange /\
  FailsOnlyOutOfRange)`. The invariant is strengthened by `LoopState`: what is left to
  split and what has been split always add up to the range asked for, so no 16-bit sum
  ever wraps, and `q` is the limit until the last chunk. Assumption: `ArgumentAssumption`
  (the arguments have their Go types).
* `SizedLimit`: for every size that is not negative `MaxPerPacketSized` returns a limit
  that `MakeRequestHeader` accepts and whose packets fit.

`HandlingProofs`, for every memory whose tables hold values of their Go types (`IsMemory`) and
every request:

* `ValuesRoundTrip` (from `BoolsRoundTrip` and `RegistersRoundTrip`): what `DataToBools` or
  `DataToRegisters` makes of the bytes that `BoolsToData` or `RegistersToData` made of any
  values is those values, for each of the eight function codes. `PackedBits` gives every bit of
  every byte; `ByteOfBits` is the arithmetic of one byte. The hypothesis on the count, at most
  65528, is the 16-bit sum of `data.go:30`.
* `Handled`: whatever bytes a server is sent, its reply is a packet, its memory keeps its types,
  and a request is executed as a whole or leaves the memory alone and is answered by an
  exception.
* `ReadServed` and `WriteServed`: the promise of client and server together for one
  transaction. What the client decodes from the reply to a read that is served is what the
  server's table holds in that range. A write of any values that `MakeRequestHeader` accepts and
  the table has room for is served, and leaves exactly those values in it. They go through
  `MakeWriteRequest`, `ValidateRequest`, `GetRequestValues`, `Handle`, `GetReplyValues` and the
  codec on both sides, for counts up to `MaxPerPacket`.
* `Executed`: the same seen from the reply alone, for the refinement below. Whatever memory and
  request, either nothing changed and the reply is an exception, or the request was executed
  whole and the reply says so, with the values of that moment. Its companion lemmas say what
  the client's side makes of it: `ReplyTaken` of a reply to a read, `WritePrepared` of the data
  of a write.
* `ServedIsReply`: the reply to a request that is served is one `IsRequestReply` accepts. With
  `Handled` it shows that the closure that `FailoverAssumption` asks for, and the last part of
  `Deployment`, hold of the library's own handlers for the requests they serve.

`RTUClientProofs` shows, action by action, that the client preserves its invariant and its
types, whatever port it is composed with. It concludes about `AnyPortSpec`, the client on a
port that delivers any packet at any time, for any callers, work, handlers and faults; the
behaviours of `RTUClientPort` are some of those of `AnyPortSpec`, since its `Deliver` is
`Delivers` within a bound. `RTULinkProofs` uses the same steps for the client on a bus:

* `ClientSafety`: `AnyPortSpec => [](ControlOK /\ OneTransaction /\ DropsAccounted)`. The
  inductive invariant adds only that `written` is a sequence (`WrittenIsSeq`, which makes
  `Append` meaningful without knowing what handlers put in a frame). `OneTransaction` is
  what carries the induction: because exactly the caller of `act` waits, an answer leaves
  nobody waiting (`AnswerFacts`), so the next request starts from a clean state.
  `TakeAccounts` is the counting argument and `EndPreserves` covers every branch that ends
  a transaction. Assumptions: `WorkAssumption` (requests are bytes, batches are not
  empty).
* `ClientTypeCorrect`: `AnyPortSpec => []ClientTypeOK`: whatever arrives, what the client writes are
  bytes and what its handlers hold are values of their Go types. It needs the codec lemmas of
  `HandlingProofs`, for a reply is decoded into the client's own tables and these are encoded
  into the next write. Assumption: `HandlerAssumption` (the header of a write is as long as
  `MakeRequestHeader` makes it, and handlers start with values of their Go types).

`RTULinkProofs`, for any callers, requests and servers, with two wires or four, with any losses
and any servers that stop:

* `RepliesNeverStale`: `ASSUME Timely PROVE Spec => []NoStaleReply`. The invariant `LInv` follows the one packet that
  can still lead to a reply, or is one: while `ServeRTU` is in `READ_LOOP` it is nowhere (lost,
  or never heard), in the inbox of the server addressed (`Asked`), being answered (`Replying`),
  on its way to the client (`Arrived`) or offered by the reader (`Offered`); at every other
  time, and at every other place, there is none. It is inductive because a timeout of a
  `Timely` client happens only when the packet is nowhere, and a request is written only
  outside a transaction. It is `ASSUME Timely`: without it the property is false.
* `LinkImplementsTransactions`: `ASSUME Timely, Deployment PROVE Spec => ImplementsTransactions`. The
  initial states map to the initial state of `Transactions`, and every step of the link is one
  step of it or a stutter, with the error that goes to the caller. A frame written is `Issue`,
  and a request that the handler or the port refuses `Refuse`; a server that handles a packet takes
  `Execute`, by `Executed`; `ReadReply` and `WriteReply` that accept are `Succeed`; a timeout, an
  overlapping request, a bad or unexpected packet, an exception, a reply that the handler
  refuses and a read error are `Fail`; everything else, losses, stops, closes and dropped
  packets included, changes nothing the abstraction sees. The invariant `RInv` joins `LInv` and
  the client's own invariant with
  * `Memories`: memories keep their tables and types on both sides;
  * `Prepared`: the request in progress is one a caller asked for, and while it lasts a write
    carries what the client's own table holds, so a success leaves both sides equal;
  * `Requested`: every frame written is such a request;
  * `Queued`: what a server has still to take are frames written, in the order of issue, after
    the last one it executed, so that it executes each at most once;
  * `Recorded`, `Replies`: a server about to reply has logged the execution its reply reports,
    and a reply on its way to the client, or held by its reader, reports a logged one.

  `LInv` is what makes `Succeed` go through: the reply accepted is to the last request, so the
  execution it reports is of this transaction. Assumptions: `WorkAssumption`,
  `HandlerAssumption` and `ServersAssumption` (memories hold values of their Go types).

`PacketReaderProofs`, for any bytes, cut by the port in any way, any pauses and faults:

* `TypeCorrect` and `OnlyWholePackets`: `Spec => []TypeOK` and `Spec => []ReturnedWhole`. The
  inductive invariant `IInv` adds that the histories are sequences and that `Read` holds
  nothing between two calls (`IdleEmpty`), without which a packet could start with bytes of
  the one before.
* `ReadSettles`: `Spec => Settles`. Every step of `Read` lowers `Work` lexicographically, and
  every component of it is a natural number, so `Read` cannot spin. The step that needs
  `IInv` is `TakeLast`: left-over bytes are taken only into an empty buffer and leave room.
* Assumption: `ReadersAssumption` (a reader has its Go types, a buffer holds more than the
  smallest packet).

`TCPProofs`, for any callers, memories and strangers that send any bytes, with `Close`, failures
and a closing listener at any point:

* `ExitsWithReason`: `Spec => []ExitReason`. The invariant adds that whoever is between the two
  halves of `Close` has set `exitError`.
* `TypeCorrect`: `ASSUME Deployment PROVE Spec => []TypeOK`, with what `TypeOK` says of the lock
  and the stream. The invariant `TInv` follows the one frame that can be under way (`Flow`):
  nothing is (`Quiet`), the last request is, whole and not yet executed (`Asked`), or a reply
  is, whole, and reports what the server logged for that request (`Answered`); on an open
  connection with nobody reading nothing is, and then the server has executed all that was
  written or has closed. `Framed`, `OneFrame` and `FrameRead` are about the bytes: what
  `readTCP` takes from a stream of one frame is the PDU that `writeTCP` put in, and nothing is
  left. `ReplyLength` is why the client's buffer has room for every reply, for every memory:
  without `Deployment` it is false.
* `ClientServerImplementTransactions`: `ASSUME Deployment PROVE Spec => ImplementsTransactions`.
  A `Send` that writes is `Issue`, one that fails is `Refuse`, the server's `Respond` to the client is `Execute`, by
  `Executed`, to a stranger `Disturb`; `WriteDone`, and `ReadDone` if the handler accepts, are
  `Succeed`; a failed read, an exception, an unexpected reply and a handler that refuses are
  `Fail`; everything else is a stutter. `Succeed` needs `Flow`: the reply read is to the last
  request, although no transaction number is compared, since none can be left from an earlier
  one; and `Prepared`: a write carries what the client's own table still holds when the reply
  comes. Assumption: `TCPAssumption` (requests and strangers' messages are bytes, every caller
  has work, memories hold values of their Go types).

`FailoverServersProofs`, for any requests, any application, any number of stops and any
backlog of packets not yet read:

* `TypeCorrect`: `Spec => []TypeOK`. `TInv` adds that what waits to be read or written is in
  `Pdus` and every memory in `Memories`. `ServerReadType` says what `serverRead` does to the
  types of a connection, whatever packet it is given. Assumption: `FailoverAssumption`.
* `NeverTwoVoices`: `ASSUME Deployment PROVE Spec => []OneVoice`. The two connections see the
  same packets at different times and each has its own backlog, so the invariant `VInv` is
  about what each will have counted when it has read what it has heard:
  * `Bus`, `Lined`: there is at most one request outstanding, it is the last packet of a
    backlog or has been read, and a reply is heard after its request;
  * `Ready`: a passive connection that has counted anything, or awaits a reply, knows the
    request whose reply it reads next, so that `IsRequestReply` clears its misses;
  * `Roles`: an active connection never hears a reply of the other;
  * `Patient`, `KeepsPace`: a failover at its last miss reads nothing before the reply of a
    primary that works, and is at most one miss ahead of a primary that counts as well. This
    is where `FailoverMissesMax >= PrimaryMissesMax + 2` is needed: when the primary turns
    active the failover has more than one miss to go, and the primary's next reply clears them;
  * A primary that is started beside a passive failover finds it without a miss and with nothing
    to read, and so at most one ahead of itself (`StartPrimaryVoice`);
  * `FreshFailover`, `Yields`: a primary that is started beside an active failover counts one
    miss at most, for the request it did not hear, before a reply clears it. This is where
    `PrimaryMissesMax >= 1` is needed.
* `StandbyExecutesAll`: `ASSUME Deployment PROVE Spec => []StandbyInSync`. `Replays(a, q, b)`
  says that there are memories that lead from `a` to `b` through the packets of `q`; the
  invariant `SInv` is `VInv` and, for a server that has missed nothing, that what it has heard
  and not yet read leads from its memory to `truth` (`InStep`), and that it takes a reply for
  a reply and nothing else (`Synced`), so that it executes every request and no reply.

`FailoverClientsProofs`, for any requests, memories and number of faults (both clients ask at once, a
port is closed, a packet has an error, the server is slow or off):

* `TypeCorrect`: `ASSUME Deployment PROVE Spec => []TypeOK`. `ClientOK` adds what `TypeOK` needs
  of each client: the reader has at most one packet on the channel, exactly while it is
  `sending` (`Channel`), and what waits on the channel or in `Serve` is a call that has not
  returned (`Calls`).
* `StandbyFollows`: `ASSUME Deployment PROVE Spec => []StandbyInSync`. `StandbyInSync` speaks only
  of a client that has taken all it heard, so the invariant has to say what the rest will do to
  it. `Replay(a, r, q, b)` says that the packets `q`, heard after `r`, turn the memory `a` into
  `b`, when each is paired with the one before it as `IsRequestReply` pairs them; `Following`
  says that the packet the reader offers (`Pending`) and then those in the inbox turn the
  client's memory into `truth`, starting from the packet that `Serve` pairs the next one with
  (`Expects`: its own request while it waits for the reply, the last packet overheard
  otherwise), and that the last packet is the read, if any, that the server answers next
  (`Asks`). The same `Following` holds of an active client that awaits its own reply and of a
  passive one that listens, which is why a switch in either direction loses nothing. It is
  claimed of the clients in `fresh` whose port is open and to which no error is on its way
  (`Sound`): an error ends `Serve`, and the client with it. `Apart` adds that at most one
  request is on its way to the server while some client is in `fresh`.
* Assumption: `FailoverClientsAssumption` (requests are frames of bytes, for the server or for
  everybody).

The other theorems of `RequestHeadersProofs` and `RTUClientProofs` state single conjuncts of
`SplitCorrect` and `ClientSafety`.

Only model-checked:

* `Terminates`, `WaitersAnswered`, `CloseStopsServe`, `AllSucceed`, `AllReturn`,
  `SomebodyAnswers`, `SomebodyAsks`, `PrimaryComesBack`: liveness is out of the prover's reach.
* `Delivered` of `PacketReader`: it is not true of all frames (`two_wire_reader` shows one
  that is not), and holds for those of the run.

## 5. Not modelled

* The delays in seconds (`BytesDelay`, `MinDelay`, `PacketCutoffDuration`): which delay is
  longer than which is an assumption of each module, stated in its head.
* The counters of the packet reader and of `FailoverRTUClient`, which are only incremented;
  `Clone`, `Reset` and `String` of the statistics. Those of `RTUClient` are modelled.
* Text output and formatting, `describe`, the example program's command line.
* `MatchPDU` and `Sum16`, which have no caller, and over-size packets, whose switches are
  constants of `Modbus` that the runs leave off.
* Packet loss on a failover bus: the pairing of requests and replies then goes wrong in ways
  the code accepts ("try to guess the best interpretation",
  `failover_rtu_client.go:64-65`).
* The unit byte of TCP: the client leaves it 0 and the server ignores it.

Outside `PacketReader` packets arrive whole, and a frame says whether its checksum is right.

## 6. Plan

A run for the codec with over-size packets (`OverSizeSupport = TRUE`).
