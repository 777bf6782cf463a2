# simple-module: a TLA+ model of the network stack

`simple-module` is a small C/C++ network stack: sockets over libevent, an XOR
stream cipher with length-prefixed packets on top of it, a growing receive
buffer, and a binary RPC protocol driven from Lua. This directory holds TLA+
modules that model its parts, TLC configurations that check them on small
instances, and proofs checked by TLAPS. Paths below are relative to `src/`.

## 1. The system

| Part | Source | State | Operations that change it |
|---|---|---|---|
| Receive buffer `MyBuf` | `encrypt/mybuf.cpp` (copy: `packet/mybuf.cpp`) | `_BufSize`, `_Buf`, `_Head`, `_Tail` | constructor, `InsertData`, `GetBufData` |
| Stream cipher `SimpleXOR` | `encrypt/include/encrypt.h` | `dic`, `dic_i`, `SeedFlag` | `SetSeed`, `Encrypt`, `Decrypt` |
| Packets over the cipher | `encrypt/packet_process.cpp` | a cipher; `_DecryptBuf`, `_BagFlag`, `_BagLen` | `EncryptPacket`, `DecryptPacket`, `BagProcess` |
| Server and client glue | `server_func.h`, `client_func.h`, `server.cpp`, `client.cpp` | one encryptor and one decryptor per process | `PacketOnRead`, `PacketOnConnect`, `PacketOnError`, `WriteData` |
| Peer, server and client sockets | `socket/peer_point.cpp`, `server_socket.cpp`, `client_socket.cpp` | `_Vfd`, `_Status`, the bufferevent | `NewConnect`, `OnRead`, `OnError`, `OnConnect`, `WriteData`, `Start`, `Connect` |
| Socket manager | `socket/socket_manager.cpp` | maps between descriptors and objects | `Create*Socket`, `Add*`, `Del*`, `PeerVfdOn*` |
| Event loop (libevent 1.4.12) | `socket/3rd/libevent-1.4.12-stable/` | entered and active events, the table of `epoll.c` | `event_add`, `event_del`, `bufferevent_*`, the loop |
| Older packet layer | `packet/PacketProcess.cpp` | `_status`, `_NeedBufLen`, `_Header`, `_ProcessVfd`, a `MyBuf` | `WriteData`, `ReadData`, `ReadOnceData` |
| Argument formats | `protocol/data_format.cpp` | opcodes of a table format, its depth counter | `pack` and `unpack` of number, byte, word, dword, string, array, table |
| Remote calls `net_protocol` | `protocol/protocol.cpp` | id, file, maker or caller, arguments, function | `load`, `marshal`, `pack`, `unpack` |
| Protocol registry `proto_manager` | `protocol/protocol.cpp` | `_s_protos`; the Lua tables `for_caller`, `for_maker` | `add_protocol`, `update_protocol`, `unpack_data` |
| Map of managers, Lua bindings | `protocol/protocol.cpp` | managers by name | `CreateNewProtoManager` |

How the parts interact. libevent calls `NewConnect` for the listening socket and
the read, write and error callbacks of a peer's bufferevent. A peer reports to
the `SocketManager`, which finds the application's `PacketInterface` through its
maps. `PacketOnRead` hands a piece of the byte stream to `DecryptPacket`, which
decrypts it, appends it to a `MyBuf` and takes complete packets from it. The RPC
layer produces and consumes messages; which transport carries them is up to the
scripts.

What is hard about it:

- A byte stream is cut anywhere: inside the seed, inside a length, between
  length and body, across several packets. The state that carries over between
  two pieces is spread over cipher, buffer and packet loop.
- The buffer slides, doubles and reallocates. Whether one branch is safe depends
  on an earlier branch having been taken, and every allocation may fail.
- Callbacks of one loop iteration were all queued before the first of them ran,
  and peers are deleted in between: a later one may run on a deleted peer.
- libevent keeps a table of its own about what the kernel waits for, which the
  code does not clear when it closes a descriptor.
- Both ends of a connection add and update protocols on their own. A function in
  `for_caller` holds the address of an object that an update may delete.
- Every form of every argument has a numeric limit, and messages may be cut.

What should hold: the buffer is a queue of bytes; packets arrive whole, once and
in order, whatever the cuts; the maps agree with each other and the callbacks of
a connection come in pairs; data reaches the application under its own
descriptor; a value that a format can carry arrives unchanged and a cut message
is refused; the table of protocols is sound after every update, failed ones
included, and a call runs the function that was meant.

## 2. The modules

| Module | What it models |
|---|---|
| `Words` | bytes and four-byte ints, for any number of byte values |
| `ByteQueue` | abstract specification: a FIFO queue of bytes that may break |
| `MessageChannel` | abstract specification: a FIFO channel of messages that may break |
| `MyBufOps`, `MyBuf` | the methods of `MyBuf` as operators on a record; the state machine of one buffer |
| `SimpleXOR` | the cipher's methods as operators on a record |
| `PacketStream` | one direction of a connection: `MyBufOps` and `SimpleXOR` composed with a sender, a byte stream and the loop of `BagProcess` |
| `Libevent` | event base: table of `epoll.c`, the kernel's set, active queue |
| `SocketManager` | a process: `Libevent` composed with peers, maps, descriptors and the remote sides |
| `ArgFormats`, `TableFormat`, `TableTravel` | pack and unpack of each format; opcodes of tables; reading a table format from its sample |
| `NetProtocol` | message ids, `marshal`, unpacking a list of arguments |
| `RemoteCall` | one call from `marshal` to `unpack_data` |
| `ProtoManager` | two processes with a registry each, and calls between them |
| `PacketHeader` | the older packet layer, on `MyBufOps` |
| `MyBufOpsProofs`, `MyBufProofs` | the lemmas on induction, sequences, division and messages behind their lengths that the proofs share; proofs about `Words`, `MyBufOps` and `MyBuf` |
| `PacketStreamProofs` | proofs about `SimpleXOR` and `PacketStream` |
| `PacketHeaderProofs` | proofs about `PacketHeader` |
| `SocketManagerStepProofs`, `SocketManagerProofs` | proofs about `Libevent` and `SocketManager` |
| `ArgFormatsProofs` | proofs about the scalar formats of `ArgFormats` and about `NetProtocol` |
| `ProtoManagerProofs` | proofs about `ProtoManager` |
| `MC*` | constants for TLC |

`PROJECT.json` maps each definition to the lines it stands for. What is worth
knowing about each module beyond that:

**MyBuf.** Pointers are offsets from `_Buf`. A buffer has a capacity it believes
in (`bufsize`, the code's `_BufSize`) and a block the allocator gave (`alloc`).
They differ, because `InsertData` doubles `_BufSize` but asks `realloc` for what
the input needs. A write behind the block may or may not be overwritten by its
owner later, and a later `realloc` may abort. `malloc` and `realloc` may fail at
any call. Sums beyond an int wrap; doubling beyond an int never ends.

**PacketStream.** `Send` is `WriteData` of the packet interfaces, `Receive` a read
of 1 to `RecvBlock` bytes, and the three actions of `BagProcess` are the branches
of its loop, which runs to its return before the next read. `Healthy` says that
memory has not failed or been overrun and that the seed was not cut.

**SocketManager.** A callback is one step: `Process` runs the first active event,
with every call made from it. `Dispatch` queues the ready events in any order.
The remote sides connect, send, read, close and reset at any time, between
callbacks of one iteration too. Freed peers are used again by `NewPeer`. `_Vfd` of
a freed peer, which `OnError` closes, reads as any of three things at each read
(`VfdOf`): the old value, zero, or something that is no descriptor (an allocator
keeps its list of free blocks in their first words, and `_Vfd` is the first member).
The history variable `foreign` records that the descriptor closed for this was
another connection's. `CreateClientSocket` is enabled whenever no
callback runs, as for a program that drives the loop itself; the programs in the
repository call it before the loop. The application writes a greeting from
`PacketOnConnect`, so that write events occur. One listening socket.

**RemoteCall.** The scheduling is trivial; the interest is in the data. A message
is handed to `unpack_data` whole, cut at every place, or followed by a copy.
Lua's conversions are the constants `Number2Int` and `NumberText`. Tables
are formats given by a sample; `TableTravel` uses recursive operators and is
reached only by `RemoteCall`.

**ProtoManager.** A description file is a record of what `load` looks at. Objects
live at addresses that are used again once deleted; an object whose `load`
failed in `add_protocol` is leaked, as in the code. An argument without a string for
its type makes `luaL_checkstring` raise a Lua error out of `load`: the object is
then leaked by `update_protocol` too, its function stays in `for_caller`, and the
script that made the call catches the error.

**PacketHeader.** The members behind `_Header` are modelled as far as a resumed
header overwrites them.

## 3. What is model-checked

Twelve questions are asked of the model. Seven of the answers hold; five show the
code disagreeing with one of its own comments or error texts.

| Run | Distinct states | Properties |
|---|---|---|
| `mybuf` | 444,612 | `TypeOK`, `PointersInOrder`, `ReallocOfBlockStart`, `NeverShrinks`, `QueueSpec` (refinement of `ByteQueue`) |
| `packet_stream` | 76,562 | `TypeOK`, `DeliveredPrefix`, `InStep`, `BufferStaysSmall`, `AllArrive` (liveness), `ChannelSpec` (refinement of `MessageChannel`) |
| `socket_manager` | about 812,000 | `TypeOK`, `LookupsSucceed`, `ErrorsAfterConnects`, `MapsAgree`, `CallbacksAlternate`, `PeersOwnDescriptors`, `DataToOwner`, `NoCallbackAfterReuse` |
| `socket_manager_live` | 21,726 | `DataIsRead` (liveness) |
| `remote_call` | 366,768 | `TypeOK`, `RoundTrip`, `CutIsRefused`, `StaysInBuffer` |
| `proto_manager` | about 179,000 | `TypeOK`, `RegistrySound`, `CallsArrive` |
| `packet_header` | 1,077,170 | `TypeOK`, `BodiesInOrder` |
| `mybuf_overrun` | violated | `WritesStayInBlock` |
| `packet_stream_seed` | violated | `SeedsAgree` |
| `socket_manager_deaf` | violated | `PeersListen` |
| `socket_manager_cleared` | violated | `NeverReadsCleared` |
| `proto_deleted` | violated | `NeverUsesDeleted` |

Every property of a run that holds has a mutant in `PROJECT.json`: a variant of a
definition, as a plausible mistake in the code would make it, under which TLC
finds the property violated. The mutants stand beside the definitions they vary.

Two counts are approximate: `socket_manager` and `proto_manager` combine a symmetry
with a view, and which of several equivalent states TLC keeps depends on its threads.

Deadlock is not checked: the models stop where their bounds are used up, where a
process has ended, and where no input is left.

### What the runs show, and their bounds

`mybuf`. A buffer of one byte with inputs of up to two, and an int that ends at
9, so capacities 1, 2, 4 and 8: sliding, doubling (several times in one call), failing allocation, overrun,
growth after an overrun, a capacity that cannot be doubled within an int and a
`NeedLen` that wraps all happen. Two byte values suffice, since the code never
looks at contents.

`packet_stream`. Two messages of up to two bytes, empty ones included, in pieces of
up to five bytes. Bytes have two values, so a length is four binary digits. The
dictionary has three entries, so the key index wraps within a message and falls
differently in each. The buffer holds four bytes and must grow. One seed is used,
chosen so that the key bytes are not all equal: with equal ones no mistake in the
index could be seen. Everything is about `Healthy` states, which excludes a cut
seed (see `packet_stream_seed`) and an overrun buffer.

`socket_manager`. Three connections over two descriptors and two addresses, so
that descriptors and addresses are used again, also while an event of a former
owner is still entered in libevent's table. Descriptor 0 is one of the two. It is
standard input or, in a process started without one, free, and then it may become
a peer's. What `OnError` reads from the peer it has deleted is the old `_Vfd`, zero or
junk in every possible mixture. So a connection may be closed, may be left open
without a peer and with its events entered, and may lose its descriptor to the end
of another one.

`LookupsSucceed` and `ErrorsAfterConnects` hold through all of this: a listed peer can
always be looked up and is never a deleted one, and no error is reported for a
connection that was not announced. The other five are stated up to the moment when
the descriptor that `OnError` closes is another connection's (`foreign`). They allow
for connections that were left open, whose late events meet a deleted peer or the
object that has its address now. `DataToOwner` is about the connections of listed
peers: what arrives on one that was left open may be passed on as a later peer's, if
that peer has the deleted one's address, and no property forbids it. After the moment
of `foreign` they fail: `MapsAgree` and `CallbacksAlternate`, for example, when a listed
peer's descriptor was closed and is given to a new connection, which `AddPeerObj` then
does not enter. Four of them fail in this instance without the condition, `DataToOwner`
in one with four connections over three descriptors.

The end of one connection is often reported twice in one iteration, the second time
to a deleted peer. `NoCallbackAfterReuse` says why that is harmless: libevent queues
the read and the write event of a descriptor one behind the other, so no accept
comes between them. It depends on libevent's order; with all reads queued before all
writes it fails. Connections are alike and so are addresses (symmetry; only
invariants are checked), and the view `Looked` leaves out what the network did to
connections that had a descriptor and have none any more, which nothing reads. With
three addresses (1,187,868 states) the run holds as well.

`socket_manager_cleared`. The same constants. A connection with unread bytes is reset,
and its write event reports the end first. `OnError` closes something else, the
read event stays entered, and in the next iteration the bytes are read for a peer
whose `_Status` is 0: `OnRead` throws, and nothing around `event_dispatch` catches it.

`socket_manager_live`. One descriptor, two connections, no symmetry. With descriptors 0
and 5 (317,573 states) it holds as well.

`remote_call`. Bytes of ten values, so that ints are -5000..4999 and the limits of
one, two, three and four byte numbers, of short strings and of array lengths lie
among the values; three sizes of buffer; ids at the limits of one and two bytes;
values of the wrong type for each format; table formats flat, nested, at the depth
limit and beyond it.

`proto_manager`. A file, a newer version of it, a file whose argument list is
refused after its function was stored, and one whose `load` raises a Lua error then;
up to two protocols per side (the default
one included), three addresses, one call under way. The files are all functions of
the server, so calls go from client to server. The model also covers files with a
bad name, unreadable ones, ones without a list of arguments, arrays of unknown
type and a default function, which this run's files do not include. The view
`Reached` leaves out the contents of leaked objects that no table and no closure
refers to. Without it the run has 1,487,442 states and holds as well.

`packet_header`. Three packets of up to two bytes on one descriptor, cut in every
way. `BodiesInOrder` is about headers that come whole; a resumed header is
modelled and ends the process or makes the property silent.

Larger instances were also simulated at random, with no violation in 12 to 27
million states each: `socket_manager` with six connections over three descriptors,
`packet_stream` (safety) with five messages of
up to four bytes and five seeds, `proto_manager` with four protocols, three calls
under way, and with the kinds of files and the calls in both directions that its
exhaustive run leaves out. This is evidence that the small bounds hide nothing,
not a result.

### Fairness

`PacketStream!FairSpec` has weak fairness of `Receive` and of `BagProcess`: the
event loop calls the reader as long as bytes are there, and the packet loop is
sequential code. The sender need not send. `SocketManager!FairSpec` has weak
fairness of `Loop`: `event_dispatch` does not return while events are entered, and
each callback returns. Nothing is assumed of the remote sides.

### Where the code disagrees with its comments and error texts

- `encrypt/mybuf.cpp:45`: after `_BufSize` was doubled, `realloc` is asked for
  `NeedLen` bytes. The next input that fits `_BufSize` is copied past the block.
  `realloc(_Head, _BufSize)` would make the two agree.
- `encrypt/include/encrypt.h:86`: a first piece shorter than the seed is dropped,
  and later bytes are taken for the seed.
- `socket/socket_manager.cpp:162`: the bufferevent of a deleted peer is not freed.
  If one of its events is still entered, the next connection with that descriptor
  is never waited for.
- `socket/peer_point.cpp:57`: `OnError` closes the `_Vfd` of the peer that
  `PeerVfdOnClose` has deleted. If it was overwritten, the connection stays open and
  `OnRead` can meet the cleared peer, which line 37 answers with "Try To Read Cleared
  vfd". Reading `_Vfd` before the call would close the right descriptor.
- `protocol/protocol.cpp:612`: a function in `for_caller` may stay bound to a
  protocol that `update_protocol` deleted.

Further places where the properties that hold are stated with a condition, since
the code does otherwise without it; the hazards in `PROJECT.json` name them:

- `socket/peer_point.cpp:57` may close the descriptor of another connection, after
  which the maps need not agree and data may go to the wrong peer (`foreign`).
- `protocol/data_format.cpp:55`: numbers above `INT_MAX` are converted before they
  are packed, where line 82 speaks of `0xffffffff`.
- `protocol/data_format.cpp:501`: an array longer than its length byte can say is
  packed, where line 504 gives 255 as the limit.
- `protocol/data_format.cpp:305`: the depth counter is never decremented, so it
  counts tables, where `data_format.h:128` speaks of depth.
- `protocol/protocol.cpp:582`: an `add_protocol` that fails late leaves its function
  in `for_caller`, with an id that the next protocol gets.
- `protocol/protocol.cpp:602`: `update_protocol` accepts id 0, after which a call
  fails the assertion of line 311.
- `packet/PacketProcess.cpp:50`: the rest of a cut header is written `k` ints,
  not `k` bytes, behind the start of `_Header`.

## 4. What is proved

TLAPS checks the following for every value of the constants: any number of byte
values, any int size, buffer size, dictionary, key schedule and message length,
and any sets of descriptors, connections, addresses, description files and Lua values.

| Theorem | Statement |
|---|---|
| `MyBufProofs!TypeCorrect` | `Spec => []TypeOK` |
| `MyBufProofs!PointersStayInOrder` | `Spec => []PointersInOrder` |
| `MyBufProofs!ReallocIsOfBlockStart` | `Spec => []ReallocOfBlockStart` |
| `MyBufProofs!BlockNeverShrinks` | `Spec => NeverShrinks` |
| `MyBufProofs!ImplementsQueue` | `Spec => QueueSpec` |
| `PacketStreamProofs!StreamTypeOK` | `Spec => []TypeOK` |
| `PacketStreamProofs!StreamDelivers` | `Spec => []DeliveredPrefix` |
| `PacketStreamProofs!StreamInStep` | `Spec => []InStep` |
| `PacketStreamProofs!StreamStaysSmall` | `Spec => []BufferStaysSmall` |
| `PacketStreamProofs!StreamIsChannel` | `Spec => ChannelSpec` |
| `SocketManagerProofs!ManagerTypeOK` | `Spec => []TypeOK` |
| `SocketManagerProofs!ManagerLookups` | `Spec => []LookupsSucceed` |
| `SocketManagerProofs!ManagerErrors` | `Spec => []ErrorsAfterConnects` |
| `SocketManagerProofs!ManagerMaps` | `Spec => []MapsAgree` |
| `SocketManagerProofs!ManagerCallbacks` | `Spec => []CallbacksAlternate` |
| `SocketManagerProofs!ManagerDescriptors` | `Spec => []PeersOwnDescriptors` |
| `SocketManagerProofs!ManagerData` | `Spec => []DataToOwner` |
| `SocketManagerProofs!ManagerReuse` | `Spec => []NoCallbackAfterReuse` |
| `ArgFormatsProofs!MessageFound` | a message of `marshal` is read back: the id, and every value its format can carry |
| `ProtoManagerProofs!ProtoTypeOK` | `Spec => []TypeOK` |
| `ProtoManagerProofs!ProtoRegistry` | `Spec => []RegistrySound` |
| `ProtoManagerProofs!ProtoCallsArrive` | if `ScalarFiles` and `MaxProtos <= Base * Base`: `Spec => []CallsArrive` |
| `PacketHeaderProofs!HeaderTypeOK` | `Spec => []TypeOK` |
| `PacketHeaderProofs!HeaderBodies` | `Spec => []BodiesInOrder` |

So every safety property that the runs `mybuf`, `packet_stream`, `socket_manager`,
`proto_manager` and `packet_header` check is also proved. Only `ProtoCallsArrive` has
hypotheses beyond the assumptions of its module.

### Assumptions

- `WordAssumption`: a byte has at least two values and an int is positive.
- `BufAssumption`: the first capacity is positive and fits an int.
- `InputAssumption`: an input of `MyBuf` is no longer than an int can say.
- `CipherAssumption`: the dictionary is not empty; combining a key byte with a byte
  gives a byte, and doing it twice gives the byte back. The code uses `^`.
- `StreamAssumption`: a read asks for at least one byte; seeds and lengths of
  messages are non-negative ints, so that a length fits the four bytes
  `EncryptPacket` writes.
- `HeaderAssumption`: descriptors are positive ints, and the length of a body is a
  non-negative int.
- `EventAssumption`, `ManagerAssumption`: the names for "nothing" and for the states
  of a descriptor differ from descriptors, bufferevents and addresses; descriptors are
  naturals, and `Junk` is none of them.
- `ManagerAssumption` of `ProtoManager`: a call passes values that a script can have
  (`IsValue`: a number, a string of bytes, nil or a table), and the files are
  records of what `load` looks at.
- `ScalarFiles` and `MaxProtos <= Base * Base`, hypotheses of `ProtoCallsArrive`: the
  formats are number, byte, word, dword and string, and ids fit the two bytes that
  `marshal` writes. Neither can be dropped for all constants: an array longer than its
  length byte can say is packed with a wrapped length (`protocol/data_format.cpp:501`),
  and nothing keeps an id below 65536 (`protocol/protocol.cpp:318`). The run
  `proto_manager` satisfies both.

### The buffer

The order of the pointers is not inductive by itself. Three more facts are needed
(`BufInv` in `MyBufOpsProofs`). The block is never larger than `_BufSize` claims:
without it a growth might shrink it. What a sound buffer holds lies inside the
block: without it `realloc` would not copy all of it, and the queue would lose
bytes. A NULL block means that an allocation failed. `ReallocOfBlockStart` rests on
the two length tests of `InsertData`: if the input does not fit the whole
capacity it does not fit behind the tail either, so the contents were slid down
before. `MyBufOpsProofs` has one lemma per method and branch (`SlideDownKeeps`,
`CopyInAppends`, `ReallocatedKeeps`, `NoMemoryInv`, `GrowAndCopyAppends`,
`InsertedAppends`, `DrainedTakes`), each about one buffer. `MyBufProofs` lifts them
to the specification and to the refinement of `ByteQueue`; `PacketStreamProofs` uses
them for the receive buffer. The lemmas `CopyInSize` and `InsertedSize` bound the
capacity after an insert, and `DoubledLeast` is the argument behind it: the loop
stops at the first power that fits, so the result is less than twice what is
needed.

### The packet stream

None of `DeliveredPrefix`, `InStep` and `BufferStaysSmall` is inductive: they say
nothing of the bytes still under way. `StreamInv` adds

- `BagsOK`: the plain stream is the bags of the messages sent, one behind the other,
  and `ends` are their ends. It turns a position in the stream into a message.
- `WireOK`: the wire holds the rest of the plain stream, each byte combined with the
  key byte of its place in the stream and not of its place in a read, with the seed
  in front until the receiver has taken it.
- `BagsTaken`: what was handed on are the first messages, and the buffer holds the
  plain stream from there to what was decrypted.
- `LessThanABag`: when the loop of `BagProcess` returns, less than a bag, or less
  than a length, is left.
- `BufInv` of the receive buffer, and `BufferStaysSmall` itself, which needs
  `LessThanABag` for the next read.

`BagsOK` holds in every state, `WireOK` unless a part of the seed was dropped, the
next two in `Healthy` states. The proof has one lemma per action and part (`Send`, `Receive` with its decryption and
its insertion apart, the three branches of the loop). Two facts carry it. A length
survives its four bytes: `IntOfBytes(BytesOfInt(n)) = n`, with the wrap of an int
(`IntOfFour`, `SameInt`). And the dictionary is the same at both ends because it is a
function of the seed alone, whatever the key schedule computes (`SeedValues`).

`StreamIsChannel` maps the state to `MessageChannel`: the messages given to `Send`, the
messages handed on, and `Healthy`. Each step of the sender is a `Put` or, like the steps
that only move bytes, a stutter; a step of the loop that completes a bag is a `Take` of
the next message (`BagIsNext`, from `BagsTaken`). The channel never recovers once it is
broken: `BrokenForGood` shows that no step makes an overrun buffer sound again or brings
back a dropped piece of the seed.

### The older packet layer

`BodiesInOrder` compares what the buffer held at each end of a body with the bodies
sent, and says nothing of the state in between. `HeaderInv` adds

- `ObjectOK`: the types, `BufInv` of the buffer, that nothing of a piece is left outside
  `ReadData`, and that `_NeedBufLen` is between 1 and 4 while a header is read, and 4
  unless a header was cut;
- `Placed`: there is a stream, the packets sent one behind the other, of which the piece
  and the wire together hold the rest. If a header is next, the rest starts at the end
  of a packet, and the buffer holds all bodies before it (`AtHeader`). Within a body,
  `_NeedBufLen` bytes of it are still to come and the buffer ends with the others
  (`InBody`);
- `Seen`: the conclusion of `BodiesInOrder`.

The last two are claimed, as the property is, for one descriptor, as long as no header
came in pieces and the buffer is `Sound` (`OrderOK`). `PacketHeader` keeps no history of
its stream, so `Placed` asserts that one exists, and each step produces the next
(`PlacedMore` for `WriteData`, `HeaderTaken` and `BodyTaken` for `ReadOnceData`).
`HeaderTaken` needs that a length survives its four bytes, `BodyTaken` that the part of a
body in the buffer grows by just the bytes that follow (`PrefixGrows`). The concatenation
of the first `n` bodies is a recursive function; `BodyEquations` derives its equations for
every number of packets. The type of `_NeedBufLen` holds even when a cut header was
written to the wrong place, since any four bytes are an int (`FourBytes`).

### The socket layer

Two inductive invariants, since there are two kinds of properties. `AnyInv` holds in
every reachable state. To `TypeOK`, `LookupsSucceed` and `ErrorsAfterConnects` it adds
that every event which is active or in libevent's table belongs to a bufferevent that
was set up for a peer, and that a peer which was not deleted is complete: without
them a callback could run with no peer at all.

`OwnInv` holds in every reachable state in which `foreign` is still false
(`OwnInvariant`: `Spec => [](~foreign => OwnInv)`). It is preserved by every step that
leaves `foreign` false, and `foreign` never becomes false again (`ForeignStays`). It adds

- `Linked`: an open connection's bufferevent has its descriptor; a listed peer, its
  descriptor, its connection and that connection's bufferevent lead to each other, and
  `_Status` is 1 exactly for live peers. A connection that was left open has no
  peer of its own, and its bufferevent leads to a deleted peer or to a later one;
- `QueueOK` and `Paired`: an active event belongs to an open connection, except a
  write event at the head of the queue whose read event has just closed its
  connection. The read and the write event of a connection lie next to each other,
  read first. So nothing can come between the two, and the descriptor and the address
  are not used again;
- `MaskOK`: what the kernel waits for on a descriptor is what libevent's table says
  of the connection now open on it. The table may hold an event of a former owner,
  but then the kernel's set is empty for that descriptor, so such an event never
  becomes active (`PeersListen` is violated for the same reason);
- `Fresh`: a connection that was not accepted has no bufferevent.

The case that takes work is `OnError` (`OnErrorOwn`): it removes the listed peer found
under what it read as `_Vfd`, which is `PeerGone`, and closes nothing or one
descriptor, which is not another connection's (`ClosesAtMost`, `CloseOwn`).

`Paired` is established by `Queue`, the loop of `epoll_dispatch`, which is a recursive
function; `QueueEquations` derives its defining equations for every number of
descriptors, and the rest is induction over the queue.

`SocketManagerStepProofs` says what each operation of libevent, each handler and each
remote step does to the state, and that it keeps `AnyInv` and `OwnInv`.
`SocketManagerProofs` has the dispatch, the two invariants and the theorems.

### The formats and the registry

`ArgFormatsProofs` shows that what is packed is found again. The digits of an int are
unique (`DigitsOfInt`, `HighBytesZero`, `LowBytesRead`), negation undoes itself within an
int (`NegatedBack`), so each scalar format reads back what it wrote when more bytes
follow (`NumberRead`, `FixedRead`, `StringRead`, together `ScalarRead`). The loops of
`marshal` and `unpack` are recursive functions; `PackingEquations` gives their equations
for every number of arguments, and an induction over the arguments (`UnpackFinds`) shows
that unpacking is, after each, exactly where packing was.

`RegistrySound` is not inductive: it does not say that an object which is about to enter
the table is complete. `ManagerInv` adds that every object at every address, in the table
or not, is as `load` leaves it (`AllSound`), and states the soundness of the table for a
table and a heap (`SoundTable`), so that `TableExtended` and `TableReplaced` can speak of
one `push_back` and one replacement. `CallsInv` adds that every call under way is
one that `pack` made from an object as `load` leaves it (`Msgs`), whatever happened to that
object since. If its id then stands for its file at the end it arrives at (`Matched`), the
object there has the same arguments and is the one that runs the call (`Expected`), so by
`MessageFound` the call runs the function of its file with its values (`Delivered`).

### Common lemmas

The first part of `MyBufOpsProofs` derives induction over a set of naturals, bounded
induction and the existence of primitive recursive functions from the well-foundedness of
`<`, with sets and functions where the library has operator parameters, so that they can be
cited. It also has the facts on parts of sequences and on division that the proofs
share. Its last part is about messages behind their lengths, the form both packet layers
have on the wire: `FramesOK` says that a stream is such messages one behind the other, and
`LengthAt` and `NextFrame` what is found at the end of one of them. `SocketManagerProofs`, which does not use `MyBufOps`, repeats the ones it needs.

Each module of proofs names Zenon as the prover of a leaf that cites no other; leaves that
need arithmetic or functions cite SMT.

### Only model-checked

- `AllArrive` and `DataIsRead`: the prover does not handle fairness and `ENABLED`.
- `RemoteCall`: reading a table format from its sample is a recursive operator
  (`TableTravel`), which the prover's SMT backend does not accept.
- Calls with arrays and tables among their arguments.

The inductive invariants were checked with TLC on small instances before they
were proved. The model itself was changed for the proofs only in form: sums and
products in place of powers in `Words`, the seeds of the dictionary, the queue of
`epoll_dispatch` and the loops of `marshal`, `unpack` and of arrays as functions with
names, the powers of two, and the concatenation of the first bodies as functions.

## 5. What is not modelled

- Several connections sharing one cipher pair (`server_func.h:21`): `PacketStream`
  has one connection.
- Table formats whose file holds no table (`data_format.cpp:445`), keys other than
  numbers and strings, arrays of arrays.
- The check id of a protocol, statistics, errors raised by the called script.
- The map of managers by name and the registration with Lua: the map only grows.
- Ids of 65536 and more, which lose their upper bytes in `marshal`.
- libevent's timeouts, signals, priorities and other back ends, which are not used.
- Lua itself, logging, error texts and the demonstration programs.

## 6. Plan

Order so far: the buffer (with its abstract specification and its proof), the
packet stream on top of it, the socket layer on libevent, the formats and remote
calls, the registry, the older packet layer; then the proofs of the packet stream
and of the socket layer, the message channel as an abstract specification, and the
proofs of the formats, of the registry and of the older packet layer. Next:

1. Extend `ScalarRead` to arrays no longer than their length byte can say, and
   `ProtoCallsArrive` with it.
2. Compose two `PacketStream`s over one shared cipher pair, as `SimpleServerFunc`
   has it, and ask what the second client of a server receives.
3. Let `ProtoManager` load table formats, including one that is readable at one end
   only, and run it with calls in both directions and with the kinds of files that
   the present run leaves out; model the map of managers.
