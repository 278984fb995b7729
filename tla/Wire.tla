-------------------------------- MODULE Wire --------------------------------
(***************************************************************************)
(* The two byte streams of one connection.                                 *)
(*                                                                         *)
(* In: the event loop reads a non-blocking socket registered with EPOLLET  *)
(* (network/ItsServer.cpp) and PacketFramer::processBuffer cuts packets    *)
(* out of the session's read buffer.  The client's stream is a sequence of *)
(* frames with the offset each begins at; bytes are counted, not stored.   *)
(* The read buffer holds the bytes from offset head up to offset taken.    *)
(*                                                                         *)
(* Out: workers send with ClientSession::sendPacket, under writeMutex, into *)
(* a socket buffer of bounded size.  wire is what the kernel has accepted, *)
(* as the runs of bytes that came from one packet.                         *)
(*                                                                         *)
(* A write to a connection the client has reset fails, or raises SIGPIPE,  *)
(* whose default action main() leaves in place: it ends the process.       *)
(***************************************************************************)
EXTENDS Naturals, Sequences, FiniteSets

CONSTANTS HeaderSize,   \* sizeof(PacketHeader)
          ReadSize,     \* the buffer of readFromClient
          Width,        \* 2^32, the range of uint32_t
          Bodies,       \* body sizes of the client's packets
          AnswerBodies, \* body sizes of the server's packets
          StrayBodies,  \* sizes read from bytes that are no header
          SocketBuffer, \* capacity of the kernel's send buffer
          Workers, NoWorker,
          MaxTraffic    \* bound: frames the client and packets the server send

ASSUME SizesAssumption ==
  /\ HeaderSize \in Nat \ {0}
  /\ ReadSize \in Nat \ {0}
  /\ Width \in Nat \ {0}
  /\ SocketBuffer \in Nat
  /\ MaxTraffic \in Nat
  /\ \A b \in Bodies : b \in Nat /\ HeaderSize + b < Width
  /\ AnswerBodies \subseteq Nat
  /\ StrayBodies \subseteq Nat
  /\ NoWorker \notin Workers

VARIABLES
  stream,      \* the frames the client has sent
  arrived,     \* bytes of them that have reached the server
  peer,        \* the client's end: "open", "closed" or "reset"
  edge,        \* epoll has an event for the connection
  loop,        \* event loop: "wait", "read", "frame", "gone" after disconnectClient
  taken,       \* bytes read from the socket
  head,        \* offset of the first byte of the read buffer
  stray,       \* the header at head, when head is not the beginning of a frame
  dispatched,  \* the packets handed to Dispatcher::dispatch
  job,         \* per worker: the packet it sends and how much is sent
  writer,      \* who holds writeMutex
  queued,      \* bytes in the socket buffer
  wire,        \* what was written, as runs of bytes of one packet
  packets,     \* packets begun
  cutShort,    \* history: packets sendPacket gave up on
  killed       \* the process has ended

inbound == <<stream, arrived, peer, edge, loop, taken, head, stray, dispatched>>
outbound == <<job, writer, queued, wire, packets, cutShort>>
vars == <<inbound, outbound, killed>>

NoHeader == [good |-> FALSE, body |-> Width]    \* not looked at yet
NoSignature == [good |-> FALSE, body |-> 0]
Headers(bodies) == {NoSignature} \cup [good : {TRUE}, body : bodies]

NoPacket == [id |-> 0, size |-> 0, sent |-> 0]

Init ==
  /\ stream = <<>>
  /\ arrived = 0
  /\ peer = "open"
  /\ edge = FALSE
  /\ loop = "wait"
  /\ taken = 0
  /\ head = 0
  /\ stray = NoHeader
  /\ dispatched = <<>>
  /\ job = [w \in Workers |-> NoPacket]
  /\ writer = NoWorker
  /\ queued = 0
  /\ wire = <<>>
  /\ packets = 0
  /\ cutShort = {}
  /\ killed = FALSE

-----------------------------------------------------------------------------
(* Faulty variants, used by no specification.                              *)

FaultBodyOnly(b) == b % Width

FaultReadOnce == "wait"

FaultUnlocked(w) == TRUE

FaultRetry(w) == loop = "gone" \/ peer = "reset"

FaultWholePacket(w) == job[w].size

-----------------------------------------------------------------------------
(* The client and the network.                                             *)

\* Where the stream ends.
Sent == IF stream = <<>> THEN 0 ELSE stream[Len(stream)].from + HeaderSize + stream[Len(stream)].body

\* A packet, or as many bytes as a header has, without the signature.
ClientSend(h) ==
  /\ peer = "open"
  /\ Len(stream) + packets < MaxTraffic
  /\ stream' = Append(stream, [from |-> Sent, body |-> h.body, good |-> h.good])
  /\ UNCHANGED <<arrived, peer, edge, loop, taken, head, stray, dispatched, outbound, killed>>

\* Bytes arrive in any portions; every arrival is an event for epoll.
Arrive ==
  /\ peer # "reset"
  /\ arrived < Sent
  /\ arrived' = arrived + 1
  /\ edge' = TRUE
  /\ UNCHANGED <<stream, peer, loop, taken, head, stray, dispatched, outbound, killed>>

\* The FIN follows the last byte; a reset may come at any time.
ClientClose ==
  /\ peer = "open"
  /\ arrived = Sent
  /\ peer' = "closed"
  /\ edge' = TRUE
  /\ UNCHANGED <<stream, arrived, loop, taken, head, stray, dispatched, outbound, killed>>

ClientReset ==
  /\ peer # "reset"
  /\ peer' = "reset"
  /\ edge' = TRUE
  /\ UNCHANGED <<stream, arrived, loop, taken, head, stray, dispatched, outbound, killed>>

\* The client takes bytes from the other stream.
ClientReceive ==
  /\ peer = "open"
  /\ queued > 0
  /\ queued' = queued - 1
  /\ UNCHANGED <<inbound, job, writer, wire, packets, cutShort, killed>>

-----------------------------------------------------------------------------
(* ItsServer::run and readFromClient.                                      *)

\* epoll_wait returns; an edge is reported once.
EpollWait ==
  /\ loop = "wait"
  /\ edge
  /\ loop' = "read"
  /\ edge' = FALSE
  /\ UNCHANGED <<stream, arrived, peer, taken, head, stray, dispatched, outbound, killed>>

Readable == arrived - taken

\* The loop reads again, until EAGAIN.
AfterFraming == "read"

\* read() returns what there is, up to its buffer; onReceiveData appends it.
Read(n) ==
  /\ loop = "read"
  /\ n = IF Readable < ReadSize THEN Readable ELSE ReadSize
  /\ n > 0
  /\ taken' = taken + n
  /\ loop' = "frame"
  /\ UNCHANGED <<stream, arrived, peer, edge, head, stray, dispatched, outbound, killed>>

ReadAgain ==
  /\ loop = "read"
  /\ Readable = 0
  /\ peer = "open"
  /\ loop' = "wait"
  /\ UNCHANGED <<stream, arrived, peer, edge, taken, head, stray, dispatched, outbound, killed>>

\* End of file or an error: disconnectClient.
Disconnect ==
  /\ loop = "read"
  /\ \/ peer = "closed" /\ Readable = 0
     \/ peer = "reset"
  /\ loop' = "gone"
  /\ UNCHANGED <<stream, arrived, peer, edge, taken, head, stray, dispatched, outbound, killed>>

-----------------------------------------------------------------------------
(* PacketFramer::processBuffer, one round of its loop per action.          *)

Buffered == taken - head

\* The frame that begins where the read buffer begins, if any.
AtHead == {i \in 1..Len(stream) : stream[i].from = head}

\* Bytes that are no header give some header, the same one at every round.
MisreadHeader(h) ==
  /\ loop = "frame"
  /\ Buffered >= HeaderSize
  /\ AtHead = {}
  /\ stray = NoHeader
  /\ stray' = h
  /\ UNCHANGED <<stream, arrived, peer, edge, loop, taken, head, dispatched, outbound, killed>>

Header ==
  IF AtHead = {} THEN stray
  ELSE LET i == CHOOSE i \in AtHead : TRUE IN [good |-> stream[i].good, body |-> stream[i].body]

HeaderRead == loop = "frame" /\ Buffered >= HeaderSize /\ Header # NoHeader

\* totalPacketSize, a uint32_t.
PacketSize(b) == (HeaderSize + b) % Width

\* A wrong signature empties the buffer; the session stays.
DropBuffer ==
  /\ HeaderRead
  /\ ~Header.good
  /\ head' = taken
  /\ stray' = NoHeader
  /\ loop' = AfterFraming
  /\ UNCHANGED <<stream, arrived, peer, edge, taken, dispatched, outbound, killed>>

\* The body may reach past the buffer when the size has wrapped around: the
\* copy then reads foreign memory, and may end the process.
DispatchPacket ==
  /\ HeaderRead
  /\ Header.good
  /\ Buffered >= PacketSize(Header.body)
  /\ dispatched' = Append(dispatched, [from |-> head, body |-> Header.body])
  /\ head' = head + PacketSize(Header.body)
  /\ stray' = NoHeader
  /\ killed' \in {FALSE, Buffered < HeaderSize + Header.body}
  /\ UNCHANGED <<stream, arrived, peer, edge, loop, taken, outbound>>

\* Less than a header or less than a packet: back to read().
FramingDone ==
  /\ loop = "frame"
  /\ \/ Buffered < HeaderSize
     \/ HeaderRead /\ Header.good /\ Buffered < PacketSize(Header.body)
  /\ loop' = AfterFraming
  /\ UNCHANGED <<stream, arrived, peer, edge, taken, head, stray, dispatched, outbound, killed>>

-----------------------------------------------------------------------------
(* ClientSession::sendPacket.                                              *)

\* The packet is put together before the mutex is taken.
SendPacket(w, b) ==
  /\ job[w] = NoPacket
  /\ Len(stream) + packets < MaxTraffic
  /\ packets' = packets + 1
  /\ job' = [job EXCEPT ![w] = [id |-> packets + 1, size |-> HeaderSize + b, sent |-> 0]]
  /\ UNCHANGED <<inbound, writer, queued, wire, cutShort, killed>>

MutexFree(w) == writer = NoWorker

LockWrite(w) ==
  /\ job[w] # NoPacket
  /\ writer # w
  /\ MutexFree(w)
  /\ writer' = w
  /\ UNCHANGED <<inbound, job, queued, wire, packets, cutShort, killed>>

\* The bytes join those of the same packet at the end of the wire.
Extend(p, n) ==
  IF wire # <<>> /\ wire[Len(wire)].id = p.id
  THEN [wire EXCEPT ![Len(wire)].bytes = @ + n]
  ELSE Append(wire, [id |-> p.id, size |-> p.size, bytes |-> n])

\* The size given to write(), whose data begin behind what is sent.
Unsent(w) == job[w].size - job[w].sent

Writing(w) == writer = w /\ job[w].sent < job[w].size

Free(w) == SocketBuffer - queued

Connected == loop # "gone" /\ peer # "reset"

\* write() takes as much as fits.
Write(w, n) ==
  /\ Writing(w)
  /\ Connected
  /\ n = IF Unsent(w) < Free(w) THEN Unsent(w) ELSE Free(w)
  /\ n > 0
  /\ job' = [job EXCEPT ![w].sent = @ + n]
  /\ queued' = queued + n
  /\ wire' = Extend(job[w], n)
  /\ UNCHANGED <<inbound, writer, packets, cutShort, killed>>

Unlock(w) ==
  /\ writer' = NoWorker
  /\ job' = [job EXCEPT ![w] = NoPacket]

Written(w) ==
  /\ writer = w
  /\ job[w].sent = job[w].size
  /\ Unlock(w)
  /\ UNCHANGED <<inbound, queued, wire, packets, cutShort, killed>>

\* EAGAIN, a closed descriptor or a reset connection: the loop is left.
GivesUp(w) == queued = SocketBuffer \/ ~Connected

WriteStops(w) ==
  /\ Writing(w)
  /\ GivesUp(w)
  /\ Unlock(w)
  /\ cutShort' = cutShort \cup {job[w].id}
  /\ UNCHANGED <<inbound, queued, wire, packets, killed>>

\* SIGPIPE.
WriteKills(w) ==
  /\ Writing(w)
  /\ loop # "gone"
  /\ peer = "reset"
  /\ killed' = TRUE
  /\ UNCHANGED <<inbound, outbound>>

-----------------------------------------------------------------------------
Client ==
  \/ \E h \in Headers(Bodies) : ClientSend(h)
  \/ ClientClose
  \/ ClientReset
  \/ ClientReceive

EventLoop ==
  \/ EpollWait
  \/ \E n \in 1..ReadSize : Read(n)
  \/ ReadAgain
  \/ Disconnect
  \/ \E h \in Headers(StrayBodies) : MisreadHeader(h)
  \/ DropBuffer
  \/ DispatchPacket
  \/ FramingDone

Sending(w) ==
  \/ LockWrite(w)
  \/ \E n \in 1..SocketBuffer : Write(w, n)
  \/ Written(w)
  \/ WriteStops(w)
  \/ WriteKills(w)

Send(w) == (\E b \in AnswerBodies : SendPacket(w, b)) \/ Sending(w)

Next == ~killed /\ (Client \/ Arrive \/ EventLoop \/ \E w \in Workers : Send(w))

\* The network delivers what was sent, the event loop runs, a mutex that is
\* released again and again is obtained, write() returns.  Nothing makes the
\* client send, receive or close.
Fairness ==
  /\ WF_vars(~killed /\ Arrive)
  /\ WF_vars(~killed /\ EventLoop)
  /\ \A w \in Workers :
       WF_vars(~killed /\ Sending(w)) /\ SF_vars(~killed /\ LockWrite(w))

Spec == Init /\ [][Next]_vars /\ Fairness

-----------------------------------------------------------------------------
Frames == [from : Nat, body : Bodies \cup {0}, good : BOOLEAN]

TypeOK ==
  /\ stream \in Seq(Frames)
  /\ arrived \in 0..Sent
  /\ taken \in 0..arrived
  /\ head \in 0..taken
  /\ peer \in {"open", "closed", "reset"}
  /\ edge \in BOOLEAN
  /\ loop \in {"wait", "read", "frame", "gone"}
  /\ stray \in Headers(StrayBodies) \cup {NoHeader}
  /\ dispatched \in Seq([from : Nat, body : Bodies \cup StrayBodies])
  /\ job \in [Workers -> [id : 0..MaxTraffic, size : Nat, sent : Nat]]
  /\ \A w \in Workers : job[w].sent <= job[w].size
  /\ writer \in Workers \cup {NoWorker}
  /\ queued \in 0..SocketBuffer
  /\ wire \in Seq([id : 1..MaxTraffic, size : Nat, bytes : Nat])
  /\ packets \in 0..MaxTraffic
  /\ cutShort \subseteq 1..MaxTraffic
  /\ killed \in BOOLEAN

\* The frames before the first one without the signature.
WellFormed == {i \in 1..Len(stream) : \A j \in 1..i : stream[j].good}

End(i) == stream[i].from + HeaderSize + stream[i].body

\* However the stream is cut into reads, and whatever follows: the packets of a
\* client that keeps to the format are handed on one by one as they were sent,
\* and when the loop goes back to read() none is left whole in the buffer.
FramedAsSent ==
  \A i \in WellFormed :
    /\ i <= Len(dispatched) => dispatched[i] = [from |-> stream[i].from, body |-> stream[i].body]
    /\ loop # "frame" /\ End(i) <= taken => i <= Len(dispatched)

\* The bytes of a packet stay together, and a packet is whole unless it is being
\* written or sendPacket gave it up: workers that answer and push to one client
\* at the same time do not mix their packets.
WholeUnlessCut ==
  \A k \in 1..Len(wire) :
    /\ \A l \in 1..Len(wire) : wire[k].id = wire[l].id => k = l
    /\ wire[k].bytes < wire[k].size =>
         \/ wire[k].id \in cutShort
         \/ killed
         \/ k = Len(wire) /\ writer # NoWorker /\ job[writer].id = wire[k].id

\* Every packet of a client that keeps to the format is handed on, although
\* epoll reports an edge only once and the client may close after sending,
\* unless the client resets the connection or the process ends.
EveryPacketDispatched ==
  \A i \in 1..MaxTraffic :
    i \in WellFormed ~> Len(dispatched) >= i \/ peer = "reset" \/ killed

\* sendPacket returns although the client receives nothing: a slow client does
\* not hold a worker, nor those that wait for writeMutex behind it.
SendersReturn == \A w \in Workers : job[w] # NoPacket ~> job[w] = NoPacket \/ killed
=============================================================================
