----------------------------- MODULE WireProofs -----------------------------
(***************************************************************************)
(* The two byte streams for every size of header, read and socket buffer,  *)
(* every number of workers and any traffic.                                *)
(*                                                                         *)
(* In: frames follow each other without gaps (Layout), so that at most one *)
(* begins at a given offset; as long as the frames have the signature, the *)
(* read buffer begins with the frame after the last one dispatched         *)
(* (Aligned).                                                              *)
(*                                                                         *)
(* Out: a packet whose bytes are on the wire and that a worker has not     *)
(* finished belongs to the holder of writeMutex and is the last on the     *)
(* wire (Current), so what follows it is written when it is whole or has   *)
(* been given up.                                                          *)
(***************************************************************************)
EXTENDS Wire, TLAPS

\* The frames follow each other; those with the signature are packets.
Layout ==
  /\ \A i \in 1..Len(stream) : stream[i].good => stream[i].body \in Bodies
  /\ \A i \in 1..Len(stream) : End(i) <= Sent
  /\ \A i, j \in 1..Len(stream) : i < j => End(i) <= stream[j].from
  /\ \A i \in 1..Len(stream) : i + 1 \in 1..Len(stream) => stream[i + 1].from = End(i)

Conforming == \A i \in 1..Len(stream) : stream[i].good

\* The read buffer begins with the packet that is dispatched next.
Aligned ==
  /\ \A i \in WellFormed : Len(dispatched) + 1 = i => head = stream[i].from
  /\ Conforming => Len(dispatched) <= Len(stream)
  /\ Conforming /\ Len(dispatched) = Len(stream) => head = Sent

\* The packets of workers have numbers of their own.
Jobs ==
  /\ \A w \in Workers : job[w] # NoPacket =>
       /\ job[w].id \in 1..packets
       /\ job[w].sent <= job[w].size
  /\ \A v, w \in Workers : job[v] # NoPacket /\ job[v].id = job[w].id => v = w
  /\ writer # NoWorker => job[writer] # NoPacket

\* What the wire holds of a packet that is not finished.
Current ==
  /\ \A k \in 1..Len(wire) : wire[k].id <= packets
  /\ \A w \in Workers : job[w].sent > 0 => wire # <<>> /\ wire[Len(wire)].id = job[w].id
  /\ \A k \in 1..Len(wire), w \in Workers : wire[k].id = job[w].id =>
       w = writer /\ k = Len(wire) /\ wire[k].bytes = job[w].sent /\ wire[k].size = job[w].size

\* The types of the two sides.
TypeIn ==
  /\ stream \in Seq(Frames)
  /\ arrived \in 0..Sent
  /\ taken \in 0..arrived
  /\ head \in 0..taken
  /\ peer \in {"open", "closed", "reset"}
  /\ edge \in BOOLEAN
  /\ loop \in {"wait", "read", "frame", "gone"}
  /\ stray \in Headers(StrayBodies) \cup {NoHeader}
  /\ dispatched \in Seq([from : Nat, body : Bodies \cup StrayBodies])

Packets == [id : 0..MaxTraffic, size : Nat, sent : Nat]
Runs == [id : 1..MaxTraffic, size : Nat, bytes : Nat]

TypeOut ==
  /\ job \in [Workers -> Packets]
  /\ writer \in Workers \cup {NoWorker}
  /\ queued \in 0..SocketBuffer
  /\ wire \in Seq(Runs)
  /\ packets \in 0..MaxTraffic
  /\ cutShort \subseteq 1..MaxTraffic

InInv == TypeIn /\ Layout /\ Aligned /\ FramedAsSent

OutInv == TypeOut /\ Jobs /\ Current /\ WholeUnlessCut

IInv == InInv /\ OutInv /\ killed \in BOOLEAN

-----------------------------------------------------------------------------
(* The stream and the read buffer.                                         *)

\* Sizes are numbers.
LEMMA Sizes ==
  /\ HeaderSize \in Nat /\ HeaderSize > 0
  /\ Width \in Nat /\ Width > 0
  /\ SocketBuffer \in Nat
  /\ MaxTraffic \in Nat
  /\ \A b \in Bodies \cup StrayBodies : b \in Nat
  /\ \A b \in Bodies : PacketSize(b) = HeaderSize + b
  /\ \A b \in Nat : PacketSize(b) \in Nat
<1>1. \A b \in Bodies : (HeaderSize + b) % Width = HeaderSize + b
  BY SizesAssumption
<1>2. \A b \in Nat : (HeaderSize + b) % Width \in Nat
  BY SizesAssumption
<1>3. /\ \A b \in Bodies : PacketSize(b) = HeaderSize + b
      /\ \A b \in Nat : PacketSize(b) \in Nat
  BY <1>1, <1>2 DEF PacketSize
<1>4. \A b \in Bodies \cup StrayBodies : b \in Nat
  BY SizesAssumption
<1>5. HeaderSize \in Nat /\ HeaderSize > 0 /\ Width \in Nat /\ Width > 0
  BY SizesAssumption
<1>6. SocketBuffer \in Nat /\ MaxTraffic \in Nat
  BY SizesAssumption
<1> QED
  BY <1>3, <1>4, <1>5, <1>6

\* What a frame is.
LEMMA FrameFacts ==
  ASSUME TypeIn
  PROVE  /\ Len(stream) \in Nat
         /\ \A i \in 1..Len(stream) :
              /\ stream[i] \in Frames
              /\ stream[i].from \in Nat /\ stream[i].body \in Nat /\ stream[i].good \in BOOLEAN
              /\ End(i) \in Nat /\ stream[i].from < End(i)
         /\ Sent \in Nat
         /\ stream # <<>> => Sent = End(Len(stream))
         /\ stream = <<>> => Sent = 0
<1>1. Len(stream) \in Nat /\ \A i \in 1..Len(stream) : stream[i] \in Frames
  BY DEF TypeIn
<1>2. \A f \in Frames : f.from \in Nat /\ f.body \in Nat /\ f.good \in BOOLEAN
  BY Sizes DEF Frames
<1>3. \A i \in 1..Len(stream) :
        /\ stream[i].from \in Nat /\ stream[i].body \in Nat /\ stream[i].good \in BOOLEAN
        /\ End(i) \in Nat /\ stream[i].from < End(i)
  <2> SUFFICES ASSUME NEW i \in 1..Len(stream)
               PROVE  /\ stream[i].from \in Nat /\ stream[i].body \in Nat /\ stream[i].good \in BOOLEAN
                      /\ End(i) \in Nat /\ stream[i].from < End(i)
    OBVIOUS
  <2>1. stream[i].from \in Nat /\ stream[i].body \in Nat /\ stream[i].good \in BOOLEAN
    BY <1>1, <1>2
  <2>2. HeaderSize \in Nat /\ HeaderSize > 0
    BY Sizes
  <2> QED
    BY <2>1, <2>2 DEF End
<1>4. stream # <<>> => Len(stream) \in 1..Len(stream)
  BY <1>1 DEF TypeIn
<1>5. Sent \in Nat /\ (stream # <<>> => Sent = End(Len(stream))) /\ (stream = <<>> => Sent = 0)
  BY <1>3, <1>4 DEF Sent, End
<1> QED
  BY <1>1, <1>3, <1>5

\* The frames before a well-formed one are well-formed.
LEMMA Prefix ==
  ASSUME TypeIn, NEW i \in WellFormed, NEW j \in 1..i
  PROVE  j \in WellFormed /\ i \in 1..Len(stream) /\ stream[i].good
BY FrameFacts DEF WellFormed

\* A client that keeps to the format sends well-formed frames only.
LEMMA ConformingMeans ==
  ASSUME TypeIn, Conforming, NEW i \in 1..Len(stream)
  PROVE  i \in WellFormed
BY FrameFacts DEF Conforming, WellFormed

\* The packet that is dispatched next is the frame at the head of the buffer.
LEMMA NextPacket ==
  ASSUME InInv, NEW i \in WellFormed, Len(dispatched) + 1 = i
  PROVE  /\ head = stream[i].from
         /\ Header = [good |-> TRUE, body |-> stream[i].body]
         /\ Header # NoHeader
         /\ stream[i].body \in Bodies
<1>1. i \in 1..Len(stream) /\ stream[i].good
  BY FrameFacts DEF WellFormed, InInv
<1>2. head = stream[i].from
  BY DEF InInv, Aligned
<1>3. AtHead = {i}
  <2>1. i \in AtHead
    BY <1>1, <1>2 DEF AtHead
  <2>2. ASSUME NEW j \in AtHead
        PROVE  j = i
    <3>1. j \in 1..Len(stream) /\ stream[j].from = stream[i].from
      BY <1>2 DEF AtHead
    <3>2. CASE j < i
      BY <1>1, <3>1, <3>2, FrameFacts DEF InInv, Layout
    <3>3. CASE i < j
      BY <1>1, <3>1, <3>3, FrameFacts DEF InInv, Layout
    <3> QED
      BY <1>1, <3>1, <3>2, <3>3, FrameFacts DEF InInv
  <2> QED
    BY <2>1, <2>2
<1>4. Header = [good |-> stream[i].good, body |-> stream[i].body]
  BY <1>3 DEF Header
<1>5. stream[i].good = TRUE
  BY <1>1, FrameFacts DEF InInv
<1> QED
  BY <1>1, <1>2, <1>4, <1>5 DEF NoHeader, InInv, Layout

\* After the last packet the buffer is empty.
LEMMA NothingLeft ==
  ASSUME InInv, Conforming, Len(dispatched) = Len(stream)
  PROVE  Buffered = 0
<1>1. head = Sent
  BY DEF InInv, Aligned
<1> QED
  BY <1>1, FrameFacts DEF InInv, TypeIn, Buffered

\* A header that is read is a signature that is missing or a size.
LEMMA HeaderFacts ==
  ASSUME InInv, HeaderRead
  PROVE  /\ Buffered \in Nat /\ Buffered >= HeaderSize
         /\ Header.good \in BOOLEAN
         /\ Header.good => Header.body \in Bodies \cup StrayBodies
<1>1. Buffered \in Nat /\ Buffered >= HeaderSize
  BY FrameFacts, Sizes DEF InInv, TypeIn, Buffered, HeaderRead
<1>2. CASE AtHead = {}
  <2>1. Header = stray /\ stray \in Headers(StrayBodies)
    BY <1>2 DEF Header, HeaderRead, InInv, TypeIn
  <2> QED
    <3>1. CASE stray = NoSignature
      BY <1>1, <2>1, <3>1 DEF NoSignature
    <3>2. CASE stray \in [good : {TRUE}, body : StrayBodies]
      BY <1>1, <2>1, <3>2
    <3> QED
      BY <2>1, <3>1, <3>2 DEF Headers
<1>3. CASE AtHead # {}
  <2>1. PICK i \in AtHead : Header = [good |-> stream[i].good, body |-> stream[i].body]
    BY <1>3 DEF Header
  <2>2. i \in 1..Len(stream)
    BY DEF AtHead
  <2> QED
    BY <1>1, <2>1, <2>2, FrameFacts DEF InInv, Layout
<1> QED
  BY <1>2, <1>3

\* Steps that leave the stream and the buffer alone.
LEMMA SameStream ==
  ASSUME stream' = stream
  PROVE  /\ WellFormed' = WellFormed
         /\ Sent' = Sent
         /\ \A i : End(i)' = End(i)
         /\ Conforming' <=> Conforming
         /\ Layout' <=> Layout
BY DEF WellFormed, Sent, End, Conforming, Layout

\* The socket, the client's end and the loop may change.
LEMMA SameBuffer ==
  ASSUME InInv, UNCHANGED <<stream, taken, head, dispatched>>,
         arrived' \in arrived..Sent, peer' \in {"open", "closed", "reset"}, edge' \in BOOLEAN,
         loop' \in {"wait", "read", "frame", "gone"},
         stray' \in Headers(StrayBodies) \cup {NoHeader},
         loop = "frame" => loop' = "frame"
  PROVE  InInv'
<1>1. TypeIn'
  BY SameStream, FrameFacts DEF InInv, TypeIn
<1>2. Layout'
  BY SameStream DEF InInv
<1>3. Aligned'
  BY SameStream DEF InInv, Aligned
<1>4. FramedAsSent'
  BY SameStream DEF InInv, FramedAsSent
<1> QED
  BY <1>1, <1>2, <1>3, <1>4 DEF InInv

-----------------------------------------------------------------------------
(* The client and the event loop.                                          *)

\* A frame is added at the end.
LEMMA ClientSendStep ==
  ASSUME InInv, NEW h \in Headers(Bodies), ClientSend(h)
  PROVE  InInv'
<1> DEFINE n == Len(stream)
           f == [from |-> Sent, body |-> h.body, good |-> h.good]
<1>s. HeaderSize \in Nat /\ HeaderSize > 0 /\ Sent \in Nat
  BY FrameFacts, Sizes DEF InInv
<1>a. /\ f \in Frames /\ (h.good => h.body \in Bodies) /\ h.body \in Nat
      /\ f.from = Sent /\ f.body = h.body /\ f.good = h.good
  <2>1. /\ h.good \in BOOLEAN /\ h.body \in Bodies \cup {0}
        /\ h.good => h.body \in Bodies
    <3>1. CASE h = NoSignature
      BY <3>1 DEF NoSignature
    <3>2. CASE h \in [good : {TRUE}, body : Bodies]
      BY <3>2
    <3> QED
      BY <3>1, <3>2 DEF Headers
  <2>2. h.body \in Nat
    BY <2>1, Sizes
  <2> QED
    BY <1>s, <2>1, <2>2 DEF Frames
<1>b. stream' = Append(stream, f) /\ UNCHANGED <<arrived, peer, edge, loop, taken, head, stray, dispatched>>
  BY DEF ClientSend
<1>c. n \in Nat /\ stream \in Seq(Frames)
  BY FrameFacts DEF InInv, TypeIn
<1>d. /\ stream' \in Seq(Frames) /\ Len(stream') = n + 1 /\ stream'[n + 1] = f
      /\ \A i \in 1..n : stream'[i] = stream[i]
      /\ stream' # <<>>
  BY <1>a, <1>b, <1>c
<1>e. Sent' = Sent + HeaderSize + h.body
  BY <1>a, <1>d DEF Sent
<1>f. Sent \in Nat /\ Sent' \in Nat /\ Sent + HeaderSize <= Sent'
  BY <1>a, <1>e, <1>s
<1>g. /\ \A i \in 1..n : End(i)' = End(i) /\ End(i) \in Nat
      /\ \A i \in Nat : i = n + 1 => End(i)' = Sent'
  <2>1. \A i \in 1..n : End(i)' = End(i)
    BY <1>d DEF End
  <2>2. \A i \in Nat : i = n + 1 => End(i)' = Sent'
    BY <1>a, <1>d, <1>e DEF End
  <2> QED
    BY <2>1, <2>2, FrameFacts DEF InInv
<1> HIDE DEF f, n
<1>h. \A i \in WellFormed' : i \in WellFormed \/ (i = n + 1 /\ Conforming)
  BY <1>a, <1>c, <1>d DEF WellFormed, Conforming, n
<1>1. TypeIn'
  <2>1. arrived \in 0..Sent'
    BY <1>f, <1>s DEF InInv, TypeIn
  <2> QED
    BY <1>b, <1>d, <2>1 DEF InInv, TypeIn
<1>2. Layout'
  <2>1. \A i \in 1..Len(stream') : stream'[i].good => stream'[i].body \in Bodies
    BY <1>a, <1>c, <1>d DEF InInv, Layout, n
  <2>2. \A i \in 1..Len(stream') : End(i)' <= Sent'
    <3> SUFFICES ASSUME NEW i \in 1..(n + 1)
                 PROVE  End(i)' <= Sent'
      BY <1>d
    <3>1. CASE i \in 1..n
      <4>1. End(i)' = End(i) /\ End(i) \in Nat /\ End(i) <= Sent
        BY <1>g, <3>1 DEF InInv, Layout, n
      <4> QED
        BY <1>f, <1>s, <4>1
    <3>2. CASE i = n + 1
      BY <1>c, <1>f, <1>g, <3>2
    <3> QED
      BY <1>c, <3>1, <3>2
  <2>3. \A i, j \in 1..Len(stream') : i < j => End(i)' <= stream'[j].from
    <3> SUFFICES ASSUME NEW i \in 1..(n + 1), NEW j \in 1..(n + 1), i < j
                 PROVE  End(i)' <= stream'[j].from
      BY <1>d
    <3>1. i \in 1..n /\ End(i)' = End(i) /\ End(i) <= Sent
      BY <1>c, <1>g DEF InInv, Layout, n
    <3>2. CASE j \in 1..n
      BY <1>d, <3>1, <3>2 DEF InInv, Layout, n
    <3>3. CASE j = n + 1
      BY <1>a, <1>d, <3>1, <3>3
    <3> QED
      BY <1>c, <3>2, <3>3
  <2>4. \A i \in 1..Len(stream') : i + 1 \in 1..Len(stream') => stream'[i + 1].from = End(i)'
    <3>1. Len(stream') = n + 1
      BY <1>d
    <3>2. \A i \in 1..Len(stream') : i + 1 \in 1..Len(stream') => i \in 1..n
      BY <1>c, <3>1
    <3>3. ASSUME NEW i \in 1..n
          PROVE  stream'[i + 1].from = End(i)'
      <4>1. End(i)' = End(i)
        BY <1>g
      <4>2. CASE i + 1 \in 1..n
        BY <4>1, <4>2, <1>d DEF InInv, Layout, n
      <4>3. CASE i = n
        BY <4>1, <4>3, <1>a, <1>c, <1>d, FrameFacts DEF InInv, n
      <4> QED
        BY <1>c, <4>2, <4>3
    <3> QED
      BY <3>2, <3>3
  <2> QED
    BY <2>1, <2>2, <2>3, <2>4 DEF Layout
<1>3. Aligned'
  <2>0. Len(dispatched) \in Nat /\ dispatched' = dispatched /\ head' = head
    BY <1>b DEF InInv, TypeIn
  <2>1. \A i \in WellFormed' : Len(dispatched') + 1 = i => head' = stream'[i].from
    <3> SUFFICES ASSUME NEW i \in WellFormed', Len(dispatched) + 1 = i
                 PROVE  head = stream'[i].from
      BY <2>0
    <3>1. CASE i \in WellFormed
      BY <1>d, <3>1 DEF InInv, Aligned, WellFormed, n
    <3>2. CASE i = n + 1 /\ Conforming
      BY <1>a, <1>c, <1>d, <2>0, <3>2 DEF InInv, Aligned, n
    <3> QED
      BY <1>h, <3>1, <3>2
  <2>2. Conforming' => Conforming
    BY <1>c, <1>d DEF Conforming, n
  <2>3. Conforming => Len(dispatched) <= n
    BY DEF InInv, Aligned, n
  <2> QED
    BY <1>c, <1>d, <2>0, <2>1, <2>2, <2>3 DEF Aligned
<1>4. FramedAsSent'
  <2> SUFFICES ASSUME NEW i \in WellFormed'
               PROVE  /\ i <= Len(dispatched') =>
                           dispatched'[i] = [from |-> stream'[i].from, body |-> stream'[i].body]
                      /\ loop' # "frame" /\ End(i)' <= taken' => i <= Len(dispatched')
    BY DEF FramedAsSent
  <2>1. CASE i \in WellFormed
    BY <1>b, <1>d, <1>g, <2>1 DEF InInv, FramedAsSent, WellFormed, n
  <2>2. CASE i = n + 1 /\ Conforming
    <3>1. Len(dispatched) \in Nat /\ Len(dispatched) <= n
      BY <2>2 DEF InInv, TypeIn, Aligned, n
    <3>2. taken \in Nat /\ taken <= Sent /\ Sent < Sent'
      BY <1>f, Sizes DEF InInv, TypeIn
    <3> QED
      BY <1>b, <1>c, <1>f, <1>g, <1>s, <2>2, <3>1, <3>2
  <2> QED
    BY <1>h, <2>1, <2>2
<1> QED
  BY <1>1, <1>2, <1>3, <1>4 DEF InInv

\* What read() returned is appended; the framer runs next.
LEMMA ReadStep ==
  ASSUME InInv, NEW n \in 1..ReadSize, Read(n)
  PROVE  InInv'
<1>0. /\ taken' = taken + n /\ loop' = "frame" /\ n \in Nat
      /\ UNCHANGED <<stream, arrived, peer, edge, head, stray, dispatched>>
  BY SizesAssumption DEF Read
<1>a. taken + n <= arrived
  BY <1>0, FrameFacts, SizesAssumption DEF InInv, TypeIn, Read, Readable
<1>1. TypeIn'
  BY <1>0, <1>a, SameStream, FrameFacts DEF InInv, TypeIn
<1>2. Layout'
  BY <1>0, SameStream DEF InInv
<1>3. Aligned'
  BY <1>0, SameStream DEF InInv, Aligned
<1>4. FramedAsSent'
  BY <1>0, SameStream DEF InInv, FramedAsSent
<1> QED
  BY <1>1, <1>2, <1>3, <1>4 DEF InInv

\* The next packet, if the client keeps to the format, goes to the dispatcher.
LEMMA DispatchPacketStep ==
  ASSUME InInv, DispatchPacket
  PROVE  InInv'
<1> DEFINE d == Len(dispatched)
           p == [from |-> head, body |-> Header.body]
<1>a. /\ HeaderRead /\ Header.good /\ Buffered >= PacketSize(Header.body) /\ loop = "frame"
      /\ dispatched' = Append(dispatched, p) /\ head' = head + PacketSize(Header.body)
      /\ stray' = NoHeader /\ UNCHANGED <<stream, arrived, peer, edge, loop, taken>>
  BY DEF DispatchPacket, HeaderRead
<1>b. Header.body \in Bodies \cup StrayBodies /\ PacketSize(Header.body) \in Nat
  BY <1>a, HeaderFacts, Sizes
<1>c. /\ head \in Nat /\ taken \in Nat /\ arrived \in Nat /\ Sent \in Nat /\ d \in Nat
      /\ dispatched \in Seq([from : Nat, body : Bodies \cup StrayBodies])
      /\ p \in [from : Nat, body : Bodies \cup StrayBodies]
  BY <1>b, FrameFacts DEF InInv, TypeIn
<1>d. /\ dispatched' \in Seq([from : Nat, body : Bodies \cup StrayBodies])
      /\ Len(dispatched') = d + 1 /\ dispatched'[d + 1] = p
      /\ \A i \in 1..d : dispatched'[i] = dispatched[i]
  BY <1>a, <1>c
<1>e. d + 1 \in WellFormed =>
        /\ head = stream[d + 1].from /\ Header.body = stream[d + 1].body
        /\ head' = End(d + 1)
  <2> SUFFICES ASSUME d + 1 \in WellFormed
               PROVE  /\ head = stream[d + 1].from /\ Header.body = stream[d + 1].body
                      /\ head' = End(d + 1)
    OBVIOUS
  <2>1. /\ head = stream[d + 1].from /\ Header.body = stream[d + 1].body
        /\ stream[d + 1].body \in Bodies
    BY NextPacket
  <2>2. PacketSize(Header.body) = HeaderSize + stream[d + 1].body
    BY <2>1, Sizes
  <2>3. HeaderSize \in Nat /\ stream[d + 1].body \in Nat
    BY <2>1, Sizes
  <2> QED
    BY <1>a, <1>c, <2>1, <2>2, <2>3 DEF End
<1>f. Conforming => d # Len(stream)
  BY <1>a, NothingLeft, HeaderFacts, Sizes
<1>p. p = [from |-> head, body |-> Header.body]
  OBVIOUS
<1>q. d = Len(dispatched)
  OBVIOUS
<1> HIDE DEF d, p
<1>1. TypeIn'
  BY <1>a, <1>b, <1>c, <1>d, SameStream DEF InInv, TypeIn, Buffered
<1>2. Layout'
  BY <1>a, SameStream DEF InInv
<1>3. Aligned'
  <2>1. ASSUME NEW i \in WellFormed, Len(dispatched') + 1 = i
        PROVE  head' = stream[i].from
    <3>1. i = d + 2 /\ i \in 1..Len(stream) /\ Len(stream) \in Nat
      BY <1>c, <1>d, <2>1, FrameFacts DEF WellFormed, InInv
    <3>2. d + 1 \in 1..i /\ d + 1 \in 1..Len(stream) /\ (d + 1) + 1 = i
      BY <1>c, <3>1
    <3>3. d + 1 \in WellFormed
      BY <3>2, Prefix DEF InInv
    <3>4. stream[i].from = End(d + 1)
      BY <3>1, <3>2 DEF InInv, Layout
    <3> QED
      BY <1>e, <3>3, <3>4
  <2>2. Conforming => d + 1 <= Len(stream)
    BY <1>c, <1>f, <1>q, FrameFacts DEF InInv, Aligned
  <2>3. Conforming /\ d + 1 = Len(stream) => head' = Sent
    <3> SUFFICES ASSUME Conforming, d + 1 = Len(stream)
                 PROVE  head' = Sent
      OBVIOUS
    <3>1. d + 1 \in 1..Len(stream) /\ stream # <<>>
      BY <1>c DEF InInv, TypeIn
    <3>2. d + 1 \in WellFormed
      BY <3>1, ConformingMeans DEF InInv
    <3> QED
      BY <1>e, <3>1, <3>2, FrameFacts DEF InInv
  <2> QED
    BY <1>a, <1>d, <2>1, <2>2, <2>3, SameStream DEF Aligned
<1>4. FramedAsSent'
  <2> SUFFICES ASSUME NEW i \in WellFormed, i <= d + 1
               PROVE  dispatched'[i] = [from |-> stream[i].from, body |-> stream[i].body]
    BY <1>a, <1>d, SameStream DEF FramedAsSent
  <2>1. i \in 1..Len(stream) /\ Len(stream) \in Nat
    BY FrameFacts DEF WellFormed, InInv
  <2>2. CASE i <= d
    <3>1. i \in 1..d
      BY <1>c, <2>1, <2>2
    <3> QED
      BY <1>d, <1>q, <2>2, <3>1 DEF InInv, FramedAsSent
  <2>3. CASE i = d + 1
    BY <1>d, <1>e, <1>p, <2>3
  <2> QED
    BY <1>c, <2>1, <2>2, <2>3
<1> QED
  BY <1>1, <1>2, <1>3, <1>4 DEF InInv

\* Without a next packet every packet of the stream has been dispatched.
LEMMA NoNextPacket ==
  ASSUME InInv, Len(dispatched) + 1 \notin WellFormed, NEW i \in WellFormed
  PROVE  i <= Len(dispatched)
<1>1. Len(dispatched) \in Nat /\ i \in 1..Len(stream) /\ Len(stream) \in Nat
  BY FrameFacts DEF InInv, TypeIn, WellFormed
<1>2. CASE i > Len(dispatched)
  <2>1. Len(dispatched) + 1 \in 1..i
    BY <1>1, <1>2
  <2> QED
    BY <2>1, Prefix DEF InInv
<1> QED
  BY <1>1, <1>2

\* Bytes without the signature are thrown away with what follows them.
LEMMA DropBufferStep ==
  ASSUME InInv, DropBuffer
  PROVE  InInv'
<1>0. /\ HeaderRead /\ ~Header.good /\ head' = taken /\ stray' = NoHeader /\ loop' = "read"
      /\ UNCHANGED <<stream, arrived, peer, edge, taken, dispatched>>
  BY DEF DropBuffer, AfterFraming
<1>a. Len(dispatched) + 1 \notin WellFormed
  BY <1>0, NextPacket
<1>b. ~Conforming
  <2> SUFFICES ASSUME Conforming
               PROVE  FALSE
    OBVIOUS
  <2>1. Len(dispatched) \in Nat /\ Len(stream) \in Nat /\ Len(dispatched) <= Len(stream)
    BY FrameFacts DEF InInv, TypeIn, Aligned
  <2>2. Len(dispatched) # Len(stream)
    BY <1>0, NothingLeft, HeaderFacts, Sizes
  <2>3. Len(dispatched) + 1 \in 1..Len(stream)
    BY <2>1, <2>2
  <2> QED
    BY <1>a, <2>3, ConformingMeans DEF InInv
<1>1. TypeIn'
  BY <1>0, SameStream, FrameFacts DEF InInv, TypeIn
<1>2. Layout'
  BY <1>0, SameStream DEF InInv
<1>3. Aligned'
  BY <1>0, <1>a, <1>b, SameStream DEF Aligned
<1>4. FramedAsSent'
  BY <1>0, <1>a, NoNextPacket, SameStream DEF InInv, FramedAsSent
<1> QED
  BY <1>1, <1>2, <1>3, <1>4 DEF InInv

\* The loop is left when no packet is whole.
LEMMA FramingDoneStep ==
  ASSUME InInv, FramingDone
  PROVE  InInv'
<1>0. /\ loop' = "read"
      /\ \/ Buffered < HeaderSize
         \/ HeaderRead /\ Header.good /\ Buffered < PacketSize(Header.body)
      /\ UNCHANGED <<stream, arrived, peer, edge, taken, head, stray, dispatched>>
  BY DEF FramingDone, AfterFraming
<1>1. TypeIn'
  BY <1>0, SameStream DEF InInv, TypeIn
<1>2. Layout'
  BY <1>0, SameStream DEF InInv
<1>3. Aligned'
  BY <1>0, SameStream DEF InInv, Aligned
<1>4. FramedAsSent'
  <2> DEFINE k == Len(dispatched) + 1
  <2>1. ASSUME NEW i \in WellFormed, End(i) <= taken
        PROVE  i <= Len(dispatched)
    <3>1. CASE k \notin WellFormed
      BY <3>1, NoNextPacket
    <3>2. CASE k \in WellFormed
      <4>0. /\ HeaderSize \in Nat /\ Buffered = taken - head /\ taken \in Nat /\ head \in Nat
            /\ Len(dispatched) \in Nat
        BY FrameFacts, Sizes DEF InInv, TypeIn, Buffered
      <4>1. /\ k \in 1..Len(stream) /\ i \in 1..Len(stream)
            /\ End(k) \in Nat /\ End(i) \in Nat /\ stream[i].from < End(i)
            /\ stream[k].from \in Nat /\ stream[k].body \in Nat
        BY <3>2, FrameFacts DEF WellFormed, InInv
      <4>2. head = stream[k].from /\ Header.body = stream[k].body /\ stream[k].body \in Bodies
        BY <3>2, NextPacket
      <4>3. Buffered < HeaderSize + stream[k].body
        <5>1. PacketSize(Header.body) = HeaderSize + stream[k].body
          BY <4>2, Sizes
        <5> QED
          BY <1>0, <4>0, <4>1, <5>1
      <4>4. taken < End(k)
        <5>1. End(k) = head + HeaderSize + stream[k].body
          BY <4>2 DEF End
        <5> QED
          BY <4>0, <4>1, <4>3, <5>1
      <4>5. ~(k <= i)
        <5>1. CASE k = i
          BY <2>1, <4>0, <4>1, <4>4, <5>1
        <5>2. CASE k < i
          <6>1. End(k) <= stream[i].from /\ stream[i].from \in Nat
            BY <4>1, <5>2, FrameFacts DEF InInv, Layout
          <6> QED
            BY <2>1, <4>0, <4>1, <4>4, <6>1
        <5> QED
          BY <4>0, <4>1, <5>1, <5>2
      <4> QED
        BY <4>0, <4>1, <4>5
    <3> QED
      BY <3>1, <3>2
  <2> QED
    BY <1>0, <2>1, SameStream DEF InInv, FramedAsSent
<1> QED
  BY <1>1, <1>2, <1>3, <1>4 DEF InInv

\* The other steps of the client and the event loop.
LEMMA InboundStep ==
  ASSUME InInv, Client \/ Arrive \/ EventLoop
  PROVE  InInv'
<1>1. CASE \E h \in Headers(Bodies) : ClientSend(h)
  BY <1>1, ClientSendStep
<1>2. CASE Arrive
  <2>1. arrived' \in arrived..Sent
    BY <1>2, FrameFacts DEF Arrive, InInv, TypeIn
  <2> QED
    BY <1>2, <2>1, SameBuffer DEF Arrive, InInv, TypeIn
<1>3. CASE ClientClose \/ ClientReset \/ EpollWait \/ ReadAgain \/ Disconnect
  <2>1. arrived' \in arrived..Sent
    BY <1>3, FrameFacts DEF ClientClose, ClientReset, EpollWait, ReadAgain, Disconnect,
       InInv, TypeIn
  <2> QED
    BY <1>3, <2>1, SameBuffer DEF ClientClose, ClientReset, EpollWait, ReadAgain, Disconnect,
       InInv, TypeIn
<1>4. CASE \E h \in Headers(StrayBodies) : MisreadHeader(h)
  <2>1. arrived' \in arrived..Sent
    BY <1>4, FrameFacts DEF MisreadHeader, InInv, TypeIn
  <2> QED
    BY <1>4, <2>1, SameBuffer DEF MisreadHeader, InInv, TypeIn
<1>5. CASE \E n \in 1..ReadSize : Read(n)
  BY <1>5, ReadStep
<1>6. CASE ClientReceive
  <2>1. arrived' \in arrived..Sent
    BY <1>6, FrameFacts DEF ClientReceive, inbound, InInv, TypeIn
  <2> QED
    BY <1>6, <2>1, SameBuffer DEF ClientReceive, inbound, InInv, TypeIn
<1> QED
  BY <1>1, <1>2, <1>3, <1>4, <1>5, <1>6, DropBufferStep, DispatchPacketStep, FramingDoneStep
     DEF Client, EventLoop

\* Steps of the other side.
LEMMA InboundKept ==
  ASSUME InInv, UNCHANGED inbound
  PROVE  InInv'
<1>1. arrived' \in arrived..Sent
  BY FrameFacts DEF inbound, InInv, TypeIn
<1> QED
  BY <1>1, SameBuffer DEF inbound, InInv, TypeIn

-----------------------------------------------------------------------------
(* sendPacket.                                                             *)

\* What a packet and a run of bytes are.
LEMMA OutFacts ==
  ASSUME TypeOut
  PROVE  /\ Len(wire) \in Nat
         /\ wire # <<>> => Len(wire) \in 1..Len(wire)
         /\ wire = <<>> => Len(wire) = 0
         /\ packets \in Nat
         /\ \A k \in 1..Len(wire) :
              /\ wire[k] \in Runs
              /\ wire[k].id \in Nat /\ wire[k].id > 0
              /\ wire[k].size \in Nat /\ wire[k].bytes \in Nat
         /\ \A w \in Workers :
              job[w] \in Packets /\ job[w].id \in Nat /\ job[w].size \in Nat /\ job[w].sent \in Nat
<1>1. /\ Len(wire) \in Nat
      /\ wire # <<>> => Len(wire) \in 1..Len(wire)
      /\ wire = <<>> => Len(wire) = 0
      /\ \A k \in 1..Len(wire) : wire[k] \in Runs
  BY DEF TypeOut
<1>2. /\ \A r \in Runs : r.id \in Nat /\ r.id > 0 /\ r.size \in Nat /\ r.bytes \in Nat
      /\ \A p \in Packets : p.id \in Nat /\ p.size \in Nat /\ p.sent \in Nat
      /\ packets \in Nat
  <2>1. MaxTraffic \in Nat
    BY Sizes
  <2>2. \A r \in Runs : r.id \in Nat /\ r.id > 0 /\ r.size \in Nat /\ r.bytes \in Nat
    BY <2>1 DEF Runs
  <2>3. \A p \in Packets : p.id \in Nat /\ p.size \in Nat /\ p.sent \in Nat
    BY <2>1 DEF Packets
  <2> QED
    BY <2>1, <2>2, <2>3 DEF TypeOut
<1>3. \A w \in Workers : job[w] \in Packets
  BY DEF TypeOut
<1> QED
  BY <1>1, <1>2, <1>3

\* A worker without a packet has number 0.
LEMMA NoPacketFacts ==
  /\ NoPacket \in Packets
  /\ NoPacket.id = 0 /\ NoPacket.sent = 0 /\ NoPacket.size = 0
BY Sizes DEF NoPacket, Packets

\* The holder of writeMutex has a packet.
LEMMA WriterFacts ==
  ASSUME OutInv, NEW w \in Workers, writer = w
  PROVE  /\ job[w] # NoPacket /\ job[w].id \in 1..packets /\ job[w].sent <= job[w].size
         /\ writer # NoWorker
BY SizesAssumption DEF OutInv, Jobs

\* Its number is within the bound.
LEMMA WriterNumber ==
  ASSUME OutInv, NEW w \in Workers, writer = w
  PROVE  job[w].id \in 1..MaxTraffic
<1>1. job[w].id \in 1..packets
  BY WriterFacts
<1>2. MaxTraffic \in Nat /\ packets \in 0..MaxTraffic
  BY Sizes DEF OutInv, TypeOut
<1> QED
  BY <1>1, <1>2

\* Steps that leave the packets and the wire alone.
LEMMA OutboundKept ==
  ASSUME OutInv, UNCHANGED <<job, writer, wire, packets, cutShort>>, queued' \in 0..SocketBuffer,
         killed => killed'
  PROVE  OutInv'
<1>1. TypeOut'
  BY DEF OutInv, TypeOut
<1>2. Jobs'
  BY DEF OutInv, Jobs
<1>3. Current'
  BY DEF OutInv, Current
<1>4. WholeUnlessCut'
  BY DEF OutInv, WholeUnlessCut
<1> QED
  BY <1>1, <1>2, <1>3, <1>4 DEF OutInv

\* A new packet has a number that is not on the wire.
LEMMA SendPacketStep ==
  ASSUME TypeIn, OutInv, ~killed, NEW w \in Workers, NEW b \in AnswerBodies, SendPacket(w, b)
  PROVE  OutInv'
<1> DEFINE p == [id |-> packets + 1, size |-> HeaderSize + b, sent |-> 0]
<1>a. /\ job[w] = NoPacket /\ packets' = packets + 1 /\ packets + 1 \in 1..MaxTraffic
      /\ job' = [job EXCEPT ![w] = p]
      /\ UNCHANGED <<writer, queued, wire, cutShort, killed>>
  <2>1. Len(stream) + packets < MaxTraffic /\ packets \in Nat
    BY OutFacts DEF SendPacket, OutInv
  <2>2. Len(stream) \in Nat
    BY FrameFacts
  <2> QED
    BY <2>1, <2>2, Sizes DEF SendPacket
<1>b. /\ p \in Packets /\ p.id = packets + 1 /\ p.sent = 0 /\ p.size \in Nat /\ p # NoPacket
      /\ p.sent <= p.size
  <2>1. HeaderSize + b \in Nat
    BY Sizes, SizesAssumption
  <2> QED
    <3>1. MaxTraffic \in Nat /\ packets \in Nat
      BY Sizes, OutFacts DEF OutInv
    <3>2. p.id # NoPacket.id
      BY <3>1, NoPacketFacts
    <3> QED
      BY <1>a, <2>1, <3>1, <3>2 DEF Packets
<1> HIDE DEF p
<1>c. job'[w] = p /\ \A v \in Workers : v # w => job'[v] = job[v]
  BY <1>a DEF OutInv, TypeOut
<1>d. writer # w
  BY <1>a, WriterFacts
<1>1. TypeOut'
  <2>1. MaxTraffic \in Nat
    BY Sizes
  <2> QED
    BY <1>a, <1>b, <2>1 DEF OutInv, TypeOut
<1>2. Jobs'
  <2>1. \A v \in Workers : job'[v] # NoPacket =>
          job'[v].id \in 1..packets' /\ job'[v].sent <= job'[v].size
    BY <1>a, <1>b, <1>c, OutFacts DEF OutInv, Jobs
  <2>2. \A v \in Workers : v # w => job[v].id # packets + 1
    BY OutFacts, NoPacketFacts DEF OutInv, Jobs
  <2>3. \A u, v \in Workers : job'[u] # NoPacket /\ job'[u].id = job'[v].id => u = v
    BY <1>b, <1>c, <2>2 DEF OutInv, Jobs
  <2>4. writer' # NoWorker => job'[writer'] # NoPacket
    BY <1>a, <1>c, <1>d DEF OutInv, Jobs, TypeOut
  <2> QED
    BY <2>1, <2>3, <2>4 DEF Jobs
<1>3. Current'
  <2>1. \A k \in 1..Len(wire) : wire[k].id <= packets + 1 /\ wire[k].id # packets + 1
    BY OutFacts DEF OutInv, Current
  <2>2. \A v \in Workers : job'[v].sent > 0 => v # w
    BY <1>b, <1>c
  <2> QED
    BY <1>a, <1>b, <1>c, <2>1, <2>2 DEF OutInv, Current
<1>4. WholeUnlessCut'
  <2>1. writer # NoWorker => job'[writer] = job[writer]
    BY <1>c, <1>d DEF OutInv, TypeOut
  <2> QED
    BY <1>a, <2>1 DEF OutInv, WholeUnlessCut
<1> QED
  BY <1>1, <1>2, <1>3, <1>4 DEF OutInv

\* Whoever gets the mutex finds the packets on the wire finished.
LEMMA LockWriteStep ==
  ASSUME OutInv, ~killed, NEW w \in Workers, LockWrite(w)
  PROVE  OutInv'
<1>a. /\ job[w] # NoPacket /\ writer = NoWorker /\ writer' = w
      /\ UNCHANGED <<job, queued, wire, packets, cutShort, killed>>
  BY DEF LockWrite, MutexFree
<1>b. \A k \in 1..Len(wire), v \in Workers : wire[k].id # job[v].id
  BY <1>a, SizesAssumption DEF OutInv, Current
<1>1. TypeOut'
  BY <1>a DEF OutInv, TypeOut
<1>2. Jobs'
  BY <1>a DEF OutInv, Jobs
<1>3. Current'
  BY <1>a, <1>b DEF OutInv, Current
<1>4. WholeUnlessCut'
  BY <1>a DEF OutInv, WholeUnlessCut
<1> QED
  BY <1>1, <1>2, <1>3, <1>4 DEF OutInv

\* The bytes written go to the end of the wire, behind those of their packet.
LEMMA Extended ==
  ASSUME OutInv, NEW w \in Workers, writer = w, NEW n \in Nat, wire' = Extend(job[w], n),
         job[w].sent + n <= job[w].size
  PROVE  /\ wire' \in Seq(Runs)
         /\ Len(wire') \in Nat /\ Len(wire') > 0
         /\ wire'[Len(wire')].id = job[w].id
         /\ wire'[Len(wire')].size = job[w].size
         /\ wire'[Len(wire')].bytes = job[w].sent + n
         /\ \A k \in 1..Len(wire') : k # Len(wire') =>
              k \in 1..Len(wire) /\ wire'[k] = wire[k] /\ wire[k].id # job[w].id
<1>0. job[w].id \in 1..MaxTraffic /\ job[w].size \in Nat /\ job[w].sent \in Nat
  BY WriterNumber, OutFacts DEF OutInv
<1>1. CASE wire # <<>> /\ wire[Len(wire)].id = job[w].id
  <2> DEFINE l == Len(wire)
             r == [wire[l] EXCEPT !.bytes = @ + n]
  <2>1. wire' = [wire EXCEPT ![l] = r] /\ l \in 1..l /\ l \in Nat /\ wire \in Seq(Runs)
    BY <1>1, OutFacts DEF Extend, OutInv, TypeOut
  <2>2. wire[l].bytes = job[w].sent /\ wire[l].size = job[w].size /\ wire[l] \in Runs
    BY <1>1, <2>1, OutFacts DEF OutInv, Current
  <2>3. r \in Runs /\ r.id = job[w].id /\ r.size = job[w].size /\ r.bytes = job[w].sent + n
    BY <1>0, <1>1, <2>2 DEF Runs
  <2> HIDE DEF r
  <2>4. wire' \in Seq(Runs) /\ Len(wire') = l /\ wire'[l] = r
    BY <2>1, <2>3
  <2>5. \A k \in 1..l : k # l => wire'[k] = wire[k] /\ wire[k].id # job[w].id
    BY <2>1 DEF OutInv, Current
  <2>6. wire'[Len(wire')] = r /\ Len(wire') \in Nat /\ Len(wire') > 0
    BY <2>1, <2>4
  <2> QED
    BY <2>3, <2>4, <2>5, <2>6
<1>2. CASE ~(wire # <<>> /\ wire[Len(wire)].id = job[w].id)
  <2> DEFINE l == Len(wire)
             r == [id |-> job[w].id, size |-> job[w].size, bytes |-> n]
  <2>1. wire' = Append(wire, r) /\ wire \in Seq(Runs) /\ l \in Nat
    BY <1>2 DEF Extend, OutInv, TypeOut
  <2>2. job[w].sent = 0
    BY <1>0, <1>2 DEF OutInv, Current
  <2>3. r \in Runs /\ r.id = job[w].id /\ r.size = job[w].size /\ r.bytes = job[w].sent + n
    BY <1>0, <2>2 DEF Runs
  <2> HIDE DEF r
  <2>4. /\ wire' \in Seq(Runs) /\ Len(wire') = l + 1 /\ wire'[l + 1] = r
        /\ \A k \in 1..l : wire'[k] = wire[k]
    BY <2>1, <2>3
  <2>5. \A k \in 1..l : wire[k].id # job[w].id
    <3> SUFFICES ASSUME NEW k \in 1..l, wire[k].id = job[w].id
                 PROVE  FALSE
      OBVIOUS
    <3>1. k = l
      BY DEF OutInv, Current
    <3>2. wire # <<>>
      BY OutFacts DEF OutInv
    <3> QED
      BY <1>2, <3>1, <3>2
  <2> QED
    BY <2>1, <2>3, <2>4, <2>5
<1> QED
  BY <1>1, <1>2

\* write() takes a part of what is left, or all of it.
LEMMA WriteStep ==
  ASSUME OutInv, ~killed, NEW w \in Workers, NEW n \in 1..SocketBuffer, Write(w, n)
  PROVE  OutInv'
<1> DEFINE p == [job[w] EXCEPT !.sent = @ + n]
<1>a. /\ writer = w /\ n \in Nat /\ n > 0 /\ job' = [job EXCEPT ![w] = p]
      /\ queued' = queued + n /\ wire' = Extend(job[w], n)
      /\ UNCHANGED <<writer, packets, cutShort, killed>>
  BY Sizes DEF Write, Writing
<1>b. /\ job[w] # NoPacket /\ job[w].id \in 1..packets /\ job[w].size \in Nat /\ job[w].sent \in Nat
      /\ writer # NoWorker /\ queued \in Nat
  BY <1>a, WriterFacts, OutFacts, Sizes DEF OutInv, TypeOut
<1>c. job[w].sent + n <= job[w].size /\ queued + n <= SocketBuffer
  BY <1>a, <1>b, Sizes DEF Write, Unsent, Free
<1>d. p \in Packets /\ p.id = job[w].id /\ p.size = job[w].size /\ p.sent = job[w].sent + n
  BY <1>a, <1>b, OutFacts DEF OutInv, Packets
<1> HIDE DEF p
<1>e. job'[w] = p /\ \A v \in Workers : v # w => job'[v] = job[v]
  BY <1>a DEF OutInv, TypeOut
<1>f. p # NoPacket
  BY <1>b, <1>d, NoPacketFacts, OutFacts DEF OutInv
<1>g. /\ wire' \in Seq(Runs) /\ Len(wire') \in Nat /\ Len(wire') > 0
      /\ wire'[Len(wire')].id = job[w].id
      /\ wire'[Len(wire')].size = job[w].size
      /\ wire'[Len(wire')].bytes = job[w].sent + n
      /\ \A k \in 1..Len(wire') : k # Len(wire') =>
           k \in 1..Len(wire) /\ wire'[k] = wire[k] /\ wire[k].id # job[w].id
  BY <1>a, <1>c, Extended
<1>1. TypeOut'
  <2>1. SocketBuffer \in Nat
    BY Sizes
  <2> QED
    BY <1>a, <1>b, <1>c, <1>d, <1>g, <2>1 DEF OutInv, TypeOut
<1>2. Jobs'
  BY <1>a, <1>b, <1>c, <1>d, <1>e, <1>f DEF OutInv, Jobs
<1>3. Current'
  <2>1. \A k \in 1..Len(wire') : wire'[k].id <= packets'
    <3> SUFFICES ASSUME NEW k \in 1..Len(wire')
                 PROVE  wire'[k].id <= packets
      BY <1>a
    <3>1. CASE k = Len(wire')
      BY <1>b, <1>g, <3>1, OutFacts DEF OutInv
    <3>2. CASE k # Len(wire')
      BY <1>g, <3>2 DEF OutInv, Current
    <3> QED
      BY <3>1, <3>2
  <2>2. \A v \in Workers : v # w => job[v].sent = 0 /\ job[v].id # job[w].id
    <3> SUFFICES ASSUME NEW v \in Workers, v # w
                 PROVE  job[v].sent = 0 /\ job[v].id # job[w].id
      OBVIOUS
    <3>1. job[v].id # job[w].id
      BY <1>b DEF OutInv, Jobs
    <3>2. CASE job[v].sent > 0
      <4>1. wire # <<>> /\ wire[Len(wire)].id = job[v].id
        BY <3>2 DEF OutInv, Current
      <4>2. Len(wire) \in 1..Len(wire)
        BY <4>1, OutFacts DEF OutInv
      <4> QED
        BY <1>a, <4>1, <4>2 DEF OutInv, Current
    <3> QED
      BY <3>1, <3>2, OutFacts DEF OutInv
  <2>3. \A v \in Workers : job'[v].sent > 0 => wire' # <<>> /\ wire'[Len(wire')].id = job'[v].id
    BY <1>d, <1>e, <1>g, <2>2
  <2>4. ASSUME NEW k \in 1..Len(wire'), NEW v \in Workers, wire'[k].id = job'[v].id
        PROVE  /\ v = w /\ k = Len(wire')
               /\ wire'[k].bytes = job'[v].sent /\ wire'[k].size = job'[v].size
    <3>1. CASE k = Len(wire')
      BY <1>d, <1>e, <1>g, <2>2, <2>4, <3>1
    <3>2. CASE k # Len(wire')
      <4>1. wire[k].id = job'[v].id /\ k \in 1..Len(wire) /\ wire[k].id # job[w].id
        BY <1>g, <2>4, <3>2
      <4>2. v # w /\ job'[v] = job[v]
        BY <1>d, <1>e, <4>1
      <4> QED
        BY <1>a, <4>1, <4>2 DEF OutInv, Current
    <3> QED
      BY <3>1, <3>2
  <2> QED
    BY <1>a, <2>1, <2>3, <2>4 DEF Current
<1>4. WholeUnlessCut'
  <2>1. ASSUME NEW k \in 1..Len(wire'), NEW l \in 1..Len(wire'), wire'[k].id = wire'[l].id
        PROVE  k = l
    BY <1>g, <2>1 DEF OutInv, WholeUnlessCut
  <2>2. ASSUME NEW k \in 1..Len(wire'), wire'[k].bytes < wire'[k].size
        PROVE  \/ wire'[k].id \in cutShort'
               \/ killed'
               \/ k = Len(wire') /\ writer' # NoWorker /\ job'[writer'].id = wire'[k].id
    <3>1. CASE k = Len(wire')
      BY <1>a, <1>b, <1>d, <1>e, <1>g, <3>1
    <3>2. CASE k # Len(wire')
      BY <1>a, <1>g, <2>2, <3>2 DEF OutInv, WholeUnlessCut
    <3> QED
      BY <3>1, <3>2
  <2> QED
    BY <2>1, <2>2 DEF WholeUnlessCut
<1> QED
  BY <1>1, <1>2, <1>3, <1>4 DEF OutInv

\* The worker leaves sendPacket: its packet is whole, or has been given up.
LEMMA UnlockStep ==
  ASSUME OutInv, ~killed, NEW w \in Workers, writer = w, Unlock(w),
         UNCHANGED <<queued, wire, packets, killed>>,
         cutShort \subseteq cutShort', cutShort' \subseteq 1..MaxTraffic,
         job[w].sent = job[w].size \/ job[w].id \in cutShort'
  PROVE  OutInv'
<1>a. writer' = NoWorker /\ job' = [job EXCEPT ![w] = NoPacket]
  BY DEF Unlock
<1>b. /\ job[w] # NoPacket /\ job[w].size \in Nat /\ job[w].sent \in Nat
      /\ writer # NoWorker
  BY WriterFacts, OutFacts DEF OutInv
<1>c. job'[w] = NoPacket /\ \A v \in Workers : v # w => job'[v] = job[v]
  BY <1>a DEF OutInv, TypeOut
<1>1. TypeOut'
  BY <1>a, NoPacketFacts DEF OutInv, TypeOut
<1>2. Jobs'
  <2>1. \A v \in Workers : job'[v] # NoPacket => v # w /\ job'[v] = job[v]
    BY <1>c
  <2>2. \A u, v \in Workers : job'[u] # NoPacket /\ job'[u].id = job'[v].id => u = v
    BY <1>c, <2>1, NoPacketFacts, OutFacts DEF OutInv, Jobs
  <2> QED
    BY <1>a, <2>1, <2>2 DEF OutInv, Jobs
<1>3. Current'
  <2>1. \A v \in Workers : job'[v].sent > 0 => wire # <<>> /\ wire[Len(wire)].id = job'[v].id
    BY <1>c, NoPacketFacts DEF OutInv, Current
  <2>2. \A k \in 1..Len(wire), v \in Workers : wire[k].id # job'[v].id
    BY <1>c, NoPacketFacts, OutFacts DEF OutInv, Current
  <2> QED
    BY <2>1, <2>2 DEF OutInv, Current
<1>4. WholeUnlessCut'
  <2>1. \A k \in 1..Len(wire) : wire[k].id = job[w].id =>
          wire[k].bytes = wire[k].size \/ wire[k].id \in cutShort'
    BY <1>b DEF OutInv, Current
  <2> QED
    BY <1>a, <1>b, <2>1, OutFacts DEF OutInv, WholeUnlessCut
<1> QED
  BY <1>1, <1>2, <1>3, <1>4 DEF OutInv

\* The steps of a worker in sendPacket.
LEMMA SendStep ==
  ASSUME TypeIn, OutInv, ~killed, killed \in BOOLEAN, NEW w \in Workers, Send(w)
  PROVE  OutInv' /\ UNCHANGED inbound /\ killed' \in BOOLEAN
<1>1. CASE \E b \in AnswerBodies : SendPacket(w, b)
  BY <1>1, SendPacketStep DEF SendPacket
<1>2. CASE LockWrite(w)
  BY <1>2, LockWriteStep DEF LockWrite
<1>3. CASE \E n \in 1..SocketBuffer : Write(w, n)
  BY <1>3, WriteStep DEF Write
<1>4. CASE Written(w)
  BY <1>4, UnlockStep DEF Written, OutInv, TypeOut
<1>5. CASE WriteStops(w)
  <2>1. writer = w /\ cutShort' = cutShort \cup {job[w].id}
    BY <1>5 DEF WriteStops, Writing
  <2>2. job[w].id \in 1..MaxTraffic
    BY <2>1, WriterNumber
  <2>3. cutShort' \subseteq 1..MaxTraffic
    BY <2>1, <2>2 DEF OutInv, TypeOut
  <2> QED
    BY <1>5, <2>1, <2>3, UnlockStep DEF WriteStops
<1>6. CASE WriteKills(w)
  BY <1>6, OutboundKept DEF WriteKills, outbound, OutInv, TypeOut
<1> QED
  BY <1>1, <1>2, <1>3, <1>4, <1>5, <1>6 DEF Send, Sending

\* The steps of the client and the event loop, seen from the sending side.
LEMMA OtherSide ==
  ASSUME OutInv, ~killed, killed \in BOOLEAN, Client \/ Arrive \/ EventLoop
  PROVE  OutInv' /\ killed' \in BOOLEAN
<1>1. CASE ClientReceive
  <2>1. queued' \in 0..SocketBuffer
    BY <1>1, Sizes DEF ClientReceive, OutInv, TypeOut
  <2> QED
    BY <1>1, <2>1, OutboundKept DEF ClientReceive
<1>2. CASE UNCHANGED outbound
  <2>1. killed' \in BOOLEAN
    <3>1. CASE DispatchPacket
      <4>1. killed' = FALSE \/ killed' = (Buffered < HeaderSize + Header.body)
        BY <3>1 DEF DispatchPacket
      <4>2. (Buffered < HeaderSize + Header.body) \in BOOLEAN
        OBVIOUS
      <4> QED
        BY <4>1, <4>2, Zenon
    <3>2. CASE killed' = killed
      BY <3>2
    <3> QED
      BY <3>1, <3>2 DEF Client, EventLoop, ClientSend, Arrive, ClientClose, ClientReset,
         ClientReceive, EpollWait, Read, ReadAgain, Disconnect, MisreadHeader, DropBuffer,
         FramingDone
  <2> QED
    BY <1>2, <2>1, OutboundKept DEF outbound, OutInv, TypeOut
<1> QED
  BY <1>1, <1>2 DEF Client, EventLoop, ClientSend, Arrive, ClientClose, ClientReset, EpollWait,
     Read, ReadAgain, Disconnect, MisreadHeader, DropBuffer, DispatchPacket, FramingDone

-----------------------------------------------------------------------------
(* The invariant and what follows from it.                                 *)

\* An empty stream and an idle connection.
LEMMA Initially ==
  ASSUME Init
  PROVE  IInv
<1> USE Sizes DEF Init
<1>1. TypeIn
  <2>1. Sent = 0 /\ stream \in Seq(Frames)
    BY DEF Sent
  <2>2. arrived \in 0..Sent /\ taken \in 0..arrived /\ head \in 0..taken
    BY <2>1
  <2>3. dispatched \in Seq([from : Nat, body : Bodies \cup StrayBodies])
    OBVIOUS
  <2> QED
    BY <2>1, <2>2, <2>3 DEF TypeIn
<1>2. Layout /\ Aligned /\ FramedAsSent
  BY DEF Layout, Aligned, FramedAsSent, WellFormed, Sent
<1>3. TypeOut
  BY NoPacketFacts DEF TypeOut
<1>4. Jobs /\ Current /\ WholeUnlessCut
  BY NoPacketFacts DEF Jobs, Current, WholeUnlessCut
<1> QED
  BY <1>1, <1>2, <1>3, <1>4 DEF IInv, InInv, OutInv

\* The inductive invariant.
THEOREM Invariance == Spec => []IInv
<1>1. Init => IInv
  BY Initially
<1>2. IInv /\ [Next]_vars => IInv'
  <2> SUFFICES ASSUME IInv, [Next]_vars
               PROVE  IInv'
    OBVIOUS
  <2>1. CASE ~killed /\ (Client \/ Arrive \/ EventLoop)
    BY <2>1, InboundStep, OtherSide DEF IInv
  <2>2. CASE ~killed /\ \E w \in Workers : Send(w)
    BY <2>2, SendStep, InboundKept DEF IInv, InInv
  <2>3. CASE UNCHANGED vars
    BY <2>3, InboundKept, OutboundKept DEF IInv, vars, outbound, OutInv, TypeOut
  <2> QED
    BY <2>1, <2>2, <2>3 DEF Next
<1> QED
  BY <1>1, <1>2, PTL DEF Spec

\* Offsets, sizes, packets and runs keep their types: nothing is read that did
\* not arrive, nothing is taken from the buffer that was not read, and the socket
\* buffer does not overflow.
THEOREM TypeCorrect == Spec => []TypeOK
<1>0. IInv => \A w \in Workers : job[w].sent <= job[w].size
  BY NoPacketFacts DEF IInv, OutInv, Jobs
<1>1. IInv => TypeOK
  BY <1>0 DEF IInv, InInv, OutInv, TypeIn, TypeOut, TypeOK, Packets, Runs
<1> QED
  BY <1>1, Invariance, PTL

\* However a stream is cut into reads, the packets of a client that keeps to the
\* format come out as they went in.
THEOREM Framing == Spec => []FramedAsSent
<1>1. IInv => FramedAsSent
  BY DEF IInv, InInv
<1> QED
  BY <1>1, Invariance, PTL

\* Any number of workers may send to one client: their packets do not mix.
THEOREM PacketsStayWhole == Spec => []WholeUnlessCut
<1>1. IInv => WholeUnlessCut
  BY DEF IInv, OutInv
<1> QED
  BY <1>1, Invariance, PTL

\* The packet the client sent as its i-th.
Delivered(i) == [from |-> stream[i].from, body |-> stream[i].body]

\* What has been dispatched for a client that keeps to the format is what it
\* sent, in the order in which it was sent.
ExactlyAsSent ==
  Conforming => /\ Len(dispatched) <= Len(stream)
                /\ \A i \in 1..Len(dispatched) : dispatched[i] = Delivered(i)

\* To a client that keeps to the format the server is an exact channel: what has
\* been dispatched is a prefix of what was sent, so nothing is dispatched that was
\* not sent, twice or out of order.
THEOREM NothingInvented == Spec => []ExactlyAsSent
<1>1. IInv => ExactlyAsSent
  <2> SUFFICES ASSUME IInv, Conforming
               PROVE  /\ Len(dispatched) <= Len(stream)
                      /\ \A i \in 1..Len(dispatched) : dispatched[i] = Delivered(i)
    BY DEF ExactlyAsSent
  <2>1. TypeIn /\ Len(dispatched) <= Len(stream) /\ FramedAsSent
    BY DEF IInv, InInv, Aligned
  <2>2. Len(stream) \in Nat /\ Len(dispatched) \in Nat
    BY <2>1, FrameFacts DEF TypeIn
  <2>3. ASSUME NEW i \in 1..Len(dispatched) PROVE dispatched[i] = Delivered(i)
    <3>1. i \in 1..Len(stream) /\ i <= Len(dispatched)
      BY <2>1, <2>2
    <3>2. i \in WellFormed
      BY <2>1, <3>1, ConformingMeans
    <3> QED
      BY <2>1, <3>1, <3>2 DEF FramedAsSent, Delivered
  <2> QED
    BY <2>1, <2>3
<1> QED
  BY <1>1, Invariance, PTL

\* While the event loop sleeps in epoll_wait, unread bytes and an end of the
\* connection are still to be reported.
NoLostEdge == loop = "wait" /\ (Readable # 0 \/ peer # "open") => edge

\* The safety half of EveryPacketDispatched: an edge is consumed only by a loop
\* that goes on to read until there is nothing left, so that edge-triggered
\* events leave neither bytes nor a disconnection lying unnoticed.
THEOREM EdgeNotLost == Spec => []NoLostEdge
<1>1. Init => NoLostEdge
  BY DEF Init, NoLostEdge, Readable
<1>2. NoLostEdge /\ [Next]_vars => NoLostEdge'
  <2> SUFFICES ASSUME NoLostEdge, [Next]_vars
               PROVE  NoLostEdge'
    OBVIOUS
  <2> USE DEF NoLostEdge, Readable
  <2>1. CASE Client \/ Arrive
    BY <2>1 DEF Client, ClientSend, ClientClose, ClientReset, ClientReceive, Arrive, inbound, outbound
  <2>2. CASE EventLoop
    BY <2>2 DEF EventLoop, EpollWait, Read, ReadAgain, Disconnect, MisreadHeader, DropBuffer,
                DispatchPacket, FramingDone, AfterFraming
  <2>3. ASSUME UNCHANGED inbound PROVE NoLostEdge'
    BY <2>3 DEF inbound
  <2>4. ASSUME NEW w \in Workers, Send(w) PROVE UNCHANGED inbound
    BY <2>4 DEF Send, SendPacket, Sending, LockWrite, Write, Written, WriteStops, WriteKills
  <2> QED
    BY <2>1, <2>2, <2>3, <2>4 DEF Next, vars
<1> QED
  BY <1>1, <1>2, PTL DEF Spec

=============================================================================
