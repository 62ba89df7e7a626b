-------------------------- MODULE AudioLink_proofs --------------------------
(***************************************************************************)
(* Proofs about AudioLink, for any number of SoundIOs and readers.         *)
(*                                                                         *)
(* The methods work on the pair of link ends, so the facts about links are *)
(* stated of any such pair l and proved method by method; the steps of the *)
(* specification follow from what their calls do to link.                  *)
(***************************************************************************)
EXTENDS AudioLink, TLAPS

LEMMA Distinct ==
  /\ \A io \in SoundIOs : io # NULL /\ io \notin Readers
  /\ \A k \in Sinks : k # NULL
PROOF
<1>1. SoundIOs \intersect Readers = {} /\ NULL \notin SoundIOs \union Readers
  BY LinkAssumption
<1> QED BY <1>1 DEF Sinks

(* What the methods do to the two ends.                                    *)
LEMMA SourceConnect ==
  ASSUME NEW l, NEW io, NEW k
  PROVE  source_connect(l, io, k) =
           [sink |-> [l.sink EXCEPT ![io] = k],
            source |-> IF l.sink[io] = NULL THEN l.source
                       ELSE [l.source EXCEPT ![l.sink[io]] = NULL]]
PROOF
<1>1. CASE l.sink[io] = NULL
  BY <1>1 DEF source_connect
<1>2. CASE l.sink[io] # NULL
  BY <1>2 DEF source_connect, sink_disconnected
<1> QED BY <1>1, <1>2

LEMMA SinkConnect ==
  ASSUME NEW l, NEW r, NEW io
  PROVE  sink_connect(l, r, io) =
           [sink |-> IF l.source[r] = NULL THEN l.sink
                     ELSE [l.sink EXCEPT ![l.source[r]] = NULL],
            source |-> [l.source EXCEPT ![r] = io]]
PROOF
<1>1. CASE l.source[r] = NULL
  BY <1>1 DEF sink_connect
<1>2. CASE l.source[r] # NULL
  BY <1>2 DEF sink_connect, source_disconnected
<1> QED BY <1>1, <1>2

(* A pair of link ends l whose two ends agree and that points to objects   *)
(* of live only.                                                           *)
Linked(l, live) ==
  /\ l = [sink |-> l.sink, source |-> l.source]
  /\ l.sink \in [SoundIOs -> Readers \union {NULL}]
  /\ l.source \in [Sinks -> SoundIOs \union {NULL}]
  /\ \A io \in SoundIOs, k \in Sinks : l.sink[io] = k <=> l.source[k] = io
  /\ \A io \in SoundIOs : l.sink[io] # NULL => l.sink[io] \in live
  /\ \A k \in Sinks : l.source[k] # NULL => l.source[k] \in live

(* m links no reader to a source it was not linked to.                     *)
FewerSources(l, m) ==
  \A r \in Readers : m.source[r] \in {l.source[r], NULL}

(* source_connect with NULL cuts the link of the source.                   *)
LEMMA SourceDisconnectLinks ==
  ASSUME NEW live, NEW l, NEW m, NEW io \in SoundIOs,
         Linked(l, live), m = source_connect(l, io, NULL)
  PROVE  Linked(m, live) /\ Linked(m, live \ {io}) /\ FewerSources(l, m)
PROOF
<1>1. /\ m = [sink |-> m.sink, source |-> m.source]
      /\ m.sink = [l.sink EXCEPT ![io] = NULL]
      /\ m.source = IF l.sink[io] = NULL THEN l.source
                    ELSE [l.source EXCEPT ![l.sink[io]] = NULL]
  BY SourceConnect
<1>2. /\ m.sink \in [SoundIOs -> Readers \union {NULL}]
      /\ \A j \in SoundIOs : m.sink[j] = IF j = io THEN NULL ELSE l.sink[j]
  BY <1>1 DEF Linked
<1>3. /\ m.source \in [Sinks -> SoundIOs \union {NULL}]
      /\ \A k \in Sinks : m.source[k] = IF l.sink[io] = k THEN NULL ELSE l.source[k]
  BY <1>1, Distinct DEF Linked, Sinks
<1>4. \A j \in SoundIOs, k \in Sinks : m.sink[j] = k <=> m.source[k] = j
  BY <1>2, <1>3, Distinct DEF Linked, Sinks
<1>5. \A k \in Sinks : m.source[k] # io
  BY <1>2, <1>4, Distinct DEF Sinks
<1>6. Linked(m, live) /\ Linked(m, live \ {io})
  BY <1>1, <1>2, <1>3, <1>4, <1>5, Distinct DEF Linked, Sinks
<1> QED BY <1>3, <1>6 DEF FewerSources, Sinks

(* sink_connect with NULL cuts the link of the reader.                     *)
LEMMA SinkDisconnectLinks ==
  ASSUME NEW live, NEW l, NEW m, NEW r \in Readers,
         Linked(l, live), m = sink_connect(l, r, NULL)
  PROVE  Linked(m, live) /\ Linked(m, live \ {r}) /\ FewerSources(l, m)
PROOF
<1>1. /\ m = [sink |-> m.sink, source |-> m.source]
      /\ m.source = [l.source EXCEPT ![r] = NULL]
      /\ m.sink = IF l.source[r] = NULL THEN l.sink
                  ELSE [l.sink EXCEPT ![l.source[r]] = NULL]
  BY SinkConnect
<1>2. /\ m.source \in [Sinks -> SoundIOs \union {NULL}]
      /\ \A k \in Sinks : m.source[k] = IF k = r THEN NULL ELSE l.source[k]
  BY <1>1 DEF Linked, Sinks
<1>3. /\ m.sink \in [SoundIOs -> Readers \union {NULL}]
      /\ \A j \in SoundIOs : m.sink[j] = IF l.source[r] = j THEN NULL ELSE l.sink[j]
  BY <1>1, Distinct DEF Linked, Sinks
<1>4. Linked(m, live) /\ Linked(m, live \ {r})
  BY <1>1, <1>2, <1>3, Distinct DEF Linked, Sinks
<1> QED BY <1>2, <1>4 DEF FewerSources, Sinks

(* m links r to io, and no other reader to a source it was not linked to.  *)
OnlyLinkMade(l, m, io, r) ==
  /\ m.source[r] = io
  /\ \A k \in Readers \ {r} : m.source[k] \in {l.source[k], NULL}

(* audio_link_connect leaves ends that agree, whatever they were before:   *)
(* source_connect frees the previous sink of the source, sink_connect the  *)
(* previous source of the sink, and only the link made is new.             *)
LEMMA ConnectLinks ==
  ASSUME NEW live, NEW l, NEW m, NEW io \in SoundIOs, NEW r \in Readers,
         Linked(l, live), io \in live, r \in live,
         m = sink_connect(source_connect(l, io, r), r, io)
  PROVE  Linked(m, live) /\ OnlyLinkMade(l, m, io, r)
PROOF
<1> DEFINE s == source_connect(l, io, r)
<1>1. /\ s.sink = [l.sink EXCEPT ![io] = r]
      /\ s.source = IF l.sink[io] = NULL THEN l.source
                    ELSE [l.source EXCEPT ![l.sink[io]] = NULL]
  BY SourceConnect
<1>2. /\ m = [sink |-> m.sink, source |-> m.source]
      /\ m.source = [s.source EXCEPT ![r] = io]
      /\ m.sink = IF s.source[r] = NULL THEN s.sink
                  ELSE [s.sink EXCEPT ![s.source[r]] = NULL]
  BY SinkConnect
<1> HIDE DEF s
<1>3. /\ s.sink \in [SoundIOs -> Readers \union {NULL}]
      /\ \A j \in SoundIOs : s.sink[j] = IF j = io THEN r ELSE l.sink[j]
  BY <1>1 DEF Linked
<1>4. /\ s.source \in [Sinks -> SoundIOs \union {NULL}]
      /\ \A k \in Sinks : s.source[k] = IF l.sink[io] = k THEN NULL ELSE l.source[k]
  BY <1>1, Distinct DEF Linked, Sinks
<1>5. /\ m.source \in [Sinks -> SoundIOs \union {NULL}]
      /\ \A k \in Sinks : m.source[k] = IF k = r THEN io ELSE s.source[k]
  BY <1>2, <1>4 DEF Sinks
<1>6. /\ m.sink \in [SoundIOs -> Readers \union {NULL}]
      /\ \A j \in SoundIOs : m.sink[j] = IF s.source[r] = j THEN NULL ELSE s.sink[j]
  <2>1. r \in Sinks /\ s.source[r] \in SoundIOs \union {NULL}
    BY <1>4 DEF Sinks
  <2>2. CASE s.source[r] = NULL
    BY <1>2, <1>3, <2>2, Distinct
  <2>3. CASE s.source[r] \in SoundIOs
    BY <1>2, <1>3, <2>3, Distinct
  <2> QED BY <2>1, <2>2, <2>3
<1>7. Linked(m, live)
  BY <1>2, <1>3, <1>4, <1>5, <1>6, Distinct DEF Linked, Sinks
<1>8. OnlyLinkMade(l, m, io, r)
  BY <1>4, <1>5 DEF Sinks, OnlyLinkMade
<1> QED BY <1>7, <1>8
-----------------------------------------------------------------------------
(* The readers. *)

ReaderType == [channels : Nat \ {0}, use_channel : Nat,
               buffer_capacity : Nat, buffer : Nat]

(* What BufferFits says of the fields of one reader.                       *)
Fits(f) ==
  /\ f.buffer \in {0, f.channels * f.buffer_capacity}
  /\ f.use_channel < f.channels

(* clear_buffer makes the fields fit, whatever the client wrote to them.   *)
LEMMA ClearBuffer ==
  ASSUME NEW f \in ReaderType
  PROVE  /\ clear_buffer(f) \in ReaderType
         /\ Fits(clear_buffer(f))
         /\ clear_buffer(f).channels = f.channels
PROOF
<1> DEFINE g == clear_buffer(f)
           u == IF f.use_channel >= f.channels THEN f.channels - 1 ELSE f.use_channel
           h == [f EXCEPT !.buffer = 0]
<1>1. f.channels \in Nat \ {0} /\ f.use_channel \in Nat
  BY DEF ReaderType
<1>2. u \in Nat /\ u < f.channels
  BY <1>1
<1>3. h \in ReaderType /\ h.buffer = 0 /\ h.channels = f.channels
  BY DEF ReaderType
<1>4. g = [h EXCEPT !.use_channel = u]
  BY DEF clear_buffer
<1> HIDE DEF g, u, h
<1>5. /\ g \in ReaderType
      /\ g.buffer = 0 /\ g.channels = f.channels /\ g.use_channel = u
  BY <1>2, <1>3, <1>4 DEF ReaderType
<1> QED BY <1>2, <1>5 DEF Fits, g

(* init_buffer makes room for whole frames.                                *)
LEMMA InitBuffer ==
  ASSUME NEW f \in ReaderType, Fits(f)
  PROVE  /\ init_buffer(f) \in ReaderType
         /\ Fits(init_buffer(f))
         /\ init_buffer(f).channels = f.channels
PROOF
<1> DEFINE b == f.channels * f.buffer_capacity
<1>1. b \in Nat
  <2>1. f.channels \in Nat /\ f.buffer_capacity \in Nat
    BY DEF ReaderType
  <2> QED BY <2>1
<1>2. CASE f.buffer = 0
  <2>1. init_buffer(f) = [f EXCEPT !.buffer = b]
    BY <1>2 DEF init_buffer
  <2> HIDE DEF b
  <2>2. /\ init_buffer(f) \in ReaderType
        /\ init_buffer(f).buffer = b
        /\ init_buffer(f).channels = f.channels
        /\ init_buffer(f).buffer_capacity = f.buffer_capacity
        /\ init_buffer(f).use_channel = f.use_channel
    BY <1>1, <2>1 DEF ReaderType
  <2> QED BY <2>2 DEF Fits, b
<1>3. CASE f.buffer # 0
  BY <1>3 DEF init_buffer
<1> QED BY <1>2, <1>3

LEMMA UseChannelsAreNumbers == UseChannels \subseteq Nat
BY LinkAssumption

(* A linked reader has the channels of its source.                         *)
SameChannels ==
  \A r \in Readers :
    link.source[r] # NULL => reader[r].channels = ChannelsOf[link.source[r]]

(* The step changes no reader but r, whose fields fit and who has these    *)
(* channels.                                                               *)
Cleared(r, channels) ==
  /\ reader' \in [Readers -> ReaderType]
  /\ \A k \in Readers : Fits(reader'[k])
  /\ reader'[r].channels = channels
  /\ \A k \in Readers \ {r} : reader'[k] = reader[k]

(* The inductive invariant: the four properties, by link and by reader.    *)
IInv ==
  /\ Linked(link, alive)
  /\ reader \in [Readers -> ReaderType]
  /\ \A r \in Readers : Fits(reader[r])
  /\ SameChannels
  /\ alive \subseteq SoundIOs \union Readers
  /\ aborted \in {"no", "unbuffered", "null source"}

LEMMA InitIInv == Init => IInv
PROOF
<1> SUFFICES ASSUME Init PROVE IInv
  OBVIOUS
<1>1. Linked(link, alive)
  BY Distinct DEF Init, Linked, Sinks
<1>2. /\ reader \in [Readers -> ReaderType]
      /\ \A r \in Readers : Fits(reader[r])
  BY DEF Init, InitialReader, ReaderType, Fits
<1>3. SameChannels
  BY DEF Init, SameChannels, Sinks
<1> QED BY <1>1, <1>2, <1>3 DEF Init, IInv

LEMMA NextIInv == IInv /\ [Next]_vars => IInv'
PROOF
<1> SUFFICES ASSUME IInv, [Next]_vars PROVE IInv'
  OBVIOUS
<1> USE DEF IInv
<1>1. ASSUME NEW io \in SoundIOs, NEW r \in Readers, Connect(io, r)
      PROVE  IInv'
  <2>1. Linked(link', alive) /\ OnlyLinkMade(link, link', io, r)
    <3>1. /\ Linked(link, alive) /\ io \in alive /\ r \in alive
          /\ link' = sink_connect(source_connect(link, io, r), r, io)
      BY <1>1 DEF Connect
    <3> QED BY <3>1, ConnectLinks
  <2>2. ChannelsOf[io] \in Nat \ {0}
    BY LinkAssumption
  <2> DEFINE f == [reader[r] EXCEPT !.channels = ChannelsOf[io]]
  <2>3. f \in ReaderType /\ f.channels = ChannelsOf[io]
    BY <2>2 DEF ReaderType
  <2>4. /\ reader' = [reader EXCEPT ![r] = clear_buffer(f)]
        /\ alive' = alive /\ aborted' = aborted
    BY <1>1 DEF Connect, NewSource
  <2> HIDE DEF f
  <2>5. Cleared(r, ChannelsOf[io])
    BY <2>3, <2>4, ClearBuffer DEF Cleared
  <2>6. SameChannels'
    BY <2>1, <2>5 DEF SameChannels, OnlyLinkMade, Cleared
  <2> QED BY <2>1, <2>4, <2>5, <2>6 DEF Cleared
<1>2. ASSUME NEW io \in SoundIOs, NEW k \in SoundIOs, ConnectUnbuffered(io, k)
      PROVE  IInv'
  BY <1>2 DEF ConnectUnbuffered, SameChannels
<1>3. ASSUME NEW io \in SoundIOs, DisconnectSource(io)
      PROVE  IInv'
  <2>1. Linked(link', alive) /\ FewerSources(link, link')
    BY <1>3, SourceDisconnectLinks DEF DisconnectSource
  <2> QED BY <1>3, <2>1 DEF DisconnectSource, SameChannels, FewerSources
<1>4. ASSUME NEW r \in Readers, DisconnectReader(r)
      PROVE  IInv'
  <2>1. Linked(link', alive) /\ FewerSources(link, link')
    BY <1>4, SinkDisconnectLinks DEF DisconnectReader
  <2> QED BY <1>4, <2>1 DEF DisconnectReader, SameChannels, FewerSources
<1>5. ASSUME NEW io \in SoundIOs, DisconnectSoundIOSink(io)
      PROVE  IInv'
  BY <1>5 DEF DisconnectSoundIOSink, SameChannels
<1>6. ASSUME NEW io \in SoundIOs, FinalizeSoundIO(io)
      PROVE  IInv'
  <2>1. Linked(link', alive \ {io}) /\ FewerSources(link, link')
    BY <1>6, SourceDisconnectLinks DEF FinalizeSoundIO
  <2> QED BY <1>6, <2>1 DEF FinalizeSoundIO, SameChannels, FewerSources
<1>7. ASSUME NEW r \in Readers, FinalizeReader(r)
      PROVE  IInv'
  <2>1. Linked(link', alive \ {r}) /\ FewerSources(link, link')
    BY <1>7, SinkDisconnectLinks DEF FinalizeReader, FinalizeLink
  <2>2. reader[r] \in ReaderType
    OBVIOUS
  <2>3. Cleared(r, reader[r].channels)
    BY <1>7, <2>2, ClearBuffer DEF FinalizeReader, Cleared
  <2> QED BY <1>7, <2>1, <2>3 DEF FinalizeReader, SameChannels, FewerSources, Cleared
<1>8. ASSUME NEW r \in Readers, NEW length \in Capacities, SetBufferLen(r, length)
      PROVE  IInv'
  <2> DEFINE f == [reader[r] EXCEPT !.buffer_capacity = length]
  <2>1. f \in ReaderType /\ f.channels = reader[r].channels
    <3>1. length \in Nat
      BY LinkAssumption
    <3> QED BY <3>1 DEF ReaderType
  <2>2. reader' = [reader EXCEPT ![r] = clear_buffer(f)]
    BY <1>8 DEF SetBufferLen
  <2> HIDE DEF f
  <2>3. Cleared(r, reader[r].channels)
    BY <2>1, <2>2, ClearBuffer DEF Cleared
  <2> QED BY <1>8, <2>3 DEF SetBufferLen, SameChannels, Cleared
<1>9. ASSUME NEW r \in Readers, NEW channel \in UseChannels, SetUseChannel(r, channel)
      PROVE  IInv'
  <2> DEFINE f == [reader[r] EXCEPT !.use_channel = channel]
  <2>1. f \in ReaderType /\ f.channels = reader[r].channels
    BY UseChannelsAreNumbers DEF ReaderType
  <2>2. reader' = [reader EXCEPT ![r] = clear_buffer(f)]
    BY <1>9 DEF SetUseChannel
  <2> HIDE DEF f
  <2>3. Cleared(r, reader[r].channels)
    BY <2>1, <2>2, ClearBuffer DEF Cleared
  <2> QED BY <1>9, <2>3 DEF SetUseChannel, SameChannels, Cleared
<1>10. ASSUME NEW io \in SoundIOs, RequestRead(io)
       PROVE  IInv'
  <2> DEFINE r == link.sink[io]
  <2>1. r \in Readers
    <3>1. link.sink \in [SoundIOs -> Readers \union {NULL}]
      BY DEF Linked
    <3>2. r # NULL
      BY <1>10 DEF RequestRead
    <3> QED BY <3>1, <3>2
  <2>2. reader[r] \in ReaderType /\ Fits(reader[r])
    BY <2>1
  <2>3. /\ reader' = [reader EXCEPT ![r] = init_buffer(reader[r])]
        /\ UNCHANGED <<link, alive, aborted>>
    BY <1>10 DEF RequestRead
  <2> HIDE DEF r
  <2>4. Cleared(r, reader[r].channels)
    BY <2>1, <2>2, <2>3, InitBuffer DEF Cleared
  <2> QED BY <2>1, <2>3, <2>4 DEF SameChannels, Cleared
<1>11. CASE UNCHANGED vars
  BY <1>11 DEF vars, SameChannels
<1> QED BY <1>1, <1>2, <1>3, <1>4, <1>5, <1>6, <1>7, <1>8, <1>9, <1>10, <1>11
        DEF Next

-----------------------------------------------------------------------------

LEMMA Invariance == Spec => []IInv
PROOF
<1> QED BY InitIInv, NextIInv, PTL DEF Spec

(* The fields of all objects keep their types, and no link leads from a    *)
(* SoundIO to anything but a reader.                                       *)
THEOREM TypeCorrect == Spec => []TypeOK
PROOF
<1>1. IInv => TypeOK
  BY DEF IInv, Linked, TypeOK, ReaderType
<1> QED BY <1>1, Invariance, PTL

(* Whatever is connected, reconnected, disconnected and finalized, the two *)
(* ends of every link agree: the assertion in sink_request_read holds.     *)
THEOREM EndsOfLinksAgree == Spec => []LinksAgree
PROOF
<1>1. IInv => LinksAgree
  BY DEF IInv, Linked, LinksAgree
<1> QED BY <1>1, Invariance, PTL

(* Finalizing an object takes it out of its links: audio_link_connect      *)
(* needs no references.                                                    *)
THEOREM LinksDoNotDangle == Spec => []NoDanglingLink
PROOF
<1>1. IInv => NoDanglingLink
  BY DEF IInv, Linked, NoDanglingLink
<1> QED BY <1>1, Invariance, PTL

(* The buffer a reader hands to its source has the size the source fills,  *)
(* and the channel it decodes is one the source has.                       *)
THEOREM BufferDoesFit == Spec => []BufferFits
PROOF
<1>1. IInv => BufferFits
  BY DEF IInv, Fits, SameChannels, BufferFits
<1> QED BY <1>1, Invariance, PTL
=============================================================================
