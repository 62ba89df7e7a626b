----------------------------- MODULE AudioLink -----------------------------
(***************************************************************************)
(* Links between audio sources and sinks: audio_link_connect, the connect  *)
(* and disconnected methods of SoundIOCommon and LTCReader, their          *)
(* finalizers, and the part of LTCReader that depends on its source: the   *)
(* number of channels and the buffer samples are read into.                *)
(*                                                                         *)
(* A SoundIO is a source and a sink and has no buffer; a reader is a sink  *)
(* that has one.  The two ends of a link are separate pointers, neither    *)
(* of which holds a reference; all calls are made by the main thread.      *)
(***************************************************************************)
EXTENDS Integers

CONSTANTS
  SoundIOs,     \* objects of class SoundIOCommon
  Readers,      \* objects of class LTCReader
  NULL,         \* the null pointer
  ChannelsOf,   \* channels of each SoundIO, fixed when it is created
  Capacities,   \* values a client writes to "buffer-len"
  UseChannels   \* values a client writes to "use-channel"

ASSUME LinkAssumption ==
  /\ SoundIOs \intersect Readers = {}
  /\ NULL \notin SoundIOs \union Readers
  /\ ChannelsOf \in [SoundIOs -> Nat \ {0}]
  /\ Capacities \subseteq Nat
  /\ UseChannels \subseteq 0 .. 1

Sinks == SoundIOs \union Readers

VARIABLES
  link,     \* link.sink[io] and link.source[sink], the two ends of links
  reader,   \* fields of each reader: channels, use_channel, buffer_capacity
            \* and buffer, the number of samples allocated or 0
  alive,    \* objects not finalized
  aborted   \* the call that ended the program, or "no"

vars == <<link, reader, alive, aborted>>

InitialReader ==
  [channels |-> 2, use_channel |-> 0, buffer_capacity |-> 16384, buffer |-> 0]

Init ==
  /\ link = [sink |-> [io \in SoundIOs |-> NULL], source |-> [k \in Sinks |-> NULL]]
  /\ reader = [r \in Readers |-> InitialReader]
  /\ alive = SoundIOs \union Readers
  /\ aborted = "no"

-----------------------------------------------------------------------------
(* The methods, on the two ends of all links.                              *)

source_disconnected(l, io) ==
  [sink |-> [l.sink EXCEPT ![io] = NULL], source |-> l.source]

sink_disconnected(l, k) ==
  [sink |-> l.sink, source |-> [l.source EXCEPT ![k] = NULL]]

(* source_connect of SoundIOCommon, and the mutant that does not tell the  *)
(* previous sink.                                                          *)
source_connect_silently(l, io, k) ==
  [sink |-> [l.sink EXCEPT ![io] = k], source |-> l.source]
source_connect(l, io, k) ==
  LET told == IF l.sink[io] = NULL THEN l ELSE sink_disconnected(l, l.sink[io])
  IN  [sink |-> [told.sink EXCEPT ![io] = k], source |-> told.source]

(* sink_connect of LTCReader.                                              *)
sink_connect(l, r, io) ==
  LET told == IF l.source[r] = NULL THEN l ELSE source_disconnected(l, l.source[r])
  IN  [sink |-> told.sink, source |-> [told.source EXCEPT ![r] = io]]

(* clear_buffer, and the mutant that keeps a channel out of range.         *)
ForgetChannel(f) == [f EXCEPT !.buffer = 0]
clear_buffer(f) ==
  [f EXCEPT !.buffer = 0,
            !.use_channel = IF @ >= f.channels THEN f.channels - 1 ELSE @]

(* init_buffer *)
init_buffer(f) ==
  IF f.buffer = 0 THEN [f EXCEPT !.buffer = f.channels * f.buffer_capacity] ELSE f

(* Lines 471-475 of LTC_reader.c.                                          *)
NewSource(f, io) == clear_buffer([f EXCEPT !.channels = ChannelsOf[io]])

-----------------------------------------------------------------------------
Running == aborted = "no"

(* audio_link_connect with a sink that has a buffer.                       *)
Connect(io, r) ==
  /\ Running /\ {io, r} \subseteq alive
  /\ link' = sink_connect(source_connect(link, io, r), r, io)
  /\ reader' = [reader EXCEPT ![r] = NewSource(@, io)]
  /\ UNCHANGED <<alive, aborted>>

(* audio_link_connect with another SoundIO: both lack buffers, and g_error *)
(* ends the program.                                                       *)
ConnectUnbuffered(io, k) ==
  /\ Running /\ {io, k} \subseteq alive
  /\ aborted' = "unbuffered"
  /\ UNCHANGED <<link, reader, alive>>

(* audio_source_disconnect *)
DisconnectSource(io) ==
  /\ Running /\ io \in alive
  /\ link' = source_connect(link, io, NULL)
  /\ UNCHANGED <<reader, alive, aborted>>

(* audio_sink_disconnect of a reader.                                      *)
DisconnectReader(r) ==
  /\ Running /\ r \in alive
  /\ link' = sink_connect(link, r, NULL)
  /\ UNCHANGED <<reader, alive, aborted>>

(* audio_sink_disconnect of a SoundIO: sink_connect of SoundIOCommon asks  *)
(* the null source for its channels.                                       *)
DisconnectSoundIOSink(io) ==
  /\ Running /\ io \in alive
  /\ aborted' = "null source"
  /\ UNCHANGED <<link, reader, alive>>

(* sound_io_common_finalize.  No source is ever linked to a SoundIO.       *)
FinalizeSoundIO(io) ==
  /\ Running /\ io \in alive
  /\ alive' = alive \ {io}
  /\ link' = source_connect(link, io, NULL)
  /\ UNCHANGED <<reader, aborted>>

(* LTC_reader_finalize, and the mutant that does not tell the source.      *)
FinalizeSilently(l, r) == [l EXCEPT !.source[r] = NULL]
FinalizeLink(l, r) == sink_connect(l, r, NULL)

FinalizeReader(r) ==
  /\ Running /\ r \in alive
  /\ alive' = alive \ {r}
  /\ link' = FinalizeLink(link, r)
  /\ reader' = [reader EXCEPT ![r] = clear_buffer(@)]
  /\ UNCHANGED aborted

(* set_property of LTCReader.                                              *)
SetBufferLen(r, length) ==
  /\ Running /\ r \in alive
  /\ reader' = [reader EXCEPT ![r] = clear_buffer([@ EXCEPT !.buffer_capacity = length])]
  /\ UNCHANGED <<link, alive, aborted>>

SetUseChannel(r, channel) ==
  /\ Running /\ r \in alive
  /\ reader' = [reader EXCEPT ![r] = clear_buffer([@ EXCEPT !.use_channel = channel])]
  /\ UNCHANGED <<link, alive, aborted>>

(* input_io_handler asks the sink of io to read.                           *)
RequestRead(io) ==
  /\ Running /\ io \in alive
  /\ link.sink[io] # NULL
  /\ reader' = [reader EXCEPT ![link.sink[io]] = init_buffer(@)]
  /\ UNCHANGED <<link, alive, aborted>>

Next ==
  \/ \E io \in SoundIOs, r \in Readers : Connect(io, r)
  \/ \E io \in SoundIOs, k \in SoundIOs : ConnectUnbuffered(io, k)
  \/ \E io \in SoundIOs :
       \/ DisconnectSource(io) \/ DisconnectSoundIOSink(io)
       \/ FinalizeSoundIO(io) \/ RequestRead(io)
  \/ \E r \in Readers : DisconnectReader(r) \/ FinalizeReader(r)
  \/ \E r \in Readers, length \in Capacities : SetBufferLen(r, length)
  \/ \E r \in Readers, channel \in UseChannels : SetUseChannel(r, channel)

Spec == Init /\ [][Next]_vars

-----------------------------------------------------------------------------
(* Properties. *)

TypeOK ==
  /\ link \in [sink : [SoundIOs -> Readers \union {NULL}],
               source : [Sinks -> SoundIOs \union {NULL}]]
  /\ reader \in [Readers -> [channels : Nat \ {0}, use_channel : Nat,
                             buffer_capacity : Nat, buffer : Nat]]
  /\ alive \subseteq SoundIOs \union Readers
  /\ aborted \in {"no", "unbuffered", "null source"}

(* The two ends of every link agree, whoever was connected, reconnected,   *)
(* disconnected or finalized before: a reader that is asked to read reads  *)
(* from the SoundIO that asked, and the assertion of line 439 of           *)
(* LTC_reader.c holds.                                                     *)
LinksAgree ==
  \A io \in SoundIOs, k \in Sinks : link.sink[io] = k <=> link.source[k] = io

(* No end of a link points to a finalized object: none of them holds a     *)
(* reference that would keep it alive.                                     *)
NoDanglingLink ==
  /\ \A io \in SoundIOs : link.sink[io] # NULL => link.sink[io] \in alive
  /\ \A k \in Sinks : link.source[k] # NULL => link.source[k] \in alive

(* The buffer of a reader holds buffer_capacity frames of the source it    *)
(* is linked to now: line 444 reads as many, and tcdecode looks at         *)
(* use_channel in each.                                                    *)
BufferFits ==
  \A r \in Readers :
    LET f == reader[r] IN
    /\ f.buffer \in {0, f.channels * f.buffer_capacity}
    /\ f.use_channel < f.channels
    /\ link.source[r] # NULL => f.channels = ChannelsOf[link.source[r]]

=============================================================================
