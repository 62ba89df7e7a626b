------------------------- MODULE SoundIOAlsa_proofs -------------------------
(***************************************************************************)
(* Proofs about the capture stream, for every buffer size, every value of  *)
(* "buffer-len" and every pattern of failures, overruns and suspensions.   *)
(***************************************************************************)
EXTENDS SoundIOAlsa, SequenceTheorems, TLAPS

(* The states of the main thread and of the device are kept apart from the *)
(* numbers and the sequences.                                              *)
StateTypes ==
  /\ pc \in {"new", "created", "loop", "handler", "read", "delay", "decode",
             "resume", "gone", "aborted"}
  /\ input_running \in BOOLEAN /\ sink \in BOOLEAN
  /\ pcm \in {"closed", "PREPARED", "RUNNING", "XRUN", "SUSPENDED"}
  /\ ran \in BOOLEAN

DataTypes ==
  /\ buffer_capacity \in Nat
  /\ chunk \in Seq(Nat) /\ device \in Seq(Nat)
  /\ delay \in Nat /\ clock \in Nat /\ delay_time \in Nat
  /\ overruns \in Nat /\ signalled \in Nat /\ suspends \in Nat

USE DEF Abort, Start

LEMMA TypesSplit == TypeOK <=> StateTypes /\ DataTypes
  BY DEF TypeOK, StateTypes, DataTypes

LEMMA StateStep == StateTypes /\ [Next]_vars => StateTypes'
<1> SUFFICES ASSUME StateTypes, [Next]_vars PROVE StateTypes'
  OBVIOUS
<1> USE DEF StateTypes, deviceVars, historyVars, ioVars
<1>1. CASE New
  BY <1>1, Zenon DEF New
<1>2. CASE NewFails
  BY <1>2, Zenon DEF NewFails
<1>3. CASE Connect
  BY <1>3, Zenon DEF Connect
<1>4. CASE Disconnect
  BY <1>4, Zenon DEF Disconnect
<1>5. CASE Finalize
  BY <1>5, Zenon DEF Finalize
<1>6. ASSUME NEW length \in Capacities, SetBufferLen(length) PROVE StateTypes'
  BY <1>6, Zenon DEF SetBufferLen
<1>7. CASE Dispatch
  BY <1>7, Zenon DEF Dispatch
<1>8. CASE RequestRead
  BY <1>8, Zenon DEF RequestRead
<1>9. CASE StartPrepared
  BY <1>9, Zenon DEF StartPrepared
<1>10. CASE Recover
  BY <1>10, Zenon DEF Recover, RecoverOverrun, WaitForResume, OtherError
<1>11. CASE Resume
  BY <1>11, Zenon DEF Resume
<1>12. CASE StopInput
  BY <1>12, Zenon DEF StopInput
<1>13. CASE Read
  BY <1>13, Zenon DEF Read
<1>14. CASE ReadFails
  BY <1>14, Zenon DEF ReadFails, RecoverOverrun, WaitForResume, OtherError
<1>15. CASE AskDelay
  BY <1>15, Zenon DEF AskDelay
<1>16. CASE Decode
  BY <1>16, Zenon DEF Decode
<1>17. CASE Tick
  BY <1>17, Zenon DEF Tick
<1>18. CASE Suspend
  BY <1>18, Zenon DEF Suspend
<1>19. CASE UNCHANGED vars
  BY <1>19, Zenon DEF vars
<1> QED
  BY <1>1, <1>2, <1>3, <1>4, <1>5, <1>6, <1>7, <1>8, <1>9, <1>10, <1>11,
     <1>12, <1>13, <1>14, <1>15, <1>16, <1>17, <1>18, <1>19
     DEF Next, Client, Handle

(* Cutting a sequence in two.                                              *)
LEMMA Prefix ==
  ASSUME NEW s \in Seq(Nat), NEW n \in 0 .. Len(s)
  PROVE  /\ SubSeq(s, 1, n) \in Seq(Nat)
         /\ Len(SubSeq(s, 1, n)) = n
         /\ \A i \in 1 .. n : SubSeq(s, 1, n)[i] = s[i]
  OBVIOUS

LEMMA Suffix ==
  ASSUME NEW s \in Seq(Nat), NEW m \in 1 .. Len(s) + 1
  PROVE  /\ SubSeq(s, m, Len(s)) \in Seq(Nat)
         /\ Len(SubSeq(s, m, Len(s))) = Len(s) + 1 - m
         /\ \A i \in 1 .. Len(s) + 1 - m :
              SubSeq(s, m, Len(s))[i] = s[m + i - 1]
<1>1. m \in Int /\ Len(s) \in Int /\ \A i \in m .. Len(s) : s[i] \in Nat
  OBVIOUS
<1>2. /\ SubSeq(s, m, Len(s)) \in Seq(Nat)
      /\ Len(SubSeq(s, m, Len(s))) = IF m <= Len(s) THEN Len(s) - m + 1 ELSE 0
      /\ \A i \in 1 .. Len(s) - m + 1 : SubSeq(s, m, Len(s))[i] = s[m + i - 1]
  BY <1>1
<1>3. Len(s) - m + 1 = Len(s) + 1 - m
  BY <1>1
<1> QED
  BY <1>1, <1>2, <1>3

(* The steps that leave the numbers and the sequences alone, but for the   *)
(* state of the device, its content and the count of signals.              *)
LEMMA DataStep == DataTypes /\ [Next]_vars => DataTypes'
<1> SUFFICES ASSUME DataTypes, [Next]_vars PROVE DataTypes'
  OBVIOUS
<1> USE DEF DataTypes, deviceVars, historyVars, ioVars
<1>1. << >> \in Seq(Nat)
  OBVIOUS
<1>2. CASE New \/ NewFails \/ Connect \/ Disconnect \/ RequestRead \/ StartPrepared
  BY <1>2 DEF New, NewFails, Connect, Disconnect, RequestRead, StartPrepared
<1>3. CASE Finalize \/ Dispatch \/ Resume \/ StopInput
  BY <1>1, <1>3 DEF Finalize, Dispatch, Resume, StopInput
<1>4. ASSUME NEW length \in Capacities, SetBufferLen(length) PROVE DataTypes'
  BY <1>4, CaptureAssumption DEF SetBufferLen
<1>5. CASE Recover \/ ReadFails
  <2>1. CASE RecoverOverrun
    <3>1. signalled' \in Nat
      BY <2>1 DEF RecoverOverrun, SignalOverrun
    <3>2. device' = << >> \/ device' = device
      BY <2>1 DEF RecoverOverrun
    <3>3. UNCHANGED <<buffer_capacity, chunk, delay, clock, delay_time,
                      overruns, suspends>>
      BY <2>1 DEF RecoverOverrun
    <3> QED
      BY <1>1, <3>1, <3>2, <3>3
  <2>2. CASE WaitForResume
    BY <2>2 DEF WaitForResume
  <2>3. CASE OtherError
    BY <2>3 DEF OtherError
  <2> QED
    BY <1>5, <2>1, <2>2, <2>3 DEF Recover, ReadFails
<1>6. CASE Read
  <2> DEFINE n == Least(buffer_capacity, Len(device))
  <2>1. /\ chunk' = SubSeq(device, 1, n) /\ device' = SubSeq(device, n + 1, Len(device))
        /\ UNCHANGED <<buffer_capacity, delay, clock, delay_time, overruns,
                        signalled, suspends>>
    BY <1>6 DEF Read
  <2>2. SubSeq(device, 1, n) \in Seq(Nat) /\ SubSeq(device, n + 1, Len(device)) \in Seq(Nat)
    <3>1. n \in 0 .. Len(device) /\ n + 1 \in 1 .. Len(device) + 1
      BY DEF Least
    <3> HIDE DEF n
    <3> QED
      BY <3>1, Prefix, Suffix
  <2> QED
    BY <2>1, <2>2
<1>7. CASE AskDelay
  BY <1>7 DEF AskDelay, DelayOf, PipeLength
<1>8. CASE Decode
  BY <1>1, <1>8 DEF Decode
<1>9. CASE Tick
  <2>1. clock' \in Nat /\ overruns' \in Nat
    BY <1>9 DEF Tick
  <2>2. Append(device, clock') \in Seq(Nat)
    BY <2>1
  <2>4. device' = Append(device, clock') \/ device' = device
    BY <1>9 DEF Tick
  <2>3. UNCHANGED <<buffer_capacity, chunk, delay, delay_time, signalled, suspends>>
    BY <1>9 DEF Tick
  <2> QED
    BY <2>1, <2>2, <2>3, <2>4
<1>10. CASE Suspend
  BY <1>10 DEF Suspend
<1>11. CASE UNCHANGED vars
  BY <1>11 DEF vars
<1> QED
  BY <1>2, <1>3, <1>4, <1>5, <1>6, <1>7, <1>8, <1>9, <1>10, <1>11
     DEF Next, Client, Handle

(* All fields of the stream, of the device and of the reader keep their    *)
(* types; in particular the delay, an unsigned number, is not negative.    *)
THEOREM TypeCorrect == Spec => []TypeOK
<1>1. Init => StateTypes
  <2> SUFFICES ASSUME Init PROVE StateTypes
    OBVIOUS
  <2>1. pc = "new" /\ pcm = "closed"
    BY DEF Init
  <2>2. input_running = FALSE /\ sink = FALSE /\ ran = FALSE
    BY DEF Init
  <2> QED
    BY <2>1, <2>2, Zenon DEF StateTypes
<1>2. Init => DataTypes
  BY DEF Init, DataTypes
<1>3. StateTypes /\ DataTypes /\ [Next]_vars => StateTypes' /\ DataTypes'
  BY StateStep, DataStep
<1>4. StateTypes /\ DataTypes => TypeOK
  BY TypesSplit
<1> QED
  BY <1>1, <1>2, <1>3, <1>4, PTL DEF Spec

(***************************************************************************)
(* Overruns.                                                               *)
(***************************************************************************)

(* A device that is not open, or suspended while the main thread waits for *)
(* it, has not overrun.                                                    *)
Settled ==
  /\ pc = "new" => pcm = "closed"
  /\ pc = "resume" => pcm = "SUSPENDED"

LEMMA SettledAlways == Spec => [](OverrunsSignalled /\ Settled)
<1>1. Init => OverrunsSignalled /\ Settled
  BY DEF Init, OverrunsSignalled, Settled
<1>2. TypeOK /\ OverrunsSignalled /\ Settled /\ [Next]_vars
        => OverrunsSignalled' /\ Settled'
  <2> SUFFICES ASSUME TypeOK, OverrunsSignalled, Settled, [Next]_vars
               PROVE  OverrunsSignalled' /\ Settled' /\ Settled'
    OBVIOUS
  <2> USE DEF OverrunsSignalled, Settled, deviceVars, historyVars, ioVars
  <2>1. overruns \in Nat /\ signalled \in Nat
    BY DEF TypeOK
  <2>2. CASE New \/ NewFails \/ Connect \/ Disconnect
    BY <2>2 DEF New, NewFails, Connect, Disconnect, TypeOK
  <2>3. CASE Finalize \/ Dispatch \/ Resume \/ StopInput
    BY <2>3 DEF Finalize, Dispatch, Resume, StopInput
  <2>4. ASSUME NEW length \in Capacities, SetBufferLen(length)
        PROVE  OverrunsSignalled' /\ Settled'
    BY <2>4 DEF SetBufferLen
  <2>5. CASE RecoverOverrun /\ pc \in {"handler", "read"}
    BY <2>1, <2>5 DEF RecoverOverrun, SignalOverrun
  <2>6. CASE WaitForResume /\ pc \in {"handler", "read"}
    BY <2>6 DEF WaitForResume
  <2>7. CASE Read \/ AskDelay \/ Decode \/ RequestRead \/ StartPrepared
    BY <2>7 DEF Read, AskDelay, Decode, RequestRead, StartPrepared
  <2>8. CASE Tick \/ Suspend
    BY <2>1, <2>8 DEF Tick, Suspend
  <2>9. CASE UNCHANGED vars
    BY <2>9 DEF vars
  <2>10. CASE OtherError
    BY <2>10 DEF OtherError
  <2> QED
    BY <2>2, <2>3, <2>4, <2>5, <2>6, <2>7, <2>8, <2>9, <2>10
       DEF Next, Client, Handle, Recover, ReadFails
<1> QED
  BY <1>1, <1>2, TypeCorrect, PTL DEF Spec

(* Every overrun is signalled once.                                        *)
THEOREM OverrunsAreSignalled == Spec => []OverrunsSignalled
  BY SettledAlways, PTL

(***************************************************************************)
(* The time of capture.                                                    *)
(***************************************************************************)

(* The frames that are newer than a frame were captured after it, a period *)
(* each.                                                                   *)
Aged ==
  /\ \A i \in 1 .. Len(device) : device[i] + (Len(device) - i) <= clock
  /\ pc = "delay" =>
       \A i \in 1 .. Len(chunk) :
         chunk[i] + (Len(chunk) - i) + Len(device) <= clock
  /\ pc = "decode" =>
       \A i \in 1 .. Len(chunk) : chunk[i] + (delay - i) <= clock

(* In a device that runs and was never suspended nothing is missing        *)
(* between a frame and the newest one, captured just now.                  *)
Seamless ==
  /\ pcm \in {"closed", "PREPARED"} => device = << >>
  /\ pcm = "SUSPENDED" => suspends > 0
  /\ pcm = "RUNNING" /\ suspends = 0 =>
       \A i \in 1 .. Len(device) : device[i] + (Len(device) - i) = clock
  /\ pc = "delay" /\ pcm = "RUNNING" /\ suspends = 0 =>
       \A i \in 1 .. Len(chunk) :
         chunk[i] + (Len(chunk) - i) + Len(device) = clock
  /\ pc = "decode" /\ ran /\ suspends = 0 =>
       \A i \in 1 .. Len(chunk) : chunk[i] + (delay - i) = delay_time

AgeInv == Aged /\ Seamless

(* The steps of the main thread that leave the frames where they are.      *)
LEMMA AgeIdle ==
  ASSUME DataTypes, AgeInv, clock' = clock, device' = device,
         pcm' = pcm \/ device = << >> \/ suspends > 0,
         pcm' \in {"closed", "PREPARED"} => device = << >>,
         pcm' # "SUSPENDED" \/ pcm = "SUSPENDED",
         suspends' = suspends, pc' \notin {"delay", "decode"}
  PROVE  AgeInv'
<1>1. suspends \in Nat /\ Len(device) \in Nat
  BY DEF DataTypes
<1>2. Aged'
  BY DEF AgeInv, Aged
<1>3. Seamless'
  BY <1>1 DEF AgeInv, Seamless
<1> QED
  BY <1>2, <1>3 DEF AgeInv

(* The steps that empty the device.                                        *)
LEMMA AgeEmpty ==
  ASSUME DataTypes, AgeInv, device' = << >>, pcm' # "SUSPENDED",
         pc' \notin {"delay", "decode"}
  PROVE  AgeInv'
  BY DEF AgeInv, Aged, Seamless

LEMMA AgeRead ==
  ASSUME DataTypes, AgeInv, Read PROVE AgeInv'
<1> DEFINE n == Least(buffer_capacity, Len(device))
           m == n + 1
<1>1. n \in 0 .. Len(device) /\ m \in 1 .. Len(device) + 1
  BY DEF Least, DataTypes
<1>2. /\ chunk' = SubSeq(device, 1, n) /\ device' = SubSeq(device, m, Len(device))
      /\ UNCHANGED <<pcm, clock, suspends>> /\ pcm = "RUNNING" /\ pc' = "delay"
  BY DEF Read, historyVars
<1> HIDE DEF n, m
<1>3. Len(chunk') = n /\ \A i \in 1 .. n : chunk'[i] = device[i]
  BY <1>1, <1>2, Prefix DEF DataTypes
<1>4. /\ Len(device') = Len(device) + 1 - m
      /\ \A i \in 1 .. Len(device) + 1 - m : device'[i] = device[m + i - 1]
  BY <1>1, <1>2, Suffix DEF DataTypes
<1>5. m = n + 1 /\ Len(device) \in Nat /\ clock \in Nat
  BY DEF m, DataTypes
<1>6. \A i \in 1 .. Len(device) : device[i] \in Nat
  BY DEF DataTypes
<1>7. ASSUME NEW i \in 1 .. Len(device')
      PROVE  /\ m + i - 1 \in 1 .. Len(device)
             /\ device'[i] = device[m + i - 1]
             /\ Len(device') - i = Len(device) - (m + i - 1)
  BY <1>1, <1>4, <1>5
<1>8. ASSUME NEW i \in 1 .. Len(chunk')
      PROVE  /\ i \in 1 .. Len(device)
             /\ chunk'[i] = device[i] /\ chunk'[i] \in Nat
             /\ (Len(chunk') - i) + Len(device') = Len(device) - i
  BY <1>1, <1>3, <1>4, <1>5, <1>6
<1>9. Aged'
  <2>1. \A i \in 1 .. Len(device') : device'[i] + (Len(device') - i) <= clock
    BY <1>7 DEF AgeInv, Aged
  <2>2. ASSUME NEW i \in 1 .. Len(chunk')
        PROVE  chunk'[i] + (Len(chunk') - i) + Len(device') <= clock
    <3>1. device[i] + (Len(device) - i) <= clock
      BY <1>8 DEF AgeInv, Aged
    <3> QED
      BY <1>1, <1>3, <1>4, <1>5, <1>8, <3>1
  <2> QED
    BY <1>2, <2>1, <2>2 DEF Aged
<1>10. Seamless'
  <2>1. ASSUME suspends = 0, NEW i \in 1 .. Len(device')
        PROVE  device'[i] + (Len(device') - i) = clock
    <3>1. device[m + i - 1] + (Len(device) - (m + i - 1)) = clock
      BY <1>2, <1>7, <2>1 DEF AgeInv, Seamless
    <3> QED
      BY <1>7, <3>1
  <2>2. ASSUME suspends = 0, NEW i \in 1 .. Len(chunk')
        PROVE  chunk'[i] + (Len(chunk') - i) + Len(device') = clock
    <3>1. device[i] + (Len(device) - i) = clock
      BY <1>2, <1>8, <2>2 DEF AgeInv, Seamless
    <3> QED
      BY <1>1, <1>3, <1>4, <1>5, <1>8, <3>1
  <2> QED
    BY <1>2, <2>1, <2>2 DEF Seamless
<1> QED
  BY <1>9, <1>10 DEF AgeInv

LEMMA AgeAsk ==
  ASSUME DataTypes, AgeInv, AskDelay PROVE AgeInv'
<1>1. /\ UNCHANGED <<device, chunk, clock, pcm, suspends>>
      /\ pc = "delay" /\ pc' = "decode" /\ delay_time' = clock
  BY DEF AskDelay, deviceVars
<1>2. /\ delay' = Len(device) + Len(chunk) \/ delay' = Len(chunk)
      /\ ran' => pcm = "RUNNING" /\ delay' = Len(device) + Len(chunk)
  <2>1. delay' = PipeLength + Len(chunk) \/ delay' = 0 + Len(chunk)
    BY DEF AskDelay, DelayOf
  <2>2. ran' => pcm = "RUNNING" /\ delay' = PipeLength + Len(chunk)
    BY Zenon DEF AskDelay, DelayOf
  <2> QED
    BY <2>1, <2>2 DEF PipeLength, DataTypes
<1>3. ASSUME NEW i \in 1 .. Len(chunk)
      PROVE  /\ chunk[i] + (delay' - i) <= clock
             /\ ran' /\ suspends = 0 => chunk[i] + (delay' - i) = clock
  <2>1. chunk[i] \in Nat /\ Len(device) \in Nat /\ Len(chunk) \in Nat /\ clock \in Nat
    BY DEF DataTypes
  <2>2. chunk[i] + (Len(chunk) - i) + Len(device) <= clock
    BY <1>1 DEF AgeInv, Aged
  <2>3. ran' /\ suspends = 0 => chunk[i] + (Len(chunk) - i) + Len(device) = clock
    BY <1>1, <1>2 DEF AgeInv, Seamless
  <2> QED
    BY <1>2, <2>1, <2>2, <2>3
<1>4. Aged'
  BY <1>1, <1>3 DEF AgeInv, Aged
<1>5. Seamless'
  BY <1>1, <1>3 DEF AgeInv, Seamless
<1> QED
  BY <1>4, <1>5 DEF AgeInv

LEMMA AgeTick ==
  ASSUME DataTypes, AgeInv, Tick PROVE AgeInv'
<1>1. /\ clock' = clock + 1
      /\ UNCHANGED <<pc, chunk, delay, delay_time, ran, suspends>>
  BY DEF Tick, ioVars
<1>2. clock \in Nat /\ Len(device) \in Nat /\ Len(chunk) \in Nat /\ delay \in Nat
  BY DEF DataTypes
<1>3. /\ \A i \in 1 .. Len(device) : device[i] \in Nat
      /\ \A i \in 1 .. Len(chunk) : chunk[i] \in Nat
  BY DEF DataTypes
<1>4. CASE device' = Append(device, clock') /\ pcm = "RUNNING" /\ pcm' = pcm
  <2>1. /\ Len(device') = Len(device) + 1
        /\ \A i \in 1 .. Len(device) : device'[i] = device[i]
        /\ device'[Len(device) + 1] = clock + 1
    BY <1>1, <1>2, <1>4 DEF DataTypes
  <2>2. ASSUME NEW i \in 1 .. Len(device')
        PROVE  \/ i = Len(device') /\ device'[i] = clock'
               \/ /\ i \in 1 .. Len(device) /\ device'[i] = device[i]
                  /\ device[i] + (Len(device') - i)
                       = device[i] + (Len(device) - i) + 1
    BY <1>1, <1>2, <1>3, <2>1
  <2>3. ASSUME NEW i \in 1 .. Len(chunk)
        PROVE  chunk[i] + (Len(chunk) - i) + Len(device')
                 = chunk[i] + (Len(chunk) - i) + Len(device) + 1
    BY <1>2, <1>3, <2>1
  <2>4. ASSUME NEW i \in 1 .. Len(device')
        PROVE  /\ device'[i] + (Len(device') - i) <= clock'
               /\ suspends = 0 => device'[i] + (Len(device') - i) = clock'
    <3>1. CASE i = Len(device') /\ device'[i] = clock'
      BY <1>1, <1>2, <2>1, <3>1
    <3>2. CASE i \in 1 .. Len(device) /\ device'[i] = device[i]
      <4>1. device[i] + (Len(device) - i) <= clock
        BY <3>2 DEF AgeInv, Aged
      <4>2. suspends = 0 => device[i] + (Len(device) - i) = clock
        BY <1>4, <3>2 DEF AgeInv, Seamless
      <4> QED
        BY <1>1, <1>2, <1>3, <2>1, <3>2, <4>1, <4>2
    <3> QED
      BY <2>2, <3>1, <3>2
  <2>5. ASSUME NEW i \in 1 .. Len(chunk), pc = "delay"
        PROVE  /\ chunk[i] + (Len(chunk) - i) + Len(device') <= clock'
               /\ suspends = 0 =>
                    chunk[i] + (Len(chunk) - i) + Len(device') = clock'
    <3>1. chunk[i] + (Len(chunk) - i) + Len(device) <= clock
      BY <2>5 DEF AgeInv, Aged
    <3>2. suspends = 0 => chunk[i] + (Len(chunk) - i) + Len(device) = clock
      BY <1>4, <2>5 DEF AgeInv, Seamless
    <3> QED
      BY <1>1, <1>2, <1>3, <2>3, <3>1, <3>2
  <2>6. ASSUME NEW i \in 1 .. Len(chunk), pc = "decode"
        PROVE  chunk[i] + (delay - i) <= clock'
    <3>1. chunk[i] + (delay - i) <= clock
      BY <2>6 DEF AgeInv, Aged
    <3> QED
      BY <1>1, <1>2, <1>3, <3>1
  <2>7. Aged'
    BY <1>1, <2>4, <2>5, <2>6 DEF Aged
  <2>8. Seamless'
    BY <1>1, <1>4, <2>4, <2>5 DEF AgeInv, Seamless
  <2> QED
    BY <2>7, <2>8 DEF AgeInv
<1>5. CASE device' = device /\ pcm' # "RUNNING" /\ (pcm' = pcm \/ pcm' = "XRUN")
  <2>1. Aged'
    BY <1>1, <1>2, <1>3, <1>5 DEF AgeInv, Aged
  <2>2. Seamless'
    BY <1>1, <1>5 DEF AgeInv, Seamless
  <2> QED
    BY <2>1, <2>2 DEF AgeInv
<1> QED
  BY <1>4, <1>5 DEF Tick

LEMMA AgeStep == TypeOK /\ Settled /\ AgeInv /\ [Next]_vars => AgeInv'
<1> SUFFICES ASSUME TypeOK, Settled, AgeInv, [Next]_vars PROVE AgeInv'
  OBVIOUS
<1>0. DataTypes /\ suspends \in Nat
  BY TypesSplit DEF TypeOK
<1> USE DEF deviceVars, historyVars, ioVars
<1>1. CASE New \/ NewFails
  BY <1>0, <1>1, AgeIdle DEF New, NewFails, Settled, AgeInv, Seamless
<1>2. CASE Connect \/ Disconnect \/ RequestRead
  BY <1>0, <1>2, AgeIdle DEF Connect, Disconnect, RequestRead, AgeInv, Seamless
<1>3. CASE Dispatch \/ StopInput
  BY <1>0, <1>3, AgeIdle DEF Dispatch, StopInput, AgeInv, Seamless
<1>4. CASE Finalize
  BY <1>0, <1>4, AgeIdle, AgeEmpty DEF Finalize, AgeInv, Seamless
<1>5. ASSUME NEW length \in Capacities, SetBufferLen(length) PROVE AgeInv'
  BY <1>0, <1>5, AgeIdle DEF SetBufferLen, AgeInv, Seamless
<1>6. CASE RecoverOverrun
  BY <1>0, <1>6, AgeIdle, AgeEmpty DEF RecoverOverrun, AgeInv, Seamless
<1>7. CASE WaitForResume
  BY <1>0, <1>7, AgeIdle DEF WaitForResume, AgeInv, Seamless
<1>8. CASE Resume
  BY <1>0, <1>8, AgeIdle, AgeEmpty DEF Resume, Settled, AgeInv, Seamless
<1>9. CASE StartPrepared
  BY <1>0, <1>9, AgeIdle DEF StartPrepared, AgeInv, Seamless
<1>10. CASE Read
  BY <1>0, <1>10, AgeRead
<1>11. CASE AskDelay
  BY <1>0, <1>11, AgeAsk
<1>12. CASE Decode
  BY <1>0, <1>12, AgeIdle DEF Decode, AgeInv, Seamless
<1>13. CASE Tick
  BY <1>0, <1>13, AgeTick
<1>14. CASE Suspend
  BY <1>0, <1>14 DEF Suspend, AgeInv, Aged, Seamless
<1>15. CASE UNCHANGED vars
  BY <1>15 DEF vars, AgeInv, Aged, Seamless
<1>16. CASE OtherError
  BY <1>0, <1>16, AgeIdle DEF OtherError, AgeInv, Seamless
<1> QED
  BY <1>1, <1>2, <1>3, <1>4, <1>5, <1>6, <1>7, <1>8, <1>9, <1>10, <1>11,
     <1>12, <1>13, <1>14, <1>15, <1>16
     DEF Next, Client, Handle, Recover, ReadFails

LEMMA AgeAlways == Spec => [](TypeOK /\ AgeInv)
<1>1. Init => AgeInv
  BY DEF Init, AgeInv, Aged, Seamless
<1> QED
  BY <1>1, AgeStep, TypeCorrect, SettledAlways, PTL DEF Spec

LEMMA ChunkTypes ==
  ASSUME TypeOK, NEW i \in 1 .. Len(chunk)
  PROVE  chunk[i] \in Nat /\ Len(chunk) \in Nat /\ clock \in Nat /\ delay \in Nat
  BY DEF TypeOK

(* The reader never takes a frame for captured before it was.              *)
THEOREM CaptureTimesNeverEarly == Spec => []NeverEarly
<1>1. TypeOK /\ AgeInv => NeverEarly
  <2> SUFFICES ASSUME TypeOK, AgeInv, pc = "decode", NEW i \in 1 .. Len(chunk)
               PROVE  chunk[i] <= WhenOf(i)
    BY DEF NeverEarly
  <2>1. chunk[i] + (delay - i) <= clock
    BY DEF AgeInv, Aged
  <2> QED
    BY <2>1, ChunkTypes DEF WhenOf
<1> QED
  BY <1>1, AgeAlways, PTL

(* A running device that was never suspended has the time of capture of a  *)
(* frame off by the time from the question for the delay to the reading of *)
(* the clock.                                                              *)
THEOREM CaptureTimesLateByLag == Spec => []LateByLag
<1>1. TypeOK /\ AgeInv => LateByLag
  <2> SUFFICES ASSUME TypeOK, AgeInv, pc = "decode", ran, suspends = 0,
                      NEW i \in 1 .. Len(chunk)
               PROVE  WhenOf(i) - chunk[i] = clock - delay_time
    BY DEF LateByLag
  <2>1. chunk[i] + (delay - i) = delay_time
    BY DEF AgeInv, Seamless
  <2> QED
    BY <2>1, ChunkTypes DEF WhenOf
<1> QED
  BY <1>1, AgeAlways, PTL

=============================================================================
