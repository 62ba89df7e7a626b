------------------------ MODULE AppLifecycle_proofs -------------------------
(***************************************************************************)
(* Proofs of the safety properties of AppLifecycle, whatever may fail and  *)
(* however many signals come.                                              *)
(***************************************************************************)
EXTENDS AppLifecycle, TLAPS

(***************************************************************************)
(* What the fields say and what is held at each place of main.             *)
(***************************************************************************)
Audio == {"audio_source", "pcm", "pcm_source"}
Inputs == {"audio_source", "ltc_reader"}
Made == {"audio_source", "ltc_reader", "mtc_sender"}
Opened == {"seq", "client_info", "port_info"}
AllFields == {"seq", "client_info", "port_info", "queue"}
OfInputs == {"audio_source", "pcm", "pcm_source", "ltc_reader"}
OfSender == {"mtc_source", "seq", "client_info", "port_info", "queue"}

Starting == {"options", "new_loop", "install", "new_audio"}
Running ==
  {"connect", "enter", "prepare", "poll", "check", "dispatch", "unref_loop"}

(* Until mtc_sender_new has returned.                                      *)
WhileMaking ==
  /\ pc \in Starting => app = {} /\ io = {} /\ held = {}
  /\ pc = "new_reader" => app = {"audio_source"} /\ io = {} /\ held = Audio
  /\ pc = "open" => app = Inputs /\ io = {} /\ held = OfInputs
  /\ pc = "create_port" =>
       app = Inputs /\ io = {"seq"} /\ held = OfInputs \union {"mtc_source", "seq"}
  /\ pc = "alloc_queue" =>
       /\ app = Inputs
       /\ io = Opened
       /\ held = OfInputs \union {"mtc_source"} \union Opened
  /\ pc = "start_queue" =>
       app = Inputs /\ io = AllFields /\ held = Resources

WhileRunning ==
  pc \in Running => app = Made /\ io = AllFields /\ held = Resources

(* mtc_sender_destroy called by mtc_sender_new, and by app_clean.          *)
WhileFailing(left) ==
  /\ app = Inputs
  /\ "queue" \in io => "seq" \in io
  /\ held = OfInputs \union {"mtc_source"} \union (io \ left)

WhileEnding(left) ==
  /\ app = Made
  /\ io = AllFields
  /\ held = OfSender \ left

WhileDestroying ==
  /\ pc = "free_queue" => WhileFailing({}) \/ WhileEnding({})
  /\ pc = "close_seq" => WhileFailing({"queue"}) \/ WhileEnding({"queue"})
  /\ pc = "free_rest" =>
       WhileFailing({"queue", "seq"}) \/ WhileEnding({"queue", "seq"})

(* app_clean is called with nothing made, the inputs made, and all made.   *)
WhileCleaning ==
  /\ pc = "clean_audio" =>
       \/ app = {} /\ held = {}
       \/ app = Inputs /\ held = OfInputs
       \/ app = Made /\ io = AllFields /\ held = Resources
  /\ pc = "clean_reader" =>
       \/ app = {} /\ held = {}
       \/ app = Inputs /\ held = {"ltc_reader"}
       \/ app = Made /\ io = AllFields /\ held = OfSender \union {"ltc_reader"}

Accounts ==
  /\ pc = "install" => main_loop = "valid"
  /\ WhileMaking
  /\ WhileRunning
  /\ WhileDestroying
  /\ WhileCleaning
  /\ AllReleased
  /\ OnlyHeldReleased

IInv == TypeOK /\ Accounts

-----------------------------------------------------------------------------
LEMMA InitIInv == Init => IInv
<1> SUFFICES ASSUME Init PROVE IInv
  OBVIOUS
<1>1. signals \in 0 .. MaxSignals
  BY LifeAssumption DEF Init
<1>2. TypeOK
  BY <1>1 DEF Init, TypeOK, NewFields
<1>3. Accounts
  BY DEF Init, Accounts, WhileMaking, WhileRunning, WhileDestroying,
         WhileCleaning, AllReleased, OnlyHeldReleased, NewFields, Starting,
         Running
<1> QED
  BY <1>2, <1>3 DEF IInv

(***************************************************************************)
(* The accounts are kept by every step of the main thread: each depends on *)
(* the place main comes from and goes to.                                  *)
(***************************************************************************)
LEMMA MainKeepsAccounts ==
  ASSUME IInv, Main
  PROVE  Accounts'
<1> USE DEF IInv, TypeOK, Accounts, WhileMaking, WhileRunning, WhileDestroying,
            WhileCleaning, WhileFailing, WhileEnding, AllReleased,
            OnlyHeldReleased, Audio, Inputs, Made, Opened, AllFields, OfInputs,
            OfSender, Starting, Running, Resources, Go, JustGo, Keep, Take,
            Release, Fail, Abort
<1>1. CASE ParseOptions
  BY <1>1 DEF ParseOptions
<1>2. CASE NewLoop
  BY <1>2 DEF NewLoop
<1>3. CASE InstallHandler
  BY <1>3 DEF InstallHandler
<1>4. CASE NewAudio
  BY <1>4 DEF NewAudio
<1>5. CASE NewReader
  BY <1>5 DEF NewReader
<1>6. CASE OpenSeq
  BY <1>6 DEF OpenSeq, NewFields
<1>7. CASE CreatePort
  BY <1>7 DEF CreatePort
<1>8. CASE AllocQueue
  BY <1>8 DEF AllocQueue
<1>9. CASE StartQueue
  BY <1>9 DEF StartQueue
<1>10. CASE Connect
  BY <1>10 DEF Connect
<1>11. CASE EnterLoop \/ LeaveLoop \/ Iterate
  BY <1>11 DEF EnterLoop, LeaveLoop, Iterate
<1>12. CASE UnrefLoop
  BY <1>12 DEF UnrefLoop
<1>13. CASE CleanAudio
  BY <1>13 DEF CleanAudio
<1>14. CASE CleanReader
  <2>1. pc = "clean_reader" /\ UNCHANGED <<app, io>>
    BY <1>14 DEF CleanReader
  <2>2. CASE app = Made
    BY <1>14, <2>1, <2>2 DEF CleanReader
  <2>3. CASE app = Inputs
    BY <1>14, <2>1, <2>3 DEF CleanReader
  <2>4. CASE app = {}
    BY <1>14, <2>1, <2>4 DEF CleanReader
  <2> QED
    BY <2>1, <2>2, <2>3, <2>4
<1>15. CASE FreeQueue
  BY <1>15 DEF FreeQueue
<1>16. CASE CloseSeq
  BY <1>16 DEF CloseSeq
<1>17. CASE FreeRest
  <2>1. pc = "free_rest" /\ UNCHANGED <<app, io, main_loop>>
    BY <1>17 DEF FreeRest
  <2>2. CASE WhileFailing({"queue", "seq"})
    <3>1. pc' = "clean_audio"
      BY <1>17, <2>2 DEF FreeRest, OnNull
    <3>2. held' = OfInputs /\ misused' = {}
      BY <1>17, <2>2 DEF FreeRest
    <3> QED
      BY <2>1, <2>2, <3>1, <3>2
  <2>3. CASE WhileEnding({"queue", "seq"})
    <3>1. pc' = "exited"
      BY <1>17, <2>3 DEF FreeRest
    <3>2. held' = {} /\ misused' = {}
      BY <1>17, <2>3 DEF FreeRest
    <3> QED
      BY <2>1, <3>1, <3>2
  <2> QED
    BY <2>1, <2>2, <2>3
<1> QED
  BY <1>1, <1>2, <1>3, <1>4, <1>5, <1>6, <1>7, <1>8, <1>9, <1>10, <1>11,
     <1>12, <1>13, <1>14, <1>15, <1>16, <1>17
  DEF Main, New_mtc_sender, app_clean, Destroy_mtc_sender

(* A signal takes main nowhere but to places without accounts.             *)
LEMMA SignalKeepsAccounts ==
  ASSUME IInv, Signal
  PROVE  Accounts'
<1>1. UNCHANGED <<app, io, main_loop, held, misused>>
  BY DEF Signal
<1>2. pc' = pc \/ pc' \in {"killed", "hung", "crashed"}
  BY DEF Signal, sig_handler
<1> QED
  BY <1>1, <1>2
  DEF IInv, Accounts, WhileMaking, WhileRunning, WhileDestroying,
      WhileCleaning, WhileFailing, WhileEnding, AllReleased, OnlyHeldReleased,
      Starting, Running

LEMMA MainKeepsTypes ==
  ASSUME IInv, Main
  PROVE  TypeOK'
<1> USE DEF Go, JustGo, Keep, Take, Release, Fail, Abort
<1>1. TypeOK /\ (pc = "install" => main_loop = "valid")
  BY DEF IInv, Accounts
<1>2. UNCHANGED <<signals, told>>
  BY Zenon
  DEF Main, ParseOptions, NewLoop, InstallHandler, NewAudio, NewReader,
      New_mtc_sender, OpenSeq, CreatePort, AllocQueue, StartQueue, Connect,
      EnterLoop, LeaveLoop, Iterate, UnrefLoop, app_clean, CleanAudio,
      CleanReader, Destroy_mtc_sender, FreeQueue, CloseSeq, FreeRest
<1>3. /\ is_running' \in {is_running, TRUE}
      /\ \/ UNCHANGED <<main_loop, handler>>
         \/ main_loop' \in {"valid", "freed"} /\ UNCHANGED handler
         \/ pc = "install" /\ handler' = TRUE /\ UNCHANGED main_loop
  BY Zenon
  DEF Main, ParseOptions, NewLoop, InstallHandler, NewAudio, NewReader,
      New_mtc_sender, OpenSeq, CreatePort, AllocQueue, StartQueue, Connect,
      EnterLoop, LeaveLoop, Iterate, UnrefLoop, app_clean, CleanAudio,
      CleanReader, Destroy_mtc_sender, FreeQueue, CloseSeq, FreeRest
<1>4. /\ pc' \in {"new_loop", "install", "new_audio", "new_reader", "open",
                 "create_port", "alloc_queue", "start_queue", "connect",
                 "enter", "prepare", "poll", "check", "dispatch",
                 "unref_loop", "clean_audio", "clean_reader", "free_queue",
                 "close_seq", "free_rest", "exited", "aborted"}
  BY SMT
  DEF Main, ParseOptions, NewLoop, InstallHandler, NewAudio, NewReader,
      New_mtc_sender, OpenSeq, CreatePort, AllocQueue, StartQueue, Connect,
      EnterLoop, LeaveLoop, Iterate, UnrefLoop, app_clean, CleanAudio,
      CleanReader, Destroy_mtc_sender, FreeQueue, CloseSeq, FreeRest, OnNull
<1>5. app' \subseteq {"audio_source", "ltc_reader", "mtc_sender"}
  <2>1. app' \in {app, app \union {"audio_source"}, app \union {"ltc_reader"},
                 app \union {"mtc_sender"}}
    BY Zenon
    DEF Main, ParseOptions, NewLoop, InstallHandler, NewAudio, NewReader,
        New_mtc_sender, OpenSeq, CreatePort, AllocQueue, StartQueue, Connect,
        EnterLoop, LeaveLoop, Iterate, UnrefLoop, app_clean, CleanAudio,
        CleanReader, Destroy_mtc_sender, FreeQueue, CloseSeq, FreeRest
  <2> QED
    BY <1>1, <2>1 DEF TypeOK
<1>6. io' \subseteq {"seq", "client_info", "port_info", "queue"}
  <2>1. \/ io' \in {io, NewFields, NewFields \union {"seq"}}
        \/ io' \in {io \union {"client_info", "port_info"}, io \union {"queue"}}
    BY Zenon
    DEF Main, ParseOptions, NewLoop, InstallHandler, NewAudio, NewReader,
        New_mtc_sender, OpenSeq, CreatePort, AllocQueue, StartQueue, Connect,
        EnterLoop, LeaveLoop, Iterate, UnrefLoop, app_clean, CleanAudio,
        CleanReader, Destroy_mtc_sender, FreeQueue, CloseSeq, FreeRest
  <2> QED
    BY <1>1, <2>1 DEF TypeOK, NewFields
<1>7. held' \subseteq Resources /\ misused' \subseteq Resources
  <2> USE <1>1 DEF TypeOK, Resources
  <2>1. CASE \/ ParseOptions \/ NewLoop \/ InstallHandler \/ Connect
             \/ EnterLoop \/ LeaveLoop \/ Iterate \/ UnrefLoop
    BY <2>1
    DEF ParseOptions, NewLoop, InstallHandler, Connect, EnterLoop, LeaveLoop,
        Iterate, UnrefLoop
  <2>2. CASE NewAudio \/ NewReader
    BY <2>2 DEF NewAudio, NewReader
  <2>3. CASE OpenSeq \/ CreatePort
    BY <2>3 DEF OpenSeq, CreatePort
  <2>4. CASE AllocQueue \/ StartQueue
    BY <2>4 DEF AllocQueue, StartQueue
  <2>5. CASE CleanAudio \/ CleanReader
    BY <2>5 DEF CleanAudio, CleanReader
  <2>6. CASE FreeQueue \/ CloseSeq
    BY <2>6 DEF FreeQueue, CloseSeq
  <2>7. CASE FreeRest
    BY <2>7 DEF FreeRest
  <2> QED
    BY <2>1, <2>2, <2>3, <2>4, <2>5, <2>6, <2>7
    DEF Main, New_mtc_sender, app_clean, Destroy_mtc_sender
<1>8. /\ handler' \in BOOLEAN /\ is_running' \in BOOLEAN
      /\ main_loop' \in {"null", "valid", "freed"}
      /\ handler' => main_loop' # "null"
  <2>1. handler' \in BOOLEAN /\ is_running' \in BOOLEAN
    BY <1>1, <1>3, Zenon DEF TypeOK
  <2>2. main_loop' \in {"null", "valid", "freed"}
    BY <1>1, <1>3 DEF TypeOK
  <2>3. handler' => main_loop' # "null"
    BY <1>1, <1>3 DEF TypeOK
  <2> QED
    BY <2>1, <2>2, <2>3
<1>9. told' \in BOOLEAN /\ signals' \in 0 .. MaxSignals
  BY <1>1, <1>2, Zenon DEF TypeOK
<1> QED
  BY <1>4, <1>5, <1>6, <1>7, <1>8, <1>9, Zenon DEF TypeOK

LEMMA SignalKeepsTypes ==
  ASSUME TypeOK, Signal
  PROVE  TypeOK'
<1>1. pc' \in {pc, "killed", "hung", "crashed"} /\ is_running' \in BOOLEAN
  BY DEF Signal, sig_handler, TypeOK
<1>2. signals' \in 0 .. MaxSignals
  BY LifeAssumption DEF Signal, TypeOK
<1> QED
  BY <1>1, <1>2 DEF Signal, TypeOK

LEMMA NextIInv == IInv /\ [Next]_vars => IInv'
<1> SUFFICES ASSUME IInv, [Next]_vars PROVE IInv'
  OBVIOUS
<1>1. CASE Main
  BY <1>1, MainKeepsAccounts, MainKeepsTypes DEF IInv
<1>2. CASE EndPoll
  BY <1>2
  DEF EndPoll, JustGo, Go, Keep, IInv, TypeOK, Accounts, WhileMaking,
      WhileRunning, WhileDestroying, WhileCleaning, WhileFailing, WhileEnding,
      AllReleased, OnlyHeldReleased, Starting, Running
<1>3. CASE Signal
  BY <1>3, SignalKeepsAccounts, SignalKeepsTypes DEF IInv
<1>4. CASE UNCHANGED vars
  BY <1>4
  DEF vars, IInv, TypeOK, Accounts, WhileMaking, WhileRunning,
      WhileDestroying, WhileCleaning, WhileFailing, WhileEnding, AllReleased,
      OnlyHeldReleased
<1> QED
  BY <1>1, <1>2, <1>3, <1>4 DEF Next

LEMMA Invariance == Spec => []IInv
  BY InitIInv, NextIInv, PTL DEF Spec

-----------------------------------------------------------------------------
(* Types, and a handler that is installed finds a loop.                    *)
THEOREM TypeCorrect == Spec => []TypeOK
<1>1. IInv => TypeOK
  BY DEF IInv
<1> QED
  BY <1>1, Invariance, PTL

(* Whatever fails, and wherever main returns, all that ALSA and GLib gave  *)
(* has been given back.                                                    *)
THEOREM EverythingReleased == Spec => []AllReleased
<1>1. IInv => AllReleased
  BY DEF IInv, Accounts
<1> QED
  BY <1>1, Invariance, PTL

(* Nothing is released twice, or used after it was released.               *)
THEOREM NothingMisused == Spec => []OnlyHeldReleased
<1>1. IInv => OnlyHeldReleased
  BY DEF IInv, Accounts
<1> QED
  BY <1>1, Invariance, PTL

(* The callbacks of the loop never run with an object missing.             *)
THEOREM ObjectsPresent == Spec => []CallbacksHaveObjects
<1>1. IInv => CallbacksHaveObjects
  BY DEF IInv, Accounts, WhileRunning, Running, InLoop, CallbacksHaveObjects
<1> QED
  BY <1>1, Invariance, PTL

=============================================================================
