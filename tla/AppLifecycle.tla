---------------------------- MODULE AppLifecycle ----------------------------
(***************************************************************************)
(* The life of the program: main, sig_handler and app_clean of             *)
(* ltc_to_midi.c with mtc_sender_new and mtc_sender_destroy of             *)
(* mtc_sender.c, and of the other objects when they are made and finalized.*)
(*                                                                         *)
(* Every call that may fail is a step, and a signal may come between any   *)
(* two steps; its handler runs on the main thread.  What the program holds *)
(* is kept apart from what its fields say, from which it decides what to   *)
(* release.                                                                *)
(***************************************************************************)
EXTENDS Integers

CONSTANTS
  MayFail,    \* may calls to ALSA fail?
  MaxSignals  \* bound: number of signals

ASSUME LifeAssumption == MayFail \in BOOLEAN /\ MaxSignals \in Nat

VARIABLES
  pc,         \* where the main thread is
  app,        \* the pointers of struct _AppContext that are set
  io,         \* the fields of struct _MTCSender that name a resource
  main_loop,  \* "null", "valid" or "freed"
  handler,    \* is sig_handler installed?
  is_running, \* external: of the GMainLoop
  held        \* external: what ALSA and GLib have given and not got back

VARIABLES
  signals,    \* number of signals
  told,       \* history: was a signal handled while the loop was running?
  misused     \* history: what was used or released while not held

vars == <<pc, app, io, main_loop, handler, is_running, held, signals, told,
          misused>>

Resources ==
  {"audio_source", "pcm", "pcm_source", "ltc_reader", "seq", "queue",
   "client_info", "port_info", "mtc_source"}

(* Lines 87-92 of mtc_sender.c, and the mutant that leaves queue_id 0.     *)
QueueZero == {"queue"}
NewFields == {}

(* main up to the parsing of options.                                      *)
Init ==
  /\ pc = "options"
  /\ app = {}
  /\ io = NewFields
  /\ main_loop = "null"
  /\ handler = FALSE
  /\ is_running = FALSE
  /\ held = {}
  /\ signals = 0
  /\ told = FALSE
  /\ misused = {}

Take(resources) == held' = held \union resources /\ UNCHANGED misused

Release(resources) ==
  /\ held' = held \ resources
  /\ misused' = misused \union (resources \ held)

Keep == UNCHANGED <<held, misused>>

(* The main thread goes from one place to another.                         *)
Go(from, to) ==
  /\ pc = from
  /\ pc' = to
  /\ UNCHANGED <<handler, signals, told>>

(* A step that changes nothing else.                                       *)
JustGo(from, to) ==
  /\ Go(from, to)
  /\ Keep
  /\ UNCHANGED <<app, io, main_loop, is_running>>

(* Whatever aborts the program leaves its resources to the kernel.         *)
Abort(from) == MayFail /\ JustGo(from, "aborted")

-----------------------------------------------------------------------------
(* main, lines 91-116.                                                     *)

(* Options that cannot be parsed end the program at once.                  *)
ParseOptions ==
  JustGo("options", "new_loop") \/ JustGo("options", "clean_audio")

NewLoop ==
  /\ Go("new_loop", "install")
  /\ main_loop' = "valid"
  /\ Keep
  /\ UNCHANGED <<app, io, is_running>>

InstallHandler ==
  /\ pc = "install"
  /\ pc' = "new_audio"
  /\ handler' = TRUE
  /\ Keep
  /\ UNCHANGED <<app, io, main_loop, is_running, signals, told>>

(* sound_io_alsa_new; an error in it ends the program.                     *)
NewAudio ==
  \/ /\ Go("new_audio", "new_reader")
     /\ app' = app \union {"audio_source"}
     /\ Take({"audio_source", "pcm", "pcm_source"})
     /\ UNCHANGED <<io, main_loop, is_running>>
  \/ Abort("new_audio")

NewReader ==
  /\ Go("new_reader", "open")
  /\ app' = app \union {"ltc_reader"}
  /\ Take({"ltc_reader"})
  /\ UNCHANGED <<io, main_loop, is_running>>

(* audio_link_connect, after mtc_sender_new has succeeded.                 *)
Connect == JustGo("connect", "enter")

-----------------------------------------------------------------------------
(* mtc_sender_new: a step that fails goes to mtc_sender_destroy.           *)

Fail(from) == MayFail /\ JustGo(from, "free_queue")

(* Lines 85-101, with the source that g_source_new makes.                  *)
OpenSeq ==
  /\ pc = "open"
  /\ UNCHANGED <<app, main_loop, is_running, handler, signals, told>>
  /\ \/ /\ pc' = "create_port"
        /\ io' = NewFields \union {"seq"}
        /\ Take({"mtc_source", "seq"})
     \/ /\ MayFail /\ pc' = "free_queue"
        /\ io' = NewFields
        /\ Take({"mtc_source"})

(* Lines 103-121                                                           *)
CreatePort ==
  /\ pc = "create_port"
  /\ pc' = "alloc_queue" \/ (MayFail /\ pc' = "free_queue")
  /\ io' = io \union {"client_info", "port_info"}
  /\ Take({"client_info", "port_info"})
  /\ UNCHANGED <<app, main_loop, is_running, handler, signals, told>>

(* Line 129                                                                *)
AllocQueue ==
  \/ /\ Go("alloc_queue", "start_queue")
     /\ io' = io \union {"queue"}
     /\ Take({"queue"})
     /\ UNCHANGED <<app, main_loop, is_running>>
  \/ Fail("alloc_queue")

(* The queue is started, drained and set to the clock, lines 138-177.      *)
StartQueue ==
  \/ /\ Go("start_queue", "connect")
     /\ app' = app \union {"mtc_sender"}
     /\ Keep
     /\ UNCHANGED <<io, main_loop, is_running>>
  \/ Fail("start_queue")

New_mtc_sender == OpenSeq \/ CreatePort \/ AllocQueue \/ StartQueue

-----------------------------------------------------------------------------
(* mtc_sender_destroy, in the order of its lines 184-194.                  *)

(* Lines 184-186, which need the sequencer.                                *)
FreeQueue ==
  /\ Go("free_queue", "close_seq")
  /\ IF "queue" \in io
     THEN /\ held' = held \ {"queue"}
          /\ misused' = misused \union ({"queue", "seq"} \ held)
     ELSE Keep
  /\ UNCHANGED <<app, io, main_loop, is_running>>

(* Lines 187-189; the kernel takes the queues of the client along.         *)
CloseSeq ==
  /\ Go("close_seq", "free_rest")
  /\ IF "seq" \in io
     THEN /\ held' = held \ {"seq", "queue"}
          /\ misused' = misused \union ({"seq"} \ held)
     ELSE Keep
  /\ UNCHANGED <<app, io, main_loop, is_running>>

(* Where main goes on when mtc_sender_new returns NULL, lines 107-111 of   *)
(* ltc_to_midi.c, and the mutants that miss it or just return.             *)
RunAnyway == "connect"
JustReturn == "exited"
OnNull == "clean_audio"

(* Lines 190-194; then back in app_clean, or in mtc_sender_new.            *)
FreeRest ==
  /\ Go("free_rest", IF "mtc_sender" \in app THEN "exited" ELSE OnNull)
  /\ Release({"mtc_source"}
               \union (io \intersect {"client_info", "port_info"}))
  /\ UNCHANGED <<app, io, main_loop, is_running>>

Destroy_mtc_sender == FreeQueue \/ CloseSeq \/ FreeRest

-----------------------------------------------------------------------------
(* app_clean, lines 42-50.                                                 *)

(* sound_io_alsa_finalize: a device that cannot be closed is an error,     *)
(* which ends the program.                                                 *)
CleanAudio ==
  \/ /\ Go("clean_audio", "clean_reader")
     /\ IF "audio_source" \in app
        THEN Release({"audio_source", "pcm", "pcm_source"})
        ELSE Keep
     /\ UNCHANGED <<app, io, main_loop, is_running>>
  \/ "audio_source" \in app /\ Abort("clean_audio")

CleanReader ==
  /\ Go("clean_reader",
        IF "mtc_sender" \in app THEN "free_queue" ELSE "exited")
  /\ IF "ltc_reader" \in app THEN Release({"ltc_reader"}) ELSE Keep
  /\ UNCHANGED <<app, io, main_loop, is_running>>

app_clean == CleanAudio \/ CleanReader

-----------------------------------------------------------------------------
(* g_main_loop_run.  GLib holds the lock of the context while it prepares  *)
(* and checks the sources, not while it polls or dispatches.               *)

EnterLoop ==
  /\ Go("enter", "prepare")
  /\ is_running' = TRUE
  /\ Keep
  /\ UNCHANGED <<app, io, main_loop>>

LeaveLoop == ~is_running /\ JustGo("prepare", "unref_loop")

Iterate ==
  \/ is_running /\ JustGo("prepare", "poll")
  \/ JustGo("check", "dispatch")
  \/ JustGo("dispatch", "prepare")

(* The poll ends with an event, or because g_main_loop_quit wakes it.      *)
EndPoll == JustGo("poll", "check")

WakeUp == ~is_running /\ EndPoll

(* Line 118 *)
UnrefLoop ==
  /\ Go("unref_loop", "clean_audio")
  /\ main_loop' = "freed"
  /\ Keep
  /\ UNCHANGED <<app, io, is_running>>

-----------------------------------------------------------------------------
(* Signals *)

Alive == pc \notin {"exited", "aborted", "killed", "hung", "crashed"}
Locked == pc \in {"prepare", "check"}
InLoop == pc \in {"prepare", "poll", "check", "dispatch"}

(* sig_handler, and the mutant with its condition the wrong way round.     *)
QuitsIfNull == main_loop = "null"
Quits == main_loop # "null"

(* g_main_loop_quit takes the lock of the context, for which it waits for  *)
(* ever when the thread that it interrupts holds it.  On a loop that was   *)
(* freed it may do nothing, or crash.                                      *)
sig_handler ==
  \/ /\ Quits /\ main_loop = "valid" /\ ~Locked
     /\ is_running' = FALSE
     /\ UNCHANGED pc
  \/ /\ Quits /\ main_loop = "valid" /\ Locked
     /\ pc' = "hung"
     /\ UNCHANGED is_running
  \/ /\ Quits /\ main_loop = "freed"
     /\ pc' \in {pc, "crashed"}
     /\ UNCHANGED is_running
  \/ ~Quits /\ UNCHANGED <<pc, is_running>>

Signal ==
  /\ Alive
  /\ signals < MaxSignals
  /\ signals' = signals + 1
  /\ \/ handler /\ sig_handler
     \/ ~handler /\ pc' = "killed" /\ UNCHANGED is_running
  /\ told' = (told \/ (InLoop /\ ~Locked))
  /\ UNCHANGED <<app, io, main_loop, handler, held, misused>>

-----------------------------------------------------------------------------
Main ==
  \/ ParseOptions \/ NewLoop \/ InstallHandler \/ NewAudio \/ NewReader
  \/ New_mtc_sender \/ Connect \/ EnterLoop \/ LeaveLoop \/ Iterate
  \/ UnrefLoop \/ app_clean \/ Destroy_mtc_sender

Next == Main \/ EndPoll \/ Signal

Spec == Init /\ [][Next]_vars

(* The main thread goes on; callbacks return (MainLoopRuns of MTCSender).  *)
FairSpec == Spec /\ WF_vars(Main) /\ WF_vars(WakeUp)

-----------------------------------------------------------------------------
(* Properties. *)

(* Types, and that a signal handler finds a loop, though maybe a freed one. *)
TypeOK ==
  /\ pc \in {"options", "new_loop", "install", "new_audio", "new_reader",
             "open", "create_port", "alloc_queue", "start_queue", "connect",
             "enter", "prepare", "poll", "check", "dispatch", "unref_loop",
             "clean_audio", "clean_reader", "free_queue", "close_seq",
             "free_rest", "exited", "aborted", "killed", "hung", "crashed"}
  /\ app \subseteq {"audio_source", "ltc_reader", "mtc_sender"}
  /\ io \subseteq {"seq", "client_info", "port_info", "queue"}
  /\ main_loop \in {"null", "valid", "freed"}
  /\ handler \in BOOLEAN /\ is_running \in BOOLEAN /\ told \in BOOLEAN
  /\ held \subseteq Resources /\ misused \subseteq Resources
  /\ signals \in 0 .. MaxSignals
  /\ handler => main_loop # "null"

(* Whichever call fails and wherever main returns, everything that was     *)
(* given has been given back: the fields from which mtc_sender_destroy and *)
(* app_clean decide what to release tell what is held.  (The main loop,    *)
(* which is memory only, is left when mtc_sender_new fails.)               *)
AllReleased == pc = "exited" => held = {}

(* Nothing is released, or used to release something else, that is not     *)
(* held: neither twice, nor before it was given.                           *)
OnlyHeldReleased == misused = {}

(* While the loop runs, and with it the callbacks, all objects are there.  *)
CallbacksHaveObjects == InLoop => held = Resources

(* A signal that comes while the loop runs, except at the moments at which *)
(* GLib holds its lock, stops the program.  A signal that comes before the *)
(* loop runs is lost, as g_main_loop_run sets is_running, and one more     *)
(* signal may hang or crash the program on its way out.                    *)
StopsWhenTold == told ~> pc \in {"exited", "aborted"} \/ signals > 1

=============================================================================
