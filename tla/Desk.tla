---------------------------------- MODULE Desk ----------------------------------
(***************************************************************************)
(* The window's thread and the programs that ask it for something: main()'s *)
(* loop with its waits, App::poll() with the requests of the control API,   *)
(* App::post_ui_request() on the API's own threads with its timeout, turning *)
(* the API off while requests wait, and the closing of the window.          *)
(*                                                                         *)
(* A refresh stands for the tasks the window runs beside its frames, connect *)
(* for what it asks the engine, which is its phase.                         *)
(***************************************************************************)
EXTENDS Naturals, Sequences, SequencesExt, FiniteSets

CONSTANTS
  Threads,      \* threads of the API's pool
  MaxPosts,     \* bound: requests in a behaviour
  MaxEvents     \* bound: things the user does

ASSUME DeskAssumption == IsFiniteSet(Threads) /\ MaxPosts \in Nat /\ MaxEvents \in Nat

VARIABLES
  loop,            \* where main()'s loop is
  event,           \* the window system has an event for it
  bumped,          \* g_activity is not seen_activity
  pending_frames,
  minimised,       \* GLFW_ICONIFIED
  swallowed,       \* history: an event was taken elsewhere since the activity was compared
  should_close,
  ui_requests,     \* the queue, of callers
  batch,           \* handle_ui_requests()'s own batch
  ui_closing,
  api,             \* "on", "stopping" (no new request, the old ones are joined) or "off"
  call,            \* of each caller: where it is, what it asks, what it was answered
  refreshing,      \* retry_task_: "none", "running" or "ready"
  phase,           \* the engine: "idle", "connecting" or "connected"
  ran,             \* history: the callers whose request of now has run
  posts, events

window   == <<loop, event, bumped, pending_frames, minimised, swallowed, should_close>>
requests == <<ui_requests, batch, ui_closing, api, call, ran, posts>>
tasks    == <<refreshing, phase>>
deskVars == <<window, requests, tasks, events>>

Kinds == {"refresh", "connect"}

\* UiReply: done, refused (400 and 409), withdrawn ("The window did not answer in
\* time; nothing was done.") or closing.
Replies == {"done", "refused", "withdrawn", "closing"}

Resting == [pc |-> "idle", kind |-> "refresh", reply |-> "none"]

DeskInit ==
  /\ loop = "top" /\ event = FALSE /\ bumped = FALSE /\ pending_frames = 2
  /\ minimised = FALSE /\ swallowed = FALSE /\ should_close = FALSE
  /\ ui_requests = <<>> /\ batch = <<>> /\ ui_closing = FALSE /\ api \in {"on", "off"}
  /\ call = [c \in Threads |-> Resting] /\ ran = {}
  /\ refreshing = "none" /\ phase = "idle"
  /\ posts = 0 /\ events = 0

\* The App's wake_: bump(), then glfwPostEmptyEvent().
Wake == bumped' = TRUE /\ event' = TRUE

-----------------------------------------------------------------------------
(* A thread of the API: post_ui_request()                                  *)

\* A request that was read before the API stops is still posted after that.
Post(c, kind) ==
  /\ api # "off" /\ call[c].pc = "idle" /\ posts < MaxPosts /\ posts' = posts + 1
  /\ IF ui_closing
     THEN /\ call' = [call EXCEPT ![c] = [pc |-> "answered", kind |-> kind, reply |-> "closing"]]
          /\ UNCHANGED ui_requests
     ELSE /\ call' = [call EXCEPT ![c] = [pc |-> "waking", kind |-> kind, reply |-> "none"]]
          /\ ui_requests' = Append(ui_requests, c)
  /\ UNCHANGED <<window, tasks, batch, ui_closing, api, ran, events>>

WakeUp(c) ==
  /\ call[c].pc = "waking" /\ call' = [call EXCEPT ![c].pc = "waiting"]
  /\ Wake
  /\ UNCHANGED <<loop, pending_frames, minimised, swallowed, should_close, tasks, events>>
  /\ UNCHANGED <<ui_requests, batch, ui_closing, api, ran, posts>>

\* wait_for() gives up: the answer may come before the lock is taken.
TimeOut(c) ==
  /\ call[c].pc = "waiting" /\ call[c].reply = "none"
  /\ call' = [call EXCEPT ![c].pc = "expired"]
  /\ UNCHANGED <<window, tasks, events, ui_requests, batch, ui_closing, api, ran, posts>>

Queued(c) == \E n \in DOMAIN ui_requests : ui_requests[n] = c

\* Variant: the answer is withdrawn, the request stays.
WithdrawKeeps(c) ==
  /\ call[c].pc = "expired"
  /\ call' = [call EXCEPT ![c] = IF Queued(c) THEN [@ EXCEPT !.pc = "answered", !.reply = "withdrawn"]
                                 ELSE [@ EXCEPT !.pc = "waiting"]]
  /\ UNCHANGED <<window, tasks, events, ui_requests, batch, ui_closing, api, ran, posts>>

\* A request that is still queued is taken back; one that is not is running, and its
\* answer is waited for.
Withdraw(c) ==
  /\ call[c].pc = "expired"
  /\ \/ \E n \in DOMAIN ui_requests :
          /\ ui_requests[n] = c /\ ui_requests' = RemoveAt(ui_requests, n)
          /\ call' = [call EXCEPT ![c].pc = "answered", ![c].reply = "withdrawn"]
     \/ /\ ~Queued(c) /\ UNCHANGED ui_requests
        /\ call' = [call EXCEPT ![c].pc = "taken"]
  /\ UNCHANGED <<window, tasks, events, batch, ui_closing, api, ran, posts>>

\* The route sends the answer to its client.
GiveAnswer(c) ==
  /\ call[c].pc = "answered" \/ (call[c].pc \in {"waiting", "taken"} /\ call[c].reply # "none")
  /\ call' = [call EXCEPT ![c] = Resting] /\ ran' = ran \ {c}
  /\ UNCHANGED <<window, tasks, events, ui_requests, batch, ui_closing, api, posts>>

-----------------------------------------------------------------------------
(* run_ui_request()                                                        *)

busy == refreshing # "none"

\* Both need an idle engine and a device list that is not being prepared.
Granted == phase = "idle" /\ ~busy

\* retry() and connect().
Carry(kind) ==
  IF kind = "refresh" THEN refreshing' = "running" /\ UNCHANGED phase
  ELSE phase' = "connecting" /\ UNCHANGED refreshing

TakeBatch ==
  /\ loop = "polling" /\ loop' = "answering"
  /\ batch' = ui_requests /\ ui_requests' = <<>>
  /\ UNCHANGED <<event, bumped, pending_frames, minimised, swallowed, should_close, tasks, events>>
  /\ UNCHANGED <<ui_closing, api, call, ran, posts>>

RunOne ==
  /\ loop = "answering" /\ batch # <<>>
  /\ LET c == Head(batch)
     IN /\ call' = [call EXCEPT ![c].reply = IF Granted THEN "done" ELSE "refused"]
        /\ ran' = IF Granted THEN ran \union {c} ELSE ran
        /\ IF Granted THEN Carry(call[c].kind) ELSE UNCHANGED tasks
  /\ batch' = Tail(batch)
  /\ UNCHANGED <<window, events, ui_requests, ui_closing, api, posts>>

-----------------------------------------------------------------------------
(* main()'s loop                                                           *)

animating == busy \/ phase = "connecting"

\* glfwPollEvents() and the waits take every event there is.
Enter ==
  /\ loop = "top" /\ ~should_close
  /\ IF pending_frames > 0
     THEN loop' = "awake" /\ event' = FALSE /\ pending_frames' = pending_frames - 1
     ELSE /\ loop' = IF animating THEN "ticking" ELSE "asleep"
          /\ UNCHANGED <<event, pending_frames>>
  /\ UNCHANGED <<bumped, minimised, swallowed, should_close, requests, tasks, events>>

\* glfwWaitEvents() needs an event; glfwWaitEventsTimeout() ends without one, too.
WaitEnds ==
  /\ loop = "ticking" \/ (loop = "asleep" /\ event)
  /\ loop' = "awake" /\ event' = FALSE
  /\ UNCHANGED <<bumped, pending_frames, minimised, swallowed, should_close, requests, tasks, events>>

\* The activity is compared before poll(), minimised or not.
Activity ==
  /\ loop = "awake" /\ loop' = "polling"
  /\ bumped' = FALSE /\ pending_frames' = IF bumped THEN 2 ELSE pending_frames
  /\ swallowed' = FALSE
  /\ UNCHANGED <<event, minimised, should_close, requests, tasks, events>>

\* The rest of poll(): the tasks that are ready.
PollEnds ==
  /\ loop = "answering" /\ batch = <<>>
  /\ refreshing' = IF refreshing = "ready" THEN "none" ELSE refreshing
  /\ loop' = IF minimised THEN "dozing" ELSE "drawing"
  /\ UNCHANGED <<event, bumped, pending_frames, minimised, swallowed, should_close, requests, phase, events>>

\* glfwWaitEventsTimeout(0.25) of a minimised window.
DozeEnds ==
  /\ loop = "dozing" /\ loop' = "top" /\ event' = FALSE /\ swallowed' = event
  /\ UNCHANGED <<bumped, pending_frames, minimised, should_close, requests, tasks, events>>

\* The frame cap is waited out handling events.
FrameCap ==
  /\ loop = "drawing" /\ event /\ event' = FALSE /\ swallowed' = TRUE
  /\ UNCHANGED <<loop, bumped, pending_frames, minimised, should_close, requests, tasks, events>>

\* A frame is drawn; the user may turn the API on or off in it.  stop() joins the
\* API's threads from here.
Draw ==
  /\ loop = "drawing"
  /\ \/ loop' = "top" /\ UNCHANGED <<api, events>>
     \/ /\ events < MaxEvents /\ events' = events + 1
        /\ \/ api = "off" /\ api' = "on" /\ loop' = "top"
           \/ api = "on" /\ api' = "stopping" /\ loop' = "joining"
  /\ UNCHANGED <<event, bumped, pending_frames, minimised, swallowed, should_close, tasks>>
  /\ UNCHANGED <<ui_requests, batch, ui_closing, call, ran, posts>>

Joined ==
  /\ loop \in {"joining", "closing"} /\ \A c \in Threads : call[c].pc = "idle"
  /\ api' = "off" /\ loop' = IF loop = "joining" THEN "top" ELSE "closed"
  /\ UNCHANGED <<event, bumped, pending_frames, minimised, swallowed, should_close, tasks, events>>
  /\ UNCHANGED <<ui_requests, batch, ui_closing, call, ran, posts>>

\* Variant: the requests that are queued are forgotten.
LeaveUnanswered ==
  /\ loop = "top" /\ should_close /\ loop' = "closing"
  /\ ui_closing' = TRUE /\ ui_requests' = <<>>
  /\ api' = IF api = "on" THEN "stopping" ELSE api
  /\ UNCHANGED <<event, bumped, pending_frames, minimised, swallowed, should_close, tasks, events, batch>>
  /\ UNCHANGED <<call, ran, posts>>

\* ~App(): nothing answers any more, so what is queued is answered here.
Leave ==
  /\ loop = "top" /\ should_close /\ loop' = "closing"
  /\ ui_closing' = TRUE /\ ui_requests' = <<>>
  /\ call' = [c \in Threads |-> IF Queued(c) THEN [call[c] EXCEPT !.reply = "closing"] ELSE call[c]]
  /\ api' = IF api = "on" THEN "stopping" ELSE api
  /\ UNCHANGED <<event, bumped, pending_frames, minimised, swallowed, should_close, tasks, events, batch>>
  /\ UNCHANGED <<ran, posts>>

-----------------------------------------------------------------------------
(* The user, the tasks and the engine                                      *)

\* Something on the window: its callback bumps the activity, where it has one.
Touch ==
  /\ events < MaxEvents /\ events' = events + 1 /\ loop \notin {"closing", "closed"}
  /\ event' = TRUE
  /\ \/ bumped' = TRUE /\ UNCHANGED <<minimised, swallowed, should_close>>
     \/ /\ bumped' \in {bumped, TRUE} /\ minimised' = ~minimised
        /\ UNCHANGED should_close
     \/ should_close' = TRUE /\ UNCHANGED <<bumped, minimised>>
  /\ UNCHANGED <<loop, pending_frames, swallowed, requests, tasks>>

\* The task wakes the window before its result is there.
RefreshWakes ==
  /\ refreshing = "running" /\ refreshing' = "woken"
  /\ Wake
  /\ UNCHANGED <<loop, pending_frames, minimised, swallowed, should_close, requests, phase, events>>

RefreshReturns ==
  /\ refreshing = "woken" /\ refreshing' = "ready"
  /\ UNCHANGED <<window, requests, phase, events>>

EngineAnswers ==
  /\ phase = "connecting" /\ phase' \in {"idle", "connected"}
  /\ Wake
  /\ UNCHANGED <<loop, pending_frames, minimised, swallowed, should_close, requests, refreshing, events>>

Calling ==
  \E c \in Threads :
    \/ \E kind \in Kinds : Post(c, kind)
    \/ WakeUp(c) \/ TimeOut(c) \/ Withdraw(c) \/ GiveAnswer(c)

Looping ==
  \/ Enter \/ WaitEnds \/ Activity \/ TakeBatch \/ RunOne \/ PollEnds \/ DozeEnds
  \/ FrameCap \/ Draw \/ Joined \/ Leave

DeskNext ==
  \/ Calling \/ Looping
  \/ Touch \/ RefreshWakes \/ RefreshReturns \/ EngineAnswers

DeskSpec == DeskInit /\ [][DeskNext]_deskVars

\* The thread runs, and a caller does not wait for ever.
CallerGoesOn(c) == WakeUp(c) \/ TimeOut(c) \/ Withdraw(c) \/ GiveAnswer(c)

-----------------------------------------------------------------------------

\* The thread does not sleep over a request: while the loop is blocked without an
\* event, no caller that has woken it waits in the queue, and no finished task waits
\* to be taken.  Except where another wait, for the frame cap or of a minimised window,
\* took the event: the activity is compared only after the next wait, so the request
\* waits for the next event, or its timeout.
NoSleepOverWork ==
  loop = "asleep" /\ ~event /\ ~swallowed
    => /\ \A c \in Threads : Queued(c) => call[c].pc = "waking"
       /\ refreshing = "none"

\* A caller that is told "nothing was done" is right: its request has not run and is
\* not anywhere it could still run from; one told it was done is right, too, and a
\* request that runs answers its caller.  A timeout may fall between the request
\* being taken and its answer.  And the timeout is for a busy window: the thread
\* never sleeps over a request.
DoneOrWithdrawn ==
  /\ \A c \in Threads :
       /\ call[c].reply \in {"withdrawn", "refused", "closing"} => c \notin ran
       /\ call[c].reply \in {"withdrawn", "closing"} => ~Queued(c)
                                           /\ \A n \in DOMAIN batch : batch[n] # c
       /\ call[c].reply = "done" => c \in ran
       /\ call[c].pc = "taken" => call[c].reply # "none" \/ \E n \in DOMAIN batch : batch[n] = c
  /\ NoSleepOverWork

\* Every request is answered: in time, with the timeout, or by the closing of the
\* window; so turning the API off and closing the window, which wait for its threads,
\* end.
CallsAreAnswered ==
  /\ \A c \in Threads : call[c].pc # "idle" ~> call[c].pc = "idle"
  /\ loop \in {"joining", "closing"} ~> loop \notin {"joining", "closing"}
=============================================================================
