----------------------------- MODULE ServerApp ------------------------------
(***************************************************************************)
(* A server program: gmain, uv_service's start and end, serverapp, and     *)
(* networkinterface's dispatcher (module Dispatcher) between them.         *)
(*                                                                         *)
(* serverapp listens to the messages of server registration when it is     *)
(* initialised and stops when it is shut down; a packet that arrives is    *)
(* dispatched on its id; listeners call the dispatcher, and may shut the   *)
(* service down, from within a dispatch.  The dispatcher is static: it     *)
(* outlives the application, which is a local variable of gmain.           *)
(***************************************************************************)
EXTENDS Dispatcher

CONSTANTS
    SS_REGISTER_REQUEST, SS_REGISTER_RETURN,               \* ids
    on_registerserver_request, on_registerserver_return    \* of this serverapp

ASSUME ServerAppAssumption ==
    /\ {SS_REGISTER_REQUEST, SS_REGISTER_RETURN} \subseteq Ids
    /\ SS_REGISTER_REQUEST # SS_REGISTER_RETURN
    /\ {on_registerserver_request, on_registerserver_return} \subseteq Listeners \ NullListeners

VARIABLES
    stage,       \* "created", "starting", "running", "leaving", "exited" or "aborted"
    todo,        \* what a call of initialize or shutdown in progress has still to do
    m_shutdown,
    cleared      \* history: clear() was called since initialize

appVars == <<m_receivers, heap, loops, proc, stage, todo, m_shutdown, cleared>>

(* The registrations of serverapp; the member functions are protected, so *)
(* nobody else can listen or unlisten with them.                          *)
Own == {<<SS_REGISTER_REQUEST, on_registerserver_request>>,
        <<SS_REGISTER_RETURN, on_registerserver_return>>}

Others == Listeners \ {on_registerserver_request, on_registerserver_return}

AppInit ==
    /\ Init
    /\ stage = "created"
    /\ todo = <<>>
    /\ m_shutdown = FALSE
    /\ cleared = FALSE

Do(op, id, l) == [op |-> op, id |-> id, l |-> l]

(* What follows in uv_service::shutdown: m_shutdown = true *)
SetShutdown == Do("set", SS_REGISTER_REQUEST, on_registerserver_request)

(* serverapp::initialize *)
InitializeCalls ==
    <<Do("listen", SS_REGISTER_REQUEST, on_registerserver_request),
      Do("listen", SS_REGISTER_RETURN, on_registerserver_return)>>

(* Faulty: the function of the one message is given with the id of the other. *)
ShutdownCallsMixedUp ==
    <<Do("unlisten", SS_REGISTER_REQUEST, on_registerserver_request),
      Do("unlisten", SS_REGISTER_RETURN, on_registerserver_request),
      SetShutdown>>

(* serverapp::shutdown and the rest of uv_service::shutdown *)
ShutdownCalls ==
    <<Do("unlisten", SS_REGISTER_REQUEST, on_registerserver_request),
      Do("unlisten", SS_REGISTER_RETURN, on_registerserver_return),
      SetShutdown>>

(* The application or a listener has control, and no such call is in progress. *)
AppRuns == proc = "running" /\ todo = <<>> /\ stage \notin {"exited", "aborted"}

-----------------------------------------------------------------------------
(* gmain: service.initialize, which calls serverapp::initialize *)
initialize ==
    /\ AppRuns
    /\ stage = "created"
    /\ loops = <<>>
    /\ stage' = "starting"
    /\ todo' = InitializeCalls
    /\ cleared' = FALSE
    /\ UNCHANGED <<vars, m_shutdown>>

(* ... and the servers' initialize: a failing one ends in an ASSERT. *)
Started ==
    /\ AppRuns
    /\ stage = "starting"
    /\ stage' \in {"running", "aborted"}
    /\ UNCHANGED <<vars, todo, m_shutdown, cleared>>

(* The next call of initialize or shutdown; there is no callback in between. *)
CallNext ==
    /\ proc = "running"
    /\ todo # <<>>
    /\ LET c == Head(todo) IN
       \/ c.op = "listen" /\ Listen(c.id, c.l) /\ UNCHANGED m_shutdown
       \/ c.op = "unlisten" /\ Unlisten(c.id, c.l) /\ UNCHANGED m_shutdown
       \/ /\ c.op = "unlisten"
          /\ ~HasEqual(c.id, [m_id |-> c.id, l |-> c.l])
          /\ UNCHANGED <<vars, m_shutdown>>
       \/ c.op = "set" /\ m_shutdown' = TRUE /\ UNCHANGED vars
    /\ todo' = Tail(todo)
    /\ UNCHANGED <<stage, cleared>>

(* uv_service::shutdown, called by a listener or by an update() *)
shutdown ==
    /\ AppRuns
    /\ stage = "running"
    /\ MayCall("unlisten")
    /\ todo' = ShutdownCalls
    /\ UNCHANGED <<vars, stage, m_shutdown, cleared>>

(* Faulty: run() waits until nobody listens any more. *)
RunEndsUnheard ==
    /\ AppRuns
    /\ stage = "running"
    /\ loops = <<>>
    /\ m_shutdown
    /\ \A id \in Ids : m_receivers[id] = <<>>
    /\ stage' = "leaving"
    /\ todo' = ShutdownCalls
    /\ UNCHANGED <<vars, m_shutdown, cleared>>

(* run() sees m_shutdown after uv_run and update(); gmain shuts down once more. *)
RunEnds ==
    /\ AppRuns
    /\ stage = "running"
    /\ loops = <<>>
    /\ m_shutdown
    /\ stage' = "leaving"
    /\ todo' = ShutdownCalls
    /\ UNCHANGED <<vars, m_shutdown, cleared>>

(* gmain returns: the service and the application are destroyed. *)
Exit ==
    /\ AppRuns
    /\ stage = "leaving"
    /\ stage' = "exited"
    /\ UNCHANGED <<vars, todo, m_shutdown, cleared>>

-----------------------------------------------------------------------------
(* serverapp::on_tcpreceive: a valid packet is dispatched on its id; or a *)
(* listener dispatches.                                                   *)
Receive(id) ==
    /\ AppRuns
    /\ stage = "running"
    /\ Dispatch(id)
    /\ UNCHANGED <<stage, todo, m_shutdown, cleared>>

(* The other users of networkinterface. *)
OthersCall ==
    /\ AppRuns
    /\ \/ \E id \in Ids, l \in Others : Listen(id, l) \/ Unlisten(id, l)
       \/ Return
       \/ ReturnErased
    /\ UNCHANGED <<stage, todo, m_shutdown, cleared>>

OthersClear ==
    /\ AppRuns
    /\ Clear
    /\ cleared' = TRUE
    /\ UNCHANGED <<stage, todo, m_shutdown>>

AppNext ==
    \/ initialize \/ Started \/ CallNext \/ shutdown \/ RunEnds \/ Exit
    \/ \E id \in Ids : Receive(id)
    \/ OthersCall
    \/ OthersClear

AppSpec == AppInit /\ [][AppNext]_appVars

(***************************************************************************)
(* Callbacks return; uv_run(UV_RUN_NOWAIT) handles what has arrived and    *)
(* returns, so that m_shutdown is looked at again and again.               *)
(***************************************************************************)
Returns == AppRuns /\ (Return \/ ReturnErased) /\ UNCHANGED <<stage, todo, m_shutdown, cleared>>

FairAppSpec ==
    /\ AppSpec
    /\ WF_appVars(CallNext)
    /\ SF_appVars(Returns)
    /\ SF_appVars(RunEnds)
    /\ SF_appVars(Exit)

-----------------------------------------------------------------------------
AppTypeOK ==
    /\ TypeOK
    /\ stage \in {"created", "starting", "running", "leaving", "exited", "aborted"}
    /\ todo \in Seq([op : {"listen", "unlisten", "set"}, id : Ids, l : Listeners])
    /\ m_shutdown \in BOOLEAN
    /\ cleared \in BOOLEAN

(***************************************************************************)
(* serverapp is registered for its messages exactly from initialize to     *)
(* shutdown (unless someone clears the dispatcher), wherever shutdown is   *)
(* called from and however often: also inside a dispatch of these very     *)
(* messages, and a second time by gmain.  So the static dispatcher holds   *)
(* no receiver of the application once that is destroyed.                  *)
(***************************************************************************)
AppListens ==
    proc = "running" /\ todo = <<>> =>
        \A p \in Own :
            p[2] \in Listened(p[1]) <=> stage # "created" /\ ~m_shutdown /\ ~cleared

(* From some time on, listeners neither register anyone nor dispatch. *)
ListenersCalmDown ==
    <>[][\A id \in Ids : Len(m_receivers'[id]) <= Len(m_receivers[id])
         /\ (Len(loops') > Len(loops) => loops = <<>>)]_appVars

(***************************************************************************)
(* After shutdown the program ends (or dies of an erased node), whatever   *)
(* packets are still arriving, if listeners do not keep dispatches alive   *)
(* by registering and dispatching forever.                                 *)
(***************************************************************************)
ShutdownExits ==
    ListenersCalmDown => (m_shutdown ~> stage = "exited" \/ proc = "crashed")

=============================================================================
