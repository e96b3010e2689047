-------------------------- MODULE ServerAppProofs ---------------------------
(***************************************************************************)
(* The server program uses the dispatcher as module Dispatcher says anyone *)
(* may, so everything proved about the dispatcher holds in it; and its own *)
(* registrations are there exactly between initialize and shutdown.        *)
(***************************************************************************)
EXTENDS ServerApp, DispatcherRefinement

RequestHeard == on_registerserver_request \in Listened(SS_REGISTER_REQUEST)
ReturnHeard  == on_registerserver_return \in Listened(SS_REGISTER_RETURN)

(* serverapp is to be registered. *)
On == stage # "created" /\ ~m_shutdown /\ ~cleared

(* What initialize and shutdown have still to do, and what they have done. *)
Nothing   == todo = <<>> /\ (RequestHeard <=> On) /\ (ReturnHeard <=> On)
Listen1   == /\ todo = InitializeCalls /\ stage = "starting" /\ ~m_shutdown /\ ~cleared
             /\ ~RequestHeard /\ ~ReturnHeard
Listen2   == /\ todo = <<InitializeCalls[2]>> /\ stage = "starting" /\ ~m_shutdown /\ ~cleared
             /\ RequestHeard /\ ~ReturnHeard
Unlisten1 == todo = ShutdownCalls /\ (RequestHeard <=> On) /\ (ReturnHeard <=> On)
Unlisten2 == todo = <<ShutdownCalls[2], SetShutdown>> /\ ~RequestHeard /\ (ReturnHeard <=> On)
Set3      == todo = <<SetShutdown>> /\ ~RequestHeard /\ ~ReturnHeard

(***************************************************************************)
(* The inductive invariant: AppListens says nothing while a call is in     *)
(* progress, so the progress of the call is part of it.                    *)
(***************************************************************************)
AppShape ==
    /\ stage \in {"created", "starting", "running", "leaving", "exited", "aborted"}
    /\ m_shutdown \in BOOLEAN
    /\ cleared \in BOOLEAN
    /\ stage = "created" => todo = <<>> /\ ~m_shutdown
    /\ todo # <<>> => stage \notin {"exited", "aborted"}
    /\ Nothing \/ Listen1 \/ Listen2 \/ Unlisten1 \/ Unlisten2 \/ Set3

AppIInv == IInv /\ AppShape

-----------------------------------------------------------------------------
LEMMA Names ==
    /\ SS_REGISTER_REQUEST \in Ids /\ SS_REGISTER_RETURN \in Ids
    /\ SS_REGISTER_REQUEST # SS_REGISTER_RETURN
    /\ on_registerserver_request \in Listeners /\ on_registerserver_return \in Listeners
    /\ on_registerserver_request \notin Others /\ on_registerserver_return \notin Others
    /\ Others \subseteq Listeners
BY ServerAppAssumption DEF Others

LEMMA Calls ==
    /\ InitializeCalls # <<>> /\ ShutdownCalls # <<>>
    /\ Head(InitializeCalls) = Do("listen", SS_REGISTER_REQUEST, on_registerserver_request)
    /\ Tail(InitializeCalls) = <<InitializeCalls[2]>>
    /\ InitializeCalls[2] = Do("listen", SS_REGISTER_RETURN, on_registerserver_return)
    /\ Head(ShutdownCalls) = Do("unlisten", SS_REGISTER_REQUEST, on_registerserver_request)
    /\ Tail(ShutdownCalls) = <<ShutdownCalls[2], SetShutdown>>
    /\ ShutdownCalls[2] = Do("unlisten", SS_REGISTER_RETURN, on_registerserver_return)
    /\ \A x, y : /\ <<x>> # <<>> /\ Head(<<x>>) = x /\ Tail(<<x>>) = <<>>
                 /\ <<x, y>> # <<>> /\ Head(<<x, y>>) = x /\ Tail(<<x, y>>) = <<y>>
BY DEF InitializeCalls, ShutdownCalls

(* The next call of initialize or shutdown in progress. *)
LEMMA NextCall ==
    ASSUME AppShape, todo # <<>>
    PROVE  \/ /\ Listen1
              /\ Head(todo) = Do("listen", SS_REGISTER_REQUEST, on_registerserver_request)
              /\ Tail(todo) = <<InitializeCalls[2]>>
           \/ /\ Listen2
              /\ Head(todo) = Do("listen", SS_REGISTER_RETURN, on_registerserver_return)
              /\ Tail(todo) = <<>>
           \/ /\ Unlisten1
              /\ Head(todo) = Do("unlisten", SS_REGISTER_REQUEST, on_registerserver_request)
              /\ Tail(todo) = <<ShutdownCalls[2], SetShutdown>>
           \/ /\ Unlisten2
              /\ Head(todo) = Do("unlisten", SS_REGISTER_RETURN, on_registerserver_return)
              /\ Tail(todo) = <<SetShutdown>>
           \/ /\ Set3
              /\ Head(todo) = SetShutdown
              /\ Tail(todo) = <<>>
<1>1. CASE Listen1
    BY <1>1, Calls DEF Listen1
<1>2. CASE Listen2
    BY <1>2, Calls DEF Listen2
<1>3. CASE Unlisten1
    BY <1>3, Calls DEF Unlisten1
<1>4. CASE Unlisten2
    BY <1>4, Calls DEF Unlisten2
<1>5. CASE Set3
    BY <1>5, Calls DEF Set3
<1> QED BY <1>1, <1>2, <1>3, <1>4, <1>5 DEF AppShape, Nothing

(* One call of initialize or shutdown, as the dispatcher sees it. *)
LEMMA CallNextCases ==
    ASSUME CallNext, NEW op, NEW id, NEW l, Head(todo) = Do(op, id, l)
    PROVE  /\ todo' = Tail(todo) /\ stage' = stage /\ cleared' = cleared
           /\ \/ op = "listen" /\ Listen(id, l) /\ m_shutdown' = m_shutdown
              \/ op = "unlisten" /\ Unlisten(id, l) /\ m_shutdown' = m_shutdown
              \/ /\ op = "unlisten" /\ ~HasEqual(id, [m_id |-> id, l |-> l])
                 /\ UNCHANGED vars /\ m_shutdown' = m_shutdown
              \/ op = "set" /\ m_shutdown' = TRUE /\ UNCHANGED vars
<1>1. Head(todo).op = op /\ Head(todo).id = id /\ Head(todo).l = l
    BY DEF Do
<1> QED BY <1>1 DEF CallNext

(***************************************************************************)
(* The program calls the dispatcher only as anyone may.                    *)
(***************************************************************************)
LEMMA AppStep ==
    ASSUME AppShape, [AppNext]_appVars
    PROVE  [Next]_vars
<1>1. CASE initialize \/ Started \/ shutdown \/ RunEnds \/ Exit \/ UNCHANGED appVars
    BY <1>1 DEF initialize, Started, shutdown, RunEnds, Exit, appVars, vars
<1>2. CASE CallNext
    <2>1. todo # <<>>
        BY <1>2 DEF CallNext
    <2>2. PICK op \in {"listen", "unlisten", "set"}, id \in Ids, l \in Listeners : Head(todo) = Do(op, id, l)
        BY <2>1, NextCall, Names DEF SetShutdown
    <2>3. Listen(id, l) \/ Unlisten(id, l) \/ UNCHANGED vars
        BY <1>2, <2>2, CallNextCases, Zenon
    <2> QED BY <2>3 DEF Next
<1>3. CASE \E id \in Ids : Receive(id)
    BY <1>3 DEF Receive, Next
<1>4. CASE OthersCall
    BY <1>4, Names DEF OthersCall, Next
<1>5. CASE OthersClear
    BY <1>5 DEF OthersClear, Next
<1> QED BY <1>1, <1>2, <1>3, <1>4, <1>5 DEF AppNext

(* A step that changes no list leaves the registrations alone. *)
LEMMA SameLists ==
    ASSUME m_receivers' = m_receivers
    PROVE  \A id : Listened(id)' = Listened(id)
BY DEF Listened

LEMMA NotHeard ==
    ASSUME IInv, NEW id \in Ids, NEW l, ~HasEqual(id, [m_id |-> id, l |-> l])
    PROVE  l \notin Listened(id)
<1>1. \A i \in 1 .. Len(m_receivers[id]) : m_receivers[id][i].m_id = id
    BY DEF IInv, NoReceiverLeak
<1> QED BY <1>1 DEF HasEqual, equals, Listened

(* An unlisten of initialize or shutdown, whether it finds the listener or not. *)
LEMMA Unheard ==
    ASSUME IInv, NEW id \in Ids, NEW l \in Listeners,
           Unlisten(id, l) \/ (~HasEqual(id, [m_id |-> id, l |-> l]) /\ UNCHANGED vars)
    PROVE  \A d \in Ids : Listened(d)' = IF d = id THEN Listened(d) \ {l} ELSE Listened(d)
<1>1. CASE Unlisten(id, l)
    BY <1>1, UnlistenUnregisters
<1>2. CASE ~HasEqual(id, [m_id |-> id, l |-> l]) /\ UNCHANGED vars
    BY <1>2, NotHeard, SameLists DEF vars
<1> QED BY <1>1, <1>2

LEMMA InitShape == AppInit => AppShape
<1> SUFFICES ASSUME AppInit PROVE AppShape
    OBVIOUS
<1>1. /\ m_receivers = [id \in Ids |-> <<>>] /\ stage = "created" /\ todo = <<>>
      /\ m_shutdown = FALSE /\ cleared = FALSE
    BY DEF AppInit, Init
<1>2. \A id \in Ids : Listened(id) = {}
    BY <1>1 DEF Listened
<1>3. ~RequestHeard /\ ~ReturnHeard /\ ~On
    BY <1>1, <1>2, Names DEF RequestHeard, ReturnHeard, On
<1> QED BY <1>1, <1>3, Zenon DEF AppShape, Nothing

LEMMA CallNextShape ==
    ASSUME IInv, AppShape, CallNext
    PROVE  AppShape'
<1>1. todo # <<>> /\ todo' = Tail(todo) /\ stage' = stage /\ cleared' = cleared
    BY DEF CallNext
<1>0. ASSUME NEW op, NEW id, NEW l, Head(todo) = Do(op, id, l)
      PROVE  /\ op = "listen" => Listen(id, l) /\ m_shutdown' = m_shutdown
             /\ op = "unlisten" =>
                   /\ Unlisten(id, l) \/ (~HasEqual(id, [m_id |-> id, l |-> l]) /\ UNCHANGED vars)
                   /\ m_shutdown' = m_shutdown
             /\ op = "set" => m_shutdown' = TRUE /\ UNCHANGED vars
    BY <1>0, CallNextCases, Zenon
<1>2. \A x, y : <<x>> # <<>> /\ <<x, y>> # <<>>
    BY Calls
<1> DEFINE rq == SS_REGISTER_REQUEST
           rt == SS_REGISTER_RETURN
           frq == on_registerserver_request
           frt == on_registerserver_return
<1>3. CASE /\ Listen1
           /\ Head(todo) = Do("listen", rq, frq)
           /\ Tail(todo) = <<InitializeCalls[2]>>
    <2>1. Listen(rq, frq) /\ m_shutdown' = m_shutdown
        BY <1>3, <1>0, Zenon
    <2>2. \A d \in Ids : Listened(d)' = IF d = rq THEN Listened(d) \cup {frq} ELSE Listened(d)
        BY <2>1, Names, ListenRegisters
    <2>3. RequestHeard' /\ (ReturnHeard' <=> ReturnHeard)
        BY <2>2, Names DEF RequestHeard, ReturnHeard
    <2>4. Listen2'
        BY <1>1, <1>3, <2>1, <2>3 DEF Listen1, Listen2
    <2> QED BY <1>1, <1>2, <1>3, <2>1, <2>4 DEF AppShape, Listen1
<1>4. CASE /\ Listen2
           /\ Head(todo) = Do("listen", rt, frt)
           /\ Tail(todo) = <<>>
    <2>1. Listen(rt, frt) /\ m_shutdown' = m_shutdown
        BY <1>4, <1>0, Zenon
    <2>2. \A d \in Ids : Listened(d)' = IF d = rt THEN Listened(d) \cup {frt} ELSE Listened(d)
        BY <2>1, Names, ListenRegisters
    <2>3. (RequestHeard' <=> RequestHeard) /\ ReturnHeard'
        BY <2>2, Names DEF RequestHeard, ReturnHeard
    <2>4. Nothing'
        BY <1>1, <1>4, <2>1, <2>3 DEF Listen2, Nothing, On
    <2> QED BY <1>1, <1>2, <1>4, <2>1, <2>4 DEF AppShape, Listen2
<1>5. CASE /\ Unlisten1
           /\ Head(todo) = Do("unlisten", rq, frq)
           /\ Tail(todo) = <<ShutdownCalls[2], SetShutdown>>
    <2>1. /\ Unlisten(rq, frq) \/ (~HasEqual(rq, [m_id |-> rq, l |-> frq]) /\ UNCHANGED vars)
          /\ m_shutdown' = m_shutdown
        BY <1>5, <1>0, Zenon
    <2>2. \A d \in Ids : Listened(d)' = IF d = rq THEN Listened(d) \ {frq} ELSE Listened(d)
        BY <2>1, Names, Unheard
    <2>3. ~RequestHeard' /\ (ReturnHeard' <=> ReturnHeard)
        BY <2>2, Names DEF RequestHeard, ReturnHeard
    <2>4. Unlisten2'
        BY <1>1, <1>5, <2>1, <2>3 DEF Unlisten1, Unlisten2, On
    <2> QED BY <1>1, <1>2, <1>5, <2>1, <2>4 DEF AppShape
<1>6. CASE /\ Unlisten2
           /\ Head(todo) = Do("unlisten", rt, frt)
           /\ Tail(todo) = <<SetShutdown>>
    <2>1. /\ Unlisten(rt, frt) \/ (~HasEqual(rt, [m_id |-> rt, l |-> frt]) /\ UNCHANGED vars)
          /\ m_shutdown' = m_shutdown
        BY <1>6, <1>0, Zenon
    <2>2. \A d \in Ids : Listened(d)' = IF d = rt THEN Listened(d) \ {frt} ELSE Listened(d)
        BY <2>1, Names, Unheard
    <2>3. (RequestHeard' <=> RequestHeard) /\ ~ReturnHeard'
        BY <2>2, Names DEF RequestHeard, ReturnHeard
    <2>4. Set3'
        BY <1>1, <1>6, <2>1, <2>3 DEF Unlisten2, Set3
    <2> QED BY <1>1, <1>2, <1>6, <2>1, <2>4 DEF AppShape
<1>7. CASE /\ Set3
           /\ Head(todo) = SetShutdown
           /\ Tail(todo) = <<>>
    <2>1. m_shutdown' = TRUE /\ UNCHANGED vars
        BY <1>7, <1>0, Zenon DEF SetShutdown
    <2>2. (RequestHeard' <=> RequestHeard) /\ (ReturnHeard' <=> ReturnHeard)
        BY <2>1, SameLists DEF vars, RequestHeard, ReturnHeard
    <2>3. Nothing'
        BY <1>1, <1>7, <2>1, <2>2 DEF Set3, Nothing, On
    <2> QED BY <1>1, <1>2, <1>7, <2>1, <2>3 DEF AppShape
<1> QED BY <1>1, <1>3, <1>4, <1>5, <1>6, <1>7, NextCall

(* Nobody else touches the registrations of serverapp, except with clear(). *)
LEMMA OthersShape ==
    ASSUME IInv, AppShape,
           OthersCall \/ (\E id \in Ids : Receive(id)) \/ OthersClear \/ UNCHANGED appVars
    PROVE  AppShape'
<1>1. CASE OthersClear
    <2>1. /\ m_receivers' = [id \in Ids |-> <<>>] /\ todo = <<>>
          /\ todo' = todo /\ stage' = stage /\ m_shutdown' = m_shutdown /\ cleared' = TRUE
        BY <1>1 DEF OthersClear, Clear, AppRuns
    <2>2. \A id \in Ids : Listened(id)' = {}
        BY <2>1 DEF Listened
    <2>3. ~RequestHeard' /\ ~ReturnHeard' /\ ~On'
        BY <2>1, <2>2, Names DEF RequestHeard, ReturnHeard, On
    <2> QED BY <2>1, <2>3 DEF AppShape, Nothing
<1>2. ASSUME todo' = todo, stage' = stage, m_shutdown' = m_shutdown, cleared' = cleared,
             RequestHeard' <=> RequestHeard, ReturnHeard' <=> ReturnHeard
      PROVE  AppShape'
    <2>1. On' <=> On
        BY <1>2 DEF On
    <2>2. /\ (Nothing' <=> Nothing) /\ (Listen1' <=> Listen1) /\ (Listen2' <=> Listen2)
          /\ (Unlisten1' <=> Unlisten1) /\ (Unlisten2' <=> Unlisten2) /\ (Set3' <=> Set3)
        BY <1>2, <2>1 DEF Nothing, Listen1, Listen2, Unlisten1, Unlisten2, Set3
    <2> QED BY <1>2, <2>2 DEF AppShape
<1>3. ASSUME m_receivers' = m_receivers
      PROVE  (RequestHeard' <=> RequestHeard) /\ (ReturnHeard' <=> ReturnHeard)
    BY <1>3, SameLists DEF RequestHeard, ReturnHeard
<1>4. CASE UNCHANGED appVars
    BY <1>2, <1>3, <1>4 DEF appVars
<1>5. CASE \E id \in Ids : Receive(id)
    <2>1. /\ m_receivers' = m_receivers
          /\ todo' = todo /\ stage' = stage /\ m_shutdown' = m_shutdown /\ cleared' = cleared
        BY <1>5 DEF Receive, Dispatch
    <2> QED BY <1>2, <1>3, <2>1
<1>6. CASE OthersCall
    <2>1. todo' = todo /\ stage' = stage /\ m_shutdown' = m_shutdown /\ cleared' = cleared
        BY <1>6 DEF OthersCall
    <2>2. CASE Return \/ ReturnErased
        BY <1>2, <1>3, <2>1, <2>2 DEF Return, ReturnErased
    <2>3. ASSUME NEW id \in Ids, NEW l \in Others, Listen(id, l) PROVE AppShape'
        <3>1. \A d \in Ids : Listened(d)' = IF d = id THEN Listened(d) \cup {l} ELSE Listened(d)
            BY <2>3, Names, ListenRegisters
        <3> QED BY <1>2, <2>1, <3>1, Names DEF RequestHeard, ReturnHeard
    <2>4. ASSUME NEW id \in Ids, NEW l \in Others, Unlisten(id, l) PROVE AppShape'
        <3>1. \A d \in Ids : Listened(d)' = IF d = id THEN Listened(d) \ {l} ELSE Listened(d)
            BY <2>4, Names, UnlistenUnregisters
        <3> QED BY <1>2, <2>1, <3>1, Names DEF RequestHeard, ReturnHeard
    <2> QED BY <1>6, <2>2, <2>3, <2>4 DEF OthersCall
<1> QED BY <1>1, <1>4, <1>5, <1>6

(* gmain and the start and the end of initialize, run and shutdown. *)
LEMMA StageShape ==
    ASSUME AppShape, initialize \/ Started \/ shutdown \/ RunEnds \/ Exit
    PROVE  AppShape'
<1>1. todo = <<>> /\ Nothing /\ stage \notin {"exited", "aborted"} /\ m_receivers' = m_receivers
    BY Calls DEF AppShape, initialize, Started, shutdown, RunEnds, Exit, AppRuns, vars,
        Listen1, Listen2, Unlisten1, Unlisten2, Set3
<1>2. (RequestHeard' <=> RequestHeard) /\ (ReturnHeard' <=> ReturnHeard)
    BY <1>1, SameLists DEF RequestHeard, ReturnHeard
<1>3. CASE initialize
    <2>1. /\ stage = "created" /\ stage' = "starting" /\ todo' = InitializeCalls
          /\ cleared' = FALSE /\ m_shutdown' = m_shutdown /\ ~m_shutdown
        BY <1>3 DEF initialize, AppShape
    <2>2. Listen1'
        BY <1>1, <1>2, <2>1 DEF Nothing, On, Listen1
    <2> QED BY <2>1, <2>2, Zenon DEF AppShape
<1>4. CASE Started \/ Exit
    <2>1. /\ stage \in {"starting", "leaving"} /\ stage' \in {"running", "aborted", "exited"}
          /\ UNCHANGED <<todo, m_shutdown, cleared>>
        BY <1>4 DEF Started, Exit
    <2>2. Nothing'
        BY <1>1, <1>2, <2>1 DEF Nothing, On
    <2> QED BY <1>1, <2>1, <2>2 DEF AppShape
<1>5. CASE shutdown \/ RunEnds
    <2>1. /\ stage = "running" /\ stage' \in {"running", "leaving"} /\ todo' = ShutdownCalls
          /\ UNCHANGED <<m_shutdown, cleared>>
        BY <1>5 DEF shutdown, RunEnds
    <2>2. Unlisten1'
        BY <1>1, <1>2, <2>1 DEF Nothing, On, Unlisten1
    <2> QED BY <1>1, <2>1, <2>2 DEF AppShape
<1> QED BY <1>3, <1>4, <1>5

LEMMA AppInvariance == AppSpec => []AppIInv
<1>1. AppInit => AppIInv
    BY InitShape, InitIInv DEF AppInit, AppIInv
<1>2. AppIInv /\ [AppNext]_appVars => AppIInv'
    <2> SUFFICES ASSUME AppIInv, [AppNext]_appVars PROVE AppIInv'
        OBVIOUS
    <2>1. IInv /\ AppShape
        BY DEF AppIInv
    <2>2. IInv'
        BY <2>1, AppStep, NextIInv
    <2>3. AppShape'
        BY <2>1, CallNextShape, OthersShape, StageShape DEF AppNext
    <2> QED BY <2>2, <2>3 DEF AppIInv
<1> QED BY <1>1, <1>2, PTL DEF AppSpec

-----------------------------------------------------------------------------
(***************************************************************************)
(* The server program, with initialize, shutdown, the packets it receives  *)
(* and the other users of networkinterface, uses the dispatcher only as    *)
(* module Dispatcher allows, from its initial state on.                    *)
(***************************************************************************)
THEOREM AppUsesDispatcher == AppSpec => Spec
<1>1. AppInit => Init
    BY DEF AppInit
<1>2. AppIInv /\ [AppNext]_appVars => [Next]_vars
    BY AppStep DEF AppIInv
<1> QED BY <1>1, <1>2, AppInvariance, PTL DEF AppSpec, Spec

(* The calls that initialize and shutdown have still to make are proper ones, and so is *)
(* all other state of the program.                                                      *)
THEOREM AppTypeCorrect == AppSpec => []AppTypeOK
<1>1. AppIInv => AppTypeOK
    <2> SUFFICES ASSUME AppIInv PROVE AppTypeOK
        OBVIOUS
    <2> DEFINE C == [op : {"listen", "unlisten", "set"}, id : Ids, l : Listeners]
    <2>1. \A op \in {"listen", "unlisten", "set"}, id \in Ids, l \in Listeners : Do(op, id, l) \in C
        BY DEF Do
    <2>2. SetShutdown \in C /\ InitializeCalls[2] \in C /\ ShutdownCalls[2] \in C
        BY <2>1, Names, Calls DEF SetShutdown
    <2>3. Head(InitializeCalls) \in C /\ Head(ShutdownCalls) \in C
        BY <2>1, Names, Calls
    <2>4. /\ InitializeCalls = <<Head(InitializeCalls), InitializeCalls[2]>>
          /\ ShutdownCalls = <<Head(ShutdownCalls), ShutdownCalls[2], SetShutdown>>
        BY DEF InitializeCalls, ShutdownCalls
    <2> HIDE DEF C
    <2>5. \A x, y, z \in C : <<x>> \in Seq(C) /\ <<x, y>> \in Seq(C) /\ <<x, y, z>> \in Seq(C)
        OBVIOUS
    <2>6. <<>> \in Seq(C)
        OBVIOUS
    <2>7. InitializeCalls \in Seq(C) /\ ShutdownCalls \in Seq(C)
        BY <2>2, <2>3, <2>4, <2>5, Zenon
    <2>8. <<InitializeCalls[2]>> \in Seq(C) /\ <<ShutdownCalls[2], SetShutdown>> \in Seq(C)
          /\ <<SetShutdown>> \in Seq(C)
        BY <2>2, <2>5, Zenon
    <2>9. todo \in Seq(C)
        BY <2>6, <2>7, <2>8, Zenon DEF AppIInv, AppShape, Nothing, Listen1, Listen2, Unlisten1,
            Unlisten2, Set3
    <2> QED BY <2>9 DEF AppTypeOK, AppIInv, AppShape, IInv, C
<1> QED BY <1>1, AppInvariance, PTL

(***************************************************************************)
(* serverapp is registered exactly from initialize to shutdown, unless     *)
(* someone clears the dispatcher: for any ids and any other listeners,     *)
(* shutdown from any callback at any depth of dispatching, any number of   *)
(* times.                                                                  *)
(***************************************************************************)
THEOREM AppListensWhileOn == AppSpec => []AppListens
<1>1. AppIInv => AppListens
    <2> SUFFICES ASSUME AppIInv, todo = <<>>, NEW p \in Own
                 PROVE  p[2] \in Listened(p[1]) <=> stage # "created" /\ ~m_shutdown /\ ~cleared
        BY DEF AppListens
    <2>1. Nothing
        BY Calls DEF AppIInv, AppShape, Listen1, Listen2, Unlisten1, Unlisten2, Set3
    <2>2. \/ p = <<SS_REGISTER_REQUEST, on_registerserver_request>>
          \/ p = <<SS_REGISTER_RETURN, on_registerserver_return>>
        BY DEF Own
    <2> QED BY <2>1, <2>2 DEF Nothing, On, RequestHeard, ReturnHeard
<1> QED BY <1>1, AppInvariance, PTL

(***************************************************************************)
(* Also in the running program, with shutdown inside dispatches, a         *)
(* dispatch invokes nobody twice and misses nobody.                        *)
(***************************************************************************)
THEOREM AppDispatchesOnce == AppSpec => ExactlyOnce
BY AppUsesDispatcher, DispatchOnce

(* And the dispatcher in it is an event bus. *)
THEOREM AppHasEventBus == AppSpec => ImplementsEventBus
BY AppUsesDispatcher, DispatcherIsEventBus

=============================================================================
