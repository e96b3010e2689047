----------------------------- MODULE Dispatcher -----------------------------
(***************************************************************************)
(* The listener registry behind eventinterface and networkinterface        *)
(* (libs/server/include/dispatcher.h): one std::list of ireceiver* per     *)
(* event id, and dispatch loops that walk a list with a std::list iterator *)
(* while the callbacks they make call back into the same dispatcher.       *)
(*                                                                         *)
(* A receiver<T> is [m_id, l]: the id it was built with and the listener   *)
(* l = (type, m_object, m_receiver) that equals() compares.  The map does  *)
(* not tell an absent id from an empty list, so neither does the model.    *)
(***************************************************************************)
EXTENDS Naturals, Sequences, FiniteSets

CONSTANTS
    Ids,             \* event / message ids
    Listeners,       \* (object, member function) pairs
    NullListeners,   \* those whose m_object is nullptr
    CallbackOps,     \* the dispatcher calls that callbacks make
    MaxDepth         \* bound on nested dispatches (the C++ stack)

ASSUME DispatcherAssumption ==
    /\ NullListeners \subseteq Listeners
    /\ CallbackOps \subseteq {"listen", "unlisten", "clear", "dispatch"}
    /\ MaxDepth \in Nat

VARIABLES
    m_receivers,  \* [Ids -> Seq(Receiver)]
    heap,         \* [Ids -> Nat]: receiver objects with that m_id not yet deleted
    loops,        \* the dispatch loops in progress, innermost last
    proc          \* "running", or "crashed" after an invalid iterator was used

vars == <<m_receivers, heap, loops, proc>>

Receiver == [m_id : Ids, l : Listeners]

(***************************************************************************)
(* A dispatch loop: its id, its iterator, and (history) the listeners it   *)
(* has invoked since they were last added to the list.  The iterator is    *)
(* "ok" at position pos; "erased" once the node under it has been erased;  *)
(* "astray" if it came back to a node of the list from an erased one.      *)
(***************************************************************************)
Loop == [id : Ids, pos : Nat, iter : {"ok", "erased", "astray"}, seen : SUBSET Listeners]

Listened(id) == {m_receivers[id][i].l : i \in 1 .. Len(m_receivers[id])}

Init ==
    /\ m_receivers = [id \in Ids |-> <<>>]
    /\ heap = [id \in Ids |-> 0]
    /\ loops = <<>>
    /\ proc = "running"

Top == loops[Len(loops)]

(***************************************************************************)
(* Who may call the dispatcher: the application when no dispatch is in     *)
(* progress, otherwise the callback of the innermost one.  A receiver      *)
(* whose object is null makes no callback.                                 *)
(***************************************************************************)
MayCall(op) ==
    /\ proc = "running"
    /\ loops # <<>> =>
          /\ op \in CallbackOps
          /\ Top.iter # "erased" => m_receivers[Top.id][Top.pos].l \notin NullListeners

-----------------------------------------------------------------------------
(* Faulty: equality of receivers that compares addresses. *)
EqualsByAddress(r, other) == FALSE

(* receiver<T>::equals *)
equals(r, other) == r.l = other.l /\ r.m_id = other.m_id

HasEqual(id, rcv) ==
    \E i \in 1 .. Len(m_receivers[id]) : equals(m_receivers[id][i], rcv)

(* Faulty: the rejected receiver is not deleted. *)
ListenKeepsRejected(id, l) ==
    LET rcv == [m_id |-> id, l |-> l] IN
    /\ MayCall("listen")
    /\ m_receivers' = IF HasEqual(id, rcv) THEN m_receivers
                      ELSE [m_receivers EXCEPT ![id] = Append(@, rcv)]
    /\ heap' = [heap EXCEPT ![id] = @ + 1]
    /\ UNCHANGED <<loops, proc>>

(* Faulty: push_front, which a loop in progress never reaches. *)
ListenAtFront(id, l) ==
    LET rcv == [m_id |-> id, l |-> l] IN
    /\ MayCall("listen")
    /\ ~HasEqual(id, rcv)
    /\ m_receivers' = [m_receivers EXCEPT ![id] = <<rcv>> \o @]
    /\ heap' = [heap EXCEPT ![id] = @ + 1]
    /\ loops' = [k \in DOMAIN loops |->
                   IF loops[k].id = id THEN [loops[k] EXCEPT !.pos = @ + 1] ELSE loops[k]]
    /\ UNCHANGED proc

(* Faulty: listening again moves the node of the listener to the end of the list. *)
ListenMovesToEnd(id, l) ==
    LET rcv == [m_id |-> id, l |-> l]
        moved == Append(SelectSeq(m_receivers[id], LAMBDA r : r.l # l), rcv)
    IN
    /\ MayCall("listen")
    /\ m_receivers' = [m_receivers EXCEPT ![id] = moved]
    /\ loops' = [k \in DOMAIN loops |->
         IF loops[k].id # id \/ loops[k].iter = "erased" THEN loops[k]
         ELSE [loops[k] EXCEPT !.pos =
                 CHOOSE p \in 1 .. Len(moved) : moved[p] = m_receivers[id][@]]]
    /\ UNCHANGED <<heap, proc>>

(***************************************************************************)
(* interface::listen: new receiver; dispatcher::listen appends it unless   *)
(* an equal one is in the list; the interface deletes a rejected one.      *)
(***************************************************************************)
Listen(id, l) ==
    LET rcv == [m_id |-> id, l |-> l] IN
    /\ MayCall("listen")
    /\ m_receivers' = IF HasEqual(id, rcv) THEN m_receivers
                      ELSE [m_receivers EXCEPT ![id] = Append(@, rcv)]
    /\ heap' = IF HasEqual(id, rcv) THEN heap ELSE [heap EXCEPT ![id] = @ + 1]
    /\ UNCHANGED <<loops, proc>>

Erase(s, i) == [j \in 1 .. Len(s) - 1 |-> IF j < i THEN s[j] ELSE s[j + 1]]

(* Faulty: a std::vector, whose erase invalidates the iterators behind it too. *)
AfterEraseVector(id, i, l) ==
    [k \in DOMAIN loops |->
       IF loops[k].id # id \/ loops[k].pos < i THEN loops[k]
       ELSE [loops[k] EXCEPT !.iter = "erased", !.seen = @ \ {l}]]

(* The loops in progress after node i of list id, which held l, is erased. *)
AfterErase(id, i, l) ==
    [k \in DOMAIN loops |->
       IF loops[k].id # id THEN loops[k]
       ELSE [id   |-> id,
             pos  |-> IF i < loops[k].pos THEN loops[k].pos - 1 ELSE loops[k].pos,
             iter |-> IF i = loops[k].pos THEN "erased" ELSE loops[k].iter,
             seen |-> loops[k].seen \ {l}]]

(* Faulty: dispatcher and interface both delete the receiver. *)
UnlistenDeletesTwice(id, l) ==
    \E i \in 1 .. Len(m_receivers[id]) :
        /\ MayCall("unlisten")
        /\ equals(m_receivers[id][i], [m_id |-> id, l |-> l])
        /\ m_receivers' = [m_receivers EXCEPT ![id] = Erase(@, i)]
        /\ heap' = [heap EXCEPT ![id] = @ - 2]
        /\ loops' = AfterErase(id, i, l)
        /\ UNCHANGED proc

(***************************************************************************)
(* interface::unlisten: the first receiver equal to a temporary one is     *)
(* erased from the list and deleted.  No equal receiver: nothing happens.  *)
(***************************************************************************)
Unlisten(id, l) ==
    \E i \in 1 .. Len(m_receivers[id]) :
        LET other == [m_id |-> id, l |-> l] IN
        /\ MayCall("unlisten")
        /\ equals(m_receivers[id][i], other)
        /\ \A j \in 1 .. i - 1 : ~equals(m_receivers[id][j], other)
        /\ m_receivers' = [m_receivers EXCEPT ![id] = Erase(@, i)]
        /\ heap' = [heap EXCEPT ![id] = @ - 1]
        /\ loops' = AfterErase(id, i, l)
        /\ UNCHANGED proc

(* clear: every receiver is deleted, every list and then the map emptied. *)
Clear ==
    /\ MayCall("clear")
    /\ m_receivers' = [id \in Ids |-> <<>>]
    /\ heap' = [id \in Ids |-> heap[id] - Len(m_receivers[id])]
    /\ loops' = [k \in DOMAIN loops |->
                   [id |-> loops[k].id, pos |-> loops[k].pos, iter |-> "erased", seen |-> {}]]
    /\ UNCHANGED proc

(* dispatch(id): find the list, iterator at begin(), invoke. *)
Dispatch(id) ==
    /\ MayCall("dispatch")
    /\ Len(loops) < MaxDepth
    /\ m_receivers[id] # <<>>
    /\ loops' = Append(loops, [id |-> id, pos |-> 1, iter |-> "ok",
                               seen |-> {m_receivers[id][1].l}])
    /\ UNCHANGED <<m_receivers, heap, proc>>

(* The innermost loop invokes the receiver in node p of its list. *)
Invoke(p, iter) ==
    loops' = [loops EXCEPT ![Len(loops)] =
                [id |-> Top.id, pos |-> p, iter |-> iter,
                 seen |-> Top.seen \cup {m_receivers[Top.id][p].l}]]

Leave == loops' = SubSeq(loops, 1, Len(loops) - 1)

(* Faulty: the iterator is advanced twice. *)
ReturnSkips ==
    /\ proc = "running"
    /\ loops # <<>>
    /\ Top.iter # "erased"
    /\ IF Top.pos + 1 < Len(m_receivers[Top.id])
       THEN Invoke(Top.pos + 2, Top.iter) ELSE Leave
    /\ UNCHANGED <<m_receivers, heap, proc>>

(* The callback returns; ++iter; invoke the next receiver or leave the loop. *)
Return ==
    /\ proc = "running"
    /\ loops # <<>>
    /\ Top.iter # "erased"
    /\ IF Top.pos < Len(m_receivers[Top.id])
       THEN Invoke(Top.pos + 1, Top.iter) ELSE Leave
    /\ UNCHANGED <<m_receivers, heap, proc>>

(***************************************************************************)
(* ++iter on an erased node reads freed memory: the process dies, or what  *)
(* the memory holds leads to the end of the list or to a node of it.       *)
(***************************************************************************)
ReturnErased ==
    /\ proc = "running"
    /\ loops # <<>>
    /\ Top.iter = "erased"
    /\ \/ proc' = "crashed" /\ UNCHANGED loops
       \/ Leave /\ UNCHANGED proc
       \/ /\ \E p \in 1 .. Len(m_receivers[Top.id]) : Invoke(p, "astray")
          /\ UNCHANGED proc
    /\ UNCHANGED <<m_receivers, heap>>

Next ==
    \/ \E id \in Ids, l \in Listeners : Listen(id, l)
    \/ \E id \in Ids, l \in Listeners : Unlisten(id, l)
    \/ Clear
    \/ \E id \in Ids : Dispatch(id)
    \/ Return
    \/ ReturnErased

Spec == Init /\ [][Next]_vars

(* Callbacks are finite functions: a dispatch in progress moves on. *)
FairSpec == Spec /\ WF_vars(Return \/ ReturnErased)

-----------------------------------------------------------------------------
(* Every list holds receivers; every loop in progress has an id and a node. *)
TypeOK ==
    /\ m_receivers \in [Ids -> Seq(Receiver)]
    /\ heap \in [Ids -> Nat]
    /\ loops \in Seq(Loop)
    /\ proc \in {"running", "crashed"}

(***************************************************************************)
(* No listener is in the list of an id twice, whatever mixture of listen,  *)
(* unlisten and clear the callbacks make: the duplicate test of            *)
(* dispatcher::listen is enough for an event to reach a listener once.     *)
(***************************************************************************)
NoDuplicates ==
    \A id \in Ids : \A i, j \in 1 .. Len(m_receivers[id]) :
        m_receivers[id][i].l = m_receivers[id][j].l => i = j

(***************************************************************************)
(* The receivers built by interface::listen and not deleted are exactly    *)
(* those in the lists, each in the list of its own m_id: none is leaked by *)
(* a rejected listen, an unlisten or a clear, none is deleted twice, and   *)
(* the test id == m_id in receiver::invoke never drops an event.           *)
(***************************************************************************)
NoReceiverLeak ==
    \A id \in Ids :
        /\ heap[id] = Len(m_receivers[id])
        /\ \A i \in 1 .. Len(m_receivers[id]) : m_receivers[id][i].m_id = id

(***************************************************************************)
(* A loop whose iterator was never invalidated stands on a node of its     *)
(* list, and has invoked exactly the listeners up to that node, since they *)
(* were last added: the listeners it has still to invoke, those added by   *)
(* callbacks of this very dispatch included, are exactly the rest.         *)
(***************************************************************************)
InvokedPrefix ==
    \A k \in 1 .. Len(loops) :
        loops[k].iter = "ok" =>
            /\ loops[k].pos \in 1 .. Len(m_receivers[loops[k].id])
            /\ loops[k].seen =
                  {m_receivers[loops[k].id][j].l : j \in 1 .. loops[k].pos}

(***************************************************************************)
(* dispatch invokes a listener at most once per registration, and leaves   *)
(* its loop only when everyone listening at that moment has been invoked.  *)
(***************************************************************************)
OnceStep ==
    \A k \in 1 .. Len(loops) :
        loops[k].iter = "ok" =>
            /\ k = Len(loops) /\ Len(loops') < k
                 => Listened(loops[k].id) \subseteq loops[k].seen
            /\ k <= Len(loops') /\ loops'[k].pos > loops[k].pos
                 => m_receivers[loops[k].id][loops'[k].pos].l \notin loops[k].seen

(* Every step of a dispatch in progress keeps to OnceStep: nobody twice, nobody missed. *)
ExactlyOnce == [][OnceStep]_vars

(***************************************************************************)
(* A dispatch in progress loses its iterator only to the removal of the    *)
(* receiver it stands on: whatever else callbacks remove, in this list or  *)
(* another, in this dispatch or one nested in it, does not disturb it.     *)
(***************************************************************************)
KeepsIterators ==
    \A k \in 1 .. Len(loops), id \in Ids :
        /\ loops[k].id = id /\ loops[k].iter = "ok"
        /\ k <= Len(loops') /\ loops'[k].iter # "ok"
        => m_receivers[id][loops[k].pos].l \notin Listened(id)'

(* No step of the dispatcher or of a callback breaks KeepsIterators. *)
IteratorsValid == [][KeepsIterators]_vars

(***************************************************************************)
(* The dispatcher is an EventBus: lists, iterators and heap objects        *)
(* implement registrations and passes.  A pass is void if its iterator is  *)
(* lost or came back from an erased node.                                  *)
(***************************************************************************)
Bus == INSTANCE EventBus WITH
    registered <- {p \in Ids \X Listeners : p[2] \in Listened(p[1])},
    passes     <- [k \in 1 .. Len(loops) |->
                     IF loops[k].iter = "ok"
                     THEN [id |-> loops[k].id, told |-> loops[k].seen,
                           now |-> {m_receivers[loops[k].id][loops[k].pos].l}]
                     ELSE [id |-> loops[k].id, told |-> {}, now |-> {}]]

ImplementsEventBus == Bus!Spec

(* A step of a callback that at most listens: no list shrinks, no dispatch begins. *)
OnlyListens ==
    loops # <<>> =>
        /\ \A id \in Ids : Len(m_receivers'[id]) >= Len(m_receivers[id])
        /\ Len(loops') <= Len(loops)

(***************************************************************************)
(* Once callbacks at most listen, every dispatch in progress terminates,   *)
(* nested ones included: a listener added on the way is invoked too, but   *)
(* only once.  (A callback that unlistens and listens again is invoked     *)
(* again, so this needs its premise.)  Or the process dies of a lost       *)
(* iterator.                                                               *)
(***************************************************************************)
DispatchTerminates ==
    (<>[][OnlyListens]_vars) => (loops # <<>> ~> loops = <<>> \/ proc = "crashed")

=============================================================================
