------------------------------ MODULE EventBus ------------------------------
(***************************************************************************)
(* What eventinterface and networkinterface promise, without lists and     *)
(* iterators: a set of registrations, and passes that deliver one event.   *)
(* A pass invokes registered listeners it has not told since they were     *)
(* registered, and ends only when everyone registered has been told.  If   *)
(* the listener being told is unregistered, the pass is void: it may end   *)
(* at any time, and whom it still tells is left open.                      *)
(***************************************************************************)
EXTENDS Naturals, Sequences

CONSTANTS Ids, Listeners

VARIABLES
    registered,  \* SUBSET (Ids \X Listeners)
    passes       \* Seq([id : Ids, told, now : SUBSET Listeners]), innermost
                 \* last; now is the listener being told, {} in a void pass

busVars == <<registered, passes>>

Init == registered = {} /\ passes = <<>>

Void(id) == [id |-> id, told |-> {}, now |-> {}]

Register(id, l) ==
    /\ registered' = registered \cup {<<id, l>>}
    /\ UNCHANGED passes

(* Whoever unregisters may be told again after registering again. *)
Unregister(id, l) ==
    /\ registered' = registered \ {<<id, l>>}
    /\ passes' = [k \in DOMAIN passes |->
                    IF passes[k].id # id THEN passes[k]
                    ELSE IF l \in passes[k].now THEN Void(id)
                    ELSE [passes[k] EXCEPT !.told = @ \ {l}]]

UnregisterAll ==
    /\ registered' = {}
    /\ passes' = [k \in DOMAIN passes |-> Void(passes[k].id)]

Begin(id, l) ==
    /\ <<id, l>> \in registered
    /\ passes' = Append(passes, [id |-> id, told |-> {l}, now |-> {l}])
    /\ UNCHANGED registered

Tell(l) ==
    /\ passes # <<>>
    /\ LET p == passes[Len(passes)] IN
       /\ <<p.id, l>> \in registered
       /\ p.now # {}
       /\ l \notin p.told
       /\ passes' = [passes EXCEPT ![Len(passes)] =
                       [id |-> p.id, told |-> p.told \cup {l}, now |-> {l}]]
    /\ UNCHANGED registered

End ==
    /\ passes # <<>>
    /\ LET p == passes[Len(passes)] IN
       p.now = {} \/ \A l \in Listeners : <<p.id, l>> \in registered => l \in p.told
    /\ passes' = SubSeq(passes, 1, Len(passes) - 1)
    /\ UNCHANGED registered

Next ==
    \/ \E id \in Ids, l \in Listeners :
          Register(id, l) \/ Unregister(id, l) \/ Begin(id, l)
    \/ UnregisterAll
    \/ \E l \in Listeners : Tell(l)
    \/ End

Spec == Init /\ [][Next]_busVars

=============================================================================
