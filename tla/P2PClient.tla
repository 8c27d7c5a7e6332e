----------------------------- MODULE P2PClient -----------------------------
(***************************************************************************)
(* P2PClient: listeners of messages and errors.                            *)
(*                                                                         *)
(* emit calls the listeners one after the other and synchronously.  While  *)
(* one runs it may add and remove listeners, throw, or cause more data and *)
(* so another emission within this one.  Lists of listeners are objects: a *)
(* list that is being walked may grow in place, or be replaced meanwhile.  *)
(* "close" is an event like "message", outside handleData's try.           *)
(***************************************************************************)
EXTENDS Naturals, Sequences, FiniteSets, SequencesExt, Lists

CONSTANTS
    Handlers,
    MaxListeners, MaxEmissions, MaxDepth

ASSUME P2PClientAssumption ==
    {MaxListeners, MaxEmissions, MaxDepth} \subseteq Nat

Events == {"message", "error"}

VARIABLES
    registered,     \* every listener that has been added, in that order
    eventListeners, \* [Events -> their positions in registered]
    emitting,       \* the emissions under way, the innermost last
    heard,          \* history: how often each listener was called
    removed,        \* history: those that removeListener took away
    disturbed,      \* history: what was done while an emission ran
    emissions

listeners == <<registered, eventListeners, emitting, heard, removed, disturbed, emissions>>

ClientInit ==
    /\ registered = <<>>
    /\ eventListeners = [e \in Events |-> <<>>]
    /\ emitting = <<>>
    /\ heard = <<>>
    /\ removed = {}
    /\ disturbed = {}
    /\ emissions = 0

---------------------------------------------------------------------------
Innermost == emitting[Len(emitting)]

\* The client's code runs: outside of every emission, or as a listener.
UserRuns == IF emitting = <<>> THEN TRUE ELSE Innermost.running

Disturb(what) == disturbed' = IF emitting = <<>> THEN disturbed ELSE disturbed \cup {what}

\* addListenerInternal: in place.  There is no prepending once.
AddListener(event, handler, once, prepend) ==
    /\ ~(once /\ prepend)
    /\ UserRuns /\ Len(registered) < MaxListeners
    /\ registered' = Append(registered, [handler |-> handler, once |-> once])
    /\ heard' = Append(heard, 0)
    /\ LET l == Len(registered) + 1
       IN  eventListeners' = [eventListeners EXCEPT ![event] = IF prepend THEN <<l>> \o @ ELSE Append(@, l)]
    /\ IF prepend THEN Disturb("prepended") ELSE UNCHANGED disturbed
    /\ UNCHANGED <<emitting, removed, emissions>>

\* The list of an event is replaced: who walks the old one keeps that.
Replace(event, list, walkers) ==
    /\ eventListeners' = [eventListeners EXCEPT ![event] = list]
    /\ emitting' = [i \in DOMAIN walkers |->
                        IF walkers[i].event = event /\ ~walkers[i].replaced
                        THEN [walkers[i] EXCEPT !.replaced = TRUE, !.list = eventListeners[event]]
                        ELSE walkers[i]]

Of(handler, list) == {l \in Range(list) : registered[l].handler = handler}

Without(handler, list) == Selected(list, Range(list) \ Of(handler, list))

\* Mutant: the list is cut in place.
RemoveInPlace(event, handler) ==
    /\ UserRuns /\ Of(handler, eventListeners[event]) # {}
    /\ eventListeners' = [eventListeners EXCEPT ![event] = Without(handler, @)]
    /\ removed' = removed \cup Of(handler, eventListeners[event])
    /\ Disturb("removed")
    /\ UNCHANGED <<registered, emitting, heard, emissions>>

\* Of one that is not there, too, a copy of the list is left, which matters
\* to who walks it.
RemoveListener(event, handler) ==
    /\ UserRuns /\ (emitting = <<>> => Of(handler, eventListeners[event]) # {})
    /\ Replace(event, Without(handler, eventListeners[event]), emitting)
    /\ removed' = removed \cup Of(handler, eventListeners[event])
    /\ Disturb("removed")
    /\ UNCHANGED <<registered, heard, emissions>>

Emission(event) ==
    [event |-> event, replaced |-> FALSE, list |-> <<>>, next |-> 1, running |-> FALSE,
     called |-> <<>>, began |-> Range(eventListeners[event])]

\* Data that decodes, or an error of the provider's.
Emit(event) ==
    /\ UserRuns /\ emissions < MaxEmissions /\ Len(emitting) < MaxDepth
    /\ eventListeners[event] # <<>>
    /\ emitting' = Append(emitting, Emission(event))
    /\ emissions' = emissions + 1
    /\ Disturb("nested")
    /\ UNCHANGED <<registered, eventListeners, heard, removed>>

\* The list the innermost emission walks, as it is now.
List == IF Innermost.replaced THEN Innermost.list ELSE eventListeners[Innermost.event]

Walks == emitting # <<>> /\ ~Innermost.running

CallNext ==
    /\ Walks /\ Innermost.next <= Len(List)
    /\ LET l == List[Innermost.next]
       IN  /\ emitting' = [emitting EXCEPT ![Len(emitting)].running = TRUE, ![Len(emitting)].next = @ + 1,
                                           ![Len(emitting)].called = Append(@, l)]
           /\ heard' = [heard EXCEPT ![l] = @ + 1]
    /\ UNCHANGED <<registered, eventListeners, removed, disturbed, emissions>>

Return ==
    /\ emitting # <<>> /\ Innermost.running
    /\ emitting' = [emitting EXCEPT ![Len(emitting)].running = FALSE]
    /\ UNCHANGED <<registered, eventListeners, heard, removed, disturbed, emissions>>

\* The emission ends there.  handleData makes an error of what a message's
\* listener threw; out of "error" it reaches whoever delivered the data.
Throw ==
    /\ emitting # <<>> /\ Innermost.running
    /\ emitting' = IF Innermost.event = "message" /\ eventListeners["error"] # <<>>
                   THEN Append(Front(emitting), Emission("error"))
                   ELSE Front(emitting)
    /\ Disturb("threw")
    /\ UNCHANGED <<registered, eventListeners, heard, removed, emissions>>

\* Those that are not added by once.
Repeated == {l \in DOMAIN registered : ~registered[l].once}

\* Those to be called once are dropped from what the list is by now.
FinishEmit ==
    /\ Walks /\ Innermost.next > Len(List)
    /\ Replace(Innermost.event, Selected(eventListeners[Innermost.event], Repeated), Front(emitting))
    /\ UNCHANGED <<registered, heard, removed, disturbed, emissions>>

ClientNext ==
    \/ \E event \in Events :
        \/ \E handler \in Handlers :
            \/ \E once, prepend \in BOOLEAN : AddListener(event, handler, once, prepend)
            \/ RemoveListener(event, handler)
        \/ Emit(event)
    \/ CallNext \/ Return \/ Throw \/ FinishEmit

ClientSpec == ClientInit /\ [][ClientNext]_listeners

---------------------------------------------------------------------------
(* Properties.                                                             *)

Gone(l) == \A event \in Events : l \notin Range(eventListeners[event])

(***************************************************************************)
(* However listeners are added and removed while an event is emitted, an   *)
(* emission that is not thrown out of calls each listener there was when   *)
(* it began, and none twice unless another was put before it meanwhile.    *)
(***************************************************************************)
EveryListenerHears ==
    Walks /\ Innermost.next > Len(List) =>
        /\ Innermost.began \subseteq Range(Innermost.called)
        /\ "prepended" \notin disturbed => Cardinality(Range(Innermost.called)) = Len(Innermost.called)

(***************************************************************************)
(* A listener added by once is called once and then gone, except that a    *)
(* throw, an emission within another or a listener put before it can make  *)
(* it be called again, and those or a removal meanwhile can drop one that  *)
(* was added meanwhile and has not been called; the others stay until      *)
(* they are removed, and a removed one does not come back.                 *)
(***************************************************************************)
OnceIsOnce ==
    \A l \in DOMAIN registered :
        /\ registered[l].once /\ heard[l] > 1 => disturbed \cap {"threw", "nested", "prepended"} # {}
        /\ Gone(l) /\ l \notin removed =>
               registered[l].once /\ (heard[l] > 0 \/ disturbed \cap {"removed", "nested", "prepended"} # {})
        /\ l \in removed => Gone(l)

\* What a listener may count on: the two statements above.
ListenersHear == EveryListenerHears /\ OnceIsOnce
=============================================================================
