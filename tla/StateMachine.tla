--------------------------- MODULE StateMachine ---------------------------
(***************************************************************************)
(* agent/statemachine/state.go.  Event loops (Start) receive from an       *)
(* unbuffered channel that Reset closes and replaces; senders never wait,  *)
(* so an event is lost unless a loop is parked on the channel.  The two    *)
(* channels are made and closed together: generation gen is the open pair, *)
(* every earlier pair is closed.  sm.mu guards each step and is free       *)
(* between them.                                                           *)
(***************************************************************************)
EXTENDS Integers, FiniteSets

CONSTANTS
    States, Events,
    InitialState,  \* the argument of NewStateMachine and of Reset
    Transitions,   \* the table at the start: a set of [from, event, to]
    NoState,       \* no transition
    NilEvent,      \* what a closed event channel yields
    Loops,         \* goroutines that may run Start
    Senders,       \* goroutines that may run SendEvent
    NoSend,        \* a sender between two calls
    MaxGen         \* bound of the calls of Reset

ASSUME MachineAssumption ==
    /\ InitialState \in States /\ NoState \notin States /\ NilEvent \notin Events
    /\ NoSend \notin [event : Events, chan : Nat] /\ MaxGen \in Nat
    /\ Transitions \subseteq [from : States, event : Events, to : States]

VARIABLES
    st,        \* currentState
    trans,     \* transitions
    gen,       \* eventChan and resetChan
    lpc,       \* where each loop is
    lchan,     \* the channels a loop has read
    levent,    \* the event it received
    lnext,     \* nextState in handleEvent
    cancelled, \* the loop's context is done
    sending,   \* SendEvent between its lock and its select
    lost,      \* events that no loop received
    panicked   \* a send on a closed channel ended the process

loopVars == <<lpc, lchan, levent, lnext, cancelled>>
smVars == <<st, trans, gen, lpc, lchan, levent, lnext, cancelled, sending, lost, panicked>>

\* The table after AddTransition was called for each transition of ts.
Added(table, ts) ==
    [x \in States \X Events |->
        IF \E t \in ts : <<t.from, t.event>> = x
        THEN (CHOOSE t \in ts : <<t.from, t.event>> = x).to ELSE table[x]]

MachineInit ==
    /\ st = InitialState /\ gen = 0
    /\ trans = Added([x \in States \X Events |-> NoState], Transitions)
    /\ lpc = [l \in Loops |-> "none"] /\ lchan = [l \in Loops |-> 0]
    /\ levent = [l \in Loops |-> NilEvent] /\ lnext = [l \in Loops |-> NoState]
    /\ cancelled = [l \in Loops |-> FALSE]
    /\ sending = [c \in Senders |-> NoSend]
    /\ lost = {} /\ panicked = FALSE
-----------------------------------------------------------------------------
Parked == {l \in Loops : lpc[l] = "parked"}

\* The select of SendEvent on the open channel: a waiting loop or nobody.
Offer(e) ==
    IF Parked = {} THEN lost' = lost \cup {e} /\ UNCHANGED <<lpc, levent>>
    ELSE \E l \in Parked :
            /\ lpc' = [lpc EXCEPT ![l] = "handle"]
            /\ levent' = [levent EXCEPT ![l] = e]
            /\ UNCHANGED lost

\* SendEvent up to its unlock.
SendRead(c, e) ==
    /\ sending[c] = NoSend
    /\ sending' = [sending EXCEPT ![c] = [event |-> e, chan |-> gen]]
    /\ UNCHANGED <<st, trans, gen, loopVars, lost, panicked>>

\* The select of SendEvent: a closed channel panics, default or not.
SendSelect(c) ==
    /\ sending[c] # NoSend
    /\ sending' = [sending EXCEPT ![c] = NoSend]
    /\ IF sending[c].chan # gen
       THEN panicked' = TRUE /\ UNCHANGED <<lpc, levent, lost>>
       ELSE Offer(sending[c].event) /\ UNCHANGED panicked
    /\ UNCHANGED <<st, trans, gen, lchan, lnext, cancelled>>

StartLoop(l) ==
    /\ lpc[l] = "none"
    /\ lpc' = [lpc EXCEPT ![l] = "top"]
    /\ UNCHANGED <<st, trans, gen, lchan, levent, lnext, cancelled, sending, lost, panicked>>

\* Mutant of Fetch: the channels are read once, before the loop.
FetchOnce(l) ==
    /\ lpc[l] = "top"
    /\ lpc' = [lpc EXCEPT ![l] = "select"]
    /\ UNCHANGED <<st, trans, gen, lchan, levent, lnext, cancelled, sending, lost, panicked>>

\* The top of the loop in Start: both channels are read under the lock.
Fetch(l) ==
    /\ lpc[l] = "top"
    /\ lpc' = [lpc EXCEPT ![l] = "select"]
    /\ lchan' = [lchan EXCEPT ![l] = gen]
    /\ UNCHANGED <<st, trans, gen, levent, lnext, cancelled, sending, lost, panicked>>

\* The select in Start takes any ready case, and parks when none is.
Select(l) ==
    /\ lpc[l] = "select"
    /\ \/ /\ cancelled[l]
          /\ lpc' = [lpc EXCEPT ![l] = "dead"] /\ UNCHANGED levent
       \/ /\ lchan[l] # gen
          /\ lpc' = [lpc EXCEPT ![l] = "handle"]
          /\ levent' = [levent EXCEPT ![l] = NilEvent]
       \/ /\ lchan[l] # gen
          /\ lpc' = [lpc EXCEPT ![l] = "top"] /\ UNCHANGED levent
       \/ /\ ~cancelled[l] /\ lchan[l] = gen
          /\ lpc' = [lpc EXCEPT ![l] = "parked"] /\ UNCHANGED levent
    /\ UNCHANGED <<st, trans, gen, lchan, lnext, cancelled, sending, lost, panicked>>

\* handleEvent up to the first unlock; an invalid transition ends Start.
Handle(l) ==
    /\ lpc[l] = "handle"
    /\ LET next == IF levent[l] = NilEvent THEN NoState ELSE trans[<<st, levent[l]>>]
       IN /\ lnext' = [lnext EXCEPT ![l] = next]
          /\ lpc' = [lpc EXCEPT ![l] = IF next = NoState THEN "dead" ELSE "commit"]
    /\ UNCHANGED <<st, trans, gen, lchan, levent, cancelled, sending, lost, panicked>>

\* The rest of handleEvent; the action of the new state starts with this step.
Commit(l) ==
    /\ lpc[l] = "commit"
    /\ st' = lnext[l]
    /\ lpc' = [lpc EXCEPT ![l] = "top"]
    /\ UNCHANGED <<trans, gen, lchan, levent, lnext, cancelled, sending, lost, panicked>>

\* The loop's context ends; a parked loop takes that case of its select.
Cancel(l) ==
    /\ cancelled' = [cancelled EXCEPT ![l] = TRUE]
    /\ lpc' = [lpc EXCEPT ![l] = IF @ = "parked" THEN "dead" ELSE @]
    /\ UNCHANGED <<st, trans, gen, lchan, levent, lnext, sending, lost, panicked>>

\* The loops after the event channel was closed: it is closed before the
\* reset channel, so a parked loop takes the nil event.
WokenLoops == [l \in Loops |-> IF lpc[l] = "parked" THEN "handle" ELSE lpc[l]]
WokenEvents == [l \in Loops |-> IF lpc[l] = "parked" THEN NilEvent ELSE levent[l]]

Reset ==
    /\ gen < MaxGen
    /\ st' = InitialState
    /\ gen' = gen + 1
    /\ lpc' = WokenLoops
    /\ levent' = WokenEvents
    /\ UNCHANGED <<trans, lchan, lnext, cancelled, sending, lost, panicked>>

LoopStep(l) == Fetch(l) \/ Select(l) \/ Handle(l) \/ Commit(l)

MachineNext ==
    /\ ~panicked
    /\ \/ Reset
       \/ \E l \in Loops :
             \/ StartLoop(l) \/ LoopStep(l)
             \/ lpc[l] # "none" /\ ~cancelled[l] /\ Cancel(l)
       \/ \E c \in Senders : SendSelect(c) \/ \E e \in Events : SendRead(c, e)

\* The scheduler runs every runnable goroutine.
MachineFairness == \A l \in Loops : WF_smVars(~panicked /\ LoopStep(l))

MachineSpec == MachineInit /\ [][MachineNext]_smVars
FairMachineSpec == MachineSpec /\ MachineFairness
-----------------------------------------------------------------------------
MachineTypeOK ==
    /\ st \in States /\ gen \in 0..MaxGen
    /\ trans \in [States \X Events -> States \cup {NoState}]
    /\ lpc \in [Loops -> {"none", "top", "select", "parked", "handle", "commit", "dead"}]
    /\ lchan \in [Loops -> 0..MaxGen]
    /\ levent \in [Loops -> Events \cup {NilEvent}]
    /\ lnext \in [Loops -> States \cup {NoState}]
    /\ cancelled \in [Loops -> BOOLEAN]
    /\ sending \in [Senders -> [event : Events, chan : 0..MaxGen] \cup {NoSend}]
    /\ lost \in SUBSET Events /\ panicked \in BOOLEAN

(***************************************************************************)
(* A loop that waits in the select of Start waits on the open channels and *)
(* under a live context, whatever Reset, cancellation and the other loops  *)
(* do: no event can go to a loop of an earlier generation.                 *)
(***************************************************************************)
ParkedIsCurrent ==
    \A l \in Loops : lpc[l] = "parked" => lchan[l] = gen /\ ~cancelled[l]

\* The inductive form: the types and what handleEvent carries to its commit.
MachineInv ==
    /\ MachineTypeOK
    /\ ParkedIsCurrent
    /\ \A l \in Loops : lpc[l] = "commit" => lnext[l] \in States

(***************************************************************************)
(* A loop whose context is done takes no further event: each event a loop  *)
(* handles was offered while its context was live, or is the nil event of  *)
(* a closed channel.                                                       *)
(***************************************************************************)
CancelledLoopTakesNoEvent ==
    [][\A l \in Loops : cancelled[l] /\ levent'[l] # levent[l] => levent'[l] = NilEvent]_smVars

(***************************************************************************)
(* Start returns after its context ended: neither the closed channels of a *)
(* Reset nor an event in hand keeps a cancelled loop alive.                *)
(***************************************************************************)
CancelledLoopEnds ==
    \A l \in Loops : (cancelled[l] /\ lpc[l] # "none") ~> (lpc[l] = "dead" \/ panicked)

(***************************************************************************)
(* state.go:86, the default case of SendEvent: "Channel might be closed or *)
(* full, ignore the event".  Sending never ends the process.               *)
(***************************************************************************)
ClosedChannelIsIgnored == ~panicked
=============================================================================
