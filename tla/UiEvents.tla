------------------------------ MODULE UiEvents ------------------------------
(***************************************************************************)
(* What the UI runtime promises its applications: a bounded first-in       *)
(* first-out queue of events, and timers that are armed, at most once for  *)
(* an owner and token, until they are cancelled or turned into one event.  *)
(* Collecting takes all due timers, or as many as the queue has room for.  *)
(***************************************************************************)
EXTENDS Naturals, Sequences, SequencesExt, FiniteSets

CONSTANTS QueueCapacity, TimerCapacity, Word, MaxTime, InputTypes, Owners, Tokens, Delays

VARIABLES
  pending,  \* the queued events, oldest first
  armed,    \* the armed timers
  now       \* ticks since boot

Tick(t) == t % Word

TimerEvent(a, t) ==
  [type |-> "timer", target |-> a.owner, tick |-> Tick(t), token |-> a.token, due |-> a.due]
InputEvent(type, p, t) ==
  [type |-> type, target |-> p, tick |-> Tick(t), token |-> 0, due |-> 0]

Same(a, b) == a.owner = b.owner /\ a.token = b.token
Due == {a \in armed : a.due <= Tick(now)}

Init == pending = <<>> /\ armed = {} /\ now = 0

Post(type, p) ==
  /\ Len(pending) < QueueCapacity
  /\ pending' = Append(pending, InputEvent(type, p, now))
  /\ UNCHANGED <<armed, now>>

Take ==
  /\ pending # <<>>
  /\ pending' = Tail(pending)
  /\ UNCHANGED <<armed, now>>

Arm(p, token, due) ==
  LET new == [owner |-> p, token |-> token, due |-> due]
      others == {a \in armed : ~Same(a, new)}
  IN  /\ Cardinality(others) < TimerCapacity
      /\ armed' = others \cup {new}
      /\ UNCHANGED <<pending, now>>

Cancel(p, token) ==
  /\ \E a \in armed : a.owner = p /\ a.token = token
  /\ armed' = {a \in armed : ~(a.owner = p /\ a.token = token)}
  /\ UNCHANGED <<pending, now>>

Collect ==
  \E chosen \in SUBSET Due :
    /\ chosen # {}
    /\ Len(pending) + Cardinality(chosen) <= QueueCapacity
    /\ chosen = Due \/ Len(pending) + Cardinality(chosen) = QueueCapacity
    /\ \E order \in SetToSeqs(chosen) :
         pending' = pending \o [i \in DOMAIN order |-> TimerEvent(order[i], now)]
    /\ armed' = armed \ chosen
    /\ UNCHANGED now

Elapse == now < MaxTime /\ now' = now + 1 /\ UNCHANGED <<pending, armed>>

Next ==
  \/ \E type \in InputTypes, p \in Owners : Post(type, p)
  \/ Take
  \/ \E p \in Owners, token \in Tokens, delay \in Delays : Arm(p, token, Tick(now + delay))
  \/ \E p \in Owners, token \in Tokens : Cancel(p, token)
  \/ Collect
  \/ Elapse

Spec == Init /\ [][Next]_<<pending, armed, now>>
=============================================================================
