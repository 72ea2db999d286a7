------------------------------ MODULE RuntimeUi ------------------------------
(***************************************************************************)
(* The event queue and the timer table of kernel/runtime_ui.c, with the    *)
(* input service of kernel/runtime_input.c that fills the queue: a ring of *)
(* events, and a table of timers that runtime_ui_timer_collect_due turns   *)
(* into events in table order while the ring has room.                     *)
(*                                                                         *)
(* No call blocks, so each is one step; a call that is refused changes     *)
(* nothing and is no step.  Ticks are given to the calls as 32-bit         *)
(* numbers, of which there are Word, while time goes on.                   *)
(***************************************************************************)
EXTENDS Naturals, Sequences, FiniteSetsExt

CONSTANTS
  QueueCapacity,   (* RUNTIME_UI_EVENT_QUEUE_CAPACITY                      *)
  TimerCapacity,   (* RUNTIME_UI_TIMER_CAPACITY                            *)
  Word,            (* the number of values of uint32_t                     *)
  MaxTime,         (* bound: ticks since boot                              *)
  InputTypes,      (* the kinds of event that the input service pushes     *)
  Owners, Tokens,  (* of timers; owner_pid is never 0                      *)
  Delays           (* from a call of runtime_ui_timer_arm to its due_tick  *)

ASSUME RuntimeUiAssumption ==
  /\ QueueCapacity \in Nat \ {0} /\ TimerCapacity \in Nat \ {0}
  /\ Word \in Nat \ {0} /\ MaxTime \in Nat
  /\ Delays \subseteq Nat /\ Owners \subseteq Nat \ {0}

Slot == 0 .. (QueueCapacity - 1)
Entry == 1 .. TimerCapacity
Idle == [owner |-> 0, token |-> 0, due |-> 0]     \* an entry that is not active

VARIABLES
  events, readIndex, count,   \* of the queue
  entries,                    \* of the timer table
  now,                        \* ticks since boot
  wanted                      \* history: the time each entry is really due

queue == <<events, readIndex, count>>
vars == <<queue, entries, now, wanted>>

Tick(t) == t % Word
Active == {i \in Entry : entries[i] # Idle}

-----------------------------------------------------------------------------
(* The queue.                                                              *)

\* runtime_ui_event_queue_write_index, k events after the last
WriteIndex(k) == (readIndex + count + k) % QueueCapacity

\* runtime_ui_event_push of these events one after the other, while there
\* is room
PushAll(new) ==
  /\ events' = [s \in Slot |->
       LET k == {j \in DOMAIN new : WriteIndex(j - 1) = s}
       IN  IF k = {} THEN events[s] ELSE new[Max(k)]]
  /\ count' = count + Len(new)
  /\ UNCHANGED readIndex

\* runtime_input_push, for runtime_input_push_key, _pointer_move,
\* _pointer_button and _focus
Push(type, p) ==
  /\ count < QueueCapacity
  /\ PushAll(<<[type |-> type, target |-> p, tick |-> Tick(now), token |-> 0, due |-> 0]>>)
  /\ UNCHANGED <<entries, now, wanted>>

\* runtime_ui_event_pop, called by runtime_input_pop
Pop ==
  /\ count # 0
  /\ readIndex' = (readIndex + 1) % QueueCapacity
  /\ count' = count - 1
  /\ UNCHANGED <<events, entries, now, wanted>>

-----------------------------------------------------------------------------
(* The timers.                                                             *)

\* The entry of this owner and token, if any
Armed(p, token) ==
  {i \in Active : entries[i].owner = p /\ entries[i].token = token}

\* Where runtime_ui_timer_arm puts the timer
ArmAt(p, token) == IF Armed(p, token) # {} THEN Armed(p, token) ELSE Entry \ Active

\* runtime_ui_timer_arm
Arm(p, token, delay) ==
  /\ ArmAt(p, token) # {}
  /\ LET i == Min(ArmAt(p, token))
     IN  /\ entries' = [entries EXCEPT ![i] =
                          [owner |-> p, token |-> token, due |-> Tick(now + delay)]]
         /\ wanted' = [wanted EXCEPT ![i] = now + delay]
  /\ UNCHANGED <<queue, now>>

\* Those entries are cleared.
Clear(cleared) ==
  /\ entries' = [i \in Entry |-> IF i \in cleared THEN Idle ELSE entries[i]]
  /\ wanted' = [i \in Entry |-> IF i \in cleared THEN 0 ELSE wanted[i]]

\* runtime_ui_timer_cancel
Cancel(p, token) ==
  /\ Armed(p, token) # {}
  /\ Clear({Min(Armed(p, token))})
  /\ UNCHANGED <<queue, now>>

DueAt(t) == {i \in Active : entries[i].due <= t}

\* The entries of those due that runtime_ui_timer_collect_due takes before
\* the queue is full, in table order (mutated forms: it clears an entry
\* whether or not its event was queued; it takes what is due a tick later)
Before(due, i) == Cardinality({j \in due : j < i})
Taken(due) == {i \in due : count + Before(due, i) < QueueCapacity}
TakenAndLost(due) == due
Cleared(due) == Taken(due)
DueATickLater == DueAt(Tick(now) + 1)
DueNow == DueAt(Tick(now))

\* runtime_ui_timer_collect_due
CollectDue ==
  LET taken == Taken(DueNow)
      order == [k \in 1 .. Cardinality(taken) |->
                  CHOOSE i \in taken : Before(taken, i) = k - 1]
  IN  /\ taken # {}
      /\ PushAll([k \in DOMAIN order |->
           [type |-> "timer", target |-> entries[order[k]].owner, tick |-> Tick(now),
            token |-> entries[order[k]].token, due |-> entries[order[k]].due]])
      /\ Clear(Cleared(DueNow))
      /\ UNCHANGED now

\* Time goes on.
Elapse ==
  /\ now < MaxTime
  /\ now' = now + 1
  /\ UNCHANGED <<queue, entries, wanted>>

\* runtime_ui_event_queue_init, runtime_ui_timer_table_init and
\* runtime_input_service_init
Init ==
  /\ events = [s \in Slot |-> [type |-> "none", target |-> 0, tick |-> 0, token |-> 0, due |-> 0]]
  /\ readIndex = 0 /\ count = 0
  /\ entries = [i \in Entry |-> Idle]
  /\ wanted = [i \in Entry |-> 0]
  /\ now = 0

Next ==
  \/ \E type \in InputTypes, p \in Owners : Push(type, p)
  \/ Pop
  \/ \E p \in Owners, token \in Tokens, delay \in Delays : Arm(p, token, delay)
  \/ \E p \in Owners, token \in Tokens : Cancel(p, token)
  \/ CollectDue
  \/ Elapse

Spec == Init /\ [][Next]_vars

-----------------------------------------------------------------------------
(* Properties.                                                             *)

(* The ring and the table are a first-in first-out queue and a set of      *)
(* timers: no event is overwritten, reordered or read twice as the indices *)
(* go round, no timer is armed twice for one owner and token, and a timer  *)
(* leaves the table only when it is cancelled or its event is queued, in a *)
(* queue that fills up half way through the table too                      *)
(* (runtime_ui_timer_collect_due).                                         *)
Queued == [k \in 1 .. count |-> events[(readIndex + k - 1) % QueueCapacity]]
Abstract == INSTANCE UiEvents WITH
  pending <- Queued, armed <- {entries[i] : i \in Active}
ImplementsUiEvents == Abstract!Spec

Epoch(t) == t \div Word
Collected == {i \in Active : entries'[i] = Idle /\ count' > count}

(* A timer's event comes neither early nor late, as long as the 32-bit     *)
(* tick does not wrap around: one that is collected before it is due, or   *)
(* left behind with room in the queue after it was due, has its due time   *)
(* in another round of the tick counter than the collection                *)
(* (runtime_ui_timer_collect_due compares plain 32-bit numbers).           *)
OnTimeUnlessWrapped ==
  [][/\ \A i \in Collected : now < wanted[i] => Epoch(now) < Epoch(wanted[i])
     /\ Collected # {} /\ count' < QueueCapacity =>
          \A i \in Active \ Collected :
            now >= wanted[i] => Epoch(now) > Epoch(wanted[i])]_vars
=============================================================================
