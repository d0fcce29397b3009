-------------------------- MODULE RealtimeDebouncer --------------------------
(***************************************************************************)
(* src/realtime/realtime_debouncer.cpp: the pure state of the debouncer,   *)
(* as operators on a record.                                               *)
(*                                                                         *)
(* The code keeps two deadlines on the steady clock.  All it does with     *)
(* them is to compare them with the present, so the record holds what is   *)
(* left of them: 0 is a deadline that has passed, and a tick of the clock  *)
(* takes one from each.                                                    *)
(***************************************************************************)
EXTENDS Integers

CONSTANTS
    Debounce,   \* debounce_ms, in ticks
    MaxWait,    \* max_wait_ms, in ticks; ValidateRealtimeConfig: >= debounce
    MaxCount    \* bound: events that are told apart

ASSUME DebouncerAssumption ==
    /\ Debounce \in Nat /\ MaxWait \in Nat /\ MaxCount \in Nat \ {0}
    /\ Debounce <= MaxWait

Lesser(m, n) == IF m < n THEN m ELSE n
Counted(n) == Lesser(n, MaxCount)

Debouncer == [dirty : BOOLEAN, events : 0..MaxCount, resync : BOOLEAN,
              soft : 0..MaxWait, hard : 0..MaxWait]

Generation == [events : 0..MaxCount, resync : BOOLEAN]

Clean == [dirty |-> FALSE, events |-> 0, resync |-> FALSE, soft |-> 0,
          hard |-> 0]

(***************************************************************************)
(* The first event of a generation fixes the hard deadline; every event    *)
(* moves the soft one, never beyond the hard one.                          *)
(***************************************************************************)
NoteEvents(d, count) ==
    LET hard == IF d.dirty THEN d.hard ELSE MaxWait IN
    [dirty |-> TRUE, events |-> Counted(d.events + count),
     resync |-> d.resync, soft |-> Lesser(Debounce, hard), hard |-> hard]

NoteResync(d) ==
    [dirty |-> TRUE, events |-> d.events, resync |-> TRUE, soft |-> 0,
     hard |-> 0]

WaitMs(d) == Lesser(d.soft, d.hard)
Due(d) == d.dirty /\ WaitMs(d) = 0

Consumed(d) == [events |-> d.events, resync |-> d.resync]

OneLess(n) == IF n > 0 THEN n - 1 ELSE 0

Elapse(d) ==
    [dirty |-> d.dirty, events |-> d.events, resync |-> d.resync,
     soft |-> OneLess(d.soft), hard |-> OneLess(d.hard)]
=============================================================================
