------------------------------- MODULE EventList -------------------------------
(***************************************************************************)
(* The future events of the simulation kernel (OMNeT++, not part of the    *)
(* repository): messages ordered by their arrival time, among those of one *)
(* time by priority, and otherwise in the order they were scheduled in.    *)
(***************************************************************************)
EXTENDS Integers, Sequences, SequencesExt, FiniteSets

\* "to" names the module that will handle the message.
Event(time, prio, to, msg) == [time |-> time, prio |-> prio, to |-> to, msg |-> msg]

NotAfter(e, f) == e.time < f.time \/ (e.time = f.time /\ e.prio =< f.prio)

\* The position of the first event that comes after e, or 0.
firstAfter(fes, e) == SelectInSeq(fes, LAMBDA f : ~NotAfter(f, e))

\* Events of one time and priority, put before the first that comes after them.
scheduleAll(fes, events) ==
    LET next == firstAfter(fes, Head(events)) IN
    IF events = <<>> THEN fes
    ELSE IF next = 0 THEN fes \o events
    ELSE SubSeq(fes, 1, next - 1) \o events \o SubSeq(fes, next, Len(fes))
scheduleAt(fes, e) == scheduleAll(fes, <<e>>)

\* The event for "to", of which one is scheduled at most.
cancelEvent(fes, to) == RemoveFirstMatch(fes, LAMBDA e : e.to = to)
isScheduled(fes, to) == \E i \in DOMAIN fes : fes[i].to = to
===============================================================================
