----------------------------- MODULE OxrEvents ------------------------------
(***************************************************************************)
(* The event queue of an OpenXR instance: a linked list with a pointer to  *)
(* the first and one to the last event, filled by the sessions, emptied by *)
(* xrPollEvent, and cleared of a session's events when it is destroyed.    *)
(* All of it happens under the mutex of the queue.                         *)
(***************************************************************************)
EXTENDS Integers, Sequences

CONSTANTS
  Sessions,     \* the sessions of the instance
  MaxEvents     \* bound: events that are made; each has its own address

NULL == 0
Addresses == 1..MaxEvents

VARIABLES
  head,         \* inst->event.next
  last,         \* inst->event.last
  next,         \* the field of each event
  session,      \* the session each event refers to
  known,        \* is_session_link_to_event knows the type of the event
  freed,        \* the addresses that were freed
  made,         \* how many events were made
  sessions      \* the sessions that were not destroyed

vars == <<head, last, next, session, known, freed, made, sessions>>

\* The list from event e on: Chain[k][e] has at most k events.
Chain[k \in 0..MaxEvents] ==
  [e \in Addresses \union {NULL} |->
     IF k = 0 \/ e = NULL THEN <<>> ELSE <<e>> \o Chain[k - 1][next[e]]]

List == Chain[MaxEvents][head]
Elements(s) == {s[i] : i \in DOMAIN s}

\* Every oxr_event_push_*: the event is made and pushed.
Push(s, k) ==
  LET e == made + 1
  IN  /\ made < MaxEvents
      /\ s \in sessions
      /\ made' = e
      /\ session' = [session EXCEPT ![e] = s]
      /\ known' = [known EXCEPT ![e] = k]
      /\ next' = IF last # NULL THEN [next EXCEPT ![last] = e] ELSE next
      /\ last' = e
      /\ head' = IF head = NULL THEN e ELSE head
      /\ UNCHANGED <<freed, sessions>>

\* oxr_poll_event with pop: the first event is given to the application and freed.
Pop ==
  /\ head # NULL
  /\ head' = next[head]
  /\ next' = [next EXCEPT ![head] = NULL]
  /\ last' = IF head = last THEN NULL ELSE last
  /\ freed' = freed \union {head}
  /\ UNCHANGED <<session, known, made, sessions>>

\* is_session_link_to_event: three types of events only.
IsLinked(e, s) == known[e] /\ session[e] = s

\* oxr_event_remove_session_events, when session s is destroyed.  An event is taken
\* out of the list only when it is the first one at that moment.
RemoveSessionEvents(s) ==
  LET removed == {e \in Elements(List) : IsLinked(e, s)}
      stay == {i \in DOMAIN List : List[i] \notin removed}
  IN  /\ s \in sessions
      /\ sessions' = sessions \ {s}
      /\ head' = IF stay = {} THEN NULL
                 ELSE List[CHOOSE i \in stay : \A j \in stay : i <= j]
      /\ last' = IF last \in removed THEN NULL ELSE last
      /\ freed' = freed \union removed
      /\ UNCHANGED <<next, session, known, made>>

Init ==
  /\ head = NULL
  /\ last = NULL
  /\ next = [e \in Addresses |-> NULL]
  /\ session = [e \in Addresses |-> CHOOSE s \in Sessions : TRUE]
  /\ known = [e \in Addresses |-> FALSE]
  /\ freed = {}
  /\ made = 0
  /\ sessions = Sessions

Next ==
  \/ Pop
  \/ \E s \in Sessions : RemoveSessionEvents(s) \/ \E k \in BOOLEAN : Push(s, k)

Spec == Init /\ [][Next]_vars

\* "This clears all pending events refers to the given session": an event that was
\* cleared is no longer in the list from which xrPollEvent takes the next one.
ClearedEventsAreGone == Elements(List) \intersect freed = {}
=============================================================================
