------------------------------ MODULE EventLog ------------------------------
(***************************************************************************)
(* The events table of the audit store and what its readers make of it:    *)
(* the order in which the queries return events, the two ways the session  *)
(* manager derives sessions from them, and the cursor of the event stream. *)
(*                                                                         *)
(* The log is a set of rows with rowids.  A row keeps the instant its      *)
(* writer read from the clock (`at', in ticks) and its type, which says    *)
(* whether the writer formatted the local time (session_started and        *)
(* turn_started) or UTC (every other event): the queries sort the          *)
(* formatted text, the stream compares the instants.                       *)
(***************************************************************************)
EXTENDS Integers, Sequences, FiniteSets, SequencesExt

CONSTANTS PerSecond,   \* ticks in a second
          Places,      \* what the digits of a fraction are worth, in ticks; PerSecond is one
          Zone         \* the server's offset from UTC, in seconds

ASSUME EventLogAssumption ==
    PerSecond \in Nat \ {0} /\ Places \subseteq 1..PerSecond /\ {1, PerSecond} \subseteq Places
    /\ Zone \in Int

(* Writers that format time.Now() without UTC(). *)
LocalTypes == {"session_started", "turn_started"}

(* RFC 3339 text, as a number that orders as the text does.  Zeros at the   *)
(* end of the fraction are cut, with the point when nothing is left.  What  *)
(* then follows the last digit is a Z, which sorts after every digit and    *)
(* the point, or the sign of an offset, which sorts before them.            *)
TextKey(e) ==
    LET local   == e.type \in LocalTypes /\ Zone # 0
        shifted == e.at + (IF local THEN Zone * PerSecond ELSE 0)
        cut     == Max({p \in Places : shifted % p = 0})
    IN  IF local THEN shifted * (PerSecond + 1)
                 ELSE (shifted + cut - 1) * (PerSecond + 1) + cut

(* Fault: the order of insertion, without ORDER BY timestamp. *)
InsertionOrder(log) ==
    [i \in 1..Cardinality(log) |-> CHOOSE e \in log : Cardinality({f \in log : f.id < e.id}) = i - 1]

(* ORDER BY timestamp ASC, rowid ASC *)
Before(a, b) == TextKey(a) < TextKey(b) \/ (TextKey(a) = TextKey(b) /\ a.id < b.id)
Sorted(log) ==
    [i \in 1..Cardinality(log) |-> CHOOSE e \in log : Cardinality({f \in log : Before(f, e)}) = i - 1]

(* The rows whose order a query gives is their order in time. *)
SortsByTime(S) == \A e, f \in S : e.at < f.at => Before(e, f)

QueryBySession(log, s)  == Sorted({e \in log : e.session = s})
DeleteBySession(log, s) == {e \in log : e.session # s}
Second(at) == at - (at % PerSecond)

(***************************************************************************)
(* The session manager keeps no state: both readers derive it.             *)
(***************************************************************************)
isDeleteEvent(e) == e.type \in {"session_soft_deleted", "session_tombstoned"}

(* Fault: any event of the session that is not a deletion makes it exist. *)
FoundByAnyEvent(log, s) ==
    /\ \E e \in log : e.session = s
    /\ \A e \in log : e.session = s => ~isDeleteEvent(e)

(* Get finds a session that has a session_started and no deletion. *)
Found(log, s) ==
    /\ \E e \in log : e.session = s /\ e.type = "session_started"
    /\ \A e \in log : e.session = s => ~isDeleteEvent(e)

(* It was created by the first session_started of its events, and was       *)
(* updated by the last of them.                                             *)
Get(log, s) ==
    LET events == QueryBySession(log, s)
        starts == {e \in log : e.session = s /\ e.type = "session_started"}
    IN  [created |-> Sorted(starts)[1].at, updated |-> events[Len(events)].at]

(* One pass over all events; a session exists from its session_started on. *)
ListStep(acc, e) ==
    LET isNew == e.type = "session_started" /\ \A x \in acc.sessions : x.id # e.session
    IN  [deleted  |-> acc.deleted \cup (IF isDeleteEvent(e) THEN {e.session} ELSE {}),
         sessions |->
            {[x EXCEPT !.updated = IF x.id = e.session /\ e.at > @ THEN e.at ELSE @] : x \in acc.sessions}
            \cup (IF isNew THEN {[id |-> e.session, created |-> e.at, updated |-> e.at]} ELSE {})]

List(log) ==
    LET all == FoldLeft(ListStep, [deleted |-> {}, sessions |-> {}], Sorted(log))
    IN  {x \in all.sessions : x.id \notin all.deleted}

(***************************************************************************)
(* The event stream's cursor: an instant, an event id (0 for none) and     *)
(* whether the instant was given in whole seconds.                         *)
(***************************************************************************)
NoCursor == [at |-> -1, id |-> 0, coarse |-> FALSE]
parseEventCursor(e, coarse) == [at |-> IF coarse THEN Second(e.at) ELSE e.at, id |-> e.id,
                                coarse |-> coarse \/ e.at % PerSecond = 0]
CursorAt(cursor, e) == [cursor EXCEPT !.at = e.at, !.id = e.id]

eventsSince(log, s, cursor) == {e \in log : e.session = s /\ e.at >= cursor.at}

(* Events of the second that a coarse cursor names are not later than it.   *)
InCursorSecond(cursor, e) == cursor.coarse /\ Second(e.at) = cursor.at

(* Fault: events of the cursor's instant count as later. *)
LaterOrSame(cursor, e) == ~InCursorSecond(cursor, e) /\ e.at >= cursor.at

Later(cursor, e) == ~InCursorSecond(cursor, e) /\ e.at > cursor.at

(* Fault: the stream goes on only from the cursor's own row. *)
NewEventsFromRow(log, s, cursor) ==
    LET events == eventsSince(log, s, cursor)
    IN  Sorted({e \in events : cursor.id = 0 \/ \E own \in events : own.id = cursor.id /\ Before(own, e)})

(* The loop over the events sends those that come after the cursor's own,   *)
(* and all from the first on that is later than the cursor.                 *)
NewEvents(log, s, cursor) ==
    LET events    == eventsSince(log, s, cursor)
        Passed(e) == \E f \in events : (Later(cursor, f) \/ f.id = cursor.id) /\ Before(f, e)
    IN  Sorted({e \in events : cursor.id = 0 \/ Later(cursor, e) \/ Passed(e)})
=============================================================================
