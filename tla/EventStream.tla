----------------------------- MODULE EventStream -----------------------------
(***************************************************************************)
(* Sessions, the writers of their events and the clients that follow them  *)
(* over the event stream, on one event store.                              *)
(*                                                                         *)
(* A writer reads the clock and appends its row later (`pending'), so rows *)
(* become visible out of the order of their timestamps.  A deletion looks  *)
(* at the session, reads the clock, deletes and appends its marker in      *)
(* separate steps.  A connection polls: it queries all events of the       *)
(* session since its cursor and writes those after the cursor one by one,  *)
(* and the client may reconnect with the last event it received as the     *)
(* cursor, or ask for all events since some time.                          *)
(*                                                                         *)
(* MaxClock and MaxRows bound the clock and the rows ever appended, and    *)
(* MaxReceived the events after which a client is not served again: where  *)
(* text does not sort as time, the loop may send the same ones for ever.   *)
(***************************************************************************)
EXTENDS EventLog

CONSTANTS Sessions, Clients, MaxClock, MaxRows, MaxPending, MaxReceived,
          Sinces,     \* the times a client may ask for all events since
          Watched,    \* the rows CaughtUp is checked for
          Deletions   \* how many calls of Delete may start

ASSUME StreamAssumption ==
    /\ {MaxClock, MaxRows, MaxPending, MaxReceived, Deletions} \subseteq Nat
    /\ Watched \subseteq Nat /\ Sinces \subseteq Nat

VARIABLES
    clock,      \* the server's clock, in ticks
    log,        \* rows of the events table
    rows,       \* rows appended so far
    used,       \* the session ids handed out (fresh UUIDs)
    pending,    \* events stamped by their writers and not yet appended
    deletion,   \* the call of Manager.Delete in progress
    conn,       \* per client: its connection
    received    \* per client: the events it has received, across reconnections

storeVars  == <<log, rows>>
streamVars == <<conn, received>>
vars == <<clock, storeVars, used, pending, deletion, streamVars>>

Off == [pc |-> "off"]
NoDeletion(left) == [pc |-> "idle", left |-> left]

TypeOK ==
    /\ clock \in 1..MaxClock + 1 /\ rows \in 0..MaxRows
    /\ \A e \in log : e.id \in 1..rows /\ e.at \in 0..clock /\ e.session \in Sessions
    /\ \A e, f \in log : e.id = f.id => e = f
    /\ \A c \in Clients : conn[c].pc \in {"off", "waiting", "sending"}
    /\ \A c \in Clients : \A i \in DOMAIN received[c] : received[c][i].id \in 1..rows

Init ==
    /\ clock = 1 /\ log = {} /\ rows = 0 /\ used = {}
    /\ pending = {}
    /\ deletion = NoDeletion(Deletions)
    /\ conn = [c \in Clients |-> Off] /\ received = [c \in Clients |-> <<>>]

Tick ==
    /\ clock < MaxClock
    /\ clock' = clock + 1
    /\ UNCHANGED <<storeVars, used, pending, deletion, streamVars>>

(* One INSERT. *)
Insert(s, type, at) ==
    /\ rows < MaxRows
    /\ rows' = rows + 1
    /\ log' = log \cup {[id |-> rows + 1, session |-> s, type |-> type, at |-> at]}

(***************************************************************************)
(* Writers                                                                 *)
(***************************************************************************)
(* A session's id is a fresh UUID, so it is created once.  Handlers look up *)
(* the session they write to; an agent, whose turn was created when the    *)
(* session was there, does not look again (runAgentTurn).                  *)
Hold(e) == Cardinality(pending) < MaxPending /\ pending' = pending \cup {e}

Create(s) ==
    /\ s \notin used /\ used' = used \cup {s}
    /\ Hold([type |-> "session_started", session |-> s, at |-> clock])
    /\ UNCHANGED <<clock, storeVars, deletion, streamVars>>

Starting(s) == \E e \in pending : e.session = s /\ e.type = "session_started"

Stamp(s, type) ==
    /\ Found(log, s) \/ (type = "turn_completed" /\ s \in used /\ ~Starting(s))
    /\ Hold([type |-> type, session |-> s, at |-> clock])
    /\ UNCHANGED <<clock, storeVars, used, deletion, streamVars>>

Store(e) ==
    /\ Insert(e.session, e.type, e.at)
    /\ pending' = pending \ {e}
    /\ UNCHANGED <<clock, used, deletion, streamVars>>

(***************************************************************************)
(* Manager.Delete                                                          *)
(***************************************************************************)
Modes == {"soft", "hard", "tombstone"}

DeleteStart(s, mode) ==
    /\ deletion.pc = "idle" /\ deletion.left > 0
    /\ QueryBySession(log, s) # <<>>
    /\ deletion' = [pc |-> IF mode = "soft" THEN "mark" ELSE "rows", session |-> s, mode |-> mode,
                    at |-> clock, left |-> deletion.left - 1]
    /\ UNCHANGED <<clock, storeVars, used, pending, streamVars>>

(* The rows are deleted, or the store fails and Delete returns its error. *)
DeleteRows ==
    /\ deletion.pc = "rows"
    /\ \/ /\ log' = DeleteBySession(log, deletion.session)
          /\ deletion' = IF deletion.mode = "hard" THEN NoDeletion(deletion.left)
                                                   ELSE [deletion EXCEPT !.pc = "mark"]
       \/ UNCHANGED log /\ deletion' = NoDeletion(deletion.left)
    /\ UNCHANGED <<clock, rows, used, pending, streamVars>>

(* The marker, or a failed append: the deletion then leaves no marker. *)
DeleteMark ==
    /\ deletion.pc = "mark"
    /\ \/ Insert(deletion.session, IF deletion.mode = "soft" THEN "session_soft_deleted"
                                                              ELSE "session_tombstoned", deletion.at)
       \/ UNCHANGED storeVars
    /\ deletion' = NoDeletion(deletion.left)
    /\ UNCHANGED <<clock, used, pending, streamVars>>

(***************************************************************************)
(* The event stream                                                        *)
(***************************************************************************)
LastReceived(c) == Last(received[c])

(* A client asks for all events of a session, or for all since some time,  *)
(* or resumes after the last event it received, with the event's full      *)
(* timestamp or its whole second.                                          *)
ConnectAt(c, s, cursor) ==
    /\ conn[c].pc = "off" /\ Found(log, s)
    /\ conn' = [conn EXCEPT ![c] = [pc |-> "waiting", session |-> s, cursor |-> cursor]]

Since(time) == [at |-> time, id |-> 0, coarse |-> time % PerSecond = 0]
StartCursors == {NoCursor} \cup {Since(time) : time \in Sinces}

Connect(c, s, since) ==
    /\ ConnectAt(c, s, since)
    /\ received' = [received EXCEPT ![c] = <<>>]
    /\ UNCHANGED <<clock, storeVars, used, pending, deletion>>

Resume(c, coarse) ==
    /\ received[c] # <<>>
    /\ ConnectAt(c, LastReceived(c).session, parseEventCursor(LastReceived(c), coarse))
    /\ UNCHANGED <<clock, storeVars, used, pending, deletion, received>>

Poll(c) ==
    /\ conn[c].pc = "waiting" /\ Len(received[c]) < MaxReceived
    /\ LET batch == NewEvents(log, conn[c].session, conn[c].cursor)
       IN  /\ batch # <<>>
           /\ conn' = [conn EXCEPT ![c] = [pc |-> "sending", session |-> conn[c].session,
                                           cursor |-> conn[c].cursor, batch |-> batch]]
    /\ UNCHANGED <<clock, storeVars, used, pending, deletion, received>>

Send(c) ==
    /\ conn[c].pc = "sending"
    /\ LET e    == Head(conn[c].batch)
           rest == Tail(conn[c].batch)
           next == CursorAt(conn[c].cursor, e)
       IN  /\ received' = [received EXCEPT ![c] = Append(@, e)]
           /\ conn' = [conn EXCEPT ![c] =
                  IF rest = <<>>
                  THEN [pc |-> "waiting", session |-> conn[c].session, cursor |-> next]
                  ELSE [pc |-> "sending", session |-> conn[c].session, cursor |-> next, batch |-> rest]]
    /\ UNCHANGED <<clock, storeVars, used, pending, deletion>>

(* The client goes away, or a write fails. *)
Disconnect(c) ==
    /\ conn[c].pc # "off"
    /\ conn' = [conn EXCEPT ![c] = Off]
    /\ UNCHANGED <<clock, storeVars, used, pending, deletion, received>>

Next ==
    \/ Tick
    \/ \E e \in pending : Store(e)
    \/ \E s \in Sessions : Create(s)
    \/ \E s \in Sessions, type \in {"turn_started", "turn_completed"} : Stamp(s, type)
    \/ \E s \in Sessions, mode \in Modes : DeleteStart(s, mode)
    \/ DeleteRows \/ DeleteMark
    \/ \E c \in Clients : \/ Poll(c) \/ Send(c) \/ Disconnect(c)
                          \/ \E s \in Sessions, since \in StartCursors : Connect(c, s, since)
                          \/ \E coarse \in BOOLEAN : Resume(c, coarse)

(* A connection's goroutine keeps polling and writing. *)
Fairness == \A c \in Clients : WF_vars(Poll(c) \/ Send(c))
Spec == Init /\ [][Next]_vars
FairSpec == Spec /\ Fairness

(***************************************************************************)
(* Properties                                                              *)
(***************************************************************************)
(* A client receives no event twice and all in the order of their times,    *)
(* however events become visible while it reads, whatever is deleted, and   *)
(* across its reconnections (streamNewEvents, parseEventCursor), as long as *)
(* the queries sort what it received by time.                               *)
DeliveredOnceInOrder ==
    \A c \in Clients : SortsByTime(Range(received[c])) =>
        \A i, j \in DOMAIN received[c] :
            i < j => /\ received[c][i].id # received[c][j].id
                     /\ received[c][i].at <= received[c][j].at

(* The two derivations of a session, Get's from its own events and List's   *)
(* from one pass over all events, agree on which sessions there are and     *)
(* when they were created, and on when a session last changed if the        *)
(* queries sort its events by time.                                         *)
ListAgreesWithGet ==
    /\ {x.id : x \in List(log)} = {s \in Sessions : Found(log, s)}
    /\ \A x \in List(log) :
          /\ x.created = Get(log, x.id).created
          /\ SortsByTime({e \in log : e.session = x.id}) => x.updated = Get(log, x.id).updated

(* A session that is gone stays gone: no event a writer had in hand when    *)
(* the session was deleted, and no second deletion, brings it back.         *)
Gone(s) == /\ s \in used /\ ~Found(log, s)
           /\ ~Starting(s)
DeletedStaysDeleted == [][\A s \in Sessions : Gone(s) => ~Found(log', s)]_vars

(* A stored event in a later second than a waiting connection's cursor      *)
(* reaches its client, unless the connection ends or the row is deleted: a  *)
(* cursor whose own row was deleted does not stall the stream.              *)
Ahead(c, id) == /\ conn[c].pc = "waiting"
                /\ \E e \in log : /\ e.id = id /\ e.session = conn[c].session
                                  /\ Second(e.at) > conn[c].cursor.at
Reached(c, id) == \/ conn[c].pc = "off" \/ \A e \in log : e.id # id
                  \/ \E e \in Range(received[c]) : e.id = id
                  \/ Len(received[c]) >= MaxReceived
CaughtUp == \A c \in Clients, id \in Watched : Ahead(c, id) ~> Reached(c, id)

(* A statement of the documents that the code does not keep (see README):   *)
(* the durable record is replayed from the last received event, so when a   *)
(* connection has written what it read and waits, its client has every      *)
(* stored event of the session from before the last one it received.        *)
NothingMissed ==
    \A c \in Clients : conn[c].pc = "waiting" /\ received[c] # <<>> =>
        \A e \in log : e.session = conn[c].session /\ e.at < LastReceived(c).at
            => e \in Range(received[c])
=============================================================================
