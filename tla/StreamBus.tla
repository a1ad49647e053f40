------------------------------ MODULE StreamBus ------------------------------
(***************************************************************************)
(* The in-memory broadcast of agent events to the connections of a session *)
(* (internal/controlplane/streambus.go).                                   *)
(*                                                                         *)
(* publish copies the slice header of a session's channels under the read  *)
(* lock and walks the backing array without it.  subscribe may write into  *)
(* that array and unsub shifts it in place, so a publisher that shares the *)
(* array sees the change; it keeps the array it has when subscribe moves   *)
(* to a larger one or the session's entry is deleted.  A send on a channel *)
(* that unsub has closed panics, which ends the server.                    *)
(*                                                                         *)
(* MaxMessages bounds what an agent emits.                                 *)
(***************************************************************************)
EXTENDS Naturals, Sequences, FiniteSets, SequencesExt

CONSTANTS Sessions,
          Subscribers,   \* connections; each also names its channel
          Publishers,    \* goroutines of agent turns
          Capacity,      \* of a channel (64 in the code)
          MaxMessages,
          None           \* an unused cell of an array

ASSUME BusAssumption ==
    /\ Capacity \in Nat \ {0}
    /\ MaxMessages \in Nat
    /\ None \notin Subscribers

VARIABLES
    up,       \* whether the server runs
    subs,     \* per session: the array's cells and the slice's length
    channel,  \* per subscriber: its channel
    got,      \* per subscriber: what its handler took from the channel
    pub       \* per publisher: its session, what it has emitted and its walk

vars == <<up, subs, channel, got, pub>>

Empty == [cells |-> <<>>, len |-> 0]
Live(s) == SubSeq(subs[s].cells, 1, subs[s].len)

Cell    == Subscribers \cup {None}
Event   == [from : Publishers, session : Sessions, n : Nat]
AtRest  == [pc : {"idle"}, session : Sessions, sent : SUBSET (1..MaxMessages)]
OnAWalk == [pc : {"sending"}, session : Sessions, sent : SUBSET (1..MaxMessages), n : 1..MaxMessages,
            i : Nat, len : Nat, shared : BOOLEAN, cells : Seq(Cell)]

TypeOK ==
    /\ up \in BOOLEAN
    /\ subs \in [Sessions -> [cells : Seq(Cell), len : Nat]]
    /\ \A s \in Sessions : subs[s].len <= Len(subs[s].cells)
    /\ channel \in [Subscribers -> [state : {"none", "open", "closed"}, session : Sessions \cup {None},
                                    buf : Seq(Event)]]
    /\ \A c \in Subscribers : /\ Len(channel[c].buf) <= Capacity
                              /\ channel[c].state # "none" => channel[c].session \in Sessions
    /\ got \in [Subscribers -> Seq(Event)]
    /\ pub \in [Publishers -> AtRest \cup OnAWalk]

Init ==
    /\ up = TRUE
    /\ subs = [s \in Sessions |-> Empty]
    /\ channel = [c \in Subscribers |-> [state |-> "none", session |-> None, buf |-> <<>>]]
    /\ got = [c \in Subscribers |-> <<>>]
    /\ pub \in [Publishers -> {[pc |-> "idle", session |-> s, sent |-> {}] : s \in Sessions}]

(***************************************************************************)
(* subscribe and unsub, each one critical section                          *)
(***************************************************************************)
Walking(p, s) == pub[p].pc = "sending" /\ pub[p].session = s /\ pub[p].shared

(* The session gets another array: walks over the old one keep it. *)
Detach(s) == pub' = [p \in Publishers |->
    IF Walking(p, s) THEN [pub[p] EXCEPT !.shared = FALSE, !.cells = subs[s].cells] ELSE pub[p]]

(* append: in place while the array has room, else into one twice as large. *)
Add(s, c) ==
    LET array  == subs[s]
        double == IF array.len = 0 THEN 1 ELSE 2 * array.len
    IN  IF array.len < Len(array.cells)
        THEN /\ subs' = [subs EXCEPT ![s] = [cells |-> [@.cells EXCEPT ![array.len + 1] = c],
                                             len   |-> array.len + 1]]
             /\ UNCHANGED pub
        ELSE /\ subs' = [subs EXCEPT ![s] =
                   [cells |-> [i \in 1..double |-> IF i <= array.len THEN array.cells[i]
                                                   ELSE IF i = array.len + 1 THEN c ELSE None],
                    len   |-> array.len + 1]]
             /\ Detach(s)

Subscribe(c, s) ==
    /\ up /\ channel[c].state = "none"
    /\ channel' = [channel EXCEPT ![c] = [state |-> "open", session |-> s, buf |-> <<>>]]
    /\ Add(s, c)
    /\ UNCHANGED <<up, got>>

(* append(chans[:i], chans[i+1:]...): the rest moves one cell forward and  *)
(* the last cell keeps its value.                                          *)
Shifted(array, i) ==
    [cells |-> [j \in DOMAIN array.cells |->
                   IF j \in i..array.len - 1 THEN array.cells[j + 1] ELSE array.cells[j]],
     len   |-> array.len - 1]

(* Fault: the slice is cut at the end, whichever channel leaves. *)
UnsubscribeLast(c) ==
    LET s == channel[c].session
    IN  /\ up /\ channel[c].state = "open"
        /\ channel' = [channel EXCEPT ![c].state = "closed"]
        /\ subs' = [subs EXCEPT ![s].len = @ - 1]
        /\ UNCHANGED <<up, got, pub>>

(* When the connection's handler returns. *)
Unsubscribe(c) ==
    LET s == channel[c].session
        i == CHOOSE j \in 1..subs[s].len : subs[s].cells[j] = c
    IN  /\ up /\ channel[c].state = "open"
        /\ channel' = [channel EXCEPT ![c].state = "closed"]
        /\ IF subs[s].len = 1
           THEN subs' = [subs EXCEPT ![s] = Empty] /\ Detach(s)
           ELSE subs' = [subs EXCEPT ![s] = Shifted(@, i)] /\ UNCHANGED pub
        /\ UNCHANGED <<up, got>>

(***************************************************************************)
(* busEmitter.Emit and publish                                             *)
(***************************************************************************)
StartWith(p, n, cells, len) ==
    /\ up /\ pub[p].pc = "idle"
    /\ pub' = [pub EXCEPT ![p] = IF len = 0 THEN [pub[p] EXCEPT !.sent = pub[p].sent \cup {n}]
                                 ELSE [pc |-> "sending", session |-> pub[p].session, sent |-> pub[p].sent,
                                       n |-> n, i |-> 1, len |-> len, shared |-> cells = <<>>, cells |-> cells]]
    /\ UNCHANGED <<up, subs, channel, got>>

(* Fault: each event is published by a goroutine of its own. *)
PublishStartAsync(p) ==
    \E n \in 1..MaxMessages \ pub[p].sent : StartWith(p, n, <<>>, subs[pub[p].session].len)

(* The runner emits its next event and waits until publish returns. *)
PublishStart(p) ==
    LET n == Cardinality(pub[p].sent) + 1
    IN  n <= MaxMessages /\ StartWith(p, n, <<>>, subs[pub[p].session].len)

Target(p) == (IF pub[p].shared THEN subs[pub[p].session].cells ELSE pub[p].cells)[pub[p].i]

Advance(p) ==
    pub' = [pub EXCEPT ![p] = IF pub[p].i < pub[p].len THEN [pub[p] EXCEPT !.i = pub[p].i + 1]
                              ELSE [pc |-> "idle", session |-> pub[p].session,
                                    sent |-> pub[p].sent \cup {pub[p].n}]]

Message(p) == [from |-> p, session |-> pub[p].session, n |-> pub[p].n]
HasRoom(c) == Len(channel[c].buf) < Capacity

(* Fault: the send waits for room. *)
PublishSendBlocking(p) ==
    /\ up /\ pub[p].pc = "sending" /\ channel[Target(p)].state = "open" /\ HasRoom(Target(p))
    /\ channel' = [channel EXCEPT ![Target(p)].buf = Append(@, Message(p))]
    /\ Advance(p)
    /\ UNCHANGED <<up, subs, got>>

(* One iteration: sent, dropped for want of room, or the panic. *)
PublishSend(p) ==
    LET c == Target(p)
    IN  /\ up /\ pub[p].pc = "sending"
        /\ \/ /\ channel[c].state = "open" /\ HasRoom(c)
              /\ channel' = [channel EXCEPT ![c].buf = Append(@, Message(p))]
              /\ Advance(p) /\ UNCHANGED up
           \/ /\ channel[c].state = "open" /\ ~HasRoom(c)
              /\ Advance(p) /\ UNCHANGED <<up, channel>>
           \/ /\ channel[c].state = "closed"
              /\ up' = FALSE /\ UNCHANGED <<channel, pub>>
        /\ UNCHANGED <<subs, got>>

(* The connection's handler takes a message and writes it to the client. *)
Receive(c) ==
    /\ up /\ channel[c].state = "open" /\ channel[c].buf # <<>>
    /\ got' = [got EXCEPT ![c] = Append(@, Head(channel[c].buf))]
    /\ channel' = [channel EXCEPT ![c].buf = Tail(@)]
    /\ UNCHANGED <<up, subs, pub>>

Next ==
    \/ \E c \in Subscribers : \/ \E s \in Sessions : Subscribe(c, s)
                              \/ Unsubscribe(c) \/ Receive(c)
    \/ \E p \in Publishers : PublishStart(p) \/ PublishSend(p)

(* A publisher's goroutine goes on; no client is assumed to read. *)
Spec == Init /\ [][Next]_vars
FairSpec == Spec /\ \A p \in Publishers : WF_vars(PublishSend(p))

(***************************************************************************)
(* Properties                                                              *)
(***************************************************************************)
(* A session's slice lists exactly its open channels, each once, whatever  *)
(* order they come and go in: in-place removal and growth lose none and    *)
(* leave none behind (subscribe, unsub).                                   *)
ListsOpenChannels ==
    \A s \in Sessions :
        /\ IsInjective(Live(s))
        /\ Range(Live(s)) = {c \in Subscribers : channel[c].state = "open" /\ channel[c].session = s}

Taken(c) == got[c] \o channel[c].buf

(* A connection is sent its own session's messages only, even by a          *)
(* publisher that walks an array which others have since changed or left,   *)
(* and each agent's in the order they were emitted: dropped, skipped or     *)
(* repeated, never swapped (Emit, publish).                                 *)
DeliveredAsEmitted ==
    \A c \in Subscribers :
        /\ \A m \in Range(Taken(c)) : m.session = channel[c].session
        /\ \A i, j \in DOMAIN Taken(c) :
              i < j /\ Taken(c)[i].from = Taken(c)[j].from => Taken(c)[i].n <= Taken(c)[j].n

(* An agent is never held up by its audience: publish returns even when no *)
(* client reads, unless the server goes down (the default case of publish). *)
PublishReturns == \A p \in Publishers : pub[p].pc = "sending" ~> (pub[p].pc = "idle" \/ ~up)

(* A statement of the documents that the code does not keep (see README):  *)
(* publishing after a connection has left does not panic.                  *)
NeverPanics == up

(***************************************************************************)
(* The inductive invariant                                                 *)
(***************************************************************************)
(* A cell of a session's array, live or left over, names a channel of that *)
(* session; one that a publisher walks is never unused.                    *)
Belongs(c, s) == c \in Subscribers /\ channel[c].state # "none" /\ channel[c].session = s
CellsBelong ==
    \A s \in Sessions : \A i \in DOMAIN subs[s].cells :
        subs[s].cells[i] # None => Belongs(subs[s].cells[i], s)

Walked(p) == IF pub[p].shared THEN subs[pub[p].session].cells ELSE pub[p].cells
WalksAreSafe ==
    \A p \in Publishers : pub[p].pc = "sending" =>
        /\ pub[p].i \in 1..pub[p].len /\ pub[p].len <= Len(Walked(p))
        /\ \A j \in 1..pub[p].len : Belongs(Walked(p)[j], pub[p].session)

(* A publisher emits 1, 2, and so on; what is delivered was emitted, and   *)
(* nothing is delivered to a channel before it is there.                   *)
EmitsInOrder ==
    \A p \in Publishers : \E k \in 0..MaxMessages :
        pub[p].sent = 1..k /\ (pub[p].pc = "sending" => pub[p].n = k + 1)
Latest(p) == IF pub[p].pc = "sending" THEN pub[p].n ELSE Cardinality(pub[p].sent)
DeliversEmitted ==
    \A c \in Subscribers :
        /\ \A i \in DOMAIN Taken(c) : Taken(c)[i].n <= Latest(Taken(c)[i].from)
        /\ channel[c].state = "none" => got[c] = <<>> /\ channel[c].buf = <<>>

BusInv ==
    /\ TypeOK /\ ListsOpenChannels /\ CellsBelong /\ WalksAreSafe
    /\ EmitsInOrder /\ DeliversEmitted /\ DeliveredAsEmitted
==============================================================================
