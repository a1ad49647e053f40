-------------------------- MODULE EventStreamProofs --------------------------
(* What holds of EventStream for every value of its constants. *)
EXTENDS EventStream, FiniteSetTheorems, SequenceTheorems, TLAPS

Facts == INSTANCE SequenceFacts WITH Op <- LAMBDA p, acc, e : ListStep(acc, e)

----------------------------------------------------------------------------
(* The clock and the text of a time. *)

Instants == Nat

\* A number is its quotient and its remainder.
LEMMA Parts ==
  ASSUME NEW n \in Nat
  PROVE  \E q \in Nat, r \in 0..PerSecond - 1 :
           q = n \div PerSecond /\ r = n % PerSecond /\ n = PerSecond * q + r
<1>1. PICK m \in Nat \ {0} : m = PerSecond
  BY EventLogAssumption
<1>2. n \div m \in Nat /\ n % m \in 0..m - 1
  OBVIOUS
<1>3. PICK q \in Nat, r \in 0..m - 1 : q = n \div m /\ r = n % m
  BY <1>2
<1>4. n = m * q + r
  BY <1>3
<1> QED BY <1>1, <1>3, <1>4

\* Quotients decide between two numbers, and remainders when they are equal.
LEMMA Compare ==
  ASSUME NEW m \in Nat, NEW q \in Nat, NEW p \in Nat, NEW r \in Nat, NEW s \in Nat,
         q < p, r < m
  PROVE  m * q + r < m * p + s
<1>1. PICK d \in Nat : p = q + 1 + d
  <2>1. p - q - 1 \in Nat /\ p = q + 1 + (p - q - 1)
    OBVIOUS
  <2> QED BY <2>1
<1>2. PICK x \in Nat, y \in Nat : x = m * q /\ y = m * d
  OBVIOUS
<1>3. m * p = x + m + y
  BY <1>1, <1>2
<1> QED BY <1>2, <1>3

\* The second of a time is that of all times from its start to it.
LEMMA SameSecond ==
  ASSUME NEW a \in Nat, NEW x \in Nat, Second(a) <= x, x <= a
  PROVE  Second(x) = Second(a)
<1>1. PICK q \in Nat, r \in 0..PerSecond - 1 :
        /\ q = a \div PerSecond /\ r = a % PerSecond /\ a = PerSecond * q + r
  BY Parts
<1>2. PICK p \in Nat, s \in 0..PerSecond - 1 :
        /\ p = x \div PerSecond /\ s = x % PerSecond /\ x = PerSecond * p + s
  BY Parts
<1>3. PICK m \in Nat \ {0} : m = PerSecond
  BY EventLogAssumption
<1>4. Second(a) = m * q /\ Second(x) = m * p
  BY <1>1, <1>2, <1>3 DEF Second
<1>5. ~(q < p)
  <2>1. q < p => m * q + r < m * p + s
    BY <1>1, <1>2, <1>3, Compare
  <2> QED BY <1>1, <1>2, <1>3, <2>1
<1>6. ~(p < q)
  <2>1. p < q => m * p + s < m * q + 0
    BY <1>1, <1>2, <1>3, Compare
  <2> QED BY <1>1, <1>2, <1>3, <1>4, <2>1
<1>7. p = q
  BY <1>5, <1>6
<1> QED BY <1>4, <1>7

----------------------------------------------------------------------------
(* The order of a query. *)

EventTypes == {"session_started", "turn_started", "turn_completed",
               "session_soft_deleted", "session_tombstoned"}

Row == [id : Nat, session : Sessions, type : EventTypes, at : Instants]

OneRowPerId(S) == \A a, b \in S : a.id = b.id => a = b

Rows(S) == S \subseteq Row /\ IsFiniteSet(S) /\ OneRowPerId(S)

\* Of what the digits that may be cut are worth, one is the most.
LEMMA CutIs ==
  ASSUME NEW n \in Nat, NEW P \in SUBSET (1..n), P # {}
  PROVE  Max(P) \in P
<1>1. PICK T : T = {n - p : p \in P}
  OBVIOUS
<1>2. T \in SUBSET Nat /\ T # {}
  <2>1. \A p \in P : n - p \in Nat /\ n - p \in T
    BY <1>1
  <2>2. PICK p : p \in P
    OBVIOUS
  <2> QED BY <1>1, <2>1, <2>2
<1>3. PICK t \in T : \A u \in T : t <= u
  BY <1>2, Facts!Least
<1>4. PICK x \in P : t = n - x
  BY <1>1
<1>5. ASSUME NEW y \in P PROVE x >= y
  <2>1. n - x <= n - y
    BY <1>1, <1>3, <1>4
  <2> QED BY <2>1
<1> QED BY <1>5 DEF Max

LEMMA KeyIsInt ==
  ASSUME NEW e \in Row
  PROVE  TextKey(e) \in Int
<1>1. PICK m \in Nat \ {0}, z \in Int, n \in Nat :
        m = PerSecond /\ z = Zone /\ n = e.at /\ Places \in SUBSET (1..m) /\ 1 \in Places
  BY EventLogAssumption DEF Row, Instants
<1>2. PICK w \in Int : w = z * m
  BY <1>1
<1>3. PICK local \in BOOLEAN : local = (e.type \in LocalTypes /\ z # 0)
  OBVIOUS
<1>4. PICK shifted \in Int : shifted = n + (IF local THEN w ELSE 0)
  BY <1>2, <1>3
<1>5. PICK P : P = {p \in Places : shifted % p = 0}
  OBVIOUS
<1>6. P \in SUBSET (1..m) /\ P # {}
  <2>1. shifted % 1 = 0
    BY <1>4
  <2> QED BY <1>1, <1>5, <2>1
<1>7. PICK cut \in Int : cut = Max(P)
  <2>1. PICK x : x = Max(P)
    OBVIOUS
  <2>2. x \in P
    BY <1>1, <1>6, <2>1, CutIs
  <2>3. x \in Int
    BY <1>6, <2>2
  <2> QED BY <2>1, <2>3
<1>8. TextKey(e) = IF local THEN shifted * (m + 1) ELSE (shifted + cut - 1) * (m + 1) + cut
  BY <1>1, <1>2, <1>3, <1>4, <1>5, <1>7 DEF TextKey
<1>9. shifted * (m + 1) \in Int /\ (shifted + cut - 1) * (m + 1) + cut \in Int
  BY <1>1, <1>4, <1>7
<1> QED BY <1>8, <1>9

\* Whatever the clock and the time zone, the text of times and the rowids put
\* rows in one order.
LEMMA TextOrder ==
  /\ \A a \in Row : ~Before(a, a)
  /\ \A a, b, e \in Row : Before(a, b) /\ Before(b, e) => Before(a, e)
  /\ \A a, b \in Row : a.id # b.id => Before(a, b) \/ Before(b, a)
<1>1. \A a \in Row : TextKey(a) \in Int /\ a.id \in Nat
  BY KeyIsInt DEF Row
<1> QED BY <1>1 DEF Before

\* q lists S in the order of a query.
Listing(q, n, S) ==
  /\ n \in Nat /\ q \in [1..n -> S]
  /\ \A e \in S : \E i \in 1..n : q[i] = e
  /\ \A i, j \in 1..n : i < j <=> Before(q[i], q[j])

LEMMA SortedIs ==
  ASSUME NEW S, Rows(S)
  PROVE  \E n : Listing(Sorted(S), n, S)
<1> DEFINE R == {pair \in S \X S : Before(pair[1], pair[2])}
<1>1. \A a, b \in S : <<a, b>> \in R <=> Before(a, b)
  OBVIOUS
<1>2. \A e \in S : {f \in S : <<f, e>> \in R} = {f \in S : Before(f, e)}
  OBVIOUS
<1> HIDE DEF R
<1>3. Facts!StrictOrder(S, R)
  <2>1. \A a, b \in S : a # b => a.id # b.id
    BY DEF Rows, OneRowPerId
  <2> QED BY <1>1, <2>1, TextOrder DEF Rows, Facts!StrictOrder
<1>4. Facts!IsFiniteSet(S)
  BY DEF Rows, IsFiniteSet, Facts!IsFiniteSet
<1>5. Facts!InOrder(Facts!Ordered(S, R), S, R)
  BY <1>3, <1>4, Facts!OrderedIs
<1>6. \A i : (CHOOSE e \in S : Cardinality({f \in S : <<f, e>> \in R}) = i - 1)
             = (CHOOSE e \in S : Cardinality({f \in S : Before(f, e)}) = i - 1)
  BY <1>2
<1>7. \A X : Facts!Cardinality(X) = Cardinality(X)
  BY DEF Cardinality, Facts!Cardinality, IsFiniteSet, Facts!IsFiniteSet
<1>8. Facts!Ordered(S, R) = [i \in 1..Cardinality(S) |->
         CHOOSE e \in S : Cardinality({f \in S : <<f, e>> \in R}) = i - 1]
  BY DEF Facts!Ordered, Cardinality, Facts!Cardinality, IsFiniteSet, Facts!IsFiniteSet
<1>9. Facts!Ordered(S, R) = Sorted(S)
  BY <1>6, <1>8 DEF Sorted
<1>10. PICK q, n : q = Sorted(S) /\ n = Cardinality(S)
  OBVIOUS
<1>11. /\ n \in Nat /\ q \in [1..n -> S]
       /\ \A e \in S : \E i \in 1..n : q[i] = e
       /\ \A i, j \in 1..n : i < j <=> <<q[i], q[j]>> \in R
  BY <1>5, <1>7, <1>9, <1>10 DEF Facts!InOrder
<1>12. \A i, j \in 1..n : i < j <=> Before(q[i], q[j])
  BY <1>1, <1>11
<1>13. Listing(q, n, S)
  BY ONLY <1>11, <1>12 DEF Listing
<1> QED BY <1>10, <1>13

----------------------------------------------------------------------------
(* A session that is gone. *)

Starts(l, s)  == \E e \in l : e.session = s /\ e.type = "session_started"
Deleted(l, s) == \E e \in l : e.session = s /\ isDeleteEvent(e)

LEMMA FoundIs == \A l, s : Found(l, s) <=> Starts(l, s) /\ ~Deleted(l, s)
BY DEF Found, Starts, Deleted

\* What a step does to the events of the store.
LEMMA LogChanges ==
  ASSUME [Next]_vars
  PROVE  \/ UNCHANGED <<log, rows>>
         \/ \E e \in pending : Insert(e.session, e.type, e.at) /\ UNCHANGED deletion
         \/ /\ deletion.pc = "rows" /\ UNCHANGED rows
            /\ log' = DeleteBySession(log, deletion.session)
         \/ /\ deletion.pc = "mark"
            /\ \E type \in {"session_soft_deleted", "session_tombstoned"} :
                 Insert(deletion.session, type, deletion.at)
<1>1. CASE Tick
  BY <1>1 DEF Tick, storeVars
<1>2. CASE \E e \in pending : Store(e)
  BY <1>2 DEF Store
<1>3. CASE \E s \in Sessions : Create(s)
  BY <1>3 DEF Create, storeVars
<1>4. CASE \E s \in Sessions, type \in {"turn_started", "turn_completed"} : Stamp(s, type)
  BY <1>4 DEF Stamp, storeVars
<1>5. CASE \E s \in Sessions, mode \in Modes : DeleteStart(s, mode)
  BY <1>5 DEF DeleteStart, storeVars
<1>6. CASE DeleteRows
  BY <1>6 DEF DeleteRows
<1>7. CASE DeleteMark
  BY <1>7 DEF DeleteMark, storeVars
<1>8. CASE \E c \in Clients : Poll(c) \/ Send(c) \/ Disconnect(c)
  BY <1>8 DEF Poll, Send, Disconnect, storeVars
<1>9. CASE \E c \in Clients : \/ \E s \in Sessions, since \in StartCursors : Connect(c, s, since)
                              \/ \E coarse \in BOOLEAN : Resume(c, coarse)
  BY <1>9 DEF Connect, Resume, storeVars
<1>10. CASE UNCHANGED vars
  BY <1>10 DEF vars, storeVars
<1> QED BY <1>1, <1>2, <1>3, <1>4, <1>5, <1>6, <1>7, <1>8, <1>9, <1>10 DEF Next

(***************************************************************************)
(* A session that is gone stays gone (Manager.Delete, Manager.Get): no     *)
(* event that a writer had in hand, and no other deletion, brings it back, *)
(* with any clock and in any time zone.                                    *)
(***************************************************************************)
THEOREM StaysDeleted == Spec => DeletedStaysDeleted
<1>1. ASSUME [Next]_vars, NEW s \in Sessions, Gone(s) PROVE ~Found(log', s)
  <2>1. ~Starts(log, s) \/ Deleted(log, s)
    BY <1>1, FoundIs DEF Gone
  <2>2. ASSUME NEW t, NEW type, NEW at, Insert(t, type, at),
               t # s \/ type # "session_started"
        PROVE  ~Starts(log', s) \/ Deleted(log', s)
    <3>1. PICK e : e.session = t /\ e.type = type /\ log' = log \cup {e}
      BY <2>2 DEF Insert
    <3> QED BY <2>1, <2>2, <3>1 DEF Starts, Deleted
  <2>3. ASSUME NEW t, log' = DeleteBySession(log, t)
        PROVE  ~Starts(log', s) \/ Deleted(log', s)
    BY <2>1, <2>3 DEF DeleteBySession, Starts, Deleted
  <2>4. ~Starts(log', s) \/ Deleted(log', s)
    <3>1. CASE UNCHANGED log
      BY <2>1, <3>1
    <3>2. CASE \E e \in pending : Insert(e.session, e.type, e.at)
      BY <1>1, <2>2, <3>2 DEF Gone, Starting
    <3>3. CASE log' = DeleteBySession(log, deletion.session)
      BY <2>3, <3>3
    <3>4. CASE \E type \in {"session_soft_deleted", "session_tombstoned"} :
                 Insert(deletion.session, type, deletion.at)
      BY <2>2, <3>4
    <3> QED BY <1>1, <3>1, <3>2, <3>3, <3>4, LogChanges
  <2> QED BY <2>4, FoundIs
<1>2. [Next]_vars => [\A s \in Sessions : Gone(s) => ~Found(log', s)]_vars
  BY <1>1
<1> QED BY <1>2, PTL DEF Spec, DeletedStaysDeleted


----------------------------------------------------------------------------
(* The store. *)

DeletionOK ==
  \/ \E left \in Nat : deletion = NoDeletion(left)
  \/ deletion \in [pc : {"rows", "mark"}, session : Sessions, mode : Modes,
                   at : Instants, left : Nat]

StoreInv ==
  /\ clock \in Instants
  /\ rows \in Nat /\ Rows(log) /\ \A e \in log : e.id \in 1..rows
  /\ pending \subseteq [type : EventTypes, session : Sessions, at : Instants]
  /\ DeletionOK

\* Rows that were there, and one with a new id.
Renewed == rows' \in Nat /\ rows' >= rows /\ \A e \in log' : e \in log \/ e.id = rows + 1

LogOK == rows \in Nat /\ Rows(log) /\ \A e \in log : e.id \in 1..rows

LEMMA InsertIs ==
  ASSUME LogOK, NEW s \in Sessions, NEW type \in EventTypes, NEW at \in Instants,
         Insert(s, type, at)
  PROVE  LogOK' /\ Renewed
<1>1. PICK n \in Nat : n = rows
  BY DEF LogOK
<1>2. PICK e : e = [id |-> n + 1, session |-> s, type |-> type, at |-> at]
  OBVIOUS
<1>3. e \in Row /\ e.id = n + 1 /\ log' = log \cup {e} /\ rows' = n + 1
  BY <1>1, <1>2 DEF Row, Insert
<1>4. IsFiniteSet(log')
  BY <1>3, FS_AddElement DEF LogOK, Rows
<1>5. \A f \in log : f.id # n + 1
  BY <1>1 DEF LogOK
<1>6. OneRowPerId(log')
  BY <1>3, <1>5 DEF LogOK, Rows, OneRowPerId
<1>7. \A f \in log' : f.id \in 1..rows'
  BY <1>1, <1>3 DEF LogOK
<1> QED BY <1>1, <1>3, <1>4, <1>6, <1>7 DEF LogOK, Rows, Renewed

LEMMA LogOKStep ==
  ASSUME LogOK, pending \subseteq [type : EventTypes, session : Sessions, at : Instants],
         DeletionOK, [Next]_vars
  PROVE  LogOK' /\ Renewed
<1>1. CASE UNCHANGED <<log, rows>>
  <2>1. Rows(log)' /\ Renewed
    BY <1>1 DEF LogOK, Rows, OneRowPerId, Renewed
  <2> QED BY <1>1, <2>1 DEF LogOK
<1>2. CASE \E e \in pending : Insert(e.session, e.type, e.at)
  <2>1. PICK e \in pending : Insert(e.session, e.type, e.at)
    BY <1>2
  <2>2. PICK s, type, at : s = e.session /\ type = e.type /\ at = e.at
    OBVIOUS
  <2>3. s \in Sessions /\ type \in EventTypes /\ at \in Instants
    BY <2>2
  <2> QED BY <2>1, <2>2, <2>3, InsertIs
<1>3. CASE UNCHANGED rows /\ log' = DeleteBySession(log, deletion.session)
  <2>1. log' \subseteq log
    BY <1>3 DEF DeleteBySession
  <2>2. IsFiniteSet(log')
    BY <2>1, FS_Subset DEF LogOK, Rows
  <2> QED BY <1>3, <2>1, <2>2 DEF LogOK, Rows, OneRowPerId, Renewed
<1>4. CASE /\ deletion.pc = "mark"
           /\ \E type \in {"session_soft_deleted", "session_tombstoned"} :
                 Insert(deletion.session, type, deletion.at)
  <2>1. PICK type \in {"session_soft_deleted", "session_tombstoned"} :
                 Insert(deletion.session, type, deletion.at)
    BY <1>4
  <2>2. \A left : deletion # NoDeletion(left)
    BY <1>4 DEF NoDeletion
  <2>3. PICK s, at : s = deletion.session /\ at = deletion.at
    OBVIOUS
  <2>4. s \in Sessions /\ type \in EventTypes /\ at \in Instants
    BY <2>2, <2>3 DEF DeletionOK, EventTypes
  <2> QED BY <2>1, <2>3, <2>4, InsertIs
<1> QED BY <1>1, <1>2, <1>3, <1>4, LogChanges

LEMMA StoreStep ==
  ASSUME StoreInv, [Next]_vars
  PROVE  StoreInv' /\ Renewed
<1> DEFINE Held == [type : EventTypes, session : Sessions, at : Instants]
<1>1. LogOK' /\ Renewed
  BY LogOKStep DEF StoreInv, LogOK
<1>2. CASE UNCHANGED <<clock, pending, deletion>>
  BY <1>1, <1>2 DEF StoreInv, LogOK, DeletionOK
<1>3. CASE Tick
  BY <1>1, <1>3 DEF StoreInv, LogOK, Tick, DeletionOK, Instants
<1>4. CASE \E e \in pending : Store(e)
  BY <1>1, <1>4 DEF StoreInv, LogOK, Store, DeletionOK
<1>5. ASSUME NEW s \in Sessions, NEW type \in EventTypes,
             Hold([type |-> type, session |-> s, at |-> clock]), UNCHANGED <<clock, deletion>>
      PROVE  StoreInv'
  <2>1. PICK e : e = [type |-> type, session |-> s, at |-> clock]
    OBVIOUS
  <2>2. e \in Held /\ pending' = pending \cup {e}
    BY <1>5, <2>1 DEF Hold, StoreInv
  <2> HIDE DEF Held
  <2>3. pending' \subseteq Held
    BY <2>2 DEF Held, StoreInv
  <2> QED BY <1>1, <1>5, <2>3 DEF Held, StoreInv, LogOK, DeletionOK
<1>6. CASE \E s \in Sessions : Create(s)
  <2>1. PICK s \in Sessions : Create(s)
    BY <1>6
  <2>2. PICK type : type = "session_started"
    OBVIOUS
  <2>3. type \in EventTypes
    BY <2>2 DEF EventTypes
  <2>4. Hold([type |-> type, session |-> s, at |-> clock]) /\ UNCHANGED <<clock, deletion>>
    BY <2>1, <2>2 DEF Create
  <2> QED BY <1>1, <1>5, <2>3, <2>4
<1>7. CASE \E s \in Sessions, type \in {"turn_started", "turn_completed"} : Stamp(s, type)
  <2>1. PICK s \in Sessions, type \in {"turn_started", "turn_completed"} : Stamp(s, type)
    BY <1>7
  <2>2. type \in EventTypes
    BY DEF EventTypes
  <2>3. Hold([type |-> type, session |-> s, at |-> clock]) /\ UNCHANGED <<clock, deletion>>
    BY <2>1 DEF Stamp
  <2> QED BY <1>1, <1>5, <2>2, <2>3
<1>8. CASE \E s \in Sessions, mode \in Modes : DeleteStart(s, mode)
  <2>1. PICK s \in Sessions, mode \in Modes : DeleteStart(s, mode)
    BY <1>8
  <2>2. deletion.left \in Nat /\ deletion.left > 0
    BY <2>1, StreamAssumption DEF DeleteStart, StoreInv, DeletionOK, NoDeletion
  <2>3. PICK left \in Nat : left = deletion.left - 1
    BY <2>2
  <2>4. deletion' = [pc |-> IF mode = "soft" THEN "mark" ELSE "rows", session |-> s, mode |-> mode,
                     at |-> clock, left |-> left]
    BY <2>1, <2>3 DEF DeleteStart
  <2>5. DeletionOK'
    BY <2>4 DEF DeletionOK, StoreInv
  <2> QED BY <1>1, <2>1, <2>5 DEF StoreInv, LogOK, DeleteStart
<1>9. CASE DeleteRows \/ DeleteMark
  <2>1. /\ deletion.pc # "idle"
        /\ \/ deletion' = NoDeletion(deletion.left)
           \/ deletion' = [deletion EXCEPT !.pc = "mark"]
    BY <1>9 DEF DeleteRows, DeleteMark
  <2>2. \A left : deletion # NoDeletion(left)
    BY <2>1 DEF NoDeletion
  <2>3. DeletionOK'
    BY <2>1, <2>2 DEF StoreInv, DeletionOK
  <2> QED BY <1>1, <1>9, <2>3 DEF StoreInv, LogOK, DeleteRows, DeleteMark
<1>10. CASE \E c \in Clients : Poll(c) \/ Send(c) \/ Disconnect(c)
  BY <1>2, <1>10 DEF Poll, Send, Disconnect
<1>11. CASE \E c \in Clients : \/ \E s \in Sessions, since \in StartCursors : Connect(c, s, since)
                               \/ \E coarse \in BOOLEAN : Resume(c, coarse)
  BY <1>2, <1>11 DEF Connect, Resume
<1>12. CASE UNCHANGED vars
  BY <1>2, <1>12 DEF vars
<1> QED BY <1>1, <1>2, <1>3, <1>4, <1>6, <1>7, <1>8, <1>9, <1>10, <1>11, <1>12 DEF Next

LEMMA StoreInit ==
  ASSUME Init
  PROVE  StoreInv
<1>1. 1 \in Instants /\ \E left \in Nat : deletion = NoDeletion(left)
  BY StreamAssumption DEF Instants, Init
<1>2. IsFiniteSet(log)
  BY FS_EmptySet DEF Init
<1> QED BY <1>1, <1>2 DEF Init, StoreInv, Rows, OneRowPerId, DeletionOK


----------------------------------------------------------------------------
(* The two derivations of a session. *)

LEMMA ListingIs ==
  ASSUME NEW q, NEW n, NEW S, Listing(q, n, S), S \subseteq Row
  PROVE  /\ n \in Nat /\ q \in Seq(Row) /\ Len(q) = n /\ DOMAIN q = 1..n
         /\ \A i \in 1..n : q[i] \in S /\ q[i] \in Row
<1>1. n \in Nat /\ q \in [1..n -> Row] /\ \A i \in 1..n : q[i] \in S /\ q[i] \in Row
  BY DEF Listing
<1>2. q \in Seq(Row) /\ Len(q) = n
  BY <1>1, IsASeq, LenProperties
<1> QED BY <1>1, <1>2

\* What comes before all others is first, and what comes after them last.
LEMMA FirstIs ==
  ASSUME NEW q, NEW n, NEW S, Listing(q, n, S), S \subseteq Row,
         NEW e \in S, \A f \in S : f = e \/ Before(e, f)
  PROVE  q[1] = e
<1>1. PICK i \in 1..n : q[i] = e
  BY DEF Listing
<1>2. n \in Nat /\ 1 \in 1..n /\ q[1] \in S
  BY <1>1 DEF Listing
<1>3. CASE i = 1
  BY <1>1, <1>3
<1>4. CASE i # 1
  <2>1. Before(q[1], e)
    BY <1>1, <1>2, <1>4 DEF Listing
  <2> QED BY <1>2, <2>1, TextOrder
<1> QED BY <1>3, <1>4

LEMMA LastIs ==
  ASSUME NEW q, NEW n, NEW S, Listing(q, n, S), S \subseteq Row,
         NEW e \in S, \A f \in S : f = e \/ Before(f, e)
  PROVE  q[n] = e
<1>1. PICK i \in 1..n : q[i] = e
  BY DEF Listing
<1>2. n \in Nat /\ n \in 1..n /\ q[n] \in S
  BY <1>1 DEF Listing
<1>3. CASE i = n
  BY <1>1, <1>3
<1>4. CASE i # n
  <2>1. Before(e, q[n])
    BY <1>1, <1>2, <1>4 DEF Listing
  <2> QED BY <1>2, <2>1, TextOrder
<1> QED BY <1>3, <1>4

Entries == [id : Sessions, created : Instants, updated : Instants]

StartAt(o, j, s) == o[j].session = s /\ o[j].type = "session_started"

\* What List knows of a session after k events: the first of its
\* session_started, and the latest of its events from there on.
EntryIs(o, k, x, i, l) ==
  /\ StartAt(o, i, x.id) /\ \A j \in 1..k : StartAt(o, j, x.id) => i <= j
  /\ o[l].session = x.id
  /\ \A j \in 1..k : o[j].session = x.id /\ i <= j => o[j].at <= x.updated
  /\ x.created = o[i].at /\ x.updated = o[l].at

Accs(o, k) ==
  {acc \in [deleted : SUBSET Sessions, sessions : SUBSET Entries] :
     /\ \A s : s \in acc.deleted <=> \E j \in 1..k : o[j].session = s /\ isDeleteEvent(o[j])
     /\ \A x \in acc.sessions : \E i \in 1..k, l \in 1..k : EntryIs(o, k, x, i, l)
     /\ \A j \in 1..k : o[j].type = "session_started" =>
          \E x \in acc.sessions : x.id = o[j].session}

LEMMA ListStepIs ==
  ASSUME NEW o, NEW n, NEW S, Listing(o, n, S), S \subseteq Row,
         NEW k \in 1..n, NEW acc \in Accs(o, k - 1)
  PROVE  ListStep(acc, o[k]) \in Accs(o, k)
<1>1. PICK e \in Row : e = o[k]
  BY ListingIs
<1>2. n \in Nat /\ k \in Nat /\ k - 1 \in Nat /\ 1..k = (1..(k - 1)) \cup {k} /\ k \in 1..k
      /\ (\A j \in 1..(k - 1) : j \in 1..n /\ j < k /\ j \in 1..k) /\ k \notin 1..(k - 1)
  BY DEF Listing
<1>3. PICK was, gone : was = acc.sessions /\ gone = acc.deleted
  OBVIOUS
<1>4. /\ was \subseteq Entries /\ gone \subseteq Sessions
      /\ \A s : s \in gone <=> \E j \in 1..(k - 1) : o[j].session = s /\ isDeleteEvent(o[j])
      /\ \A x \in was : \E i \in 1..(k - 1), l \in 1..(k - 1) : EntryIs(o, k - 1, x, i, l)
      /\ \A j \in 1..(k - 1) : o[j].type = "session_started" => \E x \in was : x.id = o[j].session
  BY <1>3 DEF Accs
<1> DEFINE Moved(x) == [x EXCEPT !.updated = IF x.id = e.session /\ e.at > @ THEN e.at ELSE @]
           first    == [id |-> e.session, created |-> e.at, updated |-> e.at]
           isNew    == e.type = "session_started" /\ \A x \in was : x.id # e.session
           now      == {Moved(x) : x \in was} \cup (IF isNew THEN {first} ELSE {})
           del      == gone \cup (IF isDeleteEvent(e) THEN {e.session} ELSE {})
<1>5. ListStep(acc, o[k]) = [deleted |-> del, sessions |-> now]
  BY <1>1, <1>3 DEF ListStep
<1>6. e.session \in Sessions /\ e.at \in Instants
  BY DEF Row
<1>7. \A a \in Instants : a \in Nat
  BY DEF Instants
<1>8. ASSUME NEW x \in was
      PROVE  /\ Moved(x) \in Entries /\ Moved(x).id = x.id /\ Moved(x).created = x.created
             /\ x.id # e.session => Moved(x).updated = x.updated
             /\ x.id = e.session => Moved(x).updated = IF e.at > x.updated THEN e.at ELSE x.updated
  <2>1. x \in Entries
    BY <1>4
  <2> QED BY <1>6, <2>1 DEF Entries
<1>9. first \in Entries /\ first.id = e.session /\ first.created = e.at /\ first.updated = e.at
  BY <1>6 DEF Entries
<1>10. ASSUME NEW x \in was PROVE \E i \in 1..k, l \in 1..k : EntryIs(o, k, Moved(x), i, l)
  <2>1. PICK i \in 1..(k - 1), l \in 1..(k - 1) : EntryIs(o, k - 1, x, i, l)
    BY <1>4
  <2>2. PICK y : y = Moved(x)
    OBVIOUS
  <2>3. /\ y.id = x.id /\ y.created = x.created
        /\ x.id # e.session => y.updated = x.updated
        /\ x.id = e.session => y.updated = IF e.at > x.updated THEN e.at ELSE x.updated
    BY <1>8, <2>2
  <2>4. i \in Nat /\ l \in Nat /\ i \in 1..k /\ l \in 1..k /\ i <= k /\ l <= k
    BY <1>2
  <2>5. StartAt(o, i, y.id) /\ (\A j \in 1..k : StartAt(o, j, y.id) => i <= j) /\ y.created = o[i].at
    BY <1>2, <2>1, <2>3, <2>4 DEF EntryIs
  <2>6. /\ x.updated \in Nat /\ e.at \in Nat
        /\ \A j \in 1..k : o[j].at \in Nat
    <3>1. \A j \in 1..k : o[j] \in Row
      BY <1>1, <1>2, ListingIs
    <3> QED BY <1>4, <1>6, <1>7, <3>1 DEF Entries, Row
  <2>7. PICK old, new, at : old = x.updated /\ new = y.updated /\ at = e.at
    OBVIOUS
  <2>8. CASE x.id # e.session
    <3>1. EntryIs(o, k, y, i, l)
      BY <1>1, <1>2, <2>1, <2>3, <2>5, <2>8 DEF EntryIs
    <3> QED BY <2>2, <2>4, <3>1
  <2>9. CASE x.id = e.session /\ at > old
    <3>1. new = at /\ o[k].session = y.id /\ o[k].at = at
      BY <1>1, <2>3, <2>7, <2>9
    <3>2. ASSUME NEW j \in 1..k, o[j].session = y.id, i <= j PROVE o[j].at <= new
      <4>1. j = k \/ (j \in 1..(k - 1) /\ o[j].at <= old)
        BY <1>2, <2>1, <2>3, <2>7, <3>2 DEF EntryIs
      <4> QED BY <2>6, <2>7, <2>9, <3>1, <4>1
    <3>3. EntryIs(o, k, y, i, k)
      BY <2>5, <2>7, <3>1, <3>2 DEF EntryIs
    <3> QED BY <1>2, <2>2, <2>4, <3>3
  <2>10. CASE x.id = e.session /\ ~(at > old)
    <3>1. new = old /\ o[l].session = y.id /\ o[l].at = new
      BY <2>1, <2>3, <2>7, <2>10 DEF EntryIs
    <3>2. ASSUME NEW j \in 1..k, o[j].session = y.id, i <= j PROVE o[j].at <= new
      <4>1. (j = k /\ o[j].at = at) \/ (j \in 1..(k - 1) /\ o[j].at <= old)
        BY <1>1, <1>2, <2>1, <2>3, <2>7, <3>2 DEF EntryIs
      <4> QED BY <2>6, <2>7, <2>10, <3>1, <4>1
    <3>3. EntryIs(o, k, y, i, l)
      BY <2>5, <2>7, <3>1, <3>2 DEF EntryIs
    <3> QED BY <2>2, <2>4, <3>3
  <2> QED BY <2>8, <2>9, <2>10
<1>11. ASSUME isNew PROVE EntryIs(o, k, first, k, k)
  <2>1. \A j \in 1..(k - 1) : ~StartAt(o, j, e.session)
    BY <1>4, <1>11 DEF StartAt
  <2>2. StartAt(o, k, e.session)
    BY <1>1, <1>11 DEF StartAt
  <2>3. \A j \in 1..k : (StartAt(o, j, e.session) => k <= j) /\ (k <= j => j = k)
    BY <1>2, <2>1
  <2>4. e.at <= e.at
    BY <1>6, <1>7
  <2> HIDE DEF first
  <2> QED BY <1>1, <1>9, <2>2, <2>3, <2>4 DEF EntryIs, StartAt
<1> HIDE DEF Moved, first
<1>12. now \subseteq Entries /\ \A x \in now : \E i \in 1..k, l \in 1..k : EntryIs(o, k, x, i, l)
  BY <1>2, <1>8, <1>9, <1>10, <1>11
<1>13. ASSUME NEW j \in 1..k, o[j].type = "session_started"
       PROVE  \E x \in now : x.id = o[j].session
  <2>1. CASE j = k
    BY <1>1, <1>8, <1>9, <1>13, <2>1
  <2>2. CASE j # k
    <3>1. PICK x \in was : x.id = o[j].session
      BY <1>2, <1>4, <1>13, <2>2
    <3>2. Moved(x) \in now /\ Moved(x).id = o[j].session
      BY <1>8, <3>1
    <3> QED BY <3>2
  <2> QED BY <2>1, <2>2
<1>14. /\ del \subseteq Sessions
       /\ \A s : s \in del <=> \E j \in 1..k : o[j].session = s /\ isDeleteEvent(o[j])
  BY <1>1, <1>2, <1>4, <1>6
<1> HIDE DEF now, del
<1> QED BY <1>5, <1>12, <1>13, <1>14 DEF Accs


LEMMA ListFold ==
  ASSUME NEW o, NEW n, NEW S, Listing(o, n, S), S \subseteq Row
  PROVE  FoldLeft(ListStep, [deleted |-> {}, sessions |-> {}], o) \in Accs(o, n)
<1> DEFINE Keeps == [k \in 0..n |-> Accs(o, k)]
<1>1. PICK base : base = [deleted |-> {}, sessions |-> {}]
  OBVIOUS
<1>2. n \in Nat /\ DOMAIN o = 1..n
  BY ListingIs
<1>3. base \in Accs(o, 0)
  <2>1. 1..0 = {}
    OBVIOUS
  <2>2. base \in [deleted : SUBSET Sessions, sessions : SUBSET Entries]
        /\ base.deleted = {} /\ base.sessions = {}
    BY <1>1
  <2> QED BY <2>1, <2>2 DEF Accs
<1>4. \A k \in 1..n : k \in 0..n /\ k - 1 \in 0..n
  BY <1>2
<1>5. \A k \in 0..n : Keeps[k] = Accs(o, k)
  OBVIOUS
<1> HIDE DEF Keeps
<1>6. base \in Keeps[0]
  BY <1>2, <1>3, <1>5
<1>7. \A k \in 1..n : \A a \in Keeps[k - 1] : ListStep(a, o[k]) \in Keeps[k]
  BY <1>4, <1>5, ListStepIs
<1>8. Facts!Fold(0, base, o) \in Keeps[n]
  BY <1>2, <1>6, <1>7, Facts!FoldKeeps
<1>9. Facts!Fold(0, base, o) = FoldLeft(ListStep, base, o)
  BY DEF FoldLeft, MapThenFoldSet, Max,
         Facts!Fold, Facts!FoldLeft, Facts!MapThenFoldSet, Facts!Max
<1> QED BY <1>1, <1>2, <1>5, <1>8, <1>9

\* A session's entry is what Get would give.
LEMMA EntryAgrees ==
  ASSUME NEW l, Rows(l), NEW o, NEW n, o = Sorted(l), Listing(o, n, l),
         NEW x \in Entries, NEW i \in 1..n, NEW k \in 1..n, EntryIs(o, n, x, i, k)
  PROVE  /\ Get(l, x.id).created = x.created
         /\ SortsByTime({e \in l : e.session = x.id}) => Get(l, x.id).updated = x.updated
<1>1. PICK s : s = x.id
  OBVIOUS
<1>2. PICK events, starts : events = {e \in l : e.session = s}
                            /\ starts = {e \in l : e.session = s /\ e.type = "session_started"}
  OBVIOUS
<1>3. Rows(events) /\ Rows(starts)
  BY <1>2, FS_Subset DEF Rows, OneRowPerId
<1>4. \A f \in l : \E j \in 1..n : f = o[j]
  BY DEF Listing
<1>5. \A j, m \in 1..n : o[j] \in l /\ (j < m <=> Before(o[j], o[m])) /\ j \in Nat
  BY DEF Listing
<1>6. o[i] \in starts /\ \A f \in starts : f = o[i] \/ Before(o[i], f)
  <2>1. o[i] \in starts
    BY <1>1, <1>2, <1>5 DEF EntryIs, StartAt
  <2>2. ASSUME NEW f \in starts PROVE f = o[i] \/ Before(o[i], f)
    <3>1. PICK j \in 1..n : f = o[j]
      BY <1>2, <1>4
    <3>2. StartAt(o, j, x.id)
      BY <1>1, <1>2, <3>1 DEF StartAt
    <3>3. i <= j
      BY <3>2 DEF EntryIs
    <3>4. i = j \/ i < j
      BY <1>5, <3>3
    <3> QED BY <1>5, <3>1, <3>4
  <2> QED BY <2>1, <2>2
<1>7. o[i] \in events /\ o[k] \in events
  BY <1>1, <1>2, <1>5 DEF EntryIs, StartAt
<1>8. Sorted(starts)[1] = o[i]
  <2>1. PICK m : Listing(Sorted(starts), m, starts)
    BY <1>3, SortedIs
  <2> QED BY <1>3, <1>6, <2>1, FirstIs DEF Rows
<1>9. PICK last \in events : /\ last = Sorted(events)[Len(Sorted(events))]
                             /\ \A f \in events : f = last \/ Before(f, last)
  <2>1. PICK q, m : q = Sorted(events) /\ Listing(q, m, events)
    BY <1>3, SortedIs
  <2>2. m \in Nat /\ Len(q) = m
    BY <1>3, <2>1, ListingIs DEF Rows
  <2>3. PICK a \in 1..m : q[a] = o[k]
    BY <1>7, <2>1 DEF Listing
  <2>4. m \in 1..m /\ q[m] \in events
    BY <2>1, <2>2, <2>3 DEF Listing
  <2>5. ASSUME NEW f \in events PROVE f = q[m] \/ Before(f, q[m])
    <3>1. PICK b \in 1..m : q[b] = f
      BY <2>1 DEF Listing
    <3>2. b = m \/ b < m
      BY <2>2
    <3> QED BY <2>1, <2>4, <3>1, <3>2 DEF Listing
  <2> QED BY <2>1, <2>2, <2>4, <2>5
<1>10. ASSUME SortsByTime(events) PROVE last.at = x.updated
  <2>1. /\ \A f \in events : f.at \in Nat /\ f \in Row
        /\ o[k].at = x.updated
    BY <1>3, <1>7 DEF Rows, Row, Instants, EntryIs
  <2>2. PICK j \in 1..n : last = o[j]
    BY <1>2, <1>4
  <2>3. i <= j
    <3>1. o[i] = last \/ Before(o[i], last)
      BY <1>7, <1>9
    <3>2. CASE o[i] = last
      <4>1. ~Before(o[i], o[j]) /\ ~Before(o[j], o[i])
        BY <1>7, <2>1, <2>2, <3>2, TextOrder
      <4> QED BY <1>5, <4>1
    <3>3. CASE Before(o[i], last)
      BY <1>5, <2>2, <3>3
    <3> QED BY <3>1, <3>2, <3>3
  <2>4. last.at <= o[k].at
    BY <1>1, <1>2, <2>1, <2>2, <2>3 DEF EntryIs
  <2>5. ~(last.at < o[k].at)
    <3>1. last.at < o[k].at => Before(last, o[k])
      BY <1>7, <1>10 DEF SortsByTime
    <3>2. o[k] = last \/ Before(o[k], last)
      BY <1>7, <1>9
    <3>3. last \in Row /\ o[k] \in Row
      BY <1>7, <2>1
    <3>4. ~Before(last, o[k]) \/ ~Before(o[k], last)
      BY <3>3, TextOrder
    <3> QED BY <2>1, <3>1, <3>2, <3>4
  <2>6. last.at \in Nat /\ o[k].at \in Nat
    BY <1>7, <2>1
  <2> QED BY <2>1, <2>4, <2>5, <2>6
<1>11. QueryBySession(l, s) = Sorted(events)
  BY <1>2 DEF QueryBySession
<1>12. PICK got : got = [created |-> Sorted(starts)[1].at,
                         updated |-> Sorted(events)[Len(Sorted(events))].at]
  OBVIOUS
<1>13. Get(l, s) = got
  BY <1>2, <1>11, <1>12 DEF Get
<1>14. got.created = o[i].at /\ got.updated = last.at /\ x.created = o[i].at
  BY <1>8, <1>9, <1>12 DEF EntryIs
<1> QED BY <1>1, <1>2, <1>10, <1>13, <1>14

LEMMA ListAgrees ==
  ASSUME StoreInv
  PROVE  ListAgreesWithGet
<1>1. PICK o : o = Sorted(log)
  OBVIOUS
<1>2. PICK n : Listing(o, n, log)
  BY <1>1, SortedIs DEF StoreInv
<1>3. log \subseteq Row /\ Rows(log)
  BY DEF StoreInv, Rows
<1>4. PICK acc \in Accs(o, n) : List(log) = {x \in acc.sessions : x.id \notin acc.deleted}
  <2>1. PICK acc : acc = FoldLeft(ListStep, [deleted |-> {}, sessions |-> {}], o)
    OBVIOUS
  <2>2. acc \in Accs(o, n)
    BY <1>2, <1>3, <2>1, ListFold
  <2>3. List(log) = {x \in acc.sessions : x.id \notin acc.deleted}
    BY <1>1, <2>1 DEF List
  <2> QED BY <2>2, <2>3
<1>5. PICK was, gone : was = acc.sessions /\ gone = acc.deleted
  OBVIOUS
<1>6. /\ was \subseteq Entries
      /\ \A s : s \in gone <=> \E j \in 1..n : o[j].session = s /\ isDeleteEvent(o[j])
      /\ \A x \in was : \E i \in 1..n, l \in 1..n : EntryIs(o, n, x, i, l)
      /\ \A j \in 1..n : o[j].type = "session_started" => \E x \in was : x.id = o[j].session
  BY <1>5 DEF Accs
<1>7. \A s : s \in gone <=> Deleted(log, s)
  BY <1>2, <1>6 DEF Deleted, Listing
<1>8. ASSUME NEW x \in was
      PROVE  /\ x.id \in Sessions /\ Starts(log, x.id)
             /\ x.created = Get(log, x.id).created
             /\ SortsByTime({e \in log : e.session = x.id}) => x.updated = Get(log, x.id).updated
  <2>1. PICK i \in 1..n, k \in 1..n : EntryIs(o, n, x, i, k)
    BY <1>6
  <2>2. x \in Entries
    BY <1>6
  <2>3. o[i] \in log /\ o[i].session = x.id /\ o[i].type = "session_started"
    BY <1>2, <2>1 DEF EntryIs, StartAt, Listing
  <2>4. x.id \in Sessions /\ Starts(log, x.id)
    BY <2>2, <2>3 DEF Entries, Starts
  <2> QED BY <1>1, <1>2, <1>3, <2>1, <2>2, <2>4, EntryAgrees
<1>9. ASSUME NEW s \in Sessions, Found(log, s)
      PROVE  \E x \in was : x.id = s /\ x.id \notin gone
  <2>1. Starts(log, s) /\ ~Deleted(log, s)
    BY <1>9, FoundIs
  <2>2. PICK j \in 1..n : o[j].session = s /\ o[j].type = "session_started"
    BY <1>2, <2>1 DEF Starts, Listing
  <2>3. PICK x \in was : x.id = s
    BY <1>6, <2>2
  <2> QED BY <1>7, <2>1, <2>3
<1>10. PICK shown : shown = List(log) /\ shown = {x \in was : x.id \notin gone}
  BY <1>4, <1>5
<1>11. \A x \in shown : x.id \in Sessions /\ Found(log, x.id)
  BY <1>7, <1>8, <1>10, FoundIs
<1>12. {x.id : x \in shown} = {s \in Sessions : Found(log, s)}
  BY <1>9, <1>10, <1>11
<1>13. \A x \in shown :
         /\ x.created = Get(log, x.id).created
         /\ SortsByTime({e \in log : e.session = x.id}) => x.updated = Get(log, x.id).updated
  BY <1>8, <1>10
<1> QED BY <1>10, <1>12, <1>13 DEF ListAgreesWithGet

(***************************************************************************)
(* Manager.Get and Manager.List agree on which sessions there are and when *)
(* they were created, with any clock and in any time zone, whatever is     *)
(* stored late and whatever is deleted; and on when a session last         *)
(* changed, when the text of its events sorts as their times do: in other  *)
(* cases the last event of a query need not be the latest.                 *)
(***************************************************************************)
THEOREM ReadersAgree == Spec => []ListAgreesWithGet
<1>1. StoreInv /\ [Next]_vars => StoreInv'
  BY StoreStep
<1>2. StoreInv => ListAgreesWithGet
  BY ListAgrees
<1> QED BY <1>1, <1>2, StoreInit, PTL DEF Spec


----------------------------------------------------------------------------
(* The clients of the event stream. *)

Rising(r) == \A i, j \in DOMAIN r : i < j => Before(r[i], r[j])

LEMMA SortsLess ==
  ASSUME NEW S, NEW T, SortsByTime(S), T \subseteq S
  PROVE  SortsByTime(T)
BY DEF SortsByTime

\* What was received, and is in hand up to some place.
UpTo(r, b, j) == {r[i] : i \in DOMAIN r} \cup {b[i] : i \in 1..j}

\* What is in hand comes after all that was received, as far as the queries
\* sort both by time.
Follows(b, r) ==
  \A j \in DOMAIN b : SortsByTime(UpTo(r, b, j)) => \A i \in DOMAIN r : Before(r[i], b[j])

\* The cursor is at the last event received, or at the start of its second.
CursorOK(cur, r) ==
  /\ DOMAIN cur = {"at", "id", "coarse"}
  /\ \/ r = <<>> /\ cur.id = 0
     \/ /\ r # <<>> /\ cur.id = r[Len(r)].id /\ cur.id # 0
        /\ cur.at = r[Len(r)].at \/ (cur.coarse /\ cur.at = Second(r[Len(r)].at))

Cursors == [at : Int, id : Nat, coarse : BOOLEAN]

LEMMA StartsAt ==
  ASSUME NEW cur \in StartCursors
  PROVE  cur \in Cursors /\ cur.id = 0 /\ DOMAIN cur = {"at", "id", "coarse"}
<1>1. CASE cur = NoCursor
  BY <1>1 DEF NoCursor, Cursors
<1>2. ASSUME NEW time \in Sinces, cur = Since(time)
      PROVE  cur \in Cursors /\ cur.id = 0 /\ DOMAIN cur = {"at", "id", "coarse"}
  <2>1. PICK full \in BOOLEAN : full = (time % PerSecond = 0)
    OBVIOUS
  <2>2. cur = [at |-> time, id |-> 0, coarse |-> full]
    BY <1>2, <2>1 DEF Since
  <2>3. time \in Int
    BY StreamAssumption
  <2> QED BY <2>2, <2>3 DEF Cursors
<1> QED BY <1>1, <1>2 DEF StartCursors

BatchOK(b, r) == b \in Seq(Row) /\ b # <<>> /\ Rising(b) /\ Follows(b, r)

ClientAt(r, k) ==
  /\ r \in Seq(Row) /\ (SortsByTime(Range(r)) => Rising(r))
  /\ \/ k.pc = "off"
     \/ k.pc = "waiting" /\ CursorOK(k.cursor, r)
     \/ k.pc = "sending" /\ CursorOK(k.cursor, r) /\ BatchOK(k.batch, r)

\* The events that a client has received or will receive from its connection.
Had(r, k) == {r[i] : i \in DOMAIN r} \cup
             (IF k.pc = "sending" THEN {k.batch[i] : i \in DOMAIN k.batch} ELSE {})

\* Whatever was read keeps its id, also when its row is deleted.
HadOK(h) ==
  /\ \A e \in h : e \in Row /\ e.id \in 1..rows
  /\ \A e \in h : \A f \in h \cup log : e.id = f.id => e = f

ClientOK(c) == ClientAt(received[c], conn[c]) /\ HadOK(Had(received[c], conn[c]))

StreamInv ==
  /\ DOMAIN conn = Clients /\ DOMAIN received = Clients
  /\ \A c \in Clients : ClientOK(c)

\* The store gives no id twice.
LEMMA HadStays ==
  ASSUME StoreInv, Renewed, NEW h, HadOK(h)
  PROVE  HadOK(h)'
<1>1. PICK n, m : n = rows /\ m = rows'
  OBVIOUS
<1>2. n \in Nat /\ m \in Nat /\ n <= m
  BY <1>1 DEF StoreInv, Renewed
<1>3. ASSUME NEW e \in h PROVE e \in Row /\ e.id \in 1..m /\ e.id # n + 1
  BY <1>1, <1>2, <1>3 DEF HadOK
<1>4. ASSUME NEW e \in h, NEW f \in h \cup log', e.id = f.id PROVE e = f
  <2>1. f \in h \cup log \/ f.id = n + 1
    BY <1>1 DEF Renewed
  <2> QED BY <1>3, <1>4, <2>1 DEF HadOK
<1> QED BY <1>1, <1>3, <1>4 DEF HadOK

\* The last event received is earlier than those that are later than the cursor.
LEMMA LaterIs ==
  ASSUME NEW l \in Row, NEW f \in Row, NEW cur, Later(cur, f),
         cur.at = l.at \/ (cur.coarse /\ cur.at = Second(l.at))
  PROVE  l.at < f.at
<1>1. PICK x \in Nat, y \in Nat : x = f.at /\ y = l.at
  BY DEF Row, Instants
<1>2. cur.at < x /\ (cur.coarse => Second(x) # cur.at)
  <2>1. cur.at < x \/ ~(x > cur.at)
    BY <1>1, EventLogAssumption DEF Second
  <2> QED BY <1>1, <2>1 DEF Later, InCursorSecond
<1>3. CASE cur.at = l.at
  BY <1>1, <1>2, <1>3
<1>4. CASE cur.coarse /\ cur.at = Second(l.at)
  <2>1. Second(y) \in Int
    BY <1>1, EventLogAssumption DEF Second
  <2>2. Second(y) <= x /\ Second(x) # Second(y)
    BY <1>1, <1>2, <1>4, <2>1
  <2>3. ~(x <= y)
    BY <2>2, SameSecond
  <2> QED BY <1>1, <2>3
<1> QED BY <1>3, <1>4

\* What a query finds after a cursor comes after the last event received.
LEMMA NewEventsAre ==
  ASSUME StoreInv, NEW r, NEW cur, NEW s, r \in Seq(Row), SortsByTime(Range(r)) => Rising(r),
         CursorOK(cur, r), HadOK({r[i] : i \in DOMAIN r}),
         NEW b, b = NewEvents(log, s, cur), b # <<>>
  PROVE  BatchOK(b, r) /\ \A i \in DOMAIN b : b[i] \in log
<1>1. PICK S : /\ b = Sorted(S) /\ S \subseteq log
               /\ \A e \in S : \/ cur.id = 0 \/ Later(cur, e)
                               \/ \E f \in log : f.id = cur.id /\ Before(f, e)
                               \/ \E f \in S : Later(cur, f) /\ Before(f, e)
  <2>1. PICK events : events = {e \in log : e.session = s /\ e.at >= cur.at}
    OBVIOUS
  <2>2. PICK S : S = {e \in events : \/ cur.id = 0 \/ Later(cur, e)
                                     \/ \E f \in events : (Later(cur, f) \/ f.id = cur.id) /\ Before(f, e)}
    OBVIOUS
  <2>3. b = Sorted(S)
    BY <2>1, <2>2 DEF NewEvents, eventsSince
  <2>4. S \subseteq log
    BY <2>1, <2>2
  <2>5. ASSUME NEW e \in S
        PROVE  \/ cur.id = 0 \/ Later(cur, e)
               \/ \E f \in log : f.id = cur.id /\ Before(f, e)
               \/ \E f \in S : Later(cur, f) /\ Before(f, e)
    BY <2>1, <2>2
  <2> QED BY ONLY <2>3, <2>4, <2>5
<1>2. Rows(S) /\ S \subseteq Row /\ log \subseteq Row
  BY <1>1, FS_Subset DEF StoreInv, Rows, OneRowPerId
<1>3. PICK n : Listing(b, n, S)
  BY <1>1, <1>2, SortedIs
<1>4. b \in Seq(Row) /\ DOMAIN b = 1..n /\ \A i \in 1..n : b[i] \in S
  BY <1>2, <1>3, ListingIs
<1>5. Rising(b)
  BY <1>3, <1>4 DEF Rising, Listing
<1>6. CASE r = <<>>
  <2>1. Follows(b, r)
    BY <1>6 DEF Follows
  <2> QED BY <1>1, <1>4, <1>5, <2>1 DEF BatchOK
<1>7. CASE r # <<>>
  <2>1. PICK m : m = Len(r) /\ m \in Nat \ {0} /\ DOMAIN r = 1..m
    BY <1>7, LenProperties, EmptySeq
  <2>2. PICK l \in Row : l = r[m]
    BY <2>1, ElementOfSeq
  <2>3. /\ cur.id = l.id /\ cur.id # 0
        /\ cur.at = l.at \/ (cur.coarse /\ cur.at = Second(l.at))
    BY <1>7, <2>1, <2>2 DEF CursorOK
  <2>4. ASSUME NEW f \in log, f.id = cur.id PROVE f = l
    BY <2>1, <2>2, <2>3, <2>4 DEF HadOK
  <2>5. ASSUME NEW j \in DOMAIN b, NEW A, A = UpTo(r, b, j), SortsByTime(A), NEW i \in DOMAIN r
        PROVE  Before(r[i], b[j])
    <3>1. PICK e : e = b[j] /\ e \in S /\ e \in Row /\ j \in 1..n /\ n \in Nat
      BY <1>2, <1>3, <1>4 DEF Listing
    <3>2. /\ e \in A /\ l \in A /\ \A k \in 1..j : b[k] \in A
          /\ {r[k] : k \in DOMAIN r} \subseteq A
      BY <2>1, <2>2, <2>5, <3>1 DEF UpTo
    <3>3. ASSUME NEW f \in A, f \in Row, Later(cur, f) PROVE Before(l, f)
      BY <2>3, <2>5, <3>2, <3>3, LaterIs DEF SortsByTime
    <3>4. Before(l, e)
      <4>1. CASE Later(cur, e)
        BY <3>1, <3>2, <3>3, <4>1
      <4>2. CASE \E f \in log : f.id = cur.id /\ Before(f, e)
        BY <2>4, <4>2
      <4>3. ASSUME NEW f \in S, Later(cur, f), Before(f, e) PROVE Before(l, e)
        <5>1. PICK k \in 1..n : f = b[k]
          BY <1>3 DEF Listing
        <5>2. k < j
          BY <1>3, <3>1, <4>3, <5>1 DEF Listing
        <5>3. k \in 1..j
          BY <3>1, <5>2
        <5>4. f \in Row /\ Before(l, f)
          BY <1>2, <3>2, <3>3, <4>3, <5>1, <5>3
        <5> QED BY <3>1, <4>3, <5>4, TextOrder
      <4> QED BY <1>1, <2>3, <3>1, <4>1, <4>2, <4>3
    <3>5. r[i] = l \/ Before(r[i], l)
      <4>1. Range(r) \subseteq A
        BY <3>2 DEF Range
      <4>2. Rising(r)
        BY <2>5, <4>1, SortsLess
      <4>3. i \in 1..m /\ m \in 1..m /\ (i = m \/ i < m)
        BY <2>1, <2>5
      <4> QED BY <2>1, <2>2, <4>2, <4>3 DEF Rising
    <3>6. r[i] \in Row
      BY <2>1, <2>5, ElementOfSeq
    <3> QED BY <3>1, <3>4, <3>5, <3>6, TextOrder
  <2>6. Follows(b, r)
    BY <2>5 DEF Follows
  <2> QED BY <1>1, <1>4, <1>5, <2>6 DEF BatchOK
<1> QED BY <1>6, <1>7


LEMMA HadLess ==
  ASSUME StoreInv, NEW h, HadOK(h), NEW g, g \subseteq h \cup log
  PROVE  HadOK(g)
<1>1. \A e \in log : e \in Row /\ e.id \in 1..rows
  BY DEF StoreInv, Rows
<1>2. \A e, f \in log : e.id = f.id => e = f
  BY DEF StoreInv, Rows, OneRowPerId
<1> QED BY <1>1, <1>2 DEF HadOK

\* A step of one client.
Receives(c, r) ==
  /\ DOMAIN received' = Clients /\ received'[c] = r
  /\ \A d \in Clients \ {c} : received'[d] = received[d]

LEMMA ClientMoves ==
  ASSUME StreamInv, UNCHANGED <<log, rows>>, NEW c \in Clients, NEW r, NEW k,
         conn' = [conn EXCEPT ![c] = k], Receives(c, r),
         ClientAt(r, k), HadOK(Had(r, k))
  PROVE  StreamInv'
<1>1. /\ DOMAIN conn' = Clients /\ DOMAIN received' = Clients
      /\ conn'[c] = k /\ received'[c] = r
      /\ \A d \in Clients \ {c} : conn'[d] = conn[d] /\ received'[d] = received[d]
  BY DEF StreamInv, Receives
<1>2. \A h : HadOK(h)' <=> HadOK(h)
  BY DEF HadOK
<1>3. ASSUME NEW d \in Clients PROVE ClientOK(d)'
  <2>1. PICK x, y : x = received'[d] /\ y = conn'[d]
    OBVIOUS
  <2>2. ClientAt(x, y) /\ HadOK(Had(x, y))
    BY <1>1, <2>1 DEF StreamInv, ClientOK
  <2>3. HadOK(Had(x, y))'
    BY <1>2, <2>2
  <2> QED BY <2>1, <2>2, <2>3 DEF ClientOK
<1> QED BY <1>1, <1>3 DEF StreamInv

LEMMA PollKeeps ==
  ASSUME StoreInv, StreamInv, NEW c \in Clients, Poll(c)
  PROVE  StreamInv'
<1>1. PICK r, k : r = received[c] /\ k = conn[c]
  OBVIOUS
<1>2. PICK b : b = NewEvents(log, k.session, k.cursor)
  OBVIOUS
<1>3. ClientAt(r, k) /\ HadOK(Had(r, k))
  BY <1>1 DEF StreamInv, ClientOK
<1>4. PICK new : new = [pc |-> "sending", session |-> k.session, cursor |-> k.cursor, batch |-> b]
  OBVIOUS
<1>5. /\ k.pc = "waiting" /\ b # <<>> /\ conn' = [conn EXCEPT ![c] = new]
      /\ UNCHANGED <<log, rows, received>>
  BY <1>1, <1>2, <1>4 DEF Poll, storeVars
<1>6. r \in Seq(Row) /\ (SortsByTime(Range(r)) => Rising(r)) /\ CursorOK(k.cursor, r)
  BY <1>3, <1>5 DEF ClientAt
<1>7. Had(r, k) = {r[i] : i \in DOMAIN r}
  BY <1>5 DEF Had
<1>8. BatchOK(b, r) /\ \A i \in DOMAIN b : b[i] \in log
  BY <1>2, <1>3, <1>5, <1>6, <1>7, NewEventsAre
<1>9. new.pc = "sending" /\ new.cursor = k.cursor /\ new.batch = b
  BY <1>4
<1>10. ClientAt(r, new)
  BY <1>6, <1>8, <1>9 DEF ClientAt
<1>11. Had(r, new) \subseteq Had(r, k) \cup log
  BY <1>7, <1>8, <1>9 DEF Had
<1>12. HadOK(Had(r, new))
  BY <1>3, <1>11, HadLess
<1>13. Receives(c, r)
  BY <1>1, <1>5 DEF StreamInv, Receives
<1> QED BY <1>5, <1>10, <1>12, <1>13, ClientMoves

LEMMA SendKeeps ==
  ASSUME StoreInv, StreamInv, NEW c \in Clients, Send(c)
  PROVE  StreamInv'
<1>1. PICK r, k : r = received[c] /\ k = conn[c]
  OBVIOUS
<1>2. ClientAt(r, k) /\ HadOK(Had(r, k))
  BY <1>1 DEF StreamInv, ClientOK
<1>3. k.pc = "sending" /\ UNCHANGED <<log, rows>>
  BY <1>1 DEF Send, storeVars
<1>4. PICK b : b = k.batch
  OBVIOUS
<1>5. /\ r \in Seq(Row) /\ (SortsByTime(Range(r)) => Rising(r)) /\ CursorOK(k.cursor, r)
      /\ b \in Seq(Row) /\ b # <<>> /\ Rising(b) /\ Follows(b, r)
  BY <1>2, <1>3, <1>4 DEF ClientAt, BatchOK
<1>6. PICK n : n = Len(b) /\ n \in Nat \ {0} /\ DOMAIN b = 1..n
  BY <1>5, LenProperties, EmptySeq
<1>7. PICK m \in Nat : m = Len(r) /\ DOMAIN r = 1..m
  BY <1>5, LenProperties
<1>8. PICK e, rest : e = Head(b) /\ rest = Tail(b)
  OBVIOUS
<1>9. /\ e = b[1] /\ e \in Row /\ rest \in Seq(Row) /\ Len(rest) = n - 1 /\ DOMAIN rest = 1..n - 1
      /\ \A i \in 1..n - 1 : rest[i] = b[i + 1]
  BY <1>5, <1>6, <1>8, HeadTailProperties, LenProperties
<1>10. PICK q : q = Append(r, e)
  OBVIOUS
<1>11. /\ q \in Seq(Row) /\ q # <<>> /\ Len(q) = m + 1 /\ DOMAIN q = 1..m + 1
       /\ q[m + 1] = e /\ \A i \in 1..m : q[i] = r[i]
  <2>1. /\ q \in Seq(Row) /\ q # <<>> /\ Len(q) = m + 1
        /\ q[m + 1] = e /\ \A i \in 1..m : q[i] = r[i]
    BY <1>5, <1>7, <1>9, <1>10, AppendProperties
  <2> QED BY <2>1, LenProperties
<1>12. PICK cur : cur = CursorAt(k.cursor, e)
  OBVIOUS
<1>13. e.id # 0 /\ e.id \in 1..rows
  <2>1. e \in Had(r, k)
    BY <1>3, <1>4, <1>6, <1>9 DEF Had
  <2>2. rows \in Nat
    BY DEF StoreInv
  <2> QED BY <1>2, <2>1, <2>2 DEF HadOK
<1>14. CursorOK(cur, q)
  <2>1. DOMAIN cur = {"at", "id", "coarse"} /\ cur.at = e.at /\ cur.id = e.id
    BY <1>5, <1>12 DEF CursorAt, CursorOK
  <2> QED BY <1>11, <1>13, <2>1 DEF CursorOK
<1>15. \A i \in 1..m : q[i] = r[i] /\ i \in DOMAIN q
  BY <1>11
<1>16. SortsByTime(Range(q)) => Rising(q)
  <2> SUFFICES ASSUME SortsByTime(Range(q)) PROVE Rising(q)
    OBVIOUS
  <2>1. Range(r) \subseteq Range(q)
    BY <1>7, <1>15 DEF Range
  <2>2. Rising(r)
    BY <1>5, <2>1, SortsLess
  <2>3. UpTo(r, b, 1) \subseteq Range(q)
    <3>1. {b[i] : i \in 1..1} = {e}
      BY <1>9
    <3>2. e \in Range(q)
      BY <1>7, <1>11 DEF Range
    <3> QED BY <2>1, <3>1, <3>2 DEF UpTo, Range
  <2>4. \A i \in 1..m : Before(r[i], e)
    <3>1. 1 \in DOMAIN b
      BY <1>6
    <3> QED BY <1>5, <1>7, <1>9, <2>3, <3>1, SortsLess DEF Follows
  <2>5. ASSUME NEW i \in 1..m + 1, NEW j \in 1..m + 1, i < j PROVE Before(q[i], q[j])
    <3>1. i \in 1..m
      BY <1>7, <2>5
    <3>2. CASE j \in 1..m
      BY <1>7, <1>11, <2>2, <2>5, <3>1, <3>2 DEF Rising
    <3>3. CASE j = m + 1
      BY <1>11, <2>4, <3>1, <3>3
    <3> QED BY <1>7, <3>2, <3>3
  <2> QED BY <1>11, <2>5 DEF Rising
<1>23. rest # <<>> => BatchOK(rest, q)
  <2>1. ASSUME NEW i \in 1..n - 1, NEW j \in 1..n - 1, i < j PROVE Before(rest[i], rest[j])
    <3>1. i + 1 \in 1..n /\ j + 1 \in 1..n /\ i + 1 < j + 1
      BY <1>6, <2>1
    <3> QED BY <1>5, <1>6, <1>9, <3>1 DEF Rising
  <2>2. ASSUME NEW j \in 1..n - 1, SortsByTime(UpTo(q, rest, j)), NEW i \in 1..m + 1
        PROVE  Before(q[i], rest[j])
    <3>1. j + 1 \in 1..n /\ 1 \in 1..n /\ 1 < j + 1 /\ j + 1 \in DOMAIN b
      BY <1>6, <2>2
    <3>2. PICK f : f = rest[j] /\ f = b[j + 1]
      BY <1>9
    <3>3. CASE i \in 1..m
      <4>1. UpTo(r, b, j + 1) \subseteq UpTo(q, rest, j)
        <5>1. \A d \in DOMAIN r : r[d] \in UpTo(q, rest, j)
          BY <1>7, <1>15 DEF UpTo
        <5>2. b[1] \in UpTo(q, rest, j)
          <6>1. m + 1 \in DOMAIN q /\ q[m + 1] = b[1]
            BY <1>7, <1>9, <1>11
          <6> QED BY <6>1 DEF UpTo
        <5>3. ASSUME NEW d \in 1..j + 1, d # 1 PROVE b[d] \in UpTo(q, rest, j)
          <6>1. d - 1 \in 1..j /\ d - 1 \in 1..n - 1 /\ (d - 1) + 1 = d
            BY <1>6, <2>2, <5>3
          <6>2. rest[d - 1] = b[d]
            BY <1>9, <6>1
          <6> QED BY <6>1, <6>2 DEF UpTo
        <5> QED BY <5>1, <5>2, <5>3 DEF UpTo
      <4>2. Before(r[i], b[j + 1])
        BY <1>5, <1>7, <2>2, <3>1, <3>3, <4>1, SortsLess DEF Follows
      <4> QED BY <1>11, <3>2, <3>3, <4>2
    <3>4. CASE i = m + 1
      <4>1. Before(b[1], b[j + 1])
        BY <1>5, <1>6, <3>1 DEF Rising
      <4> QED BY <1>9, <1>11, <3>2, <3>4, <4>1
    <3> QED BY <1>7, <2>2, <3>3, <3>4
  <2>3. Follows(rest, q)
    BY <1>9, <1>11, <2>2 DEF Follows
  <2> QED BY <1>9, <2>1, <2>3 DEF BatchOK, Rising
<1>17. PICK new : new = IF rest = <<>>
                        THEN [pc |-> "waiting", session |-> k.session, cursor |-> cur]
                        ELSE [pc |-> "sending", session |-> k.session, cursor |-> cur, batch |-> rest]
  OBVIOUS
<1>18. conn' = [conn EXCEPT ![c] = new] /\ Receives(c, q)
  BY <1>1, <1>4, <1>8, <1>10, <1>12, <1>17 DEF Send, StreamInv, Receives
<1>19. /\ rest = <<>> => new.pc = "waiting" /\ new.cursor = cur
       /\ rest # <<>> => new.pc = "sending" /\ new.cursor = cur /\ new.batch = rest
  BY <1>17
<1>20. ClientAt(q, new)
  BY <1>11, <1>14, <1>16, <1>19, <1>23 DEF ClientAt
<1>21. Had(q, new) \subseteq Had(r, k)
  <2>1. \A i \in DOMAIN r : r[i] \in Had(r, k)
    BY DEF Had
  <2>2. \A i \in 1..n : b[i] \in Had(r, k)
    BY <1>3, <1>4, <1>6 DEF Had
  <2>3. \A i \in 1..n - 1 : rest[i] \in Had(r, k)
    <3>1. \A i \in 1..n - 1 : i + 1 \in 1..n
      BY <1>6
    <3> QED BY <1>9, <2>2, <3>1
  <2>4. \A i \in 1..m + 1 : q[i] \in Had(r, k)
    <3>1. \A i \in 1..m + 1 : i \in 1..m \/ i = m + 1
      OBVIOUS
    <3>2. e \in Had(r, k)
      BY <1>6, <1>9, <2>2
    <3> QED BY <1>7, <1>11, <2>1, <3>1, <3>2
  <2>5. new.pc = "sending" => {new.batch[i] : i \in DOMAIN new.batch} \subseteq Had(r, k)
    BY <1>9, <1>19, <2>3
  <2>6. {q[i] : i \in DOMAIN q} \subseteq Had(r, k)
    BY <1>11, <2>4
  <2> QED BY <2>5, <2>6 DEF Had
<1>22. HadOK(Had(q, new))
  BY <1>2, <1>21, HadLess
<1> QED BY <1>3, <1>18, <1>20, <1>22, ClientMoves

\* A client goes away, or comes back with the last event that it received.
LEMMA LeaveKeeps ==
  ASSUME StoreInv, StreamInv, NEW c \in Clients, Disconnect(c)
  PROVE  StreamInv'
<1>1. PICK r, k : r = received[c] /\ k = conn[c]
  OBVIOUS
<1>2. ClientAt(r, k) /\ HadOK(Had(r, k))
  BY <1>1 DEF StreamInv, ClientOK
<1>3. PICK off : off = Off /\ off.pc = "off"
  <2>1. Off.pc = "off"
    BY DEF Off
  <2> QED BY <2>1
<1>4. ClientAt(r, off)
  BY <1>2, <1>3 DEF ClientAt
<1>5. Had(r, off) \subseteq Had(r, k)
  BY <1>3 DEF Had
<1>6. conn' = [conn EXCEPT ![c] = off] /\ Receives(c, r)
      /\ UNCHANGED <<log, rows>>
  BY <1>1, <1>3 DEF Disconnect, storeVars, StreamInv, Receives
<1>7. HadOK(Had(r, off))
  BY <1>2, <1>5, HadLess
<1> QED BY <1>4, <1>6, <1>7, ClientMoves

LEMMA ConnectKeeps ==
  ASSUME StoreInv, StreamInv, NEW c \in Clients, NEW s \in Sessions, NEW since \in StartCursors,
         Connect(c, s, since)
  PROVE  StreamInv'
<1>1. PICK r, new : r = <<>> /\ new = [pc |-> "waiting", session |-> s, cursor |-> since]
  OBVIOUS
<1>2. new.pc = "waiting" /\ new.cursor = since
  BY <1>1
<1>3. r \in Seq(Row) /\ DOMAIN r = {}
  BY <1>1
<1>4. CursorOK(since, r)
  BY <1>1, StartsAt DEF CursorOK
<1>5. ClientAt(r, new)
  BY <1>2, <1>3, <1>4 DEF ClientAt, Rising
<1>6. Had(r, new) = {}
  BY <1>2, <1>3 DEF Had
<1>7. HadOK(Had(r, new))
  BY <1>6 DEF HadOK
<1>8. conn' = [conn EXCEPT ![c] = new] /\ Receives(c, r)
      /\ UNCHANGED <<log, rows>>
  BY <1>1 DEF Connect, ConnectAt, storeVars, StreamInv, Receives
<1> QED BY <1>5, <1>7, <1>8, ClientMoves

LEMMA ResumeKeeps ==
  ASSUME StoreInv, StreamInv, NEW c \in Clients, NEW coarse \in BOOLEAN, Resume(c, coarse)
  PROVE  StreamInv'
<1>1. PICK r, k : r = received[c] /\ k = conn[c]
  OBVIOUS
<1>2. ClientAt(r, k) /\ HadOK(Had(r, k)) /\ r \in Seq(Row) /\ r # <<>>
  BY <1>1 DEF StreamInv, ClientOK, ClientAt, Resume
<1>3. PICK m : m = Len(r) /\ m \in Nat \ {0} /\ DOMAIN r = 1..m
  BY <1>2, LenProperties, EmptySeq
<1>4. PICK l : l = r[m]
  OBVIOUS
<1>5. l \in Had(r, k)
  BY <1>3, <1>4 DEF Had
<1>6. l.id # 0
  BY <1>2, <1>5 DEF HadOK, StoreInv
<1>7. PICK cur : cur = parseEventCursor(l, coarse)
  OBVIOUS
<1>8. /\ DOMAIN cur = {"at", "id", "coarse"} /\ cur.id = l.id
      /\ cur.at = l.at \/ (cur.coarse /\ cur.at = Second(l.at))
  BY <1>7 DEF parseEventCursor
<1>9. CursorOK(cur, r)
  BY <1>2, <1>3, <1>4, <1>6, <1>8 DEF CursorOK
<1>10. PICK new : new = [pc |-> "waiting", session |-> l.session, cursor |-> cur]
  OBVIOUS
<1>11. new.pc = "waiting" /\ new.cursor = cur
  BY <1>10
<1>12. ClientAt(r, new)
  BY <1>2, <1>9, <1>11 DEF ClientAt
<1>13. Had(r, new) \subseteq Had(r, k)
  BY <1>11 DEF Had
<1>14. conn' = [conn EXCEPT ![c] = new] /\ Receives(c, r)
       /\ UNCHANGED <<log, rows>>
  BY <1>1, <1>3, <1>4, <1>7, <1>10
     DEF Resume, ConnectAt, LastReceived, Last, storeVars, StreamInv, Receives
<1>15. HadOK(Had(r, new))
  BY <1>2, <1>13, HadLess
<1> QED BY <1>12, <1>14, <1>15, ClientMoves

LEMMA StreamStep ==
  ASSUME StoreInv, StreamInv, [Next]_vars
  PROVE  StreamInv'
<1>1. CASE UNCHANGED <<conn, received>>
  <2>1. Renewed
    BY StoreStep
  <2>2. ASSUME NEW c \in Clients PROVE ClientOK(c)'
    <3>1. PICK r, k : r = received[c] /\ k = conn[c]
      OBVIOUS
    <3>2. ClientAt(r, k) /\ HadOK(Had(r, k))
      BY <3>1 DEF StreamInv, ClientOK
    <3>3. HadOK(Had(r, k))'
      BY <2>1, <3>2, HadStays
    <3> QED BY <1>1, <3>1, <3>2, <3>3 DEF ClientOK
  <2> QED BY <1>1, <2>2 DEF StreamInv
<1>2. CASE Tick \/ DeleteRows \/ DeleteMark
  BY <1>1, <1>2 DEF Tick, DeleteRows, DeleteMark, streamVars
<1>3. CASE \E e \in pending : Store(e)
  BY <1>1, <1>3 DEF Store, streamVars
<1>4. CASE \E s \in Sessions : \/ Create(s)
                               \/ \E type \in {"turn_started", "turn_completed"} : Stamp(s, type)
                               \/ \E mode \in Modes : DeleteStart(s, mode)
  BY <1>1, <1>4 DEF Create, Stamp, DeleteStart, streamVars
<1>5. CASE \E c \in Clients : \/ Poll(c) \/ Send(c) \/ Disconnect(c)
                              \/ \E s \in Sessions, since \in StartCursors : Connect(c, s, since)
                              \/ \E coarse \in BOOLEAN : Resume(c, coarse)
  BY <1>5, PollKeeps, SendKeeps, LeaveKeeps, ConnectKeeps, ResumeKeeps
<1>6. CASE UNCHANGED vars
  BY <1>1, <1>6 DEF vars, streamVars
<1> QED BY <1>1, <1>2, <1>3, <1>4, <1>5, <1>6 DEF Next

(***************************************************************************)
(* A client of the event stream receives nothing twice and everything in   *)
(* the order of the timestamps (streamNewEvents, parseEventCursor), across *)
(* reconnections with either form of cursor, events that are stored late   *)
(* and deletions of what the cursor names, with any clock and in any time  *)
(* zone, as far as the text of what it received sorts as the times do.     *)
(***************************************************************************)
THEOREM OnceInOrder == Spec => []DeliveredOnceInOrder
<1>1. Init => StoreInv /\ StreamInv
  <2> SUFFICES ASSUME Init PROVE StreamInv
    BY StoreInit
  <2>1. PICK r, off : r = <<>> /\ off = Off /\ off.pc = "off"
    <3>1. Off.pc = "off"
      BY DEF Off
    <3> QED BY <3>1
  <2>2. r \in Seq(Row) /\ DOMAIN r = {}
    BY <2>1
  <2>3. ClientAt(r, off)
    BY <2>1, <2>2 DEF ClientAt, Rising
  <2>4. HadOK(Had(r, off))
    BY <2>1, <2>2 DEF Had, HadOK
  <2>5. /\ DOMAIN conn = Clients /\ DOMAIN received = Clients
        /\ \A c \in Clients : conn[c] = off /\ received[c] = r
    BY <2>1 DEF Init
  <2> QED BY <2>3, <2>4, <2>5 DEF StreamInv, ClientOK
<1>2. StoreInv /\ StreamInv /\ [Next]_vars => (StoreInv /\ StreamInv)'
  BY StoreStep, StreamStep
<1>3. StreamInv => DeliveredOnceInOrder
  <2> SUFFICES ASSUME StreamInv, NEW c \in Clients, SortsByTime(Range(received[c])),
                      NEW i \in DOMAIN received[c], NEW j \in DOMAIN received[c], i < j
               PROVE  received[c][i].id # received[c][j].id /\ received[c][i].at <= received[c][j].at
    BY DEF DeliveredOnceInOrder
  <2>1. PICK r, k : r = received[c] /\ k = conn[c]
    OBVIOUS
  <2>2. ClientAt(r, k) /\ HadOK(Had(r, k))
    BY <2>1 DEF StreamInv, ClientOK
  <2>3. r[i] \in Had(r, k) /\ r[j] \in Had(r, k)
    BY <2>1 DEF Had
  <2>4. Before(r[i], r[j])
    BY <2>1, <2>2 DEF ClientAt, Rising
  <2>5. r[i] \in Row /\ r[j] \in Row /\ (r[i].id = r[j].id => r[i] = r[j])
    BY <2>2, <2>3 DEF HadOK
  <2>6. r[i].id # r[j].id
    BY <2>4, <2>5, TextOrder
  <2>7. ~(r[j].at < r[i].at)
    <3>1. r[j].at < r[i].at => Before(r[j], r[i])
      BY <2>1 DEF SortsByTime, Range
    <3> QED BY <2>4, <2>5, <3>1, TextOrder
  <2>8. r[i].at \in Nat /\ r[j].at \in Nat
    BY <2>5 DEF Row, Instants
  <2> QED BY <2>1, <2>6, <2>7, <2>8
<1> QED BY <1>1, <1>2, <1>3, PTL DEF Spec


----------------------------------------------------------------------------
(* What the clients are sent, with any clock and in any time zone. *)

LinkAt(r, k) ==
  /\ r \in Seq(Row) /\ k.pc \in {"off", "waiting", "sending"}
  /\ k.pc # "off" => k.cursor \in Cursors
  /\ k.pc = "sending" => k.batch \in Seq(Row) /\ k.batch # <<>>

LinkOK(c) == LinkAt(received[c], conn[c]) /\ HadOK(Had(received[c], conn[c]))

LinkInv ==
  /\ DOMAIN conn = Clients /\ DOMAIN received = Clients
  /\ \A c \in Clients : LinkOK(c)

\* A poll reads stored events, and all those that are later than the cursor.
LEMMA PollReads ==
  ASSUME StoreInv, NEW s, NEW cur, NEW b, b = NewEvents(log, s, cur)
  PROVE  /\ b \in Seq(Row) /\ \A i \in DOMAIN b : b[i] \in log
         /\ \A e \in log : e.session = s /\ e.at >= cur.at /\ Later(cur, e)
              => \E i \in DOMAIN b : b[i] = e
<1>1. PICK S : /\ b = Sorted(S) /\ S \subseteq log
               /\ \A e \in log : e.session = s /\ e.at >= cur.at /\ Later(cur, e) => e \in S
  <2>1. PICK events : events = {e \in log : e.session = s /\ e.at >= cur.at}
    OBVIOUS
  <2>2. PICK S : S = {e \in events : \/ cur.id = 0 \/ Later(cur, e)
                                     \/ \E f \in events : (Later(cur, f) \/ f.id = cur.id) /\ Before(f, e)}
    OBVIOUS
  <2>3. b = Sorted(S)
    BY <2>1, <2>2 DEF NewEvents, eventsSince
  <2>4. S \subseteq log /\ \A e \in log : e.session = s /\ e.at >= cur.at /\ Later(cur, e) => e \in S
    BY <2>1, <2>2
  <2> QED BY ONLY <2>3, <2>4
<1>2. Rows(S) /\ S \subseteq Row
  BY <1>1, FS_Subset DEF StoreInv, Rows, OneRowPerId
<1>3. PICK n \in Nat : b \in [1..n -> S] /\ \A e \in S : \E i \in 1..n : b[i] = e
  BY <1>1, <1>2, SortedIs DEF Listing
<1>4. b \in [1..n -> Row]
  BY <1>2, <1>3
<1>5. b \in Seq(Row) /\ DOMAIN b = 1..n
  BY <1>4, IsASeq
<1> QED BY <1>1, <1>3, <1>5

LEMMA LinkMoves ==
  ASSUME LinkInv, UNCHANGED <<log, rows>>, NEW c \in Clients, NEW r, NEW k,
         conn' = [conn EXCEPT ![c] = k], Receives(c, r),
         LinkAt(r, k), HadOK(Had(r, k))
  PROVE  LinkInv'
<1>1. /\ DOMAIN conn' = Clients /\ DOMAIN received' = Clients
      /\ conn'[c] = k /\ received'[c] = r
      /\ \A d \in Clients \ {c} : conn'[d] = conn[d] /\ received'[d] = received[d]
  BY DEF LinkInv, Receives
<1>2. \A h : HadOK(h)' <=> HadOK(h)
  BY DEF HadOK
<1>3. ASSUME NEW d \in Clients PROVE LinkOK(d)'
  <2>1. PICK x, y : x = received'[d] /\ y = conn'[d]
    OBVIOUS
  <2>2. LinkAt(x, y) /\ HadOK(Had(x, y))
    BY <1>1, <2>1 DEF LinkInv, LinkOK
  <2>3. HadOK(Had(x, y))'
    BY <1>2, <2>2
  <2> QED BY <2>1, <2>2, <2>3 DEF LinkOK
<1> QED BY <1>1, <1>3 DEF LinkInv

\* A poll takes what is stored after the cursor in hand.
LEMMA PollIs ==
  ASSUME StoreInv, LinkInv, NEW c \in Clients, Poll(c)
  PROVE  /\ LinkInv' /\ conn'[c].pc = "sending"
         /\ conn'[c].batch = NewEvents(log, conn[c].session, conn[c].cursor)
<1>1. PICK r, k : r = received[c] /\ k = conn[c]
  OBVIOUS
<1>2. PICK b : b = NewEvents(log, k.session, k.cursor)
  OBVIOUS
<1>3. LinkAt(r, k) /\ HadOK(Had(r, k))
  BY <1>1 DEF LinkInv, LinkOK
<1>4. PICK new : new = [pc |-> "sending", session |-> k.session, cursor |-> k.cursor, batch |-> b]
  OBVIOUS
<1>5. /\ k.pc = "waiting" /\ b # <<>> /\ conn' = [conn EXCEPT ![c] = new]
      /\ UNCHANGED <<log, rows, received>>
  BY <1>1, <1>2, <1>4 DEF Poll, storeVars
<1>6. new.pc = "sending" /\ new.cursor = k.cursor /\ new.batch = b
  BY <1>4
<1>7. b \in Seq(Row) /\ \A i \in DOMAIN b : b[i] \in log
  BY <1>2, PollReads
<1>8. LinkAt(r, new)
  BY <1>3, <1>5, <1>6, <1>7 DEF LinkAt
<1>9. Had(r, new) \subseteq Had(r, k) \cup log
  BY <1>5, <1>6, <1>7 DEF Had
<1>10. HadOK(Had(r, new))
  BY <1>3, <1>9, HadLess
<1>11. Receives(c, r)
  BY <1>1, <1>5 DEF LinkInv, Receives
<1>12. conn'[c] = new
  BY <1>5 DEF LinkInv
<1> QED BY <1>1, <1>2, <1>5, <1>6, <1>8, <1>10, <1>11, <1>12, LinkMoves

\* A write takes the first event in hand to the client and leaves the others.
LEMMA SendIs ==
  ASSUME StoreInv, LinkInv, NEW c \in Clients, Send(c)
  PROVE  /\ LinkInv'
         /\ \A i \in DOMAIN conn[c].batch :
              \/ \E j \in DOMAIN received'[c] : received'[c][j] = conn[c].batch[i]
              \/ /\ conn'[c].pc = "sending"
                 /\ \E j \in DOMAIN conn'[c].batch : conn'[c].batch[j] = conn[c].batch[i]
<1>1. PICK r, k : r = received[c] /\ k = conn[c]
  OBVIOUS
<1>2. LinkAt(r, k) /\ HadOK(Had(r, k))
  BY <1>1 DEF LinkInv, LinkOK
<1>3. k.pc = "sending" /\ UNCHANGED <<log, rows>>
  BY <1>1 DEF Send, storeVars
<1>4. PICK b : b = k.batch
  OBVIOUS
<1>5. r \in Seq(Row) /\ k.cursor \in Cursors /\ b \in Seq(Row) /\ b # <<>>
  BY <1>2, <1>3, <1>4 DEF LinkAt
<1>6. PICK n : n = Len(b) /\ n \in Nat \ {0} /\ DOMAIN b = 1..n
  BY <1>5, LenProperties, EmptySeq
<1>7. PICK m \in Nat : m = Len(r) /\ DOMAIN r = 1..m
  BY <1>5, LenProperties
<1>8. PICK e, rest : e = Head(b) /\ rest = Tail(b)
  OBVIOUS
<1>9. /\ e = b[1] /\ e \in Row /\ rest \in Seq(Row) /\ DOMAIN rest = 1..n - 1
      /\ \A i \in 1..n - 1 : rest[i] = b[i + 1]
  BY <1>5, <1>6, <1>8, HeadTailProperties, LenProperties
<1>10. PICK q : q = Append(r, e)
  OBVIOUS
<1>11. /\ q \in Seq(Row) /\ DOMAIN q = 1..m + 1
       /\ q[m + 1] = e /\ \A i \in 1..m : q[i] = r[i]
  <2>1. /\ q \in Seq(Row) /\ Len(q) = m + 1
        /\ q[m + 1] = e /\ \A i \in 1..m : q[i] = r[i]
    BY <1>5, <1>7, <1>9, <1>10, AppendProperties
  <2> QED BY <2>1, LenProperties
<1>12. PICK cur : cur = CursorAt(k.cursor, e)
  OBVIOUS
<1>13. cur \in Cursors
  <2>1. e.at \in Int /\ e.id \in Nat
    BY <1>9 DEF Row, Instants
  <2> QED BY <1>5, <1>12, <2>1 DEF CursorAt, Cursors
<1>14. PICK new : new = IF rest = <<>>
                        THEN [pc |-> "waiting", session |-> k.session, cursor |-> cur]
                        ELSE [pc |-> "sending", session |-> k.session, cursor |-> cur, batch |-> rest]
  OBVIOUS
<1>15. conn' = [conn EXCEPT ![c] = new] /\ Receives(c, q)
  BY <1>1, <1>4, <1>8, <1>10, <1>12, <1>14 DEF Send, LinkInv, Receives
<1>16. /\ rest = <<>> => new.pc = "waiting" /\ new.cursor = cur
       /\ rest # <<>> => new.pc = "sending" /\ new.cursor = cur /\ new.batch = rest
  BY <1>14
<1>17. LinkAt(q, new)
  BY <1>9, <1>11, <1>13, <1>16 DEF LinkAt
<1>18. Had(q, new) \subseteq Had(r, k)
  <2>1. \A i \in 1..m : r[i] \in Had(r, k)
    BY <1>7 DEF Had
  <2>2. \A i \in 1..n : b[i] \in Had(r, k)
    BY <1>3, <1>4, <1>6 DEF Had
  <2>3. \A i \in 1..n - 1 : rest[i] \in Had(r, k)
    <3>1. \A i \in 1..n - 1 : i + 1 \in 1..n
      BY <1>6
    <3> QED BY <1>9, <2>2, <3>1
  <2>4. \A i \in 1..m + 1 : q[i] \in Had(r, k)
    <3>1. \A i \in 1..m + 1 : i \in 1..m \/ i = m + 1
      OBVIOUS
    <3>2. e \in Had(r, k)
      BY <1>6, <1>9, <2>2
    <3> QED BY <1>11, <2>1, <3>1, <3>2
  <2>5. new.pc = "sending" => {new.batch[i] : i \in DOMAIN new.batch} \subseteq Had(r, k)
    BY <1>9, <1>16, <2>3
  <2>6. {q[i] : i \in DOMAIN q} \subseteq Had(r, k)
    BY <1>11, <2>4
  <2> QED BY <2>5, <2>6 DEF Had
<1>19. HadOK(Had(q, new))
  BY <1>2, <1>18, HadLess
<1>20. LinkInv'
  BY <1>3, <1>15, <1>17, <1>19, LinkMoves
<1>21. conn'[c] = new /\ received'[c] = q
  BY <1>15 DEF LinkInv, Receives
<1>22. ASSUME NEW i \in 1..n
       PROVE  \/ \E j \in DOMAIN q : q[j] = b[i]
              \/ new.pc = "sending" /\ \E j \in DOMAIN new.batch : new.batch[j] = b[i]
  <2>1. CASE i = 1
    BY <1>9, <1>11, <2>1
  <2>2. CASE i # 1
    <3>1. PICK j \in 1..n - 1 : i = j + 1
      <4>1. i - 1 \in 1..n - 1 /\ i = (i - 1) + 1
        BY <1>6, <2>2
      <4> QED BY <4>1
    <3>2. rest # <<>>
      <4>1. rest = <<>> => DOMAIN rest = {}
        OBVIOUS
      <4> QED BY <1>9, <3>1, <4>1
    <3>3. new.pc = "sending" /\ j \in DOMAIN new.batch /\ new.batch[j] = b[i]
      BY <1>9, <1>16, <3>1, <3>2
    <3> QED BY <3>3
  <2> QED BY <2>1, <2>2
<1> QED BY <1>1, <1>4, <1>6, <1>20, <1>21, <1>22

\* A client goes away or comes back.
LEMMA LinkTurns ==
  ASSUME StoreInv, LinkInv, UNCHANGED <<log, rows>>, NEW c \in Clients, NEW q, NEW new,
         q = <<>> \/ q = received[c], new.pc \in {"off", "waiting"},
         new.pc = "waiting" => new.cursor \in Cursors,
         conn' = [conn EXCEPT ![c] = new], Receives(c, q)
  PROVE  LinkInv'
<1>1. PICK r, k : r = received[c] /\ k = conn[c]
  OBVIOUS
<1>2. LinkAt(r, k) /\ HadOK(Had(r, k)) /\ r \in Seq(Row)
  BY <1>1 DEF LinkInv, LinkOK, LinkAt
<1>3. q \in Seq(Row)
  <2>1. CASE q = <<>>
    BY <2>1
  <2> QED BY <1>1, <1>2, <2>1
<1>4. LinkAt(q, new)
  BY <1>3 DEF LinkAt
<1>5. \A i \in DOMAIN q : q[i] \in Had(r, k)
  <2>1. CASE q = <<>>
    BY <2>1
  <2>2. CASE q = r
    BY <2>2 DEF Had
  <2> QED BY <1>1, <2>1, <2>2
<1>6. Had(q, new) \subseteq Had(r, k)
  BY <1>5 DEF Had
<1>7. HadOK(Had(q, new))
  BY <1>2, <1>6, HadLess
<1> QED BY <1>4, <1>7, LinkMoves

LEMMA LinkChanges ==
  ASSUME StoreInv, LinkInv, NEW c \in Clients,
         \/ Disconnect(c) \/ \E s \in Sessions, since \in StartCursors : Connect(c, s, since)
         \/ \E coarse \in BOOLEAN : Resume(c, coarse)
  PROVE  LinkInv'
<1>1. PICK r, k : r = received[c] /\ k = conn[c]
  OBVIOUS
<1>2. LinkAt(r, k) /\ HadOK(Had(r, k)) /\ r \in Seq(Row)
  BY <1>1 DEF LinkInv, LinkOK, LinkAt
<1>3. UNCHANGED <<log, rows>>
  BY DEF Disconnect, Connect, Resume, storeVars
<1>5. CASE Disconnect(c)
  <2>1. PICK new : new = Off /\ new.pc = "off"
    <3>1. Off.pc = "off"
      BY DEF Off
    <3> QED BY <3>1
  <2>2. conn' = [conn EXCEPT ![c] = new] /\ Receives(c, r) /\ r = received[c]
    BY <1>1, <1>5, <2>1 DEF Disconnect, LinkInv, Receives
  <2> QED BY <1>3, <2>1, <2>2, LinkTurns
<1>6. CASE \E s \in Sessions, since \in StartCursors : Connect(c, s, since)
  <2>1. PICK s \in Sessions, since \in StartCursors : Connect(c, s, since)
    BY <1>6
  <2>2. PICK q, new : q = <<>> /\ new = [pc |-> "waiting", session |-> s, cursor |-> since]
    OBVIOUS
  <2>3. new.pc = "waiting" /\ new.cursor \in Cursors
    BY <2>2, StartsAt
  <2>4. conn' = [conn EXCEPT ![c] = new] /\ Receives(c, q)
    BY <2>1, <2>2 DEF Connect, ConnectAt, LinkInv, Receives
  <2> QED BY <1>3, <2>2, <2>3, <2>4, LinkTurns
<1>7. CASE \E coarse \in BOOLEAN : Resume(c, coarse)
  <2>1. PICK coarse \in BOOLEAN : Resume(c, coarse)
    BY <1>7
  <2>2. PICK l \in Row : l = r[Len(r)]
    <3>1. r # <<>>
      BY <1>1, <2>1 DEF Resume
    <3>2. Len(r) \in 1..Len(r)
      BY <1>2, <3>1, LenProperties, EmptySeq
    <3>3. r[Len(r)] \in Row
      BY <1>2, <3>2, ElementOfSeq
    <3> QED BY <3>3
  <2>3. PICK cur : cur = parseEventCursor(l, coarse)
    OBVIOUS
  <2>4. cur \in Cursors
    <3>1. PICK a \in Nat, m \in Nat \ {0} : a = l.at /\ m = PerSecond
      BY EventLogAssumption DEF Row, Instants
    <3>2. PICK at \in Int : at = IF coarse THEN a - (a % m) ELSE a
      BY <3>1
    <3>3. PICK full \in BOOLEAN : full = (coarse \/ l.at % PerSecond = 0)
      OBVIOUS
    <3>4. cur = [at |-> at, id |-> l.id, coarse |-> full]
      BY <2>3, <3>1, <3>2, <3>3 DEF parseEventCursor, Second
    <3>5. l.id \in Nat
      BY DEF Row
    <3> QED BY <3>4, <3>5 DEF Cursors
  <2>5. PICK new : new = [pc |-> "waiting", session |-> l.session, cursor |-> cur]
    OBVIOUS
  <2>6. new.pc = "waiting" /\ new.cursor = cur
    BY <2>5
  <2>7. conn' = [conn EXCEPT ![c] = new] /\ Receives(c, r)
    BY <1>1, <2>1, <2>2, <2>3, <2>5 DEF Resume, ConnectAt, LastReceived, Last, LinkInv, Receives
  <2> QED BY <1>1, <1>3, <2>4, <2>6, <2>7, LinkTurns
<1> QED BY <1>5, <1>6, <1>7

LEMMA LinkStep ==
  ASSUME StoreInv, LinkInv, [Next]_vars
  PROVE  LinkInv'
<1>1. CASE UNCHANGED <<conn, received>>
  <2>1. Renewed
    BY StoreStep
  <2>2. ASSUME NEW c \in Clients PROVE LinkOK(c)'
    <3>1. PICK r, k : r = received[c] /\ k = conn[c]
      OBVIOUS
    <3>2. LinkAt(r, k) /\ HadOK(Had(r, k))
      BY <3>1 DEF LinkInv, LinkOK
    <3>3. HadOK(Had(r, k))'
      BY <2>1, <3>2, HadStays
    <3> QED BY <1>1, <3>1, <3>2, <3>3 DEF LinkOK
  <2> QED BY <1>1, <2>2 DEF LinkInv
<1>2. CASE Tick \/ DeleteRows \/ DeleteMark
  BY <1>1, <1>2 DEF Tick, DeleteRows, DeleteMark, streamVars
<1>3. CASE \E e \in pending : Store(e)
  BY <1>1, <1>3 DEF Store, streamVars
<1>4. CASE \E s \in Sessions : \/ Create(s)
                               \/ \E type \in {"turn_started", "turn_completed"} : Stamp(s, type)
                               \/ \E mode \in Modes : DeleteStart(s, mode)
  BY <1>1, <1>4 DEF Create, Stamp, DeleteStart, streamVars
<1>5. CASE \E c \in Clients : \/ Poll(c) \/ Send(c) \/ Disconnect(c)
                              \/ \E s \in Sessions, since \in StartCursors : Connect(c, s, since)
                              \/ \E coarse \in BOOLEAN : Resume(c, coarse)
  BY <1>5, PollIs, SendIs, LinkChanges
<1>6. CASE UNCHANGED vars
  BY <1>1, <1>6 DEF vars, streamVars
<1> QED BY <1>1, <1>2, <1>3, <1>4, <1>5, <1>6 DEF Next

LEMMA LinkInit ==
  ASSUME Init
  PROVE  LinkInv
<1>1. PICK r, off : r = <<>> /\ off = Off /\ off.pc = "off"
  <2>1. Off.pc = "off"
    BY DEF Off
  <2> QED BY <2>1
<1>2. r \in Seq(Row) /\ DOMAIN r = {}
  BY <1>1
<1>3. LinkAt(r, off)
  BY <1>1, <1>2 DEF LinkAt
<1>4. HadOK(Had(r, off))
  BY <1>1, <1>2 DEF Had, HadOK
<1>5. /\ DOMAIN conn = Clients /\ DOMAIN received = Clients
      /\ \A c \in Clients : conn[c] = off /\ received[c] = r
  BY <1>1 DEF Init
<1> QED BY <1>3, <1>4, <1>5 DEF LinkInv, LinkOK


\* A row stays, or its id goes with it.
LEMMA RowStays ==
  ASSUME StoreInv, [Next]_vars, NEW e \in log
  PROVE  e \in log' \/ \A f \in log' : f.id # e.id
<1>1. PICK n : n = rows
  OBVIOUS
<1>2. n \in Nat /\ e.id \in 1..n /\ \A f \in log : f.id = e.id => f = e
  BY <1>1 DEF StoreInv, Rows, OneRowPerId
<1>3. \A f \in log' : f \in log \/ f.id = n + 1
  BY <1>1, StoreStep DEF Renewed
<1> QED BY <1>2, <1>3

\* What a step means for a client: it is its own, or leaves it alone.
LEMMA ClientSteps ==
  ASSUME LinkInv, [Next]_vars, NEW c \in Clients
  PROVE  \/ conn'[c] = conn[c] /\ received'[c] = received[c]
         \/ Poll(c) /\ UNCHANGED log
         \/ Send(c) /\ UNCHANGED log
         \/ conn'[c].pc = "off"
         \/ conn[c].pc = "off"
<1>1. CASE UNCHANGED <<conn, received>>
  BY <1>1
<1>2. ASSUME NEW d \in Clients, Poll(d) \/ Send(d) \/ Disconnect(d), d # c
      PROVE  conn'[c] = conn[c] /\ received'[c] = received[c]
  <2>1. CASE Poll(d)
    BY <1>2, <2>1 DEF Poll, LinkInv
  <2>2. CASE Send(d)
    BY <1>2, <2>2 DEF Send, LinkInv
  <2>3. CASE Disconnect(d)
    BY <1>2, <2>3 DEF Disconnect, LinkInv
  <2> QED BY <1>2, <2>1, <2>2, <2>3
<1>3. ASSUME NEW d \in Clients, d # c,
             (\E s \in Sessions, since \in StartCursors : Connect(d, s, since)) \/ \E coarse \in BOOLEAN : Resume(d, coarse)
      PROVE  conn'[c] = conn[c] /\ received'[c] = received[c]
  <2>1. CASE \E s \in Sessions, since \in StartCursors : Connect(d, s, since)
    BY <1>3, <2>1 DEF Connect, ConnectAt, LinkInv
  <2>2. CASE \E coarse \in BOOLEAN : Resume(d, coarse)
    BY <1>3, <2>2 DEF Resume, ConnectAt, LinkInv
  <2> QED BY <1>3, <2>1, <2>2
<1>4. (\E s \in Sessions, since \in StartCursors : Connect(c, s, since)) \/ (\E coarse \in BOOLEAN : Resume(c, coarse)) => conn[c].pc = "off"
  BY DEF Connect, Resume, ConnectAt
<1>5. Disconnect(c) => conn'[c].pc = "off"
  BY DEF Disconnect, Off, LinkInv
<1>6. Poll(c) \/ Send(c) => UNCHANGED log
  BY DEF Poll, Send, storeVars
<1>7. CASE \E d \in Clients : \/ Poll(d) \/ Send(d) \/ Disconnect(d)
                              \/ \E s \in Sessions, since \in StartCursors : Connect(d, s, since)
                              \/ \E coarse \in BOOLEAN : Resume(d, coarse)
  BY <1>2, <1>3, <1>4, <1>5, <1>6, <1>7
<1>8. CASE Tick \/ DeleteRows \/ DeleteMark
  BY <1>1, <1>8 DEF Tick, DeleteRows, DeleteMark, streamVars
<1>9. CASE \E e \in pending : Store(e)
  BY <1>1, <1>9 DEF Store, streamVars
<1>10. CASE \E s \in Sessions : \/ Create(s)
                                \/ \E type \in {"turn_started", "turn_completed"} : Stamp(s, type)
                                \/ \E mode \in Modes : DeleteStart(s, mode)
  BY <1>1, <1>10 DEF Create, Stamp, DeleteStart, streamVars
<1>11. CASE UNCHANGED vars
  BY <1>1, <1>11 DEF vars, streamVars
<1> QED BY <1>7, <1>8, <1>9, <1>10, <1>11 DEF Next

\* The event with this id has been read and not yet written.
InHand(c, id) == conn[c].pc = "sending" /\ \E i \in DOMAIN conn[c].batch : conn[c].batch[i].id = id

LEMMA AheadIsRead ==
  ASSUME StoreInv, LinkInv, NEW c \in Clients, NEW id, Ahead(c, id), Poll(c)
  PROVE  InHand(c, id)'
<1>1. PICK e \in log : e.id = id /\ e.session = conn[c].session /\ Second(e.at) > conn[c].cursor.at
  BY DEF Ahead
<1>2. PICK at, b : at = conn[c].cursor.at /\ b = NewEvents(log, conn[c].session, conn[c].cursor)
  OBVIOUS
<1>3. at \in Int
  BY <1>2 DEF Ahead, LinkInv, LinkOK, LinkAt, Cursors
<1>4. PICK a \in Nat, m \in Nat \ {0} : a = e.at /\ m = PerSecond
  BY EventLogAssumption DEF StoreInv, Rows, Row, Instants
<1>5. a >= at /\ a > at /\ Second(e.at) # at
  <2>1. a - (a % m) > at
    BY <1>1, <1>2, <1>4 DEF Second
  <2>2. a % m \in 0..m - 1
    BY <1>4
  <2> QED BY <1>1, <1>2, <1>3, <1>4, <2>1, <2>2 DEF Second
<1>6. Later(conn[c].cursor, e) /\ e.at >= conn[c].cursor.at
  BY <1>2, <1>4, <1>5 DEF Later, InCursorSecond
<1>7. \E i \in DOMAIN b : b[i] = e
  BY <1>1, <1>2, <1>6, PollReads
<1>8. conn'[c].pc = "sending" /\ conn'[c].batch = b
  BY <1>2, PollIs
<1> QED BY <1>1, <1>7, <1>8 DEF InHand

\* The step of CaughtUp that is no question of fairness.
PassesNothingOver ==
  [][\A c \in Clients, id \in Nat :
       Ahead(c, id) \/ InHand(c, id) => (Ahead(c, id) \/ InHand(c, id) \/ Reached(c, id))']_vars

(***************************************************************************)
(* An event in a later second than the cursor of a waiting connection      *)
(* stays ahead of it until a poll takes it in hand, and what is in hand    *)
(* stays there until it is written, unless the connection ends or the row  *)
(* is deleted (streamNewEvents): with any clock and in any time zone,      *)
(* whatever else is stored, deleted and written meanwhile.  So CaughtUp    *)
(* asks no more than that polls and writes go on.                          *)
(***************************************************************************)
THEOREM NothingPassedOver == Spec => PassesNothingOver
<1>1. ASSUME StoreInv, LinkInv, [Next]_vars, NEW c \in Clients, NEW id \in Nat,
             Ahead(c, id) \/ InHand(c, id)
      PROVE  (Ahead(c, id) \/ InHand(c, id) \/ Reached(c, id))'
  <2>1. CASE conn'[c] = conn[c] /\ received'[c] = received[c]
    <3>1. CASE InHand(c, id)
      BY <2>1, <3>1 DEF InHand
    <3>2. ASSUME NEW e \in log, e.id = id, e.session = conn[c].session,
                 Second(e.at) > conn[c].cursor.at, conn[c].pc = "waiting"
          PROVE  (Ahead(c, id) \/ Reached(c, id))'
      <4>1. e \in log' \/ \A f \in log' : f.id # id
        BY <1>1, <3>2, RowStays
      <4> QED BY <2>1, <3>2, <4>1 DEF Ahead, Reached
    <3> QED BY <1>1, <3>1, <3>2 DEF Ahead
  <2>2. CASE Poll(c)
    <3>1. ~InHand(c, id)
      BY <2>2 DEF InHand, Poll
    <3> QED BY <1>1, <2>2, <3>1, AheadIsRead
  <2>3. CASE Send(c)
    <3>1. PICK i \in DOMAIN conn[c].batch : conn[c].batch[i].id = id
      BY <1>1, <2>3 DEF Ahead, InHand, Send
    <3>2. CASE \E j \in DOMAIN received'[c] : received'[c][j] = conn[c].batch[i]
      BY <3>1, <3>2 DEF Reached, Range
    <3>3. CASE /\ conn'[c].pc = "sending"
               /\ \E j \in DOMAIN conn'[c].batch : conn'[c].batch[j] = conn[c].batch[i]
      BY <3>1, <3>3 DEF InHand
    <3> QED BY <1>1, <2>3, <3>1, <3>2, <3>3, SendIs
  <2>4. CASE conn'[c].pc = "off"
    BY <2>4 DEF Reached
  <2>5. conn[c].pc # "off"
    BY <1>1 DEF Ahead, InHand
  <2> QED BY <1>1, <2>1, <2>2, <2>3, <2>4, <2>5, ClientSteps
<1>2. StoreInv /\ LinkInv /\ [Next]_vars => (StoreInv /\ LinkInv)'
  BY StoreStep, LinkStep
<1>3. StoreInv /\ LinkInv /\ [Next]_vars =>
        [\A c \in Clients, id \in Nat :
           Ahead(c, id) \/ InHand(c, id) => (Ahead(c, id) \/ InHand(c, id) \/ Reached(c, id))']_vars
  BY <1>1
<1>4. Init => StoreInv /\ LinkInv
  BY StoreInit, LinkInit
<1> QED BY <1>2, <1>3, <1>4, PTL DEF Spec, PassesNothingOver

----------------------------------------------------------------------------
(* Types. *)

\* Nobody holds a time that is still to come.
TimeInv ==
  /\ clock \in 1..MaxClock + 1 /\ rows <= MaxRows
  /\ \A e \in log : e.at <= clock
  /\ \A e \in pending : e.at <= clock
  /\ deletion.pc # "idle" => deletion.at <= clock

LEMMA TimeStep ==
  ASSUME StoreInv, TimeInv, [Next]_vars
  PROVE  TimeInv'
<1>1. /\ clock \in Nat /\ rows \in Nat /\ MaxRows \in Nat /\ MaxClock \in Nat
      /\ \A e \in log : e.at \in Nat
  BY StreamAssumption DEF StoreInv, Rows, Row, Instants
<1>2. ASSUME NEW s, NEW type, NEW at, at <= clock, Insert(s, type, at)
      PROVE  rows' <= MaxRows /\ \A e \in log' : e.at <= clock
  BY <1>1, <1>2 DEF Insert, TimeInv
<1>3. rows' <= MaxRows /\ \A e \in log' : e.at <= clock
  <2>1. CASE UNCHANGED <<log, rows>>
    BY <2>1 DEF TimeInv
  <2>2. CASE \E e \in pending : Insert(e.session, e.type, e.at)
    BY <1>2, <2>2 DEF TimeInv
  <2>3. CASE UNCHANGED rows /\ log' = DeleteBySession(log, deletion.session)
    BY <2>3 DEF DeleteBySession, TimeInv
  <2>4. CASE /\ deletion.pc = "mark"
             /\ \E type \in {"session_soft_deleted", "session_tombstoned"} :
                  Insert(deletion.session, type, deletion.at)
    BY <1>2, <2>4 DEF TimeInv
  <2> QED BY <2>1, <2>2, <2>3, <2>4, LogChanges
<1>4. CASE Tick
  <2>1. clock' \in 1..MaxClock + 1 /\ clock' >= clock
    BY <1>1, <1>4 DEF Tick, TimeInv
  <2>2. \A e \in pending : e.at \in Nat
    BY DEF StoreInv, Instants
  <2>3. deletion.pc # "idle" => deletion.at \in Nat
    BY DEF StoreInv, DeletionOK, NoDeletion, Instants
  <2>4. UNCHANGED <<log, rows, pending, deletion>>
    BY <1>4 DEF Tick, storeVars
  <2> QED BY <1>1, <2>1, <2>2, <2>3, <2>4 DEF TimeInv
<1>5. CASE UNCHANGED <<clock, pending, deletion>>
  BY <1>3, <1>5 DEF TimeInv
<1>6. CASE \E e \in pending : Store(e)
  BY <1>3, <1>6 DEF Store, TimeInv
<1>7. CASE \E s \in Sessions : Create(s) \/ \E type \in {"turn_started", "turn_completed"} : Stamp(s, type)
  <2>1. /\ UNCHANGED <<clock, deletion>>
        /\ \E type, s : pending' = pending \cup {[type |-> type, session |-> s, at |-> clock]}
    BY <1>7 DEF Create, Stamp, Hold
  <2> QED BY <1>1, <1>3, <2>1 DEF TimeInv
<1>8. CASE \E s \in Sessions, mode \in Modes : DeleteStart(s, mode)
  <2>1. UNCHANGED <<clock, pending>> /\ deletion'.at = clock
    BY <1>8 DEF DeleteStart
  <2> QED BY <1>1, <1>3, <2>1 DEF TimeInv
<1>9. CASE DeleteRows \/ DeleteMark
  <2>1. /\ deletion.pc # "idle" /\ UNCHANGED <<clock, pending>>
        /\ \/ deletion' = NoDeletion(deletion.left)
           \/ deletion' = [deletion EXCEPT !.pc = "mark"]
    BY <1>9 DEF DeleteRows, DeleteMark
  <2>2. \A left : deletion # NoDeletion(left)
    BY <2>1 DEF NoDeletion
  <2>3. deletion'.pc # "idle" => deletion'.at = deletion.at
    BY <2>1, <2>2 DEF StoreInv, DeletionOK, NoDeletion
  <2> QED BY <1>3, <2>1, <2>3 DEF TimeInv
<1>10. CASE \E c \in Clients : Poll(c) \/ Send(c) \/ Disconnect(c)
  BY <1>5, <1>10 DEF Poll, Send, Disconnect
<1>11. CASE \E c \in Clients : \/ \E s \in Sessions, since \in StartCursors : Connect(c, s, since)
                               \/ \E coarse \in BOOLEAN : Resume(c, coarse)
  BY <1>5, <1>11 DEF Connect, Resume
<1>12. CASE UNCHANGED vars
  BY <1>5, <1>12 DEF vars
<1> QED BY <1>4, <1>6, <1>7, <1>8, <1>9, <1>10, <1>11, <1>12 DEF Next

(***************************************************************************)
(* The store and the clients keep their types: no row has a time from the  *)
(* future or the id of another, and clients have only ever received rows   *)
(* that were stored.                                                       *)
(***************************************************************************)
THEOREM StreamTypes == Spec => []TypeOK
<1>1. Init => StoreInv /\ LinkInv /\ TimeInv
  <2>1. Init => TimeInv
    BY StreamAssumption DEF Init, TimeInv, NoDeletion
  <2> QED BY <2>1, StoreInit, LinkInit
<1>2. StoreInv /\ LinkInv /\ TimeInv /\ [Next]_vars => (StoreInv /\ LinkInv /\ TimeInv)'
  BY StoreStep, LinkStep, TimeStep
<1>3. StoreInv /\ LinkInv /\ TimeInv => TypeOK
  <2> SUFFICES ASSUME StoreInv, LinkInv, TimeInv PROVE TypeOK
    OBVIOUS
  <2>1. clock \in 1..MaxClock + 1 /\ rows \in 0..MaxRows
    BY StreamAssumption DEF StoreInv, TimeInv
  <2>2. ASSUME NEW e \in log PROVE e.id \in 1..rows /\ e.at \in 0..clock /\ e.session \in Sessions
    <3>1. e.at \in Nat /\ clock \in Nat /\ e.at <= clock /\ e.session \in Sessions
      BY DEF StoreInv, Rows, Row, Instants, TimeInv
    <3> QED BY <3>1 DEF StoreInv
  <2>3. \A e, f \in log : e.id = f.id => e = f
    BY DEF StoreInv, Rows, OneRowPerId
  <2>4. \A c \in Clients : conn[c].pc \in {"off", "waiting", "sending"}
    BY DEF LinkInv, LinkOK, LinkAt
  <2>5. ASSUME NEW c \in Clients, NEW i \in DOMAIN received[c] PROVE received[c][i].id \in 1..rows
    <3>1. HadOK(Had(received[c], conn[c])) /\ received[c][i] \in Had(received[c], conn[c])
      BY DEF LinkInv, LinkOK, Had
    <3> QED BY <3>1 DEF HadOK
  <2> QED BY <2>1, <2>2, <2>3, <2>4, <2>5 DEF TypeOK
<1> QED BY <1>1, <1>2, <1>3, PTL DEF Spec

=============================================================================
