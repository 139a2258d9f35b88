---- MODULE RiskApi ----
(***************************************************************************)
(* The local HTTP API: one thread that answers one connection at a time    *)
(* from the SQLite store, beside the threads that write the store.         *)
(*                                                                         *)
(* The store is in rollback-journal mode: a transaction that is about to   *)
(* commit keeps new readers out, and waits for the reader inside.  A sort  *)
(* key and an identifier are all of an incident that a page tells apart.   *)
(***************************************************************************)
EXTENDS Integers, Sequences, FiniteSets, SequencesExt

CONSTANTS
  Limit,       \* incidents of one page
  Initial,     \* [incidents, events] in the store at first
  Writes,      \* transactions of the writers: [incidents, events] they add
  None

(* The row of an incident, as far as a page tells it from another. *)
Row == [id : Nat, updated : Int]

ASSUME ApiAssumption ==
  /\ Limit \in Nat \ {0}
  /\ IsFiniteSet(Initial.incidents) /\ Initial.incidents \subseteq Row
  /\ \A w \in Writes : IsFiniteSet(w.incidents) /\ w.incidents \subseteq Row

VARIABLES
  incidents,   \* rows: [id, updated]
  events,
  writing,     \* the transaction that is about to commit, or None
  reading,     \* the API thread is inside a read transaction
  conns,       \* connections in the order they were accepted by the kernel
  cur,         \* the connection being served, or the last one that was
  pc,          \* where the API thread is
  heard,       \* the request line it read
  got          \* what it has read from the store

storeVars == <<incidents, events, writing>>
apiVars == <<incidents, events, writing, reading, conns, cur, pc, heard, got>>

ApiInit ==
  /\ incidents = Initial.incidents
  /\ events = Initial.events
  /\ writing = None
  /\ reading = FALSE
  /\ conns = <<>>
  /\ cur = 0
  /\ pc = "accept"
  /\ heard = None
  /\ got = None

----
(* The writers.                                                            *)

BeginCommit(w) ==
  /\ writing = None
  /\ ~ w.events \subseteq events
  /\ writing' = w
  /\ UNCHANGED <<incidents, events, reading, conns, cur, pc, heard, got>>

EndCommit ==
  /\ writing # None
  /\ ~ reading
  /\ incidents' = incidents \union writing.incidents
  /\ events' = events \union writing.events
  /\ writing' = None
  /\ UNCHANGED <<reading, conns, cur, pc, heard, got>>

(* The busy timeout: the transaction rolls back, to be tried again. *)
AbandonCommit ==
  /\ writing # None
  /\ writing' = None
  /\ UNCHANGED <<incidents, events, reading, conns, cur, pc, heard, got>>

----
(* A page: newest update first, then by identifier.                        *)

Newer(a, b) == a.updated > b.updated \/ (a.updated = b.updated /\ a.id < b.id)

(* How many rows come before one. *)
Rank(rows, row) == Cardinality({other \in rows : Newer(other, row)})

PageLength(rows, offset) ==
  LET left == Cardinality(rows) - offset
  IN  IF left < 0 THEN 0 ELSE IF left < Limit THEN left ELSE Limit

PageOf(rows, offset) ==
  [k \in 1 .. PageLength(rows, offset) |->
     CHOOSE row \in rows : Rank(rows, row) = offset + k - 1]

(* Mutant: the last row of a page that is not full counts as more. *)
OneShort(offset, returned, total) == offset + returned + 1 < total

HasMore(offset, returned, total) == offset + returned < total

----
(* The API thread.                                                         *)

Accept ==
  /\ pc = "accept"
  /\ cur < Len(conns)
  /\ cur' = cur + 1
  /\ pc' = "read"
  /\ UNCHANGED <<storeVars, reading, conns, heard, got>>

(* One read of the socket: the request, or as much of it as has arrived.  An *)
(* offset that is cut is a smaller one; a limit that is cut is an error too. *)
FirstSegment(request) ==
  {request, [kind |-> "bad", offset |-> 0]}
    \union (IF request.kind = "page"
            THEN {[request EXCEPT !.offset = o] : o \in 0 .. request.offset}
            ELSE {})

ReadRequest ==
  /\ pc = "read"
  /\ conns[cur].sent
  /\ heard' \in FirstSegment(conns[cur].request)
  /\ pc' = "open"
  /\ UNCHANGED <<storeVars, reading, conns, cur, got>>

(* Mutant: nothing read is taken for nothing yet. *)
WaitsOn(c) == FALSE

HungUp(c) == ~ c.open /\ ~ c.sent

(* The client hung up and sent nothing: an empty request line. *)
ReadNothing ==
  /\ pc = "read"
  /\ HungUp(conns[cur])
  /\ heard' = [kind |-> "bad", offset |-> 0]
  /\ got' = [status |-> 400]
  /\ pc' = "reply"
  /\ UNCHANGED <<storeVars, reading, conns, cur>>

(* The store is opened anew for every request, then the request is routed. *)
OpenStore ==
  /\ pc = "open"
  /\ \/ /\ got' = None
        /\ pc' = [page |-> "count", status |-> "first", bad |-> "refuse"][heard.kind]
     \/ /\ got' = [status |-> 500]
        /\ pc' = "reply"
  /\ UNCHANGED <<storeVars, reading, conns, cur, heard>>

(* No such route, method or page: 404, 405 and 400 are one to a client. *)
Refuse ==
  /\ pc = "refuse"
  /\ got' = [status |-> 400]
  /\ pc' = "reply"
  /\ UNCHANGED <<storeVars, reading, conns, cur, heard>>

(* Mutant: count and page are two statements on their own. *)
TwoStatements == FALSE

OneTransaction == TRUE

(* count_and_list_incidents_page: both from one read transaction. *)
CountPage ==
  /\ pc = "count"
  /\ writing = None
  /\ got' = [total |-> Cardinality(incidents)]
  /\ reading' = OneTransaction
  /\ pc' = "list"
  /\ UNCHANGED <<storeVars, conns, cur, heard>>

(* asOf is history: what was stored when the rows were listed. *)
ListPage ==
  /\ pc = "list"
  /\ reading \/ writing = None
  /\ LET items == PageOf(incidents, heard.offset)
     IN  got' = [status |-> 200, offset |-> heard.offset, items |-> items, total |-> got.total,
                 more |-> HasMore(heard.offset, Len(items), got.total), asOf |-> incidents]
  /\ reading' = FALSE
  /\ pc' = "reply"
  /\ UNCHANGED <<storeVars, conns, cur, heard>>

(* status: two statements, two snapshots. *)
CountFirst ==
  /\ pc = "first"
  /\ writing = None
  /\ got' = [incidents |-> Cardinality(incidents)]
  /\ pc' = "second"
  /\ UNCHANGED <<storeVars, reading, conns, cur, heard>>

CountSecond ==
  /\ pc = "second"
  /\ writing = None
  /\ got' = [status |-> 200, incidents |-> got.incidents, events |-> Cardinality(events)]
  /\ pc' = "reply"
  /\ UNCHANGED <<storeVars, reading, conns, cur, heard>>

(* A writer keeps readers out past the busy timeout: storage_read_failed. *)
Busy ==
  /\ pc \in {"count", "list", "first", "second"}
  /\ writing # None /\ ~ reading
  /\ got' = [status |-> 500]
  /\ pc' = "reply"
  /\ UNCHANGED <<storeVars, reading, conns, cur, heard>>

(* The answer is written, in vain if the client is gone; then the next. *)
Reply ==
  /\ pc = "reply"
  /\ conns' = IF conns[cur].open THEN [conns EXCEPT ![cur].answer = got] ELSE conns
  /\ got' = None
  /\ heard' = None
  /\ pc' = "accept"
  /\ UNCHANGED <<storeVars, reading, cur>>

Serve ==
  \/ Accept \/ ReadRequest \/ ReadNothing \/ OpenStore \/ Refuse
  \/ CountPage \/ ListPage \/ CountFirst \/ CountSecond \/ Busy \/ Reply

Write == EndCommit \/ AbandonCommit \/ \E w \in Writes : BeginCommit(w)

====
