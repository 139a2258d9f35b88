---- MODULE RiskExplorer ----
(***************************************************************************)
(* The dashboard's Risk Explorer on the API: it polls the page it is on and *)
(* the status, through a proxy that gives up after its timeout, and moves   *)
(* from page to page.  Answers arrive in any order; polls overlap.          *)
(***************************************************************************)
EXTENDS RiskApi

CONSTANT MaxRequests   \* bound on connections

ASSUME ExplorerAssumption == MaxRequests \in Nat /\ None \notin {"contract", "transport"}

VARIABLES
  offset,    \* navigation.offset
  history,   \* navigation.history
  latest,    \* the latest page request that still counts, or 0
  shown,     \* the page on display, or None
  error,     \* of the page resource: None, "contract" or "transport"
  known,     \* history: what was stored when the walk's first page with a row was listed
  seen       \* history: every incident that was on display

viewVars == <<offset, history, latest, shown, error, known, seen>>
vars == <<apiVars, viewVars>>

Init ==
  /\ ApiInit
  /\ offset = 0
  /\ history = <<>>
  /\ latest = 0
  /\ shown = None
  /\ error = None
  /\ known = {}
  /\ seen = {}

----
Connect(request) ==
  /\ Len(conns) < MaxRequests
  /\ conns' = Append(conns, [request |-> request, sent |-> FALSE, open |-> TRUE, answer |-> None])
  /\ UNCHANGED <<incidents, events, writing, reading, cur, pc, heard, got>>

(* load: on mount, on every poll and after every move. *)
Poll ==
  /\ Connect([kind |-> "page", offset |-> offset])
  /\ latest' = Len(conns) + 1
  /\ UNCHANGED <<offset, history, shown, error, known, seen>>

PollStatus ==
  /\ Connect([kind |-> "status", offset |-> 0])
  /\ UNCHANGED viewVars

Send(i) ==
  /\ conns[i].open /\ ~ conns[i].sent
  /\ conns' = [conns EXCEPT ![i].sent = TRUE]
  /\ UNCHANGED <<incidents, events, writing, reading, cur, pc, heard, got, viewVars>>

(* The proxy's timeout: the page's resource has an error and keeps its data. *)
GiveUp(i) ==
  /\ conns[i].open /\ conns[i].answer = None
  /\ conns' = [conns EXCEPT ![i].open = FALSE]
  /\ error' = IF i = latest THEN "transport" ELSE error
  /\ UNCHANGED <<incidents, events, writing, reading, cur, pc, heard, got,
                 offset, history, latest, shown, known, seen>>

----
(* validateRiskPage *)
KeepsContract(page, expected) ==
  /\ page.offset = expected
  /\ Len(page.items) <= Limit
  /\ page.more <=> page.offset + Len(page.items) < page.total
  /\ page.more => page.items # <<>>
  /\ page.items # <<>> => page.offset + Len(page.items) <= page.total
  /\ Cardinality(ToSet(page.items)) = Len(page.items)

(* Mutant: any answer for the page is taken. *)
AnyRequest(i) == conns[i].request.kind = "page" /\ conns[i].request.offset = offset

Current(i) == i = latest

(* An answer arrives; one of a request that no longer counts is dropped. *)
Receive(i) ==
  /\ conns[i].open /\ conns[i].answer # None
  /\ conns' = [conns EXCEPT ![i].open = FALSE]
  /\ LET answer == conns[i].answer
         outcome == IF answer.status # 200 THEN "transport"
                    ELSE IF KeepsContract(answer, offset) THEN None ELSE "contract"
     IN  IF ~ Current(i) THEN UNCHANGED <<shown, error, known, seen>>
         ELSE /\ error' = outcome
              /\ IF outcome # None THEN UNCHANGED <<shown, known, seen>>
                 ELSE /\ shown' = answer
                      /\ known' = IF known = {} THEN answer.asOf ELSE known
                      /\ seen' = seen \union ToSet(answer.items)
  /\ UNCHANGED <<incidents, events, writing, reading, cur, pc, heard, got,
                 offset, history, latest>>

(* Moving on forgets the page on display and the requests for it. *)
MoveTo(o) ==
  /\ offset' = o
  /\ latest' = 0
  /\ shown' = None
  /\ error' = None
  /\ UNCHANGED <<apiVars, known, seen>>

GoNext ==
  /\ shown # None
  /\ shown.more
  /\ MoveTo(shown.offset + Len(shown.items))
  /\ history' = Append(history, shown.offset)

GoPrevious ==
  /\ history # <<>>
  /\ MoveTo(Last(history))
  /\ history' = Front(history)

Next ==
  \/ (Serve \/ Write) /\ UNCHANGED viewVars
  \/ Poll \/ PollStatus \/ GoNext \/ GoPrevious
  \/ \E i \in DOMAIN conns : Send(i) \/ GiveUp(i) \/ Receive(i)

Spec == Init /\ [][Next]_vars

(* The API thread runs, and every client has a timeout. *)
FairSpec ==
  /\ Spec
  /\ WF_vars(Serve /\ UNCHANGED viewVars)
  /\ \A i \in 1 .. MaxRequests : WF_vars(i \in DOMAIN conns /\ GiveUp(i))

----
(* What the daemon answers to the request it was sent never fails the       *)
(* dashboard's own check of it, whatever was committed meanwhile.           *)
AnswersKeepContract ==
  \A i \in DOMAIN conns :
    LET c == conns[i]
    IN  (/\ c.answer # None /\ c.request.kind = "page"
         /\ c.answer.status = 200 /\ c.answer.offset = c.request.offset)
          => KeepsContract(c.answer, c.request.offset)

(* Who pages to the end has seen every incident there was at the start,     *)
(* although incidents come in between pages and shift the offsets.          *)
WalkMissesNothing ==
  (shown # None /\ ~ shown.more) => known \subseteq seen

(* What is on display is only ever replaced by something as recent, however *)
(* slow an earlier poll's answer was.                                       *)
ShownNeverGoesBack ==
  [][(shown # None /\ shown' # None) => shown.asOf \subseteq shown'.asOf]_vars

(* The one thread of the API never stays with a connection. *)
ServerComesBack == pc # "accept" ~> pc = "accept"

====
