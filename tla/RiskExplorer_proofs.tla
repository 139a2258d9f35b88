---- MODULE RiskExplorer_proofs ----
(***************************************************************************)
(* Proofs about RiskExplorer: the page on display is never replaced by an  *)
(* older one, although polls overlap and answers arrive in any order;      *)
(* every page the server answers with passes the dashboard's check of it;  *)
(* and a walk through the pages passes over no row it set out with.        *)
(***************************************************************************)
EXTENDS RiskExplorer, SequenceTheorems, FiniteSetTheorems, TLAPS

Phases == {"accept", "read", "open", "refuse", "count", "list", "first", "second", "reply"}

(* A sequence of well-formed connections. *)
ConnsTyped ==
  /\ \E S : conns \in Seq(S)
  /\ \A i \in 1 .. Len(conns) :
       /\ conns[i] = [request |-> conns[i].request, sent |-> conns[i].sent,
                      open |-> conns[i].open, answer |-> conns[i].answer]
       /\ conns[i].request.kind \in {"page", "status"}

(* What the step lemmas need of the types. *)
ExplorerTyped ==
  /\ ConnsTyped
  /\ cur \in 0 .. Len(conns)
  /\ pc \in Phases
  /\ pc # "accept" => cur # 0
  /\ latest \in 0 .. Len(conns)
  /\ latest # 0 => conns[latest].request.kind = "page"

(* The route taken is that of the request being served, or of a bad one. *)
RouteHolds ==
  /\ pc = "open" => heard.kind \in {"bad", conns[cur].request.kind}
  /\ pc \in {"first", "second"} => conns[cur].request.kind = "status"

(* Connections are answered in turn. *)
AnswersInTurn ==
  \A i \in 1 .. Len(conns) : conns[i].answer # None => i <= cur /\ (i = cur => pc = "accept")

(* The request was for a page and was answered with one. *)
Answered(i) ==
  conns[i].request.kind = "page" /\ conns[i].answer # None /\ conns[i].answer.status = 200

(* What a page shows was stored, and a later connection's page is no older. *)
AnswersDated ==
  /\ \A i \in 1 .. Len(conns) : Answered(i) => conns[i].answer.asOf \subseteq incidents
  /\ \A i, j \in 1 .. Len(conns) :
       i < j /\ Answered(i) /\ Answered(j) => conns[i].answer.asOf \subseteq conns[j].answer.asOf
  /\ pc = "reply" /\ conns[cur].request.kind = "page" /\ got.status = 200 =>
       /\ got.asOf \subseteq incidents
       /\ \A i \in 1 .. Len(conns) : Answered(i) => conns[i].answer.asOf \subseteq got.asOf

(* The page on display answered the latest request or one before it. *)
ShownHolds ==
  shown # None => \E s \in 1 .. latest : Answered(s) /\ shown = conns[s].answer

ExplorerInvariant ==
  ExplorerTyped /\ RouteHolds /\ AnswersInTurn /\ AnswersDated /\ ShownHolds

----
(* A connection is added without an answer, or keeps its request; only the  *)
(* reply gives it an answer.                                                *)
ConnsKept ==
  /\ \A i \in 1 .. Len(conns) :
       conns'[i].request = conns[i].request /\ conns'[i].answer = conns[i].answer
  /\ \A i \in 1 .. Len(conns') : i \notin 1 .. Len(conns) => conns'[i].answer = None

(* A new connection leaves the others alone. *)
LEMMA ConnectKeeps ==
  ASSUME ConnsTyped, NEW request, request.kind \in {"page", "status"}, Connect(request)
  PROVE  ConnsTyped' /\ ConnsKept /\ Len(conns') = Len(conns) + 1 /\ Len(conns) \in Nat
         /\ conns'[Len(conns) + 1].request = request
<1> DEFINE new == [request |-> request, sent |-> FALSE, open |-> TRUE, answer |-> None]
<1>1. PICK S : conns \in Seq(S)
  BY DEF ConnsTyped
<1>2. conns' = Append(conns, new)
  BY DEF Connect
<1>3. /\ new = [request |-> new.request, sent |-> new.sent, open |-> new.open, answer |-> new.answer]
      /\ new.request = request /\ new.answer = None
  OBVIOUS
<1> HIDE DEF new
<1>4. conns \in Seq(S \union {new}) /\ Len(conns) \in Nat
  BY <1>1
<1>5. /\ conns' \in Seq(S \union {new}) /\ Len(conns') = Len(conns) + 1
      /\ \A i \in 1 .. Len(conns) : conns'[i] = conns[i]
      /\ conns'[Len(conns) + 1] = new
  BY <1>2, <1>4, AppendProperties
<1>6. \A i \in 1 .. Len(conns') : i \in 1 .. Len(conns) \/ i = Len(conns) + 1
  BY <1>4, <1>5
<1> QED
  BY <1>3, <1>4, <1>5, <1>6 DEF ConnsTyped, ConnsKept

(* An update of one connection. *)
LEMMA UpdateKeeps ==
  ASSUME ConnsTyped, NEW i \in 1 .. Len(conns), NEW c,
         c = [request |-> c.request, sent |-> c.sent, open |-> c.open, answer |-> c.answer],
         c.request = conns[i].request, conns' = [conns EXCEPT ![i] = c]
  PROVE  /\ ConnsTyped' /\ Len(conns') = Len(conns) /\ Len(conns) \in Nat
         /\ conns'[i] = c /\ \A j \in 1 .. Len(conns) : j # i => conns'[j] = conns[j]
<1>1. PICK S : conns \in Seq(S)
  BY DEF ConnsTyped
<1>2. conns \in Seq(S \union {c}) /\ Len(conns) \in Nat
  BY <1>1
<1>3. conns' \in Seq(S \union {c}) /\ Len(conns') = Len(conns)
  BY <1>2
<1>4. conns'[i] = c /\ \A j \in 1 .. Len(conns) : j # i => conns'[j] = conns[j]
  BY <1>2
<1> QED
  BY <1>2, <1>3, <1>4 DEF ConnsTyped

(* What is sent, given up or received changes no request and no answer. *)
LEMMA ClientKeeps ==
  ASSUME ConnsTyped, NEW i \in DOMAIN conns, Send(i) \/ GiveUp(i) \/ Receive(i)
  PROVE  ConnsTyped' /\ ConnsKept /\ Len(conns') = Len(conns) /\ Len(conns) \in Nat
<1>1. i \in 1 .. Len(conns) /\ Len(conns) \in Nat
  BY DEF ConnsTyped
<1>2. conns[i] = [request |-> conns[i].request, sent |-> conns[i].sent,
                  open |-> conns[i].open, answer |-> conns[i].answer]
  BY <1>1 DEF ConnsTyped
<1>3. \/ conns' = [conns EXCEPT ![i] = [conns[i] EXCEPT !.sent = TRUE]]
      \/ conns' = [conns EXCEPT ![i] = [conns[i] EXCEPT !.open = FALSE]]
  BY DEF Send, GiveUp, Receive
<1>4. PICK c : /\ conns' = [conns EXCEPT ![i] = c]
               /\ c = [request |-> c.request, sent |-> c.sent, open |-> c.open, answer |-> c.answer]
               /\ c.request = conns[i].request /\ c.answer = conns[i].answer
  BY <1>2, <1>3
<1>5. /\ ConnsTyped' /\ Len(conns') = Len(conns)
      /\ conns'[i] = c /\ \A j \in 1 .. Len(conns) : j # i => conns'[j] = conns[j]
  BY <1>1, <1>4, UpdateKeeps
<1> QED
  BY <1>1, <1>4, <1>5 DEF ConnsKept

(* What is received onto the display answers the latest request. *)
LEMMA ReceivedPage ==
  ASSUME ExplorerInvariant, NEW i \in DOMAIN conns, Receive(i)
  PROVE  \/ shown' = shown
         \/ /\ latest \in 1 .. Len(conns)
            /\ Answered(latest)
            /\ shown' = conns[latest].answer
<1> USE DEF ExplorerInvariant, ExplorerTyped
<1>1. i \in 1 .. Len(conns) /\ conns[i].answer # None
  BY DEF Receive, ConnsTyped
<1>2. CASE i # latest
  BY <1>2 DEF Receive, Current
<1>3. CASE i = latest /\ conns[i].answer.status # 200
  BY <1>3, ExplorerAssumption DEF Receive, Current
<1>4. CASE i = latest /\ conns[i].answer.status = 200
  <2>1. Answered(latest) /\ latest \in 1 .. Len(conns)
    BY <1>1, <1>4 DEF Answered
  <2>2. shown' = shown \/ shown' = conns[i].answer
    BY DEF Receive
  <2> QED
    BY <1>4, <2>1, <2>2
<1> QED
  BY <1>2, <1>3, <1>4

----
(* A step of the clients leaves the server alone. *)
LEMMA ClientStep ==
  ASSUME ExplorerInvariant, ConnsTyped', ConnsKept, Len(conns) \in Nat, Len(conns) <= Len(conns'),
         UNCHANGED <<incidents, events, writing, reading, cur, pc, heard, got>>,
         latest' \in 0 .. Len(conns'), latest' # 0 => conns'[latest'].request.kind = "page",
         shown' # None => \E s \in 1 .. latest' : s \in 1 .. Len(conns) /\ Answered(s) /\ shown' = conns[s].answer
  PROVE  ExplorerInvariant'
<1> USE DEF ExplorerInvariant, ExplorerTyped
<1>1. Len(conns') \in Nat
  BY DEF ConnsTyped
<1>2. \A i \in 1 .. Len(conns') : conns'[i].answer # None => i \in 1 .. Len(conns)
  BY DEF ConnsKept
<1>3. \A i \in 1 .. Len(conns) : conns'[i].request = conns[i].request /\ conns'[i].answer = conns[i].answer
  BY DEF ConnsKept
<1>4. \A i \in 1 .. Len(conns) : i \in 1 .. Len(conns')
  BY <1>1
<1>5. pc # "accept" => cur \in 1 .. Len(conns)
  OBVIOUS
<1>6. ExplorerTyped'
  BY <1>1
<1>7. RouteHolds'
  BY <1>3, <1>5 DEF RouteHolds
<1>8. AnswersInTurn'
  BY <1>2, <1>3 DEF AnswersInTurn
<1>9. \A i \in 1 .. Len(conns) : Answered(i)' <=> Answered(i)
  BY <1>3 DEF Answered
<1>10. \A i \in 1 .. Len(conns') : Answered(i)' => i \in 1 .. Len(conns)
  BY <1>2 DEF Answered
<1>11. AnswersDated'
  BY <1>3, <1>5, <1>9, <1>10 DEF AnswersDated
<1>12. ShownHolds'
  BY <1>3, <1>9 DEF ShownHolds
<1> QED
  BY <1>6, <1>7, <1>8, <1>11, <1>12

(* So does a step that leaves the connections alone. *)
LEMMA StillStep ==
  ASSUME ExplorerInvariant, UNCHANGED conns,
         UNCHANGED <<incidents, events, writing, reading, cur, pc, heard, got>>,
         UNCHANGED <<latest, shown>> \/ (latest' = 0 /\ shown' = None)
  PROVE  ExplorerInvariant'
<1> USE DEF ExplorerInvariant
<1>1. ConnsTyped /\ Len(conns) \in Nat
  BY DEF ExplorerTyped, ConnsTyped
<1>2. ConnsTyped' /\ ConnsKept
  BY <1>1 DEF ConnsTyped, ConnsKept
<1>3. latest' \in 0 .. Len(conns') /\ (latest' # 0 => conns'[latest'].request.kind = "page")
  BY <1>1 DEF ExplorerTyped
<1>4. shown' # None =>
        \E s \in 1 .. latest' : s \in 1 .. Len(conns) /\ Answered(s) /\ shown' = conns[s].answer
  <2>1. CASE UNCHANGED <<latest, shown>>
    BY <2>1, <1>1 DEF ShownHolds, ExplorerTyped
  <2> QED
    BY <2>1
<1> QED
  BY <1>1, <1>2, <1>3, <1>4, ClientStep

(* Every step of the dashboard. *)
LEMMA ViewStep ==
  ASSUME ExplorerInvariant,
         \/ Poll \/ PollStatus \/ GoNext \/ GoPrevious
         \/ \E i \in DOMAIN conns : Send(i) \/ GiveUp(i) \/ Receive(i)
  PROVE  ExplorerInvariant'
<1> USE DEF ExplorerInvariant
<1>t. ConnsTyped /\ Len(conns) \in Nat
  BY DEF ExplorerTyped, ConnsTyped
<1>s. shown # None => \E s \in 1 .. latest : s \in 1 .. Len(conns) /\ Answered(s) /\ shown = conns[s].answer
  BY <1>t DEF ShownHolds, ExplorerTyped
<1>1. CASE Poll
  <2> DEFINE request == [kind |-> "page", offset |-> offset]
  <2>1. Connect(request) /\ request.kind = "page" /\ latest' = Len(conns) + 1 /\ shown' = shown
    BY <1>1 DEF Poll
  <2> HIDE DEF request
  <2>2. /\ ConnsTyped' /\ ConnsKept /\ Len(conns') = Len(conns) + 1
        /\ conns'[Len(conns) + 1].request = request
    BY <1>t, <2>1, ConnectKeeps
  <2>3. latest \in 0 .. Len(conns)
    BY DEF ExplorerTyped
  <2>4. shown' # None =>
          \E s \in 1 .. latest' : s \in 1 .. Len(conns) /\ Answered(s) /\ shown' = conns[s].answer
    BY <1>s, <1>t, <2>1, <2>3
  <2> QED
    BY <1>t, <2>1, <2>2, <2>4, ClientStep DEF Connect
<1>2. CASE PollStatus
  <2> DEFINE request == [kind |-> "status", offset |-> 0]
  <2>1. Connect(request) /\ request.kind = "status" /\ UNCHANGED <<latest, shown>>
    BY <1>2 DEF PollStatus, viewVars
  <2> HIDE DEF request
  <2>2. ConnsTyped' /\ ConnsKept /\ Len(conns') = Len(conns) + 1
    BY <1>t, <2>1, ConnectKeeps
  <2>3. latest' \in 0 .. Len(conns') /\ (latest' # 0 => conns'[latest'].request.kind = "page")
    BY <1>t, <2>1, <2>2 DEF ExplorerTyped, ConnsKept
  <2> QED
    BY <1>t, <1>s, <2>1, <2>2, <2>3, ClientStep DEF Connect
<1>3. CASE GoNext \/ GoPrevious
  BY <1>3, StillStep DEF GoNext, GoPrevious, MoveTo, apiVars
<1>4. ASSUME NEW i \in DOMAIN conns, Send(i) \/ GiveUp(i) \/ Receive(i)
      PROVE  ExplorerInvariant'
  <2>1. ConnsTyped' /\ ConnsKept /\ Len(conns') = Len(conns)
    BY <1>t, <1>4, ClientKeeps
  <2>2. /\ UNCHANGED <<incidents, events, writing, reading, cur, pc, heard, got>>
        /\ latest' = latest
    BY <1>4 DEF Send, GiveUp, Receive, viewVars
  <2>3. latest' \in 0 .. Len(conns') /\ (latest' # 0 => conns'[latest'].request.kind = "page")
    BY <1>t, <2>1, <2>2 DEF ExplorerTyped, ConnsKept
  <2>4. shown' # None =>
          \E s \in 1 .. latest' : s \in 1 .. Len(conns) /\ Answered(s) /\ shown' = conns[s].answer
    BY <1>4, <1>s, <1>t, <2>2, ReceivedPage DEF Send, GiveUp, viewVars
  <2> QED
    BY <1>t, <2>1, <2>2, <2>3, <2>4, ClientStep
<1> QED
  BY <1>1, <1>2, <1>3, <1>4

----
(* A writer's commit only adds incidents. *)
LEMMA WriteStep == ExplorerInvariant /\ Write /\ UNCHANGED viewVars => ExplorerInvariant'
<1> SUFFICES ASSUME ExplorerInvariant, Write, UNCHANGED viewVars PROVE ExplorerInvariant'
  OBVIOUS
<1>1. /\ incidents \subseteq incidents'
      /\ UNCHANGED <<conns, cur, pc, heard, got, latest, shown>>
  BY DEF Write, EndCommit, AbandonCommit, BeginCommit, viewVars
<1>2. ExplorerTyped' /\ RouteHolds' /\ AnswersInTurn' /\ ShownHolds'
  BY <1>1 DEF ExplorerInvariant, ExplorerTyped, ConnsTyped, RouteHolds, AnswersInTurn, ShownHolds, Answered
<1>3. AnswersDated'
  BY <1>1 DEF ExplorerInvariant, AnswersDated, Answered
<1> QED
  BY <1>2, <1>3 DEF ExplorerInvariant

(* A step of the API thread short of its answer. *)
LEMMA ThreadStep ==
  ASSUME ExplorerInvariant, UNCHANGED <<incidents, conns, latest, shown>>,
         \/ cur' = cur /\ pc # "accept" /\ pc' \in Phases \ {"accept"}
         \/ cur' = cur + 1 /\ cur < Len(conns) /\ pc = "accept" /\ pc' = "read",
         RouteHolds',
         pc' = "reply" /\ conns[cur].request.kind = "page" /\ got'.status = 200 =>
           got'.asOf = incidents
  PROVE  ExplorerInvariant'
<1> USE DEF ExplorerInvariant
<1>1. Len(conns) \in Nat /\ cur \in Nat
  BY DEF ExplorerTyped, ConnsTyped
<1>2. ExplorerTyped'
  <2>1. ConnsTyped'
    BY DEF ExplorerTyped, ConnsTyped
  <2>2. cur' \in 0 .. Len(conns') /\ pc' \in Phases /\ (pc' # "accept" => cur' # 0)
    BY <1>1 DEF ExplorerTyped, Phases
  <2> QED
    BY <2>1, <2>2 DEF ExplorerTyped
<1>3. AnswersInTurn'
  BY <1>1 DEF AnswersInTurn
<1>4. AnswersDated'
  <2>1. pc' = "reply" => cur' = cur
    OBVIOUS
  <2> QED
    BY <2>1 DEF AnswersDated, Answered
<1>5. ShownHolds'
  BY DEF ShownHolds, Answered
<1> QED
  BY <1>2, <1>3, <1>4, <1>5

(* The answer joins those before it. *)
LEMMA ReplyStep == ExplorerInvariant /\ Reply /\ UNCHANGED viewVars => ExplorerInvariant'
<1> SUFFICES ASSUME ExplorerInvariant, Reply, UNCHANGED viewVars PROVE ExplorerInvariant'
  OBVIOUS
<1> USE DEF ExplorerInvariant
<1>1. /\ pc = "reply" /\ pc' = "accept"
      /\ UNCHANGED <<incidents, cur, latest, shown>>
  BY DEF Reply, storeVars, viewVars
<1>2. ConnsTyped /\ Len(conns) \in Nat /\ cur \in 1 .. Len(conns)
  BY <1>1 DEF ExplorerTyped, ConnsTyped
<1>3. \A i \in 1 .. Len(conns) : conns[i].answer # None => i < cur
  BY <1>1, <1>2 DEF AnswersInTurn
<1>4. /\ ConnsTyped' /\ Len(conns') = Len(conns)
      /\ \A i \in 1 .. Len(conns) : /\ conns'[i].request = conns[i].request
                                    /\ \/ conns'[i].answer = conns[i].answer
                                       \/ i = cur /\ conns'[i].answer = got
  <2>1. CASE conns' = conns
    <3>1. ConnsTyped'
      BY <1>2, <2>1 DEF ConnsTyped
    <3> QED
      BY <2>1, <3>1
  <2>2. CASE conns' # conns
    <3> DEFINE c == [conns[cur] EXCEPT !.answer = got]
    <3>1. conns' = [conns EXCEPT ![cur] = c]
      BY <2>2 DEF Reply
    <3>2. conns[cur] = [request |-> conns[cur].request, sent |-> conns[cur].sent,
                        open |-> conns[cur].open, answer |-> conns[cur].answer]
      BY <1>2 DEF ConnsTyped
    <3>3. /\ c = [request |-> c.request, sent |-> c.sent, open |-> c.open, answer |-> c.answer]
          /\ c.request = conns[cur].request /\ c.answer = got
      BY <3>2
    <3> HIDE DEF c
    <3>4. /\ ConnsTyped' /\ Len(conns') = Len(conns)
          /\ conns'[cur] = c /\ \A j \in 1 .. Len(conns) : j # cur => conns'[j] = conns[j]
      BY <1>2, <3>1, <3>3, UpdateKeeps
    <3>5. \A i \in 1 .. Len(conns) : i = cur \/ conns'[i] = conns[i]
      BY <3>4
    <3> QED
      BY <3>3, <3>4, <3>5
  <2> QED
    BY <2>1, <2>2
<1>5. ExplorerTyped'
  <2>1. latest' # 0 => conns'[latest'].request.kind = "page"
    BY <1>1, <1>2, <1>4 DEF ExplorerTyped
  <2> QED
    BY <1>1, <1>4, <2>1 DEF ExplorerTyped, Phases
<1>6. RouteHolds'
  BY <1>1 DEF RouteHolds
<1>7. AnswersInTurn'
  BY <1>1, <1>2, <1>3, <1>4 DEF AnswersInTurn
<1>8. \A i \in 1 .. Len(conns) :
        /\ Answered(i) => i < cur /\ Answered(i)' /\ conns'[i].answer = conns[i].answer
        /\ Answered(i)' => \/ Answered(i) /\ conns'[i].answer = conns[i].answer
                           \/ /\ i = cur /\ conns'[i].answer = got
                              /\ conns[cur].request.kind = "page" /\ got.status = 200
  BY <1>2, <1>3, <1>4 DEF Answered
<1>9. AnswersDated'
  <2>1. conns[cur].request.kind = "page" /\ got.status = 200 =>
          /\ got.asOf \subseteq incidents
          /\ \A i \in 1 .. Len(conns) : Answered(i) => conns[i].answer.asOf \subseteq got.asOf
    BY <1>1 DEF AnswersDated
  <2>2. \A i \in 1 .. Len(conns') : Answered(i)' => conns'[i].answer.asOf \subseteq incidents'
    BY <1>1, <1>4, <1>8, <2>1 DEF AnswersDated
  <2>3. ASSUME NEW i \in 1 .. Len(conns'), NEW j \in 1 .. Len(conns'), i < j, Answered(i)', Answered(j)'
        PROVE  conns'[i].answer.asOf \subseteq conns'[j].answer.asOf
    <3>1. i \in 1 .. Len(conns) /\ j \in 1 .. Len(conns)
      BY <1>4
    <3>2. CASE Answered(j)
      <4>1. j < cur /\ conns'[j].answer = conns[j].answer
        BY <1>8, <3>1, <3>2
      <4>2. i # cur
        BY <1>2, <2>3, <3>1, <4>1
      <4>3. Answered(i) /\ conns'[i].answer = conns[i].answer
        BY <1>8, <2>3, <3>1, <4>2
      <4> QED
        BY <2>3, <3>1, <3>2, <4>1, <4>3 DEF AnswersDated
    <3>3. CASE ~ Answered(j)
      <4>1. /\ j = cur /\ conns'[j].answer = got
            /\ conns[cur].request.kind = "page" /\ got.status = 200
        BY <1>8, <2>3, <3>1, <3>3
      <4>2. i # cur
        BY <1>2, <2>3, <3>1, <4>1
      <4>3. Answered(i) /\ conns'[i].answer = conns[i].answer
        BY <1>8, <2>3, <3>1, <4>2
      <4> QED
        BY <2>1, <3>1, <4>1, <4>3
    <3> QED
      BY <3>2, <3>3
  <2> QED
    BY <1>1, <2>2, <2>3 DEF AnswersDated
<1>10. ShownHolds'
  <2> SUFFICES ASSUME shown' # None
               PROVE  \E s \in 1 .. latest' : Answered(s)' /\ shown' = conns'[s].answer
    BY DEF ShownHolds
  <2>1. PICK s \in 1 .. latest : Answered(s) /\ shown = conns[s].answer
    BY <1>1 DEF ShownHolds
  <2>2. s \in 1 .. Len(conns)
    BY <1>2 DEF ExplorerTyped
  <2> QED
    BY <1>1, <1>8, <2>1, <2>2
<1> QED
  BY <1>5, <1>6, <1>7, <1>9, <1>10

(* Every step of the API thread. *)
LEMMA ServeStep == ExplorerInvariant /\ Serve /\ UNCHANGED viewVars => ExplorerInvariant'
<1> SUFFICES ASSUME ExplorerInvariant, Serve, UNCHANGED viewVars PROVE ExplorerInvariant'
  OBVIOUS
<1> USE DEF ExplorerInvariant
<1>v. UNCHANGED <<latest, shown>>
  BY DEF viewVars
<1>t. pc # "accept" => conns[cur].request.kind \in {"page", "status"}
  <2>1. Len(conns) \in Nat
    BY DEF ExplorerTyped, ConnsTyped
  <2>2. pc # "accept" => cur \in 1 .. Len(conns)
    BY <2>1 DEF ExplorerTyped
  <2> QED
    BY <2>2 DEF ExplorerTyped, ConnsTyped
<1>1. CASE Accept
  BY <1>1, <1>v, ThreadStep DEF Accept, storeVars, RouteHolds
<1>2. CASE ReadRequest
  <2>1. /\ pc = "read" /\ pc' = "open" /\ UNCHANGED <<incidents, conns, cur>>
        /\ heard' \in FirstSegment(conns[cur].request)
    BY <1>2 DEF ReadRequest, storeVars
  <2>2. heard'.kind \in {"bad", conns[cur].request.kind}
    <3> DEFINE request == conns[cur].request
    <3>1. \/ heard' = request
          \/ heard' = [kind |-> "bad", offset |-> 0]
          \/ request.kind = "page" /\ \E o : heard' = [request EXCEPT !.offset = o]
      BY <2>1 DEF FirstSegment
    <3> HIDE DEF request
    <3>2. \A o : [request EXCEPT !.offset = o].kind = request.kind
      OBVIOUS
    <3>3. [kind |-> "bad", offset |-> 0].kind = "bad"
      OBVIOUS
    <3>4. heard'.kind = "bad" \/ heard'.kind = request.kind
      BY <3>1, <3>2, <3>3, Zenon
    <3> QED
      BY <3>4 DEF request
  <2>3. RouteHolds'
    BY <2>1, <2>2 DEF RouteHolds
  <2> QED
    BY <1>v, <2>1, <2>3, ThreadStep DEF Phases
<1>3. CASE ReadNothing
  BY <1>3, <1>v, ThreadStep DEF ReadNothing, storeVars, RouteHolds, Phases
<1>4. CASE OpenStore
  <2>1. /\ pc = "open" /\ UNCHANGED <<incidents, conns, cur>>
        /\ \/ pc' = [page |-> "count", status |-> "first", bad |-> "refuse"][heard.kind]
           \/ got' = [status |-> 500] /\ pc' = "reply"
    BY <1>4 DEF OpenStore, storeVars
  <2>2. heard.kind \in {"bad", "page", "status"} /\ (heard.kind = "status" => conns[cur].request.kind = "status")
    BY <1>t, <2>1 DEF RouteHolds
  <2>3. \/ pc' \in {"count", "refuse"}
        \/ pc' = "first" /\ conns[cur].request.kind = "status"
        \/ got' = [status |-> 500] /\ pc' = "reply"
    BY <2>1, <2>2
  <2>4. RouteHolds'
    BY <2>1, <2>3 DEF RouteHolds
  <2> QED
    BY <1>v, <2>1, <2>3, <2>4, ThreadStep DEF Phases
<1>5. CASE Refuse \/ Busy
  BY <1>5, <1>v, ThreadStep DEF Refuse, Busy, storeVars, RouteHolds, Phases
<1>6. CASE CountPage
  BY <1>6, <1>v, ThreadStep DEF CountPage, storeVars, RouteHolds, Phases
<1>7. CASE ListPage
  <2>1. /\ pc = "list" /\ pc' = "reply" /\ UNCHANGED <<incidents, conns, cur>> /\ got'.asOf = incidents
    BY <1>7 DEF ListPage, storeVars
  <2>2. RouteHolds'
    BY <2>1 DEF RouteHolds
  <2> QED
    BY <1>v, <2>1, <2>2, ThreadStep DEF Phases
<1>8. CASE CountFirst
  BY <1>8, <1>v, ThreadStep DEF CountFirst, storeVars, RouteHolds, Phases
<1>9. CASE CountSecond
  <2>1. /\ pc = "second" /\ pc' = "reply" /\ UNCHANGED <<incidents, conns, cur>>
        /\ conns[cur].request.kind = "status"
    BY <1>9 DEF CountSecond, storeVars, RouteHolds
  <2>2. RouteHolds'
    BY <2>1 DEF RouteHolds
  <2> QED
    BY <1>v, <2>1, <2>2, ThreadStep DEF Phases
<1>10. CASE Reply
  BY <1>10, ReplyStep
<1> QED
  BY <1>1, <1>2, <1>3, <1>4, <1>5, <1>6, <1>7, <1>8, <1>9, <1>10 DEF Serve

LEMMA ExplorerStep == ExplorerInvariant /\ [Next]_vars => ExplorerInvariant'
<1> SUFFICES ASSUME ExplorerInvariant, [Next]_vars PROVE ExplorerInvariant'
  OBVIOUS
<1>1. CASE UNCHANGED vars
  <2>1. /\ UNCHANGED conns
        /\ UNCHANGED <<incidents, events, writing, reading, cur, pc, heard, got>>
        /\ UNCHANGED <<latest, shown>>
    BY <1>1 DEF vars, apiVars, viewVars
  <2> QED
    BY <2>1, StillStep
<1> QED
  BY <1>1, ServeStep, WriteStep, ViewStep DEF Next

LEMMA ExplorerInit == Init => ExplorerInvariant
<1> SUFFICES ASSUME Init PROVE ExplorerInvariant
  OBVIOUS
<1>1. conns = <<>> /\ cur = 0 /\ pc = "accept" /\ latest = 0 /\ shown = None
  BY DEF Init, ApiInit
<1>2. ConnsTyped /\ Len(conns) = 0
  <2>1. conns \in Seq({}) /\ Len(conns) = 0
    BY <1>1
  <2> QED
    BY <2>1 DEF ConnsTyped
<1> QED
  BY <1>1, <1>2 DEF ExplorerInvariant, ExplorerTyped, RouteHolds, AnswersInTurn, AnswersDated, ShownHolds, Phases

(* The page on display is never replaced by an older one, for any number of *)
(* polls in flight, any writes between them and answers in any order:       *)
(* connections are answered in turn, and only the latest request counts.    *)
THEOREM DisplayMovesForward == Spec => ShownNeverGoesBack
<1>1. ExplorerInvariant /\ [Next]_vars
        => [(shown # None /\ shown' # None) => shown.asOf \subseteq shown'.asOf]_vars
  <2> SUFFICES ASSUME ExplorerInvariant, Next, shown # None, shown' # None
               PROVE  shown.asOf \subseteq shown'.asOf
    BY DEF vars, viewVars
  <2>1. ASSUME NEW i \in DOMAIN conns, Receive(i)
        PROVE  shown.asOf \subseteq shown'.asOf
    <3>1. CASE shown' = shown
      BY <3>1
    <3>2. CASE latest \in 1 .. Len(conns) /\ Answered(latest) /\ shown' = conns[latest].answer
      <4>1. PICK s \in 1 .. latest : Answered(s) /\ shown = conns[s].answer
        BY DEF ExplorerInvariant, ShownHolds
      <4>2. s \in 1 .. Len(conns) /\ Len(conns) \in Nat
        BY <3>2 DEF ExplorerInvariant, ExplorerTyped, ConnsTyped
      <4>3. CASE s = latest
        BY <3>2, <4>1, <4>3
      <4>4. CASE s < latest
        BY <3>2, <4>1, <4>2, <4>4 DEF ExplorerInvariant, AnswersDated
      <4> QED
        BY <3>2, <4>2, <4>3, <4>4
    <3> QED
      BY <2>1, <3>1, <3>2, ReceivedPage
  <2>2. CASE ~ \E i \in DOMAIN conns : Receive(i)
    BY <2>2 DEF Next, viewVars, Poll, PollStatus, GoNext, GoPrevious, MoveTo, Send, GiveUp
  <2> QED
    BY <2>1, <2>2
<1> QED
  BY <1>1, ExplorerInit, ExplorerStep, PTL DEF Spec, ShownNeverGoesBack

----
(* What a page holds.  An answer with a page was counted and listed from    *)
(* the same rows, asOf.                                                     *)
IsPage(page) ==
  /\ page.status = 200
  /\ page.offset \in Nat
  /\ IsFiniteSet(page.asOf) /\ page.asOf \subseteq Row
  /\ page.total = Cardinality(page.asOf)
  /\ page.items = PageOf(page.asOf, page.offset)
  /\ page.more <=> HasMore(page.offset, Len(page.items), page.total)

StoreTyped ==
  /\ IsFiniteSet(incidents) /\ incidents \subseteq Row
  /\ writing # None => writing \in Writes
  /\ offset \in Nat
  /\ \A i \in 1 .. Len(conns) : conns[i].request.offset \in Nat

PageReply == pc = "reply" /\ conns[cur].request.kind = "page" /\ got.status = 200

PagesHold ==
  /\ pc \in {"open", "count", "list"} => heard.offset \in Nat
  /\ pc = "list" => got.total = Cardinality(incidents)
  /\ reading <=> pc = "list"
  /\ PageReply => IsPage(got)
  /\ \A i \in 1 .. Len(conns) : Answered(i) => IsPage(conns[i].answer)

(* The walk: every incident it has known and not shown lies at or beyond    *)
(* its offset, in the store and in the answer it waits for.                 *)
Beyond(rows, o) ==
  known \subseteq rows /\ \A row \in known \ seen : Rank(rows, row) >= o

HistoryHolds ==
  /\ history \in Seq(Nat)
  /\ \A i \in 1 .. Len(history) : history[i] <= offset
  /\ \A i, j \in 1 .. Len(history) : i < j => history[i] <= history[j]

WalkHolds ==
  /\ known = {} => offset = 0 /\ (shown # None => ~ shown.more)
  /\ Beyond(incidents, offset)
  /\ latest # 0 /\ Answered(latest) => Beyond(conns[latest].answer.asOf, offset)
  /\ PageReply /\ cur = latest => Beyond(got.asOf, offset)
  /\ shown # None =>
       /\ IsPage(shown) /\ shown.offset = offset
       /\ Beyond(shown.asOf, offset + Len(shown.items))

WalkInvariant == StoreTyped /\ PagesHold /\ HistoryHolds /\ WalkHolds

----
(* The order of the rows.                                                   *)

LEMMA NewerIsStrict ==
  ASSUME NEW a \in Row, NEW b \in Row, NEW c \in Row
  PROVE  /\ ~ Newer(a, a)
         /\ a # b => Newer(a, b) \/ Newer(b, a)
         /\ Newer(a, b) /\ Newer(b, c) => Newer(a, c)
BY DEF Row, Newer

LEMMA RankBounds ==
  ASSUME NEW S, IsFiniteSet(S), S \subseteq Row, NEW row \in S
  PROVE  Cardinality(S) \in Nat /\ Rank(S, row) \in 0 .. Cardinality(S) - 1
<1> DEFINE first == {other \in S : Newer(other, row)}
<1>1. first \in SUBSET (S \ {row})
  BY NewerIsStrict
<1>2. /\ IsFiniteSet(S \ {row}) /\ Cardinality(S \ {row}) = Cardinality(S) - 1
      /\ Cardinality(S) \in Nat
  BY FS_RemoveElement, FS_CardinalityType
<1> HIDE DEF first
<1>3. /\ IsFiniteSet(first) /\ Cardinality(first) <= Cardinality(S) - 1
      /\ Cardinality(first) \in Nat
  BY <1>1, <1>2, FS_Subset, FS_CardinalityType
<1> QED
  BY <1>2, <1>3 DEF Rank, first

(* A newer row has a smaller rank. *)
LEMMA RankOrders ==
  ASSUME NEW S, IsFiniteSet(S), S \subseteq Row, NEW a \in S, NEW b \in S, Newer(a, b)
  PROVE  Rank(S, a) < Rank(S, b)
<1> DEFINE firstA == {other \in S : Newer(other, a)}
           firstB == {other \in S : Newer(other, b)}
<1>1. firstA \in SUBSET (firstB \ {a}) /\ a \in firstB /\ firstB \in SUBSET S
  BY NewerIsStrict
<1>2. Rank(S, a) = Cardinality(firstA) /\ Rank(S, b) = Cardinality(firstB)
  BY DEF Rank
<1> HIDE DEF firstA, firstB
<1>3. IsFiniteSet(firstB) /\ Cardinality(firstB) \in Nat
  BY <1>1, FS_Subset, FS_CardinalityType
<1>4. IsFiniteSet(firstB \ {a}) /\ Cardinality(firstB \ {a}) = Cardinality(firstB) - 1
  BY <1>1, <1>3, FS_RemoveElement
<1>5. Cardinality(firstA) <= Cardinality(firstB) - 1 /\ Cardinality(firstA) \in Nat
  BY <1>1, <1>4, FS_Subset, FS_CardinalityType
<1> QED
  BY <1>2, <1>3, <1>5

LEMMA RankIsUnique ==
  ASSUME NEW S, IsFiniteSet(S), S \subseteq Row, NEW a \in S, NEW b \in S, Rank(S, a) = Rank(S, b)
  PROVE  a = b
<1>1. Rank(S, a) \in Int /\ Rank(S, b) \in Int
  BY RankBounds
<1>2. ~ Newer(a, b) /\ ~ Newer(b, a)
  BY <1>1, RankOrders
<1> QED
  BY <1>2, NewerIsStrict

(* Every rank below the number of rows is that of some row. *)
LEMMA RankIsOnto ==
  ASSUME NEW S, IsFiniteSet(S), S \subseteq Row, NEW k \in 0 .. Cardinality(S) - 1
  PROVE  \E row \in S : Rank(S, row) = k
<1> DEFINE n == Cardinality(S)
           ranks == [row \in S |-> Rank(S, row)]
<1>1. n \in Nat
  BY FS_CardinalityType
<1>2. IsFiniteSet(0 .. n - 1) /\ Cardinality(0 .. n - 1) = n
  BY <1>1, FS_Interval
<1>3. ranks \in Injection(S, 0 .. n - 1)
  BY RankBounds, RankIsUnique DEF Injection, IsInjective
<1> HIDE DEF ranks
<1>4. ranks \in Surjection(S, 0 .. n - 1)
  BY <1>2, <1>3, FS_Injection
<1>5. \E row \in S : ranks[row] = k
  BY <1>4 DEF Surjection
<1> QED
  BY <1>5 DEF ranks

(* Rows that come in move the others back. *)
LEMMA RankGrows ==
  ASSUME NEW S, NEW T, IsFiniteSet(T), S \subseteq T, NEW row
  PROVE  Rank(S, row) \in Nat /\ Rank(T, row) \in Nat /\ Rank(S, row) <= Rank(T, row)
<1> DEFINE firstS == {other \in S : Newer(other, row)}
           firstT == {other \in T : Newer(other, row)}
<1>1. firstS \in SUBSET firstT /\ firstT \in SUBSET T
  OBVIOUS
<1>2. Rank(S, row) = Cardinality(firstS) /\ Rank(T, row) = Cardinality(firstT)
  BY DEF Rank
<1> HIDE DEF firstS, firstT
<1>3. IsFiniteSet(firstT)
  BY <1>1, FS_Subset
<1> QED
  BY <1>1, <1>2, <1>3, FS_Subset, FS_CardinalityType

----
(* A page: as many rows as there are, up to the limit, each at its rank.    *)
LEMMA PageShape ==
  ASSUME NEW S, IsFiniteSet(S), S \subseteq Row, NEW o \in Nat
  PROVE  /\ Len(PageOf(S, o)) = PageLength(S, o)
         /\ DOMAIN PageOf(S, o) = 1 .. PageLength(S, o)
         /\ PageLength(S, o) \in 0 .. Limit /\ Cardinality(S) \in Nat
         /\ PageLength(S, o) # 0 => o + PageLength(S, o) <= Cardinality(S)
         /\ o + PageLength(S, o) < Cardinality(S) => PageLength(S, o) = Limit
         /\ \A k \in 1 .. PageLength(S, o) :
              PageOf(S, o)[k] \in S /\ Rank(S, PageOf(S, o)[k]) = o + k - 1
<1> DEFINE n == PageLength(S, o)
<1>1. Cardinality(S) \in Nat /\ Limit \in Nat \ {0}
  BY FS_CardinalityType, ApiAssumption
<1>2. /\ n \in 0 .. Limit
      /\ n # 0 => o + n <= Cardinality(S)
      /\ o + n < Cardinality(S) => n = Limit
  BY <1>1 DEF PageLength
<1> HIDE DEF n
<1>3. PageOf(S, o) = [k \in 1 .. n |-> CHOOSE row \in S : Rank(S, row) = o + k - 1]
  BY DEF PageOf, n
<1>4. \A k \in 1 .. n : \E row \in S : Rank(S, row) = o + k - 1
  <2> SUFFICES ASSUME NEW k \in 1 .. n PROVE \E row \in S : Rank(S, row) = o + k - 1
    OBVIOUS
  <2>1. o + k - 1 \in 0 .. Cardinality(S) - 1
    BY <1>1, <1>2
  <2> QED
    BY <2>1, RankIsOnto
<1>5. \A k \in 1 .. n : PageOf(S, o)[k] \in S /\ Rank(S, PageOf(S, o)[k]) = o + k - 1
  BY <1>3, <1>4
<1>6. DOMAIN PageOf(S, o) = 1 .. n /\ PageOf(S, o) \in Seq(S)
  <2>1. DOMAIN PageOf(S, o) = 1 .. n
    BY <1>3
  <2>2. PageOf(S, o) = [k \in 1 .. n |-> PageOf(S, o)[k]]
    BY <1>3
  <2> DEFINE page == PageOf(S, o)
  <2> HIDE DEF page
  <2>3. \A k \in 1 .. n : page[k] \in S
    BY <1>5 DEF page
  <2>4. page \in [1 .. n -> S]
    BY <2>2, <2>3 DEF page
  <2>5. n \in Nat
    BY <1>1, <1>2
  <2> QED
    BY <2>1, <2>4, <2>5 DEF page
<1>7. Len(PageOf(S, o)) = n
  BY <1>1, <1>2, <1>6
<1> QED
  BY <1>1, <1>2, <1>5, <1>6, <1>7 DEF n

(* A row of the ranks that the page covers is on it. *)
LEMMA PageCovers ==
  ASSUME NEW S, IsFiniteSet(S), S \subseteq Row, NEW o \in Nat, NEW row \in S,
         Rank(S, row) >= o, row \notin ToSet(PageOf(S, o))
  PROVE  Rank(S, row) >= o + Len(PageOf(S, o))
<1> DEFINE n == PageLength(S, o)
           page == PageOf(S, o)
<1>1. /\ Len(page) = n /\ DOMAIN page = 1 .. n /\ n \in Nat
      /\ \A k \in 1 .. n : page[k] \in S /\ Rank(S, page[k]) = o + k - 1
  <2>1. Limit \in Nat
    BY ApiAssumption
  <2> QED
    BY <2>1, PageShape
<1> HIDE DEF page, n
<1>2. Rank(S, row) \in Nat
  BY RankBounds
<1>3. ASSUME Rank(S, row) < o + n PROVE FALSE
  <2> DEFINE k == Rank(S, row) - o + 1
  <2>1. k \in 1 .. n /\ o + k - 1 = Rank(S, row)
    BY <1>1, <1>2, <1>3
  <2> HIDE DEF k
  <2>2. page[k] \in S /\ Rank(S, page[k]) = Rank(S, row)
    BY <1>1, <2>1
  <2>3. page[k] = row
    BY <2>2, RankIsUnique
  <2> QED
    BY <1>1, <2>1, <2>3 DEF ToSet, page
<1> QED
  BY <1>1, <1>2, <1>3 DEF page

(* No row is twice on a page. *)
LEMMA PageHasNoDuplicates ==
  ASSUME NEW S, IsFiniteSet(S), S \subseteq Row, NEW o \in Nat
  PROVE  Cardinality(ToSet(PageOf(S, o))) = Len(PageOf(S, o))
<1> DEFINE n == PageLength(S, o)
           page == PageOf(S, o)
<1>1. /\ Len(page) = n /\ DOMAIN page = 1 .. n /\ n \in Nat
      /\ \A k \in 1 .. n : Rank(S, page[k]) = o + k - 1
  <2>1. Limit \in Nat
    BY ApiAssumption
  <2> QED
    BY <2>1, PageShape
<1>2. page = [k \in 1 .. n |-> page[k]]
  BY DEF PageOf
<1> HIDE DEF page, n
<1>3. \A j, k \in 1 .. n : page[j] = page[k] => j = k
  BY <1>1
<1>4. ToSet(page) = {page[k] : k \in 1 .. n}
  BY <1>1 DEF ToSet
<1>5. page \in Bijection(1 .. n, ToSet(page))
  <2>1. page \in [1 .. n -> ToSet(page)]
    BY <1>2, <1>4
  <2>2. page \in Injection(1 .. n, ToSet(page))
    BY <2>1, <1>3 DEF Injection, IsInjective
  <2>3. page \in Surjection(1 .. n, ToSet(page))
    BY <2>1, <1>4 DEF Surjection
  <2> QED
    BY <2>2, <2>3 DEF Bijection
<1>6. ExistsBijection(1 .. n, ToSet(page))
  BY <1>5 DEF ExistsBijection
<1>7. IsFiniteSet(1 .. n) /\ Cardinality(1 .. n) = n
  BY <1>1, FS_Interval
<1> QED
  BY <1>1, <1>6, <1>7, FS_Bijection DEF page

----
(* A page keeps the contract of the request it answers. *)
LEMMA PageKeepsContract ==
  ASSUME NEW page, IsPage(page)
  PROVE  KeepsContract(page, page.offset) /\ Len(page.items) \in Nat
<1> DEFINE S == page.asOf
           o == page.offset
           n == PageLength(S, o)
<1>1. IsFiniteSet(S) /\ S \subseteq Row /\ o \in Nat /\ Limit \in Nat \ {0}
  BY ApiAssumption DEF IsPage
<1>2. /\ Len(PageOf(S, o)) = n /\ n \in 0 .. Limit /\ Cardinality(S) \in Nat
      /\ DOMAIN PageOf(S, o) = 1 .. n
      /\ n # 0 => o + n <= Cardinality(S)
      /\ o + n < Cardinality(S) => n = Limit
  BY <1>1, PageShape
<1>3. Cardinality(ToSet(PageOf(S, o))) = n
  BY <1>1, <1>2, PageHasNoDuplicates
<1>4. page.items = PageOf(S, o) /\ page.total = Cardinality(S)
  BY DEF IsPage
<1>5. page.more <=> o + n < Cardinality(S)
  BY <1>2, <1>4 DEF IsPage, HasMore
<1> HIDE DEF n, S, o
<1>6. Len(page.items) = n /\ Cardinality(ToSet(page.items)) = n /\ DOMAIN page.items = 1 .. n
  BY <1>2, <1>3, <1>4
<1>7. n # 0 => page.items # <<>>
  <2>1. DOMAIN <<>> = {}
    OBVIOUS
  <2> QED
    BY <1>1, <1>2, <1>6, <2>1
<1>8. page.items # <<>> => n # 0
  <2> SUFFICES ASSUME n = 0 PROVE page.items = <<>>
    OBVIOUS
  <2>1. page.items = [k \in 1 .. 0 |-> CHOOSE row \in S : Rank(S, row) = o + k - 1]
    BY <1>4 DEF PageOf, n
  <2> QED
    BY <2>1
<1> QED
  BY <1>1, <1>2, <1>4, <1>5, <1>6, <1>7, <1>8 DEF KeepsContract, o

LEMMA BeyondGrows ==
  ASSUME NEW S, NEW T, IsFiniteSet(T), S \subseteq T, NEW o \in Nat, NEW p \in Nat, p <= o,
         Beyond(S, o)
  PROVE  Beyond(T, p)
<1>1. ASSUME NEW row \in known \ seen PROVE Rank(T, row) >= p
  <2>1. Rank(S, row) \in Nat /\ Rank(T, row) \in Nat /\ Rank(S, row) <= Rank(T, row)
    BY RankGrows
  <2> QED
    BY <2>1 DEF Beyond
<1> QED
  BY <1>1 DEF Beyond

(* The pages a walk was answered are of rows that are still stored. *)
LEMMA AnswersAreStored ==
  ASSUME ExplorerInvariant, NEW i \in 1 .. Len(conns), Answered(i)
  PROVE  conns[i].answer.asOf \subseteq incidents
BY DEF ExplorerInvariant, AnswersDated

LEMMA ShownIsStored ==
  ASSUME ExplorerInvariant, shown # None
  PROVE  shown.asOf \subseteq incidents
<1>1. PICK s \in 1 .. latest : Answered(s) /\ shown = conns[s].answer
  BY DEF ExplorerInvariant, ShownHolds
<1>2. s \in 1 .. Len(conns)
  BY DEF ExplorerInvariant, ExplorerTyped, ConnsTyped
<1> QED
  BY <1>1, <1>2, AnswersAreStored

----
(* A step of the clients leaves what was answered as it is. *)
LEMMA ClientPages ==
  ASSUME ExplorerInvariant, WalkInvariant, ConnsTyped', ConnsKept, Len(conns) <= Len(conns'),
         UNCHANGED <<incidents, events, writing, reading, cur, pc, heard, got>>,
         offset' \in Nat, \A i \in 1 .. Len(conns') : conns'[i].request.offset \in Nat
  PROVE  /\ StoreTyped' /\ PagesHold'
         /\ PageReply' => PageReply
         /\ \A i \in 1 .. Len(conns') :
              Answered(i)' => i \in 1 .. Len(conns) /\ Answered(i) /\ conns'[i].answer = conns[i].answer
<1>1. \A i \in 1 .. Len(conns') :
        Answered(i)' => i \in 1 .. Len(conns) /\ Answered(i) /\ conns'[i].answer = conns[i].answer
  BY DEF ConnsKept, Answered
<1>2. pc # "accept" => cur \in 1 .. Len(conns)
  BY DEF ExplorerInvariant, ExplorerTyped, ConnsTyped
<1>3. PageReply' => PageReply
  BY <1>2 DEF PageReply, ConnsKept
<1>4. StoreTyped'
  BY DEF WalkInvariant, StoreTyped
<1>5. PagesHold'
  BY <1>1, <1>3 DEF WalkInvariant, PagesHold
<1> QED
  BY <1>1, <1>3, <1>4, <1>5

(* It also keeps the walk, unless it moves. *)
LEMMA ClientWalk ==
  ASSUME ExplorerInvariant, WalkInvariant, ConnsTyped', ConnsKept, Len(conns) <= Len(conns'),
         UNCHANGED <<incidents, events, writing, reading, cur, pc, heard, got>>,
         UNCHANGED <<offset, history, shown, known, seen>>,
         \/ latest' = latest
         \/ latest' \in 1 .. Len(conns') /\ latest' \notin 1 .. Len(conns),
         \A i \in 1 .. Len(conns') : conns'[i].request.offset \in Nat
  PROVE  WalkInvariant'
<1>1. /\ StoreTyped' /\ PagesHold'
      /\ PageReply' => PageReply
      /\ \A i \in 1 .. Len(conns') :
           Answered(i)' => i \in 1 .. Len(conns) /\ Answered(i) /\ conns'[i].answer = conns[i].answer
  BY ClientPages DEF WalkInvariant, StoreTyped
<1>2. HistoryHolds'
  BY DEF WalkInvariant, HistoryHolds
<1>3. latest' # 0 /\ Answered(latest)' => Beyond(conns'[latest'].answer.asOf, offset)
  <2> SUFFICES ASSUME latest' # 0, Answered(latest)'
               PROVE  Beyond(conns'[latest'].answer.asOf, offset)
    OBVIOUS
  <2>1. latest' \in 1 .. Len(conns')
    BY DEF ExplorerInvariant, ExplorerTyped, ConnsTyped
  <2>2. latest' \in 1 .. Len(conns) /\ Answered(latest') /\ conns'[latest'].answer = conns[latest'].answer
    BY <1>1, <2>1 DEF Answered
  <2>3. latest' = latest
    BY <2>2
  <2> QED
    BY <2>2, <2>3 DEF WalkInvariant, WalkHolds
<1>4. PageReply' /\ cur' = latest' => Beyond(got.asOf, offset)
  <2> SUFFICES ASSUME PageReply', cur' = latest' PROVE Beyond(got.asOf, offset)
    OBVIOUS
  <2>1. PageReply /\ cur \in 1 .. Len(conns)
    BY <1>1 DEF PageReply, ExplorerInvariant, ExplorerTyped, ConnsTyped
  <2>2. latest' = latest
    BY <2>1
  <2> QED
    BY <2>1, <2>2 DEF WalkInvariant, WalkHolds
<1>5. WalkHolds'
  BY <1>3, <1>4 DEF WalkInvariant, WalkHolds, Beyond
<1> QED
  BY <1>1, <1>2, <1>5 DEF WalkInvariant

(* A page that is received extends what was seen by the rows it covers. *)
LEMMA ReceiveWalk ==
  ASSUME ExplorerInvariant, WalkInvariant, NEW i \in DOMAIN conns, Receive(i)
  PROVE  WalkInvariant'
<1>t. /\ ConnsTyped' /\ ConnsKept /\ Len(conns') = Len(conns) /\ Len(conns) \in Nat
      /\ i \in 1 .. Len(conns) /\ conns[i].answer # None
  <2>1. ConnsTyped
    BY DEF ExplorerInvariant, ExplorerTyped
  <2>2. ConnsTyped' /\ ConnsKept /\ Len(conns') = Len(conns) /\ Len(conns) \in Nat
    BY <2>1, ClientKeeps
  <2>3. conns[i].answer # None
    BY DEF Receive
  <2>4. i \in 1 .. Len(conns)
    BY <2>1 DEF ConnsTyped
  <2> QED
    BY <2>2, <2>3, <2>4
<1>u. /\ UNCHANGED <<incidents, events, writing, reading, cur, pc, heard, got>>
      /\ UNCHANGED <<offset, history, latest>>
  BY DEF Receive
<1>r. \A j \in 1 .. Len(conns') : conns'[j].request.offset \in Nat
  BY <1>t DEF ConnsKept, WalkInvariant, StoreTyped
<1> DEFINE answer == conns[i].answer
<1>1. CASE UNCHANGED <<shown, known, seen>>
  BY <1>1, <1>t, <1>u, <1>r, ClientWalk
<1>2. CASE ~ UNCHANGED <<shown, known, seen>>
  <2>1. /\ i = latest /\ answer.status = 200 /\ KeepsContract(answer, offset)
        /\ shown' = answer
        /\ known' = IF known = {} THEN answer.asOf ELSE known
        /\ seen' = seen \union ToSet(answer.items)
    BY <1>2, ExplorerAssumption DEF Receive, Current
  <2>2. Answered(i) /\ latest # 0
    BY <1>t, <2>1 DEF Answered, ExplorerInvariant, ExplorerTyped
  <2>3. IsPage(answer) /\ answer.asOf \subseteq incidents /\ Beyond(answer.asOf, offset)
    BY <1>t, <2>1, <2>2, AnswersAreStored DEF WalkInvariant, PagesHold, WalkHolds
  <2>4. answer.offset = offset /\ offset \in Nat /\ Len(answer.items) \in Nat
    BY <2>1, <2>3, PageKeepsContract DEF KeepsContract, WalkInvariant, StoreTyped
  <2> DEFINE rows == answer.asOf
  <2>5. /\ IsFiniteSet(rows) /\ rows \subseteq Row /\ answer.items = PageOf(rows, offset)
    BY <2>3, <2>4 DEF IsPage
  <2>6. IsFiniteSet(incidents)
    BY DEF WalkInvariant, StoreTyped
  <2> HIDE DEF rows, answer
  <2>7. known' \subseteq rows
    BY <2>1, <2>3 DEF Beyond, rows
  <2>e. known' = {} => offset = 0 /\ ~ answer.more
    <3> SUFFICES ASSUME known' = {} PROVE offset = 0 /\ ~ answer.more
      OBVIOUS
    <3>1. known = {} /\ rows = {}
      BY <2>1 DEF rows
    <3>2. offset = 0
      BY <3>1 DEF WalkInvariant, WalkHolds
    <3>3. answer.total = 0 /\ (answer.more <=> answer.offset + Len(answer.items) < answer.total)
      BY <2>3, <3>1, FS_EmptySet DEF IsPage, HasMore, rows
    <3> QED
      BY <2>4, <3>2, <3>3
  <2>8. \A row \in known' \ seen' : Rank(rows, row) \in Nat /\ Rank(rows, row) >= offset
    <3> SUFFICES ASSUME NEW row \in known' \ seen'
                 PROVE  Rank(rows, row) \in Nat /\ Rank(rows, row) >= offset
      OBVIOUS
    <3>1. Rank(rows, row) \in Nat
      BY <2>5, RankGrows
    <3>2. CASE known = {}
      BY <3>1, <3>2 DEF WalkInvariant, WalkHolds
    <3>3. CASE known # {}
      BY <2>1, <2>3, <3>1, <3>3 DEF Beyond, rows
    <3> QED
      BY <3>2, <3>3, <3>1
  <2>9. \A row \in known' \ seen' : Rank(rows, row) >= offset + Len(answer.items)
    <3> SUFFICES ASSUME NEW row \in known' \ seen'
                 PROVE  Rank(rows, row) >= offset + Len(answer.items)
      OBVIOUS
    <3>1. row \in rows /\ row \notin ToSet(PageOf(rows, offset)) /\ Rank(rows, row) >= offset
      BY <2>1, <2>5, <2>7, <2>8
    <3> QED
      BY <2>4, <2>5, <3>1, PageCovers
  <2>10. \A row \in known' \ seen' : Rank(incidents, row) >= offset
    <3> SUFFICES ASSUME NEW row \in known' \ seen' PROVE Rank(incidents, row) >= offset
      OBVIOUS
    <3>1. /\ Rank(rows, row) \in Nat /\ Rank(incidents, row) \in Nat
          /\ Rank(rows, row) <= Rank(incidents, row)
      BY <2>3, <2>6, RankGrows DEF rows
    <3> QED
      BY <2>4, <2>8, <3>1
  <2>11. /\ StoreTyped' /\ PagesHold'
         /\ PageReply' => PageReply
         /\ \A j \in 1 .. Len(conns') :
              Answered(j)' => Answered(j) /\ conns'[j].answer = conns[j].answer
    BY <1>t, <1>u, <1>r, <2>4, ClientPages
  <2>12. HistoryHolds'
    BY <1>u DEF WalkInvariant, HistoryHolds
  <2>13. ~ (PageReply' /\ cur' = latest')
    BY <1>t, <1>u, <2>1, <2>11 DEF PageReply, ExplorerInvariant, AnswersInTurn
  <2>14. conns'[latest'].answer = answer
    BY <1>t, <1>u, <2>1 DEF ConnsKept, answer
  <2>15. WalkHolds'
    <3>1. Beyond(incidents, offset)'
      BY <1>u, <2>3, <2>7, <2>10 DEF Beyond, rows
    <3>2. Beyond(conns[latest].answer.asOf, offset)'
      BY <1>u, <2>7, <2>8, <2>14 DEF Beyond, rows
    <3>3. Beyond(shown.asOf, offset + Len(shown.items))'
      BY <1>u, <2>1, <2>7, <2>9 DEF Beyond, rows
    <3>4. IsPage(shown)' /\ shown'.offset = offset'
      BY <1>u, <2>1, <2>3, <2>4 DEF answer
    <3> QED
      BY <1>u, <2>1, <2>e, <2>13, <3>1, <3>2, <3>3, <3>4 DEF WalkHolds
  <2> QED
    BY <2>11, <2>12, <2>15 DEF WalkInvariant
<1> QED
  BY <1>1, <1>2

(* Moving on or back puts the offset where nothing unseen lies before it. *)
LEMMA MoveWalk ==
  ASSUME ExplorerInvariant, WalkInvariant, GoNext \/ GoPrevious
  PROVE  WalkInvariant'
<1>t. ConnsTyped /\ Len(conns) \in Nat
  BY DEF ExplorerInvariant, ExplorerTyped, ConnsTyped
<1>u. /\ UNCHANGED conns /\ UNCHANGED <<known, seen>>
      /\ UNCHANGED <<incidents, events, writing, reading, cur, pc, heard, got>>
      /\ latest' = 0 /\ shown' = None
  BY DEF GoNext, GoPrevious, MoveTo, apiVars
<1>k. ConnsTyped' /\ ConnsKept
  BY <1>t, <1>u DEF ConnsTyped, ConnsKept
<1>r. \A j \in 1 .. Len(conns') : conns'[j].request.offset \in Nat
  BY <1>u DEF WalkInvariant, StoreTyped
<1>1. /\ offset' \in Nat /\ HistoryHolds'
      /\ Beyond(incidents, offset') /\ (known = {} => offset' = 0)
  <2>1. CASE GoNext
    <3>1. /\ shown # None /\ shown.more
          /\ offset' = shown.offset + Len(shown.items) /\ history' = Append(history, shown.offset)
      BY <2>1 DEF GoNext, MoveTo
    <3>2. /\ IsPage(shown) /\ shown.offset = offset /\ offset \in Nat
          /\ Beyond(shown.asOf, offset + Len(shown.items))
      BY <3>1 DEF WalkInvariant, WalkHolds, StoreTyped
    <3>3. Len(shown.items) \in Nat
      BY <3>2, PageKeepsContract
    <3>4. offset' \in Nat /\ offset' >= offset
      BY <3>1, <3>2, <3>3
    <3>5. Beyond(incidents, offset')
      BY <3>1, <3>2, <3>4, ShownIsStored, BeyondGrows DEF WalkInvariant, StoreTyped
    <3>6. HistoryHolds'
      <4>1. /\ history \in Seq(Nat) /\ \A j \in 1 .. Len(history) : history[j] <= offset
            /\ \A j, k \in 1 .. Len(history) : j < k => history[j] <= history[k]
        BY DEF WalkInvariant, HistoryHolds
      <4>2. /\ history' \in Seq(Nat) /\ Len(history') = Len(history) + 1
            /\ \A j \in 1 .. Len(history) : history'[j] = history[j]
            /\ history'[Len(history) + 1] = offset
        BY <3>1, <3>2, <4>1, AppendProperties
      <4>3. \A j \in 1 .. Len(history') : j \in 1 .. Len(history) \/ j = Len(history) + 1
        BY <4>1, <4>2
      <4>4. \A j \in 1 .. Len(history') : history'[j] \in Nat /\ history'[j] <= offset
        BY <3>2, <4>1, <4>2, <4>3
      <4>5. \A j \in 1 .. Len(history') : history'[j] <= offset'
        BY <3>2, <3>4, <4>4
      <4>6. ASSUME NEW j \in 1 .. Len(history'), NEW k \in 1 .. Len(history'), j < k
            PROVE  history'[j] <= history'[k]
        <5>1. j \in 1 .. Len(history)
          BY <4>1, <4>2, <4>3, <4>6
        <5> QED
          BY <4>1, <4>2, <4>3, <4>4, <5>1, <4>6
      <4> QED
        BY <4>2, <4>5, <4>6 DEF HistoryHolds
    <3>7. known = {} => offset' = 0
      BY <3>1 DEF WalkInvariant, WalkHolds
    <3> QED
      BY <3>4, <3>5, <3>6, <3>7
  <2>2. CASE GoPrevious
    <3>1. history # <<>> /\ offset' = Last(history) /\ history' = Front(history)
      BY <2>2 DEF GoPrevious, MoveTo
    <3>2. /\ history \in Seq(Nat) /\ \A j \in 1 .. Len(history) : history[j] <= offset
          /\ \A j, k \in 1 .. Len(history) : j < k => history[j] <= history[k]
      BY DEF WalkInvariant, HistoryHolds
    <3>3. Len(history) \in Nat \ {0}
      BY <3>1, <3>2
    <3>4. /\ offset' = history[Len(history)] /\ offset' \in Nat
      BY <3>1, <3>2, <3>3 DEF Last
    <3>5. /\ history' \in Seq(Nat) /\ Len(history') = Len(history) - 1
          /\ \A j \in 1 .. Len(history) - 1 : history'[j] = history[j]
      <4>1. history' = [j \in 1 .. Len(history) - 1 |-> history[j]]
        BY <3>1, <3>2, <3>3 DEF Front
      <4> QED
        BY <3>2, <3>3, <4>1
    <3>6. HistoryHolds'
      <4>1. \A j \in 1 .. Len(history') : j \in 1 .. Len(history) /\ j < Len(history)
        BY <3>3, <3>5
      <4>2. \A j \in 1 .. Len(history') : history'[j] = history[j]
        BY <3>5
      <4>3. \A j \in 1 .. Len(history') : history'[j] <= offset'
        BY <3>2, <3>3, <3>4, <4>1, <4>2
      <4>4. \A j, k \in 1 .. Len(history') : j < k => history'[j] <= history'[k]
        BY <3>2, <4>1, <4>2
      <4> QED
        BY <3>5, <4>3, <4>4 DEF HistoryHolds
    <3>7. offset \in Nat /\ offset' <= offset
      BY <3>2, <3>3, <3>4 DEF WalkInvariant, StoreTyped
    <3>8. Beyond(incidents, offset') /\ (known = {} => offset' = 0)
      BY <3>4, <3>7, BeyondGrows DEF WalkInvariant, WalkHolds, StoreTyped
    <3> QED
      BY <3>4, <3>6, <3>8
  <2> QED
    BY <2>1, <2>2
<1>2. StoreTyped' /\ PagesHold' /\ (PageReply' => PageReply)
  BY <1>t, <1>u, <1>k, <1>r, <1>1, ClientPages
<1>3. ~ (PageReply' /\ cur' = latest')
  BY <1>u, <1>2 DEF PageReply, ExplorerInvariant, ExplorerTyped
<1>4. WalkHolds'
  BY <1>u, <1>1, <1>3 DEF WalkHolds, Beyond
<1> QED
  BY <1>1, <1>2, <1>4 DEF WalkInvariant

(* Every step of the dashboard keeps the walk. *)
LEMMA ViewWalk ==
  ASSUME ExplorerInvariant, WalkInvariant,
         \/ Poll \/ PollStatus \/ GoNext \/ GoPrevious
         \/ \E i \in DOMAIN conns : Send(i) \/ GiveUp(i) \/ Receive(i)
  PROVE  WalkInvariant'
<1>t. ConnsTyped /\ Len(conns) \in Nat
  BY DEF ExplorerInvariant, ExplorerTyped, ConnsTyped
<1>o. offset \in Nat /\ \A j \in 1 .. Len(conns) : conns[j].request.offset \in Nat
  BY DEF WalkInvariant, StoreTyped
<1>1. ASSUME NEW kind, NEW o \in Nat, kind \in {"page", "status"},
             Connect([kind |-> kind, offset |-> o])
      PROVE  /\ ConnsTyped' /\ ConnsKept /\ Len(conns') = Len(conns) + 1
             /\ UNCHANGED <<incidents, events, writing, reading, cur, pc, heard, got>>
             /\ \A j \in 1 .. Len(conns') : conns'[j].request.offset \in Nat
  <2> DEFINE request == [kind |-> kind, offset |-> o]
  <2>1. Connect(request) /\ request.kind \in {"page", "status"} /\ request.offset = o
    BY <1>1
  <2> HIDE DEF request
  <2>2. /\ ConnsTyped' /\ ConnsKept /\ Len(conns') = Len(conns) + 1
        /\ conns'[Len(conns) + 1].request = request
    BY <1>t, <2>1, ConnectKeeps
  <2>3. \A j \in 1 .. Len(conns') : j \in 1 .. Len(conns) \/ j = Len(conns) + 1
    BY <1>t, <2>2
  <2>4. \A j \in 1 .. Len(conns') : conns'[j].request.offset \in Nat
    BY <1>o, <2>1, <2>2, <2>3 DEF ConnsKept
  <2> QED
    BY <2>1, <2>2, <2>4 DEF Connect
<1>2. CASE Poll
  <2>1. /\ Connect([kind |-> "page", offset |-> offset]) /\ latest' = Len(conns) + 1
        /\ UNCHANGED <<offset, history, shown, known, seen>>
    BY <1>2 DEF Poll
  <2>2. /\ ConnsTyped' /\ ConnsKept /\ Len(conns') = Len(conns) + 1
        /\ UNCHANGED <<incidents, events, writing, reading, cur, pc, heard, got>>
        /\ \A j \in 1 .. Len(conns') : conns'[j].request.offset \in Nat
    BY <1>1, <1>o, <2>1
  <2>3. latest' \in 1 .. Len(conns') /\ latest' \notin 1 .. Len(conns) /\ Len(conns) <= Len(conns')
    BY <1>t, <2>1, <2>2
  <2> QED
    BY <2>1, <2>2, <2>3, ClientWalk
<1>3. CASE PollStatus
  <2>1. /\ Connect([kind |-> "status", offset |-> 0])
        /\ UNCHANGED <<offset, history, shown, known, seen, latest>>
    BY <1>3 DEF PollStatus, viewVars
  <2>2. /\ ConnsTyped' /\ ConnsKept /\ Len(conns') = Len(conns) + 1
        /\ UNCHANGED <<incidents, events, writing, reading, cur, pc, heard, got>>
        /\ \A j \in 1 .. Len(conns') : conns'[j].request.offset \in Nat
    BY <1>1, <2>1
  <2>3. Len(conns) <= Len(conns')
    BY <1>t, <2>2
  <2> QED
    BY <2>1, <2>2, <2>3, ClientWalk
<1>4. ASSUME NEW i \in DOMAIN conns, Send(i) \/ GiveUp(i)
      PROVE  WalkInvariant'
  <2>1. ConnsTyped' /\ ConnsKept /\ Len(conns') = Len(conns)
    BY <1>t, <1>4, ClientKeeps
  <2>2. /\ UNCHANGED <<incidents, events, writing, reading, cur, pc, heard, got>>
        /\ UNCHANGED <<offset, history, shown, known, seen, latest>>
    BY <1>4 DEF Send, GiveUp, viewVars
  <2>3. \A j \in 1 .. Len(conns') : conns'[j].request.offset \in Nat
    BY <1>o, <2>1 DEF ConnsKept
  <2> QED
    BY <1>t, <2>1, <2>2, <2>3, ClientWalk
<1> QED
  BY <1>2, <1>3, <1>4, MoveWalk, ReceiveWalk

(* A step of the API thread that answers nobody. *)
LEMMA ThreadWalk ==
  ASSUME ExplorerInvariant, WalkInvariant,
         UNCHANGED <<incidents, writing, conns>>, UNCHANGED viewVars,
         pc' \in {"open", "count", "list"} => heard'.offset \in Nat,
         pc' = "list" => got'.total = Cardinality(incidents),
         reading' <=> pc' = "list",
         PageReply' => IsPage(got') /\ got'.asOf = incidents
  PROVE  WalkInvariant'
<1>1. \A i \in 1 .. Len(conns) : Answered(i)' <=> Answered(i)
  BY DEF Answered
<1>2. StoreTyped' /\ HistoryHolds'
  BY DEF WalkInvariant, StoreTyped, HistoryHolds, viewVars
<1>3. PagesHold'
  BY <1>1 DEF WalkInvariant, PagesHold
<1>4. Answered(latest)' => Answered(latest)
  BY DEF Answered, viewVars
<1>5. WalkHolds'
  BY <1>4 DEF WalkInvariant, WalkHolds, Beyond, viewVars
<1> QED
  BY <1>2, <1>3, <1>5 DEF WalkInvariant

(* What is read of a request is a request for a page, or none. *)
LEMMA HeardOffset ==
  ASSUME NEW request, request.offset \in Nat, NEW h \in FirstSegment(request)
  PROVE  h.offset \in Nat
<1>1. \/ h = request
      \/ h = [kind |-> "bad", offset |-> 0]
      \/ request.kind = "page" /\ \E o \in 0 .. request.offset : h = [request EXCEPT !.offset = o]
  BY DEF FirstSegment
<1>2. CASE h = request
  BY <1>2
<1>3. CASE h = [kind |-> "bad", offset |-> 0]
  BY <1>3
<1>4. ASSUME NEW o \in 0 .. request.offset, h = [request EXCEPT !.offset = o]
      PROVE  h.offset \in Nat
  BY <1>4
<1> QED
  BY <1>1, <1>2, <1>3, <1>4

(* The answer of a page becomes that of its connection. *)
LEMMA ReplyWalk ==
  ASSUME ExplorerInvariant, WalkInvariant, Reply, UNCHANGED viewVars
  PROVE  WalkInvariant'
<1>1. /\ pc = "reply" /\ pc' = "accept" /\ UNCHANGED <<incidents, writing, reading, cur>>
      /\ conns' = IF conns[cur].open THEN [conns EXCEPT ![cur].answer = got] ELSE conns
  BY DEF Reply, storeVars
<1>2. ConnsTyped /\ Len(conns) \in Nat /\ cur \in 1 .. Len(conns)
  BY <1>1 DEF ExplorerInvariant, ExplorerTyped, ConnsTyped
<1>3. /\ Len(conns') = Len(conns)
      /\ \A i \in 1 .. Len(conns) : /\ conns'[i].request = conns[i].request
                                    /\ \/ conns'[i].answer = conns[i].answer
                                       \/ i = cur /\ conns'[i].answer = got
  <2>1. CASE conns' = conns
    BY <2>1
  <2>2. CASE conns[cur].open
    <3> DEFINE c == [conns[cur] EXCEPT !.answer = got]
    <3>1. conns' = [conns EXCEPT ![cur] = c]
      BY <1>1, <2>2
    <3>2. conns[cur] = [request |-> conns[cur].request, sent |-> conns[cur].sent,
                        open |-> conns[cur].open, answer |-> conns[cur].answer]
      BY <1>2 DEF ConnsTyped
    <3>3. /\ c = [request |-> c.request, sent |-> c.sent, open |-> c.open, answer |-> c.answer]
          /\ c.request = conns[cur].request /\ c.answer = got
      BY <3>2
    <3> HIDE DEF c
    <3>4. /\ Len(conns') = Len(conns)
          /\ conns'[cur] = c /\ \A j \in 1 .. Len(conns) : j # cur => conns'[j] = conns[j]
      BY <1>2, <3>1, <3>3, UpdateKeeps
    <3>5. \A i \in 1 .. Len(conns) : i = cur \/ conns'[i] = conns[i]
      BY <3>4
    <3> QED
      BY <3>3, <3>4, <3>5
  <2> QED
    BY <1>1, <2>1, <2>2
<1>4. \A i \in 1 .. Len(conns) :
        Answered(i)' => \/ Answered(i) /\ conns'[i].answer = conns[i].answer
                        \/ i = cur /\ PageReply /\ conns'[i].answer = got
  BY <1>1, <1>3 DEF Answered, PageReply
<1>5. StoreTyped' /\ HistoryHolds'
  BY <1>1, <1>3 DEF WalkInvariant, StoreTyped, HistoryHolds, viewVars
<1>6. PagesHold'
  BY <1>1, <1>3, <1>4 DEF WalkInvariant, PagesHold, PageReply
<1>7. latest' # 0 /\ Answered(latest)' => Beyond(conns'[latest'].answer.asOf, offset)
  <2> SUFFICES ASSUME latest # 0, Answered(latest)'
               PROVE  Beyond(conns'[latest].answer.asOf, offset)
    BY DEF viewVars
  <2>1. latest \in 1 .. Len(conns)
    BY <1>2 DEF ExplorerInvariant, ExplorerTyped
  <2>2. latest' = latest
    BY DEF viewVars
  <2>3. \/ Answered(latest) /\ conns'[latest].answer = conns[latest].answer
        \/ latest = cur /\ PageReply /\ conns'[latest].answer = got
    BY <1>4, <2>1, <2>2 DEF Answered
  <2> QED
    BY <2>3 DEF WalkInvariant, WalkHolds
<1>8. WalkHolds'
  BY <1>1, <1>7 DEF WalkInvariant, WalkHolds, PageReply, Beyond, viewVars
<1> QED
  BY <1>5, <1>6, <1>8 DEF WalkInvariant

(* A commit waits for the reader, and only moves rows back. *)
LEMMA WriteWalk ==
  ASSUME ExplorerInvariant, WalkInvariant, Write, UNCHANGED viewVars
  PROVE  WalkInvariant'
<1>1. UNCHANGED <<conns, cur, pc, heard, got, reading>> /\ UNCHANGED viewVars
  BY DEF Write, EndCommit, AbandonCommit, BeginCommit
<1>2. /\ incidents \subseteq incidents' /\ IsFiniteSet(incidents') /\ incidents' \subseteq Row
      /\ pc = "list" => incidents' = incidents
      /\ writing' # None => writing' \in Writes
  <2>1. CASE EndCommit
    <3>1. writing \in Writes /\ incidents' = incidents \union writing.incidents /\ ~ reading
          /\ writing' = None
      BY <2>1 DEF EndCommit, WalkInvariant, StoreTyped
    <3>2. IsFiniteSet(incidents) /\ incidents \subseteq Row
      BY DEF WalkInvariant, StoreTyped
    <3>3. IsFiniteSet(writing.incidents) /\ writing.incidents \subseteq Row
      BY <3>1, ApiAssumption
    <3> QED
      BY <3>1, <3>2, <3>3, FS_Union DEF WalkInvariant, PagesHold
  <2>2. CASE AbandonCommit \/ \E w \in Writes : BeginCommit(w)
    BY <2>2 DEF AbandonCommit, BeginCommit, WalkInvariant, StoreTyped
  <2> QED
    BY <2>1, <2>2 DEF Write
<1>3. StoreTyped' /\ HistoryHolds'
  BY <1>1, <1>2 DEF WalkInvariant, StoreTyped, HistoryHolds, viewVars
<1>4. PagesHold'
  BY <1>1, <1>2 DEF WalkInvariant, PagesHold, PageReply, Answered
<1>5. Beyond(incidents, offset) /\ offset \in Nat
  BY DEF WalkInvariant, WalkHolds, StoreTyped
<1>6. Beyond(incidents', offset)
  BY <1>2, <1>5, BeyondGrows
<1>7. WalkHolds'
  BY <1>1, <1>6 DEF WalkInvariant, WalkHolds, Beyond, PageReply, Answered, viewVars
<1> QED
  BY <1>3, <1>4, <1>7 DEF WalkInvariant

LEMMA ServeWalk ==
  ASSUME ExplorerInvariant, WalkInvariant, Serve, UNCHANGED viewVars
  PROVE  WalkInvariant'
<1>t. pc # "accept" => cur \in 1 .. Len(conns)
  BY DEF ExplorerInvariant, ExplorerTyped, ConnsTyped
<1>r. reading <=> pc = "list"
  BY DEF WalkInvariant, PagesHold
<1>1. CASE Accept
  BY <1>1, <1>r, ThreadWalk DEF Accept, storeVars, PageReply
<1>2. CASE ReadRequest
  <2>1. /\ pc = "read" /\ pc' = "open" /\ UNCHANGED <<incidents, writing, reading, conns, cur, got>>
        /\ heard' \in FirstSegment(conns[cur].request)
    BY <1>2 DEF ReadRequest, storeVars
  <2>2. heard'.offset \in Nat
    BY <1>t, <2>1, HeardOffset DEF WalkInvariant, StoreTyped
  <2> QED
    BY <1>r, <2>1, <2>2, ThreadWalk DEF PageReply
<1>3. CASE ReadNothing
  <2>1. got'.status # 200
    BY <1>3 DEF ReadNothing
  <2> QED
    BY <1>3, <1>r, <2>1, ThreadWalk DEF ReadNothing, storeVars, PageReply
<1>4. CASE OpenStore
  <2>1. /\ pc = "open" /\ UNCHANGED <<incidents, writing, reading, conns, cur, heard>>
        /\ \/ pc' = [page |-> "count", status |-> "first", bad |-> "refuse"][heard.kind]
           \/ got'.status # 200 /\ pc' = "reply"
    BY <1>4 DEF OpenStore, storeVars
  <2>2. heard.kind \in {"bad", "page", "status"} /\ heard.offset \in Nat
    BY <1>t, <2>1 DEF ExplorerInvariant, ExplorerTyped, ConnsTyped, RouteHolds, WalkInvariant, PagesHold
  <2>3. \/ pc' \in {"count", "first", "refuse"}
        \/ got'.status # 200 /\ pc' = "reply"
    BY <2>1, <2>2
  <2> QED
    BY <1>r, <2>1, <2>2, <2>3, ThreadWalk DEF PageReply
<1>5. CASE Refuse
  <2>1. got'.status # 200
    BY <1>5 DEF Refuse
  <2> QED
    BY <1>5, <1>r, <2>1, ThreadWalk DEF Refuse, storeVars, PageReply
<1>6. CASE Busy
  <2>1. got'.status # 200
    BY <1>6 DEF Busy
  <2> QED
    BY <1>6, <1>r, <2>1, ThreadWalk DEF Busy, storeVars, PageReply
<1>7. CASE CountPage
  <2>1. got'.total = Cardinality(incidents) /\ heard.offset \in Nat
    BY <1>7 DEF CountPage, WalkInvariant, PagesHold
  <2> QED
    BY <1>7, <2>1, ThreadWalk DEF CountPage, OneTransaction, storeVars, PageReply
<1>8. CASE ListPage
  <2> DEFINE items == PageOf(incidents, heard.offset)
  <2>1. /\ pc = "list" /\ pc' = "reply" /\ ~ reading' /\ UNCHANGED <<incidents, writing, conns, cur, heard>>
        /\ got' = [status |-> 200, offset |-> heard.offset, items |-> items, total |-> got.total,
                   more |-> HasMore(heard.offset, Len(items), got.total), asOf |-> incidents]
    BY <1>8 DEF ListPage, storeVars
  <2>2. got.total = Cardinality(incidents) /\ heard.offset \in Nat
    BY <2>1 DEF WalkInvariant, PagesHold
  <2>3. IsFiniteSet(incidents) /\ incidents \subseteq Row
    BY DEF WalkInvariant, StoreTyped
  <2> HIDE DEF items
  <2>4. /\ got'.status = 200 /\ got'.offset = heard.offset /\ got'.items = items
        /\ got'.total = Cardinality(incidents) /\ got'.asOf = incidents
        /\ got'.more = HasMore(heard.offset, Len(items), Cardinality(incidents))
    BY <2>1, <2>2
  <2>5. IsPage(got') /\ got'.asOf = incidents
    BY <2>2, <2>3, <2>4 DEF IsPage, items
  <2> QED
    BY <2>1, <2>5, ThreadWalk
<1>9. CASE CountFirst
  BY <1>9, <1>r, ThreadWalk DEF CountFirst, storeVars, PageReply
<1>10. CASE CountSecond
  <2>1. /\ pc = "second" /\ pc' = "reply" /\ UNCHANGED <<incidents, writing, reading, conns, cur, heard>>
        /\ conns[cur].request.kind = "status"
    BY <1>10 DEF CountSecond, storeVars, ExplorerInvariant, RouteHolds
  <2> QED
    BY <1>r, <2>1, ThreadWalk DEF PageReply
<1>11. CASE Reply
  BY <1>11, ReplyWalk
<1> QED
  BY <1>1, <1>2, <1>3, <1>4, <1>5, <1>6, <1>7, <1>8, <1>9, <1>10, <1>11 DEF Serve

LEMMA WalkStep == ExplorerInvariant /\ WalkInvariant /\ [Next]_vars => WalkInvariant'
<1> SUFFICES ASSUME ExplorerInvariant, WalkInvariant, [Next]_vars PROVE WalkInvariant'
  OBVIOUS
<1>1. CASE UNCHANGED vars
  BY <1>1 DEF vars, apiVars, viewVars, WalkInvariant, StoreTyped, PagesHold, HistoryHolds, WalkHolds,
              Beyond, PageReply, Answered
<1> QED
  BY <1>1, ServeWalk, WriteWalk, ViewWalk DEF Next

LEMMA WalkInit == Init => WalkInvariant
<1> SUFFICES ASSUME Init PROVE WalkInvariant
  OBVIOUS
<1>1. /\ conns = <<>> /\ cur = 0 /\ pc = "accept" /\ latest = 0 /\ shown = None /\ offset = 0
      /\ history = <<>> /\ known = {} /\ writing = None /\ ~ reading /\ incidents = Initial.incidents
  BY DEF Init, ApiInit
<1>2. Len(conns) = 0
  BY <1>1
<1>3. HistoryHolds
  BY <1>1 DEF HistoryHolds
<1>4. StoreTyped /\ PagesHold
  BY <1>1, <1>2, ApiAssumption DEF StoreTyped, PagesHold, PageReply
<1>5. WalkHolds
  BY <1>1 DEF WalkHolds, Beyond, PageReply
<1> QED
  BY <1>3, <1>4, <1>5 DEF WalkInvariant

----
(* What the server answers to the request it was sent passes the            *)
(* dashboard's check of it, for any limit, any rows, and whatever is        *)
(* committed between two statements: count and rows are of one snapshot.    *)
THEOREM ContractIsKept == Spec => []AnswersKeepContract
<1>1. ExplorerInvariant /\ WalkInvariant => AnswersKeepContract
  <2> SUFFICES ASSUME ExplorerInvariant, WalkInvariant, NEW i \in DOMAIN conns,
                      conns[i].answer # None, conns[i].request.kind = "page",
                      conns[i].answer.status = 200,
                      conns[i].answer.offset = conns[i].request.offset
               PROVE  KeepsContract(conns[i].answer, conns[i].request.offset)
    BY DEF AnswersKeepContract
  <2>1. i \in 1 .. Len(conns)
    BY DEF ExplorerInvariant, ExplorerTyped, ConnsTyped
  <2>2. IsPage(conns[i].answer)
    BY <2>1 DEF Answered, WalkInvariant, PagesHold
  <2> QED
    BY <2>2, PageKeepsContract
<1> QED
  BY <1>1, ExplorerInit, ExplorerStep, WalkInit, WalkStep, PTL DEF Spec

(* Whoever pages to the end has seen every incident there was at the start, *)
(* for any limit and number of requests, although incidents come in between *)
(* and polls overlap: what was not seen lies beyond the offset, and a new   *)
(* incident only moves it back.                                             *)
THEOREM WalksMissNothing == Spec => []WalkMissesNothing
<1>1. WalkInvariant => WalkMissesNothing
  <2> SUFFICES ASSUME WalkInvariant, shown # None, ~ shown.more, NEW row \in known \ seen
               PROVE  FALSE
    BY DEF WalkMissesNothing
  <2>1. /\ IsPage(shown) /\ shown.offset = offset /\ offset \in Nat
        /\ Beyond(shown.asOf, offset + Len(shown.items))
    BY DEF WalkInvariant, WalkHolds, StoreTyped
  <2>2. row \in shown.asOf /\ Rank(shown.asOf, row) >= offset + Len(shown.items)
    BY <2>1 DEF Beyond
  <2>3. /\ Cardinality(shown.asOf) \in Nat
        /\ Rank(shown.asOf, row) \in 0 .. Cardinality(shown.asOf) - 1
    BY <2>1, <2>2, RankBounds DEF IsPage
  <2>4. Len(shown.items) \in Nat
    BY <2>1, PageKeepsContract
  <2>5. ~ (offset + Len(shown.items) < Cardinality(shown.asOf))
    BY <2>1 DEF IsPage, HasMore
  <2> QED
    BY <2>1, <2>2, <2>3, <2>4, <2>5
<1> QED
  BY <1>1, ExplorerInit, ExplorerStep, WalkInit, WalkStep, PTL DEF Spec

====
