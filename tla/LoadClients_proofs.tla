------------------------- MODULE LoadClients_proofs --------------------------
(***************************************************************************)
(* What the programs report of a request is what happened to it, and the   *)
(* counts of server and programs agree, for every number of requests,      *)
(* workload, limit and fault of the mock: ServiceInvariant is inductive.   *)
(***************************************************************************)
EXTENDS LoadClients, ListsAndSums, WellFoundedInduction

-----------------------------------------------------------------------------
(* The invariant *)

Handlers == {"none", "sent", "preparing", "waiting", "streaming", "stranded", "ended"}
Replies == [status : Nat, tokens : Nat, error : BOOLEAN, finish : BOOLEAN, closed : BOOLEAN]

ServiceTypes ==
  /\ body = [r \in Requests |-> body[r]]
  /\ handler \in [Requests -> Handlers]
  /\ state \in [Requests -> RequestStates]
  /\ produced \in [Requests -> Nat]
  /\ reply \in [Requests -> Replies]
  /\ received \in Nat
  /\ finished \in [TerminalStates -> Nat]

Judged == {"success", "timeout", "http_error", "raised", "shown_as_failed"}

ProgramTypes ==
  /\ client \in {"closed", "open", "direct", "quality", "page"}
  /\ limit \in Nat \ {0}
  /\ sequence \in 0 .. MaxRequests /\ offered \in 0 .. MaxRequests
  /\ flight \subseteq 1 .. sequence
  /\ verdict \in [Requests -> Judged \cup {"none", "client_timeout", "connection_error", "exception"}]
  /\ tracker \in [current : Nat, peak : Nat]

\* Where a handler is says where its request can be.
HandlerState(r) ==
  /\ handler[r] \in {"none", "sent"} => state[r] = "received"
  /\ handler[r] = "preparing" => state[r] = "validated"
  /\ handler[r] \in {"waiting", "streaming"} =>
       Live(r) \/ state[r] \in TerminalStates \ {"rejected"}
  /\ handler[r] = "streaming" => reply[r].status = 200 /\ body[r].stream
  /\ handler[r] = "stranded" => state[r] \in {"queued", "completed"}
  /\ handler[r] = "ended" => state[r] \in TerminalStates \cup {"received", "queued"}

\* What a closed reply says about its request.
ReplyTells(r) ==
  \/ reply[r].status = 200 /\ state[r] = "completed" /\ reply[r].tokens = produced[r]
  \/ reply[r].status = 200 /\ body[r].stream /\ reply[r].error /\ state[r] \in TerminalStates
  \/ reply[r].status \in {413, 422, 429} /\ state[r] = "rejected"
  \/ reply[r].status = 404 /\ state[r] = "received"
  \/ reply[r].status = 499 /\ state[r] = "cancelled"
  \/ reply[r].status = 504 /\ state[r] = "timed_out"
  \/ reply[r].status = 500 /\ state[r] = "failed"
  \/ reply[r].status = 503 /\ state[r] \in {"received", "rejected", "failed"}

ClosedReply(r) == reply[r].closed => handler[r] = "ended" /\ ReplyTells(r)

\* A verdict on an answer was passed on a closed reply, and follows its status.
JudgedReply(r) ==
  client # "direct" /\ verdict[r] \in Judged =>
    /\ reply[r].closed
    /\ verdict[r] = "success" <=> reply[r].status = 200
    /\ verdict[r] = "timeout" => reply[r].status = 504

\* A request at the server is waited for, or there is a verdict on it.
SentRequest(r) ==
  /\ r > sequence => handler[r] = "none"
  /\ client = "direct" =>
       handler[r] = "none" /\ verdict[r] \in {"none", "success", "exception", "connection_error"}
  /\ verdict[r] = "exception" => client = "direct"
  /\ handler[r] # "none" => r \in flight \/ verdict[r] # "none"

RequestTrue(r) == HandlerState(r) /\ ClosedReply(r) /\ JudgedReply(r) /\ SentRequest(r)

EndedAs(k) == {r \in Requests : state[r] = k}
AtServer == {r \in Requests : handler[r] \notin {"none", "sent"}}

Counted ==
  /\ \A k \in TerminalStates : finished[k] = Cardinality(EndedAs(k))
  /\ received = Cardinality(AtServer)

TrackerTrue == Tracked => tracker.current = Cardinality(flight) /\ tracker.peak <= limit

ServiceInvariant ==
  /\ ServiceTypes /\ ProgramTypes
  /\ \A r \in Requests : RequestTrue(r)
  /\ Counted /\ TrackerTrue

-----------------------------------------------------------------------------
(* Counting *)

LEMMA RequestsAreFinite ==
  /\ MaxRequests \in Nat /\ Requests \subseteq Nat \ {0}
  /\ \A S : S \subseteq Requests => IsFiniteSet(S) /\ Cardinality(S) \in Nat
<1>1. MaxRequests \in Nat /\ Requests \subseteq Nat \ {0}
  BY ServiceAssumption DEF Requests
<1>2. IsFiniteSet(Requests)
  BY <1>1, FS_Interval DEF Requests
<1>3. ASSUME NEW S, S \subseteq Requests PROVE IsFiniteSet(S) /\ Cardinality(S) \in Nat
  <2>1. IsFiniteSet(S)
    BY <1>2, <1>3, FS_Subset
  <2> QED BY <2>1, FS_CardinalityType
<1> QED BY <1>1, <1>3

\* What ends is counted where it ends.
LEMMA EndCounts ==
  ASSUME ServiceTypes, Counted, NEW rs, rs \subseteq Requests, NEW k \in TerminalStates,
         \A r \in rs : state[r] \notin TerminalStates,
         End(rs, k)
  PROVE  /\ state' \in [Requests -> RequestStates]
         /\ finished' \in [TerminalStates -> Nat]
         /\ \A r \in Requests : state'[r] = IF r \in rs THEN k ELSE state[r]
         /\ \A j \in TerminalStates : finished'[j] = Cardinality(EndedAs(j)')
<1>1. /\ \A r \in Requests : state'[r] = IF r \in rs THEN k ELSE state[r]
      /\ state' \in [Requests -> RequestStates]
  BY DEF End, ServiceTypes, TerminalStates, RequestStates
<1>2. IsFiniteSet(rs) /\ Cardinality(rs) \in Nat
  BY RequestsAreFinite
<1>3. /\ finished' \in [TerminalStates -> Nat]
      /\ \A j \in TerminalStates :
           finished'[j] = IF j = k THEN finished[j] + Cardinality(rs) ELSE finished[j]
  BY <1>2 DEF End, ServiceTypes
<1>4. ASSUME NEW j \in TerminalStates PROVE finished'[j] = Cardinality(EndedAs(j)')
  <2>1. finished[j] = Cardinality(EndedAs(j))
    BY DEF Counted
  <2>2. CASE j # k
    <3>1. EndedAs(j)' = EndedAs(j)
      BY <1>1, <2>2 DEF EndedAs
    <3> QED BY <1>3, <2>1, <2>2, <3>1
  <2>3. CASE j = k
    <3>1. EndedAs(j)' = EndedAs(j) \cup rs /\ EndedAs(j) \cap rs = {}
      BY <1>1, <2>3 DEF EndedAs
    <3>2. IsFiniteSet(EndedAs(j)) /\ Cardinality(EndedAs(j)) \in Nat
      BY RequestsAreFinite DEF EndedAs
    <3> DEFINE A == EndedAs(j)
               B == EndedAs(j)'
    <3>3. A \cap rs = {} /\ B = A \cup rs /\ IsFiniteSet(A) /\ Cardinality(A) \in Nat
      BY <3>1, <3>2
    <3> HIDE DEF A, B
    <3>4. Cardinality(A \cup rs) = Cardinality(A) + Cardinality(rs) - Cardinality({})
      BY <1>2, <3>3, FS_Union
    <3>5. Cardinality(B) = Cardinality(A) + Cardinality(rs)
      BY <1>2, <3>3, <3>4, FS_EmptySet
    <3> QED BY <1>3, <2>1, <2>3, <3>5 DEF A, B
  <2> QED BY <2>2, <2>3
<1> QED BY <1>1, <1>3, <1>4

\* Moves between states that are not terminal are not counted.
LEMMA MovesAreNotCounted ==
  ASSUME Counted, UNCHANGED finished,
         \A r \in Requests :
           state'[r] = state[r] \/ {state[r], state'[r]} \cap TerminalStates = {}
  PROVE  \A j \in TerminalStates : finished'[j] = Cardinality(EndedAs(j)')
<1>1. ASSUME NEW j \in TerminalStates PROVE EndedAs(j)' = EndedAs(j)
  BY DEF EndedAs
<1> QED BY <1>1 DEF Counted

-----------------------------------------------------------------------------
(* One request *)

\* A request that a step leaves alone.
LEMMA RequestKept ==
  ASSUME NEW r \in Requests, RequestTrue(r), ProgramTypes, sequence' \in Nat,
         handler'[r] = handler[r], state'[r] = state[r], produced'[r] = produced[r],
         reply'[r] = reply[r], body'[r] = body[r], verdict'[r] = verdict[r],
         client' = client, sequence <= sequence', r \in flight => r \in flight'
  PROVE  RequestTrue(r)'
<1>1. r > sequence' => r > sequence
  BY RequestsAreFinite DEF ProgramTypes
<1>2. HandlerState(r)'
  BY DEF RequestTrue, HandlerState, Live, Queued
<1>3. ClosedReply(r)'
  BY DEF RequestTrue, ClosedReply, ReplyTells
<1>4. JudgedReply(r)'
  BY DEF RequestTrue, JudgedReply
<1>5. SentRequest(r)'
  BY <1>1 DEF RequestTrue, SentRequest
<1> QED BY <1>2, <1>3, <1>4, <1>5 DEF RequestTrue

\* The programs see nothing of a step of the server.
LEMMA ProgramsWait ==
  ASSUME ProgramTypes, TrackerTrue, UNCHANGED clientVars
  PROVE  /\ ProgramTypes' /\ TrackerTrue'
         /\ sequence' \in Nat /\ sequence <= sequence' /\ flight' = flight /\ client' = client
         /\ \A r \in Requests : verdict'[r] = verdict[r]
BY RequestsAreFinite DEF clientVars, ProgramTypes, TrackerTrue, Tracked

\* Handlers of completed streams may be stranded, but for those of rs.
StrandsNone(rs) ==
  /\ handler' \in [Requests -> Handlers]
  /\ \A r \in Requests :
       \/ handler'[r] = handler[r]
       \/ /\ r \notin rs /\ handler[r] = "streaming" /\ state[r] = "completed"
          /\ handler'[r] = "stranded"

LEMMA NobodyStranded ==
  ASSUME ServiceInvariant, UNCHANGED handler, NEW rs
  PROVE  StrandsNone(rs)
BY DEF ServiceInvariant, ServiceTypes, StrandsNone

\* Requests that live go on or end, and their handlers have not seen it yet.
LEMMA RequestsMove ==
  ASSUME ServiceInvariant, UNCHANGED clientVars, UNCHANGED <<body, reply, received>>,
         NEW rs, \A r \in rs : r \in Requests /\ Live(r), StrandsNone(rs),
         \A r \in Requests \ rs : state'[r] = state[r] /\ produced'[r] = produced[r],
         \A r \in rs : Live(r)' \/ state'[r] \in TerminalStates \ {"rejected"},
         state' \in [Requests -> RequestStates], produced' \in [Requests -> Nat],
         finished' \in [TerminalStates -> Nat],
         \A j \in TerminalStates : finished'[j] = Cardinality(EndedAs(j)')
  PROVE  ServiceInvariant'
<1>1. /\ ServiceTypes /\ ProgramTypes /\ TrackerTrue /\ Counted
      /\ \A r \in Requests : RequestTrue(r)
  BY DEF ServiceInvariant
<1>2. /\ ProgramTypes' /\ TrackerTrue'
      /\ sequence' \in Nat /\ sequence <= sequence' /\ flight' = flight /\ client' = client
      /\ \A r \in Requests : verdict'[r] = verdict[r]
  BY <1>1, ProgramsWait
<1>3. ServiceTypes'
  BY <1>1 DEF ServiceTypes, StrandsNone
<1>4. Counted'
  <2>1. AtServer' = AtServer
    BY DEF AtServer, StrandsNone
  <2> QED BY <1>1, <2>1 DEF Counted
<1>5. ASSUME NEW r \in rs PROVE RequestTrue(r)'
  <2>1. RequestTrue(r) /\ Live(r) /\ r \in Requests
    BY <1>1
  <2>2. handler[r] \in {"waiting", "streaming"}
    BY <1>1, <2>1 DEF RequestTrue, HandlerState, Live, Queued, TerminalStates, ServiceTypes, Handlers
  <2>0. handler'[r] = handler[r]
    BY <1>5, <2>1 DEF StrandsNone
  <2>3. HandlerState(r)'
    BY <2>0, <2>1, <2>2 DEF RequestTrue, HandlerState
  <2>4. ~reply[r].closed
    BY <2>1, <2>2 DEF RequestTrue, ClosedReply
  <2>5. ClosedReply(r)'
    BY <2>4 DEF ClosedReply
  <2>6. JudgedReply(r)'
    BY <1>2, <2>1, <2>4 DEF RequestTrue, JudgedReply
  <2>7. SentRequest(r)'
    BY <1>2, <2>0, <2>1 DEF RequestTrue, SentRequest, clientVars
  <2> QED BY <2>3, <2>5, <2>6, <2>7 DEF RequestTrue
<1>6. ASSUME NEW r \in Requests, r \notin rs PROVE RequestTrue(r)'
  <2>1. RequestTrue(r)
    BY <1>1
  <2>2. /\ state'[r] = state[r] /\ produced'[r] = produced[r]
        /\ reply'[r] = reply[r] /\ body'[r] = body[r]
    BY <1>6
  <2>3. CASE handler'[r] = handler[r]
    BY <1>1, <1>2, <2>1, <2>2, <2>3, RequestKept
  <2>4. CASE handler[r] = "streaming" /\ state[r] = "completed" /\ handler'[r] = "stranded"
    <3>1. HandlerState(r)'
      BY <2>2, <2>4 DEF HandlerState
    <3>2. ~reply[r].closed
      BY <2>1, <2>4 DEF RequestTrue, ClosedReply
    <3>3. ClosedReply(r)'
      BY <2>2, <3>2 DEF ClosedReply
    <3>4. JudgedReply(r)'
      BY <1>2, <2>1, <3>2 DEF RequestTrue, JudgedReply
    <3>5. SentRequest(r)'
      BY <1>2, <2>1, <2>4 DEF RequestTrue, SentRequest, clientVars
    <3> QED BY <3>1, <3>3, <3>4, <3>5 DEF RequestTrue
  <2> QED BY <2>3, <2>4 DEF StrandsNone
<1> QED BY <1>2, <1>3, <1>4, <1>5, <1>6 DEF ServiceInvariant

-----------------------------------------------------------------------------
(* Steps of the server *)

LEMMA ServiceParts ==
  ASSUME ServiceInvariant
  PROVE  /\ ServiceTypes /\ ProgramTypes /\ TrackerTrue /\ Counted
         /\ \A r \in Requests : RequestTrue(r)
BY DEF ServiceInvariant

\* Requests that end together.
LEMMA EndStep ==
  ASSUME ServiceInvariant, UNCHANGED clientVars,
         UNCHANGED <<body, produced, reply, received>>,
         NEW rs, \A r \in rs : r \in Requests /\ Live(r), StrandsNone(rs),
         NEW k \in TerminalStates \ {"rejected"}, End(rs, k)
  PROVE  ServiceInvariant'
<1>1. ServiceTypes /\ Counted
  BY ServiceParts
<1>2. rs \subseteq Requests /\ \A r \in rs : state[r] \notin TerminalStates
  BY DEF Live, Queued, TerminalStates
<1>3. /\ state' \in [Requests -> RequestStates]
      /\ finished' \in [TerminalStates -> Nat]
      /\ \A r \in Requests : state'[r] = IF r \in rs THEN k ELSE state[r]
      /\ \A j \in TerminalStates : finished'[j] = Cardinality(EndedAs(j)')
  BY <1>1, <1>2, EndCounts
<1>4. produced' \in [Requests -> Nat] /\ \A r \in Requests : produced'[r] = produced[r]
  BY <1>1 DEF ServiceTypes
<1>5. /\ \A r \in Requests \ rs : state'[r] = state[r] /\ produced'[r] = produced[r]
      /\ \A r \in rs : Live(r)' \/ state'[r] \in TerminalStates \ {"rejected"}
  BY <1>2, <1>3, <1>4
<1> QED BY <1>3, <1>4, <1>5, RequestsMove

\* A request that goes on.
LEMMA GoesOn ==
  ASSUME ServiceInvariant, UNCHANGED clientVars,
         UNCHANGED <<body, handler, reply, received, finished>>,
         NEW r \in Requests, Live(r), NEW s \in {"prefill", "decoding"},
         state' = [state EXCEPT ![r] = s],
         produced' \in [Requests -> Nat],
         \A q \in Requests \ {r} : produced'[q] = produced[q]
  PROVE  ServiceInvariant'
<1>1. ServiceTypes /\ Counted
  BY ServiceParts
<1>2. /\ state' \in [Requests -> RequestStates]
      /\ state'[r] = s /\ \A q \in Requests \ {r} : state'[q] = state[q]
  BY <1>1 DEF ServiceTypes, RequestStates
<1>3. \A q \in Requests :
        state'[q] = state[q] \/ {state[q], state'[q]} \cap TerminalStates = {}
  BY <1>2 DEF Live, Queued, TerminalStates
<1>4. \A j \in TerminalStates : finished'[j] = Cardinality(EndedAs(j)')
  BY <1>1, <1>3, MovesAreNotCounted
<1>5. finished' \in [TerminalStates -> Nat]
  BY <1>1 DEF ServiceTypes
<1> DEFINE rs == {r}
<1>6. /\ \A q \in rs : q \in Requests /\ Live(q)
      /\ \A q \in rs : Live(q)' \/ state'[q] \in TerminalStates \ {"rejected"}
  BY <1>2 DEF Live
<1>7. \A q \in Requests \ rs : state'[q] = state[q] /\ produced'[q] = produced[q]
  BY <1>2
<1>8. StrandsNone(rs)
  BY NobodyStranded
<1> HIDE DEF rs
<1> QED BY <1>2, <1>4, <1>5, <1>6, <1>7, <1>8, RequestsMove

LEMMA BeginStep ==
  ASSUME ServiceInvariant, UNCHANGED clientVars, NEW r \in Requests, Begin(r)
  PROVE  ServiceInvariant'
<1>1. Live(r) /\ UNCHANGED <<body, handler, produced, reply, received>>
  BY DEF Begin, Live
<1>2. CASE BeginError = "none"
  <2>1. state' = [state EXCEPT ![r] = "prefill"] /\ UNCHANGED finished
    BY <1>2 DEF Begin
  <2>2. produced' \in [Requests -> Nat] /\ \A q \in Requests \ {r} : produced'[q] = produced[q]
    BY <1>1, ServiceParts DEF ServiceTypes
  <2> QED BY <1>1, <2>1, <2>2, GoesOn
<1>3. CASE BeginError # "none"
  <2>1. End({r}, "failed")
    BY <1>3 DEF Begin, Fail
  <2> QED BY <1>1, <2>1, NobodyStranded, EndStep DEF TerminalStates
<1> QED BY <1>2, <1>3

LEMMA TokenStep ==
  ASSUME ServiceInvariant, UNCHANGED clientVars, NEW r \in Requests, Token(r)
  PROVE  ServiceInvariant'
<1>1. /\ Live(r) /\ state[r] \in {"prefill", "decoding"}
      /\ UNCHANGED <<body, handler, reply, received, finished>>
  BY DEF Token, Live
<1>2. produced \in [Requests -> Nat] /\ state \in [Requests -> RequestStates]
  BY ServiceParts DEF ServiceTypes
<1>3. produced' \in [Requests -> Nat] /\ \A q \in Requests \ {r} : produced'[q] = produced[q]
  BY <1>2 DEF Token
<1>4. PICK s \in {"prefill", "decoding"} : state' = [state EXCEPT ![r] = s]
  <2>1. state' = [state EXCEPT ![r] = IF body[r].stream THEN "decoding" ELSE state[r]]
    BY DEF Token
  <2> QED BY <1>1, <2>1
<1> QED BY <1>1, <1>3, <1>4, GoesOn

LEMMA EndingStep ==
  ASSUME ServiceInvariant, UNCHANGED clientVars, NEW r \in Requests,
         Break(r) \/ Complete(r) \/ DeadlinePasses(r)
  PROVE  ServiceInvariant'
<1>1. Live(r) /\ UNCHANGED <<body, handler, produced, reply, received>>
  BY DEF Break, Complete, DeadlinePasses, Live
<1>2. \E k \in TerminalStates \ {"rejected"} : End({r}, k)
  BY DEF Break, Complete, DeadlinePasses, Fail, TerminalStates
<1> QED BY <1>1, <1>2, NobodyStranded, EndStep

LEMMA LifespanStep ==
  ASSUME ServiceInvariant, UNCHANGED clientVars, Load \/ Stop \/ Unload
  PROVE  ServiceInvariant'
<1>1. CASE Load
  <2>1. UNCHANGED <<body, handler, state, produced, reply, received, finished>>
    BY <1>1 DEF Load
  <2>2. produced' \in [Requests -> Nat] /\ state' \in [Requests -> RequestStates]
        /\ finished' \in [TerminalStates -> Nat]
    BY <2>1, ServiceParts DEF ServiceTypes
  <2>3. \A j \in TerminalStates : finished'[j] = Cardinality(EndedAs(j)')
    BY <2>1, ServiceParts DEF Counted, EndedAs
  <2> DEFINE rs == {}
  <2>4. /\ \A q \in rs : q \in Requests /\ Live(q)
        /\ \A q \in rs : Live(q)' \/ state'[q] \in TerminalStates \ {"rejected"}
    OBVIOUS
  <2>5. \A q \in Requests \ rs : state'[q] = state[q] /\ produced'[q] = produced[q]
    BY <2>1
  <2>6. StrandsNone(rs)
    BY <2>1, NobodyStranded
  <2> HIDE DEF rs
  <2> QED BY <2>1, <2>2, <2>3, <2>4, <2>5, <2>6, RequestsMove
<1>2. CASE Stop
  <2>1. /\ End(Queued, "cancelled")
        /\ UNCHANGED <<body, handler, produced, reply, received>>
    BY <1>2 DEF Stop
  <2>2. \A r \in Queued : r \in Requests /\ Live(r)
    BY DEF Queued, Live
  <2> QED BY <2>1, <2>2, NobodyStranded, EndStep DEF TerminalStates
<1>3. CASE Unload
  <2> DEFINE rs == {r \in Requests : Live(r)}
  <2>1. /\ End(rs, "cancelled")
        /\ UNCHANGED <<body, produced, reply, received>>
    BY <1>3 DEF Unload
  <2>2. \A r \in rs : r \in Requests /\ Live(r)
    OBVIOUS
  <2>3. StrandsNone(rs)
    <3>1. PICK lost \in SUBSET Ending :
            handler' = [r \in Requests |-> IF r \in lost THEN "stranded" ELSE handler[r]]
      BY <1>3 DEF Unload
    <3>2. \A r \in lost : handler[r] = "streaming" /\ state[r] = "completed" /\ ~Live(r)
      BY <3>1 DEF Ending, Live, Queued
    <3> QED BY <3>1, <3>2, ServiceParts DEF StrandsNone, ServiceTypes, Handlers
  <2> HIDE DEF rs
  <2> QED BY <2>1, <2>2, <2>3, EndStep DEF TerminalStates
<1> QED BY <1>1, <1>2, <1>3

-----------------------------------------------------------------------------
(* Steps of the handlers *)

\* A handler's step on its own request leaves the others alone.
LEMMA HandlerStep ==
  ASSUME ServiceInvariant, UNCHANGED clientVars, UNCHANGED <<body, produced>>,
         NEW r \in Requests, ServiceTypes', Counted',
         \A q \in Requests \ {r} :
           handler'[q] = handler[q] /\ state'[q] = state[q] /\ reply'[q] = reply[q],
         handler[r] # "none", ~reply[r].closed,
         HandlerState(r)', ClosedReply(r)'
  PROVE  ServiceInvariant'
<1>1. ProgramTypes /\ TrackerTrue /\ \A q \in Requests : RequestTrue(q)
  BY ServiceParts
<1>2. /\ ProgramTypes' /\ TrackerTrue'
      /\ sequence' \in Nat /\ sequence <= sequence' /\ flight' = flight /\ client' = client
      /\ \A q \in Requests : verdict'[q] = verdict[q]
  BY <1>1, ProgramsWait
<1>3. RequestTrue(r)'
  <2>1. JudgedReply(r)'
    BY <1>1, <1>2 DEF RequestTrue, JudgedReply
  <2>2. SentRequest(r)'
    BY <1>1, <1>2 DEF RequestTrue, SentRequest, clientVars
  <2> QED BY <2>1, <2>2 DEF RequestTrue
<1>4. ASSUME NEW q \in Requests, q # r PROVE RequestTrue(q)'
  <2>1. /\ handler'[q] = handler[q] /\ state'[q] = state[q] /\ produced'[q] = produced[q]
        /\ reply'[q] = reply[q] /\ body'[q] = body[q]
    BY <1>4
  <2> QED BY <1>1, <1>2, <2>1, RequestKept
<1> QED BY <1>2, <1>3, <1>4 DEF ServiceInvariant

\* Handlers that stay at the server, or away from it, do not change its count.
LEMMA ReceivedStays ==
  ASSUME Counted, UNCHANGED received,
         \A q \in Requests : handler'[q] \in {"none", "sent"} <=> handler[q] \in {"none", "sent"}
  PROVE  received' = Cardinality(AtServer')
<1>1. AtServer' = AtServer
  BY DEF AtServer
<1> QED BY <1>1 DEF Counted

LEMMA ReceiveStep ==
  ASSUME ServiceInvariant, UNCHANGED clientVars, NEW r \in Requests, Receive(r)
  PROVE  ServiceInvariant'
<1>1. /\ ServiceTypes /\ Counted /\ RequestTrue(r)
      /\ handler[r] = "sent" /\ state[r] = "received" /\ ~reply[r].closed
      /\ UNCHANGED <<body, produced, finished>> /\ received' = received + 1
  BY ServiceParts DEF Receive, RequestTrue, HandlerState, ClosedReply
<1>2. PICK h \in {"preparing", "ended"} : handler' = [handler EXCEPT ![r] = h]
  BY DEF Receive
<1>3. /\ handler' \in [Requests -> Handlers] /\ handler'[r] = h
      /\ \A q \in Requests \ {r} : handler'[q] = handler[q]
  BY <1>1, <1>2 DEF ServiceTypes, Handlers
<1>4. /\ state' \in [Requests -> RequestStates]
      /\ \A q \in Requests \ {r} : state'[q] = state[q]
      /\ state'[r] = IF h = "ended" THEN "received" ELSE "validated"
  BY <1>1, <1>2, <1>3 DEF Receive, ServiceTypes, RequestStates
<1>5. /\ reply' \in [Requests -> Replies]
      /\ \A q \in Requests \ {r} : reply'[q] = reply[q]
      /\ h = "preparing" => reply'[r] = reply[r]
      /\ h = "ended" => reply'[r].closed /\ reply'[r].status \in {404, 503}
  <2>1. CASE UNCHANGED reply /\ h = "preparing"
    BY <1>1, <2>1 DEF ServiceTypes
  <2>2. CASE h = "ended" /\ \E code \in Refusal(r) : Answered(r, code)
    <3>1. PICK code \in Refusal(r) : Answered(r, code)
      BY <2>2
    <3>2. code \in {404, 503} /\ code \in Nat
      BY <3>1 DEF Refusal
    <3> QED BY <1>1, <2>2, <3>1, <3>2 DEF Answered, ServiceTypes, Replies
  <2> QED BY <1>1, <1>2, <1>3, <2>1, <2>2 DEF Receive
<1>6. ServiceTypes'
  BY <1>1, <1>3, <1>4, <1>5 DEF ServiceTypes
<1>7. Counted'
  <2>1. \A q \in Requests :
          state'[q] = state[q] \/ {state[q], state'[q]} \cap TerminalStates = {}
    BY <1>1, <1>4 DEF TerminalStates
  <2>2. \A j \in TerminalStates : finished'[j] = Cardinality(EndedAs(j)')
    BY <1>1, <2>1, MovesAreNotCounted
  <2>3. AtServer' = AtServer \cup {r} /\ r \notin AtServer
    BY <1>1, <1>2, <1>3 DEF AtServer
  <2>4. IsFiniteSet(AtServer)
    BY RequestsAreFinite DEF AtServer
  <2>5. Cardinality(AtServer') = Cardinality(AtServer) + 1
    <3> HIDE DEF AtServer
    <3> QED BY <2>3, <2>4, FS_AddElement
  <2> QED BY <1>1, <2>2, <2>5 DEF Counted
<1>8. HandlerState(r)' /\ ClosedReply(r)'
  BY <1>1, <1>3, <1>4, <1>5 DEF HandlerState, ClosedReply, ReplyTells, TerminalStates
<1> QED BY <1>1, <1>3, <1>4, <1>5, <1>6, <1>7, <1>8, HandlerStep

\* The least member of a set of naturals.
LEMMA LeastMember ==
  ASSUME NEW S, S \subseteq Nat, S # {}
  PROVE  Min(S) \in S
<1>1. PICK n \in S : \A m \in S : ~(<<m, n>> \in OpToRel(<, Nat))
  BY NatLessThanWellFounded, WFMin
<1>2. \A m \in S : ~(m < n)
  BY <1>1 DEF OpToRel
<1>3. \A m \in S : n <= m
  BY <1>2
<1> QED BY <1>3 DEF Min

\* The code of a rejection.
LEMMA RejectionCode ==
  ASSUME NEW r \in Requests, Rejections(r) # {}
  PROVE  Reasons(r)[Min(Rejections(r))].code \in {503, 413, 422, 429}
<1>1. Rejections(r) \subseteq 1 .. 5
  BY DEF Rejections, Reasons
<1>2. Rejections(r) \subseteq Nat
  BY <1>1
<1>3. Min(Rejections(r)) \in 1 .. 5
  BY <1>1, <1>2, LeastMember
<1>4. \A i \in 1 .. 5 : Reasons(r)[i].code \in {503, 413, 422, 429}
  BY DEF Reasons
<1> QED BY <1>3, <1>4

LEMMA SubmitStep ==
  ASSUME ServiceInvariant, UNCHANGED clientVars, NEW r \in Requests, Submit(r)
  PROVE  ServiceInvariant'
<1>1. /\ ServiceTypes /\ Counted /\ RequestTrue(r)
      /\ handler[r] = "preparing" /\ state[r] = "validated" /\ ~reply[r].closed
      /\ UNCHANGED <<body, produced, received>>
  BY ServiceParts DEF Submit, RequestTrue, HandlerState, ClosedReply
<1>2. CASE Rejections(r) # {}
  <2> DEFINE code == Reasons(r)[Min(Rejections(r))].code
  <2>1. code \in {503, 413, 422, 429} /\ code \in Nat
    BY <1>2, RejectionCode
  <2>2. End({r}, "rejected") /\ Answered(r, code) /\ handler' = [handler EXCEPT ![r] = "ended"]
    BY <1>2 DEF Submit
  <2> HIDE DEF code
  <2>3. /\ handler' \in [Requests -> Handlers] /\ handler'[r] = "ended"
        /\ \A q \in Requests \ {r} : handler'[q] = handler[q]
    BY <1>1, <2>2 DEF ServiceTypes, Handlers
  <2>4. /\ reply' \in [Requests -> Replies]
        /\ reply'[r].closed /\ reply'[r].status = code
        /\ \A q \in Requests \ {r} : reply'[q] = reply[q]
    BY <1>1, <2>1, <2>2 DEF Answered, ServiceTypes, Replies
  <2>5. {r} \subseteq Requests /\ \A q \in {r} : state[q] \notin TerminalStates
    BY <1>1 DEF TerminalStates
  <2>6. /\ state' \in [Requests -> RequestStates]
        /\ finished' \in [TerminalStates -> Nat]
        /\ \A q \in Requests : state'[q] = IF q \in {r} THEN "rejected" ELSE state[q]
        /\ \A j \in TerminalStates : finished'[j] = Cardinality(EndedAs(j)')
    BY <1>1, <2>2, <2>5, EndCounts DEF TerminalStates
  <2>7. ServiceTypes'
    BY <1>1, <2>3, <2>4, <2>6 DEF ServiceTypes
  <2>8. Counted'
    <3>1. \A q \in Requests :
            handler'[q] \in {"none", "sent"} <=> handler[q] \in {"none", "sent"}
      BY <1>1, <2>3
    <3>2. received' = Cardinality(AtServer')
      BY <1>1, <3>1, ReceivedStays
    <3> QED BY <2>6, <3>2 DEF Counted
  <2>9. state'[r] = "rejected" /\ \A q \in Requests \ {r} : state'[q] = state[q]
    BY <2>6
  <2>10. HandlerState(r)' /\ ClosedReply(r)'
    BY <2>1, <2>3, <2>4, <2>9 DEF HandlerState, ClosedReply, ReplyTells, TerminalStates
  <2> QED BY <1>1, <2>3, <2>4, <2>7, <2>8, <2>9, <2>10, HandlerStep
<1>3. CASE ~(Rejections(r) # {})
  <2>1. /\ state' = [state EXCEPT ![r] = "queued"]
        /\ handler' = [handler EXCEPT ![r] = IF body[r].stream THEN "streaming" ELSE "waiting"]
        /\ reply' = [reply EXCEPT ![r].status = IF body[r].stream THEN 200 ELSE 0]
        /\ UNCHANGED finished
    BY <1>3 DEF Submit
  <2>3. /\ handler' \in [Requests -> Handlers]
        /\ handler'[r] = IF body[r].stream THEN "streaming" ELSE "waiting"
        /\ \A q \in Requests \ {r} : handler'[q] = handler[q]
    BY <1>1, <2>1 DEF ServiceTypes, Handlers
  <2>4. /\ reply' \in [Requests -> Replies]
        /\ ~reply'[r].closed
        /\ body[r].stream => reply'[r].status = 200
        /\ \A q \in Requests \ {r} : reply'[q] = reply[q]
    BY <1>1, <2>1 DEF ServiceTypes, Replies
  <2>5. /\ state' \in [Requests -> RequestStates] /\ state'[r] = "queued"
        /\ \A q \in Requests \ {r} : state'[q] = state[q]
    BY <1>1, <2>1 DEF ServiceTypes, RequestStates
  <2>6. ServiceTypes'
    BY <1>1, <2>1, <2>3, <2>4, <2>5 DEF ServiceTypes
  <2>7. Counted'
    <3>1. \A q \in Requests :
            handler'[q] \in {"none", "sent"} <=> handler[q] \in {"none", "sent"}
      BY <1>1, <2>3
    <3>2. received' = Cardinality(AtServer')
      BY <1>1, <3>1, ReceivedStays
    <3>3. \A q \in Requests :
            state'[q] = state[q] \/ {state[q], state'[q]} \cap TerminalStates = {}
      BY <1>1, <2>5 DEF TerminalStates
    <3>4. \A j \in TerminalStates : finished'[j] = Cardinality(EndedAs(j)')
      BY <1>1, <2>1, <3>3, MovesAreNotCounted
    <3> QED BY <3>2, <3>4 DEF Counted
  <2>8. HandlerState(r)'
    BY <1>1, <2>3, <2>4, <2>5 DEF HandlerState, Live, Queued
  <2>9. ClosedReply(r)'
    BY <1>1, <2>1 DEF ClosedReply, ServiceTypes, Replies
  <2> QED BY <1>1, <2>3, <2>4, <2>5, <2>6, <2>7, <2>8, <2>9, HandlerStep
<1> QED BY <1>2, <1>3

\* A handler answers, or a stream goes on.
LEMMA ReplyStep ==
  ASSUME ServiceInvariant, UNCHANGED clientVars, NEW r \in Requests,
         UNCHANGED <<body, state, produced, received, finished>>,
         handler[r] \in {"waiting", "streaming", "stranded"},
         NEW h \in {"streaming", "stranded", "ended"}, handler' = [handler EXCEPT ![r] = h],
         NEW answer \in Replies, reply' = [reply EXCEPT ![r] = answer],
         h # "ended" => h = handler[r] /\ ~answer.closed,
         h = "streaming" => answer.status = 200,
         h = "ended" => state[r] \in TerminalStates /\ ReplyTells(r)'
  PROVE  ServiceInvariant'
<1>1. ServiceTypes /\ Counted /\ RequestTrue(r)
  BY ServiceParts
<1>2. /\ handler' \in [Requests -> Handlers] /\ handler'[r] = h
      /\ \A q \in Requests \ {r} : handler'[q] = handler[q]
  BY <1>1 DEF ServiceTypes, Handlers
<1>3. /\ reply' \in [Requests -> Replies] /\ reply'[r] = answer
      /\ \A q \in Requests \ {r} : reply'[q] = reply[q]
  BY <1>1 DEF ServiceTypes
<1>4. ServiceTypes'
  BY <1>1, <1>2, <1>3 DEF ServiceTypes
<1>5. Counted'
  <2>1. \A q \in Requests :
          handler'[q] \in {"none", "sent"} <=> handler[q] \in {"none", "sent"}
    BY <1>2
  <2>2. received' = Cardinality(AtServer')
    BY <1>1, <2>1, ReceivedStays
  <2>3. \A j \in TerminalStates : finished'[j] = Cardinality(EndedAs(j)')
    BY <1>1, MovesAreNotCounted
  <2> QED BY <2>2, <2>3 DEF Counted
<1>6. HandlerState(r)'
  BY <1>1, <1>2, <1>3 DEF HandlerState, RequestTrue, Live, Queued
<1>7. ClosedReply(r)'
  BY <1>2, <1>3 DEF ClosedReply
<1>8. ~reply[r].closed /\ handler[r] # "none"
  BY <1>1 DEF RequestTrue, ClosedReply
<1> QED BY <1>2, <1>3, <1>4, <1>5, <1>6, <1>7, <1>8, HandlerStep

LEMMA AnswerStep ==
  ASSUME ServiceInvariant, UNCHANGED clientVars, NEW r \in Requests,
         Answer(r) \/ StreamToken(r) \/ StreamEnds(r)
  PROVE  ServiceInvariant'
<1>1. /\ ServiceTypes /\ RequestTrue(r)
      /\ UNCHANGED <<body, state, produced, received, finished>>
      /\ handler[r] \in {"waiting", "streaming", "stranded"} /\ ~reply[r].closed
      /\ reply[r] \in Replies /\ produced[r] \in Nat
  BY ServiceParts DEF Answer, StreamToken, StreamEnds, RequestTrue, ClosedReply, ServiceTypes
<1>2. CASE Answer(r)
  <2> DEFINE code == StatusFor(r)
             tokens == IF state[r] = "completed" THEN produced[r] ELSE 0
             answer == [reply[r] EXCEPT !.status = code, !.closed = TRUE, !.tokens = tokens]
  <2>1. /\ handler[r] = "waiting" /\ state[r] \in TerminalStates
        /\ handler' = [handler EXCEPT ![r] = "ended"]
        /\ reply' = [reply EXCEPT ![r].status = code, ![r].closed = TRUE, ![r].tokens = tokens]
    BY <1>2 DEF Answer
  <2>2. state[r] \in {"completed", "timed_out", "cancelled", "failed"}
    BY <1>1, <2>1 DEF RequestTrue, HandlerState, Live, Queued, TerminalStates
  <2>3. /\ state[r] = "completed" => code = 200
        /\ state[r] = "timed_out" => code = 504
        /\ state[r] = "cancelled" => code = 499
        /\ state[r] = "failed" => code \in {500, 503}
    <3>1. StatusForCategory(cause[r]) \in {500, 503}
      BY DEF StatusForCategory
    <3> QED BY <3>1 DEF StatusFor
  <2>4. code \in Nat /\ tokens \in Nat /\ (state[r] = "completed" => tokens = produced[r])
    BY <1>1, <2>2, <2>3
  <2> HIDE DEF code, tokens
  <2>5. /\ answer \in Replies /\ answer.status = code /\ answer.tokens = tokens
        /\ reply' = [reply EXCEPT ![r] = answer]
    BY <1>1, <2>1, <2>4 DEF Replies
  <2> HIDE DEF answer
  <2>6. reply'[r] = answer
    BY <1>1, <2>5 DEF ServiceTypes
  <2>7. ReplyTells(r)'
    BY <1>1, <2>2, <2>3, <2>4, <2>5, <2>6 DEF ReplyTells
  <2> QED BY <1>1, <2>1, <2>5, <2>7, ReplyStep
<1>3. CASE StreamToken(r)
  <2> DEFINE answer == [reply[r] EXCEPT !.tokens = @ + 1]
             h == handler[r]
  <2>1. /\ h \in {"streaming", "stranded"} /\ handler' = [handler EXCEPT ![r] = h]
        /\ reply' = [reply EXCEPT ![r] = answer]
    BY <1>1, <1>3 DEF StreamToken, ServiceTypes
  <2>2. h = "streaming" => reply[r].status = 200
    BY <1>1 DEF RequestTrue, HandlerState
  <2>3. answer \in Replies /\ ~answer.closed /\ (h = "streaming" => answer.status = 200)
    BY <1>1, <2>2 DEF Replies
  <2>4. h = handler[r]
    OBVIOUS
  <2> HIDE DEF answer, h
  <2> QED BY <1>1, <2>1, <2>3, <2>4, ReplyStep
<1>4. CASE StreamEnds(r)
  <2>1. /\ handler[r] = "streaming" /\ handler' = [handler EXCEPT ![r] = "ended"]
        /\ reply[r].status = 200 /\ body[r].stream
    BY <1>1, <1>4 DEF StreamEnds, RequestTrue, HandlerState
  <2>2. CASE /\ state[r] = "completed" /\ Drained(r)
             /\ reply' = [reply EXCEPT ![r].finish = TRUE, ![r].closed = TRUE]
    <3> DEFINE answer == [reply[r] EXCEPT !.finish = TRUE, !.closed = TRUE]
    <3>0. reply' = [reply EXCEPT ![r] = answer]
      BY <2>2
    <3>1. answer \in Replies /\ answer.status = 200 /\ answer.tokens = produced[r]
      BY <1>1, <2>1, <2>2 DEF Replies, Drained
    <3> HIDE DEF answer
    <3>2. reply'[r] = answer
      BY <1>1, <3>0 DEF ServiceTypes
    <3>3. state[r] \in TerminalStates /\ ReplyTells(r)'
      BY <1>1, <2>2, <3>1, <3>2 DEF ReplyTells, TerminalStates
    <3> QED BY <1>1, <2>1, <3>0, <3>1, <3>3, ReplyStep
  <2>3. CASE /\ state[r] \in TerminalStates \ {"completed"}
             /\ reply' = [reply EXCEPT ![r].error = TRUE, ![r].closed = TRUE]
    <3> DEFINE answer == [reply[r] EXCEPT !.error = TRUE, !.closed = TRUE]
    <3>0. reply' = [reply EXCEPT ![r] = answer]
      BY <2>3
    <3>1. answer \in Replies /\ answer.status = 200 /\ answer.error
      BY <1>1, <2>1 DEF Replies
    <3> HIDE DEF answer
    <3>2. reply'[r] = answer
      BY <1>1, <3>0 DEF ServiceTypes
    <3>3. state[r] \in TerminalStates /\ ReplyTells(r)'
      BY <1>1, <2>1, <2>3, <3>1, <3>2 DEF ReplyTells
    <3> QED BY <1>1, <2>1, <3>0, <3>1, <3>3, ReplyStep
  <2> QED BY <1>4, <2>2, <2>3 DEF StreamEnds
<1> QED BY <1>2, <1>3, <1>4

LEMMA DisconnectStep ==
  ASSUME ServiceInvariant, UNCHANGED clientVars, NEW r \in Requests, Disconnected(r)
  PROVE  ServiceInvariant'
<1>1. /\ ServiceTypes /\ Counted /\ RequestTrue(r)
      /\ handler[r] \in {"streaming", "stranded"} /\ ~reply[r].closed
      /\ UNCHANGED <<body, produced, reply, received>>
  BY ServiceParts DEF Disconnected, RequestTrue, ClosedReply
<1>2. /\ handler' \in [Requests -> Handlers] /\ handler'[r] = "ended"
      /\ \A q \in Requests \ {r} : handler'[q] = handler[q]
  BY <1>1 DEF Disconnected, ServiceTypes, Handlers
<1>3. /\ state' \in [Requests -> RequestStates] /\ finished' \in [TerminalStates -> Nat]
      /\ state'[r] \in TerminalStates \cup {"queued"}
      /\ \A q \in Requests \ {r} : state'[q] = state[q]
      /\ \A j \in TerminalStates : finished'[j] = Cardinality(EndedAs(j)')
  <2>1. CASE Live(r) /\ End({r}, "cancelled")
    <3>1. End({r}, "cancelled")
      BY <2>1
    <3> DEFINE rs == {r}
    <3>2. /\ rs \subseteq Requests /\ r \in rs /\ \A q \in rs : state[q] \notin TerminalStates
          /\ \A q \in Requests \ {r} : q \notin rs
      BY <2>1 DEF Live, Queued, TerminalStates
    <3>3. "cancelled" \in TerminalStates
      BY DEF TerminalStates
    <3> HIDE DEF rs
    <3>4. /\ state' \in [Requests -> RequestStates]
          /\ finished' \in [TerminalStates -> Nat]
          /\ \A q \in Requests : state'[q] = IF q \in rs THEN "cancelled" ELSE state[q]
          /\ \A j \in TerminalStates : finished'[j] = Cardinality(EndedAs(j)')
      BY <1>1, <3>1, <3>2, <3>3, EndCounts DEF rs
    <3> QED BY <3>2, <3>3, <3>4
  <2>2. CASE (Live(r) => r \in Queued) /\ UNCHANGED <<state, finished>>
    <3>1. UNCHANGED <<state, finished>>
      BY <2>2
    <3>2. state[r] \in TerminalStates \cup {"queued"}
      BY <1>1, <2>2 DEF RequestTrue, HandlerState, Queued, TerminalStates
    <3>3. \A j \in TerminalStates : finished'[j] = Cardinality(EndedAs(j)')
      BY <1>1, <3>1, MovesAreNotCounted
    <3> QED BY <1>1, <3>1, <3>2, <3>3 DEF ServiceTypes
  <2> QED BY <2>1, <2>2 DEF Disconnected
<1>4. ServiceTypes'
  BY <1>1, <1>2, <1>3 DEF ServiceTypes
<1>5. Counted'
  <2>1. \A q \in Requests :
          handler'[q] \in {"none", "sent"} <=> handler[q] \in {"none", "sent"}
    BY <1>1, <1>2
  <2>2. received' = Cardinality(AtServer')
    BY <1>1, <2>1, ReceivedStays
  <2> QED BY <1>3, <2>2 DEF Counted
<1>6. HandlerState(r)' /\ ClosedReply(r)'
  BY <1>1, <1>2, <1>3 DEF HandlerState, ClosedReply
<1>7. \A q \in Requests \ {r} :
        handler'[q] = handler[q] /\ state'[q] = state[q] /\ reply'[q] = reply[q]
  BY <1>1, <1>2, <1>3
<1> QED BY <1>1, <1>4, <1>5, <1>6, <1>7, HandlerStep

\* A request whose task is cancelled before its first step.
LEMMA LostStartStep ==
  ASSUME ServiceInvariant, UNCHANGED clientVars, NEW r \in Requests, LostStart(r)
  PROVE  ServiceInvariant'
<1>1. /\ ServiceTypes /\ Counted /\ RequestTrue(r)
      /\ state[r] = "queued" /\ handler[r] \in {"waiting", "streaming"} /\ ~reply[r].closed
      /\ UNCHANGED <<body, state, produced, reply, received, finished>>
  BY ServiceParts DEF LostStart, Queued, RequestTrue, ClosedReply
<1>2. /\ handler' \in [Requests -> Handlers] /\ handler'[r] = "stranded"
      /\ \A q \in Requests \ {r} : handler'[q] = handler[q]
  BY <1>1 DEF LostStart, ServiceTypes, Handlers
<1>3. ServiceTypes'
  BY <1>1, <1>2 DEF ServiceTypes
<1>4. Counted'
  <2>1. \A q \in Requests :
          handler'[q] \in {"none", "sent"} <=> handler[q] \in {"none", "sent"}
    BY <1>1, <1>2
  <2>2. received' = Cardinality(AtServer')
    BY <1>1, <2>1, ReceivedStays
  <2>3. \A j \in TerminalStates : finished'[j] = Cardinality(EndedAs(j)')
    BY <1>1, MovesAreNotCounted
  <2> QED BY <2>2, <2>3 DEF Counted
<1>5. HandlerState(r)' /\ ClosedReply(r)'
  BY <1>1, <1>2 DEF HandlerState, ClosedReply
<1> QED BY <1>1, <1>2, <1>3, <1>4, <1>5, HandlerStep

-----------------------------------------------------------------------------
(* Steps of the programs *)

LEMMA FlightIsFinite ==
  ASSUME ProgramTypes
  PROVE  /\ flight \subseteq Requests /\ IsFiniteSet(flight) /\ Cardinality(flight) \in Nat
         /\ sequence \in Nat /\ MaxRequests \in Nat
<1>1. MaxRequests \in Nat /\ sequence \in Nat /\ sequence <= MaxRequests
  BY RequestsAreFinite DEF ProgramTypes
<1>2. 1 .. sequence \subseteq 1 .. MaxRequests
  BY <1>1
<1>3. flight \subseteq Requests
  BY <1>2 DEF ProgramTypes, Requests
<1> QED BY <1>1, <1>3, RequestsAreFinite

LEMMA AskStep ==
  ASSUME ServiceInvariant, Ask
  PROVE  ServiceInvariant'
<1>0. PICK r, h : r = sequence + 1 /\ h = IF client = "direct" THEN "none" ELSE "sent"
  OBVIOUS
<1>1. /\ ServiceTypes /\ ProgramTypes /\ TrackerTrue /\ Counted
      /\ \A q \in Requests : RequestTrue(q)
      /\ sequence' = r /\ flight' = flight \cup {r}
      /\ handler' = [handler EXCEPT ![r] = h]
      /\ tracker' = IF Tracked THEN Entered ELSE tracker
      /\ MayAsk /\ HasRoom
      /\ UNCHANGED <<state, produced, reply, received, finished>>
      /\ UNCHANGED <<client, limit, offered, verdict>>
  BY <1>0, ServiceParts DEF Ask
<1>2. r \in Requests /\ r \in 1 .. MaxRequests /\ r \notin flight /\ r > sequence
  BY <1>0, <1>1, RequestsAreFinite DEF MayAsk, ProgramTypes, Requests
<1>3. \E b : body' = [body EXCEPT ![r] = b]
  BY <1>0 DEF Ask
<1>4. h \in {"none", "sent"} /\ (client = "direct" => h = "none")
  BY <1>0
<1>5. handler[r] = "none" /\ RequestTrue(r)
  BY <1>1, <1>2 DEF RequestTrue, SentRequest
<1>6. sequence \in Nat /\ sequence' \in Nat /\ sequence <= sequence'
  BY <1>0, <1>1, FlightIsFinite
<1>7. /\ handler' \in [Requests -> Handlers] /\ handler'[r] = h
      /\ \A q \in Requests \ {r} : handler'[q] = handler[q]
  BY <1>1, <1>2, <1>4 DEF ServiceTypes, Handlers
<1>8. /\ body' = [q \in Requests |-> body'[q]]
      /\ \A q \in Requests \ {r} : body'[q] = body[q]
  BY <1>1, <1>3 DEF ServiceTypes
<1>9. ServiceTypes'
  BY <1>1, <1>7, <1>8 DEF ServiceTypes
<1>10. TrackerTrue' /\ tracker' \in [current : Nat, peak : Nat]
  <2>1. /\ IsFiniteSet(flight) /\ Cardinality(flight) \in Nat
        /\ tracker \in [current : Nat, peak : Nat] /\ limit \in Nat
    BY <1>1, FlightIsFinite DEF ProgramTypes
  <2>2. Cardinality(flight \cup {r}) = Cardinality(flight) + 1
    BY <1>2, <2>1, FS_AddElement
  <2>3. CASE Tracked
    <3> DEFINE n == tracker.current + 1
               top == Max({tracker.peak, n})
    <3>1. tracker' = [current |-> n, peak |-> top]
      BY <1>1, <2>3 DEF Entered
    <3>2. n = Cardinality(flight) + 1 /\ tracker.peak <= limit
      BY <1>1, <2>3 DEF TrackerTrue
    <3>3. n \in Nat /\ tracker.peak \in Nat /\ n <= limit
      BY <1>1, <2>1, <3>2 DEF HasRoom
    <3>4. top = IF tracker.peak <= n THEN n ELSE tracker.peak
      BY <3>3, MaxOfTwo
    <3>5. top \in Nat /\ top <= limit
      BY <3>2, <3>3, <3>4
    <3> HIDE DEF n, top
    <3> QED BY <1>1, <2>2, <3>1, <3>2, <3>3, <3>5 DEF TrackerTrue
  <2>4. CASE ~Tracked
    BY <1>1, <2>1, <2>4 DEF TrackerTrue, Tracked
  <2> QED BY <2>3, <2>4
<1>11. ProgramTypes'
  <2>1. flight' \subseteq 1 .. sequence' /\ sequence' \in 0 .. MaxRequests
    BY <1>1, <1>2, <1>6 DEF ProgramTypes
  <2> QED BY <1>1, <1>10, <2>1 DEF ProgramTypes
<1>12. Counted'
  <2>1. \A q \in Requests :
          handler'[q] \in {"none", "sent"} <=> handler[q] \in {"none", "sent"}
    BY <1>4, <1>5, <1>7
  <2>2. received' = Cardinality(AtServer')
    BY <1>1, <2>1, ReceivedStays
  <2>3. \A j \in TerminalStates : finished'[j] = Cardinality(EndedAs(j)')
    BY <1>1, MovesAreNotCounted
  <2> QED BY <2>2, <2>3 DEF Counted
<1>13. /\ \A q \in Requests :
            /\ state'[q] = state[q] /\ produced'[q] = produced[q] /\ reply'[q] = reply[q]
            /\ verdict'[q] = verdict[q]
            /\ q \in flight => q \in flight'
       /\ client' = client /\ r \in flight' /\ ~(r > sequence')
  BY <1>1, <1>6
<1>14. RequestTrue(r)'
  <2>1. ~reply[r].closed /\ state[r] = "received"
    BY <1>5 DEF RequestTrue, HandlerState, ClosedReply
  <2>2. ~reply'[r].closed /\ state'[r] = "received"
    BY <1>2, <1>13, <2>1
  <2>3. HandlerState(r)' /\ ClosedReply(r)'
    BY <1>4, <1>7, <2>2 DEF HandlerState, ClosedReply
  <2>4. JudgedReply(r)'
    BY <1>2, <1>5, <1>13, <2>1 DEF RequestTrue, JudgedReply
  <2>5. SentRequest(r)'
    BY <1>2, <1>4, <1>5, <1>7, <1>13 DEF RequestTrue, SentRequest
  <2> QED BY <2>3, <2>4, <2>5 DEF RequestTrue
<1>15. ASSUME NEW q \in Requests, q # r PROVE RequestTrue(q)'
  <2>1. RequestTrue(q) /\ ProgramTypes
    BY <1>1
  <2>2. handler'[q] = handler[q] /\ body'[q] = body[q]
    BY <1>7, <1>8, <1>15
  <2> QED BY <1>6, <1>13, <2>1, <2>2, RequestKept
<1> QED BY <1>9, <1>10, <1>11, <1>12, <1>14, <1>15 DEF ServiceInvariant

LEMMA ProgramIdles ==
  ASSUME ServiceInvariant, Offer \/ DurationPasses
  PROVE  ServiceInvariant'
<1>1. /\ ServiceTypes /\ ProgramTypes /\ TrackerTrue /\ Counted
      /\ \A q \in Requests : RequestTrue(q)
  BY ServiceParts
<1>2. /\ UNCHANGED serverVars
      /\ UNCHANGED <<client, limit, sequence, flight, verdict, tracker>>
      /\ (offered' = offered) \/ (offered < MaxRequests /\ offered' = offered + 1)
  BY DEF Offer, DurationPasses
<1>3. /\ UNCHANGED <<body, handler, state, produced, reply, received, finished>>
  BY <1>2 DEF serverVars
<1>4. ServiceTypes'
  BY <1>1, <1>3 DEF ServiceTypes
<1>5. ProgramTypes' /\ sequence' \in Nat /\ sequence <= sequence'
  BY <1>1, <1>2, RequestsAreFinite DEF ProgramTypes
<1>6. Counted' /\ TrackerTrue'
  BY <1>1, <1>2, <1>3 DEF Counted, EndedAs, AtServer, TrackerTrue, Tracked
<1>7. ASSUME NEW q \in Requests PROVE RequestTrue(q)'
  BY <1>1, <1>2, <1>3, <1>5, RequestKept
<1> QED BY <1>4, <1>5, <1>6, <1>7 DEF ServiceInvariant

\* A program takes an answer, or gives up.
LEMMA LeaveStep ==
  ASSUME ServiceInvariant, NEW r \in flight, NEW v, Leave(r, v),
         v \in Judged \cup {"client_timeout", "connection_error", "exception"},
         client = "direct" => v \in {"success", "exception", "connection_error"},
         v = "exception" => client = "direct",
         client # "direct" /\ v \in Judged =>
           /\ reply[r].closed
           /\ v = "success" <=> reply[r].status = 200
           /\ v = "timeout" => reply[r].status = 504
  PROVE  ServiceInvariant'
<1>1. /\ ServiceTypes /\ ProgramTypes /\ TrackerTrue /\ Counted
      /\ \A q \in Requests : RequestTrue(q)
  BY ServiceParts
<1>2. /\ UNCHANGED <<body, handler, state, produced, reply, received, finished>>
      /\ UNCHANGED <<client, limit, sequence, offered>>
      /\ flight' = flight \ {r} /\ verdict' = [verdict EXCEPT ![r] = v]
      /\ tracker' = IF Tracked THEN Exited(v) ELSE tracker
  BY DEF Leave, serverVars
<1>3. /\ r \in Requests /\ IsFiniteSet(flight) /\ Cardinality(flight) \in Nat
      /\ sequence' \in Nat /\ sequence <= sequence'
  BY <1>1, <1>2, FlightIsFinite
<1>4. /\ verdict' \in [Requests -> Judged \cup {"none", "client_timeout", "connection_error", "exception"}]
      /\ verdict'[r] = v /\ \A q \in Requests \ {r} : verdict'[q] = verdict[q]
  BY <1>1, <1>2, <1>3 DEF ProgramTypes
<1>5. ServiceTypes' /\ Counted'
  BY <1>1, <1>2 DEF ServiceTypes, Counted, EndedAs, AtServer
<1>6. TrackerTrue' /\ tracker' \in [current : Nat, peak : Nat]
  <2>1. Cardinality(flight \ {r}) = Cardinality(flight) - 1 /\ Cardinality(flight \ {r}) \in Nat
    <3>1. IsFiniteSet(flight \ {r}) /\ Cardinality(flight \ {r}) = Cardinality(flight) - 1
      BY <1>3, FS_RemoveElement
    <3> QED BY <3>1, FS_CardinalityType
  <2>2. tracker \in [current : Nat, peak : Nat]
    BY <1>1 DEF ProgramTypes
  <2>3. CASE Tracked
    <3>1. tracker' = [tracker EXCEPT !.current = tracker.current - 1]
      BY <1>2, <2>3 DEF Exited
    <3>2. tracker.current = Cardinality(flight) /\ tracker.peak <= limit
      BY <1>1, <2>3 DEF TrackerTrue
    <3> DEFINE n == tracker.current - 1
    <3>3. n = Cardinality(flight \ {r}) /\ n \in Nat
      BY <2>1, <3>2
    <3> HIDE DEF n
    <3>4. /\ tracker' \in [current : Nat, peak : Nat]
          /\ tracker'.current = n /\ tracker'.peak = tracker.peak
      BY <2>2, <3>1, <3>3 DEF n
    <3> QED BY <1>2, <3>2, <3>3, <3>4 DEF TrackerTrue
  <2>4. CASE ~Tracked
    BY <1>2, <2>2, <2>4 DEF TrackerTrue, Tracked
  <2> QED BY <2>3, <2>4
<1>7. ProgramTypes'
  BY <1>1, <1>2, <1>4, <1>6 DEF ProgramTypes
<1>8. RequestTrue(r)'
  <2>1. RequestTrue(r)
    BY <1>1, <1>3
  <2>2. HandlerState(r)' /\ ClosedReply(r)'
    BY <1>2, <2>1 DEF RequestTrue, HandlerState, Live, Queued, ClosedReply, ReplyTells
  <2>3. JudgedReply(r)'
    BY <1>2, <1>4 DEF JudgedReply
  <2>4. SentRequest(r)'
    BY <1>2, <1>4, <2>1 DEF RequestTrue, SentRequest, Judged
  <2> QED BY <2>2, <2>3, <2>4 DEF RequestTrue
<1>9. ASSUME NEW q \in Requests, q # r PROVE RequestTrue(q)'
  <2>1. RequestTrue(q) /\ ProgramTypes
    BY <1>1
  <2>2. /\ handler'[q] = handler[q] /\ state'[q] = state[q] /\ produced'[q] = produced[q]
        /\ reply'[q] = reply[q] /\ body'[q] = body[q] /\ verdict'[q] = verdict[q]
        /\ client' = client
    BY <1>2, <1>4, <1>9
  <2>3. q \in flight => q \in flight'
    BY <1>2, <1>9
  <2> QED BY <1>3, <2>1, <2>2, <2>3, RequestKept
<1> QED BY <1>5, <1>6, <1>7, <1>8, <1>9 DEF ServiceInvariant

\* Each program judges an answer by its status.
LEMMA JudgeStep ==
  ASSUME ServiceInvariant, NEW r \in Requests, Judge(r)
  PROVE  ServiceInvariant'
<1> DEFINE v == Judgement(r)
<1>1. /\ RequestTrue(r) /\ client \in {"closed", "open", "direct", "quality", "page"}
  BY ServiceParts DEF ProgramTypes
<1>2. r \in flight /\ reply[r].closed /\ Leave(r, v)
  BY DEF Judge
<1>3. client # "direct"
  BY <1>1, <1>2 DEF RequestTrue, SentRequest, ClosedReply
<1>4. reply[r].status \in {200, 413, 422, 429, 404, 499, 504, 500, 503}
  BY <1>1, <1>2 DEF RequestTrue, ClosedReply, ReplyTells
<1>5. CASE client = "quality"
  <2>1. v = QualityResult(r)
    BY <1>5 DEF Judgement
  <2>2. v = IF reply[r].status = 200 THEN "success" ELSE "raised"
    BY <1>4, <2>1 DEF QualityResult
  <2> HIDE DEF v
  <2> QED BY <1>2, <1>3, <2>2, LeaveStep DEF Judged
<1>6. CASE client = "page"
  <2>1. v = PageStage(r)
    BY <1>6 DEF Judgement
  <2>2. v = IF reply[r].status = 200 THEN "success" ELSE "shown_as_failed"
    BY <2>1 DEF PageStage
  <2> HIDE DEF v
  <2> QED BY <1>2, <1>3, <2>2, LeaveStep DEF Judged
<1>7. CASE client \notin {"quality", "page"}
  <2>1. v = Sample(r)
    BY <1>7 DEF Judgement
  <2>2. v = IF reply[r].status = 200 THEN "success"
            ELSE IF reply[r].status = 504 THEN "timeout" ELSE "http_error"
    BY <2>1 DEF Sample
  <2> HIDE DEF v
  <2> QED BY <1>2, <1>3, <2>2, LeaveStep DEF Judged
<1> QED BY <1>5, <1>6, <1>7

LEMMA GiveUpStep ==
  ASSUME ServiceInvariant, NEW r \in Requests,
         ClientTimeout(r) \/ ConnectionLost(r) \/ DirectReturns(r)
  PROVE  ServiceInvariant'
<1>1. CASE ClientTimeout(r)
  <2>1. r \in flight /\ client # "direct" /\ Leave(r, "client_timeout")
    BY <1>1 DEF ClientTimeout
  <2> QED BY <2>1, LeaveStep DEF Judged
<1>2. CASE ConnectionLost(r)
  <2>1. r \in flight /\ Leave(r, "connection_error")
    BY <1>2 DEF ConnectionLost
  <2> QED BY <2>1, LeaveStep DEF Judged
<1>3. CASE DirectReturns(r)
  <2>1. PICK v \in {"success", "exception"} : r \in flight /\ client = "direct" /\ Leave(r, v)
    BY <1>3 DEF DirectReturns
  <2> QED BY <2>1, LeaveStep DEF Judged
<1> QED BY <1>1, <1>2, <1>3

-----------------------------------------------------------------------------
(* The invariant holds *)

LEMMA ServiceInit ==
  ASSUME Init
  PROVE  ServiceInvariant
<1>1. /\ body = [r \in Requests |-> NoBody]
      /\ handler = [r \in Requests |-> "none"]
      /\ state = [r \in Requests |-> "received"]
      /\ produced = [r \in Requests |-> 0]
      /\ reply = [r \in Requests |-> NoReply]
      /\ received = 0 /\ finished = [k \in TerminalStates |-> 0]
  BY DEF Init, ServerInit
<1>2. /\ client \in {"closed", "open", "direct", "quality", "page"}
      /\ limit \in (IF Tracked THEN Limits ELSE {1})
      /\ sequence = 0 /\ offered = 0 /\ flight = {}
      /\ verdict = [r \in Requests |-> "none"]
      /\ tracker = [current |-> 0, peak |-> 0]
  BY DEF Init, ClientInit
<1>3. ServiceTypes
  BY <1>1 DEF ServiceTypes, Handlers, RequestStates, Replies, NoReply
<1>4. limit \in Nat \ {0}
  <2>1. Limits \subseteq Nat \ {0}
    BY ClientAssumption
  <2> QED BY <1>2, <2>1
<1>5. ProgramTypes
  BY <1>2, <1>4, RequestsAreFinite DEF ProgramTypes
<1>6. Cardinality({}) = 0
  BY FS_EmptySet
<1>7. Counted
  <2>1. AtServer = {} /\ \A k \in TerminalStates : EndedAs(k) = {}
    BY <1>1 DEF AtServer, EndedAs, TerminalStates
  <2> QED BY <1>1, <1>6, <2>1 DEF Counted
<1>8. TrackerTrue
  BY <1>2, <1>4, <1>6 DEF TrackerTrue
<1>9. ASSUME NEW r \in Requests PROVE RequestTrue(r)
  <2>1. /\ handler[r] = "none" /\ state[r] = "received" /\ verdict[r] = "none"
        /\ ~reply[r].closed
    BY <1>1, <1>2 DEF NoReply
  <2> QED BY <2>1 DEF RequestTrue, HandlerState, ClosedReply, JudgedReply, SentRequest, Judged
<1> QED BY <1>3, <1>5, <1>7, <1>8, <1>9 DEF ServiceInvariant

LEMMA ServiceStep ==
  ASSUME ServiceInvariant, [Next]_vars
  PROVE  ServiceInvariant'
<1>1. CASE ServerNext
  <2>1. UNCHANGED clientVars
    BY <1>1 DEF ServerNext
  <2>2. CASE Load \/ Stop \/ Unload
    BY <2>1, <2>2, LifespanStep
  <2>3. ASSUME NEW r \in Requests, ServerStep(r) \/ Disconnected(r) PROVE ServiceInvariant'
    BY <2>1, <2>3, ReceiveStep, SubmitStep, AnswerStep, BeginStep, TokenStep, EndingStep,
       LostStartStep, DisconnectStep DEF ServerStep
  <2> QED BY <1>1, <2>2, <2>3 DEF ServerNext
<1>2. CASE Ask
  BY <1>2, AskStep
<1>3. CASE Offer \/ DurationPasses
  BY <1>3, ProgramIdles
<1>4. ASSUME NEW r \in Requests,
             Judge(r) \/ ClientTimeout(r) \/ ConnectionLost(r) \/ DirectReturns(r)
      PROVE  ServiceInvariant'
  BY <1>4, JudgeStep, GiveUpStep
<1>5. CASE UNCHANGED vars
  <2>1. UNCHANGED <<serverVars, clientVars>>
    BY <1>5 DEF vars
  <2> QED BY <2>1 DEF serverVars, clientVars, ServiceInvariant, ServiceTypes, ProgramTypes,
         Counted, EndedAs, AtServer, TrackerTrue, Tracked, RequestTrue, HandlerState, Live, Queued,
         ClosedReply, ReplyTells, JudgedReply, SentRequest
<1> QED BY <1>1, <1>2, <1>3, <1>4, <1>5 DEF Next

LEMMA ServiceHolds == Spec => []ServiceInvariant
<1>1. Init => ServiceInvariant
  BY ServiceInit
<1>2. ServiceInvariant /\ [Next]_vars => ServiceInvariant'
  BY ServiceStep
<1> QED BY <1>1, <1>2, PTL DEF Spec

-----------------------------------------------------------------------------
(* The theorems *)

LEMMA TruthFollows ==
  ASSUME ServiceInvariant
  PROVE  SamplesTruthful
<1> SUFFICES ASSUME NEW r \in Requests
             PROVE  /\ verdict[r] = "success" /\ client # "direct" =>
                         \/ state[r] = "completed" /\ reply[r].tokens = produced[r]
                         \/ body[r].stream /\ reply[r].error /\ state[r] \in TerminalStates
                    /\ verdict[r] = "timeout" => state[r] = "timed_out"
                    /\ verdict[r] \in {"http_error", "raised", "shown_as_failed"} =>
                         CASE reply[r].status \in {413, 422, 429} -> state[r] = "rejected"
                           [] reply[r].status = 404 -> state[r] = "received"
                           [] reply[r].status = 499 -> state[r] = "cancelled"
                           [] reply[r].status = 504 -> state[r] = "timed_out"
                           [] reply[r].status = 500 -> state[r] = "failed"
                           [] reply[r].status = 503 -> state[r] \in {"received", "rejected", "failed"}
  BY DEF SamplesTruthful
<1>1. RequestTrue(r)
  BY ServiceParts
<1>2. CASE verdict[r] \notin Judged
  BY <1>2 DEF Judged
<1>3. CASE verdict[r] \in Judged /\ client = "direct"
  BY <1>1, <1>3 DEF RequestTrue, SentRequest, Judged
<1>4. CASE verdict[r] \in Judged /\ client # "direct"
  <2>1. /\ ReplyTells(r)
        /\ verdict[r] = "success" <=> reply[r].status = 200
        /\ verdict[r] = "timeout" => reply[r].status = 504
    BY <1>1, <1>4 DEF RequestTrue, JudgedReply, ClosedReply
  <2>2. CASE verdict[r] = "success"
    BY <2>1, <2>2 DEF ReplyTells
  <2>3. CASE verdict[r] = "timeout"
    BY <2>1, <2>3 DEF ReplyTells
  <2>4. CASE verdict[r] \in {"http_error", "raised", "shown_as_failed"}
    <3>1. reply[r].status # 200
      BY <2>1, <2>4
    <3> DEFINE s == reply[r].status
    <3>2. \/ s \in {413, 422, 429} /\ state[r] = "rejected"
          \/ s = 404 /\ state[r] = "received"
          \/ s = 499 /\ state[r] = "cancelled"
          \/ s = 504 /\ state[r] = "timed_out"
          \/ s = 500 /\ state[r] = "failed"
          \/ s = 503 /\ state[r] \in {"received", "rejected", "failed"}
      BY <2>1, <3>1 DEF ReplyTells
    <3> HIDE DEF s
    <3> DEFINE told == CASE s \in {413, 422, 429} -> state[r] = "rejected"
                   [] s = 404 -> state[r] = "received"
                   [] s = 499 -> state[r] = "cancelled"
                   [] s = 504 -> state[r] = "timed_out"
                   [] s = 500 -> state[r] = "failed"
                   [] s = 503 -> state[r] \in {"received", "rejected", "failed"}
    <3>3. told
      <4>1. CASE s \in {413, 422, 429}
        <5>1. state[r] = "rejected"
          BY <3>2, <4>1
        <5>2. s # 404 /\ s # 499 /\ s # 504 /\ s # 500 /\ s # 503
          BY <4>1
        <5> QED BY <4>1, <5>1, <5>2, ZenonT(30)
      <4>2. CASE s = 404
        BY <3>2, <4>2
      <4>3. CASE s = 499
        BY <3>2, <4>3
      <4>4. CASE s = 504
        BY <3>2, <4>4
      <4>5. CASE s = 500
        BY <3>2, <4>5
      <4>6. CASE s = 503
        BY <3>2, <4>6
      <4> HIDE DEF told
      <4> QED BY <3>2, <4>1, <4>2, <4>3, <4>4, <4>5, <4>6
    <3> QED BY <2>4, <3>3 DEF s
  <2> QED BY <1>4, <2>2, <2>3, <2>4 DEF Judged
<1> QED BY <1>2, <1>3, <1>4

\* A program reports of a request what happened to it, although its answer, its
\* timeout, the deadline and shutdown race.
THEOREM SamplesAreTruthful == Spec => []SamplesTruthful
<1>1. ServiceInvariant => SamplesTruthful
  BY TruthFollows
<1> QED BY <1>1, ServiceHolds, PTL

\* The outcomes counted are the requests that ended.
LEMMA OutcomesSumUp ==
  ASSUME ServiceInvariant
  PROVE  MapThenSumSet(LAMBDA k : finished[k], TerminalStates) =
           Cardinality({r \in Requests : state[r] \in TerminalStates})
<1> DEFINE T == TerminalStates
           f == CHOOSE g : g = [s \in SUBSET T |->
                  IF s = {} THEN 0 ELSE finished[Chosen(s)] + g[s \ {Chosen(s)}]]
           count == [s \in SUBSET T |-> Cardinality(Units(finished, s))]
           part == [k \in T |-> EndedAs(k)]
<1>1. MapThenSumSet(LAMBDA k : finished[k], T) = f[T]
  BY DEF MapThenSumSet, MapThenFoldSet, Chosen
<1>2. IsFiniteSet(T)
  <2>1. T = {"completed"} \cup {"cancelled"} \cup {"timed_out"} \cup {"rejected"} \cup {"failed"}
    BY DEF TerminalStates
  <2>2. \A a : IsFiniteSet({a})
    BY FS_Singleton
  <2>3. \A A, B : IsFiniteSet(A) /\ IsFiniteSet(B) => IsFiniteSet(A \cup B)
    BY FS_Union
  <2> HIDE DEF T
  <2> QED BY <2>1, <2>2, <2>3
<1>3. finished \in [T -> Nat] /\ \A k \in T : finished[k] = Cardinality(EndedAs(k))
  BY ServiceParts DEF ServiceTypes, Counted
<1> HIDE DEF T
<1>4. SumsUp(count, finished, T)
  BY <1>2, <1>3, CountingSumsUp
<1>5. f = [s \in SUBSET T |->
             IF s = {} THEN 0 ELSE finished[Chosen(s)] + f[s \ {Chosen(s)}]]
  <2>1. count = [s \in SUBSET T |->
                   IF s = {} THEN 0 ELSE finished[Chosen(s)] + count[s \ {Chosen(s)}]]
    <3> HIDE DEF count
    <3> QED BY <1>4 DEF SumsUp
  <2> HIDE DEF count
  <2> QED BY <2>1
<1> HIDE DEF f
<1>6. f[T] = Cardinality(Units(finished, T))
  <2>1. SumsUp(f, finished, T)
    BY <1>5 DEF SumsUp
  <2> QED BY <1>2, <1>3, <2>1, SumsAreCounts
<1>7. Cardinality(UNION {part[k] : k \in T}) = Cardinality(Units(finished, T))
  <2>1. \A k \in T : IsFiniteSet(part[k]) /\ Cardinality(part[k]) = finished[k]
    <3>1. \A k \in T : part[k] = EndedAs(k) /\ IsFiniteSet(EndedAs(k))
      BY RequestsAreFinite DEF EndedAs
    <3> QED BY <1>3, <3>1
  <2>2. \A k, j \in T : k # j => part[k] \cap part[j] = {}
    BY DEF EndedAs
  <2> HIDE DEF part
  <2> QED BY <1>2, <1>3, <2>1, <2>2, PartsAddUp
<1>8. UNION {part[k] : k \in T} = {r \in Requests : state[r] \in T}
  <2>1. \A k \in T : part[k] = {r \in Requests : state[r] = k}
    BY DEF EndedAs
  <2> HIDE DEF part
  <2> QED BY <2>1
<1> QED BY <1>1, <1>6, <1>7, <1>8 DEF T

LEMMA LedgersFollow ==
  ASSUME ServiceInvariant
  PROVE  LedgersAgree
<1> DEFINE refused == {r \in AtServer : state[r] = "received"}
           underway == {r \in AtServer : state[r] \notin TerminalStates \cup {"received"}}
           ended == {r \in Requests : state[r] \in TerminalStates}
           sum == MapThenSumSet(LAMBDA k : finished[k], TerminalStates)
<1>1. /\ received = Cardinality(AtServer)
      /\ \A r \in Requests : RequestTrue(r)
      /\ handler \in [Requests -> Handlers]
      /\ Tracked => tracker.current = Cardinality(flight) /\ tracker.peak <= limit
      /\ verdict \in [Requests -> Judged \cup {"none", "client_timeout", "connection_error", "exception"}]
  BY ServiceParts DEF Counted, TrackerTrue, ProgramTypes, ServiceTypes
<1>2. sum = Cardinality(ended)
  BY OutcomesSumUp
<1>3. \A r \in ended : r \in AtServer
  BY <1>1 DEF RequestTrue, HandlerState, AtServer, TerminalStates
<1>4. /\ AtServer = (refused \cup underway) \cup ended
      /\ refused \cap underway = {} /\ (refused \cup underway) \cap ended = {}
  <2>1. "received" \notin TerminalStates
    BY DEF TerminalStates
  <2>2. AtServer \subseteq Requests
    BY DEF AtServer
  <2> HIDE DEF AtServer
  <2> QED BY <1>3, <2>1, <2>2
<1>5. /\ IsFiniteSet(refused) /\ Cardinality(refused) \in Nat
      /\ IsFiniteSet(underway) /\ Cardinality(underway) \in Nat
      /\ IsFiniteSet(ended) /\ Cardinality(ended) \in Nat
  <2>1. refused \subseteq Requests /\ underway \subseteq Requests /\ ended \subseteq Requests
    BY DEF AtServer
  <2> HIDE DEF refused, underway, ended
  <2> QED BY <2>1, RequestsAreFinite
<1>6. ASSUME NEW r \in underway PROVE r \in flight \cup Abandoned
  <2>1. r \in Requests /\ handler[r] \notin {"none", "sent"} /\ RequestTrue(r)
    BY <1>1 DEF AtServer
  <2>2. ~ReplyTells(r)
    BY DEF ReplyTells, TerminalStates
  <2>3. ~reply[r].closed /\ client # "direct"
    BY <2>1, <2>2 DEF RequestTrue, ClosedReply, SentRequest
  <2>4. verdict[r] \notin Judged
    BY <2>1, <2>3 DEF RequestTrue, JudgedReply
  <2>5. CASE r \in flight
    BY <2>5
  <2>6. CASE r \notin flight
    BY <1>1, <2>1, <2>3, <2>4, <2>6 DEF RequestTrue, SentRequest, Abandoned
  <2> QED BY <2>5, <2>6
<1>7. received = Cardinality(refused) + Cardinality(underway) + sum
  <2> HIDE DEF refused, underway, ended, sum
  <2>1. Cardinality(refused \cup underway) = Cardinality(refused) + Cardinality(underway) - Cardinality({})
    BY <1>4, <1>5, FS_Union
  <2>2. IsFiniteSet(refused \cup underway)
    BY <1>5, FS_Union
  <2> DEFINE open == refused \cup underway
  <2>3. open \cap ended = {} /\ AtServer = open \cup ended /\ IsFiniteSet(open)
    BY <1>4, <2>2
  <2>4. Cardinality(open) = Cardinality(refused) + Cardinality(underway)
    BY <1>5, <2>1, FS_EmptySet
  <2> HIDE DEF open
  <2>5. Cardinality(open \cup ended) = Cardinality(open) + Cardinality(ended) - Cardinality({})
    BY <1>5, <2>3, FS_Union
  <2> QED BY <1>1, <1>2, <1>5, <2>3, <2>4, <2>5, FS_EmptySet
<1> QED BY <1>1, <1>6, <1>7 DEF LedgersAgree, AtServer

\* Each request received is refused, under way or counted once, and the load
\* generator keeps to its concurrency: only what it abandoned runs behind its back.
THEOREM LedgersBalance == Spec => []LedgersAgree
<1>1. ServiceInvariant => LedgersAgree
  BY LedgersFollow
<1> QED BY <1>1, ServiceHolds, PTL
=============================================================================
