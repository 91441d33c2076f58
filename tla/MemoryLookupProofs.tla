-------------------------- MODULE MemoryLookupProofs --------------------------
(***************************************************************************)
(* Proofs about MemoryLookup for every number of responses, every set of   *)
(* texts and every plan.  What the router decides plays no part in them.   *)
(***************************************************************************)
EXTENDS MemoryLookup, TLAPS

\* A request is registered, being published or awaited.
Registered == stage \in Waiting \cup {"sending"}

\* At most two requests for a response, numbered in order.
Numbers ==
  /\ asking.sequence = sequence
  /\ stage # "idle" => response > 0
  /\ sequence <= 2 * response
  /\ stage = "thinking" => sequence <= 2 * response - 2
  /\ stage = "planning" \/ (Registered /\ asking.version = 2) => sequence <= 2 * response - 1
  /\ Registered => sequence > 0

\* A number belongs to one request: the awaited one, if it is the last.  So no
\* reply that comes late or again can be taken for the awaited one.
RequestsApart ==
  \A q \in requests :
    /\ q.sequence <= sequence
    /\ stage = "sending" => q.sequence < sequence
    /\ stage = "waiting" /\ q.sequence = sequence => q.about = response

\* A result is held only by the response it was looked up for.
FoundForResponse ==
  /\ found = Nothing \/ (stage \in {"answered", "planning"} /\ found.about \in {0, response})
  /\ MemoryFitsQuestion

\* The futures of abandoned requests never have the key of the awaited one.
FuturesKnown ==
  /\ OnlyUnsentLeft
  /\ \A k \in unsent : k[3] <= sequence /\ (Registered => k[3] < sequence)

IInv ==
  /\ TypeOK
  /\ Numbers
  /\ RequestsApart
  /\ FoundForResponse
  /\ FuturesKnown

------------------------------------------------------------------------------
(* What a step of the response does, whatever the router says *)

LEMMA AfterRouteCases ==
  ASSUME NEW route, NEW context, NEW others, AfterRoute(route, context, others)
  PROVE  Ask(1, others) \/ Proceed("streaming", others)
BY DEF AfterRoute

LEMMA AfterContextCases ==
  ASSUME NEW context, NEW others, AfterContext(context, others)
  PROVE  /\ used' = [used EXCEPT ![response] = @ \cup ({context.about} \ {0})]
         /\ \/ /\ found' = Nothing
               /\ Ask(1, others) \/ \E next \in {"publishing", "streaming"} : Proceed(next, others)
            \/ found' = context /\ Proceed("planning", others)
<1>1. CASE found' = Nothing /\ Proceed("publishing", others)
  BY <1>1 DEF AfterContext
<1>2. CASE found' = context /\ Proceed("planning", others)
  BY <1>2 DEF AfterContext
<1>3. CASE found' = Nothing /\ AfterRoute(Route(text), context, others)
  <2>1. Ask(1, others) \/ Proceed("streaming", others)
    BY <1>3, AfterRouteCases
  <2>2. QED
    BY <2>1, <1>3 DEF AfterContext
<1>4. QED
  BY <1>1, <1>2, <1>3 DEF AfterContext

LEMMA ResponseFacts ==
  ASSUME TypeOK, Numbers, stage # "idle"
  PROVE  /\ response \in Response /\ turnOf[response] \in Turn
         /\ response \in Nat /\ MaxResponse \in Nat /\ sequence \in Nat
<1>1. /\ response \in 0..MaxResponse /\ response > 0
      /\ turnOf \in [Response -> Turn] /\ sequence \in 0..2 * MaxResponse
  BY DEF TypeOK, Numbers
<1>2. QED
  BY <1>1, LookupAssumption DEF Response

LEMMA NothingFound == Nothing \in Found /\ Nothing.about = 0
BY LookupAssumption DEF Nothing, Found

LEMMA RequestFacts ==
  ASSUME TypeOK, Numbers, stage = "sending"
  PROVE  /\ CurrentRequest \in Request /\ CurrentRequest.about = response
         /\ CurrentRequest.sequence = sequence
<1>1. response \in Response /\ turnOf[response] \in Turn
  BY ResponseFacts
<1>2. asking.version \in {1, 2}
  BY DEF TypeOK
<1>3. asking.sequence = sequence /\ sequence \in 1..2 * MaxResponse
  BY LookupAssumption DEF TypeOK, Numbers, Registered
<1>4. QED
  BY <1>1, <1>2, <1>3 DEF CurrentRequest, Request

\* A step of the response on its way to the answer: it asks, or goes on, with
\* what was found for it or without.
StepOn ==
  /\ stage \notin {"idle", "sending"}
  /\ \/ /\ \E version \in {1, 2} : Ask(version, unsent) /\ sequence + version <= 2 * response
        /\ found' = Nothing
     \/ /\ \E next \in {"publishing", "streaming", "overriding"} : Proceed(next, unsent)
        /\ found' = Nothing
     \/ /\ Proceed("planning", unsent) /\ sequence + 1 <= 2 * response
        /\ found' \in Found /\ found'.about \in {0, response}
  /\ used' \in {used, [used EXCEPT ![response] = @ \cup {response}]}
  /\ UNCHANGED <<sessionVars, requests, unsent>>

LEMMA StepOnInvariant ==
  ASSUME IInv, StepOn
  PROVE  IInv'
<1> USE DEF sessionVars
<1>0. TypeOK /\ Numbers /\ RequestsApart /\ FoundForResponse /\ FuturesKnown
  BY DEF IInv
<1>1. /\ response \in Response /\ turnOf[response] \in Turn
      /\ response \in Nat /\ MaxResponse \in Nat /\ sequence \in Nat /\ response <= MaxResponse
  BY <1>0, ResponseFacts DEF StepOn, TypeOK
<1>2. UNCHANGED <<response, turnOf, text, joining, v2, requests, unsent>>
  BY DEF StepOn
<1>3. used' \in [Response -> SUBSET Response] /\ \A r \in Response : used'[r] \subseteq {r}
  BY <1>0, <1>1 DEF StepOn, TypeOK, FoundForResponse, MemoryFitsQuestion
<1>4. /\ response \in 0..MaxResponse /\ turnOf \in [Response -> Turn] /\ text \in SUBSET Marks
      /\ joining \in [turn : 0..MaxResponse, text : SUBSET Marks] /\ v2 \in BOOLEAN
      /\ requests \subseteq Request
      /\ \A k \in unsent : k[1] \in {1, 2} /\ k[2] \in Turn /\ k[3] \in 1..sequence
      /\ asking \in [version : {1, 2}, sequence : 0..2 * MaxResponse]
      /\ sequence \in 0..2 * MaxResponse
  BY <1>0 DEF TypeOK
<1>5. /\ stage' # "answered" /\ stage' # "waiting" /\ stage' # "idle" /\ stage' # "thinking"
      /\ stage' \in Stage
  BY DEF StepOn, Ask, Proceed, Stage
<1>6. found' \in Found
      /\ (found' = Nothing \/ (stage' = "planning" /\ found'.about \in {0, response}))
  BY NothingFound DEF StepOn, Proceed
<1>7. FoundForResponse'
  BY <1>2, <1>3, <1>5, <1>6 DEF FoundForResponse, MemoryFitsQuestion
<1>9. CASE \E version \in {1, 2} : Ask(version, unsent) /\ sequence + version <= 2 * response
  <2>1. PICK version \in {1, 2} : Ask(version, unsent) /\ sequence + version <= 2 * response
    BY <1>9
  <2>2. /\ stage' = "sending" /\ sequence' = sequence + 1
        /\ asking' = [version |-> version, sequence |-> sequence + 1]
        /\ futures' = unsent \cup {<<version, turnOf[response], sequence + 1>>}
    BY <2>1 DEF Ask, Key
  <2>3. sequence' \in 1..2 * MaxResponse /\ sequence' <= 2 * response
        /\ (version = 2 => sequence' <= 2 * response - 1)
    BY <1>1, <2>1, <2>2
  <2>4. asking' \in [version : {1, 2}, sequence : 0..2 * MaxResponse]
        /\ asking'.version = version /\ asking'.sequence = sequence'
    BY <2>1, <2>2, <2>3
  <2>5. \A k \in futures' : k[1] \in {1, 2} /\ k[2] \in Turn /\ k[3] \in 1..sequence'
    BY <1>1, <1>4, <2>1, <2>2
  <2>6. TypeOK'
    BY <1>2, <1>3, <1>4, <1>5, <1>6, <2>2, <2>3, <2>4, <2>5 DEF TypeOK
  <2>7. Numbers'
    BY <1>1, <1>2, <2>2, <2>3, <2>4 DEF Numbers, Registered, Waiting
  <2>8. RequestsApart'
    <3>1. \A q \in requests : q.sequence \in Nat /\ q.sequence <= sequence
      BY <1>0, <1>4 DEF RequestsApart, Request
    <3>2. QED
      BY <1>1, <1>2, <3>1, <2>2 DEF RequestsApart
  <2>9. FuturesKnown'
    <3>1. CurrentKey' = <<version, turnOf[response], sequence + 1>>
      BY <1>2, <2>2 DEF CurrentKey, Key
    <3>2. OnlyUnsentLeft'
      BY <1>2, <2>2, <3>1 DEF OnlyUnsentLeft
    <3>3. QED
      BY <1>1, <1>2, <1>4, <2>2, <3>2 DEF FuturesKnown
  <2>10. QED
    BY <1>7, <2>6, <2>7, <2>8, <2>9 DEF IInv
<1>10. CASE \E next \in {"publishing", "streaming", "overriding", "planning"} :
              /\ Proceed(next, unsent)
              /\ next = "planning" => sequence + 1 <= 2 * response
  <2>1. PICK next \in {"publishing", "streaming", "overriding", "planning"} :
              /\ Proceed(next, unsent)
              /\ next = "planning" => sequence + 1 <= 2 * response
    BY <1>10
  <2>2. /\ stage' = next /\ UNCHANGED <<asking, sequence>> /\ futures' = unsent
        /\ stage' \notin Waiting \cup {"sending"}
    BY <2>1 DEF Proceed, Waiting
  <2>3. TypeOK'
    BY <1>2, <1>3, <1>4, <1>5, <1>6, <2>2 DEF TypeOK
  <2>4. Numbers'
    <3>1. sequence' <= 2 * response' /\ asking'.sequence = sequence' /\ response' > 0
      BY <1>0, <1>2, <2>2 DEF Numbers, StepOn
    <3>2. stage' = "planning" => sequence' <= 2 * response' - 1
      BY <1>1, <1>2, <2>1, <2>2
    <3>3. ~Registered'
      BY <2>2 DEF Registered
    <3>4. QED
      BY <1>5, <3>1, <3>2, <3>3 DEF Numbers
  <2>5. RequestsApart'
    BY <1>0, <1>2, <1>5, <2>2 DEF RequestsApart, Waiting
  <2>6. FuturesKnown'
    BY <1>0, <1>2, <2>2 DEF FuturesKnown, OnlyUnsentLeft, Registered
  <2>7. QED
    BY <1>7, <2>3, <2>4, <2>5, <2>6 DEF IInv
<1>11. QED
  BY <1>9, <1>10 DEF StepOn

\* Whatever AfterContext does with what was found for the response, or with
\* nothing, is such a step.
LEMMA AfterContextStepsOn ==
  ASSUME IInv, NEW context \in Found, NEW others, AfterContext(context, others),
         context.about \in {0, response}, others = unsent,
         stage \notin {"idle", "sending"}, sequence + 1 <= 2 * response,
         UNCHANGED <<sessionVars, requests, unsent>>
  PROVE  StepOn
<1>1. used' = [used EXCEPT ![response] = @ \cup ({context.about} \ {0})]
  BY AfterContextCases
<1>2. TypeOK /\ Numbers
  BY DEF IInv
<1>3. response \in Response /\ response # 0
  BY <1>2, ResponseFacts, LookupAssumption DEF Response
<1>4. used' \in {used, [used EXCEPT ![response] = @ \cup {response}]}
  <2>1. CASE context.about = 0
    BY <1>1, <1>2, <1>3, <2>1 DEF TypeOK
  <2>2. CASE context.about = response
    BY <1>1, <1>3, <2>2
  <2>3. QED
    BY <2>1, <2>2
<1>5. \/ found' = Nothing /\ Ask(1, unsent)
      \/ found' = Nothing /\ \E next \in {"publishing", "streaming"} : Proceed(next, unsent)
      \/ found' = context /\ Proceed("planning", unsent)
  BY AfterContextCases
<1>6. QED
  BY <1>4, <1>5 DEF StepOn

LEMMA InitInvariant == Init => IInv
<1> SUFFICES ASSUME Init PROVE IInv
  OBVIOUS
<1>1. TypeOK
  <2>1. NoTurn \in [turn : 0..MaxResponse, text : SUBSET Marks] /\ Nothing \in Found
    BY LookupAssumption, NothingFound DEF NoTurn
  <2>2. turnOf \in [Response -> Turn] /\ used \in [Response -> SUBSET Response]
    BY DEF Init, Turn
  <2>3. asking \in [version : {1, 2}, sequence : 0..2 * MaxResponse]
    BY LookupAssumption DEF Init
  <2>4. response \in 0..MaxResponse /\ sequence \in 0..2 * MaxResponse
    BY LookupAssumption DEF Init
  <2>5. v2 \in BOOLEAN
    BY DEF Init
  <2>6. QED
    BY <2>1, <2>2, <2>3, <2>4, <2>5 DEF Init, TypeOK, Stage, Waiting
<1>2. Numbers /\ RequestsApart /\ FoundForResponse /\ FuturesKnown
  BY LookupAssumption DEF Init, Numbers, RequestsApart, FoundForResponse, MemoryFitsQuestion,
     FuturesKnown,
     OnlyUnsentLeft, Registered, Waiting, Nothing, Response
<1>3. QED
  BY <1>1, <1>2 DEF IInv

LEMMA Stepping ==
  ASSUME IInv, Classify \/ ContextReady \/ Plan \/ LookupReady
  PROVE  StepOn
<1>0. TypeOK /\ Numbers /\ FoundForResponse /\ FuturesKnown
  BY DEF IInv
<1>1. stage \in {"thinking", "answered", "expired", "planning"}
  BY DEF Classify, ContextReady, Plan, LookupReady
<1>2. /\ response \in Response /\ turnOf[response] \in Turn
      /\ response \in Nat /\ MaxResponse \in Nat /\ sequence \in Nat
  BY <1>0, <1>1, ResponseFacts
<1>4. found \in Found /\ found.about \in {0, response}
  BY <1>0, NothingFound DEF TypeOK, FoundForResponse
<1>5. stage \in {"thinking", "planning"} => futures = unsent
  BY <1>0 DEF FuturesKnown, OnlyUnsentLeft, Waiting
<1>6. stage \in {"answered", "expired"} => Dropped = unsent
  <2>1. ASSUME stage \in {"answered", "expired"}
        PROVE  Dropped = unsent
    <3>1. futures = unsent \cup {CurrentKey} /\ \A k \in unsent : k[3] < sequence
      BY <1>0, <2>1 DEF FuturesKnown, OnlyUnsentLeft, Registered, Waiting
    <3>2. CurrentKey[3] = sequence
      BY <1>0 DEF CurrentKey, Key, Numbers
    <3>3. CurrentKey \notin unsent
      BY <1>2, <3>1, <3>2
    <3>4. QED
      BY <3>1, <3>3 DEF Dropped
  <2>2. QED
    BY <2>1
<1>7. UNCHANGED <<sessionVars, requests, unsent>>
  BY DEF Classify, ContextReady, Plan, LookupReady
<1>8. CASE Classify
  <2>1. stage = "thinking" /\ futures = unsent /\ sequence + 2 <= 2 * response
    BY <1>0, <1>2, <1>5, <1>8 DEF Classify, Numbers
  <2>2. CASE Proceed("overriding", futures) /\ UNCHANGED <<used, found>>
    BY <1>0, <1>7, <2>1, <2>2 DEF StepOn, FoundForResponse
  <2>3. CASE Ask(2, futures) /\ UNCHANGED <<used, found>>
    BY <1>0, <1>7, <2>1, <2>3 DEF StepOn, FoundForResponse
  <2>4. CASE AfterContext(Nothing, futures)
    BY <1>2, <1>7, <2>1, <2>4, AfterContextStepsOn, NothingFound
  <2>5. QED
    BY <1>8, <2>2, <2>3, <2>4 DEF Classify
<1>9. CASE ContextReady
  <2>1. stage \in {"answered", "expired"} /\ Dropped = unsent /\ sequence + 1 <= 2 * response
    BY <1>0, <1>2, <1>6, <1>9 DEF ContextReady, Numbers, Registered, Waiting
  <2>2. AfterContext(found, Dropped)
    BY <1>9 DEF ContextReady
  <2>3. QED
    BY <1>4, <1>7, <2>1, <2>2, AfterContextStepsOn
<1>10. CASE Plan
  <2>1. stage = "planning" /\ futures = unsent /\ sequence + 1 <= 2 * response
        /\ found' = Nothing /\ used' = used
    BY <1>0, <1>2, <1>5, <1>10 DEF Plan, Numbers
  <2>2. Ask(1, unsent) \/ Proceed("streaming", unsent)
    BY <1>10, <2>1, AfterRouteCases DEF Plan
  <2>3. QED
    BY <1>7, <2>1, <2>2 DEF StepOn
<1>11. CASE LookupReady
  <2>1. stage \in {"answered", "expired"} /\ Dropped = unsent
    BY <1>6, <1>11 DEF LookupReady
  <2>2. used' = [used EXCEPT ![response] = @ \cup ({found.about} \ {0})]
    BY <1>11 DEF LookupReady
  <2>3. used' \in {used, [used EXCEPT ![response] = @ \cup {response}]}
    <3>1. CASE found.about = 0
      BY <1>0, <2>2, <3>1 DEF TypeOK
    <3>2. CASE found.about = response
      <4>1. {found.about} \ {0} = {response}
        BY <1>2, <3>2 DEF Response
      <4>2. QED
        BY <2>2, <4>1
    <3>3. QED
      BY <1>4, <3>1, <3>2
  <2>4. QED
    BY <1>7, <1>11, <2>1, <2>3 DEF StepOn, LookupReady
<1>12. QED
  BY <1>8, <1>9, <1>10, <1>11

\* A response is over: it has ended or is cancelled now.
Over ==
  \/ stage = "idle" /\ UNCHANGED <<askVars, requests, found, used>>
  \/ stage # "idle" /\ Cancelled

LEMMA OverFacts ==
  ASSUME IInv, Over
  PROVE  /\ found' = Nothing /\ UNCHANGED <<asking, sequence, used>>
         /\ futures' = unsent'
         /\ \A k \in unsent' : k[1] \in {1, 2} /\ k[2] \in Turn /\ k[3] \in 1..sequence
         /\ requests' \subseteq Request /\ \A q \in requests' : q.sequence <= sequence
<1>0. TypeOK /\ Numbers /\ RequestsApart /\ FoundForResponse /\ FuturesKnown
  BY DEF IInv
<1>1. /\ \A k \in unsent : k[1] \in {1, 2} /\ k[2] \in Turn /\ k[3] \in 1..sequence
      /\ requests \subseteq Request /\ \A q \in requests : q.sequence <= sequence
  BY <1>0 DEF TypeOK, RequestsApart
<1>2. CASE stage = "idle" /\ UNCHANGED <<askVars, requests, found, used>>
  <2>1. futures = unsent
    BY <1>0, <1>2 DEF FuturesKnown, OnlyUnsentLeft, Waiting
  <2>2. found = Nothing
    BY <1>0, <1>2 DEF FoundForResponse
  <2>3. QED
    BY <1>1, <1>2, <2>1, <2>2 DEF askVars
<1>3. CASE stage # "idle" /\ Cancelled
  <2>1. /\ response \in Response /\ turnOf[response] \in Turn
        /\ response \in 1..response /\ sequence \in Nat
    BY <1>0, <1>3, ResponseFacts DEF Numbers
  <2>2. found' = Nothing /\ UNCHANGED <<asking, sequence, used>>
    BY <1>3 DEF Cancelled
  <2>3. Registered =>
          CurrentKey[1] \in {1, 2} /\ CurrentKey[2] \in Turn /\ CurrentKey[3] \in 1..sequence
    <3>1. asking.version \in {1, 2}
      BY <1>0 DEF TypeOK
    <3>2. Registered => asking.sequence \in 1..sequence
      BY <1>0, <2>1 DEF Numbers
    <3>3. QED
      BY <2>1, <3>1, <3>2 DEF CurrentKey, Key
  <2>4. Registered => CurrentKey \notin unsent
    <3>1. Registered => \A k \in unsent : k[3] < sequence
      BY <1>0 DEF FuturesKnown
    <3>2. CurrentKey[3] = sequence
      BY <1>0 DEF CurrentKey, Key, Numbers
    <3>3. QED
      BY <2>1, <3>1, <3>2
  <2>5. futures' = unsent'
    <3>1. CASE stage = "sending"
      BY <1>0, <1>3, <3>1 DEF Cancelled, Drops, Waiting, FuturesKnown, OnlyUnsentLeft
    <3>2. CASE stage \in Waiting
      BY <1>0, <1>3, <2>4, <3>2 DEF Cancelled, Drops, Waiting, Registered, Dropped,
         FuturesKnown, OnlyUnsentLeft
    <3>3. CASE ~Registered
      BY <1>0, <1>3, <3>3 DEF Cancelled, Drops, Registered, FuturesKnown, OnlyUnsentLeft
    <3>4. QED
      BY <3>1, <3>2, <3>3 DEF Registered
  <2>6. \A k \in unsent' : k[1] \in {1, 2} /\ k[2] \in Turn /\ k[3] \in 1..sequence
    BY <1>1, <1>3, <2>3 DEF Cancelled, Registered
  <2>7. requests' \subseteq Request /\ \A q \in requests' : q.sequence <= sequence
    <3>1. requests' = requests \/ (stage = "sending" /\ requests' = requests \cup {CurrentRequest})
      BY <1>3 DEF Cancelled
    <3>2. stage = "sending" => CurrentRequest \in Request /\ CurrentRequest.sequence = sequence
      BY <1>0, RequestFacts
    <3>3. QED
      BY <1>1, <2>1, <3>1, <3>2
  <2>8. QED
    BY <2>2, <2>5, <2>6, <2>7
<1>4. QED
  BY <1>2, <1>3 DEF Over

LEMMA NextInvariant ==
  ASSUME IInv, [Next]_vars
  PROVE  IInv'
<1> USE DEF sessionVars, askVars
<1>0. TypeOK /\ Numbers /\ RequestsApart /\ FoundForResponse /\ FuturesKnown
  BY DEF IInv
<1>a. /\ stage # "idle" => response \in Response /\ turnOf[response] \in Turn
      /\ response \in 0..MaxResponse /\ MaxResponse \in Nat
      /\ sequence \in Nat /\ sequence \in 0..2 * MaxResponse
  BY <1>0, ResponseFacts, LookupAssumption DEF TypeOK
<1>b. \A q \in requests : q.sequence \in Nat /\ q.sequence <= sequence
  BY <1>0 DEF TypeOK, Request, RequestsApart
<1>1. CASE Classify \/ ContextReady \/ Plan \/ LookupReady
  BY <1>1, Stepping, StepOnInvariant
<1>2. CASE Sent
  <2>1. stage = "sending" /\ stage' = "waiting" /\ requests' = requests \cup {CurrentRequest}
        /\ UNCHANGED <<sessionVars, askVars, found, used>>
    BY <1>2 DEF Sent
  <2>2. CurrentRequest \in Request /\ CurrentRequest.about = response
        /\ CurrentRequest.sequence = sequence
    BY <1>0, <2>1, RequestFacts
  <2>3. TypeOK'
    BY <1>0, <2>1, <2>2 DEF TypeOK, Stage, Waiting
  <2>4. Numbers'
    BY <1>0, <2>1 DEF Numbers, Registered, Waiting
  <2>5. RequestsApart'
    BY <1>0, <1>a, <1>b, <2>1, <2>2 DEF RequestsApart
  <2>6. FoundForResponse'
    BY <1>0, <2>1 DEF FoundForResponse, MemoryFitsQuestion
  <2>7. FuturesKnown'
    BY <1>0, <2>1 DEF FuturesKnown, OnlyUnsentLeft, Registered, CurrentKey, Waiting
  <2>8. QED
    BY <2>3, <2>4, <2>5, <2>6, <2>7 DEF IInv
<1>3. CASE SendFails
  <2>1. stage = "sending" /\ stage' \in {"idle", "failing"} /\ unsent' = unsent \cup {CurrentKey}
        /\ UNCHANGED <<sessionVars, asking, sequence, futures, requests, found, used>>
    BY <1>3 DEF SendFails
  <2>2. futures = unsent \cup {CurrentKey}
    BY <1>0, <2>1 DEF FuturesKnown, OnlyUnsentLeft
  <2>3. TypeOK'
    BY <1>0, <2>1, <2>2 DEF TypeOK, Stage
  <2>4. Numbers'
    BY <1>0, <2>1 DEF Numbers, Registered, Waiting
  <2>5. RequestsApart'
    BY <1>0, <2>1 DEF RequestsApart
  <2>6. FoundForResponse'
    BY <1>0, <2>1 DEF FoundForResponse, MemoryFitsQuestion
  <2>7. FuturesKnown'
    <3>1. OnlyUnsentLeft'
      BY <2>1, <2>2 DEF OnlyUnsentLeft, Waiting
    <3>2. CurrentKey[3] = sequence
      BY <1>0 DEF CurrentKey, Key, Numbers
    <3>3. QED
      BY <1>0, <1>a, <2>1, <3>1, <3>2 DEF FuturesKnown, Registered, Waiting
  <2>8. QED
    BY <2>3, <2>4, <2>5, <2>6, <2>7 DEF IInv
<1>4. CASE Expire
  <2>1. stage \in {"waiting", "answered"} /\ stage' = "expired" /\ found' = Nothing
        /\ UNCHANGED <<sessionVars, askVars, requests, used>>
    BY <1>4 DEF Expire, Expiring
  <2>2. TypeOK'
    BY <1>0, <2>1, NothingFound DEF TypeOK, Stage, Waiting
  <2>3. Numbers'
    BY <1>0, <2>1 DEF Numbers, Registered, Waiting
  <2>4. RequestsApart'
    BY <1>0, <2>1 DEF RequestsApart
  <2>5. FoundForResponse'
    BY <1>0, <2>1 DEF FoundForResponse, MemoryFitsQuestion, Nothing
  <2>6. FuturesKnown'
    BY <1>0, <2>1 DEF FuturesKnown, OnlyUnsentLeft, Registered, CurrentKey, Waiting
  <2>7. QED
    BY <2>2, <2>3, <2>4, <2>5, <2>6 DEF IInv
<1>5. CASE StreamEnds \/ Finished
  <2>1. /\ \/ stage = "streaming" /\ stage' \in {"publishing", "failing"}
           \/ stage \in {"speaking", "failing"} /\ stage' = "idle"
        /\ UNCHANGED <<sessionVars, askVars, requests, found, used>>
    BY <1>5 DEF StreamEnds, Finished
  <2>2. TypeOK'
    BY <1>0, <2>1 DEF TypeOK, Stage
  <2>3. Numbers'
    BY <1>0, <2>1 DEF Numbers, Registered, Waiting
  <2>4. RequestsApart'
    BY <1>0, <2>1 DEF RequestsApart
  <2>5. FoundForResponse'
    BY <1>0, <2>1 DEF FoundForResponse, MemoryFitsQuestion
  <2>6. FuturesKnown'
    BY <1>0, <2>1 DEF FuturesKnown, OnlyUnsentLeft, Registered, Waiting
  <2>7. QED
    BY <2>2, <2>3, <2>4, <2>5, <2>6 DEF IInv
<1>6. CASE Answered
  <2>1. /\ stage \in {"publishing", "overriding"} /\ stage' = "speaking"
        /\ UNCHANGED <<sessionVars, askVars, requests, found, used>>
    BY <1>6 DEF Answered
  <2>2. response \in Response /\ response \in 1..response
    BY <1>0, <1>a, <2>1 DEF Numbers
  <2>3. TypeOK'
    BY <1>0, <2>1, <2>2 DEF TypeOK, Stage
  <2>4. Numbers'
    BY <1>0, <2>1 DEF Numbers, Registered, Waiting
  <2>5. RequestsApart'
    BY <1>0, <2>1 DEF RequestsApart
  <2>6. FoundForResponse'
    BY <1>0, <2>1 DEF FoundForResponse, MemoryFitsQuestion
  <2>7. FuturesKnown'
    BY <1>0, <2>1 DEF FuturesKnown, OnlyUnsentLeft, Registered, Waiting
  <2>8. QED
    BY <2>3, <2>4, <2>5, <2>6, <2>7 DEF IInv
<1>7. CASE SpeechStart
  <2>1. stage # "idle" /\ stage' = "idle" /\ Cancelled /\ UNCHANGED <<response, turnOf, text, v2>>
        /\ joining' \in {joining, [turn |-> turnOf[response], text |-> text]}
    BY <1>7 DEF SpeechStart
  <2>2. Over
    BY <2>1 DEF Over
  <2>3. joining' \in [turn : 0..MaxResponse, text : SUBSET Marks]
    <3>1. turnOf[response] \in 0..MaxResponse
      BY <1>a, <2>1 DEF Turn, Response
    <3>2. QED
      BY <1>0, <2>1, <3>1 DEF TypeOK
  <2>4. TypeOK'
    BY <1>0, <2>1, <2>2, <2>3, OverFacts, NothingFound DEF TypeOK, Stage
  <2>5. Numbers'
    BY <1>0, <2>1, <2>2, OverFacts DEF Numbers, Registered, Waiting
  <2>6. RequestsApart'
    BY <2>1, <2>2, OverFacts DEF RequestsApart
  <2>7. FoundForResponse'
    BY <1>0, <2>1, <2>2, OverFacts DEF FoundForResponse, MemoryFitsQuestion
  <2>8. FuturesKnown'
    BY <1>a, <2>1, <2>2, OverFacts DEF FuturesKnown, OnlyUnsentLeft, Registered, Waiting
  <2>9. QED
    BY <2>4, <2>5, <2>6, <2>7, <2>8 DEF IInv
<1>8. CASE Transcript
  <2>1. response' = response + 1 /\ response' \in Response /\ stage' = "thinking"
        /\ joining' = NoTurn /\ v2' = v2
    BY <1>8, <1>a DEF Transcript, Response
  <2>2. Over
    BY <1>8 DEF Transcript, Over
  <2>3. turnOf' \in [Response -> Turn] /\ text' \in SUBSET Marks
    <3>1. PICK marks \in Texts :
            IF joining.turn = 0
              THEN text' = marks /\ UNCHANGED turnOf
              ELSE /\ text' = Joined(joining.text, marks)
                   /\ turnOf' = [turnOf EXCEPT ![response + 1] = joining.turn]
      BY <1>8 DEF Transcript
    <3>2. marks \in SUBSET Marks /\ turnOf \in [Response -> Turn]
          /\ joining.turn \in 0..MaxResponse /\ joining.text \in SUBSET Marks
      BY <1>0, LookupAssumption DEF TypeOK
    <3>3. joining.turn # 0 => joining.turn \in Turn
      BY <1>a, <3>2 DEF Turn, Response
    <3>4. QED
      BY <3>1, <3>2, <3>3 DEF Joined
  <2>4. NoTurn \in [turn : 0..MaxResponse, text : SUBSET Marks]
    BY <1>a DEF NoTurn
  <2>5. TypeOK'
    <3>1. response' \in 0..MaxResponse
      BY <2>1, <1>a DEF Response
    <3>2. QED
      BY <1>0, <2>1, <2>2, <2>3, <2>4, <3>1, OverFacts, NothingFound DEF TypeOK, Stage
  <2>6. Numbers'
    <3>1. asking.sequence = sequence /\ sequence <= 2 * response
      BY <1>0 DEF Numbers
    <3>2. UNCHANGED <<asking, sequence>>
      BY <2>2, OverFacts
    <3>3. QED
      BY <1>a, <2>1, <3>1, <3>2 DEF Numbers, Registered, Waiting
  <2>7. RequestsApart'
    BY <2>1, <2>2, OverFacts DEF RequestsApart
  <2>8. FoundForResponse'
    BY <1>0, <2>1, <2>2, OverFacts DEF FoundForResponse, MemoryFitsQuestion
  <2>9. FuturesKnown'
    BY <1>a, <2>1, <2>2, OverFacts DEF FuturesKnown, OnlyUnsentLeft, Registered, Waiting
  <2>10. QED
    BY <2>5, <2>6, <2>7, <2>8, <2>9 DEF IInv
<1>9. CASE ClientStarted
  <2>1. v2' = ~v2 /\ UNCHANGED <<response, turnOf, text, joining, stage, askVars, requests, found,
                                 used>>
    BY <1>9 DEF ClientStarted
  <2>2. v2' \in BOOLEAN
    BY <2>1
  <2>3. TypeOK'
    BY <1>0, <2>1, <2>2 DEF TypeOK
  <2>4. Numbers' /\ RequestsApart' /\ FoundForResponse'
    BY <1>0, <2>1 DEF Numbers, Registered, RequestsApart, FoundForResponse, MemoryFitsQuestion
  <2>5. FuturesKnown'
    BY <1>0, <2>1 DEF FuturesKnown, OnlyUnsentLeft, Registered, CurrentKey
  <2>6. QED
    BY <2>3, <2>4, <2>5 DEF IInv
<1>10. CASE Reply
  <2>1. PICK q \in requests :
          /\ requests' = requests
          /\ \/ /\ stage = "waiting" /\ Key(q.version, q.turn, q.sequence) = CurrentKey
                /\ \E kind \in ReplyKinds(q.version) : found' = [about |-> q.about, kind |-> kind]
                /\ stage' = "answered"
             \/ UNCHANGED <<found, stage>>
          /\ UNCHANGED <<sessionVars, askVars, used>>
    BY <1>10 DEF Reply
  <2>4. CASE UNCHANGED <<found, stage>>
    <3>1. TypeOK'
      BY <1>0, <2>1, <2>4 DEF TypeOK
    <3>2. Numbers' /\ FoundForResponse'
      BY <1>0, <2>1, <2>4 DEF Numbers, Registered, FoundForResponse, MemoryFitsQuestion
    <3>3. RequestsApart'
      BY <1>0, <2>1, <2>4 DEF RequestsApart
    <3>4. FuturesKnown'
      BY <1>0, <2>1, <2>4 DEF FuturesKnown, OnlyUnsentLeft, Registered, CurrentKey
    <3>5. QED
      BY <3>1, <3>2, <3>3, <3>4 DEF IInv
  <2>5. CASE /\ stage = "waiting" /\ Key(q.version, q.turn, q.sequence) = CurrentKey
             /\ \E kind \in ReplyKinds(q.version) : found' = [about |-> q.about, kind |-> kind]
             /\ stage' = "answered"
    <3>1. PICK kind \in ReplyKinds(q.version) : found' = [about |-> q.about, kind |-> kind]
      BY <2>5
    <3>2. q \in Request
      BY <1>0, <2>1 DEF TypeOK
    <3>3. q.version = asking.version /\ q.sequence = asking.sequence
      BY <2>5 DEF Key, CurrentKey
    <3>4. q.about = response
      BY <1>0, <2>1, <2>5, <3>3 DEF RequestsApart, Numbers
    <3>5. kind \in {"direct", "resolved", "unresolved", "packets"}
          /\ (kind = "packets") = (q.version = 1)
      BY <3>1, <3>2 DEF ReplyKinds, Request
    <3>6. found'.about = response /\ found'.kind = kind
      BY <3>1, <3>4
    <3>7. found' \in Found
      BY <1>a, <3>1, <3>4, <3>5 DEF Found
    <3>8. TypeOK'
      BY <1>0, <2>1, <2>5, <3>3, <3>5, <3>6, <3>7 DEF TypeOK, Stage, Waiting
    <3>9. Numbers'
      BY <1>0, <2>1, <2>5 DEF Numbers, Registered, Waiting
    <3>10. RequestsApart'
      BY <1>0, <2>1, <2>5 DEF RequestsApart
    <3>11. FoundForResponse'
      BY <1>0, <2>1, <2>5, <3>6 DEF FoundForResponse, MemoryFitsQuestion
    <3>12. FuturesKnown'
      BY <1>0, <2>1, <2>5 DEF FuturesKnown, OnlyUnsentLeft, Registered, CurrentKey, Waiting
    <3>13. QED
      BY <3>8, <3>9, <3>10, <3>11, <3>12 DEF IInv
  <2>6. QED
    BY <2>1, <2>4, <2>5
<1>11. CASE UNCHANGED vars
  <2>1. TypeOK'
    BY <1>0, <1>11 DEF vars, TypeOK
  <2>2. Numbers' /\ RequestsApart' /\ FoundForResponse'
    BY <1>0, <1>11 DEF vars, Numbers, Registered, RequestsApart, FoundForResponse,
       MemoryFitsQuestion
  <2>3. FuturesKnown'
    BY <1>0, <1>11 DEF vars, FuturesKnown, OnlyUnsentLeft, Registered, CurrentKey
  <2>4. QED
    BY <2>1, <2>2, <2>3 DEF IInv
<1>12. QED
  BY <1>1, <1>2, <1>3, <1>4, <1>5, <1>6, <1>7, <1>8, <1>9, <1>10, <1>11 DEF Next, Task

------------------------------------------------------------------------------
(* The theorems *)

THEOREM Invariance == Spec => []IInv
<1>1. Init => IInv
  BY InitInvariant
<1>2. IInv /\ [Next]_vars => IInv'
  BY NextInvariant
<1>3. QED
  BY <1>1, <1>2, PTL DEF Spec

THEOREM TypeCorrect == Spec => []TypeOK
<1>1. IInv => TypeOK
  BY DEF IInv
<1>2. QED
  BY <1>1, Invariance, PTL

\* What was found for one text never goes into the answer to another.
THEOREM FitsQuestion == Spec => []MemoryFitsQuestion
<1>1. IInv => MemoryFitsQuestion
  BY DEF IInv, FoundForResponse
<1>2. QED
  BY <1>1, Invariance, PTL

\* Only requests abandoned while they were published leave a future behind; every
\* other lookup takes its own along, however it ends.
THEOREM FuturesLeft == Spec => []OnlyUnsentLeft
<1>1. IInv => OnlyUnsentLeft
  BY DEF IInv, FuturesKnown
<1>2. QED
  BY <1>1, Invariance, PTL
==============================================================================
