---------------------------- MODULE MonitorProofs ----------------------------
(***************************************************************************)
(* Proofs about Monitor, for any number of requests, pages, processors and *)
(* changes, any plans and any failures: the line chart implements Polling; *)
(* a callback that has answered has freed what it allocated; types; what   *)
(* an answer has is measured and what a chart shows is near to what there  *)
(* is; no buffer is written past its end; and the faults on the chart do   *)
(* not go back.                                                            *)
(***************************************************************************)
EXTENDS Monitor, MemInfoProofs

Phase == {"idle", "sent", "call", "kernel", "answered", "shown", "lost"}

Swaps == chart["use_swap"]

\* Each request has an endpoint and a phase, each endpoint a chart.
Requests ==
  /\ asks \in [Call -> Endpoint]
  /\ phase \in [Call -> Phase]
  /\ DOMAIN chart = Endpoint
  /\ \E S : Swaps \in Seq(S)

\* The points of the line chart are of requests that have been shown.
PointsShown ==
  \A k \in 1 .. Len(Swaps) :
    /\ Swaps[k].of \in Call
    /\ phase[Swaps[k].of] = "shown"
    /\ asks[Swaps[k].of] = "use_swap"

LineInv == Requests /\ PointsShown

-----------------------------------------------------------------------------
\* What a step does to the requests, as far as the chart is concerned.

\* r goes from a phase to the next one and the charts stay.
Moved(r, l, m) == To(r, l, m) /\ UNCHANGED <<asks, chart>>

\* Steps that Polling does not see.
Unseen ==
  \/ UNCHANGED <<asks, phase, chart>>
  \/ \E r \in Call : Moved(r, "sent", "call") \/ Moved(r, "call", "kernel")
                       \/ Moved(r, "kernel", "call") \/ Moved(r, "kernel", "answered")

\* Requests are lost: one on the way, or all of those that the API serves.
Lost ==
  \/ \E r \in Call : Moved(r, "sent", "lost") \/ Moved(r, "answered", "lost")
  \/ /\ phase' = [r \in Call |-> IF phase[r] \in {"call", "kernel"} THEN "lost" ELSE phase[r]]
     /\ UNCHANGED <<asks, chart>>

Delivered(r) ==
  /\ To(r, "answered", "shown")
  /\ UNCHANGED asks
  /\ chart' = [chart EXCEPT ![asks[r]] = Drawn(r)]

\* Every step is of one of these kinds (Monitor's actions, api.c and the
\* components of the dashboard).
LEMMA StepKinds ==
  ASSUME [Next]_vars
  PROVE  \/ Unseen \/ Lost
         \/ \E r \in Call : Moved(r, "idle", "sent") \/ Delivered(r)
<1>1. CASE UNCHANGED vars
  BY <1>1 DEF vars, webVars, Unseen
<1>2. CASE System /\ UNCHANGED webVars
  BY <1>2 DEF webVars, Unseen
<1>3. CASE Die
  BY <1>3 DEF Die, Lost
<1>4. ASSUME NEW r \in Call, Tick(r) PROVE Moved(r, "idle", "sent")
  BY <1>4 DEF Tick, Moved
<1>5. ASSUME NEW r \in Call, Serve(r) PROVE Unseen
  <2>1. CASE Receive(r)
    BY <2>1 DEF Receive, Moved, Unseen
  <2>2. CASE Syscall(r)
    BY <2>2 DEF Syscall, Moved, Unseen
  <2>3. CASE SecondCall(r)
    BY <2>3 DEF SecondCall, Moved, Unseen
  <2>4. CASE Respond(r)
    BY <2>4 DEF Respond, Moved, Unseen
  <2>5. CASE CallStep(r) /\ UNCHANGED webVars
    BY <2>5 DEF webVars, Unseen
  <2>6. QED BY <1>5, <2>1, <2>2, <2>3, <2>4, <2>5 DEF Serve
<1>6. ASSUME NEW r \in Call, Deliver(r) PROVE Delivered(r)
  BY <1>6 DEF Deliver, Delivered
<1>7. ASSUME NEW r \in Call, Lose(r) PROVE Lost
  BY <1>7 DEF Lose, Lost, Moved
<1>8. QED
  BY <1>1, <1>2, <1>3, <1>4, <1>5, <1>6, <1>7 DEF Next

-----------------------------------------------------------------------------
\* A step from one phase to another that is not from "shown" keeps the
\* points, when the charts stay.
LEMMA MovedKeeps ==
  ASSUME LineInv, NEW r \in Call, NEW l \in Phase \ {"shown"}, NEW m \in Phase, Moved(r, l, m)
  PROVE  LineInv'
<1>1. phase' \in [Call -> Phase] /\ phase[r] = l
  BY DEF Moved, To, LineInv, Requests
<1>2. \A q \in Call : phase[q] = "shown" => phase'[q] = "shown"
  BY <1>1 DEF Moved, To, LineInv, Requests
<1>3. Requests'
  BY <1>1 DEF Moved, LineInv, Requests, Swaps
<1>4. PointsShown'
  BY <1>2 DEF Moved, LineInv, PointsShown, Swaps
<1>5. QED BY <1>3, <1>4 DEF LineInv

\* The line chart gets a point more; any other chart leaves it alone.
LEMMA DeliveredDraws ==
  ASSUME LineInv, NEW r \in Call, Delivered(r)
  PROVE  Swaps' = IF asks[r] = "use_swap" THEN Append(Swaps, Point(r)) ELSE Swaps
<1>1. asks[r] \in Endpoint /\ "use_swap" \in Endpoint
  BY DEF LineInv, Requests, Endpoint
<1>2. CASE asks[r] = "use_swap"
  <2>1. Drawn(r) = Append(Swaps, Point(r))
    BY <1>2 DEF Drawn, Swaps
  <2>2. QED BY <1>1, <1>2, <2>1 DEF Delivered, Swaps, LineInv, Requests
<1>3. CASE asks[r] # "use_swap"
  BY <1>1, <1>3 DEF Delivered, Swaps, LineInv, Requests
<1>4. QED BY <1>2, <1>3

LEMMA DeliveredKeeps ==
  ASSUME LineInv, NEW r \in Call, Delivered(r)
  PROVE  LineInv'
<1>1. phase' \in [Call -> Phase] /\ phase'[r] = "shown"
  BY DEF Delivered, To, LineInv, Requests, Phase
<1>2. \A q \in Call : phase[q] = "shown" => phase'[q] = "shown"
  BY <1>1 DEF Delivered, To, LineInv, Requests
<1>3. asks' \in [Call -> Endpoint] /\ DOMAIN chart' = Endpoint
  BY DEF Delivered, LineInv, Requests
<1>4. PICK S : Swaps \in Seq(S)
  BY DEF LineInv, Requests
<1>5. CASE asks[r] = "use_swap"
  <2>1. Swaps' = Append(Swaps, Point(r))
    BY <1>5, DeliveredDraws
  <2>2. /\ Swaps \in Seq(S \cup {Point(r)})
        /\ Swaps' \in Seq(S \cup {Point(r)})
        /\ Len(Swaps') = Len(Swaps) + 1
        /\ \A k \in 1 .. Len(Swaps) : Swaps'[k] = Swaps[k]
        /\ Swaps'[Len(Swaps) + 1] = Point(r)
        /\ Len(Swaps) \in Nat
    BY <1>4, <2>1
  <2>3. Point(r).of = r
    BY DEF Point
  <2>4. PointsShown'
    <3> SUFFICES ASSUME NEW k \in 1 .. Len(Swaps')
                 PROVE  /\ Swaps'[k].of \in Call
                        /\ phase'[Swaps'[k].of] = "shown"
                        /\ asks'[Swaps'[k].of] = "use_swap"
      BY DEF PointsShown
    <3>1. CASE k \in 1 .. Len(Swaps)
      BY <1>2, <2>2, <3>1 DEF Delivered, LineInv, PointsShown
    <3>2. CASE k = Len(Swaps) + 1
      BY <1>1, <1>5, <2>2, <2>3, <3>2 DEF Delivered
    <3>3. QED BY <2>2, <3>1, <3>2
  <2>5. QED BY <1>1, <1>3, <2>2, <2>4 DEF LineInv, Requests
<1>6. CASE asks[r] # "use_swap"
  <2>1. Swaps' = Swaps
    BY <1>6, DeliveredDraws
  <2>2. QED
    BY <1>1, <1>2, <1>3, <2>1 DEF LineInv, Requests, PointsShown, Delivered
<1>7. QED BY <1>5, <1>6

LEMMA LineStep ==
  ASSUME LineInv, [Next]_vars
  PROVE  LineInv'
<1>1. CASE UNCHANGED <<asks, phase, chart>>
  BY <1>1 DEF LineInv, Requests, PointsShown, Swaps
<1>2. ASSUME NEW r \in Call, NEW l \in Phase \ {"shown"}, NEW m \in Phase, Moved(r, l, m)
      PROVE  LineInv'
  BY <1>2, MovedKeeps
<1>3. CASE /\ phase' = [r \in Call |-> IF phase[r] \in {"call", "kernel"} THEN "lost" ELSE phase[r]]
           /\ UNCHANGED <<asks, chart>>
  <2>1. phase' \in [Call -> Phase]
    BY <1>3 DEF LineInv, Requests, Phase
  <2>2. \A q \in Call : phase[q] = "shown" => phase'[q] = "shown"
    BY <1>3
  <2>3. QED
    BY <1>3, <2>1, <2>2 DEF LineInv, Requests, PointsShown, Swaps
<1>4. QED
  BY <1>1, <1>2, <1>3, StepKinds, DeliveredKeeps DEF Unseen, Lost, Phase

-----------------------------------------------------------------------------
\* The state functions that Line puts in the place of Polling's variables.
Asked == {r \in Call : phase[r] # "idle"}
Ended == {r \in Call : phase[r] = "lost" \/ (phase[r] = "shown" /\ asks[r] # "use_swap")}
Drawing == [k \in DOMAIN Swaps |-> Swaps[k].of]

\* The requests that are shown on the line are in phase "shown".
LEMMA DrawingShown ==
  ASSUME LineInv
  PROVE  /\ DOMAIN Drawing = 1 .. Len(Swaps)
         /\ Drawing \in Seq(Call)
         /\ \A k \in DOMAIN Drawing :
              phase[Drawing[k]] = "shown" /\ asks[Drawing[k]] = "use_swap"
<1>1. PICK S : Swaps \in Seq(S)
  BY DEF LineInv, Requests
<1>2. DOMAIN Swaps = 1 .. Len(Swaps) /\ Len(Swaps) \in Nat
  BY <1>1
<1>3. \A k \in 1 .. Len(Swaps) : Drawing[k] = Swaps[k].of /\ Drawing[k] \in Call
  BY <1>2 DEF Drawing, LineInv, PointsShown
<1>4. Drawing \in [1 .. Len(Swaps) -> Call]
  BY <1>2, <1>3 DEF Drawing
<1>5. Drawing \in Seq(Call)
  BY <1>2, <1>4
<1>6. QED
  BY <1>2, <1>3, <1>5 DEF Drawing, LineInv, PointsShown

\* A sequence is a function on the numbers up to its length.
LEMMA LenDomain ==
  ASSUME NEW S, NEW s \in Seq(S)
  PROVE  s \in [1 .. Len(s) -> S]
OBVIOUS

\* Nothing of Polling changes when the phase stays on the same side and the
\* charts stay.
LEMMA SameSide ==
  ASSUME LineInv, UNCHANGED <<asks, chart>>,
         \A q \in Call :
           \/ phase'[q] = phase[q]
           \/ /\ phase[q] \in {"sent", "call", "kernel", "answered"}
              /\ phase'[q] \in {"sent", "call", "kernel", "answered"}
  PROVE  UNCHANGED <<Asked, Ended, Drawing>>
<1>1. Asked' = Asked
  BY DEF Asked
<1>2. Ended' = Ended
  BY DEF Ended
<1>3. Drawing' = Drawing
  BY DEF Drawing, Swaps
<1>4. QED BY <1>1, <1>2, <1>3

\* A step that Polling does not see is a stuttering step of it.
LEMMA UnseenStutters ==
  ASSUME LineInv, Unseen
  PROVE  UNCHANGED <<Asked, Ended, Drawing>>
<1>1. CASE UNCHANGED <<asks, phase, chart>>
  BY <1>1, SameSide
<1>2. ASSUME NEW r \in Call, NEW l \in {"sent", "call", "kernel"},
             NEW m \in {"call", "kernel", "answered"}, Moved(r, l, m)
      PROVE  UNCHANGED <<Asked, Ended, Drawing>>
  BY <1>2, SameSide DEF Moved, To, LineInv, Requests
<1>3. QED BY <1>1, <1>2 DEF Unseen

\* The requests that are lost are passed over, if there are any.
LEMMA LostPasses ==
  ASSUME LineInv, Lost
  PROVE  \/ UNCHANGED <<Asked, Ended, Drawing>>
         \/ \E R \in SUBSET (Asked \ (Ended \cup {Drawing[k] : k \in DOMAIN Drawing})) :
              R # {} /\ Ended' = Ended \cup R /\ UNCHANGED <<Asked, Drawing>>
<1> DEFINE Gone == {r \in Call : phase[r] # "lost" /\ phase'[r] = "lost"}
<1>1. /\ UNCHANGED <<asks, chart>>
      /\ \A q \in Call :
           \/ phase'[q] = phase[q]
           \/ phase[q] \in {"sent", "call", "kernel", "answered"} /\ phase'[q] = "lost"
  <2>1. CASE \E r \in Call : Moved(r, "sent", "lost") \/ Moved(r, "answered", "lost")
    BY <2>1 DEF Moved, To, LineInv, Requests
  <2>2. CASE /\ phase' = [r \in Call |-> IF phase[r] \in {"call", "kernel"} THEN "lost" ELSE phase[r]]
             /\ UNCHANGED <<asks, chart>>
    BY <2>2
  <2>3. QED BY <2>1, <2>2 DEF Lost
<1>2. Asked' = Asked
  BY <1>1 DEF Asked
<1>3. Drawing' = Drawing
  BY <1>1 DEF Drawing, Swaps
<1>4. Ended' = Ended \cup Gone
  BY <1>1 DEF Ended
<1>5. Gone \in SUBSET (Asked \ (Ended \cup {Drawing[k] : k \in DOMAIN Drawing}))
  BY <1>1, DrawingShown DEF Asked, Ended
<1>6. CASE Gone = {}
  BY <1>2, <1>3, <1>4, <1>6
<1>7. CASE Gone # {}
  BY <1>2, <1>3, <1>4, <1>5, <1>7
<1>8. QED BY <1>6, <1>7

\* An answer to the line chart is a point, another one is passed over.
LEMMA DeliveredCounts ==
  ASSUME LineInv, NEW r \in Call, Delivered(r)
  PROVE  /\ r \in Asked \ (Ended \cup {Drawing[k] : k \in DOMAIN Drawing})
         /\ Asked' = Asked
         /\ \/ Drawing' = Append(Drawing, r) /\ Ended' = Ended
            \/ Drawing' = Drawing /\ Ended' = Ended \cup {r}
<1>1. /\ phase[r] = "answered" /\ phase'[r] = "shown" /\ asks' = asks
      /\ \A q \in Call : q # r => phase'[q] = phase[q]
  BY DEF Delivered, To, LineInv, Requests
<1>2. r \in Asked \ (Ended \cup {Drawing[k] : k \in DOMAIN Drawing})
  BY <1>1, DrawingShown DEF Asked, Ended
<1>3. Asked' = Asked
  BY <1>1 DEF Asked
<1>4. PICK S : Swaps \in Seq(S)
  BY DEF LineInv, Requests
<1>5. CASE asks[r] = "use_swap"
  <2>1. Swaps' = Append(Swaps, Point(r)) /\ Point(r).of = r
    BY <1>5, DeliveredDraws DEF Point
  <2>2. /\ DOMAIN Swaps = 1 .. Len(Swaps) /\ Len(Swaps) \in Nat
        /\ DOMAIN Swaps' = 1 .. Len(Swaps) + 1
        /\ \A k \in 1 .. Len(Swaps) : Swaps'[k] = Swaps[k]
        /\ Swaps'[Len(Swaps) + 1] = Point(r)
    <3>1. Swaps \in Seq(S \cup {Point(r)})
      BY <1>4
    <3>2. QED BY <2>1, <3>1
  <2>3. Drawing' = [k \in 1 .. Len(Swaps) + 1 |-> Swaps'[k].of]
    BY <2>2 DEF Drawing
  <2>4. /\ Drawing \in Seq(Call) /\ Len(Drawing) = Len(Swaps)
        /\ \A k \in 1 .. Len(Swaps) : Drawing[k] = Swaps[k].of
    BY <2>2, DrawingShown DEF Drawing
  <2>5. /\ Append(Drawing, r) \in Seq(Call) /\ Len(Append(Drawing, r)) = Len(Swaps) + 1
        /\ \A k \in 1 .. Len(Swaps) + 1 :
             Append(Drawing, r)[k] = IF k = Len(Swaps) + 1 THEN r ELSE Drawing[k]
    BY <2>2, <2>4
  <2>6. Append(Drawing, r) \in [1 .. Len(Swaps) + 1 -> Call]
    <3>1. Append(Drawing, r) \in [1 .. Len(Append(Drawing, r)) -> Call]
      BY <2>5, LenDomain
    <3>2. QED BY <2>5, <3>1
  <2>7. Drawing' = Append(Drawing, r)
    <3>1. \A k \in 1 .. Len(Swaps) + 1 : Swaps'[k].of = Append(Drawing, r)[k]
      BY <2>1, <2>2, <2>4, <2>5
    <3>2. QED BY <2>3, <2>6, <3>1
  <2>8. Ended' = Ended
    BY <1>1, <1>5 DEF Ended
  <2>9. QED BY <1>2, <1>3, <2>7, <2>8
<1>6. CASE asks[r] # "use_swap"
  <2>1. Swaps' = Swaps
    BY <1>6, DeliveredDraws
  <2>2. Drawing' = Drawing
    BY <2>1 DEF Drawing
  <2>3. Ended' = Ended \cup {r}
    BY <1>1, <1>6 DEF Ended
  <2>4. QED BY <1>2, <1>3, <2>2, <2>3
<1>7. QED BY <1>5, <1>6

\* A request that is sent is asked.
LEMMA SentIsAsked ==
  ASSUME LineInv, NEW r \in Call, Moved(r, "idle", "sent")
  PROVE  r \notin Asked /\ Asked' = Asked \cup {r} /\ UNCHANGED <<Ended, Drawing>>
<1>1. /\ phase[r] = "idle" /\ phase'[r] = "sent" /\ UNCHANGED <<asks, chart>>
      /\ \A q \in Call : q # r => phase'[q] = phase[q]
  BY DEF Moved, To, LineInv, Requests
<1>2. r \notin Asked /\ Asked' = Asked \cup {r}
  BY <1>1 DEF Asked
<1>3. Ended' = Ended
  BY <1>1 DEF Ended
<1>4. Drawing' = Drawing
  BY <1>1 DEF Drawing, Swaps
<1>5. QED BY <1>2, <1>3, <1>4

-----------------------------------------------------------------------------
\* The requests and the points of the line chart keep their shape: every
\* point is of a request for swap space whose answer has arrived
\* (use_swap.js:32-52).
THEOREM LineShape == Spec => []LineInv
<1>1. Init => LineInv
  <2> SUFFICES ASSUME Init PROVE LineInv
    OBVIOUS
  <2>1. asks \in [Call -> Endpoint]
    BY MonitorAssumption DEF Init
  <2>2. phase \in [Call -> Phase]
    BY DEF Init, Phase
  <2>3. DOMAIN chart = Endpoint /\ Swaps = <<>>
    BY DEF Init, Swaps, Endpoint
  <2>4. Swaps \in Seq({}) /\ Len(Swaps) = 0
    BY <2>3
  <2>5. QED
    BY <2>1, <2>2, <2>3, <2>4 DEF LineInv, Requests, PointsShown
<1>2. LineInv /\ [Next]_vars => LineInv'
  BY LineStep
<1>3. QED BY <1>1, <1>2, PTL DEF Spec

\* The line chart implements Polling (LineIsPolled): whatever the order in
\* which requests are served and answers arrive, be lost or find the API
\* dead, a step of the system adds one point, passes over requests for good,
\* or is not seen.
THEOREM LinePolled == Spec => LineIsPolled
<1>1. Init => Line!PollInit
  <2> SUFFICES ASSUME Init PROVE Line!PollInit
    OBVIOUS
  <2>1. Swaps = <<>>
    BY DEF Init, Swaps, Endpoint
  <2>2. Asked = {} /\ Ended = {} /\ Drawing = <<>>
    BY <2>1 DEF Init, Asked, Ended, Drawing
  <2>3. QED
    BY <2>2 DEF Line!PollInit, Asked, Ended, Drawing, Swaps
<1>2. LineInv /\ [Next]_vars => [Line!PollNext]_(Line!pollVars)
  <2> SUFFICES ASSUME LineInv, [Next]_vars PROVE [Line!PollNext]_(Line!pollVars)
    OBVIOUS
  <2>1. CASE Unseen
    BY <2>1, UnseenStutters DEF Line!pollVars, Asked, Ended, Drawing, Swaps
  <2>2. CASE Lost
    BY <2>2, LostPasses
    DEF Line!PollNext, Line!Pass, Line!Shown, Line!pollVars, Asked, Ended, Drawing, Swaps
  <2>3. ASSUME NEW r \in Call, Moved(r, "idle", "sent") PROVE Line!PollNext
    BY <2>3, SentIsAsked DEF Line!PollNext, Line!Ask, Asked, Ended, Drawing, Swaps
  <2>4. ASSUME NEW r \in Call, Delivered(r) PROVE Line!PollNext
    <3>1. CASE Drawing' = Append(Drawing, r) /\ Ended' = Ended
      BY <2>4, <3>1, DeliveredCounts
      DEF Line!PollNext, Line!AddPoint, Line!Shown, Asked, Ended, Drawing, Swaps
    <3>2. CASE Drawing' = Drawing /\ Ended' = Ended \cup {r}
      BY <2>4, <3>2, DeliveredCounts
      DEF Line!PollNext, Line!Pass, Line!Shown, Asked, Ended, Drawing, Swaps
    <3>3. QED BY <2>4, <3>1, <3>2, DeliveredCounts
  <2>5. QED BY <2>1, <2>2, <2>3, <2>4, StepKinds
<1>3. QED
  BY <1>1, <1>2, LineShape, PTL DEF Spec, LineIsPolled, Line!PollSpec

-----------------------------------------------------------------------------
\* What the requests hold, with their phases and answers.
FreeInv ==
  /\ LineInv
  /\ DOMAIN held = Call /\ DOMAIN answer = Call
  /\ CallbacksFree

\* Steps that change neither what is held nor an answer, and let no callback
\* answer.
LEMMA QuietKeepsFree ==
  ASSUME FreeInv, LineInv', UNCHANGED <<asks, held, answer>>,
         \A q \in Call : phase'[q] \in {"answered", "shown"} => phase[q] \in {"answered", "shown"}
  PROVE  FreeInv'
BY DEF FreeInv, CallbacksFree

LEMMA FreeStep ==
  ASSUME FreeInv, [Next]_vars
  PROVE  FreeInv'
<1>1. LineInv'
  BY LineStep DEF FreeInv
<1>2. phase \in [Call -> Phase]
  BY DEF FreeInv, LineInv, Requests
<1>3. CASE UNCHANGED webVars
  BY <1>1, <1>3, QuietKeepsFree DEF webVars
<1>4. CASE Die
  BY <1>1, <1>4, QuietKeepsFree DEF Die
<1>5. ASSUME NEW r \in Call, Tick(r) \/ Lose(r) \/ Deliver(r) \/ Syscall(r) \/ SecondCall(r)
      PROVE  FreeInv'
  <2>1. UNCHANGED <<asks, held, answer>>
    BY <1>5 DEF Tick, Lose, Deliver, Syscall, SecondCall
  <2>2. \A q \in Call : phase'[q] \in {"answered", "shown"} => phase[q] \in {"answered", "shown"}
    BY <1>2, <1>5 DEF Tick, Lose, Deliver, Syscall, SecondCall, To
  <2>3. QED BY <1>1, <2>1, <2>2, QuietKeepsFree
<1>6. ASSUME NEW r \in Call, Receive(r) PROVE FreeInv'
  <2>1. /\ phase'[r] = "call" /\ UNCHANGED <<asks, answer>>
        /\ DOMAIN held' = Call
        /\ \A q \in Call : q # r => phase'[q] = phase[q] /\ held'[q] = held[q]
    BY <1>2, <1>6 DEF Receive, To, FreeInv
  <2>2. QED BY <1>1, <2>1 DEF FreeInv, CallbacksFree
<1>7. ASSUME NEW r \in Call, Respond(r) PROVE FreeInv'
  <2>1. PICK e \in Endings(r) :
          /\ answer' = [answer EXCEPT ![r] = e.answer]
          /\ held' = [held EXCEPT ![r] = e.left]
    BY <1>7 DEF Respond
  <2>2. e.left = {} \/ (asks[r] = "use_mem_top_procs" /\ e.answer.status = 500)
    <3>1. CASE ret[r] # 0
      BY <3>1 DEF Endings, Error
    <3>2. CASE ret[r] = 0
      BY <3>2 DEF Endings, Error
    <3>3. QED BY <3>1, <3>2
  <2>3. /\ UNCHANGED asks
        /\ DOMAIN held' = Call /\ DOMAIN answer' = Call
        /\ held'[r] = e.left /\ answer'[r] = e.answer
        /\ \A q \in Call : q # r => /\ phase'[q] = phase[q] /\ held'[q] = held[q]
                                    /\ answer'[q] = answer[q]
    BY <1>2, <1>7, <2>1 DEF Respond, To, FreeInv
  <2>4. QED BY <1>1, <2>2, <2>3 DEF FreeInv, CallbacksFree
<1>8. QED
  BY <1>3, <1>4, <1>5, <1>6, <1>7 DEF Next, Serve, vars

\* A callback that has answered has freed what it allocated, but for the
\* early returns of callback_use_mem_top_procs (CallbacksFree, api.c:113-131):
\* in particular no error path of the other four callbacks leaks, whatever
\* calls the numbers reach.
THEOREM CallbacksFreeAll == Spec => []CallbacksFree
<1>1. Init /\ LineInv => FreeInv
  BY DEF Init, FreeInv, CallbacksFree
<1>2. FreeInv /\ [Next]_vars => FreeInv'
  BY FreeStep
<1>3. FreeInv => CallbacksFree
  BY DEF FreeInv
<1>4. QED BY <1>1, <1>2, <1>3, LineShape, PTL DEF Spec

-----------------------------------------------------------------------------
(* The requests, one by one *)

Name == MemCall \cup OtherCall

Note == [name : Name, ret : Int, began : Nat]
Response == [status : {200, 500}, body : Seq(Int)]
Dot == [of : Call, figures : Seq(Int)]

\* The types of what the API and the dashboard keep.
WebTypes ==
  /\ table \in Tables /\ asks \in Plans
  /\ phase \in [Call -> Phase]
  /\ leg \in [Call -> Nat]
  /\ sys \in [Call -> Name \cup {"none"}]
  /\ made \in [Call -> Seq(Note)]
  /\ phys \in [Call -> Nat]
  /\ held \in [Call -> SUBSET {"info", "json", "array"}]
  /\ answer \in [Call -> Response]
  /\ chart \in [Endpoint -> Seq(Dot)]
  /\ api \in {"up", "overwritten", "down"}

\* How far a request is, with its calls.
Progress(r) ==
  /\ leg[r] \in DOMAIN Numbers[asks[r]]
  /\ phase[r] \in {"idle", "sent"} => sys[r] = "none" /\ leg[r] = 1 /\ made[r] = <<>>
  /\ phase[r] = "call" => Len(made[r]) = leg[r] - 1 /\ (leg[r] = 1 => sys[r] = "none")
  /\ phase[r] = "kernel" => Len(made[r]) = leg[r] - 1 /\ sys[r] = table[Number(r)]
  /\ phase[r] \in {"call", "kernel"} => Len(out[r]) >= Allocated[asks[r]]
  /\ step[r] # 0 => phase[r] \in {"kernel", "lost"} /\ sys[r] = table[Number(r)]

MonShape == MemShape /\ WebTypes /\ \A r \in Call : Progress(r)

\* Nothing of a request changes.
Same(r) ==
  /\ Untouched(r)
  /\ phase'[r] = phase[r] /\ leg'[r] = leg[r] /\ made'[r] = made[r] /\ phys'[r] = phys[r]
  /\ held'[r] = held[r] /\ answer'[r] = answer[r]

LEMMA SameProgress ==
  ASSUME NEW r \in Call, Progress(r), Same(r), UNCHANGED <<table, asks>>
  PROVE  Progress(r)'
BY DEF Progress, Same, Untouched, Number

\* The numbers that the callbacks call.
LEMMA NumbersAre ==
  ASSUME NEW e \in Endpoint
  PROVE  /\ Numbers[e] \in Seq(548 .. 552) /\ Len(Numbers[e]) \in {1, 2}
         /\ DOMAIN Numbers[e] = 1 .. Len(Numbers[e])
         /\ Len(Numbers[e]) = 2 <=> e = "use_swap"
         /\ \A k \in DOMAIN Numbers[e] : Numbers[e][k] \in 548 .. 557
         /\ Allocated[e] \in Nat /\ Allocated[e] >= 2
<1>1. CASE e = "use_swap"
  <2>1. Numbers[e] = <<548, 549>> /\ Allocated[e] = 4
    BY <1>1 DEF Numbers, Allocated
  <2>2. Len(<<548, 549>>) = 2 /\ <<548, 549>> \in Seq(548 .. 552)
    OBVIOUS
  <2>3. QED BY <1>1, <2>1, <2>2
<1>2. CASE e # "use_swap"
  <2>1. PICK n \in 548 .. 552 : Numbers[e] = <<n>>
    BY <1>2 DEF Numbers, Endpoint
  <2>2. Allocated[e] \in {2, 4, 25}
    BY <1>2 DEF Allocated, Endpoint
  <2>3. Len(<<n>>) = 1 /\ <<n>> \in Seq(548 .. 552)
    OBVIOUS
  <2>4. QED BY <1>2, <2>1, <2>2, <2>3
<1>3. QED BY <1>1, <1>2

\* The next call of a request is one of the kernel's.
LEMMA NumberCalls ==
  ASSUME MonShape, NEW r \in Call
  PROVE  /\ asks[r] \in Endpoint /\ leg[r] \in 1 .. Len(Numbers[asks[r]])
         /\ table[Number(r)] \in Name
<1>1. asks[r] \in Endpoint
  BY MonitorAssumption DEF MonShape, WebTypes
<1>2. leg[r] \in DOMAIN Numbers[asks[r]]
  BY DEF MonShape, Progress
<1>3. Number(r) \in 548 .. 557
  BY <1>1, <1>2, NumbersAre DEF Number
<1>4. table[Number(r)] \in Name
  BY <1>3, MonitorAssumption DEF MonShape, WebTypes, Name
<1>5. QED BY <1>1, <1>2, <1>4, NumbersAre

\* Steps that leave the calls alone.
LEMMA IdleShape ==
  ASSUME MonShape, UNCHANGED webVars, System \/ UNCHANGED memVars
  PROVE  MonShape'
<1>1. MemShape'
  BY MemShapeStep DEF MonShape, MemNext
<1>2. UNCHANGED callVars
  BY SystemKeeps DEF MonShape, memVars
<1>3. UNCHANGED <<table, asks, phase, leg, made, phys, held, answer, chart, api>>
  BY DEF webVars
<1>4. WebTypes'
  BY <1>2, <1>3 DEF MonShape, WebTypes, callVars
<1>5. \A r \in Call : Same(r)
  BY <1>2, <1>3 DEF callVars, Same, Untouched
<1>6. QED BY <1>1, <1>3, <1>4, <1>5, SameProgress DEF MonShape

\* The timer fires, or a request or an answer is lost.
LEMMA TickShape ==
  ASSUME MonShape, NEW r \in Call, Tick(r) \/ Lose(r)
  PROVE  MonShape' /\ \A q \in Call : q # r => Same(q)
<1>1. /\ UNCHANGED memVars /\ UNCHANGED <<table, asks, leg, made, phys, held, answer, chart, api>>
      /\ \/ To(r, "idle", "sent") \/ To(r, "sent", "lost") \/ To(r, "answered", "lost")
  BY DEF Tick, Lose
<1>2. MemShape' /\ UNCHANGED callVars
  BY <1>1, MemShapeStep DEF MonShape, memVars
<1>3. phase' \in [Call -> Phase] /\ \A q \in Call : q # r => phase'[q] = phase[q]
  <2>1. PICK m \in {"sent", "lost"} : phase' = [phase EXCEPT ![r] = m]
    BY <1>1 DEF To
  <2>2. phase \in [Call -> Phase] /\ m \in Phase
    BY DEF MonShape, WebTypes, Phase
  <2>3. QED BY <2>1, <2>2
<1>4. WebTypes'
  BY <1>1, <1>2, <1>3 DEF MonShape, WebTypes, callVars
<1>5. \A q \in Call : q # r => Same(q)
  BY <1>1, <1>2, <1>3 DEF Same, Untouched, callVars
<1>6. ASSUME NEW q \in Call PROVE Progress(q)'
  <2>1. CASE q # r
    BY <1>1, <1>5, <2>1, SameProgress DEF MonShape
  <2>2. CASE q = r
    <3>1. /\ phase[r] \in {"idle", "sent", "answered"} /\ phase'[r] \in {"sent", "lost"}
          /\ phase'[r] = "sent" => phase[r] = "idle"
      BY <1>1 DEF To, MonShape, WebTypes
    <3>2. step[r] = 0 /\ Progress(r)
      BY <3>1 DEF MonShape, Progress
    <3>3. QED BY <1>1, <1>2, <2>2, <3>1, <3>2 DEF Progress, callVars, Number
  <2>3. QED BY <2>1, <2>2
<1>7. QED BY <1>5, <1>2, <1>4, <1>6 DEF MonShape

\* The API dies.
LEMMA DieShape ==
  ASSUME MonShape, Die
  PROVE  MonShape'
<1>1. /\ UNCHANGED memVars /\ UNCHANGED <<table, asks, leg, made, phys, held, answer, chart>>
      /\ phase' = [r \in Call |-> IF phase[r] \in {"call", "kernel"} THEN "lost" ELSE phase[r]]
      /\ api' = "down"
  BY DEF Die
<1>2. MemShape' /\ UNCHANGED callVars
  BY <1>1, MemShapeStep DEF MonShape, memVars
<1>3. phase' \in [Call -> Phase]
  BY <1>1 DEF MonShape, WebTypes, Phase
<1>4. WebTypes'
  BY <1>1, <1>2, <1>3 DEF MonShape, WebTypes, callVars
<1>5. ASSUME NEW q \in Call PROVE Progress(q)'
  <2>1. Progress(q) /\ phase'[q] = IF phase[q] \in {"call", "kernel"} THEN "lost" ELSE phase[q]
    BY <1>1 DEF MonShape
  <2>2. UNCHANGED <<sys, step, out, asks, leg, made, table>>
    BY <1>1, <1>2 DEF callVars
  <2>3. QED BY <2>1, <2>2 DEF Progress, Number
<1>6. QED BY <1>2, <1>4, <1>5 DEF MonShape

\* The buffer of a callback.
LEMMA ZerosTyped ==
  ASSUME NEW n \in Nat
  PROVE  [k \in 1 .. n |-> 0] \in Seq(Nat) /\ Len([k \in 1 .. n |-> 0]) = n
OBVIOUS

\* Steps outside of the calls that change a buffer, a result or a name keep the
\* shape of MemInfo's state.
LEMMA OutsideShape ==
  ASSUME MemShape, UNCHANGED <<envVars, step, sample, base>>,
         DOMAIN sys' = Call, \A c \in Call : step[c] # 0 => sys'[c] = sys[c],
         ret' \in [Call -> Int], out' \in [Call -> Seq(Nat)]
  PROVE  MemShape'
<1>1. Memory' /\ Bases'
  BY DEF envVars, MemShape, Memory, Bases, Used
<1>2. Calls'
  BY DEF MemShape, Calls, Small
<1>3. QED BY <1>1, <1>2 DEF MemShape

\* A callback starts.
LEMMA ReceiveShape ==
  ASSUME MonShape, NEW r \in Call, Receive(r)
  PROVE  MonShape' /\ \A q \in Call : q # r => Same(q)
<1> DEFINE zeros == [k \in 1 .. Allocated[asks[r]] |-> 0]
<1>1. /\ phase[r] = "sent" /\ phase' = [phase EXCEPT ![r] = "call"]
      /\ out' = [out EXCEPT ![r] = zeros]
      /\ held' = [held EXCEPT ![r] = {"info"}]
      /\ UNCHANGED <<envVars, sys, step, sample, ret, base, table, asks, leg, made, phys, answer,
                     chart, api>>
  BY DEF Receive, To
<1>2. zeros \in Seq(Nat) /\ Len(zeros) = Allocated[asks[r]] /\ Allocated[asks[r]] \in Nat
  BY NumberCalls, NumbersAre, ZerosTyped
<1> HIDE DEF zeros
<1>3. out' \in [Call -> Seq(Nat)]
  BY <1>1, <1>2 DEF MonShape, MemShape, Calls
<1>4. MemShape'
  <2>1. MemShape /\ ret' \in [Call -> Int] /\ DOMAIN sys' = Call
    BY <1>1 DEF MonShape, MemShape, Calls
  <2>2. QED BY <1>1, <1>3, <2>1, OutsideShape
<1>5. phase' \in [Call -> Phase] /\ held' \in [Call -> SUBSET {"info", "json", "array"}]
  BY <1>1 DEF MonShape, WebTypes, Phase
<1>6. WebTypes'
  BY <1>1, <1>5 DEF MonShape, WebTypes
<1>7. \A q \in Call : q # r => Same(q)
  BY <1>1 DEF Same, Untouched, MonShape, WebTypes, MemShape, Calls
<1>8. ASSUME NEW q \in Call PROVE Progress(q)'
  <2>1. CASE q # r
    BY <1>1, <1>7, <2>1, SameProgress DEF MonShape
  <2>2. CASE q = r
    <3>1. phase'[r] = "call" /\ out'[r] = zeros
      BY <1>1 DEF MonShape, WebTypes, MemShape, Calls
    <3>2. Progress(r) /\ step[r] = 0 /\ Len(<<>>) = 0
      BY <1>1 DEF MonShape, Progress
    <3>3. QED BY <1>1, <1>2, <2>2, <3>1, <3>2 DEF Progress, Number
  <2>3. QED BY <2>1, <2>2
<1>9. QED BY <1>7, <1>4, <1>6, <1>8 DEF MonShape

LEMMA ResultsInt ==
  ASSUME NEW s \in OtherCall
  PROVE  Result(s) \subseteq Int
<1>1. CASE s = "use_mem_top_procs"
  <2>1. Result(s) = {0} \cup (IF "alloc" \in Failures THEN {ENOMEM} ELSE {})
    BY <1>1 DEF Result
  <2>2. QED BY <2>1 DEF ENOMEM
<1>2. CASE s \in {"my_encrypt", "my_decrypt"}
  <2>1. Result(s) = {-2, -14, -22}
    BY <1>2 DEF Result
  <2>2. QED BY <2>1
<1>3. CASE s = "lastkernlogs"
  <2>1. Result(s) = {1, -22}
    BY <1>3 DEF Result
  <2>2. QED BY <2>1
<1>4. CASE s \in {"currenttimeseg", "systemuptimeseg"}
  <2>1. Result(s) = {1}
    BY <1>4 DEF Result
  <2>2. QED BY <2>1
<1>5. QED BY <1>1, <1>2, <1>3, <1>4 DEF OtherCall

LEMMA NamesApart == MemCall \cap OtherCall = {} /\ "none" \notin Name
BY DEF MemCall, OtherCall, Name

\* A call that is not of MemInfo has been made, with a result.
Other(r, s, v) ==
  /\ s \in OtherCall /\ v \in Result(s)
  /\ ret' = [ret EXCEPT ![r] = v]
  /\ sys' = [sys EXCEPT ![r] = s]
  /\ UNCHANGED <<envVars, step, sample, out, base>>

LEMMA SyscallKinds ==
  ASSUME NEW r \in Call, Syscall(r)
  PROVE  /\ To(r, "call", "kernel")
         /\ UNCHANGED <<table, asks, leg, made, phys, held, answer, chart>>
         /\ \/ table[Number(r)] \in MemCall /\ Begin(r, table[Number(r)]) /\ UNCHANGED api
            \/ /\ \E v : Other(r, table[Number(r)], v)
               /\ \/ UNCHANGED api
                  \/ table[Number(r)] = "lastkernlogs" /\ api' = "overwritten"
BY DEF Syscall, Other

LEMMA SyscallShape ==
  ASSUME MonShape, NEW r \in Call, Syscall(r)
  PROVE  MonShape' /\ \A q \in Call : q # r => Same(q)
<1> DEFINE s == table[Number(r)]
<1>1. /\ phase[r] = "call" /\ phase' = [phase EXCEPT ![r] = "kernel"]
      /\ UNCHANGED <<table, asks, leg, made, phys, held, answer, chart>>
      /\ \/ s \in MemCall /\ Begin(r, s) /\ UNCHANGED api
         \/ /\ \E v : Other(r, s, v)
            /\ UNCHANGED api \/ (s = "lastkernlogs" /\ api' = "overwritten")
  BY SyscallKinds DEF To
<1>2. s \in Name /\ step[r] = 0 /\ Progress(r)
  BY <1>1, NumberCalls DEF MonShape, Progress
<1> HIDE DEF s
<1>3. /\ MemShape' /\ sys' = [sys EXCEPT ![r] = s] /\ out' = out
      /\ \A q \in Call : q # r => Untouched(q)
  <2>1. CASE s \in MemCall /\ Begin(r, s)
    BY <2>1, BeginKeeps DEF MonShape, Begin, Untouched, MemShape, Calls, Bases
  <2>2. ASSUME NEW v, Other(r, s, v)
        PROVE  /\ MemShape' /\ sys' = [sys EXCEPT ![r] = s] /\ out' = out
               /\ \A q \in Call : q # r => Untouched(q)
    <3>1. v \in Int
      BY <2>2, ResultsInt DEF Other
    <3>2. DOMAIN sys' = Call /\ ret' \in [Call -> Int] /\ out' \in [Call -> Seq(Nat)]
      BY <2>2, <3>1 DEF Other, MonShape, MemShape, Calls
    <3>3. \A q \in Call : q # r => sys'[q] = sys[q] /\ ret'[q] = ret[q]
      BY <2>2 DEF Other, MonShape, MemShape, Calls
    <3>4. MemShape'
      BY <1>2, <2>2, <3>2, <3>3, OutsideShape DEF Other, MonShape
    <3>5. QED BY <2>2, <3>3, <3>4 DEF Other, Untouched
  <2>3. QED BY <1>1, <2>1, <2>2
<1>4. phase' \in [Call -> Phase] /\ sys' \in [Call -> Name \cup {"none"}]
  BY <1>1, <1>2, <1>3 DEF MonShape, WebTypes, Phase
<1>5. WebTypes'
  BY <1>1, <1>4 DEF MonShape, WebTypes
<1>6. \A q \in Call : q # r => Same(q)
  BY <1>1, <1>3 DEF Same, MonShape, WebTypes
<1>7. ASSUME NEW q \in Call PROVE Progress(q)'
  <2>1. CASE q # r
    BY <1>1, <1>6, <2>1, SameProgress DEF MonShape
  <2>2. CASE q = r
    <3>1. phase'[r] = "kernel" /\ sys'[r] = s /\ Number(r)' = Number(r) /\ table' = table
      BY <1>1, <1>3 DEF MonShape, WebTypes, MemShape, Calls, Number
    <3>2. QED BY <1>1, <1>2, <1>3, <2>2, <3>1 DEF Progress, s
  <2>3. QED BY <2>1, <2>2
<1>8. QED BY <1>6, <1>3, <1>5, <1>7 DEF MonShape

\* What a callback notes of a call that has returned.
LEMMA NotedTyped ==
  ASSUME MonShape, NEW r \in Call, phase[r] = "kernel"
  PROVE  /\ Noted(r) \in Seq(Note)
         /\ Len(Noted(r)) = leg[r]
         /\ \A k \in 1 .. leg[r] : Noted(r)[k] =
              IF k = leg[r] THEN [name |-> sys[r], ret |-> ret[r], began |-> base[r].moved]
              ELSE made[r][k]
<1>1. /\ sys[r] \in Name /\ ret[r] \in Int /\ base[r].moved \in Nat
      /\ Len(made[r]) = leg[r] - 1 /\ leg[r] \in Nat
  BY NumberCalls DEF MonShape, Progress, WebTypes, MemShape, Calls, Bases
<1>2. made[r] \in Seq(Note)
  BY DEF MonShape, WebTypes
<1>3. [name |-> sys[r], ret |-> ret[r], began |-> base[r].moved] \in Note
  BY <1>1 DEF Note
<1>4. QED BY <1>1, <1>2, <1>3 DEF Noted

\* The words of the buffer that the callbacks use are there.
LEMMA WordsThere ==
  ASSUME MonShape, NEW r \in Call, phase[r] \in {"call", "kernel"}
  PROVE  out[r] \in Seq(Nat) /\ out[r][1] \in Nat /\ out[r][2] \in Nat
<1>1. out[r] \in Seq(Nat) /\ Len(out[r]) \in Nat
  BY DEF MonShape, MemShape, Calls
<1>2. Len(out[r]) >= Allocated[asks[r]]
  BY DEF MonShape, Progress
<1>3. Allocated[asks[r]] \in Nat /\ Allocated[asks[r]] >= 2
  BY NumberCalls, NumbersAre
<1>4. Len(out[r]) >= 2
  BY <1>1, <1>2, <1>3
<1>5. QED BY <1>1, <1>4

LEMMA SecondShape ==
  ASSUME MonShape, NEW r \in Call, SecondCall(r)
  PROVE  MonShape' /\ \A q \in Call : q # r => Same(q)
<1>1. /\ phase[r] = "kernel" /\ phase' = [phase EXCEPT ![r] = "call"]
      /\ made' = [made EXCEPT ![r] = Noted(r)]
      /\ phys' = [phys EXCEPT ![r] = out[r][2]]
      /\ leg' = [leg EXCEPT ![r] = @ + 1]
      /\ step[r] = 0 /\ ~ Last(r)
      /\ UNCHANGED memVars /\ UNCHANGED <<table, asks, held, answer, chart, api>>
  BY DEF SecondCall, To, Returned
<1>2. MemShape' /\ UNCHANGED callVars
  BY <1>1, MemShapeStep DEF MonShape, memVars
<1>3. out[r][2] \in Nat /\ Noted(r) \in Seq(Note) /\ Len(Noted(r)) = leg[r]
  BY <1>1, WordsThere, NotedTyped
<1>4. leg[r] \in Nat /\ leg[r] + 1 \in Nat /\ leg[r] + 1 # 1 /\ leg[r] + 1 \in DOMAIN Numbers[asks[r]]
  BY <1>1, NumberCalls, NumbersAre DEF Last
<1>5. /\ phase' \in [Call -> Phase] /\ phys' \in [Call -> Nat] /\ leg' \in [Call -> Nat]
      /\ made' \in [Call -> Seq(Note)]
  BY <1>1, <1>3, <1>4 DEF MonShape, WebTypes, Phase
<1>6. WebTypes'
  BY <1>1, <1>2, <1>5 DEF MonShape, WebTypes, callVars
<1>7. \A q \in Call : q # r => Same(q)
  BY <1>1, <1>2 DEF Same, Untouched, callVars, MonShape, WebTypes
<1>8. ASSUME NEW q \in Call PROVE Progress(q)'
  <2>1. CASE q # r
    BY <1>1, <1>7, <2>1, SameProgress DEF MonShape
  <2>2. CASE q = r
    <3>1. phase'[r] = "call" /\ leg'[r] = leg[r] + 1 /\ made'[r] = Noted(r)
      BY <1>1 DEF MonShape, WebTypes
    <3>2. step'[r] = 0 /\ out' = out /\ asks' = asks
      BY <1>1, <1>2 DEF callVars
    <3>3. Len(out[r]) >= Allocated[asks[r]]
      BY <1>1 DEF MonShape, Progress
    <3>4. QED BY <1>3, <1>4, <2>2, <3>1, <3>2, <3>3 DEF Progress
  <2>3. QED BY <2>1, <2>2
<1>9. QED BY <1>7, <1>2, <1>6, <1>8 DEF MonShape

\* The figures of an answer are numbers.
LEMMA BodyTyped ==
  ASSUME MonShape, NEW r \in Call, phase[r] \in {"call", "kernel"}
  PROVE  Body(r) \in Seq(Int)
<1>0. phys[r] \in Nat
  BY DEF MonShape, WebTypes
<1>1. out[r] \in Seq(Nat) /\ out[r][1] \in Nat /\ out[r][2] \in Nat
  BY WordsThere
<1>2. UseMemBody(r) \in Seq(Int)
  BY <1>1 DEF UseMemBody
<1>3. UseSwapBody(r) \in Seq(Int)
  BY <1>0, <1>1 DEF UseSwapBody
<1>4. ASSUME NEW x \in Nat PROVE ToInt(x) \in Int
  BY MonitorAssumption DEF ToInt
<1>5. IntBody(r) \in Seq(Int)
  <2>1. ToInt(out[r][1]) \in Int /\ ToInt(out[r][2]) \in Int
    BY <1>1, <1>4
  <2>2. QED BY <2>1 DEF IntBody
<1>6. <<>> \in Seq(Int)
  OBVIOUS
<1>7. asks[r] \in Endpoint
  BY NumberCalls
<1>8. Body(r) \in {UseMemBody(r), UseSwapBody(r), IntBody(r), <<>>}
  BY <1>7 DEF Body, Endpoint
<1>9. QED BY <1>2, <1>3, <1>5, <1>6, <1>8

\* How a callback ends.
LEMMA EndingsTyped ==
  ASSUME MonShape, NEW r \in Call, phase[r] = "kernel", NEW e \in Endings(r)
  PROVE  /\ e.answer \in Response
         /\ e.left \in SUBSET {"info", "json", "array"}
         /\ e.answer = Error \/ (e.answer = Figures(r) /\ ret[r] = 0)
<1>1. Body(r) \in Seq(Int) /\ <<>> \in Seq(Int)
  BY BodyTyped
<1>2. /\ Error \in Response
      /\ Figures(r) \in Response
  BY <1>1 DEF Error, Figures, Response
<1>3. CASE ret[r] # 0
  BY <1>2, <1>3 DEF Endings
<1>4. CASE ret[r] = 0
  BY <1>2, <1>4 DEF Endings
<1>5. QED BY <1>3, <1>4

LEMMA RespondShape ==
  ASSUME MonShape, NEW r \in Call, Respond(r)
  PROVE  MonShape' /\ \A q \in Call : q # r => Same(q)
<1>1. PICK e \in Endings(r) :
        answer' = [answer EXCEPT ![r] = e.answer] /\ held' = [held EXCEPT ![r] = e.left]
  BY DEF Respond
<1>2. /\ phase[r] = "kernel" /\ phase' = [phase EXCEPT ![r] = "answered"]
      /\ made' = [made EXCEPT ![r] = Noted(r)]
      /\ step[r] = 0 /\ Last(r)
      /\ UNCHANGED memVars /\ UNCHANGED <<table, asks, leg, phys, chart, api>>
  BY DEF Respond, To, Returned
<1>3. MemShape' /\ UNCHANGED callVars
  BY <1>2, MemShapeStep DEF MonShape, memVars
<1>4. /\ phase' \in [Call -> Phase] /\ held' \in [Call -> SUBSET {"info", "json", "array"}]
      /\ made' \in [Call -> Seq(Note)]
      /\ answer' \in [Call -> Response]
  <2>1. /\ e.answer \in Response
        /\ e.left \in SUBSET {"info", "json", "array"}
    BY <1>2, EndingsTyped
  <2>2. Noted(r) \in Seq(Note)
    BY <1>2, NotedTyped
  <2>3. QED BY <1>1, <1>2, <2>1, <2>2 DEF MonShape, WebTypes, Phase
<1>5. WebTypes'
  BY <1>2, <1>3, <1>4 DEF MonShape, WebTypes, callVars
<1>6. \A q \in Call : q # r => Same(q)
  BY <1>1, <1>2, <1>3 DEF Same, Untouched, callVars, MonShape, WebTypes
<1>7. ASSUME NEW q \in Call PROVE Progress(q)'
  <2>1. CASE q # r
    BY <1>2, <1>6, <2>1, SameProgress DEF MonShape
  <2>2. CASE q = r
    <3>1. phase'[r] = "answered" /\ step'[r] = 0 /\ leg'[r] = leg[r] /\ asks' = asks
      BY <1>2, <1>3 DEF MonShape, WebTypes, callVars
    <3>2. QED BY <2>2, <3>1 DEF MonShape, Progress
  <2>3. QED BY <2>1, <2>2
<1>8. QED BY <1>6, <1>3, <1>5, <1>7 DEF MonShape

LEMMA BothLengths ==
  ASSUME NEW a \in Seq(Nat), NEW b \in Seq(Nat)
  PROVE  Len(a \o b) = Len(a) + Len(b)
OBVIOUS

\* A buffer keeps its length when what is copied to it fits; otherwise it is
\* as long as what is copied.
LEMMA CopiedLength ==
  ASSUME MemShape, NEW c \in Call, CopyOut(c)
  PROVE  /\ Len(out'[c]) >= Len(out[c])
         /\ Len(Info(sample[c])[sys[c]]) <= Len(out[c]) => Len(out'[c]) = Len(out[c])
<1> DEFINE info == Info(sample[c])[sys[c]]
<1>1. info \in Seq(Nat) /\ out[c] \in Seq(Nat)
  BY CopiedWords DEF MemShape, Calls
<1>2. \E k \in IF "copy" \in Failures THEN 0 .. Len(info) ELSE {Len(info)} :
        out' = [out EXCEPT ![c] = SubSeq(info, 1, k) \o SubSeq(@, k + 1, Len(@))]
  BY DEF CopyOut
<1> HIDE DEF info
<1>3. PICK k \in 0 .. Len(info) :
        out' = [out EXCEPT ![c] = SubSeq(info, 1, k) \o SubSeq(@, k + 1, Len(@))]
  <2>1. Len(info) \in 0 .. Len(info)
    BY <1>1
  <2>2. QED BY <1>2, <2>1
<1>4. out'[c] = SubSeq(info, 1, k) \o SubSeq(out[c], k + 1, Len(out[c]))
  BY <1>3 DEF MemShape, Calls
<1> DEFINE a == SubSeq(info, 1, k)
           b == SubSeq(out[c], k + 1, Len(out[c]))
<1>5. a \in Seq(Nat) /\ Len(a) = k
  BY <1>1
<1>6. b \in Seq(Nat) /\ Len(b) = IF k <= Len(out[c]) THEN Len(out[c]) - k ELSE 0
  BY <1>1
<1>7. out'[c] = a \o b
  BY <1>4
<1> HIDE DEF a, b
<1>8. Len(info) \in Nat /\ Len(out[c]) \in Nat
  BY <1>1
<1>9. Len(out'[c]) = IF k <= Len(out[c]) THEN Len(out[c]) ELSE k
  <2>1. Len(a \o b) = Len(a) + Len(b)
    BY <1>5, <1>6, BothLengths
  <2>2. QED BY <1>5, <1>6, <1>7, <1>8, <2>1
<1>10. QED BY <1>8, <1>9 DEF info

\* A step of a call changes its buffer only by copying out.
LEMMA CallStepBuffer ==
  ASSUME MemShape, NEW c \in Call, CallStep(c)
  PROVE  UNCHANGED out \/ CopyOut(c)
BY CallStepKinds

LEMMA CallStepShape ==
  ASSUME MonShape, NEW r \in Call, CallStep(r), UNCHANGED webVars
  PROVE  MonShape' /\ \A q \in Call : q # r => Same(q)
<1>1. /\ step[r] # 0 /\ UNCHANGED <<envVars, sys, base>>
      /\ \A q \in Call : q # r => Untouched(q)
      /\ Going(r) \/ Finishing(r) \/ \E x \in Int \ {0} : Return(r, x)
  BY CallStepWays DEF MonShape
<1>2. MemShape'
  BY CallStepKeeps DEF MonShape
<1>3. UNCHANGED <<table, asks, phase, leg, made, phys, held, answer, chart, api>>
  BY DEF webVars
<1>4. WebTypes'
  BY <1>1, <1>3 DEF MonShape, WebTypes
<1>5. \A q \in Call : q # r => Same(q)
  BY <1>1, <1>3 DEF Same
<1>6. ASSUME NEW q \in Call PROVE Progress(q)'
  <2>1. CASE q # r
    BY <1>3, <1>5, <2>1, SameProgress DEF MonShape
  <2>2. CASE q = r
    <3>1. Len(out'[r]) >= Len(out[r])
      <4>1. CASE UNCHANGED out
        <5>1. Len(out[r]) \in Nat
          BY DEF MonShape, MemShape, Calls
        <5>2. QED BY <4>1, <5>1
      <4>2. CASE CopyOut(r)
        BY <4>2, CopiedLength DEF MonShape
      <4>3. QED BY <4>1, <4>2, CallStepBuffer DEF MonShape
    <3>2. Progress(r) /\ phase[r] \in {"kernel", "lost"} /\ sys[r] = table[Number(r)]
      BY <1>1 DEF MonShape, Progress
    <3>3. phase[r] = "kernel" => Len(out'[r]) >= Allocated[asks[r]]
      <4>1. /\ Len(out[r]) \in Nat /\ Len(out'[r]) \in Nat /\ Allocated[asks[r]] \in Nat
        <5>1. out[r] \in Seq(Nat) /\ out'[r] \in Seq(Nat)
          BY <1>2 DEF MonShape, MemShape, Calls
        <5>2. Allocated[asks[r]] \in Nat
          BY NumberCalls, NumbersAre
        <5>3. QED BY <5>1, <5>2
      <4>2. phase[r] = "kernel" => Len(out[r]) >= Allocated[asks[r]]
        BY <3>2 DEF Progress
      <4>3. QED BY <3>1, <4>1, <4>2
    <3>4. QED BY <1>1, <1>3, <2>2, <3>2, <3>3 DEF Progress, Number
  <2>3. QED BY <2>1, <2>2
<1>7. QED BY <1>5, <1>2, <1>4, <1>6 DEF MonShape

\* The point that an answer is.
LEMMA DrawnTyped ==
  ASSUME MonShape, NEW r \in Call
  PROVE  /\ Drawn(r) \in Seq(Dot)
         /\ \A k \in DOMAIN Drawn(r) :
              Drawn(r)[k] = Point(r) \/ \E j \in DOMAIN chart[asks[r]] : Drawn(r)[k] = chart[asks[r]][j]
<1>1. Point(r) \in Dot
  <2>1. answer[r].body \in Seq(Int)
    BY DEF MonShape, WebTypes, Response
  <2>2. QED BY <2>1 DEF Point, Dot
<1>2. asks[r] \in Endpoint /\ chart[asks[r]] \in Seq(Dot)
  BY NumberCalls DEF MonShape, WebTypes
<1> DEFINE old == chart[asks[r]]
<1> HIDE DEF old
<1>3. old \in Seq(Dot)
  BY <1>2 DEF old
<1>4. /\ Append(old, Point(r)) \in Seq(Dot)
      /\ \A k \in DOMAIN Append(old, Point(r)) :
           \/ Append(old, Point(r))[k] = Point(r)
           \/ k \in DOMAIN old /\ Append(old, Point(r))[k] = old[k]
  BY <1>1, <1>3
<1>5. /\ <<Point(r)>> \in Seq(Dot)
      /\ \A k \in DOMAIN <<Point(r)>> : <<Point(r)>>[k] = Point(r)
  BY <1>1
<1>6. Drawn(r) = Append(old, Point(r)) \/ Drawn(r) = old \/ Drawn(r) = <<Point(r)>>
  BY DEF Drawn, old
<1>7. QED BY <1>3, <1>4, <1>5, <1>6 DEF old

LEMMA DeliverShape ==
  ASSUME MonShape, NEW r \in Call, Deliver(r)
  PROVE  MonShape' /\ \A q \in Call : q # r => Same(q)
<1>1. /\ phase[r] = "answered" /\ phase' = [phase EXCEPT ![r] = "shown"]
      /\ chart' = [chart EXCEPT ![asks[r]] = Drawn(r)]
      /\ UNCHANGED memVars /\ UNCHANGED <<table, asks, leg, made, phys, held, answer, api>>
  BY DEF Deliver, To
<1>2. MemShape' /\ UNCHANGED callVars
  BY <1>1, MemShapeStep DEF MonShape, memVars
<1>3. phase' \in [Call -> Phase] /\ chart' \in [Endpoint -> Seq(Dot)]
  BY <1>1, DrawnTyped DEF MonShape, WebTypes, Phase
<1>4. WebTypes'
  BY <1>1, <1>2, <1>3 DEF MonShape, WebTypes, callVars
<1>5. \A q \in Call : q # r => Same(q)
  BY <1>1, <1>2 DEF Same, Untouched, callVars, MonShape, WebTypes
<1>6. ASSUME NEW q \in Call PROVE Progress(q)'
  <2>1. CASE q # r
    BY <1>1, <1>5, <2>1, SameProgress DEF MonShape
  <2>2. CASE q = r
    <3>1. phase'[r] = "shown" /\ Progress(r) /\ UNCHANGED <<leg, asks, step, sys, table>>
      BY <1>1, <1>2 DEF MonShape, WebTypes, callVars
    <3>2. step[r] = 0
      BY <1>1, <3>1 DEF Progress
    <3>3. QED BY <2>2, <3>1, <3>2 DEF Progress
  <2>3. QED BY <2>1, <2>2
<1>7. QED BY <1>5, <1>2, <1>4, <1>6 DEF MonShape

LEMMA ShapeStep ==
  ASSUME MonShape, [Next]_vars
  PROVE  MonShape'
<1>1. CASE UNCHANGED vars
  BY <1>1, IdleShape DEF vars
<1>2. CASE System /\ UNCHANGED webVars
  BY <1>2, IdleShape
<1>3. CASE Die
  BY <1>3, DieShape
<1>4. ASSUME NEW r \in Call, Tick(r) \/ Serve(r) \/ Deliver(r) \/ Lose(r) PROVE MonShape'
  BY <1>4, TickShape, ReceiveShape, SyscallShape, SecondShape, RespondShape, CallStepShape,
     DeliverShape DEF Serve
<1>5. QED BY <1>1, <1>2, <1>3, <1>4 DEF Next

LEMMA ShapeInit ==
  ASSUME Init
  PROVE  MonShape
<1>1. MemShape
  BY MemShapeInit DEF Init
<1>2. asks \in Plans /\ asks \in [Call -> Endpoint]
  BY MonitorAssumption DEF Init
<1>3. WebTypes
  <2>1. Error \in Response
    <3>1. <<>> \in Seq(Int)
      OBVIOUS
    <3>2. QED BY <3>1 DEF Error, Response
  <2>2. <<>> \in Seq(Note) /\ <<>> \in Seq(Dot)
    OBVIOUS
  <2>3. sys = [c \in Call |-> "none"]
    BY DEF Init, MemInit
  <2>4. sys \in [Call -> Name \cup {"none"}]
    BY <2>3
  <2>5. QED BY <1>2, <2>1, <2>2, <2>4 DEF Init, WebTypes, Phase
<1>4. ASSUME NEW r \in Call PROVE Progress(r)
  <2>1. asks[r] \in Endpoint
    BY <1>2
  <2>2. 1 \in DOMAIN Numbers[asks[r]]
    BY <2>1, NumbersAre
  <2>3. phase[r] = "idle" /\ leg[r] = 1 /\ made[r] = <<>> /\ sys[r] = "none" /\ step[r] = 0
    BY DEF Init, MemInit
  <2>4. QED BY <2>2, <2>3 DEF Progress
<1>5. QED BY <1>1, <1>3, <1>4 DEF MonShape

\* The requests keep their shape: how far a request is says which calls it has
\* made and that its buffer has the words that its callback uses.
THEOREM RequestsShape == Spec => []MonShape
<1>1. Init => MonShape
  BY ShapeInit
<1>2. MonShape /\ [Next]_vars => MonShape'
  BY ShapeStep
<1>3. QED BY <1>1, <1>2, PTL DEF Spec

\* Types of the system with the API and the dashboard, whatever the table of
\* system calls (api.c, dashboard/src/components): TypeOK.
THEOREM MonTypeCorrect == Spec => []TypeOK
<1>1. MonShape => TypeOK
  <2> SUFFICES ASSUME MonShape PROVE TypeOK
    OBVIOUS
  <2>1. MemTypeOK
    BY ShapeTyped DEF MonShape
  <2>2. \A r \in Call : answer[r].status \in {200, 500} /\ answer[r].body \in Seq(Int)
    BY DEF MonShape, WebTypes, Response
  <2>3. ASSUME NEW e \in Endpoint, NEW k \in DOMAIN chart[e]
        PROVE  chart[e][k].of \in Call /\ chart[e][k].figures \in Seq(Int)
    <3>1. chart[e] \in Seq(Dot)
      BY DEF MonShape, WebTypes
    <3>2. chart[e][k] \in Dot
      BY <3>1
    <3>3. QED BY <3>2 DEF Dot
  <2>4. \A r \in Call : leg[r] \in DOMAIN Numbers[asks[r]]
    BY DEF MonShape, Progress
  <2>5. QED BY <2>1, <2>2, <2>3, <2>4 DEF MonShape, WebTypes, TypeOK, Phase, Name, Note
<1>2. QED BY <1>1, RequestsShape, PTL

-----------------------------------------------------------------------------
(* The numbers of the system calls *)

\* How many words a call copies out.
Words == [use_mem |-> 4, use_swap |-> 3, use_pages |-> 2, fault_pages |-> 2]

\* The documented calls of a callback fit its buffer, and the last one is its own.
LEMMA DocumentedCalls ==
  ASSUME NEW e \in Endpoint, NEW k \in DOMAIN Numbers[e]
  PROVE  /\ DOMAIN Documented[e] = DOMAIN Numbers[e]
         /\ Documented[e] = [j \in DOMAIN Numbers[e] |-> Documented[e][j]]
         /\ Documented[e][k] \in MemCall => Words[Documented[e][k]] <= Allocated[e]
         /\ Documented[e][k] # "lastkernlogs"
         /\ Documented[e][Len(Numbers[e])] = e
<1>1. CASE e = "use_swap"
  <2>1. Numbers[e] = <<548, 549>> /\ Documented[e] = <<"use_mem", "use_swap">> /\ Allocated[e] = 4
    BY <1>1 DEF Numbers, Documented, Allocated
  <2>2. Words["use_mem"] = 4 /\ Words["use_swap"] = 3
    BY DEF Words
  <2>3. k \in {1, 2}
    BY <2>1
  <2>4. QED BY <1>1, <2>1, <2>2, <2>3
<1>2. CASE e # "use_swap"
  <2>1. PICK n \in 548 .. 552 : Numbers[e] = <<n>>
    BY <1>2 DEF Numbers, Endpoint
  <2>2. Documented[e] = <<e>> /\ e # "lastkernlogs"
    BY <1>2 DEF Documented, Endpoint
  <2>3. e \in MemCall => Words[e] <= Allocated[e]
    BY <1>2 DEF Words, Allocated, MemCall, Endpoint
  <2>4. k = 1
    BY <2>1
  <2>5. QED BY <2>1, <2>2, <2>3, <2>4
<1>3. QED BY <1>1, <1>2

\* With the repository's table every call of a callback is one that gives an
\* error, and only callback_use_mem_top_procs calls lastkernlogs.
LEMMA RepositoryFails ==
  ASSUME NEW e \in Endpoint, NEW k \in DOMAIN Numbers[e]
  PROVE  /\ RepositoryCalls[e][k] \in OtherCall
         /\ 0 \notin Result(RepositoryCalls[e][k])
         /\ RepositoryCalls[e][k] = "lastkernlogs" => e = "use_mem_top_procs"
<1>1. k = 1 \/ (e = "use_swap" /\ k = 2)
  <2>1. DOMAIN Numbers[e] = 1 .. Len(Numbers[e]) /\ Len(Numbers[e]) \in {1, 2}
        /\ (Len(Numbers[e]) = 2 <=> e = "use_swap")
    BY NumbersAre
  <2>2. k \in 1 .. Len(Numbers[e])
    BY <2>1
  <2>3. CASE Len(Numbers[e]) = 1
    BY <2>2, <2>3
  <2>4. CASE Len(Numbers[e]) = 2
    BY <2>1, <2>2, <2>4
  <2>5. QED BY <2>1, <2>3, <2>4
<1> DEFINE s == RepositoryCalls[e][k]
<1>2. /\ s \in {"my_encrypt", "my_decrypt", "currenttimeseg", "systemuptimeseg", "lastkernlogs"}
      /\ s = "lastkernlogs" => e = "use_mem_top_procs"
  BY <1>1 DEF RepositoryCalls, Endpoint
<1> HIDE DEF s
<1>3. s \in OtherCall /\ 0 \notin Result(s)
  <2>1. CASE s \in {"my_encrypt", "my_decrypt"}
    <3>1. Result(s) = {-2, -14, -22}
      BY <2>1 DEF Result
    <3>2. QED BY <2>1, <3>1 DEF OtherCall
  <2>2. CASE s = "lastkernlogs"
    <3>1. Result(s) = {1, -22}
      BY <2>2 DEF Result
    <3>2. QED BY <2>2, <3>1 DEF OtherCall
  <2>3. CASE s \in {"currenttimeseg", "systemuptimeseg"}
    <3>1. Result(s) = {1}
      BY <2>3 DEF Result
    <3>2. QED BY <2>3, <3>1 DEF OtherCall
  <2>4. QED BY <1>2, <2>1, <2>2, <2>3
<1>4. QED BY <1>2, <1>3 DEF s

\* The table of the running kernel is one of the two.
LEMMA TableGives ==
  ASSUME MonShape
  PROVE  Gives(table, Documented) \/ Gives(table, RepositoryCalls)
BY TablesAssumption DEF MonShape, WebTypes

-----------------------------------------------------------------------------
(* The answers *)

\* A request has made the calls that its numbers stand for; once it has been
\* answered, all of them, and its answer goes with the result of the last.
Answering(r) ==
  /\ \A k \in 1 .. Len(made[r]) : made[r][k].name = table[Numbers[asks[r]][k]]
  /\ phase[r] \in {"kernel", "answered", "shown"} /\ sys[r] \in OtherCall => ret[r] \in Result(sys[r])
  /\ phase[r] \in {"answered", "shown"} =>
       /\ leg[r] = Len(Numbers[asks[r]]) /\ Len(made[r]) = leg[r]
       /\ sys[r] = table[Number(r)]
       /\ made[r][leg[r]].ret = ret[r]
       /\ answer[r] = Error \/ (ret[r] = 0 /\ answer[r] = Figures(r))

AnswersHold == MonShape /\ \A r \in Call : Answering(r)

LEMMA SameAnswering ==
  ASSUME NEW r \in Call, Answering(r), Same(r), UNCHANGED <<table, asks>>
  PROVE  Answering(r)'
<1>1. /\ asks' = asks /\ table' = table /\ phase'[r] = phase[r] /\ leg'[r] = leg[r]
      /\ made'[r] = made[r] /\ phys'[r] = phys[r] /\ answer'[r] = answer[r]
      /\ sys'[r] = sys[r] /\ ret'[r] = ret[r] /\ out'[r] = out[r]
  BY DEF Same, Untouched
<1>2. Figures(r)' = Figures(r)
  BY <1>1 DEF Figures, Body, UseMemBody, UseSwapBody, IntBody
<1>3. Number(r)' = Number(r)
  BY <1>1 DEF Number
<1>4. QED BY <1>1, <1>2, <1>3 DEF Answering

\* Steps of one request leave the others as they are.
LEMMA RequestAlone ==
  ASSUME MonShape, NEW r \in Call, Tick(r) \/ Serve(r) \/ Deliver(r) \/ Lose(r)
  PROVE  /\ MonShape' /\ UNCHANGED <<table, asks>>
         /\ \A q \in Call : q # r => Same(q)
<1>1. MonShape' /\ \A q \in Call : q # r => Same(q)
  BY TickShape, ReceiveShape, SyscallShape, SecondShape, RespondShape, CallStepShape,
     DeliverShape DEF Serve
<1>2. UNCHANGED <<table, asks>>
  BY DEF Tick, Serve, Deliver, Lose, Receive, Syscall, SecondCall, Respond, webVars
<1>3. QED BY <1>1, <1>2

\* In steps that do not answer, the claim about an answer is one of the same
\* request answered before.
LEMMA TickAnswering ==
  ASSUME AnswersHold, NEW r \in Call, Tick(r) \/ Lose(r) \/ Receive(r)
  PROVE  Answering(r)'
<1>1. /\ UNCHANGED <<table, asks, made>>
      /\ \/ To(r, "idle", "sent") \/ To(r, "sent", "lost") \/ To(r, "answered", "lost")
         \/ To(r, "sent", "call")
  BY DEF Tick, Lose, Receive
<1>2. phase'[r] \in {"sent", "lost", "call"}
  BY <1>1 DEF To, AnswersHold, MonShape, WebTypes
<1>3. Answering(r)
  BY DEF AnswersHold
<1>4. QED BY <1>1, <1>2, <1>3 DEF Answering

LEMMA DieAnswering ==
  ASSUME AnswersHold, Die, NEW r \in Call
  PROVE  Answering(r)'
<1>1. Answering(r) /\ UNCHANGED <<table, asks, leg, made, phys, answer, sys, ret, out>>
  BY DEF AnswersHold, Die, memVars, callVars
<1>2. phase'[r] = IF phase[r] \in {"call", "kernel"} THEN "lost" ELSE phase[r]
  BY DEF Die
<1>3. CASE phase'[r] = "lost"
  BY <1>1, <1>3 DEF Answering
<1>4. CASE phase'[r] = phase[r]
  <2>1. Figures(r)' = Figures(r) /\ Number(r)' = Number(r)
    BY <1>1 DEF Figures, Body, UseMemBody, UseSwapBody, IntBody, Number
  <2>2. QED BY <1>1, <1>4, <2>1 DEF Answering
<1>5. QED BY <1>2, <1>3, <1>4

LEMMA SyscallAnswering ==
  ASSUME AnswersHold, NEW r \in Call, Syscall(r)
  PROVE  Answering(r)'
<1> DEFINE s == table[Number(r)]
<1>1. /\ phase' = [phase EXCEPT ![r] = "kernel"]
      /\ UNCHANGED <<table, asks, made>>
      /\ (s \in MemCall /\ Begin(r, s)) \/ \E v : Other(r, s, v)
  BY SyscallKinds DEF To
<1> HIDE DEF s
<1>2. phase'[r] = "kernel" /\ Answering(r) /\ DOMAIN sys = Call /\ DOMAIN ret = Call
  BY <1>1 DEF AnswersHold, MonShape, WebTypes, MemShape, Calls
<1>3. sys'[r] \in OtherCall => ret'[r] \in Result(sys'[r])
  <2>1. CASE s \in MemCall /\ Begin(r, s)
    BY <1>2, <2>1, NamesApart DEF Begin
  <2>2. ASSUME NEW v, Other(r, s, v)
        PROVE  ret'[r] \in Result(sys'[r])
    BY <1>2, <2>2 DEF Other
  <2>3. QED BY <1>1, <2>1, <2>2
<1>4. QED BY <1>1, <1>2, <1>3 DEF Answering, Result

\* What a callback has noted are the calls of its numbers.
LEMMA NotedNames ==
  ASSUME AnswersHold, NEW r \in Call, phase[r] = "kernel"
  PROVE  \A k \in 1 .. Len(Noted(r)) : Noted(r)[k].name = table[Numbers[asks[r]][k]]
<1>1. /\ Len(Noted(r)) = leg[r]
      /\ \A k \in 1 .. leg[r] : Noted(r)[k] =
           IF k = leg[r] THEN [name |-> sys[r], ret |-> ret[r], began |-> base[r].moved]
           ELSE made[r][k]
  BY NotedTyped DEF AnswersHold
<1>2. Answering(r) /\ Len(made[r]) = leg[r] - 1 /\ sys[r] = table[Number(r)] /\ leg[r] \in Nat
  BY DEF AnswersHold, MonShape, Progress, WebTypes
<1>3. ASSUME NEW k \in 1 .. leg[r] PROVE Noted(r)[k].name = table[Numbers[asks[r]][k]]
  <2>1. CASE k = leg[r]
    BY <1>1, <1>2, <2>1 DEF Number
  <2>2. CASE k # leg[r]
    <3>1. k \in 1 .. Len(made[r])
      BY <1>2, <2>2
    <3>2. made[r][k].name = table[Numbers[asks[r]][k]]
      BY <1>2, <3>1 DEF Answering
    <3>3. QED BY <1>1, <2>2, <3>2
  <2>3. QED BY <2>1, <2>2
<1>4. QED BY <1>1, <1>3

LEMMA SecondAnswering ==
  ASSUME AnswersHold, NEW r \in Call, SecondCall(r)
  PROVE  Answering(r)'
<1>1. /\ phase[r] = "kernel" /\ phase' = [phase EXCEPT ![r] = "call"]
      /\ made' = [made EXCEPT ![r] = Noted(r)]
      /\ UNCHANGED <<table, asks>>
  BY DEF SecondCall, To
<1>2. phase'[r] = "call" /\ made'[r] = Noted(r)
  BY <1>1 DEF AnswersHold, MonShape, WebTypes
<1>3. QED BY <1>1, <1>2, NotedNames DEF Answering

LEMMA RespondAnswering ==
  ASSUME AnswersHold, NEW r \in Call, Respond(r)
  PROVE  Answering(r)'
<1>1. PICK e \in Endings(r) : answer' = [answer EXCEPT ![r] = e.answer]
  BY DEF Respond
<1>2. /\ phase[r] = "kernel" /\ phase' = [phase EXCEPT ![r] = "answered"]
      /\ made' = [made EXCEPT ![r] = Noted(r)]
      /\ Last(r)
      /\ UNCHANGED <<sys, ret, out, table, asks, leg, phys>>
  BY DEF Respond, To, memVars, callVars
<1>3. phase'[r] = "answered" /\ made'[r] = Noted(r) /\ answer'[r] = e.answer
  BY <1>1, <1>2 DEF AnswersHold, MonShape, WebTypes
<1>4. e.answer = Error \/ (e.answer = Figures(r) /\ ret[r] = 0)
  BY <1>2, EndingsTyped DEF AnswersHold
<1>5. Figures(r)' = Figures(r) /\ Number(r)' = Number(r)
  BY <1>2 DEF Figures, Body, UseMemBody, UseSwapBody, IntBody, Number
<1>6. /\ Len(Noted(r)) = leg[r] /\ leg[r] \in 1 .. leg[r]
      /\ Noted(r)[leg[r]] = [name |-> sys[r], ret |-> ret[r], began |-> base[r].moved]
  <2>1. leg[r] \in 1 .. Len(Numbers[asks[r]]) /\ leg[r] \in Nat
    BY NumberCalls DEF AnswersHold, MonShape, WebTypes
  <2>2. leg[r] \in 1 .. leg[r]
    BY <2>1
  <2>3. QED BY <1>2, <2>2, NotedTyped DEF AnswersHold
<1>7. sys[r] = table[Number(r)] /\ Answering(r)
  BY <1>2 DEF AnswersHold, MonShape, Progress
<1>8. \A k \in 1 .. Len(made'[r]) : made'[r][k].name = table'[Numbers[asks'[r]][k]]
  BY <1>2, <1>3, NotedNames
<1>9. sys'[r] \in OtherCall => ret'[r] \in Result(sys'[r])
  BY <1>2, <1>7 DEF Answering
<1>10. QED
  BY <1>2, <1>3, <1>4, <1>5, <1>6, <1>7, <1>8, <1>9 DEF Answering, Last, Error, Result

LEMMA DeliverAnswering ==
  ASSUME AnswersHold, NEW r \in Call, Deliver(r)
  PROVE  Answering(r)'
<1>1. /\ phase[r] = "answered" /\ phase' = [phase EXCEPT ![r] = "shown"]
      /\ UNCHANGED <<sys, ret, out, table, asks, leg, made, phys, answer>>
  BY DEF Deliver, To, memVars, callVars
<1>2. phase'[r] = "shown" /\ Answering(r)
  BY <1>1 DEF AnswersHold, MonShape, WebTypes
<1>3. Figures(r)' = Figures(r) /\ Number(r)' = Number(r)
  BY <1>1 DEF Figures, Body, UseMemBody, UseSwapBody, IntBody, Number
<1>4. QED BY <1>1, <1>2, <1>3 DEF Answering

LEMMA CallStepAnswering ==
  ASSUME AnswersHold, NEW r \in Call, CallStep(r), UNCHANGED webVars
  PROVE  Answering(r)'
<1>1. step[r] # 0 /\ UNCHANGED sys
  BY CallStepWays DEF AnswersHold, MonShape
<1>2. sys[r] \in MemCall /\ phase[r] \in {"kernel", "lost"} /\ Answering(r)
  BY <1>1 DEF AnswersHold, MonShape, MemShape, Calls, Progress
<1>3. sys'[r] \notin OtherCall
  BY <1>1, <1>2, NamesApart
<1>4. UNCHANGED <<table, asks, phase, made>>
  BY DEF webVars
<1>5. QED BY <1>2, <1>3, <1>4 DEF Answering

LEMMA AnsweringStep ==
  ASSUME AnswersHold, [Next]_vars
  PROVE  AnswersHold'
<1>1. MonShape /\ MonShape' /\ \A q \in Call : Answering(q)
  BY ShapeStep DEF AnswersHold
<1>2. CASE UNCHANGED vars \/ (System /\ UNCHANGED webVars)
  <2>1. UNCHANGED callVars /\ UNCHANGED webVars
    BY <1>1, <1>2, SystemKeeps DEF vars, memVars, MonShape
  <2>2. UNCHANGED <<table, asks>> /\ \A q \in Call : Same(q)
    BY <2>1 DEF callVars, webVars, Same, Untouched
  <2>3. QED BY <1>1, <2>2, SameAnswering DEF AnswersHold
<1>3. CASE Die
  BY <1>1, <1>3, DieAnswering DEF AnswersHold
<1>4. ASSUME NEW r \in Call, Tick(r) \/ Serve(r) \/ Deliver(r) \/ Lose(r) PROVE AnswersHold'
  <2>1. UNCHANGED <<table, asks>> /\ \A q \in Call : q # r => Same(q)
    BY <1>1, <1>4, RequestAlone
  <2>2. Answering(r)'
    BY <1>4, TickAnswering, SyscallAnswering, SecondAnswering, RespondAnswering,
       DeliverAnswering, CallStepAnswering DEF Serve
  <2>3. \A q \in Call : q # r => Answering(q)'
    BY <1>1, <2>1, SameAnswering
  <2>4. QED BY <1>1, <2>2, <2>3 DEF AnswersHold
<1>5. QED BY <1>2, <1>3, <1>4 DEF Next

\* A request has made the calls that its numbers stand for, and its answer goes
\* with the result of the last one, whatever the table.
THEOREM AnswersAlways == Spec => []AnswersHold
<1>1. Init => AnswersHold
  <2> SUFFICES ASSUME Init PROVE AnswersHold
    OBVIOUS
  <2>1. MonShape
    BY ShapeInit
  <2>2. \A r \in Call : made[r] = <<>> /\ phase[r] = "idle"
    BY DEF Init
  <2>3. QED BY <2>1, <2>2 DEF AnswersHold, Answering
<1>2. AnswersHold /\ [Next]_vars => AnswersHold'
  BY AnsweringStep
<1>3. QED BY <1>1, <1>2, PTL DEF Spec

\* With a table that gives the documented calls, or the one of the repository,
\* an answer that has figures is of the documented calls.
LEMMA FiguresDocumented ==
  ASSUME AnswersHold, NEW r \in Call, phase[r] \in {"answered", "shown"},
         answer[r] # Error
  PROVE  /\ Gives(table, Documented)
         /\ ret[r] = 0 /\ answer[r] = Figures(r)
         /\ sys[r] = asks[r] /\ asks[r] \in Endpoint /\ step[r] = 0
<1>1. Answering(r) /\ MonShape /\ asks[r] \in Endpoint
  BY NumberCalls DEF AnswersHold
<1>2. ret[r] = 0 /\ answer[r] = Figures(r) /\ leg[r] = Len(Numbers[asks[r]]) /\ sys[r] = table[Number(r)]
  BY <1>1 DEF Answering
<1>3. leg[r] \in DOMAIN Numbers[asks[r]] /\ step[r] = 0
  BY <1>1 DEF MonShape, Progress
<1>4. ~ Gives(table, RepositoryCalls)
  <2> SUFFICES ASSUME Gives(table, RepositoryCalls) PROVE FALSE
    OBVIOUS
  <2>1. sys[r] = RepositoryCalls[asks[r]][leg[r]]
    BY <1>1, <1>2, <1>3 DEF Gives, Number
  <2>2. sys[r] \in OtherCall /\ 0 \notin Result(sys[r])
    BY <1>1, <1>3, <2>1, RepositoryFails
  <2>3. ret[r] \in Result(sys[r])
    BY <1>1, <2>2 DEF Answering
  <2>4. QED BY <1>2, <2>2, <2>3
<1>5. Gives(table, Documented)
  BY <1>1, <1>4, TableGives
<1>6. sys[r] = Documented[asks[r]][leg[r]]
  BY <1>1, <1>2, <1>3, <1>5 DEF Gives, Number
<1>7. sys[r] = asks[r]
  BY <1>1, <1>2, <1>3, <1>6, DocumentedCalls
<1>8. QED BY <1>1, <1>2, <1>3, <1>5, <1>7

\* A response of status 200 has the figures of the documented calls, and all of
\* the calls have succeeded but for the first of use_swap (AnswersMeasured,
\* api.c:29-36, 45-48), for any number of requests and any results: under the
\* repository's table every response is an error.
THEOREM AnswersMeasuredAll == Spec => []AnswersMeasured
<1>1. ASSUME AnswersHold, NEW r \in Call, phase[r] \in {"answered", "shown"},
             answer[r].status = 200
      PROVE  /\ MadeDocumented(r)
             /\ \A k \in DOMAIN made[r] :
                  made[r][k].ret = 0 \/ (asks[r] = "use_swap" /\ k = 1)
  <2>1. answer[r] # Error
    BY <1>1 DEF Error
  <2>2. Gives(table, Documented) /\ ret[r] = 0 /\ asks[r] \in Endpoint
    BY <1>1, <2>1, FiguresDocumented
  <2>3. /\ Answering(r) /\ Len(made[r]) = Len(Numbers[asks[r]])
        /\ made[r][Len(made[r])].ret = 0
    BY <1>1, <2>2 DEF AnswersHold, Answering
  <2>4. DOMAIN made[r] = 1 .. Len(made[r])
    BY <1>1 DEF AnswersHold, MonShape, WebTypes
  <2>5. DOMAIN Numbers[asks[r]] = 1 .. Len(Numbers[asks[r]])
        /\ Len(Numbers[asks[r]]) \in {1, 2}
        /\ (Len(Numbers[asks[r]]) = 2 <=> asks[r] = "use_swap")
    BY <2>2, NumbersAre
  <2>6. DOMAIN made[r] = DOMAIN Numbers[asks[r]]
    BY <2>3, <2>4, <2>5
  <2>7. \A k \in DOMAIN made[r] : made[r][k].name = Documented[asks[r]][k]
    BY <2>2, <2>3, <2>4, <2>6 DEF Answering, Gives
  <2>8. Documented[asks[r]] = [j \in DOMAIN Numbers[asks[r]] |-> Documented[asks[r]][j]]
    <3>1. 1 \in DOMAIN Numbers[asks[r]]
      BY <2>5
    <3>2. QED BY <2>2, <3>1, DocumentedCalls
  <2>9. MadeDocumented(r)
    BY <2>6, <2>7, <2>8 DEF MadeDocumented
  <2>10. ASSUME NEW k \in DOMAIN made[r]
         PROVE  made[r][k].ret = 0 \/ (asks[r] = "use_swap" /\ k = 1)
    <3>1. k = Len(made[r]) \/ (Len(made[r]) = 2 /\ k = 1)
      BY <2>3, <2>4, <2>5
    <3>2. QED BY <2>3, <2>5, <3>1
  <2>11. QED BY <2>9, <2>10
<1>2. AnswersHold => AnswersMeasured
  BY <1>1 DEF AnswersMeasured
<1>3. QED BY <1>2, AnswersAlways, PTL
-----------------------------------------------------------------------------
(* What MemInfo promises, under the API *)

MemHolds == MonShape /\ NowHolds /\ FaultsHold

\* A request outside of the calls of MemInfo has nothing to keep.
Outside(r) ==
  /\ UNCHANGED <<envVars, base>>
  /\ step'[r] = 0 /\ sys'[r] \notin MemCall
  /\ \A q \in Call : q # r => Untouched(q)

LEMMA OutsideHolds ==
  ASSUME NowHolds, FaultsHold, MemShape', NEW r \in Call, Outside(r)
  PROVE  NowHolds' /\ FaultsHold'
<1>1. UNCHANGED <<mem, freeswap, moved, events, base>> /\ MemShape
  BY DEF Outside, envVars, NowHolds
<1>2. \A s \in MemCall : sys'[r] # s
  BY DEF Outside
<1>3. NowClose(r)' /\ NowReported(r)' /\ UsedClose(r)' /\ UsedReported(r)'
  BY <1>2
  DEF NowClose, InUseMem, InUseSwap, InUsePages, NowReported, UsedClose, UsedReported, Succeeded,
      MemCall
<1>4. FaultClaims(r)'
  <2>1. \A e \in Event : base'[r].count[e] \in Nat
    BY <1>1 DEF FaultsHold, FaultClaims
  <2>2. QED BY <1>2, <2>1 DEF FaultClaims, InFaultPages, Succeeded, MemCall
<1>5. \A q \in Call : q # r =>
        NowClose(q)' /\ NowReported(q)' /\ UsedClose(q)' /\ UsedReported(q)'
  BY <1>1, NowStays, UsedStays DEF Outside, NowHolds
<1>6. Counts(events, events')
  BY <1>1, EventsGrow DEF MemShape
<1>7. \A q \in Call : q # r => FaultClaims(q)'
  BY <1>1, <1>6, FaultsStay DEF Outside, FaultsHold
<1>8. QED BY <1>3, <1>4, <1>5, <1>7 DEF NowHolds, FaultsHold

\* A callback that starts, or a call that is not of MemInfo, is outside.
LEMMA ReceiveOutside ==
  ASSUME MonShape, NEW r \in Call, Receive(r)
  PROVE  Outside(r)
<1>1. phase[r] = "sent" /\ UNCHANGED <<envVars, base, sys, step>>
  BY DEF Receive, To
<1>2. step[r] = 0 /\ sys[r] = "none"
  BY <1>1 DEF MonShape, Progress
<1>3. \A q \in Call : q # r => Untouched(q)
  BY ReceiveShape DEF Same
<1>4. QED BY <1>1, <1>2, <1>3 DEF Outside, MemCall

LEMMA OtherOutside ==
  ASSUME MonShape, NEW r \in Call, phase[r] = "call", NEW s, NEW v, Other(r, s, v)
  PROVE  Outside(r)
<1>1. /\ UNCHANGED <<envVars, base, step, sample, out>> /\ s \in OtherCall
      /\ sys' = [sys EXCEPT ![r] = s] /\ ret' = [ret EXCEPT ![r] = v]
  BY DEF Other
<1>2. step[r] = 0 /\ DOMAIN sys = Call /\ DOMAIN ret = Call
  BY DEF MonShape, Progress, MemShape, Calls
<1>3. sys'[r] = s /\ \A q \in Call : q # r => Untouched(q)
  BY <1>1, <1>2 DEF Untouched
<1>4. QED BY <1>1, <1>2, <1>3, NamesApart DEF Outside

LEMMA MemHoldsStep ==
  ASSUME MemHolds, [Next]_vars
  PROVE  MemHolds'
<1>1. MonShape /\ MonShape' /\ NowHolds /\ FaultsHold /\ MemShape'
  BY ShapeStep DEF MemHolds, MonShape
<1>2. CASE UNCHANGED memVars
  BY <1>1, <1>2, IdleNow, IdleFaults DEF MemHolds
<1>3. CASE System
  BY <1>1, <1>3, SystemNow, SystemFaults DEF MemHolds
<1>4. ASSUME NEW r \in Call, CallStep(r) PROVE MemHolds'
  BY <1>1, <1>4, CallStepNow, CallStepFaults DEF MemHolds
<1>5. ASSUME NEW r \in Call, Receive(r) PROVE MemHolds'
  BY <1>1, <1>5, ReceiveOutside, OutsideHolds DEF MemHolds
<1>6. ASSUME NEW r \in Call, Syscall(r) PROVE MemHolds'
  <2>1. /\ phase[r] = "call"
        /\ \/ table[Number(r)] \in MemCall /\ Begin(r, table[Number(r)])
           \/ \E v : Other(r, table[Number(r)], v)
    BY <1>6, SyscallKinds DEF To
  <2>2. CASE table[Number(r)] \in MemCall /\ Begin(r, table[Number(r)])
    BY <1>1, <2>2, BeginNow, BeginFaults DEF MemHolds
  <2>3. CASE \E v : Other(r, table[Number(r)], v)
    BY <1>1, <2>1, <2>3, OtherOutside, OutsideHolds DEF MemHolds
  <2>4. QED BY <2>1, <2>2, <2>3
<1>7. CASE Die \/ \E r \in Call : Tick(r) \/ SecondCall(r) \/ Respond(r) \/ Deliver(r) \/ Lose(r)
  <2>1. UNCHANGED memVars
    BY <1>7 DEF Die, Tick, SecondCall, Respond, Deliver, Lose
  <2>2. QED BY <1>2, <2>1
<1>8. CASE UNCHANGED vars
  BY <1>2, <1>8 DEF vars
<1>9. QED BY <1>3, <1>4, <1>5, <1>6, <1>7, <1>8 DEF Next, Serve

\* What the calls of MemInfo report keeps near to what there is, also when they
\* are called by the API and among other calls.
THEOREM MemHoldsAlways == Spec => []MemHolds
<1>1. Init => MemHolds
  BY ShapeInit, NowInit, FaultsInit DEF Init, MemHolds
<1>2. MemHolds /\ [Next]_vars => MemHolds'
  BY MemHoldsStep
<1>3. QED BY <1>1, <1>2, PTL DEF Spec

-----------------------------------------------------------------------------
(* The points of the charts *)

\* Every point is of a request of that chart that has been shown, with the
\* figures of its answer.
DotHolds(e, p) ==
  /\ p.of \in Call /\ phase[p.of] = "shown" /\ asks[p.of] = e
  /\ p.figures = answer[p.of].body

\* The same after a step.
DotNext(e, p) ==
  /\ p.of \in Call /\ phase'[p.of] = "shown" /\ asks'[p.of] = e
  /\ p.figures = answer'[p.of].body

DotsHold == \A e \in Endpoint : \A k \in DOMAIN chart[e] : DotHolds(e, chart[e][k])

\* What has been shown stays as it was shown.
LEMMA ShownStays ==
  ASSUME MonShape, [Next]_vars, NEW q \in Call, phase[q] = "shown"
  PROVE  phase'[q] = "shown" /\ asks'[q] = asks[q] /\ answer'[q] = answer[q]
<1>1. CASE UNCHANGED webVars
  BY <1>1 DEF webVars
<1>2. CASE Die
  <2>1. asks' = asks /\ answer' = answer /\ phase'[q] = phase[q]
    BY <1>2 DEF Die
  <2>2. QED BY <2>1
<1>3. ASSUME NEW r \in Call, Tick(r) \/ Serve(r) \/ Deliver(r) \/ Lose(r)
      PROVE  phase'[q] = "shown" /\ asks'[q] = asks[q] /\ answer'[q] = answer[q]
  <2>1. UNCHANGED asks /\ (q # r => Same(q))
    BY <1>3, RequestAlone
  <2>2. CASE q # r
    BY <2>1, <2>2 DEF Same
  <2>3. CASE q = r
    <3>1. CallStep(r) /\ UNCHANGED webVars
      BY <1>3, <2>3 DEF Tick, Serve, Deliver, Lose, Receive, Syscall, SecondCall, Respond, To
    <3>2. QED BY <1>1, <3>1
  <2>4. QED BY <2>2, <2>3
<1>4. QED BY <1>1, <1>2, <1>3 DEF Next, vars

LEMMA DotsStep ==
  ASSUME MonShape, DotsHold, [Next]_vars
  PROVE  DotsHold'
<1>1. ASSUME NEW e, NEW p, DotHolds(e, p) PROVE DotNext(e, p)
  BY <1>1, ShownStays DEF DotHolds, DotNext
<1>2. CASE UNCHANGED chart
  <2>1. \A e \in Endpoint : \A k \in DOMAIN chart'[e] : DotNext(e, chart'[e][k])
    BY <1>1, <1>2 DEF DotsHold
  <2>2. QED BY <2>1 DEF DotsHold, DotHolds, DotNext
<1>3. ASSUME NEW r \in Call, Deliver(r) PROVE DotsHold'
  <2>1. /\ chart' = [chart EXCEPT ![asks[r]] = Drawn(r)] /\ UNCHANGED <<asks, answer>>
        /\ phase' = [phase EXCEPT ![r] = "shown"]
    BY <1>3 DEF Deliver, To
  <2>2. asks[r] \in Endpoint /\ DOMAIN chart = Endpoint /\ phase'[r] = "shown"
    BY <2>1, NumberCalls DEF MonShape, WebTypes
  <2>3. DotNext(asks[r], Point(r))
    BY <2>1, <2>2 DEF DotNext, Point
  <2>4. \A k \in DOMAIN Drawn(r) : DotNext(asks[r], Drawn(r)[k])
    BY <1>1, <2>2, <2>3, DrawnTyped DEF DotsHold
  <2>5. ASSUME NEW e \in Endpoint, NEW k \in DOMAIN chart'[e] PROVE DotNext(e, chart'[e][k])
    <3>1. CASE e = asks[r]
      BY <2>1, <2>2, <2>4, <3>1
    <3>2. CASE e # asks[r]
      BY <1>1, <2>1, <2>2, <3>2 DEF DotsHold
    <3>3. QED BY <3>1, <3>2
  <2>6. QED BY <2>5 DEF DotsHold, DotHolds, DotNext
<1>4. UNCHANGED chart \/ \E r \in Call : Deliver(r)
  BY DEF Next, Tick, Serve, Lose, Receive, Syscall, SecondCall, Respond, Die, vars, webVars
<1>5. QED BY <1>2, <1>3, <1>4

THEOREM DotsAlways == Spec => []DotsHold
<1>1. Init => DotsHold
  BY DEF Init, DotsHold
<1>2. MonShape /\ DotsHold /\ [Next]_vars => DotsHold'
  BY DotsStep
<1>3. QED BY <1>1, <1>2, RequestsShape, PTL DEF Spec
\* A point with figures is of a request whose own call has succeeded.
LEMMA DotFigures ==
  ASSUME AnswersHold, NEW e \in Endpoint, NEW p, DotHolds(e, p), p.figures # <<>>
  PROVE  p.of \in Call /\ Succeeded(p.of, e) /\ p.figures = Body(p.of) /\ asks[p.of] = e
<1>1. p.of \in Call /\ phase[p.of] = "shown" /\ asks[p.of] = e /\ p.figures = answer[p.of].body
  BY DEF DotHolds
<1>2. answer[p.of] # Error
  BY <1>1 DEF Error
<1>3. ret[p.of] = 0 /\ answer[p.of] = Figures(p.of) /\ sys[p.of] = asks[p.of] /\ step[p.of] = 0
  BY <1>1, <1>2, FiguresDocumented
<1>4. p.figures = Body(p.of)
  BY <1>1, <1>3 DEF Figures
<1>5. QED BY <1>1, <1>3, <1>4 DEF Succeeded

\* A number that an int holds is converted to itself.
LEMMA IntHolds ==
  ASSUME NEW x \in Nat, 2 * x < IntWord
  PROVE  ToInt(x) = x
<1>1. IntWord \in Nat /\ IntWord > 0
  BY MonitorAssumption
<1>2. x \in 0 .. IntWord - 1
  BY <1>1
<1>3. x % IntWord = x
  BY <1>1, <1>2
<1>4. QED BY <1>3 DEF ToInt

\* No list has more pages than there are.
LEMMA ListsSmall ==
  ASSUME MemShape
  PROVE  /\ Active(Reading) \in Nat /\ Inactive(Reading) \in Nat
         /\ Active(Reading) <= TotalRam /\ Inactive(Reading) <= TotalRam
<1>1. \A k \in Kind : mem[k] \in Nat
  BY DEF MemShape, Memory
<1>2. /\ mem["free"] \in Nat /\ mem["kernel"] \in Nat /\ mem["anon_active"] \in Nat
      /\ mem["anon_inactive"] \in Nat /\ mem["swapcache"] \in Nat /\ mem["file_active"] \in Nat
      /\ mem["file_inactive"] \in Nat /\ mem["buffer"] \in Nat
  BY <1>1 DEF Kind
<1>3. Used(mem) = TotalRam
  BY DEF MemShape, Memory
<1>4. /\ Active(Reading) = mem["anon_active"] + mem["file_active"]
      /\ Inactive(Reading) = mem["anon_inactive"] + mem["swapcache"]
                               + (mem["file_inactive"] + mem["buffer"])
  BY DEF Active, Inactive, Reading
<1>5. QED BY <1>2, <1>3, <1>4 DEF Used

LEMMA MovesNat ==
  ASSUME MemShape, NEW c \in Call
  PROVE  Moves(c) \in Nat
BY DEF MemShape, Bases, Memory, Moves

LEMMA NearTimesFour ==
  ASSUME NEW x \in Nat, NEW y \in Int, NEW d \in Nat, Near(x, y, d)
  PROVE  Near(4 * x, 4 * y, 4 * d)
BY DEF Near

\* A number of pages that is near to what there is fits an int that holds as
\* many as there are and what has changed.
LEMMA NearFits ==
  ASSUME NEW x \in Nat, NEW y \in Nat, NEW d \in Nat, Near(x, y, d), y <= TotalRam,
         2 * (TotalRam + d) < IntWord
  PROVE  ToInt(x) = x
<1>1. x <= TotalRam + d
  BY Sizes DEF Near
<1>2. IntWord \in Nat
  BY MonitorAssumption
<1>3. 2 * x < IntWord
  BY <1>1, <1>2, Sizes
<1>4. QED BY <1>3, IntHolds

-----------------------------------------------------------------------------
(* The used memory on the chart of the swap space *)

\* What callback_use_swap has taken from the buffer after its first call, if
\* that succeeded, is off from what there is now by no more than what has
\* changed since that call began.
FirstNear(r) ==
  asks[r] = "use_swap" /\ Len(made[r]) >= 1 /\ made[r][1].ret = 0 =>
    LET d == moved - made[r][1].began IN
    /\ phys[r] \in Nat /\ d \in Nat
    /\ Near(phys[r], 4 * UsedRam(Reading), 4 * d)

FirstHold == AnswersHold /\ MemHolds /\ \A r \in Call : FirstNear(r)

\* A step of the rest of the system keeps it near.
LEMMA FirstMoves ==
  ASSUME FirstHold, System, UNCHANGED webVars, NEW r \in Call
  PROVE  FirstNear(r)'
<1> SUFFICES ASSUME asks[r] = "use_swap", Len(made[r]) >= 1, made[r][1].ret = 0
             PROVE  FirstNear(r)'
  BY DEF webVars, FirstNear
<1> DEFINE b == made[r][1].began
           x == phys[r]
           u == UsedRam(Reading)
<1>1. MemShape /\ FirstNear(r)
  BY DEF FirstHold, MemHolds, NowHolds
<1>2. x \in Nat /\ moved - b \in Nat /\ Near(x, 4 * u, 4 * (moved - b))
  BY <1>1 DEF FirstNear
<1>3. moved \in Nat /\ b \in Nat
  <2>1. made[r] \in Seq(Note)
    BY DEF FirstHold, MemHolds, MonShape, WebTypes
  <2>2. made[r][1] \in Note
    BY <2>1
  <2>3. QED BY <1>1, <2>2 DEF Note, MemShape, Memory
<1>4. PICK av, fp, sc, bu \in {-1, 0, 1} : UsedChanged(av, fp, sc, bu)
  BY <1>1, SystemUsed
<1>5. u \in Int /\ UsedRam(Reading)' = u - av
  <2>1. Reading'["available"] = Reading["available"] + av
    BY <1>4 DEF UsedChanged
  <2>2. QED BY <1>1, <2>1, UsedNat, Sizes DEF UsedRam
<1>6. made'[r][1].began = b /\ phys'[r] = x
  BY DEF webVars
<1> HIDE DEF b, x, u
<1>7. moved' - b \in Nat /\ Near(x, 4 * (u - av), 4 * (moved' - b))
  <2>1. CASE moved' = moved + 1
    BY <1>2, <1>3, <1>4, <1>5, <2>1 DEF Near
  <2>2. CASE moved' = moved /\ av = 0
    BY <1>2, <1>3, <1>5, <2>2 DEF Near
  <2>3. QED BY <1>4, <2>1, <2>2 DEF UsedChanged
<1>8. QED BY <1>2, <1>5, <1>6, <1>7 DEF FirstNear, Near

\* Steps that leave the pages and the notes of a callback alone.
LEMMA FirstStays ==
  ASSUME NEW r \in Call, FirstNear(r), UNCHANGED <<mem, freeswap, moved, asks>>,
         made'[r] = made[r], phys'[r] = phys[r]
  PROVE  FirstNear(r)'
<1>1. Reading' = Reading
  BY DEF Reading, FileLru
<1>2. UsedRam(Reading)' = UsedRam(Reading)
  BY <1>1 DEF UsedRam
<1>3. QED BY <1>2 DEF FirstNear, Near

\* The first call has returned: if it succeeded it was use_mem.
LEMMA FirstSecond ==
  ASSUME FirstHold, NEW r \in Call, SecondCall(r)
  PROVE  FirstNear(r)'
<1>1. /\ phase[r] = "kernel" /\ step[r] = 0 /\ ~ Last(r)
      /\ made' = [made EXCEPT ![r] = Noted(r)]
      /\ phys' = [phys EXCEPT ![r] = out[r][2]]
      /\ UNCHANGED memVars /\ UNCHANGED <<table, asks>>
  BY DEF SecondCall, To, Returned
<1>2. MonShape /\ MemShape /\ Answering(r) /\ UsedReported(r) /\ asks[r] \in Endpoint
  BY NumberCalls DEF FirstHold, AnswersHold, MemHolds, NowHolds
<1>3. made'[r] = Noted(r) /\ phys'[r] = out[r][2] /\ asks'[r] = asks[r] /\ moved' = moved
      /\ Reading' = Reading
  BY <1>1, <1>2 DEF MonShape, WebTypes, memVars, envVars, Reading, FileLru
<1> SUFFICES ASSUME asks[r] = "use_swap", Noted(r)[1].ret = 0
             PROVE  FirstNear(r)'
  BY <1>3 DEF FirstNear
<1>4. leg[r] = 1
  <2>1. leg[r] \in DOMAIN Numbers[asks[r]] /\ leg[r] # Len(Numbers[asks[r]])
    BY <1>1, <1>2 DEF MonShape, Progress, Last
  <2>2. DOMAIN Numbers[asks[r]] = 1 .. 2 /\ Len(Numbers[asks[r]]) = 2
    BY <1>2, NumbersAre
  <2>3. QED BY <2>1, <2>2
<1>5. Noted(r)[1] = [name |-> sys[r], ret |-> ret[r], began |-> base[r].moved]
  BY <1>1, <1>2, <1>4, NotedTyped
<1>6. ret[r] = 0 /\ sys[r] = table[Number(r)]
  BY <1>1, <1>2, <1>5 DEF MonShape, Progress
<1>7. Number(r) = Numbers["use_swap"][1] /\ 1 \in DOMAIN Numbers["use_swap"]
      /\ "use_swap" \in Endpoint
  BY <1>4 DEF Number, Numbers, Endpoint
<1>8. sys[r] = "use_mem"
  <2>1. CASE Gives(table, Documented)
    <3>1. sys[r] = Documented["use_swap"][1]
      BY <1>6, <1>7, <2>1 DEF Gives
    <3>2. QED BY <3>1 DEF Documented
  <2>2. CASE Gives(table, RepositoryCalls)
    <3>1. sys[r] = RepositoryCalls["use_swap"][1]
      BY <1>6, <1>7, <2>2 DEF Gives
    <3>2. sys[r] \in OtherCall /\ 0 \notin Result(sys[r])
      BY <1>7, <3>1, RepositoryFails
    <3>3. ret[r] \in Result(sys[r])
      BY <1>1, <1>2, <3>2 DEF Answering
    <3>4. QED BY <1>6, <3>2, <3>3
  <2>3. QED BY <1>2, <2>1, <2>2, TableGives
<1>9. out[r][2] \in Nat /\ Near(out[r][2], 4 * UsedRam(Reading), 4 * Moves(r))
  BY <1>1, <1>2, <1>6, <1>8 DEF UsedReported, Succeeded
<1>10. Moves(r) \in Nat /\ Moves(r) = moved - made'[r][1].began
  BY <1>2, <1>3, <1>5, MovesNat DEF Moves
<1>11. UsedRam(Reading)' = UsedRam(Reading)
  BY <1>3 DEF UsedRam
<1>12. QED BY <1>3, <1>9, <1>10, <1>11 DEF FirstNear, Near

\* The last call is noted after the first.
LEMMA FirstResponds ==
  ASSUME FirstHold, NEW r \in Call, Respond(r)
  PROVE  FirstNear(r)'
<1>1. /\ phase[r] = "kernel" /\ Last(r)
      /\ made' = [made EXCEPT ![r] = Noted(r)]
      /\ UNCHANGED memVars /\ UNCHANGED <<table, asks, phys>>
  BY DEF Respond, To, Returned
<1>2. MonShape /\ FirstNear(r) /\ asks[r] \in Endpoint
  BY NumberCalls DEF FirstHold, AnswersHold
<1>3. made'[r] = Noted(r) /\ moved' = moved /\ Reading' = Reading
  BY <1>1, <1>2 DEF MonShape, WebTypes, memVars, envVars, Reading, FileLru
<1> SUFFICES ASSUME asks[r] = "use_swap" PROVE FirstNear(r)'
  BY <1>1 DEF FirstNear
<1>4. leg[r] = 2
  BY <1>1, <1>2, NumbersAre DEF Last
<1>5. Noted(r)[1] = made[r][1] /\ Len(made[r]) = 1
  <2>1. Len(made[r]) = 1
    <3>1. Len(made[r]) = leg[r] - 1
      BY <1>1, <1>2 DEF MonShape, Progress
    <3>2. QED BY <1>4, <3>1
  <2>2. Noted(r)[1] = made[r][1]
    <3>1. 1 \in 1 .. leg[r] /\ 1 # leg[r]
      BY <1>4
    <3>2. QED BY <1>1, <1>2, <3>1, NotedTyped
  <2>3. QED BY <2>1, <2>2
<1>6. UsedRam(Reading)' = UsedRam(Reading)
  BY <1>3 DEF UsedRam
<1>7. QED BY <1>1, <1>2, <1>3, <1>5, <1>6 DEF FirstNear, Near

LEMMA FirstStep ==
  ASSUME FirstHold, [Next]_vars
  PROVE  FirstHold'
<1>1. AnswersHold' /\ MemHolds' /\ MonShape /\ \A r \in Call : FirstNear(r)
  BY AnsweringStep, MemHoldsStep DEF FirstHold, MemHolds
<1>2. ASSUME NEW q \in Call PROVE FirstNear(q)'
  <2>1. CASE System /\ UNCHANGED webVars
    BY <2>1, FirstMoves
  <2>2. CASE UNCHANGED vars \/ Die
    <3>1. UNCHANGED <<mem, freeswap, moved, asks>> /\ UNCHANGED <<made, phys>>
      BY <2>2 DEF vars, memVars, envVars, webVars, Die
    <3>2. QED BY <1>1, <3>1, FirstStays
  <2>3. ASSUME NEW r \in Call, Tick(r) \/ Serve(r) \/ Deliver(r) \/ Lose(r)
        PROVE  FirstNear(q)'
    <3>1. UNCHANGED asks /\ (q # r => Same(q))
      BY <1>1, <2>3, RequestAlone
    <3>2. UNCHANGED envVars
      BY <1>1, <2>3, CallStepWays, SyscallKinds
      DEF Tick, Serve, Deliver, Lose, Receive, SecondCall, Respond, memVars, Begin, Other, MonShape
    <3>3. CASE q # r
      BY <1>1, <3>1, <3>2, <3>3, FirstStays DEF Same, envVars
    <3>4. CASE q = r /\ SecondCall(r)
      BY <3>4, FirstSecond
    <3>5. CASE q = r /\ Respond(r)
      BY <3>5, FirstResponds
    <3>6. CASE q = r /\ ~ SecondCall(r) /\ ~ Respond(r)
      <4>1. UNCHANGED <<made, phys>>
        BY <2>3, <3>6 DEF Tick, Serve, Deliver, Lose, Receive, Syscall, webVars
      <4>2. QED BY <1>1, <3>1, <3>2, <4>1, FirstStays DEF envVars
    <3>7. QED BY <3>3, <3>4, <3>5, <3>6
  <2>4. QED BY <2>1, <2>2, <2>3 DEF Next
<1>3. QED BY <1>1, <1>2 DEF FirstHold

THEOREM FirstAlways == Spec => []FirstHold
<1>1. Init => FirstHold
  <2> SUFFICES ASSUME Init PROVE FirstHold
    OBVIOUS
  <2>1. AnswersHold
    <3>1. \A r \in Call : made[r] = <<>> /\ phase[r] = "idle"
      BY DEF Init
    <3>2. QED BY <3>1, ShapeInit DEF AnswersHold, Answering
  <2>2. MemHolds
    BY ShapeInit, NowInit, FaultsInit DEF Init, MemHolds
  <2>3. \A r \in Call : Len(made[r]) = 0
    BY DEF Init
  <2>4. QED BY <2>1, <2>2, <2>3 DEF FirstHold, FirstNear
<1>2. FirstHold /\ [Next]_vars => FirstHold'
  BY FirstStep
<1>3. QED BY <1>1, <1>2, PTL DEF Spec

-----------------------------------------------------------------------------
\* Every figure that a chart shows of memory, swap space and pages is off from
\* what there is now by no more than what has changed since its request was
\* served (ChartsNear, with what it excepts), for any number of requests, of
\* pages and of changes, in whatever order answers arrive.
THEOREM ChartsNearAll == Spec => []ChartsNear
<1> DEFINE Nearby(e, p) ==
      LET d == Moves(p.of)
          first == made[p.of][1]
      IN p.figures # <<>> =>
          /\ e = "use_mem" =>
               /\ Near(p.figures[1], 4 * Reading["freeram"], 4 * d)
               /\ Near(p.figures[2], 4 * UsedRam(Reading), 4 * d)
               /\ Cached(Reading) >= d => Near(p.figures[3], 4 * Cached(Reading), 4 * d)
               /\ p.figures[4] = 4 * TotalRam
          /\ e = "use_swap" =>
               /\ first.ret = 0 =>
                    Near(p.figures[1], 4 * UsedRam(Reading), 4 * (moved - first.began))
               /\ Near(p.figures[2], 4 * (Swap - Reading["freeswap"]), 4 * d)
          /\ e = "use_pages" /\ 2 * (TotalRam + d) < IntWord =>
               /\ Near(p.figures[1], Active(Reading), d)
               /\ Near(p.figures[2], Inactive(Reading), d)
<1>1. ASSUME FirstHold, NEW e \in Endpoint, NEW p, DotHolds(e, p)
      PROVE  Nearby(e, p)
  <2> SUFFICES ASSUME p.figures # <<>> PROVE Nearby(e, p)
    OBVIOUS
  <2> DEFINE q == p.of
             d == Moves(q)
  <2>1. q \in Call /\ Succeeded(q, e) /\ p.figures = Body(q) /\ asks[q] = e
    BY <1>1, DotFigures DEF FirstHold
  <2>2. MemShape /\ NowReported(q) /\ UsedReported(q) /\ FirstNear(q) /\ d \in Nat
    BY <1>1, <2>1, MovesNat DEF FirstHold, MemHolds, NowHolds
  <2>3. CASE e = "use_mem"
    <3>1. p.figures = out[q]
      BY <2>1, <2>3 DEF Body, UseMemBody
    <3>2. Near(p.figures[1], 4 * Reading["freeram"], 4 * d)
      BY <2>1, <2>2, <2>3, <3>1 DEF NowReported
    <3>3. /\ Near(p.figures[2], 4 * UsedRam(Reading), 4 * d)
          /\ Cached(Reading) >= d => Near(p.figures[3], 4 * Cached(Reading), 4 * d)
          /\ p.figures[4] = 4 * TotalRam
      BY <2>1, <2>2, <2>3, <3>1 DEF UsedReported
    <3>4. QED BY <2>3, <3>2, <3>3
  <2>4. CASE e = "use_swap"
    <3>1. p.figures = <<phys[q], 4 * out[q][1]>>
      BY <2>1, <2>4 DEF Body, UseSwapBody
    <3>2. out[q][1] \in Nat /\ Near(out[q][1], Swap - Reading["freeswap"], d)
      BY <2>1, <2>2, <2>4 DEF NowReported
    <3>3. Swap - Reading["freeswap"] \in Int
      BY <2>2, GaugesNat, Sizes
    <3>4. Near(4 * out[q][1], 4 * (Swap - Reading["freeswap"]), 4 * d)
      BY <2>2, <3>2, <3>3, NearTimesFour
    <3>5. p.figures[1] = phys[q] /\ p.figures[2] = 4 * out[q][1]
      BY <3>1
    <3>6. Len(made[q]) >= 1
      <4>1. phase[q] = "shown" /\ Answering(q) /\ MonShape
        BY <1>1 DEF DotHolds, FirstHold, AnswersHold
      <4>2. Len(made[q]) = Len(Numbers[asks[q]])
        BY <4>1 DEF Answering
      <4>3. asks[q] \in Endpoint
        BY <2>1
      <4>4. Len(Numbers[asks[q]]) \in {1, 2}
        BY <4>3, NumbersAre
      <4>5. \A n \in {1, 2} : n >= 1
        OBVIOUS
      <4>6. QED BY <4>2, <4>4, <4>5
    <3>7. made[q][1].ret = 0 =>
            Near(p.figures[1], 4 * UsedRam(Reading), 4 * (moved - made[q][1].began))
      BY <2>1, <2>2, <2>4, <3>5, <3>6 DEF FirstNear
    <3>8. QED BY <2>4, <3>4, <3>5, <3>7
  <2>5. CASE e = "use_pages" /\ 2 * (TotalRam + d) < IntWord
    <3>1. p.figures = <<ToInt(out[q][1]), ToInt(out[q][2])>>
      BY <2>1, <2>5 DEF Body, IntBody
    <3>2. /\ out[q][1] \in Nat /\ Near(out[q][1], Active(Reading), d)
          /\ out[q][2] \in Nat /\ Near(out[q][2], Inactive(Reading), d)
      BY <2>1, <2>2, <2>5 DEF NowReported
    <3>3. ToInt(out[q][1]) = out[q][1] /\ ToInt(out[q][2]) = out[q][2]
      BY <2>2, <2>5, <3>2, ListsSmall, NearFits
    <3>4. p.figures[1] = out[q][1] /\ p.figures[2] = out[q][2]
      BY <3>1, <3>3
    <3>5. QED BY <2>5, <3>2, <3>4
  <2>6. QED BY <2>3, <2>4, <2>5
<1>2. FirstHold /\ DotsHold => ChartsNear
  BY <1>1 DEF DotsHold, ChartsNear
<1>3. QED BY <1>2, FirstAlways, DotsAlways, PTL
-----------------------------------------------------------------------------
(* The buffers of the callbacks *)

\* The buffer of a callback is as long as it was allocated, while the callback
\* runs and as long as it is not freed.
BufferFits(r) ==
  held[r] # {} \/ phase[r] \in {"call", "kernel"} => Len(out[r]) = Allocated[asks[r]]

\* Memory is overwritten only by a call of lastkernlogs with the buffer of
\* callback_use_mem_top_procs.
ApiHolds ==
  api = "up" \/ \E r \in Call : asks[r] = "use_mem_top_procs" /\ sys[r] = "lastkernlogs"

FitsHold == MonShape /\ ApiHolds /\ \A r \in Call : BufferFits(r)

\* How many words each call copies out.
LEMMA WordsCopied ==
  ASSUME NEW c \in Call, NEW s \in MemCall
  PROVE  Len(Info(sample[c])[s]) = Words[s] /\ Words[s] \in Nat
<1>1. CASE s = "use_mem"
  <2>1. Info(sample[c])[s] = UseMemWords(sample[c]) /\ Words[s] = 4
    BY <1>1 DEF Info, Words
  <2>2. QED BY <2>1 DEF UseMemWords
<1>2. CASE s = "use_swap"
  <2>1. Info(sample[c])[s] = UseSwapWords(sample[c]) /\ Words[s] = 3
    BY <1>2 DEF Info, Words
  <2>2. QED BY <2>1 DEF UseSwapWords
<1>3. CASE s = "use_pages"
  <2>1. Info(sample[c])[s] = UsePagesWords(sample[c]) /\ Words[s] = 2
    BY <1>3 DEF Info, Words
  <2>2. QED BY <2>1 DEF UsePagesWords
<1>4. CASE s = "fault_pages"
  <2>1. Info(sample[c])[s] = FaultPagesWords(sample[c]) /\ Words[s] = 2
    BY <1>4 DEF Info, Words
  <2>2. QED BY <2>1 DEF FaultPagesWords
<1>5. QED BY <1>1, <1>2, <1>3, <1>4 DEF MemCall

\* A call of MemInfo that a callback makes fits its buffer.
LEMMA CallFits ==
  ASSUME MonShape, NEW r \in Call, step[r] # 0
  PROVE  sys[r] \in MemCall /\ Words[sys[r]] <= Allocated[asks[r]]
<1>1. sys[r] \in MemCall /\ sys[r] = table[Number(r)]
  BY DEF MonShape, MemShape, Calls, Progress
<1>2. asks[r] \in Endpoint /\ leg[r] \in DOMAIN Numbers[asks[r]]
  BY NumberCalls DEF MonShape, Progress
<1>3. CASE Gives(table, Documented)
  <2>1. sys[r] = Documented[asks[r]][leg[r]]
    BY <1>1, <1>2, <1>3 DEF Gives, Number
  <2>2. QED BY <1>1, <1>2, <2>1, DocumentedCalls
<1>4. CASE Gives(table, RepositoryCalls)
  <2>1. sys[r] = RepositoryCalls[asks[r]][leg[r]]
    BY <1>1, <1>2, <1>4 DEF Gives, Number
  <2>2. sys[r] \in OtherCall
    BY <1>2, <2>1, RepositoryFails
  <2>3. QED BY <1>1, <2>2, NamesApart
<1>5. QED BY <1>3, <1>4, TableGives

\* lastkernlogs is called only by callback_use_mem_top_procs, and only once.
LEMMA LogsCalled ==
  ASSUME MonShape, NEW r \in Call, table[Number(r)] = "lastkernlogs"
  PROVE  asks[r] = "use_mem_top_procs"
<1>1. asks[r] \in Endpoint /\ leg[r] \in DOMAIN Numbers[asks[r]]
  BY NumberCalls DEF MonShape, Progress
<1>2. CASE Gives(table, Documented)
  <2>1. Documented[asks[r]][leg[r]] = "lastkernlogs"
    BY <1>1, <1>2 DEF Gives, Number
  <2>2. QED BY <1>1, <2>1, DocumentedCalls
<1>3. CASE Gives(table, RepositoryCalls)
  <2>1. RepositoryCalls[asks[r]][leg[r]] = "lastkernlogs"
    BY <1>1, <1>3 DEF Gives, Number
  <2>2. QED BY <1>1, <2>1, RepositoryFails
<1>4. QED BY <1>2, <1>3, TableGives

\* A callback with a single call has not made it before.
LEMMA CalledOnce ==
  ASSUME MonShape, NEW r \in Call, asks[r] # "use_swap", phase[r] \in {"idle", "sent", "call"}
  PROVE  sys[r] = "none"
<1>1. asks[r] \in Endpoint /\ leg[r] \in 1 .. Len(Numbers[asks[r]])
  BY NumberCalls
<1>2. Len(Numbers[asks[r]]) = 1
  BY <1>1, NumbersAre
<1>3. leg[r] = 1
  BY <1>1, <1>2
<1>4. QED BY <1>3 DEF MonShape, Progress

\* A name of a call stays, but when a callback makes its next call.
LEMMA NamesStay ==
  ASSUME MonShape, [Next]_vars, NEW q \in Call, phase[q] # "call"
  PROVE  sys'[q] = sys[q] /\ asks' = asks
<1>1. CASE UNCHANGED vars \/ (System /\ UNCHANGED webVars)
  <2>1. UNCHANGED callVars /\ UNCHANGED webVars
    BY <1>1, SystemKeeps DEF vars, memVars, MonShape
  <2>2. QED BY <2>1 DEF callVars, webVars
<1>2. CASE Die
  BY <1>2 DEF Die, memVars, callVars
<1>3. ASSUME NEW r \in Call, Tick(r) \/ Serve(r) \/ Deliver(r) \/ Lose(r)
      PROVE  sys'[q] = sys[q] /\ asks' = asks
  <2>1. UNCHANGED asks /\ (q # r => Same(q))
    BY <1>3, RequestAlone
  <2>2. CASE q # r
    BY <2>1, <2>2 DEF Same, Untouched
  <2>3. CASE q = r
    <3>1. UNCHANGED sys
      <4>1. CASE CallStep(r)
        BY <4>1, CallStepWays DEF MonShape
      <4>2. CASE ~ CallStep(r)
        BY <1>3, <2>3, <4>2
        DEF Tick, Serve, Deliver, Lose, Receive, Syscall, SecondCall, Respond, To, memVars, callVars
      <4>3. QED BY <4>1, <4>2
    <3>2. QED BY <2>1, <3>1
  <2>4. QED BY <2>2, <2>3
<1>4. QED BY <1>1, <1>2, <1>3 DEF Next

LEMMA ApiStep ==
  ASSUME MonShape, ApiHolds, [Next]_vars
  PROVE  ApiHolds'
<1>1. ASSUME NEW q \in Call, asks[q] = "use_mem_top_procs", sys[q] = "lastkernlogs"
      PROVE  ApiHolds'
  <2>1. phase[q] # "call"
    BY <1>1, CalledOnce
  <2>2. asks'[q] = "use_mem_top_procs" /\ sys'[q] = "lastkernlogs"
    BY <1>1, <2>1, NamesStay
  <2>3. QED BY <2>2 DEF ApiHolds
<1>2. CASE api = "up" /\ UNCHANGED api
  BY <1>2 DEF ApiHolds
<1>3. ASSUME NEW r \in Call, Syscall(r), table[Number(r)] = "lastkernlogs" PROVE ApiHolds'
  <2>1. asks' = asks /\ \E v : Other(r, table[Number(r)], v)
    BY <1>3, SyscallKinds DEF MemCall
  <2>2. sys'[r] = "lastkernlogs"
    BY <1>3, <2>1 DEF Other, MonShape, MemShape, Calls
  <2>3. asks'[r] = "use_mem_top_procs"
    BY <1>3, <2>1, LogsCalled
  <2>4. QED BY <2>2, <2>3 DEF ApiHolds
<1>4. api = "up" => UNCHANGED api \/ \E r \in Call : Syscall(r) /\ table[Number(r)] = "lastkernlogs"
  <2>1. ASSUME NEW r \in Call, Syscall(r)
        PROVE  UNCHANGED api \/ table[Number(r)] = "lastkernlogs"
    BY <2>1, SyscallKinds
  <2>2. QED
    BY <2>1 DEF Next, Tick, Serve, Lose, Receive, Deliver, SecondCall, Respond, Die, vars, webVars
<1>5. QED BY <1>1, <1>2, <1>3, <1>4 DEF ApiHolds

LEMMA SameFits ==
  ASSUME NEW r \in Call, BufferFits(r), Same(r), UNCHANGED asks
  PROVE  BufferFits(r)'
BY DEF BufferFits, Same, Untouched

LEMMA FitsStep ==
  ASSUME FitsHold, [Next]_vars
  PROVE  FitsHold'
<1>1. MonShape /\ MonShape' /\ ApiHolds' /\ \A r \in Call : BufferFits(r)
  BY ShapeStep, ApiStep DEF FitsHold
<1>2. CASE UNCHANGED vars \/ (System /\ UNCHANGED webVars)
  <2>1. UNCHANGED callVars /\ UNCHANGED webVars
    BY <1>1, <1>2, SystemKeeps DEF vars, memVars, MonShape
  <2>2. UNCHANGED asks /\ \A q \in Call : Same(q)
    BY <2>1 DEF callVars, webVars, Same, Untouched
  <2>3. QED BY <1>1, <2>2, SameFits DEF FitsHold
<1>3. CASE Die
  <2>1. UNCHANGED <<asks, held, out>>
    BY <1>3 DEF Die, memVars, callVars
  <2>2. \A r \in Call : phase'[r] \in {"call", "kernel"} => phase[r] \in {"call", "kernel"}
    BY <1>3 DEF Die
  <2>3. QED BY <1>1, <2>1, <2>2 DEF FitsHold, BufferFits
<1>4. ASSUME NEW r \in Call, Tick(r) \/ Serve(r) \/ Deliver(r) \/ Lose(r) PROVE FitsHold'
  <2>1. UNCHANGED asks /\ \A q \in Call : q # r => Same(q)
    BY <1>1, <1>4, RequestAlone
  <2>2. DOMAIN phase = Call /\ DOMAIN held = Call /\ DOMAIN out = Call
    BY <1>1 DEF MonShape, WebTypes, MemShape, Calls
  <2>3. CASE Tick(r) \/ Lose(r) \/ Deliver(r)
    <3>1. UNCHANGED <<held, out>> /\ phase'[r] \notin {"call", "kernel"}
      BY <2>2, <2>3 DEF Tick, Lose, Deliver, To, memVars, callVars
    <3>2. BufferFits(r)'
      BY <1>1, <2>1, <3>1 DEF BufferFits
    <3>3. QED BY <1>1, <2>1, <3>2, SameFits DEF FitsHold
  <2>4. CASE Receive(r)
    <3>1. out'[r] = [k \in 1 .. Allocated[asks[r]] |-> 0]
      BY <2>2, <2>4 DEF Receive
    <3>2. Len(out'[r]) = Allocated[asks[r]]
      BY <1>1, <3>1, NumberCalls, NumbersAre, ZerosTyped
    <3>3. BufferFits(r)'
      BY <2>1, <3>2 DEF BufferFits
    <3>4. QED BY <1>1, <2>1, <3>3, SameFits DEF FitsHold
  <2>5. CASE Syscall(r) \/ SecondCall(r) \/ Respond(r)
    <3>1. phase[r] \in {"call", "kernel"} /\ UNCHANGED out
      BY <2>5, SyscallKinds DEF SecondCall, Respond, To, Begin, Other, memVars, callVars
    <3>2. BufferFits(r)'
      BY <1>1, <2>1, <3>1 DEF BufferFits
    <3>3. QED BY <1>1, <2>1, <3>2, SameFits DEF FitsHold
  <2>6. CASE CallStep(r) /\ UNCHANGED webVars
    <3>1. step[r] # 0 /\ UNCHANGED <<asks, held, phase>>
      BY <1>1, <2>6, CallStepWays DEF MonShape, webVars
    <3>2. sys[r] \in MemCall /\ Words[sys[r]] <= Allocated[asks[r]]
      BY <1>1, <3>1, CallFits
    <3>3. Len(out[r]) = Allocated[asks[r]] => Len(out'[r]) = Len(out[r])
      <4>1. CASE UNCHANGED out
        BY <4>1
      <4>2. CASE CopyOut(r)
        <5>1. Len(Info(sample[r])[sys[r]]) = Words[sys[r]]
          BY <3>2, WordsCopied
        <5>2. QED BY <1>1, <3>2, <4>2, <5>1, CopiedLength DEF MonShape
      <4>3. QED BY <1>1, <2>6, <4>1, <4>2, CallStepBuffer DEF MonShape
    <3>4. BufferFits(r)'
      BY <1>1, <3>1, <3>3 DEF BufferFits
    <3>5. QED BY <1>1, <2>1, <3>4, SameFits DEF FitsHold
  <2>7. QED BY <1>4, <2>3, <2>4, <2>5, <2>6 DEF Serve
<1>5. QED BY <1>2, <1>3, <1>4 DEF Next

\* No call writes past the end of what a callback has allocated (BuffersHold,
\* api.c:22, 44, 69, 90, 111): the words of each documented call fit, also
\* those of the two that share the buffer of callback_use_swap; and under the
\* repository's table only lastkernlogs may write more, to the buffer of
\* callback_use_mem_top_procs.
THEOREM BuffersHoldAll == Spec => []BuffersHold
<1>1. Init => FitsHold
  <2> SUFFICES ASSUME Init PROVE FitsHold
    OBVIOUS
  <2>1. api = "up" /\ \A r \in Call : phase[r] = "idle" /\ held[r] = {}
    BY DEF Init
  <2>2. QED BY <2>1, ShapeInit DEF FitsHold, ApiHolds, BufferFits
<1>2. FitsHold /\ [Next]_vars => FitsHold'
  BY FitsStep
<1>3. FitsHold => BuffersHold
  BY DEF FitsHold, ApiHolds, BufferFits, BuffersHold
<1>4. QED BY <1>1, <1>2, <1>3, PTL DEF Spec
-----------------------------------------------------------------------------
(* The faults on the chart *)

\* q is a request for the faults that had left the kernel before the call of r
\* began: it reported no more than had been counted then.
DoneBefore(r, q) ==
  /\ q \in Call /\ step[q] = 0 /\ sys[q] # "none"
  /\ Succeeded(q, "fault_pages") =>
       \A p \in {<<1, EventAt(23)>>, <<2, EventAt(24)>>} : out[q][p[1]] <= base[r].count[p[2]]

AllBefore(r) == \A q \in base[r].done : asks[q] = "fault_pages" => DoneBefore(r, q)

ForwardHold == MemHolds /\ \A r \in Call : AllBefore(r)

\* Requests keep their endpoints.
LEMMA SpecAsks ==
  ASSUME MonShape, [Next]_vars
  PROVE  asks' = asks
<1>1. \A r \in Call : Tick(r) \/ Serve(r) \/ Deliver(r) \/ Lose(r) => asks' = asks
  BY RequestAlone
<1>2. QED BY <1>1 DEF Next, Die, vars, webVars

\* A request for the faults whose call has ended makes no other.
LEMMA EndedStays ==
  ASSUME MonShape, [Next]_vars, NEW q \in Call, asks[q] = "fault_pages", step[q] = 0,
         sys[q] # "none"
  PROVE  /\ step'[q] = 0 /\ sys'[q] = sys[q] /\ ret'[q] = ret[q] /\ out'[q] = out[q]
         /\ asks' = asks
<1>1. phase[q] \notin {"idle", "sent", "call"}
  BY CalledOnce
<1>2. CASE UNCHANGED vars \/ (System /\ UNCHANGED webVars) \/ Die
  <2>1. UNCHANGED callVars /\ UNCHANGED asks
    BY <1>2, SystemKeeps DEF vars, memVars, webVars, Die, MonShape
  <2>2. QED BY <2>1 DEF callVars
<1>3. ASSUME NEW r \in Call, Tick(r) \/ Serve(r) \/ Deliver(r) \/ Lose(r)
      PROVE  /\ step'[q] = 0 /\ sys'[q] = sys[q] /\ ret'[q] = ret[q] /\ out'[q] = out[q]
             /\ asks' = asks
  <2>1. UNCHANGED asks /\ (q # r => Same(q))
    BY <1>3, RequestAlone
  <2>2. CASE q # r
    BY <2>1, <2>2 DEF Same, Untouched
  <2>3. CASE q = r
    <3>1. ~ CallStep(r) /\ ~ Receive(r) /\ ~ Syscall(r)
      BY <1>1, <2>3, CallStepWays DEF MonShape, Receive, Syscall, To
    <3>2. UNCHANGED callVars
      BY <1>3, <3>1 DEF Tick, Serve, Deliver, Lose, SecondCall, Respond, memVars
    <3>3. QED BY <2>1, <3>2 DEF callVars
  <2>4. QED BY <2>2, <2>3
<1>4. QED BY <1>2, <1>3 DEF Next

\* The history of a call changes only when a call begins.
LEMMA BaseStays ==
  ASSUME MonShape, [Next]_vars, NEW r \in Call
  PROVE  \/ base'[r] = base[r]
         \/ phase[r] = "call" /\ \E s \in MemCall : Begin(r, s)
<1>1. CASE UNCHANGED vars \/ (System /\ UNCHANGED webVars) \/ Die
  <2>1. UNCHANGED callVars
    BY <1>1, SystemKeeps DEF vars, memVars, Die, MonShape
  <2>2. QED BY <2>1 DEF callVars
<1>2. ASSUME NEW c \in Call, Tick(c) \/ Serve(c) \/ Deliver(c) \/ Lose(c)
      PROVE  \/ base'[r] = base[r]
             \/ phase[r] = "call" /\ \E s \in MemCall : Begin(r, s)
  <2>1. CASE r # c
    BY <1>2, <2>1, RequestAlone DEF Same, Untouched
  <2>2. CASE r = c
    <3>1. CASE Syscall(r)
      BY <3>1, SyscallKinds DEF To, Other
    <3>2. CASE ~ Syscall(r)
      <4>1. UNCHANGED base
        BY <1>2, <2>2, <3>2, CallStepWays
        DEF MonShape, Tick, Serve, Deliver, Lose, Receive, SecondCall, Respond, memVars, callVars
      <4>2. QED BY <4>1
    <3>3. QED BY <3>1, <3>2
  <2>3. QED BY <2>1, <2>2
<1>3. QED BY <1>1, <1>2 DEF Next

\* What a call that begins has before it.
LEMMA BeforeBegins ==
  ASSUME MemHolds, [Next]_vars, NEW r \in Call, phase[r] = "call",
         NEW s \in MemCall, Begin(r, s)
  PROVE  AllBefore(r)'
<1>1. base'[r].count = SumTo[Cpus] /\ base'[r].done = {d \in Call : sys[d] # "none" /\ step[d] = 0}
  BY DEF Begin, MemHolds, MonShape, MemShape, Bases
<1>2. ASSUME NEW q \in base'[r].done, asks'[q] = "fault_pages"
      PROVE  DoneBefore(r, q)'
  <2>1. q \in Call /\ sys[q] # "none" /\ step[q] = 0
    BY <1>1, <1>2
  <2>2. asks' = asks
    BY SpecAsks DEF MemHolds
  <2>3. step'[q] = 0 /\ sys'[q] = sys[q] /\ ret'[q] = ret[q] /\ out'[q] = out[q]
    BY <1>2, <2>1, <2>2, EndedStays DEF MemHolds
  <2>4. Succeeded(q, "fault_pages") => FaultsReported(q)
    BY <2>1 DEF MemHolds, FaultsHold, FaultClaims
  <2>5. Succeeded(q, "fault_pages")' => Succeeded(q, "fault_pages")
    BY <2>1, <2>3 DEF Succeeded
  <2>6. EventAt(23)' = EventAt(23) /\ EventAt(24)' = EventAt(24)
    BY DEF EventAt, FirstFault
  <2>7. QED BY <1>1, <2>1, <2>3, <2>4, <2>5, <2>6 DEF DoneBefore, FaultsReported
<1>3. QED BY <1>2 DEF AllBefore
LEMMA ForwardStep ==
  ASSUME ForwardHold, [Next]_vars
  PROVE  ForwardHold'
<1>1. MemHolds /\ MemHolds' /\ MonShape /\ asks' = asks
  BY MemHoldsStep, SpecAsks DEF ForwardHold, MemHolds
<1>2. ASSUME NEW r \in Call PROVE AllBefore(r)'
  <2>1. CASE phase[r] = "call" /\ \E s \in MemCall : Begin(r, s)
    BY <1>1, <2>1, BeforeBegins
  <2>2. CASE base'[r] = base[r]
    <3>1. ASSUME NEW q \in base'[r].done, asks'[q] = "fault_pages"
          PROVE  DoneBefore(r, q)'
      <4>1. DoneBefore(r, q)
        BY <1>1, <2>2, <3>1 DEF ForwardHold, AllBefore
      <4>2. step'[q] = 0 /\ sys'[q] = sys[q] /\ ret'[q] = ret[q] /\ out'[q] = out[q]
        BY <1>1, <3>1, <4>1, EndedStays DEF DoneBefore
      <4>3. Succeeded(q, "fault_pages")' => Succeeded(q, "fault_pages")
        BY <4>1, <4>2 DEF Succeeded, DoneBefore
      <4>4. EventAt(23)' = EventAt(23) /\ EventAt(24)' = EventAt(24)
        BY DEF EventAt, FirstFault
      <4>5. QED BY <2>2, <4>1, <4>2, <4>3, <4>4 DEF DoneBefore
    <3>2. QED BY <3>1 DEF AllBefore
  <2>3. QED BY <1>1, <2>1, <2>2, BaseStays
<1>3. QED BY <1>1, <1>2 DEF ForwardHold

THEOREM ForwardAlways == Spec => []ForwardHold
<1>1. Init => ForwardHold
  <2> SUFFICES ASSUME Init PROVE ForwardHold
    OBVIOUS
  <2>1. MemHolds
    BY ShapeInit, NowInit, FaultsInit DEF Init, MemHolds
  <2>2. \A r \in Call : base[r].done = {}
    BY DEF Init, MemInit
  <2>3. QED BY <2>1, <2>2 DEF ForwardHold, AllBefore
<1>2. ForwardHold /\ [Next]_vars => ForwardHold'
  BY ForwardStep
<1>3. QED BY <1>1, <1>2, PTL DEF Spec

\* What the figures of a request for the faults are, as long as an int holds
\* the faults counted.
LEMMA FaultFigures ==
  ASSUME Cardinality(Zones) = 5, MemHolds, NEW q \in Call, asks[q] = "fault_pages",
         Succeeded(q, "fault_pages"),
         \A e \in {"PGFAULT", "PGMAJFAULT"} : 2 * SumTo[Cpus][e] < IntWord
  PROVE  /\ Body(q)[1] = out[q][1] /\ Body(q)[2] = out[q][2]
         /\ out[q][1] \in Nat /\ out[q][2] \in Nat
         /\ base[q].count["PGFAULT"] \in Nat /\ base[q].count["PGMAJFAULT"] \in Nat
         /\ base[q].count["PGFAULT"] <= out[q][1] /\ base[q].count["PGMAJFAULT"] <= out[q][2]
<1>1. FaultClaims(q) /\ Memory
  BY DEF MemHolds, FaultsHold, MemShape
<1>2. EventAt(23) = "PGFAULT" /\ EventAt(24) = "PGMAJFAULT"
  BY FaultsPlaced
<1>3. /\ out[q][1] \in Nat /\ out[q][2] \in Nat
      /\ base[q].count["PGFAULT"] <= out[q][1] /\ out[q][1] <= SumTo[Cpus]["PGFAULT"]
      /\ base[q].count["PGMAJFAULT"] <= out[q][2] /\ out[q][2] <= SumTo[Cpus]["PGMAJFAULT"]
      /\ base[q].count["PGFAULT"] \in Nat /\ base[q].count["PGMAJFAULT"] \in Nat
  BY <1>1, <1>2 DEF FaultClaims, FaultsReported, Event
<1>4. SumTo[Cpus]["PGFAULT"] \in Nat /\ SumTo[Cpus]["PGMAJFAULT"] \in Nat
  <2>1. "PGFAULT" \in Event /\ "PGMAJFAULT" \in Event /\ 0 \in 0 .. Cpus
    BY Sizes DEF Event
  <2>2. QED BY <1>1, <2>1, SumToNat
<1>5. 2 * out[q][1] < IntWord /\ 2 * out[q][2] < IntWord
  <2>1. 2 * SumTo[Cpus]["PGFAULT"] < IntWord /\ 2 * SumTo[Cpus]["PGMAJFAULT"] < IntWord
    OBVIOUS
  <2>2. IntWord \in Nat
    BY MonitorAssumption
  <2>3. QED BY <1>3, <1>4, <2>1, <2>2
<1>6. ToInt(out[q][1]) = out[q][1] /\ ToInt(out[q][2]) = out[q][2]
  BY <1>3, <1>5, IntHolds
<1>7. Body(q) = <<ToInt(out[q][1]), ToInt(out[q][2])>>
  BY DEF Body, IntBody
<1>8. QED BY <1>3, <1>6, <1>7

\* When a request for the faults is shown after one that it had seen leave the
\* kernel, its figures are no smaller.
LEMMA FiguresForward ==
  ASSUME Cardinality(Zones) = 5, AnswersHold, ForwardHold, NEW r \in Call, NEW p,
         phase[r] = "answered", asks[r] = "fault_pages", answer[r].body # <<>>,
         DotHolds("fault_pages", p), p.figures # <<>>, p.of \in base[r].done,
         \A e \in {"PGFAULT", "PGMAJFAULT"} : 2 * SumTo[Cpus][e] < IntWord,
         NEW k \in 1 .. 2
  PROVE  p.figures[k] <= answer[r].body[k]
<1> DEFINE q == p.of
<1>1. MemHolds /\ AllBefore(r) /\ "fault_pages" \in Endpoint
  BY DEF ForwardHold, Endpoint
<1>2. q \in Call /\ Succeeded(q, "fault_pages") /\ p.figures = Body(q) /\ asks[q] = "fault_pages"
  BY <1>1, DotFigures
<1>3. Succeeded(r, "fault_pages") /\ answer[r].body = Body(r)
  <2>1. answer[r] # Error
    BY DEF Error
  <2>2. ret[r] = 0 /\ answer[r] = Figures(r) /\ sys[r] = asks[r] /\ step[r] = 0
    BY <2>1, FiguresDocumented
  <2>3. QED BY <2>2 DEF Succeeded, Figures
<1>4. out[q][1] <= base[r].count["PGFAULT"] /\ out[q][2] <= base[r].count["PGMAJFAULT"]
  <2>1. DoneBefore(r, q)
    BY <1>1, <1>2 DEF AllBefore
  <2>2. EventAt(23) = "PGFAULT" /\ EventAt(24) = "PGMAJFAULT"
    BY FaultsPlaced
  <2>3. QED BY <1>2, <2>1, <2>2 DEF DoneBefore
<1>5. /\ p.figures[1] = out[q][1] /\ p.figures[2] = out[q][2]
      /\ out[q][1] \in Nat /\ out[q][2] \in Nat
  BY <1>1, <1>2, FaultFigures
<1>6. /\ answer[r].body[1] = out[r][1] /\ answer[r].body[2] = out[r][2]
      /\ out[r][1] \in Nat /\ out[r][2] \in Nat
      /\ base[r].count["PGFAULT"] \in Nat /\ base[r].count["PGMAJFAULT"] \in Nat
      /\ base[r].count["PGFAULT"] <= out[r][1] /\ base[r].count["PGMAJFAULT"] <= out[r][2]
  BY <1>1, <1>3, FaultFigures
<1>7. p.figures[1] <= answer[r].body[1] /\ p.figures[2] <= answer[r].body[2]
  BY <1>4, <1>5, <1>6
<1>8. k = 1 \/ k = 2
  OBVIOUS
<1>9. QED BY <1>7, <1>8

\* The numbers of faults on the chart do not go back (FaultsForward,
\* fault_pages.js:36-59) unless the two requests overlapped, for any number of
\* requests, processors and faults that an int holds: the answers may come in
\* any order and from any of the requests that are under way.
THEOREM FaultsForwardAll ==
  ASSUME Cardinality(Zones) = 5
  PROVE  Spec => FaultsForward
<1> DEFINE Forward ==
      LET old == chart["fault_pages"]
          new == chart'["fault_pages"]
      IN  /\ Len(old) = 1 /\ old[1].of \in base[new[1].of].done
          /\ old[1].figures # <<>> /\ new[1].figures # <<>>
          /\ \A e \in {"PGFAULT", "PGMAJFAULT"} : 2 * SumTo[Cpus][e] < IntWord
          => \A k \in 1 .. 2 : old[1].figures[k] <= new[1].figures[k]
<1>1. ASSUME AnswersHold, ForwardHold, DotsHold, NEW r \in Call, Deliver(r)
      PROVE  Forward
  <2> DEFINE old == chart["fault_pages"]
             new == chart'["fault_pages"]
  <2> SUFFICES ASSUME Len(old) = 1, old[1].of \in base[new[1].of].done,
                      old[1].figures # <<>>, new[1].figures # <<>>,
                      \A e \in {"PGFAULT", "PGMAJFAULT"} : 2 * SumTo[Cpus][e] < IntWord,
                      NEW k \in 1 .. 2
               PROVE  old[1].figures[k] <= new[1].figures[k]
    OBVIOUS
  <2>1. /\ phase[r] = "answered" /\ chart' = [chart EXCEPT ![asks[r]] = Drawn(r)]
        /\ MonShape /\ MemHolds /\ "fault_pages" \in Endpoint
    BY <1>1 DEF Deliver, To, ForwardHold, MemHolds, Endpoint
  <2>2. DOMAIN chart = Endpoint /\ old \in Seq(Dot)
    BY <2>1 DEF MonShape, WebTypes
  <2>3. DotHolds("fault_pages", old[1])
    <3>1. 1 \in DOMAIN old
      BY <2>2
    <3>2. QED BY <1>1, <2>1, <3>1 DEF DotsHold
  <2>4. CASE asks[r] = "fault_pages"
    <3>1. new = <<Point(r)>>
      BY <2>1, <2>2, <2>4 DEF Drawn
    <3>2. new[1].of = r /\ new[1].figures = answer[r].body
      BY <3>1 DEF Point
    <3>3. QED BY <1>1, <2>1, <2>3, <2>4, <3>2, FiguresForward
  <2>5. CASE asks[r] # "fault_pages"
    <3>1. new = old
      BY <2>1, <2>2, <2>5
    <3>2. /\ old[1].of \in Call /\ Succeeded(old[1].of, "fault_pages")
          /\ old[1].figures = Body(old[1].of) /\ asks[old[1].of] = "fault_pages"
      BY <1>1, <2>1, <2>3, DotFigures
    <3>3. old[1].figures[1] \in Nat /\ old[1].figures[2] \in Nat
      BY <2>1, <3>2, FaultFigures
    <3>4. k = 1 \/ k = 2
      OBVIOUS
    <3>5. old[1].figures[k] \in Nat
      BY <3>3, <3>4
    <3>6. QED BY <3>1, <3>5
  <2>6. QED BY <2>4, <2>5
<1>2. AnswersHold /\ ForwardHold /\ DotsHold /\ [Next]_vars => [Forward]_chart
  <2>1. [Next]_vars => UNCHANGED chart \/ \E r \in Call : Deliver(r)
    BY DEF Next, Tick, Serve, Lose, Receive, Syscall, SecondCall, Respond, Die, vars, webVars
  <2>2. QED BY <1>1, <2>1
<1>3. Spec => [][Forward]_chart
  <2> HIDE DEF Forward
  <2>1. QED BY <1>2, AnswersAlways, ForwardAlways, DotsAlways, PTL DEF Spec
<1>4. QED BY <1>3 DEF FaultsForward
=============================================================================
