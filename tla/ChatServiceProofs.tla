-------------------------- MODULE ChatServiceProofs --------------------------
(***************************************************************************)
(* Proofs about ChatService for every finite set of requests, every size   *)
(* of the client's pool and any number of scrapes.                         *)
(***************************************************************************)
EXTENDS ChatService, FiniteSetTheorems, TLAPS

-----------------------------------------------------------------------------
(* One request. *)

(* Client and handler of a request, and the status of its reply. *)
CallAgrees(c) ==
    /\ handler[c] \in {"none", "received", "upstream", "answered", "tokens", "raised"} =>
           status[c] = 500
    /\ handler[c] = "none" <=> client[c] = "queued"
    /\ handler[c] \in {"upstream", "answered", "tokens", "raised"} => c \in ChatCalls
    /\ handler[c] \in {"streaming", "failing"} =>
           c \in Streams /\ status[c] = 200 /\ client[c] = "sent"
    /\ handler[c] = "over" => client[c] \in {"ok", "failed"}
    /\ client[c] = "ok" => handler[c] = "over" /\ status[c] = 200
    /\ client[c] = "failed" => c \in timed_out \/ (handler[c] = "over" /\ status[c] # 200)
    /\ c \in timed_out => client[c] = "failed"

CallsAgree ==
    /\ \A c \in Calls : CallAgrees(c)
    /\ case = "done" => \A c \in ChatCalls : Result(c)

-----------------------------------------------------------------------------
(* Types. *)

LEMMA InitTyped == Init => TypeOK
<1> SUFFICES ASSUME Init PROVE TypeOK
  OBVIOUS
<1> USE DEF Init, NoCounts
<1>1. /\ http \in [Paths -> [StatusCodes -> Nat]]
      /\ inference \in [Paths -> [Outcomes -> Nat]]
  OBVIOUS
<1>2. seen \in [http : [StatusCodes -> Nat], inference : [Outcomes -> Nat]]
  <2>1. "/chat" \in Paths
    BY DEF Paths
  <2> QED BY <1>1, <2>1
<1>3. /\ case \in {"running", "done"} /\ scrape \in {"off", "half"}
      /\ timed_out \subseteq Calls
      /\ scrapes \in 0 .. MaxScrapes
  BY ScrapesAssumption
<1>4. /\ client \in [Calls -> ClientStates] /\ handler \in [Calls -> HandlerStates]
      /\ status \in [Calls -> StatusCodes]
  BY DEF ClientStates, HandlerStates, StatusCodes
<1> QED BY <1>1, <1>2, <1>3, <1>4 DEF TypeOK

LEMMA NextTyped ==
    ASSUME TypeOK, CallsAgree, Next
    PROVE  TypeOK'
<1>0. /\ Streams \subseteq Calls /\ ChatCalls \subseteq Calls /\ Chats \subseteq ChatCalls
      /\ \A c \in Calls : PathOf(c) \in Paths
      /\ "/chat" \in Paths /\ "success" \in Outcomes /\ "error" \in Outcomes
  BY DEF Calls, ChatCalls, PathOf, Paths, Outcomes
<1> USE DEF TypeOK, ClientStates, HandlerStates, StatusCodes
<1>1. ASSUME NEW c \in Calls, Send(c)
      PROVE  TypeOK'
  BY <1>0, <1>1 DEF Send
<1>2. ASSUME NEW c \in Calls, GiveUp(c)
      PROVE  TypeOK'
  BY <1>0, <1>2 DEF GiveUp
<1>3. ASSUME NEW c \in Calls, Reject(c)
      PROVE  TypeOK'
  BY <1>0, <1>3 DEF Reject, Move
<1>4. ASSUME NEW c \in Calls, CallUpstream(c)
      PROVE  TypeOK'
  BY <1>0, <1>4 DEF CallUpstream, Move
<1>5. ASSUME NEW c \in Calls, UpstreamAnswers(c)
      PROVE  TypeOK'
  BY <1>0, <1>5 DEF UpstreamAnswers, Move
<1>6. ASSUME NEW c \in Calls, UpstreamRaises(c)
      PROVE  TypeOK'
  BY <1>0, <1>6 DEF UpstreamRaises, Move
<1>7. ASSUME NEW c \in Calls, RecordSuccess(c)
      PROVE  TypeOK'
  <2>1. inference' \in [Paths -> [Outcomes -> Nat]]
    BY <1>0, <1>7 DEF RecordSuccess, Count
  <2> QED BY <1>0, <1>7, <2>1 DEF RecordSuccess, Move
<1>8. ASSUME NEW c \in Calls, RecordTokens(c)
      PROVE  TypeOK'
  BY <1>0, <1>8 DEF RecordTokens, Move
<1>9. ASSUME NEW c \in Calls, RecordError(c)
      PROVE  TypeOK'
  <2>1. inference' \in [Paths -> [Outcomes -> Nat]]
    BY <1>0, <1>9 DEF RecordError, Count
  <2> QED BY <1>0, <1>9, <2>1 DEF RecordError, Move
<1>10. ASSUME NEW c \in Calls, StartStream(c)
       PROVE  TypeOK'
  BY <1>0, <1>10 DEF StartStream, Move
<1>11. ASSUME NEW c \in Calls, RecordHttp(c)
       PROVE  TypeOK'
  <2>1. http' \in [Paths -> [StatusCodes -> Nat]]
    BY <1>0, <1>11 DEF RecordHttp
  <2> QED BY <1>0, <1>11, <2>1 DEF RecordHttp
<1>12. ASSUME NEW c \in Calls, Reply(c)
       PROVE  TypeOK'
  BY <1>0, <1>12 DEF Reply, Move
<1>13. ASSUME NEW c \in Streams, StreamRaises(c)
       PROVE  TypeOK'
  BY <1>0, <1>13 DEF StreamRaises, Move
<1>14. ASSUME NEW c \in Streams, EndStream(c)
       PROVE  TypeOK'
  BY <1>0, <1>14 DEF EndStream
<1>15. CASE EndCase
  BY <1>0, <1>15 DEF EndCase, Finished, WarmedUp, ChatCalls
<1>16. CASE StartScrape
  <2>1. seen' \in [http : [StatusCodes -> Nat], inference : [Outcomes -> Nat]]
    <3>1. http["/chat"] \in [StatusCodes -> Nat] /\ inference["/chat"] \in [Outcomes -> Nat]
      BY <1>0
    <3> QED BY <1>16, <3>1 DEF StartScrape, Read
  <2> QED BY <1>16, <2>1, ScrapesAssumption DEF StartScrape
<1>17. CASE EndScrape
  <2>1. seen' \in [http : [StatusCodes -> Nat], inference : [Outcomes -> Nat]]
    <3>1. http["/chat"] \in [StatusCodes -> Nat] /\ inference["/chat"] \in [Outcomes -> Nat]
      BY <1>0
    <3> QED BY <1>17, <3>1 DEF EndScrape, Read
  <2> QED BY <1>17, <2>1 DEF EndScrape
<1> QED BY <1>1, <1>2, <1>3, <1>4, <1>5, <1>6, <1>7, <1>8, <1>9, <1>10, <1>11, <1>12,
            <1>13, <1>14, <1>15, <1>16, <1>17
        DEF Next, Server, Stream

-----------------------------------------------------------------------------
LEMMA NextAgrees ==
    ASSUME TypeOK, CallsAgree, Next
    PROVE  CallsAgree'
<1>0. /\ Streams \subseteq Calls /\ ChatCalls \subseteq Calls /\ Chats \subseteq ChatCalls
      /\ ChatCalls \cap Streams = {} /\ Calls = ChatCalls \cup Streams
      /\ handler \in [Calls -> HandlerStates] /\ client \in [Calls -> ClientStates]
      /\ status \in [Calls -> StatusCodes]
  BY CallsAssumption DEF Calls, ChatCalls, TypeOK
<1> USE DEF CallsAgree, CallAgrees, Result
<1>1. ASSUME NEW c \in Calls, Send(c)
      PROVE  CallsAgree'
  BY <1>0, <1>1 DEF Send
<1>2. ASSUME NEW c \in Calls, GiveUp(c)
      PROVE  CallsAgree'
  BY <1>0, <1>2 DEF GiveUp
<1>3. ASSUME NEW c \in Calls, Reject(c)
      PROVE  CallsAgree'
  BY <1>0, <1>3 DEF Reject, Move
<1>4. ASSUME NEW c \in Calls, CallUpstream(c)
      PROVE  CallsAgree'
  BY <1>0, <1>4 DEF CallUpstream, Move
<1>5. ASSUME NEW c \in Calls, UpstreamAnswers(c)
      PROVE  CallsAgree'
  BY <1>0, <1>5 DEF UpstreamAnswers, Move
<1>6. ASSUME NEW c \in Calls, UpstreamRaises(c)
      PROVE  CallsAgree'
  BY <1>0, <1>6 DEF UpstreamRaises, Move
<1>7. ASSUME NEW c \in Calls, RecordSuccess(c)
      PROVE  CallsAgree'
  BY <1>0, <1>7 DEF RecordSuccess, Move
<1>8. ASSUME NEW c \in Calls, RecordTokens(c)
      PROVE  CallsAgree'
  BY <1>0, <1>8 DEF RecordTokens, Move
<1>9. ASSUME NEW c \in Calls, RecordError(c)
      PROVE  CallsAgree'
  BY <1>0, <1>9 DEF RecordError, Move
<1>10. ASSUME NEW c \in Calls, StartStream(c)
       PROVE  CallsAgree'
  BY <1>0, <1>10 DEF StartStream, Move
<1>11. ASSUME NEW c \in Calls, RecordHttp(c)
       PROVE  CallsAgree'
  <2>1. ASSUME NEW d \in Calls
        PROVE  CallAgrees(d)'
    <3>1. CASE d = c
      BY <1>0, <1>11, <3>1 DEF RecordHttp, ClientStates
    <3>2. CASE d \notin {c}
      BY <1>0, <1>11, <3>2 DEF RecordHttp
    <3> QED BY <3>1, <3>2
  <2> HIDE DEF CallAgrees
  <2> QED BY <1>0, <1>11, <2>1 DEF RecordHttp
<1>12. ASSUME NEW c \in Calls, Reply(c)
       PROVE  CallsAgree'
  <2>1. ASSUME NEW d \in Calls
        PROVE  CallAgrees(d)'
    <3>1. CASE d = c
      BY <1>0, <1>12, <3>1 DEF Reply, Move, ClientStates
    <3>2. CASE d \notin {c}
      BY <1>0, <1>12, <3>2 DEF Reply, Move
    <3> QED BY <3>1, <3>2
  <2>2. case' = "done" => \A d \in ChatCalls : Result(d)'
    BY <1>0, <1>12 DEF Reply, Move
  <2> HIDE DEF CallAgrees
  <2> QED BY <2>1, <2>2
<1>13. ASSUME NEW c \in Streams, StreamRaises(c)
       PROVE  CallsAgree'
  BY <1>0, <1>13 DEF StreamRaises, Move
<1>14. ASSUME NEW c \in Streams, EndStream(c)
       PROVE  CallsAgree'
  BY <1>0, <1>14 DEF EndStream
<1>15. CASE EndCase
  BY <1>0, <1>15 DEF EndCase, Finished, WarmedUp, ChatCalls
<1>16. CASE StartScrape
  BY <1>0, <1>16 DEF StartScrape, Read
<1>17. CASE EndScrape
  BY <1>0, <1>17 DEF EndScrape, Read
<1> QED BY <1>1, <1>2, <1>3, <1>4, <1>5, <1>6, <1>7, <1>8, <1>9, <1>10, <1>11, <1>12,
            <1>13, <1>14, <1>15, <1>16, <1>17
        DEF Next, Server, Stream

-----------------------------------------------------------------------------
(* The counters. *)

LEMMA CountedFinite ==
    /\ \A p \in Paths, s \in StatusCodes : IsFiniteSet(Counted(p, s))
    /\ IsFiniteSet(Succeeded) /\ IsFiniteSet(Errored) /\ IsFiniteSet(Success)
    /\ IsFiniteSet(WarmupSuccess) /\ IsFiniteSet(timed_out \cap ChatCalls)
    /\ IsFiniteSet(InFlight)
<1>1. IsFiniteSet(Calls) /\ ChatCalls \subseteq Calls
  BY CallsAssumption DEF Calls, ChatCalls
<1>2. \A S \in SUBSET Calls : IsFiniteSet(S)
  BY <1>1, FS_Subset
<1> QED BY <1>1, <1>2 DEF Counted, Succeeded, Errored, Success, WarmupSuccess, InFlight, ChatCalls

(* Nothing is counted, and nothing new has to be. *)
CountsKept ==
    /\ \A p \in Paths, s \in StatusCodes : Counted(p, s)' = Counted(p, s)
    /\ Succeeded' = Succeeded /\ Errored' = Errored
    /\ http' = http /\ inference' = inference

LEMMA NextCounts ==
    ASSUME TypeOK, CallsAgree, CountersMatchReplies, Next
    PROVE  CountersMatchReplies'
<1>0. /\ Streams \subseteq Calls /\ ChatCalls \subseteq Calls /\ Chats \subseteq ChatCalls
      /\ ChatCalls \cap Streams = {} /\ Calls = ChatCalls \cup Streams
      /\ handler \in [Calls -> HandlerStates] /\ client \in [Calls -> ClientStates]
      /\ status \in [Calls -> StatusCodes]
      /\ http \in [Paths -> [StatusCodes -> Nat]]
      /\ inference \in [Paths -> [Outcomes -> Nat]]
      /\ \A c \in Calls : PathOf(c) \in Paths
      /\ "/chat" \in Paths /\ "success" \in Outcomes /\ "error" \in Outcomes
  BY CallsAssumption DEF Calls, ChatCalls, TypeOK, PathOf, Paths, Outcomes
<1>a. CountsKept => CountersMatchReplies'
  BY DEF CountsKept, CountersMatchReplies
<1> USE DEF Counted, Succeeded, Errored, Replied, Decided
<1>1. ASSUME NEW c \in Calls, Send(c)
      PROVE  CountersMatchReplies'
  <2>1. CountsKept
    BY <1>0, <1>1 DEF Send, CountsKept, CallsAgree, CallAgrees
  <2> QED BY <1>a, <2>1
<1>2. ASSUME NEW c \in Calls, GiveUp(c)
      PROVE  CountersMatchReplies'
  <2>1. CountsKept
    BY <1>0, <1>2 DEF GiveUp, CountsKept, CallsAgree, CallAgrees
  <2> QED BY <1>a, <2>1
<1>3. ASSUME NEW c \in Calls, Reject(c)
      PROVE  CountersMatchReplies'
  <2>1. CountsKept
    BY <1>0, <1>3 DEF Reject, Move, CountsKept, CallsAgree, CallAgrees
  <2> QED BY <1>a, <2>1
<1>4. ASSUME NEW c \in Calls, CallUpstream(c)
      PROVE  CountersMatchReplies'
  <2>1. CountsKept
    BY <1>0, <1>4 DEF CallUpstream, Move, CountsKept, CallsAgree, CallAgrees
  <2> QED BY <1>a, <2>1
<1>5. ASSUME NEW c \in Calls, UpstreamAnswers(c)
      PROVE  CountersMatchReplies'
  <2>1. CountsKept
    BY <1>0, <1>5 DEF UpstreamAnswers, Move, CountsKept, CallsAgree, CallAgrees
  <2> QED BY <1>a, <2>1
<1>6. ASSUME NEW c \in Calls, UpstreamRaises(c)
      PROVE  CountersMatchReplies'
  <2>1. CountsKept
    BY <1>0, <1>6 DEF UpstreamRaises, Move, CountsKept, CallsAgree, CallAgrees
  <2> QED BY <1>a, <2>1
<1>7. ASSUME NEW c \in Calls, RecordSuccess(c)
      PROVE  CountersMatchReplies'
  <2>1. /\ Succeeded' = Succeeded \cup {c} /\ c \notin Succeeded
        /\ Errored' = Errored /\ http' = http
    BY <1>0, <1>7 DEF RecordSuccess, Move, CallsAgree, CallAgrees
  <2>2. \A p \in Paths, s \in StatusCodes : Counted(p, s)' = Counted(p, s)
    BY <1>0, <1>7 DEF RecordSuccess, Move, CallsAgree, CallAgrees
  <2>3. /\ inference'["/chat"]["success"] = inference["/chat"]["success"] + 1
        /\ inference'["/chat"]["error"] = inference["/chat"]["error"]
    BY <1>0, <1>7 DEF RecordSuccess, Count
  <2> HIDE DEF Counted, Succeeded, Errored
  <2>4. Cardinality(Succeeded') = Cardinality(Succeeded) + 1
    BY <2>1, CountedFinite, FS_AddElement
  <2> QED BY <2>1, <2>2, <2>3, <2>4 DEF CountersMatchReplies
<1>8. ASSUME NEW c \in Calls, RecordTokens(c)
      PROVE  CountersMatchReplies'
  <2>1. CountsKept
    BY <1>0, <1>8 DEF RecordTokens, Move, CountsKept, CallsAgree, CallAgrees
  <2> QED BY <1>a, <2>1
<1>9. ASSUME NEW c \in Calls, RecordError(c)
      PROVE  CountersMatchReplies'
  <2>1. /\ Errored' = Errored \cup {c} /\ c \notin Errored
        /\ Succeeded' = Succeeded /\ http' = http
    BY <1>0, <1>9 DEF RecordError, Move, CallsAgree, CallAgrees
  <2>2. \A p \in Paths, s \in StatusCodes : Counted(p, s)' = Counted(p, s)
    BY <1>0, <1>9 DEF RecordError, Move, CallsAgree, CallAgrees
  <2>3. /\ inference'["/chat"]["error"] = inference["/chat"]["error"] + 1
        /\ inference'["/chat"]["success"] = inference["/chat"]["success"]
    BY <1>0, <1>9 DEF RecordError, Count
  <2> HIDE DEF Counted, Succeeded, Errored
  <2>4. Cardinality(Errored') = Cardinality(Errored) + 1
    BY <2>1, CountedFinite, FS_AddElement
  <2> QED BY <2>1, <2>2, <2>3, <2>4 DEF CountersMatchReplies
<1>10. ASSUME NEW c \in Calls, StartStream(c)
       PROVE  CountersMatchReplies'
  <2>1. CountsKept
    BY <1>0, <1>10 DEF StartStream, Move, CountsKept, CallsAgree, CallAgrees
  <2> QED BY <1>a, <2>1
<1>11. ASSUME NEW c \in Calls, RecordHttp(c)
       PROVE  CountersMatchReplies'
  <2>1. ASSUME NEW p \in Paths, NEW s \in StatusCodes
        PROVE  http'[p][s] = Cardinality(Counted(p, s)')
    <3>1. CASE p = PathOf(c) /\ s = status[c]
      <4>1. Counted(p, s)' = Counted(p, s) \cup {c} /\ c \notin Counted(p, s)
        BY <1>0, <1>11, <3>1 DEF RecordHttp
      <4>2. http'[p][s] = http[p][s] + 1
        BY <1>0, <1>11, <3>1 DEF RecordHttp
      <4> HIDE DEF Counted, Succeeded, Errored
      <4>3. Cardinality(Counted(p, s)') = Cardinality(Counted(p, s)) + 1
        BY <4>1, CountedFinite, FS_AddElement
      <4> QED BY <4>2, <4>3 DEF CountersMatchReplies
    <3>2. CASE ~(p = PathOf(c) /\ s = status[c])
      <4>1. Counted(p, s)' = Counted(p, s)
        BY <1>0, <1>11, <3>2 DEF RecordHttp
      <4>2. http'[p][s] = http[p][s]
        BY <1>0, <1>11, <3>2 DEF RecordHttp
      <4> QED BY <4>1, <4>2 DEF CountersMatchReplies
    <3> QED BY <3>1, <3>2
  <2>2. Succeeded' = Succeeded /\ Errored' = Errored /\ inference' = inference
    BY <1>0, <1>11 DEF RecordHttp
  <2> HIDE DEF Counted, Succeeded, Errored
  <2> QED BY <2>1, <2>2 DEF CountersMatchReplies
<1>12. ASSUME NEW c \in Calls, Reply(c)
       PROVE  CountersMatchReplies'
  <2>1. CountsKept
    BY <1>0, <1>12 DEF Reply, Move, CountsKept, CallsAgree, CallAgrees
  <2> QED BY <1>a, <2>1
<1>13. ASSUME NEW c \in Streams, StreamRaises(c)
       PROVE  CountersMatchReplies'
  <2>1. CountsKept
    BY <1>0, <1>13 DEF StreamRaises, Move, CountsKept, CallsAgree, CallAgrees
  <2> QED BY <1>a, <2>1
<1>14. ASSUME NEW c \in Streams, EndStream(c)
       PROVE  CountersMatchReplies'
  <2>1. CountsKept
    BY <1>0, <1>14 DEF EndStream, CountsKept, CallsAgree, CallAgrees
  <2> QED BY <1>a, <2>1
<1>15. CASE EndCase
  <2>1. CountsKept
    BY <1>0, <1>15 DEF EndCase, Finished, WarmedUp, ChatCalls, CountsKept, CallsAgree, CallAgrees
  <2> QED BY <1>a, <2>1
<1>16. CASE StartScrape
  <2>1. CountsKept
    BY <1>0, <1>16 DEF StartScrape, Read, CountsKept, CallsAgree, CallAgrees
  <2> QED BY <1>a, <2>1
<1>17. CASE EndScrape
  <2>1. CountsKept
    BY <1>0, <1>17 DEF EndScrape, Read, CountsKept, CallsAgree, CallAgrees
  <2> QED BY <1>a, <2>1
<1> QED BY <1>1, <1>2, <1>3, <1>4, <1>5, <1>6, <1>7, <1>8, <1>9, <1>10, <1>11, <1>12,
            <1>13, <1>14, <1>15, <1>16, <1>17
        DEF Next, Server, Stream

-----------------------------------------------------------------------------
(* What follows from the counters, and the two sides of a scrape. *)

(* Every reply that was counted had its inference counted before. *)
LEMMA RepliesAreInferences ==
    ASSUME TypeOK, CountersMatchReplies
    PROVE  /\ http["/chat"][200] <= inference["/chat"]["success"]
           /\ http["/chat"][500] <= inference["/chat"]["error"]
<1>1. Counted("/chat", 200) \subseteq Succeeded /\ Counted("/chat", 500) \subseteq Errored
  BY DEF Counted, Succeeded, Errored, Decided, Calls, PathOf
<1>2. /\ Cardinality(Counted("/chat", 200)) <= Cardinality(Succeeded)
      /\ Cardinality(Counted("/chat", 500)) <= Cardinality(Errored)
  BY <1>1, CountedFinite, FS_Subset
<1> QED BY <1>2 DEF CountersMatchReplies, Paths, StatusCodes

LEMMA InferencesGrow ==
    ASSUME TypeOK, Next
    PROVE  /\ inference["/chat"]["success"] <= inference'["/chat"]["success"]
           /\ inference["/chat"]["error"] <= inference'["/chat"]["error"]
<1>0. /\ inference \in [Paths -> [Outcomes -> Nat]]
      /\ "/chat" \in Paths /\ "success" \in Outcomes /\ "error" \in Outcomes
  BY DEF TypeOK, Paths, Outcomes
<1>1. ASSUME NEW c \in Calls, Send(c)
      PROVE  /\ inference["/chat"]["success"] <= inference'["/chat"]["success"]
             /\ inference["/chat"]["error"] <= inference'["/chat"]["error"]
  BY <1>0, <1>1 DEF Send
<1>2. ASSUME NEW c \in Calls, GiveUp(c)
      PROVE  /\ inference["/chat"]["success"] <= inference'["/chat"]["success"]
             /\ inference["/chat"]["error"] <= inference'["/chat"]["error"]
  BY <1>0, <1>2 DEF GiveUp
<1>3. ASSUME NEW c \in Calls, Reject(c)
      PROVE  /\ inference["/chat"]["success"] <= inference'["/chat"]["success"]
             /\ inference["/chat"]["error"] <= inference'["/chat"]["error"]
  BY <1>0, <1>3 DEF Reject
<1>4. ASSUME NEW c \in Calls, CallUpstream(c)
      PROVE  /\ inference["/chat"]["success"] <= inference'["/chat"]["success"]
             /\ inference["/chat"]["error"] <= inference'["/chat"]["error"]
  BY <1>0, <1>4 DEF CallUpstream
<1>5. ASSUME NEW c \in Calls, UpstreamAnswers(c)
      PROVE  /\ inference["/chat"]["success"] <= inference'["/chat"]["success"]
             /\ inference["/chat"]["error"] <= inference'["/chat"]["error"]
  BY <1>0, <1>5 DEF UpstreamAnswers
<1>6. ASSUME NEW c \in Calls, UpstreamRaises(c)
      PROVE  /\ inference["/chat"]["success"] <= inference'["/chat"]["success"]
             /\ inference["/chat"]["error"] <= inference'["/chat"]["error"]
  BY <1>0, <1>6 DEF UpstreamRaises
<1>7. ASSUME NEW c \in Calls, RecordSuccess(c)
      PROVE  /\ inference["/chat"]["success"] <= inference'["/chat"]["success"]
             /\ inference["/chat"]["error"] <= inference'["/chat"]["error"]
  BY <1>0, <1>7 DEF RecordSuccess, Count
<1>8. ASSUME NEW c \in Calls, RecordTokens(c)
      PROVE  /\ inference["/chat"]["success"] <= inference'["/chat"]["success"]
             /\ inference["/chat"]["error"] <= inference'["/chat"]["error"]
  BY <1>0, <1>8 DEF RecordTokens
<1>9. ASSUME NEW c \in Calls, RecordError(c)
      PROVE  /\ inference["/chat"]["success"] <= inference'["/chat"]["success"]
             /\ inference["/chat"]["error"] <= inference'["/chat"]["error"]
  BY <1>0, <1>9 DEF RecordError, Count
<1>10. ASSUME NEW c \in Calls, StartStream(c)
       PROVE  /\ inference["/chat"]["success"] <= inference'["/chat"]["success"]
             /\ inference["/chat"]["error"] <= inference'["/chat"]["error"]
  BY <1>0, <1>10 DEF StartStream
<1>11. ASSUME NEW c \in Calls, RecordHttp(c)
       PROVE  /\ inference["/chat"]["success"] <= inference'["/chat"]["success"]
             /\ inference["/chat"]["error"] <= inference'["/chat"]["error"]
  BY <1>0, <1>11 DEF RecordHttp
<1>12. ASSUME NEW c \in Calls, Reply(c)
       PROVE  /\ inference["/chat"]["success"] <= inference'["/chat"]["success"]
             /\ inference["/chat"]["error"] <= inference'["/chat"]["error"]
  BY <1>0, <1>12 DEF Reply
<1>13. ASSUME NEW c \in Streams, StreamRaises(c)
       PROVE  /\ inference["/chat"]["success"] <= inference'["/chat"]["success"]
             /\ inference["/chat"]["error"] <= inference'["/chat"]["error"]
  BY <1>0, <1>13 DEF StreamRaises
<1>14. ASSUME NEW c \in Streams, EndStream(c)
       PROVE  /\ inference["/chat"]["success"] <= inference'["/chat"]["success"]
             /\ inference["/chat"]["error"] <= inference'["/chat"]["error"]
  BY <1>0, <1>14 DEF EndStream
<1>15. CASE EndCase
  BY <1>0, <1>15 DEF EndCase
<1>16. CASE StartScrape
  BY <1>0, <1>16 DEF StartScrape
<1>17. CASE EndScrape
  BY <1>0, <1>17 DEF EndScrape
<1> QED BY <1>1, <1>2, <1>3, <1>4, <1>5, <1>6, <1>7, <1>8, <1>9, <1>10, <1>11, <1>12,
            <1>13, <1>14, <1>15, <1>16, <1>17
        DEF Next, Server, Stream

(* The first half of a scrape is behind what the second half is going to read. *)
HalfScrape ==
    scrape = "half" =>
        /\ seen.http[200] <= inference["/chat"]["success"]
        /\ seen.http[500] <= inference["/chat"]["error"]

LEMMA NextScrape ==
    ASSUME TypeOK, CallsAgree, CountersMatchReplies, ScrapesConsistent, HalfScrape, Next
    PROVE  ScrapesConsistent' /\ HalfScrape'
<1>0. /\ seen \in [http : [StatusCodes -> Nat], inference : [Outcomes -> Nat]]
      /\ inference \in [Paths -> [Outcomes -> Nat]]
      /\ inference' \in [Paths -> [Outcomes -> Nat]]
      /\ "/chat" \in Paths /\ "success" \in Outcomes /\ "error" \in Outcomes
      /\ 200 \in StatusCodes /\ 500 \in StatusCodes
  BY NextTyped DEF TypeOK, Paths, Outcomes, StatusCodes
<1>1. CASE StartScrape
  <2>1. seen'.http = http["/chat"] /\ inference' = inference /\ scrape' = "half"
    BY <1>0, <1>1 DEF StartScrape, Read, First
  <2> QED BY <2>1, RepliesAreInferences DEF ScrapesConsistent, HalfScrape
<1>2. CASE EndScrape
  <2>1. /\ seen'.http = seen.http /\ seen'.inference = inference["/chat"]
        /\ scrape = "half" /\ scrape' = "off"
    BY <1>0, <1>2 DEF EndScrape, Read, First, Second
  <2> QED BY <2>1 DEF ScrapesConsistent, HalfScrape
<1>3. CASE seen' = seen /\ scrape' = scrape
  BY <1>0, <1>3, InferencesGrow DEF ScrapesConsistent, HalfScrape
<1>4. StartScrape \/ EndScrape \/ (seen' = seen /\ scrape' = scrape)
  BY DEF Next, Server, Stream, Send, GiveUp, Reject, CallUpstream, UpstreamAnswers,
         UpstreamRaises, RecordSuccess, RecordTokens, RecordError, StartStream, RecordHttp,
         Reply, StreamRaises, EndStream, EndCase
<1> QED BY <1>1, <1>2, <1>3, <1>4

(* The pool of the client. *)
PoolBounded == Cardinality(InFlight) <= Concurrency

LEMMA NextPool ==
    ASSUME TypeOK, PoolBounded, Next
    PROVE  PoolBounded'
<1>0. client \in [Calls -> ClientStates] /\ ChatCalls \subseteq Calls
  BY DEF TypeOK, Calls
<1>1. ASSUME NEW c \in Calls, Send(c)
      PROVE  PoolBounded'
  <2>1. CASE c \in ChatCalls
    <3>1. InFlight' = InFlight \cup {c}
      BY <1>0, <1>1, <2>1 DEF Send, InFlight
    <3>2. Cardinality(InFlight) < Concurrency
      <4>1. CASE c \in Chats
        BY <1>1, <4>1 DEF Send, FreeThread
      <4>2. CASE c \in Warmups
        <5>1. InFlight = {}
          BY <1>1, <4>2 DEF Send
        <5>2. Cardinality(InFlight) = 0
          BY <5>1, FS_EmptySet
        <5> QED BY <5>2, ConcurrencyAssumption
      <4> QED BY <2>1, <4>1, <4>2 DEF ChatCalls
    <3>3. Cardinality(InFlight') <= Cardinality(InFlight) + 1 /\ Cardinality(InFlight) \in Nat
      <4>1. IsFiniteSet(InFlight)
        BY CountedFinite
      <4>2. Cardinality(InFlight) \in Nat
        BY <4>1, FS_CardinalityType
      <4>3. Cardinality(InFlight') =
                IF c \in InFlight THEN Cardinality(InFlight) ELSE Cardinality(InFlight) + 1
        BY <3>1, <4>1, FS_AddElement
      <4> HIDE DEF InFlight
      <4> QED BY <4>2, <4>3
    <3>4. Cardinality(InFlight') \in Nat
      BY <3>1, CountedFinite, FS_AddElement, FS_CardinalityType
    <3> HIDE DEF InFlight
    <3> QED BY <3>4, <3>2, <3>3, ConcurrencyAssumption DEF PoolBounded
  <2>2. CASE c \notin ChatCalls
    <3>1. InFlight' = InFlight
      BY <1>0, <1>1, <2>2 DEF Send, InFlight
    <3> QED BY <3>1 DEF PoolBounded
  <2> QED BY <2>1, <2>2
<1>2. CASE \A c \in ChatCalls : client'[c] = "sent" => client[c] = "sent"
  <2>1. InFlight' \subseteq InFlight
    BY <1>2 DEF InFlight
  <2>2. Cardinality(InFlight') <= Cardinality(InFlight)
    BY <2>1, CountedFinite, FS_Subset
  <2>3. Cardinality(InFlight) \in Nat /\ Cardinality(InFlight') \in Nat
    BY <2>1, CountedFinite, FS_Subset, FS_CardinalityType
  <2> QED BY <2>2, <2>3, ConcurrencyAssumption DEF PoolBounded
<1>3. (\E c \in Calls : Send(c)) \/ \A c \in ChatCalls : client'[c] = "sent" => client[c] = "sent"
  BY <1>0 DEF Next, Server, Stream, GiveUp, Reject, CallUpstream, UpstreamAnswers,
         UpstreamRaises, RecordSuccess, RecordTokens, RecordError, StartStream, RecordHttp,
         Reply, StreamRaises, EndStream, EndCase, StartScrape, EndScrape
<1> QED BY <1>1, <1>2, <1>3

-----------------------------------------------------------------------------
(* All together. *)

IInv ==
    /\ TypeOK /\ CallsAgree /\ CountersMatchReplies
    /\ ScrapesConsistent /\ HalfScrape /\ PoolBounded

LEMMA InitInvariant == Init => IInv
<1> SUFFICES ASSUME Init PROVE IInv
  OBVIOUS
<1>1. TypeOK
  BY InitTyped
<1>2. CallsAgree
  BY DEF Init, CallsAgree, CallAgrees
<1>3. CountersMatchReplies
  <2>1. /\ \A p \in Paths, s \in StatusCodes : Counted(p, s) = {} /\ http[p][s] = 0
        /\ Succeeded = {} /\ Errored = {}
    BY DEF Init, NoCounts, Counted, Succeeded, Errored, Replied, Decided, Calls
  <2>2. inference["/chat"]["success"] = 0 /\ inference["/chat"]["error"] = 0
    BY DEF Init, NoCounts, Paths, Outcomes
  <2> QED BY <2>1, <2>2, FS_EmptySet DEF CountersMatchReplies
<1>4. ScrapesConsistent /\ HalfScrape
  BY DEF Init, NoCounts, ScrapesConsistent, HalfScrape, Paths, Outcomes, StatusCodes
<1>5. PoolBounded
  <2>1. InFlight = {}
    BY DEF Init, InFlight, Calls
  <2> QED BY <2>1, FS_EmptySet, ConcurrencyAssumption DEF PoolBounded
<1> QED BY <1>1, <1>2, <1>3, <1>4, <1>5 DEF IInv

LEMMA StepInvariant == IInv /\ [Next]_vars => IInv'
<1> SUFFICES ASSUME IInv, [Next]_vars PROVE IInv'
  OBVIOUS
<1>1. CASE Next
  BY <1>1, NextTyped, NextAgrees, NextCounts, NextScrape, NextPool DEF IInv
<1>2. CASE UNCHANGED vars
  <2> USE <1>2 DEF IInv, vars
  <2>1. TypeOK'
    BY DEF TypeOK
  <2>2. CallsAgree'
    BY DEF CallsAgree, CallAgrees, Result
  <2>3. CountersMatchReplies'
    <3>1. /\ \A p \in Paths, s \in StatusCodes : Counted(p, s)' = Counted(p, s)
          /\ Succeeded' = Succeeded /\ Errored' = Errored
      BY DEF Counted, Succeeded, Errored, Replied, Decided
    <3> QED BY <3>1 DEF CountersMatchReplies
  <2>4. ScrapesConsistent' /\ HalfScrape' /\ PoolBounded'
    BY DEF ScrapesConsistent, HalfScrape, PoolBounded, InFlight
  <2> QED BY <2>1, <2>2, <2>3, <2>4
<1> QED BY <1>1, <1>2

LEMMA Invariant == Spec => []IInv
<1>1. Init /\ [][Next]_vars => []IInv
  BY InitInvariant, StepInvariant, PTL
<1> QED BY <1>1, PTL DEF Spec

(* The state of the service and its clients stays within its types. *)
THEOREM ServiceTypeCorrect == Spec => []TypeOK
<1>1. IInv => TypeOK
  BY DEF IInv
<1> QED BY <1>1, Invariant, PTL

(* metrics.py counts each reply once, under the status it is sent with, and    *)
(* each /chat inference under the outcome its reply tells.                     *)
THEOREM CountersCorrect == Spec => []CountersMatchReplies
<1>1. IInv => CountersMatchReplies
  BY DEF IInv
<1> QED BY <1>1, Invariant, PTL

(* No scrape of /metrics shows more /chat replies of an outcome than           *)
(* inferences with it, whatever is counted between its two halves.             *)
THEOREM ScrapesCorrect == Spec => []ScrapesConsistent
<1>1. IInv => ScrapesConsistent
  BY DEF IInv
<1> QED BY <1>1, Invariant, PTL

(* When run_case is over, the successes it reports and those of its warmup    *)
(* differ from the service's counters by at most the requests whose client     *)
(* gave up.                                                                    *)
THEOREM SummaryCorrect == Spec => []SummaryMatchesMetrics
<1>1. ASSUME IInv, case = "done"
      PROVE  LET told == Cardinality(Success) + Cardinality(WarmupSuccess)
                 late == Cardinality(timed_out \cap ChatCalls)
             IN /\ told <= http["/chat"][200]
                /\ http["/chat"][200] <= told + late
                /\ inference["/chat"]["success"] <= told + late
  <2> DEFINE late == timed_out \cap ChatCalls
             delivered == Success \cup WarmupSuccess
  <2>1. /\ delivered \subseteq Counted("/chat", 200)
        /\ Counted("/chat", 200) \subseteq Succeeded
    <3>1. ASSUME NEW c \in delivered
          PROVE  c \in Counted("/chat", 200)
      <4>1. c \in ChatCalls /\ c \in Calls /\ client[c] = "ok"
        BY DEF Success, WarmupSuccess, Calls, ChatCalls
      <4>2. handler[c] = "over" /\ status[c] = 200
        BY <1>1, <4>1 DEF IInv, CallsAgree, CallAgrees
      <4> QED BY <4>1, <4>2 DEF Counted, Replied, PathOf
    <3>2. Counted("/chat", 200) \subseteq Succeeded
      BY DEF Counted, Succeeded, Replied, Decided, Calls, PathOf
    <3> QED BY <3>1, <3>2
  <2>2. Succeeded \subseteq delivered \cup late
    BY <1>1 DEF IInv, CallsAgree, CallAgrees, Result, Success, WarmupSuccess, Succeeded,
                Decided, Replied, Calls, ChatCalls
  <2>3. /\ IsFiniteSet(Success) /\ IsFiniteSet(WarmupSuccess) /\ IsFiniteSet(late)
        /\ IsFiniteSet(Succeeded) /\ IsFiniteSet(Counted("/chat", 200))
    BY CountedFinite DEF Paths, StatusCodes
  <2>4. Success \cap WarmupSuccess = {}
    BY CallsAssumption DEF Success, WarmupSuccess
  <2> HIDE DEF late
  <2>5. /\ IsFiniteSet(delivered)
        /\ Cardinality(delivered) = Cardinality(Success) + Cardinality(WarmupSuccess)
    <3>1. Cardinality(Success \cap WarmupSuccess) = 0
      BY <2>4, FS_EmptySet
    <3>2. /\ IsFiniteSet(delivered)
          /\ Cardinality(delivered) = Cardinality(Success) + Cardinality(WarmupSuccess)
                                         - Cardinality(Success \cap WarmupSuccess)
      BY <2>3, FS_Union
    <3>3. Cardinality(Success) \in Nat /\ Cardinality(WarmupSuccess) \in Nat
      BY <2>3, FS_CardinalityType
    <3> QED BY <3>1, <3>2, <3>3
  <2> HIDE DEF delivered
  <2>6. IsFiniteSet(delivered \cup late)
        /\ Cardinality(delivered \cup late) <= Cardinality(delivered) + Cardinality(late)
    <3>1. IsFiniteSet(delivered \cap late)
      <4>1. delivered \cap late \subseteq delivered
        OBVIOUS
      <4> QED BY <2>5, <4>1, FS_Subset
    <3>2. /\ Cardinality(delivered \cap late) \in Nat /\ Cardinality(delivered) \in Nat
          /\ Cardinality(late) \in Nat
      BY <2>3, <2>5, <3>1, FS_CardinalityType
    <3>3. /\ IsFiniteSet(delivered \cup late)
          /\ Cardinality(delivered \cup late) =
                 Cardinality(delivered) + Cardinality(late) - Cardinality(delivered \cap late)
      BY <2>3, <2>5, FS_Union
    <3> QED BY <3>2, <3>3
  <2>7. /\ Cardinality(delivered) <= Cardinality(Counted("/chat", 200))
        /\ Cardinality(Counted("/chat", 200)) <= Cardinality(Succeeded)
        /\ Cardinality(Succeeded) <= Cardinality(delivered \cup late)
    BY <2>1, <2>2, <2>3, <2>6, FS_Subset
  <2>8. /\ Cardinality(delivered) \in Nat /\ Cardinality(Counted("/chat", 200)) \in Nat
        /\ Cardinality(Succeeded) \in Nat /\ Cardinality(delivered \cup late) \in Nat
        /\ Cardinality(late) \in Nat
    BY <2>3, <2>5, <2>6, FS_CardinalityType
  <2>9. /\ http["/chat"][200] = Cardinality(Counted("/chat", 200))
        /\ inference["/chat"]["success"] = Cardinality(Succeeded)
    BY <1>1 DEF IInv, CountersMatchReplies, Paths, StatusCodes
  <2>10. Cardinality(late) = Cardinality(timed_out \cap ChatCalls)
    BY DEF late
  <2> QED BY <2>5, <2>6, <2>7, <2>8, <2>9, <2>10
<1>2. IInv => SummaryMatchesMetrics
  BY <1>1 DEF SummaryMatchesMetrics
<1> QED BY <1>2, Invariant, PTL

(* What the service works on for clients that still wait is bounded by the     *)
(* concurrency of the case.                                                    *)
THEOREM LoadCorrect == Spec => []LoadBounded
<1>1. ASSUME IInv
      PROVE  LoadBounded
  <2>1. Working \ timed_out \subseteq InFlight
    BY <1>1 DEF IInv, TypeOK, ClientStates, CallsAgree, CallAgrees, Working, InFlight, Calls
  <2>2. Cardinality(Working \ timed_out) <= Cardinality(InFlight)
    BY <2>1, CountedFinite, FS_Subset
  <2>3. Cardinality(InFlight) \in Nat /\ Cardinality(Working \ timed_out) \in Nat
    BY <2>1, CountedFinite, FS_Subset, FS_CardinalityType
  <2> QED BY <1>1, <2>2, <2>3, ConcurrencyAssumption DEF IInv, PoolBounded, LoadBounded
<1> QED BY <1>1, Invariant, PTL
=============================================================================
