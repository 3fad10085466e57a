------------------------------ MODULE ChatService ------------------------------
(***************************************************************************)
(* The HTTP front end in src/app and the benchmark client that drives it:  *)
(* run_case sends /chat requests, some one by one to warm up and the       *)
(* measured ones from a pool of threads, run_stream_once reads a           *)
(* /chat/stream reply, and Prometheus scrapes /metrics meanwhile.          *)
(* Handlers run in a thread pool of the server, so their steps interleave; *)
(* every increment of a counter is a step.  vLLM is upstream: a call to it *)
(* answers, or raises, or never comes back.  The text of replies and the   *)
(* token counts are left out.                                              *)
(***************************************************************************)
EXTENDS Integers, FiniteSets, Functions

CONSTANTS
    Warmups,       \* the requests of run_warmup, numbered
    Chats,         \* the measured requests of run_case, numbered
    Streams,       \* the requests of run_stream_once
    Concurrency,   \* max_workers of the client's pool
    MaxScrapes     \* bound: scrapes of /metrics

ASSUME CallsAssumption ==
    /\ IsFiniteSet(Warmups \cup Chats \cup Streams)
    /\ Warmups \subseteq Int /\ Chats \subseteq Int
    /\ Warmups \cap Chats = {} /\ (Warmups \cup Chats) \cap Streams = {}
ASSUME ConcurrencyAssumption == Concurrency \in Nat \ {0}
ASSUME ScrapesAssumption == MaxScrapes \in Nat

VARIABLES
    case,        \* run_case: "running", or "done" once every result is there
    client,      \* where the client of a request is
    timed_out,   \* requests whose client gave up waiting
    handler,     \* where the server's handler of a request is
    status,      \* the status code of its reply, 500 until there is one
    http,        \* REQUEST_COUNT by path and status code
    inference,   \* INFERENCE_REQUESTS by path and status
    scrape,      \* where the scrape in progress is
    scrapes,
    seen         \* what the last scrape read of /chat

vars == <<case, client, timed_out, handler, status, http, inference, scrape, scrapes,
          seen>>

ChatCalls == Warmups \cup Chats
Calls == ChatCalls \cup Streams
Paths == {"/chat", "/chat/stream"}
PathOf(c) == IF c \in ChatCalls THEN "/chat" ELSE "/chat/stream"
StatusCodes == {200, 422, 500}
Outcomes == {"success", "error"}

ClientStates == {"queued", "sent", "ok", "failed"}
HandlerStates == {"none", "received", "upstream", "answered", "tokens", "raised",
                  "finally", "reply", "streaming", "failing", "over"}

NoCounts == [http |-> [p \in Paths |-> [s \in StatusCodes |-> 0]],
             inference |-> [p \in Paths |-> [o \in Outcomes |-> 0]]]

Init ==
    /\ case = "running"
    /\ client = [c \in Calls |-> "queued"]
    /\ timed_out = {}
    /\ handler = [c \in Calls |-> "none"]
    /\ status = [c \in Calls |-> 500]
    /\ http = NoCounts.http /\ inference = NoCounts.inference
    /\ scrape = "off" /\ scrapes = 0
    /\ seen = [http |-> http["/chat"], inference |-> inference["/chat"]]

-----------------------------------------------------------------------------
(* The client. *)

(* run_warmup makes its calls one after the other and drops their results;   *)
(* then ThreadPoolExecutor(max_workers=concurrency): a free thread takes the *)
(* next future.  The middleware of the server gets the request.              *)
Result(c) == client[c] \in {"ok", "failed"}
WarmedUp == \A w \in Warmups : Result(w)
InFlight == {c \in ChatCalls : client[c] = "sent"}
FreeThread == Cardinality(InFlight) < Concurrency

Send(c) ==
    /\ case = "running" /\ client[c] = "queued"
    /\ c \in Warmups => InFlight = {}
    /\ c \in Chats =>
           WarmedUp /\ FreeThread /\ \A d \in Chats : d < c => client[d] # "queued"
    /\ client' = [client EXCEPT ![c] = "sent"]
    /\ handler' = [handler EXCEPT ![c] = "received"]
    /\ UNCHANGED <<case, timed_out, status, http, inference, scrape, scrapes, seen>>

(* The timeout of requests.post, or a broken connection.  The handler is not *)
(* told and goes on; only a stream is closed when its reader is gone.         *)
FaultyGiveUp(c) ==   \* requests.post without a timeout
    /\ client[c] = "sent" /\ handler[c] = "reply"
    /\ client' = [client EXCEPT ![c] = "failed"]
    /\ timed_out' = timed_out \cup {c}
    /\ UNCHANGED <<case, handler, status, http, inference, scrape, scrapes, seen>>
GiveUp(c) ==
    /\ client[c] = "sent"
    /\ client' = [client EXCEPT ![c] = "failed"]
    /\ timed_out' = timed_out \cup {c}
    /\ handler' = IF handler[c] \in {"streaming", "failing"}
                  THEN [handler EXCEPT ![c] = "over"] ELSE handler
    /\ UNCHANGED <<case, status, http, inference, scrape, scrapes, seen>>

(* as_completed has given every future's result: the summary is computed. *)
Finished == {c \in Chats : Result(c)}
Success == {c \in Chats : client[c] = "ok"}

EndCase ==
    /\ case = "running"
    /\ WarmedUp /\ Finished = Chats
    /\ case' = "done"
    /\ UNCHANGED <<client, timed_out, handler, status, http, inference, scrape,
                   scrapes, seen>>

-----------------------------------------------------------------------------
(* The server. *)

Move(c, from, to) ==
    /\ handler[c] = from
    /\ handler' = [handler EXCEPT ![c] = to]

(* Validation by ChatRequest. *)
Reject(c) ==
    /\ Move(c, "received", "finally")
    /\ status' = [status EXCEPT ![c] = 422]
    /\ UNCHANGED <<case, client, timed_out, http, inference, scrape, scrapes, seen>>

(* chat: VllmClient.chat is called and answers or raises. *)
CallUpstream(c) ==
    /\ c \in ChatCalls
    /\ Move(c, "received", "upstream")
    /\ UNCHANGED <<case, client, timed_out, status, http, inference, scrape, scrapes,
                   seen>>

UpstreamAnswers(c) ==
    /\ Move(c, "upstream", "answered")
    /\ UNCHANGED <<case, client, timed_out, status, http, inference, scrape, scrapes,
                   seen>>

UpstreamRaises(c) ==
    /\ Move(c, "upstream", "raised")
    /\ UNCHANGED <<case, client, timed_out, status, http, inference, scrape, scrapes,
                   seen>>

(* record_inference: the count, and then the tokens (whose sum is left out). *)
Count(c, outcome) == inference' = [inference EXCEPT !["/chat"][outcome] = @ + 1]

RecordSuccess(c) ==
    /\ Move(c, "answered", "tokens")
    /\ Count(c, "success")
    /\ UNCHANGED <<case, client, timed_out, status, http, scrape, scrapes, seen>>

RecordTokens(c) ==
    /\ Move(c, "tokens", "finally")
    /\ status' = [status EXCEPT ![c] = 200]
    /\ UNCHANGED <<case, client, timed_out, http, inference, scrape, scrapes, seen>>

RecordError(c) ==
    /\ Move(c, "raised", "finally")
    /\ Count(c, "error")
    /\ UNCHANGED <<case, client, timed_out, status, http, scrape, scrapes, seen>>

(* chat_stream: the response exists before vLLM is called. *)
StartStream(c) ==
    /\ c \in Streams
    /\ Move(c, "received", "finally")
    /\ status' = [status EXCEPT ![c] = 200]
    /\ UNCHANGED <<case, client, timed_out, http, inference, scrape, scrapes, seen>>

(* log_request, the finally clause: the request is counted once its status is *)
(* known, before anything of the reply is sent.                               *)
RecordHttp(c) ==
    /\ handler[c] = "finally"
    /\ handler' = [handler EXCEPT ![c] =
           IF c \in Streams /\ status[c] = 200
           THEN IF client[c] = "sent" THEN "streaming" ELSE "over" ELSE "reply"]
    /\ http' = [http EXCEPT ![PathOf(c)][status[c]] = @ + 1]
    /\ UNCHANGED <<case, client, timed_out, status, inference, scrape, scrapes, seen>>

(* The reply reaches the client if that still waits; raise_for_status makes a *)
(* failure of any other status than 200.                                      *)
FaultyReply(c) ==   \* without raise_for_status
    /\ Move(c, "reply", "over")
    /\ client' = IF client[c] # "sent" THEN client ELSE [client EXCEPT ![c] = "ok"]
    /\ UNCHANGED <<case, timed_out, status, http, inference, scrape, scrapes, seen>>
Reply(c) ==
    /\ Move(c, "reply", "over")
    /\ client' = IF client[c] # "sent" THEN client
                 ELSE [client EXCEPT ![c] = IF status[c] = 200 THEN "ok" ELSE "failed"]
    /\ UNCHANGED <<case, timed_out, status, http, inference, scrape, scrapes, seen>>

(* generate, of chat_stream: an exception of vLLM, at the first delta or      *)
(* later, is caught and becomes a last piece of the text.                     *)
StreamRaises(c) ==
    /\ Move(c, "streaming", "failing")
    /\ UNCHANGED <<case, client, timed_out, status, http, inference, scrape, scrapes,
                   seen>>

(* The text ends; run_stream_once takes it for what was asked. *)
EndStream(c) ==
    /\ handler[c] \in {"streaming", "failing"}
    /\ handler' = [handler EXCEPT ![c] = "over"]
    /\ client' = [client EXCEPT ![c] = "ok"]
    /\ UNCHANGED <<case, timed_out, status, http, inference, scrape, scrapes, seen>>

-----------------------------------------------------------------------------
(* /metrics: generate_latest goes through REGISTRY in the order in which the *)
(* metrics are registered; requests are counted meanwhile.                    *)
FaultyFirst == "inference"   \* registered the other way round
First == "http"
Second == IF First = "http" THEN "inference" ELSE "http"

Read(counter) ==
    seen' = IF counter = "http" THEN [seen EXCEPT !.http = http["/chat"]]
            ELSE [seen EXCEPT !.inference = inference["/chat"]]

StartScrape ==
    /\ scrape = "off" /\ scrapes < MaxScrapes
    /\ scrape' = "half" /\ scrapes' = scrapes + 1
    /\ Read(First)
    /\ UNCHANGED <<case, client, timed_out, handler, status, http, inference>>

EndScrape ==
    /\ scrape = "half"
    /\ scrape' = "off"
    /\ Read(Second)
    /\ UNCHANGED <<case, client, timed_out, handler, status, http, inference,
                   scrapes>>

-----------------------------------------------------------------------------
Server(c) ==
    \/ Reject(c) \/ CallUpstream(c) \/ UpstreamRaises(c)
    \/ UpstreamAnswers(c) \/ RecordSuccess(c) \/ RecordTokens(c) \/ RecordError(c)
    \/ StartStream(c) \/ RecordHttp(c) \/ Reply(c)

Stream(c) == StreamRaises(c) \/ EndStream(c)

Next ==
    \/ \E c \in Calls : Send(c) \/ GiveUp(c) \/ Server(c)
    \/ \E c \in Streams : Stream(c)
    \/ EndCase
    \/ StartScrape \/ EndScrape

(* The client's threads run, and its timeout comes; nothing is assumed of the *)
(* server or of vLLM.                                                          *)
Fairness ==
    /\ \A c \in ChatCalls : WF_vars(Send(c)) /\ WF_vars(GiveUp(c))
    /\ WF_vars(EndCase)

Spec == Init /\ [][Next]_vars /\ Fairness

-----------------------------------------------------------------------------
(* Type correctness. *)
TypeOK ==
    /\ case \in {"running", "done"}
    /\ client \in [Calls -> ClientStates] /\ timed_out \subseteq Calls
    /\ handler \in [Calls -> HandlerStates]
    /\ status \in [Calls -> StatusCodes]
    /\ http \in [Paths -> [StatusCodes -> Nat]]
    /\ inference \in [Paths -> [Outcomes -> Nat]]
    /\ scrape \in {"off", "half"} /\ scrapes \in 0 .. MaxScrapes
    /\ seen \in [http : [StatusCodes -> Nat], inference : [Outcomes -> Nat]]

(* The status of the reply is decided; the middleware has counted it. *)
Replied(c) == handler[c] \in {"reply", "streaming", "failing", "over"}
Decided(c) == handler[c] = "finally" \/ Replied(c)

(* The calls a counter stands for. *)
Counted(p, s) == {c \in Calls : PathOf(c) = p /\ Replied(c) /\ status[c] = s}
Succeeded == {c \in ChatCalls : handler[c] = "tokens" \/ (Decided(c) /\ status[c] = 200)}
Errored == {c \in ChatCalls : Decided(c) /\ status[c] = 500}

(* metrics.py: every reply of the service is counted once under the status it   *)
(* is sent with, whatever becomes of its client, and the outcomes counted for   *)
(* /chat are those its replies tell: 200 for a success, 500 for an error, and   *)
(* neither for a request that was refused.                                      *)
CountersMatchReplies ==
    /\ \A p \in Paths, s \in StatusCodes : http[p][s] = Cardinality(Counted(p, s))
    /\ inference["/chat"]["success"] = Cardinality(Succeeded)
    /\ inference["/chat"]["error"] = Cardinality(Errored)

(* A scrape is no snapshot, yet no scrape ever shows more successful or failed  *)
(* /chat replies than inferences with that outcome: an inference is counted     *)
(* before its reply, and read after it.                                         *)
ScrapesConsistent ==
    scrape = "off" =>
        /\ seen.http[200] <= seen.inference["success"]
        /\ seen.http[500] <= seen.inference["error"]

(* What run_case reports and what the service reports agree when the case is    *)
(* over: the successes of the summary, and those of the warmup, which it leaves *)
(* out, are among the replies counted with 200, and are all of them unless a    *)
(* client gave up waiting.                                                      *)
WarmupSuccess == {c \in Warmups : client[c] = "ok"}
SummaryMatchesMetrics ==
    case = "done" =>
        LET told == Cardinality(Success) + Cardinality(WarmupSuccess)
            late == Cardinality(timed_out \cap ChatCalls)
        IN /\ told <= http["/chat"][200]
           /\ http["/chat"][200] <= told + late
           /\ inference["/chat"]["success"] <= told + late

(* ThreadPoolExecutor bounds what the client has outstanding, not what the      *)
(* service works on: that exceeds the concurrency of the case by the requests   *)
(* whose client gave up, and by no more.                                        *)
Working == {c \in ChatCalls : handler[c] \notin {"none", "over"}}
LoadBounded == Cardinality(Working \ timed_out) <= Concurrency

(* run_case returns: a service that never answers cannot hold it, for the       *)
(* client's timeout frees its threads.                                          *)
CaseEnds == case = "running" ~> case = "done"
=============================================================================
