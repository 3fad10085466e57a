--------------------------- MODULE ProfilingSession ---------------------------
(***************************************************************************)
(* scripts/profile_vllm_quantization.py: the script starts one vLLM server *)
(* per quantization variant, waits for its port, drives it through a       *)
(* profile and stops it, and leaves traces, metadata.json and session.json *)
(* behind, which scripts/analyze_vllm_profile.py reads.                    *)
(*                                                                         *)
(* A server runs in a session of its own, so it survives the script.  All  *)
(* servers listen on the one port: whoever has it answers the requests.    *)
(* Every launch is numbered; the number names the run_variant call, its    *)
(* server process, its sampler thread and the trace it takes.              *)
(***************************************************************************)
EXTENDS Integers, Sequences, FiniteSets, Functions

CONSTANTS
    Variants,      \* the quantization variants
    Model,         \* the model path of a variant; two variants may share it
    NoModel,       \* no served model yet
    MaxAttempts,   \* bound: launches of a server, over all invocations
    MaxStops,      \* bound: how often the script is killed or interrupted
    MaxPolls       \* polls of wait_for_server before its deadline

ASSUME VariantsAssumption == IsFiniteSet(Variants)
ASSUME AttemptsAssumption == MaxAttempts \in Nat
ASSUME ModelAssumption == DOMAIN Model = Variants /\ NoModel \notin Range(Model)
ASSUME SessionBoundsAssumption == MaxStops \in Nat /\ MaxPolls \in Nat

VARIABLES
    at,            \* where the script is, "off" when it does not run
    todo,          \* args.variants from the loop's position on
    attempt,       \* launches so far, the last of them the current one
    variant,       \* the variant an attempt is for
    polls,         \* polls made by wait_for_server
    served_model,
    outcome,       \* the exception on its way through run_variant, if any
    profiled,      \* profile_stopped_at is in the metadata
    stops,
    (* The vLLM servers and the sampler threads, per attempt. *)
    server,
    profiling,     \* the servers whose profiler runs
    abandoned,     \* the servers that were alive when the script let go of them
    sampler,
    stop_event,
    late_rows,     \* rows a sampler wrote after it was told to stop
    (* The files. *)
    traces,        \* the traces: whose attempt stopped the profile of which server
    metadata,      \* metadata.json per variant directory
    session_file,  \* session.json: is it there, and whole
    session        \* its entries, and those of the running script, in no order

script == <<at, todo, attempt, variant, polls, served_model, outcome, profiled, stops>>
threads == <<sampler, stop_event, late_rows>>
servers == <<server, profiling, abandoned>>
disk == <<traces, metadata, session_file, session>>
session_vars == <<script, servers, threads, disk>>

Attempts == 1 .. MaxAttempts
FileStates == {"absent", "torn", "whole"}
(* Where gpu_snapshot is called, by the key of its result. *)
Snapshots == {"gpu_before_server", "gpu_after_server_ready", "gpu_after_profile",
              "gpu_after_server_stop"}
InTry == {"wait", "get", "gpu_after_server_ready", "warm", "start", "requests",
          "stop_profile", "stopped", "gpu_after_profile"}
InFinally == {"finally", "stop", "sigint", "sigkill", "gpu_after_server_stop", "write"}
Locations == {"off", "next", "gpu_before_server", "launch", "started", "session"}
                 \cup InTry \cup InFinally
(* From Popen until stop_process returns there is a server to look after. *)
Supervising == {"started", "finally", "stop", "sigint", "sigkill"} \cup InTry

NoMetadata == [state |-> "absent", attempt |-> 0, error |-> FALSE, profiled |-> FALSE]
Alive(a) == server[a] \in {"loading", "ready"}
Listening == {a \in Attempts : server[a] = "ready"}

SessionInit ==
    /\ at = "off" /\ todo = <<>>
    /\ attempt = 0 /\ variant \in {[a \in Attempts |-> v] : v \in Variants}
    /\ polls = 0 /\ served_model = NoModel
    /\ outcome = "none" /\ profiled = FALSE /\ stops = 0
    /\ server = [a \in Attempts |-> "absent"]
    /\ profiling = {} /\ abandoned = {}
    /\ sampler = [a \in Attempts |-> "off"]
    /\ stop_event = [a \in Attempts |-> FALSE]
    /\ late_rows = [a \in Attempts |-> 0]
    /\ traces = {}
    /\ metadata = [v \in Variants |-> NoMetadata]
    /\ session_file = "absent" /\ session = {}

-----------------------------------------------------------------------------
(* main: session.json is read before anything is started; what a crash left  *)
(* half written cannot be parsed, and the script ends there.                  *)
StartScript(vs) ==
    /\ at = "off"
    /\ session_file # "torn"
    /\ attempt + Len(vs) <= MaxAttempts
    /\ at' = "next"
    /\ todo' = vs
    /\ UNCHANGED <<attempt, variant, polls, served_model, outcome, profiled, stops,
                   servers, threads, disk>>

(* The process ends, its daemon threads with it; a server goes on. *)
Leave ==
    /\ at' = "off" /\ todo' = <<>>
    /\ sampler' = [a \in Attempts |-> "off"]
    /\ abandoned' = IF at \in Supervising /\ Alive(attempt)
                    THEN abandoned \cup {attempt} ELSE abandoned
    /\ UNCHANGED <<attempt, variant, polls, served_model, outcome, profiled, server,
                   profiling, stop_event, late_rows, traces, session>>

(* The except clause: the exception goes on through the finally clause. *)
Raise ==
    /\ outcome' = "error"
    /\ at' = "finally"
    /\ UNCHANGED <<todo, attempt, variant, stops>>

Continue(location) ==
    /\ at' = location
    /\ UNCHANGED <<todo, attempt, variant, stops, outcome>>

(* gpu_snapshot waits for nvidia-smi without a limit.  That cannot be run, or a *)
(* file beside it cannot be written: inside the try that is one exception more, *)
(* and elsewhere the end of the script, in the finally clause without metadata. *)
After(snapshot) ==
    CASE snapshot = "gpu_before_server" -> "launch"
      [] snapshot = "gpu_after_server_ready" -> "warm"
      [] snapshot = "gpu_after_profile" -> "finally"
      [] snapshot = "gpu_after_server_stop" -> "write"

Snapshot ==
    /\ at \in Snapshots
    /\ Continue(After(at))
    /\ UNCHANGED <<polls, served_model, profiled, servers, threads, disk>>

SnapshotFails ==
    /\ at \in Snapshots
    /\ IF at \in InTry
       THEN Raise /\ UNCHANGED <<polls, served_model, profiled, servers, threads, disk>>
       ELSE Leave /\ UNCHANGED <<stops, metadata, session_file>>

(* run_variant up to the try.  Popen may find no server to start. *)
BeginVariant ==
    /\ at = "next" /\ todo # <<>>
    /\ Continue("gpu_before_server")
    /\ UNCHANGED <<polls, served_model, profiled, servers, threads, disk>>

Launch ==
    /\ at = "launch"
    /\ at' = "started"
    /\ attempt' = attempt + 1
    /\ variant' = [variant EXCEPT ![attempt'] = Head(todo)]
    /\ server' = [server EXCEPT ![attempt'] = "loading"]
    /\ polls' = 0 /\ served_model' = NoModel /\ outcome' = "none" /\ profiled' = FALSE
    /\ UNCHANGED <<todo, stops, profiling, abandoned, threads, disk>>

LaunchFails ==
    /\ at = "launch"
    /\ Leave
    /\ UNCHANGED <<stops, metadata, session_file>>

EnterTry ==
    /\ at = "started"
    /\ Continue("wait")
    /\ UNCHANGED <<polls, served_model, profiled, servers, threads, disk>>

(* wait_for_server: while the deadline has not passed and the process is there, *)
(* ask the port for its model.                                                  *)
FaultyPoll ==   \* without a deadline
    /\ at = "wait"
    /\ IF server[attempt] = "gone" THEN Raise /\ UNCHANGED polls
       ELSE Continue("get") /\ UNCHANGED polls
    /\ UNCHANGED <<served_model, profiled, servers, threads, disk>>
Poll ==
    /\ at = "wait"
    /\ IF polls = MaxPolls \/ server[attempt] = "gone"
       THEN Raise /\ UNCHANGED polls
       ELSE Continue("get") /\ polls' = polls + 1
    /\ UNCHANGED <<served_model, profiled, servers, threads, disk>>

GetModels ==
    /\ at = "get"
    /\ \/ \E b \in Listening :
              served_model' = Model[variant[b]] /\ Continue("gpu_after_server_ready")
       \/ UNCHANGED served_model /\ Continue("wait")
       \/ UNCHANGED served_model /\ Raise     \* a server without a model
    /\ UNCHANGED <<polls, profiled, servers, threads, disk>>

(* request_completion goes to whoever has the port, who refuses a model other *)
(* than its own.  The sampler is started after the warmups.                    *)
Answered == \E b \in Listening : Model[variant[b]] = served_model

Warmups ==
    /\ at = "warm" /\ Answered
    /\ Continue("start")
    /\ sampler' = [sampler EXCEPT ![attempt] = "idle"]
    /\ UNCHANGED <<polls, served_model, profiled, servers, stop_event, late_rows, disk>>

ProfiledRequests ==
    /\ at = "requests" /\ Answered
    /\ Continue("stop_profile")
    /\ UNCHANGED <<polls, served_model, profiled, servers, threads, disk>>

(* post_control: the call may take effect although its answer is lost. *)
StartProfile ==
    /\ at = "start"
    /\ \E b \in Listening : profiling' = profiling \cup {b}
    /\ Continue("requests") \/ Raise
    /\ UNCHANGED <<polls, served_model, profiled, server, abandoned, threads, disk>>

StopProfile ==
    /\ at = "stop_profile"
    /\ \E b \in Listening :
          /\ profiling' = profiling \ {b}
          /\ traces' = IF b \in profiling
                       THEN traces \cup {[attempt |-> attempt, server |-> b]} ELSE traces
    /\ Continue("stopped")
    /\ UNCHANGED <<polls, served_model, profiled, server, abandoned, threads, metadata,
                   session_file, session>>

(* The answer: the time goes into the metadata, and the script sleeps before *)
(* its next snapshot, still in the try.                                       *)
ProfileStopped ==
    /\ at = "stopped"
    /\ profiled' = TRUE /\ Continue("gpu_after_profile")
    /\ UNCHANGED <<polls, served_model, servers, threads, disk>>

(* A call is refused, answered with an error status, or times out. *)
CallFails ==
    /\ at \in {"warm", "start", "requests", "stop_profile", "stopped"}
    /\ Raise
    /\ UNCHANGED <<polls, served_model, profiled, servers, threads, disk>>

(* The finally clause.  sampler.stop sets the event and joins for five seconds; *)
(* a thread waiting for nvidia-smi may outlive that.                            *)
StopSampler ==
    /\ at = "finally"
    /\ Continue("stop")
    /\ stop_event' = [stop_event EXCEPT ![attempt] = sampler[attempt] # "off"]
    /\ UNCHANGED <<polls, served_model, profiled, servers, sampler, late_rows, disk>>

(* stop_process *)
StopProcess ==
    /\ at = "stop"
    /\ Continue(IF Alive(attempt) THEN "sigint" ELSE "gpu_after_server_stop")
    /\ UNCHANGED <<polls, served_model, profiled, servers, threads, disk>>

FaultyInterruptEnds ==   \* SIGINT, without waiting for the process
    /\ at = "sigint"
    /\ Continue("gpu_after_server_stop")
    /\ UNCHANGED <<polls, served_model, profiled, servers, threads, disk>>
InterruptEnds ==         \* the process exits, or 45 seconds pass and SIGKILL is sent
    /\ at = "sigint"
    /\ Continue(IF Alive(attempt) THEN "sigkill" ELSE "gpu_after_server_stop")
    /\ UNCHANGED <<polls, served_model, profiled, servers, threads, disk>>

(* The exit of the killed process, or the TimeoutExpired of the second wait,   *)
(* which replaces the exception on its way and skips the rest of the clause.   *)
KillEnds ==
    /\ at = "sigkill"
    /\ IF Alive(attempt)
       THEN Leave /\ UNCHANGED <<stops, metadata, session_file>>
       ELSE /\ Continue("gpu_after_server_stop")
            /\ UNCHANGED <<polls, served_model, profiled, servers, threads, disk>>

(* The metadata is written however the variant ended; an exception then leaves *)
(* the script, with the variants after it.                                     *)
WriteMetadata ==
    /\ at = "write"
    /\ metadata' = [metadata EXCEPT ![variant[attempt]] =
           [state |-> "whole", attempt |-> attempt,
            error |-> outcome = "error", profiled |-> profiled]]
    /\ IF outcome = "none"
       THEN /\ Continue("session")
            /\ UNCHANGED <<polls, served_model, profiled, servers, threads, traces, session>>
       ELSE Leave /\ UNCHANGED stops
    /\ UNCHANGED session_file

(* main: the entry of the variant is replaced. *)
FaultyReplaced(entries, entry) == entries \cup {entry}   \* the old entry stays
Replaced(entries, entry) == {e \in entries : e.variant # entry.variant} \cup {entry}

WriteSession ==
    /\ at = "session"
    /\ session' = Replaced(session, [variant |-> variant[attempt], attempt |-> attempt])
    /\ session_file' = "whole"
    /\ at' = "next" /\ todo' = Tail(todo)
    /\ UNCHANGED <<attempt, variant, polls, served_model, outcome, profiled, stops,
                   servers, threads, traces, metadata>>

EndScript ==
    /\ at = "next" /\ todo = <<>>
    /\ Leave
    /\ UNCHANGED <<stops, metadata, session_file>>

-----------------------------------------------------------------------------
(* The script is killed: at once, possibly in the middle of a write. *)
Torn(v) == [metadata EXCEPT ![v] = [@ EXCEPT !.state = "torn"]]

CutOff ==
    /\ Leave
    /\ \/ UNCHANGED <<metadata, session_file>>
       \/ at = "write" /\ metadata' = Torn(variant[attempt]) /\ UNCHANGED session_file
       \/ at = "session" /\ session_file' = "torn" /\ UNCHANGED metadata

Kill ==
    /\ at # "off" /\ stops < MaxStops
    /\ stops' = stops + 1
    /\ CutOff

(* Ctrl-C.  In the try clause it is no Exception: the finally clause runs, and *)
(* the metadata gets no error.  Nothing catches it elsewhere, in the finally   *)
(* clause neither: the waits for the sampler and the server end, the signals   *)
(* not yet sent are not sent, and no metadata is written.                      *)
Interrupt ==
    /\ at # "off" /\ stops < MaxStops
    /\ stops' = stops + 1
    /\ IF at \in InTry
       THEN /\ outcome' = "interrupt" /\ at' = "finally"
            /\ UNCHANGED <<todo, attempt, variant, polls, served_model, profiled,
                           servers, threads, disk>>
       ELSE CutOff

(* A vLLM server: it binds the port when that is free; it may exit at any time, *)
(* and so answers a signal.                                                     *)
ServerReady(a) ==
    /\ server[a] = "loading" /\ Listening = {}
    /\ server' = [server EXCEPT ![a] = "ready"]
    /\ UNCHANGED <<script, profiling, abandoned, threads, disk>>

ServerExits(a) ==
    /\ Alive(a)
    /\ server' = [server EXCEPT ![a] = "gone"]
    /\ profiling' = profiling \ {a}
    /\ UNCHANGED <<script, abandoned, threads, disk>>

(* PowerSampler._run: the event is looked at between two queries only. *)
Sample(a) ==
    /\ sampler[a] = "idle"
    /\ sampler' = [sampler EXCEPT ![a] = IF stop_event[a] THEN "off" ELSE "query"]
    /\ UNCHANGED <<script, servers, stop_event, late_rows, disk>>

WriteRow(a) ==
    /\ sampler[a] = "query"
    /\ sampler' = [sampler EXCEPT ![a] = "idle"]
    /\ late_rows' = [late_rows EXCEPT ![a] = IF stop_event[a] THEN @ + 1 ELSE @]
    /\ UNCHANGED <<script, servers, stop_event, disk>>

ScriptStep ==
    \/ BeginVariant \/ Launch \/ LaunchFails \/ EnterTry \/ Poll \/ GetModels \/ Warmups
    \/ StartProfile \/ ProfiledRequests \/ StopProfile \/ ProfileStopped \/ CallFails
    \/ StopSampler \/ StopProcess \/ InterruptEnds \/ KillEnds \/ WriteMetadata
    \/ WriteSession \/ EndScript

(* The variants of one invocation: a non-empty list, possibly with repetitions. *)
Choices == UNION {[1 .. n -> Variants] : n \in 1 .. MaxAttempts}

SessionNext ==
    \/ \E vs \in Choices : StartScript(vs)
    \/ ScriptStep
    \/ Snapshot \/ SnapshotFails
    \/ Interrupt
    \/ Kill
    \/ \E a \in Attempts : ServerReady(a) \/ ServerExits(a) \/ Sample(a) \/ WriteRow(a)

(* The script's requests, joins and waits have time limits, gpu_snapshot has   *)
(* none: no step of it is assumed.  Nor is anything assumed of the servers and *)
(* the threads, or of the user.                                                *)
SessionSpec == SessionInit /\ [][SessionNext]_session_vars /\ WF_session_vars(ScriptStep)

-----------------------------------------------------------------------------
(* Type correctness. *)
SessionTypeOK ==
    /\ at \in Locations
    /\ todo \in Seq(Variants)
    /\ attempt \in 0 .. MaxAttempts
    /\ variant \in [Attempts -> Variants]
    /\ polls \in 0 .. MaxPolls
    /\ served_model \in Range(Model) \cup {NoModel}
    /\ outcome \in {"none", "error", "interrupt"} /\ profiled \in BOOLEAN
    /\ stops \in 0 .. MaxStops
    /\ server \in [Attempts -> {"absent", "loading", "ready", "gone"}]
    /\ profiling \subseteq Attempts /\ abandoned \subseteq Attempts
    /\ sampler \in [Attempts -> {"off", "idle", "query"}]
    /\ stop_event \in [Attempts -> BOOLEAN]
    /\ late_rows \in [Attempts -> Nat]
    /\ traces \subseteq [attempt : Attempts, server : Attempts]
    /\ metadata \in [Variants -> [state : FileStates, attempt : 0 .. MaxAttempts,
                                  error : BOOLEAN, profiled : BOOLEAN]]
    /\ session_file \in FileStates
    /\ session \subseteq [variant : Variants, attempt : Attempts]

(* run_variant, stop_process: whether a variant succeeds, fails or is          *)
(* interrupted in its try, its server is gone when gpu_after_server_stop is    *)
(* taken, before the next one starts and before the script ends.  A server is  *)
(* left behind only by a script that is killed, or is interrupted where no try *)
(* catches it (its own cleanup included), or whose SIGKILL has no effect.      *)
ServersSupervised ==
    \A a \in Attempts :
        Alive(a) => a \in abandoned \/ (a = attempt /\ at \in Supervising)

(* A trace is in the directory that its server was started with. *)
TracesIn(v) == {t \in traces : variant[t.server] = v}
OwnTrace(a) == [attempt |-> a, server |-> a]

(* wait_for_server takes the model from whoever answers on the port, and the   *)
(* profile goes to whoever has it then.  Unless a server was left behind, that *)
(* is the attempt's own server: no trace comes from an earlier attempt's, of   *)
(* this variant or another, and the served model is the requested one.         *)
ProfilesOwnServer ==
    abandoned = {} =>
        /\ \A t \in traces : t.server = t.attempt
        /\ at \in InTry /\ served_model # NoModel => served_model = Model[variant[attempt]]

(* analyze_vllm_profile.py pairs the only trace of a variant's directory with   *)
(* its metadata.json and refuses any other number of traces.                    *)
FaultyAnalyzable(v) == TracesIn(v) # {} /\ metadata[v].state = "whole"   \* takes the first
Analyzable(v) == Cardinality(TracesIn(v)) = 1 /\ metadata[v].state = "whole"

(* What it reports belongs together: the trace was taken by the attempt the     *)
(* metadata describes, from its own server, if that attempt took its profile to *)
(* the end.  Runs that were repeated, failed or interrupted in between do not   *)
(* matter, unless a server was left behind.                                     *)
AnalysisPairsTrace ==
    abandoned = {} =>
        \A v \in Variants :
            Analyzable(v) /\ metadata[v].profiled =>
                \A t \in TracesIn(v) : t = OwnTrace(metadata[v].attempt)

(* session.json lists each variant once, and only completed profiles whose      *)
(* metadata.json was on disk first: that file is the same attempt's, without an *)
(* error, or a later attempt's.                                                 *)
SessionBacked ==
    \A e \in session :
        LET m == metadata[e.variant]
        IN /\ \A f \in session : f.variant = e.variant => f = e
           /\ m.attempt >= e.attempt
           /\ m.attempt = e.attempt => ~m.error /\ m.profiled

(* PowerSampler.stop does not wait for a thread that is stuck in nvidia-smi.    *)
(* Such a thread writes at most one row more, however long it takes and         *)
(* whatever the script has gone on to; it ends with the script.                 *)
OneLateRow == \A a \in Attempts : late_rows[a] <= 1

(* An invocation ends, whatever the servers do: startup, requests, SIGINT and   *)
(* SIGKILL are all waited for with a limit.  Only gpu_snapshot may hold it, if  *)
(* nvidia-smi never returns.                                                    *)
ScriptEnds == <>[](at \in Snapshots) \/ (at # "off" ~> at = "off")
=============================================================================
