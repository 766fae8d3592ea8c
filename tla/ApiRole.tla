-------------------------------- MODULE ApiRole --------------------------------
(* The process of the API (bootstrap/api.go): its clients of MySQL and Redis,  *)
(* its two HTTP servers and how they share the readiness flag, and the audit   *)
(* recorder, which takes entries from the handlers and writes them behind      *)
(* their backs.  What Lifecycle and Realtime model in full is one variable     *)
(* here: whether the clients, and the hub and bus, are open.                   *)
EXTENDS Naturals, Sequences, SequencesExt

CONSTANTS
  Handler,           \* bound: audited requests the application server is sent
  AuditCapacity      \* of the recorder's queue

ASSUME AuditCapacityIsNatural == AuditCapacity \in Nat

VARIABLES
  stage,             \* how far RunAPI is
  clients,           \* the clients of MySQL and Redis are open
  realtime,          \* the hub and the bus are open
  signalled,         \* the process's context is done
  watch,             \* the goroutine of markNotReadyWhenDone
  readiness,         \* Registry.ready
  server,            \* what Run of each server is doing
  listeningServers,  \* the counter of onServerReady
  handling,          \* what the handler of each request is doing
  recorder,          \* run: "running", then "draining", then "done"
  closed,            \* AsyncAuditRecorder.closed
  entries,           \* its queue
  writing,           \* the entry persist is about, in a set
  accepted, written, \* history: entries Record took, and persist handed on
  gaveUp             \* history: Close returned at its deadline

serverVars == <<signalled, watch, readiness, server, listeningServers>>
auditVars == <<recorder, closed, entries, writing, accepted, written>>
apiVars == <<stage, clients, realtime, serverVars, handling, auditVars, gaveUp>>

Server == {"application", "management"}

ApiInit ==
  /\ stage = "starting" /\ clients = FALSE /\ realtime = FALSE
  /\ signalled = FALSE /\ watch = "none" /\ readiness = FALSE
  /\ server = [s \in Server |-> "idle"] /\ listeningServers = 0
  /\ handling = [h \in Handler |-> "none"]
  /\ recorder = "none" /\ closed = FALSE /\ entries = <<>> /\ writing = {}
  /\ accepted = {} /\ written = <<>> /\ gaveUp = FALSE

Advances(from, to) == stage = from /\ stage' = to
Turns(s, from, to) == server[s] = from /\ server' = [server EXCEPT ![s] = to]

-----------------------------------------------------------------------------
(* Start: infrastructure, components, servers. *)

StartAPIInfrastructure ==
  /\ \/ Advances("starting", "wiring") /\ clients' = TRUE
     \/ Advances("starting", "exited") /\ UNCHANGED clients
  /\ UNCHANGED <<realtime, serverVars, handling, auditVars, gaveUp>>

WireAPIComponents ==
  /\ \/ Advances("wiring", "serving") /\ realtime' = TRUE /\ recorder' = "running" /\ watch' = "waiting"
     \/ Advances("wiring", "leaving") /\ UNCHANGED <<realtime, recorder, watch>>
  /\ UNCHANGED <<clients, signalled, readiness, server, listeningServers, handling, closed, entries,
                 writing, accepted, written, gaveUp>>

Signal ==
  /\ ~signalled /\ signalled' = TRUE
  /\ UNCHANGED <<stage, clients, realtime, watch, readiness, server, listeningServers, handling,
                 auditVars, gaveUp>>

WatchEnds ==
  /\ watch = "waiting" /\ signalled
  /\ watch' = "done" /\ readiness' = FALSE
  /\ UNCHANGED <<stage, clients, realtime, signalled, server, listeningServers, handling,
                 auditVars, gaveUp>>

(* HTTP.Run: net.Listen, which may fail, and then the callback.                *)
ListenOn(s) ==
  /\ stage = "serving"
  /\ Turns(s, "idle", "listening") \/ Turns(s, "idle", "returned")
  /\ UNCHANGED <<stage, clients, realtime, signalled, watch, readiness, listeningServers, handling,
                 auditVars, gaveUp>>

(* onServerReady: the second server to come, if the process goes on, ...       *)
OnServerReady(s) ==
  /\ Turns(s, "listening", IF listeningServers + 1 = 2 /\ ~signalled THEN "setting" ELSE "serving")
  /\ listeningServers' = listeningServers + 1
  /\ UNCHANGED <<stage, clients, realtime, signalled, watch, readiness, handling, auditVars, gaveUp>>

(* ... sets the flag, whatever has happened since it looked.                   *)
SetsReady(s) ==
  /\ Turns(s, "setting", "serving")
  /\ readiness' = TRUE
  /\ UNCHANGED <<stage, clients, realtime, signalled, watch, listeningServers, handling,
                 auditVars, gaveUp>>

-----------------------------------------------------------------------------
(* Requests and their audit entries. *)

RequestBegins(h) ==
  /\ server["application"] \in {"listening", "setting", "serving"}
  /\ handling[h] = "none"
  /\ handling' = [handling EXCEPT ![h] = "working"]
  /\ UNCHANGED <<stage, clients, realtime, serverVars, auditVars, gaveUp>>

(* Fault: a closed recorder still takes entries.                               *)
RecordUnchecked(h) ==
  IF Len(entries) = AuditCapacity THEN UNCHANGED <<entries, accepted>>
  ELSE entries' = Append(entries, h) /\ accepted' = accepted \cup {h}

(* Record: the mutex is held for reading from the look at closed to the send,  *)
(* which never blocks: a full queue sheds the entry, a closed one refuses it.  *)
Record(h) ==
  IF closed \/ Len(entries) = AuditCapacity THEN UNCHANGED <<entries, accepted>>
  ELSE entries' = Append(entries, h) /\ accepted' = accepted \cup {h}

(* OperationAudit, after the handler proper has done its work.                 *)
OperationAudit(h) ==
  /\ handling[h] = "working" /\ stage # "exited"
  /\ handling' = [handling EXCEPT ![h] = "done"]
  /\ Record(h)
  /\ UNCHANGED <<stage, clients, realtime, serverVars, recorder, closed, writing, written, gaveUp>>

(* run: the next entry - a select may still take one when it could stop - ...  *)
TakeEntry ==
  /\ recorder \in {"running", "draining"} /\ entries # <<>> /\ writing = {}
  /\ writing' = {Head(entries)} /\ entries' = Tail(entries)
  /\ UNCHANGED <<stage, clients, realtime, serverVars, handling, recorder, closed, accepted, written,
                 gaveUp>>

(* ... which is handed to the database once, with or without success, ...      *)
Persist ==
  /\ writing # {} /\ stage # "exited"
  /\ written' = written \o SetToSeq(writing) /\ writing' = {}
  /\ UNCHANGED <<stage, clients, realtime, serverVars, handling, recorder, closed, entries, accepted,
                 gaveUp>>

(* ... and when it is told to stop, what is queued, until nothing is.          *)
StopsDraining ==
  /\ writing = {} /\ closed
  /\ \/ recorder = "running" /\ recorder' = "draining"
     \/ recorder = "draining" /\ entries = <<>> /\ recorder' = "done"
  /\ UNCHANGED <<stage, clients, realtime, serverVars, handling, closed, entries, writing, accepted,
                 written, gaveUp>>

-----------------------------------------------------------------------------
(* The end: RunAll, components.close, the flag, the clients. *)

ServingFails(s) ==
  /\ Turns(s, "serving", "returned")
  /\ UNCHANGED <<stage, clients, realtime, signalled, watch, readiness, listeningServers, handling,
                 auditVars, gaveUp>>

(* RunAll cancels its context when the first Run has returned.                 *)
IsCancelled == signalled \/ \E s \in Server : server[s] = "returned"

Shutdown(s) ==
  /\ IsCancelled
  /\ Turns(s, "serving", "draining")
  /\ UNCHANGED <<stage, clients, realtime, signalled, watch, readiness, listeningServers, handling,
                 auditVars, gaveUp>>

(* OnShutdown runs stopRealtime in a goroutine of its own.                     *)
StopRealtime ==
  /\ realtime /\ server["application"] = "draining"
  /\ realtime' = FALSE
  /\ UNCHANGED <<stage, clients, serverVars, handling, auditVars, gaveUp>>

(* Shutdown returns when no handler works any more, or at its deadline.        *)
ServerReturns(s) ==
  /\ Turns(s, "draining", "returned")
  /\ UNCHANGED <<stage, clients, realtime, signalled, watch, readiness, listeningServers, handling,
                 auditVars, gaveUp>>

(* Fault: RunAll returns with the first server.                                *)
RunAllReturnedFirst == \E s \in Server : server[s] = "returned"
RunAllReturned == \A s \in Server : server[s] = "returned"

ServersDone ==
  /\ RunAllReturned /\ Advances("serving", "closing")
  /\ UNCHANGED <<clients, realtime, serverVars, handling, auditVars, gaveUp>>

(* administrationAPI.close: stopRealtime, and Close of the recorder, which     *)
(* waits for the worker, but no longer than 5 s.                               *)
CloseRecorder ==
  /\ Advances("closing", "waiting")
  /\ realtime' = FALSE /\ closed' = TRUE
  /\ UNCHANGED <<clients, serverVars, handling, recorder, entries, writing, accepted, written, gaveUp>>

RecorderClosed ==
  /\ Advances("waiting", "leaving")
  /\ gaveUp' \in {FALSE, TRUE} /\ (~gaveUp' => recorder = "done")
  /\ UNCHANGED <<clients, realtime, serverVars, handling, auditVars>>

ClearReadiness ==
  /\ Advances("leaving", "stopping")
  /\ readiness' = FALSE
  /\ UNCHANGED <<clients, realtime, signalled, watch, server, listeningServers, handling, auditVars,
                 gaveUp>>

StopInfrastructure ==
  /\ \/ Advances("stopping", "stopped") /\ clients' = FALSE
     \/ Advances("stopped", "exited") /\ UNCHANGED clients
  /\ UNCHANGED <<realtime, serverVars, handling, auditVars, gaveUp>>

ApiNext ==
  \/ StartAPIInfrastructure \/ WireAPIComponents \/ Signal \/ WatchEnds
  \/ \E s \in Server : ListenOn(s) \/ OnServerReady(s) \/ SetsReady(s) \/ ServingFails(s)
                         \/ Shutdown(s) \/ ServerReturns(s)
  \/ \E h \in Handler : RequestBegins(h) \/ OperationAudit(h)
  \/ TakeEntry \/ Persist \/ StopsDraining
  \/ StopRealtime \/ ServersDone \/ CloseRecorder \/ RecorderClosed
  \/ ClearReadiness \/ StopInfrastructure

-----------------------------------------------------------------------------
(* An entry Record has taken is handed to the database exactly once and while  *)
(* its client is open, also when it was taken while Close came, or after the   *)
(* servers gave up on its handler; only a Close that gives up itself may leave *)
(* entries behind.                                                             *)
AuditIsComplete ==
  /\ IsInjective(written)
  /\ ~gaveUp => /\ writing # {} => clients
                /\ stage \in {"leaving", "stopping", "stopped", "exited"} => ToSet(written) = accepted

(* The readiness flag is up only while the clients are open and the servers    *)
(* have both come, and never when the clients are about to be closed: although *)
(* its last setter does not look at the flag's watcher, RunAll waits for both  *)
(* servers before it is cleared for good.                                      *)
ReadyMeansOpen ==
  readiness => /\ clients /\ listeningServers = 2
               /\ stage \in {"serving", "closing", "waiting", "leaving"}

(* Control points are those of the code.                                       *)
ApiTypeOK ==
  /\ stage \in {"starting", "wiring", "serving", "closing", "waiting", "leaving", "stopping",
                "stopped", "exited"}
  /\ server \in [Server -> {"idle", "listening", "setting", "serving", "draining", "returned"}]
  /\ listeningServers \in 0..2
  /\ handling \in [Handler -> {"none", "working", "done"}]
  /\ recorder \in {"none", "running", "draining", "done"}
  /\ entries \in Seq(Handler) /\ Len(entries) <= AuditCapacity
  /\ writing \subseteq Handler /\ written \in Seq(Handler)

(* Why the flag is safe: a server that is about to set it is the second one to *)
(* come, so both are there, and RunAll waits for it.                           *)
Came == {"serving", "closing", "waiting", "leaving", "stopping", "stopped", "exited"}
YetToCome(s) == IF server[s] \in {"idle", "listening"} THEN 1 ELSE 0
ServersFollowStage ==
  /\ stage # "serving" => \A s \in Server : server[s] \in {"idle", "returned"}
  /\ stage \notin Came => \A s \in Server : server[s] = "idle"
  /\ listeningServers + YetToCome("application") + YetToCome("management") <= 2
  /\ \A s \in Server : server[s] = "setting" => listeningServers = 2
  /\ stage \in {"wiring", "serving", "closing", "waiting", "leaving", "stopping"} => clients

(* Why the audit is complete: every entry is in one place, and the recorder is *)
(* done only when it is closed and nothing is left.                            *)
EntriesAreInOnePlace ==
  /\ accepted = ToSet(entries) \cup writing \cup ToSet(written)
  /\ ToSet(entries) \cap writing = {} /\ (ToSet(entries) \cup writing) \cap ToSet(written) = {}
  /\ IsInjective(entries) /\ IsInjective(written) /\ \A h, k \in writing : h = k
  /\ \A h \in Handler : handling[h] # "done" => h \notin accepted
RecorderFollowsStage ==
  /\ stage \in {"starting", "wiring"} => recorder = "none"
  /\ recorder = "none" =>
       /\ accepted = {} /\ stage \notin {"serving", "closing", "waiting"}
       /\ \A s \in Server : server[s] = "idle" /\ \A h \in Handler : handling[h] = "none"
  /\ recorder = "done" => entries = <<>> /\ writing = {} /\ closed
  /\ ~gaveUp /\ stage \in {"leaving", "stopping", "stopped", "exited"} => recorder \in {"none", "done"}

ApiIInv ==
  ApiTypeOK /\ ReadyMeansOpen /\ ServersFollowStage /\ EntriesAreInOnePlace /\ RecorderFollowsStage
ApiSpec == ApiInit /\ [][ApiNext]_apiVars
=============================================================================
