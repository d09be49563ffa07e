------------------------------ MODULE NodeStop ------------------------------
(***************************************************************************)
(* How a node stops: the end of Run in internal/app/app.go, with Shutdown  *)
(* of internal/transport/grpc/server.go and of net/http.                   *)
(*                                                                         *)
(* Run waits for a signal or for the error of a server that exits.  It     *)
(* stops the gRPC server and then the HTTP server under one deadline, and  *)
(* its deferred calls close the store when it returns.  A request that is  *)
(* being handled ends when its handler returns; a client that reads the    *)
(* event stream may keep its request forever.                              *)
(***************************************************************************)
EXTENDS FiniteSets

CONSTANTS Rpcs, Requests \* calls at the gRPC server, requests at the HTTP server

VARIABLES run,      \* where Run is
          cause,    \* why the node stops: "none", "signal" or a server's error
          exited,   \* the servers whose Serve has returned an error
          signalled,
          expired,  \* has the deadline of shutdownCtx passed
          grpc,     \* "serving", "draining", "stopped"
          web,      \* the same for the HTTP server
          handling, \* the calls and requests that are being handled
          result    \* what Run returned

stopVars == <<run, cause, exited, signalled, expired, grpc, web, handling, result>>

StopTypeOK ==
  /\ run \in {"serving", "grpc", "http", "returned"}
  /\ cause \in {"none", "signal", "error"} /\ (cause = "none" <=> run = "serving")
  /\ exited \subseteq {"grpc", "http"}
  /\ {signalled, expired} \subseteq BOOLEAN
  /\ {grpc, web} \subseteq {"serving", "draining", "stopped"}
  /\ handling \subseteq Rpcs \cup Requests
  /\ result \in {"none", "nil", "error"} /\ (result = "none" <=> run # "returned")

StopInit ==
  /\ run = "serving"
  /\ cause = "none"
  /\ exited = {}
  /\ signalled = FALSE
  /\ expired = FALSE
  /\ grpc = "serving"
  /\ web = "serving"
  /\ handling = {}
  /\ result = "none"

\* A server takes calls until it is told to stop; when its listener has failed, over the
\* connections it has.
Handle(x) ==
  /\ x \notin handling
  /\ run # "returned"
  /\ IF x \in Rpcs THEN grpc = "serving" ELSE web = "serving"
  /\ handling' = handling \cup {x}
  /\ UNCHANGED <<run, cause, exited, signalled, expired, grpc, web, result>>

EndHandling(x) ==
  /\ x \in handling
  /\ handling' = handling \ {x}
  /\ UNCHANGED <<run, cause, exited, signalled, expired, grpc, web, result>>

Signal ==
  /\ ~signalled
  /\ signalled' = TRUE
  /\ UNCHANGED <<run, cause, exited, expired, grpc, web, handling, result>>

\* ListenAndServe or Serve fails, and its error goes to errCh.
ServerExits(x) ==
  /\ run = "serving"
  /\ x \notin exited
  /\ exited' = exited \cup {x}
  /\ UNCHANGED <<run, cause, signalled, expired, grpc, web, handling, result>>

\* The select of Run: when both are ready, either is taken.
BeginStop ==
  /\ run = "serving"
  /\ \/ signalled /\ cause' = "signal"
     \/ exited # {} /\ cause' = "error"
  /\ run' = "grpc"
  /\ grpc' = "draining"
  /\ UNCHANGED <<exited, signalled, expired, web, handling, result>>

Deadline ==
  /\ run \in {"grpc", "http"}
  /\ ~expired
  /\ expired' = TRUE
  /\ UNCHANGED <<run, cause, exited, signalled, grpc, web, handling, result>>

toHTTP == run' = "http" /\ web' = "draining" /\ UNCHANGED result

return(r) == run' = "returned" /\ result' = r

\* GracefulStop is done: no call is left.
GrpcDrained ==
  /\ run = "grpc"
  /\ handling \cap Rpcs = {}
  /\ grpc' = "stopped"
  /\ toHTTP
  /\ UNCHANGED <<cause, exited, signalled, expired, handling>>

\* Mutant: the deadline does not end the wait for calls.
GrpcNotForced ==
  /\ run = "grpc" /\ expired
  /\ handling \cap Rpcs = {}
  /\ grpc' = "stopped"
  /\ toHTTP
  /\ UNCHANGED <<cause, exited, signalled, expired, handling>>

\* The deadline is first: Stop cancels the calls without waiting for their handlers.
\* After a signal Run returns at once, after an error it stops the HTTP server as well.
GrpcForced ==
  /\ run = "grpc" /\ expired
  /\ grpc' = "stopped"
  /\ IF cause = "signal" THEN return("error") /\ UNCHANGED web ELSE toHTTP
  /\ UNCHANGED <<cause, exited, signalled, expired, handling>>

outcome == IF cause = "signal" THEN "nil" ELSE "error"

HTTPDrained ==
  /\ run = "http"
  /\ handling \cap Requests = {}
  /\ web' = "stopped"
  /\ return(outcome)
  /\ UNCHANGED <<cause, exited, signalled, expired, grpc, handling>>

\* Mutant: the error of the HTTP server's Shutdown is dropped after a signal too.
HTTPForcedQuietly ==
  /\ run = "http" /\ expired
  /\ return(outcome)
  /\ UNCHANGED <<cause, exited, signalled, expired, grpc, web, handling>>

\* The deadline is first: Shutdown gives up and the connections stay open.
HTTPForced ==
  /\ run = "http" /\ expired
  /\ return("error")
  /\ UNCHANGED <<cause, exited, signalled, expired, grpc, web, handling>>

Stopping == BeginStop \/ GrpcDrained \/ GrpcForced \/ HTTPDrained \/ HTTPForced

StopNext ==
  \/ \E x \in Rpcs \cup Requests : Handle(x) \/ EndHandling(x)
  \/ Signal
  \/ \E x \in {"grpc", "http"} : ServerExits(x)
  \/ Deadline
  \/ Stopping

\* Run's goroutine and the timer of the deadline go on; handlers need not return.
StopSpec == StopInit /\ [][StopNext]_stopVars /\ WF_stopVars(Stopping) /\ WF_stopVars(Deadline)
-----------------------------------------------------------------------------
\* When Run reports no error, nothing was being handled as the store was closed: the
\* HTTP server takes no request after the calls have drained and before it is stopped.
CleanStopDrains == [][result' = "nil" /\ result = "none" => handling' = {}]_stopVars

\* A node that is told to stop, or has lost a server, stops, whatever its clients do.
StopsInTheEnd == (signalled \/ exited # {}) ~> run = "returned"
=============================================================================
