---------------------------- MODULE ServerProcess ----------------------------
(***************************************************************************)
(* mahogany server: RunServer of main.go and Start and Stop of             *)
(* pkg/mahogany/server.go around the update server.  The main goroutine    *)
(* waits for the context or for an error from one of two goroutines, the   *)
(* update server's and that of the HTTP server; the signal goroutine       *)
(* cancels the context and then stops both.  When main returns the process *)
(* ends, wherever its other goroutines are.                                *)
(***************************************************************************)
EXTENDS UpdateServer

VARIABLES
  main,        \* where the main goroutine is
  http,        \* where the one that runs httpServer.ListenAndServe is
  interrupted  \* whether the signal came and the context is done

process     == <<main, http, interrupted>>
processVars == <<vars, process>>

ProcessInit ==
  /\ Init
  /\ main = "new"
  /\ http = "idle"
  /\ interrupted = FALSE

Exit ==
  /\ fault' = "exit"
  /\ UNCHANGED <<isStopped, stopStep, startVars, requests, clients, buf, closed,
                 log, since, lifecycle, streams>>

\* The database, the topology or the first reload may fail; RunServer then
\* logs it and returns.
NewServer ==
  /\ main = "new"
  /\ \/ main' = "ready" /\ UNCHANGED vars
     \/ Exit /\ UNCHANGED main
  /\ UNCHANGED <<http, interrupted>>

\* Server.Start sets off the two goroutines.
StartServer ==
  /\ main = "ready"
  /\ main' = "select"
  /\ http' = IF http = "closed" THEN http ELSE "serving"
  /\ UNCHANGED <<vars, interrupted>>

\* ListenAndServe: it cannot listen, or fails later.
HttpFails ==
  /\ http = "serving"
  /\ http' = "failed"
  /\ UNCHANGED <<vars, main, interrupted>>

\* Mutant: the update server's error is logged and not sent.
HasErrorOfHttp == http = "failed"

\* A goroutine that waits to send an error on c, which has no buffer.
HasError == start \in {"listenError", "serveError"} \/ http = "failed"

MainReturns ==
  /\ main = "select"
  /\ HasError \/ interrupted
  /\ Exit
  /\ UNCHANGED process

\* cancel(), then Server.Stop.
Interrupt ==
  /\ main \in {"ready", "select"}
  /\ ~interrupted
  /\ interrupted' = TRUE
  /\ UNCHANGED <<vars, main, http>>

\* The update server's own steps: Start's once its goroutine runs, Stop's
\* once the signal's does.
UpdateServerStep ==
  /\ Next
  /\ main = "select" \/ UNCHANGED start
  /\ interrupted \/ UNCHANGED stop
  /\ UNCHANGED process

\* httpServer.Shutdown: ListenAndServe returns ErrServerClosed, no error,
\* also when it is called afterwards.
Shutdown ==
  /\ interrupted
  /\ stopStep = 5
  /\ http \in {"idle", "serving"}
  /\ http' = "closed"
  /\ UNCHANGED <<vars, main, interrupted>>

ProcessNext ==
  /\ fault = "none"
  /\ \/ NewServer \/ StartServer \/ HttpFails \/ MainReturns
     \/ Interrupt \/ Shutdown
     \/ UpdateServerStep

\* That of the update server, and that Stop is called.  Main may be slow to
\* return: what must happen before is not to rest on it.
ProcessFairness ==
  /\ Fairness
  /\ WF_processVars(Live(NewServer \/ StartServer))
  /\ WF_processVars(Live(Shutdown))
  /\ WF_vars(Live(interrupted /\ StopBegin))

ProcessSpec == ProcessInit /\ [][ProcessNext]_processVars /\ ProcessFairness

-----------------------------------------------------------------------------
(* A signal, and a failure of either server, ends the process, in whatever *)
(* order they come and although both goroutines may wait to send an error  *)
(* that only one of them can hand over.                                    *)
ProcessEnds ==
  WF_processVars(Live(MainReturns)) =>
    (start \in {"listenError", "serveError"} \/ http = "failed" \/ interrupted)
      ~> fault # "none"
=============================================================================
