-------------------------- MODULE DevicePluginServer --------------------------
(***************************************************************************)
(* DevicePluginServer (src/pkg/device/plugin/plugin.go): one goroutine per *)
(* orin class keeps a gRPC server registered with the kubelet, over        *)
(* failures of the registration and restarts of the kubelet.               *)
(*                                                                         *)
(* Run goes round: close the stop channel of the old server, sleep, serve  *)
(* on a new socket file, dial it, register, and wait for an error of the   *)
(* registration or for the file event of a new kubelet socket.  The old    *)
(* server stops in a goroutine of its own; closing its listener removes    *)
(* the socket file at the path, whoever made it.  The kubelet (external)   *)
(* empties the directory of the sockets when it starts, forgets its        *)
(* plugins when it stops, and dials a plugin's socket when it registers.   *)
(* The process of the plugins may end at any moment, by a panic of Serve   *)
(* for instance; the kubelet, once up, starts it again.                    *)
(***************************************************************************)
EXTENDS Naturals, FiniteSets

CONSTANTS Plugin,        \* the orin classes of the node
          MaxRestarts,   \* bound: restarts of the kubelet
          MaxCrashes,    \* bound: ends of the process of the plugins
          MaxTimeouts,   \* bound: registrations that fail although the kubelet is up
          Prompt         \* TRUE: a server has stopped before the sleep is over

ASSUME PromptAssumption == Prompt \in BOOLEAN

VARIABLES pc,          \* where Run is
          errChan,     \* errors in the buffer of errChan, at most 1
          events,      \* create events of the kubelet's socket in the watcher
          serving,     \* the plugins whose server has the open stop channel
          stopping,    \* the plugins whose old server has not stopped yet
          socket,      \* the plugins with a file of their server at their path
          up,          \* the kubelet is up
          registered,  \* the plugins the kubelet has an endpoint for
          restarts, crashes, timeouts

pluginVars == <<pc, errChan, events, serving, stopping, socket>>
kubeletVars == <<up, registered, restarts, crashes, timeouts>>
vars == <<pluginVars, kubeletVars>>

Init ==
  /\ pc = [p \in Plugin |-> "stop"]
  /\ errChan = [p \in Plugin |-> 0]
  /\ events = [p \in Plugin |-> 0]
  /\ serving = {} /\ stopping = {} /\ socket = {}
  /\ up = TRUE   \* the kubelet has started the plugin's pod
  /\ registered = {}
  /\ restarts = 0 /\ crashes = 0 /\ timeouts = 0

At(p, place) == pc[p] = place
Goto(p, place) == pc' = [pc EXCEPT ![p] = place]

-----------------------------------------------------------------------------
\* close(stoChan), at the label restart.
Stop(p) ==
  /\ At(p, "stop")
  /\ serving' = serving \ {p}
  /\ stopping' = stopping \cup (serving \cap {p})
  /\ Goto(p, "serve")
  /\ UNCHANGED <<errChan, events, socket, kubeletVars>>

\* The old server's goroutine: GracefulStop closes the listener.
Stopped(p) ==
  /\ p \in stopping
  /\ stopping' = stopping \ {p}
  /\ socket' = socket \ {p}
  /\ UNCHANGED <<pc, errChan, events, serving, kubeletVars>>

Serve(p) ==
  /\ At(p, "serve")
  /\ Prompt => p \notin stopping
  /\ serving' = serving \cup {p}
  /\ socket' = socket \cup {p}
  /\ Goto(p, "wait")
  /\ UNCHANGED <<errChan, events, stopping, kubeletVars>>

\* The dial fails when the file is gone.
Wait(p) ==
  /\ At(p, "wait")
  /\ Goto(p, IF p \in socket THEN "register" ELSE "stop")
  /\ UNCHANGED <<errChan, events, serving, stopping, socket, kubeletVars>>

\* Mutant: the watcher is made after the registration.
RegisterThenWatch(p) ==
  /\ At(p, "register") /\ up
  /\ registered' = registered \cup ({p} \cap socket)
  /\ events' = [events EXCEPT ![p] = 0]
  /\ Goto(p, "select")
  /\ UNCHANGED <<errChan, serving, stopping, socket, up, restarts, crashes, timeouts>>

\* The kubelet accepts, and has an endpoint if it can dial the socket.
Register(p) ==
  /\ At(p, "register") /\ up
  /\ registered' = registered \cup ({p} \cap socket)
  /\ Goto(p, "select")
  /\ UNCHANGED <<errChan, events, serving, stopping, socket, up, restarts, crashes, timeouts>>

RegisterFails(p) ==
  /\ At(p, "register")
  /\ IF up THEN timeouts < MaxTimeouts /\ timeouts' = timeouts + 1 ELSE UNCHANGED timeouts
  /\ Goto(p, "push")
  /\ UNCHANGED <<errChan, events, serving, stopping, socket, up, registered, restarts, crashes>>

\* errChan <- err waits when the buffer is full.
Push(p) ==
  /\ At(p, "push") /\ errChan[p] = 0
  /\ errChan' = [errChan EXCEPT ![p] = 1]
  /\ Goto(p, "select")
  /\ UNCHANGED <<events, serving, stopping, socket, kubeletVars>>

\* Mutant: the event is not taken for a create event.
SelectErrOnly(p) ==
  /\ At(p, "select") /\ errChan[p] > 0
  /\ errChan' = [errChan EXCEPT ![p] = 0]
  /\ Goto(p, "stop")
  /\ UNCHANGED <<events, serving, stopping, socket, kubeletVars>>

\* Both may be ready; Go's select takes either.
Select(p) ==
  /\ At(p, "select")
  /\ \/ errChan[p] > 0 /\ errChan' = [errChan EXCEPT ![p] = 0] /\ UNCHANGED events
     \/ events[p] > 0 /\ events' = [events EXCEPT ![p] = @ - 1] /\ UNCHANGED errChan
  /\ Goto(p, "stop")
  /\ UNCHANGED <<serving, stopping, socket, kubeletVars>>

Run(p) ==
  Stop(p) \/ Serve(p) \/ Wait(p) \/ Register(p) \/ RegisterFails(p) \/ Push(p) \/ Select(p)

-----------------------------------------------------------------------------
KubeletStops ==
  /\ up /\ restarts < MaxRestarts
  /\ up' = FALSE
  /\ registered' = {}
  /\ restarts' = restarts + 1
  /\ UNCHANGED <<pluginVars, crashes, timeouts>>

KubeletStarts ==
  /\ ~up
  /\ up' = TRUE
  /\ socket' = {}
  /\ events' = [p \in Plugin |-> events[p] + 1]
  /\ UNCHANGED <<pc, errChan, serving, stopping, registered, restarts, crashes, timeouts>>

\* The files of the sockets stay, but nobody listens; the kubelet's streams
\* break, and it takes the plugins for gone.
ProcessEnds ==
  /\ crashes < MaxCrashes
  /\ crashes' = crashes + 1
  /\ pc' = [p \in Plugin |-> "ended"]
  /\ serving' = {} /\ stopping' = {} /\ socket' = {}
  /\ registered' = {}
  /\ UNCHANGED <<errChan, events, up, restarts, timeouts>>

\* Run of every plugin with channels and a watcher of its own.
ProcessStarts ==
  /\ up /\ \A p \in Plugin : At(p, "ended")
  /\ pc' = [p \in Plugin |-> "stop"]
  /\ errChan' = [p \in Plugin |-> 0]
  /\ events' = [p \in Plugin |-> 0]
  /\ UNCHANGED <<serving, stopping, socket, kubeletVars>>

Next ==
  \/ \E p \in Plugin : Run(p) \/ Stopped(p)
  \/ KubeletStops \/ KubeletStarts \/ ProcessEnds \/ ProcessStarts

Spec ==
  /\ Init /\ [][Next]_vars
  /\ \A p \in Plugin : WF_vars(Run(p)) /\ WF_vars(Stopped(p))
  /\ WF_vars(KubeletStarts) /\ WF_vars(ProcessStarts)

-----------------------------------------------------------------------------
(***************************************************************************)
(* Run rests in its select (plugin.go:44-58) only while the kubelet knows  *)
(* the plugin or something is there to wake it up, whatever the kubelet    *)
(* does between the steps: a socket removed between Wait and Register, a   *)
(* restart between Register and the select, an end of the process.         *)
(***************************************************************************)
RestsOnlyRegistered ==
  \A p \in Plugin :
    up /\ At(p, "select") => p \in registered \/ errChan[p] + events[p] > 0

(***************************************************************************)
(* After a restart of the kubelet and an end of the process, and if no     *)
(* registration fails while the kubelet is up, every plugin is registered  *)
(* in the end and stays so (plugin.go:25-59).  A second restart of the     *)
(* kubelet can break this: see PushHasRoom.                                *)
(***************************************************************************)
EndsRegistered == \A p \in Plugin : <>[](p \in registered)

(***************************************************************************)
(* plugin.go:47, "register error": an error of the registration is taken   *)
(* from errChan, logged and followed by a restart.  The buffer of one is   *)
(* meant to take it (plugin.go:26): Run, which also empties the channel,   *)
(* never waits for room in it.                                             *)
(***************************************************************************)
PushHasRoom == \A p \in Plugin : At(p, "push") => errChan[p] = 0
=============================================================================
