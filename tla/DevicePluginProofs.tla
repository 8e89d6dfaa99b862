-------------------------- MODULE DevicePluginProofs --------------------------
(***************************************************************************)
(* For any number of plugins, of restarts of the kubelet, of failing       *)
(* registrations and of ends of the process: Run never rests in its select *)
(* unregistered and with nothing to wake it up (plugin.go:25-59), provided *)
(* that the old server has stopped before the new one listens.             *)
(***************************************************************************)
EXTENDS DevicePluginServer, TLAPS

Places == {"stop", "serve", "wait", "register", "push", "select", "ended"}

PluginTypeOK ==
  /\ pc \in [Plugin -> Places]
  /\ errChan \in [Plugin -> Nat] /\ events \in [Plugin -> Nat]
  /\ up \in BOOLEAN

\* Only the server of an earlier round is being stopped, and Run waits for it.
OldServerStops == \A p \in Plugin : p \in stopping => At(p, "serve")

\* The socket that Wait could dial goes only with an event of the new kubelet.
SocketOrEvent == \A p \in Plugin : At(p, "register") => p \in socket \/ events[p] > 0

RestInv == PluginTypeOK /\ OldServerStops /\ SocketOrEvent /\ RestsOnlyRegistered

(***************************************************************************)
(* The places, channels and counts keep their types.                       *)
(***************************************************************************)
LEMMA TypeStep == PluginTypeOK /\ [Next]_vars => PluginTypeOK'
<1> SUFFICES ASSUME PluginTypeOK, [Next]_vars PROVE PluginTypeOK'
  OBVIOUS
<1> USE DEF PluginTypeOK, Places, At, Goto, pluginVars, kubeletVars
<1>1. ASSUME NEW p \in Plugin, Run(p) PROVE PluginTypeOK'
  BY <1>1 DEF Run, Stop, Serve, Wait, Register, RegisterFails, Push, Select
<1>2. ASSUME NEW p \in Plugin, Stopped(p) PROVE PluginTypeOK'
  BY <1>2 DEF Stopped
<1>3. CASE KubeletStops
  BY <1>3 DEF KubeletStops
<1>4. CASE KubeletStarts
  <2>1. events' \in [Plugin -> Nat]
    BY <1>4 DEF KubeletStarts
  <2> QED
    BY <1>4, <2>1 DEF KubeletStarts
<1>5. CASE ProcessEnds
  BY <1>5 DEF ProcessEnds
<1>6. CASE ProcessStarts
  BY <1>6 DEF ProcessStarts
<1>7. CASE UNCHANGED vars
  BY <1>7 DEF vars
<1> QED
  BY <1>1, <1>2, <1>3, <1>4, <1>5, <1>6, <1>7 DEF Next

(***************************************************************************)
(* Prompt: Serve (plugin.go:82) begins when GracefulStop of the old server *)
(* (plugin.go:98-102) is done.                                             *)
(***************************************************************************)
LEMMA OldServerStep ==
  ASSUME Prompt, PluginTypeOK, OldServerStops, [Next]_vars
  PROVE  OldServerStops'
<1> USE DEF PluginTypeOK, OldServerStops, At, Goto, pluginVars, kubeletVars
<1>1. ASSUME NEW p \in Plugin, Run(p) PROVE OldServerStops'
  BY <1>1 DEF Run, Stop, Serve, Wait, Register, RegisterFails, Push, Select
<1>2. ASSUME NEW p \in Plugin, Stopped(p) PROVE OldServerStops'
  BY <1>2 DEF Stopped
<1>3. CASE KubeletStops \/ KubeletStarts \/ ProcessEnds \/ ProcessStarts
  BY <1>3 DEF KubeletStops, KubeletStarts, ProcessEnds, ProcessStarts
<1>4. CASE UNCHANGED vars
  BY <1>4 DEF vars
<1> QED
  BY <1>1, <1>2, <1>3, <1>4 DEF Next

(***************************************************************************)
(* A socket is lost by the stop of its old server, which is over at that   *)
(* place, by a new kubelet, which leaves an event, or by the end of the    *)
(* process, after which Run begins anew.                                   *)
(***************************************************************************)
LEMMA SocketStep ==
  ASSUME PluginTypeOK, OldServerStops, SocketOrEvent, [Next]_vars
  PROVE  SocketOrEvent'
<1> USE DEF PluginTypeOK, OldServerStops, SocketOrEvent, At, Goto, pluginVars, kubeletVars
<1>1. ASSUME NEW p \in Plugin, Run(p) PROVE SocketOrEvent'
  BY <1>1 DEF Run, Stop, Serve, Wait, Register, RegisterFails, Push, Select
<1>2. ASSUME NEW p \in Plugin, Stopped(p) PROVE SocketOrEvent'
  BY <1>2 DEF Stopped
<1>3. CASE KubeletStops \/ KubeletStarts \/ ProcessEnds \/ ProcessStarts
  BY <1>3 DEF KubeletStops, KubeletStarts, ProcessEnds, ProcessStarts
<1>4. CASE UNCHANGED vars
  BY <1>4 DEF vars
<1> QED
  BY <1>1, <1>2, <1>3, <1>4 DEF Next

(***************************************************************************)
(* Run enters its select registered, or with an event since its socket was *)
(* made, or with the error of Register; it loses the registration only     *)
(* when the kubelet is down, and its return is an event.                   *)
(***************************************************************************)
LEMMA RestStep ==
  ASSUME PluginTypeOK, SocketOrEvent, RestsOnlyRegistered, [Next]_vars
  PROVE  RestsOnlyRegistered'
<1> USE DEF PluginTypeOK, SocketOrEvent, RestsOnlyRegistered, At, Goto, pluginVars, kubeletVars
<1>1. ASSUME NEW p \in Plugin, Run(p) PROVE RestsOnlyRegistered'
  <2>1. CASE Stop(p) \/ Serve(p) \/ Wait(p)
    BY <2>1 DEF Stop, Serve, Wait
  <2>2. CASE Register(p)
    BY <2>2 DEF Register
  <2>3. CASE RegisterFails(p)
    BY <2>3 DEF RegisterFails
  <2>4. CASE Push(p)
    BY <2>4 DEF Push
  <2>5. CASE Select(p)
    BY <2>5 DEF Select
  <2> QED
    BY <1>1, <2>1, <2>2, <2>3, <2>4, <2>5 DEF Run
<1>2. ASSUME NEW p \in Plugin, Stopped(p) PROVE RestsOnlyRegistered'
  BY <1>2 DEF Stopped
<1>3. CASE KubeletStops \/ KubeletStarts
  BY <1>3 DEF KubeletStops, KubeletStarts
<1>4. CASE ProcessEnds \/ ProcessStarts
  BY <1>4 DEF ProcessEnds, ProcessStarts
<1>5. CASE UNCHANGED vars
  BY <1>5 DEF vars
<1> QED
  BY <1>1, <1>2, <1>3, <1>4, <1>5 DEF Next

(***************************************************************************)
(* Run rests in its select (plugin.go:44-58) only registered, or with an   *)
(* error or an event to wake it up.                                        *)
(***************************************************************************)
THEOREM RestsOnlyRegisteredHolds == Prompt => (Spec => []RestsOnlyRegistered)
<1> SUFFICES ASSUME Prompt PROVE Spec => []RestsOnlyRegistered
  OBVIOUS
<1>1. Init => RestInv
  BY DEF Init, RestInv, PluginTypeOK, Places, OldServerStops, SocketOrEvent,
         RestsOnlyRegistered, At
<1>2. RestInv /\ [Next]_vars => RestInv'
  BY TypeStep, OldServerStep, SocketStep, RestStep DEF RestInv
<1>3. RestInv => RestsOnlyRegistered
  BY DEF RestInv
<1> QED
  BY <1>1, <1>2, <1>3, PTL DEF Spec
=============================================================================
