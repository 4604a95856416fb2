------------------------------ MODULE KeepAlive ------------------------------
(***************************************************************************)
(* The video keep-alive of the VM (lalah-vm/video.rs) around a capture       *)
(* (lalah-vm/main.rs): the main thread starts a worker, waits until it       *)
(* reports on a channel of one place, captures, and at its end signals the   *)
(* worker and joins it.  The worker opens the DirectShow graph, polls its    *)
(* events and restarts it when it has halted.  The graph is the operating    *)
(* system's, as the calls see it.                                            *)
(***************************************************************************)
EXTENDS Integers, Sequences

CONSTANTS
  RunFails,   (* may Run fail on a graph that has halted? the choices        *)
  MaxHalts    (* bound: times the graph halts by itself, and how many events *)
              (* may wait when it posts one of another kind                  *)

VARIABLES
  mpc,              (* main thread: control state                            *)
  stop, channel,    (* the stop flag; the report, if it is in the channel    *)
  wpc,              (* worker: control state                                 *)
  streaming, events,  (* graph: does it run; its event queue                 *)
  halts             (* times it halted by itself                             *)

vars == <<mpc, stop, channel, wpc, streaming, events, halts>>

(* The events worker restarts the graph for, and one it passes over.         *)
Fatal == {"complete", "errorabort", "userabort"}
Other == {"other"}

Init ==
  /\ mpc = "start" /\ stop = FALSE /\ channel = <<>>
  /\ wpc = "off" /\ streaming = FALSE /\ events = <<>> /\ halts = 0

-----------------------------------------------------------------------------
(* THE MAIN THREAD                                                           *)

(* Spawn the worker; without a thread the capture goes on without it.        *)
Spawn ==
  /\ mpc = "start"
  /\ \/ mpc' = "recv" /\ wpc' = "open"
     \/ mpc' = "capturealone" /\ UNCHANGED wpc
  /\ UNCHANGED <<stop, channel, streaming, events, halts>>

(* The report: with the device open the capture begins, else, or when the    *)
(* worker has ended and its end of the channel is gone, it is joined first.  *)
Recv ==
  /\ mpc = "recv"
  /\ \/ /\ channel # <<>>
        /\ mpc' = (IF Head(channel) = "ok" THEN "capture" ELSE "joinfailed")
     \/ channel = <<>> /\ wpc = "ended" /\ mpc' = "joinfailed"
  /\ channel' = <<>>
  /\ UNCHANGED <<stop, wpc, streaming, events, halts>>

JoinFailed ==
  /\ mpc = "joinfailed"
  /\ wpc = "ended"
  /\ mpc' = "capturealone"
  /\ UNCHANGED <<stop, channel, wpc, streaming, events, halts>>

(* Mutant: the worker is joined without a signal.                            *)
CaptureEndsUnsignalled ==
  /\ mpc \in {"capture", "capturealone"}
  /\ mpc' = (IF mpc = "capture" THEN "join" ELSE "exit")
  /\ UNCHANGED <<stop, channel, wpc, streaming, events, halts>>

(* The capture ends; with a keep-alive, shutdown signals the worker ...      *)
CaptureEnds ==
  /\ mpc \in {"capture", "capturealone"}
  /\ IF mpc = "capture"
       THEN mpc' = "join" /\ stop' = TRUE
       ELSE mpc' = "exit" /\ UNCHANGED stop
  /\ UNCHANGED <<channel, wpc, streaming, events, halts>>

(* ... and joins it.                                                         *)
Join ==
  /\ mpc = "join"
  /\ wpc = "ended"
  /\ mpc' = "exit"
  /\ UNCHANGED <<stop, channel, wpc, streaming, events, halts>>

-----------------------------------------------------------------------------
(* THE WORKER                                                                *)

(* open_graph: a device is found and its graph runs, or an error is reported,*)
(* or the thread panics in it and its sender is dropped (a debug build; the  *)
(* release profile aborts the process).                                      *)
OpenGraph ==
  /\ wpc = "open"
  /\ \/ streaming' = TRUE /\ channel' = <<"ok">> /\ wpc' = "loop"
     \/ channel' = <<"error">> /\ wpc' = "ended" /\ UNCHANGED streaming
     \/ wpc' = "ended" /\ UNCHANGED <<channel, streaming>>
  /\ UNCHANGED <<mpc, stop, events, halts>>

(* keep_alive_loop reads the flag.                                           *)
ReadFlag ==
  /\ wpc = "loop"
  /\ wpc' = (IF stop THEN "stopgraph" ELSE "poll")
  /\ UNCHANGED <<mpc, stop, channel, streaming, events, halts>>

(* GetEvent: nothing, an event to pass over, or one the graph halted with.   *)
Poll ==
  /\ wpc = "poll"
  /\ IF events = <<>>
       THEN wpc' = "loop" /\ UNCHANGED events
       ELSE /\ events' = Tail(events)
            /\ wpc' = (IF Head(events) \in Fatal THEN "restart" ELSE "loop")
  /\ UNCHANGED <<mpc, stop, channel, streaming, halts>>

(* Stop, then Run, whose failure is ignored.                                 *)
Restart ==
  /\ wpc = "restart"
  /\ \E fails \in RunFails : streaming' = ~ fails
  /\ wpc' = "loop"
  /\ UNCHANGED <<mpc, stop, channel, events, halts>>

(* Mutant: the worker ends without stopping the graph.                       *)
LeaveGraph ==
  /\ wpc = "stopgraph"
  /\ wpc' = "ended"
  /\ UNCHANGED <<mpc, stop, channel, streaming, events, halts>>

(* Stop the graph before the COM objects are released.                       *)
StopGraph ==
  /\ wpc = "stopgraph"
  /\ streaming' = FALSE
  /\ wpc' = "ended"
  /\ UNCHANGED <<mpc, stop, channel, events, halts>>

-----------------------------------------------------------------------------
(* THE GRAPH                                                                 *)

(* It halts, and says so with one of the fatal events.                       *)
Halt ==
  /\ streaming
  /\ halts < MaxHalts
  /\ streaming' = FALSE
  /\ halts' = halts + 1
  /\ \E e \in Fatal : events' = Append(events, e)
  /\ UNCHANGED <<mpc, stop, channel, wpc>>

(* It posts an event of another kind.                                        *)
Notify ==
  /\ streaming
  /\ Len(events) < MaxHalts
  /\ \E e \in Other : events' = Append(events, e)
  /\ UNCHANGED <<mpc, stop, channel, wpc, streaming, halts>>

-----------------------------------------------------------------------------
Main   == Spawn \/ Recv \/ JoinFailed \/ Join
Worker == OpenGraph \/ ReadFlag \/ Poll \/ Restart \/ StopGraph

Graph  == Halt \/ Notify

-----------------------------------------------------------------------------
TypeOK ==
  /\ mpc \in {"start", "recv", "joinfailed", "capture", "capturealone", "join", "exit"}
  /\ stop \in BOOLEAN
  /\ channel \in Seq({"ok", "error"}) /\ Len(channel) <= 1
  /\ wpc \in {"off", "open", "loop", "poll", "restart", "stopgraph", "ended"}
  /\ streaming \in BOOLEAN /\ events \in Seq(Fatal \cup Other) /\ halts \in 0 .. MaxHalts

(***************************************************************************)
(* "Dropping signals the worker thread to stop and joins it": once the main  *)
(* thread is past the keep-alive, a worker there was has ended and its graph *)
(* is stopped, also if it was being restarted when the signal came.          *)
(***************************************************************************)
LeavesNoGraph == mpc = "exit" => wpc \in {"off", "ended"} /\ ~ streaming

=============================================================================
