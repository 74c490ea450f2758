------------------------------ MODULE AtvRemote -----------------------------
(***************************************************************************)
(* AppleTVBridge.send: it finds the tool atvremote, starts it with a pipe  *)
(* for each of its two outputs, waits for it to exit, and only then reads  *)
(* the pipes.  A pipe holds Capacity portions of what the tool writes.     *)
(***************************************************************************)
EXTENDS Naturals

CONSTANTS
  Capacity,  \* what a pipe holds, 64 KiB on macOS
  MaxOutput  \* the most that the tool writes to a pipe

ASSUME PipesAssumption == Capacity \in Nat \ {0} /\ MaxOutput \in Nat

Pipes == {"out", "err"}

VARIABLES
  bridge,   \* where send() stands
  success,  \* what it returned
  tool,     \* "none", "running", "exited" with status 0, or "failed"
  left,     \* left[p]: what the tool has yet to write to p
  piped,    \* piped[p]: what is in p
  read      \* read[p]: what was read from p

remoteVars == <<bridge, success, tool, left, piped, read>>

RemoteInit ==
  /\ bridge = "idle"
  /\ success = FALSE
  /\ tool = "none"
  /\ left = [p \in Pipes |-> 0]
  /\ piped = [p \in Pipes |-> 0]
  /\ read = [p \in Pipes |-> 0]

-----------------------------------------------------------------------------
(* send()                                                                  *)

\* The tool may not be installed.
FindPath ==
  /\ bridge = "find"
  /\ bridge' \in {"run", "done"}
  /\ UNCHANGED <<success, tool, left, piped, read>>

\* run() may throw.
RunTool ==
  /\ bridge = "run"
  /\ \/ /\ bridge' = "wait"
        /\ tool' = "running"
        /\ left' \in [Pipes -> 0..MaxOutput]
     \/ bridge' = "done" /\ UNCHANGED <<tool, left>>
  /\ UNCHANGED <<success, piped, read>>

\* There is no limit to this wait, and nobody reads the pipes meanwhile.
WaitUntilExit ==
  /\ bridge = "wait"
  /\ tool \in {"exited", "failed"}
  /\ bridge' = "out"
  /\ UNCHANGED <<success, tool, left, piped, read>>

\* readDataToEndOfFile()
Take(p) ==
  /\ read' = [read EXCEPT ![p] = @ + piped[p]]
  /\ piped' = [piped EXCEPT ![p] = 0]

ReadOut ==
  /\ bridge = "out"
  /\ bridge' = "err"
  /\ Take("out")
  /\ UNCHANGED <<success, tool, left>>

\* Faulty variant: success does not depend on the status.
ReadErrBlindly ==
  /\ bridge = "err"
  /\ bridge' = "done"
  /\ Take("err")
  /\ success' = TRUE
  /\ UNCHANGED <<tool, left>>

\* send() returns, with success when the status is 0.
ReadErr ==
  /\ bridge = "err"
  /\ bridge' = "done"
  /\ Take("err")
  /\ success' = (tool = "exited")
  /\ UNCHANGED <<tool, left>>

BridgeStep == FindPath \/ RunTool \/ WaitUntilExit \/ ReadOut \/ ReadErr

-----------------------------------------------------------------------------
(* The tool.                                                               *)

WritePipe(p) ==
  /\ tool = "running"
  /\ left[p] > 0
  /\ piped[p] < Capacity
  /\ left' = [left EXCEPT ![p] = @ - 1]
  /\ piped' = [piped EXCEPT ![p] = @ + 1]
  /\ UNCHANGED <<bridge, success, tool, read>>

ExitTool ==
  /\ tool = "running"
  /\ \A p \in Pipes : left[p] = 0
  /\ tool' \in {"exited", "failed"}
  /\ UNCHANGED <<bridge, success, left, piped, read>>

\* The tool waits for room in a pipe, and send() for the tool.
Clogged == tool = "running" /\ \E p \in Pipes : left[p] > 0 /\ piped[p] = Capacity

ToolStep == (\E p \in Pipes : WritePipe(p)) \/ ExitTool

=============================================================================
