-------------------------------- MODULE Loop --------------------------------
(***************************************************************************)
(* What a loop operator promises, whatever buffers it uses: iteration      *)
(* after iteration the body is applied to the values it gave before, and   *)
(* the rows no iteration gives are zero.                                   *)
(***************************************************************************)
EXTENDS LoopBody

CONSTANT Loops

VARIABLES loop, count, more, carried, rows, over

loopVars == <<loop, count, more, carried, rows, over>>

Init ==
  /\ loop \in Loops
  /\ count = 0 /\ more = loop.start
  /\ carried = [d \in Carried |-> Initial(d)]
  /\ rows = [s \in Scans |-> [i \in 0..(MaxIterations(loop) - 1) |-> Zero]]
  /\ over = FALSE

GoesOn == count < IterNum(loop) /\ more

(* The value of output o of the body. *)
Output(o) ==
  LET out == loop.outs[o]
  IN IF out = Param(0) THEN more
     ELSE IF out[1] = "param" THEN carried[out[2]]
     ELSE Result(loop, out[2], count, carried)

Iterate ==
  /\ ~ over /\ GoesOn
  /\ count' = count + 1
  /\ more' = Output(0)
  /\ carried' = [d \in Carried |-> Output(d)]
  /\ rows' = [s \in Scans |-> [rows[s] EXCEPT ![Row(loop, s, count)] = Output(DepNum + s)]]
  /\ UNCHANGED <<loop, over>>

End ==
  /\ ~ over /\ ~ GoesOn
  /\ over' = TRUE
  /\ UNCHANGED <<loop, count, more, carried, rows>>

Next == Iterate \/ End

Spec == Init /\ [][Next]_loopVars
=============================================================================
