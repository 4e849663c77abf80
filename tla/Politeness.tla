------------------------------ MODULE Politeness ------------------------------
(***************************************************************************)
(* What the crawler promises every registered domain: two consecutive      *)
(* requests are written to that domain's servers at least Gap apart, on    *)
(* the wire, whatever happened in between.                                 *)
(***************************************************************************)
EXTENDS Naturals

CONSTANTS
  Domain,  \* registered domains (eTLD+1)
  Gap      \* the least time between two requests to one domain

VARIABLES
  now,     \* the monotonic clock
  wire,    \* wire[d]: when the last request was written to d
  writes   \* writes[d]: how many requests have been written to d

vars == <<now, wire, writes>>

Init ==
  /\ now \in Nat
  /\ wire = [d \in Domain |-> 0]
  /\ writes = [d \in Domain |-> 0]

\* Time passes, by one unit or by the whole pause around a restart.
Pass == now' > now /\ UNCHANGED <<wire, writes>>

\* One request reaches d.
Write(d) ==
  /\ writes[d] > 0 => now >= wire[d] + Gap
  /\ wire' = [wire EXCEPT ![d] = now]
  /\ writes' = [writes EXCEPT ![d] = @ + 1]
  /\ UNCHANGED now

Next == Pass \/ \E d \in Domain : Write(d)

Spec == Init /\ [][Next]_vars
===============================================================================
