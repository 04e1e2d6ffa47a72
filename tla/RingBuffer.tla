----------------------------- MODULE RingBuffer -----------------------------
(***************************************************************************)
(* RingBuffer of api/process.go: the last lines of a process's output in   *)
(* an array of fixed length.  Every method holds rb.mu throughout, so that *)
(* each is one operator.                                                   *)
(***************************************************************************)
EXTENDS Naturals, Sequences

CONSTANTS Cap,    \* defaultRingBufferCap (1000)
          NoLine  \* the zero LogLine

ASSUME CapAssumption == Cap \in Nat \ {0}

NewRingBuffer == [lines |-> [i \in 0..(Cap - 1) |-> NoLine], start |-> 0, count |-> 0]

(* A full buffer gives its oldest line up.  Mutant: start stays.           *)
StartKept(rb)     == rb.start
StartAdvanced(rb) == IF rb.count = Cap THEN (rb.start + 1) % Cap ELSE rb.start

Appended(rb, line) ==
  [lines |-> [rb.lines EXCEPT ![(rb.start + rb.count) % Cap] = line],
   start |-> StartAdvanced(rb),
   count |-> IF rb.count = Cap THEN rb.count ELSE rb.count + 1]

(* Tail: the last n lines, or all if there are fewer.  Lines: all of them. *)
TailOf(rb, n) ==
  LET size == IF n > rb.count THEN rb.count ELSE n IN
  [i \in 1..size |-> rb.lines[(rb.start + (rb.count - size) + (i - 1)) % Cap]]

LinesOf(rb) == [i \in 1..rb.count |-> rb.lines[(rb.start + (i - 1)) % Cap]]
=============================================================================
