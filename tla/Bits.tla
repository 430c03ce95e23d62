-------------------------------- MODULE Bits --------------------------------
(***************************************************************************)
(* What bitset promises: a sequence of bits, addressed from 0.  "call" is  *)
(* the call that a step makes and "answer" what it returns: the old bit,   *)
(* or how many bits of the range there are.                                *)
(***************************************************************************)
EXTENDS Integers, Sequences

VARIABLES bits, call, answer

vars == <<bits, call, answer>>

Init == bits = << >> /\ answer = 0

Inside(i) == call'.index <= i /\ i < call'.index + call'.count

Bit(i) == bits[i + 1]

(* The bits of the range that there are.                                   *)
Clipped == {i \in 0..(Len(bits) - 1) : Inside(i)}

Cut(n) == IF n < 0 THEN 0 ELSE n

RangeCount ==
    Cut(IF call'.index + call'.count > Len(bits) THEN Len(bits) - call'.index ELSE call'.count)

Changed(New(_)) == bits' = [i \in DOMAIN bits |-> IF i - 1 \in Clipped THEN New(i - 1) ELSE bits[i]]

Given(i) == call'.values[(i - call'.index) + 1]

Range ==
    /\ \/ call'.op = "set" /\ Changed(LAMBDA i : 1)
       \/ call'.op = "unset" /\ Changed(LAMBDA i : 0)
       \/ call'.op = "toggle" /\ Changed(LAMBDA i : 1 - Bit(i))
       \/ call'.op = "values" /\ Changed(Given)
    /\ answer' = RangeCount

(* One bit: the answer is what it was, or 0 if there is no such bit.       *)
One ==
    /\ \/ call'.op = "set1" /\ Changed(LAMBDA i : 1)
       \/ call'.op = "unset1" /\ Changed(LAMBDA i : 0)
       \/ call'.op = "toggle1" /\ Changed(LAMBDA i : 1 - Bit(i))
    /\ answer' = IF call'.index < Len(bits) THEN Bit(call'.index) ELSE 0

(* Bits that resize() adds are 0.                                          *)
Resized(n) == [i \in 1..n |-> IF i \in DOMAIN bits THEN bits[i] ELSE 0]

Resize ==
    /\ call'.op = "resize"
    /\ \/ answer' = 1 /\ bits' = Resized(call'.count)
       \/ answer' = 0 /\ UNCHANGED bits

Clear == call'.op = "clear" /\ bits' = << >> /\ answer' = 0

(* The other bitset was resized and no bit set.                            *)
Swap == call'.op = "swap" /\ bits' = [i \in 1..call'.count |-> 0] /\ answer' = 0

Next == Range \/ One \/ Resize \/ Clear \/ Swap

Spec == Init /\ [][Next]_vars
=============================================================================
