------------------------------- MODULE Allocator -------------------------------
(***************************************************************************)
(* What sfmm.h promises a client of the memory allocator of hw3: the       *)
(* payloads it holds are apart from each other, each with room for the     *)
(* bytes asked for, until the client gives them back.  Nothing is said of  *)
(* the heap behind it.                                                     *)
(***************************************************************************)
EXTENDS Integers

CONSTANTS Lines,     \* the lines of 16 bytes the heap may have
          Requests   \* the numbers of bytes a client asks for

VARIABLE held        \* the payloads the client holds: first line |-> bytes

Address == 1..Lines

\* The payloads, and the 8 bytes of header in front of each, do not overlap.
Apart(h) == \A b, c \in DOMAIN h :
              b # c => \/ 16 * b + h[b] <= 16 * c - 8
                       \/ 16 * c + h[c] <= 16 * b - 8

\* h without the payload at b.
Without(h, b) == [c \in DOMAIN h \ {b} |-> h[c]]

\* h and a payload of n bytes at b, which is free in h.
With(h, b, n) == [c \in DOMAIN h \cup {b} |-> IF c = b THEN n ELSE h[c]]

Init == held = [b \in {} |-> 0]

\* A payload is handed out, apart from those that are held.
Malloc ==
    \E n \in Requests, b \in Address \ DOMAIN held :
       /\ held' = With(held, b, n)
       /\ Apart(held') /\ 16 * b + n <= 16 * Lines

Free == \E b \in DOMAIN held : held' = Without(held, b)

\* A payload gets another size, where it is or elsewhere.
Realloc ==
    \E n \in Requests, b \in DOMAIN held, c \in Address :
       /\ c # b => c \notin DOMAIN held /\ Apart(With(held, c, n))
       /\ held' = With(Without(held, b), c, n)
       /\ Apart(held') /\ 16 * c + n <= 16 * Lines

Next == Malloc \/ Free \/ Realloc

Spec == Init /\ [][Next]_held
================================================================================
