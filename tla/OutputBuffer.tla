---------------------------- MODULE OutputBuffer ----------------------------
(***************************************************************************)
(* What be_encode (bencode/bencode.c) promises its caller about the buffer *)
(* it is given: it is filled from its start, a byte that has been written  *)
(* is never written again, nothing is written beyond its size, and the     *)
(* answer comes last and says how much was written, that it did not fit,   *)
(* or how much is needed when there is no buffer.                          *)
(*                                                                         *)
(* There is one buffer and one place to write at here.  The code has a     *)
(* cursor, a room and a size of its own in each nested call (BeEncode),    *)
(* and implements this specification.                                      *)
(***************************************************************************)
EXTENDS Integers, Sequences

VARIABLES
    log,      \* the bytes written so far
    size,     \* the size of the buffer, 0 when there is none
    sizing,   \* whether only the size is asked for
    answer    \* Pending until the call returns, then its result

Pending == -3
Crashed == -2
Failed  == -1

bufferVars == <<log, size, sizing, answer>>

Init ==
    /\ log = <<>>
    /\ size \in Nat
    /\ sizing \in BOOLEAN
    /\ sizing => size = 0
    /\ answer = Pending

(* More bytes are added at the end.                                        *)
Add ==
    /\ answer = Pending
    /\ Len(log') <= size
    /\ Len(log') >= Len(log)
    /\ SubSeq(log', 1, Len(log)) = log
    /\ UNCHANGED <<size, sizing, answer>>

(* The call returns the number of bytes written or needed, or fails.       *)
Answer ==
    /\ answer = Pending
    /\ answer' = Failed \/ (answer' >= 0 /\ (sizing \/ answer' = Len(log)))
    /\ UNCHANGED <<log, size, sizing>>

(* The process dies on a NULL string.                                      *)
Crash ==
    /\ answer = Pending
    /\ answer' = Crashed
    /\ UNCHANGED <<log, size, sizing>>

Next == Add \/ Answer \/ Crash

Spec == Init /\ [][Next]_bufferVars
=============================================================================
