------------------------------ MODULE MCCpipe -------------------------------
(* Small instances of Cpipe for TLC.                                       *)
EXTENDS Cpipe

C(op, d, nb, data, n, want) ==
    [op |-> op, dev |-> d, nb |-> nb, count |-> n, data |-> data, want |-> want]

ReadC(d, nb, n)   == C("read", d, nb, << >>, n, {})
WriteC(d, nb, s)  == C("write", d, nb, s, Len(s), {})
PollC(d, want)    == C("poll", d, FALSE, << >>, 0, want)

\* Reads on device 0 and writes on its twin, of one and of two bytes (the
\* kfifo holds two), blocking or not; polls and ioctls that contend for the
\* same mutexes; and a write in the other direction.
AllCalls ==
    { ReadC(0, FALSE, 2), ReadC(0, FALSE, 1), ReadC(0, TRUE, 1), WriteC(0, FALSE, <<"x">>),
      WriteC(1, FALSE, <<"x", "y">>), WriteC(1, TRUE, <<"y">>),
      PollC(0, {"IN"}), PollC(1, {"IN", "OUT"}),
      C("availrd", 0, TRUE, << >>, 0, {}), C("availwr", 1, FALSE, << >>, 0, {}) }

\* One direction, blocking calls, one byte at a time through a one-byte kfifo.
LiveCalls == { ReadC(0, FALSE, 1), WriteC(1, FALSE, <<"x">>) }

PollCalls == { ReadC(0, FALSE, 1), WriteC(1, FALSE, <<"x">>), PollC(0, {"IN"}) }
=============================================================================
